--------------------------- MODULE RiskStateProofs ---------------------------
(***************************************************************************)
(* An isolate with its KV record, for any savers, balances, cool-down, TTL *)
(* and clock.  Every step of the composition is a step of the risk state   *)
(* or leaves it alone, so what SystemStateProofs proves holds here; and a  *)
(* live locked record is unlocked only by the put of a save that failed to *)
(* read it or was overtaken.  HeldIsCurrent is the strengthening the       *)
(* second part needs: what a sound save holds across its await is the      *)
(* record still in KV, or that record has expired meanwhile.               *)
(***************************************************************************)
EXTENDS RiskState, SystemStateProofs

LEMMA MergeType ==
  ASSUME NEW a \in StateRecords, NEW b \in StateRecords
  PROVE  Merge(a, b) \in StateRecords
BY DEF Merge, Lesser, StateRecords, CRI_MIN, CRI_MAX

(* system-state.ts:23: the merge is deterministic, whichever of two        *)
(* records is called local.                                                *)
THEOREM MergeCommutes ==
  ASSUME NEW a \in StateRecords, NEW b \in StateRecords
  PROVE  Merge(a, b) = Merge(b, a)
<1>1. Lesser(a.cri, b.cri) = Lesser(b.cri, a.cri)
  BY DEF Lesser, StateRecords, CRI_MIN, CRI_MAX
<1>2. Lesser(a.balance, b.balance) = Lesser(b.balance, a.balance)
  BY DEF Lesser, StateRecords
<1>3. (a.hardlock \/ b.hardlock) <=> (b.hardlock \/ a.hardlock)
  OBVIOUS
<1> QED
  BY <1>1, <1>2, <1>3, Zenon DEF Merge

(* The merge is conservative: it never raises a CRI or a balance, never    *)
(* loses a lock, and never leaves a locked channel open.                   *)
THEOREM MergeConservative ==
  ASSUME NEW a \in StateRecords, NEW b \in StateRecords
  PROVE  /\ Merge(a, b).cri <= a.cri /\ Merge(a, b).cri <= b.cri
         /\ Merge(a, b).balance <= a.balance /\ Merge(a, b).balance <= b.balance
         /\ a.hardlock \/ b.hardlock => Merge(a, b).hardlock
         /\ Merge(a, b).hardlock => ~Merge(a, b).open
<1>1. /\ Lesser(a.cri, b.cri) <= a.cri /\ Lesser(a.cri, b.cri) <= b.cri
      /\ Lesser(a.balance, b.balance) <= a.balance /\ Lesser(a.balance, b.balance) <= b.balance
  BY DEF Lesser, StateRecords, CRI_MIN, CRI_MAX
<1> QED
  BY <1>1, Zenon DEF Merge

-----------------------------------------------------------------------------
HeldIsCurrent ==
  \A s \in saving : call[s].sound =>
    IF call[s].found THEN call[s].existing = kv.state ELSE ~Live

RiskInv == SysInv /\ KvTypeOK /\ HeldIsCurrent

LEMMA RiskInitInv == RiskInit => RiskInv
<1> SUFFICES ASSUME RiskInit PROVE RiskInv
  OBVIOUS
<1>1. SysInv
  BY InitSysInv DEF RiskInit
<1>2. HealthyState \in StateRecords
  BY DEF HealthyState, StateRecords, CRI_MIN, CRI_MAX
<1> HIDE DEF HealthyState
<1>3. kv \in [state : StateRecords, expiresAt : Nat]
  BY <1>2 DEF RiskInit, KvInit
<1>4. call \in [Saver -> Calls]
  BY <1>2 DEF RiskInit, KvInit, NoCall, Calls
<1>5. saving = {}
  BY DEF RiskInit, KvInit
<1> QED
  BY <1>1, <1>3, <1>4, <1>5 DEF RiskInv, KvTypeOK, HeldIsCurrent

(* Every step of the composition is one of the risk state, or leaves it.   *)
LEMMA ProcessStep == [RiskNext]_riskVars => [SysNext]_sysVars
<1> SUFFICES ASSUME [RiskNext]_riskVars PROVE [SysNext]_sysVars
  OBVIOUS
<1>1. ASSUME NEW s \in Saver, NEW b \in Balance,
             EscalateAndSave(s, b) \/ ReleaseAndSave(s, b)
      PROVE  SysNext
  <2>1. "R20" \in Targets
    BY DEF Targets
  <2> QED
    BY <1>1, <2>1 DEF EscalateAndSave, ReleaseAndSave, SysNext, IsolateStep
<1>2. ASSUME NEW s \in Saver, PutReturns(s) PROVE UNCHANGED sysVars
  BY <1>2 DEF PutReturns
<1>3. ASSUME NEW s \in Saver, NEW b \in Balance, NEW c \in MarketCri, PublishMarket(s, b, c)
      PROVE  UNCHANGED sysVars
  BY <1>3 DEF PublishMarket
<1>4. CASE Evicted
  BY <1>4 DEF Evicted, SysNext
<1>5. CASE IsolateStep
  BY <1>5 DEF SysNext
<1>6. CASE UNCHANGED riskVars
  BY <1>6 DEF riskVars
<1> QED
  BY <1>1, <1>2, <1>3, <1>4, <1>5, <1>6 DEF RiskNext

(* What a step does to the record and to the saves on their way.           *)
LEMMA SaveStep ==
  ASSUME RiskInv, [RiskNext]_riskVars
  PROVE  \/ \E s \in Saver, p \in StateRecords : ReadForSave(s, p)
         \/ \E s \in Saver : PutSaved(s) \/ PutFails(s)
         \/ kv' = kv /\ saving' = {} /\ call' = [s \in Saver |-> NoCall] /\ now' = now
         \/ UNCHANGED kvVars /\ now' \in Nat /\ now' >= now
<1> USE RiskAssumption
<1>1. sys' \in SystemStates
  BY ProcessStep, SysInvStep DEF RiskInv, SysInv, SysTypeOK
<1>2. \A b \in Balance : Saved(sys', b) \in StateRecords
  BY <1>1 DEF Saved, StateRecords, SystemStates, CRI_MIN, CRI_MAX
<1>3. \A b \in Balance, c \in MarketCri : MarketState(b, c) \in StateRecords
  BY DEF MarketState, StateRecords, CRI_MIN, CRI_MAX
<1>4. ASSUME NEW s \in Saver, NEW b \in Balance,
             EscalateAndSave(s, b) \/ ReleaseAndSave(s, b)
      PROVE  ReadForSave(s, Saved(sys', b))
  BY <1>4 DEF EscalateAndSave, ReleaseAndSave
<1>5. ASSUME NEW s \in Saver, NEW b \in Balance, NEW c \in MarketCri, PublishMarket(s, b, c)
      PROVE  ReadForSave(s, MarketState(b, c))
  BY <1>5 DEF PublishMarket
<1>6. CASE Evicted
  BY <1>6 DEF Evicted, Restart
<1>7. ASSUME IsolateStep PROVE now' \in Nat /\ now' >= now
  BY <1>7 DEF IsolateStep, SeverSigningChannel, SeverPipeline, SignFailure, MarkStale, ClearStale,
     RevocationLock, AutoRecover, SoilSample, Release, Tick, RiskInv, SysInv, SysTypeOK
<1>8. CASE UNCHANGED riskVars
  BY <1>8 DEF riskVars, sysVars, RiskInv, SysInv, SysTypeOK
<1>9. ASSUME NEW s \in Saver, PutReturns(s) PROVE PutSaved(s) \/ PutFails(s)
  BY <1>9 DEF PutReturns
<1> QED
  BY <1>2, <1>3, <1>4, <1>5, <1>6, <1>7, <1>8, <1>9 DEF RiskNext

LEMMA KvTypeStep == RiskInv /\ [RiskNext]_riskVars => KvTypeOK'
<1> SUFFICES ASSUME RiskInv, [RiskNext]_riskVars PROVE KvTypeOK'
  OBVIOUS
<1> USE DEF RiskInv, KvTypeOK
<1>1. SYSTEM_STATE_TTL \in Nat /\ now \in Nat
  BY KvAssumption DEF SysInv, SysTypeOK
<1>2. HealthyState \in StateRecords /\ NoCall \in Calls
  BY DEF NoCall, Calls, HealthyState, StateRecords, CRI_MIN, CRI_MAX
<1>3. ASSUME NEW s \in Saver, NEW p \in StateRecords, ReadForSave(s, p) PROVE KvTypeOK'
  <2>1. PICK found \in BOOLEAN :
          call' = [call EXCEPT ![s] =
            [payload |-> p, found |-> found, sound |-> (found <=> Live),
             existing |-> IF found THEN kv.state ELSE HealthyState]]
    BY <1>3 DEF ReadForSave
  <2>2. [payload |-> p, found |-> found, sound |-> (found <=> Live),
         existing |-> IF found THEN kv.state ELSE HealthyState] \in Calls
    BY <1>2 DEF Calls
  <2>3. call' \in [Saver -> Calls]
    BY <2>1, <2>2
  <2> QED
    BY <1>3, <2>3 DEF ReadForSave
<1>4. ASSUME NEW s \in Saver, PutSaved(s) PROVE KvTypeOK'
  <2>1. call[s].existing \in StateRecords /\ call[s].payload \in StateRecords
    BY DEF Calls
  <2>2. ToSave(call[s]) \in StateRecords
    BY <2>1, MergeType DEF ToSave
  <2>3. kv' \in [state : StateRecords, expiresAt : Nat]
    BY <1>1, <1>4, <2>2 DEF PutSaved
  <2>4. \A t \in Saver : [call[t] EXCEPT !.sound = FALSE] \in Calls
    BY DEF Calls
  <2>5. call' \in [Saver -> Calls]
    BY <1>2, <1>4, <2>4 DEF PutSaved
  <2> QED
    BY <1>4, <2>3, <2>5 DEF PutSaved
<1>5. ASSUME NEW s \in Saver, PutFails(s) PROVE KvTypeOK'
  BY <1>2, <1>5 DEF PutFails
<1>6. CASE kv' = kv /\ saving' = {} /\ call' = [s \in Saver |-> NoCall]
  BY <1>2, <1>6
<1>7. CASE UNCHANGED kvVars
  BY <1>7 DEF kvVars
<1> QED
  BY <1>3, <1>4, <1>5, <1>6, <1>7, SaveStep

(* A put that lands makes every other save unsound; nothing else changes   *)
(* the record, and time only takes it away.                                *)
LEMMA HeldStep == RiskInv /\ [RiskNext]_riskVars => HeldIsCurrent'
<1> SUFFICES ASSUME RiskInv, [RiskNext]_riskVars PROVE HeldIsCurrent'
  OBVIOUS
<1> USE DEF RiskInv, KvTypeOK, HeldIsCurrent
<1>1. ASSUME NEW s \in Saver, NEW p \in StateRecords, ReadForSave(s, p) PROVE HeldIsCurrent'
  <2>1. saving' = saving \cup {s} /\ kv' = kv /\ Live' = Live
    BY <1>1 DEF ReadForSave, Live
  <2>2. \A t \in Saver \ {s} : call'[t] = call[t]
    BY <1>1 DEF ReadForSave
  <2>3. PICK found \in BOOLEAN :
          /\ found => Live
          /\ call' = [call EXCEPT ![s] =
               [payload |-> p, found |-> found, sound |-> (found <=> Live),
                existing |-> IF found THEN kv.state ELSE HealthyState]]
    BY <1>1 DEF ReadForSave
  <2>4. call'[s] = [payload |-> p, found |-> found, sound |-> (found <=> Live),
                    existing |-> IF found THEN kv.state ELSE HealthyState]
    BY <2>3
  <2>5. call'[s].sound =>
          IF call'[s].found THEN call'[s].existing = kv.state ELSE ~Live
    BY <2>3, <2>4
  <2> QED
    BY <2>1, <2>2, <2>5
<1>2. ASSUME NEW s \in Saver, PutSaved(s) PROVE HeldIsCurrent'
  <2>1. CASE Skipped(call[s])
    <3>1. kv' = kv /\ Live' = Live /\ saving' = saving \ {s}
      BY <1>2, <2>1 DEF PutSaved, Live
    <3>2. \A t \in saving' : call'[t] = call[t]
      BY <1>2, <2>1 DEF PutSaved
    <3> QED
      BY <3>1, <3>2
  <2>2. CASE ~Skipped(call[s])
    <3>1. \A t \in saving' : ~call'[t].sound
      BY <1>2, <2>2 DEF PutSaved, Calls
    <3> QED
      BY <3>1
  <2> QED
    BY <2>1, <2>2
<1>3. ASSUME NEW s \in Saver, PutFails(s) PROVE HeldIsCurrent'
  <2>1. kv' = kv /\ Live' = Live /\ saving' = saving \ {s}
    BY <1>3 DEF PutFails, Live
  <2>2. \A t \in saving' : call'[t] = call[t]
    BY <1>3 DEF PutFails
  <2> QED
    BY <2>1, <2>2
<1>4. CASE saving' = {}
  BY <1>4
<1>5. CASE UNCHANGED kvVars /\ now' \in Nat /\ now' >= now
  <2>1. ~Live => ~Live'
    BY <1>5 DEF kvVars, Live, SysInv, SysTypeOK
  <2> QED
    BY <1>5, <2>1 DEF kvVars
<1> QED
  BY <1>1, <1>2, <1>3, <1>4, <1>5, SaveStep

(* The one step that writes the record keeps a live lock, unless its save *)
(* is unsound.                                                             *)
LEMMA LockKeptStep ==
  ASSUME RiskInv, [RiskNext]_riskVars, Live, kv.state.hardlock, ~kv'.state.hardlock
  PROVE  \E s \in saving \ saving' : ~call[s].sound
<1>1. PICK s \in Saver : PutSaved(s)
  <2>1. kv' # kv
    OBVIOUS
  <2> QED
    BY <2>1, SaveStep DEF ReadForSave, PutFails, kvVars
<1>2. s \in saving \ saving'
  BY <1>1 DEF PutSaved
<1>3. ~Skipped(call[s])
  BY <1>1 DEF PutSaved
<1>4. ASSUME call[s].sound PROVE FALSE
  <2>1. call[s].found /\ call[s].existing = kv.state
    BY <1>2, <1>4 DEF RiskInv, HeldIsCurrent
  <2>2. kv'.state = Merge(kv.state, call[s].payload)
    BY <1>1, <1>3, <2>1 DEF PutSaved, ToSave
  <2>3. kv.state \in StateRecords /\ call[s].payload \in StateRecords
    BY <1>1 DEF RiskInv, KvTypeOK, Calls
  <2> QED
    BY <2>2, <2>3, MergeConservative
<1> QED
  BY <1>2, <1>4

LEMMA RiskInvStep == RiskInv /\ [RiskNext]_riskVars => RiskInv'
BY ProcessStep, SysInvStep, KvTypeStep, HeldStep DEF RiskInv

(* The composition implements the risk state of SystemState: persisting    *)
(* it, in calls that overlap or not, adds no behaviour to the process.     *)
THEOREM RiskRefinesSystemState == RiskSpec => SysSpec
<1>1. RiskInit => SysInit
  BY DEF RiskInit
<1> QED
  BY <1>1, ProcessStep, PTL DEF RiskSpec, SysSpec

(* Records in KV and in the saves on their way keep the types the code     *)
(* declares, however many saves overlap.                                   *)
THEOREM KvTypeCorrect == RiskSpec => []KvTypeOK
<1>1. RiskInv => KvTypeOK
  BY DEF RiskInv
<1> QED
  BY <1>1, RiskInvStep, RiskInitInv, PTL DEF RiskSpec

(* However many saves overlap and fail, a live locked record is unlocked   *)
(* only by the put of a save whose get failed or was overtaken.            *)
THEOREM KvAlwaysKeepsLock == RiskSpec => KvKeepsLock
<1>1. RiskInv /\ [RiskNext]_riskVars
        => [Live /\ kv.state.hardlock /\ Live' /\ ~kv'.state.hardlock
              => \E s \in saving \ saving' : ~call[s].sound]_riskVars
  BY LockKeptStep
<1> QED
  BY <1>1, RiskInvStep, RiskInitInv, PTL DEF RiskSpec, KvKeepsLock

(* The lock, the latch and the one call that clears them, in an isolate    *)
(* whose state is being persisted.                                         *)
THEOREM RiskStateSafe ==
  RiskSpec => []LockBackedByCri /\ []LatchMeansLocked /\ OnlyReauthorizationClears
BY RiskRefinesSystemState, LockAlwaysBackedByCri, LatchAlwaysMeansLocked,
   OnlyReauthorizationEverClears, PTL
==============================================================================
