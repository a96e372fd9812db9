------------------------- MODULE IntentLedgerProofs -------------------------
(***************************************************************************)
(* No orphan venue legs, for every set of intents and callers, TTL and     *)
(* clock, when no two calls work on one intent at a time.  NoOrphanLegs    *)
(* speaks of intents at rest; it is inductive only with what each call     *)
(* knows meanwhile: LegsInv says, stage by stage, which legs may be at the *)
(* venues and who still has to close them.                                 *)
(***************************************************************************)
EXTENDS IntentLedger, SystemStateProofs

Working == {"preparing", "committing", "flattening", "saving"}

(* What call k knows of its intent: r is stored, legs a are at the venues, *)
(* b of them misreported.  Nobody decides the record meanwhile; a flatten  *)
(* works through the legs that are not misreported, and one that failed    *)
(* leaves one of them open.                                                *)
CallSound(k, r, a, b) ==
  /\ k.at \in Working
  /\ r.phase \in {"PENDING", "PREPARED"}
  /\ k.intent.hardlocked => k.at = "saving"
  /\ k.at = "preparing" =>
       /\ r.phase = "PENDING"
       /\ a = k.intent.prepared \cup b
       /\ k.intent.prepared \cap b = {} /\ k.pending \cap a = {}
  /\ k.at = "committing" => r.phase = "PREPARED" /\ a = Legs /\ b = {}
  /\ k.at = "flattening" =>
       /\ k.intent.phase = "ABORTED"
       /\ k.todo \subseteq a \ b
       /\ IF k.failed THEN (a \ b) \ k.todo # {} ELSE a \ b = k.todo
  /\ k.at = "saving" => k.intent.phase = "ABORTED" /\ k.intent.hardlocked /\ a \ b # {}

(* What the stored record of an intent at rest says.                       *)
RecordSound(r, a, b) ==
  /\ r.phase \in {"PREPARED", "COMMITTED"} => a = Legs /\ b = {}
  /\ r.phase \in {"absent", "PENDING"} => a = {} /\ b = {}
  /\ r.phase = "ABORTED" => r.hardlocked \/ a \subseteq b

(* What it says at any time.                                               *)
StoredSound(r) ==
  /\ r.phase = "PENDING" => r.prepared = {}
  /\ r.phase = "PREPARED" => r.prepared = Legs
  /\ r.hardlocked => r.phase = "ABORTED"

LegsInv ==
  /\ \A c, d \in Callers : call[c].id = call[d].id => c = d \/ call[c].id = NoIntent
  /\ \A c \in Callers : call[c].id = NoIntent => call[c].at \in {"idle", "sweeping"}
  /\ \A c \in Callers : call[c].id # NoIntent =>
       CallSound(call[c], ledgerStore[call[c].id], atVenue[call[c].id], lost[call[c].id])
  /\ \A i \in Intents : Settled(i) => RecordSound(ledgerStore[i], atVenue[i], lost[i])
  /\ \A i \in Intents : StoredSound(ledgerStore[i])

-----------------------------------------------------------------------------
(* Types.                                                                  *)

LEMMA IdleCall == Idle \in Calls /\ NoRecord \in IntentRecords
BY DEF Idle, Calls, NoRecord, IntentRecords, Stages, Phases, Legs

LEMMA UnwindingType ==
  ASSUME NEW k \in Calls, NEW r \in IntentRecords, NEW legs \in SUBSET Legs
  PROVE  Unwinding(k, r, legs) \in Calls
<1>1. [r EXCEPT !.phase = "ABORTED"] \in IntentRecords
  BY DEF IntentRecords, Phases
<1> QED
  BY <1>1 DEF Unwinding, Calls, Stages

LEMMA ReturnedType ==
  ASSUME NEW k \in Calls
  PROVE  Returned(k) \in Calls
BY IdleCall DEF Returned, Calls, Stages, Idle

LEMMA InterceptedType ==
  ASSUME NEW s \in SystemStates
  PROVE  Intercepted(s) \in SystemStates
BY SeveredLocks DEF Intercepted

LEMMA AbortingType ==
  ASSUME LedgerTypeOK, NEW k \in Calls, NEW i \in Intents
  PROVE  Aborting(k, i) \in Calls
<1>1. [k EXCEPT !.id = i] \in Calls
  BY DEF Calls
<1>2. ledgerStore[i] \in IntentRecords
  BY DEF LedgerTypeOK
<1>3. (IF ledgerStore[i].phase = "PREPARED" THEN Legs ELSE ledgerStore[i].prepared) \in SUBSET Legs
  BY <1>2 DEF IntentRecords
<1> QED
  BY <1>1, <1>2, <1>3, UnwindingType DEF Aborting

LEMMA ContinueType ==
  ASSUME LedgerTypeOK, SysTypeOK', NEW c \in Callers, Continue(c)
  PROVE  LedgerTypeOK'
<1> USE DEF LedgerTypeOK
<1>a. call[c] \in Calls /\ call[c].intent \in IntentRecords
  BY DEF Calls
<1>1. ASSUME NEW l \in Legs, NEW answer \in Answers, PrepareLegAnswers(c, l, answer)
      PROVE  LedgerTypeOK'
  <2>1. [call[c] EXCEPT !.pending = @ \ {l},
           !.intent.prepared = IF answer = "filled" THEN @ \cup {l} ELSE @] \in Calls
    BY <1>a DEF Calls, IntentRecords
  <2>2. atVenue' \in [Intents -> SUBSET Legs] /\ lost' \in [Intents -> SUBSET Legs]
    BY <1>1 DEF PrepareLegAnswers
  <2> QED
    BY <1>1, <2>1, <2>2 DEF PrepareLegAnswers, Set
<1>2. CASE PrepareSettles(c)
  <2>1. [call[c].intent EXCEPT !.phase = "PREPARED"] \in IntentRecords
    BY <1>a DEF IntentRecords, Phases
  <2>2. ToFlatten(call[c].intent) \in SUBSET Legs
    BY <1>a DEF ToFlatten, IntentRecords
  <2>3. /\ Returned(call[c]) \in Calls
        /\ Unwinding(call[c], call[c].intent, ToFlatten(call[c].intent)) \in Calls
    BY <1>a, <2>2, ReturnedType, UnwindingType
  <2> QED
    BY <1>2, <2>1, <2>3 DEF PrepareSettles, Set, Store
<1>3. ASSUME NEW ok \in BOOLEAN, CommitSettles(c, ok) PROVE LedgerTypeOK'
  <2>1. [call[c].intent EXCEPT !.phase = "COMMITTED"] \in IntentRecords
    BY <1>a DEF IntentRecords, Phases
  <2>2. Returned(call[c]) \in Calls /\ Unwinding(call[c], call[c].intent, Legs) \in Calls
    BY <1>a, ReturnedType, UnwindingType
  <2> QED
    BY <1>3, <2>1, <2>2 DEF CommitSettles, Set, Store
<1>4. ASSUME NEW closes \in BOOLEAN, FlattenLeg(c, closes) PROVE LedgerTypeOK'
  <2> DEFINE l == NextLeg(call[c].todo)
             done == (l \notin Gated \/ MayTrade(sys)) /\ closes
  <2>1. [call[c] EXCEPT !.todo = LegsLeft(call[c], l, done), !.failed = @ \/ ~done] \in Calls
    BY <1>a DEF Calls, LegsLeft
  <2>2. atVenue' \in [Intents -> SUBSET Legs] /\ lost' \in [Intents -> SUBSET Legs]
    BY <1>4 DEF FlattenLeg
  <2> QED
    BY <1>4, <2>1, <2>2 DEF FlattenLeg, Set
<1>5. CASE EscalateFlattenFailure(c)
  <2>1. [call[c] EXCEPT !.at = "saving", !.intent.hardlocked = TRUE] \in Calls
    BY <1>a DEF Calls, IntentRecords, Stages
  <2> QED
    BY <1>5, <2>1 DEF EscalateFlattenFailure, Set
<1>6. CASE UnwindSettles(c)
  BY <1>6, <1>a, ReturnedType DEF UnwindSettles, Set, Store
<1>7. ASSUME NEW i \in Intents, SweepIntent(c, i) PROVE LedgerTypeOK'
  <2> DEFINE k == [call[c] EXCEPT !.sweep = @ \ {i}]
  <2>1. k \in Calls
    BY <1>a DEF Calls
  <2>2. Aborting(k, i) \in Calls /\ Returned(k) \in Calls
    BY <2>1, AbortingType, ReturnedType
  <2> QED
    BY <1>7, <2>2 DEF SweepIntent, Set
<1> QED
  BY <1>1, <1>2, <1>3, <1>4, <1>5, <1>6, <1>7 DEF Continue

-----------------------------------------------------------------------------
(* The risk state keeps its invariant: a call that finds the channel       *)
(* closed severs it, a failed flatten goes through the pipeline, and an    *)
(* emergency flatten severs before it aborts.                              *)

LEMMA SysInvSevered ==
  ASSUME SysInv, sys' = Severed(sys), severTarget' = severTarget,
         violationAt' \in Int, spreadNormal' = spreadNormal, now' = now
  PROVE  SysInv'
BY SeveredLocks DEF SysInv, SysTypeOK, LockBackedByCri, LatchMeansLocked

LEMMA SysInvUnchanged ==
  ASSUME SysInv, UNCHANGED sysVars
  PROVE  SysInv'
BY SysInvStep

LEMMA LedgerSysInvStep ==
  ASSUME SysInv, [LedgerNext]_vars
  PROVE  SysInv'
<1>0. violationAt \in Int /\ now \in Nat
  BY DEF SysInv, SysTypeOK
<1>1. CASE UNCHANGED vars
  BY <1>1, SysInvUnchanged DEF vars
<1>2. CASE \E i \in Intents : CreateCrossLegIntent(i)
  BY <1>2, SysInvUnchanged DEF CreateCrossLegIntent
<1>3. ASSUME NEW c \in Callers, Begin(c) PROVE SysInv'
  <2>1. ASSUME NEW i \in Intents, PrepareIntent(c, i) PROVE SysInv'
    <3>1. sys' = sys \/ sys' = Severed(sys)
      BY <2>1 DEF PrepareIntent, Intercepted
    <3> QED
      BY <1>0, <2>1, <3>1, SysInvSevered, SysInvUnchanged DEF PrepareIntent, sysVars
  <2>2. ASSUME NEW i \in Intents, CommitIntent(c, i) \/ AbortIntent(c, i) PROVE SysInv'
    BY <2>2, SysInvUnchanged DEF CommitIntent, AbortIntent
  <2>3. CASE TriggerEmergencyAutoFlatten(c)
    BY <1>0, <2>3, SysInvSevered DEF TriggerEmergencyAutoFlatten
  <2> QED
    BY <1>3, <2>1, <2>2, <2>3 DEF Begin
<1>4. ASSUME NEW c \in Callers, Continue(c) PROVE SysInv'
  <2>1. ASSUME NEW closes \in BOOLEAN, FlattenLeg(c, closes) PROVE SysInv'
    <3>1. sys' = sys \/ sys' = Severed(sys)
      BY <2>1 DEF FlattenLeg, Intercepted
    <3> QED
      BY <1>0, <2>1, <3>1, SysInvSevered, SysInvUnchanged DEF FlattenLeg, sysVars
  <2>2. CASE EscalateFlattenFailure(c)
    BY <2>2, SysInvStep DEF EscalateFlattenFailure, SysNext, IsolateStep, Targets
  <2>3. CASE ~EscalateFlattenFailure(c) /\ ~\E closes \in BOOLEAN : FlattenLeg(c, closes)
    <3>1. UNCHANGED sysVars
      BY <1>4, <2>3 DEF Continue, PrepareLegAnswers, PrepareSettles, CommitSettles,
         UnwindSettles, SweepIntent
    <3> QED
      BY <3>1, SysInvUnchanged
  <2> QED
    BY <2>1, <2>2, <2>3
<1>5. CASE ChannelStep /\ UNCHANGED ledgerVars
  BY <1>5, SysInvStep DEF ChannelStep, SysNext, IsolateStep, KeyFailures
<1> QED
  BY <1>1, <1>2, <1>3, <1>4, <1>5 DEF LedgerNext

(* What a call keeps of its types.                                         *)
LEMMA LedgerTypeStep ==
  ASSUME LedgerTypeOK, SysInv, [LedgerNext]_vars
  PROVE  LedgerTypeOK'
<1> USE DEF LedgerTypeOK
<1>0. SysTypeOK'
  BY LedgerSysInvStep DEF SysInv
<1>a. /\ \A c \in Callers : call[c] \in Calls
      /\ \A i \in Intents : ledgerStore[i] \in IntentRecords
      /\ now \in Nat
  BY DEF SysTypeOK
<1>1. CASE UNCHANGED vars
  BY <1>0, <1>1 DEF vars
<1>2. ASSUME NEW i \in Intents, CreateCrossLegIntent(i) PROVE LedgerTypeOK'
  <2>1. [NoRecord EXCEPT !.phase = "PENDING"] \in IntentRecords
    BY IdleCall DEF IntentRecords, Phases
  <2> QED
    BY <1>0, <1>2, <2>1 DEF CreateCrossLegIntent, Store
<1>3. ASSUME NEW c \in Callers, Begin(c) PROVE LedgerTypeOK'
  <2>0. UNCHANGED <<ledgerStore, atVenue, lost>>
    BY <1>3 DEF Begin, PrepareIntent, CommitIntent, AbortIntent, TriggerEmergencyAutoFlatten
  <2>1. ASSUME NEW i \in Intents, PrepareIntent(c, i) PROVE LedgerTypeOK'
    <3>1. [ledgerStore[i] EXCEPT !.prepared = {}, !.preparedAt = now] \in IntentRecords
      BY <1>a DEF IntentRecords
    <3>2. [Idle EXCEPT !.at = "preparing", !.id = i,
             !.intent = [ledgerStore[i] EXCEPT !.prepared = {}, !.preparedAt = now],
             !.pending = IF MayTrade(sys) THEN Legs ELSE Legs \ Gated] \in Calls
      BY <3>1, IdleCall DEF Calls, Stages
    <3> QED
      BY <1>0, <2>0, <2>1, <3>2 DEF PrepareIntent, Set
  <2>2. ASSUME NEW i \in Intents, CommitIntent(c, i) PROVE LedgerTypeOK'
    <3> DEFINE k == [Idle EXCEPT !.at = "committing", !.id = i, !.intent = ledgerStore[i]]
    <3>1. k \in Calls
      BY <1>a, IdleCall DEF Calls, Stages
    <3>2. ledgerStore[i].prepared \in SUBSET Legs
      BY <1>a DEF IntentRecords
    <3>3. Unwinding(k, ledgerStore[i], ledgerStore[i].prepared) \in Calls
      BY <1>a, <3>1, <3>2, UnwindingType
    <3> QED
      BY <1>0, <2>0, <2>2, <3>1, <3>3 DEF CommitIntent, Set
  <2>3. ASSUME NEW i \in Intents, AbortIntent(c, i) PROVE LedgerTypeOK'
    <3>1. Aborting(Idle, i) \in Calls
      BY AbortingType, IdleCall
    <3> QED
      BY <1>0, <2>0, <2>3, <3>1 DEF AbortIntent, Set
  <2>4. CASE TriggerEmergencyAutoFlatten(c)
    <3>1. [Idle EXCEPT !.sweep = Undecided] \in Calls
      BY IdleCall DEF Calls, Undecided
    <3>2. Returned([Idle EXCEPT !.sweep = Undecided]) \in Calls
      BY <3>1, ReturnedType
    <3> QED
      BY <1>0, <2>0, <2>4, <3>2 DEF TriggerEmergencyAutoFlatten, Set
  <2> QED
    BY <1>3, <2>1, <2>2, <2>3, <2>4 DEF Begin
<1>4. ASSUME NEW c \in Callers, Continue(c) PROVE LedgerTypeOK'
  BY <1>0, <1>4, ContinueType
<1>5. CASE ChannelStep /\ UNCHANGED ledgerVars
  BY <1>0, <1>5 DEF ledgerVars
<1> QED
  BY <1>1, <1>2, <1>3, <1>4, <1>5 DEF LedgerNext

-----------------------------------------------------------------------------
(* Legs.                                                                   *)

LEMMA NoIntentIsNone == NoIntent \notin Intents
BY LedgerAssumption DEF NoIntent

(* A step of call c on intent i alone.                                     *)
LEMMA Frame ==
  ASSUME LedgerTypeOK, LegsInv,
         NEW c \in Callers, NEW i \in Intents, NEW k \in Calls,
         call' = [call EXCEPT ![c] = k],
         call[c].id \in {i, NoIntent}, k.id \in {i, NoIntent},
         \A d \in Callers : call[d].id = i => d = c,
         \A j \in Intents \ {i} : /\ ledgerStore'[j] = ledgerStore[j]
                                  /\ atVenue'[j] = atVenue[j]
                                  /\ lost'[j] = lost[j],
         k.id = i => CallSound(k, ledgerStore'[i], atVenue'[i], lost'[i]),
         k.id = NoIntent => /\ k.at \in {"idle", "sweeping"}
                            /\ RecordSound(ledgerStore'[i], atVenue'[i], lost'[i]),
         StoredSound(ledgerStore'[i])
  PROVE  LegsInv'
<1>0. i # NoIntent
  BY NoIntentIsNone
<1>1. call'[c] = k /\ \A d \in Callers \ {c} : call'[d] = call[d]
  BY DEF LedgerTypeOK
<1>2. \A d \in Callers : call[d].id \in Intents \cup {NoIntent}
  BY DEF LedgerTypeOK, Calls
<1>3. \A d, e \in Callers : call'[d].id = call'[e].id => d = e \/ call'[d].id = NoIntent
  BY <1>0, <1>1 DEF LegsInv
<1>4. \A d \in Callers : call'[d].id = NoIntent => call'[d].at \in {"idle", "sweeping"}
  BY <1>0, <1>1 DEF LegsInv
<1>5. ASSUME NEW d \in Callers, call'[d].id # NoIntent
      PROVE  CallSound(call'[d], ledgerStore'[call'[d].id], atVenue'[call'[d].id],
                       lost'[call'[d].id])
  <2>1. CASE d = c
    BY <1>0, <1>1, <1>5, <2>1
  <2>2. CASE d # c
    <3>1. call'[d] = call[d] /\ call[d].id \in Intents \ {i}
      BY <1>1, <1>2, <1>5, <2>2
    <3> QED
      BY <1>5, <3>1 DEF LegsInv
  <2> QED
    BY <2>1, <2>2
<1>6. ASSUME NEW j \in Intents, \A d \in Callers : call'[d].id # j
      PROVE  RecordSound(ledgerStore'[j], atVenue'[j], lost'[j])
  <2>1. CASE j = i
    BY <1>1, <1>6, <2>1
  <2>2. CASE j # i
    <3>1. \A d \in Callers : call[d].id # j
      BY <1>1, <1>6, <2>2, NoIntentIsNone
    <3> QED
      BY <2>2, <3>1 DEF LegsInv, Settled
  <2> QED
    BY <2>1, <2>2
<1>7. \A j \in Intents : StoredSound(ledgerStore'[j])
  BY DEF LegsInv
<1> QED
  BY <1>3, <1>4, <1>5, <1>6, <1>7 DEF LegsInv, Settled

(* A caller at rest works on no intent, and a free intent is at rest.      *)
LEMMA AtRest ==
  ASSUME ~Overlapping, LedgerTypeOK, LegsInv, NEW c \in Callers, NEW i \in Intents,
         call[c].at \in {"idle", "sweeping"}, Free(i)
  PROVE  /\ call[c].id = NoIntent
         /\ \A d \in Callers : call[d].id # i
         /\ RecordSound(ledgerStore[i], atVenue[i], lost[i])
         /\ StoredSound(ledgerStore[i])
BY DEF LegsInv, Free, Settled, CallSound, Working

(* A working call is alone on its intent.                                  *)
LEMMA AtWork ==
  ASSUME LedgerTypeOK, LegsInv, NEW c \in Callers, call[c].at \in Working
  PROVE  /\ call[c].id \in Intents
         /\ \A d \in Callers : call[d].id = call[c].id => d = c
         /\ CallSound(call[c], ledgerStore[call[c].id], atVenue[call[c].id],
                      lost[call[c].id])
         /\ StoredSound(ledgerStore[call[c].id])
<1>1. call[c].id # NoIntent
  BY DEF LegsInv, Working
<1>2. call[c].id \in Intents \cup {NoIntent}
  BY DEF LedgerTypeOK, Calls
<1> QED
  BY <1>1, <1>2 DEF LegsInv

(* An abort of a sound record at rest knows which legs it has to close.    *)
LEMMA AbortingSound ==
  ASSUME NEW k \in Calls, NEW i \in Intents, LedgerTypeOK,
         RecordSound(ledgerStore[i], atVenue[i], lost[i]), StoredSound(ledgerStore[i]),
         i \in Undecided
  PROVE  /\ Aborting(k, i).id = i
         /\ CallSound(Aborting(k, i), ledgerStore[i], atVenue[i], lost[i])
<1>1. ledgerStore[i] \in IntentRecords /\ atVenue[i] \subseteq Legs
  BY DEF LedgerTypeOK
<1>2. /\ Aborting(k, i).id = i
      /\ Aborting(k, i).at = "flattening"
      /\ Aborting(k, i).intent.phase = "ABORTED"
      /\ Aborting(k, i).intent.hardlocked = ledgerStore[i].hardlocked
      /\ ~Aborting(k, i).failed
      /\ Aborting(k, i).todo = IF ledgerStore[i].phase = "PREPARED" THEN Legs
                               ELSE ledgerStore[i].prepared
  BY <1>1 DEF Aborting, Unwinding, Calls, IntentRecords
<1>3. /\ atVenue[i] \ lost[i] = Aborting(k, i).todo
      /\ ledgerStore[i].phase \in {"PENDING", "PREPARED"} /\ ~ledgerStore[i].hardlocked
  BY <1>1, <1>2 DEF RecordSound, StoredSound, Undecided
<1> QED
  BY <1>2, <1>3 DEF CallSound, Working

LEMMA InitLegs == LedgerInit => LegsInv
<1> SUFFICES ASSUME LedgerInit PROVE LegsInv
  OBVIOUS
<1>1. \A c \in Callers : call[c].id = NoIntent /\ call[c].at = "idle"
  BY DEF LedgerInit, Idle
<1>2. \A i \in Intents : /\ ledgerStore[i].phase = "absent"
                         /\ ~ledgerStore[i].hardlocked
                         /\ atVenue[i] = {} /\ lost[i] = {}
  BY DEF LedgerInit, NoRecord
<1> QED
  BY <1>1, <1>2 DEF LegsInv, RecordSound, StoredSound

(* A caller at rest starts a sound call on a free intent.                  *)
LEMMA StartLegs ==
  ASSUME ~Overlapping, LedgerTypeOK, LegsInv,
         NEW c \in Callers, NEW i \in Intents, NEW k \in Calls,
         call[c].at \in {"idle", "sweeping"}, Free(i),
         UNCHANGED <<ledgerStore, atVenue, lost>>,
         call' = [call EXCEPT ![c] = k],
         k.id = i, CallSound(k, ledgerStore[i], atVenue[i], lost[i])
  PROVE  LegsInv'
<1>1. /\ call[c].id = NoIntent
      /\ \A d \in Callers : call[d].id # i
      /\ StoredSound(ledgerStore[i])
  BY AtRest
<1>2. k.id # NoIntent
  BY NoIntentIsNone
<1>3. CallSound(k, ledgerStore'[i], atVenue'[i], lost'[i])
  OBVIOUS
<1>4. StoredSound(ledgerStore'[i])
  BY <1>1
<1>5. \A j \in Intents \ {i} : /\ ledgerStore'[j] = ledgerStore[j]
                               /\ atVenue'[j] = atVenue[j]
                               /\ lost'[j] = lost[j]
  OBVIOUS
<1> QED
  BY <1>1, <1>2, <1>3, <1>4, <1>5, Frame

LEMMA CreateLegs ==
  ASSUME LedgerTypeOK, LegsInv, NEW i \in Intents, CreateCrossLegIntent(i)
  PROVE  LegsInv'
<1>1. /\ ledgerStore[i].phase = "absent" /\ ledgerStore'[i].phase = "PENDING"
      /\ ledgerStore'[i].prepared = {} /\ ~ledgerStore'[i].hardlocked
      /\ \A j \in Intents \ {i} : ledgerStore'[j] = ledgerStore[j]
  BY IdleCall DEF CreateCrossLegIntent, Store, LedgerTypeOK, IntentRecords, NoRecord
<1>2. UNCHANGED <<call, atVenue, lost>>
  BY DEF CreateCrossLegIntent
<1>3. \A j \in Intents : Settled(j) => RecordSound(ledgerStore'[j], atVenue[j], lost[j])
  BY <1>1 DEF LegsInv, RecordSound
<1>4. \A j \in Intents : StoredSound(ledgerStore'[j])
  BY <1>1 DEF LegsInv, StoredSound
<1>5. \A c \in Callers : call[c].id # i
  BY <1>1, NoIntentIsNone DEF LegsInv, CallSound
<1>6. \A c \in Callers : call[c].id # NoIntent => call[c].id \in Intents \ {i}
  BY <1>5 DEF LedgerTypeOK, Calls
<1> QED
  BY <1>1, <1>2, <1>3, <1>4, <1>6 DEF LegsInv, Settled

LEMMA BeginLegs ==
  ASSUME ~Overlapping, LedgerTypeOK, LedgerTypeOK', LegsInv, NEW c \in Callers, Begin(c)
  PROVE  LegsInv'
<1>0. UNCHANGED <<ledgerStore, atVenue, lost>>
  BY DEF Begin, PrepareIntent, CommitIntent, AbortIntent, TriggerEmergencyAutoFlatten
<1>a. /\ \A i \in Intents : ledgerStore[i] \in IntentRecords
      /\ call'[c] \in Calls
  BY DEF LedgerTypeOK
<1>b. Idle.id = NoIntent /\ Idle.at = "idle"
  BY DEF Idle
<1>1. ASSUME NEW i \in Intents, PrepareIntent(c, i) PROVE LegsInv'
  <2> DEFINE k == [Idle EXCEPT !.at = "preparing", !.id = i,
               !.intent = [ledgerStore[i] EXCEPT !.prepared = {}, !.preparedAt = now],
               !.pending = IF MayTrade(sys) THEN Legs ELSE Legs \ Gated]
  <2>1. call[c].at \in {"idle", "sweeping"} /\ Free(i) /\ ledgerStore[i].phase = "PENDING"
    BY <1>1 DEF PrepareIntent
  <2>2. call' = [call EXCEPT ![c] = k] /\ k \in Calls
    BY <1>1, <1>a DEF PrepareIntent, Set, LedgerTypeOK
  <2>3. /\ k.id = i /\ k.at = "preparing" /\ k.intent.prepared = {}
        /\ k.intent.hardlocked = ledgerStore[i].hardlocked
    BY <1>a DEF Idle, IntentRecords
  <2>4. atVenue[i] = {} /\ lost[i] = {} /\ ~ledgerStore[i].hardlocked
    BY <2>1, AtRest DEF RecordSound, StoredSound
  <2>5. CallSound(k, ledgerStore[i], atVenue[i], lost[i])
    BY <2>1, <2>3, <2>4 DEF CallSound, Working
  <2> HIDE DEF k
  <2> QED
    BY <1>0, <2>1, <2>2, <2>3, <2>5, StartLegs
<1>2. ASSUME NEW i \in Intents, CommitIntent(c, i) PROVE LegsInv'
  <2> DEFINE s == [Idle EXCEPT !.at = "committing", !.id = i, !.intent = ledgerStore[i]]
             u == Unwinding(s, ledgerStore[i], ledgerStore[i].prepared)
  <2>1. call[c].at \in {"idle", "sweeping"} /\ Free(i) /\ ledgerStore[i].phase = "PREPARED"
    BY <1>2 DEF CommitIntent
  <2>2. PICK k \in Calls : call' = [call EXCEPT ![c] = k] /\ k \in {s, u}
    BY <1>2, <1>a DEF CommitIntent, Set, LedgerTypeOK
  <2>3. /\ atVenue[i] = Legs /\ lost[i] = {} /\ ledgerStore[i].prepared = Legs
        /\ ~ledgerStore[i].hardlocked
    BY <2>1, AtRest DEF RecordSound, StoredSound
  <2>4. s.id = i /\ s.at = "committing" /\ s.intent = ledgerStore[i]
    BY DEF Idle
  <2>5. /\ u.id = i /\ u.at = "flattening" /\ ~u.failed
        /\ u.intent.hardlocked = ledgerStore[i].hardlocked
        /\ u.intent.phase = "ABORTED" /\ u.todo = ledgerStore[i].prepared
    BY <1>a DEF Unwinding, Idle, IntentRecords
  <2> HIDE DEF s, u
  <2>6. k.id = i /\ CallSound(k, ledgerStore[i], atVenue[i], lost[i])
    BY <2>1, <2>2, <2>3, <2>4, <2>5 DEF CallSound, Working
  <2> QED
    BY <1>0, <2>1, <2>2, <2>6, StartLegs
<1>3. ASSUME NEW i \in Intents, AbortIntent(c, i) PROVE LegsInv'
  <2>1. call[c].at \in {"idle", "sweeping"} /\ Free(i) /\ i \in Undecided
    BY <1>3 DEF AbortIntent
  <2>2. call' = [call EXCEPT ![c] = Aborting(Idle, i)] /\ Aborting(Idle, i) \in Calls
    BY <1>3, AbortingType, IdleCall DEF AbortIntent, Set
  <2>3. /\ Aborting(Idle, i).id = i
        /\ CallSound(Aborting(Idle, i), ledgerStore[i], atVenue[i], lost[i])
    BY <2>1, AtRest, AbortingSound, IdleCall
  <2> QED
    BY <1>0, <2>1, <2>2, <2>3, StartLegs
<1>4. CASE TriggerEmergencyAutoFlatten(c)
  <2> DEFINE k == Returned([Idle EXCEPT !.sweep = Undecided])
  <2>1. call' = [call EXCEPT ![c] = k] /\ call[c].id = NoIntent
    BY <1>4 DEF TriggerEmergencyAutoFlatten, Set, LegsInv, CallSound, Working
  <2>2. k.id = NoIntent /\ k.at \in {"idle", "sweeping"}
    BY DEF Returned, Idle
  <2> HIDE DEF k
  <2>3. call'[c] = k /\ \A d \in Callers \ {c} : call'[d] = call[d]
    BY <2>1 DEF LedgerTypeOK
  <2>4. \A d \in Callers : call'[d].id = call[d].id
    BY <2>1, <2>2, <2>3
  <2> QED
    BY <1>0, <2>1, <2>2, <2>3, <2>4 DEF LegsInv, Settled
<1> QED
  BY <1>1, <1>2, <1>3, <1>4 DEF Begin

(* A working call goes on with its intent i, whose legs become a.          *)
LEMMA WorkLegs ==
  ASSUME LedgerTypeOK, LegsInv, NEW c \in Callers, NEW k \in Calls,
         call[c].at \in Working,
         UNCHANGED ledgerStore,
         call' = [call EXCEPT ![c] = k],
         \A j \in Intents \ {call[c].id} : atVenue'[j] = atVenue[j] /\ lost'[j] = lost[j],
         k.id = call[c].id,
         CallSound(k, ledgerStore[call[c].id], atVenue'[call[c].id], lost'[call[c].id])
  PROVE  LegsInv'
<1> DEFINE i == call[c].id
<1>1. /\ i \in Intents
      /\ \A d \in Callers : call[d].id = i => d = c
      /\ StoredSound(ledgerStore'[i])
  BY AtWork
<1>2. k.id # NoIntent /\ k.id = i
  BY <1>1, NoIntentIsNone
<1>3. \A j \in Intents \ {i} : /\ ledgerStore'[j] = ledgerStore[j]
                               /\ atVenue'[j] = atVenue[j]
                               /\ lost'[j] = lost[j]
  OBVIOUS
<1>4. CallSound(k, ledgerStore'[i], atVenue'[i], lost'[i])
  OBVIOUS
<1> QED
  BY <1>1, <1>2, <1>3, <1>4, Frame

(* A working call stores its record and returns.                           *)
LEMMA ReturnLegs ==
  ASSUME LedgerTypeOK, LegsInv, NEW c \in Callers, NEW r \in IntentRecords,
         call[c].at \in Working,
         UNCHANGED <<atVenue, lost>>,
         Store(call[c].id, r), Set(c, Returned(call[c])),
         RecordSound(r, atVenue[call[c].id], lost[call[c].id]),
         StoredSound(r)
  PROVE  LegsInv'
<1> DEFINE i == call[c].id
           k == Returned(call[c])
<1>1. /\ i \in Intents
      /\ \A d \in Callers : call[d].id = i => d = c
  BY AtWork
<1>2. k.id = NoIntent /\ k.at \in {"idle", "sweeping"} /\ k \in Calls
  BY ReturnedType DEF Returned, Idle, LedgerTypeOK
<1>3. /\ ledgerStore'[i] = r
      /\ \A j \in Intents \ {i} : ledgerStore'[j] = ledgerStore[j]
  BY <1>1 DEF Store, LedgerTypeOK
<1>4. RecordSound(ledgerStore'[i], atVenue'[i], lost'[i])
  BY <1>3
<1>5. k.id # i
  BY <1>1, <1>2, NoIntentIsNone
<1>6. call' = [call EXCEPT ![c] = k]
  BY DEF Set
<1> HIDE DEF k
<1> QED
  BY <1>1, <1>2, <1>3, <1>4, <1>5, <1>6, Frame

LEMMA UnwindSound ==
  ASSUME NEW k \in Calls, NEW legs \in SUBSET Legs, NEW r, NEW a, NEW b,
         a \ b = legs, r.phase \in {"PENDING", "PREPARED"}, ~k.intent.hardlocked
  PROVE  /\ Unwinding(k, k.intent, legs).id = k.id
         /\ CallSound(Unwinding(k, k.intent, legs), r, a, b)
<1>1. /\ Unwinding(k, k.intent, legs).id = k.id
      /\ Unwinding(k, k.intent, legs).at = "flattening"
      /\ Unwinding(k, k.intent, legs).intent.phase = "ABORTED"
      /\ Unwinding(k, k.intent, legs).intent.hardlocked = k.intent.hardlocked
      /\ Unwinding(k, k.intent, legs).todo = legs
      /\ ~Unwinding(k, k.intent, legs).failed
  BY DEF Unwinding, Calls, IntentRecords
<1> QED
  BY <1>1 DEF CallSound, Working

LEMMA ContinueLegs ==
  ASSUME ~Overlapping, LedgerTypeOK, LedgerTypeOK', LegsInv, NEW c \in Callers, Continue(c)
  PROVE  LegsInv'
<1>a. /\ call[c] \in Calls /\ call[c].intent \in IntentRecords /\ call'[c] \in Calls
      /\ call[c].todo \subseteq Legs
  BY DEF LedgerTypeOK, Calls
<1>b. call[c].at \in Working => /\ call[c].id \in Intents
                               /\ CallSound(call[c], ledgerStore[call[c].id],
                                            atVenue[call[c].id], lost[call[c].id])
                               /\ atVenue[call[c].id] \subseteq Legs
                               /\ lost[call[c].id] \subseteq Legs
  BY AtWork DEF LedgerTypeOK
<1>1. ASSUME NEW l \in Legs, NEW answer \in Answers, PrepareLegAnswers(c, l, answer)
      PROVE  LegsInv'
  <2> DEFINE i == call[c].id
             k == [call[c] EXCEPT !.pending = @ \ {l},
                    !.intent.prepared = IF answer = "filled" THEN @ \cup {l} ELSE @]
  <2>1. call[c].at = "preparing" /\ call[c].at \in Working
    BY <1>1 DEF PrepareLegAnswers, Working
  <2>2. call' = [call EXCEPT ![c] = k] /\ k \in Calls
    BY <1>1, <1>a DEF PrepareLegAnswers, Set, LedgerTypeOK
  <2>3. /\ k.id = i /\ k.at = "preparing"
        /\ k.intent.prepared = IF answer = "filled" THEN call[c].intent.prepared \cup {l}
                               ELSE call[c].intent.prepared
        /\ k.intent.hardlocked = call[c].intent.hardlocked
        /\ k.pending = call[c].pending \ {l}
    BY <1>a, <2>1 DEF Calls, IntentRecords
  <2>4. /\ atVenue'[i] = IF answer = "refused" THEN atVenue[i] ELSE atVenue[i] \cup {l}
        /\ lost'[i] = IF answer = "lost" THEN lost[i] \cup {l} ELSE lost[i]
        /\ \A j \in Intents \ {i} : atVenue'[j] = atVenue[j] /\ lost'[j] = lost[j]
    BY <1>1, <1>b, <2>1 DEF PrepareLegAnswers, LedgerTypeOK
  <2>5. /\ atVenue[i] = call[c].intent.prepared \cup lost[i]
        /\ call[c].intent.prepared \cap lost[i] = {} /\ call[c].pending \cap atVenue[i] = {}
        /\ l \in call[c].pending
        /\ ledgerStore[i].phase = "PENDING" /\ ~call[c].intent.hardlocked
    BY <1>1, <1>b, <2>1 DEF CallSound, PrepareLegAnswers
  <2> HIDE DEF k
  <2>6. CallSound(k, ledgerStore[i], atVenue'[i], lost'[i])
    BY <2>3, <2>4, <2>5 DEF CallSound, Working, Answers
  <2>7. UNCHANGED ledgerStore
    BY <1>1 DEF PrepareLegAnswers
  <2> QED
    BY <2>1, <2>2, <2>3, <2>4, <2>6, <2>7, WorkLegs
<1>2. CASE PrepareSettles(c)
  <2>1. call[c].at = "preparing" /\ call[c].at \in Working /\ UNCHANGED <<atVenue, lost>>
    BY <1>2 DEF PrepareSettles, Working
  <2>2. /\ atVenue[call[c].id] = call[c].intent.prepared \cup lost[call[c].id]
        /\ call[c].intent.prepared \cap lost[call[c].id] = {}
        /\ ledgerStore[call[c].id].phase = "PENDING" /\ ~call[c].intent.hardlocked
    BY <1>b, <2>1 DEF CallSound
  <2>3. CASE call[c].intent.prepared = Legs
    <3> DEFINE r == [call[c].intent EXCEPT !.phase = "PREPARED"]
    <3>1. /\ r \in IntentRecords /\ r.phase = "PREPARED" /\ r.prepared = Legs
          /\ r.hardlocked = call[c].intent.hardlocked
      BY <1>a, <2>3 DEF IntentRecords, Phases
    <3>2. Store(call[c].id, r) /\ Set(c, Returned(call[c]))
      BY <1>2, <2>3 DEF PrepareSettles
    <3> HIDE DEF r
    <3>3. atVenue[call[c].id] = Legs /\ lost[call[c].id] = {}
      BY <1>b, <2>1, <2>2, <2>3
    <3>4. RecordSound(r, atVenue[call[c].id], lost[call[c].id]) /\ StoredSound(r)
      BY <2>2, <3>1, <3>3 DEF RecordSound, StoredSound
    <3> QED
      BY <2>1, <3>1, <3>2, <3>4, ReturnLegs
  <2>4. CASE call[c].intent.prepared # Legs
    <3> DEFINE k == Unwinding(call[c], call[c].intent, ToFlatten(call[c].intent))
    <3>1. call' = [call EXCEPT ![c] = k] /\ UNCHANGED ledgerStore
      BY <1>2, <2>4 DEF PrepareSettles, Set
    <3>2. ToFlatten(call[c].intent) = call[c].intent.prepared
          /\ call[c].intent.prepared \in SUBSET Legs
      BY <1>a DEF ToFlatten, IntentRecords
    <3>3. atVenue[call[c].id] \ lost[call[c].id] = ToFlatten(call[c].intent)
      BY <2>2, <3>2
    <3>4. k.id = call[c].id
          /\ CallSound(k, ledgerStore[call[c].id], atVenue[call[c].id], lost[call[c].id])
      BY <1>a, <2>2, <3>2, <3>3, UnwindSound
    <3>5. k \in Calls
      BY <1>a, <3>2, UnwindingType
    <3> HIDE DEF k
    <3> QED
      BY <2>1, <3>1, <3>4, <3>5, WorkLegs
  <2> QED
    BY <2>3, <2>4
<1>3. ASSUME NEW ok \in BOOLEAN, CommitSettles(c, ok) PROVE LegsInv'
  <2>1. call[c].at = "committing" /\ call[c].at \in Working /\ UNCHANGED <<atVenue, lost>>
    BY <1>3 DEF CommitSettles, Working
  <2>2. /\ atVenue[call[c].id] = Legs /\ lost[call[c].id] = {}
        /\ ledgerStore[call[c].id].phase = "PREPARED" /\ ~call[c].intent.hardlocked
    BY <1>b, <2>1 DEF CallSound
  <2>3. CASE ok
    <3> DEFINE r == [call[c].intent EXCEPT !.phase = "COMMITTED"]
    <3>1. /\ r \in IntentRecords /\ r.phase = "COMMITTED"
          /\ r.hardlocked = call[c].intent.hardlocked
      BY <1>a DEF IntentRecords, Phases
    <3>2. Store(call[c].id, r) /\ Set(c, Returned(call[c]))
      BY <1>3, <2>3 DEF CommitSettles
    <3> HIDE DEF r
    <3>3. RecordSound(r, atVenue[call[c].id], lost[call[c].id]) /\ StoredSound(r)
      BY <2>2, <3>1 DEF RecordSound, StoredSound
    <3> QED
      BY <2>1, <3>1, <3>2, <3>3, ReturnLegs
  <2>4. CASE ~ok
    <3> DEFINE k == Unwinding(call[c], call[c].intent, Legs)
    <3>1. call' = [call EXCEPT ![c] = k] /\ UNCHANGED ledgerStore
      BY <1>3, <2>4 DEF CommitSettles, Set
    <3>a. atVenue[call[c].id] \ lost[call[c].id] = Legs
      BY <2>2
    <3>2. k.id = call[c].id
          /\ CallSound(k, ledgerStore[call[c].id], atVenue[call[c].id], lost[call[c].id])
      BY <1>a, <2>2, <3>a, UnwindSound
    <3>3. k \in Calls
      BY <1>a, UnwindingType
    <3> HIDE DEF k
    <3> QED
      BY <2>1, <3>1, <3>2, <3>3, WorkLegs
  <2> QED
    BY <2>3, <2>4
<1>4. ASSUME NEW closes \in BOOLEAN, FlattenLeg(c, closes) PROVE LegsInv'
  <2> DEFINE i == call[c].id
             l == NextLeg(call[c].todo)
             done == (l \notin Gated \/ MayTrade(sys)) /\ closes
             k == [call[c] EXCEPT !.todo = LegsLeft(call[c], l, done), !.failed = @ \/ ~done]
  <2>1. call[c].at = "flattening" /\ call[c].at \in Working /\ UNCHANGED ledgerStore
    BY <1>4 DEF FlattenLeg, Working
  <2>2. call' = [call EXCEPT ![c] = k] /\ k \in Calls
    BY <1>4, <1>a DEF FlattenLeg, Set, LedgerTypeOK
  <2>3. /\ k.id = i /\ k.at = "flattening" /\ k.intent = call[c].intent
        /\ k.todo = call[c].todo \ {l} /\ l \in call[c].todo
        /\ k.failed = (call[c].failed \/ ~done)
    BY <1>4, <1>a, <2>1 DEF Calls, LegsLeft, FlattenLeg, NextLeg, Legs
  <2>4. /\ atVenue'[i] = IF done THEN atVenue[i] \ {l} ELSE atVenue[i]
        /\ lost'[i] = IF done THEN lost[i] \ {l} ELSE lost[i]
        /\ \A j \in Intents \ {i} : atVenue'[j] = atVenue[j] /\ lost'[j] = lost[j]
    BY <1>4, <1>b, <2>1 DEF FlattenLeg, LedgerTypeOK
  <2>5. /\ call[c].intent.phase = "ABORTED" /\ ~call[c].intent.hardlocked
        /\ ledgerStore[i].phase \in {"PENDING", "PREPARED"}
        /\ call[c].todo \subseteq atVenue[i] \ lost[i]
        /\ call[c].failed => (atVenue[i] \ lost[i]) \ call[c].todo # {}
        /\ ~call[c].failed => atVenue[i] \ lost[i] = call[c].todo
    BY <1>b, <2>1 DEF CallSound
  <2> HIDE DEF k, done, l
  <2>6. /\ k.todo \subseteq atVenue'[i] \ lost'[i]
        /\ k.failed => (atVenue'[i] \ lost'[i]) \ k.todo # {}
        /\ ~k.failed => atVenue'[i] \ lost'[i] = k.todo
    BY <2>3, <2>4, <2>5
  <2>7. CallSound(k, ledgerStore[i], atVenue'[i], lost'[i])
    BY <2>3, <2>5, <2>6 DEF CallSound, Working
  <2> QED
    BY <2>1, <2>2, <2>3, <2>4, <2>7, WorkLegs
<1>5. CASE EscalateFlattenFailure(c)
  <2> DEFINE k == [call[c] EXCEPT !.at = "saving", !.intent.hardlocked = TRUE]
  <2>1. /\ call[c].at = "flattening" /\ call[c].at \in Working
        /\ UNCHANGED <<ledgerStore, atVenue, lost>>
    BY <1>5 DEF EscalateFlattenFailure, Working
  <2>2. call' = [call EXCEPT ![c] = k] /\ k \in Calls
    BY <1>5, <1>a DEF EscalateFlattenFailure, Set, LedgerTypeOK
  <2>3. /\ k.id = call[c].id /\ k.at = "saving"
        /\ k.intent.phase = call[c].intent.phase /\ k.intent.hardlocked
    BY <1>a DEF Calls, IntentRecords
  <2>4. /\ call[c].intent.phase = "ABORTED"
        /\ ledgerStore[call[c].id].phase \in {"PENDING", "PREPARED"}
        /\ atVenue[call[c].id] \ lost[call[c].id] # {}
    BY <1>5, <1>b, <2>1 DEF CallSound, EscalateFlattenFailure
  <2> HIDE DEF k
  <2>5. CallSound(k, ledgerStore[call[c].id], atVenue[call[c].id], lost[call[c].id])
    BY <2>3, <2>4 DEF CallSound, Working
  <2> QED
    BY <2>1, <2>2, <2>3, <2>5, WorkLegs
<1>6. CASE UnwindSettles(c)
  <2>1. /\ call[c].at \in Working /\ UNCHANGED <<atVenue, lost>>
        /\ Store(call[c].id, call[c].intent) /\ Set(c, Returned(call[c]))
    BY <1>6 DEF UnwindSettles, Working
  <2>2. /\ call[c].intent.phase = "ABORTED"
        /\ call[c].intent.hardlocked \/ atVenue[call[c].id] \subseteq lost[call[c].id]
    BY <1>6, <1>b, <2>1 DEF UnwindSettles, CallSound
  <2>3. /\ RecordSound(call[c].intent, atVenue[call[c].id], lost[call[c].id])
        /\ StoredSound(call[c].intent)
    BY <2>2 DEF RecordSound, StoredSound
  <2> QED
    BY <1>a, <2>1, <2>2, <2>3, ReturnLegs
<1>7. ASSUME NEW i \in Intents, SweepIntent(c, i) PROVE LegsInv'
  <2> DEFINE s == [call[c] EXCEPT !.sweep = @ \ {i}]
  <2>1. /\ call[c].at \in {"idle", "sweeping"} /\ Free(i)
        /\ UNCHANGED <<ledgerStore, atVenue, lost>>
    BY <1>7 DEF SweepIntent
  <2>2. s \in Calls
    BY <1>a DEF Calls
  <2>3. /\ call[c].id = NoIntent
        /\ \A d \in Callers : call[d].id # i
        /\ RecordSound(ledgerStore[i], atVenue[i], lost[i])
        /\ StoredSound(ledgerStore[i])
    BY <2>1, AtRest
  <2>4. CASE i \in Undecided
    <3>1. call' = [call EXCEPT ![c] = Aborting(s, i)] /\ Aborting(s, i) \in Calls
      BY <1>7, <2>2, <2>4, AbortingType DEF SweepIntent, Set
    <3>2. Aborting(s, i).id = i /\ CallSound(Aborting(s, i), ledgerStore[i], atVenue[i], lost[i])
      BY <2>2, <2>3, <2>4, AbortingSound
    <3> QED
      BY <2>1, <3>1, <3>2, StartLegs
  <2>5. CASE i \notin Undecided
    <3> DEFINE k == Returned(s)
    <3>1. call' = [call EXCEPT ![c] = k] /\ k \in Calls
      BY <1>7, <2>2, <2>5, ReturnedType DEF SweepIntent, Set
    <3>2. k.id = NoIntent /\ k.at \in {"idle", "sweeping"}
      BY DEF Returned, Idle
    <3> HIDE DEF k
    <3>3. call'[c] = k /\ \A d \in Callers \ {c} : call'[d] = call[d]
      BY <3>1 DEF LedgerTypeOK
    <3>4. \A d \in Callers : call'[d].id = call[d].id
      BY <2>3, <3>2, <3>3
    <3> QED
      BY <2>1, <3>2, <3>3, <3>4 DEF LegsInv, Settled
  <2> QED
    BY <2>4, <2>5
<1> QED
  BY <1>1, <1>2, <1>3, <1>4, <1>5, <1>6, <1>7 DEF Continue

LEMMA LegsStep ==
  ASSUME ~Overlapping, LedgerTypeOK, LedgerTypeOK', LegsInv, [LedgerNext]_vars
  PROVE  LegsInv'
<1>1. CASE UNCHANGED vars
  BY <1>1 DEF vars, LegsInv, Settled
<1>2. CASE \E i \in Intents : CreateCrossLegIntent(i)
  BY <1>2, CreateLegs
<1>3. CASE \E c \in Callers : Begin(c) \/ Continue(c)
  BY <1>3, BeginLegs, ContinueLegs
<1>4. CASE ChannelStep /\ UNCHANGED ledgerVars
  BY <1>4 DEF ledgerVars, LegsInv, Settled
<1> QED
  BY <1>1, <1>2, <1>3, <1>4 DEF LedgerNext

-----------------------------------------------------------------------------
LEMMA InitTypes == LedgerInit => LedgerTypeOK /\ SysInv
<1> SUFFICES ASSUME LedgerInit PROVE LedgerTypeOK /\ SysInv
  OBVIOUS
<1>1. SysInv
  BY InitSysInv DEF LedgerInit
<1> QED
  BY <1>1, IdleCall DEF LedgerInit, LedgerTypeOK, SysInv

(* The store, the calls and the venues keep their types, and the risk      *)
(* state under the ledger keeps its invariant.                             *)
THEOREM LedgerTypeCorrect == LedgerSpec => [](LedgerTypeOK /\ SysInv)
<1>1. LedgerInit => LedgerTypeOK /\ SysInv
  BY InitTypes
<1>2. (LedgerTypeOK /\ SysInv) /\ [LedgerNext]_vars => (LedgerTypeOK /\ SysInv)'
  BY LedgerTypeStep, LedgerSysInvStep
<1> QED
  BY <1>1, <1>2, PTL DEF LedgerSpec

(* R09: with one call at a time on an intent, whatever the venues answer   *)
(* and whenever the signing channel is severed, no leg is left at a venue  *)
(* without its partner unless the record is marked hardlocked or the venue *)
(* misreported the leg.                                                    *)
THEOREM NoLegEverOrphaned ==
  ASSUME ~Overlapping
  PROVE  LedgerSpec => []NoOrphanLegs
<1>1. LedgerInit => LegsInv
  BY InitLegs
<1>2. LedgerTypeOK /\ LedgerTypeOK' /\ LegsInv /\ [LedgerNext]_vars => LegsInv'
  BY LegsStep
<1>3. LedgerTypeOK /\ LegsInv => NoOrphanLegs
  BY DEF LegsInv, RecordSound, NoOrphanLegs, LedgerTypeOK, IntentRecords, Phases
<1> QED
  BY <1>1, <1>2, <1>3, LedgerTypeCorrect, PTL DEF LedgerSpec

(* The pipeline leaves a lock, whether it severs or skips.                 *)
LEMMA PipelineLeavesLock ==
  ASSUME SysInv, SeverPipeline("R20")
  PROVE  sys'.hardlock /\ ~sys'.open
<1>1. sys \in SystemStates /\ "R20" \in Targets
  BY DEF SysInv, SysTypeOK, Targets
<1>2. CASE severTarget = "R20"
  BY <1>2 DEF SeverPipeline, SysInv, LatchMeansLocked, LockBackedByCri, NoTarget
<1>3. CASE severTarget # "R20"
  BY <1>1, <1>3, PipelineLocks DEF SeverPipeline
<1> QED
  BY <1>2, <1>3

(* Only an escalation reaches the save of a hardlocked record.             *)
LEMMA OnlyEscalationSaves ==
  ASSUME LedgerTypeOK, [LedgerNext]_vars, NEW c \in Callers,
         call[c].at # "saving", call'[c].at = "saving"
  PROVE  EscalateFlattenFailure(c)
<1>a. /\ \A d \in Callers : call[d] \in Calls /\ call[d].intent \in IntentRecords
      /\ \A i \in Intents : ledgerStore[i] \in IntentRecords
      /\ DOMAIN call = Callers
  BY DEF LedgerTypeOK, Calls
<1>b. /\ \A k \in Calls, r \in IntentRecords : \A legs : Unwinding(k, r, legs).at = "flattening"
      /\ \A k : Returned(k).at \in {"idle", "sweeping"}
  BY DEF Unwinding, Returned, Calls, Idle
<1>c. Idle \in Calls
  BY IdleCall
<1>d. ASSUME NEW d \in Callers, NEW k, Set(d, k), k.at # "saving"
      PROVE  FALSE
  <2>1. call'[c] = IF c = d THEN k ELSE call[c]
    BY <1>a, <1>d DEF Set
  <2> QED
    BY <1>d, <2>1
<1>1. ~UNCHANGED call
  OBVIOUS
<1>2. PICK d \in Callers : Begin(d) \/ Continue(d)
  BY <1>1 DEF LedgerNext, CreateCrossLegIntent, ledgerVars, vars
<1>3. CASE Begin(d)
  <2>1. ASSUME NEW i \in Intents, PrepareIntent(d, i) PROVE FALSE
    <3> DEFINE k == [Idle EXCEPT !.at = "preparing", !.id = i,
                 !.intent = [ledgerStore[i] EXCEPT !.prepared = {}, !.preparedAt = now],
                 !.pending = IF MayTrade(sys) THEN Legs ELSE Legs \ Gated]
    <3>1. Set(d, k) /\ k.at = "preparing"
      BY <2>1 DEF PrepareIntent, Idle
    <3> HIDE DEF k
    <3> QED
      BY <1>d, <3>1
  <2>2. ASSUME NEW i \in Intents, CommitIntent(d, i) PROVE FALSE
    <3> DEFINE k == [Idle EXCEPT !.at = "committing", !.id = i, !.intent = ledgerStore[i]]
               u == Unwinding(k, ledgerStore[i], ledgerStore[i].prepared)
    <3>1. Set(d, k) \/ Set(d, u)
      BY <2>2 DEF CommitIntent
    <3>2. k.at = "committing" /\ k \in Calls
      BY <1>a, IdleCall DEF Idle, Calls, Stages
    <3>3. u.at = "flattening"
      BY <1>a, <1>b, <3>2
    <3> HIDE DEF k, u
    <3> QED
      BY <1>d, <3>1, <3>2, <3>3
  <2>3. ASSUME NEW i \in Intents, AbortIntent(d, i) PROVE FALSE
    <3>1. Set(d, Aborting(Idle, i)) /\ Aborting(Idle, i).at = "flattening"
      BY <1>a, <1>c, <2>3 DEF AbortIntent, Aborting, Unwinding, Idle
    <3> QED
      BY <1>d, <3>1
  <2>4. CASE TriggerEmergencyAutoFlatten(d)
    BY <1>b, <1>d, <2>4 DEF TriggerEmergencyAutoFlatten
  <2> QED
    BY <1>3, <2>1, <2>2, <2>3, <2>4 DEF Begin
<1>4. CASE Continue(d)
  <2>1. ASSUME NEW l \in Legs, NEW answer \in Answers, PrepareLegAnswers(d, l, answer)
        PROVE  FALSE
    <3> DEFINE k == [call[d] EXCEPT !.pending = @ \ {l},
                      !.intent.prepared = IF answer = "filled" THEN @ \cup {l} ELSE @]
    <3>1. Set(d, k) /\ k.at = "preparing"
      BY <1>a, <2>1 DEF PrepareLegAnswers, Calls
    <3> HIDE DEF k
    <3> QED
      BY <1>d, <3>1
  <2>2. CASE PrepareSettles(d)
    BY <1>a, <1>b, <1>d, <2>2 DEF PrepareSettles
  <2>3. ASSUME NEW ok \in BOOLEAN, CommitSettles(d, ok) PROVE FALSE
    BY <1>a, <1>b, <1>d, <2>3 DEF CommitSettles
  <2>4. ASSUME NEW closes \in BOOLEAN, FlattenLeg(d, closes) PROVE FALSE
    <3> DEFINE done == (NextLeg(call[d].todo) \notin Gated \/ MayTrade(sys)) /\ closes
               k == [call[d] EXCEPT !.todo = LegsLeft(call[d], NextLeg(call[d].todo), done),
                                    !.failed = @ \/ ~done]
    <3>1. Set(d, k) /\ call[d].at = "flattening"
      BY <2>4 DEF FlattenLeg
    <3> HIDE DEF done
    <3>2. k.at = "flattening"
      BY <1>a, <3>1 DEF Calls
    <3> HIDE DEF k
    <3> QED
      BY <1>d, <3>1, <3>2
  <2>5. CASE EscalateFlattenFailure(d) /\ d # c
    BY <1>a, <2>5 DEF EscalateFlattenFailure, Set
  <2>6. CASE UnwindSettles(d)
    BY <1>b, <1>d, <2>6 DEF UnwindSettles
  <2>7. ASSUME NEW i \in Intents, SweepIntent(d, i) PROVE FALSE
    <3> DEFINE k == [call[d] EXCEPT !.sweep = @ \ {i}]
    <3>1. k \in Calls
      BY <1>a DEF Calls
    <3>2. Set(d, Aborting(k, i)) \/ Set(d, Returned(k))
      BY <2>7 DEF SweepIntent
    <3> HIDE DEF k
    <3>3. Aborting(k, i).at = "flattening"
      <4>1. [k EXCEPT !.id = i] \in Calls
        BY <3>1 DEF Calls
      <4> QED
        BY <1>a, <1>b, <4>1 DEF Aborting
    <3> QED
      BY <1>b, <1>d, <3>2, <3>3
  <2> QED
    BY <1>4, <2>1, <2>2, <2>3, <2>4, <2>5, <2>6, <2>7 DEF Continue
<1> QED
  BY <1>2, <1>3, <1>4

(* flatten-hardlock.ts:31: a call that could not flatten a leg leaves the  *)
(* process locked, also when the pipeline skips because R20 was severed    *)
(* before: its latch is cleared by nothing but a re-authorization.         *)
THEOREM EscalationAlwaysLocks == LedgerSpec => EscalationLocks
<1>1. LedgerTypeOK /\ SysInv /\ [LedgerNext]_vars
        => [\A c \in Callers :
              call[c].at # "saving" /\ call'[c].at = "saving"
                => sys'.hardlock /\ ~sys'.open]_vars
  BY OnlyEscalationSaves, PipelineLeavesLock DEF EscalateFlattenFailure
<1> QED
  BY <1>1, LedgerTypeCorrect, PTL DEF LedgerSpec, EscalationLocks

-----------------------------------------------------------------------------
(* The refinement.                                                         *)
ShownPhase == [i \in Intents |-> ledgerStore[i].phase]
ShownLegs == [i \in Intents |-> StoredLegs(i)]
ShownMark == [i \in Intents |-> ledgerStore[i].hardlocked]
Shown == <<ShownPhase, ShownLegs, ShownMark>>

(* An intent at rest shows its legs as its phase says, once its venues'    *)
(* misreports are left out.                                                *)
LEMMA LegsAtRest ==
  ASSUME NEW r, NEW a, NEW b, RecordSound(r, a, b),
         r.phase \in {"absent", "PENDING", "PREPARED"}
  PROVE  a \ b = IF r.phase = "PREPARED" THEN Legs ELSE {}
BY DEF RecordSound

(* A call works on undecided intents only.                                 *)
LEMMA DecidedIsSettled ==
  ASSUME LedgerTypeOK, LegsInv, NEW i \in Intents, ~Settled(i)
  PROVE  ledgerStore[i].phase \in {"PENDING", "PREPARED"}
BY NoIntentIsNone DEF LegsInv, Settled, CallSound

(* What is not stored is not seen, whoever starts or ends to work on it.   *)
LEMMA SameShown ==
  ASSUME LedgerTypeOK, LedgerTypeOK', LegsInv, LegsInv', NEW i \in Intents,
         ledgerStore'[i] = ledgerStore[i],
         Settled(i) /\ Settled(i)' => atVenue'[i] = atVenue[i] /\ lost'[i] = lost[i]
  PROVE  StoredLegs(i)' = StoredLegs(i)
<1> DEFINE seen == IF ledgerStore[i].phase = "PREPARED" THEN Legs ELSE {}
<1>1. ASSUME Settled(i), ~Settled(i)' PROVE StoredLegs(i)' = StoredLegs(i)
  <2>1. ledgerStore'[i].phase \in {"PENDING", "PREPARED"}
    BY <1>1, NoIntentIsNone DEF LegsInv, Settled, CallSound
  <2>2. RecordSound(ledgerStore[i], atVenue[i], lost[i])
    BY <1>1 DEF LegsInv
  <2>3. atVenue[i] \ lost[i] = seen
    BY <2>1, <2>2, LegsAtRest
  <2> QED
    BY <1>1, <2>3 DEF StoredLegs
<1>2. ASSUME ~Settled(i), Settled(i)' PROVE StoredLegs(i)' = StoredLegs(i)
  <2>1. ledgerStore[i].phase \in {"PENDING", "PREPARED"}
    BY <1>2, DecidedIsSettled
  <2>2. RecordSound(ledgerStore'[i], atVenue'[i], lost'[i])
    BY <1>2 DEF LegsInv
  <2>3. atVenue'[i] \ lost'[i] = seen
    BY <2>1, <2>2, LegsAtRest
  <2> QED
    BY <1>2, <2>3 DEF StoredLegs
<1>3. ASSUME Settled(i) <=> Settled(i)' PROVE StoredLegs(i)' = StoredLegs(i)
  BY <1>3 DEF StoredLegs
<1> QED
  BY <1>1, <1>2, <1>3

LEMMA NothingShown ==
  ASSUME LedgerTypeOK, LedgerTypeOK', LegsInv, LegsInv', UNCHANGED ledgerStore,
         \A i \in Intents : Settled(i) => atVenue'[i] = atVenue[i] /\ lost'[i] = lost[i]
  PROVE  UNCHANGED Shown
<1>1. \A i \in Intents : StoredLegs(i)' = StoredLegs(i)
  BY SameShown
<1> QED
  BY <1>1 DEF Shown, ShownPhase, ShownLegs, ShownMark

(* What is seen when record r of intent i is stored.                       *)
LEMMA OneShown ==
  ASSUME NEW i \in Intents, NEW r, NEW legs, LedgerTypeOK, Store(i, r),
         StoredLegs(i)' = legs,
         \A j \in Intents \ {i} : StoredLegs(j)' = StoredLegs(j)
  PROVE  /\ ShownPhase' = [ShownPhase EXCEPT ![i] = r.phase]
         /\ ShownLegs' = [ShownLegs EXCEPT ![i] = legs]
         /\ ShownMark' = [ShownMark EXCEPT ![i] = r.hardlocked]
<1>1. ledgerStore'[i] = r /\ \A j \in Intents \ {i} : ledgerStore'[j] = ledgerStore[j]
  BY DEF Store, LedgerTypeOK
<1> QED
  BY <1>1 DEF ShownPhase, ShownLegs, ShownMark

(* A working call stores record r of its intent i and returns.             *)
LEMMA ReturnShown ==
  ASSUME LedgerTypeOK, LedgerTypeOK', LegsInv, LegsInv',
         NEW c \in Callers, NEW i \in Intents, NEW r, call[c].id = i, call[c].at \in Working,
         UNCHANGED <<atVenue, lost>>,
         Store(i, r), Set(c, Returned(call[c]))
  PROVE  /\ ledgerStore[i].phase \in {"PENDING", "PREPARED"}
         /\ ~ledgerStore[i].hardlocked
         /\ StoredLegs(i) = IF ledgerStore[i].phase = "PREPARED" THEN Legs ELSE {}
         /\ CallSound(call[c], ledgerStore[i], atVenue[i], lost[i])
         /\ ShownPhase' = [ShownPhase EXCEPT ![i] = r.phase]
         /\ ShownLegs' = [ShownLegs EXCEPT ![i] = atVenue[i] \ lost[i]]
         /\ ShownMark' = [ShownMark EXCEPT ![i] = r.hardlocked]
<1>1. /\ \A d \in Callers : call[d].id = i => d = c
      /\ CallSound(call[c], ledgerStore[i], atVenue[i], lost[i])
      /\ StoredSound(ledgerStore[i])
  BY AtWork
<1>2. /\ ledgerStore[i].phase \in {"PENDING", "PREPARED"} /\ ~ledgerStore[i].hardlocked
      /\ ~Settled(i)
  BY <1>1 DEF CallSound, StoredSound, Settled
<1>3. call'[c].id = NoIntent /\ \A d \in Callers \ {c} : call'[d] = call[d]
  BY DEF Set, Returned, Idle, LedgerTypeOK
<1>4. Settled(i)'
  BY <1>1, <1>3, NoIntentIsNone DEF Settled
<1>5. StoredLegs(i)' = atVenue[i] \ lost[i]
  BY <1>4 DEF StoredLegs
<1>6. ASSUME NEW j \in Intents \ {i} PROVE StoredLegs(j)' = StoredLegs(j)
  <2>1. ledgerStore'[j] = ledgerStore[j]
    BY DEF Store, LedgerTypeOK
  <2> QED
    BY <2>1, SameShown
<1>7. /\ ShownPhase' = [ShownPhase EXCEPT ![i] = r.phase]
      /\ ShownLegs' = [ShownLegs EXCEPT ![i] = atVenue[i] \ lost[i]]
      /\ ShownMark' = [ShownMark EXCEPT ![i] = r.hardlocked]
  BY <1>5, <1>6, OneShown
<1>8. StoredLegs(i) = IF ledgerStore[i].phase = "PREPARED" THEN Legs ELSE {}
  BY <1>2 DEF StoredLegs
<1> QED
  BY <1>1, <1>2, <1>7, <1>8

(* The steps of the promise, on what is seen.                              *)
LEMMA PromiseStepShown ==
  ASSUME NEW i \in Intents, NEW phase, NEW legs \in SUBSET Legs, NEW mark,
         ShownPhase' = [ShownPhase EXCEPT ![i] = phase],
         ShownLegs' = [ShownLegs EXCEPT ![i] = legs],
         ShownMark' = [ShownMark EXCEPT ![i] = mark],
         \/ /\ ledgerStore[i].phase = "absent" /\ phase = "PENDING"
            /\ legs = StoredLegs(i) /\ mark = ledgerStore[i].hardlocked
         \/ /\ ledgerStore[i].phase = "PENDING" /\ phase = "PREPARED"
            /\ legs = Legs /\ mark = ledgerStore[i].hardlocked
         \/ /\ ledgerStore[i].phase = "PREPARED" /\ phase = "COMMITTED"
            /\ legs = StoredLegs(i) /\ mark = ledgerStore[i].hardlocked
         \/ /\ ledgerStore[i].phase \in {"PENDING", "PREPARED"} /\ phase = "ABORTED"
            /\ mark = (legs # {})
  PROVE  Ledger!PromiseNext
<1>1. /\ ShownPhase[i] = ledgerStore[i].phase
      /\ [ShownLegs EXCEPT ![i] = StoredLegs(i)] = ShownLegs
      /\ [ShownMark EXCEPT ![i] = ledgerStore[i].hardlocked] = ShownMark
  BY DEF ShownPhase, ShownLegs, ShownMark
<1>2. \/ Ledger!Open(i) \/ Ledger!Hedge(i) \/ Ledger!Confirm(i) \/ Ledger!Unwind(i)
  BY <1>1 DEF Ledger!Open, Ledger!Hedge, Ledger!Confirm, Ledger!Unwind, Ledger!Legs, Legs,
     ShownPhase, ShownLegs, ShownMark
<1> QED
  BY <1>2 DEF Ledger!PromiseNext

LEMMA CreateShown ==
  ASSUME LedgerTypeOK, LedgerTypeOK', LegsInv, LegsInv',
         NEW i \in Intents, CreateCrossLegIntent(i)
  PROVE  Ledger!PromiseNext
<1> DEFINE r == [NoRecord EXCEPT !.phase = "PENDING"]
<1>1. /\ ledgerStore[i].phase = "absent" /\ ledgerStore'[i] = r
      /\ \A j \in Intents \ {i} : ledgerStore'[j] = ledgerStore[j]
      /\ Store(i, r) /\ UNCHANGED <<call, atVenue, lost>>
  BY DEF CreateCrossLegIntent, Store, LedgerTypeOK
<1>2. r.phase = "PENDING" /\ ~r.hardlocked
  BY DEF NoRecord
<1>b. r.hardlocked \in BOOLEAN /\ ledgerStore[i].hardlocked \in BOOLEAN
  BY DEF NoRecord, LedgerTypeOK, IntentRecords
<1> HIDE DEF r
<1>3. /\ ~ledgerStore[i].hardlocked /\ Settled(i)
      /\ StoredLegs(i) \in SUBSET Legs
  <2>1. Settled(i)
    BY <1>1, DecidedIsSettled
  <2> QED
    BY <1>1, <2>1 DEF LegsInv, StoredSound, StoredLegs, LedgerTypeOK
<1>4. StoredLegs(i)' = StoredLegs(i)
  BY <1>1, <1>3 DEF StoredLegs, Settled
<1>5. \A j \in Intents \ {i} : StoredLegs(j)' = StoredLegs(j)
  BY <1>1, SameShown
<1>6. /\ ShownPhase' = [ShownPhase EXCEPT ![i] = r.phase]
      /\ ShownLegs' = [ShownLegs EXCEPT ![i] = StoredLegs(i)]
      /\ ShownMark' = [ShownMark EXCEPT ![i] = r.hardlocked]
  BY <1>1, <1>4, <1>5, OneShown
<1>7. r.hardlocked = ledgerStore[i].hardlocked
  BY <1>2, <1>3, <1>b
<1> QED
  BY <1>1, <1>2, <1>3, <1>6, <1>7, PromiseStepShown

(* Only three steps store: a full prepare, a commit and the end of an      *)
(* unwind.                                                                 *)
LEMMA StoreShown ==
  ASSUME LedgerTypeOK, LedgerTypeOK', LegsInv, LegsInv', NEW c \in Callers,
         \/ PrepareSettles(c) /\ call[c].intent.prepared = Legs
         \/ CommitSettles(c, TRUE)
         \/ UnwindSettles(c)
  PROVE  Ledger!PromiseNext
<1>1. call[c].at \in Working /\ UNCHANGED <<atVenue, lost>> /\ Set(c, Returned(call[c]))
  BY DEF PrepareSettles, CommitSettles, UnwindSettles, Working
<1>2. PICK i \in Intents : call[c].id = i
  BY <1>1, AtWork
<1>a. /\ call[c] \in Calls /\ call[c].intent \in IntentRecords
      /\ atVenue[i] \in SUBSET Legs /\ lost[i] \in SUBSET Legs
      /\ ledgerStore[i] \in IntentRecords
      /\ ledgerStore[i].hardlocked \in BOOLEAN /\ call[c].intent.hardlocked \in BOOLEAN
  BY DEF LedgerTypeOK, Calls, IntentRecords
<1>3. CallSound(call[c], ledgerStore[i], atVenue[i], lost[i]) /\ StoredSound(ledgerStore[i])
  BY <1>1, <1>2, AtWork
<1>4. CASE PrepareSettles(c) /\ call[c].intent.prepared = Legs
  <2> DEFINE r == [call[c].intent EXCEPT !.phase = "PREPARED"]
  <2>1. Store(i, r) /\ call[c].at = "preparing"
    BY <1>2, <1>4 DEF PrepareSettles
  <2>2. r.phase = "PREPARED" /\ r.hardlocked = call[c].intent.hardlocked
    BY <1>a DEF IntentRecords
  <2> HIDE DEF r
  <2>3. /\ ledgerStore[i].phase = "PENDING" /\ ~call[c].intent.hardlocked
        /\ atVenue[i] \ lost[i] = Legs
    BY <1>3, <1>4, <1>a, <2>1 DEF CallSound
  <2>4. /\ ~ledgerStore[i].hardlocked
        /\ ShownPhase' = [ShownPhase EXCEPT ![i] = r.phase]
        /\ ShownLegs' = [ShownLegs EXCEPT ![i] = atVenue[i] \ lost[i]]
        /\ ShownMark' = [ShownMark EXCEPT ![i] = r.hardlocked]
    BY <1>1, <1>2, <2>1, ReturnShown
  <2>5. r.hardlocked = ledgerStore[i].hardlocked
    BY <1>a, <2>2, <2>3, <2>4
  <2>6. Legs \in SUBSET Legs
    OBVIOUS
  <2> QED
    BY <2>2, <2>3, <2>4, <2>5, <2>6, PromiseStepShown
<1>5. CASE CommitSettles(c, TRUE)
  <2> DEFINE r == [call[c].intent EXCEPT !.phase = "COMMITTED"]
  <2>1. Store(i, r) /\ call[c].at = "committing"
    BY <1>2, <1>5 DEF CommitSettles
  <2>2. r.phase = "COMMITTED" /\ r.hardlocked = call[c].intent.hardlocked
    BY <1>a DEF IntentRecords
  <2> HIDE DEF r
  <2>3. /\ ledgerStore[i].phase = "PREPARED" /\ ~call[c].intent.hardlocked
        /\ atVenue[i] \ lost[i] = Legs
    BY <1>3, <2>1 DEF CallSound
  <2>4. /\ ~ledgerStore[i].hardlocked /\ StoredLegs(i) = Legs
        /\ ShownPhase' = [ShownPhase EXCEPT ![i] = r.phase]
        /\ ShownLegs' = [ShownLegs EXCEPT ![i] = atVenue[i] \ lost[i]]
        /\ ShownMark' = [ShownMark EXCEPT ![i] = r.hardlocked]
    BY <1>1, <1>2, <2>1, <2>3, ReturnShown
  <2>5. r.hardlocked = ledgerStore[i].hardlocked
    BY <1>a, <2>2, <2>3, <2>4
  <2>6. Legs \in SUBSET Legs
    OBVIOUS
  <2> QED
    BY <2>2, <2>3, <2>4, <2>5, <2>6, PromiseStepShown
<1>6. CASE UnwindSettles(c)
  <2> DEFINE r == call[c].intent
             legs == atVenue[i] \ lost[i]
  <2>1. Store(i, r)
    BY <1>2, <1>6 DEF UnwindSettles
  <2>2. r.phase = "ABORTED" /\ r.hardlocked = (legs # {})
    <3>1. CASE call[c].at = "saving"
      BY <1>3, <1>a, <3>1 DEF CallSound
    <3>2. CASE call[c].at = "flattening" /\ call[c].todo = {} /\ ~call[c].failed
      BY <1>3, <1>a, <3>2 DEF CallSound
    <3> QED
      BY <1>6, <3>1, <3>2 DEF UnwindSettles
  <2> HIDE DEF r
  <2>4. /\ ledgerStore[i].phase \in {"PENDING", "PREPARED"}
        /\ ShownPhase' = [ShownPhase EXCEPT ![i] = r.phase]
        /\ ShownLegs' = [ShownLegs EXCEPT ![i] = legs]
        /\ ShownMark' = [ShownMark EXCEPT ![i] = r.hardlocked]
    BY <1>1, <1>2, <2>1, ReturnShown
  <2>5. legs \in SUBSET Legs
    BY <1>a
  <2> HIDE DEF legs
  <2> QED
    BY <2>2, <2>4, <2>5, PromiseStepShown
<1> QED
  BY <1>4, <1>5, <1>6

(* Every other step of a call changes at most the legs of its own intent.  *)
LEMMA CallShown ==
  ASSUME LedgerTypeOK, LedgerTypeOK', LegsInv, LegsInv', NEW c \in Callers,
         Begin(c) \/ Continue(c)
  PROVE  Ledger!PromiseNext \/ UNCHANGED Shown
<1>1. CASE Begin(c)
  BY <1>1, NothingShown DEF Begin, PrepareIntent, CommitIntent, AbortIntent,
     TriggerEmergencyAutoFlatten
<1>2. CASE \/ PrepareSettles(c) /\ call[c].intent.prepared = Legs
           \/ CommitSettles(c, TRUE)
           \/ UnwindSettles(c)
  BY <1>2, StoreShown
<1>3. ASSUME Continue(c),
             ~(\/ PrepareSettles(c) /\ call[c].intent.prepared = Legs
               \/ CommitSettles(c, TRUE)
               \/ UnwindSettles(c))
      PROVE  UNCHANGED Shown
  <2>1. UNCHANGED ledgerStore
    BY <1>3 DEF Continue, PrepareLegAnswers, PrepareSettles, CommitSettles, FlattenLeg,
       EscalateFlattenFailure, SweepIntent
  <2>2. ASSUME NEW i \in Intents, Settled(i)
        PROVE  atVenue'[i] = atVenue[i] /\ lost'[i] = lost[i]
    <3>1. call[c].id # i
      BY <2>2 DEF Settled
    <3>2. CASE \E l \in Legs, a \in Answers : PrepareLegAnswers(c, l, a)
      BY <3>1, <3>2 DEF PrepareLegAnswers, LedgerTypeOK
    <3>3. CASE \E closes \in BOOLEAN : FlattenLeg(c, closes)
      BY <3>1, <3>3 DEF FlattenLeg, LedgerTypeOK
    <3>4. CASE \/ PrepareSettles(c) \/ UnwindSettles(c) \/ EscalateFlattenFailure(c)
               \/ \E ok \in BOOLEAN : CommitSettles(c, ok)
               \/ \E j \in Intents : SweepIntent(c, j)
      BY <3>4 DEF PrepareSettles, CommitSettles, UnwindSettles, EscalateFlattenFailure,
         SweepIntent
    <3> QED
      BY <1>3, <3>2, <3>3, <3>4 DEF Continue
  <2> QED
    BY <2>1, <2>2, NothingShown
<1> QED
  BY <1>1, <1>2, <1>3

LEMMA LedgerStepShown ==
  ASSUME LedgerTypeOK, LedgerTypeOK', LegsInv, LegsInv', [LedgerNext]_vars
  PROVE  Ledger!PromiseNext \/ UNCHANGED Shown
<1>1. CASE UNCHANGED vars
  BY <1>1, NothingShown DEF vars
<1>2. CASE \E i \in Intents : CreateCrossLegIntent(i)
  BY <1>2, CreateShown
<1>3. CASE \E c \in Callers : Begin(c) \/ Continue(c)
  BY <1>3, CallShown
<1>4. CASE ChannelStep /\ UNCHANGED ledgerVars
  BY <1>4, NothingShown DEF ledgerVars
<1> QED
  BY <1>1, <1>2, <1>3, <1>4 DEF LedgerNext

(* With one call at a time on an intent, the ledger implements             *)
(* IntentPromise: through its awaits, its partial fills and its failed     *)
(* flattens, a reader of the stored records sees both legs or none, one    *)
(* decision, and a mark on every record whose abort left a leg.            *)
THEOREM LedgerKeepsPromise ==
  ASSUME ~Overlapping
  PROVE  LedgerSpec => KeepsPromise
<1>1. LedgerInit => LegsInv
  BY InitLegs
<1>2. LedgerTypeOK /\ LedgerTypeOK' /\ LegsInv /\ [LedgerNext]_vars => LegsInv'
  BY LegsStep
<1>3. LedgerInit => Ledger!PromiseInit
  <2> SUFFICES ASSUME LedgerInit PROVE Ledger!PromiseInit
    OBVIOUS
  <2>1. \A i \in Intents : /\ ledgerStore[i].phase = "absent"
                           /\ ledgerStore[i].hardlocked = FALSE
                           /\ atVenue[i] = {}
    BY DEF LedgerInit, NoRecord
  <2>2. \A i \in Intents : StoredLegs(i) = {}
    BY <2>1 DEF StoredLegs
  <2> QED
    BY <2>1, <2>2 DEF Ledger!PromiseInit
<1>4. LedgerTypeOK /\ LedgerTypeOK' /\ LegsInv /\ LegsInv' /\ [LedgerNext]_vars
        => [Ledger!PromiseNext]_(Ledger!promiseVars)
  BY LedgerStepShown DEF Shown, ShownPhase, ShownLegs, ShownMark, Ledger!promiseVars
<1> QED
  BY <1>1, <1>2, <1>3, <1>4, LedgerTypeCorrect, PTL
  DEF LedgerSpec, KeepsPromise, Ledger!Promise
=============================================================================
