----------------------------- MODULE GateProofs -----------------------------
(***************************************************************************)
(* The gate and its executors for every set of keys, accounts, executors,  *)
(* targets and attestations, every delay that satisfies the assumptions,   *)
(* and call-backs to any depth.                                            *)
(*                                                                         *)
(* The gate: GateInv is inductive; the types, the agreement of the         *)
(* counters with the signer set, the executability of a pending change and *)
(* the deadlines each need the others in the rotation step.                *)
(*                                                                         *)
(* The executors: a revert brings back what its frame saved, so an         *)
(* invariant of the state has to hold of every saved state too, relative   *)
(* to the calls that were in progress when it was saved.  Good says so of  *)
(* one state st and the n outermost calls of the stack; ExecInv says it of *)
(* the current state and of each saved one.                                *)
(***************************************************************************)
EXTENDS GatedExecutor, FiniteSetTheorems, SequenceTheorems, TLAPS

GateInv ==
  /\ GateTypeOK
  /\ QuorumConsistent
  /\ PendingStaysExecutable
  /\ DeadlinesConsistent

-----------------------------------------------------------------------------
(* Every set of signers is finite: what its cardinality needs.             *)
LEMMA SignersFinite == ASSUME AuthTypeOK PROVE IsFiniteSet(signers)
BY AddressAssumption, FS_Subset DEF AuthTypeOK

(* Rotation keeps the count exact.                                         *)
LEMMA RotationKeepsCount ==
  ASSUME NEW c, GateInv, ExecuteSignerChange(c)
  PROVE  signerCount' = Cardinality(signers')
<1> DEFINE k == pendingChange.signer
<1>1. IsFiniteSet(signers)
  BY SignersFinite DEF GateInv, GateTypeOK
<1>2. signerCount = Cardinality(signers) /\ Cardinality(signers) \in Nat
  BY <1>1, FS_CardinalityType DEF GateInv, QuorumConsistent
<1>3. /\ pendingChange.add = (k \notin signers)
      /\ signerCount' = Resulting(pendingChange.add)
      /\ signers' = IF pendingChange.add THEN signers \cup {k} ELSE signers \ {k}
  BY DEF ExecuteSignerChange, Apply, ApplyToSigners, ChangeFits
<1>4. CASE k \notin signers
  BY <1>1, <1>2, <1>3, <1>4, FS_AddElement DEF Resulting
<1>5. CASE k \in signers
  BY <1>1, <1>2, <1>3, <1>5, FS_RemoveElement DEF Resulting
<1> QED
  BY <1>4, <1>5

LEMMA InitGateInv == GateInit => GateInv
<1> SUFFICES ASSUME GateInit PROVE GateInv
  OBVIOUS
<1> USE DEF GateInit, InitAuth
<1>1. Cardinality(InitialSigners) \in 1..UINT8_MAX /\ InitialThreshold \in 1..Cardinality(InitialSigners)
  BY InitAuthAssumption, WidthAssumption
<1>2. GateTypeOK
  <2>1. signerCount \in 0..UINT8_MAX /\ threshold \in 0..UINT8_MAX
    BY <1>1, WidthAssumption
  <2>2. pendingChange = NoChange
    OBVIOUS
  <2>3. lastHaltAt \in Int
    BY DelayAssumption
  <2> QED
    BY <2>1, <2>2, <2>3, InitAuthAssumption DEF GateTypeOK, AuthTypeOK
<1>3. QuorumConsistent
  BY <1>1 DEF QuorumConsistent
<1>4. PendingStaysExecutable /\ DeadlinesConsistent
  BY DelayAssumption DEF PendingStaysExecutable, DeadlinesConsistent, NoChange
<1> QED
  BY <1>2, <1>3, <1>4 DEF GateInv

-----------------------------------------------------------------------------
(* One lemma per conjunct of the invariant, one step per action.           *)

LEMMA TickKeeps == GateInv /\ Tick /\ UNCHANGED consumed => GateInv'
<1> SUFFICES ASSUME GateInv, Tick, UNCHANGED consumed PROVE GateInv'
  OBVIOUS
<1> USE DEF Tick, authVars, quorumVars, haltVars, roleVars
<1>1. GateTypeOK'
  BY DEF GateInv, GateTypeOK, AuthTypeOK
<1>2. QuorumConsistent' /\ PendingStaysExecutable'
  BY DEF GateInv, QuorumConsistent, PendingStaysExecutable, ChangeFits, Resulting
<1>3. DeadlinesConsistent'
  BY DelayAssumption
  DEF GateInv, GateTypeOK, AuthTypeOK, DeadlinesConsistent, PendingSignerChange, NoChange
<1> QED
  BY <1>1, <1>2, <1>3 DEF GateInv

LEMMA HaltCallsKeep ==
  ASSUME NEW c \in Account, GateInv, UNCHANGED consumed,
         Halt(c) \/ ScheduleUnhalt(c) \/ ExecuteUnhalt(c)
  PROVE  GateInv'
<1>1. UNCHANGED <<now, quorumVars, roleVars, consumed>>
  BY DEF Halt, ScheduleUnhalt, ExecuteUnhalt
<1> USE DEF quorumVars, roleVars
<1>2. GateTypeOK'
  <2>1. unhaltEta' \in Nat /\ lastHaltAt' \in Int
    BY DelayAssumption
    DEF GateInv, GateTypeOK, AuthTypeOK, Halt, ScheduleUnhalt, ExecuteUnhalt
  <2>2. halted' \in BOOLEAN
    BY Zenon DEF GateInv, GateTypeOK, AuthTypeOK, Halt, ScheduleUnhalt, ExecuteUnhalt
  <2> QED
    BY <1>1, <2>1, <2>2 DEF GateInv, GateTypeOK, AuthTypeOK
<1>3. QuorumConsistent' /\ PendingStaysExecutable'
  BY <1>1 DEF GateInv, QuorumConsistent, PendingStaysExecutable, ChangeFits, Resulting
<1>4. DeadlinesConsistent'
  BY <1>1, DelayAssumption
  DEF GateInv, GateTypeOK, AuthTypeOK, DeadlinesConsistent, PendingSignerChange, NoChange,
      Halt, ScheduleUnhalt, ExecuteUnhalt, UnhaltRipe
<1> QED
  BY <1>2, <1>3, <1>4 DEF GateInv

LEMMA ProposeKeeps ==
  ASSUME NEW c \in Account, NEW k \in Key, NEW add \in BOOLEAN, NEW t \in 0..UINT8_MAX,
         GateInv, UNCHANGED consumed, ProposeSignerChange(c, k, add, t)
  PROVE  GateInv'
<1> USE DEF ProposeSignerChange, ChangeEta, haltVars, roleVars
<1>1. GateTypeOK'
  <2>1. now + SIGNER_TIMELOCK \in Nat \ {0} /\ t \in 1..UINT8_MAX
    BY DelayAssumption, WidthAssumption DEF GateInv, GateTypeOK, AuthTypeOK, ChangeFits
  <2>2. pendingChange' \in PendingSignerChange
    BY <2>1 DEF PendingSignerChange
  <2> QED
    BY <2>2 DEF GateInv, GateTypeOK, AuthTypeOK
<1>2. QuorumConsistent' /\ PendingStaysExecutable'
  BY DEF GateInv, QuorumConsistent, PendingStaysExecutable, ChangeFits, Resulting
<1>3. DeadlinesConsistent'
  BY DelayAssumption
  DEF GateInv, GateTypeOK, AuthTypeOK, DeadlinesConsistent, PendingSignerChange, NoChange
<1> QED
  BY <1>1, <1>2, <1>3 DEF GateInv

LEMMA CancelKeeps ==
  ASSUME NEW c \in Account, GateInv, UNCHANGED consumed, CancelSignerChange(c)
  PROVE  GateInv'
<1> USE DEF CancelSignerChange, haltVars, roleVars, NoChange, ZERO
<1>1. GateTypeOK'
  BY WidthAssumption DEF GateInv, GateTypeOK, AuthTypeOK, PendingSignerChange
<1>2. QuorumConsistent' /\ PendingStaysExecutable' /\ DeadlinesConsistent'
  BY DEF GateInv, QuorumConsistent, PendingStaysExecutable, DeadlinesConsistent
<1> QED
  BY <1>1, <1>2 DEF GateInv

LEMMA RotationKeeps ==
  ASSUME NEW c \in Account, GateInv, UNCHANGED consumed, ExecuteSignerChange(c)
  PROVE  GateInv'
<1> USE DEF ExecuteSignerChange, Apply, ApplyToSigners, haltVars, roleVars, NoChange, ZERO
<1>1. PICK n \in 0..UINT8_MAX :
        n = Resulting(pendingChange.add) /\ pendingChange.newThreshold \in 1..n
  BY DEF ChangeFits
<1>2. GateTypeOK'
  <2>1. signers' \in SUBSET Key
    <3>1. CASE pendingChange.add
      <4>1. pendingChange.signer \in Key
        BY <3>1 DEF GateInv, GateTypeOK, AuthTypeOK, PendingSignerChange
      <4> QED
        BY <3>1, <4>1 DEF GateInv, GateTypeOK, AuthTypeOK
    <3>2. CASE ~pendingChange.add
      BY <3>2 DEF GateInv, GateTypeOK, AuthTypeOK
    <3> QED
      BY <3>1, <3>2
  <2>2. signerCount' \in 0..UINT8_MAX /\ threshold' \in 0..UINT8_MAX
    BY <1>1, WidthAssumption
  <2>3. pendingChange' = NoChange
    OBVIOUS
  <2> QED
    BY <2>1, <2>2, <2>3 DEF GateInv, GateTypeOK, AuthTypeOK
<1>3. QuorumConsistent'
  BY <1>1, RotationKeepsCount DEF QuorumConsistent
<1>4. PendingStaysExecutable' /\ DeadlinesConsistent'
  BY DEF GateInv, GateTypeOK, AuthTypeOK, PendingStaysExecutable, DeadlinesConsistent
<1> QED
  BY <1>2, <1>3, <1>4 DEF GateInv

LEMMA RoleCallsKeep ==
  ASSUME NEW c \in Account, GateInv, UNCHANGED consumed,
         \/ \E a \in Account : ProposeAdmin(c, a)
         \/ AcceptAdmin(c)
         \/ \E a \in Account : SetGuardian(c, a)
         \/ \E g \in PolicyGuard : SetPolicyGuard(c, g)
  PROVE  GateInv'
<1>1. UNCHANGED <<now, quorumVars, haltVars, consumed>>
  BY DEF ProposeAdmin, AcceptAdmin, SetGuardian, SetPolicyGuard
<1> USE DEF quorumVars, haltVars
<1>2. GateTypeOK'
  BY <1>1 DEF GateInv, GateTypeOK, AuthTypeOK,
              ProposeAdmin, AcceptAdmin, SetGuardian, SetPolicyGuard, ZERO
<1>3. QuorumConsistent' /\ PendingStaysExecutable' /\ DeadlinesConsistent'
  BY <1>1 DEF GateInv, QuorumConsistent, PendingStaysExecutable, DeadlinesConsistent,
              ChangeFits, Resulting
<1> QED
  BY <1>2, <1>3 DEF GateInv

LEMMA ConsumeKeeps ==
  ASSUME NEW c \in Caller, NEW a \in Attestation, NEW sigs \in SignatureList(a),
         GateInv, VerifyAndConsume(c, a, sigs)
  PROVE  GateInv'
<1> USE DEF VerifyAndConsume, Burn, authVars, quorumVars, haltVars, roleVars
<1>1. GateTypeOK'
  BY DEF GateInv, GateTypeOK, AuthTypeOK
<1>2. QuorumConsistent' /\ PendingStaysExecutable' /\ DeadlinesConsistent'
  BY DEF GateInv, QuorumConsistent, PendingStaysExecutable, DeadlinesConsistent,
         ChangeFits, Resulting
<1> QED
  BY <1>1, <1>2 DEF GateInv

LEMMA StutterKeeps == GateInv /\ UNCHANGED gateVars => GateInv'
<1> SUFFICES ASSUME GateInv, UNCHANGED gateVars PROVE GateInv'
  OBVIOUS
<1> QED
  BY DEF GateInv, GateTypeOK, AuthTypeOK, QuorumConsistent, PendingStaysExecutable,
         DeadlinesConsistent, ChangeFits, Resulting,
         gateVars, authVars, quorumVars, haltVars, roleVars

LEMMA NextKeepsGateInv == GateInv /\ [GateNext]_gateVars => GateInv'
<1> SUFFICES ASSUME GateInv, [GateNext]_gateVars PROVE GateInv'
  OBVIOUS
<1>1. CASE Tick /\ UNCHANGED consumed
  BY <1>1, TickKeeps
<1>2. ASSUME NEW c \in Account, AuthCall(c), UNCHANGED consumed
      PROVE  GateInv'
  BY <1>2, HaltCallsKeep, ProposeKeeps, CancelKeeps, RotationKeeps, RoleCallsKeep
  DEF AuthCall
<1>3. ASSUME NEW c \in Caller, NEW a \in Attestation, NEW sigs \in SignatureList(a),
             VerifyAndConsume(c, a, sigs)
      PROVE  GateInv'
  BY <1>3, ConsumeKeeps
<1>4. CASE UNCHANGED gateVars
  BY <1>4, StutterKeeps
<1> QED
  BY <1>1, <1>2, <1>3, <1>4 DEF GateNext

THEOREM GateInvariant == GateSpec => []GateInv
BY InitGateInv, NextKeepsGateInv, PTL DEF GateSpec

(* Type correctness of the gate.                                           *)
THEOREM GateTypeCorrect == GateSpec => []GateTypeOK
<1>1. GateInv => GateTypeOK
  BY DEF GateInv
<1> QED
  BY <1>1, GateInvariant, PTL

(* However often the signer set rotates, signerCount is its size and a     *)
(* quorum of it exists.                                                    *)
THEOREM QuorumAlwaysConsistent == GateSpec => []QuorumConsistent
<1>1. GateInv => QuorumConsistent
  BY DEF GateInv
<1> QED
  BY <1>1, GateInvariant, PTL

(* The deadlines agree with the state they belong to: an open gate has no  *)
(* scheduled unhalt, and each deadline keeps its distance to the event it  *)
(* is counted from.                                                        *)
THEOREM DeadlinesAlwaysConsistent == GateSpec => []DeadlinesConsistent
<1>1. GateInv => DeadlinesConsistent
  BY DEF GateInv
<1> QED
  BY <1>1, GateInvariant, PTL

(* A proposal that was accepted can be executed until it is cancelled.     *)
THEOREM PendingNeverStuck == GateSpec => []PendingStaysExecutable
<1>1. GateInv => PendingStaysExecutable
  BY DEF GateInv
<1> QED
  BY <1>1, GateInvariant, PTL

-----------------------------------------------------------------------------
(* The timelocks.  A step that rotates is ExecuteSignerChange, a step that *)
(* re-opens is ExecuteUnhalt; GateInv bounds the deadlines they wait for.  *)

LEMMA RotationStep ==
  GateInv /\ [GateNext]_gateVars =>
    [signers' # signers => now - rotatedAt >= SIGNER_TIMELOCK]_<<now, authVars>>
<1> SUFFICES ASSUME GateInv, [GateNext]_gateVars, signers' # signers
             PROVE  now - rotatedAt >= SIGNER_TIMELOCK
  OBVIOUS
<1>1. \E c \in Account : ExecuteSignerChange(c)
  BY DEF GateNext, gateVars, Tick, AuthCall, VerifyAndConsume, Halt, ScheduleUnhalt,
         ExecuteUnhalt, ProposeSignerChange, CancelSignerChange, ProposeAdmin,
         AcceptAdmin, SetGuardian, SetPolicyGuard, authVars, quorumVars
<1>2. pendingChange.eta # 0 /\ now >= pendingChange.eta /\ pendingChange.eta \in Nat
  BY <1>1 DEF ExecuteSignerChange, GateInv, GateTypeOK, AuthTypeOK, PendingSignerChange, NoChange
<1> QED
  BY <1>2, DelayAssumption DEF GateInv, GateTypeOK, AuthTypeOK, DeadlinesConsistent

THEOREM RotationAlwaysPaced == GateSpec => RotationPaced
BY GateInvariant, RotationStep, PTL DEF GateSpec, RotationPaced

LEMMA UnhaltStep ==
  GateInv /\ [GateNext]_gateVars =>
    [halted /\ ~halted' => now - lastHaltAt >= UNHALT_DELAY]_<<now, authVars>>
<1> SUFFICES ASSUME GateInv, [GateNext]_gateVars, halted, ~halted'
             PROVE  now - lastHaltAt >= UNHALT_DELAY
  OBVIOUS
<1>1. \E c \in Account : ExecuteUnhalt(c)
  BY DEF GateNext, gateVars, Tick, AuthCall, VerifyAndConsume, Halt, ScheduleUnhalt,
         ExecuteSignerChange, ProposeSignerChange, CancelSignerChange, ProposeAdmin,
         AcceptAdmin, SetGuardian, SetPolicyGuard, authVars, haltVars
<1> QED
  BY <1>1, DelayAssumption
  DEF ExecuteUnhalt, UnhaltRipe, GateInv, GateTypeOK, AuthTypeOK, DeadlinesConsistent

THEOREM HaltAlwaysLasts == GateSpec => HaltLasts
BY GateInvariant, UnhaltStep, PTL DEF GateSpec, HaltLasts

-----------------------------------------------------------------------------
(* Acceptance.                                                             *)

(* The only step that burns a digest.                                      *)
LEMMA OnlyVerifyConsumes ==
  ASSUME [GateNext]_gateVars, NEW a \in consumed' \ consumed
  PROVE  \E c \in Caller, sigs \in SignatureList(a) : a \in Attestation /\ Allows(a, sigs, c)
BY DEF GateNext, gateVars, VerifyAndConsume, Burn

(* A strictly ascending list of signers that signed a is an injection of   *)
(* its positions into those signers: there are at least as many of them.   *)
LEMMA QuorumFromSignatures ==
  ASSUME GateInv, NEW a \in Attestation, NEW sigs \in SignatureList(a),
         SignaturesOk(sigs), Len(sigs) >= threshold
  PROVE  Cardinality(SignedBy[a] \cap signers) >= threshold
<1> DEFINE S == SignedBy[a] \cap signers
<1>1. PICK n \in 0..(MAX_SIGNATURES + 1) : sigs \in [1..n -> SignedBy[a] \cup {ZERO}]
  BY DEF SignatureList
<1>2. n \in Nat /\ Len(sigs) = n /\ DOMAIN sigs = 1..n
  BY <1>1, WidthAssumption
<1>3. sigs \in [1..n -> S]
  BY <1>1, <1>2 DEF SignaturesOk
<1>4. \A i, j \in 1..n : sigs[i] = sigs[j] => i = j
  <2> SUFFICES ASSUME NEW i \in 1..n, NEW j \in 1..n, sigs[i] = sigs[j], i # j
               PROVE  FALSE
    OBVIOUS
  <2>1. sigs[i] \in Nat /\ sigs[j] \in Nat
    BY <1>3, AddressAssumption DEF GateInv, GateTypeOK, AuthTypeOK
  <2>2. i < j \/ j < i
    OBVIOUS
  <2> QED
    BY <2>1, <2>2, <1>2 DEF SignaturesOk
<1>5. sigs \in Injection(1..n, S)
  BY <1>3, <1>4 DEF Injection, IsInjective
<1>6. IsFiniteSet(S) /\ Cardinality(S) \in Nat
  BY SignersFinite, FS_Intersection, FS_CardinalityType DEF GateInv, GateTypeOK
<1>7. Cardinality(1..n) <= Cardinality(S) /\ Cardinality(1..n) = n
  BY <1>2, <1>5, <1>6, FS_Injection, FS_Interval
<1> QED
  BY <1>2, <1>6, <1>7 DEF GateInv, GateTypeOK, AuthTypeOK

LEMMA QuorumStep ==
  GateInv /\ [GateNext]_gateVars =>
    [\A a \in consumed' \ consumed : Cardinality(SignedBy[a] \cap signers) >= threshold]_gateVars
<1> SUFFICES ASSUME GateInv, [GateNext]_gateVars, NEW a \in consumed' \ consumed
             PROVE  Cardinality(SignedBy[a] \cap signers) >= threshold
  OBVIOUS
<1> QED
  BY OnlyVerifyConsumes, QuorumFromSignatures DEF Allows

(* Every accepted attestation was signed by a quorum of current signers.   *)
THEOREM QuorumAlwaysApproved == GateSpec => QuorumApproved
BY GateInvariant, QuorumStep, PTL DEF GateSpec, QuorumApproved

LEMMA RevocationStep ==
  GateInv /\ [GateNext]_gateVars =>
    [\A a \in consumed' \ consumed : a.issuedAt > lastHaltAt + MAX_FUTURE_SKEW]_gateVars
<1> SUFFICES ASSUME GateInv, [GateNext]_gateVars, NEW a \in consumed' \ consumed
             PROVE  a.issuedAt > lastHaltAt + MAX_FUTURE_SKEW
  OBVIOUS
<1>1. a \in Attestation /\ Fresh(a) /\ ~halted
  BY OnlyVerifyConsumes DEF Allows
<1>2. a.issuedAt \in Nat /\ a.expiresAt \in Nat
  BY <1>1, AttestationAssumption
<1>3. now - lastHaltAt >= UNHALT_DELAY
  BY <1>1 DEF GateInv, DeadlinesConsistent
<1> QED
  BY <1>1, <1>2, <1>3, TtlAssumption, DelayAssumption
  DEF Fresh, GateInv, GateTypeOK, AuthTypeOK

(* A halt revokes every attestation outstanding at that moment.            *)
THEOREM HaltAlwaysRevokes == GateSpec => HaltRevokesOutstanding
BY GateInvariant, RevocationStep, PTL DEF GateSpec, HaltRevokesOutstanding

-----------------------------------------------------------------------------
(* The executors.                                                          *)
CallRecord ==
  [executor : Executor, initiator : EOA \cup Contract, target : Target, data : Data,
   att : Attestation]

SavedState ==
  [consumed : SUBSET Attestation, lock : [Executor -> {1, 2}],
   allowedCount : [Executor -> Nat], deniedCount : [Executor -> Nat],
   performed : Seq(CallRecord)]

Frame == [executor : Executor, target : Target, saved : SavedState]

(* Executor e runs one of the n outermost calls of stk.                    *)
Running(stk, n, e) == \E i \in 1..n : stk[i].executor = e

CallsOf(calls, e) == {k \in DOMAIN calls : calls[k].executor = e}
Made(calls) == {calls[k].att : k \in DOMAIN calls}

Authorized(p, spent) ==
  /\ p.att \in spent /\ p.att.subject = p.executor
  /\ p.att.payload = <<p.executor, p.initiator, p.target, p.data, p.att.nonce>>
  /\ Permitted(p.executor, p.target)

Good(st, stk, n) ==
  /\ \A e \in Executor : (st.lock[e] = 2) <=> Running(stk, n, e)
  /\ \A k, l \in DOMAIN st.performed : st.performed[k].att = st.performed[l].att => k = l
  /\ \A k \in DOMAIN st.performed : Authorized(st.performed[k], st.consumed)
  /\ \A e \in Executor :
       Cardinality(CallsOf(st.performed, e))
         = st.allowedCount[e] + (IF Running(stk, n, e) THEN 1 ELSE 0)
  /\ n > 0 => (* what happened since the outermost call began *)
       LET base == stk[1].saved
       IN /\ base.consumed \subseteq st.consumed
          /\ Made(base.performed) \subseteq Made(st.performed)
          /\ \A a \in Made(st.performed) :
               a \in Made(base.performed) \/ (a \in st.consumed /\ a \notin base.consumed)

ExecTypeOK ==
  /\ stack \in Seq(Frame)
  /\ Snapshot \in SavedState
  /\ halted \in BOOLEAN

ExecInv ==
  /\ ExecTypeOK
  /\ \A i \in 1..Len(stack) : Good(stack[i].saved, stack, i - 1)
  /\ Good(Snapshot, stack, Len(stack))
  /\ \A i, j \in 1..Len(stack) : stack[i].executor = stack[j].executor => i = j
  /\ stack # <<>> => ~halted

-----------------------------------------------------------------------------
(* Sequences.                                                              *)
LEMMA FrontFacts ==
  ASSUME NEW S, NEW s \in Seq(S), s # <<>>
  PROVE  /\ Len(s) \in Nat /\ Len(s) > 0
         /\ Last(s) = s[Len(s)] /\ Last(s) \in S
         /\ Front(s) \in Seq(S) /\ Len(Front(s)) = Len(s) - 1
         /\ \A i \in 1..(Len(s) - 1) : Front(s)[i] = s[i]
         /\ (Front(s) = <<>>) <=> (Len(s) = 1)
<1>1. Len(s) \in Nat /\ Len(s) > 0
  OBVIOUS
<1>2. Last(s) = s[Len(s)] /\ Last(s) \in S
  BY <1>1 DEF Last
<1>3. /\ Front(s) \in Seq(S) /\ Len(Front(s)) = Len(s) - 1
      /\ \A i \in 1..(Len(s) - 1) : Front(s)[i] = s[i]
  <2> DEFINE m == Len(s) - 1
  <2>1. m \in Nat /\ \A i \in 1..m : s[i] \in S
    BY <1>1
  <2> HIDE DEF m
  <2>2. /\ SubSeq(s, 1, m) \in Seq(S)
        /\ Len(SubSeq(s, 1, m)) = IF 1 <= m THEN m - 1 + 1 ELSE 0
        /\ \A i \in 1..(m - 1 + 1) : SubSeq(s, 1, m)[i] = s[1 + i - 1]
    BY <2>1, SubSeqProperties
  <2>3. /\ Len(SubSeq(s, 1, m)) = m
        /\ \A i \in 1..m : SubSeq(s, 1, m)[i] = s[i]
    BY <2>1, <2>2
  <2> QED
    BY <2>2, <2>3 DEF Front, m
<1> QED
  BY <1>1, <1>2, <1>3

LEMMA AppendFacts ==
  ASSUME NEW S, NEW s \in Seq(S), NEW x \in S
  PROVE  /\ Append(s, x) \in Seq(S) /\ Len(s) \in Nat /\ Len(Append(s, x)) = Len(s) + 1
         /\ \A i \in 1..Len(s) : Append(s, x)[i] = s[i]
         /\ Append(s, x)[Len(s) + 1] = x
         /\ DOMAIN Append(s, x) = DOMAIN s \cup {Len(s) + 1}
         /\ DOMAIN s = 1..Len(s)
OBVIOUS

(* Good looks at no call further in than the n-th.                         *)
LEMMA GoodOfPrefix ==
  ASSUME NEW st, NEW stk, NEW other, NEW n \in Nat, Good(st, stk, n),
         \A i \in 1..n : other[i] = stk[i]
  PROVE  Good(st, other, n)
<1>1. \A e : Running(other, n, e) <=> Running(stk, n, e)
  BY DEF Running
<1>2. n > 0 => other[1] = stk[1]
  OBVIOUS
<1> QED
  BY <1>1, <1>2 DEF Good

LEMMA CallsFinite ==
  ASSUME NEW calls \in Seq(CallRecord), NEW e
  PROVE  IsFiniteSet(CallsOf(calls, e)) /\ Cardinality(CallsOf(calls, e)) \in Nat
<1>1. IsFiniteSet(1..Len(calls))
  BY FS_Interval
<1>2. CallsOf(calls, e) \subseteq 1..Len(calls)
  BY DEF CallsOf
<1> QED
  BY <1>1, <1>2, FS_Subset, FS_CardinalityType

(* One call more.                                                          *)
LEMMA CallsAppend ==
  ASSUME NEW calls \in Seq(CallRecord), NEW c \in CallRecord, NEW e
  PROVE  /\ Made(Append(calls, c)) = Made(calls) \cup {c.att}
         /\ Cardinality(CallsOf(Append(calls, c), e))
              = Cardinality(CallsOf(calls, e)) + (IF c.executor = e THEN 1 ELSE 0)
<1>1. Made(Append(calls, c)) = Made(calls) \cup {c.att}
  BY AppendFacts DEF Made
<1>2. CallsOf(Append(calls, c), e)
        = IF c.executor = e THEN CallsOf(calls, e) \cup {Len(calls) + 1} ELSE CallsOf(calls, e)
  BY AppendFacts DEF CallsOf
<1>3. Len(calls) + 1 \notin CallsOf(calls, e)
  BY DEF CallsOf
<1>4. IsFiniteSet(CallsOf(calls, e)) /\ Cardinality(CallsOf(calls, e)) \in Nat
  BY CallsFinite
<1>5. CASE c.executor = e
  <2>1. Cardinality(CallsOf(calls, e) \cup {Len(calls) + 1}) = Cardinality(CallsOf(calls, e)) + 1
    BY <1>3, <1>4, FS_AddElement
  <2> QED
    BY <1>1, <1>2, <1>5, <2>1
<1>6. CASE c.executor # e
  BY <1>1, <1>2, <1>4, <1>6
<1> QED
  BY <1>5, <1>6

-----------------------------------------------------------------------------
(* The state an executor's call is entered with, and the one it makes.     *)
LEMMA EnterGood ==
  ASSUME NEW st \in SavedState, NEW stk \in Seq(Frame), NEW n \in Nat, Good(st, stk, n),
         NEW c \in CallRecord, c.att \notin st.consumed, st.lock[c.executor] = 1,
         Authorized(c, st.consumed \cup {c.att}),
         NEW other, \A i \in 1..n : other[i] = stk[i],
         other[n + 1].executor = c.executor, n = 0 => other[1].saved = st,
         NEW new \in SavedState,
         new.consumed = st.consumed \cup {c.att},
         new.lock = [st.lock EXCEPT ![c.executor] = 2],
         new.allowedCount = st.allowedCount,
         new.performed = Append(st.performed, c)
  PROVE  Good(new, other, n + 1)
<1>0. 1..(n + 1) = 1..n \cup {n + 1}
  OBVIOUS
<1>1. /\ c.executor \in Executor /\ st.lock \in [Executor -> {1, 2}]
      /\ st.performed \in Seq(CallRecord) /\ st.allowedCount \in [Executor -> Nat]
  BY DEF CallRecord, SavedState
<1>2. ASSUME NEW e \in Executor
      PROVE  Running(other, n + 1, e) <=> Running(stk, n, e) \/ e = c.executor
  BY <1>0 DEF Running
<1>3. ~Running(stk, n, c.executor)
  BY <1>1 DEF Good
<1>4. \A e \in Executor : (new.lock[e] = 2) <=> Running(other, n + 1, e)
  BY <1>1, <1>2 DEF Good
<1>5. /\ Made(new.performed) = Made(st.performed) \cup {c.att}
      /\ \A e \in Executor : Cardinality(CallsOf(new.performed, e))
           = Cardinality(CallsOf(st.performed, e)) + (IF c.executor = e THEN 1 ELSE 0)
  BY <1>1, CallsAppend
<1>6. \A e \in Executor :
        Cardinality(CallsOf(new.performed, e))
          = new.allowedCount[e] + (IF Running(other, n + 1, e) THEN 1 ELSE 0)
  <2>1. ASSUME NEW e \in Executor
        PROVE  /\ st.allowedCount[e] \in Nat
               /\ Cardinality(CallsOf(st.performed, e))
                    = st.allowedCount[e] + (IF Running(stk, n, e) THEN 1 ELSE 0)
    BY <1>1 DEF Good
  <2> QED
    BY <1>2, <1>3, <1>5, <2>1
<1>7. /\ DOMAIN new.performed = DOMAIN st.performed \cup {Len(st.performed) + 1}
      /\ \A k \in DOMAIN st.performed : new.performed[k] = st.performed[k]
      /\ new.performed[Len(st.performed) + 1] = c
  BY <1>1, AppendFacts
<1>8. \A k \in DOMAIN st.performed : Authorized(st.performed[k], st.consumed)
  BY DEF Good
<1>9. \A k \in DOMAIN new.performed : Authorized(new.performed[k], new.consumed)
  <2>1. \A k \in DOMAIN st.performed : Authorized(st.performed[k], new.consumed)
    BY <1>8 DEF Authorized
  <2>2. Authorized(c, new.consumed)
    OBVIOUS
  <2> QED
    BY <1>7, <2>1, <2>2
<1>10. \A k, l \in DOMAIN new.performed : new.performed[k].att = new.performed[l].att => k = l
  <2>1. \A k \in DOMAIN st.performed : st.performed[k].att # c.att
    BY <1>8 DEF Authorized
  <2> QED
    BY <1>7, <2>1 DEF Good
<1>11. LET base == other[1].saved
       IN /\ base.consumed \subseteq new.consumed
          /\ Made(base.performed) \subseteq Made(new.performed)
          /\ \A a \in Made(new.performed) :
               a \in Made(base.performed) \/ (a \in new.consumed /\ a \notin base.consumed)
  <2>1. CASE n = 0
    BY <1>5, <2>1
  <2>2. CASE n > 0
    <3>1. other[1] = stk[1]
      BY <2>2
    <3> QED
      BY <1>5, <2>2, <3>1 DEF Good
  <2> QED
    BY <2>1, <2>2
<1> QED
  BY <1>4, <1>6, <1>9, <1>10, <1>11 DEF Good

LEMMA ExecuteKeeps ==
  ASSUME ExecInv, NEW c \in EOA \cup Contract, NEW e \in Executor, NEW target \in Target,
         NEW data \in Data, NEW a \in Attestation, NEW sigs, Execute(c, e, target, data, a, sigs)
  PROVE  ExecInv'
<1> DEFINE call == [executor |-> e, initiator |-> c, target |-> target, data |-> data, att |-> a]
           frame == [executor |-> e, target |-> target, saved |-> Snapshot]
           n == Len(stack)
<1>1. /\ stack \in Seq(Frame) /\ Snapshot \in SavedState /\ n \in Nat
      /\ consumed \in SUBSET Attestation /\ lock \in [Executor -> {1, 2}]
      /\ allowedCount \in [Executor -> Nat] /\ deniedCount \in [Executor -> Nat]
      /\ performed \in Seq(CallRecord)
  BY DEF ExecInv, ExecTypeOK, Snapshot, SavedState
<1>2. /\ call \in CallRecord /\ frame \in Frame
      /\ frame.executor = e /\ frame.saved = Snapshot
      /\ call.executor = e /\ call.att = a
  BY <1>1 DEF CallRecord, Frame
<1>3. /\ stack' = Append(stack, frame) /\ performed' = Append(performed, call)
      /\ lock' = [lock EXCEPT ![e] = 2] /\ consumed' = consumed \cup {a}
      /\ UNCHANGED <<allowedCount, deniedCount, halted>>
  BY DEF Execute, Burn, authVars, haltVars
<1>4. /\ a \notin consumed /\ ~halted /\ lock[e] = 1
      /\ Authorized(call, consumed \cup {a})
  BY DEF Execute, Allows, MayEnter, Bound, PayloadHash, Authorized
<1> HIDE DEF call, frame
<1>0. 1..(n + 1) = 1..n \cup {n + 1}
  BY <1>1
<1>5. /\ stack' \in Seq(Frame) /\ Len(stack') = n + 1
      /\ \A i \in 1..n : stack'[i] = stack[i]
      /\ stack'[n + 1] = frame
  BY <1>1, <1>2, <1>3, AppendFacts
<1>6. Snapshot' \in SavedState
  BY <1>1, <1>2, <1>3, AppendFacts DEF Snapshot, SavedState
<1>7. Good(Snapshot', stack', n + 1)
  <2>1. /\ Snapshot.consumed = consumed /\ Snapshot.lock = lock
        /\ Snapshot.allowedCount = allowedCount /\ Snapshot.performed = performed
        /\ Snapshot'.consumed = consumed' /\ Snapshot'.lock = lock'
        /\ Snapshot'.allowedCount = allowedCount' /\ Snapshot'.performed = performed'
    BY DEF Snapshot
  <2>2. Good(Snapshot, stack, n)
    BY DEF ExecInv
  <2> DEFINE st == Snapshot
             new == Snapshot'
             other == stack'
  <2>3. /\ st \in SavedState /\ new \in SavedState /\ Good(st, stack, n)
        /\ \A i \in 1..n : other[i] = stack[i]
        /\ other[n + 1].executor = call.executor
        /\ n = 0 => other[1].saved = st
    BY <1>1, <1>2, <1>5, <1>6, <2>2
  <2>4. /\ call.att \notin st.consumed /\ st.lock[call.executor] = 1
        /\ Authorized(call, st.consumed \cup {call.att})
    BY <1>2, <1>4, <2>1
  <2>5. /\ new.consumed = st.consumed \cup {call.att}
        /\ new.lock = [st.lock EXCEPT ![call.executor] = 2]
        /\ new.allowedCount = st.allowedCount
        /\ new.performed = Append(st.performed, call)
    BY <1>2, <1>3, <2>1
  <2> HIDE DEF n, st, new, other
  <2>6. Good(new, other, n + 1)
    BY <1>1, <1>2, <2>3, <2>4, <2>5, EnterGood
  <2> QED
    BY <2>6 DEF new, other
<1>8. ASSUME NEW i \in 1..(n + 1) PROVE Good(stack'[i].saved, stack', i - 1)
  <2>1. CASE i \in 1..n
    <3>1. Good(stack[i].saved, stack, i - 1) /\ i - 1 \in Nat
      BY <2>1 DEF ExecInv
    <3>2. \A j \in 1..(i - 1) : stack'[j] = stack[j]
      BY <1>5, <2>1
    <3> QED
      BY <1>5, <2>1, <3>1, <3>2, GoodOfPrefix
  <2>2. CASE i = n + 1
    <3>1. Good(Snapshot, stack, n)
      BY DEF ExecInv
    <3>2. i - 1 = n /\ stack'[i].saved = Snapshot
      BY <1>1, <1>2, <1>5, <2>2
    <3>3. Good(Snapshot, stack', n)
      BY <1>1, <1>5, <3>1, GoodOfPrefix
    <3> QED
      BY <3>2, <3>3
  <2> QED
    BY <1>1, <2>1, <2>2
<1>9. \A i, j \in 1..(n + 1) : stack'[i].executor = stack'[j].executor => i = j
  <2>1. \A i \in 1..n : stack[i].executor # e
    <3>1. Good(Snapshot, stack, n) /\ Snapshot.lock[e] # 2
      BY <1>4 DEF ExecInv, Snapshot
    <3> QED
      BY <3>1 DEF Good, Running
  <2> QED
    BY <1>0, <1>1, <1>2, <1>5, <2>1 DEF ExecInv
<1>10. halted' \in BOOLEAN /\ ~halted'
  BY <1>3, <1>4 DEF ExecInv, ExecTypeOK
<1> QED
  BY <1>5, <1>6, <1>7, <1>8, <1>9, <1>10 DEF ExecInv, ExecTypeOK

-----------------------------------------------------------------------------
(* The innermost call returns.                                            *)
LEMMA ReturnKeeps == ASSUME ExecInv, Return PROVE ExecInv'
<1> DEFINE n == Len(stack) - 1
           e == Last(stack).executor
<1>1. /\ stack \in Seq(Frame) /\ Snapshot \in SavedState /\ stack # <<>> /\ ~halted
      /\ halted \in BOOLEAN
  BY DEF ExecInv, ExecTypeOK, Return
<1>2. /\ n \in Nat /\ Len(stack) = n + 1 /\ e \in Executor /\ stack[n + 1].executor = e
      /\ stack' \in Seq(Frame) /\ Len(stack') = n
      /\ \A i \in 1..n : stack'[i] = stack[i]
  <2>1. /\ Len(stack) \in Nat /\ Len(stack) > 0
        /\ Last(stack) = stack[Len(stack)] /\ Last(stack) \in Frame
        /\ Front(stack) \in Seq(Frame) /\ Len(Front(stack)) = Len(stack) - 1
        /\ \A i \in 1..(Len(stack) - 1) : Front(stack)[i] = stack[i]
    BY <1>1, FrontFacts
  <2>2. stack' = Front(stack)
    BY DEF Return
  <2>3. n + 1 = Len(stack) /\ n \in Nat
    BY <2>1
  <2> QED
    BY <2>1, <2>2, <2>3 DEF Frame
<1>3. /\ allowedCount' = [allowedCount EXCEPT ![e] = @ + 1] /\ lock' = [lock EXCEPT ![e] = 1]
      /\ UNCHANGED <<consumed, deniedCount, performed, halted>>
  BY DEF Return, gateVars, authVars, haltVars
<1> HIDE DEF n, e
<1>4. Snapshot' \in SavedState
  BY <1>1, <1>2, <1>3 DEF Snapshot, SavedState
<1>5. Good(Snapshot', stack', n)
  <2> DEFINE st == Snapshot
             new == Snapshot'
             other == stack'
  <2>1. /\ st \in SavedState /\ new \in SavedState /\ Good(st, stack, n + 1)
        /\ \A i, j \in 1..(n + 1) : stack[i].executor = stack[j].executor => i = j
        /\ \A i \in 1..n : other[i] = stack[i]
    BY <1>1, <1>2, <1>4 DEF ExecInv
  <2>2. /\ new.consumed = st.consumed /\ new.performed = st.performed
        /\ \A d \in Executor :
             /\ new.lock[d] = IF d = e THEN 1 ELSE st.lock[d]
             /\ new.allowedCount[d] = st.allowedCount[d] + (IF d = e THEN 1 ELSE 0)
    BY <1>1, <1>2, <1>3 DEF Snapshot, SavedState
  <2>3. /\ n > 0 => other[1] = stack[1]
        /\ 1..(n + 1) = 1..n \cup {n + 1} /\ n + 1 \notin 1..n
        /\ st.allowedCount \in [Executor -> Nat]
    BY <1>2, <2>1 DEF SavedState
  <2> HIDE DEF st, new, other
  <2>4. ASSUME NEW d \in Executor
        PROVE  /\ Running(stack, n + 1, d) <=> Running(other, n, d) \/ d = e
               /\ ~Running(other, n, e)
    BY <1>2, <2>1, <2>3 DEF Running
  <2>5. \A d \in Executor : (new.lock[d] = 2) <=> Running(other, n, d)
    BY <2>1, <2>2, <2>4 DEF Good
  <2>6. ASSUME NEW d \in Executor
        PROVE  Cardinality(CallsOf(new.performed, d))
                 = new.allowedCount[d] + (IF Running(other, n, d) THEN 1 ELSE 0)
    <3>1. /\ st.allowedCount[d] \in Nat
          /\ Cardinality(CallsOf(st.performed, d))
               = st.allowedCount[d] + (IF Running(stack, n + 1, d) THEN 1 ELSE 0)
      BY <2>1, <2>3 DEF Good
    <3> QED
      BY <1>2, <2>2, <2>4, <3>1
  <2>7. Good(new, other, n)
    BY <1>2, <2>1, <2>2, <2>3, <2>5, <2>6 DEF Good
  <2> QED
    BY <2>7 DEF new, other
<1>6. ASSUME NEW i \in 1..n PROVE Good(stack'[i].saved, stack', i - 1)
  <2>1. Good(stack[i].saved, stack, i - 1) /\ i - 1 \in Nat
    BY <1>2 DEF ExecInv
  <2>2. \A j \in 1..(i - 1) : stack'[j] = stack[j]
    BY <1>2
  <2> QED
    BY <1>2, <2>1, <2>2, GoodOfPrefix
<1>7. \A i, j \in 1..n : stack'[i].executor = stack'[j].executor => i = j
  BY <1>2 DEF ExecInv
<1> QED
  BY <1>1, <1>2, <1>3, <1>4, <1>5, <1>6, <1>7 DEF ExecInv, ExecTypeOK

(* The innermost call reverts: what its frame saved is the state again.    *)
LEMMA RevertKeeps == ASSUME ExecInv, Revert PROVE ExecInv'
<1> DEFINE n == Len(stack) - 1
           s == Last(stack).saved
<1>1. /\ stack \in Seq(Frame) /\ stack # <<>> /\ ~halted /\ halted' = halted
      /\ halted \in BOOLEAN
  BY DEF ExecInv, ExecTypeOK, Revert, authVars, haltVars
<1>2. /\ n \in Nat /\ Len(stack) = n + 1 /\ s \in SavedState /\ stack[n + 1].saved = s
      /\ stack' \in Seq(Frame) /\ Len(stack') = n
      /\ \A i \in 1..n : stack'[i] = stack[i]
  <2>1. /\ Len(stack) \in Nat /\ Len(stack) > 0
        /\ Last(stack) = stack[Len(stack)] /\ Last(stack) \in Frame
        /\ Front(stack) \in Seq(Frame) /\ Len(Front(stack)) = Len(stack) - 1
        /\ \A i \in 1..(Len(stack) - 1) : Front(stack)[i] = stack[i]
    BY <1>1, FrontFacts
  <2>2. stack' = Front(stack)
    BY DEF Revert
  <2>3. n + 1 = Len(stack) /\ n \in Nat
    BY <2>1
  <2> QED
    BY <2>1, <2>2, <2>3 DEF Frame
<1>3. Snapshot' = s
  BY <1>2 DEF Revert, Snapshot, SavedState
<1> HIDE DEF n, s
<1>4. ASSUME NEW i \in 1..n PROVE Good(stack'[i].saved, stack', i - 1)
  <2>1. Good(stack[i].saved, stack, i - 1) /\ i - 1 \in Nat
    BY <1>2 DEF ExecInv
  <2>2. \A j \in 1..(i - 1) : stack'[j] = stack[j]
    BY <1>2
  <2> QED
    BY <1>2, <2>1, <2>2, GoodOfPrefix
<1>5. Good(s, stack', n)
  <2>1. n + 1 \in 1..Len(stack) /\ n + 1 - 1 = n
    BY <1>2
  <2>2. Good(s, stack, n)
    BY <1>2, <2>1 DEF ExecInv
  <2> QED
    BY <1>2, <2>2, GoodOfPrefix
<1>6. \A i, j \in 1..n : stack'[i].executor = stack'[j].executor => i = j
  BY <1>2 DEF ExecInv
<1> QED
  BY <1>1, <1>2, <1>3, <1>4, <1>5, <1>6 DEF ExecInv, ExecTypeOK

-----------------------------------------------------------------------------
(* The steps that enter no executor: an attestation is spent directly, a   *)
(* call is refused, or the gate is administered between transactions.      *)
LEMMA GoodOfMoreSpent ==
  ASSUME NEW st, NEW new, NEW stk, NEW n \in Nat, Good(st, stk, n),
         new.lock = st.lock, new.allowedCount = st.allowedCount,
         new.performed = st.performed, st.consumed \subseteq new.consumed
  PROVE  Good(new, stk, n)
<1>1. \A k \in DOMAIN st.performed : Authorized(st.performed[k], new.consumed)
  BY DEF Good, Authorized
<1> QED
  BY <1>1 DEF Good

LEMMA QuietKeeps ==
  ASSUME ExecInv, UNCHANGED <<stack, lock, allowedCount, performed>>,
         consumed \subseteq consumed', consumed' \in SUBSET Attestation,
         deniedCount' \in [Executor -> Nat],
         halted' \in BOOLEAN, stack # <<>> => halted' = halted
  PROVE  ExecInv'
<1> DEFINE st == Snapshot
           new == Snapshot'
<1>1. /\ new.lock = st.lock /\ new.allowedCount = st.allowedCount
      /\ new.performed = st.performed /\ st.consumed \subseteq new.consumed
  BY DEF Snapshot
<1>2. new \in SavedState /\ Len(stack) \in Nat
  BY DEF ExecInv, ExecTypeOK, Snapshot, SavedState
<1>3. Good(st, stack, Len(stack))
  BY DEF ExecInv
<1> HIDE DEF st, new
<1>4. Good(new, stack, Len(stack))
  BY <1>1, <1>2, <1>3, GoodOfMoreSpent
<1>5. Good(Snapshot', stack', Len(stack')) /\ Snapshot' \in SavedState
  BY <1>2, <1>4 DEF new
<1> QED
  BY <1>5 DEF ExecInv, ExecTypeOK

LEMMA AuthCallHalted ==
  ASSUME NEW c, AuthCall(c), halted \in BOOLEAN PROVE halted' \in BOOLEAN
BY Zenon DEF AuthCall, Halt, ScheduleUnhalt, ExecuteUnhalt, ProposeSignerChange,
   CancelSignerChange, ExecuteSignerChange, ProposeAdmin, AcceptAdmin, SetGuardian,
   SetPolicyGuard, haltVars

LEMMA ExecStep == ASSUME ExecInv, [Next]_vars PROVE ExecInv'
<1>1. /\ consumed \in SUBSET Attestation /\ deniedCount \in [Executor -> Nat]
      /\ halted \in BOOLEAN
  BY DEF ExecInv, ExecTypeOK, Snapshot, SavedState
<1>2. CASE BetweenTransactions
  <2>1. halted' \in BOOLEAN
    BY <1>1, <1>2, AuthCallHalted DEF BetweenTransactions, Tick, authVars, haltVars
  <2>2. stack = <<>> /\ UNCHANGED <<consumed, execVars, stack>>
    BY <1>2 DEF BetweenTransactions
  <2> QED
    BY <1>1, <2>1, <2>2, QuietKeeps DEF execVars
<1>3. ASSUME NEW c \in EOA \cup Contract, ExecutorCall(c) PROVE ExecInv'
  <2>0. PICK e \in Executor, target \in Target, data \in Data, a \in Attestation :
          \E sigs \in SignatureList(a) :
            \/ Execute(c, e, target, data, a, sigs)
            \/ TryExecuteDenied(c, e, target, data, a, sigs)
    BY <1>3 DEF ExecutorCall
  <2>1. PICK sigs \in SignatureList(a) :
          \/ Execute(c, e, target, data, a, sigs)
          \/ TryExecuteDenied(c, e, target, data, a, sigs)
    BY <2>0
  <2>2. CASE Execute(c, e, target, data, a, sigs)
    BY <2>2, ExecuteKeeps
  <2>3. CASE TryExecuteDenied(c, e, target, data, a, sigs)
    <3>1. deniedCount' \in [Executor -> Nat]
      BY <1>1, <2>3 DEF TryExecuteDenied
    <3> QED
      BY <1>1, <2>3, <3>1, QuietKeeps
      DEF TryExecuteDenied, gateVars, authVars, haltVars
  <2> QED
    BY <2>1, <2>2, <2>3
<1>4. ASSUME NEW c \in Caller, NEW a \in Attestation, NEW sigs, ConsumeDirectly(c, a, sigs)
      PROVE  ExecInv'
  BY <1>1, <1>4, QuietKeeps
  DEF ConsumeDirectly, VerifyAndConsume, Burn, execVars, authVars, haltVars
<1>5. CASE UNCHANGED vars
  BY <1>1, <1>5, QuietKeeps DEF vars, gateVars, execVars, authVars, haltVars
<1> QED
  BY <1>2, <1>3, <1>4, <1>5, ReturnKeeps, RevertKeeps DEF Next

LEMMA ExecInit == ASSUME Init PROVE ExecInv
<1>1. /\ stack = <<>> /\ stack \in Seq(Frame) /\ Len(stack) = 0 /\ halted = FALSE
      /\ consumed = {} /\ performed = <<>> /\ performed \in Seq(CallRecord)
      /\ lock = [e \in Executor |-> 1] /\ allowedCount = [e \in Executor |-> 0]
      /\ deniedCount = [e \in Executor |-> 0]
  BY DEF Init, GateInit, InitAuth
<1>2. Snapshot \in SavedState
  BY <1>1 DEF Snapshot, SavedState
<1>3. \A e \in Executor : CallsOf(performed, e) = {} /\ Cardinality(CallsOf(performed, e)) = 0
  BY <1>1, FS_EmptySet DEF CallsOf
<1>4. \A e : ~Running(stack, 0, e)
  BY DEF Running
<1>5. Good(Snapshot, stack, 0)
  BY <1>1, <1>3, <1>4 DEF Good, Snapshot
<1>6. \A i \in 1..Len(stack) : FALSE
  BY <1>1
<1>7. halted \in BOOLEAN /\ ~halted
  BY <1>1
<1> QED
  BY <1>1, <1>2, <1>5, <1>6, <1>7 DEF ExecInv, ExecTypeOK

LEMMA ExecInvariant == Spec => []ExecInv
<1>1. ExecInv /\ [Next]_vars => ExecInv'
  BY ExecStep
<1> QED
  BY <1>1, ExecInit, PTL DEF Spec

-----------------------------------------------------------------------------
LEMMA InFlightFacts ==
  ASSUME ExecInv, NEW e
  PROVE  /\ (InFlight(e) # {}) <=> Running(stack, Len(stack), e)
         /\ Cardinality(InFlight(e)) = IF Running(stack, Len(stack), e) THEN 1 ELSE 0
<1>1. DOMAIN stack = 1..Len(stack)
  BY DEF ExecInv, ExecTypeOK
<1>2. (InFlight(e) # {}) <=> Running(stack, Len(stack), e)
  BY <1>1 DEF InFlight, Running
<1>3. CASE Running(stack, Len(stack), e)
  <2>1. PICK i \in 1..Len(stack) : stack[i].executor = e
    BY <1>3 DEF Running
  <2>2. InFlight(e) = {i}
    BY <1>1, <2>1 DEF InFlight, ExecInv
  <2> QED
    BY <1>2, <1>3, <2>2, FS_Singleton
<1>4. CASE ~Running(stack, Len(stack), e)
  BY <1>2, <1>4, FS_EmptySet
<1> QED
  BY <1>2, <1>3, <1>4

(* An executor is locked exactly while it is on the stack, once at most,   *)
(* for any depth of calls that call back and revert.                       *)
THEOREM AlwaysLockedWhileInFlight == Spec => []LockedWhileInFlight
<1>1. ExecInv => LockedWhileInFlight
  <2> SUFFICES ASSUME ExecInv, NEW e \in Executor
               PROVE  /\ Cardinality(InFlight(e)) <= 1
                      /\ (lock[e] = 2) <=> (InFlight(e) # {})
    BY DEF LockedWhileInFlight
  <2>1. (lock[e] = 2) <=> Running(stack, Len(stack), e)
    BY DEF ExecInv, Good, Snapshot
  <2> QED
    BY <2>1, InFlightFacts
<1> QED
  BY <1>1, ExecInvariant, PTL

(* An attestation pays for one call, the one it binds, for any             *)
(* attestations, targets and nesting.                                      *)
THEOREM AlwaysOneCallPerAttestation == Spec => []OneCallPerAttestation
<1>1. ExecInv => OneCallPerAttestation
  <2> SUFFICES ASSUME ExecInv PROVE OneCallPerAttestation
    OBVIOUS
  <2>1. /\ \A k, l \in DOMAIN performed : performed[k].att = performed[l].att => k = l
        /\ \A k \in DOMAIN performed : Authorized(performed[k], consumed)
    BY DEF ExecInv, Good, Snapshot
  <2> QED
    BY <2>1 DEF OneCallPerAttestation, Authorized
<1> QED
  BY <1>1, ExecInvariant, PTL

(* What an executor counts as allowed is the number of calls it made.      *)
THEOREM AllowedCountAlwaysExact == Spec => []AllowedCountExact
<1>1. ExecInv => AllowedCountExact
  <2> SUFFICES ASSUME ExecInv, NEW e \in Executor
               PROVE  allowedCount[e] + Cardinality(InFlight(e))
                        = Cardinality({i \in DOMAIN performed : performed[i].executor = e})
    BY DEF AllowedCountExact
  <2>1. Cardinality(CallsOf(performed, e))
          = allowedCount[e] + (IF Running(stack, Len(stack), e) THEN 1 ELSE 0)
    BY DEF ExecInv, Good, Snapshot
  <2> QED
    BY <2>1, InFlightFacts DEF CallsOf
<1> QED
  BY <1>1, ExecInvariant, PTL

-----------------------------------------------------------------------------
(* The refinement.  An observer sees the state the outermost call began    *)
(* with until that call returns.                                           *)
SeenSpent == Committed("consumed", consumed)
SeenMade == {p.att : p \in Range(Committed("performed", performed))}

LEMMA MadeIsRange == ASSUME NEW f PROVE {p.att : p \in Range(f)} = Made(f)
BY DEF Made, Range

LEMMA Seen ==
  /\ stack = <<>> => SeenSpent = consumed /\ SeenMade = Made(performed)
  /\ stack # <<>> => /\ SeenSpent = stack[1].saved.consumed
                     /\ SeenMade = Made(stack[1].saved.performed)
BY MadeIsRange DEF SeenSpent, SeenMade, Committed

(* As long as the outermost call is the same, nothing is seen.             *)
LEMMA NothingSeen ==
  ASSUME halted' = halted, stack # <<>>, stack' # <<>>, stack'[1] = stack[1]
  PROVE  UNCHANGED <<SeenSpent, SeenMade, halted>>
BY DEF SeenSpent, SeenMade, Committed

LEMMA QuietSeen ==
  ASSUME UNCHANGED <<stack, consumed, performed>>
  PROVE  UNCHANGED <<SeenSpent, SeenMade>>
BY DEF SeenSpent, SeenMade, Committed

(* What a step that spends shows to the observer is a transaction.         *)
LEMMA TransactionSeen ==
  ASSUME ~halted, halted' = halted, SeenSpent' \in SUBSET Attestation,
         SeenSpent \subseteq SeenSpent', SeenMade \subseteq SeenMade',
         SeenMade' \ SeenMade \subseteq SeenSpent' \ SeenSpent
  PROVE  Promise!Next
BY DEF Promise!Next, Promise!Transaction, SeenSpent, SeenMade

LEMMA LeavingSeen ==
  ASSUME ExecInv, stack # <<>>, stack' = Front(stack), halted' = halted,
         \/ UNCHANGED <<consumed, performed>>
         \/ /\ consumed' = Last(stack).saved.consumed
            /\ performed' = Last(stack).saved.performed
  PROVE  [Promise!Next]_<<SeenSpent, SeenMade, halted>>
<1>1. /\ Len(stack) \in Nat /\ Len(stack) > 0 /\ Last(stack) = stack[Len(stack)]
      /\ \A i \in 1..(Len(stack) - 1) : stack'[i] = stack[i]
      /\ (stack' = <<>>) <=> (Len(stack) = 1)
  BY FrontFacts DEF ExecInv, ExecTypeOK
<1>2. CASE Len(stack) > 1
  BY <1>1, <1>2, NothingSeen
<1>3. CASE Len(stack) = 1 /\ consumed' = Last(stack).saved.consumed
                          /\ performed' = Last(stack).saved.performed
  <2>1. stack' = <<>> /\ Last(stack) = stack[1]
    BY <1>1, <1>3
  <2>2. SeenSpent = consumed' /\ SeenMade = Made(performed')
    BY <1>3, <2>1, Seen
  <2>3. SeenSpent' = consumed' /\ SeenMade' = Made(performed')
    BY <2>1, MadeIsRange DEF SeenSpent, SeenMade, Committed
  <2> QED
    BY <2>2, <2>3
<1>4. CASE Len(stack) = 1 /\ UNCHANGED <<consumed, performed>>
  <2>1. stack' = <<>>
    BY <1>1, <1>4
  <2>2. SeenSpent' = consumed /\ SeenMade' = Made(performed)
    BY <1>4, <2>1, MadeIsRange DEF SeenSpent, SeenMade, Committed
  <2>3. SeenSpent = stack[1].saved.consumed /\ SeenMade = Made(stack[1].saved.performed)
    BY Seen
  <2>4. /\ stack[1].saved.consumed \subseteq consumed
        /\ Made(stack[1].saved.performed) \subseteq Made(performed)
        /\ \A a \in Made(performed) :
             \/ a \in Made(stack[1].saved.performed)
             \/ a \in consumed /\ a \notin stack[1].saved.consumed
    BY <1>4 DEF ExecInv, Good, Snapshot
  <2>5. ~halted /\ consumed \in SUBSET Attestation
    BY DEF ExecInv, ExecTypeOK, Snapshot, SavedState
  <2>6. /\ ~halted /\ halted' = halted
        /\ SeenSpent' \in SUBSET Attestation
        /\ SeenSpent \subseteq SeenSpent' /\ SeenMade \subseteq SeenMade'
        /\ SeenMade' \ SeenMade \subseteq SeenSpent' \ SeenSpent
    BY <2>2, <2>3, <2>4, <2>5
  <2> QED
    BY <2>6, TransactionSeen
<1>5. Len(stack) > 1 \/ Len(stack) = 1
  <2> DEFINE n == Len(stack)
  <2>1. n \in Nat /\ n > 0
    BY <1>1
  <2> HIDE DEF n
  <2>2. n > 1 \/ n = 1
    BY <2>1
  <2> QED
    BY <2>2 DEF n
<1> QED
  BY <1>2, <1>3, <1>4, <1>5, Zenon

LEMMA ObservedStep ==
  ASSUME ExecInv, [Next]_vars PROVE [Promise!Next]_<<SeenSpent, SeenMade, halted>>
<1>1. CASE BetweenTransactions
  <2>1. UNCHANGED <<SeenSpent, SeenMade>>
    BY <1>1, QuietSeen DEF BetweenTransactions, execVars
  <2>2. halted' = halted \/ halted' = ~halted
    BY <1>1, Zenon
    DEF BetweenTransactions, Tick, AuthCall, Halt, ScheduleUnhalt, ExecuteUnhalt,
        ProposeSignerChange, CancelSignerChange, ExecuteSignerChange, ProposeAdmin,
        AcceptAdmin, SetGuardian, SetPolicyGuard, authVars, haltVars
  <2>3. CASE halted' = halted
    BY <2>1, <2>3
  <2>4. CASE halted' = ~halted
    BY <2>1, <2>4 DEF Promise!Next, Promise!SwitchHalt, SeenSpent, SeenMade
  <2> QED
    BY <2>2, <2>3, <2>4
<1>2. ASSUME NEW c \in EOA \cup Contract, ExecutorCall(c)
      PROVE  UNCHANGED <<SeenSpent, SeenMade, halted>>
  <2>1. PICK e \in Executor, target \in Target, data \in Data, a \in Attestation :
          \E sigs \in SignatureList(a) :
            \/ Execute(c, e, target, data, a, sigs)
            \/ TryExecuteDenied(c, e, target, data, a, sigs)
    BY <1>2 DEF ExecutorCall
  <2>2. ASSUME NEW sigs, Execute(c, e, target, data, a, sigs)
        PROVE  UNCHANGED <<SeenSpent, SeenMade, halted>>
    <3> DEFINE frame == [executor |-> e, target |-> target, saved |-> Snapshot]
    <3>1. /\ stack' = Append(stack, frame) /\ halted' = halted
          /\ stack \in Seq(Frame) /\ frame \in Frame /\ frame.saved = Snapshot
      BY <2>2 DEF Execute, authVars, haltVars, ExecInv, ExecTypeOK, Frame
    <3> HIDE DEF frame
    <3>2. /\ stack' # <<>>
          /\ stack = <<>> => stack'[1] = frame
          /\ stack # <<>> => stack'[1] = stack[1]
      BY <3>1, AppendFacts
    <3>3. CASE stack # <<>>
      BY <3>1, <3>2, <3>3, NothingSeen
    <3>4. CASE stack = <<>>
      <4>1. SeenSpent' = stack'[1].saved.consumed /\ SeenMade' = Made(stack'[1].saved.performed)
        BY <3>2, MadeIsRange DEF SeenSpent, SeenMade, Committed
      <4>2. SeenSpent' = consumed /\ SeenMade' = Made(performed)
        BY <3>1, <3>2, <3>4, <4>1 DEF Snapshot
      <4> QED
        BY <3>1, <3>4, <4>2, Seen
    <3> QED
      BY <3>3, <3>4
  <2>3. ASSUME NEW sigs, TryExecuteDenied(c, e, target, data, a, sigs)
        PROVE  UNCHANGED <<SeenSpent, SeenMade, halted>>
    BY <2>3, QuietSeen DEF TryExecuteDenied, gateVars, authVars, haltVars
  <2> QED
    BY <2>1, <2>2, <2>3
<1>3. ASSUME NEW c \in Caller, NEW a \in Attestation, NEW sigs, ConsumeDirectly(c, a, sigs)
      PROVE  [Promise!Next]_<<SeenSpent, SeenMade, halted>>
  <2>1. /\ ~halted /\ halted' = halted /\ consumed' = consumed \cup {a}
        /\ stack' = stack /\ performed' = performed
    BY <1>3 DEF ConsumeDirectly, VerifyAndConsume, Allows, Burn, execVars, authVars, haltVars
  <2>2. CASE stack # <<>>
    BY <2>1, <2>2, NothingSeen
  <2>3. CASE stack = <<>>
    <3>1. /\ SeenSpent = consumed /\ SeenMade = Made(performed)
          /\ SeenSpent' = consumed' /\ SeenMade' = Made(performed)
      BY <2>1, <2>3, MadeIsRange DEF SeenSpent, SeenMade, Committed
    <3>2. consumed \in SUBSET Attestation
      BY DEF ExecInv, ExecTypeOK, Snapshot, SavedState
    <3>3. /\ ~halted /\ halted' = halted
          /\ SeenSpent' \in SUBSET Attestation
          /\ SeenSpent \subseteq SeenSpent' /\ SeenMade \subseteq SeenMade'
          /\ SeenMade' \ SeenMade \subseteq SeenSpent' \ SeenSpent
      BY <2>1, <3>1, <3>2
    <3> QED
      BY <3>3, TransactionSeen
  <2> QED
    BY <2>2, <2>3
<1>4. CASE Return
  BY <1>4, LeavingSeen DEF Return, gateVars, authVars, haltVars
<1>5. CASE Revert
  BY <1>5, LeavingSeen DEF Revert, authVars, haltVars
<1>6. CASE UNCHANGED vars
  BY <1>6, QuietSeen DEF vars, gateVars, execVars, authVars, haltVars
<1> QED
  BY <1>1, <1>2, <1>3, <1>4, <1>5, <1>6 DEF Next

(* The executors keep the promise of AuthorizedCalls: seen from outside,   *)
(* attestations are never unspent, a call comes with the spending of its   *)
(* attestation, and nothing is spent while the gate is halted.             *)
THEOREM AlwaysKeepsPromise == Spec => KeepsPromise
<1>1. Init => Promise!Init
  <2> SUFFICES ASSUME Init PROVE Promise!Init
    OBVIOUS
  <2>1. stack = <<>> /\ consumed = {} /\ performed = <<>> /\ halted = FALSE
    BY DEF Init, GateInit, InitAuth
  <2>2. SeenSpent = {} /\ SeenMade = {}
    BY <2>1, Seen DEF Made
  <2> QED
    BY <2>1, <2>2 DEF Promise!Init, SeenSpent, SeenMade
<1>2. ExecInv /\ [Next]_vars => [Promise!Next]_(Promise!absVars)
  BY ObservedStep DEF Promise!absVars, SeenSpent, SeenMade
<1> QED
  BY <1>1, <1>2, ExecInvariant, PTL DEF Spec, KeepsPromise, Promise!Spec
=============================================================================
