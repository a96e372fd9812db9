------------------------- MODULE SystemStateProofs -------------------------
(***************************************************************************)
(* The hardlock of an isolate, for every cool-down and clock.  SysInv is  *)
(* inductive: a set latch means a lock, a lock means a zero CRI, and only  *)
(* the last survives an update that patches none of the three, because the *)
(* base of updateSystemState recomputes the lock from the CRI.             *)
(***************************************************************************)
EXTENDS SystemState, TLAPS

SysInv == SysTypeOK /\ LockBackedByCri /\ LatchMeansLocked

(* Observer mode closes the channel and leaves the CRI alone.              *)
LEMMA ObservingKeepsLock ==
  ASSUME NEW s \in SystemStates, NEW f \in Statuses
  PROVE  /\ Observing(s, f) \in SystemStates
         /\ Observing(s, f).cri = s.cri
         /\ Observing(s, f).hardlock = (s.cri <= CRI_MIN)
         /\ ~Observing(s, f).open
BY DEF Observing, Updated, Patched, SystemStates, Modes, Statuses, CRI_MIN, CRI_MAX

LEMMA SeveredLocks ==
  ASSUME NEW s \in SystemStates
  PROVE  /\ Severed(s) \in SystemStates
         /\ Severed(s).cri = CRI_MIN
         /\ Severed(s).hardlock
         /\ ~Severed(s).open
BY DEF Severed, SystemStates, Modes, Statuses, CRI_MIN, CRI_MAX

LEMMA PipelineLocks ==
  ASSUME NEW s \in SystemStates, NEW t \in Targets
  PROVE  /\ Observing(Severed(s), SeverStatus[t]) \in SystemStates
         /\ Observing(Severed(s), SeverStatus[t]).cri = CRI_MIN
         /\ Observing(Severed(s), SeverStatus[t]).hardlock
         /\ ~Observing(Severed(s), SeverStatus[t]).open
<1>1. SeverStatus[t] \in Statuses
  BY DEF SeverStatus, Statuses, Targets
<1>2. Severed(s) \in SystemStates /\ Severed(s).cri = CRI_MIN
  BY SeveredLocks
<1>3. Observing(Severed(s), SeverStatus[t]).hardlock = (Severed(s).cri <= CRI_MIN)
  BY <1>1, <1>2, ObservingKeepsLock
<1>4. CRI_MIN <= CRI_MIN
  BY DEF CRI_MIN
<1> QED
  BY <1>1, <1>2, <1>3, <1>4, ObservingKeepsLock

LEMMA InitSysInv == SysInit => SysInv
<1> SUFFICES ASSUME SysInit PROVE SysInv
  OBVIOUS
<1> USE DEF SysInit, FreshState
<1>1. sys \in SystemStates
  BY DEF SystemStates, Modes, Statuses, CRI_MIN, CRI_MAX
<1>2. LockBackedByCri
  BY DEF LockBackedByCri, CRI_MIN, CRI_MAX
<1>3. severTarget = NoTarget /\ violationAt \in Int /\ now \in Nat
  OBVIOUS
<1>4. LatchMeansLocked
  BY <1>3 DEF LatchMeansLocked
<1>5. spreadNormal \in BOOLEAN
  OBVIOUS
<1> HIDE DEF SysInit, FreshState
<1> QED
  BY <1>1, <1>2, <1>3, <1>4, <1>5 DEF SysInv, SysTypeOK

(* The step lemmas speak of the state a writer leaves: of its type, and of *)
(* the three lock fields together.                                         *)
LEMMA StateStep ==
  ASSUME SysInv, SysNext
  PROVE  sys' \in SystemStates /\ LockBackedByCri'
<1> USE DEF SysInv, SysTypeOK, LockBackedByCri
<1>1. ASSUME SeverSigningChannel PROVE sys' \in SystemStates /\ LockBackedByCri'
  BY <1>1, SeveredLocks DEF SeverSigningChannel
<1>2. ASSUME NEW t \in Targets, SeverPipeline(t)
      PROVE  sys' \in SystemStates /\ LockBackedByCri'
  <2>1. CASE severTarget = t
    BY <1>2, <2>1 DEF SeverPipeline
  <2>2. CASE severTarget # t
    BY <1>2, <2>2, PipelineLocks DEF SeverPipeline
  <2> QED
    BY <2>1, <2>2
<1>3. ASSUME NEW f \in KeyFailures, SignFailure(f)
      PROVE  sys' \in SystemStates /\ LockBackedByCri'
  <2>1. f \in Statuses
    BY DEF Statuses
  <2>2. sys' = Observing(sys, f)
    BY <1>3 DEF SignFailure
  <2> QED
    BY <2>1, <2>2, ObservingKeepsLock DEF SystemStates, CRI_MIN, CRI_MAX
<1>4. ASSUME MarkStale \/ ClearStale PROVE sys' \in SystemStates /\ LockBackedByCri'
  <2>1. CASE MarkStale
    BY <2>1 DEF MarkStale, Updated, Patched, SystemStates, Modes, Statuses, CRI_MIN, CRI_MAX
  <2>2. CASE ClearStale
    BY <2>2 DEF ClearStale, Updated, Patched, SystemStates, Modes, Statuses, CRI_MIN, CRI_MAX
  <2> QED
    BY <1>4, <2>1, <2>2
<1>5. ASSUME RevocationLock PROVE sys' \in SystemStates /\ LockBackedByCri'
  BY <1>5 DEF RevocationLock, Updated, Patched, SystemStates, Modes, Statuses, CRI_MIN, CRI_MAX
<1>6. ASSUME AutoRecover PROVE sys' \in SystemStates /\ LockBackedByCri'
  BY <1>6 DEF AutoRecover, Updated, Patched, SystemStates, Modes, Statuses, CRI_MIN, CRI_MAX
<1>7. ASSUME Release PROVE sys' \in SystemStates /\ LockBackedByCri'
  BY <1>7 DEF Release, Updated, Patched, SystemStates, Modes, Statuses, CRI_MIN, CRI_MAX
<1>8. ASSUME UNCHANGED sys PROVE sys' \in SystemStates /\ LockBackedByCri'
  BY <1>8
<1>9. ASSUME Restart PROVE sys' \in SystemStates /\ LockBackedByCri'
  BY <1>9 DEF Restart, FreshState, SystemStates, Modes, Statuses, CRI_MIN, CRI_MAX
<1> QED
  BY <1>1, <1>2, <1>3, <1>4, <1>5, <1>6, <1>7, <1>8, <1>9
     DEF SysNext, IsolateStep, SoilSample, Tick

(* Only the pipeline sets the latch, and only on a locked state; only the  *)
(* release unlocks, and it clears the latch.                               *)
LEMMA LockStep ==
  ASSUME SysInv, SysNext
  PROVE  /\ LatchMeansLocked'
         /\ sys.hardlock => (sys'.hardlock \/ Release \/ Restart)
<1> USE DEF SysInv, SysTypeOK, LockBackedByCri, LatchMeansLocked
<1>0. LockBackedByCri'
  BY StateStep
<1>1. ASSUME SeverSigningChannel PROVE sys'.hardlock
  BY <1>1, SeveredLocks DEF SeverSigningChannel
<1>2. ASSUME NEW t \in Targets, SeverPipeline(t) PROVE sys'.hardlock
  <2>1. CASE severTarget = t
    BY <1>2, <2>1 DEF SeverPipeline, Targets, NoTarget
  <2>2. CASE severTarget # t
    BY <1>2, <2>2, PipelineLocks DEF SeverPipeline
  <2> QED
    BY <2>1, <2>2
<1>3. ASSUME NEW f \in KeyFailures, SignFailure(f)
      PROVE  sys.hardlock => sys'.hardlock
  <2>1. f \in Statuses
    BY DEF Statuses
  <2>2. sys'.cri = sys.cri
    BY <1>3, <2>1, ObservingKeepsLock DEF SignFailure
  <2> QED
    BY <1>0, <2>2
<1>4. ASSUME MarkStale \/ ClearStale PROVE sys.hardlock => sys'.hardlock
  <2>1. sys'.cri = sys.cri
    BY <1>4 DEF MarkStale, ClearStale, Updated, Patched
  <2> QED
    BY <1>0, <2>1
<1>5. ASSUME RevocationLock PROVE sys'.hardlock
  BY <1>5 DEF RevocationLock, Updated, Patched
<1>6. ASSUME AutoRecover PROVE ~sys.hardlock
  BY <1>6 DEF AutoRecover
<1>7. ASSUME Release \/ Restart PROVE severTarget' = NoTarget
  BY <1>7 DEF Release, Restart
<1>8. ASSUME ~Release, ~Restart, \A t \in Targets : ~SeverPipeline(t)
      PROVE  severTarget' = severTarget
  BY <1>8 DEF SysNext, IsolateStep, SeverSigningChannel, SignFailure, MarkStale, ClearStale,
     RevocationLock, AutoRecover, SoilSample, Tick
<1>9. sys.hardlock => (sys'.hardlock \/ Release \/ Restart)
  BY <1>1, <1>2, <1>3, <1>4, <1>5, <1>6 DEF SysNext, IsolateStep, SoilSample, Tick
<1>10. LatchMeansLocked'
  BY <1>2, <1>7, <1>8, <1>9
<1> QED
  BY <1>9, <1>10

LEMMA SysInvStep == SysInv /\ [SysNext]_sysVars => SysInv'
<1> SUFFICES ASSUME SysInv, [SysNext]_sysVars PROVE SysInv'
  OBVIOUS
<1>1. CASE UNCHANGED sysVars
  BY <1>1 DEF SysInv, SysTypeOK, LockBackedByCri, LatchMeansLocked, sysVars
<1>2. CASE SysNext
  <2>1. sys' \in SystemStates /\ LockBackedByCri' /\ LatchMeansLocked'
    BY <1>2, StateStep, LockStep
  <2>2. severTarget' \in Targets \cup {NoTarget}
    BY <1>2 DEF SysInv, SysTypeOK, SysNext, IsolateStep, SeverSigningChannel, SeverPipeline,
       SignFailure, MarkStale, ClearStale, RevocationLock, AutoRecover, SoilSample, Release,
       Tick, Restart
  <2>3. violationAt' \in Int /\ spreadNormal' \in BOOLEAN /\ now' \in Nat
    <3>1. CASE Restart
      <4>1. violationAt' = -1 /\ now' = now
        BY <3>1 DEF Restart
      <4>2. violationAt' \in Int /\ now' \in Nat
        BY <4>1 DEF SysInv, SysTypeOK
      <4>3. spreadNormal' \in BOOLEAN
        BY <3>1 DEF Restart
      <4> QED
        BY <4>2, <4>3
    <3>2. CASE IsolateStep
      BY <3>2 DEF SysInv, SysTypeOK, IsolateStep, SeverSigningChannel, SeverPipeline, SignFailure,
         MarkStale, ClearStale, RevocationLock, AutoRecover, SoilSample, Release, Tick
    <3> QED
      BY <1>2, <3>1, <3>2 DEF SysNext
  <2> QED
    BY <2>1, <2>2, <2>3 DEF SysInv, SysTypeOK
<1> QED
  BY <1>1, <1>2

(* Every reachable state has the types the code declares.                  *)
THEOREM SystemStateTypeCorrect == SysSpec => []SysTypeOK
<1>1. SysSpec => []SysInv
  BY InitSysInv, SysInvStep, PTL DEF SysSpec
<1> QED
  BY <1>1, PTL DEF SysInv

(* A hardlock is always backed by a zero CRI, so no unrelated update of    *)
(* the state recomputes it away, and an open channel is never locked.      *)
THEOREM LockAlwaysBackedByCri == SysSpec => []LockBackedByCri
<1>1. SysSpec => []SysInv
  BY InitSysInv, SysInvStep, PTL DEF SysSpec
<1> QED
  BY <1>1, PTL DEF SysInv

(* The idempotence latch of severCircuitBreakerPipeline is set only while  *)
(* the lock is on: skipping a repeated sever is sound.                     *)
THEOREM LatchAlwaysMeansLocked == SysSpec => []LatchMeansLocked
<1>1. SysSpec => []SysInv
  BY InitSysInv, SysInvStep, PTL DEF SysSpec
<1> QED
  BY <1>1, PTL DEF SysInv

(* Only the master's re-authorization, or the loss of the isolate, lifts a *)
(* hardlock.                                                               *)
THEOREM OnlyReauthorizationEverClears == SysSpec => OnlyReauthorizationClears
<1>1. SysInv /\ [SysNext]_sysVars => [sys.hardlock => (sys'.hardlock \/ Release \/ Restart)]_sysVars
  BY LockStep
<1>2. SysSpec => []SysInv
  BY InitSysInv, SysInvStep, PTL DEF SysSpec
<1> QED
  BY <1>1, <1>2, PTL DEF SysSpec, OnlyReauthorizationClears
=============================================================================
