------------------------------ MODULE GateAuth ------------------------------
(***************************************************************************)
(* The authority half of the on-chain gate (SliverVineGateAuth.sol): who   *)
(* may halt the gate, who may re-open it and after which delay, and how    *)
(* the m-of-n signer set rotates behind a timelock.                        *)
(*                                                                         *)
(* One action is one successful external call; a call whose checks fail    *)
(* reverts and leaves no trace, so it is a stuttering step.  An address is *)
(* a positive number, 0 the zero address: the gate compares addresses with *)
(* "<".  Block time only moves between calls.                              *)
(***************************************************************************)
EXTENDS Integers, FiniteSets

CONSTANTS
  Account,          \* addresses that hold, or are offered, a role
  Key,              \* addresses of signing keys, signers or not
  PolicyGuard,      \* addresses offered to setPolicyGuard
  InitialSigners,   \* constructor arguments
  InitialThreshold,
  UNHALT_DELAY, SIGNER_TIMELOCK, MAX_SIGNATURES,
  UINT8_MAX,        \* 255 in the code: the width of signerCount and threshold
  MAX_TIME          \* bound: block time stops here

ZERO == 0

ASSUME AddressAssumption ==
  /\ Account \subseteq Nat \ {ZERO}
  /\ Key \subseteq Nat \ {ZERO}
  /\ PolicyGuard \subseteq Nat \ {ZERO}
  /\ IsFiniteSet(Key)

ASSUME DelayAssumption ==
  /\ UNHALT_DELAY \in Nat \ {0}
  /\ SIGNER_TIMELOCK \in Nat \ {0}
  /\ MAX_TIME \in Nat

ASSUME WidthAssumption ==
  /\ UINT8_MAX \in Nat
  /\ MAX_SIGNATURES \in Nat
  /\ MAX_SIGNATURES <= UINT8_MAX

(* The checks of the constructor on its arguments: a gate that fails them  *)
(* is never deployed.                                                      *)
ASSUME InitAuthAssumption ==
  /\ InitialSigners \subseteq Key
  /\ Cardinality(InitialSigners) \in 1..MAX_SIGNATURES
  /\ InitialThreshold \in 1..Cardinality(InitialSigners)

VARIABLES
  now,              \* block.timestamp
  signers,          \* {k : isSigner[k]}
  signerCount, threshold,
  pendingChange,
  halted, unhaltEta,
  guardian, admin, pendingAdmin, policyGuard,
  lastHaltAt,       \* history: time of the latest halt
  rotatedAt         \* history: time of the latest change of the signer set

quorumVars == <<signers, signerCount, threshold, pendingChange, rotatedAt>>
haltVars == <<halted, unhaltEta, lastHaltAt>>
roleVars == <<guardian, admin, pendingAdmin, policyGuard>>
authVars == <<quorumVars, haltVars, roleVars>>

PendingSignerChange ==
  [signer : Key, add : BOOLEAN, newThreshold : 1..UINT8_MAX, eta : Nat \ {0}]

(* What "delete pendingChange" leaves: eta = 0 stands for "none".          *)
NoChange == [signer |-> ZERO, add |-> FALSE, newThreshold |-> 0, eta |-> 0]

InitAuth ==
  /\ now = 0
  /\ signers = InitialSigners
  /\ signerCount = Cardinality(InitialSigners)
  /\ threshold = InitialThreshold
  /\ pendingChange = NoChange
  /\ halted = FALSE
  /\ unhaltEta = 0
  /\ guardian \in Account
  /\ admin \in Account
  /\ pendingAdmin = ZERO
  /\ policyGuard = ZERO
  /\ lastHaltAt = -UNHALT_DELAY     \* "never"
  /\ rotatedAt = 0                  \* deployment

Tick ==
  /\ now < MAX_TIME
  /\ now' = now + 1
  /\ UNCHANGED authVars

-----------------------------------------------------------------------------
(* Halting and re-opening.                                                 *)

MayHalt(c) == c \in {guardian, admin}

Halt(c) ==
  /\ MayHalt(c)
  /\ ~halted
  /\ halted' = TRUE
  /\ unhaltEta' = 0
  /\ lastHaltAt' = now
  /\ UNCHANGED <<now, quorumVars, roleVars>>

(* Mutation: the test that an unhalt was scheduled at all is gone.         *)
RipeUnscheduled == now >= unhaltEta

UnhaltRipe == unhaltEta # 0 /\ now >= unhaltEta

(* May be called again: the delay then starts over.                        *)
ScheduleUnhalt(c) ==
  /\ c = admin
  /\ halted
  /\ unhaltEta' = now + UNHALT_DELAY
  /\ UNCHANGED <<now, quorumVars, roleVars, halted, lastHaltAt>>

ExecuteUnhalt(c) ==
  /\ c = admin
  /\ halted
  /\ UnhaltRipe
  /\ halted' = FALSE
  /\ unhaltEta' = 0
  /\ UNCHANGED <<now, quorumVars, roleVars, lastHaltAt>>

-----------------------------------------------------------------------------
(* Rotation of the signer set.                                             *)

(* Mutation: a removal is not counted.                                     *)
ResultingOnlyGrows(add) == IF add THEN signerCount + 1 ELSE signerCount

Resulting(add) == IF add THEN signerCount + 1 ELSE signerCount - 1

(* The checks propose and execute share.  The sum is a checked uint8: past *)
(* UINT8_MAX (or below 0) the call reverts.                                *)
ChangeFits(k, add, newThreshold) ==
  /\ add = (k \notin signers)
  /\ Resulting(add) \in 0..UINT8_MAX
  /\ newThreshold \in 1..Resulting(add)

(* Mutation: the shorter of the two delays.                                *)
ShortChangeEta == now + UNHALT_DELAY

ChangeEta == now + SIGNER_TIMELOCK

ProposeSignerChange(c, k, add, newThreshold) ==
  /\ c = admin
  /\ pendingChange.eta = 0
  /\ ChangeFits(k, add, newThreshold)
  /\ pendingChange' = [signer |-> k, add |-> add, newThreshold |-> newThreshold,
                       eta |-> ChangeEta]
  /\ UNCHANGED <<now, haltVars, roleVars, signers, signerCount, threshold, rotatedAt>>

CancelSignerChange(c) ==
  /\ MayHalt(c)
  /\ pendingChange.eta # 0
  /\ pendingChange' = NoChange
  /\ UNCHANGED <<now, haltVars, roleVars, signers, signerCount, threshold, rotatedAt>>

ApplyToSigners(p) ==
  /\ signers' = IF p.add THEN signers \cup {p.signer} ELSE signers \ {p.signer}
  /\ signerCount' = Resulting(p.add)
  /\ threshold' = p.newThreshold
  /\ rotatedAt' = now

(* Mutation: "delete pendingChange" is forgotten.                          *)
ApplyKeepsPending(p) == ApplyToSigners(p) /\ UNCHANGED pendingChange

Apply(p) == ApplyToSigners(p) /\ pendingChange' = NoChange

ExecuteSignerChange(c) ==
  LET p == pendingChange IN
  /\ c = admin
  /\ p.eta # 0
  /\ now >= p.eta
  /\ ChangeFits(p.signer, p.add, p.newThreshold)
  /\ Apply(p)
  /\ UNCHANGED <<now, haltVars, roleVars>>

-----------------------------------------------------------------------------
(* Roles: effective at once.                                               *)

ProposeAdmin(c, newAdmin) ==
  /\ c = admin
  /\ pendingAdmin' = newAdmin
  /\ UNCHANGED <<now, quorumVars, haltVars, guardian, admin, policyGuard>>

AcceptAdmin(c) ==
  /\ c = pendingAdmin
  /\ admin' = c
  /\ pendingAdmin' = ZERO
  /\ UNCHANGED <<now, quorumVars, haltVars, guardian, policyGuard>>

SetGuardian(c, newGuardian) ==
  /\ c = admin
  /\ guardian' = newGuardian
  /\ UNCHANGED <<now, quorumVars, haltVars, admin, pendingAdmin, policyGuard>>

SetPolicyGuard(c, newPolicyGuard) ==
  /\ c = admin
  /\ policyGuard' = newPolicyGuard
  /\ UNCHANGED <<now, quorumVars, haltVars, guardian, admin, pendingAdmin>>

AuthCall(c) ==
  \/ Halt(c)
  \/ ScheduleUnhalt(c)
  \/ ExecuteUnhalt(c)
  \/ \E k \in Key, add \in BOOLEAN, t \in 0..UINT8_MAX : ProposeSignerChange(c, k, add, t)
  \/ CancelSignerChange(c)
  \/ ExecuteSignerChange(c)
  \/ \E a \in Account : ProposeAdmin(c, a)
  \/ AcceptAdmin(c)
  \/ \E a \in Account : SetGuardian(c, a)
  \/ \E g \in PolicyGuard : SetPolicyGuard(c, g)

-----------------------------------------------------------------------------
(* Properties of the authority.                                            *)

AuthTypeOK ==
  /\ now \in Nat
  /\ signers \in SUBSET Key
  /\ signerCount \in 0..UINT8_MAX
  /\ threshold \in 0..UINT8_MAX
  /\ pendingChange \in PendingSignerChange \cup {NoChange}
  /\ halted \in BOOLEAN
  /\ unhaltEta \in Nat
  /\ guardian \in Account
  /\ admin \in Account
  /\ pendingAdmin \in Account \cup {ZERO}
  /\ policyGuard \in PolicyGuard \cup {ZERO}
  /\ lastHaltAt \in Int
  /\ rotatedAt \in Nat

(* The counters agree with the set they summarise: signerCount is the      *)
(* number of signers and some quorum of signers always exists.  The code   *)
(* keeps the three in separate slots and updates them in one call,         *)
(* executeSignerChange, from values checked a day earlier.                 *)
QuorumConsistent ==
  /\ signerCount = Cardinality(signers)
  /\ threshold \in 1..signerCount

(* A pending change never goes stale: whatever is called between propose   *)
(* and execute, the checks executeSignerChange repeats still succeed, so   *)
(* an accepted proposal can only be executed or cancelled, never stuck.    *)
PendingStaysExecutable ==
  pendingChange.eta # 0 =>
    ChangeFits(pendingChange.signer, pendingChange.add, pendingChange.newThreshold)

(* The recorded deadlines are never short: an open gate was re-opened a    *)
(* full delay after its last halt, a scheduled unhalt and a pending change *)
(* ripen a full delay after the last halt and the last rotation, and a     *)
(* schedule never survives the halt it was made for.                       *)
DeadlinesConsistent ==
  /\ rotatedAt <= now
  /\ lastHaltAt <= now
  /\ ~halted => unhaltEta = 0 /\ now - lastHaltAt >= UNHALT_DELAY
  /\ unhaltEta # 0 => unhaltEta - lastHaltAt >= UNHALT_DELAY
  /\ pendingChange.eta # 0 => pendingChange.eta - rotatedAt >= SIGNER_TIMELOCK

(* The signer set changes at most once per SIGNER_TIMELOCK, counted from   *)
(* the previous change (or deployment): taking over an m-of-n quorum key   *)
(* by key takes m timelocks, whoever the admin is by then.                 *)
RotationPaced ==
  [][signers' # signers => now - rotatedAt >= SIGNER_TIMELOCK]_<<now, authVars>>

(* Once halted the gate stays halted for UNHALT_DELAY, through any         *)
(* sequence of schedules, admin transfers and guardian changes.            *)
HaltLasts ==
  [][halted /\ ~halted' => now - lastHaltAt >= UNHALT_DELAY]_<<now, authVars>>
=============================================================================
