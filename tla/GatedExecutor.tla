---------------------------- MODULE GatedExecutor ----------------------------
(***************************************************************************)
(* Executors in front of the gate (GatedExecutor.sol), with the            *)
(* transactions around them: an executor consumes an attestation bound to  *)
(* one call and makes that call, and the called contract may call back     *)
(* into any executor or the gate before it returns or reverts.             *)
(*                                                                         *)
(* stack holds the calls in progress, innermost last; it is empty between  *)
(* transactions.  Each frame keeps the state to restore if its call        *)
(* reverts, as the EVM does.  keccak256 is injective: the payload hash is  *)
(* the tuple it hashes.                                                    *)
(***************************************************************************)
EXTENDS SliverVineGate, SequencesExt

CONSTANTS
  Executor,         \* addresses of the deployed executors
  EOA,              \* accounts that start transactions
  Contract,         \* called contracts that can call back
  Inert,            \* called addresses that never call back
  Gate,             \* address of the gate, a target like any other
  Data,             \* calldata
  restrictTargets,  \* [Executor -> BOOLEAN]
  allowedTarget,    \* [Executor -> SUBSET Target]
  MaxDenied         \* bound on deniedCount

Target == Contract \cup Inert \cup {Gate}

ASSUME ExecutorAssumption ==
  /\ restrictTargets \in [Executor -> BOOLEAN]
  /\ allowedTarget \in [Executor -> SUBSET Target]
  /\ \A a \in Attestation : "payload" \in DOMAIN a /\ "nonce" \in DOMAIN a
  /\ Executor \cap (EOA \cup Target) = {}
  /\ Target \cap (EOA \cup Account) = {}
  /\ EOA \cup Contract \cup Executor \subseteq Caller

VARIABLES
  lock,             \* [Executor -> {1, 2}], the reentrancy guard
  allowedCount, deniedCount,
  performed,        \* external calls made, in order: what the outside saw
  stack

execVars == <<lock, allowedCount, deniedCount, performed>>
vars == <<gateVars, execVars, stack>>

PayloadHash(e, initiator, target, data, nonce) ==
  <<e, initiator, target, data, nonce>>

(* The code that runs: any account between transactions, else the target   *)
(* of the innermost call.                                                  *)
MayCall(c) == IF stack = <<>> THEN c \in EOA ELSE c = Last(stack).target /\ c \in Contract

Permitted(e, target) == restrictTargets[e] => target \in allowedTarget[e]

(* Mutation: the payload hash does not bind the initiator.                 *)
BoundToAnyone(e, c, target, data, a) ==
  \E i \in EOA \cup Contract : a.payload = PayloadHash(e, i, target, data, a.nonce)

Bound(e, c, target, data, a) == a.payload = PayloadHash(e, c, target, data, a.nonce)

MayEnter(e) == lock[e] = 1

Snapshot ==
  [consumed |-> consumed, lock |-> lock, allowedCount |-> allowedCount,
   deniedCount |-> deniedCount, performed |-> performed]

(* execute, and tryExecute when nothing is denied, up to the moment the    *)
(* target runs: the attestation is consumed first.  Any failing check      *)
(* reverts the call.                                                       *)
Execute(c, e, target, data, a, sigs) ==
  /\ MayCall(c)
  /\ MayEnter(e)
  /\ Permitted(e, target)
  /\ Bound(e, c, target, data, a)
  /\ Allows(a, sigs, e)
  /\ Burn(a)
  /\ lock' = [lock EXCEPT ![e] = 2]
  /\ performed' = Append(performed,
       [executor |-> e, initiator |-> c, target |-> target, data |-> data, att |-> a])
  /\ stack' = Append(stack, [executor |-> e, target |-> target, saved |-> Snapshot])
  /\ UNCHANGED <<now, authVars, allowedCount, deniedCount>>

(* tryExecute refuses softly and returns: the refusal is counted.          *)
TryExecuteDenied(c, e, target, data, a, sigs) ==
  /\ MayCall(c)
  /\ MayEnter(e)
  /\ ~(Permitted(e, target) /\ Bound(e, c, target, data, a) /\ Allows(a, sigs, e))
  /\ deniedCount[e] < MaxDenied
  /\ deniedCount' = [deniedCount EXCEPT ![e] = @ + 1]
  /\ UNCHANGED <<gateVars, lock, allowedCount, performed, stack>>

(* The target returns: the executor counts the execution, unlocks and      *)
(* returns to its caller.                                                  *)
Return ==
  /\ stack # <<>>
  /\ LET e == Last(stack).executor IN
       /\ allowedCount' = [allowedCount EXCEPT ![e] = @ + 1]
       /\ lock' = [lock EXCEPT ![e] = 1]
  /\ stack' = Front(stack)
  /\ UNCHANGED <<gateVars, deniedCount, performed>>

(* Mutation: the callee's failure is ignored, only its own effects undone. *)
RevertSwallowed ==
  /\ stack # <<>>
  /\ LET e == Last(stack).executor IN
       /\ allowedCount' = [allowedCount EXCEPT ![e] = @ + 1]
       /\ lock' = [lock EXCEPT ![e] = 1]
  /\ performed' = Last(stack).saved.performed
  /\ stack' = Front(stack)
  /\ UNCHANGED <<gateVars, deniedCount>>

(* The target reverts: _call bubbles the revert and the EVM undoes all     *)
(* that happened since the executor was entered.  The caller may catch it, *)
(* or revert in turn.                                                      *)
Revert ==
  /\ stack # <<>>
  /\ LET s == Last(stack).saved IN
       /\ consumed' = s.consumed
       /\ lock' = s.lock
       /\ allowedCount' = s.allowedCount
       /\ deniedCount' = s.deniedCount
       /\ performed' = s.performed
  /\ stack' = Front(stack)
  /\ UNCHANGED <<now, authVars>>

(* A called contract, or an account, spends an attestation of its own; so  *)
(* does an executor whose target is the gate itself.                       *)
ConsumeDirectly(c, a, sigs) ==
  /\ \/ MayCall(c)
     \/ stack # <<>> /\ Last(stack).target = Gate /\ c = Last(stack).executor
  /\ VerifyAndConsume(c, a, sigs)
  /\ UNCHANGED <<execVars, stack>>

-----------------------------------------------------------------------------
Init ==
  /\ GateInit
  /\ lock = [e \in Executor |-> 1]
  /\ allowedCount = [e \in Executor |-> 0]
  /\ deniedCount = [e \in Executor |-> 0]
  /\ performed = <<>>
  /\ stack = <<>>

(* Time and the gate's administration move between transactions.           *)
BetweenTransactions ==
  /\ stack = <<>>
  /\ Tick \/ \E c \in Account : AuthCall(c)
  /\ UNCHANGED <<consumed, execVars, stack>>

ExecutorCall(c) ==
  \E e \in Executor, target \in Target, data \in Data, a \in Attestation :
    \E sigs \in SignatureList(a) :
      \/ Execute(c, e, target, data, a, sigs)
      \/ TryExecuteDenied(c, e, target, data, a, sigs)

Next ==
  \/ BetweenTransactions
  \/ \E c \in EOA \cup Contract : ExecutorCall(c)
  \/ \E c \in Caller, a \in Attestation :
       \E sigs \in SignatureList(a) : ConsumeDirectly(c, a, sigs)
  \/ Return
  \/ Revert

Spec == Init /\ [][Next]_vars

-----------------------------------------------------------------------------
InFlight(e) == {i \in DOMAIN stack : stack[i].executor = e}

(* No attestation ever pays for two calls, and each call made is exactly   *)
(* the one its attestation binds, by the account it binds -- with targets  *)
(* that call back into any executor, and calls that revert half-way.       *)
OneCallPerAttestation ==
  /\ \A i, j \in DOMAIN performed : performed[i].att = performed[j].att => i = j
  /\ \A i \in DOMAIN performed :
       LET p == performed[i] IN
       /\ p.att \in consumed /\ p.att.subject = p.executor
       /\ p.att.payload = <<p.executor, p.initiator, p.target, p.data, p.att.nonce>>
       /\ Permitted(p.executor, p.target)

(* The lock is held exactly while the executor is on the stack, and never  *)
(* twice: an executor is not re-entered, and no path leaves it locked.     *)
LockedWhileInFlight ==
  \A e \in Executor :
    /\ Cardinality(InFlight(e)) <= 1
    /\ (lock[e] = 2) <=> (InFlight(e) # {})

(* The public counter is the truth: what an executor counts as allowed,    *)
(* plus its call in progress, is the number of calls it made -- a call     *)
(* undone by a revert further out is neither counted nor visible.          *)
AllowedCountExact ==
  \A e \in Executor :
    allowedCount[e] + Cardinality(InFlight(e))
      = Cardinality({i \in DOMAIN performed : performed[i].executor = e})

(* Whatever happens inside a transaction, an outside observer sees the     *)
(* promise of AuthorizedCalls: until the outermost call returns, nothing   *)
(* has happened.                                                           *)
Committed(field, current) ==
  IF stack = <<>> THEN current ELSE stack[1].saved[field]

Promise == INSTANCE AuthorizedCalls WITH
  spent <- Committed("consumed", consumed),
  made <- {p.att : p \in Range(Committed("performed", performed))}

KeepsPromise == Promise!Spec
=============================================================================
