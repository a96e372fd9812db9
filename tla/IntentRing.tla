----------------------------- MODULE IntentRing -----------------------------
(***************************************************************************)
(* The attempt budgets of intents (src/core/intent-core-ring.ts): a ring   *)
(* of slots that keys hash into, shared by every caller: the mandate gate  *)
(* (core/intent-mandate.ts), the roll gate (agentic-auto-roll-gate.ts) and *)
(* the retail guard (sdk/exomesh-agentic-wallet-guard), which goes through *)
(* the Rust gate (src/wasm/intent_core.rs) and a second copy of the slot   *)
(* when Wasm is loaded, and through the TypeScript gate otherwise.         *)
(* Abstracted: keys are the slots they hash to, so that keys may collide;  *)
(* venue masks are the fact whether the target is allowed.                 *)
(***************************************************************************)
EXTENDS Integers

CONSTANTS
  Slot,
  DefaultLimit,         \* INTENT_MAX_ATTEMPTS_DEFAULT
  RetailLimit,          \* config.maxAttempts of retail guards, bound
  MaxCalls              \* bound on the attempts of a slot; below 2^32

Limit == RetailLimit \cup {DefaultLimit}

ASSUME RingAssumption == MaxCalls \in Nat /\ Limit \subseteq Nat \ {0}

VARIABLES
  ring,                 \* INTENT_RING_U32
  slab,                 \* INTENT_RING_SLAB
  severed,              \* the channels cut: signing, roll, retail
  granted               \* history: calls this isolate let through, per
                        \* slot and limit

ringVars == <<ring, slab, severed, granted>>

Fresh == [attempts |-> 0, flags |-> {}]

RingInit ==
  /\ ring = [s \in Slot |-> Fresh] /\ slab = [s \in Slot |-> Fresh]
  /\ severed = {}
  /\ granted = [s \in Slot |-> [m \in Limit |-> 0]]

(* trackAttemptBudget, the same in TypeScript and Rust: whoever calls, the *)
(* attempt counts, and the flag of an exhausted budget stays.              *)
Over(slot, max) == slot.attempts + 1 > max
Tracked(slot, max) ==
  [attempts |-> slot.attempts + 1,
   flags |-> slot.flags \cup IF Over(slot, max) THEN {"sever"} ELSE {}]

(* evaluate_gate: a drift is flagged and does not count as an attempt.     *)
Gate(slot, drift, max) ==
  IF drift THEN [slot EXCEPT !.flags = @ \cup {"drift"}] ELSE Tracked(slot, max)

Grant(s, max, ok) ==
  granted' = IF ok THEN [granted EXCEPT ![s][max] = @ + 1] ELSE granted
Sever(channel, over) == severed' = severed \cup IF over THEN {channel} ELSE {}

(* evaluateIntentMandateGate.  A venue that drifted or a digest that does  *)
(* not match severs before anything is counted.                            *)
Mandate(s, mismatch) ==
  /\ IF mismatch THEN UNCHANGED <<ring, granted>>
     ELSE /\ ring' = [ring EXCEPT ![s] = Tracked(@, DefaultLimit)]
          /\ Grant(s, DefaultLimit, ~Over(ring[s], DefaultLimit))
  /\ Sever("signing", mismatch \/ Over(ring[s], DefaultLimit))
  /\ UNCHANGED slab

(* The reauthorization of SystemState opens the signing channel again, and *)
(* leaves the ring as it is.                                               *)
SigningReopened ==
  /\ severed' = severed \ {"signing"}
  /\ UNCHANGED <<ring, slab, granted>>

(* trackRollAttempt.                                                       *)
Roll(s) ==
  /\ "roll" \notin severed
  /\ ring' = [ring EXCEPT ![s] = Tracked(@, DefaultLimit)]
  /\ Grant(s, DefaultLimit, ~Over(ring[s], DefaultLimit))
  /\ Sever("roll", Over(ring[s], DefaultLimit))
  /\ UNCHANGED slab

(* evaluateRetailIntentGate through the TypeScript gate.                   *)
RetailTs(s, drift, max) ==
  /\ "retail" \notin severed
  /\ ring' = [ring EXCEPT ![s] = Gate(@, drift, max)]
  /\ LET over == ~drift /\ Over(ring[s], max)
     IN /\ Grant(s, max, ~drift /\ ~over)
        /\ Sever("retail", over)
  /\ UNCHANGED slab

(* Mutation: the slot of the slab is not synced from the ring first.       *)
RetailWasmUnsynced(s, drift, max) ==
  /\ "retail" \notin severed
  /\ LET after == Gate(slab[s], drift, max)
     IN /\ ring' = [ring EXCEPT ![s] = after]
        /\ slab' = [slab EXCEPT ![s] = after]
        /\ Grant(s, max, after.flags = {})
        /\ Sever("retail", after.flags = {"sever"})

(* The same through Wasm: the slot is copied to the slab, evaluated and    *)
(* copied back, and the outcome is read from the flags of the slot, those  *)
(* of earlier calls included; a drift among them goes before the sever.    *)
RetailWasm(s, drift, max) ==
  /\ "retail" \notin severed
  /\ LET after == Gate(ring[s], drift, max)
     IN /\ ring' = [ring EXCEPT ![s] = after]
        /\ slab' = [slab EXCEPT ![s] = after]
        /\ Grant(s, max, after.flags = {})
        /\ Sever("retail", after.flags = {"sever"})

(* A new isolate in the place of an evicted one starts with an empty ring, *)
(* and with every budget afresh.                                           *)
RingEvicted ==
  /\ ring' = [s \in Slot |-> Fresh] /\ slab' = [s \in Slot |-> Fresh]
  /\ severed' = {}
  /\ granted' = [s \in Slot |-> [m \in Limit |-> 0]]

RingNext ==
  \/ \E s \in Slot :
       /\ ring[s].attempts < MaxCalls
       /\ \/ \E mismatch \in BOOLEAN : Mandate(s, mismatch)
          \/ SigningReopened
          \/ Roll(s)
          \/ \E drift \in BOOLEAN, max \in RetailLimit :
               RetailTs(s, drift, max) \/ RetailWasm(s, drift, max)
  \/ RingEvicted

-----------------------------------------------------------------------------
(* Callers with limits of their own share a slot, its copy in the slab and *)
(* its sticky flags, and channels are severed and reopened around them: a  *)
(* budget of n attempts still lets n calls of a slot through at most, in   *)
(* the life of an isolate.                                                 *)
BudgetHolds == \A s \in Slot, m \in Limit : granted[s][m] <= m
=============================================================================
