----------------------------- MODULE MakerChase -----------------------------
(***************************************************************************)
(* runMakerChaseUntilFilled (src/services/execution/chase-engine-lib/):    *)
(* cancel the order of the last attempt, submit a new one of the full size *)
(* at the top of the book, ask whether it filled, wait, again.  The        *)
(* exchange, which is external, may fill any part of a resting order at    *)
(* any moment in between, may reject a post-only order, and may answer a   *)
(* submit without an order id.                                             *)
(* Abstracted: prices; a size is a number of lots.                         *)
(***************************************************************************)
EXTENDS Integers, FiniteSets

CONSTANTS
  MaxAttempts,          \* deps.maxAttempts ?? CHASE_MAX_ATTEMPTS
  Size                  \* spec.size

ASSUME ChaseAssumption == {MaxAttempts, Size} \subseteq Nat \ {0}

Attempt == 1..MaxAttempts
NoOid == 0

VARIABLES
  attempt,              \* the loop variable
  at,                   \* what the runner awaits or does next
  lastOid,              \* an order is named by its attempt
  open,                 \* at the exchange: the lots of each order that rest
  complete,             \* and the orders it filled whole
  unnamed               \* history: an order rests whose id the runner lacks

chaseVars == <<attempt, at, lastOid, open, complete, unnamed>>

ChaseInit ==
  /\ attempt = 1 /\ at = "cancel" /\ lastOid = NoOid
  /\ open = [a \in Attempt |-> 0] /\ complete = {}
  /\ unnamed = FALSE

(* Mutation: the order just superseded is left for the exchange to expire. *)
CancelLater ==
  /\ at = "cancel"
  /\ at' = "submit"
  /\ UNCHANGED <<attempt, lastOid, open, complete, unnamed>>

(* cancelOrder, when there is an id to cancel: what still rests of it rests *)
(* no more.  A failure ends the chase with the exception and the order     *)
(* where it is, or cancelled all the same.                                 *)
Cancel ==
  /\ at = "cancel"
  /\ \/ at' = "submit" /\ lastOid = NoOid /\ UNCHANGED open
     \/ /\ lastOid # NoOid
        /\ at' \in {"submit", "done"}
        /\ open' = [open EXCEPT ![lastOid] = 0]
     \/ at' = "done" /\ lastOid # NoOid /\ UNCHANGED open
  /\ UNCHANGED <<attempt, lastOid, complete, unnamed>>

(* submitOrder, of spec.size whatever filled before: the id may be missing, *)
(* of a rejected order or of one that rests; an exception may hide an      *)
(* order that rests.                                                       *)
Submit ==
  /\ at = "submit"
  /\ \E rests \in BOOLEAN, oid \in {attempt, NoOid}, answered \in BOOLEAN :
       /\ open' = [open EXCEPT ![attempt] = IF rests THEN Size ELSE 0]
       /\ at' = IF answered THEN "ask" ELSE "done"
       /\ lastOid' = IF answered THEN oid ELSE lastOid
       /\ unnamed' = (unnamed \/ (rests /\ answered /\ oid = NoOid))
  /\ UNCHANGED <<attempt, complete>>

(* isFilled answers for the order of this attempt.  The chase ends when it *)
(* filled, after the last attempt, whose order stays, or by an exception.  *)
Ask ==
  /\ at = "ask"
  /\ \/ at' = "done"
     \/ at' = "sleep" /\ attempt \notin complete /\ attempt < MaxAttempts
  /\ UNCHANGED <<attempt, lastOid, open, complete, unnamed>>

WakeUp ==
  /\ at = "sleep"
  /\ at' = "cancel" /\ attempt' = attempt + 1
  /\ UNCHANGED <<lastOid, open, complete, unnamed>>

(* The exchange fills a lot of an order.                                   *)
Fills(a) ==
  /\ open[a] > 0
  /\ open' = [open EXCEPT ![a] = @ - 1]
  /\ complete' = complete \cup IF open'[a] = 0 THEN {a} ELSE {}
  /\ UNCHANGED <<attempt, at, lastOid, unnamed>>

ChaseNext == Cancel \/ Submit \/ Ask \/ WakeUp \/ (\E a \in Attempt : Fills(a))

ChaseSpec == ChaseInit /\ [][ChaseNext]_chaseVars

-----------------------------------------------------------------------------
(* Whatever the exchange rejects, fills in part or whole, or answers, and  *)
(* wherever the chase stops, the lots of one order at most are exposed in  *)
(* the book; unless the exchange left an order unnamed, which the runner   *)
(* cannot cancel (chase-engine-runner.ts:53).  It is no bound on what was  *)
(* bought: what a part of an order filled, or an order before its cancel,  *)
(* is bought once more (line 58).                                          *)
OneOrderOut ==
  ~unnamed => \A a, b \in Attempt : open[a] > 0 /\ open[b] > 0 => a = b
=============================================================================
