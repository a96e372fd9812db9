---------------------------- MODULE ClaimOrderId ----------------------------
(***************************************************************************)
(* claimCloidAntiReplay (src/services/cloid-validator.ts): the first claim *)
(* of an order id is let through, every later one is a replay.  An id is   *)
(* remembered for a minute in the isolate and for a day in KV; the claim   *)
(* looks into both, with an await for KV, and registers afterwards.  A     *)
(* caller without a KV binding has the memory alone.                       *)
(* Abstracted: the case and the format of ids.                             *)
(***************************************************************************)
EXTENDS Naturals, Isolates

CONSTANTS
  Claim,                \* bound: claims under way at once
  OrderId,
  MaxWinners            \* bound: claims of an id let through before the last

Idle == "idle"

VARIABLES
  memoryCache,          \* per isolate
  kv,                   \* the ids in KV
  claim,                \* per claim: where it runs and what it awaits
  winners,              \* history: claims of the id let through since it
                        \* was last forgotten
  serial,               \* history: no claim began with another of its id
                        \* under way
  unbound               \* history: a claim ran without KV

claimVars == <<memoryCache, kv, claim, winners, serial, unbound>>

NoClaim == [at |-> Idle]

ClaimInit ==
  /\ memoryCache = [i \in Isolate |-> {}] /\ kv = {}
  /\ claim = [c \in Claim |-> NoClaim]
  /\ winners = [x \in OrderId |-> 0] /\ serial = TRUE /\ unbound = FALSE

UnderWay(x) == \E c \in Claim : claim[c] # NoClaim /\ claim[c].id = x

(* isInMemory answers at once, otherwise the claim awaits kv.get, or the   *)
(* empty answer of isCloidReplayed when there is no KV.                    *)
Begin(c, i, x, bound) ==
  /\ claim[c] = NoClaim /\ winners[x] < MaxWinners
  /\ x \notin memoryCache[i]
  /\ claim' = [claim EXCEPT ![c] =
                 [at |-> IF bound THEN "get" ELSE "memory", isolate |-> i, id |-> x,
                  found |-> bound /\ x \in kv]]
  /\ serial' = (serial /\ ~UnderWay(x)) /\ unbound' = (unbound \/ ~bound)
  /\ UNCHANGED <<memoryCache, kv, winners>>

Remember(c) ==
  memoryCache' = [memoryCache EXCEPT ![claim[c].isolate] = @ \cup {claim[c].id}]

(* Mutation: an id found in KV is remembered, and let through.             *)
LookupRegistersAgain(c) ==
  /\ claim[c].at = "get"
  /\ Remember(c)
  /\ claim' = [claim EXCEPT ![c].at = "put"]
  /\ UNCHANGED <<kv, winners, serial, unbound>>

(* kv.get answers: a replay, or registerCloid, which awaits kv.put.        *)
Lookup(c) ==
  /\ claim[c].at = "get"
  /\ Remember(c)
  /\ claim' = [claim EXCEPT ![c] = IF @.found THEN NoClaim ELSE [@ EXCEPT !.at = "put"]]
  /\ UNCHANGED <<kv, winners, serial, unbound>>

LetThrough(c) ==
  /\ winners' = [winners EXCEPT ![claim[c].id] = @ + 1]
  /\ claim' = [claim EXCEPT ![c] = NoClaim]
  /\ UNCHANGED <<serial, unbound>>

(* The claim is let through when its put succeeded.                        *)
Registered(c) ==
  /\ claim[c].at = "put"
  /\ kv' = kv \cup {claim[c].id}
  /\ LetThrough(c)
  /\ UNCHANGED memoryCache

RegisteredInMemory(c) ==
  /\ claim[c].at = "memory"
  /\ Remember(c)
  /\ LetThrough(c)
  /\ UNCHANGED kv

(* kv.get or kv.put throws: the caller gets the exception, and an id that  *)
(* was not let through may stay in the memory of the isolate.              *)
KvThrows(c) ==
  /\ claim[c].at \in {"get", "put"}
  /\ claim' = [claim EXCEPT ![c] = NoClaim]
  /\ UNCHANGED <<memoryCache, kv, winners, serial, unbound>>

(* A minute passes, the cache is trimmed, or the isolate is evicted with   *)
(* the claims it runs.                                                     *)
Forgets(i, x) ==
  /\ x \in memoryCache[i]
  /\ memoryCache' = [memoryCache EXCEPT ![i] = @ \ {x}]
  /\ UNCHANGED <<kv, claim, winners, serial, unbound>>

EvictsClaims(i) ==
  /\ memoryCache' = [memoryCache EXCEPT ![i] = {}]
  /\ claim' = [c \in Claim |-> IF claim[c] # NoClaim /\ claim[c].isolate = i
                               THEN NoClaim ELSE claim[c]]
  /\ UNCHANGED <<kv, winners, serial, unbound>>

(* The record of an id expires after a day.                                *)
DayPasses(x) ==
  /\ x \in kv /\ ~UnderWay(x)
  /\ \A i \in Isolate : x \notin memoryCache[i]
  /\ kv' = kv \ {x} /\ winners' = [winners EXCEPT ![x] = 0]
  /\ UNCHANGED <<memoryCache, claim, serial, unbound>>

ClaimNext ==
  \/ \E c \in Claim : \/ \E i \in Isolate, x \in OrderId, bound \in BOOLEAN : Begin(c, i, x, bound)
                       \/ Lookup(c) \/ Registered(c) \/ RegisteredInMemory(c) \/ KvThrows(c)
  \/ \E i \in Isolate : EvictsClaims(i) \/ \E x \in OrderId : Forgets(i, x)
  \/ \E x \in OrderId : DayPasses(x)

ClaimSpec == ClaimInit /\ [][ClaimNext]_claimVars

-----------------------------------------------------------------------------
(* Across isolates, evictions and failures of KV: one claim of an id is    *)
(* let through per day, as long as claims of an id do not overlap and each *)
(* has a KV binding.                                                       *)
OneWinner == serial /\ ~unbound => \A x \in OrderId : winners[x] <= 1
=============================================================================
