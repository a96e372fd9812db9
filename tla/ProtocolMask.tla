---------------------------- MODULE ProtocolMask ----------------------------
(***************************************************************************)
(* The protocol mask (src/core/protocol-mask-sync.ts over                  *)
(* src/services/kv-lib/protocol-mask.ts): the trips of external risk       *)
(* flags, cached per isolate, merged into one KV record with a TTL.  Every *)
(* request starts a read of the record that nobody awaits; a trip puts the *)
(* merged mask and does not await it either.  A mask is the set of its     *)
(* bits; the record, never written without bits, is {} when absent.        *)
(***************************************************************************)
EXTENDS Naturals, FiniteSets, Isolates

CONSTANTS
  Bit,
  MaxPuts               \* bound: puts on their way at once

NoRead == [got |-> FALSE]

VARIABLES
  cachedMask,           \* per isolate
  record,               \* the value in KV
  reading,              \* per isolate: what its pending read will return
  puts,                 \* puts on their way: isolate and mask
  trips,                \* history: the bits an isolate tripped on
  intact,               \* history: every put carried all that the record then
                        \* held, and reached it before the next began
  forgot                \* history: the isolates whose last read returned a
                        \* record from before a put of their own landed

maskVars == <<cachedMask, record, reading, puts, trips, intact, forgot>>

MaskInit ==
  /\ cachedMask = [i \in Isolate |-> {}] /\ record = {}
  /\ reading = [i \in Isolate |-> NoRead] /\ puts = {}
  /\ trips = [i \in Isolate |-> {}] /\ intact = TRUE /\ forgot = {}

OwnPut(i) == \E p \in puts : p[1] = i

Puts(i, mask) ==
  /\ Cardinality(puts) < MaxPuts /\ <<i, mask>> \notin puts
  /\ puts' = puts \cup {<<i, mask>>}
  /\ intact' = (intact /\ puts = {} /\ record \subseteq cachedMask[i])
  /\ reading' = IF reading[i] = NoRead THEN reading
                ELSE [reading EXCEPT ![i].late = TRUE]

(* Mutation: the isolate writes the bits of this trip only.                *)
TripPutsNewBits(i, new) ==
  /\ trips' = [trips EXCEPT ![i] = @ \cup new]
  /\ cachedMask' = [cachedMask EXCEPT ![i] = @ \cup new]
  /\ \/ new \subseteq cachedMask[i] /\ UNCHANGED <<puts, reading, intact>>
     \/ ~(new \subseteq cachedMask[i]) /\ Puts(i, new)
  /\ UNCHANGED <<record, forgot>>

(* seed, the external flags, commit and schedule: one synchronous stretch  *)
(* of evaluateSoilResistance.  Nothing is put when no bit is new.  Bound:  *)
(* no put twice on its way.                                                *)
Trip(i, new) ==
  /\ trips' = [trips EXCEPT ![i] = @ \cup new]
  /\ cachedMask' = [cachedMask EXCEPT ![i] = @ \cup new]
  /\ \/ new \subseteq cachedMask[i] /\ UNCHANGED <<puts, reading, intact>>
     \/ ~(new \subseteq cachedMask[i]) /\ Puts(i, cachedMask'[i])
  /\ UNCHANGED <<record, forgot>>

(* prefetchProtocolMaskKv, which nobody awaits.  Bound: one read of an     *)
(* isolate at a time.                                                      *)
StartRead(i) ==
  /\ reading[i] = NoRead
  /\ reading' = [reading EXCEPT ![i] =
                   [got |-> TRUE, mask |-> record, late |-> OwnPut(i)]]
  /\ UNCHANGED <<cachedMask, record, puts, trips, intact, forgot>>

(* ingest replaces the cache; without a record, or with a failed read, the *)
(* cache stays.                                                            *)
ReadReturns(i) ==
  /\ reading[i] # NoRead
  /\ reading' = [reading EXCEPT ![i] = NoRead]
  /\ \/ /\ reading[i].mask # {}
        /\ cachedMask' = [cachedMask EXCEPT ![i] = reading[i].mask]
        /\ forgot' = IF reading[i].late THEN forgot \cup {i} ELSE forgot \ {i}
     \/ UNCHANGED <<cachedMask, forgot>>
  /\ UNCHANGED <<record, puts, trips, intact>>

PutLands(p) ==
  /\ record' = p[2] /\ puts' = puts \ {p}
  /\ UNCHANGED <<cachedMask, reading, trips, intact, forgot>>

PutFails(p) ==
  /\ puts' = puts \ {p} /\ intact' = FALSE
  /\ UNCHANGED <<cachedMask, record, reading, trips, forgot>>

Expires ==
  /\ record' = {} /\ intact' = FALSE
  /\ UNCHANGED <<cachedMask, reading, puts, trips, forgot>>

(* A new isolate in the place of an evicted one knows no trip until its    *)
(* first read returns.                                                     *)
Replaced(i) ==
  /\ cachedMask' = [cachedMask EXCEPT ![i] = {}]
  /\ reading' = [reading EXCEPT ![i] = NoRead]
  /\ trips' = [trips EXCEPT ![i] = {}] /\ forgot' = forgot \ {i}
  /\ UNCHANGED <<record, puts, intact>>

MaskNext ==
  \/ \E i \in Isolate : \/ \E new \in SUBSET Bit \ {{}} : Trip(i, new)
                         \/ StartRead(i) \/ ReadReturns(i) \/ Replaced(i)
  \/ \E p \in puts : PutLands(p) \/ PutFails(p)
  \/ Expires

MaskSpec == MaskInit /\ [][MaskNext]_maskVars

-----------------------------------------------------------------------------
(* Reads of all isolates overlap trips and puts as they may: the record    *)
(* holds what an isolate tripped on as soon as its put has landed, and the *)
(* isolate itself forgets none of it unless a read that its own put had    *)
(* overtaken returned last.  It takes puts that do not overlap and carry   *)
(* what the record held; those that do not lose the bits of other isolates *)
(* (protocol-mask-sync.ts:111).                                            *)
MaskKeepsTrips ==
  intact => \A i \in Isolate :
    /\ ~OwnPut(i) => trips[i] \subseteq record
    /\ i \notin forgot => trips[i] \subseteq cachedMask[i]
=============================================================================
