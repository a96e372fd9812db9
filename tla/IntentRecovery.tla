--------------------------- MODULE IntentRecovery ---------------------------
(***************************************************************************)
(* Persistence and crash recovery of the intent ledger                     *)
(* (src/core/intent-persistence, worker-scheduled.ts): the cron of an      *)
(* isolate restores the ledger from KV once, unwinds the prepared intents  *)
(* that are past their TTL, and copies the ledger to KV; the isolate may   *)
(* be evicted at any point, and a fresh one starts with an empty ledger.   *)
(*                                                                         *)
(* The calls on intents are atomic here, as IntentPromise allows, with     *)
(* venues that answer truthfully but may refuse a flatten order;           *)
(* IntentLedger has their awaits.  One isolate at a time writes to KV.     *)
(* Abstracted: the index record and the KV expiry of a snapshot (a day,    *)
(* renewed by every hourly copy).                                          *)
(***************************************************************************)
EXTENDS Integers

CONSTANTS
  Intents,
  TTL, MAX_TIME,
  MAX_CRASHES,     \* bound on evictions
  Wired            \* whether the boot is given a flattenLeg; the worker gives none

Legs == {1, 2}
Phases == {"absent", "PENDING", "PREPARED", "COMMITTED", "ABORTED"}
Decided == {"COMMITTED", "ABORTED"}

ASSUME RecoveryAssumption ==
  TTL \in Nat /\ MAX_TIME \in Nat /\ MAX_CRASHES \in Nat /\ Wired \in BOOLEAN

VARIABLES
  ledgerStore,     \* the ledger of the isolate
  kvStore,         \* the snapshots under intent:2pc:<id>
  atVenue,         \* legs open at the venues
  refused,         \* history: legs whose flatten order a venue refused
  boot,            \* intentPersistenceBootPromise: [at, todo, legs]
  copying,         \* the clones a running copy of the ledger has still to put
  now,
  crashes

venueVars == <<atVenue, refused>>

vars == <<ledgerStore, kvStore, atVenue, refused, boot, copying, now, crashes>>

IntentRecords == [phase : Phases, preparedAt : Nat]
NoRecord == [phase |-> "absent", preparedAt |-> 0]
NoClones == [i \in Intents |-> NoRecord]

(* At "unwinding", todo are the intents still to unwind; legs are those of *)
(* the next one still to flatten.  At "saving" the first of todo is stored *)
(* as aborted and its snapshot is on the way.                              *)
BootStages == {"down", "unwinding", "saving", "done"}
NotBooted == [at |-> "down", todo |-> {}, legs |-> {}]

First(todo) == CHOOSE i \in todo : TRUE

Expired(record) == now - record.preparedAt > TTL

(* Mutation: any record past its TTL is unwound.                           *)
NeedsUnwindAnyPhase(record) == record.phase # "absent" /\ Expired(record)

NeedsUnwind(record) == record.phase = "PREPARED" /\ Expired(record)

Store(i, record) == ledgerStore' = [ledgerStore EXCEPT ![i] = record]

Aborted(record) == [record EXCEPT !.phase = "ABORTED"]

-----------------------------------------------------------------------------
(* The calls of the isolate's other code.  Ids are never used twice.       *)
Fresh(i) ==
  ledgerStore[i].phase = "absent" /\ kvStore[i].phase = "absent" /\ atVenue[i] = {}

Create(i) ==
  /\ Fresh(i)
  /\ Store(i, [NoRecord EXCEPT !.phase = "PENDING"])
  /\ UNCHANGED <<kvStore, venueVars, boot, copying, now, crashes>>

Prepare(i) ==
  /\ ledgerStore[i].phase = "PENDING"
  /\ Store(i, [phase |-> "PREPARED", preparedAt |-> now])
  /\ atVenue' = [atVenue EXCEPT ![i] = Legs]
  /\ UNCHANGED <<kvStore, refused, boot, copying, now, crashes>>

Commit(i) ==
  /\ ledgerStore[i].phase = "PREPARED" /\ ~Expired(ledgerStore[i])
  /\ Store(i, [ledgerStore[i] EXCEPT !.phase = "COMMITTED"])
  /\ UNCHANGED <<kvStore, venueVars, boot, copying, now, crashes>>

(* An abort, a failed prepare, a failed or expired commit: the legs that   *)
(* were prepared are flattened, and stay where the order is refused.  Of a *)
(* PENDING intent a failed prepare has at most one leg.                    *)
Unwind(i) ==
  /\ ledgerStore[i].phase \in {"PENDING", "PREPARED"}
  /\ Store(i, Aborted(ledgerStore[i]))
  /\ \E left \in SUBSET Legs :
       /\ ledgerStore[i].phase = "PENDING" => left # Legs
       /\ atVenue' = [atVenue EXCEPT ![i] = left]
       /\ refused' = [refused EXCEPT ![i] = @ \cup left]
  /\ UNCHANGED <<kvStore, boot, copying, now, crashes>>

-----------------------------------------------------------------------------
(* The flatten actions of an intent to unwind: both legs were prepared.    *)
(* Mutation: the second leg is forgotten.                                  *)
LegsToUnwindFirst(todo) == IF todo = {} THEN {} ELSE {1}

LegsToUnwind(todo) == IF todo = {} THEN {} ELSE Legs

Unwinds(todo) ==
  boot' = [at |-> IF todo = {} THEN "done" ELSE "unwinding",
           todo |-> todo, legs |-> LegsToUnwind(todo)]

(* restoreLedgerFromPersistence, then the scan for expired intents.        *)
Restore ==
  LET restored == [i \in Intents |-> IF kvStore[i].phase = "absent" THEN ledgerStore[i]
                                     ELSE kvStore[i]]
  IN /\ boot.at = "down"
     /\ ledgerStore' = restored
     /\ Unwinds({i \in Intents : NeedsUnwind(restored[i])})
     /\ UNCHANGED <<kvStore, venueVars, copying, now, crashes>>

(* One flattenLeg, whose result is ignored: it closes the leg, or a venue  *)
(* refuses.  Without a handler the default reports ok and does nothing.    *)
FlattenLeg(l) ==
  LET i == First(boot.todo) IN
  /\ boot.at = "unwinding" /\ l \in boot.legs
  /\ boot' = [boot EXCEPT !.legs = @ \ {l}]
  /\ \/ /\ Wired
        /\ atVenue' = [atVenue EXCEPT ![i] = @ \ {l}]
        /\ UNCHANGED refused
     \/ /\ Wired /\ l \in atVenue[i]
        /\ refused' = [refused EXCEPT ![i] = @ \cup {l}]
        /\ UNCHANGED atVenue
     \/ ~Wired /\ UNCHANGED venueVars
  /\ UNCHANGED <<ledgerStore, kvStore, copying, now, crashes>>

(* importCrossLegIntent of the aborted clone.                              *)
Import ==
  LET i == First(boot.todo) IN
  /\ boot.at = "unwinding" /\ boot.legs = {}
  /\ Store(i, Aborted(ledgerStore[i]))
  /\ boot' = [boot EXCEPT !.at = "saving"]
  /\ UNCHANGED <<kvStore, venueVars, copying, now, crashes>>

(* Mutation: recovery stops after the first intent it unwinds.             *)
SaveUnwoundOnce ==
  LET i == First(boot.todo) IN
  /\ boot.at = "saving"
  /\ kvStore' = [kvStore EXCEPT ![i] = ledgerStore[i]]
  /\ Unwinds({})
  /\ UNCHANGED <<ledgerStore, venueVars, copying, now, crashes>>

SaveUnwound ==
  LET i == First(boot.todo) IN
  /\ boot.at = "saving"
  /\ kvStore' = [kvStore EXCEPT ![i] = ledgerStore[i]]
  /\ Unwinds(boot.todo \ {i})
  /\ UNCHANGED <<ledgerStore, venueVars, copying, now, crashes>>

(* syncLedgerToPersistence: the ledger is cloned, then put one by one.     *)
StartCopy ==
  /\ boot.at = "done" /\ copying = NoClones
  /\ copying' = ledgerStore
  /\ UNCHANGED <<ledgerStore, kvStore, venueVars, boot, now, crashes>>

CopyIntent(i) ==
  /\ copying[i].phase # "absent"
  /\ kvStore' = [kvStore EXCEPT ![i] = copying[i]]
  /\ copying' = [copying EXCEPT ![i] = NoRecord]
  /\ UNCHANGED <<ledgerStore, venueVars, boot, now, crashes>>

Crash ==
  /\ crashes < MAX_CRASHES
  /\ crashes' = crashes + 1
  /\ ledgerStore' = NoClones
  /\ boot' = NotBooted
  /\ copying' = NoClones
  /\ UNCHANGED <<kvStore, venueVars, now>>

Tick ==
  /\ now < MAX_TIME
  /\ now' = now + 1
  /\ UNCHANGED <<ledgerStore, kvStore, venueVars, boot, copying, crashes>>

-----------------------------------------------------------------------------
Init ==
  /\ ledgerStore = NoClones
  /\ kvStore = NoClones
  /\ atVenue = [i \in Intents |-> {}]
  /\ refused = [i \in Intents |-> {}]
  /\ boot = NotBooted
  /\ copying = NoClones
  /\ now = 0
  /\ crashes = 0

Booting == Restore \/ (\E l \in Legs : FlattenLeg(l)) \/ Import \/ SaveUnwound

Next ==
  \/ \E i \in Intents : Create(i) \/ Prepare(i) \/ Commit(i) \/ Unwind(i) \/ CopyIntent(i)
  \/ Booting
  \/ StartCopy
  \/ Crash
  \/ Tick

(* The boot runs in the cron handler, which the platform calls every hour. *)
Spec == Init /\ [][Next]_vars /\ WF_vars(Booting)

-----------------------------------------------------------------------------
TypeOK ==
  /\ ledgerStore \in [Intents -> IntentRecords]
  /\ kvStore \in [Intents -> IntentRecords]
  /\ atVenue \in [Intents -> SUBSET Legs]
  /\ refused \in [Intents -> SUBSET Legs]
  /\ boot \in [at : BootStages, todo : SUBSET Intents, legs : SUBSET Legs]
  /\ copying \in [Intents -> IntentRecords]
  /\ now \in Nat /\ crashes \in Nat

(* worker-scheduled.ts:21: prepared intents past their TTL are unwound, so *)
(* a record or a snapshot says ABORTED only when every leg was flattened   *)
(* or a venue refused to, even when an eviction interrupts the unwinding.  *)
(* Disputed with the worker's own boot, which passes no flattenLeg.        *)
AbortedIsFlat ==
  \A i \in Intents :
    "ABORTED" \in {ledgerStore[i].phase, kvStore[i].phase} => atVenue[i] \subseteq refused[i]

(* A decision that has reached KV survives evictions, restores and copies  *)
(* of older clones.                                                        *)
DecisionDurable ==
  [][\A i \in Intents :
       kvStore[i].phase \in Decided => kvStore'[i].phase = kvStore[i].phase]_vars

(* An expired prepared snapshot is decided in the end: the boot that finds *)
(* it finishes unless it is evicted, and then the next one finds it.       *)
ExpiredIsDecided ==
  \A i \in Intents :
    boot.at = "down" /\ NeedsUnwind(kvStore[i]) ~> kvStore[i].phase \in Decided
=============================================================================
