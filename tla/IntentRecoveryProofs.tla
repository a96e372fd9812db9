------------------------ MODULE IntentRecoveryProofs ------------------------
(***************************************************************************)
(* The safety of crash recovery, for any intents, TTL and number of        *)
(* evictions.  Neither property is inductive: RecInv ties the three copies *)
(* of an intent together -- the ledger, its snapshot and the clone of a    *)
(* running copy never hold different decisions -- and says what a boot     *)
(* that was interrupted or is under way may still find.                    *)
(***************************************************************************)
EXTENDS IntentRecovery, TLAPS

(* The copies of an intent.                                                *)
Copies(i) ==
  /\ kvStore[i].phase \in Decided =>
       \/ ledgerStore[i].phase = kvStore[i].phase
       \/ boot.at = "down" /\ ledgerStore[i].phase = "absent"
  /\ copying[i].phase \in Decided => ledgerStore[i].phase = copying[i].phase
  /\ copying[i].phase # "absent" /\ kvStore[i].phase \in Decided =>
       copying[i].phase = kvStore[i].phase
  /\ boot.at # "done" => copying[i] = NoRecord
  /\ boot.at = "down" /\ kvStore[i].phase # "absent" => ledgerStore[i].phase = "absent"

(* What the boot has still to do.                                          *)
Unwinding ==
  /\ \A i \in boot.todo : \/ ledgerStore[i].phase = "ABORTED"
                          \/ NeedsUnwind(ledgerStore[i])
  /\ (boot.todo # {}) <=> (boot.at \in {"unwinding", "saving"})
  /\ boot.at = "saving" => ledgerStore[First(boot.todo)].phase = "ABORTED"

(* With a flattenLeg, the legs open are those the boot has still to close  *)
(* and those a venue refused to.                                           *)
OpenLegs(i, legs) == atVenue[i] \subseteq legs \cup refused[i]

Flat ==
  Wired => /\ AbortedIsFlat
           /\ boot.at = "unwinding" => OpenLegs(First(boot.todo), boot.legs)

RecInv == TypeOK /\ (\A i \in Intents : Copies(i)) /\ Unwinding /\ Flat

USE RecoveryAssumption
USE DEF Decided, Phases, venueVars, OpenLegs

LEMMA FirstInTodo == ASSUME NEW S, S # {} PROVE First(S) \in S
BY DEF First

LEMMA RecordShapes ==
  ASSUME NEW r \in IntentRecords
  PROVE  /\ NoRecord \in IntentRecords /\ NoRecord.phase = "absent"
         /\ \A p \in Phases : [r EXCEPT !.phase = p] \in IntentRecords
                              /\ [r EXCEPT !.phase = p].phase = p
         /\ r.preparedAt \in Nat /\ r.phase \in Phases
         /\ Aborted(r) \in IntentRecords /\ Aborted(r).phase = "ABORTED"
BY DEF IntentRecords, NoRecord, Aborted

LEMMA InitRecInv == Init => RecInv
BY DEF Init, RecInv, TypeOK, Copies, Unwinding, Flat, AbortedIsFlat, NoClones, NoRecord,
       NotBooted, IntentRecords, BootStages, Legs

-----------------------------------------------------------------------------
(* The calls of the isolate's other code.                                  *)
LEMMA CallKeeps ==
  ASSUME RecInv, NEW i \in Intents, Create(i) \/ Prepare(i) \/ Commit(i) \/ Unwind(i)
  PROVE  RecInv'
<1>1. UNCHANGED <<kvStore, boot, copying, now, crashes>>
  BY DEF Create, Prepare, Commit, Unwind
<1>2. PICK r \in IntentRecords :
        /\ ledgerStore' = [ledgerStore EXCEPT ![i] = r]
        /\ \/ /\ Create(i) /\ r.phase = "PENDING"
           \/ /\ Prepare(i) /\ r.phase = "PREPARED"
           \/ /\ Commit(i) /\ r.phase = "COMMITTED"
           \/ /\ Unwind(i) /\ r.phase = "ABORTED"
  <2>1. ledgerStore[i] \in IntentRecords /\ now \in Nat
    BY DEF RecInv, TypeOK
  <2>2. CASE Create(i)
    BY <2>1, <2>2, RecordShapes DEF Create, Store
  <2>3. CASE Prepare(i)
    <3>1. [phase |-> "PREPARED", preparedAt |-> now] \in IntentRecords
      BY <2>1 DEF IntentRecords
    <3> QED
      BY <2>3, <3>1 DEF Prepare, Store
  <2>4. CASE Commit(i)
    BY <2>1, <2>4, RecordShapes DEF Commit, Store
  <2>5. CASE Unwind(i)
    BY <2>1, <2>5, RecordShapes DEF Unwind, Store
  <2> QED
    BY <2>2, <2>3, <2>4, <2>5
<1>3. /\ ledgerStore'[i] = r /\ ledgerStore' \in [Intents -> IntentRecords]
      /\ \A j \in Intents : j # i => ledgerStore'[j] = ledgerStore[j]
  BY <1>2 DEF RecInv, TypeOK
<1>4. /\ atVenue' \in [Intents -> SUBSET Legs]
      /\ \A j \in Intents : j # i => atVenue'[j] = atVenue[j]
      /\ refused' \in [Intents -> SUBSET Legs]
      /\ \A j \in Intents : j # i => refused'[j] = refused[j]
      /\ r.phase = "ABORTED" => atVenue'[i] \subseteq refused'[i]
  <2>1. CASE (Create(i) \/ Commit(i)) /\ r.phase # "ABORTED"
    BY <1>2, <2>1 DEF Create, Commit, RecInv, TypeOK
  <2>2. CASE Prepare(i) /\ r.phase # "ABORTED"
    BY <1>2, <2>2 DEF Prepare, RecInv, TypeOK
  <2>3. CASE Unwind(i)
    <3>1. PICK left \in SUBSET Legs :
            /\ atVenue' = [atVenue EXCEPT ![i] = left]
            /\ refused' = [refused EXCEPT ![i] = @ \cup left]
      BY <2>3 DEF Unwind
    <3> QED
      BY <3>1 DEF RecInv, TypeOK
  <2> QED
    BY <1>2, <2>1, <2>2, <2>3
<1>5. (* The intent was undecided, and one to unwind is only aborted. *)
      /\ ledgerStore[i].phase \notin Decided
      /\ ledgerStore[i].phase = "absent" => kvStore[i].phase = "absent"
      /\ i \in boot.todo => r.phase = "ABORTED"
  BY <1>2 DEF Create, Fresh, Prepare, Commit, Unwind, RecInv, Unwinding, NeedsUnwind
<1>6. kvStore[i].phase \notin Decided /\ copying[i].phase \notin Decided
  BY <1>5 DEF RecInv, Copies
<1>7. boot.at = "down" => kvStore[i].phase = "absent" \/ ledgerStore[i].phase = "absent"
  BY DEF RecInv, Copies
<1>8. \A j \in Intents : Copies(j)'
  <2>1. Copies(i)'
    BY <1>1, <1>3, <1>5, <1>6, <1>7 DEF RecInv, Copies
  <2>2. ASSUME NEW j \in Intents, j # i PROVE Copies(j)'
    BY <1>1, <1>3, <2>2 DEF RecInv, Copies
  <2> QED
    BY <2>1, <2>2
<1>9. boot.todo # {} => First(boot.todo) \in boot.todo
  BY FirstInTodo
<1>10. Unwinding'
  BY <1>1, <1>3, <1>5, <1>9 DEF RecInv, TypeOK, Unwinding, NeedsUnwind, Expired
<1>11. Flat'
  <2>1. Wired => AbortedIsFlat'
    BY <1>1, <1>3, <1>4, <1>6 DEF RecInv, Flat, AbortedIsFlat
  <2>2. Wired /\ boot.at = "unwinding" => OpenLegs(First(boot.todo), boot.legs)'
    <3>1. boot.at = "unwinding" => First(boot.todo) \in Intents
      BY <1>9 DEF RecInv, TypeOK, Unwinding
    <3>2. boot.at = "unwinding" /\ First(boot.todo) = i => r.phase = "ABORTED"
      BY <1>5, <1>9 DEF RecInv, Unwinding
    <3> QED
      BY <1>1, <1>4, <3>1, <3>2 DEF RecInv, TypeOK, Flat
  <2> QED
    BY <1>1, <2>1, <2>2 DEF Flat
<1>12. TypeOK'
  BY <1>1, <1>3, <1>4 DEF RecInv, TypeOK
<1> QED
  BY <1>8, <1>10, <1>11, <1>12 DEF RecInv

-----------------------------------------------------------------------------
(* The boot.                                                               *)
LEMMA RestoreKeeps == ASSUME RecInv, Restore PROVE RecInv'
<1>1. boot.at = "down" /\ UNCHANGED <<kvStore, venueVars, copying, now, crashes>>
  BY DEF Restore
<1>2. \A i \in Intents : ledgerStore'[i] = IF kvStore[i].phase = "absent" THEN ledgerStore[i]
                                           ELSE kvStore[i]
  BY DEF Restore
<1>3. ledgerStore' \in [Intents -> IntentRecords]
  BY DEF Restore, RecInv, TypeOK
<1>4. PICK todo \in SUBSET Intents :
        /\ \A i \in todo : NeedsUnwind(ledgerStore'[i])
        /\ Unwinds(todo)
  <2> DEFINE todo == {i \in Intents : NeedsUnwind(ledgerStore'[i])}
  <2>1. Unwinds(todo)
    BY DEF Restore
  <2> HIDE DEF todo
  <2>2. todo \in SUBSET Intents /\ \A i \in todo : NeedsUnwind(ledgerStore'[i])
    BY DEF todo
  <2> QED
    BY <2>1, <2>2
<1>5. /\ boot'.at = (IF todo = {} THEN "done" ELSE "unwinding")
      /\ boot'.todo = todo /\ boot'.legs = (IF todo = {} THEN {} ELSE Legs)
      /\ boot' \in [at : BootStages, todo : SUBSET Intents, legs : SUBSET Legs]
  BY <1>4 DEF Unwinds, LegsToUnwind, BootStages
<1>6. TypeOK'
  BY <1>1, <1>3, <1>5 DEF RecInv, TypeOK
<1>7. ASSUME NEW i \in Intents PROVE Copies(i)'
  BY <1>1, <1>2, <1>5 DEF RecInv, TypeOK, Copies, NoRecord
<1>8. Unwinding'
  BY <1>1, <1>4, <1>5 DEF Unwinding, NeedsUnwind, Expired
<1>9. Flat'
  <2>1. Wired => AbortedIsFlat'
    BY <1>1, <1>2 DEF RecInv, Flat, AbortedIsFlat
  <2>2. boot'.at = "unwinding" => First(boot'.todo) \in Intents /\ boot'.legs = Legs
    BY <1>5, FirstInTodo
  <2> QED
    BY <1>1, <2>1, <2>2 DEF RecInv, TypeOK, Flat
<1> QED
  BY <1>6, <1>7, <1>8, <1>9 DEF RecInv

LEMMA FlattenLegKeeps == ASSUME RecInv, NEW l \in Legs, FlattenLeg(l) PROVE RecInv'
<1>1. /\ boot.at = "unwinding" /\ boot' = [boot EXCEPT !.legs = @ \ {l}]
      /\ UNCHANGED <<ledgerStore, kvStore, copying, now, crashes>>
  BY DEF FlattenLeg
<1>2. /\ boot'.at = boot.at /\ boot'.todo = boot.todo /\ boot'.legs = boot.legs \ {l}
      /\ boot' \in [at : BootStages, todo : SUBSET Intents, legs : SUBSET Legs]
  BY <1>1 DEF RecInv, TypeOK
<1>3. First(boot.todo) \in Intents
  BY <1>1, FirstInTodo DEF RecInv, TypeOK, Unwinding
<1>4. /\ atVenue' \in [Intents -> SUBSET Legs] /\ refused' \in [Intents -> SUBSET Legs]
      /\ \A i \in Intents : atVenue'[i] \subseteq atVenue[i] /\ refused[i] \subseteq refused'[i]
      /\ Wired => \/ l \notin atVenue'[First(boot.todo)]
                  \/ l \in refused'[First(boot.todo)]
  <2> DEFINE first == First(boot.todo)
  <2>1. \/ /\ atVenue' = [atVenue EXCEPT ![first] = @ \ {l}]
           /\ refused' = refused
        \/ /\ refused' = [refused EXCEPT ![first] = @ \cup {l}]
           /\ atVenue' = atVenue
        \/ ~Wired /\ atVenue' = atVenue /\ refused' = refused
    BY DEF FlattenLeg
  <2> HIDE DEF first
  <2>2. first \in Intents
    BY <1>3 DEF first
  <2>3. /\ atVenue' \in [Intents -> SUBSET Legs] /\ refused' \in [Intents -> SUBSET Legs]
        /\ \A i \in Intents : atVenue'[i] \subseteq atVenue[i] /\ refused[i] \subseteq refused'[i]
        /\ Wired => l \notin atVenue'[first] \/ l \in refused'[first]
    BY <2>1, <2>2 DEF RecInv, TypeOK
  <2> QED
    BY <2>3 DEF first
<1>5. TypeOK'
  BY <1>1, <1>2, <1>4 DEF RecInv, TypeOK
<1>6. ASSUME NEW i \in Intents PROVE Copies(i)'
  BY <1>1, <1>2 DEF RecInv, Copies
<1>7. Unwinding'
  BY <1>1, <1>2 DEF RecInv, Unwinding, NeedsUnwind, Expired
<1>8. Flat'
  <2>1. Wired => AbortedIsFlat'
    BY <1>1, <1>4 DEF RecInv, TypeOK, Flat, AbortedIsFlat
  <2>2. Wired => OpenLegs(First(boot.todo), boot.legs)'
    <3>1. Wired => atVenue[First(boot.todo)] \subseteq boot.legs \cup refused[First(boot.todo)]
      BY <1>1 DEF RecInv, Flat
    <3> QED
      BY <1>2, <1>3, <1>4, <3>1
  <2> QED
    BY <1>2, <2>1, <2>2 DEF Flat
<1> QED
  BY <1>5, <1>6, <1>7, <1>8 DEF RecInv

LEMMA ImportKeeps == ASSUME RecInv, Import PROVE RecInv'
<1> DEFINE first == First(boot.todo)
<1>1. /\ boot.at = "unwinding" /\ boot.legs = {}
      /\ ledgerStore' = [ledgerStore EXCEPT ![first] = Aborted(ledgerStore[first])]
      /\ boot' = [boot EXCEPT !.at = "saving"]
      /\ UNCHANGED <<kvStore, venueVars, copying, now, crashes>>
  BY DEF Import, Store
<1>2. /\ boot'.at = "saving" /\ boot'.todo = boot.todo
      /\ boot' \in [at : BootStages, todo : SUBSET Intents, legs : SUBSET Legs]
  BY <1>1 DEF RecInv, TypeOK, BootStages
<1>3. first \in boot.todo /\ first \in Intents
  BY <1>1, FirstInTodo DEF RecInv, TypeOK, Unwinding
<1> HIDE DEF first
<1>4. /\ ledgerStore' \in [Intents -> IntentRecords]
      /\ ledgerStore'[first].phase = "ABORTED"
      /\ \A i \in Intents : i # first => ledgerStore'[i] = ledgerStore[i]
  <2>1. ledgerStore[first] \in IntentRecords
    BY <1>3 DEF RecInv, TypeOK
  <2>2. Aborted(ledgerStore[first]) \in IntentRecords
        /\ Aborted(ledgerStore[first]).phase = "ABORTED"
    BY <2>1, RecordShapes
  <2> QED
    BY <1>1, <1>3, <2>2 DEF RecInv, TypeOK
<1>5. ledgerStore[first].phase \in {"PREPARED", "ABORTED"}
  BY <1>3 DEF RecInv, Unwinding, NeedsUnwind
<1>6. TypeOK'
  BY <1>1, <1>2, <1>4 DEF RecInv, TypeOK
<1>7. ASSUME NEW i \in Intents PROVE Copies(i)'
  BY <1>1, <1>2, <1>4, <1>5 DEF RecInv, Copies, NoRecord
<1>8. Unwinding'
  BY <1>1, <1>2, <1>3, <1>4 DEF RecInv, TypeOK, Unwinding, NeedsUnwind, Expired, first
<1>9. Flat'
  BY <1>1, <1>2, <1>4 DEF RecInv, Flat, AbortedIsFlat, first
<1> QED
  BY <1>6, <1>7, <1>8, <1>9 DEF RecInv

LEMMA SaveUnwoundKeeps == ASSUME RecInv, SaveUnwound PROVE RecInv'
<1> DEFINE first == First(boot.todo)
           todo == boot.todo \ {first}
<1>1. /\ boot.at = "saving" /\ kvStore' = [kvStore EXCEPT ![first] = ledgerStore[first]]
      /\ Unwinds(todo)
      /\ UNCHANGED <<ledgerStore, venueVars, copying, now, crashes>>
  BY DEF SaveUnwound
<1>2. /\ first \in Intents /\ ledgerStore[first].phase = "ABORTED"
      /\ todo \subseteq boot.todo /\ todo \subseteq Intents
  BY <1>1, FirstInTodo DEF RecInv, TypeOK, Unwinding
<1> HIDE DEF first, todo
<1>3. /\ boot'.at = (IF todo = {} THEN "done" ELSE "unwinding")
      /\ boot'.todo = todo /\ boot'.legs = (IF todo = {} THEN {} ELSE Legs)
      /\ boot' \in [at : BootStages, todo : SUBSET Intents, legs : SUBSET Legs]
  BY <1>1, <1>2 DEF Unwinds, LegsToUnwind, BootStages
<1>4. /\ kvStore' \in [Intents -> IntentRecords] /\ kvStore'[first] = ledgerStore[first]
      /\ \A i \in Intents : i # first => kvStore'[i] = kvStore[i]
  BY <1>1, <1>2 DEF RecInv, TypeOK
<1>5. TypeOK'
  BY <1>1, <1>3, <1>4 DEF RecInv, TypeOK
<1>6. ASSUME NEW i \in Intents PROVE Copies(i)'
  BY <1>1, <1>2, <1>3, <1>4 DEF RecInv, Copies, NoRecord
<1>7. Unwinding'
  BY <1>1, <1>2, <1>3 DEF RecInv, Unwinding, NeedsUnwind, Expired
<1>8. Flat'
  <2>1. Wired => AbortedIsFlat'
    BY <1>1, <1>2, <1>4 DEF RecInv, Flat, AbortedIsFlat
  <2>2. boot'.at = "unwinding" => First(boot'.todo) \in Intents /\ boot'.legs = Legs
    BY <1>2, <1>3, FirstInTodo
  <2> QED
    BY <1>1, <2>1, <2>2 DEF RecInv, TypeOK, Flat
<1> QED
  BY <1>5, <1>6, <1>7, <1>8 DEF RecInv

-----------------------------------------------------------------------------
(* The hourly copy, an eviction, time.                                     *)
LEMMA CopyKeeps ==
  ASSUME RecInv, StartCopy \/ \E i \in Intents : CopyIntent(i) PROVE RecInv'
<1>1. CASE StartCopy
  <2>1. /\ boot.at = "done" /\ copying' = ledgerStore
        /\ UNCHANGED <<ledgerStore, kvStore, venueVars, boot, now, crashes>>
    BY <1>1 DEF StartCopy
  <2>2. \A i \in Intents : Copies(i)'
    BY <2>1 DEF RecInv, Copies
  <2> QED
    BY <2>1, <2>2 DEF RecInv, TypeOK, Unwinding, NeedsUnwind, Expired, Flat, AbortedIsFlat
<1>2. ASSUME NEW i \in Intents, CopyIntent(i) PROVE RecInv'
  <2>1. /\ copying[i].phase # "absent"
        /\ kvStore' = [kvStore EXCEPT ![i] = copying[i]]
        /\ copying' = [copying EXCEPT ![i] = NoRecord]
        /\ UNCHANGED <<ledgerStore, venueVars, boot, now, crashes>>
    BY <1>2 DEF CopyIntent
  <2>2. /\ kvStore' \in [Intents -> IntentRecords] /\ kvStore'[i] = copying[i]
        /\ copying' \in [Intents -> IntentRecords] /\ copying'[i] = NoRecord
        /\ \A j \in Intents : j # i => kvStore'[j] = kvStore[j] /\ copying'[j] = copying[j]
    <3>1. NoRecord \in IntentRecords
      BY DEF NoRecord, IntentRecords
    <3> QED
      BY <2>1, <3>1 DEF RecInv, TypeOK
  <2>3. boot.at = "done"
    BY <2>1 DEF RecInv, Copies, NoRecord
  <2>4. ASSUME NEW j \in Intents PROVE Copies(j)'
    BY <2>1, <2>2, <2>3 DEF RecInv, Copies, NoRecord
  <2>5. Flat'
    BY <2>1, <2>2 DEF RecInv, Copies, Flat, AbortedIsFlat
  <2> QED
    BY <2>1, <2>2, <2>4, <2>5 DEF RecInv, TypeOK, Unwinding, NeedsUnwind, Expired
<1> QED
  BY <1>1, <1>2

LEMMA CrashKeeps == ASSUME RecInv, Crash PROVE RecInv'
<1>1. /\ ledgerStore' = NoClones /\ boot' = NotBooted /\ copying' = NoClones
      /\ crashes' = crashes + 1 /\ UNCHANGED <<kvStore, venueVars, now>>
  BY DEF Crash
<1>2. /\ \A i \in Intents : ledgerStore'[i] = NoRecord /\ copying'[i] = NoRecord
      /\ NoRecord.phase = "absent" /\ NoRecord \in IntentRecords
      /\ boot'.at = "down" /\ boot'.todo = {} /\ boot'.legs = {}
  BY <1>1 DEF NoClones, NotBooted, NoRecord, IntentRecords
<1>3. TypeOK'
  BY <1>1, <1>2 DEF RecInv, TypeOK, NoClones, NotBooted, BootStages
<1>4. \A i \in Intents : Copies(i)'
  BY <1>1, <1>2 DEF Copies
<1>5. Unwinding' /\ Flat'
  BY <1>1, <1>2 DEF RecInv, Unwinding, Flat, AbortedIsFlat
<1> QED
  BY <1>3, <1>4, <1>5 DEF RecInv

LEMMA TickKeeps == ASSUME RecInv, Tick PROVE RecInv'
<1>1. now' = now + 1 /\ UNCHANGED <<ledgerStore, kvStore, venueVars, boot, copying, crashes>>
  BY DEF Tick
<1>2. now \in Nat /\ \A i \in boot.todo : ledgerStore[i].preparedAt \in Nat
  BY DEF RecInv, TypeOK, IntentRecords
<1>3. Unwinding'
  BY <1>1, <1>2 DEF RecInv, Unwinding, NeedsUnwind, Expired
<1> QED
  BY <1>1, <1>2, <1>3 DEF RecInv, TypeOK, Copies, Flat, AbortedIsFlat

LEMMA RecInvStep == RecInv /\ [Next]_vars => RecInv'
<1> SUFFICES ASSUME RecInv, [Next]_vars PROVE RecInv'
  OBVIOUS
<1>1. CASE UNCHANGED vars
  BY <1>1 DEF vars, RecInv, TypeOK, Copies, Unwinding, NeedsUnwind, Expired, Flat,
              AbortedIsFlat
<1> QED
  BY <1>1, CallKeeps, RestoreKeeps, FlattenLegKeeps, ImportKeeps, SaveUnwoundKeeps, CopyKeeps,
     CrashKeeps, TickKeeps DEF Next, Booting

LEMMA RecInvariant == Spec => []RecInv
BY InitRecInv, RecInvStep, PTL DEF Spec

-----------------------------------------------------------------------------
(* With a flattenLeg whose result is ignored, an intent aborted in the     *)
(* ledger or in KV has no leg open but those a venue refused to close,     *)
(* evictions or not.                                                       *)
THEOREM AbortedIsAlwaysFlat == Wired => (Spec => []AbortedIsFlat)
<1>1. Wired /\ RecInv => AbortedIsFlat
  BY DEF RecInv, Flat
<1>2. ASSUME Wired PROVE Spec => []AbortedIsFlat
  <2>1. RecInv => AbortedIsFlat
    BY <1>1, <1>2
  <2> QED
    BY <2>1, RecInvariant, PTL
<1> QED
  BY <1>2

(* A decision in KV is never replaced: not by the copy of an older clone,  *)
(* nor by a boot that was interrupted and starts again.                    *)
THEOREM DecisionsAreDurable == Spec => DecisionDurable
<1>1. RecInv /\ [Next]_vars
        => [\A i \in Intents :
              kvStore[i].phase \in Decided => kvStore'[i].phase = kvStore[i].phase]_vars
  <2> SUFFICES ASSUME RecInv, [Next]_vars, NEW i \in Intents, kvStore[i].phase \in Decided
               PROVE  kvStore'[i].phase = kvStore[i].phase
    BY DEF vars
  <2>1. CASE \E j \in Intents : CopyIntent(j)
    BY <2>1 DEF CopyIntent, RecInv, TypeOK, Copies
  <2>2. CASE SaveUnwound
    BY <2>2 DEF SaveUnwound, RecInv, TypeOK, Copies, Unwinding
  <2>3. CASE kvStore' = kvStore
    BY <2>3
  <2> QED
    BY <2>1, <2>2, <2>3
    DEF Next, Create, Prepare, Commit, Unwind, Booting, Restore, FlattenLeg, Import,
        StartCopy, Crash, Tick, vars
<1> QED
  BY <1>1, RecInvariant, PTL DEF Spec, DecisionDurable
=============================================================================
