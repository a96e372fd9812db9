------------------------- MODULE WorkerPartsProofs -------------------------
(***************************************************************************)
(* The safety of the parts of the worker, for any number of isolates,      *)
(* calls, keys and orders and any values read.  Each part has an inductive *)
(* invariant over its own variables, which the steps of the other parts    *)
(* leave unchanged.                                                        *)
(***************************************************************************)
EXTENDS WorkerParts, TLAPS

-----------------------------------------------------------------------------
(* The clock: the offset is what lies between the last wall time read and  *)
(* the time given for it.                                                  *)
ClockInv ==
  /\ last \in Nat /\ offset \in Int /\ raw \in Nat
  /\ last = 0 => offset = 0
  /\ last # 0 => last = raw + offset

LEMMA ReadKeeps ==
  ASSUME ClockInv, NEW w \in Wall, Read(w)
  PROVE  /\ ClockInv'
         /\ last # 0 => /\ last' - last \in 0..MaxForwardStep
                        /\ raw' - raw \in 0..MaxForwardStep => last' - last = raw' - raw
<1>1. w \in Nat /\ w > 0 /\ MaxForwardStep \in Nat
  BY ClockAssumption
<1> DEFINE candidate == w + offset
<1>2. CASE /\ last # 0 /\ candidate < last
           /\ offset' = offset + (last - candidate)
           /\ last' = last
  BY <1>1, <1>2 DEF ClockInv, Read
<1>3. CASE /\ last # 0 /\ candidate - last > MaxForwardStep
           /\ last' = last + MaxForwardStep
           /\ offset' = offset + (last + MaxForwardStep - candidate)
  BY <1>1, <1>3 DEF ClockInv, Read
<1>4. CASE /\ last = 0 \/ candidate - last \in 0..MaxForwardStep
           /\ last' = candidate /\ offset' = offset
  BY <1>1, <1>4 DEF ClockInv, Read
<1> QED
  BY <1>2, <1>3, <1>4 DEF Read, Candidate

LEMMA ClockInvStep == ClockInv /\ [WorkerNext]_workerVars => ClockInv'
<1> SUFFICES ASSUME ClockInv, [WorkerNext]_workerVars PROVE ClockInv'
  OBVIOUS
<1>1. CASE \E w \in Wall : Read(w)
  BY <1>1, ReadKeeps
<1>2. CASE UNCHANGED clockVars
  BY <1>2 DEF ClockInv, clockVars
<1> QED
  BY <1>1, <1>2 DEF WorkerNext, ClockNext, Ingest, workerVars

LEMMA ClockInvariant == WorkerSpec => []ClockInv
<1>1. WorkerInit => ClockInv
  BY DEF WorkerInit, ClockInit, ClockInv
<1> QED
  BY <1>1, ClockInvStep, PTL DEF WorkerSpec

(* The clock of the process never goes back nor leaps, and follows the     *)
(* wall clock again after every correction, for any wall times and step.   *)
THEOREM ClockAlwaysFollows == WorkerSpec => ClockFollows
<1>1. ClockInv /\ [WorkerNext]_workerVars
        => [last # 0 => /\ last' - last \in 0..MaxForwardStep
                        /\ raw' - raw \in 0..MaxForwardStep
                             => last' - last = raw' - raw]_clockVars
  <2> SUFFICES ASSUME ClockInv, [WorkerNext]_workerVars, ~UNCHANGED clockVars, last # 0
               PROVE  /\ last' - last \in 0..MaxForwardStep
                      /\ raw' - raw \in 0..MaxForwardStep => last' - last = raw' - raw
    OBVIOUS
  <2>1. CASE \E w \in Wall : Read(w)
    BY <2>1, ReadKeeps
  <2> QED
    BY <2>1 DEF WorkerNext, ClockNext, Ingest, workerVars
<1> QED
  BY <1>1, ClockInvariant, PTL DEF WorkerSpec, ClockFollows

-----------------------------------------------------------------------------
(* The watermark: the time held was seen with a block that is not later    *)
(* than the block held.                                                    *)
MarkInv ==
  /\ heldBlock \in Nat /\ heldStamp \in Nat
  /\ heldBlock = 0 => heldStamp = 0
  /\ heldBlock # 0 => \E s \in seen : s[1] <= heldBlock /\ s[2] = heldStamp
  /\ \A s \in seen : s[1] \in Nat /\ s[2] \in Nat

LEMMA IngestKeeps ==
  ASSUME MarkInv, NEW b \in Block, NEW t \in Stamp, Ingest(b, t)
  PROVE  MarkInv' /\ heldStamp' >= heldStamp
<1>1. b \in Nat /\ t \in Nat /\ b > 0
  BY ClockAssumption
<1>2. \A s \in seen' : s[1] \in Nat /\ s[2] \in Nat
  BY <1>1 DEF Ingest, MarkInv
<1>3. CASE UNCHANGED <<heldBlock, heldStamp>>
  BY <1>1, <1>2, <1>3 DEF Ingest, MarkInv
<1>4. CASE b >= heldBlock /\ heldBlock' = b
           /\ heldStamp' = IF t > heldStamp THEN t ELSE heldStamp
  <2>1. CASE t >= heldStamp
    <3>1. <<b, t>> \in seen' /\ heldStamp' = t
      BY <1>1, <1>4, <2>1 DEF Ingest, MarkInv
    <3> QED
      BY <1>1, <1>2, <1>4, <2>1, <3>1 DEF MarkInv
  <2>2. CASE t < heldStamp
    <3>1. heldBlock # 0 /\ heldStamp' = heldStamp /\ seen \subseteq seen'
      BY <1>1, <1>4, <2>2 DEF Ingest, MarkInv
    <3>2. PICK s \in seen : s[1] <= heldBlock /\ s[2] = heldStamp
      BY <3>1 DEF MarkInv
    <3> QED
      BY <1>1, <1>2, <1>4, <3>1, <3>2 DEF MarkInv
  <2> QED
    BY <1>1, <2>1, <2>2 DEF MarkInv
<1> QED
  BY <1>1, <1>3, <1>4 DEF Ingest, MarkInv

LEMMA MarkInvStep == MarkInv /\ [WorkerNext]_workerVars => MarkInv'
<1> SUFFICES ASSUME MarkInv, [WorkerNext]_workerVars PROVE MarkInv'
  OBVIOUS
<1>1. CASE \E b \in Block, t \in Stamp : Ingest(b, t)
  BY <1>1, IngestKeeps
<1>2. CASE UNCHANGED markVars
  BY <1>2 DEF MarkInv, markVars
<1> QED
  BY <1>1, <1>2 DEF WorkerNext, ClockNext, Read, workerVars

LEMMA MarkInvariant == WorkerSpec => []MarkInv
<1>1. WorkerInit => MarkInv
  BY DEF WorkerInit, ClockInit, MarkInv
<1> QED
  BY <1>1, MarkInvStep, PTL DEF WorkerSpec

(* The watermark never falls, and a regression is reported only of a chain *)
(* that went back, for any blocks and times in any order.                  *)
THEOREM WatermarkAlwaysSound == WorkerSpec => WatermarkSound
<1>1. ASSUME MarkInv, NEW b \in Block, NEW t \in Stamp, Ingest(b, t), regression'
      PROVE  \E s \in seen : s[1] < b /\ s[2] > t
  <2>1. b \in Nat /\ t \in Nat
    BY ClockAssumption
  <2>2. heldBlock # 0 /\ b > heldBlock /\ t < heldStamp
    BY <1>1 DEF Ingest
  <2>3. PICK s \in seen : s[1] <= heldBlock /\ s[2] = heldStamp
    BY <1>1, <2>2 DEF MarkInv
  <2> QED
    BY <1>1, <2>1, <2>2, <2>3 DEF MarkInv
<1>2. MarkInv /\ [WorkerNext]_workerVars
        => [/\ heldStamp' >= heldStamp
            /\ \A b \in Block, t \in Stamp :
                 Ingest(b, t) /\ regression' => \E s \in seen : s[1] < b /\ s[2] > t]_markVars
  <2> SUFFICES ASSUME MarkInv, [WorkerNext]_workerVars, ~UNCHANGED markVars
               PROVE  /\ heldStamp' >= heldStamp
                      /\ \A b \in Block, t \in Stamp :
                           Ingest(b, t) /\ regression' => \E s \in seen : s[1] < b /\ s[2] > t
    OBVIOUS
  <2>1. CASE \E b \in Block, t \in Stamp : Ingest(b, t)
    BY <1>1, <2>1, IngestKeeps
  <2> QED
    BY <2>1 DEF WorkerNext, ClockNext, Read, workerVars
<1> QED
  BY <1>2, MarkInvariant, PTL DEF WorkerSpec, WatermarkSound

-----------------------------------------------------------------------------
(* The mask: while intact, one put at most is on its way and it carries     *)
(* the record; what an isolate caches or tripped on is in the record or on *)
(* its way to it; a read returns no more than the record, and no less than *)
(* what the isolate knows when no put of its own overtook it.              *)
PendingRead == [got : {TRUE}, mask : SUBSET Bit, late : BOOLEAN] \cup {NoRead}

Known(i) == trips[i] \cup cachedMask[i]
OnItsWay(i, b) == \E p \in puts : p[1] = i /\ b \in p[2]

MaskTypeOK ==
  /\ cachedMask \in [Isolate -> SUBSET Bit] /\ trips \in [Isolate -> SUBSET Bit]
  /\ reading \in [Isolate -> PendingRead]
  /\ record \subseteq Bit
  /\ \A p \in puts : p[2] \subseteq Bit

OnePut == \A p \in puts : record \subseteq p[2] /\ \A q \in puts : p = q
Covered == \A i \in Isolate : \A b \in Known(i) : b \in record \/ OnItsWay(i, b)
Remembered == \A i \in Isolate : i \notin forgot => trips[i] \subseteq cachedMask[i]
ReadsSound ==
  \A i \in Isolate : reading[i] # NoRead =>
    /\ reading[i].mask \subseteq record
    /\ ~reading[i].late => Known(i) \subseteq reading[i].mask

MaskInv ==
  /\ MaskTypeOK
  /\ intact => OnePut /\ Covered /\ Remembered /\ ReadsSound

LEMMA ReadShape ==
  ASSUME NEW r \in PendingRead, r # NoRead
  PROVE  /\ r.mask \subseteq Bit /\ [r EXCEPT !.late = TRUE] \in PendingRead
         /\ [r EXCEPT !.late = TRUE].mask = r.mask /\ [r EXCEPT !.late = TRUE].late
BY DEF PendingRead

LEMMA TripKeeps ==
  ASSUME MaskInv, NEW i \in Isolate, NEW new \in SUBSET Bit, Trip(i, new) PROVE MaskInv'
<1>1. /\ cachedMask' \in [Isolate -> SUBSET Bit] /\ trips' \in [Isolate -> SUBSET Bit]
      /\ cachedMask'[i] = cachedMask[i] \cup new /\ trips'[i] = trips[i] \cup new
      /\ \A j \in Isolate \ {i} : cachedMask'[j] = cachedMask[j] /\ trips'[j] = trips[j]
      /\ record' = record /\ forgot' = forgot
  BY DEF MaskInv, MaskTypeOK, Trip
<1>2. CASE new \subseteq cachedMask[i] /\ UNCHANGED <<puts, reading, intact>>
  <2>1. cachedMask'[i] = cachedMask[i] /\ \A j \in Isolate : Known(j)' = Known(j)
    BY <1>1, <1>2 DEF Known
  <2>2. MaskTypeOK'
    BY <1>1, <1>2 DEF MaskInv, MaskTypeOK
  <2>3. ASSUME intact' PROVE OnePut' /\ Covered' /\ ReadsSound'
    BY <1>1, <1>2, <2>1, <2>3 DEF MaskInv, OnePut, Covered, ReadsSound, OnItsWay
  <2>4. ASSUME intact' PROVE Remembered'
    BY <1>1, <1>2, <2>1, <2>4 DEF MaskInv, Remembered
  <2> QED
    BY <2>2, <2>3, <2>4 DEF MaskInv
<1>3. CASE Puts(i, cachedMask'[i])
  <2> DEFINE carried == cachedMask'[i]
  <2>1. /\ puts' = puts \cup {<<i, carried>>}
        /\ intact' = (intact /\ puts = {} /\ record \subseteq cachedMask[i])
        /\ reading' = IF reading[i] = NoRead THEN reading
                      ELSE [reading EXCEPT ![i].late = TRUE]
    BY <1>3 DEF Puts
  <2>2. /\ reading' \in [Isolate -> PendingRead]
        /\ \A j \in Isolate \ {i} : reading'[j] = reading[j]
        /\ reading'[i] # NoRead => /\ reading[i] # NoRead /\ reading'[i].late
                                   /\ reading'[i].mask = reading[i].mask
    <3>1. CASE reading[i] = NoRead
      BY <2>1, <3>1 DEF MaskInv, MaskTypeOK
    <3>2. CASE reading[i] # NoRead
      <4>1. /\ reading[i] \in PendingRead /\ reading \in [Isolate -> PendingRead]
            /\ reading' = [reading EXCEPT ![i] = [reading[i] EXCEPT !.late = TRUE]]
        BY <2>1, <3>2 DEF MaskInv, MaskTypeOK
      <4> DEFINE r == [reading[i] EXCEPT !.late = TRUE]
      <4>2. r \in PendingRead /\ r.mask = reading[i].mask /\ r.late
        BY <3>2, <4>1, ReadShape
      <4>3. reading' = [reading EXCEPT ![i] = r]
        BY <4>1
      <4> HIDE DEF r
      <4> QED
        BY <3>2, <4>1, <4>2, <4>3
    <3> QED
      BY <3>1, <3>2
  <2>3. MaskTypeOK'
    <3>1. carried \subseteq Bit
      BY <1>1
    <3>2. \A p \in puts' : p[2] \subseteq Bit
      BY <2>1, <3>1 DEF MaskInv, MaskTypeOK
    <3> QED
      BY <1>1, <2>2, <3>2 DEF MaskInv, MaskTypeOK
  <2>4. ASSUME intact'
        PROVE  /\ puts = {} /\ puts' = {<<i, carried>>} /\ record \subseteq carried
               /\ OnePut /\ Covered /\ Remembered /\ ReadsSound
    BY <1>1, <2>1, <2>4 DEF MaskInv
  <2>5. ASSUME intact' PROVE OnePut'
    <3>1. \A p \in puts' : p = <<i, carried>>
      BY <2>4, <2>5
    <3>2. record' \subseteq <<i, carried>>[2]
      BY <1>1, <2>4, <2>5
    <3> HIDE DEF carried
    <3> QED
      BY <3>1, <3>2 DEF OnePut
  <2>6. ASSUME intact' PROVE Remembered'
    BY <1>1, <2>4, <2>6 DEF Remembered
  <2>7. ASSUME intact' PROVE ReadsSound'
    <3>1. \A j \in Isolate \ {i} : Known(j)' = Known(j)
      BY <1>1 DEF Known
    <3> QED
      BY <1>1, <2>2, <2>4, <2>7, <3>1 DEF ReadsSound
  <2>8. ASSUME intact' PROVE Covered'
    <3>1. ASSUME NEW j \in Isolate \ {i}, NEW b \in Known(j)' PROVE b \in record'
      BY <1>1, <2>4, <2>8, <3>1 DEF Known, Covered, OnItsWay
    <3>2. ASSUME NEW b \in Known(i)' PROVE b \in carried
      <4>1. CASE b \in Known(i)
        BY <2>4, <2>8, <4>1 DEF Covered, OnItsWay
      <4> QED
        BY <1>1, <3>2, <4>1 DEF Known
    <3>3. \A b \in carried : OnItsWay(i, b)'
      <4>1. <<i, carried>> \in puts' /\ <<i, carried>>[1] = i /\ <<i, carried>>[2] = carried
        BY <2>1
      <4> HIDE DEF carried
      <4> QED
        BY <4>1 DEF OnItsWay
    <3> HIDE DEF carried
    <3> QED
      BY <3>1, <3>2, <3>3 DEF Covered
  <2> QED
    BY <2>3, <2>5, <2>6, <2>7, <2>8 DEF MaskInv
<1> QED
  BY <1>2, <1>3 DEF Trip

LEMMA StartReadKeeps ==
  ASSUME MaskInv, NEW i \in Isolate, StartRead(i) PROVE MaskInv'
<1> DEFINE r == [got |-> TRUE, mask |-> record, late |-> OwnPut(i)]
<1>1. /\ reading' = [reading EXCEPT ![i] = r]
      /\ UNCHANGED <<cachedMask, record, puts, trips, intact, forgot>>
  BY DEF StartRead
<1>2. r \in PendingRead /\ r.mask = record /\ (r.late <=> OwnPut(i))
  BY DEF MaskInv, MaskTypeOK, PendingRead, OwnPut
<1> HIDE DEF r
<1>3. /\ reading' \in [Isolate -> PendingRead] /\ reading'[i] = r
      /\ \A j \in Isolate \ {i} : reading'[j] = reading[j]
  BY <1>1, <1>2 DEF MaskInv, MaskTypeOK
<1>4. MaskTypeOK'
  BY <1>1, <1>3 DEF MaskInv, MaskTypeOK
<1>5. ASSUME intact' PROVE OnePut' /\ Covered' /\ Remembered'
  BY <1>1, <1>5 DEF MaskInv, OnePut, Covered, Remembered, Known, OnItsWay
<1>6. ASSUME intact' PROVE ReadsSound'
  <2>1. ~OwnPut(i) => Known(i) \subseteq record
    BY <1>1, <1>6 DEF MaskInv, Covered, OnItsWay, OwnPut
  <2>2. \A j \in Isolate : Known(j)' = Known(j)
    BY <1>1 DEF Known
  <2>3. ReadsSound
    BY <1>1, <1>6 DEF MaskInv
  <2>4. ASSUME NEW j \in Isolate, reading'[j] # NoRead
        PROVE  /\ reading'[j].mask \subseteq record'
               /\ ~reading'[j].late => Known(j)' \subseteq reading'[j].mask
    <3>1. CASE j = i
      BY <1>1, <1>2, <1>3, <2>1, <2>2, <3>1
    <3>2. CASE j # i
      BY <1>1, <1>3, <2>2, <2>3, <2>4, <3>2 DEF ReadsSound
    <3> QED
      BY <3>1, <3>2
  <2> QED
    BY <2>4 DEF ReadsSound
<1> QED
  BY <1>4, <1>5, <1>6 DEF MaskInv

LEMMA ReadReturnsKeeps ==
  ASSUME MaskInv, NEW i \in Isolate, ReadReturns(i) PROVE MaskInv'
<1>1. /\ reading' \in [Isolate -> PendingRead] /\ reading'[i] = NoRead
      /\ \A j \in Isolate \ {i} : reading'[j] = reading[j]
      /\ UNCHANGED <<record, puts, trips, intact>>
      /\ reading[i] # NoRead
  BY DEF MaskInv, MaskTypeOK, ReadReturns, PendingRead
<1>2. CASE UNCHANGED <<cachedMask, forgot>>
  BY <1>1, <1>2
     DEF MaskInv, MaskTypeOK, OnePut, Covered, Remembered, ReadsSound, Known, OnItsWay
<1>3. CASE /\ cachedMask' = [cachedMask EXCEPT ![i] = reading[i].mask]
           /\ forgot' = IF reading[i].late THEN forgot \cup {i} ELSE forgot \ {i}
  <2>1. reading[i].mask \subseteq Bit
    BY <1>1, ReadShape DEF MaskInv, MaskTypeOK
  <2>2. /\ cachedMask' \in [Isolate -> SUBSET Bit] /\ cachedMask'[i] = reading[i].mask
        /\ \A j \in Isolate \ {i} : cachedMask'[j] = cachedMask[j]
    BY <1>3, <2>1 DEF MaskInv, MaskTypeOK
  <2>3. MaskTypeOK'
    BY <1>1, <2>2 DEF MaskInv, MaskTypeOK
  <2>4. ASSUME intact' PROVE OnePut' /\ Covered'
    BY <1>1, <2>2, <2>4 DEF MaskInv, OnePut, Covered, ReadsSound, Known, OnItsWay
  <2>5. ASSUME intact' PROVE Remembered'
    BY <1>1, <1>3, <2>2, <2>5 DEF MaskInv, Remembered, ReadsSound, Known
  <2>6. ASSUME intact' PROVE ReadsSound'
    BY <1>1, <2>2, <2>6 DEF MaskInv, ReadsSound, Known
  <2> QED
    BY <2>3, <2>4, <2>5, <2>6 DEF MaskInv
<1> QED
  BY <1>2, <1>3 DEF ReadReturns

LEMMA ReplacedKeeps == ASSUME MaskInv, NEW i \in Isolate, Replaced(i) PROVE MaskInv'
<1>1. /\ reading' \in [Isolate -> PendingRead]
      /\ cachedMask' \in [Isolate -> SUBSET Bit] /\ trips' \in [Isolate -> SUBSET Bit]
      /\ reading'[i] = NoRead /\ cachedMask'[i] = {} /\ trips'[i] = {}
      /\ \A j \in Isolate \ {i} : /\ reading'[j] = reading[j]
                                  /\ cachedMask'[j] = cachedMask[j] /\ trips'[j] = trips[j]
      /\ forgot' = forgot \ {i} /\ UNCHANGED <<record, puts, intact>>
  BY DEF MaskInv, MaskTypeOK, Replaced, PendingRead
<1>2. MaskTypeOK'
  BY <1>1 DEF MaskInv, MaskTypeOK
<1>3. ASSUME intact' PROVE OnePut' /\ Covered' /\ Remembered' /\ ReadsSound'
  BY <1>1, <1>3 DEF MaskInv, OnePut, Covered, Remembered, ReadsSound, Known, OnItsWay
<1> QED
  BY <1>2, <1>3 DEF MaskInv

LEMMA PutStepKeeps ==
  ASSUME MaskInv, Expires \/ \E p \in puts : PutLands(p) \/ PutFails(p) PROVE MaskInv'
<1>1. ASSUME NEW p \in puts, PutLands(p) PROVE MaskInv'
  <2>1. record' = p[2] /\ puts' = puts \ {p}
        /\ UNCHANGED <<cachedMask, reading, trips, intact, forgot>>
    BY <1>1 DEF PutLands
  <2>2. MaskTypeOK'
    BY <2>1 DEF MaskInv, MaskTypeOK
  <2>3. ASSUME intact' PROVE record \subseteq record' /\ puts' = {}
    BY <2>1, <2>3 DEF MaskInv, OnePut
  <2>4. ASSUME intact' PROVE OnePut' /\ Remembered'
    BY <2>1, <2>3, <2>4 DEF MaskInv, OnePut, Remembered
  <2>5. ASSUME intact' PROVE Covered'
    BY <2>1, <2>3, <2>5 DEF MaskInv, OnePut, Covered, Known, OnItsWay
  <2>6. ASSUME intact' PROVE ReadsSound'
    BY <2>1, <2>3, <2>6 DEF MaskInv, ReadsSound, Known
  <2> QED
    BY <2>2, <2>4, <2>5, <2>6 DEF MaskInv
<1>2. ASSUME NEW p \in puts, PutFails(p) PROVE MaskInv'
  BY <1>2 DEF MaskInv, MaskTypeOK, PutFails
<1>3. CASE Expires
  BY <1>3 DEF MaskInv, MaskTypeOK, Expires
<1> QED
  BY <1>1, <1>2, <1>3

LEMMA MaskInvStep == MaskInv /\ [WorkerNext]_workerVars => MaskInv'
<1> SUFFICES ASSUME MaskInv, [WorkerNext]_workerVars PROVE MaskInv'
  OBVIOUS
<1>1. CASE MaskNext
  BY <1>1, TripKeeps, StartReadKeeps, ReadReturnsKeeps, ReplacedKeeps, PutStepKeeps
     DEF MaskNext
<1>2. CASE UNCHANGED maskVars
  BY <1>2 DEF MaskInv, MaskTypeOK, OnePut, Covered, Remembered, ReadsSound, Known, OnItsWay,
              maskVars
<1> QED
  BY <1>1, <1>2 DEF WorkerNext, workerVars

(* Trips reach the record and stay with the isolate for any bits and any   *)
(* number of isolates, evicted ones included, whatever reads overlap them. *)
THEOREM MaskAlwaysKeepsTrips == WorkerSpec => []MaskKeepsTrips
<1>1. WorkerInit => MaskInv
  <2> SUFFICES ASSUME MaskInit PROVE MaskInv
    BY DEF WorkerInit
  <2>1. /\ \A i \in Isolate : Known(i) = {} /\ trips[i] = {} /\ reading[i] = NoRead
        /\ puts = {}
    BY DEF MaskInit, Known
  <2>2. MaskTypeOK
    BY DEF MaskInit, MaskTypeOK, PendingRead
  <2> QED
    BY <2>1, <2>2 DEF MaskInv, OnePut, Covered, Remembered, ReadsSound
<1>2. MaskInv => MaskKeepsTrips
  BY DEF MaskInv, Covered, Remembered, Known, OnItsWay, OwnPut, MaskKeepsTrips
<1> QED
  BY <1>1, <1>2, MaskInvStep, PTL DEF WorkerSpec

-----------------------------------------------------------------------------
(* The order-id claims: in a serial history over KV an id has one claim    *)
(* under way, an id that was let through is in KV, and a claim past an     *)
(* empty lookup is the first.                                              *)
ClaimRecord == [at : {"get", "put", "memory"}, isolate : Isolate, id : OrderId, found : BOOLEAN]

ClaimInv ==
  /\ claim \in [Claim -> ClaimRecord \cup {NoClaim}]
  /\ winners \in [OrderId -> Nat]
  /\ \A c \in Claim : claim[c].at = "memory" => unbound
  /\ serial /\ ~unbound =>
       /\ \A x \in OrderId : winners[x] <= 1 /\ (winners[x] # 0 => x \in kv)
       /\ \A c \in Claim : claim[c] # NoClaim =>
            /\ \A d \in Claim : claim[d] # NoClaim /\ claim[d].id = claim[c].id => c = d
            /\ ~(claim[c].at = "get" /\ claim[c].found) => winners[claim[c].id] = 0

LEMMA Shapes ==
  ASSUME NEW r \in ClaimRecord
  PROVE  r # NoClaim /\ r.at # "idle" /\ [r EXCEPT !.at = "put"] \in ClaimRecord
BY DEF ClaimRecord, NoClaim, Idle

LEMMA NoClaimShape == NoClaim.at = "idle"
BY DEF NoClaim, Idle

LEMMA ClaimStepKeeps == ASSUME ClaimInv, ClaimNext PROVE ClaimInv'
<1> USE DEF ClaimInv
<1>1. ASSUME NEW c \in Claim, NEW i \in Isolate, NEW x \in OrderId, NEW bound \in BOOLEAN,
             Begin(c, i, x, bound)
      PROVE  ClaimInv'
  <2> DEFINE r == [at |-> IF bound THEN "get" ELSE "memory", isolate |-> i, id |-> x,
                   found |-> bound /\ x \in kv]
  <2>1. /\ r \in ClaimRecord /\ claim'[c] = r
        /\ \A d \in Claim \ {c} : claim'[d] = claim[d]
        /\ claim' \in [Claim -> ClaimRecord \cup {NoClaim}]
    BY <1>1 DEF Begin, ClaimRecord
  <2>2. /\ serial' => serial /\ \A d \in Claim : claim[d] # NoClaim => claim[d].id # x
        /\ unbound' = (unbound \/ ~bound) /\ UNCHANGED <<kv, winners>>
    BY <1>1 DEF Begin, UnderWay
  <2>3. /\ r.id = x /\ r.isolate = i
        /\ ~unbound' => r.at = "get" /\ (r.found <=> x \in kv)
        /\ r.at = "memory" => unbound'
    BY <2>2
  <2> HIDE DEF r
  <2>4. \A d \in Claim : claim'[d].at = "memory" => unbound'
    BY <2>1, <2>2, <2>3
  <2>5. ASSUME serial' /\ ~unbound', NEW d \in Claim, claim'[d] # NoClaim
        PROVE  /\ \A e \in Claim : claim'[e] # NoClaim /\ claim'[e].id = claim'[d].id => d = e
               /\ ~(claim'[d].at = "get" /\ claim'[d].found) => winners'[claim'[d].id] = 0
    <3>1. /\ winners[x] # 0 => x \in kv
          /\ \A e \in Claim : claim[e] # NoClaim => claim[e].id # x
      BY <2>2, <2>5
    <3>2. CASE d = c
      BY <2>1, <2>2, <2>3, <2>5, <3>1, <3>2
    <3>3. CASE d # c
      <4>1. /\ claim'[d] = claim[d] /\ claim[d] # NoClaim /\ claim[d].id # x
            /\ serial /\ ~unbound
        BY <2>1, <2>2, <2>5, <3>1, <3>3
      <4>2. ~(claim'[d].at = "get" /\ claim'[d].found) => winners'[claim'[d].id] = 0
        BY <2>2, <4>1
      <4>3. ASSUME NEW e \in Claim, claim'[e] # NoClaim, claim'[e].id = claim'[d].id
            PROVE  d = e
        <5>1. e # c
          BY <2>1, <2>3, <4>1, <4>3
        <5> QED
          BY <2>1, <4>1, <4>3, <5>1
      <4> QED
        BY <4>2, <4>3
    <3> QED
      BY <3>2, <3>3
  <2>6. serial' /\ ~unbound' =>
          \A y \in OrderId : winners'[y] <= 1 /\ (winners'[y] # 0 => y \in kv')
    BY <2>2
  <2> QED
    BY <2>1, <2>2, <2>4, <2>5, <2>6
<1>2. ASSUME NEW c \in Claim, Lookup(c) PROVE ClaimInv'
  <2>1. claim[c] \in ClaimRecord /\ claim[c].at = "get"
    BY <1>2 DEF Lookup, NoClaim, Idle
  <2>2. /\ \A d \in Claim \ {c} : claim'[d] = claim[d]
        /\ claim'[c] = IF claim[c].found THEN NoClaim ELSE [claim[c] EXCEPT !.at = "put"]
    BY <1>2 DEF Lookup
  <2>3. claim' \in [Claim -> ClaimRecord \cup {NoClaim}]
    BY <1>2, <2>1, <2>2, Shapes DEF Lookup
  <2>4. CASE claim[c].found
    BY <1>2, <2>1, <2>2, <2>3, <2>4, NoClaimShape DEF Lookup
  <2>5. CASE ~claim[c].found
    <3>1. claim'[c].id = claim[c].id /\ claim[c] # NoClaim
      BY <2>1, <2>2, <2>5, Shapes DEF ClaimRecord
    <3> QED
      BY <1>2, <2>1, <2>2, <2>3, <2>5, <3>1 DEF Lookup
  <2> QED
    BY <2>4, <2>5
<1>3. ASSUME NEW c \in Claim, Registered(c) PROVE ClaimInv'
  <2>1. claim[c] \in ClaimRecord /\ claim[c].at = "put" /\ claim[c].id \in OrderId
    BY <1>3 DEF Registered, NoClaim, Idle, ClaimRecord
  <2>2. /\ \A d \in Claim \ {c} : claim'[d] = claim[d]
        /\ claim'[c] = NoClaim
        /\ claim' \in [Claim -> ClaimRecord \cup {NoClaim}]
    BY <1>3 DEF Registered, LetThrough
  <2>3. /\ winners' \in [OrderId -> Nat]
        /\ winners'[claim[c].id] = winners[claim[c].id] + 1
        /\ \A x \in OrderId \ {claim[c].id} : winners'[x] = winners[x]
    BY <1>3, <2>1 DEF Registered, LetThrough
  <2>4. serial /\ ~unbound => winners[claim[c].id] = 0
    BY <2>1, Shapes
  <2>5. \A d \in Claim : claim'[d] # NoClaim => d # c /\ claim'[d] = claim[d]
    BY <2>2
  <2>6. kv' = kv \cup {claim[c].id} /\ serial' = serial /\ unbound' = unbound
    BY <1>3 DEF Registered, LetThrough
  <2>7. claim[c] # NoClaim
    BY <2>1, Shapes
  <2>8. serial /\ ~unbound => \A d \in Claim : claim'[d] # NoClaim =>
                    claim[d].id \in OrderId /\ claim[d].id # claim[c].id
    BY <2>5, <2>7 DEF ClaimRecord
  <2>9. serial /\ ~unbound => \A x \in OrderId : winners'[x] <= 1 /\ (winners'[x] # 0 => x \in kv')
    BY <2>1, <2>3, <2>4, <2>6
  <2>10. serial /\ ~unbound => \A d \in Claim : claim'[d] # NoClaim =>
            /\ \A e \in Claim : claim'[e] # NoClaim /\ claim'[e].id = claim'[d].id => d = e
            /\ ~(claim'[d].at = "get" /\ claim'[d].found) => winners'[claim'[d].id] = 0
    BY <2>3, <2>5, <2>8
  <2>11. \A d \in Claim : claim'[d].at = "memory" => unbound'
    BY <2>2, <2>6 DEF NoClaim, Idle
  <2> QED
    BY <2>2, <2>3, <2>6, <2>9, <2>10, <2>11
<1>4. ASSUME NEW c \in Claim, KvThrows(c) PROVE ClaimInv'
  BY <1>4, NoClaimShape DEF KvThrows
<1>5. ASSUME NEW i \in Isolate, EvictsClaims(i) PROVE ClaimInv'
  <2>1. \A c \in Claim : claim'[c] \in {claim[c], NoClaim}
    BY <1>5 DEF EvictsClaims
  <2>2. claim' \in [Claim -> ClaimRecord \cup {NoClaim}]
    BY <1>5 DEF EvictsClaims
  <2> QED
    BY <1>5, <2>1, <2>2, NoClaimShape DEF EvictsClaims
<1>6. ASSUME NEW i \in Isolate, NEW x \in OrderId, Forgets(i, x) PROVE ClaimInv'
  BY <1>6 DEF Forgets
<1>7. ASSUME NEW x \in OrderId, DayPasses(x) PROVE ClaimInv'
  <2>1. \A c \in Claim : claim[c] # NoClaim => claim[c].id # x /\ claim[c].id \in OrderId
    BY <1>7 DEF DayPasses, UnderWay, ClaimRecord
  <2> QED
    BY <1>7, <2>1 DEF DayPasses
<1>8. ASSUME NEW c \in Claim, RegisteredInMemory(c) PROVE ClaimInv'
  <2>1. claim[c] \in ClaimRecord /\ claim[c].id \in OrderId
    BY <1>8 DEF RegisteredInMemory, NoClaim, Idle, ClaimRecord
  <2>2. unbound /\ unbound' = unbound
    BY <1>8 DEF RegisteredInMemory, LetThrough
  <2>3. claim' \in [Claim -> ClaimRecord \cup {NoClaim}]
    BY <1>8 DEF RegisteredInMemory, LetThrough
  <2>4. winners' \in [OrderId -> Nat]
    BY <1>8, <2>1 DEF RegisteredInMemory, LetThrough
  <2> QED
    BY <2>2, <2>3, <2>4
<1> QED
  BY <1>1, <1>2, <1>3, <1>4, <1>5, <1>6, <1>7, <1>8 DEF ClaimNext

LEMMA ClaimInvStep == ClaimInv /\ [WorkerNext]_workerVars => ClaimInv'
<1> SUFFICES ASSUME ClaimInv, [WorkerNext]_workerVars PROVE ClaimInv'
  OBVIOUS
<1>1. CASE ClaimNext
  BY <1>1, ClaimStepKeeps
<1>2. CASE UNCHANGED claimVars
  BY <1>2 DEF ClaimInv, claimVars
<1> QED
  BY <1>1, <1>2 DEF WorkerNext, workerVars

(* One claim of an id is let through per day, for any number of isolates   *)
(* and claims, when the claims of one id do not overlap.                   *)
THEOREM AlwaysOneWinner == WorkerSpec => []OneWinner
<1>1. WorkerInit => ClaimInv
  BY NoClaimShape DEF WorkerInit, ClaimInit, ClaimInv
<1>2. ClaimInv => OneWinner
  BY DEF ClaimInv, OneWinner
<1> QED
  BY <1>1, <1>2, ClaimInvStep, PTL DEF WorkerSpec

-----------------------------------------------------------------------------
(* The gas ledger: no copy is ahead of what was recorded; while records    *)
(* stay apart, one record at a time is between its load and its put, and   *)
(* the sum it carries is all that was recorded.                            *)
GasRecord ==
  [at : {"sent", "load", "add", "put"}, isolate : Isolate, estimate : Cost, sum : Nat]

Counted ==
  /\ ledger <= recorded /\ \A i \in Isolate : memoryLedger[i] <= recorded
  /\ \A o \in Op : op[o].at = "put" => op[o].sum <= recorded

OneRecord ==
  /\ \A o, p \in Op : Recording(o) /\ Recording(p) => o = p
  /\ (\A o \in Op : op[o].at # "put") => ledger = recorded
  /\ \A o \in Op : /\ op[o].at = "add" => memoryLedger[op[o].isolate] = ledger
                   /\ op[o].at = "put" => op[o].sum = recorded

GasTypeOK ==
  /\ ledger \in Nat /\ recorded \in Nat
  /\ memoryLedger \in [Isolate -> Nat]
  /\ op \in [Op -> GasRecord \cup {NoOp}]
  /\ apart \in BOOLEAN

GasInv == GasTypeOK /\ Counted /\ (apart => OneRecord)

LEMMA GasFields ==
  ASSUME NEW r \in GasRecord
  PROVE  r # NoOp /\ r.at # "none" /\ r.isolate \in Isolate /\ r.estimate \in Nat /\ r.sum \in Nat
BY GasAssumption DEF GasRecord, NoOp, Cost

LEMMA AtSome ==
  ASSUME GasTypeOK, NEW o \in Op, op[o].at # "none"
  PROVE  /\ op[o] \in GasRecord /\ op[o].isolate \in Isolate
         /\ op[o].estimate \in Nat /\ op[o].sum \in Nat
<1>1. op[o] \in GasRecord
  BY DEF GasTypeOK, NoOp
<1> QED
  BY <1>1, GasFields

LEMMA OpMoves ==
  ASSUME GasTypeOK, NEW o \in Op, NEW r \in GasRecord \cup {NoOp}, op' = [op EXCEPT ![o] = r]
  PROVE  /\ op' \in [Op -> GasRecord \cup {NoOp}] /\ op'[o] = r
         /\ \A p \in Op \ {o} : op'[p] = op[p]
BY DEF GasTypeOK

(* What the steps before the record and the load of the gate leave alone.  *)
LEMMA BeforeRecordKeeps ==
  ASSUME GasInv, NEW o \in Op, NEW i \in Isolate, NEW estimate \in Cost,
         Send(o, i, estimate) \/ Unrecorded(o)
  PROVE  GasInv'
<1> DEFINE r == [at |-> "sent", isolate |-> i, estimate |-> estimate, sum |-> 0]
<1>1. r \in GasRecord
  BY GasAssumption DEF GasRecord, Cost
<1>2. /\ op' = [op EXCEPT ![o] = r] \/ op' = [op EXCEPT ![o] = NoOp]
      /\ UNCHANGED <<ledger, memoryLedger, recorded, apart>>
      /\ ~Recording(o)
  BY DEF Send, Unrecorded, Recording, NoOp
<1>3. /\ op' \in [Op -> GasRecord \cup {NoOp}] /\ op'[o].at \in {"sent", "none"}
      /\ \A p \in Op \ {o} : op'[p] = op[p]
  BY <1>1, <1>2 DEF GasInv, GasTypeOK, NoOp
<1>4. GasTypeOK'
  BY <1>1, <1>2, <1>3 DEF GasInv, GasTypeOK
<1>5. Counted'
  BY <1>2, <1>3 DEF GasInv, Counted
<1>6. ASSUME apart' PROVE OneRecord'
  BY <1>2, <1>3, <1>6 DEF GasInv, OneRecord, Recording
<1> QED
  BY <1>4, <1>5, <1>6 DEF GasInv

LEMMA GateLoadsKeeps == ASSUME GasInv, NEW i \in Isolate, GateLoads(i) PROVE GasInv'
<1>1. /\ memoryLedger' = [memoryLedger EXCEPT ![i] = ledger]
      /\ UNCHANGED <<ledger, op, recorded, apart>>
  BY DEF GateLoads, Load
<1>2. GasTypeOK'
  BY <1>1 DEF GasInv, GasTypeOK
<1>3. Counted'
  BY <1>1 DEF GasInv, GasTypeOK, Counted
<1>4. ASSUME apart' PROVE OneRecord'
  <2>1. OneRecord
    BY <1>1, <1>4 DEF GasInv
  <2>2. \A h \in Isolate : memoryLedger'[h] = ledger \/ memoryLedger'[h] = memoryLedger[h]
    BY <1>1 DEF GasInv, GasTypeOK
  <2>3. \A o \in Op : op[o].at = "add" => op[o].isolate \in Isolate
    BY AtSome DEF GasInv
  <2> QED
    BY <1>1, <2>1, <2>2, <2>3 DEF OneRecord, Recording
<1> QED
  BY <1>2, <1>3, <1>4 DEF GasInv

(* A receipt starts a record, or is counted in memory alone.               *)
LEMMA ReceiptKeeps ==
  ASSUME GasInv, NEW o \in Op, Receipt(o)
  PROVE  GasInv'
<1> DEFINE r == [op[o] EXCEPT !.at = "load"]
<1>1. op[o].at = "sent"
  BY DEF Receipt
<1>2. r \in GasRecord /\ r.at = "load"
  <2>1. op[o] \in GasRecord
    BY <1>1, AtSome DEF GasInv
  <2> QED
    BY <2>1 DEF GasRecord
<1>3. /\ UNCHANGED <<ledger, memoryLedger, recorded>>
      /\ apart' = (apart /\ ~\E p \in Op : Recording(p))
      /\ op' = [op EXCEPT ![o] = r]
  BY DEF Receipt
<1> HIDE DEF r
<1>4. /\ op' \in [Op -> GasRecord \cup {NoOp}] /\ op'[o] = r
      /\ \A p \in Op \ {o} : op'[p] = op[p]
  BY <1>2, <1>3, OpMoves DEF GasInv
<1>5. GasTypeOK'
  BY <1>1, <1>3, <1>4 DEF GasInv, GasTypeOK
<1>6. Counted'
  BY <1>2, <1>3, <1>4 DEF GasInv, Counted
<1>7. ASSUME apart' PROVE OneRecord'
  BY <1>2, <1>3, <1>4, <1>7 DEF GasInv, OneRecord, Recording
<1> QED
  BY <1>5, <1>6, <1>7 DEF GasInv

LEMMA ReceiptInMemoryKeeps ==
  ASSUME GasInv, NEW o \in Op, ReceiptInMemory(o) PROVE GasInv'
<1> DEFINE i == op[o].isolate
<1>1. op[o].at = "sent"
  BY DEF ReceiptInMemory
<1>2. i \in Isolate /\ op[o].estimate \in Nat
  BY <1>1, AtSome DEF GasInv
<1>3. /\ apart' = FALSE /\ ledger' = ledger
      /\ memoryLedger' = [memoryLedger EXCEPT ![i] = @ + op[o].estimate]
      /\ recorded' = recorded + op[o].estimate
      /\ op' = [op EXCEPT ![o] = NoOp]
  BY DEF ReceiptInMemory, Spend
<1> HIDE DEF i
<1>4. /\ op' \in [Op -> GasRecord \cup {NoOp}] /\ op'[o] = NoOp
      /\ \A p \in Op \ {o} : op'[p] = op[p]
  BY <1>3, OpMoves DEF GasInv
<1>5. GasTypeOK'
  <2>1. ledger \in Nat /\ recorded \in Nat /\ memoryLedger \in [Isolate -> Nat]
    BY DEF GasInv, GasTypeOK
  <2>2. memoryLedger' \in [Isolate -> Nat]
    BY <1>2, <1>3, <2>1
  <2>3. recorded' \in Nat
    BY <1>2, <1>3, <2>1
  <2>4. ledger' \in Nat /\ apart' \in BOOLEAN
    BY <1>3, <2>1
  <2> QED
    BY <1>4, <2>2, <2>3, <2>4 DEF GasTypeOK
<1>6. Counted'
  <2>1. ledger <= recorded' /\ \A h \in Isolate : memoryLedger'[h] <= recorded'
    BY <1>2, <1>3 DEF GasInv, GasTypeOK, Counted
  <2>2. ASSUME NEW p \in Op, op'[p].at = "put" PROVE op'[p].sum <= recorded'
    <3>1. p # o
      BY <1>4, <2>2 DEF NoOp
    <3>2. op'[p] = op[p]
      BY <1>4, <3>1
    <3>3. op[p].sum \in Nat /\ op[p].sum <= recorded /\ recorded \in Nat
      BY <2>2, <3>2, AtSome DEF GasInv, Counted, GasTypeOK
    <3> QED
      BY <1>2, <1>3, <3>2, <3>3
  <2> QED
    BY <1>3, <2>1, <2>2 DEF Counted
<1> QED
  BY <1>3, <1>5, <1>6 DEF GasInv

LEMMA ReloadKeeps ==
  ASSUME GasInv, NEW o \in Op, NEW found \in BOOLEAN, Reload(o, found)
  PROVE  GasInv'
<1> DEFINE i == op[o].isolate
           r == [op[o] EXCEPT !.at = "add"]
<1>1. op[o].at = "load" /\ i \in Isolate /\ r \in GasRecord /\ r.at = "add" /\ r.isolate = i
  <2>1. op[o].at = "load"
    BY DEF Reload
  <2>2. op[o] \in GasRecord /\ i \in Isolate
    BY <2>1, AtSome DEF GasInv
  <2> QED
    BY <2>1, <2>2 DEF GasRecord
<1>2. /\ memoryLedger' = [memoryLedger EXCEPT ![i] = IF found THEN ledger ELSE @]
      /\ apart' = (apart /\ memoryLedger'[i] = ledger)
      /\ UNCHANGED <<ledger, recorded>>
      /\ op' = [op EXCEPT ![o] = r]
  BY DEF Reload, Load
<1> HIDE DEF r
<1>3. /\ op' \in [Op -> GasRecord \cup {NoOp}] /\ op'[o].at = "add" /\ op'[o].isolate = i
      /\ \A p \in Op \ {o} : op'[p] = op[p]
  BY <1>1, <1>2, OpMoves DEF GasInv
<1>4. GasTypeOK'
  BY <1>1, <1>2, <1>3 DEF GasInv, GasTypeOK
<1>5. Counted'
  BY <1>1, <1>2, <1>3 DEF GasInv, GasTypeOK, Counted
<1>6. ASSUME apart' PROVE OneRecord'
  BY <1>1, <1>2, <1>3, <1>6 DEF GasInv, OneRecord, Recording
<1> QED
  BY <1>4, <1>5, <1>6 DEF GasInv

LEMMA AddKeeps == ASSUME GasInv, NEW o \in Op, Add(o) PROVE GasInv'
<1> DEFINE i == op[o].isolate
           sum == memoryLedger[i] + op[o].estimate
           r == [op[o] EXCEPT !.at = "put", !.sum = sum]
<1>1. op[o] \in GasRecord /\ op[o].at = "add" /\ i \in Isolate /\ op[o].estimate \in Nat
  <2>1. op[o].at = "add"
    BY DEF Add
  <2> QED
    BY <2>1, AtSome DEF GasInv
<1>2. memoryLedger[i] \in Nat /\ sum \in Nat /\ recorded \in Nat
  BY <1>1 DEF GasInv, GasTypeOK
<1>3. /\ memoryLedger' = [memoryLedger EXCEPT ![i] = sum]
      /\ memoryLedger'[i] = sum
      /\ recorded' = recorded + op[o].estimate
      /\ UNCHANGED <<ledger, apart>>
  BY <1>1 DEF Add, Spend, GasInv, GasTypeOK
<1>4. op' = [op EXCEPT ![o] = r]
  BY <1>3 DEF Add
<1> HIDE DEF sum
<1>5. r \in GasRecord /\ r.at = "put" /\ r.sum = sum
  BY <1>1, <1>2 DEF GasRecord
<1> HIDE DEF r
<1>6. /\ op' \in [Op -> GasRecord \cup {NoOp}] /\ op'[o].at = "put" /\ op'[o].sum = sum
      /\ \A p \in Op \ {o} : op'[p] = op[p]
  BY <1>4, <1>5, OpMoves DEF GasInv
<1> USE DEF sum
<1>7. GasTypeOK'
  BY <1>1, <1>2, <1>3, <1>6 DEF GasInv, GasTypeOK
<1>8. Counted'
  <2>1. sum <= recorded'
    BY <1>1, <1>2, <1>3 DEF GasInv, Counted
  <2>2. ASSUME NEW p \in Op, p # o, op[p].at = "put" PROVE op[p].sum <= recorded'
    <3>1. op[p].sum \in Nat /\ op[p].sum <= recorded
      BY <2>2, AtSome DEF GasInv, Counted
    <3> QED
      BY <1>1, <1>2, <1>3, <3>1
  <2>3. ledger <= recorded' /\ \A h \in Isolate : memoryLedger'[h] <= recorded'
    BY <1>1, <1>2, <1>3, <2>1 DEF GasInv, GasTypeOK, Counted
  <2> QED
    BY <1>3, <1>6, <2>1, <2>2, <2>3 DEF Counted
<1>9. ASSUME apart' PROVE OneRecord'
  <2>1. OneRecord
    BY <1>3, <1>9 DEF GasInv
  <2>2. \A p \in Op \ {o} : ~Recording(p)
    BY <1>1, <2>1 DEF OneRecord, Recording
  <2>3. sum = recorded'
    BY <1>1, <1>3, <2>1, <2>2 DEF OneRecord, Recording
  <2> QED
    BY <1>6, <2>2, <2>3 DEF OneRecord, Recording
<1> QED
  BY <1>7, <1>8, <1>9 DEF GasInv

LEMMA PutKeeps ==
  ASSUME GasInv, NEW o \in Op, NEW done \in BOOLEAN, Put(o, done)
  PROVE  GasInv'
<1>1. op[o] \in GasRecord /\ op[o].at = "put" /\ op[o].sum \in Nat
  <2>1. op[o].at = "put"
    BY DEF Put
  <2> QED
    BY <2>1, AtSome DEF GasInv
<1>2. /\ ledger' = IF done THEN op[o].sum ELSE ledger
      /\ apart' = (apart /\ done) /\ UNCHANGED <<memoryLedger, recorded>>
      /\ op' = [op EXCEPT ![o] = NoOp]
  BY DEF Put
<1>3. /\ op' \in [Op -> GasRecord \cup {NoOp}] /\ op'[o].at = "none"
      /\ \A p \in Op \ {o} : op'[p] = op[p]
  BY <1>2 DEF GasInv, GasTypeOK, NoOp
<1>4. GasTypeOK'
  BY <1>1, <1>2, <1>3 DEF GasInv, GasTypeOK
<1>5. Counted'
  BY <1>1, <1>2, <1>3 DEF GasInv, Counted
<1>6. ASSUME apart' PROVE OneRecord'
  BY <1>1, <1>2, <1>3, <1>6 DEF GasInv, OneRecord, Recording
<1> QED
  BY <1>4, <1>5, <1>6 DEF GasInv

LEMMA WindowClosesKeeps == ASSUME GasInv, WindowCloses PROVE GasInv'
<1>1. /\ ledger' = 0 /\ memoryLedger' = [i \in Isolate |-> 0] /\ recorded' = 0
      /\ apart' = (apart \/ \A o \in Op : ~Recording(o))
      /\ op' = [o \in Op |-> IF op[o] = NoOp THEN NoOp ELSE [op[o] EXCEPT !.sum = 0]]
  BY DEF WindowCloses
<1>2. ASSUME NEW o \in Op
      PROVE  /\ op'[o] \in GasRecord \cup {NoOp} /\ op'[o].at = op[o].at
             /\ op[o].at \in {"add", "put"} => /\ op'[o].isolate = op[o].isolate
                                              /\ op'[o].isolate \in Isolate
                                              /\ op'[o].sum = 0
  <2>1. CASE op[o] = NoOp
    BY <1>1, <2>1 DEF NoOp
  <2>2. CASE op[o] # NoOp
    <3>1. op[o] \in GasRecord /\ op'[o] = [op[o] EXCEPT !.sum = 0]
      BY <1>1, <2>2 DEF GasInv, GasTypeOK
    <3>2. [op[o] EXCEPT !.sum = 0] \in GasRecord
      BY <3>1 DEF GasRecord
    <3> QED
      BY <3>1, <3>2 DEF GasRecord
  <2> QED
    BY <2>1, <2>2
<1>3. GasTypeOK'
  BY <1>1, <1>2 DEF GasInv, GasTypeOK
<1>4. Counted'
  <2>1. recorded' = 0 /\ ledger' = 0 /\ \A i \in Isolate : memoryLedger'[i] = 0
    BY <1>1
  <2>2. \A o \in Op : op'[o].at = "put" => op'[o].sum = 0
    BY <1>2
  <2> QED
    BY <2>1, <2>2 DEF Counted
<1>5. ASSUME apart' PROVE OneRecord'
  BY <1>1, <1>2, <1>5 DEF GasInv, OneRecord, Recording
<1> QED
  BY <1>3, <1>4, <1>5 DEF GasInv

LEMMA GasInvStep == GasInv /\ [WorkerNext]_workerVars => GasInv'
<1> SUFFICES ASSUME GasInv, [WorkerNext]_workerVars PROVE GasInv'
  OBVIOUS
<1>1. CASE GasNext
  <2>1. 1 \in Cost
    BY GasAssumption DEF Cost
  <2>2. ASSUME NEW o \in Op, Unrecorded(o) PROVE GasInv'
    <3>1. op[o].isolate \in Isolate
      BY <2>2, AtSome DEF GasInv, Unrecorded
    <3> QED
      BY <2>1, <2>2, <3>1, BeforeRecordKeeps
  <2> QED
    BY <1>1, <2>1, <2>2, BeforeRecordKeeps, GateLoadsKeeps, ReceiptKeeps,
       ReceiptInMemoryKeeps, ReloadKeeps,
       AddKeeps, PutKeeps, WindowClosesKeeps DEF GasNext
<1>2. CASE UNCHANGED gasVars
  BY <1>2 DEF GasInv, GasTypeOK, Counted, OneRecord, Recording, gasVars
<1> QED
  BY <1>1, <1>2 DEF WorkerNext, workerVars

(* No estimate is counted twice, however the records of the isolates       *)
(* interleave, and those that stay apart are all counted, for any costs    *)
(* and number of isolates and operations.                                  *)
THEOREM LedgerAlwaysAddsUp == WorkerSpec => []LedgerAddsUp
<1>1. WorkerInit => GasInv
  BY DEF WorkerInit, GasInit, GasInv, GasTypeOK, Counted, OneRecord, Recording, NoOp
<1>2. GasInv => LedgerAddsUp
  BY DEF GasInv, Counted, OneRecord, LedgerAddsUp
<1> QED
  BY <1>1, <1>2, GasInvStep, PTL DEF WorkerSpec

-----------------------------------------------------------------------------
(* The attempt budgets: every call let through is counted as an attempt.   *)
SlotRecord == [attempts : Nat, flags : SUBSET {"sever", "drift"}]

RingInv ==
  /\ ring \in [Slot -> SlotRecord]
  /\ granted \in [Slot -> [Limit -> Nat]]
  /\ \A s \in Slot, m \in Limit : granted[s][m] <= m /\ granted[s][m] <= ring[s].attempts

(* One attempt more, let through or not.                                   *)
LEMMA AttemptKeeps ==
  ASSUME RingInv, NEW s \in Slot, NEW max \in Limit, NEW after \in SlotRecord,
         ring' = [ring EXCEPT ![s] = after],
         after.attempts >= ring[s].attempts,
         \/ granted' = granted
         \/ /\ granted' = [granted EXCEPT ![s][max] = @ + 1]
            /\ after.attempts = ring[s].attempts + 1 /\ ~Over(ring[s], max)
  PROVE  RingInv'
<1>1. /\ ring'[s] = after /\ ring' \in [Slot -> SlotRecord]
      /\ \A t \in Slot \ {s} : ring'[t] = ring[t]
  BY DEF RingInv
<1>2. ring[s].attempts \in Nat /\ after.attempts \in Nat /\ \A m \in Limit : m \in Nat
  BY RingAssumption DEF RingInv, SlotRecord
<1>3. CASE granted' = granted
  BY <1>1, <1>2, <1>3 DEF RingInv
<1>4. CASE /\ granted' = [granted EXCEPT ![s][max] = @ + 1]
           /\ after.attempts = ring[s].attempts + 1 /\ ~Over(ring[s], max)
  <2>1. /\ granted' \in [Slot -> [Limit -> Nat]]
        /\ granted'[s][max] = granted[s][max] + 1
        /\ \A t \in Slot, m \in Limit : t # s \/ m # max => granted'[t][m] = granted[t][m]
    BY <1>4 DEF RingInv
  <2>2. ring[s].attempts + 1 <= max
    BY <1>2, <1>4 DEF Over
  <2>3. granted[s][max] \in Nat /\ granted[s][max] <= ring[s].attempts
    BY DEF RingInv
  <2> QED
    BY <1>1, <1>2, <1>4, <2>1, <2>2, <2>3 DEF RingInv
<1> QED
  BY <1>3, <1>4

LEMMA GateOutcome ==
  ASSUME NEW slot \in SlotRecord, NEW max \in Limit, NEW drift \in BOOLEAN
  PROVE  /\ Tracked(slot, max) \in SlotRecord /\ Gate(slot, drift, max) \in SlotRecord
         /\ slot.attempts \in Nat
         /\ Tracked(slot, max).attempts = slot.attempts + 1
         /\ Gate(slot, drift, max).attempts = IF drift THEN slot.attempts ELSE slot.attempts + 1
         /\ Gate(slot, drift, max).flags = {} => ~drift /\ ~Over(slot, max)
<1>1. slot.attempts \in Nat /\ slot.flags \in SUBSET {"sever", "drift"}
  BY DEF SlotRecord
<1>2. /\ Tracked(slot, max) \in SlotRecord
      /\ Tracked(slot, max).attempts = slot.attempts + 1
      /\ Tracked(slot, max).flags = {} => ~Over(slot, max)
  BY <1>1 DEF Tracked, SlotRecord
<1>3. CASE drift
  BY <1>1, <1>2, <1>3 DEF Gate, SlotRecord
<1>4. CASE ~drift
  BY <1>1, <1>2, <1>4 DEF Gate
<1> QED
  BY <1>1, <1>2, <1>3, <1>4

LEMMA RingStepKeeps == ASSUME RingInv, RingNext PROVE RingInv'
<1>1. CASE RingEvicted
  <2>1. Fresh \in SlotRecord /\ \A m \in Limit : m \in Nat
    BY RingAssumption DEF SlotRecord, Fresh
  <2>2. /\ ring' = [s \in Slot |-> Fresh] /\ granted' = [s \in Slot |-> [m \in Limit |-> 0]]
    BY <1>1 DEF RingEvicted
  <2>3. Fresh.attempts = 0
    BY DEF Fresh
  <2> QED
    BY <2>1, <2>2, <2>3 DEF RingInv
<1> SUFFICES ASSUME ~RingEvicted PROVE RingInv'
  BY <1>1
<1> PICK s \in Slot : \/ \E mismatch \in BOOLEAN : Mandate(s, mismatch)
                     \/ SigningReopened
                     \/ Roll(s)
                     \/ \E drift \in BOOLEAN, max \in RetailLimit :
                          RetailTs(s, drift, max) \/ RetailWasm(s, drift, max)
  BY DEF RingNext
<1>2. ring[s] \in SlotRecord /\ ring[s].attempts \in Nat /\ DefaultLimit \in Limit
  BY DEF RingInv, SlotRecord, Limit
<1>3. CASE /\ ring' = [ring EXCEPT ![s] = Tracked(@, DefaultLimit)]
           /\ Grant(s, DefaultLimit, ~Over(ring[s], DefaultLimit))
  <2> DEFINE after == Tracked(ring[s], DefaultLimit)
  <2>1. after \in SlotRecord /\ after.attempts = ring[s].attempts + 1
    BY <1>2, GateOutcome
  <2>2. ring' = [ring EXCEPT ![s] = after]
    BY <1>3
  <2>3. \/ granted' = granted
        \/ /\ granted' = [granted EXCEPT ![s][DefaultLimit] = @ + 1]
           /\ ~Over(ring[s], DefaultLimit)
    BY <1>3 DEF Grant
  <2> HIDE DEF after
  <2>4. after.attempts >= ring[s].attempts
    BY <1>2, <2>1
  <2> QED
    BY <1>2, <2>1, <2>2, <2>3, <2>4, AttemptKeeps
<1>4. ASSUME NEW mismatch \in BOOLEAN, Mandate(s, mismatch) PROVE RingInv'
  BY <1>3, <1>4 DEF Mandate, RingInv
<1>5. CASE SigningReopened
  BY <1>5 DEF SigningReopened, RingInv
<1>6. CASE Roll(s)
  BY <1>3, <1>6 DEF Roll
<1>7. ASSUME NEW drift \in BOOLEAN, NEW max \in RetailLimit,
             RetailTs(s, drift, max) \/ RetailWasm(s, drift, max)
      PROVE  RingInv'
  <2> DEFINE after == Gate(ring[s], drift, max)
  <2>1. max \in Limit
    BY DEF Limit
  <2>2. /\ after \in SlotRecord
        /\ after.attempts = IF drift THEN ring[s].attempts ELSE ring[s].attempts + 1
        /\ after.flags = {} => ~drift /\ ~Over(ring[s], max)
    BY <1>2, <2>1, GateOutcome
  <2>3. ring' = [ring EXCEPT ![s] = after]
    BY <1>7 DEF RetailTs, RetailWasm
  <2>4. \/ granted' = granted
        \/ /\ granted' = [granted EXCEPT ![s][max] = @ + 1]
           /\ ~drift /\ ~Over(ring[s], max)
    BY <1>7, <2>2 DEF RetailTs, RetailWasm, Grant
  <2> HIDE DEF after
  <2>5. after.attempts >= ring[s].attempts /\ (~drift => after.attempts = ring[s].attempts + 1)
    BY <1>2, <2>2
  <2> QED
    BY <2>1, <2>2, <2>3, <2>4, <2>5, AttemptKeeps
<1> QED
  BY <1>4, <1>5, <1>6, <1>7

LEMMA RingInvStep == RingInv /\ [WorkerNext]_workerVars => RingInv'
<1> SUFFICES ASSUME RingInv, [WorkerNext]_workerVars PROVE RingInv'
  OBVIOUS
<1>1. CASE RingNext
  BY <1>1, RingStepKeeps
<1>2. CASE UNCHANGED ringVars
  BY <1>2 DEF RingInv, ringVars
<1> QED
  BY <1>1, <1>2 DEF WorkerNext, workerVars

(* A budget of n attempts lets n calls through at most, for any limits and *)
(* any keys that share a slot.                                             *)
THEOREM BudgetAlwaysHolds == WorkerSpec => []BudgetHolds
<1>1. WorkerInit => RingInv
  BY RingAssumption DEF WorkerInit, RingInit, RingInv, SlotRecord, Fresh, Limit
<1>2. RingInv => BudgetHolds
  BY DEF RingInv, BudgetHolds
<1> QED
  BY <1>1, <1>2, RingInvStep, PTL DEF WorkerSpec

-----------------------------------------------------------------------------
(* The chase: which order may rest is told by what the runner does, and it *)
(* is the one whose id the runner has, unless an order is unnamed.         *)
ChaseTypeOK ==
  /\ attempt \in Attempt /\ lastOid \in Attempt \cup {NoOid} /\ unnamed \in BOOLEAN
  /\ at \in {"cancel", "submit", "ask", "sleep", "done"}
  /\ open \in [Attempt -> Nat]
  /\ at = "sleep" => attempt < MaxAttempts

ChaseInv ==
  /\ ChaseTypeOK
  /\ ~unnamed =>
       /\ at \in {"cancel", "sleep"} => \A b \in Attempt : open[b] > 0 => b = lastOid
       /\ at = "submit" => \A b \in Attempt : open[b] = 0
       /\ at = "ask" => \A b \in Attempt : open[b] > 0 => b = attempt /\ b = lastOid
       /\ at = "done" => \A a, b \in Attempt : open[a] > 0 /\ open[b] > 0 => a = b

LEMMA CancelKeeps == ASSUME ChaseInv, Cancel PROVE ChaseInv'
<1> USE DEF ChaseInv, ChaseTypeOK
<1>1. at = "cancel" /\ at' \in {"submit", "done"} /\ UNCHANGED <<attempt, lastOid, unnamed>>
  BY DEF Cancel
<1>2. CASE lastOid = NoOid /\ UNCHANGED open
  BY <1>1, <1>2 DEF NoOid, Attempt
<1>3. CASE lastOid # NoOid /\ open' = [open EXCEPT ![lastOid] = 0]
  <2>1. lastOid \in Attempt
    BY <1>3
  <2>2. /\ open' \in [Attempt -> Nat]
        /\ \A b \in Attempt : open'[b] = IF b = lastOid THEN 0 ELSE open[b]
    BY <1>3, <2>1
  <2> QED
    BY <1>1, <2>2
<1>4. CASE lastOid # NoOid /\ at' = "done" /\ UNCHANGED open
  BY <1>1, <1>4
<1> QED
  BY <1>2, <1>3, <1>4 DEF Cancel

LEMMA SubmitKeeps == ASSUME ChaseInv, Submit PROVE ChaseInv'
<1> USE DEF ChaseInv, ChaseTypeOK
<1> PICK rests \in BOOLEAN, oid \in {attempt, NoOid}, answered \in BOOLEAN :
       /\ open' = [open EXCEPT ![attempt] = IF rests THEN Size ELSE 0]
       /\ at' = IF answered THEN "ask" ELSE "done"
       /\ lastOid' = IF answered THEN oid ELSE lastOid
       /\ unnamed' = (unnamed \/ (rests /\ answered /\ oid = NoOid))
  BY DEF Submit
<1>1. /\ open' \in [Attempt -> Nat]
      /\ \A b \in Attempt : b # attempt => open'[b] = open[b]
      /\ open'[attempt] = IF rests THEN Size ELSE 0
  BY ChaseAssumption
<1>2. at = "submit" /\ attempt' = attempt
  BY DEF Submit
<1>3. CASE answered
  BY <1>1, <1>2, <1>3
<1>4. CASE ~answered
  BY <1>1, <1>2, <1>4
<1> QED
  BY <1>3, <1>4

LEMMA ChaseStepKeeps == ASSUME ChaseInv, ChaseNext PROVE ChaseInv'
<1> USE DEF ChaseInv, ChaseTypeOK
<1>1. CASE Ask
  <2>1. CASE at' = "done"
    BY <1>1, <2>1 DEF Ask
  <2>2. CASE at' = "sleep" /\ attempt < MaxAttempts
    BY <1>1, <2>2 DEF Ask
  <2> QED
    BY <1>1, <2>1, <2>2 DEF Ask
<1>2. CASE WakeUp
  BY <1>2, ChaseAssumption DEF WakeUp, Attempt
<1>3. ASSUME NEW a \in Attempt, Fills(a) PROVE ChaseInv'
  <2>1. /\ open' \in [Attempt -> Nat]
        /\ \A b \in Attempt : open'[b] > 0 => open[b] > 0
    BY <1>3 DEF Fills
  <2>2. UNCHANGED <<attempt, at, lastOid, unnamed>>
    BY <1>3 DEF Fills
  <2>3. ~unnamed /\ at = "submit" => FALSE
    BY <1>3 DEF Fills
  <2> QED
    BY <2>1, <2>2, <2>3
<1> QED
  BY <1>1, <1>2, <1>3, CancelKeeps, SubmitKeeps DEF ChaseNext

LEMMA ChaseInvStep == ChaseInv /\ [WorkerNext]_workerVars => ChaseInv'
<1> SUFFICES ASSUME ChaseInv, [WorkerNext]_workerVars PROVE ChaseInv'
  OBVIOUS
<1>1. CASE ChaseNext
  BY <1>1, ChaseStepKeeps
<1>2. CASE UNCHANGED chaseVars
  BY <1>2 DEF ChaseInv, ChaseTypeOK, chaseVars
<1> QED
  BY <1>1, <1>2 DEF WorkerNext, workerVars

(* The lots of one order of a chase are exposed at most, wherever the      *)
(* chase ends and whatever fills in between, for any number of attempts.   *)
THEOREM AlwaysOneOrderOut == WorkerSpec => []OneOrderOut
<1>1. WorkerInit => ChaseInv
  <2>1. 1 \in Attempt
    BY ChaseAssumption DEF Attempt
  <2> SUFFICES ASSUME ChaseInit PROVE ChaseInv
    BY DEF WorkerInit
  <2>2. open \in [Attempt -> Nat] /\ \A b \in Attempt : open[b] = 0
    BY DEF ChaseInit
  <2>3. ChaseTypeOK
    BY <2>1, <2>2 DEF ChaseInit, ChaseTypeOK
  <2>4. at = "cancel" /\ \A b \in Attempt : ~(open[b] > 0)
    BY <2>2 DEF ChaseInit
  <2> QED
    BY <2>3, <2>4 DEF ChaseInv
<1>2. ChaseInv => OneOrderOut
  BY DEF ChaseInv, ChaseTypeOK, OneOrderOut
<1> QED
  BY <1>1, <1>2, ChaseInvStep, PTL DEF WorkerSpec
=============================================================================
