--------------------------- MODULE HedgeCronProofs ---------------------------
(***************************************************************************)
(* The safety of the hedge for any number of ticks and any sizes.          *)
(*                                                                         *)
(* What is short and pledged stays within one delta more than the faults   *)
(* so far, and a lift (PledgeBounded).  A tick sizes its order on a read   *)
(* of the short, so its step is safe for one of two reasons: the read      *)
(* failed, which was a fault, or it is what is short, and the orders of    *)
(* the other ticks are at most a delta each, every one of them paid for    *)
(* when it began beside another tick (OverlapsPaid).  As long as nothing   *)
(* went wrong there is one tick, which knows the short (Undisturbed).      *)
(*                                                                         *)
(* A sum over the ticks is the cardinality of the pairs of a tick and a    *)
(* dollar of its order (Units).                                            *)
(***************************************************************************)
EXTENDS HedgeCron, FiniteSetTheorems, TLAPS

Stages == {"idle", "probeDelta", "probeShort", "soil", "delta", "short", "checks", "posted"}

TickRecords ==
  [at : Stages, warm : BOOLEAN, unwind : BOOLEAN, delta : 0..MaxDelta, short : Nat, order : Nat]

HedgeTypeOK ==
  /\ delta \in 0..MaxDelta /\ short \in Nat /\ loaded \in BOOLEAN
  /\ tick \in [Tick -> TickRecords]
  /\ faults \in 0..MaxFaults /\ moves \in 0..MaxMoves

Active == {t \in Tick : Running(t)}
Used == MaxFaults - faults

(* Every tick that runs beside another one cost a fault when it began.     *)
OverlapsPaid == Cardinality(Active) <= 1 + Used

Lifted(size) == IF size < MinOrder THEN MinOrder ELSE size

Pledged(t) == IF tick[t].at \in {"checks", "posted"} /\ ~tick[t].unwind
                THEN Lifted(tick[t].order) ELSE 0
Pledge == [t \in Tick |-> Pledged(t)]

(* A sale is sized within the delta.                                       *)
SaleSized(t) ==
  /\ tick[t].at \in {"checks", "posted"} /\ ~tick[t].unwind => tick[t].order <= MaxDelta
  /\ tick[t].at = "posted" => tick[t].order >= MinOrder

Units(f) == UNION {{t} \X (1..f[t]) : t \in Tick}

PledgeBounded == short + Cardinality(Units(Pledge)) <= (1 + Used) * MaxDelta + MinOrder - 1

(* What an order that takes the short to the delta is sized to.            *)
Missing(unwind, long, held) == IF unwind THEN held - long ELSE long - held

(* With no fault so far the one tick that runs has sized its order on the  *)
(* short as it is.                                                         *)
Gauged(t) ==
  LET size == Missing(tick[t].unwind, tick[t].delta, short)
  IN /\ tick[t].at \in {"checks", "posted"} => size > 0
     /\ tick[t].at = "checks" => tick[t].order = size
     /\ tick[t].at = "posted" => tick[t].order = Lifted(size)

Undisturbed ==
  faults = MaxFaults =>
    /\ \A t, u \in Tick : Running(t) /\ Running(u) => t = u
    /\ \A t \in Tick : Gauged(t)

HedgeInv ==
  /\ HedgeTypeOK
  /\ OverlapsPaid
  /\ \A t \in Tick : SaleSized(t)
  /\ PledgeBounded
  /\ Undisturbed

-----------------------------------------------------------------------------
(* Arithmetic.                                                             *)
LEMMA MaxOfTwo ==
  ASSUME NEW a \in Int, NEW b \in Int
  PROVE  Max({a, b}) = IF a >= b THEN a ELSE b
<1>1. PICK m \in {a, b} : \A y \in {a, b} : m >= y
  OBVIOUS
<1>2. /\ Max({a, b}) \in {a, b}
      /\ \A y \in {a, b} : Max({a, b}) >= y
  BY <1>1 DEF Max
<1> QED
  BY <1>2

LEMMA TimesSplits ==
  ASSUME NEW k \in Nat, NEW m \in Nat
  PROVE  (1 + k) * m = m + k * m /\ k * m \in Nat
OBVIOUS

LEMMA TimesMonotone ==
  ASSUME NEW k \in Nat, NEW l \in Nat, NEW m \in Nat, k <= l
  PROVE  k * m <= l * m
<1>1. PICK d \in Nat : l = k + d
  <2>1. l - k \in Nat /\ l = k + (l - k)
    OBVIOUS
  <2> QED
    BY <2>1
<1>2. l * m = k * m + d * m /\ k * m \in Nat /\ d * m \in Nat
  BY <1>1
<1> QED
  BY <1>2

-----------------------------------------------------------------------------
(* The dollars of all ticks, counted: sums of orders as cardinalities.     *)
Sizes(m) == [Tick -> 0..m]

LEMMA UnitsFinite ==
  ASSUME NEW m \in Nat, NEW f \in Sizes(m)
  PROVE  IsFiniteSet(Units(f)) /\ Cardinality(Units(f)) \in Nat
<1>1. IsFiniteSet(Tick) /\ IsFiniteSet(1..m)
  BY HedgeAssumption, FS_Interval
<1>2. IsFiniteSet(Tick \X (1..m))
  BY <1>1, FS_Product
<1>3. Units(f) \subseteq Tick \X (1..m)
  BY DEF Units, Sizes
<1> QED
  BY <1>2, <1>3, FS_Subset, FS_CardinalityType

(* Smaller orders, smaller total.                                          *)
LEMMA UnitsMonotone ==
  ASSUME NEW m \in Nat, NEW f \in Sizes(m), NEW g \in Sizes(m), \A t \in Tick : f[t] <= g[t]
  PROVE  Cardinality(Units(f)) <= Cardinality(Units(g))
<1>1. Units(f) \subseteq Units(g)
  <2> SUFFICES ASSUME NEW t \in Tick, NEW n \in 1..f[t] PROVE <<t, n>> \in Units(g)
    BY DEF Units
  <2>1. n \in 1..g[t]
    BY DEF Sizes
  <2> QED
    BY <2>1 DEF Units
<1> QED
  BY <1>1, UnitsFinite, FS_Subset

(* A tick that had none adds its order to the total.                       *)
LEMMA UnitsAdd ==
  ASSUME NEW m \in Nat, NEW f \in Sizes(m), NEW t \in Tick, NEW n \in 0..m, f[t] = 0,
         NEW g, \A u \in Tick : g[u] = IF u = t THEN n ELSE f[u]
  PROVE  Cardinality(Units(g)) = Cardinality(Units(f)) + n
<1> DEFINE own == {t} \X (1..n)
<1>1. IsFiniteSet(own) /\ Cardinality(own) = n
  <2>1. IsFiniteSet({t}) /\ Cardinality({t}) = 1
    BY FS_Singleton
  <2>2. n \in Nat /\ 1 \in Int /\ n \in Int
    OBVIOUS
  <2>3. IsFiniteSet(1..n) /\ Cardinality(1..n) = n
    <3>1. IsFiniteSet(1..n) /\ Cardinality(1..n) = IF 1 > n THEN 0 ELSE n - 1 + 1
      BY <2>2, FS_Interval
    <3> QED
      BY <2>2, <3>1
  <2>4. IsFiniteSet(own) /\ Cardinality(own) = Cardinality({t}) * Cardinality(1..n)
    BY <2>1, <2>3, FS_Product, Zenon
  <2> QED
    BY <2>1, <2>2, <2>3, <2>4
<1>2. Units(g) = Units(f) \cup own
  <2>1. ASSUME NEW u \in Tick, NEW i
        PROVE  <<u, i>> \in Units(g) <=> <<u, i>> \in Units(f) \cup own
    <3>1. <<u, i>> \in Units(g) <=> i \in 1..g[u]
      BY DEF Units
    <3>2. <<u, i>> \in Units(f) <=> i \in 1..f[u]
      BY DEF Units
    <3>3. <<u, i>> \in own <=> u = t /\ i \in 1..n
      OBVIOUS
    <3> QED
      BY <3>1, <3>2, <3>3
  <2>2. ASSUME NEW x, x \in Units(g) \/ x \in Units(f) \cup own
        PROVE  \E u \in Tick, i \in Int : x = <<u, i>>
    BY <2>2 DEF Units
  <2> QED
    BY <2>1, <2>2
<1>3. Units(f) \cap own = {}
  <2> SUFFICES ASSUME NEW u \in Tick, NEW i \in 1..f[u], <<u, i>> \in own PROVE FALSE
    BY DEF Units
  <2> QED
    OBVIOUS
<1>4. IsFiniteSet(Units(f)) /\ Cardinality(Units(f)) \in Nat
  BY UnitsFinite
<1> HIDE DEF own
<1>5. Cardinality(Units(f) \cup own) = Cardinality(Units(f)) + Cardinality(own) - Cardinality({})
  BY <1>1, <1>3, <1>4, FS_Union
<1>6. Cardinality(Units(g)) = Cardinality(Units(f)) + n
  BY <1>1, <1>2, <1>4, <1>5, FS_EmptySet
<1> QED
  BY <1>6

(* What k ticks have at most, if none has more than m.                     *)
LEMMA UnitsBounded ==
  ASSUME NEW m \in Nat, NEW f \in Sizes(m), NEW S \in SUBSET Tick,
         \A t \in Tick \ S : f[t] = 0
  PROVE  Cardinality(S) \in Nat /\ Cardinality(Units(f)) <= Cardinality(S) * m
<1>1. IsFiniteSet(S) /\ Cardinality(S) \in Nat
  BY HedgeAssumption, FS_Subset, FS_CardinalityType
<1>2. IsFiniteSet(1..m) /\ Cardinality(1..m) = m
  BY FS_Interval
<1>3. IsFiniteSet(S \X (1..m)) /\ Cardinality(S \X (1..m)) = Cardinality(S) * m
  BY <1>1, <1>2, FS_Product
<1>4. Units(f) \subseteq S \X (1..m)
  <2> SUFFICES ASSUME NEW t \in Tick, NEW n \in 1..f[t] PROVE <<t, n>> \in S \X (1..m)
    BY DEF Units
  <2> QED
    BY DEF Sizes
<1> QED
  BY <1>1, <1>3, <1>4, FS_Subset

-----------------------------------------------------------------------------
(* What every step needs of the bounds.                                    *)
LEMMA BoundsTyped ==
  ASSUME HedgeTypeOK
  PROVE  /\ MaxDelta \in Nat /\ MinOrder \in Nat /\ MinOrder >= 1 /\ MinOrder <= MaxDelta
         /\ MaxFaults \in Nat /\ faults \in Nat /\ faults <= MaxFaults /\ Used \in Nat
         /\ delta \in Nat /\ delta <= MaxDelta /\ short \in Nat
<1>1. /\ Deadband \in Nat /\ MaxFaults \in Nat /\ MaxDelta \in Nat
      /\ MinOrder \in Nat \ {0} /\ MinOrder <= MaxDelta
  BY HedgeAssumption
<1>2. delta \in 0..MaxDelta /\ short \in Nat /\ faults \in 0..MaxFaults
  BY DEF HedgeTypeOK
<1> QED
  BY <1>1, <1>2 DEF Used

LEMMA TickTyped ==
  ASSUME HedgeTypeOK, NEW t \in Tick
  PROVE  /\ tick[t].at \in Stages /\ tick[t].warm \in BOOLEAN /\ tick[t].unwind \in BOOLEAN
         /\ tick[t].delta \in Nat /\ tick[t].delta <= MaxDelta
         /\ tick[t].short \in Nat /\ tick[t].order \in Nat
<1>1. tick[t] \in TickRecords /\ MaxDelta \in Nat
  BY HedgeAssumption DEF HedgeTypeOK
<1> QED
  BY <1>1 DEF TickRecords

(* The orders pledged are sized, before a step and after it.               *)
LEMMA OrdersSized ==
  ASSUME NEW m \in [Tick -> TickRecords],
         NEW f, f = [t \in Tick |-> IF m[t].at \in {"checks", "posted"} /\ ~m[t].unwind
                                      THEN Lifted(m[t].order) ELSE 0],
         \A t \in Tick : m[t].at \in {"checks", "posted"} /\ ~m[t].unwind
                           => m[t].order <= MaxDelta
  PROVE  f \in Sizes(MaxDelta)
<1>1. MaxDelta \in Nat /\ MinOrder \in Nat /\ MinOrder <= MaxDelta
  BY HedgeAssumption
<1> SUFFICES ASSUME NEW t \in Tick PROVE f[t] \in 0..MaxDelta
  BY DEF Sizes
<1>2. m[t].order \in Nat
  BY DEF TickRecords
<1> QED
  BY <1>1, <1>2 DEF Lifted

LEMMA PledgeSized ==
  /\ HedgeTypeOK /\ (\A t \in Tick : SaleSized(t)) => Pledge \in Sizes(MaxDelta)
  /\ HedgeTypeOK' /\ (\A t \in Tick : SaleSized(t)') => Pledge' \in Sizes(MaxDelta)
<1>1. ASSUME HedgeTypeOK, \A t \in Tick : SaleSized(t)
      PROVE  Pledge \in Sizes(MaxDelta)
  BY <1>1, OrdersSized DEF HedgeTypeOK, SaleSized, Pledge, Pledged
<1>2. ASSUME HedgeTypeOK', \A t \in Tick : SaleSized(t)'
      PROVE  Pledge' \in Sizes(MaxDelta)
  BY <1>2, OrdersSized DEF HedgeTypeOK, SaleSized, Pledge, Pledged
<1> QED
  BY <1>1, <1>2

LEMMA IdleTyped == Idle \in TickRecords /\ Idle.at = "idle"
BY HedgeAssumption DEF Idle, TickRecords, Stages

(* A step that costs a fault or none.                                      *)
LEMMA CostsFault ==
  ASSUME HedgeTypeOK, NEW wrong \in BOOLEAN, Costs(wrong)
  PROVE  /\ faults' \in 0..MaxFaults /\ faults' <= faults
         /\ wrong => faults > 0 /\ faults' = faults - 1
         /\ ~wrong => faults' = faults
<1>1. faults \in 0..MaxFaults /\ MaxFaults \in Nat
  BY HedgeAssumption DEF HedgeTypeOK
<1>2. CASE wrong
  BY <1>1, <1>2 DEF Costs
<1>3. CASE ~wrong
  BY <1>1, <1>3 DEF Costs
<1> QED
  BY <1>2, <1>3

-----------------------------------------------------------------------------
(* One tick takes a step.                                                  *)
OnlyTick(t) == \A u \in Tick \ {t} : tick'[u] = tick[u]

(* The short stays and the tick that moves has, after its step, no order.  *)
MovesOn(t) ==
  /\ HedgeTypeOK' /\ short' = short /\ faults' <= faults
  /\ OnlyTick(t)
  /\ tick'[t].at \notin {"checks", "posted"}

LEMMA LessLeft ==
  ASSUME NEW a \in Nat, NEW b \in Nat, NEW c \in Nat, NEW m \in Nat, b <= a, a <= c
  PROVE  c - a \in Nat /\ c - b \in Nat /\ (1 + (c - a)) * m <= (1 + (c - b)) * m
<1>1. 1 + (c - a) \in Nat /\ 1 + (c - b) \in Nat /\ 1 + (c - a) <= 1 + (c - b)
  OBVIOUS
<1>2. (1 + (c - a)) * m <= (1 + (c - b)) * m
  BY <1>1, TimesMonotone
<1> QED
  BY <1>2

LEMMA UsedGrows ==
  ASSUME HedgeTypeOK, HedgeTypeOK', faults' <= faults
  PROVE  Used \in Nat /\ Used' \in Nat /\ (1 + Used) * MaxDelta <= (1 + Used') * MaxDelta
<1>1. faults \in 0..MaxFaults /\ faults' \in 0..MaxFaults /\ MaxFaults \in Nat /\ MaxDelta \in Nat
  BY HedgeAssumption DEF HedgeTypeOK
<1>2. faults \in Nat /\ faults' \in Nat /\ faults <= MaxFaults
  BY <1>1
<1> QED
  BY <1>1, <1>2, LessLeft DEF Used

LEMMA PledgeKept ==
  ASSUME HedgeInv, HedgeTypeOK', \A t \in Tick : SaleSized(t)',
         short' <= short, faults' <= faults, \A t \in Tick : Pledged(t)' <= Pledged(t)
  PROVE  PledgeBounded'
<1> DEFINE before == Cardinality(Units(Pledge))
           after  == Cardinality(Units(Pledge'))
<1>1. Pledge \in Sizes(MaxDelta)
  BY PledgeSized DEF HedgeInv
<1>2. Pledge' \in Sizes(MaxDelta)
  BY PledgeSized
<1>3. before \in Nat /\ after \in Nat /\ after <= before
  BY <1>1, <1>2, UnitsFinite, UnitsMonotone, HedgeAssumption DEF Pledge
<1>4. short' \in Nat /\ short \in Nat
      /\ Used' \in Nat /\ Used \in Nat /\ (1 + Used) * MaxDelta <= (1 + Used') * MaxDelta
  BY UsedGrows DEF HedgeInv, HedgeTypeOK
<1>5. short + before <= (1 + Used) * MaxDelta + MinOrder - 1
  BY DEF HedgeInv, PledgeBounded
<1>6. (1 + Used) * MaxDelta \in Int /\ (1 + Used') * MaxDelta \in Int /\ MinOrder \in Int
  BY <1>4, HedgeAssumption
<1>7. Cardinality(Units(Pledge))' = after
  BY DEF Units
<1> HIDE DEF before, after
<1>8. short' + after <= (1 + Used') * MaxDelta + MinOrder - 1
  BY <1>3, <1>4, <1>5, <1>6
<1> QED
  BY <1>7, <1>8 DEF PledgeBounded

LEMMA ActiveKept ==
  ASSUME HedgeInv, HedgeTypeOK', faults' <= faults, Active' \subseteq Active
  PROVE  OverlapsPaid'
<1>1. IsFiniteSet(Active)
  BY HedgeAssumption, FS_Subset DEF Active
<1>2. Cardinality(Active') <= Cardinality(Active) /\ IsFiniteSet(Active')
  BY <1>1, FS_Subset
<1>3. Cardinality(Active) \in Nat /\ Cardinality(Active') \in Nat
  BY <1>1, <1>2, FS_CardinalityType
<1> QED
  BY <1>2, <1>3, HedgeAssumption DEF HedgeInv, HedgeTypeOK, OverlapsPaid, Used

(* What a tick that moves on may disturb: only the ticks under way.        *)
LEMMA MovesOnKeeps ==
  ASSUME HedgeInv, NEW t \in Tick, MovesOn(t)
  PROVE  /\ HedgeTypeOK' /\ PledgeBounded'
         /\ \A u \in Tick : SaleSized(u)'
         /\ faults' = MaxFaults => \A u \in Tick : Gauged(u)'
<1>1. HedgeTypeOK' /\ short' = short /\ faults' <= faults
      /\ OnlyTick(t) /\ tick'[t].at \notin {"checks", "posted"}
  BY DEF MovesOn
<1>2. ASSUME NEW u \in Tick PROVE SaleSized(u)'
  BY <1>1 DEF SaleSized, OnlyTick, HedgeInv
<1>3. ASSUME NEW u \in Tick PROVE Pledged(u)' <= Pledged(u)
  <2>1. CASE u = t
    <3>1. Pledged(u)' = 0
      BY <1>1, <2>1 DEF Pledged
    <3>2. Pledged(u) \in Nat
      BY BoundsTyped, TickTyped DEF Pledged, Lifted, HedgeInv
    <3> QED
      BY <3>1, <3>2
  <2>2. CASE u # t
    <3>1. Pledged(u)' = Pledged(u)
      BY <1>1, <2>2 DEF Pledged, OnlyTick
    <3>2. Pledged(u) \in Nat
      BY BoundsTyped, TickTyped DEF Pledged, Lifted, HedgeInv
    <3> QED
      BY <3>1, <3>2
  <2> QED
    BY <2>1, <2>2
<1>4. short' <= short
  BY <1>1 DEF HedgeInv, HedgeTypeOK
<1>5. PledgeBounded'
  BY <1>1, <1>2, <1>3, <1>4, PledgeKept
<1>6. ASSUME faults' = MaxFaults, NEW u \in Tick PROVE Gauged(u)'
  <2>1. faults = MaxFaults
    BY <1>1, <1>6, BoundsTyped DEF HedgeInv
  <2>2. Gauged(u)
    BY <2>1 DEF HedgeInv, Undisturbed
  <2> QED
    BY <1>1, <2>2 DEF Gauged, OnlyTick
<1> QED
  BY <1>1, <1>2, <1>5, <1>6

(* A tick that was running, runs on or ends.                               *)
LEMMA QuietKeeps ==
  ASSUME HedgeInv, NEW t \in Tick, MovesOn(t), Running(t)
  PROVE  HedgeInv'
<1>1. Active' \subseteq Active
  BY DEF Active, Running, MovesOn, OnlyTick
<1>2. OverlapsPaid'
  BY <1>1, ActiveKept DEF MovesOn
<1>3. ASSUME faults' = MaxFaults,
             NEW u \in Tick, NEW v \in Tick, Running(u)', Running(v)'
      PROVE  u = v
  <2>1. faults = MaxFaults
    BY <1>3, BoundsTyped DEF HedgeInv, MovesOn
  <2>2. Running(u) /\ Running(v)
    BY <1>1, <1>3 DEF Active
  <2> QED
    BY <2>1, <2>2 DEF HedgeInv, Undisturbed
<1>4. Undisturbed'
  BY <1>3, MovesOnKeeps DEF Undisturbed
<1> QED
  BY <1>2, <1>4, MovesOnKeeps DEF HedgeInv

-----------------------------------------------------------------------------
(* Types, action by action.                                                *)
LEMMA MovesTyped ==
  ASSUME HedgeTypeOK, NEW t \in Tick, NEW r \in TickRecords, tick' = [tick EXCEPT ![t] = r],
         delta' = delta, short' \in Nat, loaded' \in BOOLEAN, faults' \in 0..MaxFaults,
         moves' = moves
  PROVE  HedgeTypeOK'
BY DEF HedgeTypeOK

LEMMA RunsOnMoves ==
  ASSUME HedgeTypeOK, NEW t \in Tick, NEW r \in TickRecords, tick' = [tick EXCEPT ![t] = r],
         r.at \notin {"checks", "posted"},
         delta' = delta, short' = short, loaded' \in BOOLEAN, moves' = moves,
         faults' \in 0..MaxFaults, faults' <= faults
  PROVE  MovesOn(t)
<1>1. HedgeTypeOK'
  BY MovesTyped DEF HedgeTypeOK
<1>2. OnlyTick(t) /\ tick'[t] = r
  BY DEF OnlyTick, HedgeTypeOK
<1> QED
  BY <1>1, <1>2 DEF MovesOn

LEMMA EndsMoves ==
  ASSUME HedgeTypeOK, NEW t \in Tick, Ends(t),
         delta' = delta, short' = short, loaded' \in BOOLEAN, moves' = moves,
         faults' \in 0..MaxFaults, faults' <= faults
  PROVE  MovesOn(t)
BY RunsOnMoves, IdleTyped DEF Ends

LEMMA FaultsStay ==
  ASSUME HedgeTypeOK, faults' = faults
  PROVE  faults' \in 0..MaxFaults /\ faults' <= faults
<1>1. faults \in 0..MaxFaults /\ MaxFaults \in Nat
  BY HedgeAssumption DEF HedgeTypeOK
<1> QED
  BY <1>1

LEMMA FoundTyped ==
  ASSUME HedgeTypeOK, NEW ok \in BOOLEAN
  PROVE  Found(ok) \in Nat
BY DEF Found, HedgeTypeOK

-----------------------------------------------------------------------------
(* The steps that place no order.                                          *)
LEMMA ReadDeltaKeeps ==
  ASSUME HedgeInv, NEW t \in Tick, ReadDelta(t)
  PROVE  HedgeInv'
<1>1. HedgeTypeOK /\ Running(t) /\ faults' = faults
  BY DEF HedgeInv, ReadDelta, Running
<1>2. CASE delta = 0
  <2>1. MovesOn(t)
    BY <1>1, <1>2, FaultsStay, EndsMoves DEF ReadDelta, HedgeTypeOK
  <2> QED
    BY <1>1, <2>1, QuietKeeps
<1>3. CASE delta # 0
  <2> DEFINE r == [tick[t] EXCEPT !.delta = delta,
                     !.at = IF @ = "delta" THEN "short" ELSE "probeShort"]
  <2>1. tick' = [tick EXCEPT ![t] = r]
    BY <1>3 DEF ReadDelta, HedgeInv, HedgeTypeOK, TickRecords
  <2>2. tick[t] \in TickRecords /\ delta \in 0..MaxDelta
    BY <1>1 DEF HedgeTypeOK
  <2>3. r \in TickRecords /\ r.at \notin {"checks", "posted"}
    BY <2>2 DEF TickRecords, Stages
  <2> HIDE DEF r
  <2>4. delta' = delta /\ short' = short /\ loaded' \in BOOLEAN /\ moves' = moves
    BY <1>1 DEF ReadDelta, HedgeTypeOK
  <2>5. MovesOn(t)
    BY <1>1, <2>1, <2>3, <2>4, FaultsStay, RunsOnMoves
  <2> QED
    BY <1>1, <2>5, QuietKeeps
<1> QED
  BY <1>2, <1>3

LEMMA ProbeShortKeeps ==
  ASSUME HedgeInv, NEW t \in Tick, NEW ok \in BOOLEAN, ProbeShort(t, ok)
  PROVE  HedgeInv'
<1>1. HedgeTypeOK /\ Running(t) /\ Costs(~ok)
  BY DEF HedgeInv, ProbeShort, Running
<1>2. faults' \in 0..MaxFaults /\ faults' <= faults
  BY <1>1, CostsFault
<1> DEFINE r == [tick[t] EXCEPT !.at = "soil", !.short = Found(ok)]
<1>3. tick' = [tick EXCEPT ![t] = r]
  BY <1>1 DEF ProbeShort, HedgeTypeOK, TickRecords
<1>4. tick[t] \in TickRecords /\ Found(ok) \in Nat
  BY <1>1, FoundTyped DEF HedgeTypeOK
<1>5. r \in TickRecords /\ r.at = "soil"
  BY <1>4 DEF TickRecords, Stages
<1> HIDE DEF r
<1>6. delta' = delta /\ short' = short /\ loaded' \in BOOLEAN /\ moves' = moves
  BY <1>1 DEF ProbeShort, HedgeTypeOK
<1>7. MovesOn(t)
  BY <1>1, <1>2, <1>3, <1>5, <1>6, RunsOnMoves
<1> QED
  BY <1>1, <1>7, QuietKeeps

LEMMA DecideKeeps ==
  ASSUME HedgeInv, NEW t \in Tick, Decide(t)
  PROVE  HedgeInv'
<1>1. HedgeTypeOK /\ Running(t) /\ faults' = faults
  BY DEF HedgeInv, Decide, Running
<1>2. delta' = delta /\ short' = short /\ loaded' \in BOOLEAN /\ moves' = moves
  BY <1>1 DEF Decide, HedgeTypeOK
<1> DEFINE run(unwind) == [Idle EXCEPT !.at = "delta", !.warm = tick[t].warm,
                                       !.unwind = unwind]
<1>3. \/ Ends(t)
      \/ \E unwind \in BOOLEAN : tick' = [tick EXCEPT ![t] = run(unwind)]
  BY Zenon DEF Decide
<1>4. CASE Ends(t)
  BY <1>1, <1>2, <1>4, FaultsStay, EndsMoves, QuietKeeps
<1>5. ASSUME NEW unwind \in BOOLEAN, tick' = [tick EXCEPT ![t] = run(unwind)]
      PROVE  HedgeInv'
  <2>1. tick[t].warm \in BOOLEAN
    BY <1>1, TickTyped
  <2>2. run(unwind) \in TickRecords /\ run(unwind).at = "delta"
    BY <2>1, IdleTyped DEF TickRecords, Stages
  <2> HIDE DEF run
  <2>3. MovesOn(t)
    BY <1>1, <1>2, <1>5, <2>2, FaultsStay, RunsOnMoves
  <2> QED
    BY <1>1, <2>3, QuietKeeps
<1> QED
  BY <1>3, <1>4, <1>5

LEMMA FailKeeps ==
  ASSUME HedgeInv, NEW t \in Tick, Fail(t)
  PROVE  HedgeInv'
<1>1. HedgeTypeOK /\ Running(t) /\ Costs(TRUE) /\ Ends(t)
      /\ delta' = delta /\ short' = short /\ loaded' = loaded /\ moves' = moves
  BY DEF HedgeInv, Fail
<1>2. faults' \in 0..MaxFaults /\ faults' <= faults
  BY <1>1, CostsFault
<1>3. MovesOn(t)
  BY <1>1, <1>2, EndsMoves DEF HedgeTypeOK
<1> QED
  BY <1>1, <1>3, QuietKeeps

(* A tick that begins beside others pays for the order it may yet place.   *)
LEMMA BeginKeeps ==
  ASSUME HedgeInv, NEW t \in Tick, NEW warm \in BOOLEAN, Begin(t, warm)
  PROVE  HedgeInv'
<1> DEFINE beside == \E u \in Tick : Running(u)
           r == [tick[t] EXCEPT !.at = "probeDelta", !.warm = warm]
<1>1. HedgeTypeOK /\ ~Running(t) /\ Costs(beside)
      /\ delta' = delta /\ short' = short /\ loaded' = TRUE /\ moves' = moves
  BY DEF HedgeInv, Begin
<1>2. /\ faults' \in 0..MaxFaults /\ faults' <= faults
      /\ beside => faults > 0 /\ faults' = faults - 1
      /\ ~beside => faults' = faults
  <2>1. beside \in BOOLEAN
    OBVIOUS
  <2> HIDE DEF beside
  <2> QED
    BY <1>1, <2>1, CostsFault
<1>3. tick' = [tick EXCEPT ![t] = r]
  BY <1>1 DEF Begin, HedgeTypeOK, TickRecords
<1>4. r \in TickRecords /\ r.at = "probeDelta"
  <2>1. tick[t] \in TickRecords
    BY <1>1 DEF HedgeTypeOK
  <2> QED
    BY <2>1 DEF TickRecords, Stages
<1> HIDE DEF r
<1>5. MovesOn(t)
  BY <1>1, <1>2, <1>3, <1>4, RunsOnMoves
<1>6. Active' = Active \cup {t} /\ t \notin Active
  <2>1. tick'[t].at # "idle" /\ \A u \in Tick \ {t} : tick'[u] = tick[u]
    BY <1>1, <1>3, <1>4 DEF HedgeTypeOK
  <2> QED
    BY <1>1, <2>1 DEF Active, Running
<1>7. beside <=> Active # {}
  BY DEF Active
<1> HIDE DEF beside
<1>8. IsFiniteSet(Active) /\ Cardinality(Active) \in Nat
  BY HedgeAssumption, FS_Subset, FS_CardinalityType DEF Active
<1>9. Cardinality(Active') = Cardinality(Active) + 1
  BY <1>6, <1>8, FS_AddElement
<1>10. OverlapsPaid'
  <2>1. MaxFaults \in Nat /\ faults \in Nat /\ faults <= MaxFaults
    BY <1>1, BoundsTyped
  <2>2. CASE beside
    <3>1. Cardinality(Active) <= 1 + (MaxFaults - faults) /\ faults' = faults - 1
      BY <1>2, <2>2 DEF HedgeInv, OverlapsPaid, Used
    <3>2. Cardinality(Active') <= 1 + (MaxFaults - faults')
      BY <1>8, <1>9, <2>1, <3>1
    <3> QED
      BY <3>2 DEF OverlapsPaid, Used
  <2>3. CASE ~beside
    <3>1. Cardinality(Active) = 0 /\ faults' = faults
      BY <1>2, <1>7, <2>3, FS_EmptySet
    <3>2. Cardinality(Active') <= 1 + (MaxFaults - faults')
      BY <1>9, <2>1, <3>1
    <3> QED
      BY <3>2 DEF OverlapsPaid, Used
  <2> QED
    BY <2>2, <2>3
<1>11. Undisturbed'
  <2>1. ASSUME faults' = MaxFaults PROVE Active = {}
    BY <1>1, <1>2, <1>7, <2>1, BoundsTyped
  <2>2. ASSUME faults' = MaxFaults,
               NEW u \in Tick, NEW v \in Tick, Running(u)', Running(v)'
        PROVE  u = v
    BY <1>6, <2>1, <2>2 DEF Active
  <2> QED
    BY <1>5, <2>2, MovesOnKeeps DEF Undisturbed
<1> QED
  BY <1>5, <1>10, <1>11, MovesOnKeeps DEF HedgeInv

-----------------------------------------------------------------------------
(* The step that sizes an order.                                           *)
LEMMA SizedIs ==
  ASSUME NEW unwind \in BOOLEAN, NEW long \in Nat, NEW held \in Nat,
         NEW gap, gap = Missing(unwind, long, held)
  PROVE  gap \in Int /\ Sized(unwind, long, held) = IF gap <= 0 THEN 0 ELSE gap
<1>1. held - long \in Int /\ long - held \in Int
  OBVIOUS
<1>2. gap \in Int
  BY <1>1 DEF Missing
<1>3. Sized(unwind, long, held) = Max({0, gap})
  BY Zenon DEF Sized, Missing
<1>4. Max({0, gap}) = IF 0 >= gap THEN 0 ELSE gap
  BY <1>2, MaxOfTwo
<1> HIDE DEF Missing, Sized
<1> QED
  BY <1>2, <1>3, <1>4

(* The others pledge at most the delta for each fault they cost.           *)
LEMMA OthersPledge ==
  ASSUME HedgeInv, NEW t \in Tick, Running(t), Pledged(t) = 0
  PROVE  Cardinality(Units(Pledge)) \in Nat
         /\ Cardinality(Units(Pledge)) <= Used * MaxDelta
<1> DEFINE S == Active \ {t}
<1>1. Pledge \in Sizes(MaxDelta) /\ MaxDelta \in Nat
  BY PledgeSized, HedgeAssumption DEF HedgeInv
<1>2. IsFiniteSet(Active) /\ t \in Active
  BY HedgeAssumption, FS_Subset DEF Active
<1>3. Cardinality(S) = Cardinality(Active) - 1 /\ Cardinality(Active) \in Nat
  BY <1>2, FS_RemoveElement, FS_CardinalityType
<1>4. S \in SUBSET Tick /\ \A u \in Tick \ S : Pledge[u] = 0
  BY DEF Active, Running, Pledge, Pledged
<1>5. Cardinality(S) \in Nat /\ Cardinality(Units(Pledge)) <= Cardinality(S) * MaxDelta
  <2> HIDE DEF S
  <2> QED
    BY <1>1, <1>4, UnitsBounded
<1>6. Used \in Nat /\ Cardinality(Active) <= 1 + Used
  BY BoundsTyped DEF HedgeInv, OverlapsPaid
<1> HIDE DEF S
<1>7. Cardinality(S) <= Used
  BY <1>3, <1>5, <1>6
<1>8. Cardinality(S) * MaxDelta <= Used * MaxDelta
  BY <1>1, <1>5, <1>6, <1>7, TimesMonotone
<1>9. Cardinality(Units(Pledge)) \in Nat
  BY <1>1, UnitsFinite
<1>10. Cardinality(S) * MaxDelta \in Int /\ Used * MaxDelta \in Int
  BY <1>1, <1>5, <1>6
<1> QED
  BY <1>5, <1>8, <1>9, <1>10

(* A read that failed costs a fault, which pays for the order.             *)
LEMMA PaidFits ==
  ASSUME NEW m \in Nat, NEW least \in Nat, NEW held \in Nat, NEW count \in Nat,
         NEW left \in Nat, NEW most \in Nat, left <= most, left > 0, NEW n \in 0..m,
         held + count <= (1 + (most - left)) * m + least - 1
  PROVE  held + (count + n) <= (1 + (most - (left - 1))) * m + least - 1
<1>1. 1 + (most - left) \in Nat /\ 1 + (most - (left - 1)) = 1 + (1 + (most - left))
  OBVIOUS
<1>2. (1 + (most - (left - 1))) * m = m + (1 + (most - left)) * m
      /\ (1 + (most - left)) * m \in Nat
  BY <1>1, TimesSplits
<1> QED
  BY <1>2

(* An order sized on the short as it is, lifted, ends within the lift.     *)
LEMMA GaugedFits ==
  ASSUME NEW m \in Nat, NEW least \in Nat, least >= 1, least <= m,
         NEW held \in Nat, NEW count \in Nat, NEW used \in Nat, NEW long \in 0..m,
         long - held > 0, count <= used * m,
         NEW n, n = IF long - held < least THEN least ELSE long - held
  PROVE  held + (count + n) <= (1 + used) * m + least - 1
<1>1. (1 + used) * m = m + used * m /\ used * m \in Nat
  BY TimesSplits
<1>2. n \in Nat /\ held + n <= m + least - 1
  OBVIOUS
<1> QED
  BY <1>1, <1>2

(* What is filled was pledged.                                             *)
LEMMA FilledFits ==
  ASSUME NEW least \in Nat, NEW held \in Nat, NEW count \in Nat, NEW n \in Nat,
         NEW filled \in Nat, filled <= n, NEW before \in Int, NEW after \in Int, before <= after,
         held + (count + n) <= before + least - 1
  PROVE  (held + filled) + count <= after + least - 1
OBVIOUS

LEMMA SizeOrderKeeps ==
  ASSUME HedgeInv, NEW t \in Tick, NEW ok \in BOOLEAN, SizeOrder(t, ok)
  PROVE  HedgeInv'
<1> DEFINE long == tick[t].delta
           unwind == tick[t].unwind
           gap == Missing(unwind, long, Found(ok))
           size == Sized(unwind, long, Found(ok))
           r == [tick[t] EXCEPT !.at = "checks", !.short = Found(ok), !.order = size]
           n == IF unwind THEN 0 ELSE Lifted(size)
<1>1. HedgeTypeOK /\ Running(t) /\ Costs(~ok) /\ tick[t].at = "short"
      /\ delta' = delta /\ short' = short /\ loaded' = loaded /\ moves' = moves
  BY DEF HedgeInv, SizeOrder, Running
<1>2. /\ faults' \in 0..MaxFaults /\ faults' <= faults
      /\ ~ok => faults > 0 /\ faults' = faults - 1
      /\ ok => faults' = faults
  BY <1>1, CostsFault
<1>3. long \in Nat /\ long <= MaxDelta /\ unwind \in BOOLEAN /\ tick[t] \in TickRecords
  BY <1>1, TickTyped DEF HedgeTypeOK
<1>4. Found(ok) \in Nat /\ (ok => Found(ok) = short) /\ (~ok => Found(ok) = 0)
  BY <1>1, FoundTyped DEF Found
<1>5. gap \in Int /\ size = IF gap <= 0 THEN 0 ELSE gap
  <2> HIDE DEF long, unwind
  <2> QED
    BY <1>3, <1>4, SizedIs
<1>6. CASE size = 0
  <2>1. MovesOn(t)
    BY <1>1, <1>2, <1>6, EndsMoves DEF SizeOrder, HedgeTypeOK
  <2> QED
    BY <1>1, <2>1, QuietKeeps
<1>7. CASE size # 0
  <2>1. tick' = [tick EXCEPT ![t] = r]
    BY <1>1, <1>7 DEF SizeOrder, HedgeTypeOK, TickRecords
  <2>2. r \in TickRecords /\ r.at = "checks" /\ r.order = size
        /\ r.unwind = unwind /\ r.delta = long
    <3> HIDE DEF size, gap
    <3>1. size \in Nat
      BY <1>5
    <3> QED
      BY <1>3, <1>4, <3>1 DEF TickRecords, Stages
  <2> HIDE DEF r, size, gap, unwind, long
  <2>3. HedgeTypeOK'
    BY <1>1, <1>2, <2>1, <2>2, MovesTyped DEF HedgeTypeOK
  <2>4. tick'[t] = r /\ \A u \in Tick \ {t} : tick'[u] = tick[u]
    BY <1>1, <2>1 DEF HedgeTypeOK
  <2>5. unwind = tick[t].unwind /\ long = tick[t].delta
    BY DEF unwind, long
  <2>6. MaxDelta \in Nat /\ MinOrder \in Nat /\ MinOrder >= 1 /\ MinOrder <= MaxDelta
        /\ short \in Nat /\ faults \in Nat /\ MaxFaults \in Nat /\ faults <= MaxFaults
        /\ Used \in Nat
    BY <1>1, BoundsTyped
  <2>7. size = gap /\ gap > 0 /\ size \in Nat
    BY <1>5, <1>7
  <2>8. ASSUME ~unwind PROVE size <= MaxDelta
    <3>1. gap = long - Found(ok)
      BY <2>8 DEF gap, Missing
    <3> QED
      BY <1>3, <1>4, <2>6, <2>7, <3>1
  <2>9. ASSUME NEW u \in Tick PROVE SaleSized(u)'
    BY <2>2, <2>4, <2>8, <2>9 DEF SaleSized, HedgeInv
  <2>10. Active' \subseteq Active
    BY <1>1, <2>4 DEF Active, Running
  <2>11. OverlapsPaid'
    BY <1>2, <2>3, <2>10, ActiveKept
  <2>12. Pledged(t) = 0 /\ Pledged(t)' = n
    BY <1>1, <2>2, <2>4, <2>5 DEF Pledged, n
  <2>13. n \in 0..MaxDelta
    <3>1. CASE unwind
      BY <2>6, <3>1 DEF n
    <3>2. CASE ~unwind
      <4>1. n = Lifted(size)
        BY <3>2 DEF n
      <4> QED
        BY <2>6, <2>7, <2>8, <3>2, <4>1 DEF Lifted
    <3> QED
      BY <3>1, <3>2
  <2>14. /\ Pledge \in Sizes(MaxDelta) /\ Pledge[t] = 0
         /\ \A u \in Tick : Pledge'[u] = IF u = t THEN n ELSE Pledge[u]
    <3>1. Pledge \in Sizes(MaxDelta) /\ Pledge[t] = 0
      BY <2>12, PledgeSized DEF HedgeInv, Pledge
    <3>2. \A u \in Tick : Pledge'[u] = IF u = t THEN n ELSE Pledge[u]
      BY <2>4, <2>12 DEF Pledge, Pledged
    <3> QED
      BY <3>1, <3>2
  <2> HIDE DEF n
  <2>15. Cardinality(Units(Pledge')) = Cardinality(Units(Pledge)) + n
         /\ Cardinality(Units(Pledge)) \in Nat
    BY <2>6, <2>13, <2>14, UnitsAdd, UnitsFinite
  <2>16. PledgeBounded'
    <3> DEFINE count == Cardinality(Units(Pledge))
    <3>1. (Cardinality(Units(Pledge)))' = count + n
      BY <2>15 DEF Units
    <3>2. short + count <= (1 + (MaxFaults - faults)) * MaxDelta + MinOrder - 1
      BY DEF HedgeInv, PledgeBounded, Used
    <3>3. CASE ~ok
      <4>1. count \in Nat
        BY <2>15
      <4> HIDE DEF count
      <4>2. short + (count + n) <= (1 + (MaxFaults - (faults - 1))) * MaxDelta + MinOrder - 1
        BY <1>2, <2>6, <2>13, <3>2, <3>3, <4>1, PaidFits
      <4> QED
        BY <1>1, <1>2, <3>1, <3>3, <4>2 DEF PledgeBounded, Used
    <3>4. CASE ok /\ ~unwind
      <4>1. count \in Nat /\ count <= Used * MaxDelta
        BY <1>1, <2>12, OthersPledge
      <4>2. size = long - short /\ long - short > 0
        BY <1>4, <2>7, <3>4 DEF gap, Missing
      <4>3. n = IF long - short < MinOrder THEN MinOrder ELSE long - short
        BY <3>4, <4>2 DEF n, Lifted
      <4> HIDE DEF count
      <4>4. long \in 0..MaxDelta
        BY <1>3, <2>6
      <4>5. short + (count + n) <= (1 + Used) * MaxDelta + MinOrder - 1
        BY <2>6, <4>1, <4>2, <4>3, <4>4, GaugedFits
      <4> QED
        BY <1>1, <1>2, <3>1, <3>4, <4>5 DEF PledgeBounded, Used
    <3>5. CASE ok /\ unwind
      <4>1. ASSUME NEW u \in Tick PROVE Pledged(u)' <= Pledged(u)
        <5>1. n = 0
          BY <3>5 DEF n
        <5>2. Pledged(u)' = Pledged(u) /\ Pledged(u) = Pledge[u]
          BY <2>12, <2>4, <5>1 DEF Pledged, Pledge
        <5>3. Pledge[u] \in Nat
          BY <2>14, <2>6 DEF Sizes
        <5> QED
          BY <5>2, <5>3
      <4> QED
        BY <1>1, <1>2, <2>3, <2>6, <2>9, <4>1, PledgeKept
    <3> QED
      BY <3>3, <3>4, <3>5
  <2>17. Undisturbed'
    <3>1. ASSUME faults' = MaxFaults PROVE ok /\ faults = MaxFaults /\ Undisturbed
      BY <1>2, <2>6, <3>1 DEF HedgeInv
    <3>2. ASSUME faults' = MaxFaults,
                 NEW u \in Tick, NEW v \in Tick, Running(u)', Running(v)'
          PROVE  u = v
      <4>1. Running(u) /\ Running(v)
        BY <2>10, <3>2 DEF Active
      <4> QED
        BY <3>1, <3>2, <4>1 DEF Undisturbed
    <3>3. ASSUME faults' = MaxFaults, NEW u \in Tick PROVE Gauged(u)'
      <4>1. CASE u = t
        <5>1. ok /\ Found(ok) = short
          BY <1>4, <3>1, <3>3
        <5>2. size = Missing(unwind, long, short) /\ size > 0
          BY <2>7, <5>1 DEF gap
        <5>3. tick'[u] = r
          BY <2>4, <4>1
        <5> HIDE DEF Missing
        <5> QED
          BY <1>1, <2>2, <5>2, <5>3 DEF Gauged
      <4>2. CASE u # t
        <5>1. Gauged(u)
          BY <3>1, <3>3 DEF Undisturbed
        <5> QED
          BY <1>1, <2>4, <4>2, <5>1 DEF Gauged
      <4> QED
        BY <4>1, <4>2
    <3> QED
      BY <3>2, <3>3 DEF Undisturbed
  <2> QED
    BY <2>3, <2>9, <2>11, <2>16, <2>17 DEF HedgeInv
<1> QED
  BY <1>6, <1>7

-----------------------------------------------------------------------------
(* An order that is sent is the one that was pledged.                      *)
LEMMA SendKeeps ==
  ASSUME HedgeInv, NEW t \in Tick, NEW observer \in BOOLEAN, Send(t, observer)
  PROVE  HedgeInv'
<1> DEFINE order == Max({tick[t].order, MinOrder})
           r == [tick[t] EXCEPT !.at = "posted", !.order = order]
<1>1. HedgeTypeOK /\ Running(t) /\ Costs(observer) /\ tick[t].at = "checks"
      /\ delta' = delta /\ short' = short /\ loaded' = loaded /\ moves' = moves
  BY DEF HedgeInv, Send, Running
<1>2. faults' \in 0..MaxFaults /\ faults' <= faults
  BY <1>1, CostsFault
<1>3. CASE order > Cap \/ tick[t].warm \/ observer
  <2>1. Ends(t)
    BY <1>3 DEF Send
  <2>2. MovesOn(t)
    BY <1>1, <1>2, <2>1, EndsMoves DEF HedgeTypeOK
  <2> QED
    BY <1>1, <2>2, QuietKeeps
<1>4. CASE ~(order > Cap \/ tick[t].warm \/ observer)
  <2>1. faults' = faults
    BY <1>1, <1>4, CostsFault
  <2>2. tick' = [tick EXCEPT ![t] = r]
    BY <1>1, <1>4 DEF Send, HedgeTypeOK, TickRecords
  <2>3. MaxDelta \in Nat /\ MinOrder \in Nat /\ MinOrder >= 1 /\ MinOrder <= MaxDelta
        /\ tick[t].order \in Nat /\ short \in Nat
    BY <1>1, BoundsTyped, TickTyped
  <2>4. order = Lifted(tick[t].order) /\ order \in Nat /\ order >= MinOrder
    <3>1. order = IF tick[t].order >= MinOrder THEN tick[t].order ELSE MinOrder
      BY <2>3, MaxOfTwo
    <3> HIDE DEF order
    <3> QED
      BY <2>3, <3>1 DEF Lifted
  <2> HIDE DEF order
  <2>5. r \in TickRecords /\ r.at = "posted" /\ r.order = order
        /\ r.unwind = tick[t].unwind /\ r.delta = tick[t].delta
    <3>1. tick[t] \in TickRecords
      BY <1>1 DEF HedgeTypeOK
    <3> QED
      BY <2>4, <3>1 DEF TickRecords, Stages
  <2> HIDE DEF r
  <2>6. HedgeTypeOK'
    BY <1>1, <1>2, <2>2, <2>5, MovesTyped DEF HedgeTypeOK
  <2>7. tick'[t] = r /\ \A u \in Tick \ {t} : tick'[u] = tick[u]
    BY <1>1, <2>2 DEF HedgeTypeOK
  <2>8. Active' \subseteq Active
    BY <1>1, <2>7 DEF Active, Running
  <2>9. OverlapsPaid'
    BY <1>2, <2>6, <2>8, ActiveKept
  <2>10. ASSUME NEW u \in Tick PROVE SaleSized(u)'
    <3>1. CASE u = t
      <4>1. ASSUME ~tick[t].unwind PROVE order <= MaxDelta
        <5>1. tick[t].order <= MaxDelta
          BY <1>1, <4>1 DEF HedgeInv, SaleSized
        <5> QED
          BY <2>3, <2>4, <5>1 DEF Lifted
      <4> QED
        BY <2>4, <2>5, <2>7, <3>1, <4>1 DEF SaleSized
    <3>2. CASE u # t
      BY <2>7, <3>2 DEF HedgeInv, SaleSized
    <3> QED
      BY <3>1, <3>2
  <2>11. ASSUME NEW u \in Tick PROVE Pledged(u)' <= Pledged(u)
    <3>1. Lifted(order) = Lifted(tick[t].order)
      BY <2>3, <2>4 DEF Lifted
    <3>2. Pledged(u)' = Pledged(u)
      BY <1>1, <2>5, <2>7, <3>1 DEF Pledged
    <3>3. Pledged(u) \in Nat
      BY <1>1, BoundsTyped, TickTyped DEF Pledged, Lifted
    <3> QED
      BY <3>2, <3>3
  <2>12. PledgeBounded'
    <3>1. short' <= short
      BY <1>1, <2>3
    <3> QED
      BY <1>2, <2>6, <2>10, <2>11, <3>1, PledgeKept
  <2>13. Undisturbed'
    <3>1. ASSUME faults' = MaxFaults,
                 NEW u \in Tick, NEW v \in Tick, Running(u)', Running(v)'
          PROVE  u = v
      <4>1. Running(u) /\ Running(v)
        BY <2>8, <3>1 DEF Active
      <4> QED
        BY <1>1, <2>1, <3>1, <4>1 DEF HedgeInv, Undisturbed
    <3>2. ASSUME faults' = MaxFaults, NEW u \in Tick PROVE Gauged(u)'
      <4>1. Gauged(u) /\ Gauged(t)
        BY <1>1, <2>1, <3>2 DEF HedgeInv, Undisturbed
      <4>2. CASE u = t
        BY <1>1, <2>4, <2>5, <2>7, <4>1, <4>2 DEF Gauged
      <4>3. CASE u # t
        BY <1>1, <2>7, <4>1, <4>3 DEF Gauged
      <4> QED
        BY <4>2, <4>3
    <3> QED
      BY <3>1, <3>2 DEF Undisturbed
  <2> QED
    BY <2>6, <2>9, <2>10, <2>12, <2>13 DEF HedgeInv
<1> QED
  BY <1>3, <1>4

-----------------------------------------------------------------------------
(* What the exchange makes of the short.                                   *)
LEMMA ExecuteMoves ==
  ASSUME HedgeTypeOK, NEW t \in Tick, NEW filled \in 0..tick[t].order, Execute(t, filled)
  PROVE  /\ short' \in Nat /\ filled \in Nat /\ filled <= tick[t].order
         /\ tick[t].unwind => short' = IF short <= filled THEN 0 ELSE short - filled
         /\ ~tick[t].unwind => short' = short + filled
         /\ faults' \in 0..MaxFaults /\ faults' <= faults
         /\ faults' = MaxFaults => filled = tick[t].order /\ faults = MaxFaults
<1>1. short \in Nat /\ tick[t].order \in Nat /\ filled \in Nat /\ filled <= tick[t].order
  <2>1. short \in Nat /\ tick[t].order \in Nat
    BY BoundsTyped, TickTyped
  <2> QED
    BY <2>1
<1>2. Max({0, short - filled}) = IF short <= filled THEN 0 ELSE short - filled
  <2>1. short - filled \in Int
    BY <1>1
  <2>2. Max({0, short - filled}) = IF 0 >= short - filled THEN 0 ELSE short - filled
    BY <2>1, MaxOfTwo
  <2> QED
    BY <1>1, <2>2
<1>3. ASSUME tick[t].unwind
      PROVE  short' = (IF short <= filled THEN 0 ELSE short - filled) /\ short' \in Nat
  <2>1. short' = Max({0, short - filled})
    BY <1>3 DEF Execute
  <2> QED
    BY <1>1, <1>2, <2>1
<1>4. ASSUME ~tick[t].unwind
      PROVE  short' = short + filled /\ short' \in Nat
  <2>1. short' = short + filled
    BY <1>4 DEF Execute
  <2> QED
    BY <1>1, <2>1
<1>5. faults' \in 0..MaxFaults /\ faults' <= faults
      /\ (filled < tick[t].order => faults > 0 /\ faults' = faults - 1)
      /\ (~(filled < tick[t].order) => faults' = faults)
  <2> DEFINE wrong == filled < tick[t].order
  <2>1. wrong \in BOOLEAN /\ Costs(wrong)
    BY DEF Execute
  <2> HIDE DEF wrong
  <2>2. /\ faults' \in 0..MaxFaults /\ faults' <= faults
        /\ wrong => faults > 0 /\ faults' = faults - 1
        /\ ~wrong => faults' = faults
    BY <2>1, CostsFault
  <2> QED
    BY <2>2 DEF wrong
<1>6. faults' = MaxFaults => filled = tick[t].order /\ faults = MaxFaults
  <2>1. faults \in Nat /\ MaxFaults \in Nat /\ faults <= MaxFaults
    BY BoundsTyped
  <2> QED
    BY <1>1, <1>5, <2>1
<1>7. CASE tick[t].unwind
  BY <1>1, <1>3, <1>5, <1>6, <1>7, Zenon
<1>8. CASE ~tick[t].unwind
  BY <1>1, <1>4, <1>5, <1>6, <1>8, Zenon
<1> QED
  BY <1>7, <1>8

(* What was pledged is now short, or less.                                 *)
LEMMA ExecuteKeeps ==
  ASSUME HedgeInv, NEW t \in Tick, NEW filled \in 0..tick[t].order, Execute(t, filled)
  PROVE  HedgeInv'
<1>1. HedgeTypeOK /\ Running(t) /\ tick[t].at = "posted" /\ Ends(t)
      /\ delta' = delta /\ loaded' = loaded /\ moves' = moves
  BY DEF HedgeInv, Execute, Running
<1>2. /\ short' \in Nat /\ filled \in Nat /\ filled <= tick[t].order
      /\ tick[t].unwind => short' = IF short <= filled THEN 0 ELSE short - filled
      /\ ~tick[t].unwind => short' = short + filled
      /\ faults' \in 0..MaxFaults /\ faults' <= faults
      /\ faults' = MaxFaults => filled = tick[t].order /\ faults = MaxFaults
  BY <1>1, ExecuteMoves
<1>3. HedgeTypeOK'
  BY <1>1, <1>2, IdleTyped, MovesTyped DEF Ends, HedgeTypeOK
<1>4. tick'[t].at = "idle" /\ \A u \in Tick \ {t} : tick'[u] = tick[u]
  BY <1>1, IdleTyped DEF Ends, HedgeTypeOK
<1>5. Active' \subseteq Active \ {t}
  BY <1>4 DEF Active, Running
<1>6. OverlapsPaid'
  BY <1>2, <1>3, <1>5, ActiveKept
<1>7. ASSUME NEW u \in Tick PROVE SaleSized(u)'
  BY <1>4, <1>7 DEF SaleSized, HedgeInv
<1>8. MaxDelta \in Nat /\ MinOrder \in Nat /\ short \in Nat /\ tick[t].order \in Nat
  BY <1>1, BoundsTyped, TickTyped
<1>9. \A u \in Tick : Pledged(u)' = IF u = t THEN 0 ELSE Pledged(u)
  BY <1>4 DEF Pledged
<1>10. Pledge \in Sizes(MaxDelta) /\ Pledge' \in Sizes(MaxDelta)
  BY <1>3, <1>7, PledgeSized DEF HedgeInv
<1>11. PledgeBounded'
  <2>1. CASE tick[t].unwind
    <3>1. short' <= short
      <4>1. short' = IF short <= filled THEN 0 ELSE short - filled
        BY <1>2, <2>1
      <4>2. filled \in Nat
        BY <1>2
      <4> QED
        BY <1>8, <4>1, <4>2
    <3>2. ASSUME NEW u \in Tick PROVE Pledged(u)' <= Pledged(u)
      <4>1. Pledged(u) \in Nat
        BY <1>8, <1>10 DEF Pledge, Sizes
      <4> QED
        BY <1>9, <4>1
    <3> QED
      BY <1>2, <1>3, <1>7, <3>1, <3>2, PledgeKept
  <2>2. CASE ~tick[t].unwind
    <3> DEFINE n == Pledge[t]
               count == Cardinality(Units(Pledge'))
    <3>1. n = Lifted(tick[t].order)
      BY <1>1, <2>2 DEF Pledge, Pledged
    <3>2. n \in 0..MaxDelta /\ Pledge'[t] = 0
          /\ \A u \in Tick : Pledge[u] = IF u = t THEN n ELSE Pledge'[u]
      BY <1>9, <1>10 DEF Pledge, Sizes
    <3> HIDE DEF n
    <3>3. Cardinality(Units(Pledge)) = count + n /\ count \in Nat
      BY <1>8, <1>10, <3>2, UnitsAdd, UnitsFinite
    <3>4. Cardinality(Units(Pledge))' = count
      BY DEF Units
    <3> HIDE DEF count
    <3>5. filled <= n /\ filled \in Nat /\ short' = short + filled /\ n \in Nat
      BY <1>2, <1>8, <2>2, <3>1 DEF Lifted
    <3>6. short + (count + n) <= (1 + Used) * MaxDelta + MinOrder - 1
      BY <3>3 DEF HedgeInv, PledgeBounded
    <3>7. /\ Used \in Nat /\ Used' \in Nat
          /\ (1 + Used) * MaxDelta <= (1 + Used') * MaxDelta
      BY <1>1, <1>2, <1>3, UsedGrows
    <3>8. (1 + Used) * MaxDelta \in Int /\ (1 + Used') * MaxDelta \in Int
      BY <1>8, <3>7
    <3>9. (short + filled) + count <= (1 + Used') * MaxDelta + MinOrder - 1
      BY <1>8, <3>3, <3>5, <3>6, <3>7, <3>8, FilledFits
    <3> QED
      BY <3>4, <3>5, <3>9 DEF PledgeBounded
  <2> QED
    BY <2>1, <2>2
<1>12. Undisturbed'
  <2>1. ASSUME faults' = MaxFaults PROVE \A u \in Tick : ~Running(u)'
    <3>1. \A u \in Tick : Running(u) => u = t
      BY <1>1, <1>2, <2>1 DEF HedgeInv, Undisturbed
    <3> QED
      BY <1>5, <3>1 DEF Active
  <2>2. ASSUME NEW u \in Tick, ~Running(u)' PROVE Gauged(u)'
    BY <2>2 DEF Running, Gauged
  <2> QED
    BY <2>1, <2>2 DEF Undisturbed
<1> QED
  BY <1>3, <1>6, <1>7, <1>11, <1>12 DEF HedgeInv

(* Deposits, and stuttering, touch neither the short nor a tick.           *)
LEMMA ElsewhereKeeps ==
  ASSUME HedgeInv, HedgeTypeOK', short' = short, tick' = tick, faults' = faults
  PROVE  HedgeInv'
<1>1. OverlapsPaid' /\ PledgeBounded' /\ Undisturbed' /\ \A t \in Tick : SaleSized(t)'
  <2>1. Pledge' = Pledge /\ Active' = Active /\ Used' = Used
    BY DEF Pledge, Pledged, Active, Running, Used
  <2>2. Cardinality(Units(Pledge))' = Cardinality(Units(Pledge))
    BY <2>1 DEF Units
  <2>3. OverlapsPaid' /\ PledgeBounded'
    BY <2>1, <2>2 DEF HedgeInv, OverlapsPaid, PledgeBounded
  <2>4. Undisturbed'
    BY DEF HedgeInv, Undisturbed, Running, Gauged
  <2>5. \A t \in Tick : SaleSized(t)'
    BY DEF HedgeInv, SaleSized
  <2> QED
    BY <2>3, <2>4, <2>5
<1> QED
  BY <1>1 DEF HedgeInv

LEMMA MoveKeeps ==
  ASSUME HedgeInv, Move
  PROVE  HedgeInv'
<1>1. moves' \in 0..MaxMoves
  <2>1. moves \in 0..MaxMoves /\ MaxMoves \in Nat /\ moves > 0 /\ moves' = moves - 1
    BY HedgeAssumption DEF HedgeInv, HedgeTypeOK, Move
  <2> QED
    BY <2>1
<1>2. HedgeTypeOK'
  BY <1>1 DEF HedgeInv, HedgeTypeOK, Move
<1> QED
  BY <1>2, ElsewhereKeeps DEF Move

-----------------------------------------------------------------------------
LEMMA HedgeInitInv == HedgeInit => HedgeInv
<1> SUFFICES ASSUME HedgeInit PROVE HedgeInv
  OBVIOUS
<1>1. HedgeTypeOK
  <2>1. tick \in [Tick -> TickRecords]
    BY IdleTyped DEF HedgeInit
  <2>2. faults \in 0..MaxFaults /\ moves \in 0..MaxMoves
    BY HedgeAssumption DEF HedgeInit
  <2> QED
    BY <2>1, <2>2 DEF HedgeInit, HedgeTypeOK
<1>2. \A t \in Tick : tick[t].at = "idle"
  BY IdleTyped DEF HedgeInit
<1>3. Active = {}
  BY <1>2 DEF Active, Running
<1>4. OverlapsPaid
  <2>1. Cardinality(Active) = 0
    BY <1>3, FS_EmptySet
  <2>2. Used \in Nat
    BY <1>1, BoundsTyped
  <2> QED
    BY <2>1, <2>2 DEF OverlapsPaid
<1>5. \A t \in Tick : SaleSized(t) /\ Gauged(t)
  BY <1>2 DEF SaleSized, Gauged
<1>6. PledgeBounded
  <2>1. \A t \in Tick : Pledge[t] = 0
    BY <1>2 DEF Pledge, Pledged
  <2>2. Cardinality(Units(Pledge)) = 0
    <3>1. Units(Pledge) = {}
      BY <2>1 DEF Units
    <3> QED
      BY <3>1, FS_EmptySet
  <2>3. MaxDelta \in Nat /\ MinOrder \in Nat /\ MinOrder >= 1 /\ Used \in Nat
    BY <1>1, BoundsTyped
  <2>4. (1 + Used) * MaxDelta \in Nat
    BY <2>3
  <2>5. 0 + 0 <= (1 + Used) * MaxDelta + MinOrder - 1
    BY <2>3, <2>4
  <2>6. short = 0
    BY DEF HedgeInit
  <2> QED
    BY <2>2, <2>5, <2>6 DEF PledgeBounded
<1>7. Undisturbed
  BY <1>2, <1>5 DEF Undisturbed, Running
<1> QED
  BY <1>1, <1>4, <1>5, <1>6, <1>7 DEF HedgeInv

LEMMA HedgeInvStep ==
  HedgeInv /\ [HedgeNext]_hedgeVars => HedgeInv'
<1> SUFFICES ASSUME HedgeInv, [HedgeNext]_hedgeVars PROVE HedgeInv'
  OBVIOUS
<1>1. ASSUME NEW t \in Tick, NEW warm \in BOOLEAN, Begin(t, warm) PROVE HedgeInv'
  BY <1>1, BeginKeeps
<1>2. ASSUME NEW t \in Tick, Step(t) PROVE HedgeInv'
  <2>1. CASE ReadDelta(t)
    BY <2>1, ReadDeltaKeeps
  <2>2. CASE Decide(t)
    BY <2>2, DecideKeeps
  <2>3. ASSUME NEW observer \in BOOLEAN, Send(t, observer) PROVE HedgeInv'
    BY <2>3, SendKeeps
  <2>4. ASSUME NEW ok \in BOOLEAN, ProbeShort(t, ok) \/ SizeOrder(t, ok) PROVE HedgeInv'
    BY <2>4, ProbeShortKeeps, SizeOrderKeeps
  <2>5. ASSUME NEW filled \in 0..tick[t].order, Execute(t, filled) PROVE HedgeInv'
    BY <2>5, ExecuteKeeps
  <2> QED
    BY <1>2, <2>1, <2>2, <2>3, <2>4, <2>5 DEF Step
<1>3. ASSUME NEW t \in Tick, Fail(t) PROVE HedgeInv'
  BY <1>3, FailKeeps
<1>4. CASE Move
  BY <1>4, MoveKeeps
<1>5. CASE UNCHANGED hedgeVars
  <2>1. HedgeTypeOK' /\ short' = short /\ tick' = tick /\ faults' = faults
    BY <1>5 DEF HedgeInv, HedgeTypeOK, hedgeVars
  <2> QED
    BY <2>1, ElsewhereKeeps
<1> QED
  BY <1>1, <1>2, <1>3, <1>4, <1>5 DEF HedgeNext

LEMMA HedgeInvariant == HedgeSpec => []HedgeInv
BY HedgeInitInv, HedgeInvStep, PTL DEF HedgeSpec

-----------------------------------------------------------------------------
(* However ticks overlap and reads fail, what is short and on the way      *)
(* stays within one delta, one more for each thing that went wrong, and a  *)
(* lift: neither the two readings of a position that moves in between nor  *)
(* the missing lock add up to more (executeGmxHedge reads anew per run).   *)
THEOREM OverhedgeAlwaysBounded == HedgeSpec => []OverhedgeBounded
<1>1. ASSUME HedgeInv PROVE OverhedgeBounded
  <2> DEFINE sales == [t \in Tick |-> Selling(t)]
  <2>1. HedgeTypeOK /\ MaxDelta \in Nat /\ MinOrder \in Nat /\ short \in Nat /\ Used \in Nat
    BY <1>1, BoundsTyped DEF HedgeInv
  <2>2. Pledge \in Sizes(MaxDelta)
    BY <1>1, PledgeSized DEF HedgeInv
  <2>3. \A t \in Tick : sales[t] \in 0..Pledge[t]
    <3> SUFFICES ASSUME NEW t \in Tick PROVE Selling(t) \in 0..Pledged(t)
      BY DEF Pledge
    <3>1. tick[t].order \in Nat
      BY <2>1, TickTyped
    <3> QED
      BY <2>1, <3>1 DEF Selling, Pledged, Lifted
  <2>4. sales \in Sizes(MaxDelta)
    <3> SUFFICES ASSUME NEW t \in Tick PROVE sales[t] \in 0..MaxDelta
      BY DEF Sizes
    <3>1. sales[t] \in 0..Pledge[t] /\ Pledge[t] \in 0..MaxDelta
      BY <2>2, <2>3 DEF Sizes
    <3> HIDE DEF sales
    <3> QED
      BY <2>1, <3>1
  <2>5. OnTheWay = Units(sales)
    BY DEF OnTheWay, Units
  <2> HIDE DEF sales
  <2>6. \A t \in Tick : sales[t] <= Pledge[t]
    BY <2>1, <2>2, <2>3 DEF Sizes
  <2>7. Cardinality(Units(sales)) \in Nat /\ Cardinality(Units(Pledge)) \in Nat
        /\ Cardinality(Units(sales)) <= Cardinality(Units(Pledge))
    BY <2>1, <2>2, <2>4, <2>6, UnitsFinite, UnitsMonotone
  <2>8. short + Cardinality(Units(Pledge)) <= (1 + Used) * MaxDelta + MinOrder - 1
    BY <1>1 DEF HedgeInv, PledgeBounded
  <2>9. (1 + Used) * MaxDelta \in Int
    BY <2>1
  <2>10. short + Cardinality(Units(sales)) <= (1 + Used) * MaxDelta + MinOrder - 1
    BY <2>1, <2>7, <2>8, <2>9
  <2> QED
    BY <2>5, <2>10, HedgeAssumption DEF OverhedgeBounded, Used
<1> QED
  BY <1>1, HedgeInvariant, PTL

-----------------------------------------------------------------------------
(* What an order gauged on the short leaves between it and the delta.      *)
LEMMA LiftLands ==
  ASSUME NEW long \in Nat, NEW held \in Nat, NEW least \in Nat, least >= 1,
         NEW gap \in Int, gap > 0, NEW sold, sold = IF gap < least THEN least ELSE gap,
         NEW left
  PROVE  /\ gap = long - held /\ left = held + sold => left - long \in 1 - least .. least - 1
         /\ gap = held - long /\ left = (IF held <= sold THEN 0 ELSE held - sold) =>
              left - long \in 1 - least .. least - 1
OBVIOUS

(* As long as nothing went wrong a step that changes the short lands it    *)
(* within the lift of the delta it was sized for, though the decision was  *)
(* made on an earlier reading (resolveCronRebalanceAction, then            *)
(* computeDeltaNeutralHedgeOrder on fresh reads).                          *)
THEOREM OrdersLandOnDelta == HedgeSpec => LandsOnDelta
<1> DEFINE Lands == faults' = MaxFaults /\ short' # short =>
             \E t \in Tick :
               /\ tick[t].at = "posted"
               /\ short' - tick[t].delta \in 1 - MinOrder .. MinOrder - 1
<1>1. ASSUME HedgeInv, [HedgeNext]_hedgeVars PROVE Lands
  <2> SUFFICES ASSUME faults' = MaxFaults, short' # short
               PROVE  \E t \in Tick :
                        /\ tick[t].at = "posted"
                        /\ short' - tick[t].delta \in 1 - MinOrder .. MinOrder - 1
    OBVIOUS
  <2>1. PICK t \in Tick : \E filled \in 0..tick[t].order : Execute(t, filled)
    BY <1>1 DEF HedgeNext, Step, Begin, ReadDelta, ProbeShort, Decide, SizeOrder, Fail, Send,
                Move, hedgeVars
  <2>2. PICK filled \in 0..tick[t].order : Execute(t, filled)
    BY <2>1
  <2>3. HedgeTypeOK /\ tick[t].at = "posted"
    BY <1>1, <2>2 DEF HedgeInv, Execute
  <2>4. filled = tick[t].order /\ faults = MaxFaults
    BY <2>2, <2>3, ExecuteMoves
  <2> DEFINE gap == Missing(tick[t].unwind, tick[t].delta, short)
  <2>5. gap > 0 /\ filled = IF gap < MinOrder THEN MinOrder ELSE gap
    BY <1>1, <2>3, <2>4 DEF HedgeInv, Undisturbed, Gauged, Lifted
  <2>6. MinOrder \in Nat /\ MinOrder >= 1 /\ short \in Nat /\ tick[t].delta \in Nat
    BY <2>3, BoundsTyped, TickTyped
  <2>7. CASE tick[t].unwind
    <3>1. gap = short - tick[t].delta /\ gap \in Int
      BY <2>6, <2>7 DEF Missing
    <3>2. short' = IF short <= filled THEN 0 ELSE short - filled
      BY <2>2, <2>3, <2>7, ExecuteMoves
    <3> HIDE DEF gap
    <3>3. short' - tick[t].delta \in 1 - MinOrder .. MinOrder - 1
      BY <2>5, <2>6, <3>1, <3>2, LiftLands
    <3> QED
      BY <2>3, <3>3
  <2>8. CASE ~tick[t].unwind
    <3>1. gap = tick[t].delta - short /\ gap \in Int
      BY <2>6, <2>8 DEF Missing
    <3>2. short' = short + filled
      BY <2>2, <2>3, <2>8, ExecuteMoves
    <3> HIDE DEF gap
    <3>3. short' - tick[t].delta \in 1 - MinOrder .. MinOrder - 1
      BY <2>5, <2>6, <3>1, <3>2, LiftLands
    <3> QED
      BY <2>3, <3>3
  <2> QED
    BY <2>7, <2>8
<1>2. HedgeSpec => [][HedgeNext]_hedgeVars
  BY PTL DEF HedgeSpec
<1> HIDE DEF Lands
<1>3. HedgeSpec => [][Lands]_hedgeVars
  BY <1>1, <1>2, HedgeInvariant, PTL
<1> QED
  BY <1>3, Zenon DEF LandsOnDelta, Lands
=============================================================================
