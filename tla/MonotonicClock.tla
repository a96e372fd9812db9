--------------------------- MODULE MonotonicClock ---------------------------
(***************************************************************************)
(* The process clock and the RPC watermark                                 *)
(* (src/core/monotonic-time.ts and monotonic-rpc-watermark.ts, the same    *)
(* algorithm in src/wasm/clock_core.rs).  One clock serves every caller:   *)
(* risk-engine-soil.ts feeds it the timestamp of a quote when there is one *)
(* and Date.now() when there is none, so its input goes up and down.       *)
(***************************************************************************)
EXTENDS Integers

CONSTANTS
  MaxForwardStep,       \* maxForwardStepMs
  Wall,                 \* the wall times read, bound
  MaxVirtual,           \* bound on the virtual time
  Block, Stamp          \* block numbers and timestamps ingested, bound

ASSUME ClockAssumption ==
  /\ MaxForwardStep \in Nat
  /\ MaxVirtual \in Nat
  /\ Wall \subseteq Nat \ {0}
  /\ Block \subseteq Nat \ {0}
  /\ Stamp \subseteq Nat

VARIABLES
  last, offset,         \* memoryBuffer of the clock; 0: never read
  anomaly,              \* stickyAnomaly
  raw,                  \* history: what the last read was given
  heldBlock, heldStamp, \* memoryBuffer of the watermark; 0: none held
  regression,           \* the last answer of ingest
  seen                  \* history: the blocks ingested, with their stamps

clockVars == <<last, offset, anomaly, raw>>
markVars == <<heldBlock, heldStamp, regression, seen>>

ClockInit ==
  /\ last = 0 /\ offset = 0 /\ anomaly = "none" /\ raw = 0
  /\ heldBlock = 0 /\ heldStamp = 0 /\ regression = FALSE /\ seen = {}

Candidate(w) == w + offset

(* Mutation: a forward leap is cut without moving the offset.              *)
ReadForgetsOffset(w) ==
  /\ raw' = w
  /\ LET candidate == Candidate(w)
     IN \/ /\ last # 0 /\ candidate < last
           /\ offset' = offset + (last - candidate)
           /\ anomaly' = "CLOCK_NEGATIVE_LEAP_DETECTED"
           /\ UNCHANGED last
        \/ /\ last # 0 /\ candidate - last > MaxForwardStep
           /\ last' = last + MaxForwardStep
           /\ anomaly' = "CLOCK_EXCESSIVE_FORWARD_STEP"
           /\ UNCHANGED offset
        \/ /\ last = 0 \/ candidate - last \in 0..MaxForwardStep
           /\ last' = candidate
           /\ UNCHANGED <<offset, anomaly>>
  /\ UNCHANGED markVars

(* read: a step back or a leap ahead moves the offset, so that the next    *)
(* wall time continues from the time given now.                            *)
Read(w) ==
  /\ last < MaxVirtual
  /\ raw' = w
  /\ LET candidate == Candidate(w)
     IN \/ /\ last # 0 /\ candidate < last
           /\ offset' = offset + (last - candidate)
           /\ anomaly' = "CLOCK_NEGATIVE_LEAP_DETECTED"
           /\ UNCHANGED last
        \/ /\ last # 0 /\ candidate - last > MaxForwardStep
           /\ last' = last + MaxForwardStep
           /\ offset' = offset + (last + MaxForwardStep - candidate)
           /\ anomaly' = "CLOCK_EXCESSIVE_FORWARD_STEP"
        \/ /\ last = 0 \/ candidate - last \in 0..MaxForwardStep
           /\ last' = candidate
           /\ UNCHANGED <<offset, anomaly>>
  /\ UNCHANGED markVars

(* Mutation: the same block, seen from a node behind, is a regression too. *)
IngestSameBlock(b, t) ==
  LET regressed == heldBlock # 0 /\ b >= heldBlock /\ t < heldStamp
  IN /\ regression' = regressed
     /\ IF regressed \/ b < heldBlock THEN UNCHANGED <<heldBlock, heldStamp>>
        ELSE /\ heldBlock' = b
             /\ heldStamp' = IF t > heldStamp THEN t ELSE heldStamp
     /\ seen' = seen \cup {<<b, t>>}
     /\ UNCHANGED clockVars

(* ingest: a later block with an earlier time is refused, an older block   *)
(* is ignored.  Block 0 would read as "none held": see Block.              *)
Ingest(b, t) ==
  LET regressed == heldBlock # 0 /\ b > heldBlock /\ t < heldStamp
  IN /\ regression' = regressed
     /\ IF regressed \/ b < heldBlock THEN UNCHANGED <<heldBlock, heldStamp>>
        ELSE /\ heldBlock' = b
             /\ heldStamp' = IF t > heldStamp THEN t ELSE heldStamp
     /\ seen' = seen \cup {<<b, t>>}
     /\ UNCHANGED clockVars

ClockNext == \/ \E w \in Wall : Read(w)
             \/ \E b \in Block, t \in Stamp : Ingest(b, t)

ClockSpec == ClockInit /\ [][ClockNext]_<<clockVars, markVars>>

-----------------------------------------------------------------------------
(* The clock never goes back, never jumps by more than one step, and after *)
(* whatever correction it moves exactly as its source again: it keeps its  *)
(* distance to it.  It says nothing of that distance, by which the ages    *)
(* of risk-engine-soil.ts, a virtual time less a raw stamp, are off.       *)
ClockFollows ==
  [][last # 0 => /\ last' - last \in 0..MaxForwardStep
                 /\ raw' - raw \in 0..MaxForwardStep
                      => last' - last = raw' - raw]_clockVars

(* RPC nodes answer late, twice and out of order: a regression is reported *)
(* only of a chain that does go back (some lower block seen has a later    *)
(* time), so nodes that lag behind one another never raise it, and the     *)
(* time held never falls.                                                  *)
WatermarkSound ==
  [][/\ heldStamp' >= heldStamp
     /\ \A b \in Block, t \in Stamp :
          Ingest(b, t) /\ regression' => \E s \in seen : s[1] < b /\ s[2] > t]_markVars
=============================================================================
