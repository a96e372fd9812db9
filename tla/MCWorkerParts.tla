--------------------------- MODULE MCWorkerParts ---------------------------
(* Two isolates over one KV; a clock that goes back, stands and leaps; a   *)
(* ring with a slot of its own for a second key; three chase attempts of   *)
(* two lots.                                                               *)
EXTENDS WorkerParts, TLC

Alike == Permutations(Isolate) \cup Permutations(Bit)
=============================================================================
