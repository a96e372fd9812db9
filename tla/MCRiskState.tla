---------------------------- MODULE MCRiskState ----------------------------
(* Two saves that may overlap and one market state besides the process's   *)
(* own; a cool-down and a TTL of two ticks on a clock of three, so         *)
(* recoveries happen before, at and after the end of the cool-down and a   *)
(* record lives, expires and is put again.                                 *)
EXTENDS RiskState, TLC

Symmetry == Permutations(Saver)
=============================================================================
