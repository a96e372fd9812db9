---------------------------- MODULE MCHedgeCron ----------------------------
(* Two ticks at a time; the dead band, the least order and the cap are     *)
(* small enough for a lifted order and a refused one.                      *)
EXTENDS HedgeCron
=============================================================================
