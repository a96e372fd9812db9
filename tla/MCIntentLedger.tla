--------------------------- MODULE MCIntentLedger ---------------------------
(* Bounds for checking IntentLedger: leg 1 trades through the session key, *)
(* leg 2 at another venue; a TTL of one tick on a clock of two, so commits *)
(* come in time and too late.                                              *)
EXTENDS IntentLedger, TLC

CONSTANTS I1, I2, C1, C2

TwoCallers == {C1, C2}
=============================================================================
