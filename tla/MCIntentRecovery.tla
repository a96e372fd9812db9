-------------------------- MODULE MCIntentRecovery --------------------------
(* Bounds for checking IntentRecovery: two intents, so a boot unwinds one  *)
(* and then the other; a TTL of one tick on a clock of two and two         *)
(* evictions, so a boot is interrupted and started again.                  *)
EXTENDS IntentRecovery
=============================================================================
