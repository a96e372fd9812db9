----------------------------- MODULE MCHlSocket -----------------------------
(* Three sockets: two that overlap and the one the pending reconnect opens *)
(* next to them; a subscription made before, between and after the opens.  *)
EXTENDS HlSocket
=============================================================================
