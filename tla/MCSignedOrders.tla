--------------------------- MODULE MCSignedOrders ---------------------------
(* Two orders, one of which may rest, two endpoints, and a heartbeat that  *)
(* expires within the clock, before, between and after the orders.         *)
EXTENDS SignedOrders
=============================================================================
