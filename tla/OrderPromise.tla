---------------------------- MODULE OrderPromise ----------------------------
(***************************************************************************)
(* What whoever places an order may rely on, with no nonces, endpoints or  *)
(* messages: it fills once at most, "filled" is told only of one that did, *)
(* and one that was told "refused" has not filled and never will.          *)
(* SignedOrders implements it.                                             *)
(***************************************************************************)
EXTENDS Naturals

CONSTANT Order

VARIABLES
  fills,     \* how often each order filled
  told       \* what its caller was told, "nothing" so far

orderPromiseVars == <<fills, told>>

OrderPromiseInit ==
  /\ fills = [o \in Order |-> 0]
  /\ told = [o \in Order |-> "nothing"]

(* At any time, told "unknown" or not, but not once it was refused.        *)
Fill(o) ==
  /\ fills[o] = 0 /\ told[o] # "refused"
  /\ fills' = [fills EXCEPT ![o] = 1]
  /\ UNCHANGED told

Tell(o, report) ==
  /\ told[o] = "nothing"
  /\ report = "filled" => fills[o] = 1
  /\ report = "refused" => fills[o] = 0
  /\ told' = [told EXCEPT ![o] = report]
  /\ UNCHANGED fills

OrderPromiseNext ==
  \E o \in Order : \/ Fill(o)
                   \/ \E report \in {"filled", "refused", "unknown"} : Tell(o, report)

Promise == OrderPromiseInit /\ [][OrderPromiseNext]_orderPromiseVars
=============================================================================
