---------------------------- MODULE WorkerParts ----------------------------
(***************************************************************************)
(* The parts of the worker that keep state of their own next to the risk   *)
(* state, side by side.  They share no variable with one another, so that  *)
(* an interleaving of two parts shows of each what it does alone: in a     *)
(* behaviour one part moves, and the states are the sum of theirs, not the *)
(* product.                                                                *)
(***************************************************************************)
EXTENDS MonotonicClock, ProtocolMask, ClaimOrderId, GasLedger, IntentRing, MakerChase

VARIABLE part           \* the part that moves

workerVars == <<part, clockVars, markVars, maskVars, claimVars, gasVars, ringVars,
                chaseVars>>

WorkerInit ==
  /\ part \in {"clock", "mask", "claim", "gas", "ring", "chase"}
  /\ ClockInit /\ MaskInit /\ ClaimInit /\ GasInit /\ RingInit /\ ChaseInit

WorkerNext ==
  /\ part' = part
  /\ \/ /\ part = "clock" /\ ClockNext
        /\ UNCHANGED <<maskVars, claimVars, gasVars, ringVars, chaseVars>>
     \/ /\ part = "mask" /\ MaskNext
        /\ UNCHANGED <<clockVars, markVars, claimVars, gasVars, ringVars, chaseVars>>
     \/ /\ part = "claim" /\ ClaimNext
        /\ UNCHANGED <<clockVars, markVars, maskVars, gasVars, ringVars, chaseVars>>
     \/ /\ part = "gas" /\ GasNext
        /\ UNCHANGED <<clockVars, markVars, maskVars, claimVars, ringVars, chaseVars>>
     \/ /\ part = "ring" /\ RingNext
        /\ UNCHANGED <<clockVars, markVars, maskVars, claimVars, gasVars, chaseVars>>
     \/ /\ part = "chase" /\ ChaseNext
        /\ UNCHANGED <<clockVars, markVars, maskVars, claimVars, gasVars, ringVars>>

WorkerSpec == WorkerInit /\ [][WorkerNext]_workerVars
=============================================================================
