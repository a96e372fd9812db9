--------------------------- MODULE AuthorizedCalls ---------------------------
(***************************************************************************)
(* What the gate and its executors promise an outside observer, who sees   *)
(* whole transactions: attestations are spent, never unspent; a call is    *)
(* made only in the transaction that spends its attestation; and nothing   *)
(* is spent while the gate is halted.                                      *)
(***************************************************************************)
CONSTANT Attestation

VARIABLES
  spent,        \* attestations used up
  made,         \* attestations whose call was made
  halted

absVars == <<spent, made, halted>>

Init ==
  /\ spent = {}
  /\ made = {}
  /\ halted = FALSE

Transaction ==
  /\ ~halted
  /\ spent' \in SUBSET Attestation
  /\ spent \subseteq spent'
  /\ made \subseteq made'
  /\ made' \ made \subseteq spent' \ spent
  /\ UNCHANGED halted

SwitchHalt ==
  /\ halted' = ~halted
  /\ UNCHANGED <<spent, made>>

Next == Transaction \/ SwitchHalt

Spec == Init /\ [][Next]_absVars
=============================================================================
