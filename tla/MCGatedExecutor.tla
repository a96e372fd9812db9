--------------------------- MODULE MCGatedExecutor ---------------------------
(* Two executors, an account (1), a contract that calls back (31), a plain *)
(* target (32) and the gate (20).  One signer: quorums are the gate's runs.*)
EXTENDS GatedExecutor

Att(subject, payload, nonce) ==
  [subject |-> subject, verdict |-> 1, riskBps |-> 100, issuedAt |-> 0,
   expiresAt |-> 1, payload |-> payload, nonce |-> nonce]

Order(e, initiator, target, nonce) ==
  Att(e, PayloadHash(e, initiator, target, "d", nonce), nonce)

(* The account's call through executor 21 into the contract; the           *)
(* contract's calls back through 21 and through 22; the account's call of  *)
(* the gate through 22; a call of a target executor 21 does not permit; an *)
(* attestation issued to the contract itself.                              *)
MCAttestation ==
  {Order(21, 1, 31, 1), Order(21, 31, 32, 2), Order(22, 31, 31, 3),
   Order(22, 1, 20, 4), Order(21, 1, 20, 5), Att(31, <<>>, 6)}

MCSignedBy == [a \in MCAttestation |-> {1}]
MCRestrict == [e \in {21, 22} |-> e = 21]
MCAllowed == [e \in {21, 22} |-> {31, 32}]
=============================================================================
