-------------------------- MODULE MCSliverVineGate --------------------------
(* Instances of the gate for TLC.  Delays keep the order of the code's:    *)
(* MAX_FUTURE_SKEW < MAX_TTL < UNHALT_DELAY < SIGNER_TIMELOCK.             *)
EXTENDS SliverVineGate

Att(subject, verdict, issuedAt, expiresAt, nonce) ==
  [subject |-> subject, verdict |-> verdict, riskBps |-> 100,
   issuedAt |-> issuedAt, expiresAt |-> expiresAt, nonce |-> nonce]

(* One attestation per situation: acceptable at deployment, acceptable    *)
(* after a halt and a rotation, and living far too long.                   *)
MCAttestation == {Att(1, 1, 0, 1, 1), Att(1, 1, 5, 6, 2), Att(1, 1, 0, 6, 3)}

(* Key 3, not a signer at first, signed the late attestation, key 2 the    *)
(* others, key 1 everything.                                               *)
MCSignedBy ==
  [a \in MCAttestation |-> IF a.nonce = 2 THEN {1, 3} ELSE {1, 2}]
=============================================================================
