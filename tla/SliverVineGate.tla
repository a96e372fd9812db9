--------------------------- MODULE SliverVineGate ---------------------------
(***************************************************************************)
(* The gate itself (SliverVineGate.sol, SliverVineGateLib.sol): a risk     *)
(* attestation signed by a quorum is accepted once, from its subject only, *)
(* while it is fresh and the gate is not halted.                           *)
(*                                                                         *)
(* EIP-712 hashing is injective on one chain, so an attestation stands for *)
(* its digest.  ecrecover is abstract: SignedBy[a] is the set of keys that *)
(* signed a, a signature list is the list of the addresses it recovers to, *)
(* and a malformed signature recovers to the zero address.  Signatures are *)
(* never withdrawn, so SignedBy does not depend on time.  Which of several *)
(* failing checks names the denial is left out: a denial changes nothing.  *)
(***************************************************************************)
EXTENDS GateAuth, Sequences

CONSTANTS
  Attestation,      \* the attestations presented to the gate
  SignedBy,         \* [Attestation -> SUBSET Key]
  Caller,           \* the addresses that call verifyAndConsume
  MAX_TTL, MAX_FUTURE_SKEW

VERDICT_ALLOW == 1
MAX_RISK_BPS == 10000

ASSUME AttestationAssumption ==
  /\ \A a \in Attestation :
       /\ a.subject \in Nat
       /\ a.verdict \in Nat
       /\ a.riskBps \in Nat
       /\ a.issuedAt \in Nat
       /\ a.expiresAt \in Nat
  /\ SignedBy \in [Attestation -> SUBSET Key]

(* 30 s + 2 s against one hour in the code.                                *)
ASSUME TtlAssumption ==
  /\ MAX_TTL \in Nat
  /\ MAX_FUTURE_SKEW \in Nat
  /\ MAX_TTL + MAX_FUTURE_SKEW < UNHALT_DELAY

VARIABLES consumed      \* {a : consumed[hashAttestation(a)]}

gateVars == <<now, authVars, consumed>>

(* Everything a caller can pass as "signatures", one past the limit.       *)
SignatureList(a) ==
  UNION {[1..n -> SignedBy[a] \cup {ZERO}] : n \in 0..(MAX_SIGNATURES + 1)}

(* Mutation: equal neighbours pass.                                        *)
SignaturesOkTwice(sigs) ==
  /\ \A i \in DOMAIN sigs : sigs[i] # ZERO /\ sigs[i] \in signers
  /\ \A i, j \in DOMAIN sigs : i < j => sigs[i] <= sigs[j]

(* The loop over the signatures: each recovers to a current signer and is  *)
(* greater than the previous one ("last"), hence greater than all before.  *)
SignaturesOk(sigs) ==
  /\ \A i \in DOMAIN sigs : sigs[i] # ZERO /\ sigs[i] \in signers
  /\ \A i, j \in DOMAIN sigs : i < j => sigs[i] < sigs[j]

(* Mutation: no bound on the lifetime.                                     *)
FreshForever(a) ==
  /\ a.expiresAt > a.issuedAt
  /\ a.issuedAt <= now + MAX_FUTURE_SKEW
  /\ now <= a.expiresAt

Fresh(a) ==
  /\ a.expiresAt > a.issuedAt
  /\ a.expiresAt - a.issuedAt <= MAX_TTL
  /\ a.issuedAt <= now + MAX_FUTURE_SKEW
  /\ now <= a.expiresAt

(* validate(): TRUE where it returns no reason.                            *)
Allows(a, sigs, caller) ==
  /\ ~halted
  /\ caller = a.subject
  /\ a.verdict = VERDICT_ALLOW
  /\ a.riskBps <= MAX_RISK_BPS
  /\ Fresh(a)
  /\ Len(sigs) <= MAX_SIGNATURES
  /\ Len(sigs) >= threshold
  /\ a \notin consumed
  /\ SignaturesOk(sigs)

(* Mutation: the digest is checked but never stored.                       *)
NoBurn(a) == UNCHANGED consumed

Burn(a) == consumed' = consumed \cup {a}

VerifyAndConsume(caller, a, sigs) ==
  /\ Allows(a, sigs, caller)
  /\ Burn(a)
  /\ UNCHANGED <<now, authVars>>

-----------------------------------------------------------------------------
GateInit ==
  /\ InitAuth
  /\ consumed = {}

GateNext ==
  \/ Tick /\ UNCHANGED consumed
  \/ \E c \in Account : AuthCall(c) /\ UNCHANGED consumed
  \/ \E c \in Caller, a \in Attestation :
       \E sigs \in SignatureList(a) : VerifyAndConsume(c, a, sigs)

GateSpec == GateInit /\ [][GateNext]_gateVars

-----------------------------------------------------------------------------
GateTypeOK ==
  /\ AuthTypeOK
  /\ consumed \in SUBSET Attestation

(* An attestation is accepted only if at least threshold distinct keys     *)
(* that signed it are signers at that moment: keys rotated out since they  *)
(* signed, duplicates and foreign signatures do not count.                 *)
QuorumApproved ==
  [][\A a \in consumed' \ consumed :
       Cardinality(SignedBy[a] \cap signers) >= threshold]_gateVars

(* A halt revokes everything outstanding: no attestation that was, or      *)
(* could have been, acceptable when the gate was last halted is accepted   *)
(* after the gate re-opens.  It follows from the unhalt delay outlasting   *)
(* an attestation's life and from nothing the halt itself records.         *)
HaltRevokesOutstanding ==
  [][\A a \in consumed' \ consumed :
       a.issuedAt > lastHaltAt + MAX_FUTURE_SKEW]_gateVars
=============================================================================
