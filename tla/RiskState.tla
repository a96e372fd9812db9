----------------------------- MODULE RiskState -----------------------------
(***************************************************************************)
(* The risk state of an isolate together with its KV record, on one clock. *)
(* Two calls change the process and then save what they made of it: the    *)
(* flatten escalation (core/intent-ledger/flatten-hardlock.ts) and the     *)
(* master release (unlock-reauthorization.ts); the process goes on while   *)
(* the save awaits KV.  GET /api/data saves a state of its own, built from *)
(* the market (api/data-lib/data-core.ts).  An eviction takes the calls of *)
(* the isolate with it and leaves the record.                              *)
(*                                                                         *)
(* A worker without a KV binding saves nothing: those are the steps of     *)
(* SystemState alone.  Of the market signals only the CRI is kept; a CRI   *)
(* of zero makes the handler throw before it saves.                        *)
(***************************************************************************)
EXTENDS SystemStateKv

CONSTANTS
  Balance,        \* account balances
  MarketCri       \* what deriveCriFromRiskSignals answers, above zero

ASSUME RiskAssumption == Balance \subseteq Nat /\ MarketCri \subseteq (CRI_MIN + 1)..CRI_MAX

riskVars == <<sysVars, kvVars>>

(* What of the process state a record holds.                               *)
Saved(s, b) == [balance |-> b, cri |-> s.cri, hardlock |-> s.hardlock, open |-> s.open]

MarketState(b, cri) == [balance |-> b, cri |-> cri, hardlock |-> FALSE, open |-> TRUE]

(* The end of runCompensatingFlattenWithHardlock after a failed leg.       *)
EscalateAndSave(s, b) == SeverPipeline("R20") /\ ReadForSave(s, Saved(sys', b))

ReleaseAndSave(s, b) == Release /\ ReadForSave(s, Saved(sys', b))

PublishMarket(s, b, cri) ==
  /\ ReadForSave(s, MarketState(b, cri))
  /\ UNCHANGED sysVars

PutReturns(s) == (PutSaved(s) \/ PutFails(s)) /\ UNCHANGED sysVars

Evicted ==
  /\ Restart
  /\ saving' = {}
  /\ call' = [s \in Saver |-> NoCall]
  /\ UNCHANGED kv

RiskInit == SysInit /\ KvInit

RiskNext ==
  \/ \E s \in Saver, b \in Balance : EscalateAndSave(s, b) \/ ReleaseAndSave(s, b)
  \/ \E s \in Saver, b \in Balance, c \in MarketCri : PublishMarket(s, b, c)
  \/ \E s \in Saver : PutReturns(s)
  \/ IsolateStep /\ UNCHANGED kvVars
  \/ Evicted

RiskSpec == RiskInit /\ [][RiskNext]_riskVars

-----------------------------------------------------------------------------
(* system-state.ts:24: the merge is conservative.  A live locked record is *)
(* replaced by an unlocked one in one way only: by the put of a save whose *)
(* get failed, or that another put has overtaken since its get.  Refused   *)
(* puts, skipped ones, expiries, evictions and whatever the process does   *)
(* while a save is on its way never unlock it.                             *)
KvKeepsLock ==
  [][Live /\ kv.state.hardlock /\ Live' /\ ~kv'.state.hardlock
       => \E s \in saving \ saving' : ~call[s].sound]_riskVars
=============================================================================
