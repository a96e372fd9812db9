----------------------------- MODULE GasLedger -----------------------------
(***************************************************************************)
(* The ledger of sponsored gas (src/adapters/arbitrum/zerodev-aa/): after  *)
(* the receipt of a sponsored user operation its estimate is added to what *)
(* KV holds then, and the sum is put back.  Each isolate has a copy of its *)
(* own, which the risk gate reads to grant sponsorship; the operation      *)
(* itself is sent, sponsored by default, without asking the gate, so the   *)
(* ledger caps nothing; and what it really cost never enters the ledger.   *)
(* The paymaster and the chain are external.                               *)
(* Abstracted: dollars are units; KV answers with what it holds when it    *)
(* answers; the copies' windows of a day close together.                   *)
(***************************************************************************)
EXTENDS Integers, Isolates

CONSTANTS
  Op,                   \* bound: user operations under way at once
  MaxCost,              \* MAX_GAS_COST_PER_USEROP_USD
  MaxRecorded           \* bound: what is recorded in a window before the last

ASSUME GasAssumption == MaxCost \in Nat \ {0} /\ MaxRecorded \in Nat

Cost == 1..MaxCost

VARIABLES
  ledger,               \* cumulativeSpentUsd in KV
  memoryLedger,         \* and in each isolate
  op,                   \* per operation: step, isolate, estimate, sum to put
  recorded,             \* history: the estimates added to some ledger
  apart                 \* history: records never overlapped and reached KV

gasVars == <<ledger, memoryLedger, op, recorded, apart>>

NoOp == [at |-> "none"]
Recording(o) == op[o].at \in {"load", "add", "put"}

GasInit ==
  /\ ledger = 0 /\ memoryLedger = [i \in Isolate |-> 0]
  /\ op = [o \in Op |-> NoOp]
  /\ recorded = 0 /\ apart = TRUE

(* sendZeroDevUserOp: the paymaster signs, whatever the ledger says.       *)
Send(o, i, estimate) ==
  /\ op[o] = NoOp /\ recorded < MaxRecorded
  /\ op' = [op EXCEPT ![o] =
              [at |-> "sent", isolate |-> i, estimate |-> estimate, sum |-> 0]]
  /\ UNCHANGED <<ledger, memoryLedger, recorded, apart>>

(* loadGasLedgerFromKv: the record, or the copy in memory when KV fails    *)
(* or has none.                                                            *)
Load(i, found) ==
  memoryLedger' = [memoryLedger EXCEPT ![i] = IF found THEN ledger ELSE @]

(* assertCitadelRiskGateAsync, whose grant is a verdict and no more.       *)
GateLoads(i) ==
  /\ Load(i, TRUE)
  /\ UNCHANGED <<ledger, op, recorded, apart>>

(* Mutation: the ledger is added to without being loaded.                  *)
ReceiptSkipsLoad(o) ==
  /\ op[o].at = "sent"
  /\ op' = [op EXCEPT ![o].at = "add"]
  /\ apart' = (apart /\ ~\E p \in Op : Recording(p))
  /\ UNCHANGED <<ledger, memoryLedger, recorded>>

(* A receipt of success starts recordSponsoredGasSpendKv.                  *)
Receipt(o) ==
  /\ op[o].at = "sent"
  /\ op' = [op EXCEPT ![o].at = "load"]
  /\ apart' = (apart /\ ~\E p \in Op : Recording(p))
  /\ UNCHANGED <<ledger, memoryLedger, recorded>>

(* recordSponsoredGasSpend, on the one module variable of the isolate.     *)
Spend(i, estimate) ==
  /\ memoryLedger' = [memoryLedger EXCEPT ![i] = @ + estimate]
  /\ recorded' = recorded + estimate

(* A caller without a KV binding: the copy in memory alone.                *)
ReceiptInMemory(o) ==
  /\ op[o].at = "sent"
  /\ apart' = FALSE
  /\ Spend(op[o].isolate, op[o].estimate)
  /\ op' = [op EXCEPT ![o] = NoOp]
  /\ UNCHANGED ledger

(* A revert, paid for all the same, a receipt after the timeout, or a      *)
(* caller without an estimate: nothing is recorded.                        *)
Unrecorded(o) ==
  /\ op[o].at = "sent"
  /\ op' = [op EXCEPT ![o] = NoOp]
  /\ UNCHANGED <<ledger, memoryLedger, recorded, apart>>

Reload(o, found) ==
  /\ op[o].at = "load"
  /\ Load(op[o].isolate, found)
  /\ apart' = (apart /\ memoryLedger'[op[o].isolate] = ledger)
  /\ op' = [op EXCEPT ![o].at = "add"]
  /\ UNCHANGED <<ledger, recorded>>

(* The put starts with the sum as it is now.                               *)
Add(o) ==
  /\ op[o].at = "add"
  /\ Spend(op[o].isolate, op[o].estimate)
  /\ op' = [op EXCEPT ![o].at = "put", ![o].sum = memoryLedger'[op[o].isolate]]
  /\ UNCHANGED <<ledger, apart>>

(* A put that fails is logged.                                             *)
Put(o, done) ==
  /\ op[o].at = "put"
  /\ ledger' = IF done THEN op[o].sum ELSE ledger
  /\ apart' = (apart /\ done)
  /\ op' = [op EXCEPT ![o] = NoOp]
  /\ UNCHANGED <<memoryLedger, recorded>>

(* normalizeGasLedgerSnapshot, when a day has passed: every copy reads as  *)
(* fresh, that of a put under way as well.                                 *)
WindowCloses ==
  /\ ledger' = 0 /\ memoryLedger' = [i \in Isolate |-> 0]
  /\ op' = [o \in Op |-> IF op[o] = NoOp THEN NoOp ELSE [op[o] EXCEPT !.sum = 0]]
  /\ recorded' = 0
  /\ apart' = (apart \/ \A o \in Op : ~Recording(o))

GasNext ==
  \/ \E o \in Op, i \in Isolate, estimate \in Cost : Send(o, i, estimate)
  \/ \E o \in Op : Receipt(o) \/ ReceiptInMemory(o) \/ Unrecorded(o)
  \/ \E o \in Op, kv \in BOOLEAN : Reload(o, kv) \/ Put(o, kv)
  \/ \E o \in Op : Add(o)
  \/ \E i \in Isolate : GateLoads(i)
  \/ WindowCloses

GasSpec == GasInit /\ [][GasNext]_gasVars

-----------------------------------------------------------------------------
(* No order of loads, adds and puts of the isolates counts an estimate     *)
(* twice, so that the gate refuses none too early; and records that do not *)
(* overlap and reach KV are all in it, whichever isolate made them, with   *)
(* gate loads in between.  (zerodev-aa-gas-ledger.ts:166: of two records   *)
(* that overlap, KV may keep one.)                                         *)
LedgerAddsUp ==
  /\ ledger <= recorded /\ \A i \in Isolate : memoryLedger[i] <= recorded
  /\ apart /\ (\A o \in Op : op[o].at # "put") => ledger = recorded
=============================================================================
