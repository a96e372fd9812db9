--------------------------- MODULE SystemStateKv ---------------------------
(***************************************************************************)
(* The KV record of the risk state (src/services/kv-lib/system-state.ts,   *)
(* stateManager.ts).  A save reads the record, merges, and puts the result *)
(* after an await; the flatten escalation, the /api/data handler and the   *)
(* master release all save, in isolates of their own, and KV has no        *)
(* compare-and-set.  A request to /api/data may start two saves and awaits *)
(* neither, so saves overlap.                                              *)
(*                                                                         *)
(* Abstracted: the fields that buildSystemState derives from balance and   *)
(* CRI (dynamicMaxSL, HUD, equilibrium); a record's savedAt.  KV itself is *)
(* external: get, put with a TTL, eventual consistency left out.           *)
(***************************************************************************)
EXTENDS SystemState

CONSTANTS
  Saver,          \* concurrent calls of saveSystemStateToKV
  SYSTEM_STATE_TTL

StateRecords == [balance : Nat, cri : CRI_MIN..CRI_MAX, hardlock : BOOLEAN, open : BOOLEAN]

ASSUME KvAssumption == SYSTEM_STATE_TTL \in Nat \ {0}

VARIABLES
  kv,              \* [state, expiresAt] under KV_KEYS.SYSTEM_STATE; absent once expired
  saving,          \* the calls between their get and their put
  call             \* per saver: [payload, found, existing], what it holds meanwhile,
                   \* and (history) sound: what it read is still what KV answers

kvVars == <<kv, saving, call>>

HealthyState == [balance |-> 0, cri |-> CRI_MAX, hardlock |-> FALSE, open |-> TRUE]

Calls ==
  [payload : StateRecords, found : BOOLEAN, existing : StateRecords, sound : BOOLEAN]

(* The locals of a call that is not running.                               *)
NoCall ==
  [payload |-> HealthyState, found |-> FALSE, existing |-> HealthyState, sound |-> FALSE]

Lesser(a, b) == IF a <= b THEN a ELSE b

(* Mutation: the newer record decides.                                     *)
MergeLastWins(local, remote) == remote

(* mergeSystemStateRecords: the channel follows the lock alone.            *)
Merge(local, remote) ==
  LET cri  == Lesser(local.cri, remote.cri)
      lock == local.hardlock \/ remote.hardlock \/ cri <= CRI_MIN
  IN [balance |-> Lesser(local.balance, remote.balance),
      cri |-> cri, hardlock |-> lock, open |-> ~lock]

(* extractCriticalKvFlags: what makes a put worth its cost.                *)
CriticalFlags(s) ==
  [circuitBreaker |-> ~s.open \/ s.hardlock,
   rootProtection |-> s.hardlock \/ s.cri <= CRI_MIN,
   cri            |-> s.cri]

(* A get finds nothing once the TTL is over.                               *)
Live == now < kv.expiresAt

-----------------------------------------------------------------------------
KvInit ==
  /\ kv = [state |-> HealthyState, expiresAt |-> 0]
  /\ saving = {}
  /\ call = [s \in Saver |-> NoCall]

(* The get of a save, up to its await.  readSystemStateFromKV answers null *)
(* for a record that is absent and for a get or a parse that fails.        *)
ReadForSave(s, p) ==
  /\ s \notin saving
  /\ saving' = saving \cup {s}
  /\ \E found \in BOOLEAN :
       /\ found => Live
       /\ call' = [call EXCEPT ![s] =
            [payload |-> p, found |-> found, sound |-> (found <=> Live),
             existing |-> IF found THEN kv.state ELSE HealthyState]]
  /\ UNCHANGED <<kv, now>>

ToSave(c) == IF c.found THEN Merge(c.existing, c.payload) ELSE c.payload

Skipped(c) ==
  c.found /\ CriticalFlags(c.existing) = CriticalFlags(ToSave(c))

(* The rest of it: skip an unchanged record, else put with a fresh TTL.    *)
PutSaved(s) ==
  /\ s \in saving
  /\ saving' = saving \ {s}
  /\ IF Skipped(call[s])
       THEN kv' = kv /\ call' = [call EXCEPT ![s] = NoCall]
       ELSE /\ kv' = [state |-> ToSave(call[s]), expiresAt |-> now + SYSTEM_STATE_TTL]
            /\ call' = [t \in Saver |-> IF t = s THEN NoCall
                                        ELSE [call[t] EXCEPT !.sound = FALSE]]
  /\ UNCHANGED now

(* A put that KV refuses (429) is swallowed; the caller sees ok:false.     *)
PutFails(s) ==
  /\ s \in saving
  /\ saving' = saving \ {s}
  /\ call' = [call EXCEPT ![s] = NoCall]
  /\ UNCHANGED <<kv, now>>

-----------------------------------------------------------------------------
KvTypeOK ==
  /\ kv \in [state : StateRecords, expiresAt : Nat]
  /\ saving \subseteq Saver
  /\ call \in [Saver -> Calls]
=============================================================================
