--------------------------- MODULE IntentPromise ---------------------------
(***************************************************************************)
(* What the two-phase intent ledger promises its callers, with no awaits:  *)
(* an intent is prepared with both venue legs or with none, is decided     *)
(* once, and a leg that an abort leaves behind is declared by the hardlock *)
(* mark on the record.  IntentLedger implements it.                        *)
(***************************************************************************)
CONSTANT Intents

Legs == {1, 2}
Phases == {"absent", "PENDING", "PREPARED", "COMMITTED", "ABORTED"}

VARIABLES
  phase,     \* the phase of the stored record
  held,      \* the legs the venues hold for the intent
  marked     \* the hardlocked mark of the record

promiseVars == <<phase, held, marked>>

PromiseInit ==
  /\ phase = [i \in Intents |-> "absent"]
  /\ held = [i \in Intents |-> {}]
  /\ marked = [i \in Intents |-> FALSE]

Open(i) ==
  /\ phase[i] = "absent"
  /\ phase' = [phase EXCEPT ![i] = "PENDING"]
  /\ UNCHANGED <<held, marked>>

Hedge(i) ==
  /\ phase[i] = "PENDING"
  /\ phase' = [phase EXCEPT ![i] = "PREPARED"]
  /\ held' = [held EXCEPT ![i] = Legs]
  /\ UNCHANGED marked

Confirm(i) ==
  /\ phase[i] = "PREPARED"
  /\ phase' = [phase EXCEPT ![i] = "COMMITTED"]
  /\ UNCHANGED <<held, marked>>

(* An abort closes every leg, or marks the record and keeps some.          *)
Unwind(i) ==
  /\ phase[i] \in {"PENDING", "PREPARED"}
  /\ phase' = [phase EXCEPT ![i] = "ABORTED"]
  /\ \E left \in SUBSET Legs :
       /\ held' = [held EXCEPT ![i] = left]
       /\ marked' = [marked EXCEPT ![i] = (left # {})]

PromiseNext == \E i \in Intents : Open(i) \/ Hedge(i) \/ Confirm(i) \/ Unwind(i)

Promise == PromiseInit /\ [][PromiseNext]_promiseVars
=============================================================================
