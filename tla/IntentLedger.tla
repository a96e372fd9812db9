---------------------------- MODULE IntentLedger ----------------------------
(***************************************************************************)
(* The two-phase ledger of cross-leg intents (src/core/intent-ledger) with *)
(* the Hyperliquid bridge as its leg handlers (adapters/hl) and the        *)
(* black-swan emergency flatten, over the risk state of one isolate.       *)
(*                                                                         *)
(* A call clones the record, works on the clone across its awaits and      *)
(* stores it at the end.  What runs between two awaits is one step; other  *)
(* calls and the writers of the risk state run in between.                 *)
(*                                                                         *)
(* Abstracted: sizes, prices and reasons; a leg is open at its venue or    *)
(* not, and a flatten is reduce-only, so it opens nothing.  An opening     *)
(* order may rest (tif Gtc): it is reported as refused and filled later,   *)
(* here at once ("lost").  A handler that throws is not modelled.  Ids are *)
(* unique: createCrossLegIntent would overwrite a record of the same id.   *)
(* The bridge only simulates the venues other than Hyperliquid; their legs *)
(* get the answers of a real venue here, which include the simulated ones. *)
(***************************************************************************)
EXTENDS SystemState

CONSTANTS
  Intents, Callers,
  Gated,           \* the legs that go through the session-key executor (venue HL)
  TTL,             \* ttlMs, in ticks
  Overlapping      \* whether two calls may work on one intent at a time

Legs == {1, 2}
Phases == {"absent", "PENDING", "PREPARED", "COMMITTED", "ABORTED"}
Answers == {"filled", "refused", "lost"}

ASSUME LedgerAssumption ==
  /\ Gated \subseteq Legs
  /\ "none" \notin Intents
  /\ TTL \in Nat
  /\ Overlapping \in BOOLEAN

VARIABLES
  ledgerStore,     \* the stored records
  call,            \* per caller, the locals of its call
  atVenue,         \* legs open at the venues
  lost             \* history: open legs that were reported refused

ledgerVars == <<ledgerStore, call, atVenue, lost>>
vars == <<ledgerStore, call, atVenue, lost, sysVars>>

(* prepared: the legs with an ok result.                                   *)
IntentRecords ==
  [phase : Phases, prepared : SUBSET Legs, preparedAt : Nat, hardlocked : BOOLEAN]

NoRecord == [phase |-> "absent", prepared |-> {}, preparedAt |-> 0, hardlocked |-> FALSE]

NoIntent == "none"       \* the id of a call that works on no intent
Stages == {"idle", "preparing", "committing", "flattening", "saving", "sweeping"}

Calls ==
  [at : Stages, id : Intents \cup {NoIntent}, intent : IntentRecords,
   pending : SUBSET Legs,    \* leg orders not answered yet
   todo : SUBSET Legs,       \* flattenActions still to run
   failed : BOOLEAN,         \* failureDetails is not empty
   sweep : SUBSET Intents]   \* intents an emergency flatten has still to abort

Idle ==
  [at |-> "idle", id |-> NoIntent, intent |-> NoRecord, pending |-> {},
   todo |-> {}, failed |-> FALSE, sweep |-> {}]

-----------------------------------------------------------------------------
(* The session-key executor sends an order only in a trading session with  *)
(* an open, unlocked channel; otherwise it refuses, and the physical gate  *)
(* severs the channel as it does.                                          *)
MayTrade(s) == s.mode = "TRADE_ACTIVE" /\ s.open /\ ~s.hardlock /\ s.cri > CRI_MIN

Intercepted(s) ==
  IF MayTrade(s) \/ s.mode = "READ_ONLY_OBSERVER" THEN s ELSE Severed(s)

Set(c, updated) == call' = [call EXCEPT ![c] = updated]

Free(i) == Overlapping \/ \A c \in Callers : call[c].id # i

(* Mutation: an abort refuses aborted intents only.                        *)
UndecidedOrCommitted ==
  {i \in Intents : ledgerStore[i].phase \in {"PENDING", "PREPARED", "COMMITTED"}}

Undecided == {i \in Intents : ledgerStore[i].phase \in {"PENDING", "PREPARED"}}

(* The call of c goes on to unwind its clone, and to these legs.           *)
Unwinding(k, intent, legs) ==
  [k EXCEPT !.at = "flattening", !.intent = [intent EXCEPT !.phase = "ABORTED"],
            !.todo = legs, !.failed = FALSE]

(* What c does when its call on an intent returns: the emergency flatten   *)
(* goes on with the intents it has not aborted.                            *)
Returned(k) ==
  [Idle EXCEPT !.at = IF k.sweep = {} THEN "idle" ELSE "sweeping", !.sweep = k.sweep]

Store(i, record) == ledgerStore' = [ledgerStore EXCEPT ![i] = record]

-----------------------------------------------------------------------------
CreateCrossLegIntent(i) ==
  /\ ledgerStore[i].phase = "absent"
  /\ Store(i, [NoRecord EXCEPT !.phase = "PENDING"])
  /\ UNCHANGED <<call, atVenue, lost, sysVars>>

(* prepareIntent: reads the clock, then sends both legs; the executor      *)
(* refuses a gated leg at once when the channel does not let it trade.     *)
PrepareIntent(c, i) ==
  /\ call[c].at = "idle" /\ Free(i)
  /\ ledgerStore[i].phase = "PENDING"
  /\ Set(c, [Idle EXCEPT
       !.at = "preparing", !.id = i,
       !.intent = [ledgerStore[i] EXCEPT !.prepared = {}, !.preparedAt = now],
       !.pending = IF MayTrade(sys) THEN Legs ELSE Legs \ Gated])
  /\ sys' = IF Gated = {} THEN sys ELSE Intercepted(sys)
  /\ UNCHANGED <<ledgerStore, atVenue, lost, severTarget, violationAt, spreadNormal, now>>

PrepareLegAnswers(c, l, answer) ==
  LET i == call[c].id IN
  /\ call[c].at = "preparing" /\ l \in call[c].pending
  /\ Set(c, [call[c] EXCEPT !.pending = @ \ {l},
       !.intent.prepared = IF answer = "filled" THEN @ \cup {l} ELSE @])
  /\ atVenue' = [atVenue EXCEPT ![i] = IF answer = "refused" THEN @ ELSE @ \cup {l}]
  /\ lost' = [lost EXCEPT ![i] = IF answer = "lost" THEN @ \cup {l} ELSE @]
  /\ UNCHANGED <<ledgerStore, sysVars>>

(* Mutation: a partial prepare flattens what failed instead of what filled. *)
ToFlattenSwapped(intent) == Legs \ intent.prepared

ToFlatten(intent) == intent.prepared

PrepareSettles(c) ==
  LET k == call[c] IN
  /\ k.at = "preparing" /\ k.pending = {}
  /\ IF k.intent.prepared = Legs
       THEN /\ Store(k.id, [k.intent EXCEPT !.phase = "PREPARED"])
            /\ Set(c, Returned(k))
       ELSE /\ Set(c, Unwinding(k, k.intent, ToFlatten(k.intent)))
            /\ UNCHANGED ledgerStore
  /\ UNCHANGED <<atVenue, lost, sysVars>>

Expired(intent) == now - intent.preparedAt > TTL

(* commitIntent: an expired intent is unwound, another sent to its venues. *)
CommitIntent(c, i) ==
  LET intent == ledgerStore[i]
      k == [Idle EXCEPT !.at = "committing", !.id = i, !.intent = intent] IN
  /\ call[c].at = "idle" /\ Free(i)
  /\ intent.phase = "PREPARED"
  /\ Set(c, IF Expired(intent) THEN Unwinding(k, intent, intent.prepared) ELSE k)
  /\ UNCHANGED <<ledgerStore, atVenue, lost, sysVars>>

CommitSettles(c, ok) ==
  LET k == call[c] IN
  /\ k.at = "committing"
  /\ IF ok
       THEN /\ Store(k.id, [k.intent EXCEPT !.phase = "COMMITTED"])
            /\ Set(c, Returned(k))
       ELSE /\ Set(c, Unwinding(k, k.intent, Legs))
            /\ UNCHANGED ledgerStore
  /\ UNCHANGED <<atVenue, lost, sysVars>>

(* The locals of abortIntent on i, called from k.                          *)
Aborting(k, i) ==
  LET intent == ledgerStore[i] IN
  Unwinding([k EXCEPT !.id = i], intent,
            IF intent.phase = "PREPARED" THEN Legs ELSE intent.prepared)

AbortIntent(c, i) ==
  /\ call[c].at = "idle" /\ Free(i)
  /\ i \in Undecided
  /\ Set(c, Aborting(Idle, i))
  /\ UNCHANGED <<ledgerStore, atVenue, lost, sysVars>>

(* runCompensatingFlattenWithHardlock: one action after the other.         *)
NextLeg(legs) == IF 1 \in legs THEN 1 ELSE 2

(* Mutation: a leg that failed is tried again.                             *)
LegsLeftRetry(k, l, done) == IF done THEN k.todo \ {l} ELSE k.todo

LegsLeft(k, l, done) == k.todo \ {l}

FlattenLeg(c, closes) ==
  LET k == call[c]
      l == NextLeg(k.todo)
      sent == l \notin Gated \/ MayTrade(sys)
      done == sent /\ closes IN
  /\ k.at = "flattening" /\ k.todo # {}
  /\ Set(c, [k EXCEPT !.todo = LegsLeft(k, l, done), !.failed = @ \/ ~done])
  /\ atVenue' = [atVenue EXCEPT ![k.id] = IF done THEN @ \ {l} ELSE @]
  /\ lost' = [lost EXCEPT ![k.id] = IF done THEN @ \ {l} ELSE @]
  /\ sys' = IF l \in Gated THEN Intercepted(sys) ELSE sys
  /\ UNCHANGED <<ledgerStore, severTarget, violationAt, spreadNormal, now>>

(* After a failure, up to the await of the KV save.                        *)
EscalateFlattenFailure(c) ==
  LET k == call[c] IN
  /\ k.at = "flattening" /\ k.todo = {} /\ k.failed
  /\ Set(c, [k EXCEPT !.at = "saving", !.intent.hardlocked = TRUE])
  /\ SeverPipeline("R20")
  /\ UNCHANGED <<ledgerStore, atVenue, lost>>

UnwindSettles(c) ==
  LET k == call[c] IN
  /\ k.at = "saving" \/ (k.at = "flattening" /\ k.todo = {} /\ ~k.failed)
  /\ Store(k.id, k.intent)
  /\ Set(c, Returned(k))
  /\ UNCHANGED <<atVenue, lost, sysVars>>

(* triggerEmergencyAutoFlatten, tripped: sever first, then abort one by    *)
(* one the intents that were undecided.                                    *)
TriggerEmergencyAutoFlatten(c) ==
  /\ call[c].at = "idle"
  /\ violationAt' = now
  /\ sys' = Severed(sys)
  /\ Set(c, Returned([Idle EXCEPT !.sweep = Undecided]))
  /\ UNCHANGED <<ledgerStore, atVenue, lost, severTarget, spreadNormal, now>>

SweepIntent(c, i) ==
  LET k == [call[c] EXCEPT !.sweep = @ \ {i}] IN
  /\ call[c].at = "sweeping" /\ i \in call[c].sweep /\ Free(i)
  /\ Set(c, IF i \in Undecided THEN Aborting(k, i) ELSE Returned(k))
  /\ UNCHANGED <<ledgerStore, atVenue, lost, sysVars>>

-----------------------------------------------------------------------------
LedgerInit ==
  /\ SysInit
  /\ ledgerStore = [i \in Intents |-> NoRecord]
  /\ call = [c \in Callers |-> Idle]
  /\ atVenue = [i \in Intents |-> {}]
  /\ lost = [i \in Intents |-> {}]

(* A call that has begun goes on.                                          *)
Continue(c) ==
  \/ \E l \in Legs, a \in Answers : PrepareLegAnswers(c, l, a)
  \/ PrepareSettles(c)
  \/ \E ok \in BOOLEAN : CommitSettles(c, ok)
  \/ \E closes \in BOOLEAN : FlattenLeg(c, closes)
  \/ EscalateFlattenFailure(c)
  \/ UnwindSettles(c)
  \/ \E i \in Intents : SweepIntent(c, i)

Begin(c) ==
  \/ \E i \in Intents : PrepareIntent(c, i) \/ CommitIntent(c, i) \/ AbortIntent(c, i)
  \/ TriggerEmergencyAutoFlatten(c)

(* What else happens to the signing channel meanwhile: the other writers   *)
(* of SystemState differ from these only in fields no call here reads.     *)
ChannelStep ==
  \/ SeverSigningChannel
  \/ \E t \in Targets : SeverPipeline(t)
  \/ SignFailure("SESSION_KEY_EXPIRED")
  \/ MarkStale
  \/ ClearStale
  \/ Release
  \/ Tick

LedgerNext ==
  \/ \E i \in Intents : CreateCrossLegIntent(i)
  \/ \E c \in Callers : Begin(c) \/ Continue(c)
  \/ ChannelStep /\ UNCHANGED ledgerVars

LedgerSpec == LedgerInit /\ [][LedgerNext]_vars

(* Awaits resolve (the transport has timeouts), so a call that can go on   *)
(* does.                                                                   *)
FairLedgerSpec == LedgerSpec /\ \A c \in Callers : WF_vars(Continue(c))

-----------------------------------------------------------------------------
LedgerTypeOK ==
  /\ ledgerStore \in [Intents -> IntentRecords]
  /\ call \in [Callers -> Calls]
  /\ atVenue \in [Intents -> SUBSET Legs]
  /\ lost \in [Intents -> SUBSET Legs]
  /\ SysTypeOK

Settled(i) == \A c \in Callers : call[c].id # i

(* R09, no orphan venue legs: once no call works on an intent, a prepared  *)
(* or committed one has both its legs at the venues; any other has none    *)
(* but those a venue misreported, unless its record is marked hardlocked.  *)
NoOrphanLegs ==
  \A i \in Intents : Settled(i) =>
    LET intent == ledgerStore[i] IN
    IF intent.phase \in {"PREPARED", "COMMITTED"}
      THEN atVenue[i] = Legs
      ELSE intent.hardlocked \/ atVenue[i] \subseteq lost[i]

(* flatten-hardlock.ts:31: a call that could not flatten a leg leaves the  *)
(* process locked at that moment, even when the pipeline skips because its *)
(* latch says that R20 was severed before.                                 *)
EscalationLocks ==
  [][\A c \in Callers :
       call[c].at # "saving" /\ call'[c].at = "saving"
         => sys'.hardlock /\ ~sys'.open]_vars

(* Every call returns, whatever the venues answer and the channel does.    *)
CallsReturn == \A c \in Callers : call[c].at # "idle" ~> call[c].at = "idle"

(* Each promise holds as seen by whoever reads the stored records: while a *)
(* call works on an intent, its legs count as the stored phase says.       *)
StoredLegs(i) ==
  IF Settled(i) THEN atVenue[i] \ lost[i]
  ELSE IF ledgerStore[i].phase = "PREPARED" THEN Legs ELSE {}

Ledger == INSTANCE IntentPromise WITH
  phase  <- [i \in Intents |-> ledgerStore[i].phase],
  held   <- [i \in Intents |-> StoredLegs(i)],
  marked <- [i \in Intents |-> ledgerStore[i].hardlocked]

(* The ledger implements IntentPromise: both legs or none, one decision,   *)
(* and no abort that leaves a leg without marking its record.              *)
KeepsPromise == Ledger!Promise

(* abort.ts:42 and prepare.ts:44 refuse a decided intent: an aborted one   *)
(* stays aborted.  Disputed when calls overlap: a prepare in flight stores *)
(* its clone over the abort of an emergency flatten.                       *)
AbortIsFinal ==
  [][\A i \in Intents : ledgerStore[i].phase = "ABORTED"
       => ledgerStore'[i].phase = "ABORTED"]_vars
=============================================================================
