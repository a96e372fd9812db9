# Verification of the BeDelta citadel core

TLA+ models, TLC configurations and TLAPS proofs for this repository: the
on-chain attestation gate (`SliverVineGate/`), and the Cloudflare worker that
hedges across venues under a process-wide risk lock (`src/`). Paths below are
relative to the repository root. `PROJECT.json` holds the machine-readable index:
runs, mutants, the map from definitions to source lines, hazards, findings,
theorems.

To check a module: `tlc -config MCIntentLedger.cfg MCIntentLedger.tla`; to check
proofs: `tlapm IntentLedgerProofs.tla`.

## 1. Inventory

### The system in one page

A trading agent asks the worker to hold a *cross-leg intent*: two orders at two
venues that must both be open, or neither. The worker runs as isolates of a
serverless platform: single-threaded, interleaving at every `await`, evicted
without notice, sharing nothing but a KV store that has no compare-and-set.
Whether an isolate may sign at all is decided by one module-level record, the
*system state* (CRI, hardlock, signing channel, session-key mode), which a dozen
modules write. On chain, a *gate* accepts each signed risk attestation once and
*executors* make exactly the call the attestation binds.

```
 operator ──re-authorization──►┌──────────────┐◄──sever / observe / stale / recover── guards,
                               │ system state │                                       sockets, cron
            ┌───MayTrade───────│ (isolate)    │──save / merge──► KV  SYSTEM_STATE
            ▼                  └──────▲───────┘
 caller ─► intent ledger ─failed flatten: sever─┘
            │   │                 ▲
     leg orders  └──copy (hourly)──► KV intent:2pc:<id> ──restore + unwind at boot──┘
            ▼
  Hyperliquid, GMX                agent ─► GatedExecutor ─► target
                                              │ verifyAndConsume
                                              ▼
                                        SliverVineGate ◄── admin, guardian
```

### Components

| Component (code) | State | Operations | What makes it correct | Model |
|---|---|---|---|---|
| Gate authority (`SliverVineGate/src/SliverVineGateAuth.sol`) | signer set, `signerCount`, `threshold`, pending change, halt flag and `unhaltEta`, roles | halt, schedule/execute unhalt, propose/cancel/execute signer change, propose/accept admin, set guardian and policy guard | counters agree with the set; a pending change never gets stuck; timelocks hold through any call sequence | `GateAuth` |
| Gate attestations (`SliverVineGate.sol`, `SliverVineGateLib.sol`) | `consumed` digests | `verifyAndConsume`, views | a current quorum for every acceptance; a halt revokes what was outstanding | `SliverVineGate` |
| Executors (`GatedExecutor.sol`) | re-entrancy lock, counters | `execute`, `tryExecute`, with arbitrary targets | one call per attestation, exact counters, all or nothing per transaction | `GatedExecutor`, promise in `AuthorizedCalls` |
| Process risk state (`src/core/state.ts`, `state-store.ts`, `circuit-breaker-sever.ts`, `session-key-fallback.ts`, `circuit-breaker.ts`, ...) | `activeStateOverride`, `activeSeverTarget`, `lastSoilViolationAt`, last spread | patches, sever, pipeline, observer, stale lock, revocation lock, auto-recovery, release | lock, CRI and channel move together; only the master lifts a hardlock; the latch is never stale | `SystemState` |
| Persisted risk state (`src/services/kv-lib/system-state.ts`, `stateManager.ts`) | one KV record with a TTL | save = get, merge, skip or put | a live locked record is unlocked only by a save whose get failed or was overtaken | `SystemStateKv`, composed with the process in `RiskState` |
| Two-phase intent ledger (`src/core/intent-ledger/`) | `ledgerStore`, the clones calls hold across awaits | create, prepare, commit, abort, compensating flatten, escalation | no orphan legs; decisions final; a failed flatten locks the process; calls return | `IntentLedger`, promise in `IntentPromise` |
| Hyperliquid bridge and session-key executor (`src/adapters/hl/`) | none of its own but the channel | open, close, flatten a leg | refuses when the channel does not let it trade, severing it | in `IntentLedger` |
| Black-swan emergency flatten (`src/core/black-swan-guard-lib/`) | `defenseActive` | sever, then abort every open intent | the aborts are recorded truthfully though the channel is already severed | in `IntentLedger` |
| Intent persistence and recovery (`src/core/intent-persistence/`, `worker-scheduled.ts`) | `intent:2pc:*` snapshots, the boot promise | restore, unwind expired, hourly copy | decisions in KV are durable; aborted means flat, but for legs a venue refused to flatten; expired is decided | `IntentRecovery` |
| Signed orders: nonces, heartbeat, transport, fail-over (`adapters/hl/auth/action-hash.ts`, `session-key-adapter-lib/nonce-auto-healing.ts`, `execution-transport/`, `rpc-failover/`) | last nonce, heartbeat time, POSTs on the wire | audit, nonce, sign, POST, next endpoint, answers, resets | nonces distinct; executed once; reports true; a timer per attempt until its headers | `SignedOrders`, promise in `OrderPromise` |
| WebSocket client (`adapters/hl/websocket/`) | sockets, `this.ws`, health, watchdog and reconnect timers, subscriptions | connect, disconnect, subscribe, reconnect; open, message, error, close of any socket | connected means watched; nothing revives a disconnected client; subscriptions survive; it comes back, unless a ping threw | `HlSocket` |
| Monotonic clock, RPC watermark (`core/monotonic-*.ts`) | last time and offset; last block and its time | read, ingest | never back, never a leap, in step with its source; lag is not regression | `MonotonicClock` |
| Protocol mask (`core/protocol-mask-sync.ts`) | a cached mask per isolate, one KV record | trip, read, put | what an isolate tripped on is in the record once its put landed, and is forgotten by an overtaken read only | `ProtocolMask` |
| Order-id anti-replay (`services/cloid-validator.ts`) | memory map with TTL, KV keys | claim, with a KV binding or in memory alone | of claims that do not overlap, one of an id is let through | `ClaimOrderId` |
| Sponsored gas ledger (`adapters/arbitrum/zerodev-aa/`) | window and sum, KV copy | load for the gate's verdict; send, which does not ask the gate; record | no estimate is counted twice, and records that do not overlap are all counted | `GasLedger` |
| Intent ring, attempt budgets, wallet and roll guards (`core/intent-core-ring.ts`, `intent-mandate.ts`, ...) | 256 hashed slots, a copy for Wasm, sever flags | gate of each caller | a budget of n lets n calls through, in the life of an isolate | `IntentRing` |
| Maker chase (`services/execution/chase-engine-lib/`) | the order of the last attempt | submit, look, cancel, sleep | one order at most is exposed in the book | `MakerChase` |
| Hedge cron (`worker-cron-entry.ts`, `scheduled-gmx-hedge-lib/`, `services/gmx-cross-wallet-hedge-*.ts`) | none of its own: the delta of wallet B, the short of wallet A | a tick: read, decide, read again, size, send | over-hedge bounded by what failed; orders land on the delta | `HedgeCron` |
| Policy guards, switches, oracles; risk arithmetic; gateway, browser wallet, SDKs, venue encoders, monitor, demonstrations, ports | flags, rounds, caches | - | - | not modelled (section 8) |

### How they interact, and what is hard about it

* **Interleaving at awaits.** `prepareIntent`, `commitIntent` and `abortIntent` clone
  a record, await venues, and store the clone. `triggerEmergencyAutoFlatten` may run
  in between; so may any writer of the system state.
* **Failures read as success or as absence.** The recovery ignores what `flattenLeg`
  answers; a get of the risk record that fails reads as "no record"; a position read that
  fails reads as "no position"; a subscribe whose send throws counts as sent.
* **A shared lock with many writers.** Every update of the system state rebuilds it
  from a patch and the current CRI; fields that the patch omits are recomputed, not kept.
* **Idempotence latches.** `severCircuitBreakerPipeline` does nothing when its latch
  already holds the target. The escalation of the ledger depends on the lock being
  on all the same.
* **The emergency path closes its own exit.** The flatten severs the signing channel
  first; the flatten orders of the gated leg are then refused by that same channel.
* **Eviction.** Module variables vanish at any point; the ledger is rebuilt from hourly
  copies, the risk state from nothing.
* **KV without compare-and-set.** A save is get, merge, put with awaits between; so are
  the gas ledger, the order-id claim and the protocol mask. One `/api/data` request may
  start two saves and awaits neither (`data-core.ts:84`, `:118`).
* **Late events.** `close()` of a socket is asynchronous: its close event may arrive
  after its successor opened, and every handler writes the same runtime.
* **A POST whose answer is missing.** A timed-out order is sent again, as it is, to the
  next endpoint, while the first may still execute. The timer ends with the headers; the
  body of the answer is awaited without one.
* **Shared counters.** Callers with attempt limits of their own hash to the same slot,
  which has a second copy for the Wasm path.
* **Check, then act, without a lock.** The hedge cron reads two positions, twice, and orders
  the difference; deposits, fills and another tick move them at every await.
* **Re-entrancy and reverts on chain.** A target may call back into any executor or
  the gate, at any depth, and revert at any depth.
* **Slow administrative protocols.** Changes checked now are executed a day later,
  after any number of other calls.

## 2. Modules

| Module | Role | Extends / instantiates |
|---|---|---|
| `GateAuth` | authority of the gate: one action per external call | |
| `SliverVineGate` | attestations over that authority | `GateAuth` |
| `GatedExecutor` | executors, transactions, call-backs, reverts over the gate | `SliverVineGate`; refines `AuthorizedCalls` |
| `AuthorizedCalls` | what an outside observer is promised: spent once, called only when spent, nothing while halted | |
| `SystemState` | the risk state of one isolate and all its writers | |
| `SystemStateKv` | its KV record, one save from get to put | `SystemState` |
| `RiskState` | the process and its record together: what is saved, when, and what goes on meanwhile | `SystemStateKv`; refines `SystemState` |
| `IntentLedger` | the two-phase ledger, await by await, over the risk state | `SystemState`; refines `IntentPromise` |
| `IntentPromise` | both legs or none, one decision, no undeclared left-over leg | |
| `IntentRecovery` | persistence, eviction, boot recovery | |
| `SignedOrders` | an order from its nonce to its answer | refines `OrderPromise` |
| `OrderPromise` | an order fills once at most, and what its caller is told of it is true and stays so | |
| `HlSocket` | the WebSocket client and all its sockets | |
| `MonotonicClock`, `ProtocolMask`, `ClaimOrderId`, `GasLedger`, `IntentRing`, `MakerChase` | one small stateful part of the worker each | the KV users: `Isolates` |
| `Isolates` | the isolates of the worker | |
| `WorkerParts` | those six side by side | the six |
| `HedgeCron` | ticks of the hedge cron over the two positions | |
| `MC*` | finite instances for TLC | the module they are named after |
| `GateProofs` | theorems of both modules of the gate | `GatedExecutor` |
| `HyperliquidProofs` | theorems of the two sides of the exchange client | `SignedOrders`, `HlSocket` |
| other `*Proofs` | theorems and their lemmas | the module they are named after |

`IntentLedgerProofs` and `RiskStateProofs` extend `SystemStateProofs`: the lock
invariant proved of the risk state alone is what the ledger's escalation and the saved
record rest on.

### Correspondence of state and actions with the code

*GateAuth.* `signers` is the set where `isSigner` is true; `signerCount`, `threshold`,
`pendingChange`, `halted`, `unhaltEta` and the roles are the storage slots of the same
name, an `eta` of 0 meaning "none" as in the code. Each action is one successful call;
a reverted call changes nothing and is a stutter. Addresses are numbers because the
gate compares them. `lastHaltAt` and `rotatedAt` are history variables, read by
properties only.

*SliverVineGate.* An attestation stands for its digest (EIP-712 hashing is injective
on one chain). `SignedBy` says which keys signed it; a signature list is the list of
addresses `ecrecover` returns, 0 for a malformed one. `Allows` is `validate()`;
`SignaturesOk` its loop, duplicates being excluded by strictly increasing addresses.

*GatedExecutor.* `ExecutorAssumption` keeps executors from being attested as targets of one
another: a contract in between can still call one from inside the other. `stack` holds the
executor calls in progress; each frame keeps the state to restore when it reverts, as the
EVM does. `Execute` is everything up to the external call; `Return` and `Revert` are its two
ends; `TryExecuteDenied` is the soft refusal. `performed` is what the outside world saw of
it.

*SystemState.* `sys` is `activeStateOverride`; `Updated(s, patch)` is
`updateSystemState`, with a patch as a record of the fields it sets, so that what the
code recomputes is recomputed here. `severTarget` is the latch `activeSeverTarget`.
Every writer is synchronous in the code and hence one action. `Restart` is the
eviction of the isolate.

*SystemStateKv, RiskState.* A save is two actions, `ReadForSave` up to the await of the get
and `PutSaved` or `PutFails` for the rest; `call` holds what the save remembers in between.
`ReadForSave` may find nothing although a record lives: `readSystemStateFromKV` answers null
for a failed get or parse, and the payload is then put unmerged. Saves overlap as they may.
`sound` is a history field: what the save read is still what KV answers, that is, its get
did not fail and no other put came after it. `RiskState` says what is saved: the state after
an escalation (`EscalateAndSave`) or a release (`ReleaseAndSave`), or one built from the
market (`PublishMarket`), while every other writer of the process may move during the
awaits.

*IntentLedger.* Each caller runs one call at a time; `call[c]` are its locals (the
clone, the leg orders not yet answered, the flatten actions left) and the stage is the
`await` it is at. What runs between two awaits is one action. `atVenue` is the truth
at the venues; `lost` are legs that are open although the venue's answer was read as a
refusal (an opening order that rests and fills later). The channel moves in between by
the actions of `SystemState`.

*IntentRecovery.* The isolate's ledger, the KV snapshots, the boot promise and a
running copy. The calls on intents are atomic here, as `IntentPromise` allows and
`IntentLedger` shows. `FlattenLeg` is one call of the boot's `flattenLeg`: it closes the
leg or a venue refuses, and the code goes on alike. `refused` is the history of such legs,
and of those that the flatten of an abort or a failed prepare or commit (`Unwind`) left open.

*SignedOrders.* `order[o].stage` is the await a call is at; `flight` and `answers` are what
is on the wire. `TimesOut` is the timer or a network error of an attempt. The headers of an
answer (`Answered`, `HttpError`) clear that timer and begin the stage "reading", which ends
when the body does (`BodyRead`, `BodyFails`), if it does. An order for an exchange URL of
its own is "fetching" instead of "posting": one POST by a fetch without timer or fail-over,
which ends by its answer or by a network error (`FetchFails`). `Handle` is the exchange,
which takes a nonce once and may handle a POST late, or never. `AuditFails` is the expired
heartbeat, `InvalidNonceFrame` the exchange's complaint. `Told` is what a result is worth to
its caller: "filled", "refused" for an order that was never sent or cannot rest and was
refused by the first endpoint, "unknown" otherwise.

*HlSocket.* `phase` is the `readyState` of each socket; `ws`, `intentionalClose`,
`connected`, `stale`, `watch` and `retry` are `this.ws`, the flag, the health of the runtime,
its two interval timers and its reconnect timer. Each event handler is one action and
may run for any socket. A send may throw and is swallowed (`Sends`); `failing` remembers
the sockets on which that happened. `PingFails` patches the health and nothing else: the
socket stays open, with its timers on. `overlapped` is a history variable: some `connect()` began
while another attempt was under way.

*The parts of WorkerParts.* One action per stretch between two awaits. The parts over KV
have history variables that name the circumstances their promises do not cover.
*ProtocolMask*: reads that nobody awaits overlap everything; `intact` says that no two puts
overlapped, none failed and each carried what the record then held; `forgot` are the
isolates whose last read returned a record older than a put of their own. *ClaimOrderId*:
`serial` (claims of one id did not overlap), `unbound` (a claim ran without a KV binding, in
the memory of its isolate alone). *GasLedger*: `Send` consults nothing, as
`sendZeroDevUserOp` does; the gate only loads (`GateLoads`); a receipt records the caller's
*estimate*, in KV or in memory alone; what the operation really cost never enters the
ledger; `apart` says that records did not overlap and reached KV. *MakerChase*: the exchange
fills orders lot by lot at any moment; `unnamed` says that it answered a submit without an
id for an order that rests. `IntentRing` keeps both copies of a slot and the sticky flags of
`evaluateIntentGateU32Pure`; `RingEvicted` is a new isolate with a fresh ring, in which
`granted` starts anew. `MonotonicClock` has two registers that do not meet.

*HedgeCron.* `tick[t].at` is the await a tick is at, its other fields are its locals; `delta`
and `short` are the true positions. The two reads of the cron and the two of the run that
sizes the order are four actions; `Send` is `executeHlSessionKeyOrder` up to the POST
(lift, cap, heartbeat audit, refusal by a live `READ_ONLY_OBSERVER` state), and `warm` says
that the tick runs in an isolate which an earlier tick loaded. Nothing else of the system
state of the process plays a part: the run hands the executor a state it has just built with
an open channel, and `execution-transport/helpers.ts:28` looks at the live mode besides.

## 3. Runs and what they show

| Run | Configuration | Shows |
|---|---|---|
| `gate` | `MCGate` | Two role holders and three keys make every administrative call in every order, while three attestations with every signature list are offered: the counters agree with the signer set, a pending change stays executable, rotation is paced, a halt lasts, each acceptance has a current quorum and none outlives a halt. |
| `gated_executor` | `MCGatedExecutor` | Executors whose targets call back into them, the other executor and the gate, with reverts at every depth; the outside sees `AuthorizedCalls`. |
| `risk_state` | `MCRiskState` | All writers of the risk state in every order, with two overlapping saves of its record, failed gets, refused puts, the TTL and evictions: a live locked record is unlocked only by a save whose get failed or was overtaken. |
| `observer_reopened` | `MCObserverReopened` | *Violated*: an update that names no mode turns the read-only observer back into a trading process. |
| `intent_ledger` | `MCIntentLedger` | One call at a time on an intent, the channel moving at every await: no orphan leg, every failed flatten locks, `IntentPromise` holds, every call returns. |
| `ledger_overlap` | `MCLedgerOverlap` | *Violated*: a prepare in flight stores PREPARED over the abort of an emergency flatten. |
| `intent_recovery` | `MCIntentRecovery` | With a venue handler that may refuse, evictions anywhere: aborted means flat but for refused legs, KV decisions are durable, expired intents are decided. |
| `recovery_unwired` | `MCRecoveryUnwired` | *Violated*: as the worker boots it, without a venue handler, an expired intent is recorded as aborted with its legs open. |
| `signed_orders` | `MCSignedOrders` | Two orders, each over two endpoints that may handle a POST late or never or by one bare fetch, with expired heartbeats and nonce resets in between: nonces distinct, one execution at most, what callers are told is true and stays so (`OrderPromise`), and the timers bring each order that fails over to the headers of an answer or to the end of its endpoints. |
| `hl_socket` | `MCHlSocket` | Three sockets of one client with all their events interleaved: connected means watched, nothing revives a disconnected client, no subscription that could be sent is lost, one feed, and a silent or lost connection is replaced unless a ping threw. |
| `worker_parts` | `MCWorkerParts` | The six small parts, each under every order of its calls, KV answers, fills and evictions. |
| `hedge_cron` | `MCHedgeCron` | Two ticks that may overlap, reads and orders that may fail, a delta that moves at any await: bounded over-hedge, and orders that land. |

Each property of a passing run has a *mutant* in the module it is about: a plausible
slip of the code (a dropped guard, a missing reset, the shorter of two delays), under
a comment that starts with "Mutation:". Substituted for the definition it sits
above, it makes the property fail under the same configuration.

### Properties worth explaining

* `PendingStaysExecutable` - `executeSignerChange` repeats the checks of the proposal a
  day later. If they could fail by then, the single pending slot would stay occupied
  until somebody cancels. They cannot, because nothing else changes the signer set.
* `HaltRevokesOutstanding` - `halt` records nothing about attestations. That it revokes
  them all follows from `MAX_TTL + MAX_FUTURE_SKEW < UNHALT_DELAY` (32 s against an hour).
* `AllowedCountExact` - an executor deep in a call tree may have counted its call when a
  revert further out undoes it; the counter and the calls made still agree.
* `LatchMeansLocked` - the pipeline's latch is a separate variable. Were it to survive a
  release, the next R20 escalation would be skipped with the channel open.
* `KvKeepsLock` - between the get and the put of a save the process may lock, unlock or
  be evicted, and another save may put. A live locked record becomes an unlocked one in one
  way only: by the put of a save whose get failed, or which another put overtook. It takes
  every other case of the skip, the merge, the TTL and refused puts to be right.
* `AbortedIsFlat` - an eviction at any point between two flattens, the import and the put
  leaves no record ABORTED with a leg that nobody asked a venue to close.
* `NoOrphanLegs` - at rest, a prepared or committed intent has both legs open, any other
  none, save those a venue misreported or those of a record marked `hardlocked`.
* `EscalationLocks` - when a compensating flatten fails, the process is locked at that
  moment *even if* the pipeline skipped because R20 was already severed.
* `DecisionDurable` - the hourly copy puts clones taken before its awaits; a stale clone
  never replaces a decision that reached KV meanwhile.
* `WatchedWhileConnected` - `checkWsStale` does nothing unless `connected`, and `onclose`
  stops the timers whichever socket closed. An order of events that left the client
  connected without timers would never be noticed; a late close event sets both.
* `KeepsOrderPromise` - the ledger flattens no leg it was told was refused, and counts on
  one it was told is open. An order that was never sent, or is immediate-or-cancel and
  refused by the first endpoint, is indeed out, now and later. After a timeout or an HTTP
  error, or with a resting order, the code reports a failure it cannot know: such an order
  is told "unknown" here, and may fill afterwards.
* `ComesBack` - whatever failed, the client is connected again, unless the caller
  disconnected or a send threw on a socket that is still open: that client is neither
  connected nor watched.
* `OrdersReturn` - fair timers bring an order through its endpoints to the headers of
  some answer or to the synthetic 503, and no further: a body that hangs, or a bare fetch,
  keeps its caller for ever.
* `MaskKeepsTrips` - with unawaited reads of every isolate over trips and puts, a trip is in
  the record once its put landed, and in the cache unless a read overtaken by that put came last.
* `LedgerAddsUp` - each isolate keeps a copy of the ledger that gate loads replace at any
  moment. Even so no order of loads, adds and puts counts an estimate twice, and as long as
  records do not overlap the ledger is exactly their sum, whichever isolates made them. It
  is no bound on what is sponsored, since no send asks the gate.
* `OneOrderOut` - with rejections, partial fills, unanswered submits and failed cancels, two
  orders never rest together, unless the exchange left one unnamed. It is no bound on what
  is bought: each order is of full size, whatever earlier ones filled.
* `BudgetHolds` - callers with limits of their own share a slot; Wasm works on a copy that
  is written back. Still no caller gets more attempts of an isolate than its own limit.
* `ClockFollows`, `WatermarkSound` - after any correction the clock again moves exactly as
  its source. It says nothing of its distance to the source, which is what an age is off by
  where `risk-engine-soil.ts:32` takes a virtual time less a raw stamp. And nodes that lag
  behind one another are never reported as a chain that goes back.
* `OverhedgeBounded` - each failed read, overlap or lost answer sells at most the delta once
  more, counting what is on its way; the order of events does not compound them.
* `LandsOnDelta` - the decision was made on an earlier reading than the order; while nothing
  went wrong the order still ends within one lift of the delta it was sized for.

## 4. Bounds, and why they are enough

| Instance | Bounds | Why |
|---|---|---|
| gate | accounts {1,2}, keys {1,2,3}, `UNHALT_DELAY` 3, `SIGNER_TIMELOCK` 4, `MAX_TIME` 6, `UINT8_MAX` 3, `MAX_SIGNATURES` 3; three attestations, `MAX_TTL` 1, `MAX_FUTURE_SKEW` 1 | One account can hold all roles or two can share and swap them. Three keys allow a set to grow, shrink and be replaced. The delays keep the order of the code's; the clock is long enough for a halt, an early and a ripe re-opening, and a rotation. One attestation is acceptable at deployment, one after a halt and a rotation (signed by the new key), one lives too long. Lists have up to four entries, one more than allowed. |
| executors | two executors, one account, one contract that calls back, `MaxDenied` 1, `MAX_TIME` 2, six attestations | A call through one executor, back into the same and into the other, into the gate from inside; every attestation is usable in one place only. Quorums are the gate's run. |
| risk state | two interchangeable savers, cool-down 2, record TTL 2, clock 3, one balance, one market CRI | Two saves are what an overtaken one takes. Before, at and after the end of the cool-down; a record lives, expires and is put again; a merge meets the CRIs 0, 50 and that of the process. Balances decide nothing. `observer_reopened` has one saver and more values. |
| ledger | one intent, two callers, leg 1 gated, TTL 1, clock 2 | Calls on different intents meet only through the channel, which the environment moves at every await in any case; an emergency flatten and an ordinary call compete for the intent. Commits come in time and too late. The proofs cover every set of intents and callers. |
| recovery | two intents, TTL 1, clock 2, two evictions | A boot unwinds one intent and then the other, any of whose legs may be refused, is interrupted at every point, and its successor too. |
| signed orders | two orders, one of which may rest, two endpoints, heartbeat 1, clock 3 | Two orders in the same tick and in different ones; a first and a last endpoint; a heartbeat that expires twice; an order that fails over and one sent by a bare fetch. |
| socket | three sockets, one stream, stale after 1 | Two that overlap, and the one the pending reconnect opens next to them. Names are reused, so behaviours go on for ever. Streams do not interact. |
| worker parts | two isolates; wall times {1,2,3,4,7} with steps of at most 2; two blocks, three stamps; two mask bits and two puts on the way; two claims of one id, two of them let through; two gas operations of estimate 1 or 2 at a time, and 2 recorded before the last begins; two slots, limits 1 and 2, four calls; three chase attempts of two lots | Two of each are what an overlap or a lost update takes; a clock that goes back, stands, steps and leaps; an order filled in part, before and after the next look; a slot whose callers have different limits. Isolates and mask bits are interchangeable. |
| hedge cron | two ticks; dead band 1, least order 3, cap 6, delta up to 7; two faults, two moves | The least order is above the dead band, as in the code (12 to 10), so that orders are lifted past the delta. A delta moves up and down again within one tick; a difference is below, at and above the cap; two faults compound, if they do. |

`MAX_TIME`, `MAX_CRASHES`, `MaxDenied`, `MaxVirtual`, `MaxPuts`, `MaxWinners`,
`MaxRecorded`, `MaxCalls`, `MaxFaults` and `MaxMoves` bound the models in their guards; they
are parameters, and the theorems hold for every value of them. `CHECK_DEADLOCK FALSE` is set
where the model really stops: a chase ends, and the counters of the parts reach their
bounds.

`WorkerParts` moves one part in a behaviour. The parts share no variable, so an
interleaving of two shows of each what it does alone, and the states are the sum of
theirs rather than the product.

## 5. Fairness and environment assumptions

* `FairLedgerSpec`: weak fairness of `Continue(c)` for each caller. A call that has
  begun goes on, because each await ends: the order transport aborts its fetches on a timeout,
  and KV and venue errors are turned into results. No fairness is assumed of
  starting calls, of the clock, or of what venues answer.
* `IntentRecovery`: weak fairness of `Booting`. The platform calls the cron handler
  every hour, and the handler awaits the boot before anything else. Copies, evictions
  and calls are not fair.
* `SignedOrders`: weak fairness of `Signed` and `TimesOut`: the local signer answers, and
  an attempt of the fail-over has a timer until the headers are in. Nothing is assumed of the
  exchange, of the body of an answer, which is read without a timer, or of a bare fetch.
* `HlSocket`: weak fairness of the watchdog and of the close event of a closing socket
  (the runtime fires timers and delivers close events); strong fairness of a reconnect
  that gets a socket and of some socket opening: a network that is there again and
  again accepts a connection in the end. Without the latter no client comes back.
* `HedgeCron` assumes no fairness, and no property claims that the hedge settles: nothing
  in the code provides what that would take (section 7). Scheduled events are more than
  30 seconds apart. Overlaps, failures and partial fills are faults, of which there are
  finitely many.
* `Overlapping = FALSE` is an assumption on the environment that the code does not enforce;
  `ledger_overlap` shows what happens without it. The history variables of section 2
  (`sound`, `refused`, `overlapped`, `failing`, `intact`, `forgot`, `serial`, `unbound`,
  `apart`, `unnamed`) restrict no behaviour: they name, in a property, the one way its
  promise is broken, and section 7 lists those ways.
* `Reauthorize` waits until no nonce runs ahead of the clock: a person signs, and nonces
  are milliseconds ahead at most. Evicted isolates forget their nonces as `Reset` does.
* Role holders of the gate are plain accounts: administration happens between
  transactions, not from inside a target.

## 6. Proofs

All theorems hold for every value of the constants that satisfies the named
assumptions of the modules (`AddressAssumption`, `DelayAssumption`, `WidthAssumption`,
`InitAuthAssumption`, `AttestationAssumption`, `TtlAssumption`, `ExecutorAssumption`,
`ClockAssumption`, `KvAssumption`, `RiskAssumption`, `LedgerAssumption`,
`RecoveryAssumption`, `OrderAssumption`, `SocketAssumption`, `GasAssumption`,
`RingAssumption`, `ChaseAssumption`, `HedgeAssumption`); TLC evaluates these on each
instance. Every safety property of the passing runs is a theorem.

* **`GateProofs`, the gate.** `GateInv` - types, `QuorumConsistent`,
  `PendingStaysExecutable`, `DeadlinesConsistent` - is inductive. None is inductive
  alone: that a rotation keeps the count exact needs that the pending signer is still
  (or still not) in the set; that the bounds survive needs the pending threshold.
  `RotationAlwaysPaced` and `HaltAlwaysLasts` follow from the deadlines in one step.
  `QuorumAlwaysApproved` goes through the image of a strictly increasing list, which
  has as many members as the list has entries (`FS_` theorems on injections).
  `HaltAlwaysRevokes` combines the age bound of `Fresh` with the deadline of an open gate.
* **`GateProofs`, the executors.** A revert brings back what its frame saved, so an invariant of
  the state must hold of every saved state too, relative to the calls in progress when
  it was saved. `Good` says it of one state and the n outermost calls; `ExecInv` says
  `Good` of the current state and of each saved one, and that no executor is on the
  stack twice. The three safety theorems read off `Good` of the current state.
  `AlwaysKeepsPromise` is the refinement: what the observer sees is the state saved by
  the outermost frame, so only the return of that frame is a step of `AuthorizedCalls`,
  and `Good` relates the state at that moment to the one it began with.
* **`SystemStateProofs`.** `SysInv` - types, `LockBackedByCri`, `LatchMeansLocked` - is
  inductive. A patch that names none of the three fields recomputes the lock from the
  CRI; the latch is safe because a lock survives every writer but the release, which
  clears the latch. `OnlyReauthorizationEverClears` is the step version.
* **`RiskStateProofs`.** `MergeCommutes` and `MergeConservative` for all records.
  `RiskRefinesSystemState`: every step of the composition is a step of the risk state
  or a stutter, so what is proved of it holds here. `KvAlwaysKeepsLock` needs
  `HeldIsCurrent`: what a *sound* save holds over its await is the record still in KV, unless
  that expired. Saves overlap as they may: each put makes the others unsound, and what
  is left is that a sound one merges with the lock it would overwrite.
* **`IntentLedgerProofs`.** `LedgerTypeCorrect` holds with overlapping calls too.
  `NoLegEverOrphaned` and `LedgerKeepsPromise` assume `~Overlapping` and rest on `LegsInv`,
  what each call knows of its intent at each await (`a` the legs open, `b` the misreported
  ones, `a \ b` the rest): preparing, the clone has `a \ b` as prepared; committing, `a` is
  both legs; flattening, what is still to do is `a \ b`, or part of it once a leg has
  failed; saving, the clone is marked and `a \ b` is not empty. Records at rest satisfy
  `RecordSound`, and all of them `StoredSound`. The refinement then has one idea: a reader
  of the store sees a step only when a call stores its record, and what the call knows at
  that moment makes it a step of `IntentPromise`; whoever starts or ends to work on an
  intent meanwhile changes nothing that is seen (`SameShown`). `EscalationAlwaysLocks` uses
  `SysInv`: when the pipeline skips, its latch is set, hence the process is locked.
* **`IntentRecoveryProofs`.** An intent exists three times: in the ledger, in KV and in the
  clone of a running copy. `Copies` says that they never hold different decisions;
  `Unwinding` what a boot has still to do; `Flat` which legs may be open meanwhile. Together
  with the types they are `RecInv`. `AbortedIsAlwaysFlat` assumes a venue handler
  (`Wired`), which may refuse: a leg of an aborted intent that is open after all was
  refused by its venue, that is, no eviction and no copy drops a leg that nobody asked to
  flatten. `DecisionsAreDurable` assumes no handler.
* **`HyperliquidProofs`, the orders.** `OrdInv` has two halves. `OrderParts` says of one order
  what may be on the wire, in the book and executed at its stage: no POST before it was
  signed, one per attempt, each answered once; the exchange took the nonce of whatever it
  booked, which is why a second POST of the same body executes nothing; what cannot rest
  was executed only on a POST answered so. `NoncesPassed` says that while the channel is
  open the next nonce passes all in use. A reset puts the nonce back to the clock, below
  nonces in use; but it also locks the channel, so no order is placed until the master
  signs again, by when the clock has passed them. `OrdersKeepPromise` is the refinement:
  an execution is a `Fill`, allowed since what was refused is out (`RefusedIsOut`), the end
  of an order is a `Tell`, true by `AcceptedIsExecuted`, every other step a stutter.
* **`HyperliquidProofs`, the sockets.** `SockInv` adds to the four properties that `this.ws`
  names a socket in use and, until attempts overlap, that the socket alive is `this.ws` and
  a pending reconnect means there is none (`Single`).
* **`WorkerPartsProofs`.** One inductive invariant per part, over its own variables.
  `MaskInv`: while `intact`, one put at most is on its way and carries all of the record; what
  an isolate tripped on is in the record or in that put; and a pending read returns no more
  than the record and, unless a put of its isolate overtakes it, all that this isolate
  tripped on. Reads are free to overlap everything. `ClaimInv`: while `serial` and with KV,
  of an id still without winner one claim at most is past its look-up. `GasInv`: no copy and
  no sum on its way exceeds what was recorded; while `apart`, one record is under way and
  the ledger is what was recorded before it. `RingInv`: what a caller was granted is at most
  the attempts its slot has counted. `ChaseInv`: at each stage of the loop, which order may
  rest, however much of it filled.
* **`HedgeCronProofs`.** `PledgeBounded` strengthens `OverhedgeBounded`: what is short, and
  what every tick has decided to sell, sent or not, stays within one delta, one more for
  each fault so far, and a lift. A tick that sizes an order adds up to a delta to that. If
  its read of the short failed, that was a fault. If not, its order fits what is short, and
  what the other ticks pledged is at most a delta each (`SaleSized`), paid for when they
  overlapped (`OverlapsPaid`). `OrdersLandOnDelta` needs `Undisturbed`: with no fault so
  far one tick runs, and its order is sized on the short as it still is. Sums over ticks
  are cardinalities of sets of pairs of a tick and a dollar (`OnTheWay`, `Units`), since
  what a fold computes takes induction to prove; hence `IsFiniteSet(Tick)` in
  `HedgeAssumption`.

The listed theorems that name no property of a run are parts of the arguments above that are
worth citing: types (`GateTypeCorrect`, `LedgerTypeCorrect`, ...), the deadlines of the
gate, the lock of an executor in use, that `RiskState` implements `SystemState`, the two
halves of what an order's caller is told (`RejectionAlwaysFinal`, `AcceptedAlwaysExecuted`),
and facts of the operators.

Layout: one lemma per action or group of actions, one for the frame (calls on other
intents, isolates, sockets), then the theorem by PTL.

**Only model-checked.** Liveness (`CallsReturn`, `ExpiredIsDecided`, `ComesBack`,
`SilenceEnds`, `OrdersReturn`): the provers have no rule for fairness here.
Nothing else: no model computes by recursion over data, so no theorem needs induction
over it.

## 7. Where code and documentation disagree

Three runs look for, and find, a behaviour of the code that the repository's own text
excludes:

1. `observer_reopened` - `updateSystemState` does not carry the session-key mode, so an
   unrelated patch ends `READ_ONLY_OBSERVER`.
2. `ledger_overlap` - `prepareIntent` stores its clone without looking at the record
   again, over an abort made meanwhile.
3. `recovery_unwired` - the worker boots recovery without a `flattenLeg`; the default
   does nothing and reports success.

Seen while modelling, without a run of their own:

* *The gate.* Rotation may set a threshold above `MAX_SIGNATURES`, which the constructor
  excludes and no signature list can meet (`SliverVineGateAuth.sol:119`). The admin role
  moves without a timelock (:140) though the header of the file lists it as timelocked. A
  scheduled unhalt cannot be taken back by `halt`, which reverts while halted (:83).
* *The risk state.* The merge is meant to keep locks (`kv-lib/system-state.ts:24`), but a
  get or a parse that fails reads as "no record" (`kv-lib/system-state.ts:131-137`), so the
  payload is put unmerged over a lock (:91); and of two overlapping saves, such as those one
  `/api/data` request starts without awaiting them (`data-core.ts:84`, :118), the one that
  read first overwrites the lock. An eviction clears a hardlock, as no code reads the record
  back into the process. A hardlock record expires a day after its first put, since
  unchanged saves are skipped (`stateManager.ts:47`). The browser orchestrator opens the
  channel without clearing the sever latch (`live5TxOrchestrator.ts:49`). A re-authorization
  signature can be used again while it is young enough (`unlock-reauthorization.ts:155`).
* *The ledger.* `createCrossLegIntent` overwrites an open intent of the same id
  (`defaults.ts:81`). The hourly copy may leave PREPARED in KV for an intent committed
  before an eviction, which the boot unwinds after the TTL (`recovery.ts:81`). The boot
  ignores what `flattenLeg` answers and stores ABORTED with the leg open (`recovery.ts:57`).
  A KV failure at boot turns recovery off for the life of the isolate
  (`worker-scheduled.ts:46`).
* *Signed orders.* The lock after an expired heartbeat does not heal: neither the reset nor
  the release touches the heartbeat (`nonce-auto-healing.ts:79-84`, against the comment in
  line 75), so the next order locks again until a WebSocket ping. The body of an answer
  is read after its timer was cleared (`rpc-failover/fetch.ts:90`), and an exchange URL other
  than the default gets a bare fetch (`post-exchange.ts:29`): both may keep a caller for ever.
* *WebSocket.* `hyperliquid-execution-adapter.ts:111` calls `connect()` whenever the client is
  not connected, an attempt under way included; the second socket feeds the same events,
  and `disconnect()` closes one of the two. `OneFeed` names the case. A ping whose send throws marks
  the client disconnected and leaves the socket open; the watchdog then returns early
  (`websocket-connection-timers.ts:79`), and nothing reconnects. A subscribe whose send throws
  counts as sent (`websocket-subscriptions.ts:53`). No code drives
  `WsHeartbeatController`, whose ping interval is shorter than its pong timeout.
* *The parts.* Overlapping claims of one order id both pass (`cloid-validator.ts:132`,
  against :117). Sponsored sends never ask the gas ledger (`zerodev-aa-send-userop.ts:62`),
  though `docs/02_eip_extensions/01_EIP_COMPLIANCE_AND_COMPETITIVE_MATRIX.md:445` has it cap
  them; of two gas records that overlap KV may keep one (`zerodev-aa-gas-ledger.ts:166`); a
  reverted or late operation is paid for and not recorded (`zerodev-aa-send-userop.ts:113`).
  A mask read begun before a trip's put landed drops the bit from the isolate
  (`protocol-mask-sync.ts:64`), and a put drops those of other isolates (:111). After a
  partial fill, or one between the look and the cancel, the chase submits another order of
  full size (`chase-engine-runner.ts:58`). Each is the exception its property states or says
  nothing of. Through Wasm the retail guard takes the sticky flags of a slot for the outcome
  of the call (`wasm-adapter.ts:180`): after one venue drift an exhausted budget no longer
  severs. A `maxAttempts` of 0 severs at once in TypeScript and means the default in Rust.
  `claimCloid*`, the chase and the gas gate have callers in tests only.
* *Hedge cron.* A failed position read is no position
  (`gmx-cross-wallet-hedge-fetch.ts:25`), so the whole delta is sold again, where
  `docs/PRODUCTION_WORKFLOW_DEEP_DIVE.md:175` has a fail-closed skip; `OverhedgeBounded`
  says how far that goes. The heartbeat of the key lasts 30 s (`nonce-auto-healing.ts:12`)
  while the cron runs every 5 minutes without a WebSocket: the audit before an order
  (`execute-order.ts:150`) passes in the tick that loads the isolate and in no later one,
  though line 137 of the document has the cron hedge until it is balanced. A GM balance of
  zero is an error (`gmx-v2-live-delta-reader.ts:133`), so after a full withdrawal nothing
  covers the short, which line 200 has it do. A difference above the $5000 cap is refused
  whole, at each tick (`session-key-gates.ts:63`). For these three no property claims that
  the hedge settles. The run hands the executor a state with an open channel
  (`gmx-cross-wallet-hedge-run.ts:137`), so the severance of an earlier soil trip does not
  stop it; the margin read has no timeout (`hl-wallet-telemetry.ts:26`).
* *Elsewhere.* `pending-exposure-window.ts:1` says sliding, the window tumbles. A clock
  anomaly, once noted, stays noted. `risk-engine-soil.ts:26` caches a verdict per market object,
  which its callers must not change.

## 8. Abstractions and what is not modelled

*Within the models.* Sizes, prices and reasons of orders; balances (but in saved
records), HUD fields and the pending exposure of the system state; `ecrecover` and hashing
(injective). A leg handler that throws is not modelled: the bridge's handlers turn
failures into results. The bridge only simulates the venues other than Hyperliquid (it
always answers ok to a flatten there); in the model their legs get any answer a real
venue may give. An emergency flatten may be interleaved with other calls between its
sever and its first abort, and between a settled phase and its first flatten order,
where the code has no `await`: more interleavings than the program has. A flatten order
and its answer are one step, which loses no outcome, since nothing reads the leg in
between. The bridge reads the live system state at each leg; a snapshot handed over by a
caller (`opts.systemState`) and `dryRun` orders are left out. Intent ids are unique. A KV
failure at boot, the index record of the snapshots and their one-day expiry are left
out of `IntentRecovery`, where one isolate writes at a time, and whose calls on intents
are atomic, as `IntentPromise` allows. KV's eventual consistency is left out, but for the
reads of `ProtocolMask`, which answer what KV held when they began; equal puts of an isolate's
mask are not twice on their way there. That callers whose keys collide in `IntentRing`
starve each other is what the code does, and no property excludes it. What sponsored
operations really cost, and what a chase bought in total, are not modelled. `Reauthorize`
and `Release` are the worker's; the browser's `live5TxOrchestrator`, which opens the channel by
itself, is outside the model of the risk state. Back-off
delays, latency and endpoint health are left out: a pending timer fires some time. Gas, and
the view functions of the gate beyond the predicate `Allows`, are left out.

*Components without a module.*

* Agent policy guards, deployed switches and the on-chain oracles (`contracts/`): one-way
  flags and rounds written by one owner call each and read by views; no two steps to relate.
* The risk arithmetic (soil, CRI, equilibrium): pure functions of market data, whose
  verdict is an input here; its tests enumerate it better than a model would.
* The pending exposure window and the rate limiter: one counter with its start, synchronous.
* The deadlock registry: only the sandbox demonstration engages it.
* Venue encoders and read-only adapters, the SDK and agent plug-ins, telemetry,
  simulations and examples: no state, or caches.
* The browser wallet flow (one flow at a time) and the mainnet monitor.
* The Rust and Stylus ports of arithmetic; the clock and the intent gate are modelled from
  their TypeScript, the Wasm copy of a slot with it.
