----------------------------- MODULE HedgeCron -----------------------------
(***************************************************************************)
(* The hedge of the cron worker: every five minutes a tick reads the ETH   *)
(* delta of wallet B on GMX and the ETH short of wallet A on Hyperliquid   *)
(* and, outside a dead band, sells or covers the difference                *)
(* (scheduled-gmx-hedge-lib/, services/gmx-cross-wallet-hedge-run.ts).     *)
(* The two positions are read twice, to decide and to size, and change     *)
(* between any two awaits.                                                 *)
(*                                                                         *)
(* Abstracted: one price, so sizes are in dollars; probes, soil gates and  *)
(* the margin check are one failure that ends the tick.  External: the     *)
(* exchange executes an order that was sent, in part at worst; deposits    *)
(* and withdrawals move the delta; the platform starts a tick in a new     *)
(* isolate or in a warm one.                                               *)
(***************************************************************************)
EXTENDS Integers, FiniteSetsExt

CONSTANTS
  Tick,                 \* ticks that may be under way at a time
  Deadband,             \* CRON_DRIFT_MIN_USD
  MinOrder,             \* HL_LIVE_MIN_NOTIONAL_USD
  Cap,                  \* SESSION_KEY_NOTIONAL_CAP_USD
  MaxDelta,             \* bound of the delta
  MaxFaults, MaxMoves   \* bounds of what goes wrong, and of deposits

ASSUME HedgeAssumption ==
  /\ IsFiniteSet(Tick)
  /\ {Deadband, MaxFaults, MaxMoves} \subseteq Nat
  /\ MinOrder \in Nat \ {0}
  /\ Cap \in Nat /\ MinOrder <= Cap
  /\ MaxDelta \in Nat /\ MinOrder <= MaxDelta

VARIABLES
  delta,                \* of wallet B
  short,                \* of wallet A
  loaded,               \* an isolate of the worker has run a tick
  tick,                 \* per tick: where it is, what it read, what it orders;
                        \* it goes idle, probeDelta, probeShort, soil (decides),
                        \* delta, short (sizes), checks, posted
  faults, moves         \* what is left of the bounds

hedgeVars == <<delta, short, loaded, tick, faults, moves>>

Idle == [at |-> "idle", warm |-> FALSE, unwind |-> FALSE,
         delta |-> 0, short |-> 0, order |-> 0]

HedgeInit ==
  /\ delta \in 0..MaxDelta /\ short = 0
  /\ loaded = FALSE
  /\ tick = [t \in Tick |-> Idle]
  /\ faults = MaxFaults /\ moves = MaxMoves

Running(t) == tick[t].at # "idle"
Ends(t) == tick' = [tick EXCEPT ![t] = Idle]

(* A step that takes something going wrong uses up a fault.                *)
Costs(wrong) ==
  IF wrong THEN faults > 0 /\ faults' = faults - 1 ELSE UNCHANGED faults

-----------------------------------------------------------------------------
(* A scheduled event, in a warm isolate or a new one.  Nothing keeps two   *)
(* ticks apart but the interval; a tick that outlives it is a fault.       *)
Begin(t, warm) ==
  /\ ~Running(t) /\ (warm => loaded)
  /\ Costs(\E u \in Tick : Running(u))
  /\ loaded' = TRUE
  /\ tick' = [tick EXCEPT ![t].at = "probeDelta", ![t].warm = warm]
  /\ UNCHANGED <<delta, short, moves>>

(* fetchGmxEthDeltaForWallet: an empty wallet B is an error, and ends it.  *)
ReadDelta(t) ==
  /\ tick[t].at \in {"probeDelta", "delta"}
  /\ IF delta = 0
       THEN Ends(t)
       ELSE tick' = [tick EXCEPT ![t].delta = delta,
              ![t].at = IF @ = "delta" THEN "short" ELSE "probeShort"]
  /\ UNCHANGED <<delta, short, loaded, faults, moves>>

(* fetchWalletAEthShortSize: an HTTP error reads as no position.           *)
Found(ok) == IF ok THEN short ELSE 0

ProbeShort(t, ok) ==
  /\ tick[t].at = "probeShort" /\ Costs(~ok)
  /\ tick' = [tick EXCEPT ![t].at = "soil", ![t].short = Found(ok)]
  /\ UNCHANGED <<delta, short, loaded, moves>>

(* resolveCronRebalanceAction; what was read to decide is read again.      *)
Decide(t) ==
  LET drift == tick[t].delta - tick[t].short
      run(unwind) == [Idle EXCEPT !.at = "delta", !.warm = tick[t].warm,
                                  !.unwind = unwind]
  IN /\ tick[t].at = "soil"
     /\ CASE -drift > Deadband -> tick' = [tick EXCEPT ![t] = run(TRUE)]
          [] drift > Deadband  -> tick' = [tick EXCEPT ![t] = run(FALSE)]
          [] OTHER             -> Ends(t)
     /\ UNCHANGED <<delta, short, loaded, faults, moves>>

-----------------------------------------------------------------------------
(* Mutation: the whole delta is sold, whatever is short already.           *)
SizedAnew(unwind, long, held) ==
  Max({0, IF unwind THEN held - long ELSE long})

(* Mutation: the difference without its sign.                              *)
SizedAbsolute(unwind, long, held) == Max({held - long, long - held})

(* computeDeltaNeutralHedgeOrder.                                          *)
Sized(unwind, long, held) ==
  Max({0, IF unwind THEN held - long ELSE long - held})

(* Sized to zero, the run ends: covered already, or not over-hedged.       *)
SizeOrder(t, ok) ==
  LET size == Sized(tick[t].unwind, tick[t].delta, Found(ok))
  IN /\ tick[t].at = "short" /\ Costs(~ok)
     /\ IF size = 0
          THEN Ends(t)
          ELSE tick' = [tick EXCEPT ![t].at = "checks", ![t].short = Found(ok),
                          ![t].order = size]
     /\ UNCHANGED <<delta, short, loaded, moves>>

(* A read that throws, a soil trip, too little margin: the tick is over.   *)
Fail(t) ==
  /\ Running(t) /\ tick[t].at # "posted" /\ Costs(TRUE)
  /\ Ends(t)
  /\ UNCHANGED <<delta, short, loaded, moves>>

(* executeHlSessionKeyOrder: lifted to the least an order may be, held to  *)
(* the cap of the key, and refused when the heartbeat of the key is older  *)
(* than 30 seconds.  The isolate's first tick loads the module and with it *)
(* the heartbeat; nothing touches it after that but an order that passes.  *)
(* Refused as well by a live READ_ONLY_OBSERVER state, which a revoked key *)
(* or a root-protection trip has set in the isolate.                       *)
Send(t, observer) ==
  LET order == Max({tick[t].order, MinOrder})
  IN /\ tick[t].at = "checks" /\ Costs(observer)
     /\ IF order > Cap \/ tick[t].warm \/ observer
          THEN Ends(t)
          ELSE tick' = [tick EXCEPT ![t].at = "posted", ![t].order = order]
     /\ UNCHANGED <<delta, short, loaded, moves>>

(* The exchange; reduce-only stops at no position.                         *)
Execute(t, filled) ==
  /\ tick[t].at = "posted" /\ Costs(filled < tick[t].order)
  /\ short' = IF tick[t].unwind THEN Max({0, short - filled}) ELSE short + filled
  /\ Ends(t)
  /\ UNCHANGED <<delta, loaded, moves>>

(* Wallet B deposits or withdraws.                                         *)
Move ==
  /\ moves > 0 /\ moves' = moves - 1
  /\ delta' \in 0..MaxDelta
  /\ UNCHANGED <<short, loaded, tick, faults>>

Step(t) ==
  \/ ReadDelta(t) \/ Decide(t)
  \/ \E observer \in BOOLEAN : Send(t, observer)
  \/ \E ok \in BOOLEAN : ProbeShort(t, ok) \/ SizeOrder(t, ok)
  \/ \E filled \in 0..tick[t].order : Execute(t, filled)

HedgeNext ==
  \/ \E t \in Tick : \/ \E warm \in BOOLEAN : Begin(t, warm)
                     \/ Step(t) \/ Fail(t)
  \/ Move

HedgeSpec == HedgeInit /\ [][HedgeNext]_hedgeVars

-----------------------------------------------------------------------------
(* The sales under way, dollar by dollar.                                  *)
Selling(t) == IF tick[t].at = "posted" /\ ~tick[t].unwind THEN tick[t].order ELSE 0

OnTheWay == UNION {{t} \X (1..Selling(t)) : t \in Tick}

(* What is short, with the sales under way, is at most one delta and one   *)
(* lift of the order: a position read as none, or a tick that overlaps     *)
(* another, each sell at most the delta once more, however they follow     *)
(* each other (each tick sizes its order on its own reads, with no lock).  *)
OverhedgeBounded ==
  short + Cardinality(OnTheWay)
    <= (1 + MaxFaults - faults) * MaxDelta + MinOrder - 1

(* As long as nothing went wrong, an order takes the short to within the   *)
(* lift of the delta it was sized for, in either direction, although the   *)
(* decision was made on an earlier reading.                                *)
LandsOnDelta ==
  [][faults' = MaxFaults /\ short' # short =>
       \E t \in Tick :
         /\ tick[t].at = "posted"
         /\ short' - tick[t].delta \in 1 - MinOrder .. MinOrder - 1]_hedgeVars
=============================================================================
