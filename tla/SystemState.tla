---------------------------- MODULE SystemState ----------------------------
(***************************************************************************)
(* The process-wide risk state that gates every signature                  *)
(* (src/core/state.ts, state-store.ts) and everything that writes it: the  *)
(* physical sever, the R17/R20 pipeline with its latch, the read-only      *)
(* observer, the WebSocket stale lock, the nonce revocation lock, the vine *)
(* mesh auto-recovery and the master re-authorization.  All of them are    *)
(* synchronous, so each is one step.                                       *)
(*                                                                         *)
(* Abstracted: balances, HUD colours, pending exposure and the vector      *)
(* equilibrium (functions of the fields kept here); the CRI is 0 or 100,   *)
(* the only values a patch writes; a re-authorization is the operator's    *)
(* decision (its signature and five-minute age are not modelled).          *)
(***************************************************************************)
EXTENDS Integers

CONSTANTS
  RECOVERY_COOLDOWN,   \* RECOVERY_COOLDOWN_MS, in ticks
  MAX_TIME             \* bound of the clock

ASSUME ClockAssumption == RECOVERY_COOLDOWN \in Nat /\ MAX_TIME \in Nat

CRI_MIN == 0
CRI_MAX == 100
Targets == {"R17", "R20"}
NoTarget == "none"
Modes == {"TRADE_ACTIVE", "READ_ONLY_OBSERVER"}
KeyFailures == {"SESSION_KEY_EXPIRED", "SESSION_KEY_REVOKED", "SESSION_KEY_INVALID"}

SeverStatus == [R17 |-> "R17_DAILY_LIMIT", R20 |-> "R20_DEADLOCK"]
Statuses == {"OK", "R17_DAILY_LIMIT", "R20_DEADLOCK"} \cup KeyFailures

VARIABLES
  sys,                \* activeStateOverride: [cri, hardlock, open, mode, status, stale]
  severTarget,        \* activeSeverTarget, the idempotence latch of the pipeline
  violationAt,        \* lastSoilViolationAt, -1 for null
  spreadNormal,       \* lastSpreadRatio < NORMALIZED_SPREAD_MAX
  now

sysVars == <<sys, severTarget, violationAt, spreadNormal, now>>

SystemStates ==
  [cri : {CRI_MIN, CRI_MAX}, hardlock : BOOLEAN, open : BOOLEAN,
   mode : Modes, status : Statuses, stale : BOOLEAN]

SysTypeOK ==
  /\ sys \in SystemStates
  /\ severTarget \in Targets \cup {NoTarget}
  /\ violationAt \in Int
  /\ spreadNormal \in BOOLEAN
  /\ now \in Nat

(* What a fresh process reads when nothing was written yet.                *)
FreshState ==
  [cri |-> CRI_MAX, hardlock |-> FALSE, open |-> TRUE,
   mode |-> "TRADE_ACTIVE", status |-> "OK", stale |-> FALSE]

-----------------------------------------------------------------------------
(* updateSystemState.  A patch is a record of the fields it sets.  The base *)
(* is rebuilt from the CRI alone: buildSystemState is not given the current *)
(* session-key mode and status, so their defaults win over the current      *)
(* values, and the hardlock is what the CRI implies unless it is patched.   *)
Patched(patch, field, default) ==
  IF field \in DOMAIN patch THEN patch[field] ELSE default

Updated(s, patch) ==
  LET cri  == Patched(patch, "cri", s.cri)
      lock == Patched(patch, "hardlock", cri <= CRI_MIN)
      mode == Patched(patch, "mode", "TRADE_ACTIVE")
      free == mode # "READ_ONLY_OBSERVER" /\ ~lock /\ cri > CRI_MIN
  IN [cri      |-> cri,
      hardlock |-> lock,
      open     |-> Patched(patch, "open", free),
      mode     |-> mode,
      status   |-> Patched(patch, "status", "OK"),
      stale    |-> Patched(patch, "stale", s.stale)]

(* severSigningChannel: mode and staleness survive.                        *)
Severed(s) ==
  [s EXCEPT !.open = FALSE, !.hardlock = TRUE, !.cri = CRI_MIN,
            !.status = "R20_DEADLOCK"]

(* enterReadOnlyObserver.                                                  *)
Observing(s, status) ==
  Updated(s, [open |-> FALSE, mode |-> "READ_ONLY_OBSERVER", status |-> status])

-----------------------------------------------------------------------------
(* A gate intercept, a mandate or soil trip, a geo block.                  *)
SeverSigningChannel ==
  /\ sys' = Severed(sys)
  /\ UNCHANGED <<severTarget, violationAt, spreadNormal, now>>

(* severCircuitBreakerPipeline: nothing at all when the latch already has  *)
(* this target.                                                            *)
SeverPipeline(target) ==
  /\ IF severTarget = target
       THEN UNCHANGED <<sys, severTarget>>
       ELSE /\ severTarget' = target
            /\ sys' = Observing(Severed(sys), SeverStatus[target])
  /\ UNCHANGED <<violationAt, spreadNormal, now>>

(* handleSessionKeySignFailure and the expiry check of the transport.      *)
SignFailure(status) ==
  /\ sys' = Observing(sys, status)
  /\ UNCHANGED <<severTarget, violationAt, spreadNormal, now>>

(* A health change of the WebSocket.                                       *)
MarkStale ==
  /\ sys' = Updated(sys, [stale |-> TRUE, open |-> FALSE])
  /\ UNCHANGED <<severTarget, violationAt, spreadNormal, now>>

ClearStale ==
  /\ sys' = Updated(sys, [stale |-> FALSE])
  /\ UNCHANGED <<severTarget, violationAt, spreadNormal, now>>

(* Mutation: the revocation lock leaves the CRI alone.                     *)
RevocationLockKeepsCri ==
  /\ sys' = Updated(sys, [open |-> FALSE, hardlock |-> TRUE])
  /\ UNCHANGED <<severTarget, violationAt, spreadNormal, now>>

(* applyRevocationLock, on an expired heartbeat or an invalid nonce.       *)
RevocationLock ==
  /\ sys' = Updated(sys, [open |-> FALSE, hardlock |-> TRUE, cri |-> CRI_MIN])
  /\ UNCHANGED <<severTarget, violationAt, spreadNormal, now>>

(* Mutation: recovery tests only that the channel is closed.               *)
AutoRecoverAny ==
  /\ ~sys.open
  /\ violationAt >= 0 => now - violationAt >= RECOVERY_COOLDOWN
  /\ spreadNormal
  /\ sys' = Updated(sys, [open |-> TRUE, hardlock |-> FALSE])
  /\ UNCHANGED <<severTarget, violationAt, spreadNormal, now>>

(* vineMeshAutoRecovery, called with the state just read.                  *)
AutoRecover ==
  /\ ~sys.open /\ ~sys.hardlock /\ sys.cri > CRI_MIN
  /\ violationAt >= 0 => now - violationAt >= RECOVERY_COOLDOWN
  /\ spreadNormal
  /\ sys' = Updated(sys, [open |-> TRUE, hardlock |-> FALSE])
  /\ UNCHANGED <<severTarget, violationAt, spreadNormal, now>>

(* soak-telemetry tick: a spread sample, and a violation when soil trips.  *)
SoilSample(tripped, normal) ==
  /\ spreadNormal' = normal
  /\ violationAt' = IF tripped THEN now ELSE violationAt
  /\ UNCHANGED <<sys, severTarget, now>>

(* Mutation: the latch survives the release.                               *)
ReleaseKeepsLatch ==
  /\ sys.hardlock \/ ~sys.open
  /\ sys' = Updated(sys, [cri |-> CRI_MAX, hardlock |-> FALSE, open |-> TRUE,
                          mode |-> "TRADE_ACTIVE", status |-> "OK", stale |-> FALSE])
  /\ UNCHANGED <<severTarget, violationAt, spreadNormal, now>>

(* verifyAndReleaseHardlock with a valid, fresh master signature.          *)
Release ==
  /\ sys.hardlock \/ ~sys.open
  /\ severTarget' = NoTarget
  /\ sys' = Updated(sys, [cri |-> CRI_MAX, hardlock |-> FALSE, open |-> TRUE,
                          mode |-> "TRADE_ACTIVE", status |-> "OK", stale |-> FALSE])
  /\ UNCHANGED <<violationAt, spreadNormal, now>>

Tick == /\ now < MAX_TIME
        /\ now' = now + 1
        /\ UNCHANGED <<sys, severTarget, violationAt, spreadNormal>>

(* The isolate is evicted: module variables are lost, and no code reads    *)
(* the persisted record back into them.                                    *)
Restart ==
  /\ sys' = FreshState
  /\ severTarget' = NoTarget
  /\ violationAt' = -1
  /\ spreadNormal' = FALSE
  /\ UNCHANGED now

-----------------------------------------------------------------------------
SysInit ==
  /\ sys = FreshState
  /\ severTarget = NoTarget
  /\ violationAt = -1
  /\ spreadNormal = FALSE
  /\ now = 0

(* One isolate of the worker while it lives.                               *)
IsolateStep ==
  \/ SeverSigningChannel
  \/ \E t \in Targets : SeverPipeline(t)
  \/ \E f \in KeyFailures : SignFailure(f)
  \/ MarkStale
  \/ ClearStale
  \/ RevocationLock
  \/ AutoRecover
  \/ \E tripped, normal \in BOOLEAN : SoilSample(tripped, normal)
  \/ Release
  \/ Tick

SysNext == IsolateStep \/ Restart

SysSpec == SysInit /\ [][SysNext]_sysVars

-----------------------------------------------------------------------------
(* The lock is recomputed from the CRI at every update, so a lock that is  *)
(* not backed by a zero CRI would vanish at the next unrelated update, and *)
(* an open channel with a zero CRI would sign.  Every writer keeps the     *)
(* three fields together.                                                  *)
LockBackedByCri ==
  /\ sys.hardlock <=> sys.cri = CRI_MIN
  /\ sys.open => ~sys.hardlock

(* The pipeline skips everything while its latch holds the same target:    *)
(* that is right only if a set latch means the lock is still on.           *)
LatchMeansLocked == severTarget # NoTarget => sys.hardlock

(* unlock-reauthorization.ts:2: the master's re-authorization is the one    *)
(* call that clears a hardlock: no recovery, resynchronization or later    *)
(* failure does.  An eviction also does, as nothing is read back.          *)
OnlyReauthorizationClears ==
  [][sys.hardlock => (sys'.hardlock \/ Release \/ Restart)]_sysVars

(* session-key-fallback.ts:3: on an invalid or revoked key the process is  *)
(* a read-only observer and signs nothing until it is re-authorized.       *)
(* Disputed: an update that does not name the mode resets it to trading,   *)
(* so the next WebSocket resynchronization reopens the channel.            *)
ObserverStaysClosed ==
  [][sys.mode = "READ_ONLY_OBSERVER" => (~sys'.open \/ Release \/ Restart)]_sysVars
=============================================================================
