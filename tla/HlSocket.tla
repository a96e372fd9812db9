------------------------------ MODULE HlSocket ------------------------------
(***************************************************************************)
(* HyperliquidWsClient (src/adapters/hl/websocket/): one client, the       *)
(* sockets it opens, the health the process trades on, the watchdog timers *)
(* and the reconnect timer.  The handlers of every socket write the same   *)
(* runtime, and close() is asynchronous: the close event of a socket may   *)
(* arrive after its successor was opened.                                  *)
(*                                                                         *)
(* Abstracted: backoff delays (a pending timer fires some time), latency,  *)
(* payloads; socket names are reused once closed; a host's own ws is its   *)
(* last socket, closed whenever its reconnect timer fires.  The WebSocket  *)
(* itself is external: close() of a connecting socket never opens it, a    *)
(* socket that failed or was closed ends with one close event.             *)
(***************************************************************************)
EXTENDS Integers, FiniteSets

CONSTANTS
  Socket,               \* bound: sockets alive at once
  Stream,               \* subscriptions
  STALE_THRESHOLD       \* WS_STALE_THRESHOLD_MS, in ticks

None == 0

ASSUME SocketAssumption ==
  /\ None \notin Socket
  /\ STALE_THRESHOLD \in Nat

VARIABLES
  phase,                \* readyState of each socket; "free": not in use
  ws,                   \* this.ws
  intentionalClose,
  connected, stale,     \* runtime.health
  watch,                \* heartbeatTimer and staleTimer
  retry,                \* reconnectTimer is pending
  idle,                 \* ticks since lastMessageAt
  subscriptions,        \* subState.subscriptions
  sent,                 \* per socket: what it was asked to stream
  overlapped,           \* history: a connect() found another attempt under way
  failing               \* history: the sockets on which a send threw

health == <<connected, stale>>
tracked == <<subscriptions, sent, failing>>
sockVars == <<phase, ws, intentionalClose, connected, stale, watch, retry, idle,
              subscriptions, sent, overlapped, failing>>

SockTypeOK ==
  /\ phase \in [Socket -> {"free", "connecting", "open", "closing"}]
  /\ ws \in Socket \cup {None}
  /\ {intentionalClose, connected, stale, watch, retry, overlapped} \subseteq BOOLEAN
  /\ idle \in 0..(STALE_THRESHOLD + 1)
  /\ subscriptions \subseteq Stream
  /\ sent \in [Socket -> SUBSET Stream]
  /\ failing \subseteq Socket

Open(s) == s # None /\ phase[s] = "open"
Live == {s \in Socket : phase[s] # "free"}

SockInit ==
  /\ phase = [s \in Socket |-> "free"]
  /\ ws = None
  /\ intentionalClose = FALSE
  /\ connected = FALSE /\ stale = FALSE
  /\ watch = FALSE /\ retry = FALSE
  /\ idle = 0
  /\ subscriptions = {}
  /\ sent = [s \in Socket |-> {}]
  /\ overlapped = FALSE
  /\ failing = {}

-----------------------------------------------------------------------------
Lost == connected' = FALSE /\ stale' = TRUE

(* Mutation: a socket that cannot be made schedules nothing.               *)
OpenSocketGivesUp(pending) ==
  \/ \E s \in Socket \ Live :
       /\ phase' = [phase EXCEPT ![s] = "connecting"]
       /\ ws' = s
       /\ retry' = pending
       /\ UNCHANGED health
  \/ ws' = None /\ Lost /\ retry' = pending /\ UNCHANGED phase

(* openHlWsSocket past its guard: the factory makes a socket, or throws.   *)
OpenSocket(pending) ==
  \/ \E s \in Socket \ Live :
       /\ phase' = [phase EXCEPT ![s] = "connecting"]
       /\ ws' = s
       /\ retry' = pending
       /\ UNCHANGED health
  \/ ws' = None /\ Lost /\ retry' = TRUE /\ UNCHANGED phase

(* A second call is harmless only while this.ws is open.  Bound: a socket  *)
(* stays free for the reconnect.                                           *)
Connect ==
  /\ intentionalClose' = FALSE
  /\ IF Open(ws) THEN UNCHANGED <<phase, ws, retry, health, overlapped>>
     ELSE /\ Cardinality(Live) + 1 < Cardinality(Socket)
          /\ OpenSocket(retry)
          /\ overlapped' = (overlapped \/ Live # {} \/ retry)
  /\ UNCHANGED <<watch, idle, tracked>>

(* The callback of the reconnect timer.                                    *)
RetryFires ==
  /\ retry
  /\ OpenSocket(FALSE)
  /\ UNCHANGED <<intentionalClose, watch, idle, tracked, overlapped>>

(* close() on a socket; its close event comes later.                       *)
Closing(s) == IF s = None THEN phase ELSE [phase EXCEPT ![s] = "closing"]

(* Mutation: the pending reconnect survives.                               *)
DisconnectKeepsRetry ==
  /\ intentionalClose' = TRUE
  /\ watch' = FALSE
  /\ phase' = Closing(ws) /\ ws' = None
  /\ Lost
  /\ UNCHANGED <<retry, idle, tracked, overlapped>>

Disconnect ==
  /\ intentionalClose' = TRUE
  /\ watch' = FALSE /\ retry' = FALSE
  /\ phase' = Closing(ws) /\ ws' = None
  /\ Lost
  /\ UNCHANGED <<idle, tracked, overlapped>>

(* sendSubscribe of each stream on s: a send that throws is swallowed.     *)
Sends(s, streams) ==
  \E got \in SUBSET streams :
    /\ sent' = [sent EXCEPT ![s] = @ \cup got]
    /\ failing' = failing \cup {r \in {s} : got # streams}

(* subscribe*: tracked for every later open, sent now if that is possible. *)
Subscribe(x) ==
  /\ subscriptions' = subscriptions \cup {x}
  /\ IF Open(ws) THEN Sends(ws, {x}) ELSE UNCHANGED <<sent, failing>>
  /\ UNCHANGED <<phase, ws, intentionalClose, health, watch, retry, idle,
                 overlapped>>

-----------------------------------------------------------------------------
(* Mutation: a new socket is not sent the earlier subscriptions.           *)
OnOpenForgets(s) ==
  /\ phase[s] = "connecting"
  /\ phase' = [phase EXCEPT ![s] = "open"]
  /\ connected' = TRUE /\ stale' = FALSE
  /\ idle' = 0 /\ watch' = TRUE
  /\ UNCHANGED <<ws, intentionalClose, retry, tracked, overlapped>>

(* onHlWsOpen.                                                             *)
OnOpen(s) ==
  /\ phase[s] = "connecting"
  /\ phase' = [phase EXCEPT ![s] = "open"]
  /\ connected' = TRUE /\ stale' = FALSE
  /\ idle' = 0 /\ watch' = TRUE
  /\ Sends(s, subscriptions)
  /\ UNCHANGED <<ws, intentionalClose, retry, subscriptions, overlapped>>

(* Any frame counts as activity; it does not restore connected.            *)
OnMessage(s) ==
  /\ phase[s] = "open"
  /\ idle' = 0 /\ stale' = FALSE
  /\ UNCHANGED <<phase, ws, intentionalClose, connected, watch, retry, tracked,
                 overlapped>>

(* onerror.                                                                *)
OnError(s) ==
  /\ phase[s] \in {"connecting", "open"}
  /\ phase' = Closing(s)
  /\ Lost
  /\ UNCHANGED <<ws, intentionalClose, watch, retry, idle, tracked, overlapped>>

(* The heartbeat ping, sent on the socket whose opening started the timers *)
(* (here any open one), throws: only the health is patched.                *)
PingFails(s) ==
  /\ watch /\ phase[s] = "open"
  /\ Lost
  /\ failing' = failing \cup {s}
  /\ UNCHANGED <<phase, ws, intentionalClose, watch, retry, idle, subscriptions,
                 sent, overlapped>>

(* Mutation: the timers go, the health is left to onerror.                 *)
OnCloseLeavesHealth(s) ==
  /\ phase[s] # "free"
  /\ phase' = [phase EXCEPT ![s] = "free"]
  /\ sent' = [sent EXCEPT ![s] = {}]
  /\ failing' = failing \ {s}
  /\ ws' = None
  /\ watch' = FALSE
  /\ retry' = (retry \/ ~intentionalClose)
  /\ UNCHANGED <<intentionalClose, health, idle, subscriptions, overlapped>>

(* onclose, of whichever socket: the shared timers and this.ws go, and one *)
(* reconnect is scheduled unless one is pending or the caller closed.      *)
OnClose(s) ==
  /\ phase[s] # "free"
  /\ phase' = [phase EXCEPT ![s] = "free"]
  /\ sent' = [sent EXCEPT ![s] = {}]
  /\ failing' = failing \ {s}
  /\ ws' = None
  /\ Lost
  /\ watch' = FALSE
  /\ retry' = (retry \/ ~intentionalClose)
  /\ UNCHANGED <<intentionalClose, idle, subscriptions, overlapped>>

Silent == idle > STALE_THRESHOLD

(* Mutation: silence is reported, the socket is kept.                      *)
CheckStaleOnlyReports ==
  /\ watch /\ connected /\ Silent
  /\ stale' = TRUE
  /\ UNCHANGED <<phase, ws, intentionalClose, connected, watch, retry, idle, tracked,
                 overlapped>>

(* Mutation: the successor is scheduled before the close event.            *)
CheckStaleReopens ==
  /\ watch /\ connected /\ Silent
  /\ stale' = TRUE
  /\ phase' = IF intentionalClose THEN phase ELSE Closing(ws)
  /\ retry' = (retry \/ ~intentionalClose)
  /\ UNCHANGED <<ws, intentionalClose, connected, watch, idle, tracked, overlapped>>

(* checkHlWsClientStale and reconnect(): the close event does the rest.    *)
CheckStale ==
  /\ watch /\ connected /\ Silent
  /\ stale' = TRUE
  /\ phase' = IF intentionalClose THEN phase ELSE Closing(ws)
  /\ UNCHANGED <<ws, intentionalClose, connected, watch, retry, idle, tracked,
                 overlapped>>

SockTick ==
  /\ ~Silent
  /\ idle' = idle + 1
  /\ UNCHANGED <<phase, ws, intentionalClose, health, watch, retry, tracked,
                 overlapped>>

SockNext ==
  \/ Connect \/ Disconnect \/ RetryFires \/ CheckStale \/ SockTick
  \/ \E x \in Stream : Subscribe(x)
  \/ \E s \in Socket : \/ OnOpen(s) \/ OnMessage(s) \/ OnError(s)
                        \/ PingFails(s) \/ OnClose(s)

(* The runtime fires timers and delivers close events; a network that is   *)
(* there again and again accepts a connection in the end.                  *)
SockFairness ==
  /\ WF_sockVars(CheckStale)
  /\ \A s \in Socket : WF_sockVars(phase[s] = "closing" /\ OnClose(s))
  /\ SF_sockVars(RetryFires /\ ws' # None)
  /\ SF_sockVars(\E s \in Socket : OnOpen(s))

SockSpec == SockInit /\ [][SockNext]_sockVars /\ SockFairness

-----------------------------------------------------------------------------
(* The watchdog tests connected first, and a failure clears connected: a   *)
(* half-open connection is noticed only if no order of the events of two   *)
(* sockets leaves the client connected and unwatched.                      *)
WatchedWhileConnected == connected => watch

(* websocket-reconnect.test.ts "disconnect prevents auto reconnect", for   *)
(* the close events that arrive after disconnect() as well.                *)
NoRetryAfterDisconnect == intentionalClose => ~retry

(* A reconnect loses no subscription: the trades of the user would be      *)
(* missed without any error.  A send that throws is swallowed and not      *)
(* repeated before the next open (failing).                                *)
StreamsCarriedOver == Open(ws) /\ ws \notin failing => subscriptions \subseteq sent[ws]

(* Each open socket pushes the user's events into the same array, so a     *)
(* fill is counted once only while one socket is open, and none is after   *)
(* disconnect().  It takes a caller that lets an attempt end before the    *)
(* next connect(): its guard sees an open this.ws only.                    *)
OneFeed ==
  ~overlapped =>
    /\ \A r, s \in Live : r = s
    /\ intentionalClose => ~connected /\ \A s \in Socket : ~Open(s)

(* Once started, the client is connected again whatever failed, until the  *)
(* caller disconnects -- unless a ping threw on a socket that stays open:  *)
(* the client is then not connected, the watchdog returns early            *)
(* (websocket-connection-timers.ts:79), and nothing replaces the socket.   *)
ComesBack ==
  (Live # {} \/ retry) ~>
    (connected \/ intentionalClose \/ (Open(ws) /\ failing # {}))

(* "flags stale and reconnects when no activity for >5s": a socket that    *)
(* went silent is not kept while the client is connected.                  *)
SilenceEnds == (connected /\ Silent) ~> (~Silent \/ ~connected \/ intentionalClose)
=============================================================================
