---------------------------- MODULE SignedOrders ----------------------------
(***************************************************************************)
(* Orders of the session key from the nonce to the answer:                 *)
(* executeHlSessionKeyOrder, the nonce and heartbeat audit                 *)
(* (nonce-auto-healing.ts), executeSignedAction and its POST with failover *)
(* (execution-transport/, rpc-failover/fetch.ts).  The nonce is taken      *)
(* before the signature is awaited; a POST that timed out is sent again,   *)
(* as it is, to the next endpoint.  The timer ends with the headers of the *)
(* answer: its body is awaited without one.  An order for an exchange URL  *)
(* of its own (the testnet) is posted once, by a fetch without any timer.  *)
(*                                                                         *)
(* Abstracted: prices and sizes, the gates before the audit (the channel   *)
(* stands for them; see SystemState), health reports of the endpoints,     *)
(* dry runs.  External: the exchange takes a nonce once; what is on the    *)
(* wire may arrive at any time or never.                                   *)
(***************************************************************************)
EXTENDS Integers, FiniteSets

CONSTANTS
  Order,
  Ioc,                  \* the orders that fill at once or not at all
  ENDPOINTS,            \* defaultExchangeEndpoints
  HEARTBEAT,            \* SESSION_KEY_HEARTBEAT_MS, in ticks
  MAX_TIME              \* bound of the clock

ASSUME OrderAssumption ==
  /\ Ioc \subseteq Order
  /\ ENDPOINTS \in Nat \ {0}
  /\ HEARTBEAT \in Nat /\ MAX_TIME \in Nat

Verdicts == {"ok", "rejected"}

(* Waiting for the headers of an answer: to a POST with failover, or to a  *)
(* bare fetch.                                                             *)
Waiting == {"posting", "fetching"}

VARIABLES
  now,
  lastNonce,            \* of action-hash.ts; 0 after a reset
  resolved,             \* lastResolvedNonce # 0
  heartbeatAt,          \* lastSessionKeyHeartbeatAt
  channelOpen,
  order,                \* per order: [stage, nonce, tries, result]
  flight,               \* POSTs on the wire: <<order, endpoint>>
  answers,              \* and back: <<order, endpoint, verdict>>
  spent,                \* nonces the exchange took
  resting, executed     \* orders in its book; how often each was executed

exchange == <<spent, resting, executed>>
wire == <<flight, answers>>
key == <<lastNonce, resolved, heartbeatAt, channelOpen>>
orderVars == <<now, key, order, wire, exchange>>

OrdInit ==
  /\ now = 1
  /\ lastNonce = 0 /\ resolved = FALSE
  /\ heartbeatAt = 1
  /\ channelOpen = TRUE
  /\ order = [o \in Order |-> [stage |-> "idle", nonce |-> 0, tries |-> 0, result |-> "none"]]
  /\ flight = {} /\ answers = {}
  /\ spent = {} /\ resting = {}
  /\ executed = [o \in Order |-> 0]

-----------------------------------------------------------------------------
(* Mutation: two calls within one tick get the same nonce.                 *)
GeneratedFromClock(last) == IF now <= last THEN last ELSE now

(* generateUniqueNonce.                                                    *)
Generated(last) == IF now <= last THEN last + 1 ELSE now

(* resetUniqueNonceState, and the nonce generated right after it.          *)
Reset == Generated(0)

Expired == now - heartbeatAt > HEARTBEAT

Done(o, result) == [order EXCEPT ![o].stage = "done", ![o].result = result]

(* The audit finds the heartbeat expired: nonces start again from the      *)
(* clock and the channel is locked.  The heartbeat is not touched.         *)
AuditFails(o) ==
  /\ order[o].stage = "idle" /\ channelOpen /\ Expired
  /\ lastNonce' = Reset /\ resolved' = TRUE
  /\ channelOpen' = FALSE
  /\ order' = Done(o, "expired")
  /\ UNCHANGED <<now, heartbeatAt, wire, exchange>>

(* The first audit of a process generates a nonce that is never used.      *)
Audited == IF resolved THEN lastNonce ELSE Generated(lastNonce)

(* Up to the await of the signature.                                       *)
PlaceOrder(o) ==
  /\ order[o].stage = "idle" /\ channelOpen /\ ~Expired
  /\ lastNonce' = Generated(Audited) /\ resolved' = TRUE
  /\ heartbeatAt' = now
  /\ order' = [order EXCEPT ![o].stage = "signing", ![o].nonce = lastNonce']
  /\ UNCHANGED <<now, channelOpen, wire, exchange>>

(* The gate was read before the await: a lock in between does not stop it. *)
(* Which way the POST goes depends on the exchange URL of the call.        *)
Signed(o) ==
  /\ order[o].stage = "signing"
  /\ \E stage \in Waiting :
       order' = [order EXCEPT ![o].stage = stage, ![o].tries = 1]
  /\ flight' = flight \cup {<<o, 1>>}
  /\ UNCHANGED <<now, key, answers, exchange>>

SigningFails(o) ==
  /\ order[o].stage = "signing"
  /\ order' = Done(o, "unsigned")
  /\ UNCHANGED <<now, key, wire, exchange>>

-----------------------------------------------------------------------------
(* Mutation: each attempt takes a nonce of its own.                        *)
TimesOutResigns(o) ==
  /\ order[o].stage = "posting"
  /\ IF order[o].tries < ENDPOINTS
       THEN /\ lastNonce' = Generated(lastNonce)
            /\ order' = [order EXCEPT ![o].tries = @ + 1, ![o].nonce = lastNonce']
            /\ flight' = flight \cup {<<o, order[o].tries + 1>>}
       ELSE order' = Done(o, "buffered") /\ UNCHANGED <<flight, lastNonce>>
  /\ UNCHANGED <<now, resolved, heartbeatAt, channelOpen, answers, exchange>>

(* Mutation: nothing ends the wait for the last endpoint.                  *)
TimesOutWaits(o) ==
  /\ order[o].stage = "posting" /\ order[o].tries < ENDPOINTS
  /\ order' = [order EXCEPT ![o].tries = @ + 1]
  /\ flight' = flight \cup {<<o, order[o].tries + 1>>}
  /\ UNCHANGED <<now, key, answers, exchange>>

(* The timer of an attempt, or a network error: the same body goes to the  *)
(* next endpoint; the last one leaves the synthetic 503.                   *)
TimesOut(o) ==
  /\ order[o].stage = "posting"
  /\ IF order[o].tries < ENDPOINTS
       THEN /\ order' = [order EXCEPT ![o].tries = @ + 1]
            /\ flight' = flight \cup {<<o, order[o].tries + 1>>}
       ELSE order' = Done(o, "buffered") /\ UNCHANGED flight
  /\ UNCHANGED <<now, key, answers, exchange>>

(* A bare fetch fails on a network error only.                             *)
FetchFails(o) ==
  /\ order[o].stage = "fetching"
  /\ order' = Done(o, "failed")
  /\ UNCHANGED <<now, key, wire, exchange>>

Reading(o, result) == [order EXCEPT ![o].stage = "reading", ![o].result = result]

(* Mutation: an HTTP error is reported as the exchange's refusal.          *)
HttpErrorRejects(o) ==
  /\ order[o].stage \in Waiting
  /\ order' = Reading(o, "rejected")
  /\ UNCHANGED <<now, key, wire, exchange>>

(* The headers of an answer clear the timer.  A status other than 2xx will *)
(* be the result, whatever became of the POST.                             *)
HttpError(o) ==
  /\ order[o].stage \in Waiting
  /\ order' = Reading(o, "http_error")
  /\ UNCHANGED <<now, key, wire, exchange>>

Answered(o, verdict) ==
  /\ order[o].stage \in Waiting
  /\ <<o, order[o].tries, verdict>> \in answers
  /\ order' = Reading(o, verdict)
  /\ UNCHANGED <<now, key, wire, exchange>>

BodyRead(o) ==
  /\ order[o].stage = "reading"
  /\ order' = Done(o, order[o].result)
  /\ UNCHANGED <<now, key, wire, exchange>>

(* The connection breaks, or the body is not JSON.                         *)
BodyFails(o) ==
  /\ order[o].stage = "reading"
  /\ order' = Done(o, "unread")
  /\ UNCHANGED <<now, key, wire, exchange>>

-----------------------------------------------------------------------------
(* The exchange handles a POST.  A resting order is answered with a status *)
(* that assertHlOrderFilled takes for a rejection.                         *)
Handle(o, e) ==
  LET answer(v) == answers' = answers \cup {<<o, e, v>>}
  IN /\ <<o, e>> \in flight
     /\ flight' = flight \ {<<o, e>>}
     /\ \/ /\ order[o].nonce \in spent
           /\ answer("rejected")
           /\ UNCHANGED exchange
        \/ /\ order[o].nonce \notin spent
           /\ spent' = spent \cup {order[o].nonce}
           /\ \/ /\ answer("ok")
                 /\ executed' = [executed EXCEPT ![o] = @ + 1]
                 /\ UNCHANGED resting
              \/ /\ answer("rejected")
                 /\ resting' = IF o \in Ioc THEN resting ELSE resting \cup {o}
                 /\ UNCHANGED executed
     /\ UNCHANGED <<now, key, order>>

RestingFills(o) ==
  /\ o \in resting
  /\ resting' = resting \ {o}
  /\ executed' = [executed EXCEPT ![o] = @ + 1]
  /\ UNCHANGED <<now, key, order, wire, spent>>

(* A WebSocket frame that says the nonce is invalid.                       *)
InvalidNonceFrame ==
  /\ lastNonce' = Reset /\ resolved' = TRUE
  /\ heartbeatAt' = now
  /\ channelOpen' = FALSE
  /\ UNCHANGED <<now, order, wire, exchange>>

(* A ping sent or a pong received.                                         *)
Touch ==
  /\ heartbeatAt' = now
  /\ UNCHANGED <<now, lastNonce, resolved, channelOpen, order, wire, exchange>>

(* The master signs again.  Environment: that takes longer than nonces may *)
(* run ahead of the clock.                                                 *)
Reauthorize ==
  /\ ~channelOpen
  /\ \A o \in Order : order[o].nonce < now
  /\ channelOpen' = TRUE
  /\ UNCHANGED <<now, lastNonce, resolved, heartbeatAt, order, wire, exchange>>

OrdTick ==
  /\ now < MAX_TIME
  /\ now' = now + 1
  /\ UNCHANGED <<key, order, wire, exchange>>

OrdNext ==
  \/ \E o \in Order :
       \/ AuditFails(o) \/ PlaceOrder(o) \/ Signed(o) \/ SigningFails(o)
       \/ TimesOut(o) \/ FetchFails(o) \/ HttpError(o) \/ BodyRead(o) \/ BodyFails(o)
       \/ RestingFills(o)
       \/ \E v \in Verdicts : Answered(o, v)
       \/ \E e \in 1..ENDPOINTS : Handle(o, e)
  \/ InvalidNonceFrame \/ Touch \/ Reauthorize \/ OrdTick

(* The signer answers, and each attempt has a timer until its headers are  *)
(* in.  Nothing ends the wait for a body, or that of a bare fetch.         *)
OrdFairness ==
  \A o \in Order : WF_orderVars(Signed(o)) /\ WF_orderVars(TimesOut(o))

OrdSpec == OrdInit /\ [][OrdNext]_orderVars /\ OrdFairness

-----------------------------------------------------------------------------
(* A nonce belongs to one order, across the resets of an expired heartbeat *)
(* and of an invalid nonce: the exchange would refuse the second order.    *)
NoncesDistinct ==
  \A o, p \in Order : o # p /\ order[o].nonce = order[p].nonce => order[o].nonce = 0

(* rpc-failover/fetch.ts:101 "Exchange POST is stateful": sent to several  *)
(* endpoints, and handled late, an order is executed once at most.         *)
ExecutedAtMostOnce == \A o \in Order : executed[o] + (IF o \in resting THEN 1 ELSE 0) <= 1

(* What a report is worth: an order that was not sent, or that cannot rest *)
(* and was refused at the first endpoint, is refused.  After a timeout, an *)
(* HTTP error or a resting order the code reports a failure it does not    *)
(* know.                                                                   *)
Refused(o) ==
  \/ order[o].result \in {"expired", "unsigned"}
  \/ o \in Ioc /\ order[o].result = "rejected" /\ order[o].tries = 1

Told(o) ==
  IF order[o].stage # "done" THEN "nothing"
  ELSE IF order[o].result = "ok" THEN "filled"
  ELSE IF Refused(o) THEN "refused" ELSE "unknown"

Report == INSTANCE OrderPromise WITH
  fills <- executed, told <- [o \in Order |-> Told(o)]

(* What the ledger does about a leg rests on its report: a filled one was  *)
(* executed, once, a refused one is not executed, then or later.           *)
KeepsOrderPromise == Report!Promise

(* However silent the exchange, a signed order with failover ends up with  *)
(* an answer or without endpoints: the timers see to it that the headers   *)
(* of some attempt are in or the caller is told.  They see to no more: a   *)
(* body that hangs, like a bare fetch, keeps its caller for ever           *)
(* (rpc-failover/fetch.ts:90, post-exchange.ts:29).                        *)
OrdersReturn ==
  \A o \in Order :
    (order[o].stage = "signing") ~> (order[o].stage \in {"fetching", "reading", "done"})
=============================================================================
