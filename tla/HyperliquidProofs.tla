-------------------------- MODULE HyperliquidProofs --------------------------
(***************************************************************************)
(* The two sides of the exchange client: signed orders, for any number of  *)
(* orders, endpoints and ticks, and the WebSocket client, for any number   *)
(* of sockets and streams and any stale threshold.                         *)
(*                                                                         *)
(* Orders: OrdInv says of each order what may be on the wire, in the book  *)
(* and executed at its stage (OrderParts), and that the next nonce passes  *)
(* those in use as long as orders may be placed (NoncesPassed), which the  *)
(* reset of an expired heartbeat breaks and the locked channel makes up    *)
(* for.  OrdersKeepPromise is the refinement: an execution is a Fill, the  *)
(* end of an order a Tell, and OrdInv says that each is allowed.           *)
(*                                                                         *)
(* Sockets: OneFeed is not inductive: SockInv adds that this.ws names a    *)
(* socket in use, and, as long as no connect() overlapped another attempt, *)
(* that a pending reconnect excludes live sockets and that whatever        *)
(* connects or is open is this.ws -- which is why disconnect() and the     *)
(* watchdog close the right one.                                           *)
(***************************************************************************)
EXTENDS SignedOrders, HlSocket, TLAPS

USE DEF Waiting

OrderRecords ==
  [stage : {"idle", "signing", "posting", "fetching", "reading", "done"},
   nonce : Nat, tries : 0..ENDPOINTS,
   result : {"none", "expired", "unsigned", "buffered", "failed", "http_error", "unread",
             "ok", "rejected"}]

OrdTypeOK ==
  /\ now \in Nat \ {0} /\ lastNonce \in Nat /\ heartbeatAt \in Nat
  /\ resolved \in BOOLEAN /\ channelOpen \in BOOLEAN
  /\ order \in [Order -> OrderRecords]
  /\ flight \subseteq Order \X (1..ENDPOINTS)
  /\ answers \subseteq Order \X (1..ENDPOINTS) \X Verdicts
  /\ spent \subseteq Nat
  /\ resting \subseteq Order
  /\ executed \in [Order -> Nat]

(* While orders may be placed, the next nonce passes every one in use.     *)
Passed(o) == order[o].nonce <= lastNonce \/ order[o].nonce < now
NoncesPassed == channelOpen => \A o \in Order : Passed(o)

(* An order has a nonce once placed, a POST once signed, and nothing of it *)
(* has happened before its first POST.                                     *)
Staged(o) ==
  /\ order[o].stage = "idle" => order[o].nonce = 0
  /\ order[o].stage \in {"idle", "signing"} <=> order[o].result = "none" /\ order[o].tries = 0
  /\ order[o].stage \in Waiting => order[o].tries > 0 /\ order[o].result = "none"
  /\ order[o].tries = 0 => executed[o] = 0 /\ o \notin resting
  /\ order[o].result \in {"expired", "unsigned"} => order[o].tries = 0

(* One POST per attempt, on the wire until it is answered, once.           *)
WireSound(o) ==
  /\ \A e \in 1..ENDPOINTS :
       /\ <<o, e>> \in flight =>
            e <= order[o].tries /\ \A v \in Verdicts : <<o, e, v>> \notin answers
       /\ \A v \in Verdicts : <<o, e, v>> \in answers => e <= order[o].tries
       /\ <<o, e, "ok">> \notin answers \/ <<o, e, "rejected">> \notin answers

(* The exchange took the nonce of whatever it booked or executed; what can *)
(* not rest was executed on the POST that was answered so; such an answer  *)
(* is given for nothing else.                                              *)
BookSound(o) ==
  /\ executed[o] > 0 \/ o \in resting => order[o].nonce \in spent
  /\ \A e \in 1..ENDPOINTS : <<o, e, "ok">> \in answers => executed[o] > 0
  /\ o \in Ioc =>
       /\ o \notin resting
       /\ executed[o] > 0 => \E e \in 1..ENDPOINTS : <<o, e, "ok">> \in answers

(* A verdict is reported as the current endpoint gave it.                  *)
ResultSound(o) ==
  order[o].result \in Verdicts => <<o, order[o].tries, order[o].result>> \in answers

OrderParts(o) == Staged(o) /\ WireSound(o) /\ BookSound(o) /\ ResultSound(o)

OrdInv ==
  /\ OrdTypeOK
  /\ NoncesPassed
  /\ NoncesDistinct
  /\ ExecutedAtMostOnce
  /\ \A o \in Order : OrderParts(o)

LEMMA OrdInitInv == OrdInit => OrdInv
<1> SUFFICES ASSUME OrdInit PROVE OrdInv
  OBVIOUS
<1>1. OrdTypeOK
  <2>1. \A o \in Order :
          order[o] = [stage |-> "idle", nonce |-> 0, tries |-> 0, result |-> "none"]
    BY DEF OrdInit
  <2>2. \A o \in Order : order[o] \in OrderRecords
    BY <2>1, OrderAssumption DEF OrderRecords
  <2>3. order = [o \in Order |-> order[o]] /\ executed \in [Order -> Nat]
    BY DEF OrdInit
  <2> QED
    <3>1. order \in [Order -> OrderRecords]
      BY <2>2, <2>3
    <3>2. /\ flight = {} /\ answers = {} /\ spent = {} /\ resting = {}
          /\ now = 1 /\ lastNonce = 0 /\ heartbeatAt = 1
          /\ resolved = FALSE /\ channelOpen = TRUE
      BY DEF OrdInit
    <3>3. /\ flight \subseteq Order \X (1..ENDPOINTS)
          /\ answers \subseteq Order \X (1..ENDPOINTS) \X Verdicts
          /\ spent \subseteq Nat /\ resting \subseteq Order
          /\ resolved \in BOOLEAN /\ channelOpen \in BOOLEAN
      BY <3>2, Zenon
    <3>4. now \in Nat \ {0} /\ lastNonce \in Nat /\ heartbeatAt \in Nat
      BY <3>2
    <3> QED
      BY <2>3, <3>1, <3>3, <3>4, Zenon DEF OrdTypeOK
<1>2. NoncesPassed /\ NoncesDistinct /\ ExecutedAtMostOnce
  BY DEF OrdInit, NoncesPassed, Passed, NoncesDistinct, ExecutedAtMostOnce
<1>3. \A o \in Order : OrderParts(o)
  BY DEF OrdInit, OrderParts, Staged, WireSound, BookSound, ResultSound, Verdicts
<1> QED
  BY <1>1, <1>2, <1>3 DEF OrdInv

(* Whatever the last nonce, the next one is later than it and not before   *)
(* the clock.                                                              *)
LEMMA GeneratedIsNext ==
  ASSUME OrdTypeOK, NEW last \in Nat
  PROVE  /\ Generated(last) \in Nat
         /\ Generated(last) > last /\ Generated(last) >= now
BY DEF OrdTypeOK, Generated

LEMMA ResetIsNow == ASSUME OrdTypeOK PROVE Reset \in Nat
BY DEF OrdTypeOK, Reset, Generated

(* The steps that leave orders, wire and exchange alone.                   *)
LEMMA OrdQuietKeeps ==
  ASSUME OrdInv, UNCHANGED <<order, wire, exchange>>, OrdTypeOK', NoncesPassed'
  PROVE  OrdInv'
BY DEF OrdInv, wire, exchange, NoncesDistinct, ExecutedAtMostOnce, OrderParts,
       Staged, WireSound, BookSound, ResultSound

LEMMA ProcessStepKeeps ==
  ASSUME OrdInv, InvalidNonceFrame \/ Touch \/ Reauthorize \/ OrdTick \/ UNCHANGED orderVars
  PROVE  OrdInv'
<1>1. UNCHANGED <<order, wire, exchange>>
  BY DEF InvalidNonceFrame, Touch, Reauthorize, OrdTick, orderVars, key, wire, exchange
<1>2. /\ now' \in Nat \ {0} /\ lastNonce' \in Nat /\ heartbeatAt' \in Nat
      /\ resolved' \in BOOLEAN /\ channelOpen' \in BOOLEAN
  <2>1. OrdTypeOK
    BY DEF OrdInv
  <2>2. CASE InvalidNonceFrame
    BY <2>1, <2>2, ResetIsNow DEF OrdTypeOK, InvalidNonceFrame
  <2>3. CASE Touch
    BY <2>1, <2>3 DEF OrdTypeOK, Touch
  <2>4. CASE Reauthorize
    BY <2>1, <2>4 DEF OrdTypeOK, Reauthorize
  <2>5. CASE OrdTick
    BY <2>1, <2>5 DEF OrdTypeOK, OrdTick, key
  <2>6. CASE UNCHANGED orderVars
    BY <2>1, <2>6 DEF OrdTypeOK, orderVars, key
  <2> QED
    BY <2>2, <2>3, <2>4, <2>5, <2>6
<1>3. OrdTypeOK'
  BY <1>1, <1>2 DEF OrdInv, OrdTypeOK, wire, exchange
<1>4. NoncesPassed'
  <2>1. CASE InvalidNonceFrame
    BY <2>1 DEF InvalidNonceFrame, NoncesPassed
  <2>2. CASE Reauthorize
    BY <2>2 DEF Reauthorize, NoncesPassed, Passed
  <2>3. CASE Touch \/ OrdTick \/ UNCHANGED orderVars
    <3>1. UNCHANGED <<lastNonce, channelOpen, order>> /\ (now' = now \/ now' = now + 1)
      BY <2>3 DEF Touch, OrdTick, orderVars, key
    <3>2. ASSUME NEW o \in Order, Passed(o) PROVE Passed(o)'
      BY <3>1, <3>2 DEF OrdInv, OrdTypeOK, OrderRecords, Passed
    <3> QED
      BY <3>1, <3>2 DEF OrdInv, NoncesPassed
  <2> QED
    BY <2>1, <2>2, <2>3
<1> QED
  BY <1>1, <1>3, <1>4, OrdQuietKeeps

-----------------------------------------------------------------------------
LEMMA PlaceOrderKeeps == ASSUME OrdInv, NEW o \in Order, PlaceOrder(o) PROVE OrdInv'
<1> USE DEF OrderRecords
<1> DEFINE n == Generated(Audited)
<1>1. OrdTypeOK /\ order[o].stage = "idle" /\ channelOpen
  BY DEF OrdInv, PlaceOrder
<1>2. Audited \in Nat /\ Audited >= lastNonce
  BY <1>1, GeneratedIsNext DEF OrdTypeOK, Audited
<1>3. n \in Nat /\ n > lastNonce /\ n >= now
  BY <1>1, <1>2, GeneratedIsNext DEF OrdTypeOK
<1>4. /\ lastNonce' = n /\ resolved' = TRUE /\ heartbeatAt' = now
      /\ order' = [order EXCEPT ![o].stage = "signing", ![o].nonce = n]
      /\ UNCHANGED <<now, channelOpen, wire, exchange>>
  BY DEF PlaceOrder
<1>5. \A p \in Order : order[p].nonce < n
  BY <1>1, <1>3 DEF OrdInv, NoncesPassed, Passed, OrdTypeOK
<1>6. \A p \in Order :
        order'[p] = IF p = o THEN [order[o] EXCEPT !.stage = "signing", !.nonce = n] ELSE order[p]
  BY <1>1, <1>4 DEF OrdTypeOK
<1>7. OrdTypeOK'
  BY <1>1, <1>3, <1>4 DEF OrdTypeOK, OrderRecords, wire, exchange
<1>8. NoncesPassed' /\ NoncesDistinct'
  BY <1>1, <1>3, <1>4, <1>5, <1>6 DEF OrdInv, OrdTypeOK, NoncesPassed, Passed, NoncesDistinct
<1>9. ASSUME NEW p \in Order PROVE OrderParts(p)'
  <2>1. OrderParts(p) /\ UNCHANGED <<flight, answers, spent, resting, executed>>
    BY <1>4 DEF OrdInv, wire, exchange
  <2>2. CASE p # o
    BY <1>6, <2>1, <2>2 DEF OrderParts, Staged, WireSound, BookSound, ResultSound
  <2>3. CASE p = o
    <3>1. order'[o] = [order[o] EXCEPT !.stage = "signing", !.nonce = n]
      BY <1>6
    <3>2. /\ order'[o].stage = "signing" /\ order'[o].nonce = n
          /\ order'[o].tries = order[o].tries /\ order'[o].result = order[o].result
      BY <1>1, <3>1 DEF OrdTypeOK
    <3>3. executed[o] = 0 /\ o \notin resting
      BY <1>1, <2>1, <2>3 DEF OrderParts, Staged
    <3> HIDE DEF n
    <3>4. Staged(o)' /\ WireSound(o)'
      BY <1>1, <2>1, <2>3, <3>2 DEF OrderParts, Staged, WireSound
    <3>5. BookSound(o)' /\ ResultSound(o)'
      BY <1>1, <2>1, <2>3, <3>2, <3>3 DEF OrderParts, BookSound, ResultSound
    <3> QED
      BY <2>3, <3>4, <3>5 DEF OrderParts
  <2> QED
    BY <2>2, <2>3
<1> QED
  BY <1>4, <1>7, <1>8, <1>9 DEF OrdInv, ExecutedAtMostOnce, exchange, OrderParts

(* The steps of one order that change no nonce: what is left is its parts. *)
LEMMA OrderStepKeeps ==
  ASSUME OrdInv, NEW o \in Order, NEW r, OrdTypeOK',
         order' = [order EXCEPT ![o] = r], r.nonce = order[o].nonce,
         channelOpen' = FALSE \/ UNCHANGED <<channelOpen, now, lastNonce>>,
         UNCHANGED <<answers, exchange>>,
         \A p \in Order \ {o}, e \in 1..ENDPOINTS : <<p, e>> \in flight' <=> <<p, e>> \in flight,
         OrderParts(o)'
  PROVE  OrdInv'
<1> USE DEF OrdInv
<1>1. \A p \in Order : order'[p] = IF p = o THEN r ELSE order[p]
  BY DEF OrdTypeOK
<1>2. NoncesPassed' /\ NoncesDistinct'
  <2>1. \A p \in Order : order'[p].nonce = order[p].nonce
    BY <1>1
  <2>2. NoncesDistinct'
    BY <2>1 DEF NoncesDistinct
  <2>3. CASE channelOpen' = FALSE
    BY <2>2, <2>3 DEF NoncesPassed
  <2>4. CASE UNCHANGED <<channelOpen, now, lastNonce>>
    BY <2>1, <2>2, <2>4 DEF NoncesPassed, Passed
  <2> QED
    BY <2>3, <2>4
<1>3. ASSUME NEW p \in Order \ {o} PROVE OrderParts(p)'
  BY <1>1, <1>3 DEF OrderParts, Staged, WireSound, BookSound, ResultSound, exchange
<1> QED
  BY <1>2, <1>3 DEF ExecutedAtMostOnce, exchange, OrderParts

(* Only the order itself moves: it ends with no verdict, or reads an error *)
(* status, or goes to its next POST.                                       *)
LEMMA EndsKeeps ==
  ASSUME OrdInv, NEW o \in Order, NEW stage \in {"reading", "done"},
         NEW result \in {"expired", "unsigned", "buffered", "failed", "http_error", "unread"},
         order' = [order EXCEPT ![o].stage = stage, ![o].result = result],
         result \in {"expired", "unsigned"} => order[o].stage \in {"idle", "signing"},
         lastNonce' \in Nat, resolved' \in BOOLEAN,
         channelOpen' = FALSE \/ UNCHANGED <<channelOpen, lastNonce>>, channelOpen' \in BOOLEAN,
         UNCHANGED <<now, heartbeatAt, wire, exchange>>
  PROVE  OrdInv'
<1> DEFINE r == [order[o] EXCEPT !.stage = stage, !.result = result]
<1>1. OrdTypeOK /\ OrderParts(o)
  BY DEF OrdInv
<1>2. r \in OrderRecords /\ r.stage = stage /\ r.result = result
      /\ r.nonce = order[o].nonce /\ r.tries = order[o].tries
  BY <1>1 DEF OrdTypeOK, OrderRecords
<1>3. order' = [order EXCEPT ![o] = r]
  BY <1>1 DEF OrdTypeOK
<1> HIDE DEF r
<1>4. OrdTypeOK'
  BY <1>1, <1>2, <1>3 DEF OrdTypeOK, wire, exchange
<1>5. order'[o] = r
  BY <1>1, <1>3 DEF OrdTypeOK
<1>6. OrderParts(o)'
  <2>1. Staged(o)'
    <3>1. Staged(o) /\ executed' = executed /\ resting' = resting
      BY <1>1 DEF OrderParts, exchange
    <3>2. result # "none" /\ stage \notin {"idle", "signing", "posting", "fetching"}
      OBVIOUS
    <3>3. result \in {"expired", "unsigned"} => order[o].tries = 0
      BY <3>1 DEF Staged
    <3> QED
      BY <1>2, <1>5, <3>1, <3>2, <3>3 DEF Staged
  <2>2. WireSound(o)' /\ BookSound(o)' /\ ResultSound(o)'
    BY <1>1, <1>2, <1>5 DEF OrderParts, WireSound, BookSound, ResultSound, Verdicts,
       wire, exchange
  <2> QED
    BY <2>1, <2>2 DEF OrderParts
<1>7. channelOpen' = FALSE \/ UNCHANGED <<channelOpen, now, lastNonce>>
  OBVIOUS
<1> QED
  BY <1>2, <1>3, <1>4, <1>6, <1>7, OrderStepKeeps DEF wire

LEMMA AuditFailsKeeps == ASSUME OrdInv, NEW o \in Order, AuditFails(o) PROVE OrdInv'
BY EndsKeeps, ResetIsNow DEF AuditFails, Done, OrdInv

LEMMA NoAnswerKeeps ==
  ASSUME OrdInv, NEW o \in Order,
         SigningFails(o) \/ FetchFails(o) \/ HttpError(o) \/ BodyFails(o)
  PROVE  OrdInv'
<1>1. UNCHANGED <<now, heartbeatAt, wire, exchange>> /\ UNCHANGED <<channelOpen, lastNonce>>
  BY DEF SigningFails, FetchFails, HttpError, BodyFails, key
<1>2. lastNonce' \in Nat /\ resolved' \in BOOLEAN /\ channelOpen' \in BOOLEAN
  BY DEF SigningFails, FetchFails, HttpError, BodyFails, key, OrdInv, OrdTypeOK
<1>3. PICK stage \in {"reading", "done"},
           result \in {"expired", "unsigned", "buffered", "failed", "http_error", "unread"} :
        /\ order' = [order EXCEPT ![o].stage = stage, ![o].result = result]
        /\ result \in {"expired", "unsigned"} => order[o].stage \in {"idle", "signing"}
  BY DEF SigningFails, FetchFails, HttpError, BodyFails, Done, Reading
<1> QED
  BY <1>1, <1>2, <1>3, EndsKeeps

(* The next POST goes to an endpoint that has had none of this order.      *)
LEMMA PostKeeps ==
  ASSUME OrdInv, NEW o \in Order, NEW e \in 1..ENDPOINTS,
         order[o].stage \in {"signing", "posting"}, e = order[o].tries + 1,
         NEW stage \in Waiting,
         NEW r, r = [order[o] EXCEPT !.stage = stage, !.tries = e],
         order' = [order EXCEPT ![o] = r],
         flight' = flight \cup {<<o, e>>},
         UNCHANGED <<now, key, answers, exchange>>
  PROVE  OrdInv'
<1>1. OrdTypeOK /\ OrderParts(o)
  BY DEF OrdInv
<1>2. r \in OrderRecords /\ r.stage = stage /\ r.tries = e
      /\ r.nonce = order[o].nonce /\ r.result = order[o].result
  <2>1. e \in 0..ENDPOINTS /\ order[o] \in OrderRecords
    BY <1>1, OrderAssumption DEF OrdTypeOK
  <2> QED
    BY <2>1 DEF OrderRecords
<1>3. flight' \subseteq Order \X (1..ENDPOINTS)
  BY <1>1 DEF OrdTypeOK
<1>4. OrdTypeOK'
  BY <1>1, <1>2, <1>3 DEF OrdTypeOK, key, exchange
<1>5. order'[o] = r
  BY <1>1 DEF OrdTypeOK
<1>6. order[o].result = "none" /\ order[o].tries \in Nat
  BY <1>1 DEF OrderParts, Staged, OrdTypeOK, OrderRecords
<1>7. Staged(o)' /\ BookSound(o)' /\ ResultSound(o)'
  BY <1>1, <1>2, <1>5, <1>6 DEF OrderParts, Staged, BookSound, ResultSound, Verdicts, exchange
<1>8. WireSound(o)'
  <2> SUFFICES ASSUME NEW d \in 1..ENDPOINTS
      PROVE  /\ <<o, d>> \in flight' =>
                  d <= e /\ \A v \in Verdicts : <<o, d, v>> \notin answers
             /\ \A v \in Verdicts : <<o, d, v>> \in answers => d <= e
             /\ <<o, d, "ok">> \notin answers \/ <<o, d, "rejected">> \notin answers
    BY <1>2, <1>5 DEF WireSound
  <2>1. d \in Nat /\ e \in Nat /\ e = order[o].tries + 1
    BY OrderAssumption
  <2>2. /\ <<o, d>> \in flight =>
             d <= order[o].tries /\ \A v \in Verdicts : <<o, d, v>> \notin answers
        /\ \A v \in Verdicts : <<o, d, v>> \in answers => d <= order[o].tries
        /\ <<o, d, "ok">> \notin answers \/ <<o, d, "rejected">> \notin answers
    BY <1>1 DEF OrderParts, WireSound
  <2>3. <<o, d>> \in flight' => <<o, d>> \in flight \/ d = e
    OBVIOUS
  <2> QED
    BY <1>6, <2>1, <2>2, <2>3
<1>9. \A p \in Order \ {o}, d \in 1..ENDPOINTS : <<p, d>> \in flight' <=> <<p, d>> \in flight
  OBVIOUS
<1>10. UNCHANGED <<channelOpen, now, lastNonce>>
  BY DEF key
<1> QED
  BY <1>2, <1>3, <1>4, <1>7, <1>8, <1>9, <1>10, OrderStepKeeps DEF OrderParts

LEMMA SignedKeeps == ASSUME OrdInv, NEW o \in Order, Signed(o) PROVE OrdInv'
<1> PICK stage \in Waiting : order' = [order EXCEPT ![o].stage = stage, ![o].tries = 1]
  BY DEF Signed
<1> DEFINE r == [order[o] EXCEPT !.stage = stage, !.tries = 1]
<1>1. order[o].tries = 0 /\ 1 \in 1..ENDPOINTS
  BY OrderAssumption DEF Signed, OrdInv, OrderParts, Staged
<1>2. order' = [order EXCEPT ![o] = r]
  BY DEF OrdInv, OrdTypeOK
<1>3. /\ order[o].stage \in {"signing", "posting"} /\ 1 = order[o].tries + 1
      /\ flight' = flight \cup {<<o, 1>>}
      /\ UNCHANGED <<now, key, answers, exchange>>
  BY <1>1 DEF Signed
<1>4. r = [order[o] EXCEPT !.stage = stage, !.tries = 1]
  OBVIOUS
<1> HIDE DEF r
<1> QED
  BY <1>1, <1>2, <1>3, <1>4, PostKeeps

LEMMA TimesOutKeeps == ASSUME OrdInv, NEW o \in Order, TimesOut(o) PROVE OrdInv'
<1>1. OrdTypeOK /\ order[o].tries \in Nat /\ order[o].stage = "posting"
  BY DEF OrdInv, OrdTypeOK, OrderRecords, TimesOut
<1>2. CASE order[o].tries < ENDPOINTS
  <2> DEFINE e == order[o].tries + 1
             r == [order[o] EXCEPT !.stage = "posting", !.tries = e]
  <2>1. /\ order' = [order EXCEPT ![o].tries = e]
        /\ flight' = flight \cup {<<o, e>>}
        /\ UNCHANGED <<now, key, answers, exchange>>
    BY <1>2 DEF TimesOut
  <2>2. r = [order[o] EXCEPT !.tries = e]
    BY <1>1 DEF OrdTypeOK, OrderRecords
  <2>3. order' = [order EXCEPT ![o] = r]
    BY <1>1, <2>1, <2>2 DEF OrdTypeOK
  <2>4. e \in 1..ENDPOINTS
    BY <1>1, <1>2, OrderAssumption
  <2> HIDE DEF r
  <2> QED
    BY <1>1, <2>1, <2>3, <2>4, PostKeeps DEF r
<1>3. CASE ~(order[o].tries < ENDPOINTS)
  <2>1. /\ order' = [order EXCEPT ![o].stage = "done", ![o].result = "buffered"]
        /\ UNCHANGED <<now, lastNonce, resolved, heartbeatAt, channelOpen, wire, exchange>>
    BY <1>1, <1>3 DEF TimesOut, Done, key, wire
  <2>2. lastNonce' \in Nat /\ resolved' \in BOOLEAN /\ channelOpen' \in BOOLEAN
    BY <1>1, <2>1 DEF OrdTypeOK
  <2> QED
    BY <2>1, <2>2, EndsKeeps
<1> QED
  BY <1>2, <1>3

LEMMA AnsweredKeeps ==
  ASSUME OrdInv, NEW o \in Order, NEW verdict \in Verdicts, Answered(o, verdict)
  PROVE  OrdInv'
<1> DEFINE r == [order[o] EXCEPT !.stage = "reading", !.result = verdict]
<1>1. /\ OrdTypeOK /\ OrderParts(o) /\ verdict \in {"ok", "rejected"}
      /\ order[o].stage \in Waiting /\ <<o, order[o].tries, verdict>> \in answers
      /\ UNCHANGED <<now, key, wire, exchange>>
  BY DEF OrdInv, Answered, Verdicts
<1>2. r \in OrderRecords /\ r.stage = "reading" /\ r.result = verdict
      /\ r.nonce = order[o].nonce /\ r.tries = order[o].tries
  BY <1>1 DEF OrdTypeOK, OrderRecords
<1>3. order' = [order EXCEPT ![o] = r]
  BY <1>1 DEF Answered, Reading, OrdTypeOK
<1> HIDE DEF r
<1>4. OrdTypeOK'
  BY <1>1, <1>2, <1>3 DEF OrdTypeOK, key, wire, exchange
<1>5. order'[o] = r
  BY <1>1, <1>3 DEF OrdTypeOK
<1>6. OrderParts(o)'
  BY <1>1, <1>2, <1>5 DEF OrderParts, Staged, WireSound, BookSound, ResultSound, wire, exchange
<1>7. UNCHANGED <<channelOpen, now, lastNonce>>
  BY <1>1 DEF key
<1> QED
  BY <1>1, <1>2, <1>3, <1>4, <1>6, <1>7, OrderStepKeeps DEF wire

(* The body is in: the verdict that its headers announced is the result.   *)
LEMMA BodyReadKeeps == ASSUME OrdInv, NEW o \in Order, BodyRead(o) PROVE OrdInv'
<1> DEFINE r == [order[o] EXCEPT !.stage = "done"]
<1>1. /\ OrdTypeOK /\ OrderParts(o) /\ order[o].stage = "reading"
      /\ UNCHANGED <<now, key, wire, exchange>>
  BY DEF OrdInv, BodyRead
<1>2. r \in OrderRecords /\ r.stage = "done" /\ r.result = order[o].result
      /\ r.nonce = order[o].nonce /\ r.tries = order[o].tries
  BY <1>1 DEF OrdTypeOK, OrderRecords
<1>3. order' = [order EXCEPT ![o] = r]
  <2>1. [order[o] EXCEPT !.stage = "done", !.result = order[o].result] = r
    BY <1>1 DEF OrdTypeOK, OrderRecords
  <2>2. order' = [order EXCEPT ![o] = [order[o] EXCEPT !.stage = "done",
                                                       !.result = order[o].result]]
    BY <1>1 DEF BodyRead, Done, OrdTypeOK
  <2> QED
    BY <2>1, <2>2
<1> HIDE DEF r
<1>4. OrdTypeOK'
  BY <1>1, <1>2, <1>3 DEF OrdTypeOK, key, wire, exchange
<1>5. order'[o] = r
  BY <1>1, <1>3 DEF OrdTypeOK
<1>6. OrderParts(o)'
  BY <1>1, <1>2, <1>5 DEF OrderParts, Staged, WireSound, BookSound, ResultSound, wire, exchange
<1>7. UNCHANGED <<channelOpen, now, lastNonce>>
  BY <1>1 DEF key
<1> QED
  BY <1>1, <1>2, <1>3, <1>4, <1>6, <1>7, OrderStepKeeps DEF wire

-----------------------------------------------------------------------------
(* The exchange: no order changes, and of one order what it is known for.  *)
SameFor(p) ==
  /\ executed'[p] = executed[p]
  /\ p \in resting' <=> p \in resting
  /\ \A e \in 1..ENDPOINTS :
       /\ <<p, e>> \in flight' <=> <<p, e>> \in flight
       /\ \A v \in Verdicts : <<p, e, v>> \in answers' <=> <<p, e, v>> \in answers

LEMMA ExchangeStepKeeps ==
  ASSUME OrdInv, NEW o \in Order, UNCHANGED <<now, key, order>>, OrdTypeOK',
         executed'[o] + (IF o \in resting' THEN 1 ELSE 0) <= 1,
         OrderParts(o)', spent \subseteq spent',
         \A p \in Order \ {o} : SameFor(p)
  PROVE  OrdInv'
<1> USE DEF OrdInv, SameFor
<1>1. ASSUME NEW p \in Order \ {o} PROVE OrderParts(p)'
  <2>1. OrderParts(p)
    OBVIOUS
  <2>2. Staged(p)' /\ BookSound(p)'
    BY <2>1 DEF OrderParts, Staged, BookSound, Verdicts
  <2>3. WireSound(p)'
    BY <2>1 DEF OrderParts, WireSound, Verdicts
  <2>4. ResultSound(p)'
    <3>1. ASSUME order[p].result \in Verdicts PROVE order[p].tries \in 1..ENDPOINTS
      BY <2>1, <3>1 DEF OrderParts, ResultSound, OrdTypeOK
    <3> QED
      BY <2>1, <3>1 DEF OrderParts, ResultSound
  <2> QED
    BY <2>2, <2>3, <2>4 DEF OrderParts
<1>2. NoncesPassed' /\ NoncesDistinct'
  BY DEF NoncesPassed, Passed, NoncesDistinct, key
<1>3. ExecutedAtMostOnce'
  <2> SUFFICES ASSUME NEW p \in Order
               PROVE  executed'[p] + (IF p \in resting' THEN 1 ELSE 0) <= 1
    BY DEF ExecutedAtMostOnce
  <2>1. CASE p = o
    BY <2>1
  <2>2. CASE p # o
    <3>1. executed'[p] = executed[p] /\ (p \in resting') = (p \in resting)
      BY <2>2
    <3>2. executed[p] + (IF p \in resting THEN 1 ELSE 0) <= 1
      BY DEF ExecutedAtMostOnce
    <3> QED
      BY <3>1, <3>2
  <2> QED
    BY <2>1, <2>2
<1> QED
  BY <1>1, <1>2, <1>3

LEMMA RestingFillsKeeps == ASSUME OrdInv, NEW o \in Order, RestingFills(o) PROVE OrdInv'
<1>1. /\ OrdTypeOK /\ OrderParts(o) /\ o \in resting
      /\ resting' = resting \ {o} /\ executed' = [executed EXCEPT ![o] = @ + 1]
      /\ UNCHANGED <<now, key, order, wire, spent>>
  BY DEF OrdInv, RestingFills
<1>2. \A p \in Order : executed'[p] = IF p = o THEN executed[p] + 1 ELSE executed[p]
  BY <1>1 DEF OrdTypeOK
<1>3. OrdTypeOK'
  <2>1. executed' \in [Order -> Nat] /\ resting' \subseteq Order
    BY <1>1 DEF OrdTypeOK
  <2> QED
    BY <1>1, <2>1 DEF OrdTypeOK, key, wire
<1>4. executed'[o] + (IF o \in resting' THEN 1 ELSE 0) <= 1
  <2>1. executed[o] \in Nat
    BY <1>1 DEF OrdTypeOK
  <2> QED
    BY <1>1, <1>2, <2>1 DEF OrdInv, ExecutedAtMostOnce
<1>5. OrderParts(o)'
  <2>1. Staged(o)' /\ WireSound(o)' /\ ResultSound(o)'
    BY <1>1 DEF OrderParts, Staged, WireSound, ResultSound, wire
  <2>2. executed'[o] > 0 /\ order'[o].nonce \in spent' /\ o \notin Ioc
    <3>1. executed[o] \in Nat /\ executed'[o] = executed[o] + 1
      BY <1>1, <1>2 DEF OrdTypeOK
    <3> QED
      BY <1>1, <3>1 DEF OrderParts, BookSound
  <2>3. BookSound(o)'
    BY <2>2 DEF BookSound
  <2> QED
    BY <2>1, <2>3 DEF OrderParts
<1>6. \A p \in Order \ {o} : SameFor(p)
  BY <1>1, <1>2 DEF SameFor, wire
<1>7. UNCHANGED <<now, key, order>> /\ spent \subseteq spent'
  BY <1>1
<1> QED
  BY <1>3, <1>4, <1>5, <1>6, <1>7, ExchangeStepKeeps

LEMMA HandleKeeps ==
  ASSUME OrdInv, NEW o \in Order, NEW e \in 1..ENDPOINTS, Handle(o, e)
  PROVE  OrdInv'
<1>1. /\ OrdTypeOK /\ OrderParts(o) /\ <<o, e>> \in flight
      /\ flight' = flight \ {<<o, e>>}
      /\ UNCHANGED <<now, key, order>>
  BY DEF OrdInv, Handle
<1>2. PICK v \in Verdicts :
        /\ answers' = answers \cup {<<o, e, v>>}
        /\ \/ /\ v = "rejected" /\ order[o].nonce \in spent
              /\ UNCHANGED exchange
           \/ /\ v = "ok" /\ order[o].nonce \notin spent
              /\ spent' = spent \cup {order[o].nonce}
              /\ executed' = [executed EXCEPT ![o] = @ + 1] /\ UNCHANGED resting
           \/ /\ v = "rejected" /\ order[o].nonce \notin spent
              /\ spent' = spent \cup {order[o].nonce}
              /\ resting' = IF o \in Ioc THEN resting ELSE resting \cup {o}
              /\ UNCHANGED executed
  BY DEF Handle, Verdicts
<1>3. order[o].nonce \in Nat /\ order[o].tries \in Nat /\ e <= order[o].tries
  <2>1. order[o] \in OrderRecords /\ e <= order[o].tries
    BY <1>1 DEF OrdTypeOK, OrderParts, WireSound
  <2> QED
    BY <2>1, OrderAssumption DEF OrderRecords
<1>4. /\ executed' \in [Order -> Nat]
      /\ \A p \in Order \ {o} :
           executed'[p] = executed[p] /\ (p \in resting' <=> p \in resting)
  BY <1>1, <1>2 DEF OrdTypeOK, exchange
<1>5. /\ resting' \subseteq Order /\ spent' \subseteq Nat /\ spent \subseteq spent'
      /\ order[o].nonce \in spent'
  BY <1>1, <1>2, <1>3 DEF OrdTypeOK, exchange
<1>6. OrdTypeOK'
  <2>1. /\ flight' \subseteq Order \X (1..ENDPOINTS)
        /\ answers' \subseteq Order \X (1..ENDPOINTS) \X Verdicts
    BY <1>1, <1>2 DEF OrdTypeOK
  <2> QED
    BY <1>1, <1>4, <1>5, <2>1 DEF OrdTypeOK, key
<1>7. /\ executed[o] \in Nat
      /\ order[o].nonce \notin spent => executed[o] = 0 /\ o \notin resting
  BY <1>1 DEF OrdTypeOK, OrderParts, BookSound
<1>8. /\ executed'[o] + (IF o \in resting' THEN 1 ELSE 0) <= 1
      /\ executed'[o] > executed[o] => v = "ok"
      /\ o \in Ioc => o \notin resting'
  BY <1>1, <1>2, <1>7 DEF OrdTypeOK, OrdInv, ExecutedAtMostOnce, OrderParts, BookSound, exchange
<1>9. WireSound(o)'
  BY <1>1, <1>2, <1>3 DEF OrderParts, WireSound, Verdicts
<1>10. Staged(o)' /\ ResultSound(o)'
  BY <1>1, <1>2, <1>3 DEF OrderParts, Staged, ResultSound
<1>11. BookSound(o)'
  <2>1. order'[o].nonce \in spent'
    BY <1>1, <1>5
  <2>2. executed'[o] >= executed[o] /\ (v = "ok" => executed'[o] > 0) /\ executed'[o] \in Nat
    BY <1>1, <1>2, <1>4, <1>7 DEF OrdTypeOK, exchange
  <2>3. ASSUME NEW d \in 1..ENDPOINTS, <<o, d, "ok">> \in answers' PROVE executed'[o] > 0
    <3>1. <<o, d, "ok">> \in answers \/ v = "ok"
      BY <1>2, <2>3
    <3>2. <<o, d, "ok">> \in answers => executed[o] > 0
      BY <1>1 DEF OrderParts, BookSound
    <3> QED
      BY <1>7, <2>2, <3>1, <3>2
  <2>4. ASSUME o \in Ioc, executed'[o] > 0
        PROVE  \E d \in 1..ENDPOINTS : <<o, d, "ok">> \in answers'
    <3>1. CASE v = "ok"
      BY <1>2, <3>1
    <3>2. CASE v # "ok"
      <4>1. executed[o] > 0
        BY <1>7, <1>8, <2>2, <2>4, <3>2
      <4> QED
        BY <1>1, <1>2, <2>4, <4>1 DEF OrderParts, BookSound
    <3> QED
      BY <3>1, <3>2
  <2> QED
    BY <1>8, <2>1, <2>3, <2>4 DEF BookSound
<1>12. OrderParts(o)'
  BY <1>9, <1>10, <1>11 DEF OrderParts
<1>13. ASSUME NEW p \in Order \ {o} PROVE SameFor(p)
  <2>1. ASSUME NEW d \in 1..ENDPOINTS PROVE <<p, d>> \in flight' <=> <<p, d>> \in flight
    BY <1>1
  <2>2. ASSUME NEW d \in 1..ENDPOINTS, NEW w \in Verdicts
        PROVE  <<p, d, w>> \in answers' <=> <<p, d, w>> \in answers
    BY <1>2
  <2> QED
    BY <1>4, <2>1, <2>2, Zenon DEF SameFor
<1> QED
  BY <1>1, <1>5, <1>6, <1>8, <1>12, <1>13, ExchangeStepKeeps

LEMMA OrdInvStep == OrdInv /\ [OrdNext]_orderVars => OrdInv'
BY ProcessStepKeeps, PlaceOrderKeeps, AuditFailsKeeps, NoAnswerKeeps, SignedKeeps, TimesOutKeeps,
   AnsweredKeeps, BodyReadKeeps, RestingFillsKeeps, HandleKeeps
DEF OrdNext

LEMMA OrdInvariant == OrdSpec => []OrdInv
BY OrdInitInv, OrdInvStep, PTL DEF OrdSpec

-----------------------------------------------------------------------------
(* No two orders ever have the same nonce, through the resets of an        *)
(* expired heartbeat and of a rejected nonce (generateUniqueNonce).        *)
THEOREM NoncesAlwaysDistinct == OrdSpec => []NoncesDistinct
<1>1. OrdInv => NoncesDistinct
  BY DEF OrdInv
<1> QED
  BY <1>1, OrdInvariant, PTL

(* However often a POST is sent again and however late it arrives, an      *)
(* order is executed once at most (fetchWithRpcFailover).                  *)
THEOREM AlwaysExecutedAtMostOnce == OrdSpec => []ExecutedAtMostOnce
<1>1. OrdInv => ExecutedAtMostOnce
  BY DEF OrdInv
<1> QED
  BY <1>1, OrdInvariant, PTL

(* A refusal of the first endpoint is final for an order that cannot rest: *)
(* it is not executed and no copy of it is on the wire                     *)
(* (assertHlOrderFilled, postExchangeRequest).                             *)
RejectionIsFinal ==
  \A o \in Ioc :
    order[o].result = "rejected" /\ order[o].tries = 1 =>
      executed[o] = 0 /\ \A e \in 1..ENDPOINTS : <<o, e>> \notin flight

LEMMA RejectionFinal == OrdInv => RejectionIsFinal
<1> SUFFICES ASSUME OrdInv, NEW o \in Ioc,
                    order[o].result = "rejected", order[o].tries = 1
             PROVE  executed[o] = 0 /\ \A e \in 1..ENDPOINTS : <<o, e>> \notin flight
  BY DEF RejectionIsFinal
<1>1. /\ o \in Order /\ OrdTypeOK /\ OrderParts(o) /\ 1 \in 1..ENDPOINTS
  BY OrderAssumption DEF OrdInv
<1>2. <<o, 1, "rejected">> \in answers
  BY <1>1 DEF OrderParts, ResultSound, Verdicts
<1>3. \A e \in 1..ENDPOINTS : e <= 1 => e = 1
  BY OrderAssumption
<1>4. ~(executed[o] > 0) /\ executed[o] \in Nat
  BY <1>1, <1>2, <1>3 DEF OrderParts, WireSound, BookSound, Verdicts, OrdTypeOK
<1>5. ASSUME NEW e \in 1..ENDPOINTS PROVE <<o, e>> \notin flight
  BY <1>1, <1>2, <1>3 DEF OrderParts, WireSound, Verdicts
<1> QED
  BY <1>4, <1>5

THEOREM RejectionAlwaysFinal == OrdSpec => []RejectionIsFinal
BY RejectionFinal, OrdInvariant, PTL

(* What the caller books as a fill is one, whichever endpoint said so: the *)
(* order was executed, once, and nothing of it rests in the book           *)
(* (executeHlSessionKeyOrder reports ok).                                  *)
AcceptedIsExecuted ==
  \A o \in Order : order[o].result = "ok" => executed[o] = 1 /\ o \notin resting

LEMMA AcceptedExecuted == OrdInv => AcceptedIsExecuted
<1> SUFFICES ASSUME OrdInv, NEW o \in Order, order[o].result = "ok"
             PROVE  executed[o] = 1 /\ o \notin resting
  BY DEF AcceptedIsExecuted
<1>1. OrderParts(o) /\ OrdTypeOK /\ <<o, order[o].tries, "ok">> \in answers
  BY DEF OrdInv, OrderParts, ResultSound, Verdicts
<1>2. order[o].tries \in 1..ENDPOINTS
  BY <1>1 DEF OrdTypeOK
<1>3. executed[o] > 0
  BY <1>1, <1>2 DEF OrderParts, BookSound
<1>4. executed[o] \in Nat /\ executed[o] + (IF o \in resting THEN 1 ELSE 0) <= 1
  BY <1>1 DEF OrdInv, OrdTypeOK, ExecutedAtMostOnce
<1> QED
  BY <1>3, <1>4

THEOREM AcceptedAlwaysExecuted == OrdSpec => []AcceptedIsExecuted
BY AcceptedExecuted, OrdInvariant, PTL

-----------------------------------------------------------------------------
(* An order that is refused is not executed, and no copy of it on its way. *)
RefusedIsOut ==
  \A o \in Order : Refused(o) =>
    executed[o] = 0 /\ o \notin resting /\ \A e \in 1..ENDPOINTS : <<o, e>> \notin flight

LEMMA RefusedOut == OrdInv => RefusedIsOut
<1> SUFFICES ASSUME OrdInv, NEW o \in Order, Refused(o)
             PROVE  /\ executed[o] = 0 /\ o \notin resting
                    /\ \A e \in 1..ENDPOINTS : <<o, e>> \notin flight
  BY DEF RefusedIsOut
<1>1. OrdTypeOK /\ OrderParts(o)
  BY DEF OrdInv
<1>2. CASE o \in Ioc /\ order[o].result = "rejected" /\ order[o].tries = 1
  <2>1. executed[o] = 0 /\ \A e \in 1..ENDPOINTS : <<o, e>> \notin flight
    BY <1>2, RejectionFinal DEF RejectionIsFinal
  <2>2. o \notin resting
    BY <1>1, <1>2 DEF OrderParts, BookSound
  <2> QED
    BY <2>1, <2>2
<1>3. CASE order[o].result \in {"expired", "unsigned"}
  <2>1. order[o].tries = 0
    BY <1>1, <1>3 DEF OrderParts, Staged
  <2>2. executed[o] = 0 /\ o \notin resting
    BY <1>1, <2>1 DEF OrderParts, Staged
  <2>3. ASSUME NEW e \in 1..ENDPOINTS PROVE <<o, e>> \notin flight
    <3>1. ~(e <= order[o].tries)
      BY <2>1, OrderAssumption
    <3> QED
      BY <1>1, <3>1 DEF OrderParts, WireSound
  <2> QED
    BY <2>2, <2>3
<1> QED
  BY <1>2, <1>3 DEF Refused

(* What holds of the reports after a step.                                 *)
LEMMA ReportsSoundAfter == OrdInv' => AcceptedIsExecuted' /\ RefusedIsOut'
BY AcceptedExecuted, RefusedOut, PTL

(* The caller is told something once, when its order is done.              *)
LEMMA DoneTells ==
  ASSUME OrdInv, OrdInv', NEW o \in Order, NEW result, order' = Done(o, result),
         order[o].stage # "done", UNCHANGED exchange
  PROVE  \E report \in {"filled", "refused", "unknown"} : Report!Tell(o, report)
<1>1. OrdTypeOK /\ executed' = executed
  BY DEF OrdInv, exchange
<1>2. order'[o].stage = "done" /\ \A p \in Order \ {o} : order'[p] = order[p]
  BY <1>1 DEF Done, OrdTypeOK, OrderRecords
<1>3. Told(o) = "nothing" /\ Told(o)' \in {"filled", "refused", "unknown"}
  BY <1>2 DEF Told
<1>4. ASSUME Told(o)' = "filled" PROVE executed[o] = 1
  <2>1. order'[o].result = "ok"
    BY <1>2, <1>4 DEF Told
  <2> QED
    BY <1>1, <2>1, ReportsSoundAfter DEF AcceptedIsExecuted
<1>5. ASSUME Told(o)' = "refused" PROVE executed[o] = 0
  <2>1. Refused(o)'
    BY <1>2, <1>5 DEF Told
  <2> QED
    BY <1>1, <2>1, ReportsSoundAfter DEF RefusedIsOut
<1>6. ASSUME NEW p \in Order \ {o} PROVE Told(p)' = Told(p)
  BY <1>2, <1>6 DEF Told, Refused
<1> DEFINE told == [p \in Order |-> Told(p)]
<1>7. told' = [told EXCEPT ![o] = Told(o)']
  BY <1>6
<1> QED
  BY <1>1, <1>3, <1>4, <1>5, <1>7 DEF Report!Tell

(* It is told nothing while the order is under way.                        *)
LEMMA UnderWayTells ==
  ASSUME OrdInv, NEW o \in Order, NEW r, order' = [order EXCEPT ![o] = r],
         order[o].stage # "done", r.stage # "done", UNCHANGED exchange
  PROVE  UNCHANGED Report!orderPromiseVars
<1>1. executed' = executed /\ \A p \in Order : order'[p] = IF p = o THEN r ELSE order[p]
  BY DEF OrdInv, OrdTypeOK, exchange
<1>2. ASSUME NEW p \in Order PROVE Told(p)' = Told(p)
  BY <1>1, <1>2 DEF Told, Refused
<1> QED
  BY <1>1, <1>2 DEF Report!orderPromiseVars

LEMMA ElsewhereTells ==
  ASSUME order' = order, executed' = executed
  PROVE  UNCHANGED Report!orderPromiseVars
BY DEF Report!orderPromiseVars, Told, Refused

(* The exchange executes an order: never a second time, never a refused.   *)
LEMMA ExecutionFills ==
  ASSUME OrdInv, OrdInv', NEW o \in Order, order' = order,
         executed' = [executed EXCEPT ![o] = @ + 1],
         o \in resting \/ \E e \in 1..ENDPOINTS : <<o, e>> \in flight
  PROVE  Report!Fill(o)
<1>1. executed[o] \in Nat /\ executed'[o] \in Nat /\ executed'[o] = executed[o] + 1
  BY DEF OrdInv, OrdTypeOK
<1>2. executed'[o] <= 1
  BY <1>1 DEF OrdInv, ExecutedAtMostOnce
<1>3. executed[o] = 0 /\ executed' = [executed EXCEPT ![o] = 1]
  <2>1. \A k \in Nat : k + 1 <= 1 => k = 0
    OBVIOUS
  <2>2. executed[o] = 0
    BY <1>1, <1>2, <2>1
  <2>3. 0 + 1 = 1
    OBVIOUS
  <2> QED
    BY <2>2, <2>3
<1>4. ~Refused(o)
  BY RefusedOut DEF RefusedIsOut
<1>5. Told(o) # "refused"
  BY <1>4 DEF Told
<1>6. \A p \in Order : Told(p)' = Told(p)
  BY DEF Told, Refused
<1> QED
  BY <1>3, <1>5, <1>6 DEF Report!Fill

LEMMA OrderStepKept ==
  ASSUME OrdInv, OrdInv', [OrdNext]_orderVars
  PROVE  [Report!OrderPromiseNext]_(Report!orderPromiseVars)
<1>1. ASSUME NEW o \in Order, NEW result, order' = Done(o, result),
             order[o].stage # "done", UNCHANGED exchange
      PROVE  Report!OrderPromiseNext
  BY <1>1, DoneTells DEF Report!OrderPromiseNext
<1>2. ASSUME NEW o \in Order,
             AuditFails(o) \/ SigningFails(o) \/ FetchFails(o) \/ BodyRead(o) \/ BodyFails(o)
      PROVE  Report!OrderPromiseNext
  BY <1>1, <1>2 DEF AuditFails, SigningFails, FetchFails, BodyRead, BodyFails
<1>3. ASSUME NEW o \in Order, HttpError(o) \/ \E v \in Verdicts : Answered(o, v)
      PROVE  UNCHANGED Report!orderPromiseVars
  <2>1. PICK result : order' = Reading(o, result)
    BY <1>3 DEF HttpError, Answered
  <2>2. order[o] \in OrderRecords /\ order[o].stage # "done" /\ UNCHANGED exchange
    BY <1>3 DEF OrdInv, OrdTypeOK, HttpError, Answered
  <2> DEFINE r == [order[o] EXCEPT !.stage = "reading", !.result = result]
  <2>3. order' = [order EXCEPT ![o] = r] /\ r.stage # "done"
    BY <2>1, <2>2 DEF Reading, OrdInv, OrdTypeOK, OrderRecords
  <2> HIDE DEF r
  <2> QED
    BY <2>2, <2>3, UnderWayTells
<1>4. ASSUME NEW o \in Order, PlaceOrder(o) \/ Signed(o)
      PROVE  UNCHANGED Report!orderPromiseVars
  <2>1. order[o] \in OrderRecords /\ order[o].stage # "done" /\ UNCHANGED exchange
    BY <1>4 DEF OrdInv, OrdTypeOK, PlaceOrder, Signed
  <2>2. CASE PlaceOrder(o)
    <3>1. PICK n : order' = [order EXCEPT ![o].stage = "signing", ![o].nonce = n]
      BY <2>2 DEF PlaceOrder
    <3> DEFINE r == [order[o] EXCEPT !.stage = "signing", !.nonce = n]
    <3>2. order' = [order EXCEPT ![o] = r] /\ r.stage # "done"
      BY <2>1, <3>1 DEF OrdInv, OrdTypeOK, OrderRecords
    <3> HIDE DEF r
    <3> QED
      BY <2>1, <3>2, UnderWayTells
  <2>3. CASE Signed(o)
    <3> PICK stage \in Waiting :
          order' = [order EXCEPT ![o].stage = stage, ![o].tries = 1]
      BY <2>3 DEF Signed
    <3> DEFINE r == [order[o] EXCEPT !.stage = stage, !.tries = 1]
    <3>1. order' = [order EXCEPT ![o] = r] /\ r.stage # "done"
      BY <2>1 DEF OrdInv, OrdTypeOK, OrderRecords
    <3> HIDE DEF r
    <3> QED
      BY <2>1, <3>1, UnderWayTells
  <2> QED
    BY <1>4, <2>2, <2>3
<1>5. ASSUME NEW o \in Order, TimesOut(o)
      PROVE  Report!OrderPromiseNext \/ UNCHANGED Report!orderPromiseVars
  <2>1. order[o] \in OrderRecords /\ order[o].stage = "posting" /\ UNCHANGED exchange
    BY <1>5 DEF OrdInv, OrdTypeOK, TimesOut
  <2>2. CASE order[o].tries < ENDPOINTS
    <3> DEFINE r == [order[o] EXCEPT !.tries = @ + 1]
    <3>1. order' = [order EXCEPT ![o] = r] /\ r.stage # "done"
      BY <1>5, <2>1, <2>2 DEF TimesOut, OrdInv, OrdTypeOK, OrderRecords
    <3> HIDE DEF r
    <3> QED
      BY <2>1, <3>1, UnderWayTells
  <2>3. CASE ~(order[o].tries < ENDPOINTS)
    BY <1>1, <1>5, <2>1, <2>3 DEF TimesOut
  <2> QED
    BY <2>2, <2>3
<1>6. ASSUME NEW o \in Order, RestingFills(o)
      PROVE  Report!OrderPromiseNext
  <2>1. Report!Fill(o)
    BY <1>6, ExecutionFills DEF RestingFills
  <2> QED
    BY <2>1 DEF Report!OrderPromiseNext
<1>7. ASSUME NEW o \in Order, NEW e \in 1..ENDPOINTS, Handle(o, e)
      PROVE  Report!OrderPromiseNext \/ UNCHANGED Report!orderPromiseVars
  <2>1. <<o, e>> \in flight /\ order' = order
        /\ (executed' = executed \/ executed' = [executed EXCEPT ![o] = @ + 1])
    BY <1>7 DEF Handle, exchange
  <2>2. CASE executed' = executed
    BY <2>1, <2>2, ElsewhereTells
  <2>3. CASE executed' = [executed EXCEPT ![o] = @ + 1]
    <3>1. Report!Fill(o)
      BY <2>1, <2>3, ExecutionFills
    <3> QED
      BY <3>1 DEF Report!OrderPromiseNext
  <2> QED
    BY <2>1, <2>2, <2>3
<1>8. CASE InvalidNonceFrame \/ Touch \/ Reauthorize \/ OrdTick \/ UNCHANGED orderVars
  <2>1. order' = order /\ executed' = executed
    BY <1>8 DEF InvalidNonceFrame, Touch, Reauthorize, OrdTick, orderVars, exchange
  <2> QED
    BY <2>1, ElsewhereTells
<1> QED
  BY <1>2, <1>3, <1>4, <1>5, <1>6, <1>7, <1>8 DEF OrdNext

(* The orders implement OrderPromise: whatever nonces are reset, POSTs     *)
(* repeated and answers lost, a report of a fill or a refusal can be       *)
(* relied on (executeHlSessionKeyOrder, executeSignedAction).              *)
THEOREM OrdersKeepPromise == OrdSpec => KeepsOrderPromise
<1>1. OrdInit => Report!OrderPromiseInit
  BY DEF OrdInit, Report!OrderPromiseInit, Told
<1>2. OrdInv /\ OrdInv' /\ [OrdNext]_orderVars
        => [Report!OrderPromiseNext]_(Report!orderPromiseVars)
  BY OrderStepKept
<1> QED
  BY <1>1, <1>2, OrdInvariant, PTL DEF OrdSpec, KeepsOrderPromise, Report!Promise

-----------------------------------------------------------------------------
(* The WebSocket client.                                                   *)
WsInUse == ws # None => phase[ws] # "free"

Single ==
  ~overlapped =>
    /\ \A r, s \in Live : r = s
    /\ retry => Live = {}
    /\ intentionalClose => ~connected /\ \A s \in Socket : phase[s] \in {"free", "closing"}
    /\ \A s \in Socket : phase[s] \in {"connecting", "open"} => ws = s

SockInv ==
  /\ SockTypeOK
  /\ WatchedWhileConnected
  /\ NoRetryAfterDisconnect
  /\ StreamsCarriedOver
  /\ WsInUse
  /\ Single

(* The parts of SockInv that OpenSocket touches, next to Single.           *)
Steady ==
  /\ SockTypeOK'
  /\ WatchedWhileConnected'
  /\ StreamsCarriedOver'
  /\ WsInUse'

USE SocketAssumption
USE DEF Live, Open, None, Lost, health, tracked, sockVars

LEMMA IdleBound == 0 \in 0..(STALE_THRESHOLD + 1)
BY SMT

LEMMA SockInitInv == SockInit => SockInv
<1> SUFFICES ASSUME SockInit PROVE SockInv
  OBVIOUS
<1>1. SockTypeOK
  BY IdleBound DEF SockInit, SockTypeOK
<1> QED
  BY <1>1 DEF SockInit, SockInv, WatchedWhileConnected, NoRetryAfterDisconnect,
              StreamsCarriedOver, WsInUse, Single

(* A new socket is this.ws, and its streams come with its open event.      *)
LEMMA OpenSocketKeeps ==
  ASSUME SockInv, NEW p \in BOOLEAN, OpenSocket(p), intentionalClose' \in BOOLEAN,
         overlapped' \in BOOLEAN, UNCHANGED <<watch, idle, tracked>>
  PROVE  Steady
<1> USE DEF SockInv, Steady
<1>1. CASE ws' = None /\ Lost /\ retry' = TRUE /\ UNCHANGED phase
  BY <1>1 DEF SockTypeOK, WatchedWhileConnected, StreamsCarriedOver, WsInUse
<1>2. ASSUME NEW s \in Socket \ Live, phase' = [phase EXCEPT ![s] = "connecting"],
             ws' = s, retry' = p, UNCHANGED health
      PROVE  Steady
  <2>1. SockTypeOK'
    BY <1>2 DEF SockTypeOK
  <2>2. phase'[s] = "connecting"
    BY <1>2 DEF SockTypeOK
  <2> QED
    BY <1>2, <2>1, <2>2 DEF WatchedWhileConnected, StreamsCarriedOver, WsInUse
<1> QED
  BY <1>1, <1>2 DEF OpenSocket

(* From a client without live sockets an attempt leads to one at most.     *)
LEMMA OpenSocketSingle ==
  ASSUME SockInv, NEW p \in BOOLEAN, OpenSocket(p), Live = {}, ~p, ~intentionalClose'
  PROVE  Single'
<1> USE DEF SockInv
<1>1. CASE ws' = None /\ Lost /\ retry' = TRUE /\ UNCHANGED phase
  BY <1>1 DEF SockTypeOK, Single
<1>2. ASSUME NEW s \in Socket \ Live, phase' = [phase EXCEPT ![s] = "connecting"],
             ws' = s, retry' = p, UNCHANGED health
      PROVE  Single'
  <2>1. \A r \in Socket : phase'[r] = IF r = s THEN "connecting" ELSE "free"
    BY <1>2 DEF SockTypeOK
  <2> QED
    BY <1>2, <2>1 DEF Single
<1> QED
  BY <1>1, <1>2 DEF OpenSocket

LEMMA ConnectKeeps == ASSUME SockInv, Connect PROVE SockInv'
<1>1. CASE Open(ws)
  BY <1>1 DEF Connect, SockInv, SockTypeOK, WatchedWhileConnected, NoRetryAfterDisconnect,
              StreamsCarriedOver, WsInUse, Single
<1>2. CASE ~Open(ws)
  <2>1. /\ OpenSocket(retry) /\ intentionalClose' = FALSE
        /\ overlapped' = (overlapped \/ Live # {} \/ retry)
        /\ UNCHANGED <<watch, idle, tracked>>
    BY <1>2 DEF Connect
  <2>2. retry \in BOOLEAN /\ overlapped' \in BOOLEAN
    BY <2>1 DEF SockInv, SockTypeOK
  <2>3. Steady
    BY <2>1, <2>2, OpenSocketKeeps
  <2>4. Single'
    <3>1. CASE overlapped'
      BY <3>1 DEF Single
    <3>2. CASE ~overlapped'
      BY <2>1, <2>2, <3>2, OpenSocketSingle
    <3> QED
      BY <3>1, <3>2
  <2> QED
    BY <2>1, <2>3, <2>4 DEF SockInv, Steady, NoRetryAfterDisconnect
<1> QED
  BY <1>1, <1>2

LEMMA RetryFiresKeeps == ASSUME SockInv, RetryFires PROVE SockInv'
<1>1. /\ retry /\ OpenSocket(FALSE)
      /\ UNCHANGED <<intentionalClose, watch, idle, tracked, overlapped>>
  BY DEF RetryFires
<1>2. ~intentionalClose
  BY <1>1 DEF SockInv, NoRetryAfterDisconnect
<1>3. Steady
  BY <1>1, OpenSocketKeeps DEF SockInv, SockTypeOK
<1>4. Single'
  <2>1. CASE overlapped
    BY <1>1, <2>1 DEF Single
  <2>2. CASE ~overlapped
    BY <1>1, <1>2, <2>2, OpenSocketSingle DEF SockInv, Single
  <2> QED
    BY <2>1, <2>2
<1> QED
  BY <1>1, <1>2, <1>3, <1>4 DEF SockInv, Steady, NoRetryAfterDisconnect

-----------------------------------------------------------------------------
(* close() moves a live socket to closing and frees none.                  *)
LEMMA ClosingPhases ==
  ASSUME SockTypeOK, NEW s \in Socket \cup {None}, s # None => phase[s] # "free"
  PROVE  /\ Closing(s) \in [Socket -> {"free", "connecting", "open", "closing"}]
         /\ \A r \in Socket : /\ Closing(s)[r] = IF r = s THEN "closing" ELSE phase[r]
                              /\ (Closing(s)[r] = "free") <=> (phase[r] = "free")
BY DEF SockTypeOK, Closing

LEMMA DisconnectKeeps == ASSUME SockInv, Disconnect PROVE SockInv'
<1> USE DEF SockInv, Disconnect
<1>1. /\ phase' \in [Socket -> {"free", "connecting", "open", "closing"}]
      /\ \A r \in Socket : /\ phase'[r] = IF r = ws THEN "closing" ELSE phase[r]
                           /\ (phase'[r] = "free") <=> (phase[r] = "free")
  BY ClosingPhases DEF WsInUse, SockTypeOK
<1>2. SockTypeOK'
  BY <1>1 DEF SockTypeOK
<1>3. Single'
  BY <1>1 DEF Single, SockTypeOK
<1> QED
  BY <1>2, <1>3 DEF WatchedWhileConnected, NoRetryAfterDisconnect, StreamsCarriedOver, WsInUse

(* A socket is closed and kept for its close event.                        *)
LEMMA CloseBeginsKeeps ==
  ASSUME SockInv, NEW s \in Socket \cup {None}, s # None => phase[s] # "free",
         phase' = Closing(s), connected' => connected, stale' \in BOOLEAN,
         connected' \in BOOLEAN,
         UNCHANGED <<ws, intentionalClose, watch, retry, idle, tracked, overlapped>>
  PROVE  SockInv'
<1> USE DEF SockInv
<1>1. /\ phase' \in [Socket -> {"free", "connecting", "open", "closing"}]
      /\ \A r \in Socket : /\ phase'[r] = IF r = s THEN "closing" ELSE phase[r]
                           /\ (phase'[r] = "free") <=> (phase[r] = "free")
  BY ClosingPhases
<1>2. SockTypeOK'
  BY <1>1 DEF SockTypeOK
<1>3. Single'
  BY <1>1 DEF Single, SockTypeOK
<1>4. StreamsCarriedOver' /\ WsInUse'
  BY <1>1 DEF StreamsCarriedOver, WsInUse, SockTypeOK
<1> QED
  BY <1>2, <1>3, <1>4 DEF WatchedWhileConnected, NoRetryAfterDisconnect

LEMMA OnErrorKeeps == ASSUME SockInv, NEW s \in Socket, OnError(s) PROVE SockInv'
BY CloseBeginsKeeps DEF OnError

(* A ping that throws leaves the socket open: only the health changes.     *)
LEMMA PingFailsKeeps == ASSUME SockInv, NEW s \in Socket, PingFails(s) PROVE SockInv'
<1> USE DEF SockInv, PingFails
<1>1. SockTypeOK'
  BY DEF SockTypeOK
<1> QED
  BY <1>1 DEF WatchedWhileConnected, NoRetryAfterDisconnect, StreamsCarriedOver, WsInUse,
              Single

(* What is asked of a socket is sent, or the socket is known to fail.      *)
LEMMA SendsOrFails ==
  ASSUME SockTypeOK, NEW s \in Socket, NEW streams \in SUBSET Stream, Sends(s, streams)
  PROVE  /\ sent' \in [Socket -> SUBSET Stream] /\ failing' \in SUBSET Socket
         /\ failing \subseteq failing'
         /\ \A r \in Socket : sent[r] \subseteq sent'[r]
         /\ s \notin failing' => streams \subseteq sent'[s]
<1>1. PICK got \in SUBSET streams : /\ sent' = [sent EXCEPT ![s] = @ \cup got]
                                    /\ failing' = failing \cup {r \in {s} : got # streams}
  BY DEF Sends
<1> QED
  BY <1>1 DEF SockTypeOK

LEMMA CheckStaleKeeps == ASSUME SockInv, CheckStale PROVE SockInv'
<1>1. phase' = Closing(None) \/ phase' = Closing(ws)
  BY DEF CheckStale, Closing
<1>2. ws \in Socket \cup {None} /\ (ws # None => phase[ws] # "free") /\ connected \in BOOLEAN
  BY DEF SockInv, SockTypeOK, WsInUse
<1>3. /\ stale' = TRUE
      /\ UNCHANGED <<connected, ws, intentionalClose, watch, retry, idle, tracked, overlapped>>
  BY DEF CheckStale
<1>4. CASE phase' = Closing(None)
  BY <1>2, <1>3, <1>4, CloseBeginsKeeps
<1>5. CASE phase' = Closing(ws)
  BY <1>2, <1>3, <1>5, CloseBeginsKeeps
<1> QED
  BY <1>1, <1>4, <1>5

-----------------------------------------------------------------------------
LEMMA OnOpenKeeps == ASSUME SockInv, NEW s \in Socket, OnOpen(s) PROVE SockInv'
<1> USE DEF SockInv, OnOpen
<1>1. \A r \in Socket : /\ phase'[r] = IF r = s THEN "open" ELSE phase[r]
                        /\ (phase'[r] = "free") <=> (phase[r] = "free")
  BY DEF SockTypeOK
<1>2. /\ sent' \in [Socket -> SUBSET Stream] /\ failing' \in SUBSET Socket
      /\ failing \subseteq failing'
      /\ \A r \in Socket : sent[r] \subseteq sent'[r]
      /\ s \notin failing' => subscriptions \subseteq sent'[s]
  BY SendsOrFails DEF SockTypeOK
<1>3. SockTypeOK'
  BY <1>2, IdleBound DEF SockTypeOK
<1>4. Single'
  BY <1>1 DEF Single, SockTypeOK
<1>5. StreamsCarriedOver' /\ WsInUse'
  BY <1>1, <1>2 DEF StreamsCarriedOver, WsInUse, SockTypeOK
<1> QED
  BY <1>3, <1>4, <1>5 DEF WatchedWhileConnected, NoRetryAfterDisconnect

LEMMA OnCloseKeeps == ASSUME SockInv, NEW s \in Socket, OnClose(s) PROVE SockInv'
<1> USE DEF SockInv, OnClose
<1>1. \A r \in Socket : phase'[r] = IF r = s THEN "free" ELSE phase[r]
  BY DEF SockTypeOK
<1>2. SockTypeOK'
  BY DEF SockTypeOK
<1>3. Single'
  BY <1>1 DEF Single, SockTypeOK
<1> QED
  BY <1>2, <1>3 DEF WatchedWhileConnected, NoRetryAfterDisconnect, StreamsCarriedOver, WsInUse

LEMMA SubscribeKeeps == ASSUME SockInv, NEW x \in Stream, Subscribe(x) PROVE SockInv'
<1> USE DEF SockInv
<1>1. /\ subscriptions' = subscriptions \cup {x}
      /\ IF Open(ws) THEN Sends(ws, {x}) ELSE UNCHANGED <<sent, failing>>
      /\ UNCHANGED <<phase, ws, intentionalClose, connected, stale, watch, retry, idle,
                     overlapped>>
  BY DEF Subscribe
<1>2. SockTypeOK' /\ StreamsCarriedOver'
  <2>1. CASE Open(ws)
    <3>1. ws \in Socket /\ {x} \in SUBSET Stream /\ Sends(ws, {x}) /\ SockTypeOK
      BY <1>1, <2>1 DEF SockTypeOK
    <3>2. /\ sent' \in [Socket -> SUBSET Stream] /\ failing' \in SUBSET Socket
          /\ failing \subseteq failing'
          /\ \A r \in Socket : sent[r] \subseteq sent'[r]
          /\ ws \notin failing' => {x} \subseteq sent'[ws]
      BY ONLY <3>1, SendsOrFails
    <3>3. SockTypeOK'
      BY <1>1, <3>2 DEF SockTypeOK
    <3>4. StreamsCarriedOver'
      BY <1>1, <3>1, <3>2 DEF StreamsCarriedOver
    <3> QED
      BY <3>3, <3>4
  <2>2. CASE ~Open(ws)
    BY <1>1, <2>2 DEF SockTypeOK, StreamsCarriedOver
  <2> QED
    BY <2>1, <2>2
<1> QED
  BY <1>1, <1>2 DEF WatchedWhileConnected, NoRetryAfterDisconnect, WsInUse, Single

LEMMA QuietStepKeeps ==
  ASSUME SockInv, UNCHANGED sockVars \/ SockTick \/ \E s \in Socket : OnMessage(s)
  PROVE  SockInv'
<1>1. idle' \in 0..(STALE_THRESHOLD + 1)
  <2>1. idle \in 0..(STALE_THRESHOLD + 1)
    BY DEF SockInv, SockTypeOK
  <2>2. idle' = idle \/ idle' = 0 \/ (idle <= STALE_THRESHOLD /\ idle' = idle + 1)
    BY <2>1 DEF SockTick, OnMessage, Silent
  <2> QED
    BY <2>1, <2>2
<1>2. /\ stale' \in BOOLEAN
      /\ UNCHANGED <<phase, ws, intentionalClose, connected, watch, retry, tracked, overlapped>>
  BY DEF SockInv, SockTypeOK, SockTick, OnMessage
<1> QED
  BY <1>1, <1>2 DEF SockInv, SockTypeOK, WatchedWhileConnected, NoRetryAfterDisconnect,
              StreamsCarriedOver, WsInUse, Single

LEMMA SockInvStep == SockInv /\ [SockNext]_sockVars => SockInv'
BY ConnectKeeps, DisconnectKeeps, RetryFiresKeeps, CheckStaleKeeps, SubscribeKeeps,
   OnOpenKeeps, OnErrorKeeps, PingFailsKeeps, OnCloseKeeps, QuietStepKeeps
DEF SockNext

LEMMA SockInvariant == SockSpec => []SockInv
BY SockInitInv, SockInvStep, PTL DEF SockSpec

-----------------------------------------------------------------------------
(* A client that believes to be connected has its watchdog running,        *)
(* whatever the order in which the events of its sockets arrive.           *)
THEOREM AlwaysWatchedWhileConnected == SockSpec => []WatchedWhileConnected
<1>1. SockInv => WatchedWhileConnected
  BY DEF SockInv
<1> QED
  BY <1>1, SockInvariant, PTL

(* After disconnect() no reconnect is pending, then or after a late close. *)
THEOREM NeverRetriesAfterDisconnect == SockSpec => []NoRetryAfterDisconnect
<1>1. SockInv => NoRetryAfterDisconnect
  BY DEF SockInv
<1> QED
  BY <1>1, SockInvariant, PTL

(* The open socket of the client streams everything it was asked for,      *)
(* unless a send on it threw.                                              *)
THEOREM StreamsAlwaysCarriedOver == SockSpec => []StreamsCarriedOver
<1>1. SockInv => StreamsCarriedOver
  BY DEF SockInv
<1> QED
  BY <1>1, SockInvariant, PTL

(* With a caller that lets an attempt end before the next connect(), one   *)
(* socket at most is alive, and none is open after disconnect().           *)
THEOREM OneFeedAlways == SockSpec => []OneFeed
<1>1. SockInv => OneFeed
  BY DEF SockInv, Single, OneFeed, SockTypeOK
<1> QED
  BY <1>1, SockInvariant, PTL
==============================================================================
