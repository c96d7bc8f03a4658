-------------------------- MODULE LiveBrokerProofs --------------------------
(***************************************************************************)
(* Theorems about the live brokers, for every set of calls, every number   *)
(* of attempts and every number of orders.  What makes the properties      *)
(* inductive is what a call knows while its answer is on the way: an       *)
(* answered placement holds a number nobody has registered yet, and a      *)
(* cancel that went out holds one that is registered and stays so.         *)
(***************************************************************************)
EXTENDS LiveBroker, TLAPS

Replies == {"none", "ok", "unavailable", "rejected", "notFound", "invalid"}

CallState == [phase: {"idle"} \cup Running \cup Outcomes,
              attempt: 0..MaxAttempts, target: Nat, reply: Replies]

ExchangeOrder == [placement: Placements,
                  status: {"OPEN", "CANCELLED", "COMPLETE"},
                  told: BOOLEAN, reported: BOOLEAN]

BrokerOrder == [placement: Placements,
                status: {"PENDING", "FILLED", "CANCELLED"}]

LiveTypeOK ==
  /\ call \in [Calls -> CallState]
  /\ exchange \in Seq(ExchangeOrder)
  /\ DOMAIN orders \subseteq DOMAIN exchange
  /\ orders \in [DOMAIN orders -> BrokerOrder]
  /\ fills \in Seq(Nat)

(* The attempts a call has made never exceed the policy's. *)
AttemptsFitPolicy ==
  \A c \in Calls :
    /\ call[c].phase = "sleeping" => call[c].attempt < MaxAttempts
    /\ call[c].phase = "answered" => call[c].reply # "none"
    /\ call[c].phase = "sent" => call[c].reply = "none"

HasResult(c) == call[c].phase = "answered" /\ call[c].reply = "ok"

RegisteredWereTold ==
  \A o \in DOMAIN orders :
    /\ exchange[o].told
    /\ orders[o].placement = exchange[o].placement

ToldAreRegisteredOrAwaited ==
  \A o \in DOMAIN exchange :
    exchange[o].told =>
      \/ Known(o)
      \/ /\ HasResult(exchange[o].placement)
         /\ call[exchange[o].placement].target = o

(* An answered placement holds its own number, which is still unknown.    *)
PlacementsHoldFreshNumbers ==
  \A c \in Placements :
    HasResult(c) =>
      /\ call[c].target \in DOMAIN exchange
      /\ exchange[call[c].target].placement = c
      /\ exchange[call[c].target].told
      /\ ~Known(call[c].target)

(* A cancel on its way names a registered order, and one that was         *)
(* confirmed can only find it cancelled at the exchange.                  *)
CancelsHoldKnownNumbers ==
  \A c \in Cancels :
    /\ call[c].phase = "sent" => Known(call[c].target)
    /\ HasResult(c) => /\ Known(call[c].target)
                       /\ exchange[call[c].target].status = "CANCELLED"

PositionsHaveTheirStrategy ==
  \A i \in DOMAIN positionMeta :
    \E o \in DOMAIN orders :
      /\ InstrumentOf[orders[o].placement] = i
      /\ StrategyOf[orders[o].placement] = positionMeta[i]

LiveInv ==
  /\ LiveTypeOK
  /\ AttemptsFitPolicy
  /\ RegisteredWereTold
  /\ ToldAreRegisteredOrAwaited
  /\ PlacementsHoldFreshNumbers
  /\ CancelsHoldKnownNumbers
  /\ StatusFollowsExchange
  /\ PositionsHaveTheirStrategy

-----------------------------------------------------------------------------
(* The steps that move one call and touch nothing else: starts, refusals,  *)
(* retries, errors and what is done about them.                            *)

MovesCall(c, s) ==
  /\ call' = [call EXCEPT ![c] = s]
  /\ UNCHANGED <<orders, positionMeta, fills, exchange>>

(* A state a call can be moved to without a result in it. *)
ResultFree(c, s) ==
  /\ s \in CallState
  /\ s.phase = "sleeping" => s.attempt < MaxAttempts
  /\ s.phase = "answered" => s.reply \notin {"none", "ok"}
  /\ s.phase = "sent" => s.reply = "none"
  /\ c \in Cancels /\ s.phase = "sent" => Known(s.target)

LEMMA CallMoved ==
  ASSUME LiveInv, NEW c \in Calls, NEW s, ResultFree(c, s), ~HasResult(c),
         MovesCall(c, s)
  PROVE  LiveInv'
<1>1. /\ call'[c] = s
      /\ \A x \in Calls \ {c} : call'[x] = call[x]
      /\ call' \in [Calls -> CallState]
  BY DEF LiveInv, LiveTypeOK, MovesCall, ResultFree
<1>2. /\ \A x \in Calls : HasResult(x)' => x # c /\ HasResult(x)
      /\ \A x \in Calls : HasResult(x) => HasResult(x)' /\ x # c
  BY <1>1 DEF HasResult, ResultFree
<1>3. \A o : Known(o)' <=> Known(o)
  BY DEF Known, MovesCall
<1>4. LiveTypeOK'
  BY <1>1 DEF LiveInv, LiveTypeOK, MovesCall
<1>5. AttemptsFitPolicy'
  BY <1>1 DEF LiveInv, AttemptsFitPolicy, ResultFree
<1>6. RegisteredWereTold'
  BY DEF LiveInv, RegisteredWereTold, MovesCall
<1>7. ToldAreRegisteredOrAwaited'
  <2> SUFFICES ASSUME NEW o \in DOMAIN exchange, exchange[o].told,
                      ~Known(o), NEW p, p = exchange[o].placement
               PROVE  HasResult(p)' /\ call'[p].target = o
    BY <1>3 DEF ToldAreRegisteredOrAwaited, MovesCall
  <2>1. exchange[o] \in ExchangeOrder
    BY DEF LiveInv, LiveTypeOK
  <2>2. p \in Calls
    BY <2>1 DEF ExchangeOrder, Calls
  <2>3. HasResult(p) /\ call[p].target = o
    BY DEF LiveInv, ToldAreRegisteredOrAwaited
  <2>. QED
    BY <1>1, <1>2, <2>2, <2>3
<1>8. PlacementsHoldFreshNumbers'
  BY <1>1, <1>2, <1>3
  DEF LiveInv, PlacementsHoldFreshNumbers, MovesCall, Calls
<1>9. CancelsHoldKnownNumbers'
  BY <1>1, <1>2, <1>3
  DEF LiveInv, CancelsHoldKnownNumbers, MovesCall, ResultFree, Calls
<1>10. StatusFollowsExchange' /\ PositionsHaveTheirStrategy'
  BY DEF LiveInv, StatusFollowsExchange, PositionsHaveTheirStrategy,
         MovesCall
<1>. QED
  BY <1>4, <1>5, <1>6, <1>7, <1>8, <1>9, <1>10 DEF LiveInv

(* One run of an attempt, for a call that has one left. *)
LEMMA AttemptMoves ==
  ASSUME LiveInv, NEW c \in Calls, NEW n \in 1..MaxAttempts,
         NEW target \in Nat, NEW error \in {"none", "notFound", "invalid"},
         AttemptWith(c, n, target, error), ~HasResult(c),
         c \in Cancels /\ error = "none" => Known(target),
         UNCHANGED <<orders, positionMeta, fills, exchange>>
  PROVE  LiveInv'
<1> DEFINE s == [phase |-> IF error = "none" THEN "sent" ELSE "answered",
                 attempt |-> n, target |-> target, reply |-> error]
<1>1. s \in CallState
  BY AttemptAssumption DEF CallState, Running, Replies
<1>2. ResultFree(c, s)
  BY <1>1 DEF ResultFree
<1>3. MovesCall(c, s)
  BY DEF AttemptWith, MovesCall
<1> HIDE DEF s
<1>. QED
  BY <1>2, <1>3, CallMoved

LEMMA StartPlaceOrderStep ==
  ASSUME LiveInv, NEW c \in Placements, StartPlaceOrder(c) \/ RefuseOrder(c)
  PROVE  LiveInv'
<1>1. c \in Calls /\ c \notin Cancels /\ 1 \in 1..MaxAttempts
  BY CallAssumption, AttemptAssumption DEF Calls
<1>2. ~HasResult(c)
  BY DEF HasResult, StartPlaceOrder, RefuseOrder
<1>3. CASE StartPlaceOrder(c)
  BY <1>1, <1>2, <1>3, AttemptMoves DEF StartPlaceOrder, Attempt
<1>4. CASE RefuseOrder(c)
  BY <1>1, <1>2, <1>4, AttemptMoves DEF RefuseOrder
<1>. QED
  BY <1>3, <1>4

LEMMA StartCancelOrderStep ==
  ASSUME LiveInv, NEW c \in Cancels, NEW o \in Nat, StartCancelOrder(c, o)
  PROVE  LiveInv'
<1>1. c \in Calls /\ 1 \in 1..MaxAttempts
  BY AttemptAssumption DEF Calls
<1>2. ~HasResult(c)
  BY DEF HasResult, StartCancelOrder
<1>3. CASE Known(o)
  BY <1>1, <1>2, <1>3, AttemptMoves DEF StartCancelOrder, Attempt
<1>4. CASE ~Known(o)
  BY <1>1, <1>2, <1>4, AttemptMoves DEF StartCancelOrder, Attempt
<1>. QED
  BY <1>3, <1>4

LEMMA RetryStep ==
  ASSUME LiveInv, NEW c \in Calls, Retry(c)
  PROVE  LiveInv'
<1>1. call[c] \in CallState /\ call[c].attempt < MaxAttempts
  BY DEF LiveInv, LiveTypeOK, AttemptsFitPolicy, Retry
<1>2. /\ call[c].attempt + 1 \in 1..MaxAttempts
      /\ call[c].target \in Nat
  BY <1>1, AttemptAssumption DEF CallState
<1>3. ~HasResult(c)
  BY DEF HasResult, Retry
<1>4. CASE c \in Cancels /\ ~Known(call[c].target)
  BY <1>2, <1>3, <1>4, AttemptMoves DEF Retry, Attempt
<1>5. CASE ~(c \in Cancels /\ ~Known(call[c].target))
  BY <1>2, <1>3, <1>5, AttemptMoves DEF Retry, Attempt
<1>. QED
  BY <1>4, <1>5

LEMMA HandleErrorStep ==
  ASSUME LiveInv, NEW c \in Calls, HandleError(c)
  PROVE  LiveInv'
<1>1. /\ call[c] \in CallState
      /\ call[c].phase = "answered" /\ call[c].reply \notin {"none", "ok"}
  BY DEF LiveInv, LiveTypeOK, AttemptsFitPolicy, HandleError
<1>2. ~HasResult(c)
  BY <1>1 DEF HasResult
<1>3. PICK phase :
        /\ Ends(c, phase)
        /\ \/ phase = "sleeping" /\ call[c].attempt < MaxAttempts
           \/ phase \in {"exhausted", "rejected", "notFound", "invalid"}
  <2>1. ~IsRetryable(c) =>
          call[c].reply \in {"rejected", "notFound", "invalid"}
    BY <1>1 DEF IsRetryable, CallState, Replies
  <2>. QED
    BY <2>1 DEF HandleError, AttemptsLeft
<1> DEFINE s == [call[c] EXCEPT !.phase = phase]
<1>4. /\ s.phase = phase /\ s.attempt = call[c].attempt
      /\ s.reply = call[c].reply /\ s \in CallState
  BY <1>1, <1>3 DEF CallState, Running, Outcomes
<1>5. MovesCall(c, s)
  BY <1>3 DEF Ends, MovesCall, HandleError
<1>6. ResultFree(c, s)
  BY <1>3, <1>4 DEF ResultFree
<1> HIDE DEF s
<1>. QED
  BY <1>2, <1>5, <1>6, CallMoved

(* A request that fails, whatever it was and whatever the exchange did.    *)
LEMMA AnswerMoves ==
  ASSUME LiveInv, NEW c \in Calls, NEW reply \in Errors, NEW target \in Nat,
         call[c].phase = "sent", AnswerTo(c, reply, target),
         UNCHANGED <<orders, positionMeta, fills, exchange>>
  PROVE  LiveInv'
<1> DEFINE s == [call[c] EXCEPT !.phase = "answered", !.reply = reply,
                                !.target = target]
<1>1. call[c] \in CallState
  BY DEF LiveInv, LiveTypeOK
<1>2. /\ s \in CallState /\ s.phase = "answered" /\ s.reply = reply
  BY <1>1 DEF CallState, Running, Replies, Errors
<1>3. MovesCall(c, s)
  BY DEF AnswerTo, MovesCall
<1>4. ResultFree(c, s) /\ ~HasResult(c)
  BY <1>2 DEF ResultFree, HasResult, Errors
<1> HIDE DEF s
<1>. QED
  BY <1>3, <1>4, CallMoved

-----------------------------------------------------------------------------
(* The steps that change the broker's maps or the exchange *)

(* WithOrder adds one order, or changes one.                               *)
LEMMA WithOrderIs ==
  ASSUME LiveInv, NEW o \in DOMAIN exchange, NEW placement \in Placements,
         NEW status \in {"PENDING", "FILLED", "CANCELLED"},
         orders' = WithOrder(o, placement, status),
         DOMAIN exchange' = DOMAIN exchange
  PROVE  /\ DOMAIN orders' = DOMAIN orders \cup {o}
         /\ orders'[o] = [placement |-> placement, status |-> status]
         /\ \A x \in DOMAIN orders \ {o} : orders'[x] = orders[x]
         /\ DOMAIN orders' \subseteq DOMAIN exchange'
         /\ orders' \in [DOMAIN orders' -> BrokerOrder]
<1>1. /\ DOMAIN orders' = DOMAIN orders \cup {o}
      /\ orders'[o] = [placement |-> placement, status |-> status]
      /\ \A x \in DOMAIN orders \ {o} : orders'[x] = orders[x]
  BY DEF WithOrder
<1>2. \A x \in DOMAIN orders' : orders'[x] \in BrokerOrder
  BY <1>1 DEF LiveInv, LiveTypeOK, BrokerOrder
<1>3. orders' \in [DOMAIN orders' -> BrokerOrder]
  BY <1>2 DEF WithOrder
<1>. QED
  BY <1>1, <1>3 DEF LiveInv, LiveTypeOK

LEMMA RegisterOrderStep ==
  ASSUME LiveInv, NEW c \in Placements, RegisterOrder(c)
  PROVE  LiveInv'
<1> DEFINE t == call[c].target
<1>1. /\ c \in Calls /\ c \notin Cancels
      /\ call[c] \in CallState /\ HasResult(c)
      /\ t \in DOMAIN exchange /\ exchange[t].placement = c
      /\ exchange[t].told /\ ~Known(t)
  BY CallAssumption
  DEF Calls, LiveInv, LiveTypeOK, PlacementsHoldFreshNumbers, HasResult,
      RegisterOrder
<1>2. /\ DOMAIN orders' = DOMAIN orders \cup {t}
      /\ orders'[t] = [placement |-> c, status |-> "PENDING"]
      /\ \A x \in DOMAIN orders \ {t} : orders'[x] = orders[x]
      /\ DOMAIN orders' \subseteq DOMAIN exchange'
      /\ orders' \in [DOMAIN orders' -> BrokerOrder]
  BY <1>1, WithOrderIs DEF RegisterOrder
<1>3. /\ call' \in [Calls -> CallState]
      /\ call'[c].phase = "ok"
      /\ \A x \in Calls \ {c} : call'[x] = call[x]
  BY <1>1 DEF RegisterOrder, Ends, LiveInv, LiveTypeOK, CallState, Outcomes
<1>4. /\ \A x \in Calls : HasResult(x)' <=> x # c /\ HasResult(x)
      /\ \A o : Known(o)' <=> Known(o) \/ o = t
  BY <1>2, <1>3 DEF HasResult, Known
<1>5. exchange' = exchange /\ fills' = fills
  BY DEF RegisterOrder
<1> HIDE DEF t
<1>6. LiveTypeOK'
  BY <1>2, <1>3, <1>5 DEF LiveInv, LiveTypeOK
<1>7. AttemptsFitPolicy'
  BY <1>3 DEF LiveInv, AttemptsFitPolicy
<1>8. RegisteredWereTold'
  BY <1>1, <1>2, <1>5 DEF LiveInv, RegisteredWereTold
<1>9. ToldAreRegisteredOrAwaited'
  <2> SUFFICES ASSUME NEW o \in DOMAIN exchange, exchange[o].told,
                      ~Known(o), o # t, NEW p, p = exchange[o].placement
               PROVE  HasResult(p)' /\ call'[p].target = o
    BY <1>4, <1>5 DEF ToldAreRegisteredOrAwaited
  <2>1. exchange[o] \in ExchangeOrder
    BY DEF LiveInv, LiveTypeOK
  <2>2. p \in Calls
    BY <2>1 DEF ExchangeOrder, Calls
  <2>3. HasResult(p) /\ call[p].target = o
    BY DEF LiveInv, ToldAreRegisteredOrAwaited
  <2>4. p # c
    BY <2>3 DEF t
  <2>. QED
    BY <1>3, <1>4, <2>2, <2>3, <2>4
<1>10. PlacementsHoldFreshNumbers'
  BY <1>1, <1>3, <1>4, <1>5
  DEF LiveInv, PlacementsHoldFreshNumbers, Calls
<1>11. CancelsHoldKnownNumbers'
  BY <1>1, <1>3, <1>4, <1>5 DEF LiveInv, CancelsHoldKnownNumbers, Calls
<1>12. StatusFollowsExchange'
  BY <1>2, <1>5 DEF LiveInv, StatusFollowsExchange
<1>13. PositionsHaveTheirStrategy'
  <2>1. /\ DOMAIN positionMeta' = DOMAIN positionMeta \cup {InstrumentOf[c]}
        /\ positionMeta'[InstrumentOf[c]] = StrategyOf[c]
        /\ \A i \in DOMAIN positionMeta \ {InstrumentOf[c]} :
             positionMeta'[i] = positionMeta[i]
    BY DEF RegisterOrder, TrackPositionMeta
  <2> SUFFICES ASSUME NEW i \in DOMAIN positionMeta'
               PROVE  \E o \in DOMAIN orders' :
                        /\ InstrumentOf[orders'[o].placement] = i
                        /\ StrategyOf[orders'[o].placement] = positionMeta'[i]
    BY DEF PositionsHaveTheirStrategy
  <2>2. CASE i = InstrumentOf[c]
    BY <1>2, <2>1, <2>2
  <2>3. CASE i # InstrumentOf[c]
    <3>1. PICK o \in DOMAIN orders :
            /\ InstrumentOf[orders[o].placement] = i
            /\ StrategyOf[orders[o].placement] = positionMeta[i]
      BY <2>1, <2>3 DEF LiveInv, PositionsHaveTheirStrategy
    <3>2. o # t
      BY <1>1 DEF Known
    <3>. QED
      BY <1>2, <2>1, <2>3, <3>1, <3>2
  <2>. QED
    BY <2>2, <2>3
<1>. QED
  BY <1>6, <1>7, <1>8, <1>9, <1>10, <1>11, <1>12, <1>13 DEF LiveInv

(* An order of the map that changes its status alone. *)
LEMMA PositionsKeptByStatus ==
  ASSUME LiveInv, NEW o \in DOMAIN orders, UNCHANGED positionMeta,
         DOMAIN orders' = DOMAIN orders,
         \A x \in DOMAIN orders : orders'[x].placement = orders[x].placement
  PROVE  PositionsHaveTheirStrategy'
BY DEF LiveInv, PositionsHaveTheirStrategy

LEMMA MarkCancelledStep ==
  ASSUME LiveInv, NEW c \in Cancels, MarkCancelled(c)
  PROVE  LiveInv'
<1> DEFINE t == call[c].target
<1>1. /\ c \in Calls /\ c \notin Placements
      /\ call[c] \in CallState /\ HasResult(c)
      /\ t \in DOMAIN orders /\ t \in DOMAIN exchange
      /\ exchange[t].status = "CANCELLED"
      /\ orders[t] \in BrokerOrder
  BY CallAssumption
  DEF Calls, LiveInv, LiveTypeOK, CancelsHoldKnownNumbers, HasResult, Known,
      MarkCancelled
<1>2. /\ DOMAIN orders' = DOMAIN orders
      /\ orders'[t] = [placement |-> orders[t].placement,
                       status |-> "CANCELLED"]
      /\ \A x \in DOMAIN orders \ {t} : orders'[x] = orders[x]
      /\ DOMAIN orders' \subseteq DOMAIN exchange'
      /\ orders' \in [DOMAIN orders' -> BrokerOrder]
  <2>1. orders' = WithOrder(t, orders[t].placement, "CANCELLED")
        /\ DOMAIN exchange' = DOMAIN exchange
    BY <1>1 DEF MarkCancelled
  <2>2. orders[t].placement \in Placements
    BY <1>1 DEF BrokerOrder
  <2>3. DOMAIN orders \cup {t} = DOMAIN orders
    BY <1>1
  <2> HIDE DEF t
  <2>. QED
    BY <1>1, <2>1, <2>2, <2>3, WithOrderIs
<1>3. /\ call' \in [Calls -> CallState]
      /\ call'[c].phase = "ok"
      /\ \A x \in Calls \ {c} : call'[x] = call[x]
  BY <1>1 DEF MarkCancelled, Ends, LiveInv, LiveTypeOK, CallState, Outcomes
<1>4. /\ \A x \in Calls : HasResult(x)' <=> x # c /\ HasResult(x)
      /\ \A o : Known(o)' <=> Known(o)
  BY <1>2, <1>3 DEF HasResult, Known
<1>5. exchange' = exchange /\ fills' = fills /\ positionMeta' = positionMeta
  BY DEF MarkCancelled
<1> HIDE DEF t
<1>6. LiveTypeOK'
  BY <1>2, <1>3, <1>5 DEF LiveInv, LiveTypeOK
<1>7. AttemptsFitPolicy'
  BY <1>3 DEF LiveInv, AttemptsFitPolicy
<1>8. RegisteredWereTold'
  BY <1>1, <1>2, <1>5 DEF LiveInv, RegisteredWereTold
<1>9. ToldAreRegisteredOrAwaited'
  <2> SUFFICES ASSUME NEW o \in DOMAIN exchange, exchange[o].told,
                      ~Known(o), NEW p, p = exchange[o].placement
               PROVE  HasResult(p)' /\ call'[p].target = o
    BY <1>4, <1>5 DEF ToldAreRegisteredOrAwaited
  <2>1. exchange[o] \in ExchangeOrder
    BY DEF LiveInv, LiveTypeOK
  <2>2. p \in Calls /\ p # c
    BY <1>1, <2>1 DEF ExchangeOrder, Calls
  <2>3. HasResult(p) /\ call[p].target = o
    BY DEF LiveInv, ToldAreRegisteredOrAwaited
  <2>. QED
    BY <1>3, <1>4, <2>2, <2>3
<1>10. PlacementsHoldFreshNumbers'
  BY <1>1, <1>3, <1>4, <1>5
  DEF LiveInv, PlacementsHoldFreshNumbers, Calls
<1>11. CancelsHoldKnownNumbers'
  BY <1>1, <1>3, <1>4, <1>5 DEF LiveInv, CancelsHoldKnownNumbers, Calls
<1>12. StatusFollowsExchange'
  BY <1>1, <1>2, <1>5 DEF LiveInv, StatusFollowsExchange
<1>13. PositionsHaveTheirStrategy'
  BY <1>1, <1>2, <1>5, PositionsKeptByStatus
<1>. QED
  BY <1>6, <1>7, <1>8, <1>9, <1>10, <1>11, <1>12, <1>13 DEF LiveInv

(* The exchange accepts an order: a caller that is told its number holds a *)
(* number no one can have registered.                                      *)
LEMMA AcceptStep ==
  ASSUME LiveInv, NEW c \in Placements, call[c].phase = "sent",
         NEW told \in BOOLEAN, NEW reply \in Errors \cup {"ok"},
         told <=> reply = "ok", NEW target \in Nat,
         told => target = Len(exchange) + 1,
         AnswerTo(c, reply, target),
         exchange' = Append(exchange,
                            [placement |-> c, status |-> "OPEN",
                             told |-> told, reported |-> FALSE]),
         UNCHANGED <<orders, positionMeta, fills>>
  PROVE  LiveInv'
<1> DEFINE n == Len(exchange) + 1
           order == [placement |-> c, status |-> "OPEN",
                     told |-> told, reported |-> FALSE]
<1>1. /\ c \in Calls /\ c \notin Cancels
      /\ call[c] \in CallState /\ order \in ExchangeOrder
      /\ exchange \in Seq(ExchangeOrder) /\ ~HasResult(c)
  BY CallAssumption
  DEF Calls, LiveInv, LiveTypeOK, ExchangeOrder, HasResult
<1>2. /\ exchange' \in Seq(ExchangeOrder)
      /\ DOMAIN exchange' = DOMAIN exchange \cup {n}
      /\ n \notin DOMAIN exchange
      /\ exchange'[n] = order
      /\ \A o \in DOMAIN exchange : exchange'[o] = exchange[o]
  <2> HIDE DEF order
  <2>1. exchange' = Append(exchange, order)
    BY DEF order
  <2>. QED
    BY <1>1, <2>1
<1>3. /\ call' \in [Calls -> CallState]
      /\ call'[c].phase = "answered" /\ call'[c].reply = reply
      /\ call'[c].target = target
      /\ \A x \in Calls \ {c} : call'[x] = call[x]
  BY <1>1
  DEF AnswerTo, LiveInv, LiveTypeOK, CallState, Running, Replies, Errors
<1>4. /\ \A x \in Calls :
           HasResult(x)' <=> IF x = c THEN told ELSE HasResult(x)
      /\ \A o : Known(o)' <=> Known(o)
      /\ DOMAIN orders \subseteq DOMAIN exchange
  BY <1>3 DEF HasResult, Known, LiveInv, LiveTypeOK
<1>5. order.told = told /\ order.placement = c
  OBVIOUS
<1> HIDE DEF n, order
<1>6. LiveTypeOK'
  BY <1>2, <1>3, <1>4 DEF LiveInv, LiveTypeOK
<1>7. AttemptsFitPolicy'
  BY <1>3 DEF LiveInv, AttemptsFitPolicy, Errors
<1>8. RegisteredWereTold'
  BY <1>2, <1>4 DEF LiveInv, RegisteredWereTold
<1>9. ToldAreRegisteredOrAwaited'
  <2> SUFFICES ASSUME NEW o \in DOMAIN exchange', exchange'[o].told,
                      ~Known(o), NEW p, p = exchange'[o].placement
               PROVE  HasResult(p)' /\ call'[p].target = o
    BY <1>4 DEF ToldAreRegisteredOrAwaited
  <2>1. CASE o = n
    BY <1>2, <1>3, <1>4, <1>5, <1>1, <2>1 DEF n
  <2>2. CASE o \in DOMAIN exchange
    <3>1. exchange[o] \in ExchangeOrder /\ exchange'[o] = exchange[o]
      BY <1>2, <2>2 DEF LiveInv, LiveTypeOK
    <3>2. p \in Calls
      BY <3>1 DEF ExchangeOrder, Calls
    <3>3. HasResult(p) /\ call[p].target = o
      BY <2>2, <3>1 DEF LiveInv, ToldAreRegisteredOrAwaited
    <3>. QED
      BY <1>1, <1>3, <1>4, <3>2, <3>3
  <2>. QED
    BY <1>2, <2>1, <2>2
<1>10. PlacementsHoldFreshNumbers'
  <2> SUFFICES ASSUME NEW x \in Placements, HasResult(x)', NEW t,
                      t = call'[x].target
               PROVE  /\ t \in DOMAIN exchange'
                      /\ exchange'[t].placement = x
                      /\ exchange'[t].told /\ ~Known(t)
    BY <1>4 DEF PlacementsHoldFreshNumbers
  <2>1. CASE x = c
    BY <1>1, <1>2, <1>3, <1>4, <1>5, <2>1 DEF n, Known
  <2>2. CASE x # c
    BY <1>2, <1>3, <1>4, <2>2
    DEF LiveInv, PlacementsHoldFreshNumbers, Calls
  <2>. QED
    BY <2>1, <2>2
<1>11. CancelsHoldKnownNumbers'
  BY <1>1, <1>2, <1>3, <1>4
  DEF LiveInv, CancelsHoldKnownNumbers, Calls, Known
<1>12. StatusFollowsExchange'
  BY <1>2, <1>4 DEF LiveInv, StatusFollowsExchange
<1>13. PositionsHaveTheirStrategy'
  BY DEF LiveInv, PositionsHaveTheirStrategy
<1>. QED
  BY <1>6, <1>7, <1>8, <1>9, <1>10, <1>11, <1>12, <1>13 DEF LiveInv

LEMMA ExchangePlacesStep ==
  ASSUME LiveInv, NEW c \in Placements, ExchangePlaces(c)
  PROVE  LiveInv'
<1>1. c \in Calls /\ call[c].phase = "sent" /\ 0 \in Nat
  BY DEF Calls, ExchangePlaces
<1>2. Len(exchange) + 1 \in Nat /\ "ok" \notin Errors
  BY DEF LiveInv, LiveTypeOK, Errors
<1>3. CASE /\ \E reply \in Errors : AnswerTo(c, reply, 0)
           /\ UNCHANGED exchange
  BY <1>1, <1>3, AnswerMoves DEF ExchangePlaces
<1>4. CASE /\ AnswerTo(c, "ok", Len(exchange) + 1)
           /\ exchange' = Append(exchange,
                                 [placement |-> c, status |-> "OPEN",
                                  told |-> TRUE, reported |-> FALSE])
  BY <1>1, <1>2, <1>4, AcceptStep DEF ExchangePlaces
<1>5. CASE /\ \E reply \in Errors : AnswerTo(c, reply, 0)
           /\ exchange' = Append(exchange,
                                 [placement |-> c, status |-> "OPEN",
                                  told |-> FALSE, reported |-> FALSE])
  BY <1>1, <1>2, <1>5, AcceptStep DEF ExchangePlaces
<1>. QED
  BY <1>3, <1>4, <1>5 DEF ExchangePlaces

(* The exchange changes the status of an open order, or reports it.        *)
LEMMA ExchangeMoves ==
  ASSUME LiveInv, NEW o \in DOMAIN exchange, NEW order \in ExchangeOrder,
         exchange' = [exchange EXCEPT ![o] = order],
         order.placement = exchange[o].placement,
         order.told = exchange[o].told
  PROVE  /\ exchange' \in Seq(ExchangeOrder)
         /\ DOMAIN exchange' = DOMAIN exchange
         /\ exchange'[o] = order
         /\ \A x \in DOMAIN exchange \ {o} : exchange'[x] = exchange[x]
         /\ \A x \in DOMAIN exchange :
              /\ exchange'[x].placement = exchange[x].placement
              /\ exchange'[x].told = exchange[x].told
<1>1. exchange \in Seq(ExchangeOrder)
  BY DEF LiveInv, LiveTypeOK
<1>. QED
  BY <1>1

LEMMA ExchangeExecutesStep ==
  ASSUME LiveInv, NEW o \in DOMAIN exchange, ExchangeExecutes(o)
  PROVE  LiveInv'
<1> DEFINE order == [exchange[o] EXCEPT !.status = "COMPLETE"]
<1>1. /\ exchange[o] \in ExchangeOrder
      /\ exchange[o].status = "OPEN"
      /\ DOMAIN orders \subseteq DOMAIN exchange
  BY DEF LiveInv, LiveTypeOK, ExchangeExecutes
<1>2. /\ order \in ExchangeOrder /\ order.status = "COMPLETE"
      /\ order.placement = exchange[o].placement
      /\ order.told = exchange[o].told
      /\ exchange' = [exchange EXCEPT ![o] = order]
  BY <1>1 DEF ExchangeOrder, ExchangeExecutes
<1> HIDE DEF order
<1>3. /\ exchange' \in Seq(ExchangeOrder)
      /\ DOMAIN exchange' = DOMAIN exchange
      /\ exchange'[o] = order
      /\ \A x \in DOMAIN exchange \ {o} : exchange'[x] = exchange[x]
      /\ \A x \in DOMAIN exchange :
           /\ exchange'[x].placement = exchange[x].placement
           /\ exchange'[x].told = exchange[x].told
  BY <1>2, ExchangeMoves
<1>4. UNCHANGED <<call, orders, positionMeta, fills>>
  BY DEF ExchangeExecutes
<1>5. LiveTypeOK' /\ AttemptsFitPolicy' /\ PositionsHaveTheirStrategy'
  BY <1>3, <1>4
  DEF LiveInv, LiveTypeOK, AttemptsFitPolicy, PositionsHaveTheirStrategy
<1>6. RegisteredWereTold' /\ ToldAreRegisteredOrAwaited'
  BY <1>1, <1>3, <1>4
  DEF LiveInv, RegisteredWereTold, ToldAreRegisteredOrAwaited, HasResult,
      Known
<1>7. PlacementsHoldFreshNumbers'
  BY <1>3, <1>4 DEF LiveInv, PlacementsHoldFreshNumbers, HasResult, Known
<1>8. CancelsHoldKnownNumbers'
  BY <1>1, <1>3, <1>4 DEF LiveInv, CancelsHoldKnownNumbers, HasResult, Known
<1>9. StatusFollowsExchange'
  BY <1>1, <1>2, <1>3, <1>4 DEF LiveInv, StatusFollowsExchange
<1>. QED
  BY <1>5, <1>6, <1>7, <1>8, <1>9 DEF LiveInv

LEMMA ExchangeCancelsStep ==
  ASSUME LiveInv, NEW c \in Cancels, ExchangeCancels(c)
  PROVE  LiveInv'
<1> DEFINE o == call[c].target
           order == [exchange[o] EXCEPT !.status = "CANCELLED"]
<1>1. /\ c \in Calls /\ c \notin Placements
      /\ call[c] \in CallState /\ call[c].phase = "sent" /\ o \in Nat
      /\ Known(o) /\ o \in DOMAIN exchange /\ exchange[o] \in ExchangeOrder
      /\ ~HasResult(c)
  BY CallAssumption
  DEF Calls, LiveInv, LiveTypeOK, CancelsHoldKnownNumbers, ExchangeCancels,
      Known, CallState, HasResult
<1>2. CASE /\ \E reply \in Errors : AnswerTo(c, reply, o)
           /\ UNCHANGED exchange
  BY <1>1, <1>2, AnswerMoves DEF ExchangeCancels
<1>3. CASE /\ exchange[o].status = "OPEN"
           /\ exchange' = [exchange EXCEPT ![o].status = "CANCELLED"]
           /\ \E reply \in Errors \cup {"ok"} : AnswerTo(c, reply, o)
  <2>1. /\ order \in ExchangeOrder /\ order.status = "CANCELLED"
        /\ order.placement = exchange[o].placement
        /\ order.told = exchange[o].told
        /\ exchange' = [exchange EXCEPT ![o] = order]
    BY <1>1, <1>3 DEF ExchangeOrder
  <2> HIDE DEF order
  <2>2. /\ exchange' \in Seq(ExchangeOrder)
        /\ DOMAIN exchange' = DOMAIN exchange
        /\ exchange'[o] = order
        /\ \A x \in DOMAIN exchange \ {o} : exchange'[x] = exchange[x]
        /\ \A x \in DOMAIN exchange :
             /\ exchange'[x].placement = exchange[x].placement
             /\ exchange'[x].told = exchange[x].told
    BY <1>1, <2>1, ExchangeMoves
  <2>3. PICK reply \in Errors \cup {"ok"} : AnswerTo(c, reply, o)
    BY <1>3
  <2>4. /\ call' \in [Calls -> CallState]
        /\ call'[c].phase = "answered" /\ call'[c].reply = reply
        /\ call'[c].target = o
        /\ \A x \in Calls \ {c} : call'[x] = call[x]
    BY <1>1, <2>3
    DEF AnswerTo, LiveInv, LiveTypeOK, CallState, Running, Replies, Errors
  <2>5. UNCHANGED <<orders, positionMeta, fills>>
    BY DEF ExchangeCancels
  <2>6. /\ \A x \in Calls : HasResult(x)' <=>
             IF x = c THEN reply = "ok" ELSE HasResult(x)
        /\ \A x : Known(x)' <=> Known(x)
    BY <2>4, <2>5 DEF HasResult, Known
  <2> HIDE DEF o
  <2>7. LiveTypeOK' /\ PositionsHaveTheirStrategy'
    BY <2>2, <2>4, <2>5 DEF LiveInv, LiveTypeOK, PositionsHaveTheirStrategy
  <2>8. AttemptsFitPolicy'
    BY <2>4 DEF LiveInv, AttemptsFitPolicy, Errors
  <2>9. RegisteredWereTold'
    BY <2>2, <2>5 DEF LiveInv, LiveTypeOK, RegisteredWereTold
  <2>10. ToldAreRegisteredOrAwaited'
    <3> SUFFICES ASSUME NEW x \in DOMAIN exchange, exchange[x].told,
                        ~Known(x), NEW p, p = exchange[x].placement
                 PROVE  HasResult(p)' /\ call'[p].target = x
      BY <2>2, <2>6 DEF ToldAreRegisteredOrAwaited
    <3>1. exchange[x] \in ExchangeOrder
      BY DEF LiveInv, LiveTypeOK
    <3>2. p \in Calls /\ p # c
      BY <1>1, <3>1 DEF ExchangeOrder, Calls
    <3>3. HasResult(p) /\ call[p].target = x
      BY DEF LiveInv, ToldAreRegisteredOrAwaited
    <3>. QED
      BY <2>4, <2>6, <3>2, <3>3
  <2>11. PlacementsHoldFreshNumbers'
    BY <1>1, <2>2, <2>4, <2>6
    DEF LiveInv, PlacementsHoldFreshNumbers, Calls
  <2>12. CancelsHoldKnownNumbers'
    <3>1. ASSUME NEW d \in Cancels, d # c
          PROVE  /\ call'[d].phase = "sent" => Known(call[d].target)'
                 /\ HasResult(d)' =>
                      /\ Known(call[d].target)'
                      /\ exchange'[call'[d].target].status = "CANCELLED"
      <4>1. call'[d] = call[d] /\ (HasResult(d)' <=> HasResult(d))
        BY <2>4, <2>6, <3>1 DEF Calls
      <4>2. /\ call[d].phase = "sent" => Known(call[d].target)
            /\ HasResult(d) =>
                 /\ Known(call[d].target)
                 /\ exchange[call[d].target].status = "CANCELLED"
        BY DEF LiveInv, CancelsHoldKnownNumbers
      <4>3. ASSUME NEW x, Known(x), exchange[x].status = "CANCELLED"
            PROVE  exchange'[x].status = "CANCELLED"
        <5>1. x \in DOMAIN exchange
          BY <4>3 DEF Known, LiveInv, LiveTypeOK
        <5>. QED
          BY <2>1, <2>2, <4>3, <5>1
      <4>. QED
        BY <2>6, <4>1, <4>2, <4>3
    <3>2. /\ call'[c].phase # "sent" /\ Known(call[c].target)'
          /\ exchange'[call'[c].target].status = "CANCELLED"
      BY <1>1, <2>1, <2>2, <2>4, <2>6
    <3>. QED
      BY <3>1, <3>2 DEF CancelsHoldKnownNumbers
  <2>13. StatusFollowsExchange'
    BY <1>3, <2>1, <2>2, <2>5
    DEF LiveInv, LiveTypeOK, StatusFollowsExchange
  <2>. QED
    BY <2>7, <2>8, <2>9, <2>10, <2>11, <2>12, <2>13 DEF LiveInv
<1>. QED
  BY <1>2, <1>3 DEF ExchangeCancels

LEMMA RecordFillStep ==
  ASSUME LiveInv, NEW o \in DOMAIN exchange, RecordFill(o)
  PROVE  LiveInv'
<1> DEFINE order == [exchange[o] EXCEPT !.reported = TRUE]
<1>1. /\ exchange[o] \in ExchangeOrder
      /\ exchange[o].status = "COMPLETE" /\ o \in Nat
      /\ DOMAIN orders \subseteq DOMAIN exchange
  BY DEF LiveInv, LiveTypeOK, RecordFill
<1>2. /\ order \in ExchangeOrder /\ order.status = "COMPLETE"
      /\ order.placement = exchange[o].placement
      /\ order.told = exchange[o].told
      /\ exchange' = [exchange EXCEPT ![o] = order]
  BY <1>1 DEF ExchangeOrder, RecordFill
<1> HIDE DEF order
<1>3. /\ exchange' \in Seq(ExchangeOrder)
      /\ DOMAIN exchange' = DOMAIN exchange
      /\ exchange'[o] = order
      /\ \A x \in DOMAIN exchange \ {o} : exchange'[x] = exchange[x]
      /\ \A x \in DOMAIN exchange :
           /\ exchange'[x].placement = exchange[x].placement
           /\ exchange'[x].told = exchange[x].told
  BY <1>2, ExchangeMoves
<1>4. /\ UNCHANGED <<call, positionMeta>>
      /\ fills' \in Seq(Nat)
  BY <1>1 DEF RecordFill, LiveInv, LiveTypeOK
<1>5. /\ DOMAIN orders' = DOMAIN orders
      /\ orders' \in [DOMAIN orders' -> BrokerOrder]
      /\ \A x \in DOMAIN orders :
           /\ orders'[x].placement = orders[x].placement
           /\ x # o => orders'[x] = orders[x]
           /\ x = o => orders'[x].status = "FILLED"
  <2>1. CASE Known(o)
    <3>1. orders[o].placement \in Placements
      BY <2>1 DEF LiveInv, LiveTypeOK, BrokerOrder, Known
    <3>2. orders' = WithOrder(o, orders[o].placement, "FILLED")
      BY <2>1 DEF RecordFill
    <3> DEFINE filled == [placement |-> orders[o].placement,
                          status |-> "FILLED"]
    <3>3. /\ DOMAIN orders' = DOMAIN orders \cup {o}
          /\ orders'[o] = filled
          /\ \A x \in DOMAIN orders \ {o} : orders'[x] = orders[x]
          /\ orders' \in [DOMAIN orders' -> BrokerOrder]
      BY <1>3, <3>1, <3>2, WithOrderIs
    <3>4. /\ filled.placement = orders[o].placement
          /\ filled.status = "FILLED"
      OBVIOUS
    <3> HIDE DEF filled
    <3>. QED
      BY <2>1, <3>3, <3>4 DEF Known
  <2>2. CASE ~Known(o)
    BY <2>2 DEF RecordFill, Known, LiveInv, LiveTypeOK
  <2>. QED
    BY <2>1, <2>2
<1>6. LiveTypeOK' /\ AttemptsFitPolicy'
  BY <1>1, <1>3, <1>4, <1>5 DEF LiveInv, LiveTypeOK, AttemptsFitPolicy
<1>7. /\ RegisteredWereTold'
      /\ ToldAreRegisteredOrAwaited'
  <2>1. RegisteredWereTold'
    BY <1>1, <1>3, <1>5 DEF LiveInv, RegisteredWereTold
  <2>2. \A x : Known(x)' <=> Known(x)
    BY <1>5 DEF Known
  <2>3. ToldAreRegisteredOrAwaited'
    BY <1>3, <1>4, <2>2
    DEF LiveInv, ToldAreRegisteredOrAwaited, HasResult
  <2>. QED
    BY <2>1, <2>3
<1>8. PlacementsHoldFreshNumbers'
  BY <1>3, <1>4, <1>5
  DEF LiveInv, PlacementsHoldFreshNumbers, HasResult, Known
<1>9. CancelsHoldKnownNumbers'
  BY <1>1, <1>2, <1>3, <1>4, <1>5
  DEF LiveInv, CancelsHoldKnownNumbers, HasResult, Known
<1>10. StatusFollowsExchange'
  BY <1>1, <1>2, <1>3, <1>5 DEF LiveInv, StatusFollowsExchange
<1>11. PositionsHaveTheirStrategy'
  BY <1>4, <1>5 DEF LiveInv, PositionsHaveTheirStrategy
<1>. QED
  BY <1>6, <1>7, <1>8, <1>9, <1>10, <1>11 DEF LiveInv

-----------------------------------------------------------------------------
LEMMA LiveInvInit == Init => LiveInv
<1> SUFFICES ASSUME Init
             PROVE  LiveInv
  OBVIOUS
<1>1. LiveTypeOK
  BY AttemptAssumption
  DEF Init, LiveTypeOK, CallState, Running, Replies
<1>2. AttemptsFitPolicy /\ CancelsHoldKnownNumbers
  BY DEF Init, AttemptsFitPolicy, CancelsHoldKnownNumbers, HasResult, Calls
<1>3. PlacementsHoldFreshNumbers
  BY DEF Init, PlacementsHoldFreshNumbers, HasResult, Calls
<1>4. /\ RegisteredWereTold /\ ToldAreRegisteredOrAwaited
      /\ StatusFollowsExchange /\ PositionsHaveTheirStrategy
  BY DEF Init, RegisteredWereTold, ToldAreRegisteredOrAwaited,
         StatusFollowsExchange, PositionsHaveTheirStrategy
<1>. QED
  BY <1>1, <1>2, <1>3, <1>4 DEF LiveInv

LEMMA LiveInvStep == LiveInv /\ [Next]_vars => LiveInv'
<1> SUFFICES ASSUME LiveInv, [Next]_vars
             PROVE  LiveInv'
  OBVIOUS
<1>1. CASE \E c \in Placements : Place(c)
  BY <1>1, StartPlaceOrderStep, ExchangePlacesStep, RegisterOrderStep
  DEF Place
<1>2. CASE \E c \in Cancels : Cancel(c)
  <2>1. OrderNumbers \subseteq Nat
    BY DEF OrderNumbers
  <2>. QED
    BY <1>2, <2>1, StartCancelOrderStep, ExchangeCancelsStep,
       MarkCancelledStep
    DEF Cancel
<1>3. CASE \E c \in Calls : HandleError(c) \/ Retry(c)
  BY <1>3, HandleErrorStep, RetryStep
<1>4. CASE \E o \in DOMAIN exchange : ExchangeExecutes(o) \/ RecordFill(o)
  BY <1>4, ExchangeExecutesStep, RecordFillStep
<1>5. CASE UNCHANGED vars
  BY <1>5
  DEF vars, LiveInv, LiveTypeOK, AttemptsFitPolicy, RegisteredWereTold,
      ToldAreRegisteredOrAwaited, PlacementsHoldFreshNumbers,
      CancelsHoldKnownNumbers, StatusFollowsExchange,
      PositionsHaveTheirStrategy, HasResult, Known
<1>. QED
  BY <1>1, <1>2, <1>3, <1>4, <1>5 DEF Next

LEMMA LiveInvAlways == Spec => []LiveInv
BY LiveInvInit, LiveInvStep, PTL DEF Spec

LEMMA LiveInvGivesRegistered == LiveInv => ToldOrdersAreRegistered
<1> SUFFICES ASSUME LiveInv
             PROVE  ToldOrdersAreRegistered
  OBVIOUS
<1>. QED
  BY DEF LiveInv, RegisteredWereTold, ToldAreRegisteredOrAwaited, HasResult,
         PositionsHaveTheirStrategy, ToldOrdersAreRegistered, Known

(* Whatever the interleaving of placements, cancels, retries and reports,  *)
(* an order number that was told to a caller is in the broker's map under  *)
(* the request it was placed for once placeOrder returns, no other number  *)
(* is, and each position is attributed to a strategy that placed in it.    *)
THEOREM RegisteredAlways == Spec => []ToldOrdersAreRegistered
BY LiveInvAlways, LiveInvGivesRegistered, PTL

(* What the broker says of an order never runs ahead of the exchange: a    *)
(* cancel that is marked was one that the exchange confirmed.              *)
THEOREM StatusAlways == Spec => []StatusFollowsExchange
<1>1. LiveInv => StatusFollowsExchange
  BY DEF LiveInv
<1>. QED
  BY <1>1, LiveInvAlways, PTL

(* One step of the broker: the only actions that write the status of a     *)
(* known order are recordFill and the end of cancelOrder, and the second   *)
(* writes that of an order which can no longer be executed.                *)
LEMMA FilledStays ==
  ASSUME LiveInv, [Next]_vars, NEW o \in DOMAIN orders,
         \/ Len(fills') > Len(fills) /\ fills'[Len(fills')] = o
         \/ orders[o].status = "FILLED"
  PROVE  orders'[o].status = "FILLED"
<1>1. CASE UNCHANGED <<orders, fills>>
  BY <1>1 DEF LiveInv, LiveTypeOK
<1>2. ASSUME NEW c \in Placements, RegisterOrder(c)
      PROVE  orders'[o] = orders[o] /\ fills' = fills
  <2>1. o # call[c].target
    BY <1>2
    DEF LiveInv, PlacementsHoldFreshNumbers, HasResult, RegisterOrder, Known
  <2>. QED
    BY <1>2, <2>1 DEF RegisterOrder, WithOrder
<1>3. ASSUME NEW c \in Cancels, MarkCancelled(c), orders[o].status = "FILLED"
      PROVE  orders'[o] = orders[o]
  <2>1. /\ exchange[call[c].target].status = "CANCELLED"
        /\ exchange[o].status = "COMPLETE"
    BY <1>3
    DEF LiveInv, CancelsHoldKnownNumbers, HasResult, MarkCancelled,
        StatusFollowsExchange
  <2>. QED
    BY <1>3, <2>1 DEF MarkCancelled, WithOrder
<1>4. ASSUME NEW x \in DOMAIN exchange, RecordFill(x)
      PROVE  orders'[o].status = "FILLED"
  <2>1. x = o \/ orders[o].status = "FILLED"
    BY <1>4 DEF RecordFill, LiveInv, LiveTypeOK
  <2>. QED
    BY <1>4, <2>1 DEF RecordFill, WithOrder, Known
<1>5. \A c \in Placements : Place(c) =>
        UNCHANGED <<orders, fills>> \/ RegisterOrder(c)
  BY DEF Place, StartPlaceOrder, RefuseOrder, ExchangePlaces
<1>6. \A c \in Cancels : Cancel(c) =>
        (UNCHANGED <<orders, fills>> \/ (MarkCancelled(c) /\ fills' = fills))
  BY DEF Cancel, StartCancelOrder, ExchangeCancels, MarkCancelled
<1>7. \A c \in Calls : HandleError(c) \/ Retry(c) =>
        UNCHANGED <<orders, fills>>
  BY DEF HandleError, Retry
<1>8. \A x \in DOMAIN exchange : ExchangeExecutes(x) \/ RecordFill(x) =>
        UNCHANGED <<orders, fills>> \/ RecordFill(x)
  BY DEF ExchangeExecutes
<1>9. fills' = fills => orders[o].status = "FILLED"
  BY DEF LiveInv, LiveTypeOK
<1>. QED
  BY <1>1, <1>2, <1>3, <1>4, <1>5, <1>6, <1>7, <1>8, <1>9 DEF Next, vars

(* A fill that finds its order makes it FILLED, and no cancel, retry or    *)
(* later registration ever takes that back.                                *)
THEOREM FilledIsForGood == Spec => FilledForGood
<1>1. LiveInv /\ [Next]_vars =>
        [\A o \in DOMAIN orders :
           \/ Len(fills') > Len(fills) /\ fills'[Len(fills')] = o
           \/ orders[o].status = "FILLED"
           => orders'[o].status = "FILLED"]_vars
  BY FilledStays
<1>. QED
  BY <1>1, LiveInvAlways, PTL DEF Spec, FilledForGood

=============================================================================
