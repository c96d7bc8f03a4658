----------------------------- MODULE LiveBroker -----------------------------
(***************************************************************************)
(* The live brokers: src/src/broker/zerodha/zerodha-broker.ts (Upstox has  *)
(* the same control flow) under the retry wrapper of broker/live.  A call  *)
(* is an asynchronous operation of a client, placeOrder or cancelOrder; it *)
(* awaits the HTTP client, so calls interleave with each other and with    *)
(* the reports of executions that reach recordFill.                        *)
(*                                                                         *)
(* The exchange is not part of the repository: it gives out order numbers, *)
(* executes or cancels an open order, once and for good, and reports each  *)
(* execution once.  An answer can be lost after it has taken effect; what  *)
(* the client then sees is an error of either class of isRetryable-        *)
(* BrokerError (HttpKiteApiClient maps every HTTP error to a rejection).   *)
(***************************************************************************)
EXTENDS Naturals, Sequences, FiniteSets

CONSTANTS
  Placements,       \* placeOrder calls
  Cancels,          \* cancelOrder calls
  InstrumentOf,     \* what each placement's request asks for
  StrategyOf,
  MaxAttempts,      \* policy.maxAttempts
  CodeLikeIds       \* order numbers whose text has 429, 502 or 503 in it

ASSUME AttemptAssumption == MaxAttempts \in Nat \ {0}

(* A call is to one of the two methods. *)
ASSUME CallAssumption == Placements \cap Cancels = {}

Calls == Placements \cup Cancels

OrderNumbers == 1..(Cardinality(Placements) * MaxAttempts)

VARIABLES
  call,             \* state of each call: phase, attempt, target, reply
  orders,           \* order number -> status and placement, the broker's Map
  positionMeta,     \* instrument -> strategy, the Map of that name
  fills,            \* sequence of order numbers whose fills were recorded
  exchange          \* sequence of the orders at the exchange

vars == <<call, orders, positionMeta, fills, exchange>>

Running  == {"sent", "answered", "sleeping"}
Outcomes == {"ok", "rejected", "notFound", "invalid", "exhausted"}

Known(o) == o \in DOMAIN orders

-----------------------------------------------------------------------------
(* The retry loop *)

Init ==
  /\ call = [c \in Calls |-> [phase |-> "idle", attempt |-> 0,
                              target |-> 0, reply |-> "none"]]
  /\ orders = [o \in {} |-> {}]
  /\ positionMeta = [i \in {} |-> {}]
  /\ fills = <<>>
  /\ exchange = <<>>

(* isRetryableBrokerError: an unavailable broker, or an error that is none *)
(* of the broker's classes and whose message has a status code in it; that *)
(* of OrderNotFoundError ends in the order number.                         *)
IsRetryable(c) ==
  \/ call[c].reply = "unavailable"
  \/ call[c].reply = "notFound" /\ call[c].target \in CodeLikeIds

(* One run of placeOrderInternal or cancelOrderInternal up to its await,   *)
(* or up to the error it throws before.                                    *)
AttemptWith(c, n, target, error) ==
  call' = [call EXCEPT ![c] =
    [phase |-> IF error = "none" THEN "sent" ELSE "answered",
     attempt |-> n, target |-> target, reply |-> error]]

(* A request that was sent once was valid, and is on every retry. *)
Attempt(c, n, target) ==
  AttemptWith(c, n, target,
              IF c \in Cancels /\ ~Known(target) THEN "notFound" ELSE "none")

(* The request is invalid, or names an instrument nobody can resolve (one  *)
(* whose id has no status code in it: IsRetryable knows that case from the *)
(* order numbers).                                                         *)
RefuseOrder(c) ==
  /\ call[c].phase = "idle"
  /\ AttemptWith(c, 1, 0, "invalid")
  /\ UNCHANGED <<orders, positionMeta, fills, exchange>>

StartPlaceOrder(c) ==
  /\ call[c].phase = "idle"
  /\ Attempt(c, 1, 0)
  /\ UNCHANGED <<orders, positionMeta, fills, exchange>>

StartCancelOrder(c, o) ==
  /\ call[c].phase = "idle"
  /\ Attempt(c, 1, o)
  /\ UNCHANGED <<orders, positionMeta, fills, exchange>>

(* Mutation: a retry does not count as an attempt. *)
RetryUncounted(c) ==
  /\ call[c].phase = "sleeping"
  /\ Attempt(c, call[c].attempt, call[c].target)
  /\ UNCHANGED <<orders, positionMeta, fills, exchange>>

Retry(c) ==
  /\ call[c].phase = "sleeping"
  /\ Attempt(c, call[c].attempt + 1, call[c].target)
  /\ UNCHANGED <<orders, positionMeta, fills, exchange>>

Ends(c, phase) == call' = [call EXCEPT ![c].phase = phase]

AttemptsLeft(c) == call[c].attempt < MaxAttempts

(* The catch block of withBrokerRetry. *)
HandleError(c) ==
  /\ call[c].phase = "answered"
  /\ call[c].reply # "ok"
  /\ \/ /\ IsRetryable(c)
        /\ AttemptsLeft(c)
        /\ Ends(c, "sleeping")
     \/ /\ IsRetryable(c)
        /\ ~AttemptsLeft(c)
        /\ Ends(c, "exhausted")
     \/ /\ ~IsRetryable(c)
        /\ Ends(c, call[c].reply)
  /\ UNCHANGED <<orders, positionMeta, fills, exchange>>

-----------------------------------------------------------------------------
(* What follows the awaits *)

WithOrder(o, placement, status) ==
  [x \in DOMAIN orders \cup {o} |->
     IF x = o THEN [placement |-> placement, status |-> status]
              ELSE orders[x]]

TrackPositionMeta(placement) ==
  positionMeta' =
    [i \in DOMAIN positionMeta \cup {InstrumentOf[placement]} |->
       IF i = InstrumentOf[placement] THEN StrategyOf[placement]
                                   ELSE positionMeta[i]]

(* Mutation: only the first order of an instrument is kept. *)
RegisterFirstOnly(c) ==
  /\ call[c].phase = "answered"
  /\ call[c].reply = "ok"
  /\ orders' = IF InstrumentOf[c] \in DOMAIN positionMeta THEN orders
               ELSE WithOrder(call[c].target, c, "PENDING")
  /\ TrackPositionMeta(c)
  /\ Ends(c, "ok")
  /\ UNCHANGED <<fills, exchange>>

RegisterOrder(c) ==
  /\ call[c].phase = "answered"
  /\ call[c].reply = "ok"
  /\ orders' = WithOrder(call[c].target, c, "PENDING")
  /\ TrackPositionMeta(c)
  /\ Ends(c, "ok")
  /\ UNCHANGED <<fills, exchange>>

(* Mutation: the order is marked before the broker's answer is awaited. *)
MarkCancelledEarly(c) ==
  /\ call[c].phase \in {"sent", "answered"}
  /\ call[c].reply \in {"none", "ok"}
  /\ orders' = WithOrder(call[c].target, orders[call[c].target].placement,
                         "CANCELLED")
  /\ Ends(c, "ok")
  /\ UNCHANGED <<positionMeta, fills, exchange>>

MarkCancelled(c) ==
  /\ call[c].phase = "answered"
  /\ call[c].reply = "ok"
  /\ orders' = WithOrder(call[c].target, orders[call[c].target].placement,
                         "CANCELLED")
  /\ Ends(c, "ok")
  /\ UNCHANGED <<positionMeta, fills, exchange>>

(* Mutation: the fill is recorded and the order's status is not touched.  *)
RecordFillOnly(o) ==
  /\ exchange[o].status = "COMPLETE"
  /\ ~exchange[o].reported
  /\ exchange' = [exchange EXCEPT ![o].reported = TRUE]
  /\ fills' = Append(fills, o)
  /\ UNCHANGED <<call, orders, positionMeta>>

(* The report of an execution may come before the number is registered.   *)
RecordFill(o) ==
  /\ exchange[o].status = "COMPLETE"
  /\ ~exchange[o].reported
  /\ exchange' = [exchange EXCEPT ![o].reported = TRUE]
  /\ fills' = Append(fills, o)
  /\ orders' = IF Known(o) THEN WithOrder(o, orders[o].placement, "FILLED")
                           ELSE orders
  /\ UNCHANGED <<call, positionMeta>>

-----------------------------------------------------------------------------
(* The exchange *)

Errors == {"unavailable", "rejected"}

AnswerTo(c, reply, target) ==
  call' = [call EXCEPT ![c].phase = "answered", ![c].reply = reply,
                       ![c].target = target]

(* A placement is turned down, or accepted and its number told or lost.   *)
ExchangePlaces(c) ==
  /\ call[c].phase = "sent"
  /\ LET n == Len(exchange) + 1
         accepted(told) == [placement |-> c, status |-> "OPEN",
                            told |-> told, reported |-> FALSE]
     IN  \/ /\ \E reply \in Errors : AnswerTo(c, reply, 0)
            /\ UNCHANGED exchange
         \/ /\ AnswerTo(c, "ok", n)
            /\ exchange' = Append(exchange, accepted(TRUE))
         \/ /\ \E reply \in Errors : AnswerTo(c, reply, 0)
            /\ exchange' = Append(exchange, accepted(FALSE))
  /\ UNCHANGED <<orders, positionMeta, fills>>

ExchangeCancels(c) ==
  LET o == call[c].target
  IN  /\ call[c].phase = "sent"
      /\ \/ /\ exchange[o].status = "OPEN"
            /\ exchange' = [exchange EXCEPT ![o].status = "CANCELLED"]
            /\ \E reply \in Errors \cup {"ok"} : AnswerTo(c, reply, o)
         \/ /\ \E reply \in Errors : AnswerTo(c, reply, o)
            /\ UNCHANGED exchange
      /\ UNCHANGED <<orders, positionMeta, fills>>

ExchangeExecutes(o) ==
  /\ exchange[o].status = "OPEN"
  /\ exchange' = [exchange EXCEPT ![o].status = "COMPLETE"]
  /\ UNCHANGED <<call, orders, positionMeta, fills>>

-----------------------------------------------------------------------------
Place(c) ==
  \/ StartPlaceOrder(c)
  \/ RefuseOrder(c)
  \/ ExchangePlaces(c)
  \/ RegisterOrder(c)

(* A client cancels any number given out so far, or the next one, which   *)
(* stands for all that are not.                                           *)
Cancel(c) == \/ \E o \in OrderNumbers : /\ o <= Len(exchange) + 1
                                        /\ StartCancelOrder(c, o)
             \/ ExchangeCancels(c)
             \/ MarkCancelled(c)

Next ==
  \/ \E c \in Placements : Place(c)
  \/ \E c \in Cancels : Cancel(c)
  \/ \E c \in Calls : HandleError(c) \/ Retry(c)
  \/ \E o \in DOMAIN exchange : ExchangeExecutes(o) \/ RecordFill(o)

(* Every request is answered or fails, timers fire, and the event loop    *)
(* runs every continuation; clients need not call and orders not execute. *)
Continues(c) ==
  \/ c \in Placements /\ (ExchangePlaces(c) \/ RegisterOrder(c))
  \/ c \in Cancels /\ (ExchangeCancels(c) \/ MarkCancelled(c))
  \/ HandleError(c)
  \/ Retry(c)

Fairness == \A c \in Calls : WF_vars(Continues(c))

Spec == Init /\ [][Next]_vars /\ Fairness

-----------------------------------------------------------------------------
(* Properties *)

(* Whatever the interleaving of answers, a number the exchange told to a  *)
(* caller is in the broker's map once that call has ended, under the      *)
(* request it was placed for; no other number is; and positions are       *)
(* attributed to a strategy that did place an order in that instrument.   *)
ToldOrdersAreRegistered ==
  /\ \A o \in DOMAIN exchange :
       LET c == exchange[o].placement
       IN  /\ Known(o) => exchange[o].told /\ orders[o].placement = c
           /\ exchange[o].told => Known(o) \/ call[c].phase = "answered"
  /\ \A i \in DOMAIN positionMeta :
       \E o \in DOMAIN orders :
         /\ InstrumentOf[orders[o].placement] = i
         /\ StrategyOf[orders[o].placement] = positionMeta[i]

(* The broker's status of an order is never ahead of the exchange: FILLED *)
(* orders were executed, CANCELLED ones cannot be executed any more.      *)
StatusFollowsExchange ==
  \A o \in DOMAIN orders :
    /\ orders[o].status = "FILLED" => exchange[o].status = "COMPLETE"
    /\ orders[o].status = "CANCELLED" => exchange[o].status = "CANCELLED"

(* A fill that finds its order makes it FILLED, and a FILLED order stays  *)
(* so, with cancels and their retries under way.                          *)
FilledForGood ==
  [][\A o \in DOMAIN orders :
       \/ Len(fills') > Len(fills) /\ fills'[Len(fills')] = o
       \/ orders[o].status = "FILLED"
       => orders'[o].status = "FILLED"]_vars

(* Every call a client makes ends, with a result or an error: from some    *)
(* point on none is running.                                               *)
CallsEnd == <>[](\A c \in Calls : call[c].phase \notin Running)

-----------------------------------------------------------------------------
(* A claim of the repository's tests *)

(* tests/broker/zerodha-broker.test.ts:198 "throws when cancelling        *)
(* unknown orders", an OrderNotFoundError: a cancel of a number that is   *)
(* still unknown never ends in a different error.                         *)
UnknownOrdersAreNotFound ==
  \A c \in Cancels :
    /\ call[c].phase \in Outcomes
    /\ call[c].reply = "notFound"
    => call[c].phase = "notFound"

=============================================================================
