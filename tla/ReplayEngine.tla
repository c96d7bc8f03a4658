---------------------------- MODULE ReplayEngine ----------------------------
(***************************************************************************)
(* replay-engine.ts and historical-data-loader.service.ts of               *)
(* src/src/backtest/engine, over the bus of module EventBus: a replay      *)
(* subscribes its subscribers to all events, publishes candles and option  *)
(* chains in order of time and unsubscribes them whether it ends well or   *)
(* by an error.  A handler may start another replay on the same bus.       *)
(***************************************************************************)
EXTENDS EventBus

CONSTANTS
  Inputs,           \* of replays: candles and option chains, by their times
  Times,            \* bound: of other events
  MaxSubscribers    \* bound: subscribers of a replay, metrics included

vars == busVars

(* The subscription of a replay: only the replay can end it. *)
Replay == "REPLAY"

Market == "MARKET"
OptionChain == "OPTION_CHAIN"

ASSUME ReplayAssumption ==
  /\ {Market, OptionChain} \subseteq Types /\ Replay \notin Types
  /\ Inputs \subseteq [candles : Seq(Nat), optionChains : Seq(Nat)]
  /\ Times \subseteq Nat /\ MaxSubscribers \in Nat

Init == BusInit

-----------------------------------------------------------------------------
(* HistoricalDataLoaderService *)

Event(type, time) == [type |-> type, time |-> time]

LoadCandles(times) == [n \in DOMAIN times |-> Event(Market, times[n])]
LoadOptionChains(times) == [n \in DOMAIN times |-> Event(OptionChain, times[n])]

EventTypeOrder(type) == IF type = Market THEN 0 ELSE 1

Earlier(event, other) ==
  \/ event.time < other.time
  \/ /\ event.time = other.time
     /\ EventTypeOrder(event.type) < EventTypeOrder(other.type)

(* Mutation: the groups are joined and not sorted. *)
MergeOnly(merged) == merged

(* Stable: of equal events the one given first is first. *)
MergeAndSort(merged) ==
  LET N == DOMAIN merged
      Before(m, n) == \/ Earlier(merged[m], merged[n])
                      \/ ~Earlier(merged[n], merged[m]) /\ m < n
      order == CHOOSE f \in [N -> N] :
                 \A m, n \in N : m < n => f[m] # f[n] /\ Before(f[m], f[n])
  IN  [n \in N |-> merged[order[n]]]

-----------------------------------------------------------------------------
(* ReplayEngine *)

(* handled and skips serve the properties: the replay's own events that    *)
(* each subscriber has handled, and whether one may have been skipped.     *)
ReplayFrame(events, subscriptions) ==
  [kind |-> "replay", events |-> events, next |-> 1, failed |-> FALSE,
   subscriptions |-> subscriptions,
   handled |-> [entry \in subscriptions |-> <<>>], skips |-> FALSE]

Replaying == stack # <<>> /\ Top.kind = "replay"

StartReplay(input, subscribers) ==
  LET new == [n \in 1..subscribers |-> Len(entries) + n]
  IN  /\ CanCall
      /\ Len(stack) + 1 < MaxDepth
      /\ input.candles # <<>> \/ input.optionChains # <<>>
      /\ Len(entries) + subscribers <= MaxEntries
      /\ entries' = entries \o [n \in 1..subscribers |-> Replay]
      /\ globalHandlers' = PushedLast(globalHandlers, new)
      /\ stack' = Append(stack,
           ReplayFrame(MergeAndSort(LoadCandles(input.candles)
                                      \o LoadOptionChains(input.optionChains)),
                       ToSet(new)))
      /\ UNCHANGED <<typedHandlers, published>>

PublishNext ==
  /\ Replaying /\ ~Top.failed
  /\ Top.next <= Len(Top.events)
  /\ stack' = Append(WithTop([Top EXCEPT !.next = @ + 1]),
                     PublishFrame(Top.events[Top.next]))
  /\ UNCHANGED <<typedHandlers, globalHandlers, entries, published>>

(* Mutation: a replay that fails does not unsubscribe. *)
UnsubscribesOnSuccess(frame) == IF frame.failed THEN {} ELSE frame.subscriptions

Unsubscribes(frame) == frame.subscriptions

(* A loop further down the stack has its index moved by a removal, too. *)
FinishReplay ==
  LET gone == Unsubscribes(Top)
      Passed(frame) ==
        [frame EXCEPT !.skips = @ \/ \E entry \in gone : PassedBy(frame, entry)]
  IN  /\ Replaying /\ (Top.failed \/ Top.next > Len(Top.events))
      /\ globalHandlers' = Without(globalHandlers, gone)
      /\ stack' = Front(InPublishes(Passed))
      /\ UNCHANGED <<typedHandlers, entries, published>>

-----------------------------------------------------------------------------
(* What a replay has to do with the publishing of its events *)

OfReplay == Len(stack) > 1 /\ stack[Len(stack) - 1].kind = "replay"
Caller == stack[Len(stack) - 1]
WithCaller(caller) == Append(Front(Below), caller)

CallSubscriber(entry) ==
  IF OfReplay /\ entry \in Caller.subscriptions
  THEN /\ CallsGlobal(entry)
       /\ stack' = Append(
            WithCaller([Caller EXCEPT !.handled[entry] = Append(@, Top.event)]),
            CalledGlobal(entry))
       /\ UNCHANGED <<typedHandlers, globalHandlers, entries, published>>
  ELSE CallGlobal(entry)

Returns ==
  IF OfReplay
  THEN /\ PublishEnds
       /\ stack' = WithCaller([Caller EXCEPT !.skips = @ \/ Top.skips])
       /\ UNCHANGED <<typedHandlers, globalHandlers, entries, published>>
  ELSE PublishReturns

Throws ==
  IF OfReplay
  THEN /\ Publishing /\ Top.running
       /\ stack' = WithCaller([Caller EXCEPT !.failed = TRUE])
       /\ UNCHANGED <<typedHandlers, globalHandlers, entries, published>>
  ELSE HandlerThrows

-----------------------------------------------------------------------------

Next ==
  \/ \E type \in Types :
       \/ Subscribe(type)
       \/ \E time \in Times : Publish(Event(type, time))
  \/ SubscribeAll
  \/ \E entry \in DOMAIN entries :
       UnsubscribeTyped(entry) \/ UnsubscribeGlobal(entry)
  \/ Clear
  \/ CallTyped
  \/ \E entry \in DOMAIN entries : CallSubscriber(entry)
  \/ HandlerReturns
  \/ Returns
  \/ Throws
  \/ \E input \in Inputs, subscribers \in 1..MaxSubscribers :
       StartReplay(input, subscribers)
  \/ PublishNext
  \/ FinishReplay

Spec == Init /\ [][Next]_vars

-----------------------------------------------------------------------------
(* Properties *)

Replays == {i \in DOMAIN stack : stack[i].kind = "replay"}

(* Between two of its events a replay's subscribers have all handled the   *)
(* events published so far, and those in order of time with the candle     *)
(* first, whatever other events, replays and handlers came in between,     *)
(* unless a publish may have skipped one.                                  *)
ReplayedInOrder ==
  Replaying /\ ~Top.failed /\ ~Top.skips =>
    \A entry \in Top.subscriptions :
      LET handled == Top.handled[entry]
      IN  /\ handled = SubSeq(Top.events, 1, Top.next - 1)
          /\ \A m, n \in DOMAIN handled : m < n =>
               ~Earlier(handled[n], handled[m])

(* The subscriptions of replays that have ended, by an error too, are gone *)
(* from the bus.                                                           *)
ReplaysLeaveNoSubscription ==
  \A i \in DOMAIN globalHandlers :
    entries[globalHandlers[i]] = Replay =>
      \E k \in Replays : globalHandlers[i] \in stack[k].subscriptions

=============================================================================
