------------------------------ MODULE EventBus ------------------------------
(***************************************************************************)
(* in-memory-event-bus.ts of src/src/backtest/engine: handlers subscribed  *)
(* to one type of event or to all.  publish calls the handlers one after   *)
(* the other, and a handler may itself subscribe, unsubscribe, publish,    *)
(* clear the bus or throw before it returns.  Everything is synchronous,   *)
(* so what is under way is a stack.                                        *)
(*                                                                         *)
(* Both loops of publish run over the arrays themselves: the array of all  *)
(* global handlers, and the array that held the handlers of the type when  *)
(* publish began.  unsubscribe removes a global handler from its array in  *)
(* place but puts a new array where a typed handler was.                   *)
(***************************************************************************)
EXTENDS Naturals, FiniteSets, SequencesExt

CONSTANTS
  Types,        \* BacktestEventType
  MaxEntries,   \* bound: subscriptions ever made
  MaxDepth,     \* bound: calls inside calls
  MaxPublished  \* bound: events published by handlers and clients

VARIABLES
  typedHandlers,    \* type -> sequence of entries
  globalHandlers,   \* sequence of entries
  entries,          \* what each entry, by number, is subscribed to
  stack,            \* frames of publish, and of what calls it
  published         \* events published, but for those of a replay

busVars == <<typedHandlers, globalHandlers, entries, stack, published>>

All == "ALL"

ASSUME TypesAssumption == All \notin Types

BusInit ==
  /\ typedHandlers = [type \in Types |-> <<>>]
  /\ globalHandlers = <<>>
  /\ entries = <<>>
  /\ stack = <<>>
  /\ published = 0

-----------------------------------------------------------------------------
(* Frames *)

(* typed is the array being looped over; live says that it still is the    *)
(* one in typedHandlers.  due and skips serve the properties: who was      *)
(* subscribed at the start, and whether the loop's index has been passed   *)
(* by a removal since.                                                     *)
PublishFrame(event) ==
  [kind |-> "publish", event |-> event,
   typed |-> typedHandlers[event.type], live |-> TRUE,
   typedPosition |-> 0, globalPosition |-> 0, running |-> FALSE,
   called |-> <<>>,
   due |-> ToSet(typedHandlers[event.type]) \cup ToSet(globalHandlers),
   skips |-> FALSE]

Top == stack[Len(stack)]
Below == Front(stack)
WithTop(frame) == Append(Below, frame)

Publishing == stack # <<>> /\ Top.kind = "publish"

(* The client's code runs, or a handler's. *)
CanCall == stack = <<>> \/ (Publishing /\ Top.running)

(* Every frame of publish changed by F. *)
InPublishes(F(_)) ==
  [i \in DOMAIN stack |-> IF stack[i].kind = "publish" THEN F(stack[i])
                                                       ELSE stack[i]]

-----------------------------------------------------------------------------
(* subscribe, subscribeAll, unsubscribe, clear *)

NewEntry == Len(entries) + 1

Subscribe(type) ==
  LET Push(frame) == IF frame.live /\ frame.event.type = type
                     THEN [frame EXCEPT !.typed = Append(@, NewEntry)]
                     ELSE frame
  IN  /\ CanCall
      /\ Len(entries) < MaxEntries
      /\ entries' = Append(entries, type)
      /\ typedHandlers' = [typedHandlers EXCEPT ![type] = Append(@, NewEntry)]
      /\ stack' = InPublishes(Push)
      /\ UNCHANGED <<globalHandlers, published>>

(* Mutation: new global handlers go in front. *)
PushedFirst(handlers, new) == new \o handlers

PushedLast(handlers, new) == handlers \o new

SubscribeAll ==
  /\ CanCall
  /\ Len(entries) < MaxEntries
  /\ entries' = Append(entries, All)
  /\ globalHandlers' = PushedLast(globalHandlers, <<NewEntry>>)
  /\ UNCHANGED <<typedHandlers, stack, published>>

(* The handlers but for those gone, in their order. *)
Without(handlers, gone) ==
  LET kept[n \in 0..Len(handlers)] ==
        IF n = 0 THEN <<>>
        ELSE IF handlers[n] \in gone THEN kept[n - 1]
             ELSE Append(kept[n - 1], handlers[n])
  IN  kept[Len(handlers)]

(* Mutation: the typed array is spliced as the global one is. *)
SplicedTyped(frame, entry) == [frame EXCEPT !.typed = Without(@, {entry})]

(* The loop goes on over the old array. *)
FilteredTyped(frame, entry) == [frame EXCEPT !.live = FALSE]

UnsubscribeTyped(entry) ==
  LET type == entries[entry]
      Filter(frame) == IF frame.live /\ frame.event.type = type
                       THEN FilteredTyped(frame, entry) ELSE frame
  IN  /\ CanCall
      /\ type \in Types
      /\ typedHandlers' = [typedHandlers EXCEPT ![type] = Without(@, {entry})]
      /\ stack' = InPublishes(Filter)
      /\ UNCHANGED <<globalHandlers, entries, published>>

(* The index of a loop that has come to entry or past it now is one behind *)
(* the handlers, and the next one is not called.                           *)
PassedBy(frame, entry) ==
  \E i \in 1..frame.globalPosition :
    i \in DOMAIN globalHandlers /\ globalHandlers[i] = entry

UnsubscribeGlobal(entry) ==
  LET Passed(frame) == [frame EXCEPT !.skips = @ \/ PassedBy(frame, entry)]
  IN  /\ CanCall
      /\ entries[entry] = All
      /\ globalHandlers' = Without(globalHandlers, {entry})
      /\ stack' = InPublishes(Passed)
      /\ UNCHANGED <<typedHandlers, entries, published>>

Clear ==
  LET Cleared(frame) == [frame EXCEPT !.live = FALSE, !.skips = TRUE]
  IN  /\ CanCall
      /\ typedHandlers' = [type \in Types |-> <<>>]
      /\ globalHandlers' = <<>>
      /\ stack' = InPublishes(Cleared)
      /\ UNCHANGED <<entries, published>>

-----------------------------------------------------------------------------
(* publish *)

Publish(event) ==
  /\ CanCall
  /\ Len(stack) < MaxDepth
  /\ published < MaxPublished
  /\ published' = published + 1
  /\ stack' = Append(stack, PublishFrame(event))
  /\ UNCHANGED <<typedHandlers, globalHandlers, entries>>

Looping == Publishing /\ ~Top.running

(* The first loop has ended, which it does for good. *)
TypedDone(frame) ==
  frame.globalPosition > 0 \/ frame.typedPosition >= Len(frame.typed)

CallTyped ==
  /\ Looping /\ ~TypedDone(Top)
  /\ LET next == Top.typedPosition + 1
     IN  stack' = WithTop([Top EXCEPT !.typedPosition = next, !.running = TRUE,
                                      !.called = Append(@, Top.typed[next])])
  /\ UNCHANGED <<typedHandlers, globalHandlers, entries, published>>

CallsGlobal(entry) ==
  /\ Looping /\ TypedDone(Top)
  /\ Top.globalPosition < Len(globalHandlers)
  /\ globalHandlers[Top.globalPosition + 1] = entry

CalledGlobal(entry) ==
  [Top EXCEPT !.globalPosition = @ + 1, !.running = TRUE,
              !.called = Append(@, entry)]

CallGlobal(entry) ==
  /\ CallsGlobal(entry)
  /\ stack' = WithTop(CalledGlobal(entry))
  /\ UNCHANGED <<typedHandlers, globalHandlers, entries, published>>

HandlerReturns ==
  /\ Publishing /\ Top.running
  /\ stack' = WithTop([Top EXCEPT !.running = FALSE])
  /\ UNCHANGED <<typedHandlers, globalHandlers, entries, published>>

PublishEnds ==
  Looping /\ TypedDone(Top) /\ Top.globalPosition >= Len(globalHandlers)

PublishReturns ==
  /\ PublishEnds
  /\ stack' = Below
  /\ UNCHANGED <<typedHandlers, globalHandlers, entries, published>>

(* The error ends publish; the handler that called it, if one did, goes on *)
(* or throws in its turn.                                                  *)
HandlerThrows ==
  /\ Publishing /\ Top.running
  /\ stack' = Below
  /\ UNCHANGED <<typedHandlers, globalHandlers, entries, published>>

-----------------------------------------------------------------------------
(* Properties *)

Publishes == {i \in DOMAIN stack : stack[i].kind = "publish"}

(* Whatever handlers do, one publish calls a subscription at most once,    *)
(* those of the type before those of all types, each in the order of       *)
(* subscription.                                                           *)
CalledOnceInOrder ==
  \A k \in Publishes : LET called == stack[k].called IN
    \A i, j \in DOMAIN called : i < j =>
      LET typed(n) == entries[called[n]] \in Types
      IN  IF typed(i) = typed(j) THEN called[i] < called[j] ELSE typed(i)

(* When publish ends, it has called everyone who was subscribed when it    *)
(* began and still is, whatever handlers did meanwhile.  A global handler  *)
(* may be missed, but only when one that the loop had come to was removed. *)
SubscribedAreCalled ==
  PublishEnds =>
    \A entry \in Top.due :
      \/ entry \in ToSet(Top.called)
      \/ entry \notin ToSet(typedHandlers[Top.event.type]) \cup ToSet(globalHandlers)
      \/ entries[entry] \notin Types /\ Top.skips

=============================================================================
