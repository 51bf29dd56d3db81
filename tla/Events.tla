--------------------------------- MODULE Events ---------------------------------
(***************************************************************************)
(* jQuery's events of one type ("click") on an element and the root it is  *)
(* in: on, one and off, the dispatch of a browser event, trigger() with    *)
(* the native default action that fires the event again, triggerHandler(). *)
(* A handler may use all of these while it runs.                           *)
(*                                                                         *)
(* The stack holds, from the bottom, what the browser and jQuery are doing:*)
(* a "native" event on its way up, a trigger(), and the dispatch of an     *)
(* event on one element, which calls the handlers it found at its start.   *)
(***************************************************************************)
EXTENDS Lists

Seqs == INSTANCE SequencesExt

CONSTANTS
  HandlerFns,  \* functions that may be bound
  MaxUses      \* bound on the calls of scripts and the clicks of the visitor

Path == [target |-> <<"target", "root">>, root |-> <<"root">>]
Elements == DOMAIN Path

VARIABLES
  handlers,       \* per element: its handlers, delegates in front
  delegateCount,  \* per element: how many are delegates
  listening,      \* per element: the native listener is attached
  triggered,      \* jQuery.event.triggered is set
  event,          \* per event: [stopped, immediate, prevented]
  doing,          \* the stack
  uses,           \* number of calls so far; names handlers
  ran,            \* history: handlers that ran: <<event, element, handler>>
  nested,         \* history: an event was triggered in a default action
  overlap         \* history: an element was dispatching already at a dispatch

eventVars == <<handlers, delegateCount, listening, triggered, event, doing, uses,
               ran, nested, overlap>>

EventsInit ==
  /\ handlers = [x \in Elements |-> << >>]
  /\ delegateCount = [x \in Elements |-> 0]
  /\ listening = [x \in Elements |-> FALSE]
  /\ triggered = FALSE
  /\ event = << >>
  /\ doing = << >>
  /\ uses = 0
  /\ ran = << >>
  /\ nested = FALSE
  /\ overlap = FALSE

-----------------------------------------------------------------------------
Depth == Len(doing)
Doing(what) == doing # << >> /\ doing[Depth].what = what
Rest == SubSeq(doing, 1, Depth - 1)

\* A script runs: at the top level, in a handler, or in what the native method
\* of a trigger() calls (listeners of others, events it fires).
ScriptRuns ==
  \/ doing = << >>
  \/ Doing("dispatch") /\ doing[Depth].calling
  \/ Doing("native") /\ doing[Depth].again

Uses == ScriptRuns /\ uses < MaxUses /\ uses' = uses + 1

\* What on() and one() make of a function for event.add.
Bound(f, one, delegate) == [fn |-> f, id |-> uses + 1, one |-> one, delegate |-> delegate]

\* Mutant: a delegate goes to the end as well.
InsertedLast(x, h) == Append(handlers[x], h)

\* A delegate goes behind the delegates, a direct handler to the end.
Inserted(x, h) ==
  IF h.delegate THEN Seqs!InsertAt(handlers[x], delegateCount[x] + 1, h)
  ELSE Append(handlers[x], h)

\* event.add: the first handler of an element attaches the listener.
On ==
  /\ Uses
  /\ \E x \in Elements, f \in HandlerFns, one, delegate \in BOOLEAN :
       LET h == Bound(f, one, delegate)
       IN /\ delegate => x = "root"
          /\ handlers' = [handlers EXCEPT ![x] = Inserted(x, h)]
          /\ delegateCount' = [delegateCount EXCEPT ![x] = IF delegate THEN @ + 1 ELSE @]
          /\ listening' = [listening EXCEPT ![x] = TRUE]
  /\ UNCHANGED <<triggered, event, doing, ran, nested, overlap>>

Delegates(x) == {i \in DOMAIN handlers[x] : handlers[x][i].delegate}
OfFn(x, f) == {i \in DOMAIN handlers[x] : handlers[x][i].fn = f}

\* event.remove: the handlers of x at the indexes in gone; the last takes the
\* listener with it.
RemoveHandlers(x, gone) ==
  LET left == Kept(handlers[x], DOMAIN handlers[x] \ gone)
  IN /\ handlers' = [handlers EXCEPT ![x] = left]
     /\ delegateCount' = [delegateCount EXCEPT ![x] = @ - Cardinality(gone \cap Delegates(x))]
     /\ listening' = [listening EXCEPT ![x] = @ /\ left # << >>]

\* off(type), off(type, fn) and undelegate (selector "**").
Off ==
  /\ Uses
  /\ \E x \in Elements :
       \/ RemoveHandlers(x, DOMAIN handlers[x])
       \/ \E f \in HandlerFns : RemoveHandlers(x, OfFn(x, f))
       \/ RemoveHandlers(x, Delegates(x))
  /\ UNCHANGED <<triggered, event, doing, ran, nested, overlap>>

NewEvent == Append(event, [stopped |-> FALSE, immediate |-> FALSE, prevented |-> FALSE])

\* trigger() and, with one element and no default action, triggerHandler().
Trigger ==
  /\ Uses
  /\ \E x \in Elements, only \in BOOLEAN :
       doing' = Append(doing, [what |-> "trigger", e |-> Len(event) + 1, of |-> Len(event) + 1,
                               only |-> only, x |-> x,
                               path |-> IF only THEN <<x>> ELSE Path[x]])
  /\ event' = NewEvent
  /\ nested' = (nested \/ triggered)
  /\ UNCHANGED <<handlers, delegateCount, listening, triggered, ran, overlap>>

\* The visitor clicks.
Click ==
  /\ doing = << >> /\ uses < MaxUses /\ uses' = uses + 1
  /\ doing' = <<[what |-> "native", e |-> Len(event) + 1, of |-> Len(event) + 1, x |-> "target",
                path |-> Path["target"], again |-> FALSE]>>
  /\ event' = NewEvent
  /\ UNCHANGED <<handlers, delegateCount, listening, triggered, ran, nested, overlap>>

\* stopPropagation, stopImmediatePropagation and preventDefault in a handler.
StopEvent ==
  /\ Uses /\ Doing("dispatch")
  /\ LET e == doing[Depth].e
     IN \/ event' = [event EXCEPT ![e].stopped = TRUE]
        \/ event' = [event EXCEPT ![e].stopped = TRUE, ![e].immediate = TRUE]
        \/ event' = [event EXCEPT ![e].prevented = TRUE]
  /\ UNCHANGED <<handlers, delegateCount, listening, triggered, doing, ran, nested, overlap>>

-----------------------------------------------------------------------------
Climb == Doing("native") \/ Doing("trigger")
Climbing == doing[Depth]
AtTheTop == Climbing.path = << >> \/ event[Climbing.e].stopped

\* event.handlers: a copy of the list at the start of the dispatch.  Delegates
\* are for what is below the element.
HandlerQueue(x, target) ==
  Kept(handlers[x], IF target = x THEN DOMAIN handlers[x] \ Delegates(x) ELSE DOMAIN handlers[x])

\* The event reaches the next element: its listener dispatches it, unless it
\* is the event that the native method of a trigger() fires once more.
Reach ==
  /\ Climb /\ ~ AtTheTop
  /\ LET x == Head(Climbing.path)
         moved == [doing EXCEPT ![Depth].path = Tail(@)]
     IN IF listening[x] /\ ~ triggered
        THEN /\ doing' = Append(moved, [what |-> "dispatch", e |-> Climbing.e, of |-> Climbing.of,
                                        x |-> x, queue |-> HandlerQueue(x, Climbing.x),
                                        last |-> 0, calling |-> FALSE])
             /\ overlap' = (overlap \/ \E i \in DOMAIN doing :
                                         doing[i].what = "dispatch" /\ doing[i].x = x)
        ELSE doing' = moved /\ UNCHANGED overlap
  /\ UNCHANGED <<handlers, delegateCount, listening, triggered, event, uses, ran, nested>>

\* The next handler of a dispatch: within the delegates, or within the direct
\* handlers, only stopImmediatePropagation counts.
NextHandler(d) == d.queue[d.last + 1]
Callable(d) ==
  /\ d.last < Len(d.queue)
  /\ ~ event[d.e].immediate
  /\ event[d.e].stopped => d.last > 0 /\ d.queue[d.last].delegate = NextHandler(d).delegate

\* A handler bound by one() first takes off every handler that has its
\* function (and is a delegate, if it is one), then runs.
CallHandler ==
  /\ Doing("dispatch") /\ ~ doing[Depth].calling /\ Callable(doing[Depth])
  /\ LET d == doing[Depth]
         h == NextHandler(d)
     IN /\ doing' = [doing EXCEPT ![Depth].last = @ + 1, ![Depth].calling = TRUE]
        /\ ran' = Append(ran, <<d.of, d.x, h.id, h.one>>)
        /\ IF h.one
           THEN RemoveHandlers(d.x, IF h.delegate THEN OfFn(d.x, h.fn) \cap Delegates(d.x)
                                   ELSE OfFn(d.x, h.fn))
           ELSE UNCHANGED <<handlers, delegateCount, listening>>
  /\ UNCHANGED <<triggered, event, uses, nested, overlap>>

\* A handler that returns false prevents the default and stops the event.
HandlerReturns ==
  /\ Doing("dispatch") /\ doing[Depth].calling
  /\ doing' = [doing EXCEPT ![Depth].calling = FALSE]
  /\ event' \in {event, [event EXCEPT ![doing[Depth].e].stopped = TRUE,
                                      ![doing[Depth].e].prevented = TRUE]}
  /\ UNCHANGED <<handlers, delegateCount, listening, triggered, uses, ran, nested, overlap>>

\* The browser reports what a listener throws and goes on; trigger() is left.
HandlerThrows ==
  /\ Doing("dispatch") /\ doing[Depth].calling
  /\ doing' = IF doing[Depth - 1].what = "native" THEN Rest ELSE SubSeq(doing, 1, Depth - 2)
  /\ UNCHANGED <<handlers, delegateCount, listening, triggered, event, uses, ran, nested, overlap>>

EndDispatch ==
  /\ Doing("dispatch") /\ ~ doing[Depth].calling /\ ~ Callable(doing[Depth])
  /\ doing' = Rest
  /\ UNCHANGED <<handlers, delegateCount, listening, triggered, event, uses, ran, nested, overlap>>

\* Unless it is prevented, the default action of a trigger() is the method of
\* the element, which fires the event natively; handlers have seen it.
DefaultAction ==
  /\ Doing("trigger") /\ AtTheTop
  /\ ~ Climbing.only /\ ~ event[Climbing.e].prevented
  /\ triggered' = TRUE
  /\ doing' = Append([doing EXCEPT ![Depth].only = TRUE],
                [what |-> "native", e |-> Len(event) + 1, of |-> Climbing.of, x |-> Climbing.x,
                 path |-> Path[Climbing.x], again |-> TRUE])
  /\ event' = NewEvent
  /\ UNCHANGED <<handlers, delegateCount, listening, uses, ran, nested, overlap>>

EndTrigger ==
  /\ Doing("trigger") /\ AtTheTop
  /\ doing' = Rest
  /\ UNCHANGED <<handlers, delegateCount, listening, triggered, event, uses, ran, nested, overlap>>

EndNative ==
  /\ Doing("native") /\ AtTheTop
  /\ doing' = Rest
  /\ triggered' = (triggered /\ ~ Climbing.again)
  /\ UNCHANGED <<handlers, delegateCount, listening, event, uses, ran, nested, overlap>>

EventsNext ==
  \/ On \/ Off \/ Trigger \/ Click \/ StopEvent
  \/ Reach \/ CallHandler \/ HandlerReturns \/ HandlerThrows \/ EndDispatch
  \/ DefaultAction \/ EndTrigger \/ EndNative

EventsSpec == EventsInit /\ [][EventsNext]_eventVars

-----------------------------------------------------------------------------
\* The handlers of an element are its delegates and then the direct ones, and
\* the browser calls the element exactly while it has handlers, whatever is
\* bound and taken off, also by a handler that is being dispatched.
HandlersInOrder ==
  \A x \in Elements :
    /\ \A i \in DOMAIN handlers[x] : handlers[x][i].delegate <=> i <= delegateCount[x]
    /\ listening[x] <=> handlers[x] # << >>

\* A handler sees an event once, although trigger() calls the handlers itself
\* and then has the browser fire the event again.  (An event triggered inside
\* that native method ends the suppression too early.)
SeenOnce ==
  ~ nested => \A i, j \in DOMAIN ran : ran[i] = ran[j] => i = j

\* A handler bound by one() runs once.  (Unless a handler before it in the
\* same dispatch fires the event on the same element again.)
OneRunsOnce ==
  ~ overlap => \A i, j \in DOMAIN ran : ran[i][4] /\ ran[i][3] = ran[j][3] => i = j

\* All three: the right handlers run, as often as they should.
HandlersRunRight == HandlersInOrder /\ SeenOnce /\ OneRunsOnce

=============================================================================
