------------------------------ MODULE Effects ------------------------------
(***************************************************************************)
(* The fx queue of an element and the timers of its animations, as         *)
(* jquery.js runs them: animate() and delay() put an entry in the queue,   *)
(* dequeue() starts the next one behind an "inprogress" sentinel, a frame  *)
(* runs every timer, and the complete callback of a finished animation     *)
(* dequeues the next.  That callback is page code: it may throw, or call   *)
(* animate(), stop() and finish() in the middle of the loop that called    *)
(* it, so a call that is interrupted is one of `frames'.                    *)
(*                                                                         *)
(* How far an animation is, its easing and its CSS are left out: a tick    *)
(* ends any running animation or leaves it running.                        *)
(***************************************************************************)
EXTENDS Integers, Sequences, SequencesExt, FiniteSets

CONSTANTS Animated,     \* the animated elements
          MaxItems,     \* bound: animations and delays asked for
          MaxStops,     \* bound: calls of stop(), finish() and clearQueue()
          MaxFrames     \* bound: frame loops at once

VARIABLES
  queue,        \* queue[e]: the data "fxqueue", a sequence of items
  stopHook,     \* stopHook[e]: the delay that hooks.stop cancels, or 0
  unqueued,     \* unqueued[e]: hooks.unqueued
  finishing,    \* the elements whose data.finish is set
  items,        \* items[i]: [elem, kind, stage] of the i-th animation or delay
  timers,       \* jQuery.timers, a sequence of items
  delays,       \* the delays whose timeout is pending
  inProgress,   \* the effects' inProgress
  loops,        \* the frames requested and not yet run
  frames,       \* the calls that are interrupted, the innermost first
  stops,        \* calls of stop(), finish() and clearQueue() so far
  cut,          \* history: elements whose sentinel the page gave up
  lost          \* history: elements one of whose calls was given up half way

effectVars == <<queue, stopHook, unqueued, finishing, items, timers, delays,
                inProgress, loops, frames, stops, cut, lost>>

Sentinel == 0           \* the string "inprogress" in a queue
InQueue(i) == items[i].kind /= "unqueued"       \* opt.queue = "fx"

-----------------------------------------------------------------------------
(* What is going on. *)

ElemOf(i) == items[i].elem
Running(i) == items[i].stage = "running"
Started(e) == {i \in 1..Len(items) : ElemOf(i) = e /\ InQueue(i) /\ Running(i)}

\* Those that will end: their timeout is pending, or their timer is there.
Going(e) == {i \in Started(e) : i \in delays \/ Contains(timers, i)}

\* The completions of e's queued items that page code is running.
Completing(e) == {k \in 1..Len(frames) : /\ frames[k].op = "complete"
                                         /\ ElemOf(frames[k].item) = e
                                         /\ InQueue(frames[k].item)}

\* Page code runs: no script does, or a complete callback is the innermost.
In(op) == frames /= <<>> /\ Head(frames).op = op
PageCode == frames = <<>> \/ In("complete")
Outer == Tail(frames)

-----------------------------------------------------------------------------
(* The parts of the calls. *)

EffectsInit ==
  /\ queue = [e \in Animated |-> <<>>] /\ stopHook = [e \in Animated |-> 0]
  /\ unqueued = [e \in Animated |-> 0] /\ finishing = {}
  /\ items = <<>> /\ timers = <<>> /\ delays = {}
  /\ inProgress = FALSE /\ loops = 0
  /\ frames = <<>> /\ stops = 0 /\ cut = {} /\ lost = {}

CompleteFrame(i) == [op |-> "complete", item |-> i]
CreateFrame(i)   == [op |-> "create", item |-> i]
TickFrame(k)     == [op |-> "tick", at |-> k, item |-> 0]

\* fx.timer(): the timer joins jQuery.timers; when no frame loop runs,
\* fx.start() begins one, which ticks at once.
FxTimer(i, s) ==
  /\ timers' = Append(timers, i)
  /\ inProgress' = TRUE
  /\ IF inProgress
       THEN loops' = loops /\ frames' = s
       ELSE loops' = loops + 1 /\ frames' = <<TickFrame(1)>> \o s

\* Animation() prepares the tweens and starts the timer.  `its' are the items,
\* `s' the frames that doAnimation returns to.
Animation(i, its, s) ==
  /\ items' = [its EXCEPT ![i].stage = "running"]
  /\ FxTimer(i, <<CreateFrame(i)>> \o s)

\* dequeue() of the queue q of e: it drops the sentinel, and starts the next
\* entry behind a new one; a queue that ran dry fires hooks.empty, which
\* removes the queue and its hooks unless unqueued animations hold them.
\* `ds' are the delays still pending.
Dequeue(e, q, its, ds, s) ==
  LET todo == IF q /= <<>> /\ Head(q) = Sentinel THEN Tail(q) ELSE q
      next == Head(todo)
  IN IF todo = <<>>
       THEN /\ queue' = [queue EXCEPT ![e] = <<>>]
            /\ stopHook' = [stopHook EXCEPT ![e] = IF unqueued[e] = 0 THEN 0 ELSE @]
            /\ items' = its /\ delays' = ds /\ frames' = s
            /\ UNCHANGED <<timers, inProgress, loops>>
       ELSE /\ queue' = [queue EXCEPT ![e] = <<Sentinel>> \o Tail(todo)]
            /\ IF its[next].kind = "delay"
                 THEN /\ items' = [its EXCEPT ![next].stage = "running"]
                      /\ delays' = ds \cup {next}
                      /\ stopHook' = [stopHook EXCEPT ![e] = next]
                      /\ frames' = s /\ UNCHANGED <<timers, inProgress, loops>>
                 ELSE /\ stopHook' = [stopHook EXCEPT ![e] = 0]
                      /\ Animation(next, its, s) /\ delays' = ds

\* Mutant: the sentinel is not looked at.
QueueUnguarded(e, q, its) == Dequeue(e, q, its, delays, frames)

\* fn.queue(): an item joins the queue, which starts unless it is in progress.
Queue(e, q, its) ==
  IF q /= <<>> /\ Head(q) = Sentinel
    THEN /\ queue' = [queue EXCEPT ![e] = q] /\ items' = its
         /\ UNCHANGED <<stopHook, timers, delays, inProgress, loops, frames>>
    ELSE Dequeue(e, q, its, delays, frames)

-----------------------------------------------------------------------------
(* Page code. *)

CanAsk == PageCode /\ Len(items) < MaxItems /\ loops < MaxFrames
CanStop == PageCode /\ stops < MaxStops /\ loops < MaxFrames
Asked(e, kind) == Append(items, [elem |-> e, kind |-> kind, stage |-> "waiting"])
NewItem == Len(items) + 1

\* A page that empties a queue, or stops an element from its own complete
\* callback, gives up the sentinel: what is asked next does not wait, and the
\* old end dequeues once more.
CutsIn(e, busy) == cut' = IF busy \/ Completing(e) /= {} THEN cut \cup {e} ELSE cut

\* animate(props) and delay(time).
Ask(e, kind) ==
  /\ CanAsk
  /\ Queue(e, Append(queue[e], NewItem), Asked(e, kind))
  /\ UNCHANGED <<unqueued, finishing, stops, cut, lost>>

\* animate(props, {queue: false}): defaultPrefilter counts it in the hooks.
AskUnqueued(e) ==
  /\ CanAsk
  /\ Animation(NewItem, Asked(e, "unqueued"), frames)
  /\ unqueued' = [unqueued EXCEPT ![e] = @ + 1]
  /\ UNCHANGED <<queue, stopHook, finishing, delays, stops, cut, lost>>

\* animate({}): it starts past the queue, but its end dequeues.
AskEmpty(e) ==
  /\ CanAsk
  /\ Animation(NewItem, Asked(e, "empty"), frames)
  /\ CutsIn(e, TRUE)
  /\ UNCHANGED <<queue, stopHook, unqueued, finishing, delays, stops, lost>>

\* clearQueue(): an empty queue has no sentinel, so it is dequeued.
ClearQueue(e) ==
  /\ CanStop
  /\ Queue(e, <<>>, items)
  /\ CutsIn(e, queue[e] /= <<>>) /\ stops' = stops + 1
  /\ UNCHANGED <<unqueued, finishing, lost>>

\* stop(clear, gotoEnd): hooks.stop cancels a delay, and a loop (EachTimer)
\* goes through the timers from the last.  A clear comes first and takes the
\* hooks with it.
Stop(e, clear, gotoEnd) ==
  LET hook == IF clear /\ unqueued[e] = 0 THEN 0 ELSE stopHook[e] IN
  /\ CanStop
  /\ queue' = IF clear THEN [queue EXCEPT ![e] = <<>>] ELSE queue
  /\ stopHook' = [stopHook EXCEPT ![e] = 0]
  /\ delays' = delays \ {hook}
  /\ items' = IF hook \in delays THEN [items EXCEPT ![hook].stage = "rejected"] ELSE items
  /\ frames' = <<[op |-> "stop", elem |-> e, at |-> Len(timers), item |-> 0,
                  gotoEnd |-> gotoEnd, dequeue |-> TRUE,
                  owes |-> hook \in delays]>> \o frames
  /\ CutsIn(e, clear /\ queue[e] /= <<>>)
  /\ stops' = stops + 1
  /\ UNCHANGED <<unqueued, finishing, timers, inProgress, loops, lost>>

\* finish(): the queue is emptied, then its timers and its entries finished.
Finish(e) ==
  LET hook == stopHook[e] IN
  /\ CanStop
  /\ finishing' = finishing \cup {e}
  /\ queue' = [queue EXCEPT ![e] = <<>>]
  /\ delays' = delays \ {hook}
  /\ items' = IF hook \in delays THEN [items EXCEPT ![hook].stage = "rejected"] ELSE items
  /\ frames' = <<[op |-> "finish", elem |-> e, at |-> Len(timers), item |-> 0,
                  todo |-> queue[e]]>> \o frames
  /\ CutsIn(e, queue[e] /= <<>>) /\ stops' = stops + 1
  /\ UNCHANGED <<stopHook, unqueued, timers, inProgress, loops, lost>>

-----------------------------------------------------------------------------
(* Animations that end. *)

\* always(): an unqueued animation leaves the hooks, the last one takes them.
Ended(i) ==
  LET e == ElemOf(i) IN
  IF InQueue(i) THEN UNCHANGED <<unqueued, stopHook>>
  ELSE /\ unqueued' = [unqueued EXCEPT ![e] = @ - 1]
       /\ stopHook' = [stopHook EXCEPT
            ![e] = IF unqueued[e] = 1 /\ queue[e] = <<>> THEN 0 ELSE @]

Resolve(i, s) ==        \* resolveWith: the complete callback runs
  /\ items' = [items EXCEPT ![i].stage = "resolved"]
  /\ frames' = <<CompleteFrame(i)>> \o s
  /\ UNCHANGED <<unqueued, stopHook>>

Reject(i, s) ==         \* rejectWith: no callback of the page
  /\ items' = [items EXCEPT ![i].stage = "rejected"]
  /\ frames' = s
  /\ Ended(i)

\* The complete callback returns: opt.complete dequeues a queued animation.
CompleteReturns ==
  /\ In("complete")
  /\ LET i == Head(frames).item IN
     IF InQueue(i)
       THEN Dequeue(ElemOf(i), queue[ElemOf(i)], items, delays, Outer) /\ UNCHANGED unqueued
       ELSE Ended(i) /\ frames' = Outer
            /\ UNCHANGED <<queue, items, timers, delays, inProgress, loops>>
  /\ UNCHANGED <<finishing, stops, cut, lost>>

\* A throw leaves every interrupted call where it is.
GivenUp == {ElemOf(frames[k].item) : k \in {j \in 1..Len(frames) : frames[j].op = "complete"}}
             \cup {frames[k].elem : k \in {j \in 1..Len(frames) :
                                           frames[j].op \in {"stop", "finish"}}}
Throw ==
  /\ frames' = <<>> /\ lost' = lost \cup GivenUp
  /\ UNCHANGED <<queue, stopHook, unqueued, finishing, items, timers, delays,
                 inProgress, loops, stops, cut>>

CompleteThrows == In("complete") /\ Throw

\* doAnimation after Animation(): an empty animation, and any while the
\* element is finishing, goes to its end.
Created ==
  /\ In("create")
  /\ LET i == Head(frames).item IN
     IF Running(i) /\ (items[i].kind = "empty" \/ ElemOf(i) \in finishing)
       THEN Resolve(i, Outer)
       ELSE frames' = Outer /\ UNCHANGED <<items, unqueued, stopHook>>
  /\ UNCHANGED <<queue, finishing, timers, delays, inProgress, loops, stops, cut, lost>>

-----------------------------------------------------------------------------
(* The loops over jQuery.timers. *)

\* Mutant: whatever stands at the index is removed.
StillThereAnyway(f) == f.at <= Len(timers)

\* The timer that has just ended is at its index.
StillThere(f) == f.at <= Len(timers) /\ timers[f.at] = f.item

\* fx.tick(): the timer at `at' goes on, or ends and is removed when it is
\* still there; after the last one an empty list stops the frame loop.
Tick ==
  /\ In("tick")
  /\ LET f == Head(frames)
         t == timers[f.at]
         Goto(k, i) == <<[f EXCEPT !.at = k, !.item = i]>> \o Outer
     IN \/ /\ f.item = 0 /\ f.at > Len(timers)
           /\ inProgress' = (timers /= <<>>) /\ frames' = Outer
           /\ UNCHANGED <<items, timers, unqueued, stopHook>>
        \/ /\ f.item = 0 /\ f.at <= Len(timers) /\ Running(t) /\ items[t].kind /= "empty"
           /\ frames' = Goto(f.at + 1, 0)
           /\ UNCHANGED <<items, timers, inProgress, unqueued, stopHook>>
        \/ /\ f.item = 0 /\ f.at <= Len(timers)
           /\ IF Running(t) THEN Resolve(t, Goto(f.at, t))
              ELSE frames' = Goto(f.at, t) /\ UNCHANGED <<items, unqueued, stopHook>>
           /\ UNCHANGED <<timers, inProgress>>
        \/ /\ f.item /= 0
           /\ timers' = IF StillThere(f) THEN RemoveAt(timers, f.at) ELSE timers
           /\ frames' = Goto(IF StillThere(f) THEN f.at ELSE f.at + 1, 0)
           /\ UNCHANGED <<items, inProgress, unqueued, stopHook>>
  /\ UNCHANGED <<queue, finishing, delays, loops, stops, cut, lost>>

\* One timer in the loop of stop() and finish(): an animation of the element
\* goes to its end or is rejected, and then whatever stands at its index is
\* removed.
ToTheEnd(f) == f.op = "finish" \/ f.gotoEnd
Matches(f, i) == ElemOf(i) = f.elem /\ Running(i) /\ (f.op = "finish" => InQueue(i))

Spare(f) == IF f.op = "stop" THEN [f EXCEPT !.dequeue = FALSE] ELSE f

EachTimer ==
  /\ In("stop") \/ In("finish")
  /\ LET f == Head(frames)
         t == timers[f.at]
     IN /\ f.at > 0
        /\ IF f.item /= 0
             THEN LET victim == IF f.at > Len(timers) \/ t = f.item THEN {} ELSE {t} IN
                  /\ timers' = IF f.at > Len(timers) THEN timers ELSE RemoveAt(timers, f.at)
                  /\ frames' = <<[f EXCEPT !.at = @ - 1, !.item = 0]>> \o Outer
                  /\ lost' = lost \cup {ElemOf(i) : i \in victim}
                  /\ UNCHANGED <<items, unqueued, stopHook>>
             ELSE /\ f.at <= Len(timers)
                  /\ UNCHANGED <<timers, lost>>
                  /\ IF Matches(f, t)
                       THEN LET g == <<[Spare(f) EXCEPT !.item = t]>> \o Outer IN
                            IF ToTheEnd(f) THEN Resolve(t, g) ELSE Reject(t, g)
                       ELSE /\ frames' = <<[f EXCEPT !.at = @ - 1]>> \o Outer
                            /\ UNCHANGED <<items, unqueued, stopHook>>
  /\ UNCHANGED <<queue, finishing, delays, inProgress, loops, stops, cut>>

\* The callbacks shortened the list below the index: a TypeError.
TimerMissing ==
  /\ In("stop") \/ In("finish")
  /\ Head(frames).item = 0 /\ Head(frames).at > Len(timers)
  /\ Throw

\* It dequeues unless forced animations did.
Dequeues(f) == f.dequeue \/ ~ f.gotoEnd

\* The end of stop().
StopReturns ==
  /\ In("stop") /\ Head(frames).at = 0
  /\ LET f == Head(frames) IN
     IF Dequeues(f)
       THEN Dequeue(f.elem, queue[f.elem], items, delays, Outer) /\ UNCHANGED lost
       ELSE /\ lost' = IF f.owes THEN lost \cup {f.elem} ELSE lost
            /\ frames' = Outer
            /\ UNCHANGED <<queue, stopHook, items, timers, delays, inProgress, loops>>
  /\ UNCHANGED <<unqueued, finishing, stops, cut>>

\* The rest of finish(): the animations of the old queue, started to be ended.
FinishQueue ==
  /\ In("finish") /\ Head(frames).at = 0
  /\ LET f == Head(frames)
         g == <<[f EXCEPT !.todo = Tail(@)]>> \o Outer
     IN IF f.todo = <<>>
          THEN /\ finishing' = finishing \ {f.elem} /\ frames' = Outer
               /\ UNCHANGED <<items, timers, inProgress, loops>>
          ELSE /\ UNCHANGED finishing
               /\ IF Head(f.todo) /= Sentinel /\ items[Head(f.todo)].kind /= "delay"
                    THEN Animation(Head(f.todo), items, g)
                    ELSE frames' = g /\ UNCHANGED <<items, timers, inProgress, loops>>
  /\ UNCHANGED <<queue, stopHook, unqueued, delays, stops, cut, lost>>

-----------------------------------------------------------------------------
(* The browser. *)

\* A requested frame: schedule() asks for the next one and ticks, or ends.
Frame ==
  /\ frames = <<>> /\ loops > 0
  /\ IF inProgress THEN loops' = loops /\ frames' = <<TickFrame(1)>>
                   ELSE loops' = loops - 1 /\ frames' = <<>>
  /\ UNCHANGED <<queue, stopHook, unqueued, finishing, items, timers, delays,
                 inProgress, stops, cut, lost>>

\* The timeout of a delay: next() dequeues.
DelayEnds(i) ==
  /\ frames = <<>> /\ i \in delays
  /\ Dequeue(ElemOf(i), queue[ElemOf(i)], [items EXCEPT ![i].stage = "resolved"],
             delays \ {i}, <<>>)
  /\ UNCHANGED <<unqueued, finishing, stops, cut, lost>>

EffectsNext ==
  \/ \E e \in Animated : \/ \E kind \in {"animation", "delay"} : Ask(e, kind)
                         \/ AskUnqueued(e) \/ AskEmpty(e)
                         \/ ClearQueue(e) \/ Finish(e)
                         \/ \E clear, gotoEnd \in BOOLEAN : Stop(e, clear, gotoEnd)
  \/ CompleteReturns \/ CompleteThrows \/ Created
  \/ Tick \/ EachTimer \/ TimerMissing \/ StopReturns \/ FinishQueue
  \/ Frame \/ \E i \in delays : DelayEnds(i)

EffectsSpec == EffectsInit /\ [][EffectsNext]_effectVars

-----------------------------------------------------------------------------
(* Properties. *)

\* One queued animation or delay of an element is on its way at a time, its
\* complete callback included, unless the page gave up the sentinel itself.
\* An animation whose timer stop() removed in another's place is not: it stays
\* where it is, while a later stop() of its element starts the next.
OneAtATime ==
  \A e \in Animated \ cut : Cardinality(Going(e)) + Cardinality(Completing(e)) <= 1

\* A queue that is not empty advances: something of its element is in progress
\* that will dequeue.  Only a throw, a timer that stop() removed in another's
\* place, or a delay cancelled without a dequeue gives it up (`lost').
NeverStalls ==
  \A e \in Animated \ lost :
    queue[e] /= <<>> => \/ Started(e) /= {} \/ Completing(e) /= {}
                        \/ \E k \in 1..Len(frames) : /\ frames[k].op = "stop"
                                                     /\ frames[k].elem = e

\* Both: while a queue is not empty, one of its items is in progress, and no
\* more than one at any time.
OneInProgress == OneAtATime /\ NeverStalls

\* Whatever callbacks do to the list in the middle of a loop, an animation
\* that is not over keeps its timer, and a frame is asked for while there are
\* timers.
TimersRun ==
  /\ frames = <<>> /\ timers /= <<>> => inProgress /\ loops > 0
  /\ \A i \in 1..Len(items) :
       Running(i) /\ ElemOf(i) \notin lost => i \in delays \/ Contains(timers, i)
=============================================================================
