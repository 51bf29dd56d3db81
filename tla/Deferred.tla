-------------------------------- MODULE Deferred --------------------------------
(***************************************************************************)
(* jQuery.Deferred: promises, then() and when().                           *)
(* A deferred has three callback lists (operations of Callbacks)           *)
(* that a script may use at any time, also inside a callback; the handlers *)
(* of then() run from timers, in the order the timers were set.            *)
(*                                                                         *)
(* Firing done (fail) first runs jQuery's own callbacks: the state is set, *)
(* the other list disabled, progress locked and the handlers' list fired,  *)
(* which sets a timer per then().  None of them runs a script, so that     *)
(* they are one step with the fire; the lists hold the rest.  A returned   *)
(* thenable is foreign code that may call the functions it was given at    *)
(* any time, any number of times; a promise of jQuery's is one of those.   *)
(***************************************************************************)
EXTENDS Callbacks

CONSTANTS
  Roots,     \* deferreds created by scripts
  Children,  \* promises then() returns
  Master,    \* the promise when(...) of all the roots returns
  MaxCalls,     \* bound on the calls of scripts
  MaxAdoptions  \* bound on the thenables a promise adopts

ASSUME DeferredsAssumption ==
  /\ IsFiniteSet(Roots) /\ Roots \cap Children = {}
  /\ Master \notin Roots \cup Children
ASSUME CallsAssumption == MaxCalls \in Nat /\ MaxAdoptions \in Nat

Deferreds == Roots \cup Children \cup {Master}

Kinds == {"progress", "done", "fail"}
FinalKinds == {"done", "fail"}
StateOf(k) == [done |-> "resolved", fail |-> "rejected"][k]

\* when() has not been called.
NotCalled == -1

VARIABLES
  state,     \* per deferred: "pending", "resolved" or "rejected"
  lists,     \* per deferred and kind: the callback list
  parent,    \* per promise of a then(): whose it is, itself: not created
  handled,   \* per promise of a then(): the kinds it has handlers for
  kids,      \* per deferred: the handlers' lists, promises in order
  told,      \* per deferred: memory of its progress handlers
  maxDepth,  \* per promise of a then(): thenables adopted
  hooks,     \* functions handed to thenables: [child, depth, special]
  remaining, \* when(): subordinates to wait for
  timers,    \* timers set by handlers' lists, in order
  stack,     \* frames of fires, handlers and adoptions
  calls,     \* number of calls of scripts so far, names values and callbacks
  asked,     \* history: callbacks registered
  answers    \* history: callbacks called

treeVars == <<parent, handled>>
deferredVars == <<state, lists, parent, handled, kids, told, maxDepth, hooks,
                  remaining, timers, stack, calls, asked, answers>>

DeferredInit ==
  /\ state = [d \in Deferreds |-> "pending"]
  /\ lists = [d \in Deferreds |->
       [k \in Kinds |-> NewList(IF k = "progress" THEN {"memory"} ELSE {"once", "memory"})]]
  /\ parent = [c \in Children |-> c]
  /\ handled = [c \in Children |-> {}]
  /\ kids = [d \in Deferreds |-> << >>]
  /\ told = [d \in Deferreds |-> NoValue]
  /\ maxDepth = [c \in Children |-> 0]
  /\ hooks = {}
  /\ remaining = NotCalled
  /\ timers = << >>
  /\ stack = << >>
  /\ calls = 0
  /\ asked = {}
  /\ answers = << >>

-----------------------------------------------------------------------------
TopFrame == stack[Len(stack)]
LeftFrames == SubSeq(stack, 1, Len(stack) - 1)

\* A frame in which no script runs: a fire between two callbacks.
BetweenCallbacks == stack # << >> /\ TopFrame.at = "fire" /\ ~ TopFrame.calling

FireFrame(d, k) == [at |-> "fire", d |-> d, k |-> k, calling |-> FALSE]

\* Mutant: a then() without a handler for the kind is passed over.
TimersForHandlers(d, k, v) ==
  LET those == SelectSeq(kids[d], LAMBDA c : k \in handled[c])
  IN [i \in DOMAIN those |-> [child |-> those[i], k |-> k, value |-> v]]

\* The handlers of every then() are called from timers of their own.
TimersFor(d, k, v) ==
  [i \in DOMAIN kids[d] |-> [child |-> kids[d][i], k |-> k, value |-> v]]

Now == [lists |-> lists, stack |-> stack, timers |-> timers]

\* resolveWith, rejectWith and notifyWith of d; now is what the caller leaves.
DeferredFire(now, d, k, v) ==
  LET l == now.lists[d][k]
      fired == FireWith(l, v)
      starts == ~ l.locked /\ ~ l.firing
      final == starts /\ k \in FinalKinds
  IN /\ stack' = IF starts THEN Append(now.stack, FireFrame(d, k)) ELSE now.stack
     /\ lists' = IF final
                 THEN [now.lists EXCEPT ![d] = [x \in Kinds |->
                        IF x = k THEN fired
                        ELSE IF x = "progress" THEN LockList(@[x]) ELSE DisableList(@[x])]]
                 ELSE [now.lists EXCEPT ![d][k] = fired]
     /\ state' = IF final THEN [state EXCEPT ![d] = StateOf(k)] ELSE state
     /\ told' = IF starts /\ ~ final THEN [told EXCEPT ![d] = v] ELSE told
     /\ timers' = IF starts THEN now.timers \o TimersFor(d, k, v) ELSE now.timers

\* A script runs: at the top level, or in the frame on top of the stack.
Calls ==
  /\ ~ BetweenCallbacks
  /\ calls < MaxCalls
  /\ calls' = calls + 1

Created ==
  Roots \cup {c \in Children : parent[c] # c}
        \cup (IF remaining = NotCalled THEN {} ELSE {Master})

FireRoot ==
  /\ Calls
  /\ \E d \in Roots, k \in Kinds : DeferredFire(Now, d, k, calls + 1)
  /\ UNCHANGED <<treeVars, kids, maxDepth, hooks, remaining, asked, answers>>

\* done, fail and progress; an always() is a done and a fail.
AddCallback ==
  /\ Calls
  /\ \E d \in Created, k \in Kinds :
       LET e == [fn |-> "script", id |-> calls + 1]
           added == AddTo(lists[d][k], e)
       IN /\ lists' = [lists EXCEPT ![d][k] = added]
          /\ stack' = IF added.firing /\ ~ lists[d][k].firing
                      THEN Append(stack, FireFrame(d, k)) ELSE stack
          /\ asked' = IF k \in FinalKinds
                      THEN asked \cup {<<d, StateOf(k), e.id>>} ELSE asked
  /\ UNCHANGED <<treeVars, kids, state, told, maxDepth, hooks, remaining, timers,
                 answers>>

\* then(): the handlers join their lists; those that have fired set a timer.
\* pipe() differs in calling the handler inside the fire.
Then ==
  /\ Calls
  /\ \E d \in Created, hs \in {{}, {"done"}, Kinds} :
       /\ Children \ Created # {}
       /\ LET c == CHOOSE x \in Children \ Created : TRUE IN
         /\ parent' = [parent EXCEPT ![c] = d]
         /\ handled' = [handled EXCEPT ![c] = hs]
         /\ kids' = [kids EXCEPT ![d] = Append(@, c)]
         /\ timers' = timers
              \o (IF told[d] = NoValue THEN << >>
                  ELSE <<[child |-> c, k |-> "progress", value |-> told[d]]>>)
              \o (IF state[d] = "pending" THEN << >>
                  ELSE LET k == CHOOSE x \in FinalKinds : StateOf(x) = state[d]
                       IN <<[child |-> c, k |-> k, value |-> lists[d][k].memory]>>)
  /\ UNCHANGED <<state, lists, told, maxDepth, hooks, remaining, stack, asked, answers>>

\* A callback when() adds to subordinate d: it is called at once when d has
\* fired, unless d is firing (or a callback of it has thrown).
Late(l) == l.alive /\ l.memory # NoValue /\ ~ l.firing
Subscribe(l, f) == IF Late(l) THEN l ELSE AddTo(l, [fn |-> f, id |-> 0])

\* when(): the master waits for all the roots, and fails with the first that
\* fails.  No script runs before it returns.  (Two roots or more: when() of one
\* argument is a then().)
When ==
  /\ Calls /\ remaining = NotCalled
  /\ LET gone(k) == {d \in Roots : Late(lists[d][k])}
         waiting == [d \in Deferreds |->
           IF d \notin Roots THEN lists[d]
           ELSE [lists[d] EXCEPT !.done = Subscribe(@, "update"),
                                 !.fail = Subscribe(@, "reject")]]
     IN /\ remaining' = Cardinality(Roots \ gone("done"))
        /\ IF gone("fail") # {}
           THEN \E d \in gone("fail") :
                  DeferredFire([Now EXCEPT !.lists = waiting], Master, "fail", lists[d].fail.memory)
           ELSE IF remaining' = 0
           THEN DeferredFire([Now EXCEPT !.lists = waiting], Master, "done", calls + 1)
           ELSE lists' = waiting /\ UNCHANGED <<state, told, timers, stack>>
  /\ UNCHANGED <<treeVars, kids, maxDepth, hooks, asked, answers>>

-----------------------------------------------------------------------------
(* The loop of fire().                                                     *)

FireTop == BetweenCallbacks
TopList == lists[TopFrame.d][TopFrame.k]
NextEntry == TopList.fns[TopList.index + 1]
Moved == [lists EXCEPT ![TopFrame.d][TopFrame.k].index = @ + 1]

CallScript ==
  /\ FireTop /\ ~ AtEnd(TopList) /\ NextEntry.fn = "script"
  /\ lists' = Moved
  /\ stack' = [stack EXCEPT ![Len(stack)].calling = TRUE]
  /\ answers' = IF TopFrame.k = "progress" THEN answers
                ELSE Append(answers, <<<<TopFrame.d, StateOf(TopFrame.k), NextEntry.id>>, TopList.memory>>)
  /\ UNCHANGED <<treeVars, kids, state, told, maxDepth, hooks, remaining, timers,
                 calls, asked>>

\* updateFunc and master.reject of when().
CallMaster ==
  /\ FireTop /\ ~ AtEnd(TopList) /\ NextEntry.fn # "script"
  /\ IF NextEntry.fn = "update"
     THEN /\ remaining' = remaining - 1
          /\ IF remaining' = 0
             THEN DeferredFire([Now EXCEPT !.lists = Moved], Master, "done", TopList.memory)
             ELSE lists' = Moved /\ UNCHANGED <<state, told, timers, stack>>
     ELSE /\ UNCHANGED remaining
          /\ DeferredFire([Now EXCEPT !.lists = Moved], Master, "fail", TopList.memory)
  /\ UNCHANGED <<treeVars, kids, maxDepth, hooks, calls, asked, answers>>

\* Only progress has a next value: notified in a callback of itself.
NextNotification ==
  /\ FireTop /\ AtEnd(TopList) /\ TopList.queue # << >>
  /\ lists' = [lists EXCEPT ![TopFrame.d][TopFrame.k] = NextValueOf(@)]
  /\ told' = [told EXCEPT ![TopFrame.d] = Head(TopList.queue)]
  /\ timers' = timers \o TimersFor(TopFrame.d, TopFrame.k, Head(TopList.queue))
  /\ UNCHANGED <<treeVars, kids, state, maxDepth, hooks, remaining, stack, calls,
                 asked, answers>>

EndFire ==
  /\ FireTop /\ AtEnd(TopList) /\ TopList.queue = << >>
  /\ lists' = [lists EXCEPT ![TopFrame.d][TopFrame.k] = EndOfFire(@)]
  /\ stack' = LeftFrames
  /\ UNCHANGED <<treeVars, kids, state, told, maxDepth, hooks, remaining, timers,
                 calls, asked, answers>>

CallbackReturns ==
  /\ stack # << >> /\ TopFrame.at = "fire" /\ TopFrame.calling
  /\ stack' = [stack EXCEPT ![Len(stack)].calling = FALSE]
  /\ UNCHANGED <<treeVars, kids, state, lists, told, maxDepth, hooks, remaining,
                 timers, calls, asked, answers>>

\* The exception leaves fire(), and the fire of a root whose updateFunc has
\* fired the master; a script below may catch it or be left as well, the
\* timers' process() catches it.
Unwound ==
  IF Len(stack) > 1 /\ stack[Len(stack) - 1].at = "fire" /\ ~ stack[Len(stack) - 1].calling
  THEN SubSeq(stack, 1, Len(stack) - 2) ELSE LeftFrames

CallbackThrows ==
  /\ stack # << >> /\ TopFrame.at = "fire" /\ TopFrame.calling
  /\ stack' = Unwound
  /\ UNCHANGED <<treeVars, kids, state, lists, told, maxDepth, hooks, remaining,
                 timers, calls, asked, answers>>

-----------------------------------------------------------------------------
(* The functions resolve(depth, child, handler, special) returns: depth 0  *)
(* runs from a timer, a deeper one is called by the thenable it was handed *)
(* to.  Notifications are special: nobody catches what they throw.         *)

Processed == <<treeVars, kids, remaining, calls, asked, answers>>

\* Late notifications of a promise that has adopted a thenable are dropped.
DropTimer ==
  /\ stack = << >> /\ timers # << >>
  /\ maxDepth[Head(timers).child] > 0
  /\ timers' = Tail(timers)
  /\ UNCHANGED <<Processed, state, lists, told, maxDepth, hooks, stack>>

\* Without a handler for the kind, Identity passes the value on; Thrower
\* throws it, which is caught.
PassOn ==
  /\ stack = << >> /\ timers # << >>
  /\ LET t == Head(timers)
     IN /\ maxDepth[t.child] = 0 /\ t.k \notin handled[t.child]
        /\ DeferredFire([Now EXCEPT !.timers = Tail(@)], t.child, t.k, t.value)
  /\ UNCHANGED <<Processed, maxDepth, hooks>>

CallHandler ==
  /\ stack = << >> /\ timers # << >>
  /\ LET t == Head(timers)
     IN /\ maxDepth[t.child] = 0 /\ t.k \in handled[t.child]
        /\ stack' = <<[at |-> "handler", d |-> t.child, k |-> t.k]>>
  /\ timers' = Tail(timers)
  /\ UNCHANGED <<Processed, state, lists, told, maxDepth, hooks>>

InHandler == stack # << >> /\ TopFrame.at = "handler"
Popped == [Now EXCEPT !.stack = LeftFrames]

HandlerReturns ==
  /\ InHandler
  /\ DeferredFire(Popped, TopFrame.d, IF TopFrame.k = "progress" THEN "progress" ELSE "done", calls + 1)
  /\ UNCHANGED <<Processed, maxDepth, hooks>>

\* What the handler throws, or a TypeError when it returns the very promise.
HandlerThrows ==
  /\ InHandler /\ TopFrame.k # "progress"
  /\ DeferredFire(Popped, TopFrame.d, "fail", calls + 1)
  /\ UNCHANGED <<Processed, maxDepth, hooks>>

NotificationThrows ==
  /\ InHandler /\ TopFrame.k = "progress"
  /\ stack' = LeftFrames
  /\ UNCHANGED <<Processed, state, lists, told, maxDepth, hooks, timers>>

\* The thenable's then() is called with functions one level deeper; older
\* levels are disregarded from now on.
Adopt(c, depth, st) ==
  /\ depth < MaxAdoptions
  /\ maxDepth' = [maxDepth EXCEPT ![c] = depth + 1]
  /\ hooks' = hooks \cup {[child |-> c, depth |-> depth + 1, special |-> FALSE]}
  /\ stack' = Append(st, [at |-> "adopt", d |-> c, depth |-> depth])
  /\ UNCHANGED <<state, lists, told, timers>>

HandlerReturnsThenable ==
  /\ InHandler /\ TopFrame.k # "progress"
  /\ Adopt(TopFrame.d, maxDepth[TopFrame.d], LeftFrames)
  /\ UNCHANGED Processed

\* A notification just waits for the thenable a progress handler returns.
NotificationReturnsThenable ==
  /\ InHandler /\ TopFrame.k = "progress"
  /\ hooks' = hooks \cup {[child |-> TopFrame.d, depth |-> maxDepth[TopFrame.d], special |-> TRUE]}
  /\ stack' = LeftFrames
  /\ UNCHANGED <<Processed, state, lists, told, maxDepth, timers>>

ThenReturns ==
  /\ stack # << >> /\ TopFrame.at = "adopt"
  /\ stack' = LeftFrames
  /\ UNCHANGED <<Processed, state, lists, told, maxDepth, hooks, timers>>

\* An exception after the thenable has been resolved with another is ignored.
ThenThrows ==
  /\ stack # << >> /\ TopFrame.at = "adopt"
  /\ IF TopFrame.depth + 1 >= maxDepth[TopFrame.d]
     THEN DeferredFire(Popped, TopFrame.d, "fail", calls + 1)
     ELSE stack' = LeftFrames /\ UNCHANGED <<state, lists, told, timers>>
  /\ UNCHANGED <<Processed, maxDepth, hooks>>

\* The thenable calls what it was handed, with a plain value or another
\* thenable; a function of an older level does nothing.
CallHook ==
  /\ Calls
  /\ \E h \in hooks :
       /\ h.depth >= maxDepth[h.child]
       /\ \/ /\ \E k \in IF h.special THEN {"progress"} ELSE Kinds :
                  DeferredFire(Now, h.child, k, calls + 1)
             /\ UNCHANGED <<maxDepth, hooks>>
          \/ ~ h.special /\ Adopt(h.child, h.depth, stack)
  /\ UNCHANGED <<treeVars, kids, remaining, asked, answers>>

-----------------------------------------------------------------------------
Script == FireRoot \/ AddCallback \/ Then \/ When \/ CallHook

Loop == CallScript \/ CallMaster \/ NextNotification \/ EndFire

Timer == DropTimer \/ PassOn \/ CallHandler

CodeReturns ==
  \/ CallbackReturns \/ CallbackThrows \/ HandlerReturns \/ HandlerThrows
  \/ NotificationThrows \/ HandlerReturnsThenable \/ NotificationReturnsThenable
  \/ ThenReturns \/ ThenThrows

DeferredNext == Script \/ Loop \/ Timer \/ CodeReturns

-----------------------------------------------------------------------------
OutcomeOf(d) ==
  IF state[d] = "pending" THEN <<"pending", 0>>
  ELSE LET k == CHOOSE x \in FinalKinds : StateOf(x) = state[d]
       IN <<state[d], lists[d][k].memory>>

P == INSTANCE Promise WITH
       Promises <- Deferreds, outcome <- [d \in Deferreds |-> OutcomeOf(d)],
       registered <- asked, answered <- answers

\* Every promise (a root, what then() returned, the master of when()) settles
\* once and for all, and a callback is called at most once, with the value it
\* settled with, whatever callbacks, handlers and thenables do and throw.
ImplementsPromise == P!PromiseSpec

Settled(d) == state[d] # "pending"
Adopting(c) == maxDepth[c] > 0
\* A callback of the list has thrown out of fire().
Stuck(d) == \E k \in FinalKinds : lists[d][k].firing

\* When no script runs and no timer is left, nothing has been forgotten: what
\* then() returned has followed its promise, unless it waits for a thenable;
\* every callback of a settled promise has been called and when() has seen
\* its subordinates, unless a callback has thrown out of the list.
NothingForgotten ==
  stack = << >> /\ timers = << >> =>
    /\ \A c \in Children : parent[c] # c /\ Settled(parent[c]) => Settled(c) \/ Adopting(c)
    /\ \A a \in asked :
         a[2] = state[a[1]] /\ ~ Stuck(a[1]) => \E i \in DOMAIN answers : answers[i][1] = a
    /\ remaining # NotCalled /\ (\A r \in Roots : Settled(r) /\ ~ Stuck(r)) => Settled(Master)

\* A promise without a handler for the outcome of its parent has that very
\* outcome; the master resolves after all roots and fails after one failed.
ThenFollows ==
  /\ \A c \in Children :
       Settled(c) => /\ parent[c] # c /\ Settled(parent[c])
                     /\ (\A k \in handled[c] \cap FinalKinds : StateOf(k) # state[parent[c]]) => OutcomeOf(c) = OutcomeOf(parent[c])
  /\ state[Master] = "resolved" => \A r \in Roots : state[r] = "resolved"
  /\ state[Master] = "rejected" => \E r \in Roots : state[r] = "rejected"

\* Both: promises are kept, once the scripts and the timers have run.
PromisesKept == NothingForgotten /\ ThenFollows

DeferredSpec == DeferredInit /\ [][DeferredNext]_deferredVars

=============================================================================
