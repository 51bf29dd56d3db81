---------------------------- MODULE DeferredProofs ----------------------------
(***************************************************************************)
(* Proofs about Deferred, for any finite number of promises and of calls:  *)
(* every promise settles once, its callbacks are called once and with the  *)
(* value it settled with, what then() returned follows its promise and the *)
(* master of when() its subordinates.                                      *)
(*                                                                         *)
(* The invariant has three parts, and a step is classified for each: what  *)
(* every step does (GoesOn) keeps the promises and those who follow them;  *)
(* what kind of step it is (StepKinds) keeps the callbacks registered and  *)
(* the count of when().                                                    *)
(***************************************************************************)
EXTENDS Deferred, SequenceTheorems, FiniteSetTheorems, TLAPS

\* The list that loses when a promise settles.
Other(k) == IF k = "done" THEN "fail" ELSE "done"

\* What the lists, the stack and the registrations hold.
Entries == [fn: {"script", "update", "reject"}, id: Nat]
PromiseList == [options: {{"memory"}, {"once", "memory"}}, fns: Seq(Entries), queue: Seq(Nat),
                firing: BOOLEAN, index: Nat, memory: Nat, locked: BOOLEAN, alive: BOOLEAN]
Lists == [Deferreds -> [Kinds -> PromiseList]]
Frames == [at: {"fire"}, d: Deferreds, k: Kinds, calling: BOOLEAN]
            \cup [at: {"handler"}, d: Children, k: Kinds]
            \cup [at: {"adopt"}, d: Children, depth: Nat]
TimerRecords == [child: Children, k: Kinds, value: Nat]
Registrations == {<<d, s, n>> : d \in Deferreds, s \in {"resolved", "rejected"}, n \in 0..calls}

DeferredTypes ==
  /\ state \in [Deferreds -> {"pending", "resolved", "rejected"}]
  /\ lists \in [Deferreds -> [Kinds -> PromiseList]]
  /\ parent \in [Children -> Deferreds]
  /\ handled \in [Children -> SUBSET Kinds]
  /\ kids \in [Deferreds -> Seq(Children)]
  /\ told \in [Deferreds -> Nat]
  /\ maxDepth \in [Children -> Nat]
  /\ hooks \subseteq [child: Children, depth: Nat, special: BOOLEAN]
  /\ remaining \in Int
  /\ timers \in Seq([child: Children, k: Kinds, value: Nat])
  /\ stack \in Seq(Frames)
  /\ calls \in Nat
  /\ asked \subseteq Registrations
  /\ answers \in Seq(asked \X Nat)

-----------------------------------------------------------------------------
\* The lists of done and fail are as the state says.

\* A list that waits, one that has fired and one whose time has passed.
Waits(l) == /\ l.alive /\ ~ l.locked /\ ~ l.firing /\ l.memory = NoValue /\ l.index = 0
Fires(l) == /\ l.alive /\ l.locked /\ l.memory # NoValue /\ l.index <= Len(l.fns)
            /\ ~ l.firing => l.fns = << >>
Spent(l) == /\ ~ l.alive /\ l.locked /\ ~ l.firing /\ l.memory = NoValue /\ l.fns = << >>

\* A pending promise's lists wait; a settled one has fired the one and disabled
\* the other.
ListsFit ==
  \A d \in Deferreds, k \in FinalKinds :
    /\ lists[d][k].options = {"once", "memory"} /\ lists[d][k].queue = << >>
    /\ state[d] = "pending" => Waits(lists[d][k])
    /\ state[d] = StateOf(k) => Fires(lists[d][k])
    /\ state[d] = StateOf(Other(k)) => Spent(lists[d][k])

-----------------------------------------------------------------------------
\* What runs, or is to run, has its reason.

\* A handler of c is there for how its parent settled.
Explained(c) == parent[c] # c /\ \E k \in handled[c] \cap FinalKinds : state[parent[c]] = StateOf(k)

\* A fire, a handler and the then of a thenable on the stack.
FrameRight(f) ==
  /\ f.at = "fire" /\ f.k \in FinalKinds => state[f.d] = StateOf(f.k)
  /\ f.at = "handler" /\ f.k \in FinalKinds =>
       /\ parent[f.d] # f.d /\ f.k \in handled[f.d] /\ state[parent[f.d]] = StateOf(f.k)
  /\ f.at = "adopt" => Explained(f.d)

\* A timer brings what the parent settled with.
TimerRight(t) ==
  /\ parent[t.child] # t.child
  /\ t.k \in FinalKinds => /\ state[parent[t.child]] = StateOf(t.k)
                           /\ t.value = lists[parent[t.child]][t.k].memory

\* The functions a thenable was given stem from a handler.
HookRight(h) == ~ h.special => Explained(h.child)

AllRight ==
  /\ \A n \in 1..Len(stack) : FrameRight(stack[n])
  /\ \A n \in 1..Len(timers) : TimerRight(timers[n])
  /\ \A h \in hooks : HookRight(h)

-----------------------------------------------------------------------------
\* What then() returned follows its promise.

\* kids and parent are each other's inverse.
KidsFit ==
  /\ \A d \in Deferreds : \A i \in 1..Len(kids[d]) : parent[kids[d][i]] = d /\ kids[d][i] # d
  /\ \A c \in Children : parent[c] # c => \E i \in 1..Len(kids[parent[c]]) : kids[parent[c]][i] = c

\* Not before it, and in the same way unless a handler was there for that.
Follows(c) ==
  Settled(c) =>
    /\ parent[c] # c /\ Settled(parent[c])
    /\ (\A k \in handled[c] \cap FinalKinds : StateOf(k) # state[parent[c]])
         => OutcomeOf(c) = OutcomeOf(parent[c])
FollowRight == \A c \in Children : Follows(c)

\* Its handler, or the timer that calls it, is still to run or runs.
HandlerOf(f, c) == f.at = "handler" /\ f.d = c /\ f.k \in FinalKinds
TimerOf(t, c) == t.child = c /\ t.k \in FinalKinds
UnderWay(c) == \/ \E n \in 1..Len(timers) : timers[n].child = c /\ timers[n].k \in FinalKinds
               \/ \E n \in 1..Len(stack) : stack[n].at = "handler" /\ stack[n].d = c /\ stack[n].k \in FinalKinds

\* When the promise has settled, it has too, waits for a thenable or is about to.
FollowKept ==
  \A c \in Children : parent[c] # c /\ Settled(parent[c]) => Settled(c) \/ Adopting(c) \/ UnderWay(c)

\* The part of the invariant about the promises themselves.
FollowInv == DeferredTypes /\ ListsFit /\ AllRight /\ KidsFit /\ FollowRight /\ FollowKept

-----------------------------------------------------------------------------
\* Callbacks registered are called once.

Called(a) == \E i \in 1..Len(answers) : answers[i][1] = a

\* A script's entry in a list was registered, stands there once, and is behind
\* the loop once it is called.
AskedRight ==
  /\ \A d \in Deferreds, k \in FinalKinds : \A i \in 1..Len(lists[d][k].fns) :
       LET l == lists[d][k] IN
       l.fns[i].fn = "script" =>
         /\ <<d, StateOf(k), l.fns[i].id>> \in asked
         /\ Called(<<d, StateOf(k), l.fns[i].id>>) => i <= l.index
         /\ \A j \in 1..Len(l.fns) : l.fns[j].fn = "script" /\ l.fns[j].id = l.fns[i].id => j = i

\* A callback that may still have to be called was called or is ahead of the loop.
AskedKept ==
  \A a \in asked : \A k \in FinalKinds : (a[2] = StateOf(k) /\ state[a[1]] \in {"pending", a[2]}) =>
     \/ Called(a)
     \/ \E i \in 1..Len(lists[a[1]][k].fns) : /\ i > lists[a[1]][k].index
                                           /\ lists[a[1]][k].fns[i] = [fn |-> "script", id |-> a[3]]

-----------------------------------------------------------------------------
\* when() counts the subordinates that have not resolved.

\* Those whose update is to come, or never comes.
Waiting == {r \in Roots :
             \/ state[r] = "rejected"
             \/ \E i \in 1..Len(lists[r]["done"].fns) :
                  i > lists[r]["done"].index /\ lists[r]["done"].fns[i].fn = "update"}

\* Its entries are in the lists of the subordinates and nowhere else.
MasterEntries ==
  \A d \in Deferreds, k \in Kinds : \A i \in 1..Len(lists[d][k].fns) :
    LET l == lists[d][k] IN
    /\ l.fns[i].fn = "update" =>
         /\ d \in Roots /\ k = "done" /\ remaining # NotCalled
         /\ \A j \in 1..Len(l.fns) : l.fns[j].fn = "update" => i = j
    /\ l.fns[i].fn = "reject" => d \in Roots /\ k = "fail" /\ remaining # NotCalled

\* Once called, it has counted right, and is told of what is to come.
MasterWaits ==
  remaining # NotCalled =>
    /\ remaining = Cardinality(Waiting)
    /\ \A r \in Roots \ Waiting : state[r] = "resolved"
    /\ remaining = 0 => Settled(Master)
    /\ \A r \in Roots : state[r] # "resolved" =>
         \/ Settled(Master)
         \/ \E i \in 1..Len(lists[r]["fail"].fns) :
              i > lists[r]["fail"].index /\ lists[r]["fail"].fns[i].fn = "reject"

\* The master resolves when all have, and rejects when one has.
MasterRight ==
  /\ state[Master] = "resolved" => \A r \in Roots : state[r] = "resolved"
  /\ state[Master] = "rejected" => \E r \in Roots : state[r] = "rejected"

\* The inductive invariant.
DeferredInv == FollowInv /\ AskedRight /\ AskedKept /\ MasterEntries /\ MasterWaits /\ MasterRight

-----------------------------------------------------------------------------
\* What the operations make of a list.

\* m is a list of the same flags as l, as dead or alive.
SameNature(l, m) == m.options = l.options /\ (m.alive <=> l.alive)
\* m has in addition the functions of l and its place of the loop in them.
SamePlace(l, m) == SameNature(l, m) /\ m.fns = l.fns /\ m.index = l.index

\* l has been fired with v.
FiredWith(l, m, v) ==
  SamePlace(l, m) /\ m.memory = v /\ m.firing /\ m.locked /\ m.queue = << >>

\* The types of a list's parts.
LEMMA ListFields ==
  ASSUME NEW l \in PromiseList
  PROVE  /\ l.options \in {{"memory"}, {"once", "memory"}} /\ l.fns \in Seq(Entries)
         /\ l.queue \in Seq(Nat) /\ l.index \in Nat /\ l.memory \in Nat
         /\ l.firing \in BOOLEAN /\ l.locked \in BOOLEAN /\ l.alive \in BOOLEAN
         /\ Len(l.fns) \in Nat /\ << >> \in Seq(Entries) /\ << >> \in Seq(Nat)
         /\ \A i \in 1..Len(l.fns) : l.fns[i] \in Entries
  <1>1. /\ l.options \in {{"memory"}, {"once", "memory"}} /\ l.fns \in Seq(Entries)
        /\ l.queue \in Seq(Nat) /\ l.index \in Nat /\ l.memory \in Nat
        /\ l.firing \in BOOLEAN /\ l.locked \in BOOLEAN /\ l.alive \in BOOLEAN
    BY DEF PromiseList
  <1> QED BY <1>1

\* fire() takes the first value of the queue, locks a list of once and starts
\* the loop.
LEMMA FireTyped ==
  ASSUME NEW l \in PromiseList, l.queue # << >>
  PROVE  /\ Fire(l) \in PromiseList /\ SamePlace(l, Fire(l))
         /\ Fire(l).queue = Tail(l.queue) /\ Fire(l).memory = Head(l.queue) /\ Fire(l).firing
         /\ Fire(l).locked <=> l.locked \/ "once" \in l.options
  <1>1. Head(l.queue) \in Nat /\ Tail(l.queue) \in Seq(Nat)
    BY DEF PromiseList
  <1>2. PICK b \in BOOLEAN : b <=> (l.locked \/ "once" \in l.options)
    OBVIOUS
  <1>3. Fire(l) = [l EXCEPT !.locked = b, !.firing = TRUE, !.memory = Head(l.queue), !.queue = Tail(@)]
    BY <1>2 DEF Fire, PromiseList
  <1> QED
    BY <1>1, <1>2, <1>3 DEF PromiseList, SamePlace, SameNature

\* A queue with one more value.
LEMMA Queued ==
  ASSUME NEW T, NEW s \in Seq(T), NEW v \in T
  PROVE  /\ Append(s, v) \in Seq(T) /\ Append(s, v) # << >>
         /\ s = << >> => Head(Append(s, v)) = v /\ Tail(Append(s, v)) = << >>
  <1>1. Append(s, v) \in Seq(T) /\ Append(s, v) # << >>
    <2>1. Append(s, v) \in Seq(T) /\ Len(Append(s, v)) = Len(s) + 1 /\ Len(s) \in Nat
      OBVIOUS
    <2> QED BY <2>1
  <1>2. ASSUME s = << >> PROVE Head(Append(s, v)) = v /\ Tail(Append(s, v)) = << >>
    BY <1>2
  <1> QED BY <1>1, <1>2

\* fireWith() fires a list that waits, and does nothing to one that is locked.
LEMMA FireWithTyped ==
  ASSUME NEW l \in PromiseList, NEW v \in Nat
  PROVE  /\ FireWith(l, v) \in PromiseList /\ SamePlace(l, FireWith(l, v))
         /\ l.locked => FireWith(l, v) = l
         /\ ~ l.locked /\ ~ l.firing /\ l.options = {"once", "memory"} /\ l.queue = << >> =>
              FiredWith(l, FireWith(l, v), v)
  <1> DEFINE queue == Append(l.queue, v)
             queued == [l EXCEPT !.queue = queue]
  <1>1. queue \in Seq(Nat) /\ queue # << >> /\ (l.queue = << >> => Head(queue) = v /\ Tail(queue) = << >>)
    <2>1. l.queue \in Seq(Nat)
      BY ListFields
    <2> QED BY <2>1, Queued DEF queue
  <1>2. FireWith(l, v) = IF l.locked THEN l ELSE IF l.firing THEN queued ELSE Fire(queued)
    BY DEF FireWith, PromiseList
  <1> HIDE DEF queue
  <1>3. queued \in PromiseList
    BY <1>1 DEF PromiseList
  <1>4. queued.queue = queue /\ SamePlace(l, queued) /\ queued.firing = l.firing /\ queued.locked = l.locked
    BY DEF PromiseList, SamePlace, SameNature
  <1> HIDE DEF queued
  <1>5. CASE l.locked
    BY <1>2, <1>5 DEF SamePlace, SameNature
  <1>6. CASE ~ l.locked /\ l.firing
    BY <1>2, <1>3, <1>4, <1>6
  <1>7. CASE ~ l.locked /\ ~ l.firing
    <2>1. FireWith(l, v) = Fire(queued) /\ queued.queue # << >>
      BY <1>1, <1>2, <1>4, <1>7
    <2>2. /\ Fire(queued) \in PromiseList /\ SamePlace(queued, Fire(queued))
          /\ Fire(queued).queue = Tail(queue) /\ Fire(queued).memory = Head(queue)
          /\ Fire(queued).firing /\ (Fire(queued).locked <=> queued.locked \/ "once" \in queued.options)
      BY <1>3, <1>4, <2>1, FireTyped
    <2>3. SamePlace(l, Fire(queued)) /\ queued.options = l.options
      BY <1>4, <2>2 DEF SamePlace, SameNature
    <2> QED
      BY <1>1, <1>7, <2>1, <2>2, <2>3 DEF FiredWith
  <1> QED
    BY <1>5, <1>6, <1>7

\* e has been added to l; a list that has fired and is at rest calls it.
AddedTo(l, m, e) ==
  /\ SameNature(l, m) /\ m.memory = l.memory /\ m.queue = l.queue
  /\ m.fns = Append(l.fns, e)
  /\ l.memory = NoValue \/ l.firing =>
       m.index = l.index /\ (m.firing <=> l.firing) /\ (m.locked <=> l.locked)
  /\ ~ (l.memory = NoValue \/ l.firing) =>
       m.index = Len(l.fns) /\ m.firing /\ (m.locked <=> l.locked \/ "once" \in l.options)

\* add() puts one function behind the others, and nothing into a disabled list.
LEMMA AddToTyped ==
  ASSUME NEW l \in PromiseList, NEW e \in Entries
  PROVE  /\ AddTo(l, e) \in PromiseList
         /\ ~ l.alive => AddTo(l, e) = l
         /\ AddTo(l, e).fns \in {l.fns, Append(l.fns, e)}
         /\ l.alive /\ l.queue = << >> => AddedTo(l, AddTo(l, e), e)
  <1> DEFINE fns == Append(l.fns, e)
             queue == Append(l.queue, l.memory)
             size == Len(l.fns)
             added == [l EXCEPT !.fns = fns]
             late == [added EXCEPT !.index = size, !.queue = queue]
  <1>1. fns \in Seq(Entries) /\ size \in Nat
    BY ListFields
  <1>2. queue \in Seq(Nat) /\ queue # << >> /\ (l.queue = << >> => Head(queue) = l.memory /\ Tail(queue) = << >>)
    BY ListFields
  <1>3. AddTo(l, e) = IF ~ l.alive THEN l ELSE IF l.memory = NoValue \/ l.firing THEN added ELSE Fire(late)
    <2>1. "unique" \notin l.options
      BY DEF PromiseList
    <2> QED BY <2>1 DEF AddTo, PromiseList
  <1> HIDE DEF fns, queue, size
  <1>4. added \in PromiseList
    BY <1>1 DEF PromiseList
  <1>5. /\ SameNature(l, added) /\ added.fns = fns
        /\ added.memory = l.memory /\ added.queue = l.queue /\ added.index = l.index
        /\ added.firing = l.firing /\ added.locked = l.locked
    BY DEF PromiseList, SameNature
  <1> HIDE DEF added
  <1>6. late \in PromiseList
    BY <1>1, <1>2, <1>4 DEF PromiseList
  <1>7. /\ SameNature(added, late) /\ late.fns = added.fns /\ late.queue = queue
        /\ late.index = size /\ late.locked = added.locked
    BY <1>4 DEF PromiseList, SameNature
  <1> HIDE DEF late
  <1>8. CASE ~ l.alive
    BY <1>3, <1>8
  <1>9. CASE l.alive /\ (l.memory = NoValue \/ l.firing)
    <2>1. AddTo(l, e) = added
      BY <1>3, <1>9
    <2> QED BY <1>4, <1>5, <1>9, <2>1 DEF AddedTo, fns
  <1>10. CASE l.alive /\ ~ (l.memory = NoValue \/ l.firing)
    <2>1. AddTo(l, e) = Fire(late) /\ late.queue # << >>
      BY <1>2, <1>3, <1>7, <1>10
    <2>2. /\ Fire(late) \in PromiseList /\ SamePlace(late, Fire(late))
          /\ Fire(late).queue = Tail(queue) /\ Fire(late).memory = Head(queue)
          /\ Fire(late).firing /\ (Fire(late).locked <=> late.locked \/ "once" \in late.options)
      BY <1>6, <1>7, <2>1, FireTyped
    <2>3. /\ SameNature(l, Fire(late)) /\ Fire(late).fns = fns /\ Fire(late).index = size
          /\ late.options = l.options /\ late.locked = l.locked
      BY <1>5, <1>7, <2>2 DEF SamePlace, SameNature
    <2> QED BY <1>2, <1>10, <2>1, <2>2, <2>3 DEF AddedTo, fns, size
  <1> QED
    BY <1>8, <1>9, <1>10

\* disable() empties a list for good.
LEMMA DisableTyped ==
  ASSUME NEW l \in PromiseList
  PROVE  /\ DisableList(l) \in PromiseList /\ DisableList(l).options = l.options
         /\ DisableList(l).queue = << >> /\ DisableList(l).fns = << >>
         /\ ~ l.firing => Spent(DisableList(l))
  <1>1. << >> \in Seq(Entries) /\ << >> \in Seq(Nat) /\ NoValue \in Nat
    BY DEF NoValue
  <1>2. DisableList(l) \in PromiseList
    BY <1>1 DEF PromiseList, DisableList
  <1>3. /\ DisableList(l).options = l.options /\ DisableList(l).queue = << >>
        /\ DisableList(l).fns = << >> /\ DisableList(l).firing = l.firing
        /\ ~ DisableList(l).alive /\ DisableList(l).locked /\ DisableList(l).memory = NoValue
    BY DEF PromiseList, DisableList
  <1> QED BY <1>2, <1>3 DEF Spent

\* lock() keeps the functions of a list, or drops them with the list.
LEMMA LockTyped ==
  ASSUME NEW l \in PromiseList
  PROVE  LockList(l) \in PromiseList /\ LockList(l).fns \in {l.fns, << >>}
  <1>0. << >> \in Seq(Nat)
    OBVIOUS
  <1>1. [l EXCEPT !.locked = TRUE, !.queue = << >>] \in PromiseList
    BY <1>0 DEF PromiseList
  <1>2. [l EXCEPT !.locked = TRUE, !.queue = << >>].fns = l.fns
    BY DEF PromiseList
  <1> QED
    BY <1>1, <1>2, DisableTyped DEF LockList

\* The loop of a progress list goes over its functions again.
LEMMA NextValueTyped ==
  ASSUME NEW l \in PromiseList, l.queue # << >>
  PROVE  NextValueOf(l) \in PromiseList /\ NextValueOf(l).fns = l.fns
  <1>1. Head(l.queue) \in Nat /\ Tail(l.queue) \in Seq(Nat)
    BY DEF PromiseList
  <1> QED
    BY <1>1 DEF PromiseList, NextValueOf

\* The loop is over.
Ended(l, m) ==
  /\ SameNature(l, m) /\ m.memory = l.memory /\ m.queue = l.queue /\ (m.locked <=> l.locked)
  /\ m.index = 0 /\ ~ m.firing /\ m.fns = << >>

\* The end of fire() empties a list that fires once.
LEMMA EndTyped ==
  ASSUME NEW l \in PromiseList
  PROVE  /\ EndOfFire(l) \in PromiseList /\ EndOfFire(l).fns \in {l.fns, << >>}
         /\ l.locked /\ l.memory # NoValue => Ended(l, EndOfFire(l))
  <1>1. "memory" \in l.options
    BY DEF PromiseList
  <1>2. PICK b \in BOOLEAN : b <=> (l.alive /\ (l.locked => l.memory # NoValue))
    OBVIOUS
  <1>3. PICK fns \in Seq(Entries) : fns = IF l.locked THEN << >> ELSE l.fns
    BY ListFields
  <1>4. EndOfFire(l) = [l EXCEPT !.index = 0, !.firing = FALSE, !.fns = fns, !.alive = b]
    BY <1>1, <1>2, <1>3 DEF EndOfFire, PromiseList
  <1>5. EndOfFire(l) \in PromiseList
    <2>1. [l EXCEPT !.index = 0, !.firing = FALSE, !.fns = fns, !.alive = b] \in PromiseList
      BY DEF PromiseList
    <2> QED BY <1>4, <2>1
  <1>6. /\ EndOfFire(l).fns = fns /\ EndOfFire(l).options = l.options /\ (EndOfFire(l).alive <=> b)
        /\ EndOfFire(l).memory = l.memory /\ EndOfFire(l).queue = l.queue
        /\ EndOfFire(l).locked = l.locked /\ EndOfFire(l).index = 0 /\ ~ EndOfFire(l).firing
    BY <1>2, <1>3, <1>4 DEF PromiseList
  <1> QED
    BY <1>2, <1>3, <1>5, <1>6 DEF Ended, SameNature

\* The loop has come to the next function.
MovedOn(l, m) ==
  /\ SameNature(l, m) /\ m.memory = l.memory /\ m.queue = l.queue /\ (m.locked <=> l.locked)
  /\ (m.firing <=> l.firing) /\ m.fns = l.fns /\ m.index = l.index + 1

\* Moving the loop on changes nothing else of a list.
LEMMA MoveTyped ==
  ASSUME NEW l \in PromiseList
  PROVE  [l EXCEPT !.index = @ + 1] \in PromiseList /\ MovedOn(l, [l EXCEPT !.index = @ + 1])
  <1>1. PICK n \in Nat : n = l.index + 1
    BY ListFields
  <1>2. [l EXCEPT !.index = @ + 1] = [l EXCEPT !.index = n]
    BY <1>1 DEF PromiseList
  <1>3. [l EXCEPT !.index = n] \in PromiseList
    BY DEF PromiseList
  <1>4. MovedOn(l, [l EXCEPT !.index = n])
    BY <1>1 DEF PromiseList, MovedOn, SameNature
  <1> QED BY <1>2, <1>3, <1>4

-----------------------------------------------------------------------------
(***************************************************************************)
(* What a step makes of a deferred.                                        *)
(***************************************************************************)
\* A list is left alone, added to, or - once fired - gone through.
Uses(l, m) ==
  \/ m = l
  \/ l.alive /\ \E e \in Entries : AddedTo(l, m, e)
  \/ Fires(l) /\ l.index < Len(l.fns) /\ MovedOn(l, m)
  \/ Fires(l) /\ AtEnd(l) /\ Ended(l, m)

\* d settles by no step and its lists of done and fail stay.
Same(d) == state'[d] = state[d] /\ \A k \in FinalKinds : lists'[d][k] = lists[d][k]

\* d settles with v: the list of k has fired and the other is disabled.
Settles(d, k, v) ==
  /\ state[d] = "pending" /\ state'[d] = StateOf(k) /\ v # NoValue /\ v \in Nat
  /\ FiredWith(lists[d][k], lists'[d][k], v)
  /\ Spent(lists'[d][Other(k)]) /\ lists'[d][Other(k)].queue = << >>
  /\ lists'[d][Other(k)].options = lists[d][Other(k)].options

\* Progress callbacks are those of scripts.
OnlyScripts(s, t) ==
  \/ t = s \/ t = << >>
  \/ \E e \in Entries : e.fn = "script" /\ t = Append(s, e)

\* What any step makes of a deferred: it settles, or its lists are used.
Changes(d) ==
  /\ \/ state'[d] = state[d] /\ \A k \in FinalKinds : Uses(lists[d][k], lists'[d][k])
     \/ \E k \in FinalKinds, v \in Nat : Settles(d, k, v)
  /\ OnlyScripts(lists[d]["progress"].fns, lists'[d]["progress"].fns)

\* Of the three kinds of lists two are final, each with a state of its own.
LEMMA KindFacts ==
  /\ Kinds = {"progress", "done", "fail"} /\ FinalKinds = {"done", "fail"}
  /\ StateOf("done") = "resolved" /\ StateOf("fail") = "rejected"
  /\ Other("done") = "fail" /\ Other("fail") = "done"
  /\ \A k \in FinalKinds : /\ k \in Kinds /\ Other(k) \in FinalKinds /\ Other(k) # k /\ k # "progress"
                           /\ StateOf(k) \in {"resolved", "rejected"} /\ StateOf(Other(k)) # StateOf(k)
                           /\ Other(Other(k)) = k /\ StateOf(k) # "pending"
                           /\ \A x \in FinalKinds : x = k \/ x = Other(k)
                           /\ \A x \in FinalKinds : StateOf(x) = StateOf(k) => x = k
                           /\ \A x \in Kinds : x = k \/ x = Other(k) \/ x = "progress"
  <1>1. StateOf("done") = "resolved" /\ StateOf("fail") = "rejected"
    BY DEF StateOf
  <1> QED BY <1>1 DEF Kinds, FinalKinds, Other

\* What a settled promise keeps.
LEMMA UsesKeeps ==
  ASSUME NEW l \in PromiseList, NEW m \in PromiseList, Uses(l, m)
  PROVE  /\ Waits(l) => Waits(m)
         /\ Fires(l) => Fires(m) /\ m.memory = l.memory
         /\ Spent(l) => Spent(m)
         /\ m.options = l.options /\ m.queue = l.queue
  <1>0. /\ l.fns \in Seq(Entries) /\ Len(l.fns) \in Nat /\ m.fns \in Seq(Entries) /\ Len(m.fns) \in Nat
        /\ l.index \in Nat /\ m.index \in Nat /\ l.memory \in Nat
    BY ListFields
  <1>1. CASE m = l
    BY <1>1
  <1>2. ASSUME l.alive, NEW e \in Entries, AddedTo(l, m, e)
        PROVE  /\ Waits(l) => Waits(m)
               /\ Fires(l) => Fires(m) /\ m.memory = l.memory
               /\ m.options = l.options /\ m.queue = l.queue /\ ~ Spent(l)
    <2>1. m.fns = Append(l.fns, e) /\ Len(m.fns) = Len(l.fns) + 1
      BY <1>0, <1>2 DEF AddedTo
    <2>2. m.options = l.options /\ m.queue = l.queue /\ m.memory = l.memory /\ ~ Spent(l) /\ (m.alive <=> l.alive)
      BY <1>2 DEF AddedTo, SameNature, Spent
    <2>3. Waits(l) => Waits(m)
      BY <1>2, <2>2 DEF AddedTo, Waits
    <2>4. ASSUME Fires(l) PROVE Fires(m)
      <3>1. CASE l.firing
        <4>1. m.index = l.index /\ m.firing /\ m.locked /\ l.index <= Len(l.fns)
          BY <1>2, <2>4, <3>1 DEF AddedTo, Fires
        <4>2. m.index <= Len(m.fns)
          BY <1>0, <2>1, <4>1
        <4> QED BY <2>2, <2>4, <4>1, <4>2 DEF Fires
      <3>2. CASE ~ l.firing
        <4>1. m.index = Len(l.fns) /\ m.firing /\ m.locked
          BY <1>2, <2>4, <3>2 DEF AddedTo, Fires
        <4>2. m.index <= Len(m.fns)
          BY <1>0, <2>1, <4>1
        <4> QED BY <2>2, <2>4, <4>1, <4>2 DEF Fires
      <3> QED BY <3>1, <3>2
    <2> QED BY <2>2, <2>3, <2>4
  <1>3. CASE Fires(l) /\ l.index < Len(l.fns) /\ MovedOn(l, m)
    <2>1. ~ Waits(l) /\ ~ Spent(l)
      BY <1>3 DEF Fires, Waits, Spent
    <2>2. m.index <= Len(m.fns)
      BY <1>0, <1>3 DEF MovedOn
    <2>3. l.firing
      BY <1>0, <1>3 DEF Fires
    <2> QED BY <1>3, <2>1, <2>2, <2>3 DEF MovedOn, SameNature, Fires
  <1>4. CASE Fires(l) /\ AtEnd(l) /\ Ended(l, m)
    <2>1. ~ Waits(l) /\ ~ Spent(l)
      BY <1>4 DEF Fires, Waits, Spent
    <2>2. m.index <= Len(m.fns)
      BY <1>0, <1>4 DEF Ended
    <2> QED BY <1>4, <2>1, <2>2 DEF Ended, SameNature, Fires
  <1> QED BY <1>1, <1>2, <1>3, <1>4 DEF Uses

\* A deferred that a step changes so still has the lists its state says.
LEMMA FitStays ==
  ASSUME DeferredTypes, ListsFit, lists' \in Lists, NEW d \in Deferreds, Changes(d), NEW k \in FinalKinds
  PROVE  /\ lists'[d][k].options = {"once", "memory"} /\ lists'[d][k].queue = << >>
         /\ state'[d] = "pending" => Waits(lists'[d][k])
         /\ state'[d] = StateOf(k) => Fires(lists'[d][k])
         /\ state'[d] = StateOf(Other(k)) => Spent(lists'[d][k])
         /\ state[d] # "pending" => state'[d] = state[d]
         /\ state[d] = StateOf(k) => lists'[d][k].memory = lists[d][k].memory
  <1>1. lists[d][k] \in PromiseList /\ lists'[d][k] \in PromiseList
    BY KindFacts DEF DeferredTypes, Lists
  <1>2. /\ lists[d][k].options = {"once", "memory"} /\ lists[d][k].queue = << >>
        /\ state[d] = "pending" => Waits(lists[d][k])
        /\ state[d] = StateOf(k) => Fires(lists[d][k])
        /\ state[d] = StateOf(Other(k)) => Spent(lists[d][k])
    BY DEF ListsFit
  <1>3. CASE state'[d] = state[d] /\ Uses(lists[d][k], lists'[d][k])
    BY <1>1, <1>2, <1>3, UsesKeeps
  <1>4. ASSUME NEW x \in FinalKinds, NEW v \in Nat, Settles(d, x, v), x = k
        PROVE  /\ state[d] = "pending" /\ state'[d] = StateOf(k) /\ Fires(lists'[d][k])
               /\ lists'[d][k].options = lists[d][k].options /\ lists'[d][k].queue = << >>
    <2>1. Waits(lists[d][k]) /\ FiredWith(lists[d][k], lists'[d][k], v) /\ v # NoValue
      BY <1>2, <1>4 DEF Settles
    <2>2. lists'[d][k].index <= Len(lists'[d][k].fns)
      <3>1. lists'[d][k].index = 0 /\ Len(lists'[d][k].fns) \in Nat
        BY <1>1, <2>1, ListFields DEF FiredWith, SamePlace, Waits
      <3> QED BY <3>1
    <2> QED BY <1>4, <2>1, <2>2 DEF FiredWith, SamePlace, SameNature, Fires, Waits, Settles
  <1>5. ASSUME NEW x \in FinalKinds, NEW v \in Nat, Settles(d, x, v), x # k
        PROVE  /\ state[d] = "pending" /\ state'[d] = StateOf(Other(k)) /\ Spent(lists'[d][k])
               /\ lists'[d][k].options = lists[d][k].options /\ lists'[d][k].queue = << >>
    <2>1. x = Other(k) /\ k = Other(x)
      BY <1>5, KindFacts
    <2> QED BY <1>5, <2>1 DEF Settles
  <1>6. CASE \E x \in FinalKinds, v \in Nat : Settles(d, x, v)
    BY <1>2, <1>4, <1>5, <1>6, KindFacts
  <1> QED
    BY <1>3, <1>6 DEF Changes

\* resolveWith, rejectWith and notifyWith.
FireEffect(now, d, k, v) ==
  /\ lists' \in Lists
  /\ \A e \in Deferreds \ {d} : lists'[e] = now.lists[e] /\ state'[e] = state[e]
  /\ state' \in [Deferreds -> {"pending", "resolved", "rejected"}]
  /\ told' \in [Deferreds -> Nat]
  /\ OnlyScripts(lists[d]["progress"].fns, lists'[d]["progress"].fns)
  /\ k \in FinalKinds /\ state[d] = "pending" =>
       /\ Settles(d, k, v) /\ stack' = Append(now.stack, FireFrame(d, k))
       /\ timers' = now.timers \o TimersFor(d, k, v)
  /\ k \in FinalKinds /\ state[d] # "pending" =>
       Same(d) /\ stack' = now.stack /\ timers' = now.timers
  /\ k = "progress" =>
       /\ Same(d)
       /\ stack' = now.stack \/ stack' = Append(now.stack, FireFrame(d, k))
       /\ timers' = now.timers \/ timers' = now.timers \o TimersFor(d, k, v)

\* A call to resolveWith, rejectWith or notifyWith has that effect: it settles
\* a pending promise, and does nothing to a settled one.
LEMMA FireHas ==
  ASSUME DeferredTypes, ListsFit, NEW now, now.lists \in Lists, NEW d \in Deferreds, NEW k \in Kinds,
         NEW v \in Nat, k \in FinalKinds => v # NoValue, now.lists[d] = lists[d], DeferredFire(now, d, k, v)
  PROVE  FireEffect(now, d, k, v)
  <1> DEFINE l == lists[d][k]
             fired == FireWith(l, v)
             starts == ~ l.locked /\ ~ l.firing
             final == starts /\ k \in FinalKinds
  <1>1. /\ stack' = IF starts THEN Append(now.stack, FireFrame(d, k)) ELSE now.stack
        /\ lists' = IF final
                 THEN [now.lists EXCEPT ![d] = [x \in Kinds |->
                        IF x = k THEN fired
                        ELSE IF x = "progress" THEN LockList(@[x]) ELSE DisableList(@[x])]]
                 ELSE [now.lists EXCEPT ![d][k] = fired]
        /\ state' = IF final THEN [state EXCEPT ![d] = StateOf(k)] ELSE state
        /\ told' = IF starts /\ ~ final THEN [told EXCEPT ![d] = v] ELSE told
        /\ timers' = IF starts THEN now.timers \o TimersFor(d, k, v) ELSE now.timers
    BY DEF DeferredFire
  <1>2. \A x \in Kinds : lists[d][x] \in PromiseList
    BY DEF DeferredTypes
  <1>3. fired \in PromiseList /\ SamePlace(l, fired) /\ (l.locked => fired = l)
    BY <1>2, FireWithTyped
  <1>4. \A x \in Kinds : /\ LockList(lists[d][x]) \in PromiseList /\ DisableList(lists[d][x]) \in PromiseList
                         /\ LockList(lists[d][x]).fns \in {lists[d][x].fns, << >>}
    BY <1>2, LockTyped, DisableTyped
  <1>5. told' \in [Deferreds -> Nat]
    BY <1>1 DEF DeferredTypes
  <1>6. state' \in [Deferreds -> {"pending", "resolved", "rejected"}]
    BY <1>1, KindFacts DEF DeferredTypes
  <1>7. CASE final
    <2>1. lists' = [now.lists EXCEPT ![d] = [x \in Kinds |->
                        IF x = k THEN fired
                        ELSE IF x = "progress" THEN LockList(lists[d][x]) ELSE DisableList(lists[d][x])]]
      BY <1>1, <1>7
    <2>2. [x \in Kinds |-> IF x = k THEN fired
                        ELSE IF x = "progress" THEN LockList(lists[d][x]) ELSE DisableList(lists[d][x])]
             \in [Kinds -> PromiseList]
      BY <1>3, <1>4
    <2>3. lists' \in Lists /\ \A e \in Deferreds \ {d} : lists'[e] = now.lists[e] /\ state'[e] = state[e]
      <3> HIDE DEF fired, final
      <3>1. \A e \in Deferreds \ {d} : state'[e] = state[e]
        BY <1>1 DEF DeferredTypes
      <3> QED BY <2>1, <2>2, <3>1 DEF Lists
    <2>4. k \in FinalKinds /\ k # "progress" /\ Other(k) \in Kinds /\ Other(k) # k /\ Other(k) # "progress"
      BY <1>7, KindFacts
    <2>5. /\ lists'[d][k] = fired /\ lists'[d][Other(k)] = DisableList(lists[d][Other(k)])
          /\ lists'[d]["progress"] = LockList(lists[d]["progress"])
      <3> HIDE DEF fired, final
      <3> QED BY <2>1, <2>4, KindFacts DEF Lists
    <2>6. state[d] = "pending"
      <3>1. ~ Fires(l) /\ ~ Spent(l)
        BY <1>7 DEF Fires, Spent
      <3>2. state[d] # StateOf(k)
        BY <2>4, <3>1 DEF ListsFit
      <3>4. StateOf(Other(k)) # state[d]
        BY <2>4, <3>1 DEF ListsFit
      <3>5. state[d] \in {"pending", "resolved", "rejected"}
        BY DEF DeferredTypes
      <3> HIDE DEF final, l, fired, starts
      <3> QED BY <2>4, <3>2, <3>4, <3>5, KindFacts
    <2>7. Waits(l) /\ Waits(lists[d][Other(k)]) /\ l.options = {"once", "memory"} /\ l.queue = << >>
      BY <2>4, <2>6, KindFacts DEF ListsFit
    <2>8. FiredWith(l, fired, v)
      BY <1>2, <1>7, <2>7, FireWithTyped
    <2>9. /\ Spent(lists'[d][Other(k)]) /\ lists'[d][Other(k)].queue = << >>
          /\ lists'[d][Other(k)].options = lists[d][Other(k)].options
      BY <1>2, <2>4, <2>5, <2>7, DisableTyped DEF Waits
    <2>10. state'[d] = StateOf(k)
      BY <1>1, <1>7 DEF DeferredTypes
    <2>11. Settles(d, k, v)
      <3>1. FiredWith(lists[d][k], lists'[d][k], v)
        BY <2>5, <2>8
      <3>2. v # NoValue
        BY <2>4
      <3> QED BY <2>6, <2>9, <2>10, <3>1, <3>2 DEF Settles
    <2>12. OnlyScripts(lists[d]["progress"].fns, lists'[d]["progress"].fns)
      BY <1>4, <2>5, KindFacts DEF OnlyScripts
    <2>13. stack' = Append(now.stack, FireFrame(d, k)) /\ timers' = now.timers \o TimersFor(d, k, v)
      BY <1>1, <1>7
    <2> HIDE DEF final, starts, fired, l
    <2> QED
      BY <1>5, <1>6, <2>3, <2>4, <2>6, <2>11, <2>12, <2>13 DEF FireEffect
  <1>8. CASE ~ final
    <2>1. lists' = [now.lists EXCEPT ![d][k] = fired] /\ state' = state
      BY <1>1, <1>8
    <2>2. lists' \in Lists /\ \A e \in Deferreds \ {d} : lists'[e] = now.lists[e] /\ state'[e] = state[e]
      <3> HIDE DEF fired, final
      <3> QED BY <1>3, <2>1 DEF Lists
    <2>3. lists'[d][k] = fired /\ \A x \in Kinds \ {k} : lists'[d][x] = lists[d][x]
      <3> HIDE DEF fired, final
      <3> QED BY <2>1 DEF Lists
    <2>4. OnlyScripts(lists[d]["progress"].fns, lists'[d]["progress"].fns)
      BY <1>3, <2>3, KindFacts DEF OnlyScripts, SamePlace
    <2>5. CASE k = "progress"
      <3>1. Same(d)
        BY <2>1, <2>3, <2>5, KindFacts DEF Same
      <3>2. k \notin FinalKinds
        BY <2>5, KindFacts
      <3> HIDE DEF final, fired, l
      <3> QED BY <1>1, <1>5, <1>6, <2>2, <2>4, <2>5, <3>1, <3>2 DEF FireEffect
    <2>6. CASE k \in FinalKinds
      <3>1. l.locked \/ l.firing
        BY <1>8, <2>6
      <3>2. ~ Waits(l)
        BY <3>1 DEF Waits
      <3>3. state[d] # "pending" /\ l.locked
        <4>1. state[d] # "pending"
          BY <2>6, <3>2 DEF ListsFit
        <4>2. state[d] = StateOf(k) \/ state[d] = StateOf(Other(k))
          BY <2>6, <4>1, KindFacts DEF DeferredTypes
        <4> QED BY <2>6, <4>1, <4>2 DEF ListsFit, Fires, Spent
      <3>4. fired = l /\ ~ starts
        BY <1>3, <3>3
      <3>5. Same(d)
        BY <2>1, <2>3, <2>6, <3>4, KindFacts DEF Same
      <3>6. k # "progress" /\ stack' = now.stack /\ timers' = now.timers
        BY <1>1, <2>6, <3>4, KindFacts
      <3> HIDE DEF final, fired, l, starts
      <3> QED BY <1>5, <1>6, <2>2, <2>4, <2>6, <3>3, <3>5, <3>6 DEF FireEffect
    <2> QED BY <2>5, <2>6, KindFacts
  <1> QED
    BY <1>7, <1>8

-----------------------------------------------------------------------------
(***************************************************************************)
(* Types.                                                                  *)
(***************************************************************************)
\* The beginning of a sequence, and two together.
LEMMA Beginning ==
  ASSUME NEW T, NEW s \in Seq(T), NEW n \in 0..Len(s)
  PROVE  /\ SubSeq(s, 1, n) \in Seq(T) /\ Len(SubSeq(s, 1, n)) = n
         /\ \A i \in 1..n : SubSeq(s, 1, n)[i] = s[i]
  OBVIOUS

\* The elements of two sequences put together are those of the one and of the
\* other.
LEMMA Together ==
  ASSUME NEW T, NEW s \in Seq(T), NEW t \in Seq(T)
  PROVE  /\ s \o t \in Seq(T) /\ Len(s \o t) = Len(s) + Len(t)
         /\ \A i \in 1..Len(s) : i \in 1..Len(s \o t) /\ (s \o t)[i] = s[i]
         /\ \A i \in 1..Len(t) : Len(s) + i \in 1..Len(s \o t) /\ (s \o t)[Len(s) + i] = t[i]
         /\ \A i \in 1..Len(s \o t) :
              \/ i \in 1..Len(s) /\ (s \o t)[i] = s[i]
              \/ \E j \in 1..Len(t) : (s \o t)[i] = t[j]
  <1>1. s \o t \in Seq(T) /\ Len(s \o t) = Len(s) + Len(t) /\ Len(s) \in Nat /\ Len(t) \in Nat
    OBVIOUS
  <1>2. \A i \in 1..Len(s) : i \in 1..Len(s \o t) /\ (s \o t)[i] = s[i]
    BY <1>1
  <1>3. \A i \in 1..Len(t) : Len(s) + i \in 1..Len(s \o t) /\ (s \o t)[Len(s) + i] = t[i]
    BY <1>1
  <1>4. ASSUME NEW i \in 1..Len(s \o t), i \notin 1..Len(s)
        PROVE  \E j \in 1..Len(t) : (s \o t)[i] = t[j]
    <2>1. i - Len(s) \in 1..Len(t) /\ Len(s) + (i - Len(s)) = i
      BY <1>1, <1>4
    <2> QED BY <1>3, <2>1
  <1> QED BY <1>1, <1>2, <1>3, <1>4

\* The types of a frame's parts.
FrameParts(f) ==
  /\ f.at \in {"fire", "handler", "adopt"} /\ f.d \in Deferreds
  /\ f.at = "fire" => f.k \in Kinds /\ f.calling \in BOOLEAN
  /\ f.at = "handler" => f.d \in Children /\ f.k \in Kinds
  /\ f.at = "adopt" => f.d \in Children /\ f.depth \in Nat

\* Every frame has them.
LEMMA FrameTyped ==
  ASSUME NEW f \in Frames PROVE FrameParts(f)
  BY DEF Frames, FrameParts, Deferreds

\* What a callback leaves to its caller, or a throw to the script, is a
\* beginning of the stack; a throw skips fires only.
LEMMA StackTyped ==
  ASSUME stack \in Seq(Frames)
  PROVE  /\ Len(stack) \in Nat /\ \A n \in 1..Len(stack) : stack[n] \in Frames
         /\ stack # << >> =>
              /\ TopFrame \in Frames /\ Len(stack) \in 1..Len(stack) /\ TopFrame = stack[Len(stack)]
              /\ LeftFrames \in Seq(Frames) /\ Len(LeftFrames) = Len(stack) - 1
              /\ \A n \in 1..Len(stack) - 1 : LeftFrames[n] = stack[n]
              /\ Unwound \in Seq(Frames) /\ Len(Unwound) \in 0..Len(stack) - 1
              /\ \A n \in 1..Len(Unwound) : Unwound[n] = stack[n]
              /\ \A n \in 1..Len(stack) : n > Len(Unwound) => n = Len(stack) \/ stack[n].at = "fire"
  <1>1. Len(stack) \in Nat /\ \A n \in 1..Len(stack) : stack[n] \in Frames
    OBVIOUS
  <1>2. ASSUME stack # << >>
        PROVE  /\ TopFrame \in Frames /\ Len(stack) \in 1..Len(stack) /\ TopFrame = stack[Len(stack)]
               /\ LeftFrames \in Seq(Frames) /\ Len(LeftFrames) = Len(stack) - 1
               /\ \A n \in 1..Len(stack) - 1 : LeftFrames[n] = stack[n]
    <2>1. Len(stack) \in 1..Len(stack)
      BY <1>2
    <2>2. LeftFrames \in Seq(Frames) /\ Len(LeftFrames) = Len(stack) - 1
          /\ \A n \in 1..Len(stack) - 1 : LeftFrames[n] = stack[n]
      <3>1. Len(stack) - 1 \in 0..Len(stack)
        BY <1>1, <2>1
      <3> QED BY <3>1, Beginning DEF LeftFrames
    <2> QED BY <1>1, <2>1, <2>2 DEF TopFrame
  <1>3. ASSUME stack # << >>
        PROVE  /\ Unwound \in Seq(Frames) /\ Len(Unwound) \in 0..Len(stack) - 1
               /\ \A n \in 1..Len(Unwound) : Unwound[n] = stack[n]
               /\ \A n \in 1..Len(stack) : n > Len(Unwound) => n = Len(stack) \/ stack[n].at = "fire"
    <2> DEFINE two == Len(stack) > 1 /\ stack[Len(stack) - 1].at = "fire" /\ ~ stack[Len(stack) - 1].calling
    <2>1. CASE two
      <3>1. Unwound = SubSeq(stack, 1, Len(stack) - 2) /\ Len(stack) - 2 \in 0..Len(stack)
        BY <1>1, <2>1 DEF Unwound
      <3>2. /\ Unwound \in Seq(Frames) /\ Len(Unwound) = Len(stack) - 2
            /\ \A n \in 1..Len(stack) - 2 : Unwound[n] = stack[n]
        BY <3>1, Beginning
      <3>3. \A n \in 1..Len(stack) : n > Len(stack) - 2 => n = Len(stack) \/ n = Len(stack) - 1
        BY <1>1
      <3> QED BY <1>1, <2>1, <3>1, <3>2, <3>3
    <2>2. CASE ~ two
      <3>1. Unwound = LeftFrames
        BY <2>2 DEF Unwound
      <3>2. \A n \in 1..Len(stack) : n > Len(stack) - 1 => n = Len(stack)
        BY <1>1
      <3>3. Len(stack) - 1 \in 0..Len(stack) - 1
        <4>1. Len(stack) \in 1..Len(stack)
          BY <1>3
        <4> QED BY <1>1, <4>1
      <3> QED BY <1>2, <3>1, <3>2, <3>3
    <2> QED BY <2>1, <2>2
  <1> QED BY <1>1, <1>2, <1>3

\* A promise that settles sets one timer for each promise that then() returned
\* of it.
LEMMA TimersTyped ==
  ASSUME DeferredTypes, NEW d \in Deferreds, NEW k \in Kinds, NEW v \in Nat
  PROVE  /\ TimersFor(d, k, v) \in Seq(TimerRecords)
         /\ Len(TimersFor(d, k, v)) = Len(kids[d]) /\ Len(kids[d]) \in Nat
         /\ \A i \in 1..Len(kids[d]) : /\ kids[d][i] \in Children
                                       /\ TimersFor(d, k, v)[i] = [child |-> kids[d][i], k |-> k, value |-> v]
  <1>1. kids[d] \in Seq(Children)
    BY DEF DeferredTypes
  <1>2. DOMAIN kids[d] = 1..Len(kids[d]) /\ Len(kids[d]) \in Nat /\ \A i \in 1..Len(kids[d]) : kids[d][i] \in Children
    BY <1>1
  <1>3. \A i \in 1..Len(kids[d]) : [child |-> kids[d][i], k |-> k, value |-> v] \in TimerRecords
    BY <1>2 DEF TimerRecords
  <1>4. TimersFor(d, k, v) = [i \in 1..Len(kids[d]) |-> [child |-> kids[d][i], k |-> k, value |-> v]]
    BY <1>2 DEF TimersFor
  <1>5. TimersFor(d, k, v) \in Seq(TimerRecords) /\ Len(TimersFor(d, k, v)) = Len(kids[d])
    BY <1>2, <1>3, <1>4
  <1> QED BY <1>2, <1>4, <1>5

\* fire() starts with a frame that runs no callback.
LEMMA FireFrameTyped ==
  ASSUME NEW d \in Deferreds, NEW k \in Kinds
  PROVE  FireFrame(d, k) \in Frames
  BY DEF FireFrame, Frames

\* What the caller leaves to a fire.
LeftTo(now) == now.lists \in Lists /\ now.stack \in Seq(Frames) /\ now.timers \in Seq(TimerRecords)

\* The types after a fire.
LEMMA FireTypes ==
  ASSUME DeferredTypes, NEW now, LeftTo(now), NEW d \in Deferreds, NEW k \in Kinds,
         NEW v \in Nat, FireEffect(now, d, k, v)
  PROVE  /\ stack' \in Seq(Frames) /\ timers' \in Seq(TimerRecords) /\ lists' \in Lists
         /\ state' \in [Deferreds -> {"pending", "resolved", "rejected"}] /\ told' \in [Deferreds -> Nat]
  <1>1. stack' = now.stack \/ stack' = Append(now.stack, FireFrame(d, k))
    BY KindFacts DEF FireEffect
  <1>2. timers' = now.timers \/ timers' = now.timers \o TimersFor(d, k, v)
    BY KindFacts DEF FireEffect
  <1>3. stack' \in Seq(Frames)
    <2>1. now.stack \in Seq(Frames)
      BY DEF LeftTo
    <2>2. Append(now.stack, FireFrame(d, k)) \in Seq(Frames)
      BY <2>1, FireFrameTyped
    <2> QED BY <1>1, <2>1, <2>2
  <1>4. timers' \in Seq(TimerRecords)
    <2>1. now.timers \in Seq(TimerRecords) /\ TimersFor(d, k, v) \in Seq(TimerRecords)
      BY TimersTyped DEF LeftTo
    <2> DEFINE more == TimersFor(d, k, v)
    <2>2. now.timers \o more \in Seq(TimerRecords)
      <3> HIDE DEF more
      <3>1. more \in Seq(TimerRecords)
        BY <2>1 DEF more
      <3> QED BY <2>1, <3>1, Together
    <2> QED BY <1>2, <2>1, <2>2
  <1> QED BY <1>3, <1>4 DEF FireEffect

\* What was registered still was.
LEMMA RegistrationsGrow ==
  ASSUME calls \in Nat, calls' \in {calls, calls + 1} PROVE Registrations \subseteq Registrations'
  <1>1. 0..calls \subseteq 0..calls'
    OBVIOUS
  <1> QED BY <1>1 DEF Registrations

\* The types, but for what only scripts change.
LEMMA TypesFrom ==
  ASSUME DeferredTypes,
         stack' \in Seq(Frames), timers' \in Seq(TimerRecords), lists' \in Lists,
         state' \in [Deferreds -> {"pending", "resolved", "rejected"}], told' \in [Deferreds -> Nat],
         maxDepth' \in [Children -> Nat], hooks' \subseteq [child: Children, depth: Nat, special: BOOLEAN],
         UNCHANGED <<treeVars, kids>>, remaining' \in Int, calls' \in {calls, calls + 1},
         UNCHANGED <<asked, answers>>
  PROVE  DeferredTypes'
  <1>1. calls' \in Nat /\ Registrations \subseteq Registrations'
    <2>1. calls \in Nat
      BY DEF DeferredTypes
    <2> QED BY <2>1, RegistrationsGrow
  <1> QED BY <1>1 DEF DeferredTypes, Lists, TimerRecords, treeVars

-----------------------------------------------------------------------------
(***************************************************************************)
(* Who settles a promise, and whom it tells.                               *)
(***************************************************************************)

\* What every step does.
GoesOn ==
  /\ DeferredTypes' /\ KidsFit'
  /\ \A d \in Deferreds : Changes(d)
  /\ \A c \in Children : parent[c] # c => parent'[c] = parent[c] /\ handled'[c] = handled[c]
  /\ \A f \in Frames : (\E n \in 1..Len(stack') : stack'[n] = f) => FrameRight(f) \/ FrameRight(f)'
  /\ \A t \in TimerRecords : (\E n \in 1..Len(timers') : timers'[n] = t) => TimerRight(t) \/ TimerRight(t)'
  /\ \A h \in hooks' : h \in hooks \/ HookRight(h)
  /\ \A c \in Children : state[c] = "pending" => Follows(c)'
  /\ \A c \in Children :
       /\ maxDepth[c] > 0 => maxDepth'[c] > 0
       /\ UnderWay(c) => UnderWay(c)' \/ state'[c] # "pending" \/ maxDepth'[c] > 0
       /\ parent'[c] # c /\ state'[parent'[c]] # "pending" =>
            \/ parent'[c] = parent[c] /\ state[parent[c]] # "pending"
            \/ UnderWay(c)'

\* A promise settles once and with one value, and lists still fit states.
LEMMA SettledStays ==
  ASSUME DeferredTypes, ListsFit, DeferredTypes', \A d \in Deferreds : Changes(d)
  PROVE  /\ ListsFit'
         /\ \A d \in Deferreds : state[d] # "pending" =>
              state'[d] = state[d] /\ OutcomeOf(d)' = OutcomeOf(d)
         /\ \A d \in Deferreds, k \in FinalKinds : state[d] = StateOf(k) =>
              state'[d] = StateOf(k) /\ lists'[d][k].memory = lists[d][k].memory
  <1>1. lists' \in Lists
    BY DEF DeferredTypes, Lists
  <1>2. ListsFit'
    BY <1>1, FitStays DEF ListsFit
  <1>3. \A d \in Deferreds, k \in FinalKinds : state[d] = StateOf(k) =>
              state'[d] = StateOf(k) /\ lists'[d][k].memory = lists[d][k].memory
    BY <1>1, FitStays, KindFacts
  <1>4. ASSUME NEW d \in Deferreds, state[d] # "pending"
        PROVE  state'[d] = state[d] /\ OutcomeOf(d)' = OutcomeOf(d)
    <2>1. PICK k \in FinalKinds : state[d] = StateOf(k)
      BY <1>4, KindFacts DEF DeferredTypes
    <2>2. state'[d] = state[d] /\ lists'[d][k].memory = lists[d][k].memory
      BY <1>3, <2>1
    <2>3. (CHOOSE x \in FinalKinds : StateOf(x) = state[d]) = k
      BY <2>1, KindFacts
    <2>4. (CHOOSE x \in FinalKinds : StateOf(x) = state'[d]) = k
      BY <2>2, <2>3
    <2>5. OutcomeOf(d) = <<state[d], lists[d][k].memory>>
      BY <1>4, <2>3 DEF OutcomeOf
    <2>6. OutcomeOf(d)' = <<state'[d], lists'[d][k].memory>>
      BY <1>4, <2>2, <2>4 DEF OutcomeOf
    <2> QED BY <2>2, <2>5, <2>6
  <1> QED BY <1>2, <1>3, <1>4

\* What was there for a reason still is, since promises stay settled and then()
\* gives a promise its parent once.
LEMMA RightStays ==
  ASSUME FollowInv, GoesOn
  PROVE  /\ \A f \in Frames : FrameRight(f) => FrameRight(f)'
         /\ \A t \in TimerRecords : TimerRight(t) => TimerRight(t)'
         /\ \A c \in Children : Explained(c) => Explained(c)'
  <1>1. \A d \in Deferreds, k \in FinalKinds : state[d] = StateOf(k) =>
              state'[d] = StateOf(k) /\ lists'[d][k].memory = lists[d][k].memory
    BY SettledStays DEF FollowInv, GoesOn
  <1>2. \A c \in Children : parent[c] # c => parent'[c] = parent[c] /\ handled'[c] = handled[c]
    BY DEF GoesOn
  <1>3. \A c \in Children : parent[c] \in Deferreds
    BY DEF FollowInv, DeferredTypes
  <1>4. \A c \in Children : Explained(c) => Explained(c)'
    BY <1>1, <1>2, <1>3 DEF Explained
  <1>5. ASSUME NEW f \in Frames, FrameRight(f) PROVE FrameRight(f)'
    <2>1. FrameParts(f)
      BY FrameTyped
    <2> QED BY <1>1, <1>2, <1>3, <1>4, <1>5, <2>1 DEF FrameRight, FrameParts
  <1>6. ASSUME NEW t \in TimerRecords, TimerRight(t) PROVE TimerRight(t)'
    <2>1. t.child \in Children
      BY DEF TimerRecords
    <2> QED BY <1>1, <1>2, <1>3, <1>6, <2>1 DEF TimerRight
  <1> QED BY <1>4, <1>5, <1>6

\* Whatever step goes on in this way keeps the invariant of promises.
LEMMA FollowStays == ASSUME FollowInv, GoesOn PROVE FollowInv'
  <1>0. DeferredTypes /\ DeferredTypes' /\ KidsFit'
    BY DEF FollowInv, GoesOn
  <1>1. /\ ListsFit'
        /\ \A d \in Deferreds : state[d] # "pending" =>
              state'[d] = state[d] /\ OutcomeOf(d)' = OutcomeOf(d)
    BY SettledStays DEF FollowInv, GoesOn
  <1>2. AllRight'
    <2>1. \A n \in 1..Len(stack') : FrameRight(stack[n])'
      <3> SUFFICES ASSUME NEW n \in 1..Len(stack') PROVE FrameRight(stack[n])'
        OBVIOUS
      <3>1. stack'[n] \in Frames
        BY <1>0 DEF DeferredTypes
      <3>2. PICK f \in Frames : f = stack'[n]
        BY <3>1
      <3>3. FrameRight(f)'
        BY <3>2, RightStays DEF GoesOn
      <3> QED BY <3>2, <3>3
    <2>2. \A n \in 1..Len(timers') : TimerRight(timers[n])'
      <3> SUFFICES ASSUME NEW n \in 1..Len(timers') PROVE TimerRight(timers[n])'
        OBVIOUS
      <3>1. timers'[n] \in TimerRecords
        <4>1. timers' \in Seq(TimerRecords)
          BY <1>0 DEF DeferredTypes, TimerRecords
        <4> QED BY <4>1
      <3>2. PICK t \in TimerRecords : t = timers'[n]
        BY <3>1
      <3>3. TimerRight(t)'
        BY <3>2, RightStays DEF GoesOn
      <3> QED BY <3>2, <3>3
    <2>3. \A h \in hooks' : HookRight(h)'
      <3> SUFFICES ASSUME NEW h \in hooks' PROVE HookRight(h)'
        OBVIOUS
      <3>1. h.child \in Children
        BY <1>0 DEF DeferredTypes
      <3>2. HookRight(h)
        BY DEF GoesOn, FollowInv, AllRight
      <3> QED BY <3>1, <3>2, RightStays DEF HookRight
    <2> QED BY <2>1, <2>2, <2>3 DEF AllRight
  <1>3. FollowRight'
    <2> SUFFICES ASSUME NEW c \in Children, state[c] # "pending" PROVE Follows(c)'
      BY DEF FollowRight, GoesOn
    <2>1. Follows(c) /\ c \in Deferreds
      BY DEF FollowInv, FollowRight, Deferreds
    <2>2. /\ parent[c] # c /\ Settled(parent[c])
          /\ (\A k \in handled[c] \cap FinalKinds : StateOf(k) # state[parent[c]])
                => OutcomeOf(c) = OutcomeOf(parent[c])
      BY <2>1 DEF Follows, Settled
    <2>3. PICK p \in Deferreds : p = parent[c]
      BY <1>0 DEF DeferredTypes
    <2>4. parent'[c] = p /\ handled'[c] = handled[c]
      BY <2>2, <2>3 DEF GoesOn
    <2>5. state'[p] = state[p] /\ OutcomeOf(p)' = OutcomeOf(p) /\ OutcomeOf(c)' = OutcomeOf(c)
      BY <1>1, <2>1, <2>2, <2>3 DEF Settled
    <2>6. OutcomeOf(parent[c])' = OutcomeOf(p)'
      BY <2>4
    <2> QED BY <2>2, <2>3, <2>4, <2>5, <2>6 DEF Follows, Settled
  <1>4. FollowKept'
    <2> SUFFICES ASSUME NEW c \in Children, parent'[c] # c, state'[parent'[c]] # "pending"
                 PROVE  state'[c] # "pending" \/ maxDepth'[c] > 0 \/ UnderWay(c)'
      BY DEF FollowKept, Settled, Adopting
    <2>1. UnderWay(c)' \/ (parent'[c] = parent[c] /\ state[parent[c]] # "pending")
      BY DEF GoesOn
    <2>2. CASE parent'[c] = parent[c] /\ state[parent[c]] # "pending"
      <3>1. state[c] # "pending" \/ maxDepth[c] > 0 \/ UnderWay(c)
        BY <2>2 DEF FollowInv, FollowKept, Settled, Adopting
      <3>2. c \in Deferreds
        BY DEF Deferreds
      <3>3. /\ maxDepth[c] > 0 => maxDepth'[c] > 0
            /\ UnderWay(c) => UnderWay(c)' \/ state'[c] # "pending" \/ maxDepth'[c] > 0
        BY DEF GoesOn
      <3> QED BY <1>1, <3>1, <3>2, <3>3
    <2> QED BY <2>1, <2>2
  <1> QED BY <1>0, <1>1, <1>2, <1>3, <1>4 DEF FollowInv

\* The elements of a sequence with one more.
LEMMA Appended ==
  ASSUME NEW T, NEW s \in Seq(T), NEW e \in T
  PROVE  /\ Append(s, e) \in Seq(T) /\ Len(Append(s, e)) = Len(s) + 1
         /\ \A i \in 1..Len(s) : i \in 1..Len(Append(s, e)) /\ Append(s, e)[i] = s[i]
         /\ Len(s) + 1 \in 1..Len(Append(s, e)) /\ Append(s, e)[Len(s) + 1] = e
         /\ \A i \in 1..Len(Append(s, e)) : (i \in 1..Len(s) /\ Append(s, e)[i] = s[i]) \/ Append(s, e)[i] = e
  OBVIOUS

\* A step that settles nothing and creates nothing.
Rests ==
  /\ DeferredTypes' /\ UNCHANGED <<treeVars, kids, state>>
  /\ \A d \in Deferreds : Changes(d)
  /\ \A f \in Frames : (\E n \in 1..Len(stack') : stack'[n] = f) => FrameRight(f)
  /\ \A t \in TimerRecords : (\E n \in 1..Len(timers') : timers'[n] = t) => TimerRight(t)
  /\ \A h \in hooks' : h \in hooks \/ HookRight(h)
  /\ \A c \in Children :
       /\ maxDepth[c] > 0 => maxDepth'[c] > 0
       /\ UnderWay(c) => UnderWay(c)' \/ maxDepth'[c] > 0

\* Such a step is one of those every step is.
LEMMA RestGoesOn == ASSUME FollowInv, Rests PROVE GoesOn
  <1>1. KidsFit'
    BY DEF FollowInv, KidsFit, Rests, treeVars
  <1>2. \A c \in Children : c \in Deferreds
    BY DEF Deferreds
  <1>3. \A c \in Children : state[c] = "pending" => Follows(c)'
    BY DEF Rests, Follows, Settled
  <1> QED BY <1>1, <1>2, <1>3 DEF GoesOn, Rests, treeVars

\* d may be fired with v, by what the caller has left.
FireReason(d, k, v) ==
  d \in Children =>
    /\ parent[d] # d /\ state[parent[d]] # "pending"
    /\ (\A x \in handled[d] \cap FinalKinds : StateOf(x) # state[parent[d]])
         => OutcomeOf(parent[d]) = <<StateOf(k), v>>

\* A fire of d in what its caller has left, with a reason for it.
FireStep(now, d, k, v) ==
  /\ LeftTo(now) /\ FireEffect(now, d, k, v)
  /\ now.lists[d] = lists[d]
  /\ \A e \in Deferreds \ {d} :
       /\ \A x \in FinalKinds : Uses(lists[e][x], now.lists[e][x])
       /\ OnlyScripts(lists[e]["progress"].fns, now.lists[e]["progress"].fns)
  /\ \A n \in 1..Len(now.stack) : FrameRight(now.stack[n])
  /\ \A n \in 1..Len(now.timers) : TimerRight(now.timers[n])
  /\ \A c \in Children : UnderWay(c) =>
       \/ c = d /\ k \in FinalKinds
       \/ \E n \in 1..Len(now.stack) : HandlerOf(now.stack[n], c)
       \/ \E n \in 1..Len(now.timers) : TimerOf(now.timers[n], c)
  /\ k \in FinalKinds => FireReason(d, k, v)
  /\ DeferredTypes' /\ UNCHANGED <<treeVars, kids, maxDepth, hooks>>

\* A fire with a reason goes on as every step does: the promise settles as its
\* parent has, and those that follow it get their timers.
LEMMA FireGoesOn ==
  ASSUME FollowInv, NEW now, NEW d \in Deferreds, NEW k \in Kinds, NEW v \in Nat, FireStep(now, d, k, v)
  PROVE  GoesOn
  <1>0. /\ LeftTo(now) /\ FireEffect(now, d, k, v) /\ DeferredTypes /\ DeferredTypes'
        /\ now.lists \in Lists /\ now.stack \in Seq(Frames) /\ now.timers \in Seq(TimerRecords)
    BY DEF FireStep, FollowInv, LeftTo
  <1>1. parent' = parent /\ handled' = handled /\ kids' = kids /\ maxDepth' = maxDepth /\ hooks' = hooks
    BY DEF FireStep, treeVars
  <1>2. KidsFit'
    BY <1>1 DEF FollowInv, KidsFit
  <1> DEFINE settles == k \in FinalKinds /\ state[d] = "pending"
  <1>3. ~ settles => Same(d)
    BY <1>0, KindFacts DEF FireEffect
  <1>4. settles => Settles(d, k, v) /\ stack' = Append(now.stack, FireFrame(d, k))
                   /\ timers' = now.timers \o TimersFor(d, k, v)
    BY <1>0 DEF FireEffect
  <1>5. \A e \in Deferreds : Changes(e)
    <2>1. ASSUME NEW e \in Deferreds, e # d PROVE Changes(e)
      <3>1. lists'[e] = now.lists[e] /\ state'[e] = state[e]
        BY <1>0, <2>1 DEF FireEffect
      <3>2. /\ \A x \in FinalKinds : Uses(lists[e][x], now.lists[e][x])
            /\ OnlyScripts(lists[e]["progress"].fns, now.lists[e]["progress"].fns)
        BY <2>1 DEF FireStep
      <3> QED BY <3>1, <3>2 DEF Changes
    <2>2. OnlyScripts(lists[d]["progress"].fns, lists'[d]["progress"].fns)
      BY <1>0 DEF FireEffect
    <2>3. CASE ~ settles
      <3>1. state'[d] = state[d] /\ \A x \in FinalKinds : Uses(lists[d][x], lists'[d][x])
        BY <1>3, <2>3 DEF Same, Uses
      <3>2. Changes(d)
        BY <2>2, <3>1 DEF Changes
      <3> QED BY <2>1, <3>2
    <2>4. CASE settles
      <3>1. Changes(d)
        BY <1>4, <2>2, <2>4 DEF Changes
      <3> QED BY <2>1, <3>1
    <2> QED BY <2>3, <2>4
  <1>6. ASSUME NEW f \in Frames, NEW n \in 1..Len(stack'), stack'[n] = f
        PROVE  FrameRight(f) \/ FrameRight(f)'
    <2>1. stack' = now.stack \/ stack' = Append(now.stack, FireFrame(d, k))
      BY <1>0, KindFacts DEF FireEffect
    <2>2. (n \in 1..Len(now.stack) /\ f = now.stack[n]) \/ (stack' = Append(now.stack, FireFrame(d, k)) /\ f = FireFrame(d, k))
      BY <1>0, <1>6, <2>1, Appended, FireFrameTyped
    <2>3. CASE n \in 1..Len(now.stack) /\ f = now.stack[n]
      BY <2>3 DEF FireStep
    <2>4. CASE stack' = Append(now.stack, FireFrame(d, k)) /\ f = FireFrame(d, k)
      <3>1. f.at = "fire" /\ f.d = d /\ f.k = k
        BY <2>4 DEF FireFrame
      <3>2. CASE settles
        BY <1>4, <3>1, <3>2 DEF Settles, FrameRight
      <3>3. CASE k \notin FinalKinds
        BY <3>1, <3>3 DEF FrameRight
      <3>4. CASE k \in FinalKinds /\ state[d] # "pending"
        <4>1. stack' = now.stack
          BY <1>0, <3>4 DEF FireEffect
        <4>2. Append(now.stack, FireFrame(d, k)) # now.stack
          BY <1>0, Appended, FireFrameTyped
        <4> QED BY <2>4, <4>1, <4>2
      <3> QED BY <3>2, <3>3, <3>4
    <2> QED BY <2>2, <2>3, <2>4
  <1>7. ASSUME NEW t \in TimerRecords, NEW n \in 1..Len(timers'), timers'[n] = t
        PROVE  TimerRight(t) \/ TimerRight(t)'
    <2>1. timers' = now.timers \/ timers' = now.timers \o TimersFor(d, k, v)
      BY <1>0, KindFacts DEF FireEffect
    <2>2. \/ n \in 1..Len(now.timers) /\ t = now.timers[n]
          \/ timers' # now.timers /\ timers' = now.timers \o TimersFor(d, k, v) /\ \E i \in 1..Len(TimersFor(d, k, v)) : t = TimersFor(d, k, v)[i]
      <3>1. TimersFor(d, k, v) \in Seq(TimerRecords)
        BY <1>0, TimersTyped
      <3>2. CASE timers' = now.timers
        BY <1>7, <3>2
      <3>3. CASE timers' # now.timers
        <4>1. timers' = now.timers \o TimersFor(d, k, v)
          BY <2>1, <3>3
        <4>2. n \in 1..Len(now.timers \o TimersFor(d, k, v))
          BY <4>1
        <4>3. \/ n \in 1..Len(now.timers) /\ (now.timers \o TimersFor(d, k, v))[n] = now.timers[n]
              \/ \E i \in 1..Len(TimersFor(d, k, v)) : (now.timers \o TimersFor(d, k, v))[n] = TimersFor(d, k, v)[i]
          <5> DEFINE more == TimersFor(d, k, v)
          <5> HIDE DEF more
          <5>1. more \in Seq(TimerRecords) /\ now.timers \in Seq(TimerRecords) /\ n \in 1..Len(now.timers \o more)
            BY <1>0, <3>1, <4>2 DEF more
          <5>2. \/ n \in 1..Len(now.timers) /\ (now.timers \o more)[n] = now.timers[n]
                \/ \E i \in 1..Len(more) : (now.timers \o more)[n] = more[i]
            BY <5>1, Together
          <5> QED BY <5>2 DEF more
        <4> QED BY <1>7, <3>3, <4>1, <4>3
      <3> QED BY <3>2, <3>3
    <2>3. CASE n \in 1..Len(now.timers) /\ t = now.timers[n]
      BY <2>3 DEF FireStep
    <2>4. ASSUME timers' # now.timers, NEW i \in 1..Len(TimersFor(d, k, v)), t = TimersFor(d, k, v)[i]
          PROVE  TimerRight(t)'
      <3>1. t = [child |-> kids[d][i], k |-> k, value |-> v] /\ i \in 1..Len(kids[d]) /\ kids[d][i] \in Children
        BY <1>0, <2>4, TimersTyped
      <3>2. parent[t.child] = d /\ t.child # d /\ t.k = k /\ t.value = v
        BY <3>1 DEF FollowInv, KidsFit
      <3>3. CASE k \notin FinalKinds
        BY <1>1, <3>2, <3>3 DEF TimerRight
      <3>4. CASE k \in FinalKinds
        <4>1. settles
          BY <1>0, <2>4, <3>4 DEF FireEffect
        <4>2. state'[d] = StateOf(k) /\ lists'[d][k].memory = v
          BY <1>4, <4>1 DEF Settles, FiredWith
        <4> QED BY <1>1, <3>2, <4>2 DEF TimerRight
      <3> QED BY <3>3, <3>4
    <2> QED BY <2>2, <2>3, <2>4
  <1>8. ASSUME NEW c \in Children, state[c] = "pending" PROVE Follows(c)'
    <2>0. c \in Deferreds
      BY DEF Deferreds
    <2>1. CASE c # d \/ ~ settles
      <3>1. state'[c] = "pending"
        BY <1>0, <1>3, <1>8, <2>0, <2>1 DEF FireEffect, Same
      <3> QED BY <3>1 DEF Follows, Settled
    <2>2. CASE c = d /\ settles
      <3>1. state'[d] = StateOf(k) /\ lists'[d][k].memory = v
        BY <1>4, <2>2 DEF Settles, FiredWith
      <3>2. (CHOOSE x \in FinalKinds : StateOf(x) = state'[d]) = k /\ StateOf(k) # "pending"
        BY <2>2, <3>1, KindFacts
      <3>3. OutcomeOf(d)' = <<StateOf(k), v>>
        BY <3>1, <3>2 DEF OutcomeOf
      <3>4. /\ parent[d] # d /\ state[parent[d]] # "pending"
            /\ (\A x \in handled[d] \cap FinalKinds : StateOf(x) # state[parent[d]])
                  => OutcomeOf(parent[d]) = <<StateOf(k), v>>
        BY <2>2 DEF FireStep, FireReason
      <3>5. PICK p \in Deferreds : p = parent[d]
        BY <1>0, <2>2 DEF DeferredTypes
      <3>6. state'[p] = state[p] /\ OutcomeOf(p)' = OutcomeOf(p)
        BY <1>0, <1>5, <3>4, <3>5, SettledStays DEF FollowInv
      <3>7. OutcomeOf(parent[d])' = OutcomeOf(p)'
        BY <1>1, <3>5
      <3> QED BY <1>1, <2>2, <3>1, <3>3, <3>4, <3>5, <3>6, <3>7 DEF Follows, Settled
    <2> QED BY <2>1, <2>2
  <1>9. ASSUME NEW c \in Children, UnderWay(c) PROVE UnderWay(c)' \/ state'[c] # "pending"
    <2>1. \/ c = d /\ k \in FinalKinds
          \/ \E n \in 1..Len(now.stack) : HandlerOf(now.stack[n], c)
          \/ \E n \in 1..Len(now.timers) : TimerOf(now.timers[n], c)
      BY <1>9 DEF FireStep
    <2>2. CASE c = d /\ k \in FinalKinds
      BY <1>3, <1>4, <2>2, KindFacts DEF Settles, Same
    <2>3. ASSUME NEW n \in 1..Len(now.stack), HandlerOf(now.stack[n], c) PROVE UnderWay(c)'
      <3>1. stack' = now.stack \/ stack' = Append(now.stack, FireFrame(d, k))
        BY <1>0, KindFacts DEF FireEffect
      <3>2. n \in 1..Len(stack') /\ stack'[n] = now.stack[n]
        BY <1>0, <3>1, Appended, FireFrameTyped
      <3> QED BY <2>3, <3>2 DEF UnderWay, HandlerOf
    <2>4. ASSUME NEW n \in 1..Len(now.timers), TimerOf(now.timers[n], c) PROVE UnderWay(c)'
      <3>1. timers' = now.timers \/ timers' = now.timers \o TimersFor(d, k, v)
        BY <1>0, KindFacts DEF FireEffect
      <3>2. TimersFor(d, k, v) \in Seq(TimerRecords)
        BY <1>0, TimersTyped
      <3>3. n \in 1..Len(timers') /\ timers'[n] = now.timers[n]
        BY <1>0, <3>1, <3>2, Together
      <3> QED BY <2>4, <3>3 DEF UnderWay, TimerOf
    <2> QED BY <2>1, <2>2, <2>3, <2>4
  <1>10. ASSUME NEW c \in Children, parent'[c] # c, state'[parent'[c]] # "pending"
         PROVE  (parent'[c] = parent[c] /\ state[parent[c]] # "pending") \/ UnderWay(c)'
    <2>1. parent[c] = parent'[c] /\ parent[c] \in Deferreds
      BY <1>0, <1>1 DEF DeferredTypes
    <2>2. CASE parent[c] # d \/ ~ settles
      <3>1. state'[parent[c]] = state[parent[c]]
        BY <1>0, <1>3, <2>1, <2>2 DEF FireEffect, Same
      <3> QED BY <1>10, <2>1, <3>1
    <2>3. CASE parent[c] = d /\ settles
      <3>1. PICK i \in 1..Len(kids[d]) : kids[d][i] = c
        BY <1>10, <2>1, <2>3 DEF FollowInv, KidsFit
      <3>2. TimersFor(d, k, v) \in Seq(TimerRecords) /\ i \in 1..Len(TimersFor(d, k, v))
            /\ TimersFor(d, k, v)[i] = [child |-> c, k |-> k, value |-> v]
        BY <1>0, <3>1, TimersTyped
      <3>3. /\ Len(now.timers) + i \in 1..Len(timers')
            /\ timers'[Len(now.timers) + i] = [child |-> c, k |-> k, value |-> v]
        BY <1>0, <1>4, <2>3, <3>2, Together
      <3>4. timers'[Len(now.timers) + i].child = c /\ timers'[Len(now.timers) + i].k \in FinalKinds
        BY <2>3, <3>3
      <3> QED BY <3>3, <3>4 DEF UnderWay
    <2> QED BY <2>2, <2>3
  <1> HIDE DEF settles
  <1>11. \A c \in Children : parent[c] # c => parent'[c] = parent[c] /\ handled'[c] = handled[c]
    BY <1>1
  <1> QED
    BY <1>0, <1>1, <1>2, <1>5, <1>6, <1>7, <1>8, <1>9, <1>10, <1>11 DEF GoesOn

-----------------------------------------------------------------------------
(***************************************************************************)
(* The steps, one by one.                                                  *)
(***************************************************************************)
\* Nothing but a list of d changes.
LEMMA OneList ==
  ASSUME DeferredTypes, NEW d \in Deferreds, NEW k \in Kinds, NEW m \in PromiseList,
         lists' = [lists EXCEPT ![d][k] = m], state' = state,
         k \in FinalKinds => Uses(lists[d][k], m),
         k = "progress" => OnlyScripts(lists[d][k].fns, m.fns)
  PROVE  /\ lists' \in Lists /\ lists'[d][k] = m
         /\ \A e \in Deferreds, x \in Kinds : e # d \/ x # k => lists'[e][x] = lists[e][x]
         /\ \A e \in Deferreds : Changes(e)
  <1>1. lists \in Lists
    BY DEF DeferredTypes, Lists
  <1>2. /\ lists' \in Lists /\ lists'[d][k] = m
        /\ \A e \in Deferreds, x \in Kinds : e # d \/ x # k => lists'[e][x] = lists[e][x]
    BY <1>1 DEF Lists
  <1>3. ASSUME NEW e \in Deferreds PROVE Changes(e)
    <2>1. \A x \in FinalKinds : Uses(lists[e][x], lists'[e][x])
      <3> SUFFICES ASSUME NEW x \in FinalKinds PROVE Uses(lists[e][x], lists'[e][x])
        OBVIOUS
      <3>1. CASE e = d /\ x = k
        BY <1>2, <3>1
      <3>2. CASE ~ (e = d /\ x = k)
        BY <1>2, <3>2, KindFacts DEF Uses
      <3> QED BY <3>1, <3>2
    <2>2. OnlyScripts(lists[e]["progress"].fns, lists'[e]["progress"].fns)
      <3>1. CASE e = d /\ k = "progress"
        BY <1>2, <3>1
      <3>2. CASE ~ (e = d /\ k = "progress")
        BY <1>2, <3>2, KindFacts DEF OnlyScripts
      <3> QED BY <3>1, <3>2
    <2> QED BY <2>1, <2>2 DEF Changes
  <1> QED BY <1>2, <1>3

\* Without a change of lists and states nothing changes of deferreds.
LEMMA NoList ==
  ASSUME lists' = lists, state' = state PROVE \A d \in Deferreds : Changes(d)
  BY DEF Changes, Uses, OnlyScripts

\* What is there when nothing is left: all that is under way.
LEMMA NowLeft ==
  ASSUME FollowInv
  PROVE  /\ LeftTo(Now) /\ Now.lists = lists /\ Now.stack = stack /\ Now.timers = timers
         /\ lists \in Lists /\ stack \in Seq(Frames) /\ timers \in Seq(TimerRecords)
         /\ \A c \in Children : UnderWay(c) =>
              \/ \E n \in 1..Len(stack) : HandlerOf(stack[n], c)
              \/ \E n \in 1..Len(timers) : TimerOf(timers[n], c)
  BY DEF FollowInv, DeferredTypes, LeftTo, Now, Lists, TimerRecords, UnderWay, HandlerOf, TimerOf

\* The lists of other deferreds are as they were.
LEMMA OthersSame ==
  ASSUME NEW ls, ls = lists
  PROVE  \A e \in Deferreds :
           /\ \A x \in FinalKinds : Uses(lists[e][x], ls[e][x])
           /\ OnlyScripts(lists[e]["progress"].fns, ls[e]["progress"].fns)
  BY DEF Uses, OnlyScripts

\* A fire that changes no other variables but these.
Fired(now, d, k, v) ==
  /\ DeferredFire(now, d, k, v)
  /\ UNCHANGED <<treeVars, kids, maxDepth, hooks, asked, answers>>
  /\ calls' \in {calls, calls + 1}

\* A fire that has a reason, and only changes what a fire does, goes on.
LEMMA FiredGoes ==
  ASSUME FollowInv, NEW now, NEW d \in Deferreds, NEW k \in Kinds, NEW v \in Nat, Fired(now, d, k, v),
         LeftTo(now), now.lists[d] = lists[d], remaining' \in Int,
         \A e \in Deferreds \ {d} :
           /\ \A x \in FinalKinds : Uses(lists[e][x], now.lists[e][x])
           /\ OnlyScripts(lists[e]["progress"].fns, now.lists[e]["progress"].fns),
         \A n \in 1..Len(now.stack) : FrameRight(now.stack[n]),
         \A n \in 1..Len(now.timers) : TimerRight(now.timers[n]),
         \A c \in Children : UnderWay(c) =>
           \/ c = d /\ k \in FinalKinds
           \/ \E n \in 1..Len(now.stack) : HandlerOf(now.stack[n], c)
           \/ \E n \in 1..Len(now.timers) : TimerOf(now.timers[n], c),
         k \in FinalKinds => v # NoValue /\ FireReason(d, k, v)
  PROVE  FireStep(now, d, k, v) /\ GoesOn
  <1>1. FireEffect(now, d, k, v)
    BY FireHas DEF Fired, FollowInv, LeftTo
  <1>2. /\ stack' \in Seq(Frames) /\ timers' \in Seq(TimerRecords) /\ lists' \in Lists
        /\ state' \in [Deferreds -> {"pending", "resolved", "rejected"}] /\ told' \in [Deferreds -> Nat]
    BY <1>1, FireTypes DEF FollowInv
  <1>3. DeferredTypes'
    BY <1>2, TypesFrom DEF Fired, FollowInv, DeferredTypes
  <1>4. FireStep(now, d, k, v)
    BY <1>1, <1>3 DEF FireStep, Fired
  <1> QED BY <1>4, FireGoesOn

\* A script's resolve(), reject() or notify().
LEMMA RootGoes == ASSUME FollowInv, FireRoot PROVE GoesOn
  <1>1. PICK d \in Roots, k \in Kinds : DeferredFire(Now, d, k, calls + 1)
    BY DEF FireRoot
  <1>2. Fired(Now, d, k, calls + 1) /\ remaining' = remaining
    BY <1>1 DEF Fired, FireRoot, Calls
  <1>3. calls + 1 \in Nat /\ calls + 1 # NoValue /\ remaining \in Int
    BY DEF FollowInv, DeferredTypes, NoValue
  <1>4. d \in Deferreds /\ d \notin Children
    BY DeferredsAssumption DEF Deferreds
  <1>5. FireReason(d, k, calls + 1)
    BY <1>4 DEF FireReason
  <1>6. /\ \A n \in 1..Len(stack) : FrameRight(stack[n])
        /\ \A n \in 1..Len(timers) : TimerRight(timers[n])
    BY DEF FollowInv, AllRight
  <1> QED BY <1>2, <1>3, <1>4, <1>5, <1>6, NowLeft, OthersSame, FiredGoes

\* The thread of timers takes the first.
LEMMA FirstTimer ==
  ASSUME FollowInv, timers # << >>
  PROVE  /\ Head(timers) \in TimerRecords /\ TimerRight(Head(timers)) /\ Tail(timers) \in Seq(TimerRecords)
         /\ \A n \in 1..Len(Tail(timers)) : TimerRight(Tail(timers)[n])
         /\ \A c \in Children : (\E n \in 1..Len(timers) : TimerOf(timers[n], c)) =>
              TimerOf(Head(timers), c) \/ \E n \in 1..Len(Tail(timers)) : TimerOf(Tail(timers)[n], c)
  <1>1. timers \in Seq(TimerRecords) /\ Len(timers) \in Nat /\ Len(timers) # 0
    BY NowLeft
  <1>2. /\ Head(timers) = timers[1] /\ 1 \in 1..Len(timers) /\ Head(timers) \in TimerRecords
        /\ Tail(timers) \in Seq(TimerRecords) /\ Len(Tail(timers)) = Len(timers) - 1
        /\ \A n \in 1..Len(timers) - 1 : n + 1 \in 1..Len(timers) /\ Tail(timers)[n] = timers[n + 1]
    BY <1>1
  <1>3. \A n \in 1..Len(timers) : n = 1 \/ (n - 1 \in 1..Len(timers) - 1 /\ Tail(timers)[n - 1] = timers[n])
    BY <1>1, <1>2
  <1>4. \A n \in 1..Len(timers) : TimerRight(timers[n])
    BY DEF FollowInv, AllRight
  <1> QED BY <1>2, <1>3, <1>4

\* The memory of what a promise settled with is there.
LEMMA SettledValue ==
  ASSUME FollowInv, NEW d \in Deferreds, NEW k \in FinalKinds, state[d] = StateOf(k)
  PROVE  /\ OutcomeOf(d) = <<StateOf(k), lists[d][k].memory>> /\ state[d] # "pending"
         /\ lists[d][k].memory # NoValue /\ lists[d][k].memory \in Nat
  <1>1. (CHOOSE x \in FinalKinds : StateOf(x) = state[d]) = k /\ state[d] # "pending"
    BY KindFacts
  <1>2. Fires(lists[d][k])
    BY DEF FollowInv, ListsFit
  <1>3. lists[d][k] \in PromiseList
    BY KindFacts DEF FollowInv, DeferredTypes
  <1> QED BY <1>1, <1>2, <1>3, ListFields DEF OutcomeOf, Fires

\* A timer without a handler passes on what the parent settled with.
LEMMA PassOnGoes == ASSUME FollowInv, PassOn PROVE GoesOn
  <1> DEFINE t == Head(timers)
             now == [Now EXCEPT !.timers = Tail(@)]
  <1>1. /\ stack = << >> /\ timers # << >> /\ t.k \notin handled[t.child]
        /\ DeferredFire(now, t.child, t.k, t.value)
    BY DEF PassOn
  <1>2. /\ t.child \in Children /\ t.k \in Kinds /\ t.value \in Nat /\ TimerRight(t)
        /\ t.child \in Deferreds
    BY <1>1, FirstTimer DEF TimerRecords, Deferreds
  <1>3. Fired(now, t.child, t.k, t.value) /\ remaining' \in Int
    BY <1>1 DEF Fired, PassOn, Processed, treeVars, FollowInv, DeferredTypes
  <1>4. now.lists = lists /\ now.stack = stack /\ now.timers = Tail(timers) /\ LeftTo(now)
    BY <1>1, NowLeft, FirstTimer DEF Now, LeftTo
  <1>5. ASSUME t.k \in FinalKinds PROVE t.value # NoValue /\ FireReason(t.child, t.k, t.value)
    <2>1. PICK p \in Deferreds : p = parent[t.child]
      BY <1>2 DEF FollowInv, DeferredTypes
    <2>2. p # t.child /\ state[p] = StateOf(t.k) /\ t.value = lists[p][t.k].memory
      BY <1>2, <1>5, <2>1 DEF TimerRight
    <2> QED BY <1>5, <2>1, <2>2, SettledValue DEF FireReason
  <1>6. /\ \A n \in 1..Len(now.stack) : FrameRight(now.stack[n])
        /\ \A n \in 1..Len(now.timers) : TimerRight(now.timers[n])
    BY <1>1, <1>4, FirstTimer DEF FollowInv, AllRight
  <1>7. \A c \in Children : UnderWay(c) =>
           \/ c = t.child /\ t.k \in FinalKinds
           \/ \E n \in 1..Len(now.stack) : HandlerOf(now.stack[n], c)
           \/ \E n \in 1..Len(now.timers) : TimerOf(now.timers[n], c)
    BY <1>1, <1>4, FirstTimer, NowLeft DEF TimerOf
  <1>8. \A e \in Deferreds :
           /\ \A x \in FinalKinds : Uses(lists[e][x], now.lists[e][x])
           /\ OnlyScripts(lists[e]["progress"].fns, now.lists[e]["progress"].fns)
    BY <1>4, OthersSame
  <1> HIDE DEF t, now
  <1> QED BY <1>2, <1>3, <1>4, <1>5, <1>6, <1>7, <1>8, FiredGoes

\* What a handler, a fire or an adoption leaves when it returns.
LEMMA PoppedLeft ==
  ASSUME FollowInv, stack # << >>
  PROVE  /\ LeftTo(Popped) /\ Popped.lists = lists /\ Popped.stack = LeftFrames /\ Popped.timers = timers
         /\ TopFrame \in Frames /\ FrameParts(TopFrame) /\ FrameRight(TopFrame)
         /\ \A n \in 1..Len(LeftFrames) : FrameRight(LeftFrames[n])
         /\ \A n \in 1..Len(timers) : TimerRight(timers[n])
         /\ LeftFrames \in Seq(Frames)
         /\ \A c \in Children : UnderWay(c) =>
              \/ HandlerOf(TopFrame, c)
              \/ \E n \in 1..Len(LeftFrames) : HandlerOf(LeftFrames[n], c)
              \/ \E n \in 1..Len(timers) : TimerOf(timers[n], c)
  <1>1. /\ Len(stack) \in Nat /\ TopFrame \in Frames /\ Len(stack) \in 1..Len(stack) /\ TopFrame = stack[Len(stack)]
        /\ LeftFrames \in Seq(Frames) /\ Len(LeftFrames) = Len(stack) - 1
        /\ \A n \in 1..Len(stack) - 1 : LeftFrames[n] = stack[n]
    BY NowLeft, StackTyped
  <1>2. LeftTo(Popped) /\ Popped.lists = lists /\ Popped.stack = LeftFrames /\ Popped.timers = timers
    BY <1>1, NowLeft DEF Popped, Now, LeftTo
  <1>3. FrameParts(TopFrame)
    BY <1>1, FrameTyped
  <1>4. \A n \in 1..Len(stack) : FrameRight(stack[n])
    BY DEF FollowInv, AllRight
  <1>5. \A n \in 1..Len(stack) : n = Len(stack) \/ n \in 1..Len(stack) - 1
    BY <1>1
  <1>6. \A n \in 1..Len(timers) : TimerRight(timers[n])
    BY DEF FollowInv, AllRight
  <1>7. \A n \in 1..Len(LeftFrames) : n \in 1..Len(stack)
    BY <1>1
  <1> QED BY <1>1, <1>2, <1>3, <1>4, <1>5, <1>6, <1>7, NowLeft

\* A handler that returns a value or throws settles its promise.
LEMMA HandlerGoes == ASSUME FollowInv, HandlerReturns \/ HandlerThrows PROVE GoesOn
  <1>1. stack # << >> /\ TopFrame.at = "handler"
    BY DEF HandlerReturns, HandlerThrows, InHandler
  <1>2. PICK k \in Kinds : /\ DeferredFire(Popped, TopFrame.d, k, calls + 1)
                           /\ TopFrame.k \in FinalKinds <=> k \in FinalKinds
    <2>1. TopFrame.k \in Kinds
      BY <1>1, PoppedLeft DEF FrameParts
    <2> QED BY <2>1, KindFacts DEF HandlerReturns, HandlerThrows
  <1>3. /\ TopFrame.d \in Children /\ TopFrame.d \in Deferreds /\ FrameRight(TopFrame)
    BY <1>1, PoppedLeft DEF FrameParts
  <1>4. calls + 1 \in Nat /\ calls + 1 # NoValue
    BY DEF FollowInv, DeferredTypes, NoValue
  <1>5. Fired(Popped, TopFrame.d, k, calls + 1) /\ remaining' \in Int
    BY <1>2 DEF Fired, HandlerReturns, HandlerThrows, Processed, treeVars, FollowInv, DeferredTypes
  <1>6. ASSUME k \in FinalKinds PROVE FireReason(TopFrame.d, k, calls + 1)
    <2>1. /\ parent[TopFrame.d] # TopFrame.d /\ TopFrame.k \in handled[TopFrame.d] \cap FinalKinds
          /\ state[parent[TopFrame.d]] = StateOf(TopFrame.k)
      BY <1>1, <1>2, <1>3, <1>6 DEF FrameRight
    <2> QED BY <2>1, KindFacts DEF FireReason
  <1>7. \A c \in Children : UnderWay(c) =>
           \/ c = TopFrame.d /\ k \in FinalKinds
           \/ \E n \in 1..Len(LeftFrames) : HandlerOf(LeftFrames[n], c)
           \/ \E n \in 1..Len(timers) : TimerOf(timers[n], c)
    BY <1>1, <1>2, PoppedLeft DEF HandlerOf
  <1> QED BY <1>1, <1>3, <1>4, <1>5, <1>6, <1>7, PoppedLeft, OthersSame, FiredGoes

-----------------------------------------------------------------------------
\* A step that settles nothing: what must be seen of it.
LEMMA Steady ==
  ASSUME FollowInv, DeferredTypes', UNCHANGED <<treeVars, kids, state>>,
         \A d \in Deferreds : Changes(d),
         \A n \in 1..Len(stack') : FrameRight(stack'[n]),
         \A n \in 1..Len(timers') : TimerRight(timers'[n]),
         \A h \in hooks' : h \in hooks \/ HookRight(h),
         \A c \in Children :
           /\ maxDepth[c] > 0 => maxDepth'[c] > 0
           /\ UnderWay(c) =>
                \/ maxDepth'[c] > 0
                \/ \E n \in 1..Len(stack') : HandlerOf(stack'[n], c)
                \/ \E n \in 1..Len(timers') : TimerOf(timers'[n], c)
  PROVE  GoesOn
  <1>1. \A c \in Children : UnderWay(c) => UnderWay(c)' \/ maxDepth'[c] > 0
    BY DEF UnderWay, HandlerOf, TimerOf
  <1>2. Rests
    BY <1>1 DEF Rests
  <1> QED BY <1>2, RestGoesOn

\* What is known before a step.
LEMMA Known ==
  ASSUME FollowInv
  PROVE  /\ DeferredTypes /\ maxDepth \in [Children -> Nat]
         /\ hooks \subseteq [child: Children, depth: Nat, special: BOOLEAN]
         /\ remaining \in Int /\ calls \in Nat /\ calls + 1 # NoValue
         /\ state \in [Deferreds -> {"pending", "resolved", "rejected"}] /\ told \in [Deferreds -> Nat]
         /\ lists \in Lists /\ stack \in Seq(Frames) /\ timers \in Seq(TimerRecords)
         /\ \A n \in 1..Len(stack) : FrameRight(stack[n])
         /\ \A n \in 1..Len(timers) : TimerRight(timers[n])
         /\ \A h \in hooks : HookRight(h)
         /\ Children \subseteq Deferreds
  <1>1. DeferredTypes /\ AllRight
    BY DEF FollowInv
  <1>2. calls \in Nat /\ calls + 1 # NoValue
    BY <1>1 DEF DeferredTypes, NoValue
  <1>3. Children \subseteq Deferreds
    BY DEF Deferreds
  <1> QED BY <1>1, <1>2, <1>3 DEF DeferredTypes, Lists, TimerRecords, AllRight

\* The frame on top is left; its handler, if any, has brought a thenable.
LEMMA PopGoes ==
  ASSUME FollowInv, stack # << >>, stack' = LeftFrames,
         UNCHANGED <<Processed, state, lists, told, maxDepth, timers>>,
         hooks' \subseteq [child: Children, depth: Nat, special: BOOLEAN],
         \A h \in hooks' : h \in hooks \/ HookRight(h),
         ~ (TopFrame.at = "handler" /\ TopFrame.k \in FinalKinds)
  PROVE  GoesOn
  <1>1. UNCHANGED <<treeVars, kids, remaining, calls, asked, answers>>
    BY DEF Processed
  <1>2. DeferredTypes'
    BY <1>1, Known, PoppedLeft, TypesFrom
  <1> QED
    BY <1>1, <1>2, NoList, PoppedLeft, Steady DEF HandlerOf

\* A handler, or a thenable, of c has brought a thenable.
LEMMA AdoptGoes ==
  ASSUME FollowInv, NEW c \in Children, NEW depth \in Nat, NEW st \in Seq(Frames), Adopt(c, depth, st),
         UNCHANGED <<treeVars, kids, remaining, asked, answers>>, calls' \in {calls, calls + 1},
         Explained(c),
         \A n \in 1..Len(st) : FrameRight(st[n]),
         \A x \in Children : UnderWay(x) =>
           \/ x = c
           \/ \E n \in 1..Len(st) : HandlerOf(st[n], x)
           \/ \E n \in 1..Len(timers) : TimerOf(timers[n], x)
  PROVE  GoesOn
  <1> DEFINE f == [at |-> "adopt", d |-> c, depth |-> depth]
             h == [child |-> c, depth |-> depth + 1, special |-> FALSE]
  <1>1. /\ maxDepth' = [maxDepth EXCEPT ![c] = depth + 1] /\ hooks' = hooks \cup {h}
        /\ stack' = Append(st, f) /\ UNCHANGED <<state, lists, told, timers>>
    BY DEF Adopt
  <1>2. f \in Frames /\ FrameRight(f)
    BY DEF Frames, FrameRight
  <1>3. HookRight(h) /\ h \in [child: Children, depth: Nat, special: BOOLEAN]
    BY DEF HookRight
  <1>4. /\ maxDepth' \in [Children -> Nat] /\ maxDepth'[c] > 0
        /\ \A x \in Children : maxDepth[x] > 0 => maxDepth'[x] > 0
    BY <1>1, Known
  <1> HIDE DEF f, h
  <1>5. /\ stack' \in Seq(Frames) /\ \A n \in 1..Len(st) : n \in 1..Len(stack') /\ stack'[n] = st[n]
        /\ \A n \in 1..Len(stack') : (n \in 1..Len(st) /\ stack'[n] = st[n]) \/ stack'[n] = f
    BY <1>1, <1>2, Appended
  <1>6. DeferredTypes'
    BY <1>1, <1>3, <1>4, <1>5, Known, TypesFrom
  <1>7. \A n \in 1..Len(stack') : FrameRight(stack'[n])
    BY <1>2, <1>5
  <1>8. ASSUME NEW x \in Children, UnderWay(x)
        PROVE  \/ maxDepth'[x] > 0
               \/ \E n \in 1..Len(stack') : HandlerOf(stack'[n], x)
               \/ \E n \in 1..Len(timers') : TimerOf(timers'[n], x)
    <2>1. \/ x = c
          \/ \E n \in 1..Len(st) : HandlerOf(st[n], x)
          \/ \E n \in 1..Len(timers) : TimerOf(timers[n], x)
      BY <1>8
    <2> QED BY <1>1, <1>4, <1>5, <2>1
  <1> QED
    BY <1>1, <1>3, <1>4, <1>6, <1>7, <1>8, NoList, Known, Steady

\* The frame on top runs a script, or has.
LEMMA Flagged ==
  ASSUME FollowInv, stack # << >>, TopFrame.at = "fire", NEW b \in BOOLEAN,
         stack' = [stack EXCEPT ![Len(stack)].calling = b]
  PROVE  /\ stack' \in Seq(Frames)
         /\ \A n \in 1..Len(stack') : FrameRight(stack'[n])
         /\ \A c \in Children : (\E n \in 1..Len(stack) : HandlerOf(stack[n], c)) =>
              \E n \in 1..Len(stack') : HandlerOf(stack'[n], c)
  <1>1. /\ stack \in Seq(Frames) /\ Len(stack) \in 1..Len(stack) /\ TopFrame = stack[Len(stack)]
        /\ TopFrame \in Frames
    BY NowLeft, StackTyped
  <1>2. TopFrame \in [at: {"fire"}, d: Deferreds, k: Kinds, calling: BOOLEAN]
    BY <1>1 DEF Frames
  <1>3. PICK f \in [at: {"fire"}, d: Deferreds, k: Kinds, calling: BOOLEAN] : f = [TopFrame EXCEPT !.calling = b]
    BY <1>2
  <1>4. f.at = "fire" /\ f.d = TopFrame.d /\ f.k = TopFrame.k /\ f \in Frames
    BY <1>2, <1>3 DEF Frames
  <1>5. stack' = [stack EXCEPT ![Len(stack)] = f]
    BY <1>1, <1>3
  <1>6. /\ stack' \in Seq(Frames) /\ Len(stack') = Len(stack)
        /\ \A n \in 1..Len(stack) : stack'[n] = IF n = Len(stack) THEN f ELSE stack[n]
    BY <1>1, <1>4, <1>5
  <1>7. FrameRight(TopFrame)
    BY <1>1, Known
  <1>8. FrameRight(f)
    BY <1>4, <1>7 DEF FrameRight
  <1>9. \A n \in 1..Len(stack') : FrameRight(stack'[n])
    BY <1>6, <1>8, Known
  <1>10. ASSUME NEW c \in Children, NEW n \in 1..Len(stack), HandlerOf(stack[n], c)
         PROVE  n \in 1..Len(stack') /\ HandlerOf(stack'[n], c)
    <2>1. n # Len(stack)
      BY <1>1, <1>10 DEF HandlerOf
    <2> QED BY <1>6, <1>10, <2>1
  <1> QED BY <1>6, <1>9, <1>10

\* A thenable's then() that throws rejects the promise, unless the functions it
\* was given are outdated.
LEMMA ThrowGoes == ASSUME FollowInv, ThenThrows PROVE GoesOn
  <1>1. /\ stack # << >> /\ TopFrame.at = "adopt" /\ UNCHANGED <<Processed, maxDepth, hooks>>
        /\ UNCHANGED <<treeVars, kids, remaining, calls, asked, answers>>
    BY DEF ThenThrows, Processed
  <1>2. /\ TopFrame.d \in Children /\ TopFrame.d \in Deferreds /\ Explained(TopFrame.d)
    BY <1>1, PoppedLeft, Known DEF FrameParts, FrameRight
  <1>3. CASE DeferredFire(Popped, TopFrame.d, "fail", calls + 1)
    <2>1. Fired(Popped, TopFrame.d, "fail", calls + 1) /\ remaining' \in Int
      BY <1>1, <1>3, Known DEF Fired
    <2>2. FireReason(TopFrame.d, "fail", calls + 1)
      BY <1>2, KindFacts DEF FireReason, Explained
    <2>3. \A c \in Children : UnderWay(c) =>
           \/ \E n \in 1..Len(LeftFrames) : HandlerOf(LeftFrames[n], c)
           \/ \E n \in 1..Len(timers) : TimerOf(timers[n], c)
      BY <1>1, PoppedLeft DEF HandlerOf
    <2>4. calls + 1 \in Nat /\ "fail" \in Kinds
      BY Known, KindFacts
    <2> QED BY <1>1, <1>2, <2>1, <2>2, <2>3, <2>4, Known, PoppedLeft, OthersSame, FiredGoes
  <1>4. CASE stack' = LeftFrames /\ UNCHANGED <<state, lists, told, timers>>
    BY <1>1, <1>4, Known, PopGoes
  <1> QED BY <1>3, <1>4 DEF ThenThrows

\* A thenable's then() that returns.
LEMMA ThenReturnsGoes == ASSUME FollowInv, ThenReturns PROVE GoesOn
  BY PopGoes, Known DEF ThenReturns, Processed

\* A handler of progress that throws or returns a thenable.
LEMMA NotifiedGoes == ASSUME FollowInv, NotificationThrows \/ NotificationReturnsThenable PROVE GoesOn
  <1>1. /\ stack # << >> /\ TopFrame.at = "handler" /\ TopFrame.k = "progress" /\ stack' = LeftFrames
        /\ UNCHANGED <<Processed, state, lists, told, maxDepth, timers>>
    BY DEF NotificationThrows, NotificationReturnsThenable, InHandler
  <1>2. CASE NotificationThrows
    BY <1>1, <1>2, Known, KindFacts, PopGoes DEF NotificationThrows
  <1>3. CASE NotificationReturnsThenable
    <2> DEFINE h == [child |-> TopFrame.d, depth |-> maxDepth[TopFrame.d], special |-> TRUE]
    <2>1. hooks' = hooks \cup {h}
      BY <1>3 DEF NotificationReturnsThenable
    <2>2. TopFrame.d \in Children
      BY <1>1, PoppedLeft DEF FrameParts
    <2>3. HookRight(h) /\ h \in [child: Children, depth: Nat, special: BOOLEAN]
      BY <2>2, Known DEF HookRight
    <2> HIDE DEF h
    <2> QED BY <1>1, <2>1, <2>3, Known, KindFacts, PopGoes
  <1> QED BY <1>2, <1>3

\* A handler that returns a thenable leaves its promise to it.
LEMMA ThenableGoes == ASSUME FollowInv, HandlerReturnsThenable PROVE GoesOn
  <1>1. /\ stack # << >> /\ TopFrame.at = "handler" /\ TopFrame.k # "progress"
        /\ Adopt(TopFrame.d, maxDepth[TopFrame.d], LeftFrames)
        /\ UNCHANGED <<treeVars, kids, remaining, calls, asked, answers>>
    BY DEF HandlerReturnsThenable, InHandler, Processed
  <1>2. TopFrame.d \in Children /\ TopFrame.k \in FinalKinds /\ FrameRight(TopFrame)
    BY <1>1, PoppedLeft, KindFacts DEF FrameParts
  <1>3. Explained(TopFrame.d)
    BY <1>1, <1>2 DEF FrameRight, Explained
  <1>4. maxDepth[TopFrame.d] \in Nat
    BY <1>2, Known
  <1>5. \A x \in Children : UnderWay(x) =>
           \/ x = TopFrame.d
           \/ \E n \in 1..Len(LeftFrames) : HandlerOf(LeftFrames[n], x)
           \/ \E n \in 1..Len(timers) : TimerOf(timers[n], x)
    BY <1>1, PoppedLeft DEF HandlerOf
  <1> QED BY <1>1, <1>2, <1>3, <1>4, <1>5, PoppedLeft, AdoptGoes

\* A thenable that calls one of the functions it was given.
LEMMA HookGoes == ASSUME FollowInv, CallHook PROVE GoesOn
  <1>1. PICK h \in hooks :
          /\ \/ /\ \E k \in IF h.special THEN {"progress"} ELSE Kinds :
                     DeferredFire(Now, h.child, k, calls + 1)
                /\ UNCHANGED <<maxDepth, hooks>>
             \/ ~ h.special /\ Adopt(h.child, h.depth, stack)
    BY DEF CallHook
  <1>2. /\ UNCHANGED <<treeVars, kids, remaining, asked, answers>> /\ calls' = calls + 1
        /\ UNCHANGED <<treeVars>>
    BY DEF CallHook, Calls
  <1>3. h.child \in Children /\ h.child \in Deferreds /\ h.depth \in Nat /\ (~ h.special => Explained(h.child))
    BY Known DEF HookRight
  <1>4. CASE /\ \E k \in IF h.special THEN {"progress"} ELSE Kinds :
                  DeferredFire(Now, h.child, k, calls + 1)
             /\ UNCHANGED <<maxDepth, hooks>>
    <2>1. PICK k \in Kinds : DeferredFire(Now, h.child, k, calls + 1) /\ (k \in FinalKinds => ~ h.special)
      BY <1>4, KindFacts
    <2>2. Fired(Now, h.child, k, calls + 1) /\ remaining' \in Int
      BY <1>2, <1>4, <2>1, Known DEF Fired
    <2>3. k \in FinalKinds => FireReason(h.child, k, calls + 1)
      BY <1>3, <2>1, KindFacts DEF FireReason, Explained
    <2>4. calls + 1 \in Nat /\ \A e \in Deferreds :
           /\ \A x \in FinalKinds : Uses(lists[e][x], Now.lists[e][x])
           /\ OnlyScripts(lists[e]["progress"].fns, Now.lists[e]["progress"].fns)
      BY Known, NowLeft, OthersSame
    <2> QED BY <1>3, <2>2, <2>3, <2>4, Known, NowLeft, FiredGoes
  <1>5. CASE ~ h.special /\ Adopt(h.child, h.depth, stack)
    BY <1>2, <1>3, <1>5, NowLeft, Known, AdoptGoes
  <1> QED BY <1>1, <1>4, <1>5

-----------------------------------------------------------------------------
\* ls are the lists when list k of d has become m, as a step may have it.
OneUsed(ls, d, k, m) ==
  /\ ls = [lists EXCEPT ![d][k] = m] /\ m \in PromiseList
  /\ k \in FinalKinds => Uses(lists[d][k], m)
  /\ k = "progress" => OnlyScripts(lists[d][k].fns, m.fns)

\* What that makes of the lists: no other list changes, and each is used.
Used(ls, d, k, m) ==
  /\ ls \in Lists /\ ls[d][k] = m
  /\ \A e \in Deferreds, x \in Kinds : e # d \/ x # k => ls[e][x] = lists[e][x]
  /\ \A e \in Deferreds : e # d => ls[e] = lists[e]
  /\ \A e \in Deferreds :
       /\ \A x \in FinalKinds : Uses(lists[e][x], ls[e][x])
       /\ OnlyScripts(lists[e]["progress"].fns, ls[e]["progress"].fns)

\* One list used is all that changes.
LEMMA OneChanged ==
  ASSUME DeferredTypes, NEW d \in Deferreds, NEW k \in Kinds, NEW m, NEW ls, OneUsed(ls, d, k, m)
  PROVE  Used(ls, d, k, m)
  <1>0. /\ ls = [lists EXCEPT ![d][k] = m] /\ m \in PromiseList
        /\ k \in FinalKinds => Uses(lists[d][k], m)
        /\ k = "progress" => OnlyScripts(lists[d][k].fns, m.fns)
    BY DEF OneUsed
  <1>1. lists \in Lists
    BY DEF DeferredTypes, Lists
  <1>2. /\ ls \in Lists /\ ls[d][k] = m
        /\ \A e \in Deferreds, x \in Kinds : e # d \/ x # k => ls[e][x] = lists[e][x]
        /\ \A e \in Deferreds : e # d => ls[e] = lists[e]
    BY <1>0, <1>1 DEF Lists
  <1>3. ASSUME NEW e \in Deferreds
        PROVE  /\ \A x \in FinalKinds : Uses(lists[e][x], ls[e][x])
               /\ OnlyScripts(lists[e]["progress"].fns, ls[e]["progress"].fns)
    <2>1. \A x \in FinalKinds : Uses(lists[e][x], ls[e][x])
      <3> SUFFICES ASSUME NEW x \in FinalKinds PROVE Uses(lists[e][x], ls[e][x])
        OBVIOUS
      <3>1. CASE e = d /\ x = k
        BY <1>0, <1>2, <3>1
      <3>2. CASE ~ (e = d /\ x = k)
        BY <1>2, <3>2, KindFacts DEF Uses
      <3> QED BY <3>1, <3>2
    <2>2. OnlyScripts(lists[e]["progress"].fns, ls[e]["progress"].fns)
      <3>1. CASE e = d /\ k = "progress"
        BY <1>0, <1>2, <3>1
      <3>2. CASE ~ (e = d /\ k = "progress")
        BY <1>2, <3>2, KindFacts DEF OnlyScripts
      <3> QED BY <3>1, <3>2
    <2> QED BY <2>1, <2>2
  <1> QED BY <1>2, <1>3 DEF Used

\* A step that only uses lists changes deferreds as steps may.
LEMMA UsedLists ==
  ASSUME NEW ls, lists' = ls, state' = state,
         \A e \in Deferreds :
              /\ \A x \in FinalKinds : Uses(lists[e][x], ls[e][x])
              /\ OnlyScripts(lists[e]["progress"].fns, ls[e]["progress"].fns)
  PROVE  \A d \in Deferreds : Changes(d)
  BY DEF Changes

\* The list being fired.
LEMMA TopFire ==
  ASSUME FollowInv, FireTop
  PROVE  /\ stack # << >> /\ TopFrame.at = "fire" /\ TopFrame.d \in Deferreds /\ TopFrame.k \in Kinds
         /\ TopList = lists[TopFrame.d][TopFrame.k] /\ TopList \in PromiseList
         /\ TopFrame.k \in FinalKinds =>
              /\ state[TopFrame.d] = StateOf(TopFrame.k) /\ Fires(TopList) /\ TopList.queue = << >>
         /\ ~ AtEnd(TopList) => /\ TopList.index < Len(TopList.fns)
                                /\ TopList.index + 1 \in 1..Len(TopList.fns) /\ TopList.index + 1 > TopList.index
                                /\ NextEntry = TopList.fns[TopList.index + 1] /\ NextEntry \in Entries
         /\ TopList.index \in Nat /\ TopList.memory \in Nat
  <1>1. stack # << >> /\ TopFrame.at = "fire"
    BY DEF FireTop, BetweenCallbacks
  <1>2. TopFrame.d \in Deferreds /\ TopFrame.k \in Kinds /\ FrameRight(TopFrame)
    BY <1>1, PoppedLeft DEF FrameParts
  <1>3. TopList = lists[TopFrame.d][TopFrame.k] /\ TopList \in PromiseList
    BY <1>2, Known DEF TopList, Lists
  <1>4. TopFrame.k \in FinalKinds =>
              /\ state[TopFrame.d] = StateOf(TopFrame.k) /\ Fires(TopList) /\ TopList.queue = << >>
    BY <1>1, <1>2, <1>3 DEF FrameRight, FollowInv, ListsFit
  <1>5. /\ TopList.index \in Nat /\ Len(TopList.fns) \in Nat /\ TopList.memory \in Nat
        /\ \A i \in 1..Len(TopList.fns) : TopList.fns[i] \in Entries
    BY <1>3, ListFields
  <1>6. ~ AtEnd(TopList) => TopList.index < Len(TopList.fns)
    BY <1>5 DEF AtEnd
  <1>7. TopList.index < Len(TopList.fns) => TopList.index + 1 \in 1..Len(TopList.fns) /\ TopList.index + 1 > TopList.index
    BY <1>5
  <1> QED BY <1>1, <1>2, <1>3, <1>4, <1>5, <1>6, <1>7 DEF NextEntry

\* The loop moves on to the next entry.
NextIndex == [TopList EXCEPT !.index = @ + 1]

\* Moving the loop on is a use of the list.
LEMMA MovedLists ==
  ASSUME FollowInv, FireTop, ~ AtEnd(TopList)
  PROVE  /\ NextIndex \in PromiseList /\ MovedOn(TopList, NextIndex)
         /\ Used(Moved, TopFrame.d, TopFrame.k, NextIndex)
  <1>1. NextIndex \in PromiseList /\ MovedOn(TopList, NextIndex)
    BY TopFire, MoveTyped DEF NextIndex
  <1>2. Moved = [lists EXCEPT ![TopFrame.d][TopFrame.k] = NextIndex]
    BY TopFire, Known DEF Moved, Lists, NextIndex
  <1>3. TopFrame.k \in FinalKinds => Uses(lists[TopFrame.d][TopFrame.k], NextIndex)
    BY <1>1, TopFire DEF Uses
  <1>4. TopFrame.k = "progress" => OnlyScripts(lists[TopFrame.d][TopFrame.k].fns, NextIndex.fns)
    BY <1>1, TopFire DEF OnlyScripts, MovedOn
  <1>5. OneUsed(Moved, TopFrame.d, TopFrame.k, NextIndex)
    BY <1>1, <1>2, <1>3, <1>4 DEF OneUsed
  <1> QED BY <1>1, <1>5, TopFire, Known, OneChanged

\* A call to a script's callback.
LEMMA CallScriptGoes == ASSUME FollowInv, AskedRight, CallScript PROVE GoesOn
  <1>1. /\ FireTop /\ ~ AtEnd(TopList) /\ NextEntry.fn = "script"
        /\ lists' = Moved /\ stack' = [stack EXCEPT ![Len(stack)].calling = TRUE]
        /\ UNCHANGED <<treeVars, kids, state, told, maxDepth, hooks, remaining, timers, calls, asked>>
        /\ UNCHANGED treeVars
    BY DEF CallScript
  <1>2. \A d \in Deferreds : Changes(d)
    BY <1>1, MovedLists, UsedLists DEF Used
  <1>3. /\ stack' \in Seq(Frames)
        /\ \A n \in 1..Len(stack') : FrameRight(stack'[n])
        /\ \A c \in Children : (\E n \in 1..Len(stack) : HandlerOf(stack[n], c)) =>
              \E n \in 1..Len(stack') : HandlerOf(stack'[n], c)
    BY <1>1, TopFire, Flagged
  <1>4. answers' \in Seq(asked \X Nat)
    <2>1. answers \in Seq(asked \X Nat)
      BY Known DEF DeferredTypes
    <2>2. CASE TopFrame.k = "progress"
      BY <2>1, <2>2 DEF CallScript
    <2>3. CASE TopFrame.k # "progress"
      <3> DEFINE a == <<TopFrame.d, StateOf(TopFrame.k), NextEntry.id>>
      <3>1. TopFrame.k \in FinalKinds
        BY <1>1, <2>3, TopFire, KindFacts
      <3>2. a \in asked
        <4>1. /\ TopFrame.d \in Deferreds /\ TopList = lists[TopFrame.d][TopFrame.k]
              /\ TopList.index + 1 \in 1..Len(TopList.fns) /\ NextEntry = TopList.fns[TopList.index + 1]
          BY <1>1, TopFire
        <4>2. PICK i \in 1..Len(lists[TopFrame.d][TopFrame.k].fns) :
                NextEntry = lists[TopFrame.d][TopFrame.k].fns[i]
          BY <4>1
        <4> QED BY <1>1, <3>1, <4>1, <4>2 DEF AskedRight
      <3>3. answers' = Append(answers, <<a, TopList.memory>>) /\ TopList.memory \in Nat
        BY <1>1, <2>3, TopFire DEF CallScript
      <3> HIDE DEF a
      <3> QED BY <2>1, <3>2, <3>3
    <2> QED BY <2>2, <2>3
  <1>5. DeferredTypes'
    <2>1. lists' \in Lists
      BY <1>1, MovedLists DEF Used
    <2>2. asked' \subseteq Registrations'
      <3>1. asked \subseteq Registrations /\ asked' = asked
        BY <1>1, Known DEF DeferredTypes
      <3>2. Registrations' = Registrations
        BY <1>1 DEF Registrations
      <3> QED BY <3>1, <3>2
    <2> QED BY <1>1, <1>3, <1>4, <2>1, <2>2, Known DEF DeferredTypes, treeVars, Lists
  <1> QED BY <1>1, <1>2, <1>3, <1>5, Known, NowLeft, Steady

\* The end of a loop.
LEMMA EndFireGoes == ASSUME FollowInv, EndFire PROVE GoesOn
  <1>1. /\ FireTop /\ AtEnd(TopList)
        /\ lists' = [lists EXCEPT ![TopFrame.d][TopFrame.k] = EndOfFire(@)] /\ stack' = LeftFrames
        /\ UNCHANGED <<treeVars, kids, state, told, maxDepth, hooks, remaining, timers, calls, asked, answers>>
        /\ UNCHANGED treeVars
    BY DEF EndFire
  <1>2. PICK m \in PromiseList : m = EndOfFire(TopList)
    BY <1>1, TopFire, EndTyped
  <1>3. lists' = [lists EXCEPT ![TopFrame.d][TopFrame.k] = m]
    BY <1>1, <1>2, TopFire, Known DEF Lists
  <1>4. TopFrame.k \in FinalKinds => Uses(lists[TopFrame.d][TopFrame.k], m)
    BY <1>1, <1>2, TopFire, EndTyped DEF Uses, Fires
  <1>5. TopFrame.k = "progress" => OnlyScripts(lists[TopFrame.d][TopFrame.k].fns, m.fns)
    BY <1>1, <1>2, TopFire, EndTyped DEF OnlyScripts
  <1>6. lists' \in Lists /\ \A e \in Deferreds : Changes(e)
    BY <1>1, <1>3, <1>4, <1>5, TopFire, Known, OneList
  <1>7. DeferredTypes'
    BY <1>1, <1>6, TopFire, Known, PoppedLeft, TypesFrom
  <1> QED BY <1>1, <1>6, <1>7, TopFire, Known, PoppedLeft, Steady DEF HandlerOf

\* A loop over progress callbacks that takes the next value.
LEMMA NotificationGoes == ASSUME FollowInv, NextNotification PROVE GoesOn
  <1>1. /\ FireTop /\ TopList.queue # << >>
        /\ lists' = [lists EXCEPT ![TopFrame.d][TopFrame.k] = NextValueOf(@)]
        /\ told' = [told EXCEPT ![TopFrame.d] = Head(TopList.queue)]
        /\ timers' = timers \o TimersFor(TopFrame.d, TopFrame.k, Head(TopList.queue))
        /\ UNCHANGED <<treeVars, kids, state, maxDepth, hooks, remaining, stack, calls, asked, answers>>
        /\ UNCHANGED treeVars
    BY DEF NextNotification
  <1>2. TopFrame.k = "progress" /\ TopFrame.k \notin FinalKinds
    BY <1>1, TopFire, KindFacts
  <1>3. PICK v \in Nat : v = Head(TopList.queue)
    <2>1. TopList.queue \in Seq(Nat)
      BY <1>1, TopFire, ListFields
    <2> QED BY <1>1, <2>1
  <1>4. PICK m \in PromiseList : m = NextValueOf(TopList) /\ m.fns = TopList.fns
    BY <1>1, TopFire, NextValueTyped
  <1>5. lists' = [lists EXCEPT ![TopFrame.d][TopFrame.k] = m]
    BY <1>1, <1>4, TopFire, Known DEF Lists
  <1>6. lists' \in Lists /\ \A e \in Deferreds : Changes(e)
    <2>1. PICK d \in Deferreds, k \in Kinds : d = TopFrame.d /\ k = TopFrame.k
      BY <1>1, TopFire
    <2>2. lists' = [lists EXCEPT ![d][k] = m] /\ state' = state /\ DeferredTypes
      BY <1>1, <1>5, <2>1, Known
    <2>3. k \notin FinalKinds /\ OnlyScripts(lists[d][k].fns, m.fns)
      BY <1>1, <1>2, <1>4, <2>1, TopFire DEF OnlyScripts
    <2> QED BY <2>2, <2>3, OneList
  <1>d. PICK d \in Deferreds : d = TopFrame.d
    BY <1>1, TopFire
  <1>7. /\ TimersFor(TopFrame.d, TopFrame.k, v) \in Seq(TimerRecords)
        /\ \A i \in 1..Len(TimersFor(TopFrame.d, TopFrame.k, v)) : TimerRight(TimersFor(TopFrame.d, TopFrame.k, v)[i])
    <2>1. TimersFor(TopFrame.d, TopFrame.k, v) \in Seq(TimerRecords)
      BY <1>1, Known, TopFire, TimersTyped
    <2>2. ASSUME NEW i \in 1..Len(TimersFor(TopFrame.d, TopFrame.k, v))
          PROVE  TimerRight(TimersFor(TopFrame.d, TopFrame.k, v)[i])
      <3>1. /\ i \in 1..Len(kids[TopFrame.d]) /\ kids[TopFrame.d][i] \in Children
            /\ TimersFor(TopFrame.d, TopFrame.k, v)[i] = [child |-> kids[TopFrame.d][i], k |-> TopFrame.k, value |-> v]
        <4>1. TopFrame.k \in Kinds /\ DeferredTypes
          BY <1>1, Known, TopFire
        <4> QED BY <1>d, <2>1, <4>1, TimersTyped
      <3>2. parent[kids[TopFrame.d][i]] = TopFrame.d /\ kids[TopFrame.d][i] # TopFrame.d
        BY <1>1, <3>1, TopFire DEF FollowInv, KidsFit
      <3> QED BY <1>2, <3>1, <3>2 DEF TimerRight
    <2> QED BY <2>1, <2>2
  <1>8. /\ timers' \in Seq(TimerRecords) /\ \A n \in 1..Len(timers') : TimerRight(timers'[n])
        /\ \A n \in 1..Len(timers) : n \in 1..Len(timers') /\ timers'[n] = timers[n]
    <2>1. timers' = timers \o TimersFor(TopFrame.d, TopFrame.k, v) /\ timers \in Seq(TimerRecords)
      BY <1>1, <1>3, Known
    <2> DEFINE more == TimersFor(TopFrame.d, TopFrame.k, v)
    <2> HIDE DEF more
    <2>2. timers' = timers \o more /\ timers \in Seq(TimerRecords) /\ more \in Seq(TimerRecords)
      BY <1>7, <2>1 DEF more
    <2>3. \A i \in 1..Len(more) : TimerRight(more[i])
      BY <1>7 DEF more
    <2>4. \A n \in 1..Len(timers) : TimerRight(timers[n])
      BY Known
    <2>5. /\ timers' \in Seq(TimerRecords)
          /\ \A n \in 1..Len(timers) : n \in 1..Len(timers') /\ timers'[n] = timers[n]
          /\ \A n \in 1..Len(timers') :
               \/ n \in 1..Len(timers) /\ timers'[n] = timers[n]
               \/ \E i \in 1..Len(more) : timers'[n] = more[i]
      BY <2>2, Together
    <2> QED BY <2>3, <2>4, <2>5
  <1>9. told' \in [Deferreds -> Nat]
    BY <1>1, <1>3, TopFire, Known
  <1>10. DeferredTypes'
    BY <1>1, <1>6, <1>8, <1>9, Known, TypesFrom
  <1> QED BY <1>1, <1>6, <1>8, <1>10, Known, NowLeft, Steady

\* A callback that returns to the loop.
LEMMA CallbackReturnsGoes == ASSUME FollowInv, CallbackReturns PROVE GoesOn
  <1>1. /\ stack # << >> /\ TopFrame.at = "fire" /\ stack' = [stack EXCEPT ![Len(stack)].calling = FALSE]
        /\ UNCHANGED <<treeVars, kids, state, lists, told, maxDepth, hooks, remaining, timers, calls, asked, answers>>
        /\ UNCHANGED treeVars
    BY DEF CallbackReturns
  <1>2. /\ stack' \in Seq(Frames)
        /\ \A n \in 1..Len(stack') : FrameRight(stack'[n])
        /\ \A c \in Children : (\E n \in 1..Len(stack) : HandlerOf(stack[n], c)) =>
              \E n \in 1..Len(stack') : HandlerOf(stack'[n], c)
    BY <1>1, Flagged
  <1>3. DeferredTypes'
    BY <1>1, <1>2, Known, TypesFrom
  <1> QED BY <1>1, <1>2, <1>3, NoList, Known, NowLeft, Steady

\* A callback that throws out of the loops below it.
LEMMA CallbackThrowsGoes == ASSUME FollowInv, CallbackThrows PROVE GoesOn
  <1>1. /\ stack # << >> /\ TopFrame.at = "fire" /\ stack' = Unwound
        /\ UNCHANGED <<treeVars, kids, state, lists, told, maxDepth, hooks, remaining, timers, calls, asked, answers>>
        /\ UNCHANGED treeVars
    BY DEF CallbackThrows
  <1>2. /\ Unwound \in Seq(Frames) /\ Len(Unwound) \in 0..Len(stack) - 1 /\ Len(stack) \in Nat
        /\ \A n \in 1..Len(Unwound) : Unwound[n] = stack[n]
        /\ \A n \in 1..Len(stack) : n > Len(Unwound) => n = Len(stack) \/ stack[n].at = "fire"
        /\ TopFrame = stack[Len(stack)]
    BY <1>1, Known, StackTyped
  <1>3. \A n \in 1..Len(Unwound) : n \in 1..Len(stack)
    BY <1>2
  <1>4. \A n \in 1..Len(stack) : n \in 1..Len(Unwound) \/ n > Len(Unwound)
    BY <1>2
  <1>5. \A n \in 1..Len(stack') : FrameRight(stack'[n])
    BY <1>1, <1>2, <1>3, Known
  <1>6. \A c \in Children : (\E n \in 1..Len(stack) : HandlerOf(stack[n], c)) =>
              \E n \in 1..Len(stack') : HandlerOf(stack'[n], c)
    BY <1>1, <1>2, <1>4 DEF HandlerOf
  <1>7. DeferredTypes'
    BY <1>1, <1>2, Known, TypesFrom
  <1> QED BY <1>1, <1>5, <1>6, <1>7, NoList, Known, NowLeft, Steady

\* A timer that finds its notification outdated.
LEMMA DropGoes == ASSUME FollowInv, DropTimer PROVE GoesOn
  <1>1. /\ timers # << >> /\ maxDepth[Head(timers).child] > 0 /\ timers' = Tail(timers)
        /\ UNCHANGED <<Processed, state, lists, told, maxDepth, hooks, stack>>
        /\ UNCHANGED <<treeVars, kids, remaining, calls, asked, answers>>
    BY DEF DropTimer, Processed
  <1>2. DeferredTypes'
    BY <1>1, Known, FirstTimer, TypesFrom
  <1>3. ASSUME NEW c \in Children, UnderWay(c)
        PROVE  \/ maxDepth'[c] > 0
               \/ \E n \in 1..Len(stack') : HandlerOf(stack'[n], c)
               \/ \E n \in 1..Len(timers') : TimerOf(timers'[n], c)
    BY <1>1, <1>3, NowLeft, FirstTimer DEF TimerOf
  <1> QED BY <1>1, <1>2, <1>3, NoList, Known, FirstTimer, Steady

\* A timer that calls the handler of its promise.
LEMMA CallHandlerGoes == ASSUME FollowInv, CallHandler PROVE GoesOn
  <1> DEFINE t == Head(timers)
             f == [at |-> "handler", d |-> t.child, k |-> t.k]
  <1>1. /\ stack = << >> /\ timers # << >> /\ t.k \in handled[t.child] /\ stack' = <<f>>
        /\ timers' = Tail(timers)
        /\ UNCHANGED <<treeVars, kids, remaining, calls, asked, answers, state, lists, told, maxDepth, hooks>>
        /\ UNCHANGED <<treeVars>>
    BY DEF CallHandler, Processed
  <1>2. t.child \in Children /\ t.k \in Kinds /\ TimerRight(t)
    BY <1>1, FirstTimer DEF TimerRecords
  <1>3. f \in Frames
    BY <1>2 DEF Frames
  <1>4. FrameRight(f)
    BY <1>1, <1>2 DEF FrameRight, TimerRight
  <1>5. \A c \in Children : TimerOf(t, c) => HandlerOf(f, c)
    BY DEF TimerOf, HandlerOf
  <1> HIDE DEF f
  <1>6. stack' \in Seq(Frames) /\ Len(stack') = 1 /\ stack'[1] = f
    BY <1>1, <1>3
  <1>7. \A n \in 1..Len(stack') : FrameRight(stack'[n])
    BY <1>4, <1>6
  <1>8. DeferredTypes'
    BY <1>1, <1>6, Known, FirstTimer, TypesFrom
  <1>9. ASSUME NEW c \in Children, UnderWay(c)
        PROVE  \/ \E n \in 1..Len(stack') : HandlerOf(stack'[n], c)
               \/ \E n \in 1..Len(timers') : TimerOf(timers'[n], c)
    <2>1. TimerOf(t, c) \/ \E n \in 1..Len(Tail(timers)) : TimerOf(Tail(timers)[n], c)
      BY <1>1, <1>9, NowLeft, FirstTimer
    <2>2. 1 \in 1..Len(stack')
      BY <1>6
    <2> QED BY <1>1, <1>5, <1>6, <2>1, <2>2
  <1> QED BY <1>1, <1>7, <1>8, <1>9, NoList, Known, FirstTimer, Steady

-----------------------------------------------------------------------------
\* A callback of a script joins a list.
ScriptEntry(n) == [fn |-> "script", id |-> n]

\* done(), fail() or progress() of d with a callback of a script.
Joins(d, k) ==
  LET e == [fn |-> "script", id |-> calls + 1]
      added == AddTo(lists[d][k], e)
  IN /\ lists' = [lists EXCEPT ![d][k] = added]
     /\ stack' = IF added.firing /\ ~ lists[d][k].firing
                 THEN Append(stack, FireFrame(d, k)) ELSE stack
     /\ asked' = IF k \in FinalKinds
                 THEN asked \cup {<<d, StateOf(k), e.id>>} ELSE asked

\* The promises there are.
LEMMA CreatedTyped == Created \subseteq Deferreds
  BY DEF Created, Deferreds

\* A registration adds a callback to one list and changes little else.
LEMMA JoinPicked ==
  ASSUME FollowInv, AddCallback
  PROVE  /\ calls' = calls + 1
         /\ UNCHANGED <<treeVars, kids, state, told, maxDepth, hooks, remaining, timers, answers>>
         /\ \E d \in Deferreds, k \in Kinds : Joins(d, k)
  BY CreatedTyped DEF AddCallback, Joins, Calls

\* What becomes of the list.
JoinedList(d, k, m) ==
  /\ m = AddTo(lists[d][k], ScriptEntry(calls + 1)) /\ Used(lists', d, k, m) /\ m \in PromiseList
  /\ ScriptEntry(calls + 1) \in Entries
  /\ k \in FinalKinds =>
       \/ ~ lists[d][k].alive /\ m = lists[d][k]
       \/ lists[d][k].alive /\ AddedTo(lists[d][k], m, ScriptEntry(calls + 1))
  /\ stack' = IF m.firing /\ ~ lists[d][k].firing
              THEN Append(stack, FireFrame(d, k)) ELSE stack

\* A dead list takes no callback, and one that has fired calls it.
LEMMA JoinsList ==
  ASSUME FollowInv, NEW d \in Deferreds, NEW k \in Kinds, Joins(d, k)
  PROVE  \E m \in PromiseList : JoinedList(d, k, m)
  <1>0. PICK e \in Entries : e = ScriptEntry(calls + 1) /\ e.fn = "script" /\ e.id = calls + 1
    <2>1. calls + 1 \in Nat
      BY Known
    <2>2. ScriptEntry(calls + 1) \in Entries /\ ScriptEntry(calls + 1).fn = "script" /\ ScriptEntry(calls + 1).id = calls + 1
      BY <2>1 DEF Entries, ScriptEntry
    <2> QED BY <2>2
  <1>1. /\ lists[d][k] \in PromiseList /\ DeferredTypes
        /\ lists' = [lists EXCEPT ![d][k] = AddTo(lists[d][k], e)]
        /\ stack' = IF AddTo(lists[d][k], e).firing /\ ~ lists[d][k].firing
                    THEN Append(stack, FireFrame(d, k)) ELSE stack
    BY <1>0, Known DEF Lists, Joins, ScriptEntry
  <1>2. PICK m \in PromiseList : m = AddTo(lists[d][k], e)
    BY <1>1, AddToTyped
  <1>3. /\ ~ lists[d][k].alive => m = lists[d][k]
        /\ m.fns \in {lists[d][k].fns, Append(lists[d][k].fns, e)}
        /\ lists[d][k].alive /\ lists[d][k].queue = << >> => AddedTo(lists[d][k], m, e)
    BY <1>1, <1>2, AddToTyped
  <1>4. k \in FinalKinds =>
       \/ ~ lists[d][k].alive /\ m = lists[d][k]
       \/ lists[d][k].alive /\ AddedTo(lists[d][k], m, e)
    BY <1>3 DEF FollowInv, ListsFit
  <1>5. k \in FinalKinds => Uses(lists[d][k], m)
    BY <1>4 DEF Uses
  <1>6. k = "progress" => OnlyScripts(lists[d][k].fns, m.fns)
    BY <1>0, <1>3 DEF OnlyScripts
  <1>7. lists' = [lists EXCEPT ![d][k] = m]
    BY <1>1, <1>2
  <1>8. OneUsed(lists', d, k, m)
    BY <1>5, <1>6, <1>7 DEF OneUsed
  <1>9. Used(lists', d, k, m)
    BY <1>1, <1>8, OneChanged
  <1> QED BY <1>0, <1>1, <1>2, <1>4, <1>9 DEF JoinedList

\* A registration goes on as every step does.
LEMMA AddGoes == ASSUME FollowInv, AddCallback PROVE GoesOn
  <1>1. /\ calls' = calls + 1
        /\ UNCHANGED <<treeVars, kids, state, told, maxDepth, hooks, remaining, timers, answers>>
        /\ UNCHANGED treeVars
    BY JoinPicked
  <1>2. PICK d \in Deferreds, k \in Kinds : Joins(d, k)
    BY JoinPicked
  <1>3. PICK m \in PromiseList : JoinedList(d, k, m)
    BY <1>2, JoinsList
  <1>4. lists' \in Lists /\ \A e \in Deferreds : Changes(e)
    BY <1>1, <1>3, UsedLists DEF JoinedList, Used
  <1>5. FireFrame(d, k) \in Frames /\ FireFrame(d, k).at = "fire" /\ FireFrame(d, k).d = d /\ FireFrame(d, k).k = k
    BY FireFrameTyped DEF FireFrame
  <1>6. m.firing /\ ~ lists[d][k].firing => FrameRight(FireFrame(d, k))
    <2>1. CASE k \notin FinalKinds
      BY <1>5, <2>1 DEF FrameRight
    <2>2. CASE k \in FinalKinds /\ m.firing /\ ~ lists[d][k].firing
      <3>1. lists[d][k].alive /\ lists[d][k].memory # NoValue
        BY <1>3, <2>2 DEF JoinedList, AddedTo
      <3>2. ~ Waits(lists[d][k]) /\ ~ Spent(lists[d][k])
        BY <3>1 DEF Waits, Spent
      <3>3. state[d] = StateOf(k)
        <4>1. state[d] = "pending" \/ state[d] = StateOf(k) \/ state[d] = StateOf(Other(k))
          BY <2>2, KindFacts, Known
        <4> QED BY <2>2, <3>2, <4>1 DEF FollowInv, ListsFit
      <3> QED BY <1>5, <3>3 DEF FrameRight
    <2> QED BY <2>1, <2>2
  <1>7. /\ stack' \in Seq(Frames)
        /\ \A n \in 1..Len(stack') : FrameRight(stack'[n])
        /\ \A n \in 1..Len(stack) : n \in 1..Len(stack') /\ stack'[n] = stack[n]
    <2>1. CASE m.firing /\ ~ lists[d][k].firing
      <3>1. stack' = Append(stack, FireFrame(d, k))
        BY <1>3, <2>1 DEF JoinedList
      <3> QED BY <1>5, <1>6, <2>1, <3>1, Known, Appended
    <2>2. CASE ~ (m.firing /\ ~ lists[d][k].firing)
      <3>1. stack' = stack
        BY <1>3, <2>2 DEF JoinedList
      <3> QED BY <3>1, Known
    <2> QED BY <2>1, <2>2
  <1>8. asked \subseteq asked' /\ asked' \subseteq Registrations'
    <2>1. asked \subseteq Registrations /\ calls \in Nat
      BY Known DEF DeferredTypes
    <2>2. Registrations \subseteq Registrations'
      BY <1>1, <2>1, RegistrationsGrow
    <2>3. k \in FinalKinds => <<d, StateOf(k), calls + 1>> \in Registrations'
      BY <1>1, <2>1, KindFacts DEF Registrations
    <2>4. asked' = IF k \in FinalKinds THEN asked \cup {<<d, StateOf(k), calls + 1>>} ELSE asked
      BY <1>2 DEF Joins
    <2> QED BY <2>1, <2>2, <2>3, <2>4
  <1>9. answers' \in Seq(asked' \X Nat)
    <2>1. answers \in Seq(asked \X Nat) /\ answers' = answers
      BY <1>1, Known DEF DeferredTypes
    <2>2. (asked \X Nat) \subseteq (asked' \X Nat)
      BY <1>8
    <2> QED BY <2>1, <2>2
  <1>10. DeferredTypes'
    <2>1. DeferredTypes /\ calls' \in Nat
      BY <1>1, Known
    <2> QED BY <1>1, <1>4, <1>7, <1>8, <1>9, <2>1 DEF DeferredTypes, treeVars, Lists
  <1>11. \A c \in Children : UnderWay(c) =>
                \/ \E n \in 1..Len(stack') : HandlerOf(stack'[n], c)
                \/ \E n \in 1..Len(timers') : TimerOf(timers'[n], c)
    BY <1>1, <1>7, NowLeft
  <1> QED BY <1>1, <1>4, <1>7, <1>10, <1>11, Known, Steady

\* then() of d: c is the promise it returns.
LEMMA ThenGoes ==
  ASSUME FollowInv, Then
  PROVE  GoesOn /\ UNCHANGED <<state, lists, remaining, asked, answers, stack>> /\ calls' = calls + 1
  <1>1. PICK d \in Created, hs \in {{}, {"done"}, Kinds} :
       /\ Children \ Created # {}
       /\ LET c == CHOOSE x \in Children \ Created : TRUE IN
         /\ parent' = [parent EXCEPT ![c] = d]
         /\ handled' = [handled EXCEPT ![c] = hs]
         /\ kids' = [kids EXCEPT ![d] = Append(@, c)]
         /\ timers' = timers
              \o (IF told[d] = NoValue THEN << >>
                  ELSE <<[child |-> c, k |-> "progress", value |-> told[d]]>>)
              \o (IF state[d] = "pending" THEN << >>
                  ELSE LET k == CHOOSE x \in FinalKinds : StateOf(x) = state[d]
                       IN <<[child |-> c, k |-> k, value |-> lists[d][k].memory]>>)
    BY DEF Then
  <1> DEFINE c == CHOOSE x \in Children \ Created : TRUE
             told1 == IF told[d] = NoValue THEN << >>
                      ELSE <<[child |-> c, k |-> "progress", value |-> told[d]]>>
             k1 == CHOOSE x \in FinalKinds : StateOf(x) = state[d]
             last == [child |-> c, k |-> k1, value |-> lists[d][k1].memory]
             past == IF state[d] = "pending" THEN << >> ELSE <<last>>
  <1>2. UNCHANGED <<state, lists, told, maxDepth, hooks, remaining, stack, asked, answers>> /\ calls' = calls + 1
    BY DEF Then, Calls
  <1>3. /\ parent' = [parent EXCEPT ![c] = d] /\ handled' = [handled EXCEPT ![c] = hs]
        /\ kids' = [kids EXCEPT ![d] = Append(@, c)] /\ timers' = timers \o told1 \o past
    BY <1>1
  <1>4. c \in Children /\ c \notin Created /\ d \in Deferreds /\ d # c /\ parent[c] = c
    <2>1. c \in Children \ Created
      BY <1>1
    <2> QED BY <2>1, CreatedTyped DEF Created
  <1>5. told1 \in Seq(TimerRecords) /\ \A i \in 1..Len(told1) : told1[i].child = c /\ told1[i].k \notin FinalKinds
    <2>1. told[d] \in Nat
      BY <1>4, Known
    <2>2. [child |-> c, k |-> "progress", value |-> told[d]] \in TimerRecords
      BY <1>4, <2>1, KindFacts DEF TimerRecords
    <2> QED BY <2>2, KindFacts
  <1>6. state[d] # "pending" =>
          /\ k1 \in FinalKinds /\ StateOf(k1) = state[d]
          /\ last \in TimerRecords /\ last.child = c /\ last.k = k1 /\ last.value = lists[d][k1].memory
    <2> SUFFICES ASSUME state[d] # "pending" PROVE
          /\ k1 \in FinalKinds /\ StateOf(k1) = state[d]
          /\ last \in TimerRecords /\ last.child = c /\ last.k = k1 /\ last.value = lists[d][k1].memory
      OBVIOUS
    <2>1. \E x \in FinalKinds : StateOf(x) = state[d]
      BY <1>4, KindFacts, Known
    <2>2. k1 \in FinalKinds /\ StateOf(k1) = state[d]
      BY <2>1
    <2> HIDE DEF k1
    <2>3. lists[d][k1].memory \in Nat /\ k1 \in Kinds
      BY <1>4, <2>2, SettledValue, KindFacts
    <2> HIDE DEF c
    <2> QED BY <1>4, <2>2, <2>3 DEF TimerRecords
  <1>7. past \in Seq(TimerRecords) /\ (\A i \in 1..Len(past) : state[d] # "pending" /\ past[i] = last)
        /\ (state[d] # "pending" => 1 \in 1..Len(past) /\ past[1] = last)
    <2> HIDE DEF last
    <2> QED BY <1>6
  <1> HIDE DEF told1, past, last, k1, c
  <1>8. /\ timers' \in Seq(TimerRecords)
        /\ \A n \in 1..Len(timers) : n \in 1..Len(timers') /\ timers'[n] = timers[n]
        /\ state[d] # "pending" => \E n \in 1..Len(timers') : timers'[n] = last
        /\ \A n \in 1..Len(timers') :
             \/ n \in 1..Len(timers) /\ timers'[n] = timers[n]
             \/ timers'[n].child = c /\ timers'[n].k \notin FinalKinds
             \/ state[d] # "pending" /\ timers'[n] = last
    <2>1. PICK both \in Seq(TimerRecords) : both = timers \o told1
      BY <1>5, Known, Together
    <2>2. timers' = both \o past
      BY <1>3, <2>1
    <2>3. /\ \A n \in 1..Len(timers) : n \in 1..Len(both) /\ both[n] = timers[n]
          /\ \A n \in 1..Len(both) : (n \in 1..Len(timers) /\ both[n] = timers[n]) \/ \E j \in 1..Len(told1) : both[n] = told1[j]
      BY <1>5, <2>1, Known, Together
    <2>4. /\ timers' \in Seq(TimerRecords)
          /\ \A n \in 1..Len(both) : n \in 1..Len(timers') /\ timers'[n] = both[n]
          /\ \A n \in 1..Len(past) : Len(both) + n \in 1..Len(timers') /\ timers'[Len(both) + n] = past[n]
          /\ \A n \in 1..Len(timers') : (n \in 1..Len(both) /\ timers'[n] = both[n]) \/ \E j \in 1..Len(past) : timers'[n] = past[j]
      BY <1>7, <2>2, Together
    <2>5. \A n \in 1..Len(timers) : n \in 1..Len(timers') /\ timers'[n] = timers[n]
      BY <2>3, <2>4
    <2>6. state[d] # "pending" => \E n \in 1..Len(timers') : timers'[n] = last
      <3>1. state[d] # "pending" => 1 \in 1..Len(past) /\ past[1] = last
        BY <1>7
      <3>2. 1 \in 1..Len(past) => Len(both) + 1 \in 1..Len(timers') /\ timers'[Len(both) + 1] = past[1]
        BY <2>4
      <3> QED BY <3>1, <3>2
    <2>7. ASSUME NEW n \in 1..Len(timers')
          PROVE  \/ n \in 1..Len(timers) /\ timers'[n] = timers[n]
                 \/ timers'[n].child = c /\ timers'[n].k \notin FinalKinds
                 \/ state[d] # "pending" /\ timers'[n] = last
      <3>1. CASE n \in 1..Len(both) /\ timers'[n] = both[n]
        BY <1>5, <2>3, <3>1
      <3>2. CASE \E j \in 1..Len(past) : timers'[n] = past[j]
        BY <1>7, <3>2
      <3> QED BY <2>4, <3>1, <3>2
    <2> QED BY <2>4, <2>5, <2>6, <2>7
  <1>9. /\ parent' \in [Children -> Deferreds] /\ parent'[c] = d /\ \A x \in Children : x # c => parent'[x] = parent[x]
        /\ handled' \in [Children -> SUBSET Kinds] /\ \A x \in Children : x # c => handled'[x] = handled[x]
    <2>1. hs \in SUBSET Kinds
      BY KindFacts
    <2> QED BY <1>3, <1>4, <2>1, Known DEF DeferredTypes
  <1>10. /\ kids' \in [Deferreds -> Seq(Children)] /\ \A e \in Deferreds : e # d => kids'[e] = kids[e]
         /\ kids'[d] = Append(kids[d], c) /\ kids[d] \in Seq(Children)
    BY <1>3, <1>4, Known DEF DeferredTypes
  <1>11. DeferredTypes'
    <2>1. asked' \subseteq Registrations'
      BY <1>2, Known, RegistrationsGrow DEF DeferredTypes
    <2>2. DeferredTypes /\ calls' \in Nat
      BY <1>2, Known
    <2> QED BY <1>2, <1>8, <1>9, <1>10, <2>1, <2>2 DEF DeferredTypes, TimerRecords
  <1>12. /\ Len(kids[d]) + 1 \in 1..Len(kids'[d]) /\ kids'[d][Len(kids[d]) + 1] = c
         /\ \A i \in 1..Len(kids[d]) : i \in 1..Len(kids'[d]) /\ kids'[d][i] = kids[d][i]
         /\ \A i \in 1..Len(kids'[d]) : (i \in 1..Len(kids[d]) /\ kids'[d][i] = kids[d][i]) \/ kids'[d][i] = c
    BY <1>4, <1>10, Appended
  <1>13. \A e \in Deferreds : \A i \in 1..Len(kids[e]) :
            kids[e][i] \in Children /\ parent[kids[e][i]] = e /\ kids[e][i] # e /\ kids[e][i] # c
    <2> SUFFICES ASSUME NEW e \in Deferreds, NEW i \in 1..Len(kids[e])
                 PROVE  kids[e][i] \in Children /\ parent[kids[e][i]] = e /\ kids[e][i] # e /\ kids[e][i] # c
      OBVIOUS
    <2>1. kids[e] \in Seq(Children)
      BY Known DEF DeferredTypes
    <2>2. kids[e][i] \in Children
      BY <2>1
    <2> QED BY <1>4, <2>2 DEF FollowInv, KidsFit
  <1>14. KidsFit'
    <2>1. \A e \in Deferreds : \A i \in 1..Len(kids'[e]) : parent'[kids'[e][i]] = e /\ kids'[e][i] # e
      <3> SUFFICES ASSUME NEW e \in Deferreds, NEW i \in 1..Len(kids'[e])
                   PROVE  parent'[kids'[e][i]] = e /\ kids'[e][i] # e
        OBVIOUS
      <3>1. CASE e # d
        <4>1. kids'[e] = kids[e] /\ i \in 1..Len(kids[e])
          BY <1>10, <3>1
        <4>2. PICK x \in Children : x = kids[e][i] /\ parent[x] = e /\ x # e /\ x # c
          BY <1>13, <4>1
        <4> QED BY <1>9, <4>1, <4>2
      <3>2. CASE e = d
        BY <1>4, <1>9, <1>12, <1>13, <3>2
      <3> QED BY <3>1, <3>2
    <2>2. \A x \in Children : parent'[x] # x => \E i \in 1..Len(kids'[parent'[x]]) : kids'[parent'[x]][i] = x
      <3> SUFFICES ASSUME NEW x \in Children, parent'[x] # x
                   PROVE  \E i \in 1..Len(kids'[parent'[x]]) : kids'[parent'[x]][i] = x
        OBVIOUS
      <3>1. CASE x = c
        BY <1>9, <1>12, <3>1
      <3>2. CASE x # c
        <4>1. PICK e \in Deferreds : e = parent[x] /\ e = parent'[x]
          BY <1>9, <3>2, Known DEF DeferredTypes
        <4>2. \E i \in 1..Len(kids[e]) : kids[e][i] = x
          BY <4>1 DEF FollowInv, KidsFit
        <4>3. \E i \in 1..Len(kids'[e]) : kids'[e][i] = x
          BY <1>10, <1>12, <4>2
        <4> QED BY <4>1, <4>3
      <3> QED BY <3>1, <3>2
    <2> QED BY <2>1, <2>2 DEF KidsFit
  <1>15. \A x \in Children : parent[x] # x => parent'[x] = parent[x] /\ handled'[x] = handled[x]
    BY <1>4, <1>9
  <1>16. ASSUME NEW t \in TimerRecords, NEW n \in 1..Len(timers'), timers'[n] = t
         PROVE  TimerRight(t) \/ TimerRight(t)'
    <2>1. CASE n \in 1..Len(timers) /\ timers'[n] = timers[n]
      BY <1>16, <2>1, Known
    <2>2. CASE timers'[n].child = c /\ timers'[n].k \notin FinalKinds
      BY <1>4, <1>9, <1>16, <2>2 DEF TimerRight
    <2>3. CASE state[d] # "pending" /\ timers'[n] = last
      BY <1>2, <1>4, <1>6, <1>9, <1>16, <2>3 DEF TimerRight
    <2> QED BY <1>8, <2>1, <2>2, <2>3
  <1>17. ASSUME NEW x \in Children, UnderWay(x) PROVE UnderWay(x)'
    BY <1>2, <1>8, <1>17 DEF UnderWay
  <1>18. ASSUME NEW x \in Children, parent'[x] # x, state'[parent'[x]] # "pending"
         PROVE  (parent'[x] = parent[x] /\ state[parent[x]] # "pending") \/ UnderWay(x)'
    <2>1. CASE x # c
      BY <1>2, <1>9, <1>18, <2>1
    <2>2. CASE x = c
      <3>1. state[d] # "pending"
        BY <1>2, <1>9, <1>18, <2>2
      <3>2. PICK n \in 1..Len(timers') : timers'[n] = last
        BY <1>8, <3>1
      <3> QED BY <1>6, <2>2, <3>1, <3>2 DEF UnderWay
    <2> QED BY <2>1, <2>2
  <1>19. \A x \in Children : state[x] = "pending" => Follows(x)'
    BY <1>2 DEF Follows, Settled
  <1>20. \A e \in Deferreds : Changes(e)
    BY <1>2, NoList
  <1>21. GoesOn
    BY <1>2, <1>11, <1>14, <1>15, <1>16, <1>17, <1>18, <1>19, <1>20, Known DEF GoesOn
  <1> QED BY <1>2, <1>21

-----------------------------------------------------------------------------
\* What when() makes of the lists of its subordinates.
Subscribed ==
  [d \in Deferreds |->
    IF d \notin Roots THEN lists[d]
    ELSE [lists[d] EXCEPT !.done = Subscribe(@, "update"), !.fail = Subscribe(@, "reject")]]

\* A list as when() leaves it: without a callback when it has one already.
SubscribedTo(l, m, f) ==
  /\ m \in PromiseList
  /\ Late(l) => m = l
  /\ ~ Late(l) => (~ l.alive /\ m = l) \/ (l.alive /\ AddedTo(l, m, [fn |-> f, id |-> 0]))

\* when() adds its callback to a list unless the list is late.
LEMMA SubscribeTyped ==
  ASSUME NEW l \in PromiseList, l.queue = << >>, NEW f \in {"update", "reject"}
  PROVE  SubscribedTo(l, Subscribe(l, f), f) /\ Uses(l, Subscribe(l, f))
  <1>1. PICK e \in Entries : e = [fn |-> f, id |-> 0]
    BY DEF Entries
  <1>2. Subscribe(l, f) = IF Late(l) THEN l ELSE AddTo(l, e)
    BY <1>1 DEF Subscribe
  <1>3. /\ AddTo(l, e) \in PromiseList
        /\ ~ l.alive => AddTo(l, e) = l
        /\ l.alive => AddedTo(l, AddTo(l, e), e)
    BY AddToTyped
  <1>4. SubscribedTo(l, Subscribe(l, f), f)
    BY <1>1, <1>2, <1>3 DEF SubscribedTo
  <1> QED BY <1>1, <1>4 DEF SubscribedTo, Uses

\* when() adds to the lists of roots and only to them.
LEMMA SubscribedLists ==
  ASSUME FollowInv
  PROVE  /\ Subscribed \in Lists
         /\ \A d \in Deferreds : d \notin Roots => Subscribed[d] = lists[d]
         /\ \A d \in Roots :
              /\ Subscribed[d]["done"] = Subscribe(lists[d]["done"], "update")
              /\ SubscribedTo(lists[d]["done"], Subscribed[d]["done"], "update")
              /\ Subscribed[d]["fail"] = Subscribe(lists[d]["fail"], "reject")
              /\ SubscribedTo(lists[d]["fail"], Subscribed[d]["fail"], "reject")
              /\ Subscribed[d]["progress"] = lists[d]["progress"]
         /\ \A d \in Deferreds :
              /\ \A k \in FinalKinds : Uses(lists[d][k], Subscribed[d][k])
              /\ OnlyScripts(lists[d]["progress"].fns, Subscribed[d]["progress"].fns)
  <1>1. ASSUME NEW d \in Deferreds
        PROVE  /\ Subscribe(lists[d]["done"], "update") \in PromiseList
               /\ Subscribe(lists[d]["fail"], "reject") \in PromiseList
               /\ Uses(lists[d]["done"], Subscribe(lists[d]["done"], "update"))
               /\ Uses(lists[d]["fail"], Subscribe(lists[d]["fail"], "reject"))
               /\ SubscribedTo(lists[d]["done"], Subscribe(lists[d]["done"], "update"), "update")
               /\ SubscribedTo(lists[d]["fail"], Subscribe(lists[d]["fail"], "reject"), "reject")
    <2>1. \A k \in FinalKinds : lists[d][k] \in PromiseList /\ lists[d][k].queue = << >>
      BY Known, KindFacts DEF FollowInv, ListsFit, Lists
    <2> QED BY <2>1, KindFacts, SubscribeTyped DEF SubscribedTo
  <1>2. \A d \in Deferreds : d \notin Roots => Subscribed[d] = lists[d]
    BY DEF Subscribed
  <1>3. ASSUME NEW d \in Deferreds, d \in Roots
        PROVE  /\ Subscribed[d] \in [Kinds -> PromiseList]
               /\ Subscribed[d]["done"] = Subscribe(lists[d]["done"], "update")
               /\ Subscribed[d]["fail"] = Subscribe(lists[d]["fail"], "reject")
               /\ Subscribed[d]["progress"] = lists[d]["progress"]
    <2>1. lists[d] \in [Kinds -> PromiseList]
      BY Known DEF Lists
    <2>2. PICK m \in PromiseList, n \in PromiseList :
            m = Subscribe(lists[d]["done"], "update") /\ n = Subscribe(lists[d]["fail"], "reject")
      BY <1>1
    <2>3. Subscribed[d] = [lists[d] EXCEPT !["done"] = m, !["fail"] = n]
      BY <1>3, <2>1, <2>2, KindFacts DEF Subscribed
    <2> QED BY <2>1, <2>2, <2>3, KindFacts
  <1>4. Subscribed \in Lists
    <2>1. \A d \in Deferreds : Subscribed[d] \in [Kinds -> PromiseList]
      BY <1>2, <1>3, Known DEF Lists
    <2>2. DOMAIN Subscribed = Deferreds /\ Subscribed = [d \in Deferreds |-> Subscribed[d]]
      BY DEF Subscribed
    <2> QED BY <2>1, <2>2 DEF Lists
  <1>5. ASSUME NEW d \in Deferreds
        PROVE  /\ \A k \in FinalKinds : Uses(lists[d][k], Subscribed[d][k])
               /\ OnlyScripts(lists[d]["progress"].fns, Subscribed[d]["progress"].fns)
    <2>1. CASE d \notin Roots
      BY <1>2, <2>1 DEF Uses, OnlyScripts
    <2>2. CASE d \in Roots
      BY <1>1, <1>3, <2>2, KindFacts DEF OnlyScripts
    <2> QED BY <2>1, <2>2
  <1>6. \A d \in Roots : d \in Deferreds
    BY DEF Deferreds
  <1> QED BY <1>1, <1>2, <1>3, <1>4, <1>5, <1>6

\* Roots of whose list when() need not wait.
Gone(k) == {d \in Roots : Late(lists[d][k])}

\* A root whose list is late has settled with what the list remembers.
LEMMA LateValue ==
  ASSUME FollowInv, NEW k \in FinalKinds, NEW d \in Gone(k)
  PROVE  d \in Deferreds /\ state[d] = StateOf(k) /\ lists[d][k].memory \in Nat /\ lists[d][k].memory # NoValue
  <1>1. d \in Deferreds /\ Late(lists[d][k])
    BY DEF Gone, Deferreds
  <1>2. ~ Waits(lists[d][k]) /\ ~ Spent(lists[d][k])
    BY <1>1 DEF Late, Waits, Spent
  <1>3. state[d] = "pending" \/ state[d] = StateOf(k) \/ state[d] = StateOf(Other(k))
    BY <1>1, KindFacts, Known
  <1>4. state[d] = StateOf(k)
    BY <1>1, <1>2, <1>3 DEF FollowInv, ListsFit
  <1> QED BY <1>1, <1>4, SettledValue

\* The master is neither a root nor a promise of then().
LEMMA MasterTyped ==
  /\ Master \in Deferreds /\ Master \notin Children /\ Master \notin Roots /\ Roots \subseteq Deferreds
  /\ \A r \in Roots : r \notin Children /\ r # Master
  BY DeferredsAssumption DEF Deferreds

\* The step of when(): the master is fired, or not.
WhenStep ==
  /\ calls' = calls + 1 /\ remaining = NotCalled /\ UNCHANGED <<treeVars, kids, maxDepth, hooks, asked, answers>>
  /\ remaining' = Cardinality(Roots \ Gone("done"))
  /\ \/ \E d \in Gone("fail") :
          DeferredFire([Now EXCEPT !.lists = Subscribed], Master, "fail", lists[d]["fail"].memory)
     \/ /\ Gone("fail") = {} /\ remaining' = 0
        /\ DeferredFire([Now EXCEPT !.lists = Subscribed], Master, "done", calls + 1)
     \/ /\ Gone("fail") = {} /\ remaining' # 0
        /\ lists' = Subscribed /\ UNCHANGED <<state, told, timers, stack>>

\* The action of when() in these terms.
LEMMA WhenIs == ASSUME When PROVE WhenStep
  BY DEF When, WhenStep, Gone, Subscribed, Calls

\* What remains after when() is a number of roots.
LEMMA RestTyped == remaining' = Cardinality(Roots \ Gone("done")) => remaining' \in Nat
  <1>1. IsFiniteSet(Roots \ Gone("done"))
    BY DeferredsAssumption, FS_Subset
  <1> QED BY <1>1, FS_CardinalityType

\* The master is fired from what a caller left.
LEMMA MasterFired ==
  ASSUME FollowInv, NEW ls \in Lists, ls[Master] = lists[Master],
         \A e \in Deferreds :
           /\ \A x \in FinalKinds : Uses(lists[e][x], ls[e][x])
           /\ OnlyScripts(lists[e]["progress"].fns, ls[e]["progress"].fns),
         NEW k \in FinalKinds, NEW v \in Nat, v # NoValue,
         DeferredFire([Now EXCEPT !.lists = ls], Master, k, v),
         UNCHANGED <<treeVars, kids, maxDepth, hooks, asked, answers>>, calls' \in {calls, calls + 1},
         remaining' \in Int
  PROVE  GoesOn /\ FireEffect([Now EXCEPT !.lists = ls], Master, k, v)
  <1>1. PICK now : now = [Now EXCEPT !.lists = ls]
    OBVIOUS
  <1>2. now.lists = ls /\ now.stack = stack /\ now.timers = timers /\ LeftTo(now)
    BY <1>1, NowLeft DEF Now, LeftTo
  <1>3. Fired(now, Master, k, v)
    BY <1>1 DEF Fired
  <1>4. FireReason(Master, k, v) /\ Master \in Deferreds /\ k \in Kinds
    BY MasterTyped, KindFacts DEF FireReason
  <1>5. FireStep(now, Master, k, v) /\ GoesOn
    BY <1>2, <1>3, <1>4, Known, NowLeft, FiredGoes
  <1> QED BY <1>1, <1>5 DEF FireStep

\* when() goes on as every step does.
LEMMA WhenGoes == ASSUME FollowInv, When PROVE GoesOn
  <1>1. /\ WhenStep /\ calls' = calls + 1
        /\ UNCHANGED <<treeVars, kids, maxDepth, hooks, asked, answers>>
        /\ UNCHANGED treeVars
    BY WhenIs DEF WhenStep
  <1>2. remaining' \in Int
    BY <1>1, RestTyped DEF WhenStep
  <1>3. /\ Subscribed \in Lists /\ Subscribed[Master] = lists[Master]
        /\ \A d \in Deferreds :
              /\ \A k \in FinalKinds : Uses(lists[d][k], Subscribed[d][k])
              /\ OnlyScripts(lists[d]["progress"].fns, Subscribed[d]["progress"].fns)
    BY SubscribedLists, MasterTyped
  <1>4. ASSUME NEW d \in Gone("fail"),
               DeferredFire([Now EXCEPT !.lists = Subscribed], Master, "fail", lists[d]["fail"].memory)
        PROVE  GoesOn
    BY <1>1, <1>2, <1>3, <1>4, KindFacts, LateValue, MasterFired
  <1>5. ASSUME DeferredFire([Now EXCEPT !.lists = Subscribed], Master, "done", calls + 1)
        PROVE  GoesOn
    <2>1. calls + 1 \in Nat /\ calls + 1 # NoValue
      BY Known
    <2> QED BY <1>1, <1>2, <1>3, <1>5, <2>1, KindFacts, MasterFired
  <1>6. ASSUME lists' = Subscribed, UNCHANGED <<state, told, timers, stack>> PROVE GoesOn
    <2>1. \A d \in Deferreds : Changes(d)
      BY <1>3, <1>6, UsedLists
    <2>2. DeferredTypes'
      BY <1>1, <1>2, <1>3, <1>6, Known, TypesFrom
    <2> QED BY <1>1, <1>6, <2>1, <2>2, Known, NowLeft, Steady
  <1> QED BY <1>1, <1>4, <1>5, <1>6 DEF WhenStep

\* The entry that when() put into a subordinate's list.
LEMMA MasterEntry ==
  ASSUME FollowInv, MasterEntries, CallMaster
  PROVE  /\ FireTop /\ ~ AtEnd(TopList) /\ TopFrame.d \in Roots /\ TopFrame.k \in FinalKinds /\ remaining # NotCalled
         /\ NextEntry.fn = "update" <=> TopFrame.k = "done"
         /\ NextEntry.fn = "reject" <=> TopFrame.k = "fail"
         /\ state[TopFrame.d] = StateOf(TopFrame.k)
         /\ TopList.memory \in Nat /\ TopList.memory # NoValue
  <1>1. FireTop /\ ~ AtEnd(TopList) /\ NextEntry.fn # "script"
    BY DEF CallMaster
  <1>2. NextEntry.fn = "update" \/ NextEntry.fn = "reject"
    BY <1>1, TopFire DEF Entries
  <1>3. PICK d \in Deferreds, k \in Kinds : d = TopFrame.d /\ k = TopFrame.k
    BY <1>1, TopFire
  <1>4. PICK i \in 1..Len(lists[d][k].fns) : NextEntry = lists[d][k].fns[i]
    BY <1>1, <1>3, TopFire
  <1>5. /\ NextEntry.fn = "update" => d \in Roots /\ k = "done" /\ remaining # NotCalled
        /\ NextEntry.fn = "reject" => d \in Roots /\ k = "fail" /\ remaining # NotCalled
    BY <1>4 DEF MasterEntries
  <1>6. k \in FinalKinds
    BY <1>2, <1>5, KindFacts
  <1> QED BY <1>1, <1>2, <1>3, <1>5, <1>6, TopFire, KindFacts DEF Fires

\* So does an update or a reject that the loop calls.
LEMMA CallMasterGoes == ASSUME FollowInv, MasterEntries, CallMaster PROVE GoesOn
  <1>1. /\ UNCHANGED <<treeVars, kids, maxDepth, hooks, calls, asked, answers>>
        /\ UNCHANGED treeVars
    BY DEF CallMaster
  <1>2. /\ FireTop /\ ~ AtEnd(TopList) /\ TopFrame.d \in Roots
        /\ TopList.memory \in Nat /\ TopList.memory # NoValue
    BY MasterEntry
  <1>3. remaining' \in Int
    BY Known DEF CallMaster
  <1>4. /\ Moved \in Lists /\ Moved[Master] = lists[Master]
        /\ \A d \in Deferreds :
              /\ \A k \in FinalKinds : Uses(lists[d][k], Moved[d][k])
              /\ OnlyScripts(lists[d]["progress"].fns, Moved[d]["progress"].fns)
    BY <1>2, MovedLists, MasterTyped DEF Used
  <1>5. ASSUME NEW k \in FinalKinds, DeferredFire([Now EXCEPT !.lists = Moved], Master, k, TopList.memory)
        PROVE  GoesOn
    BY <1>1, <1>2, <1>3, <1>4, <1>5, MasterFired
  <1>6. ASSUME lists' = Moved, UNCHANGED <<state, told, timers, stack>> PROVE GoesOn
    <2>1. \A d \in Deferreds : Changes(d)
      BY <1>4, <1>6, UsedLists
    <2>2. DeferredTypes'
      BY <1>1, <1>3, <1>4, <1>6, Known, TypesFrom
    <2> QED BY <1>1, <1>6, <2>1, <2>2, Known, NowLeft, Steady
  <1> QED BY <1>5, <1>6, KindFacts DEF CallMaster

-----------------------------------------------------------------------------
(***************************************************************************)
(* The kinds of steps, by what they do to the lists of done and fail.      *)
(***************************************************************************)
\* d settles and no other deferred changes.
OneSettles(d) ==
  /\ \E k \in FinalKinds, v \in Nat : Settles(d, k, v)
  /\ \A e \in Deferreds \ {d} : Same(e)

\* At most a root or a promise of a then() settles.
PlainStep ==
  /\ UNCHANGED <<asked, answers, remaining>>
  /\ (\A d \in Deferreds : Same(d)) \/ (\E d \in Roots \cup Children : OneSettles(d))

\* No list of done or fail changes but list k of d.
SameBut(d, k) == \A e \in Deferreds, x \in FinalKinds : e # d \/ x # k => lists'[e][x] = lists[e][x]

\* A fire of d is over.
EndStep(d, k) ==
  /\ UNCHANGED <<state, asked, answers, remaining>> /\ SameBut(d, k)
  /\ Fires(lists[d][k]) /\ AtEnd(lists[d][k]) /\ Ended(lists[d][k], lists'[d][k])
  /\ state[d] = StateOf(k)

\* A fire of d comes to an entry.
ComesTo(d, k, f) ==
  /\ Fires(lists[d][k]) /\ lists[d][k].index + 1 \in 1..Len(lists[d][k].fns)
  /\ lists[d][k].fns[lists[d][k].index + 1].fn = f
  /\ MovedOn(lists[d][k], lists'[d][k]) /\ state[d] = StateOf(k)

\* A fire of d calls a callback of a script, with the value in memory.
CallStep(d, k) ==
  /\ UNCHANGED <<state, asked, remaining>> /\ SameBut(d, k) /\ ComesTo(d, k, "script")
  /\ answers' = Append(answers, <<<<d, StateOf(k), lists[d][k].fns[lists[d][k].index + 1].id>>, lists[d][k].memory>>)

\* A script registers a callback at d.
AddStep(d, k) ==
  /\ UNCHANGED <<state, answers, remaining>> /\ SameBut(d, k) /\ calls' = calls + 1
  /\ asked' = asked \cup {<<d, StateOf(k), calls + 1>>} /\ ScriptEntry(calls + 1) \in Entries
  /\ \/ ~ lists[d][k].alive /\ lists'[d][k] = lists[d][k]
     \/ lists[d][k].alive /\ AddedTo(lists[d][k], lists'[d][k], ScriptEntry(calls + 1))

\* The master fires, if it has not.
MasterSettles(k) == (\E v \in Nat : Settles(Master, k, v)) \/ (Same(Master) /\ state[Master] # "pending")

\* when() subscribes to the roots, and the master settles if it need not wait.
WhenKind ==
  /\ UNCHANGED <<asked, answers>> /\ remaining = NotCalled /\ remaining' = Cardinality(Roots \ Gone("done"))
  /\ \A d \in Deferreds : d # Master => state'[d] = state[d] /\ lists'[d] = Subscribed[d]
  /\ \/ Gone("fail") # {} /\ MasterSettles("fail")
     \/ Gone("fail") = {} /\ remaining' = 0 /\ MasterSettles("done")
     \/ Gone("fail") = {} /\ remaining' # 0 /\ Same(Master)

\* A fire of d comes to the update or the reject of when().
MasterKind(d, k) ==
  /\ UNCHANGED <<asked, answers>> /\ remaining # NotCalled
  /\ \A e \in Deferreds : e # Master =>
       state'[e] = state[e] /\ \A x \in FinalKinds : e # d \/ x # k => lists'[e][x] = lists[e][x]
  /\ \/ /\ k = "done" /\ ComesTo(d, k, "update") /\ remaining' = remaining - 1
        /\ IF remaining' = 0 THEN MasterSettles("done") ELSE Same(Master)
     \/ /\ k = "fail" /\ ComesTo(d, k, "reject") /\ remaining' = remaining
        /\ MasterSettles("fail")

\* Every step is of one of these kinds.
StepKinds ==
  \/ PlainStep
  \/ \E d \in Deferreds, k \in FinalKinds : EndStep(d, k)
  \/ \E d \in Deferreds, k \in FinalKinds : CallStep(d, k)
  \/ \E d \in Deferreds, k \in FinalKinds : AddStep(d, k)
  \/ WhenKind
  \/ \E d \in Roots, k \in FinalKinds : MasterKind(d, k)

\* resolveWith, rejectWith or notifyWith of d and nothing else.
LEMMA PlainFire ==
  ASSUME FollowInv, NEW now, now.lists = lists, NEW d \in Roots \cup Children, NEW k \in Kinds,
         DeferredFire(now, d, k, calls + 1) \/ (\E v \in Nat : (k \in FinalKinds => v # NoValue) /\ DeferredFire(now, d, k, v)),
         UNCHANGED <<asked, answers, remaining>>
  PROVE  PlainStep
  <1>1. d \in Deferreds /\ lists \in Lists
    BY Known DEF Deferreds
  <1>2. PICK v \in Nat : (k \in FinalKinds => v # NoValue) /\ DeferredFire(now, d, k, v)
    BY Known
  <1>3. FireEffect(now, d, k, v)
    BY <1>1, <1>2, FireHas DEF FollowInv
  <1>4. \A e \in Deferreds \ {d} : Same(e)
    BY <1>3 DEF FireEffect, Same
  <1>5. Same(d) \/ (k \in FinalKinds /\ Settles(d, k, v))
    BY <1>3, KindFacts DEF FireEffect
  <1> QED BY <1>1, <1>4, <1>5 DEF PlainStep, OneSettles

\* A step that changes neither a state nor a list is plain.
LEMMA PlainStill ==
  ASSUME state' = state, lists' = lists, UNCHANGED <<asked, answers, remaining>> PROVE PlainStep
  BY DEF PlainStep, Same

\* The fires of scripts, timers, handlers and thenables are plain, and so is
\* what settles nothing.
LEMMA PlainKinds ==
  ASSUME FollowInv, FireRoot \/ Then \/ CallHook \/ Timer
                    \/ CallbackReturns \/ CallbackThrows \/ HandlerReturns \/ HandlerThrows
                    \/ NotificationThrows \/ HandlerReturnsThenable \/ NotificationReturnsThenable
                    \/ ThenReturns \/ ThenThrows
  PROVE  PlainStep
  <1>1. Now.lists = lists /\ (stack # << >> => Popped.lists = lists)
    BY NowLeft, PoppedLeft
  <1>2. CASE FireRoot
    BY <1>1, <1>2, PlainFire DEF FireRoot
  <1>3. CASE Then
    BY <1>3, PlainStill DEF Then
  <1>4. CASE CallHook
    <2>1. PICK h \in hooks :
          \/ \E k \in IF h.special THEN {"progress"} ELSE Kinds : DeferredFire(Now, h.child, k, calls + 1)
          \/ Adopt(h.child, h.depth, stack)
      BY <1>4 DEF CallHook
    <2>2. UNCHANGED <<asked, answers, remaining>> /\ h.child \in Roots \cup Children
      BY <1>4, Known DEF CallHook
    <2>3. CASE Adopt(h.child, h.depth, stack)
      BY <2>2, <2>3, PlainStill DEF Adopt
    <2>4. ASSUME NEW k \in Kinds, DeferredFire(Now, h.child, k, calls + 1) PROVE PlainStep
      BY <1>1, <2>2, <2>4, PlainFire
    <2> QED BY <2>1, <2>3, <2>4, KindFacts
  <1>5. CASE Timer
    <2>1. CASE DropTimer \/ CallHandler
      BY <2>1, PlainStill DEF DropTimer, CallHandler, Processed
    <2>2. CASE PassOn
      <3> DEFINE t == Head(timers)
                 now == [Now EXCEPT !.timers = Tail(@)]
      <3>1. DeferredFire(now, t.child, t.k, t.value) /\ timers # << >>
        BY <2>2 DEF PassOn
      <3>2. t.child \in Roots \cup Children /\ t.k \in Kinds /\ t.value \in Nat /\ TimerRight(t) /\ t.child \in Children
        BY <3>1, FirstTimer DEF TimerRecords
      <3>3. t.k \in FinalKinds => t.value # NoValue
        <4> SUFFICES ASSUME t.k \in FinalKinds PROVE t.value # NoValue
          OBVIOUS
        <4>1. PICK p \in Deferreds : p = parent[t.child]
          BY <3>2, Known DEF DeferredTypes
        <4> QED BY <3>2, <4>1, SettledValue DEF TimerRight
      <3>4. now.lists = lists /\ UNCHANGED <<asked, answers, remaining>>
        BY <2>2 DEF Now, PassOn, Processed
      <3> HIDE DEF t, now
      <3> QED BY <3>1, <3>2, <3>3, <3>4, PlainFire
    <2> QED BY <1>5, <2>1, <2>2 DEF Timer
  <1>6. CASE CallbackReturns \/ CallbackThrows \/ NotificationThrows \/ NotificationReturnsThenable \/ ThenReturns
    BY <1>6, PlainStill DEF CallbackReturns, CallbackThrows, NotificationThrows, NotificationReturnsThenable,
                            ThenReturns, Processed
  <1>7. CASE HandlerReturns \/ HandlerThrows
    <2>1. stack # << >> /\ TopFrame.d \in Roots \cup Children /\ UNCHANGED <<asked, answers, remaining>>
      BY <1>7, PoppedLeft DEF HandlerReturns, HandlerThrows, InHandler, Processed, FrameParts
    <2>2. PICK k \in Kinds : DeferredFire(Popped, TopFrame.d, k, calls + 1)
      BY <1>7, KindFacts DEF HandlerReturns, HandlerThrows
    <2> QED BY <1>1, <2>1, <2>2, PlainFire
  <1>8. CASE HandlerReturnsThenable
    BY <1>8, PlainStill DEF HandlerReturnsThenable, Adopt, Processed
  <1>9. CASE ThenThrows
    <2>1. stack # << >> /\ TopFrame.d \in Roots \cup Children /\ UNCHANGED <<asked, answers, remaining>>
      BY <1>9, PoppedLeft DEF ThenThrows, Processed, FrameParts
    <2>2. CASE DeferredFire(Popped, TopFrame.d, "fail", calls + 1)
      BY <1>1, <2>1, <2>2, KindFacts, PlainFire
    <2>3. CASE UNCHANGED <<state, lists>>
      BY <2>1, <2>3, PlainStill
    <2> QED BY <1>9, <2>2, <2>3 DEF ThenThrows
  <1> QED BY <1>2, <1>3, <1>4, <1>5, <1>6, <1>7, <1>8, <1>9

\* A loop calls a callback, goes over progress or ends.
LEMMA LoopKinds ==
  ASSUME FollowInv, CallScript \/ NextNotification \/ EndFire PROVE StepKinds
  <1>0. /\ FireTop /\ state' = state /\ UNCHANGED <<asked, remaining>>
        /\ NextNotification \/ EndFire => answers' = answers
    BY DEF CallScript, NextNotification, EndFire
  <1>1. /\ TopFrame.d \in Deferreds /\ TopFrame.k \in Kinds /\ TopList = lists[TopFrame.d][TopFrame.k]
        /\ TopList \in PromiseList
    BY <1>0, TopFire
  <1>2. ASSUME NEW m \in PromiseList, lists' = [lists EXCEPT ![TopFrame.d][TopFrame.k] = m]
        PROVE  /\ lists'[TopFrame.d][TopFrame.k] = m
               /\ \A e \in Deferreds, x \in Kinds : e # TopFrame.d \/ x # TopFrame.k => lists'[e][x] = lists[e][x]
    BY <1>1, <1>2, Known DEF Lists
  <1>3. CASE CallScript
    <2>0. ~ AtEnd(TopList) /\ NextEntry.fn = "script" /\ lists' = Moved
      BY <1>3 DEF CallScript
    <2>1. /\ lists'[TopFrame.d][TopFrame.k] = NextIndex /\ MovedOn(TopList, NextIndex)
          /\ \A e \in Deferreds, x \in Kinds : e # TopFrame.d \/ x # TopFrame.k => lists'[e][x] = lists[e][x]
      BY <1>0, <2>0, MovedLists DEF Used
    <2>2. CASE TopFrame.k = "progress"
      <3>1. \A d \in Deferreds : Same(d)
        BY <1>0, <2>1, <2>2, KindFacts DEF Same
      <3>2. answers' = answers
        BY <1>3, <2>2 DEF CallScript
      <3> QED BY <1>0, <3>1, <3>2 DEF PlainStep, StepKinds
    <2>3. CASE TopFrame.k # "progress"
      <3>1. TopFrame.k \in FinalKinds
        BY <1>1, <2>3, KindFacts
      <3>2. SameBut(TopFrame.d, TopFrame.k)
        BY <2>1, KindFacts DEF SameBut
      <3>3. ComesTo(TopFrame.d, TopFrame.k, "script")
        BY <1>0, <1>1, <2>0, <2>1, <3>1, TopFire DEF ComesTo
      <3>4. answers' = Append(answers, <<<<TopFrame.d, StateOf(TopFrame.k), NextEntry.id>>, TopList.memory>>)
        BY <1>3, <2>3 DEF CallScript
      <3>5. CallStep(TopFrame.d, TopFrame.k)
        BY <1>0, <3>2, <3>3, <3>4 DEF CallStep, NextEntry, TopList
      <3> QED BY <1>1, <3>1, <3>5 DEF StepKinds
    <2> QED BY <2>2, <2>3
  <1>4. CASE NextNotification
    <2>0. TopList.queue # << >> /\ lists' = [lists EXCEPT ![TopFrame.d][TopFrame.k] = NextValueOf(@)]
      BY <1>4 DEF NextNotification
    <2>1. TopFrame.k = "progress"
      BY <1>0, <1>1, <2>0, TopFire, KindFacts
    <2>2. PICK m \in PromiseList : m = NextValueOf(TopList)
      BY <1>1, <2>0, NextValueTyped
    <2>3. lists' = [lists EXCEPT ![TopFrame.d][TopFrame.k] = m]
      BY <1>1, <2>0, <2>2, Known DEF Lists
    <2>4. \A d \in Deferreds : Same(d)
      BY <1>0, <1>2, <2>1, <2>3, KindFacts DEF Same
    <2> QED BY <1>0, <1>4, <2>4 DEF PlainStep, StepKinds
  <1>5. CASE EndFire
    <2>0. AtEnd(TopList) /\ lists' = [lists EXCEPT ![TopFrame.d][TopFrame.k] = EndOfFire(@)]
      BY <1>5 DEF EndFire
    <2>1. PICK m \in PromiseList : m = EndOfFire(TopList)
      BY <1>1, EndTyped
    <2>2. lists' = [lists EXCEPT ![TopFrame.d][TopFrame.k] = m]
      BY <1>1, <2>0, <2>1, Known DEF Lists
    <2>3. CASE TopFrame.k = "progress"
      <3>1. \A d \in Deferreds : Same(d)
        BY <1>0, <1>2, <2>2, <2>3, KindFacts DEF Same
      <3> QED BY <1>0, <1>5, <3>1 DEF PlainStep, StepKinds
    <2>4. CASE TopFrame.k # "progress"
      <3>1. TopFrame.k \in FinalKinds /\ Fires(TopList) /\ state[TopFrame.d] = StateOf(TopFrame.k)
        BY <1>0, <1>1, <2>4, KindFacts, TopFire
      <3>2. Ended(TopList, m)
        BY <1>1, <2>1, <3>1, EndTyped DEF Fires
      <3>3. SameBut(TopFrame.d, TopFrame.k) /\ lists'[TopFrame.d][TopFrame.k] = m
        <4>1. /\ lists'[TopFrame.d][TopFrame.k] = m
              /\ \A e \in Deferreds, x \in Kinds : e # TopFrame.d \/ x # TopFrame.k => lists'[e][x] = lists[e][x]
          BY <1>2, <2>2
        <4> QED BY <4>1, KindFacts DEF SameBut
      <3>4. EndStep(TopFrame.d, TopFrame.k)
        BY <1>0, <1>1, <1>5, <2>0, <3>1, <3>2, <3>3 DEF EndStep
      <3> QED BY <1>1, <3>1, <3>4 DEF StepKinds
    <2> QED BY <2>3, <2>4
  <1> QED BY <1>3, <1>4, <1>5

\* A registration is one to a final list, or plain.
LEMMA AddKinds == ASSUME FollowInv, AddCallback PROVE StepKinds
  <1>1. /\ calls' = calls + 1
        /\ UNCHANGED <<treeVars, kids, state, told, maxDepth, hooks, remaining, timers, answers>>
    BY JoinPicked
  <1>2. PICK d \in Deferreds, k \in Kinds : Joins(d, k)
    BY JoinPicked
  <1>3. PICK m \in PromiseList : JoinedList(d, k, m)
    BY <1>2, JoinsList
  <1>4. /\ lists'[d][k] = m
        /\ \A e \in Deferreds, x \in Kinds : e # d \/ x # k => lists'[e][x] = lists[e][x]
    BY <1>3 DEF JoinedList, Used
  <1>5. asked' = IF k \in FinalKinds THEN asked \cup {<<d, StateOf(k), calls + 1>>} ELSE asked
    BY <1>2 DEF Joins
  <1>6. CASE k \in FinalKinds
    <2>1. SameBut(d, k)
      BY <1>4, KindFacts DEF SameBut
    <2>2. /\ ScriptEntry(calls + 1) \in Entries
          /\ \/ ~ lists[d][k].alive /\ m = lists[d][k]
             \/ lists[d][k].alive /\ AddedTo(lists[d][k], m, ScriptEntry(calls + 1))
      BY <1>3, <1>6 DEF JoinedList
    <2>3. AddStep(d, k)
      BY <1>1, <1>4, <1>5, <1>6, <2>1, <2>2 DEF AddStep
    <2> QED BY <1>6, <2>3 DEF StepKinds
  <1>7. CASE k \notin FinalKinds
    <2>1. \A e \in Deferreds : Same(e)
      BY <1>1, <1>4, <1>7, KindFacts DEF Same
    <2> QED BY <1>1, <1>5, <1>7, <2>1 DEF PlainStep, StepKinds
  <1> QED BY <1>6, <1>7

\* What a fire makes of the master.
LEMMA MasterEffect ==
  ASSUME NEW ls, NEW k \in FinalKinds, NEW v \in Nat, FireEffect([Now EXCEPT !.lists = ls], Master, k, v)
  PROVE  /\ \A d \in Deferreds : d # Master => state'[d] = state[d] /\ lists'[d] = ls[d]
         /\ MasterSettles(k)
  <1>1. [Now EXCEPT !.lists = ls].lists = ls
    BY DEF Now
  <1> QED BY <1>1 DEF FireEffect, MasterSettles

\* The action of when() is of its kind.
LEMMA WhenKinds == ASSUME FollowInv, When PROVE WhenKind
  <1>1. /\ WhenStep /\ calls' = calls + 1 /\ UNCHANGED <<treeVars, kids, maxDepth, hooks, asked, answers>>
        /\ remaining = NotCalled /\ remaining' = Cardinality(Roots \ Gone("done")) /\ remaining' \in Int
    BY WhenIs, RestTyped DEF WhenStep
  <1>2. /\ Subscribed \in Lists /\ Subscribed[Master] = lists[Master]
        /\ \A d \in Deferreds :
              /\ \A k \in FinalKinds : Uses(lists[d][k], Subscribed[d][k])
              /\ OnlyScripts(lists[d]["progress"].fns, Subscribed[d]["progress"].fns)
    BY SubscribedLists, MasterTyped
  <1>3. ASSUME NEW k \in FinalKinds, NEW v \in Nat, v # NoValue,
               DeferredFire([Now EXCEPT !.lists = Subscribed], Master, k, v)
        PROVE  /\ \A d \in Deferreds : d # Master => state'[d] = state[d] /\ lists'[d] = Subscribed[d]
               /\ MasterSettles(k)
    <2>1. FireEffect([Now EXCEPT !.lists = Subscribed], Master, k, v)
      BY <1>1, <1>2, <1>3, MasterFired
    <2> QED BY <2>1, MasterEffect
  <1>4. CASE \E d \in Gone("fail") :
               DeferredFire([Now EXCEPT !.lists = Subscribed], Master, "fail", lists[d]["fail"].memory)
    <2>1. PICK d \in Gone("fail") :
               DeferredFire([Now EXCEPT !.lists = Subscribed], Master, "fail", lists[d]["fail"].memory)
      BY <1>4
    <2>2. lists[d]["fail"].memory \in Nat /\ lists[d]["fail"].memory # NoValue /\ "fail" \in FinalKinds
      BY KindFacts, LateValue
    <2> QED BY <1>1, <1>3, <2>1, <2>2 DEF WhenKind
  <1>5. CASE Gone("fail") = {} /\ remaining' = 0
             /\ DeferredFire([Now EXCEPT !.lists = Subscribed], Master, "done", calls + 1)
    <2>1. calls + 1 \in Nat /\ calls + 1 # NoValue /\ "done" \in FinalKinds
      BY Known, KindFacts
    <2> QED BY <1>1, <1>3, <1>5, <2>1 DEF WhenKind
  <1>6. CASE Gone("fail") = {} /\ remaining' # 0 /\ lists' = Subscribed /\ state' = state
    <2>1. Same(Master)
      BY <1>2, <1>6 DEF Same
    <2> QED BY <1>1, <1>6, <2>1 DEF WhenKind
  <1> QED BY <1>1, <1>4, <1>5, <1>6 DEF WhenStep

\* Calls to the entries of when() are of theirs.
LEMMA MasterKinds ==
  ASSUME FollowInv, MasterEntries, CallMaster
  PROVE  TopFrame.d \in Roots /\ TopFrame.k \in FinalKinds /\ MasterKind(TopFrame.d, TopFrame.k)
  <1>1. /\ FireTop /\ ~ AtEnd(TopList) /\ TopFrame.d \in Roots /\ TopFrame.k \in FinalKinds /\ remaining # NotCalled
        /\ NextEntry.fn = "update" <=> TopFrame.k = "done"
        /\ NextEntry.fn = "reject" <=> TopFrame.k = "fail"
        /\ state[TopFrame.d] = StateOf(TopFrame.k)
        /\ TopList.memory \in Nat /\ TopList.memory # NoValue
    BY MasterEntry
  <1>2. /\ UNCHANGED <<treeVars, kids, maxDepth, hooks, calls, asked, answers>> /\ remaining' \in Int
    BY Known DEF CallMaster
  <1>3. /\ Moved \in Lists /\ Moved[Master] = lists[Master]
        /\ \A d \in Deferreds :
              /\ \A k \in FinalKinds : Uses(lists[d][k], Moved[d][k])
              /\ OnlyScripts(lists[d]["progress"].fns, Moved[d]["progress"].fns)
    BY <1>1, MovedLists, MasterTyped DEF Used
  <1>4. /\ Moved[TopFrame.d][TopFrame.k] = NextIndex /\ MovedOn(TopList, NextIndex)
        /\ \A e \in Deferreds, x \in Kinds : e # TopFrame.d \/ x # TopFrame.k => Moved[e][x] = lists[e][x]
    BY <1>1, MovedLists DEF Used
  <1>5. ASSUME NEW k \in FinalKinds, DeferredFire([Now EXCEPT !.lists = Moved], Master, k, TopList.memory)
        PROVE  /\ \A d \in Deferreds : d # Master => state'[d] = state[d] /\ lists'[d] = Moved[d]
               /\ MasterSettles(k)
    <2>1. FireEffect([Now EXCEPT !.lists = Moved], Master, k, TopList.memory)
      BY <1>1, <1>2, <1>3, <1>5, MasterFired
    <2> QED BY <1>1, <2>1, MasterEffect
  <1>6. ASSUME lists' = Moved, state' = state
        PROVE  (\A d \in Deferreds : d # Master => state'[d] = state[d] /\ lists'[d] = Moved[d]) /\ Same(Master)
    BY <1>3, <1>6 DEF Same
  <1>7. ASSUME \A d \in Deferreds : d # Master => state'[d] = state[d] /\ lists'[d] = Moved[d]
        PROVE  /\ \A e \in Deferreds : e # Master =>
                    state'[e] = state[e] /\ \A x \in FinalKinds : e # TopFrame.d \/ x # TopFrame.k => lists'[e][x] = lists[e][x]
               /\ ComesTo(TopFrame.d, TopFrame.k, NextEntry.fn)
    <2>1. lists'[TopFrame.d] = Moved[TopFrame.d]
      BY <1>1, <1>7, MasterTyped
    <2>2. ComesTo(TopFrame.d, TopFrame.k, NextEntry.fn)
      BY <1>1, <1>4, <2>1, TopFire DEF ComesTo
    <2> QED BY <1>4, <1>7, <2>2, KindFacts
  <1>8. CASE NextEntry.fn = "update"
    <2>1. /\ remaining' = remaining - 1
          /\ IF remaining' = 0
             THEN DeferredFire([Now EXCEPT !.lists = Moved], Master, "done", TopList.memory)
             ELSE lists' = Moved /\ state' = state
      BY <1>8 DEF CallMaster
    <2> QED BY <1>1, <1>2, <1>5, <1>6, <1>7, <1>8, <2>1, KindFacts DEF MasterKind
  <1>9. CASE NextEntry.fn = "reject"
    <2>1. /\ remaining' = remaining
          /\ DeferredFire([Now EXCEPT !.lists = Moved], Master, "fail", TopList.memory)
      BY <1>9 DEF CallMaster
    <2> QED BY <1>1, <1>2, <1>5, <1>7, <1>9, <2>1, KindFacts DEF MasterKind
  <1> QED BY <1>1, <1>8, <1>9, KindFacts

\* Every action of the system is of one of the kinds.
LEMMA EveryStep == ASSUME FollowInv, MasterEntries, DeferredNext PROVE StepKinds
  <1>1. CASE AddCallback
    BY <1>1, AddKinds
  <1>2. CASE When
    BY <1>2, WhenKinds DEF StepKinds
  <1>3. CASE CallMaster
    BY <1>3, MasterKinds DEF StepKinds
  <1>4. CASE CallScript \/ NextNotification \/ EndFire
    BY <1>4, LoopKinds
  <1>5. CASE FireRoot \/ Then \/ CallHook \/ Timer \/ CodeReturns
    BY <1>5, PlainKinds DEF CodeReturns, StepKinds
  <1> QED BY <1>1, <1>2, <1>3, <1>4, <1>5 DEF DeferredNext, Script, Loop

\* Every action goes on as every step does.
LEMMA EveryGoes == ASSUME FollowInv, AskedRight, MasterEntries, DeferredNext PROVE GoesOn
  <1>1. CASE FireRoot \/ AddCallback \/ Then \/ When \/ CallHook
    BY <1>1, RootGoes, AddGoes, ThenGoes, WhenGoes, HookGoes
  <1>2. CASE Loop
    BY <1>2, CallScriptGoes, CallMasterGoes, NotificationGoes, EndFireGoes DEF Loop
  <1>3. CASE Timer
    BY <1>3, DropGoes, PassOnGoes, CallHandlerGoes DEF Timer
  <1>4. CASE CodeReturns
    BY <1>4, CallbackReturnsGoes, CallbackThrowsGoes, HandlerGoes, NotifiedGoes, ThenableGoes,
       ThenReturnsGoes, ThrowGoes DEF CodeReturns
  <1> QED BY <1>1, <1>2, <1>3, <1>4 DEF DeferredNext, Script

-----------------------------------------------------------------------------
(***************************************************************************)
(* The entries of a list that are still to be called.                      *)
(***************************************************************************)
\* The entries f of l ahead of the loop are those of m.
Stays(l, m, f) ==
  /\ \A i \in 1..Len(m.fns) : m.fns[i].fn = f =>
       i \in 1..Len(l.fns) /\ l.fns[i] = m.fns[i] /\ (i <= l.index => i <= m.index)
  /\ \A i \in 1..Len(l.fns) : l.fns[i].fn = f /\ i > l.index =>
       i \in 1..Len(m.fns) /\ m.fns[i] = l.fns[i] /\ i > m.index

\* l has an entry f that the loop is still to call.
AheadOf(l, f) == \E i \in 1..Len(l.fns) : i > l.index /\ l.fns[i].fn = f

\* Such entries are ahead before and after.
LEMMA StaysAhead ==
  ASSUME NEW l \in PromiseList, NEW m \in PromiseList, NEW f, Stays(l, m, f)
  PROVE  AheadOf(l, f) <=> AheadOf(m, f)
  <1>1. l.index \in Nat /\ m.index \in Nat
    BY ListFields
  <1>2. AheadOf(l, f) => AheadOf(m, f)
    BY DEF Stays, AheadOf
  <1>3. ASSUME NEW i \in 1..Len(m.fns), i > m.index, m.fns[i].fn = f
        PROVE  i \in 1..Len(l.fns) /\ i > l.index /\ l.fns[i].fn = f
    <2>1. i \in 1..Len(l.fns) /\ l.fns[i] = m.fns[i] /\ (i <= l.index => i <= m.index)
      BY <1>3 DEF Stays
    <2> QED BY <1>1, <1>3, <2>1
  <1> QED BY <1>2, <1>3 DEF AheadOf

\* A list left alone keeps its entries.
LEMMA StaysSame == ASSUME NEW l, NEW f PROVE Stays(l, l, f)
  BY DEF Stays

\* So does one that is fired,
LEMMA StaysFired ==
  ASSUME NEW l, NEW m, NEW v, FiredWith(l, m, v), NEW f PROVE Stays(l, m, f)
  BY DEF Stays, FiredWith, SamePlace

\* one whose loop, over every entry, ends,
LEMMA StaysEnded ==
  ASSUME NEW l \in PromiseList, NEW m \in PromiseList, AtEnd(l), Ended(l, m), NEW f PROVE Stays(l, m, f)
  <1>1. l.index \in Nat /\ Len(l.fns) \in Nat /\ l.index >= Len(l.fns)
    BY ListFields DEF AtEnd
  <1>2. \A i \in 1..Len(m.fns) : FALSE
    BY DEF Ended
  <1>3. \A i \in 1..Len(l.fns) : ~ i > l.index
    BY <1>1
  <1> QED BY <1>2, <1>3 DEF Stays

\* one whose loop comes to another entry,
LEMMA StaysMoved ==
  ASSUME NEW l \in PromiseList, NEW m \in PromiseList, MovedOn(l, m), l.index + 1 \in 1..Len(l.fns),
         NEW f, l.fns[l.index + 1].fn # f
  PROVE  Stays(l, m, f)
  <1>1. l.index \in Nat /\ m.index = l.index + 1 /\ m.fns = l.fns
    BY ListFields DEF MovedOn
  <1>2. ASSUME NEW i \in 1..Len(l.fns), l.fns[i].fn = f, i > l.index PROVE i > m.index
    <2>1. i # l.index + 1
      BY <1>2
    <2> QED BY <1>1, <1>2, <2>1
  <1>3. \A i \in 1..Len(m.fns) : i <= l.index => i <= m.index
    BY <1>1
  <1> QED BY <1>1, <1>2, <1>3 DEF Stays

\* What joins a list does so at its end, ahead of the loop.
LEMMA Joined ==
  ASSUME NEW l \in PromiseList, NEW m \in PromiseList, Waits(l) \/ Fires(l), NEW e \in Entries, AddedTo(l, m, e)
  PROVE  /\ m.fns = Append(l.fns, e) /\ Len(m.fns) = Len(l.fns) + 1
         /\ \A i \in 1..Len(l.fns) : i \in 1..Len(m.fns) /\ m.fns[i] = l.fns[i] /\ m.index = l.index
         /\ Len(l.fns) + 1 \in 1..Len(m.fns) /\ m.fns[Len(l.fns) + 1] = e /\ Len(l.fns) + 1 > m.index
         /\ \A i \in 1..Len(m.fns) : i \in 1..Len(l.fns) \/ i = Len(l.fns) + 1
  <1>1. /\ m.fns = Append(l.fns, e) /\ l.fns \in Seq(Entries) /\ Len(l.fns) \in Nat /\ l.index \in Nat
    BY ListFields DEF AddedTo
  <1>2. /\ Len(m.fns) = Len(l.fns) + 1
        /\ \A i \in 1..Len(l.fns) : i \in 1..Len(m.fns) /\ m.fns[i] = l.fns[i]
        /\ Len(l.fns) + 1 \in 1..Len(m.fns) /\ m.fns[Len(l.fns) + 1] = e
    BY <1>1, Appended
  <1>3. \A i \in 1..Len(m.fns) : i \in 1..Len(l.fns) \/ i = Len(l.fns) + 1
    BY <1>1, <1>2
  <1>4. CASE l.memory = NoValue \/ l.firing
    <2>1. m.index = l.index
      BY <1>4 DEF AddedTo
    <2>2. l.index <= Len(l.fns)
      BY <1>1 DEF Waits, Fires
    <2>3. Len(l.fns) + 1 > m.index
      BY <1>1, <2>1, <2>2
    <2> QED BY <1>1, <1>2, <1>3, <2>1, <2>3
  <1>5. CASE ~ (l.memory = NoValue \/ l.firing)
    <2>1. l.fns = << >> /\ m.index = Len(l.fns)
      BY <1>5 DEF AddedTo, Fires, Waits
    <2>2. \A i \in 1..Len(l.fns) : FALSE
      BY <2>1
    <2>3. Len(l.fns) + 1 > m.index
      BY <1>1, <2>1
    <2> QED BY <1>1, <1>2, <1>3, <2>2, <2>3
  <1> QED BY <1>4, <1>5

\* and one that another entry joins.
LEMMA StaysJoined ==
  ASSUME NEW l \in PromiseList, NEW m \in PromiseList, Waits(l) \/ Fires(l), NEW e \in Entries, AddedTo(l, m, e),
         NEW f, e.fn # f
  PROVE  Stays(l, m, f)
  <1>1. /\ \A i \in 1..Len(l.fns) : i \in 1..Len(m.fns) /\ m.fns[i] = l.fns[i] /\ m.index = l.index
        /\ m.fns[Len(l.fns) + 1] = e
        /\ \A i \in 1..Len(m.fns) : i \in 1..Len(l.fns) \/ i = Len(l.fns) + 1
    BY Joined
  <1> QED BY <1>1 DEF Stays

\* A list that can be added to waits or has fired.
LEMMA AliveFits ==
  ASSUME FollowInv, NEW d \in Deferreds, NEW k \in FinalKinds
  PROVE  /\ lists[d][k] \in PromiseList
         /\ lists[d][k].alive => Waits(lists[d][k]) \/ Fires(lists[d][k])
         /\ state[d] = "pending" => Waits(lists[d][k])
         /\ state[d] = StateOf(k) => Fires(lists[d][k])
         /\ state[d] = StateOf(Other(k)) => Spent(lists[d][k])
  <1>1. state[d] = "pending" \/ state[d] = StateOf(k) \/ state[d] = StateOf(Other(k))
    BY KindFacts, Known
  <1>2. lists[d][k] \in PromiseList
    BY KindFacts, Known DEF Lists
  <1> QED BY <1>1, <1>2 DEF FollowInv, ListsFit, Spent

\* A step calls and adds no entry f; a list that loses the race is emptied.
Quiet(f) ==
  \A d \in Deferreds, k \in FinalKinds :
    \/ Stays(lists[d][k], lists'[d][k], f)
    \/ lists'[d][k].fns = << >> /\ state[d] = "pending" /\ state'[d] = StateOf(Other(k))

\* A deferred left alone keeps its entries,
LEMMA QuietSame ==
  ASSUME NEW d, Same(d), NEW f PROVE \A k \in FinalKinds : Stays(lists[d][k], lists'[d][k], f)
  BY StaysSame DEF Same

\* and one that settles those of the list it fires.
LEMMA QuietSettles ==
  ASSUME NEW d \in Deferreds, NEW x \in FinalKinds, NEW v \in Nat, Settles(d, x, v), NEW f
  PROVE  \A k \in FinalKinds :
           \/ Stays(lists[d][k], lists'[d][k], f)
           \/ lists'[d][k].fns = << >> /\ state[d] = "pending" /\ state'[d] = StateOf(Other(k))
  <1> SUFFICES ASSUME NEW k \in FinalKinds
               PROVE  \/ Stays(lists[d][k], lists'[d][k], f)
                      \/ lists'[d][k].fns = << >> /\ state[d] = "pending" /\ state'[d] = StateOf(Other(k))
    OBVIOUS
  <1>1. CASE k = x
    BY <1>1, StaysFired DEF Settles
  <1>2. CASE k # x
    <2>1. k = Other(x) /\ x = Other(k)
      BY <1>2, KindFacts
    <2> QED BY <2>1 DEF Settles, Spent
  <1> QED BY <1>1, <1>2

\* A plain step is quiet about every kind of entries,
LEMMA QuietPlain == ASSUME PlainStep, NEW f PROVE Quiet(f)
  <1>1. CASE \A d \in Deferreds : Same(d)
    BY <1>1, QuietSame DEF Quiet
  <1>2. ASSUME NEW d \in Roots \cup Children, OneSettles(d) PROVE Quiet(f)
    <2>1. d \in Deferreds
      BY DEF Deferreds
    <2>2. PICK k \in FinalKinds, v \in Nat : Settles(d, k, v)
      BY <1>2 DEF OneSettles
    <2>3. \A e \in Deferreds \ {d} : Same(e)
      BY <1>2 DEF OneSettles
    <2> QED BY <2>1, <2>2, <2>3, QuietSame, QuietSettles DEF Quiet
  <1> QED BY <1>1, <1>2 DEF PlainStep

\* as is one that keeps the entries in the one list it changes,
LEMMA QuietOne ==
  ASSUME NEW d \in Deferreds, NEW k \in FinalKinds, SameBut(d, k), NEW f, Stays(lists[d][k], lists'[d][k], f)
  PROVE  Quiet(f)
  <1> SUFFICES ASSUME NEW e \in Deferreds, NEW x \in FinalKinds PROVE Stays(lists[e][x], lists'[e][x], f)
    BY DEF Quiet
  <1>1. CASE e = d /\ x = k
    BY <1>1
  <1>2. CASE ~ (e = d /\ x = k)
    <2>1. lists'[e][x] = lists[e][x]
      BY <1>2 DEF SameBut
    <2> QED BY <2>1, StaysSame
  <1> QED BY <1>1, <1>2

\* What is known of the lists after a step.
LEMMA NextLists ==
  ASSUME GoesOn, NEW d \in Deferreds, NEW k \in FinalKinds PROVE lists'[d][k] \in PromiseList
  BY KindFacts DEF GoesOn, DeferredTypes

\* the end of a loop,
LEMMA QuietEnd ==
  ASSUME FollowInv, GoesOn, NEW d \in Deferreds, NEW k \in FinalKinds, EndStep(d, k), NEW f
  PROVE  Quiet(f)
  <1>1. Stays(lists[d][k], lists'[d][k], f)
    BY AliveFits, NextLists, StaysEnded DEF EndStep
  <1> QED BY <1>1, QuietOne DEF EndStep

\* a call to a callback of a script about entries of when(),
LEMMA QuietCall ==
  ASSUME FollowInv, GoesOn, NEW d \in Deferreds, NEW k \in FinalKinds, CallStep(d, k), NEW f, f # "script"
  PROVE  Quiet(f)
  <1>1. Stays(lists[d][k], lists'[d][k], f)
    BY AliveFits, NextLists, StaysMoved DEF CallStep, ComesTo
  <1> QED BY <1>1, QuietOne DEF CallStep

\* a registration about them,
LEMMA QuietAdd ==
  ASSUME FollowInv, GoesOn, NEW d \in Deferreds, NEW k \in FinalKinds, AddStep(d, k), NEW f, f # "script"
  PROVE  Quiet(f)
  <1>0. ScriptEntry(calls + 1) \in Entries /\ ScriptEntry(calls + 1).fn = "script"
    BY DEF AddStep, ScriptEntry
  <1>1. Stays(lists[d][k], lists'[d][k], f)
    BY <1>0, AliveFits, NextLists, StaysJoined, StaysSame DEF AddStep
  <1> QED BY <1>1, QuietOne DEF AddStep

\* a step that settles the master and keeps the other lists' entries,
LEMMA QuietMaster ==
  ASSUME NEW f, Same(Master) \/ \E k \in FinalKinds : MasterSettles(k),
         \A d \in Deferreds \ {Master}, k \in FinalKinds : Stays(lists[d][k], lists'[d][k], f)
  PROVE  Quiet(f)
  <1>1. CASE Same(Master)
    BY <1>1, QuietSame, MasterTyped DEF Quiet
  <1>2. CASE \E k \in FinalKinds, v \in Nat : Settles(Master, k, v)
    <2>1. PICK k \in FinalKinds, v \in Nat : Settles(Master, k, v)
      BY <1>2
    <2> QED BY <2>1, MasterTyped, QuietSettles DEF Quiet
  <1> QED BY <1>1, <1>2 DEF MasterSettles

\* an update about all but updates, a reject about all but rejects,
LEMMA QuietComes ==
  ASSUME FollowInv, GoesOn, NEW d \in Roots, NEW k \in FinalKinds, MasterKind(d, k),
         NEW f, k = "done" => f # "update", k = "fail" => f # "reject"
  PROVE  Quiet(f)
  <1>1. Same(Master) \/ \E x \in FinalKinds : MasterSettles(x)
    BY KindFacts DEF MasterKind
  <1>2. d \in Deferreds /\ lists[d][k] \in PromiseList /\ lists'[d][k] \in PromiseList
    BY AliveFits, NextLists, MasterTyped
  <1>3. PICK g : ComesTo(d, k, g) /\ g # f
    BY KindFacts DEF MasterKind
  <1>4. Stays(lists[d][k], lists'[d][k], f)
    BY <1>2, <1>3, StaysMoved DEF ComesTo
  <1>5. ASSUME NEW e \in Deferreds \ {Master}, NEW x \in FinalKinds PROVE Stays(lists[e][x], lists'[e][x], f)
    <2>1. CASE e = d /\ x = k
      BY <1>4, <2>1
    <2>2. CASE ~ (e = d /\ x = k)
      <3>1. lists'[e][x] = lists[e][x]
        BY <2>2 DEF MasterKind
      <3> QED BY <3>1, StaysSame
    <2> QED BY <2>1, <2>2
  <1> QED BY <1>1, <1>5, QuietMaster

\* and when() about the callbacks of scripts.
LEMMA QuietWhen == ASSUME FollowInv, GoesOn, WhenKind PROVE Quiet("script")
  <1>1. Same(Master) \/ \E x \in FinalKinds : MasterSettles(x)
    BY KindFacts DEF WhenKind
  <1>2. ASSUME NEW d \in Deferreds \ {Master}, NEW k \in FinalKinds
        PROVE  Stays(lists[d][k], lists'[d][k], "script")
    <2>1. lists'[d] = Subscribed[d]
      BY <1>2 DEF WhenKind
    <2>2. CASE d \notin Roots
      BY <2>1, <2>2, SubscribedLists, StaysSame
    <2>3. CASE d \in Roots
      <3>1. PICK f \in {"update", "reject"} : SubscribedTo(lists[d][k], lists'[d][k], f)
        BY <2>1, <2>3, KindFacts, SubscribedLists
      <3>2. PICK e \in Entries : e = [fn |-> f, id |-> 0] /\ e.fn # "script"
        <4>1. [fn |-> f, id |-> 0] \in Entries /\ [fn |-> f, id |-> 0].fn # "script"
          BY DEF Entries
        <4> QED BY <4>1
      <3>3. lists'[d][k] = lists[d][k] \/ (lists[d][k].alive /\ AddedTo(lists[d][k], lists'[d][k], e))
        BY <3>1, <3>2 DEF SubscribedTo
      <3> QED BY <3>2, <3>3, AliveFits, NextLists, StaysSame, StaysJoined
    <2> QED BY <2>2, <2>3
  <1> QED BY <1>1, <1>2, QuietMaster

-----------------------------------------------------------------------------
(***************************************************************************)
(* Callbacks registered are called once.                                   *)
(***************************************************************************)
\* Entry i of list k of d is a callback registered and not called behind it.
EntryRight(d, k, i) ==
  LET l == lists[d][k] IN
  l.fns[i].fn = "script" =>
    /\ <<d, StateOf(k), l.fns[i].id>> \in asked
    /\ Called(<<d, StateOf(k), l.fns[i].id>>) => i <= l.index
    /\ \A j \in 1..Len(l.fns) : l.fns[j].fn = "script" /\ l.fns[j].id = l.fns[i].id => j = i

\* AskedRight, entry by entry.
LEMMA AskedRightIs ==
  AskedRight <=> \A d \in Deferreds, k \in FinalKinds : \A i \in 1..Len(lists[d][k].fns) : EntryRight(d, k, i)
  BY DEF AskedRight, EntryRight

\* The callback is called already, or is ahead in its list.
IsKept(a, k) ==
  \/ Called(a)
  \/ \E i \in 1..Len(lists[a[1]][k].fns) :
       i > lists[a[1]][k].index /\ lists[a[1]][k].fns[i] = [fn |-> "script", id |-> a[3]]

\* AskedKept, registration by registration.
LEMMA AskedKeptIs ==
  AskedKept <=> \A a \in asked, k \in FinalKinds :
                  a[2] = StateOf(k) /\ state[a[1]] \in {"pending", a[2]} => IsKept(a, k)
  BY DEF AskedKept, IsKept

\* The parts of a registration.
LEMMA RegistrationParts ==
  ASSUME FollowInv, NEW a \in asked
  PROVE  a[1] \in Deferreds /\ a = <<a[1], a[2], a[3]>> /\ a[3] \in 0..calls
  BY Known DEF DeferredTypes, Registrations

\* A list in which the entries of scripts stay.
LEMMA EntryStays ==
  ASSUME NEW d, NEW k, UNCHANGED answers, asked \subseteq asked',
         Stays(lists[d][k], lists'[d][k], "script"), \A i \in 1..Len(lists[d][k].fns) : EntryRight(d, k, i),
         NEW i \in 1..Len(lists'[d][k].fns)
  PROVE  EntryRight(d, k, i)'
  <1> SUFFICES ASSUME lists'[d][k].fns[i].fn = "script" PROVE EntryRight(d, k, i)'
    BY DEF EntryRight
  <1>1. PICK n : n = lists'[d][k].fns[i].id
    OBVIOUS
  <1>2. /\ i \in 1..Len(lists[d][k].fns) /\ lists[d][k].fns[i] = lists'[d][k].fns[i]
        /\ i <= lists[d][k].index => i <= lists'[d][k].index
    BY DEF Stays
  <1>3. /\ <<d, StateOf(k), n>> \in asked
        /\ Called(<<d, StateOf(k), n>>) => i <= lists[d][k].index
        /\ \A j \in 1..Len(lists[d][k].fns) : lists[d][k].fns[j].fn = "script" /\ lists[d][k].fns[j].id = n => j = i
    BY <1>1, <1>2 DEF EntryRight
  <1>4. Called(<<d, StateOf(k), n>>)' => i <= lists'[d][k].index
    BY <1>2, <1>3 DEF Called
  <1>5. \A j \in 1..Len(lists'[d][k].fns) : lists'[d][k].fns[j].fn = "script" /\ lists'[d][k].fns[j].id = n => j = i
    BY <1>3 DEF Stays
  <1> QED BY <1>1, <1>3, <1>4, <1>5 DEF EntryRight

\* A registration kept stays so while entries stay.
LEMMA KeptStays ==
  ASSUME NEW a, NEW k, UNCHANGED answers, Stays(lists[a[1]][k], lists'[a[1]][k], "script"), IsKept(a, k)
  PROVE  IsKept(a, k)'
  <1>1. CASE Called(a)
    BY <1>1 DEF IsKept, Called
  <1>2. CASE ~ Called(a)
    <2>1. PICK i \in 1..Len(lists[a[1]][k].fns) :
             i > lists[a[1]][k].index /\ lists[a[1]][k].fns[i] = [fn |-> "script", id |-> a[3]]
      BY <1>2 DEF IsKept
    <2>2. i \in 1..Len(lists'[a[1]][k].fns) /\ lists'[a[1]][k].fns[i] = lists[a[1]][k].fns[i] /\ i > lists'[a[1]][k].index
      <3>1. lists[a[1]][k].fns[i].fn = "script"
        BY <2>1
      <3> QED BY <2>1, <3>1 DEF Stays
    <2> QED BY <2>1, <2>2 DEF IsKept
  <1> QED BY <1>1, <1>2

\* A promise that may still be settled so could be before.
LEMMA OpenBefore ==
  ASSUME FollowInv, GoesOn, NEW d \in Deferreds, NEW s, state'[d] \in {"pending", s}
  PROVE  state[d] \in {"pending", s}
  BY SettledStays DEF FollowInv, GoesOn

\* A quiet step keeps what is known of the callbacks.
LEMMA QuietAsks ==
  ASSUME FollowInv, GoesOn, AskedRight, AskedKept, Quiet("script"), UNCHANGED <<asked, answers>>
  PROVE  AskedRight' /\ AskedKept'
  <1>1. ASSUME NEW d \in Deferreds, NEW k \in FinalKinds, NEW i \in 1..Len(lists'[d][k].fns)
        PROVE  EntryRight(d, k, i)'
    <2>1. lists'[d][k].fns # << >>
      BY <1>1
    <2>2. Stays(lists[d][k], lists'[d][k], "script")
      BY <2>1 DEF Quiet
    <2> QED BY <2>2, EntryStays, AskedRightIs
  <1>2. ASSUME NEW a \in asked, NEW k \in FinalKinds, a[2] = StateOf(k), state'[a[1]] \in {"pending", a[2]}
        PROVE  IsKept(a, k)'
    <2>1. a[1] \in Deferreds
      BY RegistrationParts
    <2>2. IsKept(a, k)
      BY <1>2, <2>1, OpenBefore, AskedKeptIs
    <2>3. state'[a[1]] # StateOf(Other(k))
      BY <1>2, KindFacts
    <2>4. Stays(lists[a[1]][k], lists'[a[1]][k], "script")
      BY <2>1, <2>3 DEF Quiet
    <2> QED BY <2>2, <2>4, KeptStays
  <1>3. AskedRight'
    BY <1>1 DEF AskedRight, EntryRight
  <1>4. AskedKept'
    BY <1>2 DEF AskedKept, IsKept
  <1> QED BY <1>3, <1>4

\* A callback is called that was registered and was not called before.
LEMMA CallAsks ==
  ASSUME FollowInv, GoesOn, AskedRight, AskedKept, NEW d \in Deferreds, NEW k \in FinalKinds, CallStep(d, k)
  PROVE  /\ AskedRight' /\ AskedKept'
         /\ <<d, StateOf(k), lists[d][k].fns[lists[d][k].index + 1].id>> \in asked
         /\ ~ Called(<<d, StateOf(k), lists[d][k].fns[lists[d][k].index + 1].id>>)
  <1>1. PICK l \in PromiseList, m \in PromiseList : l = lists[d][k] /\ m = lists'[d][k]
    BY AliveFits, NextLists
  <1>2. /\ l.index \in Nat /\ l.index + 1 \in 1..Len(l.fns) /\ m.index = l.index + 1 /\ m.fns = l.fns
        /\ l.fns[l.index + 1].fn = "script" /\ l.fns[l.index + 1] \in Entries
        /\ l.memory \in Nat
    BY <1>1, ListFields DEF CallStep, ComesTo, MovedOn
  <1>3. PICK id : id = l.fns[l.index + 1].id
    OBVIOUS
  <1>4. PICK a0 : a0 = <<d, StateOf(k), id>>
    OBVIOUS
  <1>5. a0 \in asked /\ ~ Called(a0)
    <2>1. EntryRight(d, k, l.index + 1)
      BY <1>1, <1>2, AskedRightIs
    <2>2. a0 \in asked /\ (Called(a0) => l.index + 1 <= l.index)
      BY <1>1, <1>2, <1>3, <1>4, <2>1 DEF EntryRight
    <2> QED BY <1>2, <2>2
  <1>6. answers' = Append(answers, <<a0, l.memory>>) /\ asked' = asked
    BY <1>1, <1>3, <1>4 DEF CallStep
  <1>7. \A a : Called(a)' <=> Called(a) \/ a = a0
    <2>1. answers \in Seq(asked \X Nat) /\ <<a0, l.memory>> \in asked \X Nat
      BY <1>2, <1>5, Known DEF DeferredTypes
    <2>2. PICK e \in asked \X Nat : e = <<a0, l.memory>> /\ e[1] = a0
      BY <2>1
    <2>3. answers' = Append(answers, e)
      BY <1>6, <2>2
    <2>4. /\ \A i \in 1..Len(answers) : i \in 1..Len(answers') /\ answers'[i] = answers[i]
          /\ Len(answers) + 1 \in 1..Len(answers') /\ answers'[Len(answers) + 1] = e
          /\ \A i \in 1..Len(answers') : (i \in 1..Len(answers) /\ answers'[i] = answers[i]) \/ answers'[i] = e
      BY <2>1, <2>3, Appended
    <2> QED BY <2>2, <2>4 DEF Called
  <1>8. ASSUME NEW e \in Deferreds, NEW x \in FinalKinds, NEW i \in 1..Len(lists'[e][x].fns)
        PROVE  EntryRight(e, x, i)'
    <2> SUFFICES ASSUME lists'[e][x].fns[i].fn = "script" PROVE EntryRight(e, x, i)'
      BY DEF EntryRight
    <2>1. lists'[e][x].fns = lists[e][x].fns
      <3>1. CASE e = d /\ x = k
        BY <1>1, <1>2, <3>1
      <3>2. CASE ~ (e = d /\ x = k)
        BY <3>2 DEF CallStep, SameBut
      <3> QED BY <3>1, <3>2
    <2>2. PICK n : n = lists[e][x].fns[i].id
      OBVIOUS
    <2>3. /\ <<e, StateOf(x), n>> \in asked
          /\ Called(<<e, StateOf(x), n>>) => i <= lists[e][x].index
          /\ \A j \in 1..Len(lists[e][x].fns) : lists[e][x].fns[j].fn = "script" /\ lists[e][x].fns[j].id = n => j = i
      BY <2>1, <2>2, AskedRightIs DEF EntryRight
    <2>4. ASSUME Called(<<e, StateOf(x), n>>)' PROVE i <= lists'[e][x].index
      <3>1. CASE e = d /\ x = k
        <4>1. Called(<<e, StateOf(x), n>>) => i <= l.index
          BY <1>1, <2>3, <3>1
        <4>2. <<e, StateOf(x), n>> = a0 => i = l.index + 1
          <5> SUFFICES ASSUME <<e, StateOf(x), n>> = a0 PROVE i = l.index + 1
            OBVIOUS
          <5>1. n = id
            BY <1>4
          <5> QED BY <1>1, <1>2, <1>3, <2>3, <3>1, <5>1
        <4>3. i <= l.index \/ i = l.index + 1
          BY <1>7, <2>4, <4>1, <4>2
        <4>4. lists'[e][x].index = l.index + 1 /\ i \in Nat
          BY <1>1, <1>2, <2>1, <3>1
        <4> QED BY <1>2, <4>3, <4>4
      <3>2. CASE ~ (e = d /\ x = k)
        <4>1. <<e, StateOf(x), n>> # a0
          BY <1>4, <3>2, KindFacts
        <4>2. lists'[e][x] = lists[e][x]
          BY <3>2 DEF CallStep, SameBut
        <4> QED BY <1>7, <2>3, <2>4, <4>1, <4>2
      <3> QED BY <3>1, <3>2
    <2> QED BY <1>6, <2>1, <2>2, <2>3, <2>4 DEF EntryRight
  <1>9. ASSUME NEW a \in asked', NEW x \in FinalKinds, a[2] = StateOf(x), state'[a[1]] \in {"pending", a[2]}
        PROVE  IsKept(a, x)'
    <2>1. a \in asked /\ a[1] \in Deferreds /\ a = <<a[1], a[2], a[3]>>
      BY <1>6, <1>9, RegistrationParts
    <2>2. IsKept(a, x)
      BY <1>9, <2>1, OpenBefore, AskedKeptIs
    <2>3. CASE Called(a)
      BY <1>7, <2>3 DEF IsKept
    <2>4. CASE ~ Called(a)
      <3>1. PICK i \in 1..Len(lists[a[1]][x].fns) :
               i > lists[a[1]][x].index /\ lists[a[1]][x].fns[i] = [fn |-> "script", id |-> a[3]]
        BY <2>2, <2>4 DEF IsKept
      <3>2. CASE a[1] = d /\ x = k
        <4>1. CASE i = l.index + 1
          <5>1. id = a[3]
            BY <1>1, <1>3, <3>1, <3>2, <4>1
          <5>2. a = a0
            BY <1>4, <1>9, <2>1, <3>2, <5>1
          <5> QED BY <1>7, <5>2 DEF IsKept
        <4>2. CASE i # l.index + 1
          <5>1. i > l.index /\ i \in Nat
            BY <1>1, <3>1, <3>2
          <5>2. i > m.index
            BY <1>2, <4>2, <5>1
          <5> QED BY <1>1, <1>2, <3>1, <3>2, <5>2 DEF IsKept
        <4> QED BY <4>1, <4>2
      <3>3. CASE ~ (a[1] = d /\ x = k)
        <4>1. lists'[a[1]][x] = lists[a[1]][x]
          BY <2>1, <3>3 DEF CallStep, SameBut
        <4> QED BY <3>1, <4>1 DEF IsKept
      <3> QED BY <3>2, <3>3
    <2> QED BY <2>3, <2>4
  <1>10. AskedRight'
    BY <1>8 DEF AskedRight, EntryRight
  <1>11. AskedKept'
    BY <1>9 DEF AskedKept, IsKept
  <1> QED BY <1>1, <1>3, <1>4, <1>5, <1>10, <1>11

\* A registration is new, and is kept unless the promise has settled otherwise.
LEMMA AddAsks ==
  ASSUME FollowInv, GoesOn, AskedRight, AskedKept, NEW d \in Deferreds, NEW k \in FinalKinds, AddStep(d, k)
  PROVE  AskedRight' /\ AskedKept'
  <1>1. PICK l \in PromiseList, m \in PromiseList : l = lists[d][k] /\ m = lists'[d][k]
    BY AliveFits, NextLists
  <1>2. PICK e0 \in Entries : e0 = ScriptEntry(calls + 1) /\ e0.fn = "script" /\ e0.id = calls + 1
    BY DEF AddStep, ScriptEntry
  <1>3. PICK a0 : a0 = <<d, StateOf(k), calls + 1>>
    OBVIOUS
  <1>4. asked' = asked \cup {a0} /\ UNCHANGED <<answers, state>> /\ SameBut(d, k)
    BY <1>3 DEF AddStep
  <1>5. /\ (~ l.alive /\ m = l) \/ (l.alive /\ AddedTo(l, m, e0))
        /\ l.alive => Waits(l) \/ Fires(l)
    BY <1>1, <1>2, AliveFits DEF AddStep
  <1>6. a0 \notin asked /\ calls \in Nat
    BY <1>3, RegistrationParts, Known
  <1>7. ~ Called(a0)
    <2>1. answers \in Seq(asked \X Nat)
      BY Known DEF DeferredTypes
    <2>2. \A i \in 1..Len(answers) : answers[i][1] \in asked
      BY <2>1
    <2> QED BY <1>6, <2>2 DEF Called
  <1>8. CASE ~ l.alive /\ m = l
    <2>1. \A e \in Deferreds, x \in FinalKinds : lists'[e][x] = lists[e][x]
      BY <1>1, <1>4, <1>8 DEF SameBut
    <2>2. ASSUME NEW e \in Deferreds, NEW x \in FinalKinds, NEW i \in 1..Len(lists'[e][x].fns)
          PROVE  EntryRight(e, x, i)'
      <3>1. Stays(lists[e][x], lists'[e][x], "script")
        BY <2>1, StaysSame
      <3> QED BY <1>4, <3>1, EntryStays, AskedRightIs
    <2>3. ASSUME NEW a \in asked', NEW x \in FinalKinds, a[2] = StateOf(x), state'[a[1]] \in {"pending", a[2]}
          PROVE  IsKept(a, x)'
      <3>1. a # a0
        <4> SUFFICES ASSUME a = a0 PROVE FALSE
          OBVIOUS
        <4>1. a[1] = d /\ x = k
          BY <1>3, <2>3, KindFacts
        <4>2. state[d] \in {"pending", StateOf(k)}
          BY <1>4, <2>3, <4>1
        <4>3. Waits(l) \/ Fires(l)
          BY <1>1, <4>2, AliveFits
        <4> QED BY <1>8, <4>3 DEF Waits, Fires
      <3>2. a \in asked /\ a[1] \in Deferreds
        BY <1>4, <3>1, RegistrationParts
      <3>3. IsKept(a, x) /\ Stays(lists[a[1]][x], lists'[a[1]][x], "script")
        BY <1>4, <2>1, <2>3, <3>2, AskedKeptIs, StaysSame
      <3> QED BY <1>4, <3>3, KeptStays
    <2>4. AskedRight'
      BY <2>2 DEF AskedRight, EntryRight
    <2>5. AskedKept'
      BY <2>3 DEF AskedKept, IsKept
    <2> QED BY <2>4, <2>5
  <1>9. CASE l.alive /\ AddedTo(l, m, e0)
    <2>1. /\ Len(m.fns) = Len(l.fns) + 1 /\ Len(l.fns) \in Nat
          /\ \A i \in 1..Len(l.fns) : i \in 1..Len(m.fns) /\ m.fns[i] = l.fns[i] /\ m.index = l.index
          /\ Len(l.fns) + 1 \in 1..Len(m.fns) /\ m.fns[Len(l.fns) + 1] = e0 /\ Len(l.fns) + 1 > m.index
          /\ \A i \in 1..Len(m.fns) : i \in 1..Len(l.fns) \/ i = Len(l.fns) + 1
      BY <1>5, <1>9, Joined, ListFields
    <2>2. \A i \in 1..Len(l.fns) : l.fns[i].fn = "script" => l.fns[i].id # calls + 1
      <3> SUFFICES ASSUME NEW i \in 1..Len(l.fns), l.fns[i].fn = "script", l.fns[i].id = calls + 1 PROVE FALSE
        OBVIOUS
      <3>1. EntryRight(d, k, i)
        BY <1>1, AskedRightIs
      <3>2. <<d, StateOf(k), l.fns[i].id>> \in asked
        BY <1>1, <3>1 DEF EntryRight
      <3> QED BY <1>3, <1>6, <3>2
    <2>3. ASSUME NEW i \in 1..Len(m.fns) PROVE EntryRight(d, k, i)'
      <3> SUFFICES ASSUME m.fns[i].fn = "script" PROVE EntryRight(d, k, i)'
        BY <1>1 DEF EntryRight
      <3>1. CASE i = Len(l.fns) + 1
        <4>1. m.fns[i].id = calls + 1
          BY <1>2, <2>1, <3>1
        <4>2. a0 \in asked' /\ ~ Called(a0)'
          BY <1>4, <1>7 DEF Called
        <4>3. \A j \in 1..Len(m.fns) : m.fns[j].fn = "script" /\ m.fns[j].id = calls + 1 => j = i
          BY <2>1, <2>2, <3>1
        <4> QED BY <1>1, <1>3, <4>1, <4>2, <4>3 DEF EntryRight
      <3>2. CASE i \in 1..Len(l.fns)
        <4>1. PICK n : n = l.fns[i].id /\ n = m.fns[i].id /\ n # calls + 1
          BY <2>1, <2>2, <3>2
        <4>2. l.fns[i].fn = "script" /\ m.index = l.index
          BY <2>1, <3>2
        <4>3. /\ <<d, StateOf(k), n>> \in asked
              /\ Called(<<d, StateOf(k), n>>) => i <= l.index
              /\ \A j \in 1..Len(l.fns) : l.fns[j].fn = "script" /\ l.fns[j].id = n => j = i
          BY <1>1, <3>2, <4>1, <4>2, AskedRightIs DEF EntryRight
        <4>4. \A j \in 1..Len(m.fns) : m.fns[j].fn = "script" /\ m.fns[j].id = n => j = i
          BY <1>2, <2>1, <4>1, <4>3
        <4>5. Called(<<d, StateOf(k), n>>)' => i <= m.index
          BY <1>4, <4>2, <4>3 DEF Called
        <4> QED BY <1>1, <1>4, <4>1, <4>3, <4>4, <4>5 DEF EntryRight
      <3> QED BY <2>1, <3>1, <3>2
    <2>4. ASSUME NEW e \in Deferreds, NEW x \in FinalKinds, NEW i \in 1..Len(lists'[e][x].fns)
          PROVE  EntryRight(e, x, i)'
      <3>1. CASE e = d /\ x = k
        BY <1>1, <2>3, <2>4, <3>1
      <3>2. CASE ~ (e = d /\ x = k)
        <4>1. Stays(lists[e][x], lists'[e][x], "script")
          BY <1>4, <3>2, StaysSame DEF SameBut
        <4> QED BY <1>4, <4>1, EntryStays, AskedRightIs
      <3> QED BY <3>1, <3>2
    <2>5. ASSUME NEW a \in asked', NEW x \in FinalKinds, a[2] = StateOf(x), state'[a[1]] \in {"pending", a[2]}
          PROVE  IsKept(a, x)'
      <3>1. CASE a = a0
        <4>1. a[1] = d /\ x = k /\ a[3] = calls + 1
          BY <1>3, <2>5, <3>1, KindFacts
        <4>2. e0 = [fn |-> "script", id |-> a[3]]
          BY <1>2, <4>1 DEF ScriptEntry
        <4> QED BY <1>1, <2>1, <4>1, <4>2 DEF IsKept
      <3>2. CASE a # a0
        <4>1. a \in asked /\ a[1] \in Deferreds
          BY <1>4, <3>2, RegistrationParts
        <4>2. IsKept(a, x)
          BY <1>4, <2>5, <4>1, AskedKeptIs
        <4>3. CASE Called(a)
          BY <1>4, <4>3 DEF IsKept, Called
        <4>4. CASE ~ Called(a)
          <5>1. PICK i \in 1..Len(lists[a[1]][x].fns) :
               i > lists[a[1]][x].index /\ lists[a[1]][x].fns[i] = [fn |-> "script", id |-> a[3]]
            BY <4>2, <4>4 DEF IsKept
          <5>2. CASE a[1] = d /\ x = k
            BY <1>1, <2>1, <5>1, <5>2 DEF IsKept
          <5>3. CASE ~ (a[1] = d /\ x = k)
            <6>1. lists'[a[1]][x] = lists[a[1]][x]
              BY <1>4, <4>1, <5>3 DEF SameBut
            <6> QED BY <5>1, <6>1 DEF IsKept
          <5> QED BY <5>2, <5>3
        <4> QED BY <4>3, <4>4
      <3> QED BY <3>1, <3>2
    <2>6. AskedRight'
      BY <2>4 DEF AskedRight, EntryRight
    <2>7. AskedKept'
      BY <2>5 DEF AskedKept, IsKept
    <2> QED BY <2>6, <2>7
  <1> QED BY <1>5, <1>8, <1>9

\* Callbacks registered and called stay right and kept, step by step.
LEMMA AskedStays ==
  ASSUME FollowInv, GoesOn, AskedRight, AskedKept, StepKinds
  PROVE  AskedRight' /\ AskedKept'
  <1>1. CASE PlainStep
    BY <1>1, QuietPlain, QuietAsks DEF PlainStep
  <1>2. CASE \E d \in Deferreds, k \in FinalKinds : EndStep(d, k)
    BY <1>2, QuietEnd, QuietAsks DEF EndStep
  <1>3. CASE \E d \in Deferreds, k \in FinalKinds : CallStep(d, k)
    BY <1>3, CallAsks
  <1>4. CASE \E d \in Deferreds, k \in FinalKinds : AddStep(d, k)
    BY <1>4, AddAsks
  <1>5. CASE WhenKind
    BY <1>5, QuietWhen, QuietAsks DEF WhenKind
  <1>6. CASE \E d \in Roots, k \in FinalKinds : MasterKind(d, k)
    <2>1. PICK d \in Roots, k \in FinalKinds : MasterKind(d, k)
      BY <1>6
    <2>2. Quiet("script")
      BY <2>1, QuietComes
    <2> QED BY <2>1, <2>2, QuietAsks DEF MasterKind
  <1> QED BY <1>1, <1>2, <1>3, <1>4, <1>5, <1>6 DEF StepKinds

-----------------------------------------------------------------------------
(***************************************************************************)
(* when(): the master and its subordinates.                                *)
(***************************************************************************)
\* No entry f joins a list.
NoNew(f) ==
  \A d \in Deferreds, k \in FinalKinds : \A i \in 1..Len(lists'[d][k].fns) :
    lists'[d][k].fns[i].fn = f => i \in 1..Len(lists[d][k].fns) /\ lists[d][k].fns[i] = lists'[d][k].fns[i]

\* A quiet step adds no entry.
LEMMA QuietNew == ASSUME NEW f, Quiet(f) PROVE NoNew(f)
  <1> SUFFICES ASSUME NEW d \in Deferreds, NEW k \in FinalKinds, NEW i \in 1..Len(lists'[d][k].fns),
                      lists'[d][k].fns[i].fn = f
               PROVE  i \in 1..Len(lists[d][k].fns) /\ lists[d][k].fns[i] = lists'[d][k].fns[i]
    BY DEF NoNew
  <1>1. lists'[d][k].fns # << >>
    OBVIOUS
  <1> QED BY <1>1 DEF Quiet, Stays

\* Progress lists have none of the entries of when().
LEMMA ProgressEntries ==
  ASSUME FollowInv, GoesOn, NEW f, f # "script", NEW d \in Deferreds,
         \A i \in 1..Len(lists[d]["progress"].fns) : lists[d]["progress"].fns[i].fn # f
  PROVE  \A i \in 1..Len(lists'[d]["progress"].fns) : lists'[d]["progress"].fns[i].fn # f
  <1>1. PICK s \in Seq(Entries) : s = lists[d]["progress"].fns
    <2>1. lists[d]["progress"] \in PromiseList
      BY Known, KindFacts DEF Lists
    <2> QED BY <2>1, ListFields
  <1>2. PICK t : t = lists'[d]["progress"].fns
    OBVIOUS
  <1>3. OnlyScripts(s, t)
    BY <1>1, <1>2 DEF GoesOn, Changes
  <1>4. CASE t = s \/ t = << >>
    BY <1>1, <1>2, <1>4
  <1>5. ASSUME NEW e \in Entries, e.fn = "script", t = Append(s, e)
        PROVE  \A i \in 1..Len(t) : t[i].fn # f
    <2>1. \A i \in 1..Len(t) : (i \in 1..Len(s) /\ t[i] = s[i]) \/ t[i] = e
      BY <1>5, Appended
    <2> QED BY <1>1, <1>5, <2>1
  <1> QED BY <1>2, <1>3, <1>4, <1>5 DEF OnlyScripts

\* A step that adds no entry of when() keeps where they are.
LEMMA EntriesStay ==
  ASSUME FollowInv, GoesOn, MasterEntries, NoNew("update"), NoNew("reject"),
         remaining # NotCalled => remaining' # NotCalled
  PROVE  MasterEntries'
  <1> SUFFICES ASSUME NEW d \in Deferreds, NEW k \in Kinds, NEW i \in 1..Len(lists'[d][k].fns)
               PROVE  /\ lists'[d][k].fns[i].fn = "update" =>
                           /\ d \in Roots /\ k = "done" /\ remaining' # NotCalled
                           /\ \A j \in 1..Len(lists'[d][k].fns) : lists'[d][k].fns[j].fn = "update" => i = j
                      /\ lists'[d][k].fns[i].fn = "reject" => d \in Roots /\ k = "fail" /\ remaining' # NotCalled
    BY DEF MasterEntries
  <1>0. \A n \in 1..Len(lists[d][k].fns) :
          /\ lists[d][k].fns[n].fn = "update" =>
               /\ d \in Roots /\ k = "done" /\ remaining # NotCalled
               /\ \A j \in 1..Len(lists[d][k].fns) : lists[d][k].fns[j].fn = "update" => n = j
          /\ lists[d][k].fns[n].fn = "reject" => d \in Roots /\ k = "fail" /\ remaining # NotCalled
    BY DEF MasterEntries
  <1>1. CASE k \in FinalKinds
    <2>1. \A f \in {"update", "reject"} : \A j \in 1..Len(lists'[d][k].fns) :
            lists'[d][k].fns[j].fn = f => j \in 1..Len(lists[d][k].fns) /\ lists[d][k].fns[j] = lists'[d][k].fns[j]
      BY <1>1 DEF NoNew
    <2>2. ASSUME lists'[d][k].fns[i].fn = "update"
          PROVE  /\ d \in Roots /\ k = "done" /\ remaining' # NotCalled
                 /\ \A j \in 1..Len(lists'[d][k].fns) : lists'[d][k].fns[j].fn = "update" => i = j
      <3>1. i \in 1..Len(lists[d][k].fns) /\ lists[d][k].fns[i].fn = "update"
        BY <2>1, <2>2
      <3> QED BY <1>0, <2>1, <3>1
    <2>3. ASSUME lists'[d][k].fns[i].fn = "reject"
          PROVE  d \in Roots /\ k = "fail" /\ remaining' # NotCalled
      <3>1. i \in 1..Len(lists[d][k].fns) /\ lists[d][k].fns[i].fn = "reject"
        BY <2>1, <2>3
      <3> QED BY <1>0, <3>1
    <2> QED BY <2>2, <2>3
  <1>2. CASE k = "progress"
    <2>1. \A n \in 1..Len(lists[d]["progress"].fns) :
             lists[d]["progress"].fns[n].fn # "update" /\ lists[d]["progress"].fns[n].fn # "reject"
      BY <1>0, <1>2, KindFacts
    <2>2. lists'[d]["progress"].fns[i].fn # "update"
      BY <1>2, <2>1, ProgressEntries
    <2>3. lists'[d]["progress"].fns[i].fn # "reject"
      BY <1>2, <2>1, ProgressEntries
    <2> QED BY <1>2, <2>2, <2>3
  <1> QED BY <1>1, <1>2, KindFacts

\* A subordinate the master still waits for.
WaitsFor(r) == state[r] = "rejected" \/ AheadOf(lists[r]["done"], "update")

\* The subordinates the master waits for, before and after.
LEMMA WaitingIs == Waiting = {r \in Roots : WaitsFor(r)} /\ Waiting' = {r \in Roots : WaitsFor(r)'}
  BY DEF Waiting, WaitsFor, AheadOf

\* The reject of a subordinate is to come, or has come.
Hears(r) == Settled(Master) \/ AheadOf(lists[r]["fail"], "reject")

\* MasterWaits in these terms.
LEMMA MasterWaitsIs ==
  MasterWaits <=>
    (remaining # NotCalled =>
      /\ remaining = Cardinality(Waiting)
      /\ \A r \in Roots \ Waiting : state[r] = "resolved"
      /\ remaining = 0 => Settled(Master)
      /\ \A r \in Roots : state[r] # "resolved" => Hears(r))
  BY DEF MasterWaits, Hears, AheadOf

\* There are finitely many, and none when they are zero.
LEMMA WaitingFinite ==
  /\ IsFiniteSet(Waiting) /\ Cardinality(Waiting) \in Nat /\ Waiting \subseteq Roots
  /\ (Cardinality(Waiting) = 0 => Waiting = {})
  <1>1. Waiting \subseteq Roots
    BY DEF Waiting
  <1>2. IsFiniteSet(Waiting)
    BY <1>1, DeferredsAssumption, FS_Subset
  <1> QED BY <1>1, <1>2, FS_CardinalityType, FS_EmptySet

\* The lists of a root, before and after.
LEMMA RootLists ==
  ASSUME FollowInv, GoesOn, NEW r \in Roots, NEW k \in FinalKinds
  PROVE  /\ r \in Deferreds /\ lists[r][k] \in PromiseList /\ lists'[r][k] \in PromiseList
         /\ state[r] \in {"pending", "resolved", "rejected"}
         /\ state'[r] \in {"pending", "resolved", "rejected"}
         /\ state[r] # "pending" => state'[r] = state[r]
  <1>1. r \in Deferreds
    BY MasterTyped
  <1>2. state'[r] \in {"pending", "resolved", "rejected"}
    BY <1>1 DEF GoesOn, DeferredTypes
  <1> QED BY <1>1, <1>2, Known, AliveFits, NextLists, SettledStays DEF FollowInv, GoesOn

\* A step quiet about updates changes nothing of them: a subordinate that
\* rejects loses its update and is waited for still.
LEMMA WaitingStays ==
  ASSUME FollowInv, GoesOn, MasterWaits, remaining # NotCalled, Quiet("update")
  PROVE  Waiting' = Waiting
  <1>1. ASSUME NEW r \in Roots PROVE WaitsFor(r)' <=> WaitsFor(r)
    <2>1. /\ r \in Deferreds /\ "done" \in FinalKinds /\ "done" \in Kinds
          /\ lists[r]["done"] \in PromiseList /\ lists'[r]["done"] \in PromiseList
          /\ state[r] # "pending" => state'[r] = state[r]
      BY KindFacts, RootLists
    <2>2. state[r] = "pending" => WaitsFor(r)
      BY MasterWaitsIs, WaitingIs
    <2>3. CASE Stays(lists[r]["done"], lists'[r]["done"], "update")
      <3>1. AheadOf(lists[r]["done"], "update") <=> AheadOf(lists'[r]["done"], "update")
        BY <2>1, <2>3, StaysAhead
      <3>2. CASE state[r] # "pending"
        BY <2>1, <3>1, <3>2 DEF WaitsFor, AheadOf
      <3>3. CASE state[r] = "pending"
        <4>1. WaitsFor(r) /\ AheadOf(lists'[r]["done"], "update")
          BY <2>2, <3>1, <3>3 DEF WaitsFor
        <4>2. WaitsFor(r)'
          BY <4>1 DEF WaitsFor, AheadOf
        <4> QED BY <4>1, <4>2
      <3> QED BY <3>2, <3>3
    <2>4. CASE state[r] = "pending" /\ state'[r] = StateOf(Other("done"))
      <3>1. WaitsFor(r)'
        BY <2>4, KindFacts DEF WaitsFor
      <3> QED BY <2>2, <2>4, <3>1
    <2> QED BY <2>1, <2>3, <2>4 DEF Quiet
  <1> QED BY <1>1, WaitingIs

\* A step quiet about rejects keeps that they are heard of.
LEMMA HearsStays ==
  ASSUME FollowInv, GoesOn, Quiet("reject"), NEW r \in Roots, state[r] # "resolved" => Hears(r),
         state'[r] # "resolved"
  PROVE  Hears(r)'
  <1>1. /\ r \in Deferreds /\ "fail" \in FinalKinds
        /\ lists[r]["fail"] \in PromiseList /\ lists'[r]["fail"] \in PromiseList
        /\ state[r] # "pending" => state'[r] = state[r]
    BY KindFacts, RootLists
  <1>2. Settled(Master) => Settled(Master)'
    BY MasterTyped, SettledStays DEF FollowInv, GoesOn, Settled
  <1>3. Hears(r)
    BY <1>1
  <1>4. CASE Stays(lists[r]["fail"], lists'[r]["fail"], "reject")
    <2>1. AheadOf(lists[r]["fail"], "reject") <=> AheadOf(lists'[r]["fail"], "reject")
      BY <1>1, <1>4, StaysAhead
    <2> QED BY <1>2, <1>3, <2>1 DEF Hears, AheadOf
  <1>5. CASE state'[r] = StateOf(Other("fail"))
    BY <1>5, KindFacts
  <1> QED BY <1>1, <1>4, <1>5 DEF Quiet

\* A step that leaves the master and the entries of when() alone.
LEMMA MasterRests ==
  ASSUME FollowInv, GoesOn, MasterEntries, MasterWaits, MasterRight,
         Quiet("update"), Quiet("reject"), remaining' = remaining, state'[Master] = state[Master]
  PROVE  MasterEntries' /\ MasterWaits' /\ MasterRight'
  <1>1. MasterEntries'
    BY QuietNew, EntriesStay
  <1>2. \A r \in Roots : state[r] # "pending" => state'[r] = state[r]
    BY KindFacts, RootLists
  <1>3. MasterRight'
    BY <1>2 DEF MasterRight
  <1>4. ASSUME remaining' # NotCalled
        PROVE  /\ remaining' = Cardinality(Waiting')
               /\ \A r \in Roots \ Waiting' : state'[r] = "resolved"
               /\ remaining' = 0 => Settled(Master)'
               /\ \A r \in Roots : state'[r] # "resolved" => Hears(r)'
    <2>1. /\ remaining = Cardinality(Waiting)
          /\ \A r \in Roots \ Waiting : state[r] = "resolved"
          /\ remaining = 0 => Settled(Master)
          /\ \A r \in Roots : state[r] # "resolved" => Hears(r)
      BY <1>4, MasterWaitsIs
    <2>2. Waiting' = Waiting
      BY <1>4, WaitingStays
    <2>3. \A r \in Roots : state'[r] # "resolved" => Hears(r)'
      BY <2>1, HearsStays
    <2> QED BY <1>2, <2>1, <2>2, <2>3 DEF Settled
  <1>5. MasterWaits'
    BY <1>4 DEF MasterWaits, Hears, AheadOf
  <1> QED BY <1>1, <1>3, <1>5

\* What the master has become.
LEMMA MasterHas ==
  ASSUME NEW k \in FinalKinds, MasterSettles(k), GoesOn, FollowInv
  PROVE  Settled(Master)' /\ (state'[Master] = StateOf(k) \/ state'[Master] = state[Master])
  BY KindFacts DEF MasterSettles, Settles, Same, Settled

\* The loop comes to an update.
LEMMA UpdateWaits ==
  ASSUME FollowInv, GoesOn, MasterEntries, MasterWaits, MasterRight, NEW d \in Roots, MasterKind(d, "done")
  PROVE  MasterEntries' /\ MasterWaits' /\ MasterRight'
  <1>1. /\ ComesTo(d, "done", "update") /\ remaining' = remaining - 1 /\ remaining # NotCalled
        /\ IF remaining' = 0 THEN MasterSettles("done") ELSE Same(Master)
        /\ \A e \in Deferreds : e # Master =>
             state'[e] = state[e] /\ \A x \in FinalKinds : e # d \/ x # "done" => lists'[e][x] = lists[e][x]
    BY DEF MasterKind
  <1>2. /\ d \in Deferreds /\ "done" \in FinalKinds /\ "done" \in Kinds /\ "fail" \in FinalKinds
        /\ Roots \subseteq Deferreds /\ d # Master /\ \A r \in Roots : r # Master
    BY KindFacts, MasterTyped
  <1>3. PICK l \in PromiseList, m \in PromiseList : l = lists[d]["done"] /\ m = lists'[d]["done"]
    BY <1>2, AliveFits, NextLists
  <1>4. /\ l.index \in Nat /\ l.index + 1 \in 1..Len(l.fns) /\ l.index + 1 > l.index
        /\ l.fns[l.index + 1].fn = "update" /\ m.fns = l.fns /\ m.index = l.index + 1
        /\ state[d] = "resolved"
    BY <1>1, <1>3, ListFields, KindFacts DEF ComesTo, MovedOn
  <1>5. \A j \in 1..Len(l.fns) : l.fns[j].fn = "update" => j = l.index + 1
    <2>1. \A i, j \in 1..Len(l.fns) : l.fns[i].fn = "update" /\ l.fns[j].fn = "update" => i = j
      BY <1>2, <1>3 DEF MasterEntries
    <2> QED BY <1>4, <2>1
  <1>6. d \in Waiting
    BY <1>3, <1>4, WaitingIs DEF WaitsFor, AheadOf
  <1>7. ~ WaitsFor(d)'
    <2>1. state'[d] = "resolved"
      BY <1>1, <1>2, <1>4
    <2>2. ~ AheadOf(m, "update")
      BY <1>4, <1>5 DEF AheadOf
    <2> QED BY <1>3, <2>1, <2>2 DEF WaitsFor, AheadOf
  <1>8. \A r \in Roots \ {d} : WaitsFor(r)' <=> WaitsFor(r)
    BY <1>1, <1>2 DEF WaitsFor, AheadOf
  <1>9. Waiting' = Waiting \ {d}
    BY <1>6, <1>7, <1>8, WaitingIs
  <1>10. /\ remaining = Cardinality(Waiting)
         /\ \A r \in Roots \ Waiting : state[r] = "resolved"
         /\ \A r \in Roots : state[r] # "resolved" => Hears(r)
    BY <1>1, MasterWaitsIs
  <1>11. remaining' = Cardinality(Waiting') /\ remaining' \in Nat /\ (remaining' = 0 => Waiting' = {})
    <2>1. IsFiniteSet(Waiting)
      BY WaitingFinite
    <2>2. PICK W : W = Waiting \ {d}
      OBVIOUS
    <2>3. IsFiniteSet(W) /\ Cardinality(W) = Cardinality(Waiting) - 1
      BY <1>6, <2>1, <2>2, FS_RemoveElement
    <2>4. Cardinality(W) \in Nat /\ (Cardinality(W) = 0 => W = {})
      BY <2>3, FS_CardinalityType, FS_EmptySet
    <2> QED BY <1>1, <1>9, <1>10, <2>2, <2>3, <2>4
  <1>12. \A r \in Roots \ Waiting' : state'[r] = "resolved"
    BY <1>1, <1>2, <1>4, <1>9, <1>10
  <1>13. remaining' = 0 => Settled(Master)'
    BY <1>1, <1>2, MasterHas
  <1>14. Quiet("reject")
    BY <1>2, QuietComes
  <1>15. \A r \in Roots : state'[r] # "resolved" => Hears(r)'
    BY <1>10, <1>14, HearsStays
  <1>16. MasterWaits'
    BY <1>11, <1>12, <1>13, <1>15 DEF MasterWaits, Hears, AheadOf
  <1>17. MasterRight'
    <2>1. \A r \in Roots : state'[r] = state[r]
      BY <1>1, <1>2
    <2>2. CASE remaining' = 0
      <3>1. \A r \in Roots : state'[r] = "resolved"
        BY <1>11, <1>12, <2>2
      <3>2. state'[Master] = "resolved" \/ state'[Master] = state[Master]
        BY <1>1, <1>2, <2>2, KindFacts, MasterHas
      <3> QED BY <2>1, <3>1, <3>2 DEF MasterRight
    <2>3. CASE remaining' # 0
      <3>1. state'[Master] = state[Master]
        BY <1>1, <2>3 DEF Same
      <3> QED BY <2>1, <3>1 DEF MasterRight
    <2> QED BY <2>2, <2>3
  <1>18. NoNew("update")
    <2> SUFFICES ASSUME NEW e \in Deferreds, NEW x \in FinalKinds, NEW i \in 1..Len(lists'[e][x].fns),
                        lists'[e][x].fns[i].fn = "update"
                 PROVE  i \in 1..Len(lists[e][x].fns) /\ lists[e][x].fns[i] = lists'[e][x].fns[i]
      BY DEF NoNew
    <2>1. CASE e = d /\ x = "done"
      BY <1>3, <1>4, <2>1
    <2>2. CASE e # Master /\ ~ (e = d /\ x = "done")
      BY <1>1, <2>2
    <2>3. CASE e = Master
      <3>1. Same(Master) \/ \E v \in Nat : Settles(Master, "done", v)
        BY <1>1 DEF MasterSettles
      <3>2. lists'[e][x].fns # << >>
        OBVIOUS
      <3>3. Stays(lists[e][x], lists'[e][x], "update")
        BY <1>2, <2>3, <3>1, <3>2, QuietSame, QuietSettles
      <3> QED BY <3>3 DEF Stays
    <2> QED BY <2>1, <2>2, <2>3
  <1>19. MasterEntries'
    <2>1. remaining' # NotCalled
      BY <1>11 DEF NotCalled
    <2> QED BY <1>14, <1>18, <2>1, QuietNew, EntriesStay
  <1> QED BY <1>16, <1>17, <1>19

\* The loop comes to a reject.
LEMMA RejectWaits ==
  ASSUME FollowInv, GoesOn, MasterEntries, MasterWaits, MasterRight, NEW d \in Roots, MasterKind(d, "fail")
  PROVE  MasterEntries' /\ MasterWaits' /\ MasterRight'
  <1>1. /\ ComesTo(d, "fail", "reject") /\ remaining' = remaining /\ remaining # NotCalled /\ MasterSettles("fail")
        /\ \A e \in Deferreds : e # Master =>
             state'[e] = state[e] /\ \A x \in FinalKinds : e # d \/ x # "fail" => lists'[e][x] = lists[e][x]
    BY DEF MasterKind
  <1>2. /\ d \in Deferreds /\ "fail" \in FinalKinds
        /\ Roots \subseteq Deferreds /\ d # Master /\ \A r \in Roots : r # Master
    BY KindFacts, MasterTyped
  <1>3. \A r \in Roots : state'[r] = state[r]
    BY <1>1, <1>2
  <1>4. Quiet("update")
    BY <1>2, QuietComes
  <1>5. Waiting' = Waiting
    BY <1>1, <1>4, WaitingStays
  <1>6. Settled(Master)' /\ (state'[Master] = "rejected" \/ state'[Master] = state[Master])
    BY <1>1, <1>2, KindFacts, MasterHas
  <1>7. MasterWaits'
    <2>1. /\ remaining = Cardinality(Waiting)
          /\ \A r \in Roots \ Waiting : state[r] = "resolved"
      BY <1>1, MasterWaitsIs
    <2> QED BY <1>1, <1>3, <1>5, <1>6, <2>1 DEF MasterWaits
  <1>8. MasterRight'
    <2>1. state'[d] = "rejected"
      BY <1>1, <1>3, KindFacts DEF ComesTo
    <2> QED BY <1>3, <1>6, <2>1 DEF MasterRight
  <1>9. NoNew("reject")
    <2> SUFFICES ASSUME NEW e \in Deferreds, NEW x \in FinalKinds, NEW i \in 1..Len(lists'[e][x].fns),
                        lists'[e][x].fns[i].fn = "reject"
                 PROVE  i \in 1..Len(lists[e][x].fns) /\ lists[e][x].fns[i] = lists'[e][x].fns[i]
      BY DEF NoNew
    <2>1. CASE e = d /\ x = "fail"
      BY <1>1, <2>1 DEF ComesTo, MovedOn
    <2>2. CASE e # Master /\ ~ (e = d /\ x = "fail")
      BY <1>1, <2>2
    <2>3. CASE e = Master
      <3>1. Same(Master) \/ \E v \in Nat : Settles(Master, "fail", v)
        BY <1>1 DEF MasterSettles
      <3>2. lists'[e][x].fns # << >>
        OBVIOUS
      <3>3. Stays(lists[e][x], lists'[e][x], "reject")
        BY <1>2, <2>3, <3>1, <3>2, QuietSame, QuietSettles
      <3> QED BY <3>3 DEF Stays
    <2> QED BY <2>1, <2>2, <2>3
  <1>10. MasterEntries'
    BY <1>1, <1>4, <1>9, QuietNew, EntriesStay
  <1> QED BY <1>7, <1>8, <1>10

\* What when() finds and leaves.
LEMMA WhenWaits ==
  ASSUME FollowInv, GoesOn, MasterEntries, MasterWaits, MasterRight, WhenKind
  PROVE  MasterEntries' /\ MasterWaits' /\ MasterRight'
  <1>1. /\ remaining = NotCalled /\ remaining' = Cardinality(Roots \ Gone("done"))
        /\ \A d \in Deferreds : d # Master => state'[d] = state[d] /\ lists'[d] = Subscribed[d]
        /\ \/ Gone("fail") # {} /\ MasterSettles("fail")
           \/ Gone("fail") = {} /\ remaining' = 0 /\ MasterSettles("done")
           \/ Gone("fail") = {} /\ remaining' # 0 /\ Same(Master)
    BY DEF WhenKind
  <1>2. /\ "done" \in FinalKinds /\ "fail" \in FinalKinds /\ StateOf("done") = "resolved" /\ StateOf("fail") = "rejected"
        /\ Other("done") = "fail" /\ Other("fail") = "done" /\ "done" \in Kinds /\ "fail" \in Kinds
        /\ Roots \subseteq Deferreds /\ Master \in Deferreds /\ Master \notin Roots /\ \A r \in Roots : r # Master
    BY KindFacts, MasterTyped
  <1>3. remaining' \in Nat /\ remaining' # NotCalled
    BY <1>1, RestTyped DEF NotCalled
  <1>4. \A d \in Deferreds, k \in Kinds : \A i \in 1..Len(lists[d][k].fns) :
           lists[d][k].fns[i].fn # "update" /\ lists[d][k].fns[i].fn # "reject"
    BY <1>1 DEF MasterEntries
  \* A list of a root that is not late has the new entry, and it alone.
  <1>5. ASSUME NEW r \in Roots, NEW k \in FinalKinds, NEW f \in {"update", "reject"}, k = "done" <=> f = "update"
        PROVE  /\ lists[r][k] \in PromiseList /\ SubscribedTo(lists[r][k], lists'[r][k], f)
               /\ \A i \in 1..Len(lists'[r][k].fns), j \in 1..Len(lists'[r][k].fns) :
                    lists'[r][k].fns[i].fn # "script" /\ lists'[r][k].fns[j].fn # "script" =>
                      i = j /\ lists'[r][k].fns[i].fn = f
               /\ ~ Late(lists[r][k]) /\ lists[r][k].alive => AheadOf(lists'[r][k], f)
    <2>1. lists'[r] = Subscribed[r] /\ r \in Deferreds
      BY <1>1, <1>2
    <2>2. SubscribedTo(lists[r][k], lists'[r][k], f)
      BY <1>2, <1>5, <2>1, SubscribedLists, KindFacts
    <2>3. PICK l \in PromiseList, m \in PromiseList : l = lists[r][k] /\ m = lists'[r][k]
      BY <2>1, AliveFits, NextLists
    <2>4. PICK e \in Entries : e = [fn |-> f, id |-> 0] /\ e.fn = f
      <3>1. [fn |-> f, id |-> 0] \in Entries /\ [fn |-> f, id |-> 0].fn = f
        BY DEF Entries
      <3> QED BY <3>1
    <2>5. \A i \in 1..Len(l.fns) : l.fns[i].fn = "script"
      <3>1. \A i \in 1..Len(l.fns) : l.fns[i] \in Entries
        BY ListFields
      <3>2. \A i \in 1..Len(l.fns) : l.fns[i].fn \in {"script", "update", "reject"}
        BY <3>1 DEF Entries
      <3> QED BY <1>4, <2>1, <2>3, <3>2, KindFacts
    <2>6. CASE m = l /\ (Late(l) \/ ~ l.alive)
      <3>1. \A i \in 1..Len(m.fns) : m.fns[i].fn = "script"
        BY <2>5, <2>6
      <3> QED BY <2>2, <2>3, <2>6, <3>1
    <2>7. CASE l.alive /\ AddedTo(l, m, e)
      <3>0. Waits(l) \/ Fires(l)
        BY <2>1, <2>3, <2>7, AliveFits
      <3>1. /\ \A i \in 1..Len(l.fns) : i \in 1..Len(m.fns) /\ m.fns[i] = l.fns[i] /\ m.index = l.index
            /\ Len(l.fns) + 1 \in 1..Len(m.fns) /\ m.fns[Len(l.fns) + 1] = e /\ Len(l.fns) + 1 > m.index
            /\ \A i \in 1..Len(m.fns) : i \in 1..Len(l.fns) \/ i = Len(l.fns) + 1
        BY <2>7, <3>0, Joined
      <3>2. \A i \in 1..Len(m.fns) : m.fns[i].fn # "script" => i = Len(l.fns) + 1 /\ m.fns[i].fn = f
        BY <2>4, <2>5, <3>1
      <3>3. AheadOf(m, f)
        BY <2>4, <3>1 DEF AheadOf
      <3> QED BY <2>2, <2>3, <3>2, <3>3
    <2> QED BY <2>2, <2>3, <2>4, <2>6, <2>7 DEF SubscribedTo
  <1>6. ASSUME NEW r \in Roots PROVE WaitsFor(r)' <=> r \notin Gone("done")
    <2>1. r \in Deferreds /\ state'[r] = state[r]
      BY <1>1, <1>2
    <2>2. CASE r \in Gone("done")
      <3>1. state[r] = "resolved" /\ Late(lists[r]["done"])
        BY <1>2, <2>2, LateValue DEF Gone
      <3>2. lists'[r]["done"] = lists[r]["done"]
        BY <1>2, <1>5, <3>1 DEF SubscribedTo
      <3>3. ~ AheadOf(lists'[r]["done"], "update")
        BY <1>2, <1>4, <2>1, <3>2 DEF AheadOf
      <3> QED BY <2>1, <2>2, <3>1, <3>3 DEF WaitsFor, AheadOf
    <2>3. CASE r \notin Gone("done")
      <3>1. ~ Late(lists[r]["done"])
        BY <2>3 DEF Gone
      <3>2. CASE lists[r]["done"].alive
        <4>1. AheadOf(lists'[r]["done"], "update")
          BY <1>2, <1>5, <3>1, <3>2
        <4> QED BY <2>3, <4>1 DEF WaitsFor, AheadOf
      <3>3. CASE ~ lists[r]["done"].alive
        <4>1. ~ Waits(lists[r]["done"]) /\ ~ Fires(lists[r]["done"])
          BY <3>3 DEF Waits, Fires
        <4>2. state[r] # "pending" /\ state[r] # "resolved"
          BY <1>2, <2>1, <4>1, AliveFits
        <4>3. state[r] = "rejected"
          BY <2>1, <4>2, Known
        <4> QED BY <2>1, <2>3, <4>3 DEF WaitsFor
      <3> QED BY <3>2, <3>3
    <2> QED BY <2>2, <2>3
  <1>7. Waiting' = Roots \ Gone("done")
    BY <1>6, WaitingIs
  <1>8. \A r \in Roots \ Waiting' : state'[r] = "resolved"
    <2>1. \A r \in Roots : r \notin Waiting' => r \in Gone("done")
      BY <1>7
    <2> QED BY <1>1, <1>2, <2>1, LateValue
  <1>9. Gone("fail") # {} \/ remaining' = 0 => Settled(Master)'
    BY <1>1, <1>2, MasterHas
  <1>10. ASSUME NEW r \in Roots, state'[r] # "resolved" PROVE Hears(r)'
    <2>1. CASE Gone("fail") # {}
      BY <1>9, <2>1 DEF Hears
    <2>2. CASE Gone("fail") = {}
      <3>1. ~ Late(lists[r]["fail"]) /\ state[r] # "resolved" /\ r \in Deferreds
        BY <1>1, <1>2, <1>10, <2>2 DEF Gone
      <3>2. lists[r]["fail"].alive
        <4>1. state[r] = "pending" \/ state[r] = "rejected"
          BY <3>1, Known
        <4>2. Waits(lists[r]["fail"]) \/ Fires(lists[r]["fail"])
          BY <1>2, <3>1, <4>1, AliveFits
        <4> QED BY <4>2 DEF Waits, Fires
      <3>3. AheadOf(lists'[r]["fail"], "reject")
        BY <1>2, <1>5, <3>1, <3>2
      <3> QED BY <3>3 DEF Hears, AheadOf
    <2> QED BY <2>1, <2>2
  <1>11. MasterWaits'
    BY <1>1, <1>7, <1>8, <1>9, <1>10 DEF MasterWaits, Hears, AheadOf
  <1>12. MasterRight'
    <2>0. \A r \in Roots : state'[r] = state[r]
      BY <1>1, <1>2
    <2>1. CASE Gone("fail") # {} /\ MasterSettles("fail")
      <3>1. PICK r \in Gone("fail") : TRUE
        BY <2>1
      <3>2. r \in Roots /\ state'[r] = "rejected"
        BY <1>2, <2>0, LateValue DEF Gone
      <3>3. state'[Master] = "rejected" \/ state'[Master] = state[Master]
        BY <1>2, <2>1, MasterHas
      <3> QED BY <2>0, <3>2, <3>3 DEF MasterRight
    <2>2. CASE remaining' = 0 /\ MasterSettles("done")
      <3>1. Waiting' = {}
        <4>1. IsFiniteSet(Roots \ Gone("done"))
          BY DeferredsAssumption, FS_Subset
        <4> QED BY <1>1, <1>7, <2>2, <4>1, FS_EmptySet
      <3>2. \A r \in Roots : state'[r] = "resolved"
        BY <1>8, <3>1
      <3>3. state'[Master] = "resolved" \/ state'[Master] = state[Master]
        BY <1>2, <2>2, MasterHas
      <3> QED BY <2>0, <3>2, <3>3 DEF MasterRight
    <2>3. CASE Same(Master)
      BY <2>0, <2>3 DEF MasterRight, Same
    <2> QED BY <1>1, <2>1, <2>2, <2>3
  <1>13. MasterEntries'
    <2> SUFFICES ASSUME NEW d \in Deferreds, NEW k \in Kinds, NEW i \in 1..Len(lists'[d][k].fns)
                 PROVE  /\ lists'[d][k].fns[i].fn = "update" =>
                             /\ d \in Roots /\ k = "done" /\ remaining' # NotCalled
                             /\ \A j \in 1..Len(lists'[d][k].fns) : lists'[d][k].fns[j].fn = "update" => i = j
                        /\ lists'[d][k].fns[i].fn = "reject" => d \in Roots /\ k = "fail" /\ remaining' # NotCalled
      BY DEF MasterEntries
    <2>1. CASE k = "progress"
      <3>1. \A n \in 1..Len(lists[d]["progress"].fns) :
              lists[d]["progress"].fns[n].fn # "update" /\ lists[d]["progress"].fns[n].fn # "reject"
        BY <1>4, <2>1
      <3>2. lists'[d]["progress"].fns[i].fn # "update"
        BY <2>1, <3>1, ProgressEntries
      <3>3. lists'[d]["progress"].fns[i].fn # "reject"
        BY <2>1, <3>1, ProgressEntries
      <3> QED BY <2>1, <3>2, <3>3
    <2>2. CASE k \in FinalKinds /\ d \notin Roots
      <3> SUFFICES lists'[d][k].fns[i].fn # "update" /\ lists'[d][k].fns[i].fn # "reject"
        OBVIOUS
      <3>1. CASE d # Master
        <4>1. lists'[d] = lists[d]
          BY <1>1, <2>2, <3>1, SubscribedLists
        <4> QED BY <1>4, <4>1
      <3>2. CASE d = Master
        <4>1. lists'[d][k].fns # << >>
          OBVIOUS
        <4>2. Same(Master) \/ \E x \in FinalKinds, v \in Nat : Settles(Master, x, v)
          BY <1>1, <1>2 DEF MasterSettles
        <4>3. Stays(lists[d][k], lists'[d][k], "update") /\ Stays(lists[d][k], lists'[d][k], "reject")
          BY <2>2, <3>2, <4>1, <4>2, QuietSame, QuietSettles
        <4> QED BY <1>4, <4>3 DEF Stays
      <3> QED BY <3>1, <3>2
    <2>3. CASE k = "done" /\ d \in Roots
      <3>1. \A j \in 1..Len(lists'[d]["done"].fns) : lists'[d]["done"].fns[j].fn # "script" =>
              lists'[d]["done"].fns[j].fn = "update" /\ \A n \in 1..Len(lists'[d]["done"].fns) :
                lists'[d]["done"].fns[n].fn # "script" => j = n
        BY <1>2, <1>5, <2>3, KindFacts
      <3> QED BY <1>2, <1>3, <2>3, <3>1
    <2>4. CASE k = "fail" /\ d \in Roots
      <3>1. \A j \in 1..Len(lists'[d]["fail"].fns) : lists'[d]["fail"].fns[j].fn # "script" =>
              lists'[d]["fail"].fns[j].fn = "reject"
        BY <1>2, <1>5, <2>4, KindFacts
      <3> QED BY <1>2, <1>3, <2>4, <3>1
    <2> QED BY <2>1, <2>2, <2>3, <2>4, KindFacts
  <1> QED BY <1>11, <1>12, <1>13

\* The count of when() and its outcome stay right, step by step.
LEMMA MasterStays ==
  ASSUME FollowInv, GoesOn, MasterEntries, MasterWaits, MasterRight, StepKinds
  PROVE  MasterEntries' /\ MasterWaits' /\ MasterRight'
  <1>1. CASE PlainStep
    <2>1. state'[Master] = state[Master]
      BY <1>1, DeferredsAssumption DEF PlainStep, OneSettles, Same, Deferreds
    <2>2. Quiet("update") /\ Quiet("reject") /\ remaining' = remaining
      BY <1>1, QuietPlain DEF PlainStep
    <2> QED BY <2>1, <2>2, MasterRests
  <1>2. CASE \E d \in Deferreds, k \in FinalKinds : EndStep(d, k)
    <2>1. Quiet("update") /\ Quiet("reject") /\ remaining' = remaining /\ state' = state
      BY <1>2, QuietEnd DEF EndStep
    <2> QED BY <2>1, MasterRests
  <1>3. CASE \E d \in Deferreds, k \in FinalKinds : CallStep(d, k)
    <2>1. Quiet("update") /\ Quiet("reject") /\ remaining' = remaining /\ state' = state
      BY <1>3, QuietCall DEF CallStep
    <2> QED BY <2>1, MasterRests
  <1>4. CASE \E d \in Deferreds, k \in FinalKinds : AddStep(d, k)
    <2>1. Quiet("update") /\ Quiet("reject") /\ remaining' = remaining /\ state' = state
      BY <1>4, QuietAdd DEF AddStep
    <2> QED BY <2>1, MasterRests
  <1>5. CASE WhenKind
    BY <1>5, WhenWaits
  <1>6. CASE \E d \in Roots, k \in FinalKinds : MasterKind(d, k)
    <2>1. PICK d \in Roots, k \in FinalKinds : MasterKind(d, k)
      BY <1>6
    <2>2. k = "done" \/ k = "fail"
      BY KindFacts
    <2> QED BY <2>1, <2>2, UpdateWaits, RejectWaits
  <1> QED BY <1>1, <1>2, <1>3, <1>4, <1>5, <1>6 DEF StepKinds

-----------------------------------------------------------------------------
\* A step keeps the invariant,
LEMMA DeferredStays == ASSUME DeferredInv, DeferredNext PROVE DeferredInv' /\ GoesOn /\ StepKinds
  <1>1. GoesOn /\ StepKinds
    BY EveryGoes, EveryStep DEF DeferredInv
  <1>2. FollowInv'
    BY <1>1, FollowStays DEF DeferredInv
  <1>3. AskedRight' /\ AskedKept'
    BY <1>1, AskedStays DEF DeferredInv
  <1>4. MasterEntries' /\ MasterWaits' /\ MasterRight'
    BY <1>1, MasterStays DEF DeferredInv
  <1> QED BY <1>1, <1>2, <1>3, <1>4 DEF DeferredInv

\* as does one that changes nothing,
LEMMA StutterStays == ASSUME DeferredInv, UNCHANGED deferredVars PROVE DeferredInv'
  <1>1. /\ state' = state /\ lists' = lists /\ parent' = parent /\ handled' = handled /\ kids' = kids
        /\ told' = told /\ maxDepth' = maxDepth /\ hooks' = hooks /\ remaining' = remaining /\ timers' = timers
        /\ stack' = stack /\ calls' = calls /\ asked' = asked /\ answers' = answers
    BY DEF deferredVars
  <1>2. FollowInv'
    <2>1. DeferredTypes'
      <3>1. DeferredTypes
        BY DEF DeferredInv, FollowInv
      <3>2. Registrations' = Registrations
        BY <1>1 DEF Registrations
      <3>3. calls' \in Nat /\ asked' \subseteq Registrations' /\ answers' \in Seq(asked' \X Nat)
        BY <1>1, <3>1, <3>2 DEF DeferredTypes
      <3> QED BY <1>1, <3>1, <3>3 DEF DeferredTypes
    <2>2. ListsFit'
      BY <1>1 DEF DeferredInv, FollowInv, ListsFit
    <2>3. AllRight'
      BY <1>1 DEF DeferredInv, FollowInv, AllRight, FrameRight, TimerRight, HookRight, Explained
    <2>4. KidsFit'
      BY <1>1 DEF DeferredInv, FollowInv, KidsFit
    <2>5. FollowRight'
      <3>1. \A c \in Children : Follows(c)
        BY DEF DeferredInv, FollowInv, FollowRight
      <3>2. \A d : Settled(d)' <=> Settled(d)
        BY <1>1 DEF Settled
      <3>3. \A d : OutcomeOf(d)' = OutcomeOf(d)
        BY <1>1 DEF OutcomeOf
      <3>4. \A c \in Children : Follows(c)'
        <4> SUFFICES ASSUME NEW c \in Children, Settled(c)'
                     PROVE  /\ parent'[c] # c /\ Settled(parent[c])'
                            /\ (\A k \in handled'[c] \cap FinalKinds : StateOf(k) # state'[parent'[c]])
                                 => OutcomeOf(c)' = OutcomeOf(parent[c])'
          BY <1>1 DEF Follows
        <4>1. Follows(c) /\ Settled(c)
          BY <3>1, <3>2
        <4>2. /\ parent[c] # c /\ Settled(parent[c])
              /\ (\A k \in handled[c] \cap FinalKinds : StateOf(k) # state[parent[c]])
                   => OutcomeOf(c) = OutcomeOf(parent[c])
          BY <4>1 DEF Follows
        <4> QED BY <1>1, <3>2, <3>3, <4>2
      <3> QED BY <3>4 DEF FollowRight
    <2>6. FollowKept'
      BY <1>1 DEF DeferredInv, FollowInv, FollowKept, Settled, Adopting, UnderWay
    <2> QED BY <2>1, <2>2, <2>3, <2>4, <2>5, <2>6 DEF FollowInv
  <1>3. AskedRight' /\ AskedKept'
    <2>1. \A a : Called(a)' <=> Called(a)
      BY <1>1 DEF Called
    <2>2. AskedRight'
      BY <1>1, <2>1 DEF DeferredInv, AskedRight
    <2>3. AskedKept'
      BY <1>1, <2>1 DEF DeferredInv, AskedKept
    <2> QED BY <2>2, <2>3
  <1>4. MasterEntries' /\ MasterWaits' /\ MasterRight'
    BY <1>1 DEF DeferredInv, MasterEntries, MasterWaits, MasterRight, Waiting, Settled
  <1> QED BY <1>2, <1>3, <1>4 DEF DeferredInv

\* and it holds at first, when every promise is pending.
LEMMA InitHolds == DeferredInit => DeferredInv
  <1> SUFFICES ASSUME DeferredInit PROVE DeferredInv
    OBVIOUS
  <1>1. /\ state = [d \in Deferreds |-> "pending"] /\ parent = [c \in Children |-> c]
        /\ handled = [c \in Children |-> {}] /\ kids = [d \in Deferreds |-> << >>]
        /\ told = [d \in Deferreds |-> NoValue] /\ maxDepth = [c \in Children |-> 0] /\ hooks = {}
        /\ remaining = NotCalled /\ timers = << >> /\ stack = << >> /\ calls = 0 /\ asked = {} /\ answers = << >>
        /\ lists = [d \in Deferreds |->
             [k \in Kinds |-> NewList(IF k = "progress" THEN {"memory"} ELSE {"once", "memory"})]]
    BY DEF DeferredInit
  <1>2. ASSUME NEW o \in {{"memory"}, {"once", "memory"}}
        PROVE  /\ NewList(o) \in PromiseList /\ Waits(NewList(o)) /\ NewList(o).options = o
               /\ NewList(o).queue = << >> /\ NewList(o).fns = << >>
    <2>1. << >> \in Seq(Entries) /\ << >> \in Seq(Nat) /\ NoValue \in Nat
      BY DEF NoValue
    <2> QED BY <2>1 DEF NewList, PromiseList, Waits
  <1>3. \A d \in Deferreds, k \in Kinds : lists[d][k] \in PromiseList /\ lists[d][k].fns = << >>
    BY <1>1, <1>2
  <1>4. \A d \in Deferreds, k \in FinalKinds :
          Waits(lists[d][k]) /\ lists[d][k].options = {"once", "memory"} /\ lists[d][k].queue = << >>
    BY <1>1, <1>2, KindFacts
  <1>5. DeferredTypes
    <2>1. lists \in [Deferreds -> [Kinds -> PromiseList]]
      <3>1. \A d \in Deferreds :
              [k \in Kinds |-> NewList(IF k = "progress" THEN {"memory"} ELSE {"once", "memory"})] \in [Kinds -> PromiseList]
        BY <1>2
      <3> QED BY <1>1, <3>1
    <2>2. << >> \in Seq(Frames) /\ << >> \in Seq([child: Children, k: Kinds, value: Nat]) /\ << >> \in Seq({} \X Nat)
          /\ << >> \in Seq(Children) /\ NoValue \in Nat /\ NotCalled \in Int
      BY DEF NoValue, NotCalled
    <2>3. Children \subseteq Deferreds
      BY DEF Deferreds
    <2> QED BY <1>1, <2>1, <2>2, <2>3 DEF DeferredTypes
  <1>6. \A c \in Children : parent[c] = c
    BY <1>1
  <1>7. \A d \in Deferreds : state[d] = "pending"
    BY <1>1
  <1>8. ListsFit
    BY <1>4, <1>7, KindFacts DEF ListsFit
  <1>9. AllRight /\ KidsFit
    BY <1>1, <1>6 DEF AllRight, KidsFit
  <1>10. FollowRight /\ FollowKept
    <2>1. Children \subseteq Deferreds
      BY DEF Deferreds
    <2> QED BY <1>6, <1>7, <2>1 DEF FollowRight, Follows, Settled, FollowKept
  <1>11. AskedRight /\ AskedKept
    <2>1. \A d \in Deferreds, k \in FinalKinds : lists[d][k].fns = << >>
      BY <1>3, KindFacts
    <2>2. AskedRight
      BY <2>1 DEF AskedRight
    <2>3. AskedKept
      BY <1>1 DEF AskedKept
    <2> QED BY <2>2, <2>3
  <1>12. MasterEntries /\ MasterWaits /\ MasterRight
    BY <1>1, <1>3, <1>7, MasterTyped DEF MasterEntries, MasterWaits, MasterRight
  <1> QED BY <1>5, <1>8, <1>9, <1>10, <1>11, <1>12 DEF DeferredInv, FollowInv

\* At all times: lists are as their state says, what runs has its reason, what
\* then() returned follows its promise, callbacks are called once and when()
\* counts right (jQuery.Deferred, then() and jQuery.when()).
THEOREM DeferredInvariant == DeferredSpec => []DeferredInv
  <1>1. ASSUME DeferredInv, [DeferredNext]_deferredVars PROVE DeferredInv'
    BY <1>1, DeferredStays, StutterStays
  <1> QED BY <1>1, InitHolds, PTL DEF DeferredSpec

-----------------------------------------------------------------------------
\* The invariant says that promises are kept: no timer and no script is left
\* that a promise unsettled, or a callback not called, could wait for.
LEMMA KeptNow == ASSUME DeferredInv PROVE PromisesKept
  <1>0. FollowInv /\ AskedKept /\ MasterWaits /\ MasterRight /\ FollowRight /\ FollowKept
    BY DEF DeferredInv, FollowInv
  <1>1. ThenFollows
    BY <1>0 DEF ThenFollows, FollowRight, Follows, MasterRight
  <1>2. ASSUME stack = << >>, timers = << >>, NEW c \in Children, parent[c] # c, Settled(parent[c])
        PROVE  Settled(c) \/ Adopting(c)
    <2>1. ~ UnderWay(c)
      BY <1>2 DEF UnderWay
    <2> QED BY <1>0, <1>2, <2>1 DEF FollowKept
  <1>3. ASSUME NEW d \in Deferreds, NEW k \in FinalKinds, state[d] = StateOf(k), ~ Stuck(d)
        PROVE  lists[d][k].fns = << >>
    <2>1. Fires(lists[d][k]) /\ ~ lists[d][k].firing
      BY <1>0, <1>3, AliveFits DEF Stuck
    <2> QED BY <2>1 DEF Fires
  <1>4. ASSUME NEW a \in asked, a[2] = state[a[1]], ~ Stuck(a[1])
        PROVE  \E i \in DOMAIN answers : answers[i][1] = a
    <2>1. PICK k \in FinalKinds : a[2] = StateOf(k)
      <3>1. asked \subseteq Registrations
        BY <1>0, Known DEF DeferredTypes
      <3>2. a[2] \in {"resolved", "rejected"}
        BY <3>1 DEF Registrations
      <3> QED BY <3>2, KindFacts
    <2>2. a[1] \in Deferreds
      BY <1>0, RegistrationParts
    <2>3. lists[a[1]][k].fns = << >>
      BY <1>3, <1>4, <2>1, <2>2
    <2>4. IsKept(a, k)
      BY <1>0, <1>4, <2>1, AskedKeptIs
    <2>5. Called(a)
      BY <2>3, <2>4 DEF IsKept
    <2>6. DOMAIN answers = 1..Len(answers)
      <3>1. answers \in Seq(asked \X Nat)
        BY <1>0, Known DEF DeferredTypes
      <3> QED BY <3>1
    <2> QED BY <2>5, <2>6 DEF Called
  <1>5. ASSUME remaining # NotCalled, \A r \in Roots : Settled(r) /\ ~ Stuck(r) PROVE Settled(Master)
    <2>1. /\ remaining = Cardinality(Waiting)
          /\ remaining = 0 => Settled(Master)
          /\ \A r \in Roots : state[r] # "resolved" => Hears(r)
      BY <1>0, <1>5, MasterWaitsIs
    <2>2. CASE \E r \in Roots : state[r] # "resolved"
      <3>1. PICK r \in Roots : state[r] # "resolved"
        BY <2>2
      <3>2. r \in Deferreds /\ state[r] = StateOf("fail") /\ ~ Stuck(r) /\ "fail" \in FinalKinds
        BY <1>0, <1>5, <3>1, Known, MasterTyped, KindFacts DEF Settled
      <3>3. lists[r]["fail"].fns = << >>
        BY <1>3, <3>2
      <3> QED BY <2>1, <3>1, <3>3 DEF Hears, AheadOf
    <2>3. CASE \A r \in Roots : state[r] = "resolved"
      <3>1. \A r \in Roots : lists[r]["done"].fns = << >>
        BY <1>3, <1>5, <2>3, MasterTyped, KindFacts
      <3>2. Waiting = {}
        BY <2>3, <3>1 DEF Waiting
      <3>3. remaining = 0
        BY <2>1, <3>2, FS_EmptySet
      <3> QED BY <2>1, <3>3
    <2> QED BY <2>2, <2>3
  <1>6. NothingForgotten
    BY <1>2, <1>4, <1>5 DEF NothingForgotten
  <1> QED BY <1>1, <1>6 DEF PromisesKept

\* Once no script runs and no timer is set, every promise returned by then()
\* has settled after its parent, unless it waits for a thenable; every callback
\* of a settled promise was called and when() has seen every subordinate,
\* unless a throw left the loop that was to call them. What then() returned
\* settles only after its parent and as it did unless it handled that, and the
\* master only as its subordinates do.
THEOREM PromisesAreKept == DeferredSpec => []PromisesKept
  BY DeferredInvariant, KeptNow, PTL

-----------------------------------------------------------------------------
\* What a step makes of the outcomes.
Outcomes == [d \in Deferreds |-> OutcomeOf(d)]

\* A step that keeps a promise's state keeps what it settled with.
LEMMA OutcomesOf ==
  ASSUME FollowInv, GoesOn, NEW d \in Deferreds, state'[d] = state[d] PROVE OutcomeOf(d)' = OutcomeOf(d)
  <1>1. CASE state[d] = "pending"
    BY <1>1 DEF OutcomeOf
  <1>2. CASE state[d] # "pending"
    BY <1>2, SettledStays DEF FollowInv, GoesOn
  <1> QED BY <1>1, <1>2

\* One that keeps all states keeps all outcomes.
LEMMA OutcomesRest ==
  ASSUME FollowInv, GoesOn, \A d \in Deferreds : state'[d] = state[d] PROVE Outcomes' = Outcomes
  <1>1. \A d \in Deferreds : OutcomeOf(d)' = OutcomeOf(d)
    BY OutcomesOf
  <1> QED BY <1>1 DEF Outcomes

\* A promise that settles takes the step of the abstract promise.
LEMMA OutcomeSettles ==
  ASSUME FollowInv, GoesOn, NEW d \in Deferreds, state[d] = "pending", state'[d] # "pending",
         \A e \in Deferreds \ {d} : state'[e] = state[e], UNCHANGED <<asked, answers>>
  PROVE  P!Settle(d)
  <1>1. \A e \in Deferreds \ {d} : OutcomeOf(e)' = OutcomeOf(e)
    BY OutcomesOf
  <1>2. PICK o : o = OutcomeOf(d)'
    OBVIOUS
  <1>3. Outcomes' = [Outcomes EXCEPT ![d] = o]
    BY <1>1, <1>2 DEF Outcomes
  <1>4. Outcomes[d][1] = "pending"
    BY DEF Outcomes, OutcomeOf
  <1>5. Outcomes'[d] = o /\ o[1] \in {"resolved", "rejected"}
    <2>1. state'[d] \in {"resolved", "rejected"}
      BY DEF GoesOn, DeferredTypes
    <2>2. o[1] = state'[d]
      BY <1>2 DEF OutcomeOf
    <2>3. Outcomes'[d] = o
      BY <1>2 DEF Outcomes
    <2> QED BY <2>1, <2>2, <2>3
  <1>6. Outcomes' = [Outcomes EXCEPT ![d] = Outcomes'[d]]
    BY <1>3, <1>5
  <1> QED BY <1>4, <1>5, <1>6 DEF P!Settle, Outcomes

\* Every step settles one promise, calls a callback registered with the value
\* its promise settled with, registers one, or is a stutter.
LEMMA StepRefines == ASSUME DeferredInv, DeferredNext PROVE P!PromiseNext \/ UNCHANGED <<Outcomes, asked, answers>>
  <1>0. GoesOn /\ StepKinds /\ FollowInv /\ AskedRight /\ AskedKept
    BY DeferredStays DEF DeferredInv
  <1>1. ASSUME NEW d \in Deferreds, state[d] = "pending", state'[d] # "pending",
               \A e \in Deferreds \ {d} : state'[e] = state[e], UNCHANGED <<asked, answers>>
        PROVE  P!PromiseNext
    BY <1>0, <1>1, OutcomeSettles DEF P!PromiseNext
  <1>2. CASE PlainStep
    <2>1. CASE \A d \in Deferreds : Same(d)
      <3>1. \A d \in Deferreds : state'[d] = state[d]
        BY <2>1 DEF Same
      <3> QED BY <1>0, <1>2, <3>1, OutcomesRest DEF PlainStep
    <2>2. ASSUME NEW d \in Roots \cup Children, OneSettles(d) PROVE P!PromiseNext
      <3>1. d \in Deferreds
        BY DEF Deferreds
      <3>2. state[d] = "pending" /\ state'[d] # "pending" /\ \A e \in Deferreds \ {d} : state'[e] = state[e]
        BY <2>2, KindFacts DEF OneSettles, Settles, Same
      <3> QED BY <1>1, <1>2, <3>1, <3>2 DEF PlainStep
    <2> QED BY <1>2, <2>1, <2>2 DEF PlainStep
  <1>3. CASE \E d \in Deferreds, k \in FinalKinds : EndStep(d, k)
    BY <1>0, <1>3, OutcomesRest DEF EndStep
  <1>4. ASSUME NEW d \in Deferreds, NEW k \in FinalKinds, CallStep(d, k) PROVE P!PromiseNext
    <2> DEFINE a == <<d, StateOf(k), lists[d][k].fns[lists[d][k].index + 1].id>>
    <2>1. a \in asked /\ ~ Called(a)
      BY <1>0, <1>4, CallAsks
    <2>2. answers' = Append(answers, <<a, lists[d][k].memory>>) /\ asked' = asked /\ state' = state
          /\ state[d] = StateOf(k)
      BY <1>4 DEF CallStep, ComesTo
    <2>3. a[1] = d /\ a[2] = StateOf(k)
      OBVIOUS
    <2>4. Outcomes' = Outcomes
      BY <1>0, <2>2, OutcomesRest
    <2>5. OutcomeOf(d) = <<StateOf(k), lists[d][k].memory>>
      BY <1>0, <2>2, SettledValue
    <2>6. DOMAIN answers = 1..Len(answers)
      <3>1. answers \in Seq(asked \X Nat)
        BY <1>0, Known DEF DeferredTypes
      <3> QED BY <3>1
    <2>7. \A i \in DOMAIN answers : answers[i][1] # a
      BY <2>1, <2>6 DEF Called
    <2> HIDE DEF a
    <2>8. Outcomes[a[1]] = <<StateOf(k), lists[d][k].memory>>
      BY <2>3, <2>5 DEF Outcomes
    <2>9. P!Answer(a)
      BY <2>2, <2>3, <2>4, <2>7, <2>8 DEF P!Answer, Outcomes
    <2> QED BY <2>1, <2>9 DEF P!PromiseNext
  <1>5. ASSUME NEW d \in Deferreds, NEW k \in FinalKinds, AddStep(d, k) PROVE P!PromiseNext
    <2>1. Outcomes' = Outcomes
      BY <1>0, <1>5, OutcomesRest DEF AddStep
    <2>2. P!Register
      BY <1>5, <2>1 DEF AddStep, P!Register, Outcomes
    <2> QED BY <2>2 DEF P!PromiseNext
  <1>6. ASSUME \A d \in Deferreds : d # Master => state'[d] = state[d], UNCHANGED <<asked, answers>>,
               Same(Master) \/ \E k \in FinalKinds : MasterSettles(k)
        PROVE  P!PromiseNext \/ UNCHANGED <<Outcomes, asked, answers>>
    <2>1. Master \in Deferreds
      BY MasterTyped
    <2>2. CASE Same(Master)
      <3>1. \A d \in Deferreds : state'[d] = state[d]
        BY <1>6, <2>2 DEF Same
      <3> QED BY <1>0, <1>6, <3>1, OutcomesRest
    <2>3. CASE \E k \in FinalKinds, v \in Nat : Settles(Master, k, v)
      <3>1. state[Master] = "pending" /\ state'[Master] # "pending"
        BY <2>3, KindFacts DEF Settles
      <3> QED BY <1>1, <1>6, <2>1, <3>1
    <2> QED BY <1>6, <2>2, <2>3 DEF MasterSettles
  <1>7. CASE WhenKind
    BY <1>6, <1>7, KindFacts DEF WhenKind
  <1>8. CASE \E d \in Roots, k \in FinalKinds : MasterKind(d, k)
    BY <1>6, <1>8, KindFacts DEF MasterKind
  <1> QED BY <1>0, <1>2, <1>3, <1>4, <1>5, <1>7, <1>8 DEF StepKinds

\* Deferreds implement promises: whatever callbacks, handlers and thenables do
\* and throw, each of them settles once and for all, and each callback is
\* called at most once, with the value its promise settled with.
THEOREM DeferredsImplementPromises == DeferredSpec => ImplementsPromise
  <1>1. DeferredInit => P!PromiseInit
    <2> SUFFICES ASSUME DeferredInit PROVE P!PromiseInit
      OBVIOUS
    <2>1. \A d \in Deferreds : OutcomeOf(d) = <<"pending", 0>>
      BY DEF DeferredInit, OutcomeOf
    <2> QED BY <2>1 DEF DeferredInit, P!PromiseInit
  <1>2. ASSUME DeferredInv, [DeferredNext]_deferredVars PROVE [P!PromiseNext]_P!promiseVars
    <2>1. CASE DeferredNext
      <3>1. P!PromiseNext \/ UNCHANGED <<Outcomes, asked, answers>>
        BY <1>2, <2>1, StepRefines
      <3> QED BY <3>1 DEF P!promiseVars, Outcomes
    <2>2. CASE UNCHANGED deferredVars
      <3>1. state' = state /\ lists' = lists /\ asked' = asked /\ answers' = answers
        BY <2>2 DEF deferredVars
      <3>2. Outcomes' = Outcomes
        BY <3>1 DEF Outcomes, OutcomeOf
      <3> QED BY <3>1, <3>2 DEF P!promiseVars, Outcomes
    <2> QED BY <1>2, <2>1, <2>2
  <1> QED BY <1>1, <1>2, DeferredInvariant, PTL DEF DeferredSpec, ImplementsPromise, P!PromiseSpec

=============================================================================
