---------------------------- MODULE EffectsProofs ----------------------------
(***************************************************************************)
(* Proofs about Effects, for any elements, items and calls: one item of an *)
(* element is in progress at a time, its queue advances, and the timers    *)
(* run, whatever complete callbacks do in the middle of a loop.            *)
(***************************************************************************)
EXTENDS Effects, SequenceTheorems, FiniteSetTheorems, TLAPS

-----------------------------------------------------------------------------
(* The inductive invariant. *)

\* What items, and the stack of interrupted calls, consist of.
ItemRecords == [elem: Animated, kind: {"animation", "delay", "unqueued", "empty"},
                stage: {"waiting", "running", "resolved", "rejected"}]
Over == {"resolved", "rejected"}
CompleteFrames == [op: {"complete"}, item: Nat]
CreateFrames == [op: {"create"}, item: Nat]
TickFrames == [op: {"tick"}, at: Nat \ {0}, item: Nat]
StopFrames == [op: {"stop"}, elem: Animated, at: Nat, item: Nat,
               gotoEnd: BOOLEAN, dequeue: BOOLEAN, owes: BOOLEAN]
FinishFrames == [op: {"finish"}, elem: Animated, at: Nat, item: Nat, todo: Seq(Nat)]
CallFrames == CompleteFrames \cup CreateFrames \cup TickFrames \cup StopFrames \cup FinishFrames

\* Item i is asked for and waits its turn at e.
WaitsAt(its, i, e) ==
  /\ i \in 1..Len(its) /\ its[i].elem = e
  /\ its[i].kind \in {"animation", "delay"} /\ its[i].stage = "waiting"

\* No item is twice in s; none but the sentinel is in s and t.
Once(s) == \A a, b \in 1..Len(s) : s[a] = s[b] => a = b
Apart(s, t) == \A i \in Range(s) : i \in Range(t) => i = Sentinel

\* A loop comes back to an item that is over, a call of doAnimation to one that
\* is not a delay; what finish() still has to start waits.
FrameFits(f, its) ==
  /\ f \in CallFrames /\ f.item \in 0..Len(its)
  /\ f.op \in {"complete", "create"} => f.item # 0
  /\ f.op = "create" => its[f.item].kind # "delay" /\ its[f.item].stage # "waiting"
  /\ f.op \in {"tick", "stop", "finish"} /\ f.item # 0 => its[f.item].stage \in Over
  /\ f.op = "finish" => /\ Once(f.todo)
                        /\ \A i \in Range(f.todo) : i = Sentinel \/ WaitsAt(its, i, f.elem)
FramesFit(fr, its) == fr \in Seq(CallFrames) /\ \A f \in Range(fr) : FrameFits(f, its)

\* What waits is at one place only.
TodosApart(fr) ==
  \A j, k \in 1..Len(fr) :
    j # k /\ fr[j].op = "finish" /\ fr[k].op = "finish" => Apart(fr[j].todo, fr[k].todo)
NotToDo(q, fr) == \A f \in Range(fr) : f.op = "finish" => Apart(q, f.todo)
QueueFits(q, e, its, fr) ==
  /\ q \in Seq(Nat) /\ Once(q) /\ NotToDo(q, fr)
  /\ \A i \in Range(q) : i = Sentinel \/ WaitsAt(its, i, e)
QueuesFit(qu, its, fr) ==
  /\ qu = [e \in Animated |-> qu[e]]
  /\ \A e \in Animated : QueueFits(qu[e], e, its, fr)

\* A timer is of an animation that was started, a pending timeout of a delay.
TimersFit(tms, its) ==
  /\ tms \in Seq(Nat)
  /\ \A i \in Range(tms) :
       i \in 1..Len(its) /\ its[i].kind # "delay" /\ its[i].stage # "waiting"
DelaysFit(dls, its) ==
  \A i \in dls : i \in 1..Len(its) /\ its[i].kind = "delay" /\ its[i].stage = "running"
HooksFit(hk, its) ==
  /\ hk \in [Animated -> Nat]
  /\ \A e \in Animated : hk[e] # 0 => hk[e] \in 1..Len(its) /\ its[hk[e]].elem = e

\* All this: how the data of the effects belong together.
Sound(qu, hk, its, tms, dls, fr) ==
  /\ its \in Seq(ItemRecords) /\ TimersFit(tms, its) /\ DelaysFit(dls, its) /\ HooksFit(hk, its)
  /\ FramesFit(fr, its) /\ TodosApart(fr) /\ QueuesFit(qu, its, fr)

\* A queue begins with the sentinel, unless it is empty.
SentinelFirst == \A e \in Animated : queue[e] # <<>> => Head(queue[e]) = Sentinel

\* The frame loop goes on while there are timers.
LoopRuns == (timers # <<>> => inProgress) /\ (inProgress => loops > 0)

\* A running item of e keeps its timer or its timeout.
KeepsTimer(i, its, tms, dls, lst) ==
  its[i].stage = "running" /\ its[i].elem \notin lst => i \in dls \/ i \in Range(tms)
TimersKept(its, tms, dls, lst) == \A i \in 1..Len(its) : KeepsTimer(i, its, tms, dls, lst)

\* A stop() that will dequeue is interrupted by nothing.
AllSpare(fr) == \A f \in Range(fr) : f.op = "stop" => ~ Dequeues(f)
SpareBelow(fr) == fr # <<>> => AllSpare(Tail(fr))

\* Item i of e's queue is started; f runs the complete callback of one; f is a
\* stop() of e that ends the last, or dequeues.
Up(its, i, e) ==
  /\ i \in 1..Len(its) /\ its[i].elem = e
  /\ its[i].kind # "unqueued" /\ its[i].stage = "running"
Completes(f, its, e) == f.op = "complete" /\ its[f.item].elem = e /\ its[f.item].kind # "unqueued"
Owing(f, e) == f.op = "stop" /\ f.elem = e /\ (f.owes \/ ~ f.gotoEnd)

\* A queue that is not empty advances.
Busy(e, q, its, fr) ==
  q # <<>> => \/ \E i \in 1..Len(its) : Up(its, i, e)
              \/ \E f \in Range(fr) : Completes(f, its, e) \/ Owing(f, e)

\* Item i of e is on its way; no callback of e runs, or one.
OnWay(its, tms, dls, i, e) == Up(its, i, e) /\ (i \in dls \/ i \in Range(tms))
NoneOnWay(its, tms, dls, e) == \A i \in 1..Len(its) : ~ OnWay(its, tms, dls, i, e)
NoneCompletes(fr, its, e) == \A f \in Range(fr) : ~ Completes(f, its, e)
OneCompletes(fr, its, e) ==
  \A j, k \in 1..Len(fr) : Completes(fr[j], its, e) /\ Completes(fr[k], its, e) => j = k

\* One item of e, its callback included, and none while the queue is empty.
Alone(e, q, its, tms, dls, fr) ==
  /\ \A i, j \in 1..Len(its) : OnWay(its, tms, dls, i, e) /\ OnWay(its, tms, dls, j, e) => i = j
  /\ OneCompletes(fr, its, e)
  /\ NoneOnWay(its, tms, dls, e) \/ NoneCompletes(fr, its, e)
  /\ q = <<>> => NoneOnWay(its, tms, dls, e) /\ NoneCompletes(fr, its, e)

\* A pending delay of e can be cancelled.
HookKnown(e, h, its, dls) == \A i \in dls : its[i].elem = e => h = i
NoEmpty(e, its) == \A i \in 1..Len(its) : its[i].elem = e => its[i].kind # "empty"

\* No finish() of e is interrupted; the innermost call is one, with nothing to do.
NoFinish(e, fr) == \A f \in Range(fr) : ~ (f.op = "finish" /\ f.elem = e)
IdleFinish(e, q, fin, tms, fr) ==
  /\ fr # <<>> /\ q = <<>> /\ NoFinish(e, Tail(fr))
  /\ Head(fr).op = "finish" /\ Head(fr).elem = e
  /\ Head(fr).item = 0 /\ Head(fr).todo = <<>> /\ Head(fr).at <= Len(tms)

\* When stop() will dequeue, nothing of e is left behind its index.
StopsAll(e, its, tms, dls, fr) ==
  fr # <<>> /\ Head(fr).op = "stop" /\ Head(fr).elem = e /\ Dequeues(Head(fr)) =>
    /\ NoneCompletes(fr, its, e)
    /\ \A i \in dls : its[i].elem # e
    /\ \A n \in 1..Len(tms) : Up(its, tms[n], e) => n <= Head(fr).at

\* One item at a time, for an element whose sentinel the page did not give up.
OneOf(e, q, h, fin, its, tms, dls, fr) ==
  /\ Alone(e, q, its, tms, dls, fr) /\ HookKnown(e, h, its, dls) /\ NoEmpty(e, its)
  /\ (NoFinish(e, fr) /\ e \notin fin) \/ IdleFinish(e, q, fin, tms, fr)
  /\ StopsAll(e, its, tms, dls, fr)

\* The inductive invariant.
EffectTypes ==
  /\ unqueued \in [Animated -> Int] /\ loops \in Nat /\ inProgress \in BOOLEAN
  /\ finishing \subseteq Animated
EffectsInv ==
  /\ EffectTypes /\ Sound(queue, stopHook, items, timers, delays, frames)
  /\ SentinelFirst /\ LoopRuns /\ TimersKept(items, timers, delays, lost) /\ SpareBelow(frames)
  /\ \A e \in Animated \ lost : Busy(e, queue[e], items, frames)
  /\ \A e \in Animated \ cut :
       OneOf(e, queue[e], stopHook[e], finishing, items, timers, delays, frames)

-----------------------------------------------------------------------------
\* Sequences: what is put before, what is taken out.

\* A frame put before the others.
LEMMA FrameBefore ==
  ASSUME NEW T, NEW s \in Seq(T), NEW x \in T
  PROVE  /\ <<x>> \o s \in Seq(T) /\ <<x>> \o s # <<>>
         /\ Head(<<x>> \o s) = x /\ Tail(<<x>> \o s) = s /\ Len(<<x>> \o s) = Len(s) + 1
         /\ Range(<<x>> \o s) = {x} \cup Range(s)
         /\ (<<x>> \o s)[1] = x
         /\ \A k \in 2..(Len(s) + 1) : k - 1 \in 1..Len(s) /\ (<<x>> \o s)[k] = s[k - 1]
<1>1. /\ <<x>> \o s \in Seq(T) /\ Len(<<x>> \o s) = Len(s) + 1 /\ Len(s) \in Nat
      /\ (<<x>> \o s)[1] = x
      /\ \A k \in 2..(Len(s) + 1) : k - 1 \in 1..Len(s) /\ (<<x>> \o s)[k] = s[k - 1]
  OBVIOUS
<1>2. <<x>> \o s # <<>> /\ Head(<<x>> \o s) = x /\ Tail(<<x>> \o s) = s
  OBVIOUS
<1>3. Range(<<x>> \o s) = {x} \cup Range(s)
  <2>1. DOMAIN (<<x>> \o s) = 1..(Len(s) + 1) /\ DOMAIN s = 1..Len(s)
    BY <1>1
  <2>2. ASSUME NEW k \in 1..Len(s) PROVE s[k] \in Range(<<x>> \o s)
    <3>1. k + 1 \in 2..(Len(s) + 1) /\ k + 1 \in DOMAIN (<<x>> \o s) /\ (k + 1) - 1 = k
      BY <1>1, <2>1
    <3>2. (<<x>> \o s)[k + 1] = s[k]
      BY <1>1, <3>1
    <3> QED
      BY <3>1, <3>2 DEF Range
  <2>3. x \in Range(<<x>> \o s)
    BY <1>1, <2>1 DEF Range
  <2>4. ASSUME NEW k \in 1..(Len(s) + 1) PROVE (<<x>> \o s)[k] \in {x} \cup Range(s)
    <3>1. CASE k = 1
      BY <1>1, <3>1
    <3>2. CASE k \in 2..(Len(s) + 1)
      BY <1>1, <2>1, <3>2 DEF Range
    <3> QED
      BY <1>1, <3>1, <3>2
  <2> QED
    BY <2>1, <2>2, <2>3, <2>4 DEF Range
<1> QED
  BY <1>1, <1>2, <1>3

\* The innermost frame and the others.
LEMMA InnermostFrame ==
  ASSUME NEW T, NEW s \in Seq(T), s # <<>>
  PROVE  /\ Head(s) \in T /\ Tail(s) \in Seq(T) /\ Len(s) = Len(Tail(s)) + 1
         /\ Range(s) = {Head(s)} \cup Range(Tail(s)) /\ s = <<Head(s)>> \o Tail(s)
<1>1. Head(s) \in T /\ Tail(s) \in Seq(T) /\ s = <<Head(s)>> \o Tail(s)
  OBVIOUS
<1>2. PICK x, r : x = Head(s) /\ r = Tail(s)
  OBVIOUS
<1>3. Len(<<x>> \o r) = Len(r) + 1 /\ Range(<<x>> \o r) = {x} \cup Range(r)
  BY <1>1, <1>2, FrameBefore
<1> QED
  BY <1>1, <1>2, <1>3

\* What a sequence holds, by its indexes.
LEMMA HeldBySeq ==
  ASSUME NEW T, NEW s \in Seq(T)
  PROVE  /\ DOMAIN s = 1..Len(s) /\ Len(s) \in Nat
         /\ \A x : x \in Range(s) <=> \E k \in 1..Len(s) : s[k] = x
         /\ \A x \in Range(s) : x \in T
         /\ s = <<>> <=> Range(s) = {}
         /\ \A x : Contains(s, x) <=> x \in Range(s)
<1>1. DOMAIN s = 1..Len(s) /\ Len(s) \in Nat /\ \A k \in 1..Len(s) : s[k] \in T
  BY ElementOfSeq, LenProperties
<1>2. \A x : x \in Range(s) <=> \E k \in 1..Len(s) : s[k] = x
  BY <1>1 DEF Range
<1>3. s = <<>> <=> Range(s) = {}
  <2>1. s = <<>> <=> Len(s) = 0
    OBVIOUS
  <2>2. Len(s) = 0 => Range(s) = {}
    BY <1>1, <1>2
  <2>3. Len(s) # 0 => s[1] \in Range(s)
    BY <1>1, <1>2
  <2> QED
    BY <2>1, <2>2, <2>3
<1> QED
  BY <1>1, <1>2, <1>3 DEF Contains

\* One more at the end.
LEMMA RangeAppend ==
  ASSUME NEW T, NEW s \in Seq(T), NEW x \in T
  PROVE  /\ Append(s, x) \in Seq(T) /\ Len(Append(s, x)) = Len(s) + 1 /\ Append(s, x) # <<>>
         /\ Append(s, x)[Len(s) + 1] = x /\ \A k \in 1..Len(s) : Append(s, x)[k] = s[k]
         /\ Range(Append(s, x)) = Range(s) \cup {x}
<1>1. /\ Append(s, x) \in Seq(T) /\ Len(Append(s, x)) = Len(s) + 1 /\ Append(s, x) # <<>>
      /\ Append(s, x)[Len(s) + 1] = x /\ \A k \in 1..Len(s) : Append(s, x)[k] = s[k]
      /\ Len(s) \in Nat /\ DOMAIN s = 1..Len(s) /\ DOMAIN Append(s, x) = 1..(Len(s) + 1)
  OBVIOUS
<1>2. Range(Append(s, x)) = Range(s) \cup {x}
  <2>1. \A k \in 1..(Len(s) + 1) : k \in 1..Len(s) \/ k = Len(s) + 1
    BY <1>1
  <2>2. \A k \in 1..Len(s) : k \in 1..(Len(s) + 1)
    BY <1>1
  <2>3. Len(s) + 1 \in 1..(Len(s) + 1)
    BY <1>1
  <2> QED
    BY <1>1, <2>1, <2>2, <2>3 DEF Range
<1> QED
  BY <1>1, <1>2

\* The first is taken off a sequence without repetitions.
LEMMA OnceTail ==
  ASSUME NEW T, NEW s \in Seq(T), Once(s), s # <<>>
  PROVE  /\ Once(Tail(s)) /\ Head(s) \notin Range(Tail(s))
         /\ Range(s) = {Head(s)} \cup Range(Tail(s))
<1>1. /\ Tail(s) \in Seq(T) /\ Len(Tail(s)) = Len(s) - 1 /\ Len(s) \in Nat /\ Len(s) # 0
      /\ \A k \in 1..(Len(s) - 1) : Tail(s)[k] = s[k + 1]
      /\ Head(s) = s[1]
  OBVIOUS
<1>2. Once(Tail(s))
  <2>1. SUFFICES ASSUME NEW a \in 1..(Len(s) - 1), NEW b \in 1..(Len(s) - 1), Tail(s)[a] = Tail(s)[b]
                 PROVE  a = b
    BY <1>1 DEF Once
  <2>2. s[a + 1] = s[b + 1] /\ a + 1 \in 1..Len(s) /\ b + 1 \in 1..Len(s)
    BY <1>1, <2>1
  <2>3. a + 1 = b + 1
    BY <2>2 DEF Once
  <2> QED
    BY <2>3
<1>3. Head(s) \notin Range(Tail(s))
  <2>1. SUFFICES ASSUME NEW a \in 1..(Len(s) - 1), Tail(s)[a] = s[1] PROVE FALSE
    BY <1>1, HeldBySeq
  <2>2. s[a + 1] = s[1] /\ a + 1 \in 1..Len(s) /\ 1 \in 1..Len(s)
    BY <1>1, <2>1
  <2>3. a + 1 = 1
    BY <2>2 DEF Once
  <2> QED
    BY <2>3
<1> QED
  BY <1>2, <1>3, InnermostFrame

\* One is taken out, the others stay.
LEMMA RangeRemoveAt ==
  ASSUME NEW T, NEW s \in Seq(T), NEW n \in 1..Len(s)
  PROVE  /\ RemoveAt(s, n) \in Seq(T) /\ Len(RemoveAt(s, n)) = Len(s) - 1
         /\ Range(RemoveAt(s, n)) \subseteq Range(s)
         /\ \A x \in Range(s) : x # s[n] => x \in Range(RemoveAt(s, n))
         /\ \A k \in 1..(Len(s) - 1) : RemoveAt(s, n)[k] = IF k < n THEN s[k] ELSE s[k + 1]
<1> DEFINE r == RemoveAt(s, n)
<1>0. Len(s) \in Nat /\ n \in Nat /\ 1 <= n /\ n <= Len(s) /\ \A k \in 1..Len(s) : s[k] \in T
  OBVIOUS
<1>1. /\ SubSeq(s, 1, n - 1) \in Seq(T) /\ SubSeq(s, n + 1, Len(s)) \in Seq(T)
      /\ Len(SubSeq(s, 1, n - 1)) = n - 1 /\ Len(SubSeq(s, n + 1, Len(s))) = Len(s) - n
      /\ \A k \in 1..(n - 1) : SubSeq(s, 1, n - 1)[k] = s[k]
      /\ \A k \in 1..(Len(s) - n) : SubSeq(s, n + 1, Len(s))[k] = s[n + k]
  BY <1>0, SubSeqProperties
<1>2. PICK p, q : p = SubSeq(s, 1, n - 1) /\ q = SubSeq(s, n + 1, Len(s))
  OBVIOUS
<1>6. /\ p \in Seq(T) /\ q \in Seq(T) /\ Len(p) = n - 1 /\ Len(q) = Len(s) - n
      /\ \A k \in 1..(n - 1) : p[k] = s[k]
      /\ \A k \in 1..(Len(s) - n) : q[k] = s[n + k]
  BY <1>1, <1>2
<1>7. r = p \o q
  BY <1>2 DEF RemoveAt
<1>8. /\ r \in Seq(T) /\ Len(r) = (n - 1) + (Len(s) - n)
      /\ \A k \in 1..(Len(s) - 1) : r[k] = IF k <= n - 1 THEN p[k] ELSE q[k - (n - 1)]
  <2> HIDE DEF r
  <2>1. /\ r \in Seq(T) /\ Len(r) = Len(p) + Len(q)
        /\ \A k \in 1..(Len(p) + Len(q)) : r[k] = IF k <= Len(p) THEN p[k] ELSE q[k - Len(p)]
    BY <1>6, <1>7, ConcatProperties
  <2>2. Len(p) + Len(q) = Len(s) - 1
    BY <1>0, <1>6
  <2> QED
    BY <1>6, <2>1, <2>2
<1> HIDE DEF r
<1>9. r \in Seq(T) /\ Len(r) = Len(s) - 1
  BY <1>0, <1>8
<1>3. ASSUME NEW k \in 1..(Len(s) - 1) PROVE r[k] = IF k < n THEN s[k] ELSE s[k + 1]
  <2>1. CASE k < n
    <3>1. k \in 1..(n - 1) /\ k <= n - 1
      BY <1>0, <2>1
    <3> QED
      BY <1>6, <1>8, <2>1, <3>1
  <2>2. CASE ~ (k < n)
    <3>1. k - (n - 1) \in 1..(Len(s) - n) /\ n + (k - (n - 1)) = k + 1 /\ ~ (k <= n - 1)
      BY <1>0, <2>2
    <3>2. r[k] = q[k - (n - 1)]
      BY <1>8, <3>1
    <3>3. q[k - (n - 1)] = s[n + (k - (n - 1))]
      BY <1>6, <3>1
    <3> QED
      BY <2>2, <3>1, <3>2, <3>3
  <2> QED
    BY <2>1, <2>2
<1>4. Range(r) \subseteq Range(s)
  <2>1. SUFFICES ASSUME NEW k \in 1..(Len(s) - 1) PROVE r[k] \in Range(s)
    BY <1>9, HeldBySeq
  <2>2. k \in 1..Len(s) /\ k + 1 \in 1..Len(s)
    BY <1>0
  <2> QED
    BY <1>3, <2>2, HeldBySeq
<1>5. ASSUME NEW x \in Range(s), x # s[n] PROVE x \in Range(r)
  <2>1. PICK k \in 1..Len(s) : s[k] = x
    BY HeldBySeq
  <2>2. CASE k < n
    <3>1. k \in 1..(Len(s) - 1) /\ r[k] = s[k]
      BY <1>0, <1>3, <2>2
    <3> QED
      BY <1>9, <2>1, <3>1, HeldBySeq
  <2>3. CASE n < k
    <3>1. k - 1 \in 1..(Len(s) - 1) /\ (k - 1) + 1 = k /\ ~ (k - 1 < n)
      BY <1>0, <2>3
    <3>2. r[k - 1] = s[k]
      BY <1>3, <3>1
    <3> QED
      BY <1>9, <2>1, <3>1, <3>2, HeldBySeq
  <2> QED
    BY <1>0, <1>5, <2>1, <2>2, <2>3
<1> QED
  BY <1>9, <1>3, <1>4, <1>5 DEF r

-----------------------------------------------------------------------------
\* What a step does to the items.

\* The items after a step that changes the stage of x at most: an item that was
\* started stays so, and one that is over stays over.
Onward(its, its2, x) ==
  /\ its2 \in Seq(ItemRecords) /\ Len(its) <= Len(its2)
  /\ \A i \in 1..Len(its) : /\ its2[i].elem = its[i].elem /\ its2[i].kind = its[i].kind
                            /\ i # x => its2[i] = its[i]
                            /\ its[i].stage # "waiting" => its2[i].stage # "waiting"
                            /\ its[i].stage \in Over => its2[i].stage \in Over

\* x waits in no queue and in no finish().
Unplaced(x, qu, fr) ==
  x = 0 \/ /\ \A e \in Animated : x \notin Range(qu[e])
           /\ \A f \in Range(fr) : f.op = "finish" => x \notin Range(f.todo)

\* An item with its types.
LEMMA ItemTypes ==
  ASSUME NEW its \in Seq(ItemRecords), NEW i \in 1..Len(its)
  PROVE  /\ its[i] \in ItemRecords /\ its[i].elem \in Animated /\ i \in Nat /\ i # 0
         /\ its[i].kind \in {"animation", "delay", "unqueued", "empty"}
         /\ its[i].stage \in {"waiting", "running", "resolved", "rejected"}
<1>1. its[i] \in ItemRecords
  BY ElementOfSeq
<1> QED
  BY <1>1 DEF ItemRecords

\* Item i gets another stage.
StageOf(its, i, st) == [its EXCEPT ![i].stage = st]

\* What an item becomes: its stage, and nothing else.
LEMMA StageSet ==
  ASSUME NEW its \in Seq(ItemRecords), NEW i \in 1..Len(its),
         NEW st \in {"waiting", "running", "resolved", "rejected"}
  PROVE  /\ StageOf(its, i, st) \in Seq(ItemRecords) /\ Len(StageOf(its, i, st)) = Len(its)
         /\ StageOf(its, i, st)[i].elem = its[i].elem /\ StageOf(its, i, st)[i].kind = its[i].kind
         /\ StageOf(its, i, st)[i].stage = st
<1> DEFINE its2 == StageOf(its, i, st)
<1>1. its \in [1..Len(its) -> ItemRecords] /\ Len(its) \in Nat /\ DOMAIN its = 1..Len(its)
  BY LenProperties
<1>2. PICK x : x = its[i]
  OBVIOUS
<1>3. x \in ItemRecords
  BY <1>1, <1>2
<1>4. PICK y : y = [x EXCEPT !.stage = st]
  OBVIOUS
<1>5. y \in ItemRecords /\ y.elem = x.elem /\ y.kind = x.kind /\ y.stage = st
  BY <1>3, <1>4 DEF ItemRecords
<1>6. its2 = [its EXCEPT ![i] = y]
  BY <1>2, <1>4 DEF StageOf
<1>7. its2 \in [1..Len(its) -> ItemRecords] /\ its2[i] = y
  <2> HIDE DEF its2
  <2> QED
    BY <1>1, <1>5, <1>6
<1>8. its2 \in Seq(ItemRecords) /\ Len(its2) = Len(its)
  <2> HIDE DEF its2
  <2> QED
    BY <1>1, <1>7
<1> QED
  BY <1>2, <1>5, <1>7, <1>8

\* The other items stay as they are.
LEMMA StageOther ==
  ASSUME NEW its \in Seq(ItemRecords), NEW i \in 1..Len(its),
         NEW st \in {"waiting", "running", "resolved", "rejected"}, NEW j \in 1..Len(its), j # i
  PROVE  StageOf(its, i, st)[j] = its[j]
<1>1. its \in [1..Len(its) -> ItemRecords]
  BY LenProperties
<1>2. PICK y : y = [its[i] EXCEPT !.stage = st]
  OBVIOUS
<1>3. StageOf(its, i, st) = [its EXCEPT ![i] = y]
  BY <1>2 DEF StageOf
<1>4. PICK x : x = StageOf(its, i, st)
  OBVIOUS
<1>5. x[j] = its[j]
  BY <1>1, <1>3, <1>4
<1> QED
  BY <1>4, <1>5

\* A waiting item starts, or a running one ends.
LEMMA StageOnward ==
  ASSUME NEW its \in Seq(ItemRecords), NEW i \in 1..Len(its),
         NEW st \in {"waiting", "running", "resolved", "rejected"},
         \/ its[i].stage = "waiting" /\ st = "running"
         \/ its[i].stage = "running" /\ st \in Over
  PROVE  /\ Onward(its, StageOf(its, i, st), i) /\ Len(StageOf(its, i, st)) = Len(its)
         /\ StageOf(its, i, st)[i].stage = st
<1>1. st # "waiting" /\ (its[i].stage \in Over => st \in Over)
  BY DEF Over
<1>2. PICK its2 : its2 = StageOf(its, i, st)
  OBVIOUS
<1>3. /\ its2 \in Seq(ItemRecords) /\ Len(its2) = Len(its) /\ Len(its) \in Nat
      /\ its2[i].elem = its[i].elem /\ its2[i].kind = its[i].kind /\ its2[i].stage = st
      /\ \A j \in 1..Len(its) : j # i => its2[j] = its[j]
  <2>1. its2 \in Seq(ItemRecords)
    BY <1>2, StageSet
  <2>4. Len(its2) = Len(its)
    BY <1>2, StageSet, ZenonT(60)
  <2>5. its2[i].elem = its[i].elem
    BY <1>2, StageSet
  <2>6. its2[i].kind = its[i].kind
    BY <1>2, StageSet
  <2>7. its2[i].stage = st
    BY <1>2, StageSet
  <2>2. \A j \in 1..Len(its) : j # i => its2[j] = its[j]
    BY <1>2, StageOther
  <2>3. Len(its) \in Nat
    OBVIOUS
  <2> QED
    BY <2>1, <2>2, <2>3, <2>4, <2>5, <2>6, <2>7
<1>4. Onward(its, its2, i)
  BY <1>1, <1>3 DEF Onward
<1> QED
  BY <1>2, <1>3, <1>4

\* An item is asked for.
LEMMA AskOnward ==
  ASSUME NEW its \in Seq(ItemRecords), NEW x \in ItemRecords, NEW its2, its2 = Append(its, x)
  PROVE  /\ Onward(its, its2, 0) /\ Len(its2) = Len(its) + 1
         /\ its2[Len(its) + 1] = x /\ Len(its) + 1 \in 1..Len(its2)
         /\ \A i \in 1..Len(its) : its2[i] = its[i] /\ i # Len(its) + 1
<1>2. /\ its2 \in Seq(ItemRecords) /\ Len(its2) = Len(its) + 1 /\ its2[Len(its) + 1] = x
      /\ \A i \in 1..Len(its) : its2[i] = its[i]
      /\ Len(its) \in Nat
  BY RangeAppend
<1>3. Onward(its, its2, 0)
  BY <1>2 DEF Onward
<1> QED
  BY <1>2, <1>3

\* What is not x waits as before.
LEMMA WaitsOnward ==
  ASSUME NEW its \in Seq(ItemRecords), NEW its2, NEW x, Onward(its, its2, x), NEW e, NEW i,
         WaitsAt(its, i, e), i # x
  PROVE  WaitsAt(its2, i, e)
<1>1. i \in 1..Len(its) /\ its2[i] = its[i] /\ Len(its) <= Len(its2) /\ Len(its) \in Nat /\ Len(its2) \in Nat
  BY DEF WaitsAt, Onward
<1>2. i \in 1..Len(its2)
  BY <1>1
<1> QED
  BY <1>1, <1>2 DEF WaitsAt

\* A frame fits still.
LEMMA FrameOnward ==
  ASSUME NEW its \in Seq(ItemRecords), NEW its2, NEW x, Onward(its, its2, x),
         NEW f, FrameFits(f, its), f.op = "finish" => x = 0 \/ x \notin Range(f.todo)
  PROVE  FrameFits(f, its2)
<1>1. Len(its) <= Len(its2) /\ Len(its) \in Nat /\ Len(its2) \in Nat
  BY DEF Onward
<1>2. f.item \in 0..Len(its) /\ f.item \in 0..Len(its2)
  BY <1>1 DEF FrameFits
<1>3. f.item # 0 => f.item \in 1..Len(its)
  BY <1>1, <1>2
<1>4. f.item # 0 => /\ its2[f.item].kind = its[f.item].kind
                    /\ its[f.item].stage # "waiting" => its2[f.item].stage # "waiting"
                    /\ its[f.item].stage \in Over => its2[f.item].stage \in Over
  BY <1>3 DEF Onward
<1>5. ASSUME f.op = "finish" PROVE \A i \in Range(f.todo) : i = Sentinel \/ WaitsAt(its2, i, f.elem)
  <2>1. TAKE i \in Range(f.todo)
  <2>2. i = Sentinel \/ WaitsAt(its, i, f.elem)
    BY <1>5 DEF FrameFits
  <2>3. CASE WaitsAt(its, i, f.elem)
    <3>1. i \in 1..Len(its) /\ i # 0
      BY <1>1, <2>3 DEF WaitsAt
    <3>2. i # x
      BY <1>5, <2>1, <3>1
    <3> QED
      BY <2>3, <3>2, WaitsOnward
  <2> QED
    BY <2>2, <2>3
<1> QED
  BY <1>2, <1>4, <1>5 DEF FrameFits

\* All belongs together still.
LEMMA SoundOnward ==
  ASSUME NEW qu, NEW hk, NEW its, NEW tms, NEW dls, NEW fr,
         Sound(qu, hk, its, tms, dls, fr),
         NEW its2, NEW x, Onward(its, its2, x), x \notin dls, Unplaced(x, qu, fr)
  PROVE  Sound(qu, hk, its2, tms, dls, fr)
<1>1. /\ its \in Seq(ItemRecords) /\ its2 \in Seq(ItemRecords)
      /\ Len(its) <= Len(its2) /\ Len(its) \in Nat /\ Len(its2) \in Nat
  BY DEF Sound, Onward
<1>2. \A i \in 1..Len(its) :
        /\ i \in 1..Len(its2) /\ i # 0 /\ its2[i].elem = its[i].elem /\ its2[i].kind = its[i].kind
        /\ i # x => its2[i] = its[i]
        /\ its[i].stage # "waiting" => its2[i].stage # "waiting"
  BY <1>1 DEF Onward
<1>3. TimersFit(tms, its2)
  BY <1>2 DEF TimersFit, Sound
<1>4. DelaysFit(dls, its2)
  BY <1>2 DEF DelaysFit, Sound
<1>5. HooksFit(hk, its2)
  BY <1>2 DEF HooksFit, Sound
<1>6. FramesFit(fr, its2)
  <2>1. ASSUME NEW f \in Range(fr) PROVE FrameFits(f, its2)
    <3>1. FrameFits(f, its) /\ (f.op = "finish" => x = 0 \/ x \notin Range(f.todo))
      BY DEF Sound, FramesFit, Unplaced
    <3> QED
      BY <1>1, <3>1, FrameOnward
  <2> QED
    BY <2>1 DEF FramesFit, Sound
<1>7. QueuesFit(qu, its2, fr)
  <2>1. ASSUME NEW e \in Animated, NEW i \in Range(qu[e]) PROVE i = Sentinel \/ WaitsAt(its2, i, e)
    <3>1. i = Sentinel \/ WaitsAt(its, i, e)
      BY DEF Sound, QueuesFit, QueueFits
    <3>2. CASE WaitsAt(its, i, e)
      <4>1. i \in 1..Len(its) /\ i # 0
        BY <1>1, <3>2 DEF WaitsAt
      <4>2. i # x
        BY <2>1, <4>1 DEF Unplaced
      <4> QED
        BY <1>1, <3>2, <4>2, WaitsOnward
    <3> QED
      BY <3>1, <3>2
  <2> QED
    BY <2>1 DEF Sound, QueuesFit, QueueFits
<1> QED
  BY <1>1, <1>3, <1>4, <1>5, <1>6, <1>7 DEF Sound

\* An item that was started waits nowhere.
LEMMA StartedUnplaced ==
  ASSUME NEW qu, NEW hk, NEW its, NEW tms, NEW dls, NEW fr,
         Sound(qu, hk, its, tms, dls, fr), NEW i \in 1..Len(its), its[i].stage # "waiting"
  PROVE  Unplaced(i, qu, fr)
<1>1. i # 0 /\ \A e : ~ WaitsAt(its, i, e)
  BY DEF WaitsAt, Sound
<1>2. \A e \in Animated : i \notin Range(qu[e])
  BY <1>1 DEF Sound, QueuesFit, QueueFits, Sentinel
<1>3. \A f \in Range(fr) : f.op = "finish" => i \notin Range(f.todo)
  BY <1>1 DEF Sound, FramesFit, FrameFits, Sentinel
<1> QED
  BY <1>2, <1>3 DEF Unplaced

-----------------------------------------------------------------------------
\* What a step does to the rest.

\* f has nothing to do that another call, or a queue, is to do.
AlsoApart(f, qu, fr) ==
  f.op = "finish" => /\ \A e \in Animated : Apart(qu[e], f.todo)
                     /\ \A g \in Range(fr) : g.op = "finish" => Apart(f.todo, g.todo)

\* Two sequences are apart either way.
LEMMA ApartTurns ==
  ASSUME NEW s, NEW t, Apart(s, t)
  PROVE  Apart(t, s)
  BY DEF Apart

\* Todos are apart with one frame more when its are apart from theirs.
LEMMA TodosBefore ==
  ASSUME NEW fr \in Seq(CallFrames), NEW f \in CallFrames, TodosApart(fr),
         \A g \in Range(fr) : f.op = "finish" /\ g.op = "finish" => Apart(f.todo, g.todo)
  PROVE  TodosApart(<<f>> \o fr)
<1>1. PICK s : s = <<f>> \o fr
  OBVIOUS
<1>2. /\ Len(s) = Len(fr) + 1 /\ s[1] = f /\ Len(fr) \in Nat
      /\ \A k \in 2..(Len(fr) + 1) : k - 1 \in 1..Len(fr) /\ s[k] = fr[k - 1]
      /\ \A k \in 1..Len(fr) : fr[k] \in Range(fr)
  BY <1>1, FrameBefore, HeldBySeq
<1>3. ASSUME NEW j \in 1..Len(s), NEW k \in 1..Len(s), j # k, s[j].op = "finish", s[k].op = "finish"
      PROVE  Apart(s[j].todo, s[k].todo)
  <2>1. CASE j = 1
    <3>1. k \in 2..(Len(fr) + 1)
      BY <1>2, <1>3, <2>1
    <3> QED
      BY <1>2, <1>3, <2>1, <3>1
  <2>2. CASE k = 1
    <3>1. j \in 2..(Len(fr) + 1)
      BY <1>2, <1>3, <2>2
    <3>2. Apart(s[k].todo, s[j].todo)
      BY <1>2, <1>3, <2>2, <3>1
    <3> QED
      BY <3>2, ApartTurns
  <2>3. CASE j # 1 /\ k # 1
    <3>1. j \in 2..(Len(fr) + 1) /\ k \in 2..(Len(fr) + 1) /\ j - 1 # k - 1
      BY <1>2, <1>3, <2>3
    <3> QED
      BY <1>2, <1>3, <3>1 DEF TodosApart
  <2> QED
    BY <2>1, <2>2, <2>3
<1>4. TodosApart(s)
  BY <1>3 DEF TodosApart
<1> QED
  BY <1>1, <1>4

\* Without the innermost they are, and from the innermost.
LEMMA TodosBehind ==
  ASSUME NEW fr \in Seq(CallFrames), fr # <<>>, TodosApart(fr)
  PROVE  /\ TodosApart(Tail(fr))
         /\ \A g \in Range(Tail(fr)) :
              Head(fr).op = "finish" /\ g.op = "finish" => Apart(Head(fr).todo, g.todo)
<1>1. PICK r, f : r = Tail(fr) /\ f = Head(fr)
  OBVIOUS
<1>2. r \in Seq(CallFrames) /\ f \in CallFrames /\ fr = <<f>> \o r
  BY <1>1, InnermostFrame
<1>3. /\ Len(fr) = Len(r) + 1 /\ fr[1] = f /\ Len(r) \in Nat
      /\ \A k \in 2..(Len(r) + 1) : k - 1 \in 1..Len(r) /\ fr[k] = r[k - 1]
  BY <1>2, FrameBefore, HeldBySeq
<1>4. \A k \in 1..Len(r) : k + 1 \in 2..(Len(r) + 1) /\ k + 1 \in 1..Len(fr) /\ fr[k + 1] = r[k]
  <2>1. \A k \in 1..Len(r) : k + 1 \in 2..(Len(r) + 1) /\ k + 1 \in 1..Len(fr) /\ (k + 1) - 1 = k
    BY <1>3
  <2> QED
    BY <1>3, <2>1
<1>5. TodosApart(r)
  <2>1. SUFFICES ASSUME NEW j \in 1..Len(r), NEW k \in 1..Len(r), j # k,
                        r[j].op = "finish", r[k].op = "finish"
                 PROVE  Apart(r[j].todo, r[k].todo)
    BY DEF TodosApart
  <2>2. j + 1 # k + 1
    BY <2>1
  <2> QED
    BY <1>4, <2>1, <2>2 DEF TodosApart
<1>6. ASSUME NEW g \in Range(r), f.op = "finish", g.op = "finish" PROVE Apart(f.todo, g.todo)
  <2>1. PICK k \in 1..Len(r) : r[k] = g
    BY <1>2, HeldBySeq
  <2>2. 1 \in 1..Len(fr) /\ 1 # k + 1
    BY <1>3
  <2> QED
    BY <1>3, <1>4, <1>6, <2>1, <2>2 DEF TodosApart
<1> QED
  BY <1>1, <1>5, <1>6

\* A call begins.
LEMMA SoundPush ==
  ASSUME NEW qu, NEW hk, NEW its, NEW tms, NEW dls, NEW fr,
         Sound(qu, hk, its, tms, dls, fr), NEW f, FrameFits(f, its), AlsoApart(f, qu, fr)
  PROVE  Sound(qu, hk, its, tms, dls, <<f>> \o fr)
<1>1. fr \in Seq(CallFrames) /\ f \in CallFrames /\ TodosApart(fr)
  BY DEF Sound, FramesFit, FrameFits
<1>2. PICK s : s = <<f>> \o fr
  OBVIOUS
<1>3. s \in Seq(CallFrames) /\ Range(s) = {f} \cup Range(fr)
  BY <1>1, <1>2, FrameBefore
<1>4. TodosApart(s)
  BY <1>1, <1>2, TodosBefore DEF AlsoApart
<1>5. FramesFit(s, its)
  BY <1>3 DEF FramesFit, Sound
<1>6. QueuesFit(qu, its, s)
  <2>1. ASSUME NEW e \in Animated PROVE NotToDo(qu[e], s)
    BY <1>3 DEF Sound, QueuesFit, QueueFits, NotToDo, AlsoApart
  <2> QED
    BY <2>1 DEF Sound, QueuesFit, QueueFits
<1>7. Sound(qu, hk, its, tms, dls, s)
  BY <1>4, <1>5, <1>6 DEF Sound
<1> QED
  BY <1>2, <1>7

\* A call ends.
LEMMA SoundPop ==
  ASSUME NEW qu, NEW hk, NEW its, NEW tms, NEW dls, NEW fr,
         Sound(qu, hk, its, tms, dls, fr), fr # <<>>
  PROVE  /\ Sound(qu, hk, its, tms, dls, Tail(fr))
         /\ Head(fr) \in CallFrames /\ Tail(fr) \in Seq(CallFrames)
         /\ FrameFits(Head(fr), its) /\ AlsoApart(Head(fr), qu, Tail(fr))
         /\ Range(fr) = {Head(fr)} \cup Range(Tail(fr)) /\ fr = <<Head(fr)>> \o Tail(fr)
<1>1. fr \in Seq(CallFrames) /\ TodosApart(fr)
  BY DEF Sound, FramesFit
<1>2. PICK r, f : r = Tail(fr) /\ f = Head(fr)
  OBVIOUS
<1>3. r \in Seq(CallFrames) /\ f \in CallFrames /\ Range(fr) = {f} \cup Range(r) /\ fr = <<f>> \o r
  BY <1>1, <1>2, InnermostFrame
<1>4. /\ TodosApart(r)
      /\ \A g \in Range(r) : f.op = "finish" /\ g.op = "finish" => Apart(f.todo, g.todo)
  BY <1>1, <1>2, TodosBehind
<1>5. FramesFit(r, its) /\ FrameFits(f, its)
  BY <1>3 DEF Sound, FramesFit
<1>6. QueuesFit(qu, its, r) /\ AlsoApart(f, qu, r)
  BY <1>3, <1>4 DEF Sound, QueuesFit, QueueFits, NotToDo, AlsoApart
<1>7. Sound(qu, hk, its, tms, dls, r)
  BY <1>4, <1>5, <1>6 DEF Sound
<1> QED
  BY <1>2, <1>3, <1>5, <1>6, <1>7

\* The value of f at e is set, and is x in f2.
SetAt(f, e, x) == [f EXCEPT ![e] = x]
OnAnimated(f) == f = [d \in Animated |-> f[d]]
SetTo(f2, f, e, x) == OnAnimated(f2) /\ f2[e] = x /\ \A d \in Animated : d # e => f2[d] = f[d]

\* A function whose value is set at one element has the others' as before.
LEMMA OneSet ==
  ASSUME NEW f, OnAnimated(f), NEW e \in Animated, NEW x, NEW f2, f2 = SetAt(f, e, x)
  PROVE  SetTo(f2, f, e, x)
  BY DEF OnAnimated, SetAt, SetTo

\* A queue changes.
LEMMA SoundQueue ==
  ASSUME NEW qu, NEW hk, NEW its, NEW tms, NEW dls, NEW fr,
         Sound(qu, hk, its, tms, dls, fr), NEW e \in Animated, NEW q, QueueFits(q, e, its, fr),
         NEW qu2, SetTo(qu2, qu, e, q)
  PROVE  Sound(qu2, hk, its, tms, dls, fr)
<1>1. QueuesFit(qu2, its, fr)
  BY DEF Sound, QueuesFit, SetTo, OnAnimated
<1> QED
  BY <1>1 DEF Sound

\* A hook changes.
LEMMA SoundHook ==
  ASSUME NEW qu, NEW hk, NEW its, NEW tms, NEW dls, NEW fr,
         Sound(qu, hk, its, tms, dls, fr), NEW e \in Animated,
         NEW i, i = 0 \/ (i \in 1..Len(its) /\ its[i].elem = e),
         NEW hk2, SetTo(hk2, hk, e, i)
  PROVE  Sound(qu, hk2, its, tms, dls, fr)
<1>1. \A d \in Animated : hk2[d] \in Nat /\ (hk2[d] # 0 => hk2[d] \in 1..Len(its) /\ its[hk2[d]].elem = d)
  BY DEF Sound, HooksFit, SetTo
<1>2. hk2 \in [Animated -> Nat]
  BY <1>1 DEF SetTo, OnAnimated
<1>3. HooksFit(hk2, its)
  BY <1>1, <1>2 DEF HooksFit
<1> QED
  BY <1>3 DEF Sound

\* The timers are others, or fewer.
LEMMA SoundTimers ==
  ASSUME NEW qu, NEW hk, NEW its, NEW tms, NEW dls, NEW fr,
         Sound(qu, hk, its, tms, dls, fr), NEW tms2, TimersFit(tms2, its)
  PROVE  Sound(qu, hk, its, tms2, dls, fr)
  BY DEF Sound

\* So are the delays.
LEMMA SoundDelays ==
  ASSUME NEW qu, NEW hk, NEW its, NEW tms, NEW dls, NEW fr,
         Sound(qu, hk, its, tms, dls, fr), NEW dls2, DelaysFit(dls2, its)
  PROVE  Sound(qu, hk, its, tms, dls2, fr)
  BY DEF Sound

\* A timer joins, or one leaves.
LEMMA TimersJoin ==
  ASSUME NEW its \in Seq(ItemRecords), NEW tms, TimersFit(tms, its), NEW i \in 1..Len(its),
         its[i].kind # "delay", its[i].stage # "waiting"
  PROVE  TimersFit(Append(tms, i), its) /\ Range(Append(tms, i)) = Range(tms) \cup {i}
<1>1. i \in Nat /\ tms \in Seq(Nat)
  BY DEF TimersFit
<1>2. PICK tms2 : tms2 = Append(tms, i)
  OBVIOUS
<1>3. tms2 \in Seq(Nat) /\ Range(tms2) = Range(tms) \cup {i}
  BY <1>1, <1>2, RangeAppend
<1>4. TimersFit(tms2, its)
  BY <1>3 DEF TimersFit
<1> QED
  BY <1>2, <1>3, <1>4

\* One timer taken out: those that stay are still of started animations.
LEMMA TimersLeave ==
  ASSUME NEW its, NEW tms, TimersFit(tms, its), NEW n \in 1..Len(tms)
  PROVE  TimersFit(RemoveAt(tms, n), its)
<1>1. tms \in Seq(Nat)
  BY DEF TimersFit
<1>2. PICK tms2 : tms2 = RemoveAt(tms, n)
  OBVIOUS
<1>3. tms2 \in Seq(Nat) /\ Range(tms2) \subseteq Range(tms)
  BY <1>1, <1>2, RangeRemoveAt
<1>4. TimersFit(tms2, its)
  BY <1>3 DEF TimersFit
<1> QED
  BY <1>2, <1>4

-----------------------------------------------------------------------------
\* What is on its way, for one element.

\* The complete callbacks of e, when a call begins and when one ends.
LEMMA CompletesBefore ==
  ASSUME NEW e, NEW its, NEW fr \in Seq(CallFrames), NEW f \in CallFrames
  PROVE  /\ NoneCompletes(<<f>> \o fr, its, e) <=> ~ Completes(f, its, e) /\ NoneCompletes(fr, its, e)
         /\ OneCompletes(fr, its, e) /\ (~ Completes(f, its, e) \/ NoneCompletes(fr, its, e))
              => OneCompletes(<<f>> \o fr, its, e)
<1>1. PICK s : s = <<f>> \o fr
  OBVIOUS
<1>2. /\ Len(s) = Len(fr) + 1 /\ s[1] = f /\ Len(fr) \in Nat /\ Range(s) = {f} \cup Range(fr)
      /\ \A k \in 2..(Len(fr) + 1) : k - 1 \in 1..Len(fr) /\ s[k] = fr[k - 1]
      /\ \A k \in 1..Len(fr) : fr[k] \in Range(fr)
  <2>1. /\ Len(s) = Len(fr) + 1 /\ s[1] = f /\ Range(s) = {f} \cup Range(fr)
        /\ \A k \in 2..(Len(fr) + 1) : k - 1 \in 1..Len(fr) /\ s[k] = fr[k - 1]
    BY <1>1, FrameBefore
  <2>2. Len(fr) \in Nat /\ \A k \in 1..Len(fr) : fr[k] \in Range(fr)
    BY HeldBySeq
  <2> QED
    BY <2>1, <2>2
<1>3. NoneCompletes(s, its, e) <=> ~ Completes(f, its, e) /\ NoneCompletes(fr, its, e)
  BY <1>2 DEF NoneCompletes
<1>4. ASSUME OneCompletes(fr, its, e), ~ Completes(f, its, e) \/ NoneCompletes(fr, its, e),
             NEW j \in 1..Len(s), NEW k \in 1..Len(s), Completes(s[j], its, e), Completes(s[k], its, e)
      PROVE  j = k
  <2>1. \A n \in 1..Len(s) : n = 1 \/ n \in 2..(Len(fr) + 1)
    BY <1>2
  <2>2. \A n \in 2..(Len(fr) + 1) : s[n] \in Range(fr)
    BY <1>2
  <2>3. CASE j \in 2..(Len(fr) + 1) /\ k \in 2..(Len(fr) + 1)
    <3>1. j - 1 = k - 1
      BY <1>2, <1>4, <2>3 DEF OneCompletes
    <3> QED
      BY <2>3, <3>1
  <2> QED
    BY <1>2, <1>4, <2>1, <2>2, <2>3 DEF NoneCompletes
<1>5. OneCompletes(fr, its, e) /\ (~ Completes(f, its, e) \/ NoneCompletes(fr, its, e))
        => OneCompletes(s, its, e)
  BY <1>4 DEF OneCompletes
<1> QED
  BY <1>1, <1>3, <1>5

\* The complete callbacks of e, without the innermost call and with it.
LEMMA CompletesBehind ==
  ASSUME NEW e, NEW its, NEW fr \in Seq(CallFrames), fr # <<>>, OneCompletes(fr, its, e)
  PROVE  /\ OneCompletes(Tail(fr), its, e)
         /\ Completes(Head(fr), its, e) => NoneCompletes(Tail(fr), its, e)
         /\ NoneCompletes(fr, its, e) <=> ~ Completes(Head(fr), its, e) /\ NoneCompletes(Tail(fr), its, e)
<1>1. PICK r, f : r = Tail(fr) /\ f = Head(fr)
  OBVIOUS
<1>2. r \in Seq(CallFrames) /\ f \in CallFrames /\ fr = <<f>> \o r
  BY <1>1, InnermostFrame
<1>3. /\ Len(fr) = Len(r) + 1 /\ fr[1] = f /\ Len(r) \in Nat
      /\ \A k \in 2..(Len(r) + 1) : k - 1 \in 1..Len(r) /\ fr[k] = r[k - 1]
  BY <1>2, FrameBefore, HeldBySeq
<1>4. \A k \in 1..Len(r) : k + 1 \in 2..(Len(r) + 1) /\ k + 1 \in 1..Len(fr) /\ fr[k + 1] = r[k]
  <2>1. \A k \in 1..Len(r) : k + 1 \in 2..(Len(r) + 1) /\ k + 1 \in 1..Len(fr) /\ (k + 1) - 1 = k
    BY <1>3
  <2> QED
    BY <1>3, <2>1
<1>5. OneCompletes(r, its, e)
  <2>1. SUFFICES ASSUME NEW j \in 1..Len(r), NEW k \in 1..Len(r),
                        Completes(r[j], its, e), Completes(r[k], its, e)
                 PROVE  j = k
    BY DEF OneCompletes
  <2>2. j + 1 = k + 1
    BY <1>4, <2>1 DEF OneCompletes
  <2> QED
    BY <2>2
<1>6. ASSUME Completes(f, its, e), NEW g \in Range(r) PROVE ~ Completes(g, its, e)
  <2>1. PICK k \in 1..Len(r) : r[k] = g
    BY <1>2, HeldBySeq
  <2>2. 1 \in 1..Len(fr) /\ 1 # k + 1
    BY <1>3
  <2> QED
    BY <1>3, <1>4, <1>6, <2>1, <2>2 DEF OneCompletes
<1>7. NoneCompletes(fr, its, e) <=> ~ Completes(f, its, e) /\ NoneCompletes(r, its, e)
  BY <1>2, CompletesBefore
<1> QED
  BY <1>1, <1>5, <1>6, <1>7 DEF NoneCompletes

\* A frame is the callback of the same element, whatever happens to the items.
LEMMA CompletesOnward ==
  ASSUME NEW its \in Seq(ItemRecords), NEW its2, NEW x, Onward(its, its2, x),
         NEW fr \in Seq(CallFrames), \A f \in Range(fr) : FrameFits(f, its), NEW e
  PROVE  /\ \A f \in Range(fr) : Completes(f, its2, e) <=> Completes(f, its, e)
         /\ NoneCompletes(fr, its2, e) <=> NoneCompletes(fr, its, e)
         /\ OneCompletes(fr, its2, e) <=> OneCompletes(fr, its, e)
<1>1. ASSUME NEW f \in Range(fr) PROVE Completes(f, its2, e) <=> Completes(f, its, e)
  <2>1. FrameFits(f, its) /\ Len(its) \in Nat
    OBVIOUS
  <2>2. f.op = "complete" => f.item \in 1..Len(its)
    BY <2>1 DEF FrameFits
  <2> QED
    BY <2>2 DEF Completes, Onward
<1>2. \A k \in 1..Len(fr) : fr[k] \in Range(fr)
  BY HeldBySeq
<1> QED
  BY <1>1, <1>2 DEF NoneCompletes, OneCompletes

\* Nothing of e starts.
LEMMA AloneLess ==
  ASSUME NEW e, NEW q, NEW its, NEW tms, NEW dls, NEW fr, Alone(e, q, its, tms, dls, fr),
         NEW q2, NEW its2, NEW tms2, NEW dls2, NEW fr2,
         \A i \in 1..Len(its2) : OnWay(its2, tms2, dls2, i, e)
                                   => i \in 1..Len(its) /\ OnWay(its, tms, dls, i, e),
         OneCompletes(fr2, its2, e),
         NoneCompletes(fr, its, e) => NoneCompletes(fr2, its2, e),
         q2 = <<>> => q = <<>> \/ (NoneOnWay(its2, tms2, dls2, e) /\ NoneCompletes(fr2, its2, e))
  PROVE  Alone(e, q2, its2, tms2, dls2, fr2)
<1>1. NoneOnWay(its, tms, dls, e) => NoneOnWay(its2, tms2, dls2, e)
  BY DEF NoneOnWay
<1>2. \A i, j \in 1..Len(its2) :
        OnWay(its2, tms2, dls2, i, e) /\ OnWay(its2, tms2, dls2, j, e) => i = j
  BY DEF Alone
<1> QED
  BY <1>1, <1>2 DEF Alone

\* Item i of e starts, after all others.
LEMMA AloneStarts ==
  ASSUME NEW e, NEW its2, NEW tms2, NEW dls2, NEW fr2 \in Seq(CallFrames), NEW i, NEW q2, q2 # <<>>,
         NoneCompletes(fr2, its2, e),
         \A j \in 1..Len(its2) : OnWay(its2, tms2, dls2, j, e) => j = i
  PROVE  Alone(e, q2, its2, tms2, dls2, fr2)
<1>1. OneCompletes(fr2, its2, e)
  <2>1. \A k \in 1..Len(fr2) : fr2[k] \in Range(fr2)
    BY HeldBySeq
  <2> QED
    BY <2>1 DEF OneCompletes, NoneCompletes
<1> QED
  BY <1>1 DEF Alone

-----------------------------------------------------------------------------
\* Animations begin.

\* One item at a time, and no loop that e has to wait for.
Orderly(e, q, h, fin, its, tms, dls, fr) ==
  /\ Alone(e, q, its, tms, dls, fr) /\ HookKnown(e, h, its, dls) /\ NoEmpty(e, its)
  /\ NoFinish(e, fr) /\ e \notin fin

\* An orderly element satisfies the invariant while no stop() will dequeue.
LEMMA OrderlyOneOf ==
  ASSUME NEW e, NEW q, NEW h, NEW fin, NEW its, NEW tms, NEW dls, NEW fr \in Seq(CallFrames),
         Orderly(e, q, h, fin, its, tms, dls, fr), AllSpare(fr)
  PROVE  OneOf(e, q, h, fin, its, tms, dls, fr)
<1>1. fr # <<>> => Head(fr) \in Range(fr)
  BY InnermostFrame
<1>2. StopsAll(e, its, tms, dls, fr)
  BY <1>1 DEF StopsAll, AllSpare
<1> QED
  BY <1>2 DEF Orderly, OneOf

\* When no stop() at all will dequeue, none below the innermost call will.
LEMMA SpareIsBelow ==
  ASSUME NEW fr \in Seq(CallFrames), AllSpare(fr)
  PROVE  SpareBelow(fr)
  BY InnermostFrame DEF SpareBelow, AllSpare

\* fr2 is fr with calls that end no item, and no finish().
Begun(fr, its, fr2, its2) ==
  /\ fr2 \in Seq(CallFrames) /\ Range(fr) \subseteq Range(fr2)
  /\ AllSpare(fr) => AllSpare(fr2)
  /\ \A d \in Animated :
       /\ NoFinish(d, fr) => NoFinish(d, fr2)
       /\ OneCompletes(fr, its, d) => OneCompletes(fr2, its2, d)
       /\ NoneCompletes(fr, its, d) => NoneCompletes(fr2, its2, d)

\* One such call.
LEMMA BegunOne ==
  ASSUME NEW fr \in Seq(CallFrames), NEW its, NEW f \in CallFrames,
         f.op \in {"create", "tick"}
  PROVE  Begun(fr, its, <<f>> \o fr, its)
<1>1. PICK s : s = <<f>> \o fr
  OBVIOUS
<1>2. s \in Seq(CallFrames) /\ Range(s) = {f} \cup Range(fr)
  BY <1>1, FrameBefore
<1>3. \A d : ~ Completes(f, its, d)
  BY DEF Completes
<1>4. \A d : /\ OneCompletes(fr, its, d) => OneCompletes(s, its, d)
             /\ NoneCompletes(fr, its, d) => NoneCompletes(s, its, d)
  BY <1>1, <1>3, CompletesBefore
<1>5. /\ AllSpare(fr) => AllSpare(s)
      /\ \A d : NoFinish(d, fr) => NoFinish(d, s)
  BY <1>2 DEF AllSpare, NoFinish
<1>6. Begun(fr, its, s, its)
  BY <1>2, <1>4, <1>5 DEF Begun
<1> QED
  BY <1>1, <1>6

\* Calls that begin, after calls that began.
LEMMA BegunTwice ==
  ASSUME NEW fr, NEW its, NEW fr2, NEW its2, NEW fr3, NEW its3,
         Begun(fr, its, fr2, its2), Begun(fr2, its2, fr3, its3)
  PROVE  Begun(fr, its, fr3, its3)
  BY DEF Begun

\* None begins, while the items go on.
LEMMA BegunOnward ==
  ASSUME NEW its \in Seq(ItemRecords), NEW its2, NEW x, Onward(its, its2, x),
         NEW fr \in Seq(CallFrames), \A f \in Range(fr) : FrameFits(f, its)
  PROVE  Begun(fr, its, fr, its2)
<1>1. \A d : /\ NoneCompletes(fr, its2, d) <=> NoneCompletes(fr, its, d)
             /\ OneCompletes(fr, its2, d) <=> OneCompletes(fr, its, d)
  BY CompletesOnward
<1> QED
  BY <1>1 DEF Begun

\* The frames that an animation begins with, and an immediate tick.
LEMMA FirstFrames ==
  ASSUME NEW its \in Seq(ItemRecords), NEW i \in 1..Len(its)
  PROVE  /\ CreateFrame(i) \in CallFrames /\ CreateFrame(i).op = "create"
         /\ CreateFrame(i).item = i
         /\ TickFrame(1) \in CallFrames /\ TickFrame(1).op = "tick" /\ TickFrame(1).item = 0
         /\ its[i].kind # "delay" /\ its[i].stage # "waiting" => FrameFits(CreateFrame(i), its)
         /\ FrameFits(TickFrame(1), its)
<1>1. i \in Nat /\ i # 0 /\ i \in 0..Len(its) /\ 0 \in 0..Len(its) /\ 1 \in Nat /\ 0 \in Nat
  OBVIOUS
<1>2. /\ CreateFrame(i) \in CreateFrames /\ CreateFrame(i).op = "create"
      /\ CreateFrame(i).item = i
  BY <1>1 DEF CreateFrame, CreateFrames
<1>3. TickFrame(1) \in TickFrames /\ TickFrame(1).op = "tick" /\ TickFrame(1).item = 0
  BY <1>1 DEF TickFrame, TickFrames
<1>4. CreateFrame(i) \in CallFrames /\ TickFrame(1) \in CallFrames
  BY <1>2, <1>3 DEF CallFrames
<1>5. its[i].kind # "delay" /\ its[i].stage # "waiting" => FrameFits(CreateFrame(i), its)
  BY <1>1, <1>2, <1>4 DEF FrameFits
<1>6. FrameFits(TickFrame(1), its)
  BY <1>1, <1>3, <1>4 DEF FrameFits
<1> QED
  BY <1>2, <1>3, <1>4, <1>5, <1>6

\* What Animation() and fx.timer() do with an item that waits nowhere (any more).
LEMMA AnimationBegins ==
  ASSUME NEW qu, NEW hk, NEW its, NEW dls, NEW fr,
         Sound(qu, hk, its, timers, dls, fr), LoopRuns, loops \in Nat, inProgress \in BOOLEAN,
         NEW i \in 1..Len(its), its[i].stage = "waiting", its[i].kind # "delay",
         Unplaced(i, qu, fr), Animation(i, its, fr)
  PROVE  /\ Sound(qu, hk, items', timers', dls, frames')
         /\ LoopRuns' /\ loops' \in Nat /\ inProgress' \in BOOLEAN
         /\ Onward(its, items', i) /\ Len(items') = Len(its) /\ items'[i].stage = "running"
         /\ Range(timers') = Range(timers) \cup {i}
         /\ Begun(fr, its, frames', items')
<1>1. /\ its \in Seq(ItemRecords) /\ fr \in Seq(CallFrames) /\ TimersFit(timers, its)
      /\ \A f \in Range(fr) : FrameFits(f, its)
  BY DEF Sound, FramesFit
<1>2. PICK its2 : its2 = StageOf(its, i, "running")
  OBVIOUS
<1>3. items' = its2
  BY <1>2 DEF Animation, StageOf
<1>4. Onward(its, its2, i) /\ Len(its2) = Len(its) /\ its2[i].stage = "running"
  <2>1. "running" \in {"waiting", "running", "resolved", "rejected"}
    OBVIOUS
  <2> QED
    BY <1>1, <1>2, <2>1, StageOnward
<1>5. i \notin dls
  BY DEF Sound, DelaysFit
<1>6. Sound(qu, hk, its2, timers, dls, fr)
  BY <1>4, <1>5, SoundOnward
<1>7. its2 \in Seq(ItemRecords) /\ i \in 1..Len(its2) /\ its2[i].kind = its[i].kind
  BY <1>4 DEF Onward
<1>8. PICK tms2 : tms2 = Append(timers, i)
  OBVIOUS
<1>9. TimersFit(tms2, its2) /\ Range(tms2) = Range(timers) \cup {i} /\ tms2 # <<>>
  <2>1. TimersFit(timers, its2) /\ timers \in Seq(Nat) /\ i \in Nat
    BY <1>6 DEF Sound, TimersFit
  <2>2. tms2 # <<>>
    BY <1>8, <2>1, RangeAppend
  <2>3. its2[i].kind # "delay" /\ its2[i].stage # "waiting"
    BY <1>4, <1>7
  <2> QED
    BY <1>7, <1>8, <2>1, <2>2, <2>3, TimersJoin
<1>10. Sound(qu, hk, its2, tms2, dls, fr)
  BY <1>6, <1>9, SoundTimers
<1>11. PICK c, fr2 : c = CreateFrame(i) /\ fr2 = <<c>> \o fr
  OBVIOUS
<1>12. c \in CallFrames /\ c.op = "create" /\ FrameFits(c, its2)
  BY <1>4, <1>7, <1>11, FirstFrames
<1>13. Sound(qu, hk, its2, tms2, dls, fr2)
  BY <1>10, <1>11, <1>12, SoundPush DEF AlsoApart
<1>14. Begun(fr, its, fr2, its2)
  <2>1. Begun(fr, its, fr, its2)
    BY <1>1, <1>4, BegunOnward
  <2>2. Begun(fr, its2, fr2, its2)
    BY <1>1, <1>11, <1>12, BegunOne
  <2> QED
    BY <2>1, <2>2, BegunTwice
<1>15. timers' = tms2 /\ inProgress' = TRUE
  BY <1>8 DEF Animation, FxTimer
<1>16. CASE inProgress
  <2>1. loops' = loops /\ frames' = fr2
    BY <1>11, <1>16 DEF Animation, FxTimer
  <2>2. LoopRuns' /\ loops' \in Nat
    BY <1>15, <1>16, <2>1 DEF LoopRuns
  <2> QED
    BY <1>3, <1>4, <1>9, <1>13, <1>14, <1>15, <2>1, <2>2
<1>17. CASE ~ inProgress
  <2>1. PICK t, fr3 : t = TickFrame(1) /\ fr3 = <<t>> \o fr2
    OBVIOUS
  <2>2. loops' = loops + 1 /\ frames' = fr3
    BY <1>11, <1>17, <2>1 DEF Animation, FxTimer
  <2>3. LoopRuns' /\ loops' \in Nat
    BY <1>15, <2>2 DEF LoopRuns
  <2>4. t \in CallFrames /\ t.op = "tick" /\ FrameFits(t, its2)
    BY <1>7, <2>1, FirstFrames
  <2>5. Sound(qu, hk, its2, tms2, dls, fr3)
    BY <1>13, <2>1, <2>4, SoundPush DEF AlsoApart
  <2>6. fr2 \in Seq(CallFrames)
    BY <1>14 DEF Begun
  <2>7. Begun(fr2, its2, fr3, its2)
    BY <2>1, <2>4, <2>6, BegunOne
  <2>8. Begun(fr, its, fr3, its2)
    BY <1>14, <2>7, BegunTwice
  <2> QED
    BY <1>3, <1>4, <1>9, <1>15, <2>2, <2>3, <2>5, <2>8
<1> QED
  BY <1>16, <1>17

-----------------------------------------------------------------------------
\* The data in order, for the elements of B and O.

\* As EffectsInv, when no loop that is to dequeue is the innermost call: the
\* queues of B advance, and the elements of O have one item on its way.
InOrder(qu, hk, fin, its, tms, dls, fr, B, O) ==
  /\ B \subseteq Animated /\ O \subseteq Animated
  /\ Sound(qu, hk, its, tms, dls, fr) /\ AllSpare(fr)
  /\ \A e \in Animated : qu[e] # <<>> => Head(qu[e]) = Sentinel
  /\ \A e \in B : Busy(e, qu[e], its, fr)
  /\ \A e \in O : Orderly(e, qu[e], hk[e], fin, its, tms, dls, fr)

\* What else EffectsInv says.
LoopTypes == LoopRuns /\ loops \in Nat /\ inProgress \in BOOLEAN

\* From InOrder the invariant follows, after a step.
LEMMA OrderKept ==
  ASSUME InOrder(queue', stopHook', finishing', items', timers', delays', frames',
                 Animated \ lost', Animated \ cut'),
         LoopTypes', unqueued' \in [Animated -> Int], finishing' \subseteq Animated,
         TimersKept(items', timers', delays', lost')
  PROVE  EffectsInv'
<1>1. frames' \in Seq(CallFrames) /\ AllSpare(frames')
  BY DEF InOrder, Sound, FramesFit
<1>2. SpareBelow(frames')
  BY <1>1, SpareIsBelow
<1>3. ASSUME NEW e \in Animated \ cut'
      PROVE  OneOf(e, queue'[e], stopHook'[e], finishing', items', timers', delays', frames')
  BY <1>1, OrderlyOneOf DEF InOrder
<1> QED
  BY <1>2, <1>3 DEF InOrder, EffectsInv, EffectTypes, LoopTypes, LoopRuns, SentinelFirst

\* A frame that is no loop still to end, and completes nothing of O.
LEMMA OrderPush ==
  ASSUME NEW qu, NEW hk, NEW fin, NEW its, NEW tms, NEW dls, NEW fr, NEW B, NEW O,
         InOrder(qu, hk, fin, its, tms, dls, fr, B, O),
         NEW f, FrameFits(f, its), AlsoApart(f, qu, fr), f.op = "stop" => ~ Dequeues(f),
         \A e \in O : ~ Completes(f, its, e) /\ ~ (f.op = "finish" /\ f.elem = e)
  PROVE  InOrder(qu, hk, fin, its, tms, dls, <<f>> \o fr, B, O)
<1>1. fr \in Seq(CallFrames) /\ f \in CallFrames
  BY DEF InOrder, Sound, FramesFit, FrameFits
<1>2. PICK s : s = <<f>> \o fr
  OBVIOUS
<1>3. Range(s) = {f} \cup Range(fr)
  BY <1>1, <1>2, FrameBefore
<1>4. Sound(qu, hk, its, tms, dls, s)
  BY <1>2, SoundPush DEF InOrder
<1>5. AllSpare(s)
  BY <1>3 DEF AllSpare, InOrder
<1>6. \A e \in B : Busy(e, qu[e], its, s)
  BY <1>3 DEF Busy, InOrder
<1>7. ASSUME NEW e \in O PROVE Orderly(e, qu[e], hk[e], fin, its, tms, dls, s)
  <2>1. Orderly(e, qu[e], hk[e], fin, its, tms, dls, fr)
    BY DEF InOrder
  <2>2. ~ Completes(f, its, e)
    OBVIOUS
  <2>3. /\ NoneCompletes(s, its, e) <=> NoneCompletes(fr, its, e)
        /\ OneCompletes(fr, its, e) => OneCompletes(s, its, e)
    BY <1>1, <1>2, <2>2, CompletesBefore
  <2>4. Alone(e, qu[e], its, tms, dls, s)
    BY <2>1, <2>3 DEF Orderly, Alone
  <2>5. NoFinish(e, s)
    BY <1>3, <2>1 DEF Orderly, NoFinish
  <2> QED
    BY <2>1, <2>4, <2>5 DEF Orderly
<1>8. InOrder(qu, hk, fin, its, tms, dls, s, B, O)
  BY <1>4, <1>5, <1>6, <1>7 DEF InOrder
<1> QED
  BY <1>2, <1>8

\* Nothing more is on its way when x starts elsewhere, ends or stays.
LEMMA OnWayLess ==
  ASSUME NEW its \in Seq(ItemRecords), NEW its2, NEW x, Onward(its, its2, x), Len(its2) = Len(its),
         NEW tms, NEW dls, NEW tms2, NEW dls2, NEW e, ~ Up(its2, x, e),
         \A i \in 1..Len(its) : i # x => (i \in dls2 => i \in dls) /\ (i \in Range(tms2) => i \in Range(tms))
  PROVE  \A i \in 1..Len(its2) : OnWay(its2, tms2, dls2, i, e)
                                   => i \in 1..Len(its) /\ OnWay(its, tms, dls, i, e)
<1>1. SUFFICES ASSUME NEW i \in 1..Len(its2), OnWay(its2, tms2, dls2, i, e)
               PROVE  i \in 1..Len(its) /\ OnWay(its, tms, dls, i, e)
  OBVIOUS
<1>2. i # x /\ i \in 1..Len(its) /\ its2[i] = its[i]
  BY <1>1 DEF OnWay, Onward
<1> QED
  BY <1>1, <1>2 DEF OnWay, Up

\* One element, when x starts elsewhere, ends or stays, and frames begin.
LEMMA OrderlyOnward ==
  ASSUME NEW its \in Seq(ItemRecords), NEW its2, NEW x, Onward(its, its2, x), Len(its2) = Len(its),
         NEW tms, NEW dls, NEW tms2, NEW dls2, NEW e, ~ Up(its2, x, e),
         \A i \in 1..Len(its) : i # x => (i \in dls2 => i \in dls) /\ (i \in Range(tms2) => i \in Range(tms)),
         NEW q, NEW h, NEW fin, NEW fr, NEW fr2, Begun(fr, its, fr2, its2), e \in Animated,
         DelaysFit(dls2, its2),
         Orderly(e, q, h, fin, its, tms, dls, fr)
  PROVE  Orderly(e, q, h, fin, its2, tms2, dls2, fr2)
<1>1. /\ OneCompletes(fr, its, e) => OneCompletes(fr2, its2, e)
      /\ NoneCompletes(fr, its, e) => NoneCompletes(fr2, its2, e)
      /\ NoFinish(e, fr) => NoFinish(e, fr2)
  BY DEF Begun
<1>2. \A i \in 1..Len(its2) : OnWay(its2, tms2, dls2, i, e)
                                => i \in 1..Len(its) /\ OnWay(its, tms, dls, i, e)
  BY OnWayLess
<1>3. Alone(e, q, its, tms, dls, fr) /\ HookKnown(e, h, its, dls) /\ NoEmpty(e, its)
  BY DEF Orderly
<1>4. OneCompletes(fr2, its2, e)
  BY <1>1, <1>3 DEF Alone
<1>5. q = <<>> => q = <<>> \/ (NoneOnWay(its2, tms2, dls2, e) /\ NoneCompletes(fr2, its2, e))
  OBVIOUS
<1>6. Alone(e, q, its2, tms2, dls2, fr2)
  BY <1>1, <1>2, <1>3, <1>4, <1>5, AloneLess
<1>7. HookKnown(e, h, its2, dls2)
  <2>1. SUFFICES ASSUME NEW i \in dls2, its2[i].elem = e PROVE h = i
    BY DEF HookKnown
  <2>2. i \in 1..Len(its2) /\ its2[i].kind = "delay" /\ its2[i].stage = "running"
    BY <2>1 DEF DelaysFit
  <2>3. i # x
    BY <2>1, <2>2 DEF Up
  <2>4. i \in dls /\ its[i].elem = e
    BY <2>1, <2>2, <2>3 DEF Onward
  <2> QED
    BY <1>3, <2>4 DEF HookKnown
<1>8. NoEmpty(e, its2)
  BY <1>3 DEF NoEmpty, Onward
<1> QED
  BY <1>1, <1>6, <1>7, <1>8 DEF Orderly

\* A queue that is not empty advances still.
LEMMA BusyOnward ==
  ASSUME NEW its \in Seq(ItemRecords), NEW its2, NEW x, Onward(its, its2, x),
         NEW e, NEW q, NEW fr \in Seq(CallFrames), \A f \in Range(fr) : FrameFits(f, its),
         NEW fr2, Range(fr) \subseteq Range(fr2),
         Busy(e, q, its, fr), Up(its, x, e) => Up(its2, x, e)
  PROVE  Busy(e, q, its2, fr2)
<1>1. Len(its) <= Len(its2) /\ Len(its) \in Nat /\ Len(its2) \in Nat
  BY DEF Onward
<1>2. ASSUME NEW i \in 1..Len(its), Up(its, i, e) PROVE i \in 1..Len(its2) /\ Up(its2, i, e)
  <2>1. i \in 1..Len(its2) /\ (i # x => its2[i] = its[i])
    BY <1>1 DEF Onward
  <2> QED
    BY <1>2, <2>1 DEF Up
<1>3. \A f \in Range(fr) : Completes(f, its2, e) <=> Completes(f, its, e)
  BY CompletesOnward
<1> QED
  BY <1>2, <1>3 DEF Busy

\* Fewer elements, or one more.
LEMMA OrderLess ==
  ASSUME NEW qu, NEW hk, NEW fin, NEW its, NEW tms, NEW dls, NEW fr, NEW B, NEW O,
         InOrder(qu, hk, fin, its, tms, dls, fr, B, O), NEW B2 \in SUBSET B, NEW O2 \in SUBSET O
  PROVE  InOrder(qu, hk, fin, its, tms, dls, fr, B2, O2)
  BY DEF InOrder

\* One element more, when its queue advances and it is orderly.
LEMMA OrderMore ==
  ASSUME NEW qu, NEW hk, NEW fin, NEW its, NEW tms, NEW dls, NEW fr, NEW e \in Animated,
         NEW B1, NEW O1, InOrder(qu, hk, fin, its, tms, dls, fr, B1, O1),
         NEW B \in SUBSET Animated, \A d \in B : d = e \/ d \in B1,
         NEW O \in SUBSET Animated, \A d \in O : d = e \/ d \in O1,
         e \in B => Busy(e, qu[e], its, fr),
         e \in O => Orderly(e, qu[e], hk[e], fin, its, tms, dls, fr)
  PROVE  InOrder(qu, hk, fin, its, tms, dls, fr, B, O)
<1>1. \A d \in B : Busy(d, qu[d], its, fr)
  BY DEF InOrder
<1>2. \A d \in O : Orderly(d, qu[d], hk[d], fin, its, tms, dls, fr)
  BY DEF InOrder
<1> QED
  BY <1>1, <1>2 DEF InOrder

\* The queue of e changes, or its hook.
LEMMA OrderQueue ==
  ASSUME NEW qu, NEW hk, NEW fin, NEW its, NEW tms, NEW dls, NEW fr, NEW B, NEW O,
         InOrder(qu, hk, fin, its, tms, dls, fr, B, O), NEW e \in Animated, e \notin B, e \notin O,
         NEW q, QueueFits(q, e, its, fr), q # <<>> => Head(q) = Sentinel,
         NEW qu2, SetTo(qu2, qu, e, q)
  PROVE  InOrder(qu2, hk, fin, its, tms, dls, fr, B, O)
<1>1. Sound(qu2, hk, its, tms, dls, fr)
  BY SoundQueue DEF InOrder
<1> QED
  BY <1>1 DEF InOrder, SetTo

\* The hook of an element not in O changes.
LEMMA OrderHook ==
  ASSUME NEW qu, NEW hk, NEW fin, NEW its, NEW tms, NEW dls, NEW fr, NEW B, NEW O,
         InOrder(qu, hk, fin, its, tms, dls, fr, B, O), NEW e \in Animated, e \notin O,
         NEW i, i = 0 \/ (i \in 1..Len(its) /\ its[i].elem = e),
         NEW hk2, SetTo(hk2, hk, e, i)
  PROVE  InOrder(qu, hk2, fin, its, tms, dls, fr, B, O)
<1>1. Sound(qu, hk2, its, tms, dls, fr)
  BY SoundHook DEF InOrder
<1> QED
  BY <1>1 DEF InOrder, SetTo

\* The queues and the hooks are there for every element.
LEMMA OrderTypes ==
  ASSUME NEW qu, NEW hk, NEW fin, NEW its, NEW tms, NEW dls, NEW fr, NEW B, NEW O,
         InOrder(qu, hk, fin, its, tms, dls, fr, B, O)
  PROVE  OnAnimated(qu) /\ OnAnimated(hk)
  BY DEF InOrder, Sound, QueuesFit, HooksFit, OnAnimated

\* x ends or stays, timers and delays are no more.
LEMMA OrderOnward ==
  ASSUME NEW qu, NEW hk, NEW fin, NEW its, NEW tms, NEW dls, NEW fr, NEW B, NEW O,
         InOrder(qu, hk, fin, its, tms, dls, fr, B, O),
         NEW its2, NEW x, Onward(its, its2, x), Len(its2) = Len(its),
         NEW tms2, TimersFit(tms2, its), Range(tms2) \subseteq Range(tms),
         NEW dls2 \in SUBSET dls, x \notin dls2, Unplaced(x, qu, fr),
         x \in 1..Len(its) => its2[x].stage # "running",
         \A e \in B : ~ Up(its, x, e)
  PROVE  InOrder(qu, hk, fin, its2, tms2, dls2, fr, B, O)
<1>1. /\ its \in Seq(ItemRecords) /\ fr \in Seq(CallFrames) /\ \A f \in Range(fr) : FrameFits(f, its)
      /\ Sound(qu, hk, its, tms, dls, fr)
  BY DEF InOrder, Sound, FramesFit
<1>2. Sound(qu, hk, its2, tms2, dls2, fr)
  <2>1. Sound(qu, hk, its, tms2, dls, fr)
    BY <1>1, SoundTimers
  <2>2. DelaysFit(dls2, its)
    BY <1>1 DEF Sound, DelaysFit
  <2>3. Sound(qu, hk, its, tms2, dls2, fr)
    BY <2>1, <2>2, SoundDelays
  <2> QED
    BY <2>3, SoundOnward
<1>3. Begun(fr, its, fr, its2)
  BY <1>1, BegunOnward
<1>4. \A e : ~ Up(its2, x, e)
  BY DEF Up
<1>5. DelaysFit(dls2, its2)
  BY <1>2 DEF Sound
<1>6. ASSUME NEW e \in O PROVE Orderly(e, qu[e], hk[e], fin, its2, tms2, dls2, fr)
  <2>1. Orderly(e, qu[e], hk[e], fin, its, tms, dls, fr) /\ e \in Animated
    BY DEF InOrder
  <2>2. \A i \in 1..Len(its) : i # x => (i \in dls2 => i \in dls) /\ (i \in Range(tms2) => i \in Range(tms))
    OBVIOUS
  <2> QED
    BY <1>1, <1>3, <1>4, <1>5, <2>1, <2>2, OrderlyOnward
<1>7. ASSUME NEW e \in B PROVE Busy(e, qu[e], its2, fr)
  <2>1. Busy(e, qu[e], its, fr) /\ ~ Up(its, x, e)
    BY DEF InOrder
  <2> QED
    BY <1>1, <2>1, BusyOnward
<1> QED
  BY <1>2, <1>6, <1>7 DEF InOrder

\* The same items.
LEMMA OnwardSame ==
  ASSUME NEW its \in Seq(ItemRecords)
  PROVE  Onward(its, its, 0) /\ \A e : ~ Up(its, 0, e)
  BY DEF Onward, Up

\* Timers leave.
LEMMA OrderTimers ==
  ASSUME NEW qu, NEW hk, NEW fin, NEW its, NEW tms, NEW dls, NEW fr, NEW B, NEW O,
         InOrder(qu, hk, fin, its, tms, dls, fr, B, O),
         NEW tms2, TimersFit(tms2, its), Range(tms2) \subseteq Range(tms)
  PROVE  InOrder(qu, hk, fin, its, tms2, dls, fr, B, O)
<1>1. its \in Seq(ItemRecords) /\ DelaysFit(dls, its)
  BY DEF InOrder, Sound
<1>2. 0 \notin dls /\ 0 \notin 1..Len(its) /\ Unplaced(0, qu, fr)
  BY <1>1 DEF DelaysFit, Unplaced
<1> QED
  BY <1>1, <1>2, OnwardSame, OrderOnward

\* Animation i of e ends, with stage st.
Ends(its2, its, i, e, st) ==
  /\ i \in 1..Len(its) /\ its[i].stage = "running" /\ its[i].kind # "delay" /\ its[i].elem = e
  /\ st \in Over /\ its2 = StageOf(its, i, st)

\* An animation ends that has a timer, or is not of O: then nothing of its
\* element is on its way.
LEMMA OrderEnds ==
  ASSUME NEW qu, NEW hk, NEW fin, NEW its, NEW tms, NEW dls, NEW fr,
         NEW B, NEW O, InOrder(qu, hk, fin, its, tms, dls, fr, B, O),
         NEW i, NEW e, NEW st, NEW its2, Ends(its2, its, i, e, st), e \in O => its[i].kind = "unqueued" \/ i \in Range(tms),
         NEW B1 \in SUBSET B, e \notin B1
  PROVE  /\ InOrder(qu, hk, fin, its2, tms, dls, fr, B1, O)
         /\ its[i].kind = "unqueued" => InOrder(qu, hk, fin, its2, tms, dls, fr, B, O)
         /\ Onward(its, its2, i) /\ Len(its2) = Len(its) /\ i \in 1..Len(its2) /\ its2[i].stage = st
         /\ its2[i].elem = e /\ its2[i].kind = its[i].kind /\ e \in Animated
         /\ e \in O /\ its[i].kind # "unqueued" =>
              qu[e] # <<>> /\ NoneOnWay(its2, tms, dls, e) /\ NoneCompletes(fr, its2, e)
<1>1. /\ its \in Seq(ItemRecords) /\ fr \in Seq(CallFrames) /\ \A f \in Range(fr) : FrameFits(f, its)
      /\ Sound(qu, hk, its, tms, dls, fr) /\ TimersFit(tms, its) /\ i \notin dls
      /\ O \subseteq Animated
      /\ i \in 1..Len(its) /\ its[i].stage = "running" /\ its[i].kind # "delay" /\ its[i].elem = e
      /\ st \in Over /\ its2 = StageOf(its, i, st)
  BY DEF InOrder, Sound, FramesFit, DelaysFit, Ends
<1>2. e \in Animated
  BY <1>1, ItemTypes
<1>3. Onward(its, its2, i) /\ Len(its2) = Len(its) /\ its2[i].stage = st /\ st # "running"
  <2>1. st \in {"waiting", "running", "resolved", "rejected"} /\ st # "running"
    BY <1>1 DEF Over
  <2> QED
    BY <1>1, <2>1, StageOnward
<1>4. its2[i].elem = e /\ its2[i].kind = its[i].kind
  BY <1>1, <1>3 DEF Onward
<1>5. Unplaced(i, qu, fr)
  BY <1>1, StartedUnplaced
<1>6. dls \in SUBSET dls /\ Range(tms) \subseteq Range(tms) /\ O \in SUBSET O
  OBVIOUS
<1>7. InOrder(qu, hk, fin, its2, tms, dls, fr, B1, O)
  <2>1. InOrder(qu, hk, fin, its, tms, dls, fr, B1, O)
    BY <1>6, OrderLess
  <2>2. \A d \in B1 : ~ Up(its, i, d)
    BY <1>1 DEF Up
  <2> QED
    BY <1>1, <1>3, <1>5, <1>6, <2>1, <2>2, OrderOnward
<1>8. ASSUME its[i].kind = "unqueued" PROVE InOrder(qu, hk, fin, its2, tms, dls, fr, B, O)
  <2>1. \A d \in B : ~ Up(its, i, d)
    BY <1>8 DEF Up
  <2> QED
    BY <1>1, <1>3, <1>5, <1>6, <2>1, OrderOnward
<1>9. ASSUME e \in O, its[i].kind # "unqueued"
      PROVE  qu[e] # <<>> /\ NoneOnWay(its2, tms, dls, e) /\ NoneCompletes(fr, its2, e)
  <2>1. OnWay(its, tms, dls, i, e)
    BY <1>1, <1>9 DEF OnWay, Up
  <2>2. Alone(e, qu[e], its, tms, dls, fr)
    BY <1>9 DEF InOrder, Orderly
  <2>3. qu[e] # <<>> /\ NoneCompletes(fr, its, e)
    BY <1>1, <2>1, <2>2 DEF Alone, NoneOnWay
  <2>4. NoneOnWay(its2, tms, dls, e)
    <3>1. SUFFICES ASSUME NEW j \in 1..Len(its2), OnWay(its2, tms, dls, j, e) PROVE FALSE
      BY DEF NoneOnWay
    <3>2. j # i /\ j \in 1..Len(its) /\ its2[j] = its[j]
      BY <1>1, <1>3, <3>1 DEF OnWay, Up, Onward
    <3>3. OnWay(its, tms, dls, j, e)
      BY <3>1, <3>2 DEF OnWay, Up
    <3> QED
      BY <1>1, <2>1, <2>2, <3>2, <3>3 DEF Alone
  <2>5. NoneCompletes(fr, its2, e)
    BY <1>1, <1>3, <2>3, CompletesOnward
  <2> QED
    BY <2>3, <2>4, <2>5
<1> QED
  BY <1>1, <1>2, <1>3, <1>4, <1>7, <1>8, <1>9

\* B1 is B without e.
Without(B1, B, e) == B1 = B \ {e}
\* All of B but e are in B1.
LEMMA WithoutOne ==
  ASSUME NEW B, NEW B1, NEW e, Without(B1, B, e)
  PROVE  B1 \in SUBSET B /\ e \notin B1 /\ \A d \in B : d = e \/ d \in B1
  BY DEF Without

\* The complete callback of item i of e begins, after the calls fr.
CompletesNext(fr2, fr, its, i, e) ==
  i \in 1..Len(its) /\ its[i].elem = e /\ fr2 = <<CompleteFrame(i)>> \o fr

\* Its complete callback begins.
LEMMA OrderCompletes ==
  ASSUME NEW qu, NEW hk, NEW fin, NEW its, NEW tms, NEW dls, NEW fr,
         NEW B \in SUBSET Animated, NEW O, NEW i, NEW e \in Animated, NEW fr2,
         CompletesNext(fr2, fr, its, i, e), NEW B1, InOrder(qu, hk, fin, its, tms, dls, fr, B1, O),
         Without(B1, B, e),
         its[i].kind = "unqueued" => InOrder(qu, hk, fin, its, tms, dls, fr, B, O),
         e \in O /\ its[i].kind # "unqueued" =>
           qu[e] # <<>> /\ NoneOnWay(its, tms, dls, e) /\ NoneCompletes(fr, its, e)
  PROVE  InOrder(qu, hk, fin, its, tms, dls, fr2, B, O)
<1>1. /\ its \in Seq(ItemRecords) /\ fr \in Seq(CallFrames) /\ O \subseteq Animated
      /\ i \in 1..Len(its) /\ its[i].elem = e /\ fr2 = <<CompleteFrame(i)>> \o fr
      /\ e \notin B1 /\ \A d \in B : d = e \/ d \in B1
  BY WithoutOne DEF InOrder, Sound, FramesFit, CompletesNext
<1>2. PICK c, s : c = CompleteFrame(i) /\ s = <<c>> \o fr /\ s = fr2
  BY <1>1
<1>3. c.op = "complete" /\ c.item = i /\ c \in CallFrames /\ i # 0 /\ i \in 0..Len(its)
  BY <1>1, <1>2 DEF CompleteFrame, CompleteFrames, CallFrames
<1>4. FrameFits(c, its) /\ AlsoApart(c, qu, fr)
  BY <1>3 DEF FrameFits, AlsoApart
<1>5. CASE its[i].kind = "unqueued"
  <2>1. \A d : ~ Completes(c, its, d)
    BY <1>1, <1>3, <1>5 DEF Completes
  <2>2. InOrder(qu, hk, fin, its, tms, dls, s, B, O)
    BY <1>2, <1>3, <1>4, <1>5, <2>1, OrderPush
  <2> QED
    BY <1>2, <2>2
<1>6. CASE its[i].kind # "unqueued"
  <2>1. \A d : d # e => ~ Completes(c, its, d)
    BY <1>1, <1>3 DEF Completes
  <2>7. PICK O1 : O1 = O \ {e}
    OBVIOUS
  <2>2. InOrder(qu, hk, fin, its, tms, dls, s, B1, O1)
    <3>1. B1 \in SUBSET B1 /\ O1 \in SUBSET O /\ \A d \in O1 : d # e
      BY <2>7
    <3>2. InOrder(qu, hk, fin, its, tms, dls, fr, B1, O1)
      BY <3>1, OrderLess
    <3> QED
      BY <1>2, <1>3, <1>4, <2>1, <3>1, <3>2, OrderPush
  <2>3. Range(s) = {c} \cup Range(fr)
    BY <1>1, <1>2, <1>3, FrameBefore
  <2>4. e \in B => Busy(e, qu[e], its, s)
    BY <1>1, <1>3, <1>6, <2>3 DEF Busy, Completes
  <2>5. ASSUME e \in O PROVE Orderly(e, qu[e], hk[e], fin, its, tms, dls, s)
    <3>1. Orderly(e, qu[e], hk[e], fin, its, tms, dls, fr)
      BY <2>5 DEF InOrder
    <3>2. NoFinish(e, s)
      BY <1>3, <2>3, <3>1 DEF Orderly, NoFinish
    <3>3. OneCompletes(fr, its, e)
      BY <3>1 DEF Orderly, Alone
    <3>4. OneCompletes(s, its, e)
      BY <1>1, <1>2, <1>3, <1>6, <2>5, <3>3, CompletesBefore
    <3>5. Alone(e, qu[e], its, tms, dls, s)
      BY <1>6, <2>5, <3>4 DEF Alone, NoneOnWay
    <3> QED
      BY <3>1, <3>2, <3>5 DEF Orderly
  <2>6. InOrder(qu, hk, fin, its, tms, dls, s, B, O)
    <3>1. O \in SUBSET Animated /\ \A d \in O : d = e \/ d \in O1
      BY <1>1, <2>7
    <3> QED
      BY <1>1, <2>2, <2>4, <2>5, <3>1, OrderMore
  <2> QED
    BY <1>2, <2>6
<1> QED
  BY <1>5, <1>6

\* A running item keeps its timer while no other than x ends, or is given up.
LEMMA TimersOnward ==
  ASSUME NEW its, NEW tms, NEW dls, NEW lst, TimersKept(its, tms, dls, lst),
         NEW its2, NEW x, Onward(its, its2, x), Len(its2) = Len(its),
         x \in 1..Len(its) => its2[x].stage # "running",
         NEW tms2, NEW dls2, NEW lst2, lst \subseteq lst2,
         \A i \in 1..Len(its) : its[i].stage = "running" /\ i # x /\ its[i].elem \notin lst2 =>
           (i \in dls => i \in dls2) /\ (i \in Range(tms) => i \in Range(tms2))
  PROVE  TimersKept(its2, tms2, dls2, lst2)
<1>1. SUFFICES ASSUME NEW i \in 1..Len(its2), its2[i].stage = "running", its2[i].elem \notin lst2
               PROVE  i \in dls2 \/ i \in Range(tms2)
  BY DEF TimersKept, KeepsTimer
<1>2. i \in 1..Len(its) /\ i # x /\ its2[i] = its[i] /\ its[i].elem \notin lst
  BY <1>1 DEF Onward
<1> QED
  BY <1>1, <1>2 DEF TimersKept, KeepsTimer

\* Item n of its2, x, comes after those of its.
OneMore(its2, its, n, x) == its2 = Append(its, x) /\ n = Len(its) + 1

\* An item is asked for; none that is past the queue of an element of O.
LEMMA OrderAsk ==
  ASSUME NEW qu, NEW hk, NEW fin, NEW its, NEW tms, NEW dls, NEW fr, NEW B, NEW O,
         InOrder(qu, hk, fin, its, tms, dls, fr, B, O),
         NEW x \in ItemRecords, x.stage = "waiting", x.kind = "empty" => x.elem \notin O,
         NEW its2, NEW n, OneMore(its2, its, n, x)
  PROVE  /\ InOrder(qu, hk, fin, its2, tms, dls, fr, B, O)
         /\ Unplaced(n, qu, fr)
         /\ \A e \in Animated : n \notin Range(qu[e])
         /\ n \in 1..Len(its2) /\ its2[n] = x
         /\ \A i \in 1..Len(its2) : i # n => i \in 1..Len(its) /\ its2[i] = its[i]
<1>1. /\ its \in Seq(ItemRecords) /\ fr \in Seq(CallFrames) /\ \A f \in Range(fr) : FrameFits(f, its)
      /\ Sound(qu, hk, its, tms, dls, fr) /\ DelaysFit(dls, its) /\ O \subseteq Animated
      /\ Len(its) \in Nat
  BY DEF InOrder, Sound, FramesFit
<1>3. /\ Onward(its, its2, 0) /\ Len(its2) = n /\ its2[n] = x /\ n \in 1..Len(its2)
      /\ \A i \in 1..Len(its) : its2[i] = its[i] /\ i # n
  <2>1. Onward(its, its2, 0) /\ Len(its2) = Len(its) + 1
    BY <1>1, AskOnward DEF OneMore
  <2>2. its2[Len(its) + 1] = x /\ Len(its) + 1 \in 1..Len(its2)
    BY <1>1, AskOnward DEF OneMore
  <2>3. \A i \in 1..Len(its) : its2[i] = its[i] /\ i # Len(its) + 1
    BY <1>1, AskOnward DEF OneMore
  <2> QED
    BY <2>1, <2>2, <2>3 DEF OneMore
<1>4. \A i \in 1..Len(its2) : i # n => i \in 1..Len(its) /\ its2[i] = its[i]
  BY <1>1, <1>3 DEF OneMore
<1>5. \A e : ~ WaitsAt(its, n, e)
  BY <1>3 DEF WaitsAt
<1>6. \A e \in Animated : n \notin Range(qu[e])
  <2>1. n # 0
    BY <1>1 DEF OneMore
  <2> QED
    BY <1>1, <1>5, <2>1 DEF Sound, QueuesFit, QueueFits, Sentinel
<1>7. Unplaced(n, qu, fr)
  <2>1. n # 0
    BY <1>1 DEF OneMore
  <2>2. \A f \in Range(fr) : f.op = "finish" => n \notin Range(f.todo)
    BY <1>1, <1>5, <2>1 DEF FrameFits, Sentinel
  <2> QED
    BY <1>6, <2>2 DEF Unplaced
<1>8. Sound(qu, hk, its2, tms, dls, fr)
  <2>1. 0 \notin dls /\ Unplaced(0, qu, fr)
    BY <1>1 DEF DelaysFit, Unplaced
  <2> QED
    BY <1>1, <1>3, <2>1, SoundOnward
<1>9. ASSUME NEW e \in B PROVE Busy(e, qu[e], its2, fr)
  <2>1. Busy(e, qu[e], its, fr)
    BY DEF InOrder
  <2>2. ~ Up(its, 0, e)
    BY DEF Up
  <2> QED
    BY <1>1, <1>3, <2>1, <2>2, BusyOnward
<1>10. ASSUME NEW e \in O PROVE Orderly(e, qu[e], hk[e], fin, its2, tms, dls, fr)
  <2>1. Orderly(e, qu[e], hk[e], fin, its, tms, dls, fr)
    BY DEF InOrder
  <2>2. /\ NoneCompletes(fr, its2, e) <=> NoneCompletes(fr, its, e)
        /\ OneCompletes(fr, its2, e) <=> OneCompletes(fr, its, e)
    BY <1>1, <1>3, CompletesOnward
  <2>3. ~ Up(its2, n, e)
    BY <1>3 DEF Up
  <2>4. \A i \in 1..Len(its2) : OnWay(its2, tms, dls, i, e) => i \in 1..Len(its) /\ OnWay(its, tms, dls, i, e)
    BY <1>4, <2>3 DEF OnWay, Up
  <2>5. Alone(e, qu[e], its, tms, dls, fr)
    BY <2>1 DEF Orderly
  <2>6. OneCompletes(fr, its2, e) /\ (NoneCompletes(fr, its, e) => NoneCompletes(fr, its2, e))
    BY <2>2, <2>5 DEF Alone
  <2>7. Alone(e, qu[e], its2, tms, dls, fr)
    <3>1. qu[e] = <<>> => qu[e] = <<>> \/ (NoneOnWay(its2, tms, dls, e) /\ NoneCompletes(fr, its2, e))
      OBVIOUS
    <3> QED
      BY <2>4, <2>5, <2>6, <3>1, AloneLess
  <2>8. HookKnown(e, hk[e], its2, dls)
    <3>1. \A i \in dls : its2[i] = its[i]
      BY <1>1, <1>3 DEF DelaysFit
    <3> QED
      BY <2>1, <3>1 DEF Orderly, HookKnown
  <2>9. NoEmpty(e, its2)
    BY <1>3, <1>4, <1>10, <2>1 DEF Orderly, NoEmpty
  <2> QED
    BY <2>1, <2>7, <2>8, <2>9 DEF Orderly
<1>11. InOrder(qu, hk, fin, its2, tms, dls, fr, B, O)
  BY <1>8, <1>9, <1>10 DEF InOrder
<1> QED
  BY <1>3, <1>4, <1>6, <1>7, <1>11

\* An animation begins that does not count, or is of an element not in O.
LEMMA OrderAnimation ==
  ASSUME NEW qu, NEW hk, NEW fin, NEW its, NEW dls, NEW fr, NEW B, NEW O,
         InOrder(qu, hk, fin, its, timers, dls, fr, B, O), LoopTypes,
         NEW i \in 1..Len(its), its[i].stage = "waiting", its[i].kind # "delay",
         its[i].elem \in O => its[i].kind = "unqueued",
         Unplaced(i, qu, fr), Animation(i, its, fr)
  PROVE  /\ InOrder(qu, hk, fin, items', timers', dls, frames', B, O)
         /\ LoopTypes'
         /\ Onward(its, items', i) /\ Len(items') = Len(its) /\ items'[i].stage = "running"
         /\ Range(timers') = Range(timers) \cup {i}
         /\ Begun(fr, its, frames', items')
<1>1. /\ its \in Seq(ItemRecords) /\ fr \in Seq(CallFrames) /\ \A f \in Range(fr) : FrameFits(f, its)
      /\ Sound(qu, hk, its, timers, dls, fr) /\ O \subseteq Animated
  BY DEF InOrder, Sound, FramesFit
<1>2. PICK its2, tms2, fr2 : its2 = items' /\ tms2 = timers' /\ fr2 = frames'
  OBVIOUS
<1>3. /\ Sound(qu, hk, its2, tms2, dls, fr2)
      /\ LoopRuns' /\ loops' \in Nat /\ inProgress' \in BOOLEAN
      /\ Onward(its, its2, i) /\ Len(its2) = Len(its) /\ its2[i].stage = "running"
      /\ Range(tms2) = Range(timers) \cup {i}
      /\ Begun(fr, its, fr2, its2)
  BY <1>1, <1>2, AnimationBegins DEF LoopTypes
<1>4. LoopTypes'
  BY <1>3 DEF LoopTypes
<1>5. AllSpare(fr2) /\ Range(fr) \subseteq Range(fr2)
  BY <1>3 DEF Begun, InOrder
<1>6. ASSUME NEW e \in B PROVE Busy(e, qu[e], its2, fr2)
  <2>1. Busy(e, qu[e], its, fr) /\ ~ Up(its, i, e)
    BY DEF InOrder, Up
  <2> QED
    BY <1>1, <1>3, <1>5, <2>1, BusyOnward
<1>7. ASSUME NEW e \in O PROVE Orderly(e, qu[e], hk[e], fin, its2, tms2, dls, fr2)
  <2>1. Orderly(e, qu[e], hk[e], fin, its, timers, dls, fr) /\ e \in Animated
    BY DEF InOrder
  <2>2. ~ Up(its2, i, e)
    BY <1>3, <1>7 DEF Up, Onward
  <2>3. DelaysFit(dls, its2)
    BY <1>3 DEF Sound
  <2>4. \A j \in 1..Len(its) : j # i => (j \in dls => j \in dls) /\ (j \in Range(tms2) => j \in Range(timers))
    BY <1>3
  <2> QED
    BY <1>1, <1>3, <2>1, <2>2, <2>3, <2>4, OrderlyOnward
<1>8. InOrder(qu, hk, fin, its2, tms2, dls, fr2, B, O)
  BY <1>3, <1>5, <1>6, <1>7 DEF InOrder
<1> QED
  BY <1>2, <1>3, <1>4, <1>8

\* A delay begins, of an element not in O.
LEMMA OrderDelay ==
  ASSUME NEW qu, NEW hk, NEW fin, NEW its, NEW tms, NEW dls, NEW fr, NEW B, NEW O,
         InOrder(qu, hk, fin, its, tms, dls, fr, B, O),
         NEW i \in 1..Len(its), its[i].stage = "waiting", its[i].kind = "delay",
         its[i].elem \notin O, Unplaced(i, qu, fr),
         NEW its2, its2 = StageOf(its, i, "running"),
         NEW dls2, \A j : j \in dls2 <=> j \in dls \/ j = i
  PROVE  /\ InOrder(qu, hk, fin, its2, tms, dls2, fr, B, O)
         /\ Onward(its, its2, i) /\ Len(its2) = Len(its) /\ its2[i].stage = "running"
         /\ Begun(fr, its, fr, its2)
<1>1. /\ its \in Seq(ItemRecords) /\ fr \in Seq(CallFrames) /\ \A f \in Range(fr) : FrameFits(f, its)
      /\ Sound(qu, hk, its, tms, dls, fr) /\ O \subseteq Animated /\ i \notin dls
  BY DEF InOrder, Sound, FramesFit, DelaysFit
<1>2. Onward(its, its2, i) /\ Len(its2) = Len(its) /\ its2[i].stage = "running"
  <2>1. "running" \in {"waiting", "running", "resolved", "rejected"}
    OBVIOUS
  <2> QED
    BY <1>1, <2>1, StageOnward
<1>3. Begun(fr, its, fr, its2)
  BY <1>1, <1>2, BegunOnward
<1>5. Sound(qu, hk, its2, tms, dls2, fr)
  <2>1. Sound(qu, hk, its2, tms, dls, fr)
    BY <1>1, <1>2, SoundOnward
  <2>2. DelaysFit(dls2, its2)
    BY <1>2, <2>1 DEF Sound, DelaysFit, Onward
  <2> QED
    BY <2>1, <2>2, SoundDelays
<1>6. ASSUME NEW e \in B PROVE Busy(e, qu[e], its2, fr)
  <2>1. Busy(e, qu[e], its, fr) /\ ~ Up(its, i, e)
    BY DEF InOrder, Up
  <2> QED
    BY <1>1, <1>2, <2>1, BusyOnward
<1>7. ASSUME NEW e \in O PROVE Orderly(e, qu[e], hk[e], fin, its2, tms, dls2, fr)
  <2>1. Orderly(e, qu[e], hk[e], fin, its, tms, dls, fr) /\ e \in Animated
    BY DEF InOrder
  <2>2. ~ Up(its2, i, e)
    BY <1>2, <1>7 DEF Up, Onward
  <2>3. DelaysFit(dls2, its2)
    BY <1>5 DEF Sound
  <2>4. \A j \in 1..Len(its) : j # i => (j \in dls2 => j \in dls) /\ (j \in Range(tms) => j \in Range(tms))
    OBVIOUS
  <2> QED
    BY <1>1, <1>2, <1>3, <2>1, <2>2, <2>3, <2>4, OrderlyOnward
<1>8. InOrder(qu, hk, fin, its2, tms, dls2, fr, B, O)
  BY <1>5, <1>6, <1>7 DEF InOrder
<1> QED
  BY <1>2, <1>3, <1>8

-----------------------------------------------------------------------------
\* The invariant, for page code and behind the innermost call.

\* While page code runs, all is in order for the elements not given up.
LEMMA PageInOrder ==
  ASSUME EffectsInv, PageCode
  PROVE  /\ InOrder(queue, stopHook, finishing, items, timers, delays, frames,
                    Animated \ lost, Animated \ cut)
         /\ LoopTypes
<1>1. frames \in Seq(CallFrames) /\ (frames # <<>> => Head(frames).op = "complete")
  BY DEF EffectsInv, Sound, FramesFit, PageCode, In
<1>2. AllSpare(frames)
  <2>1. CASE frames = <<>>
    BY <1>1, <2>1, HeldBySeq DEF AllSpare
  <2>2. CASE frames # <<>>
    <3>1. Range(frames) = {Head(frames)} \cup Range(Tail(frames))
      BY <1>1, <2>2, InnermostFrame
    <3> QED
      BY <1>1, <2>2, <3>1 DEF EffectsInv, SpareBelow, AllSpare
  <2> QED
    BY <2>1, <2>2
<1>3. ASSUME NEW e \in Animated \ cut
      PROVE  Orderly(e, queue[e], stopHook[e], finishing, items, timers, delays, frames)
  <2>1. ~ IdleFinish(e, queue[e], finishing, timers, frames)
    BY <1>1 DEF IdleFinish
  <2> QED
    BY <2>1 DEF EffectsInv, OneOf, Orderly
<1> QED
  BY <1>2, <1>3 DEF EffectsInv, InOrder, LoopTypes, EffectTypes, SentinelFirst

\* Behind it, for those that it does not keep in progress, or finish.
LEMMA BehindInOrder ==
  ASSUME EffectsInv, frames # <<>>, NEW B \in SUBSET (Animated \ lost), NEW O \in SUBSET (Animated \ cut),
         \A e \in B : ~ Completes(Head(frames), items, e) /\ ~ Owing(Head(frames), e),
         \A e \in O : ~ (Head(frames).op = "finish" /\ Head(frames).elem = e)
  PROVE  /\ InOrder(queue, stopHook, finishing, items, timers, delays, Outer, B, O)
         /\ LoopTypes
<1>1. PICK f, r : f = Head(frames) /\ r = Outer
  OBVIOUS
<1>2. /\ Sound(queue, stopHook, items, timers, delays, r)
      /\ r \in Seq(CallFrames) /\ f \in CallFrames
      /\ Range(frames) = {f} \cup Range(r) /\ frames \in Seq(CallFrames)
  BY <1>1, SoundPop DEF EffectsInv, Outer, Sound, FramesFit
<1>3. AllSpare(r)
  BY <1>1 DEF EffectsInv, SpareBelow, Outer
<1>4. ASSUME NEW e \in B PROVE Busy(e, queue[e], items, r)
  BY <1>1, <1>2 DEF EffectsInv, Busy
<1>5. ASSUME NEW e \in O
      PROVE  Orderly(e, queue[e], stopHook[e], finishing, items, timers, delays, r)
  <2>1. OneOf(e, queue[e], stopHook[e], finishing, items, timers, delays, frames)
    BY DEF EffectsInv
  <2>2. ~ IdleFinish(e, queue[e], finishing, timers, frames)
    BY <1>1 DEF IdleFinish
  <2>3. NoFinish(e, r) /\ e \notin finishing
    BY <1>2, <2>1, <2>2 DEF OneOf, NoFinish
  <2>4. Alone(e, queue[e], items, timers, delays, frames)
    BY <2>1 DEF OneOf
  <2>5. OneCompletes(r, items, e) /\ (NoneCompletes(frames, items, e) => NoneCompletes(r, items, e))
    <3>1. OneCompletes(frames, items, e)
      BY <2>4 DEF Alone
    <3> QED
      BY <1>1, <1>2, <3>1, CompletesBehind DEF Outer
  <2>6. Alone(e, queue[e], items, timers, delays, r)
    BY <2>4, <2>5 DEF Alone
  <2> QED
    BY <2>1, <2>3, <2>6 DEF OneOf, Orderly
<1>6. InOrder(queue, stopHook, finishing, items, timers, delays, r, B, O)
  BY <1>2, <1>3, <1>4, <1>5 DEF EffectsInv, InOrder, SentinelFirst
<1> QED
  BY <1>1, <1>6 DEF EffectsInv, LoopTypes, EffectTypes

-----------------------------------------------------------------------------
\* A dequeue.

\* Nothing of e is on its way, nor keeps it.
Idle(e, fin, its, tms, dls, fr) ==
  /\ NoneOnWay(its, tms, dls, e) /\ NoneCompletes(fr, its, e) /\ NoEmpty(e, its)
  /\ NoFinish(e, fr) /\ e \notin fin

\* With an empty queue it is, and orderly.
LEMMA IdleOrderly ==
  ASSUME NEW e, NEW fin, NEW its, NEW tms, NEW dls, NEW fr \in Seq(CallFrames), DelaysFit(dls, its),
         Idle(e, fin, its, tms, dls, fr), NEW q, NEW h
  PROVE  Orderly(e, q, h, fin, its, tms, dls, fr) /\ \A i \in dls : its[i].elem # e
<1>1. \A k \in 1..Len(fr) : fr[k] \in Range(fr)
  BY HeldBySeq
<1>2. Alone(e, q, its, tms, dls, fr)
  BY <1>1 DEF Idle, Alone, NoneOnWay, NoneCompletes, OneCompletes
<1>3. \A i \in dls : its[i].elem # e
  BY DEF Idle, NoneOnWay, OnWay, Up, DelaysFit
<1> QED
  BY <1>2, <1>3 DEF Idle, Orderly, HookKnown

\* An orderly element whose queue is empty is idle.
LEMMA EmptyIdle ==
  ASSUME NEW e, NEW q, q = <<>>, NEW h, NEW fin, NEW its, NEW tms, NEW dls, NEW fr,
         Orderly(e, q, h, fin, its, tms, dls, fr)
  PROVE  Idle(e, fin, its, tms, dls, fr)
  BY DEF Idle, Orderly, Alone

\* The queue q without the sentinel, its first and its rest, behind a new one.
SentinelGone(q, todo) == IF q # <<>> /\ Head(q) = Sentinel THEN todo = Tail(q) ELSE todo = q
FirstOf(todo, next, q2) == todo # <<>> /\ next = Head(todo) /\ q2 = <<Sentinel>> \o Tail(todo)

\* What a dequeue takes waits at e; what it leaves is a queue behind the sentinel.
LEMMA NextTodo ==
  ASSUME NEW its, NEW fr, NEW e \in Animated, NEW q, QueueFits(q, e, its, fr),
         Sentinel \in Range(q) => Head(q) = Sentinel,
         NEW todo, SentinelGone(q, todo), NEW next, NEW q2, FirstOf(todo, next, q2)
  PROVE  /\ WaitsAt(its, next, e) /\ next # 0
         /\ q2 # <<>> /\ Head(q2) = Sentinel /\ QueueFits(q2, e, its, fr)
         /\ next \notin Range(q2) /\ next \in Range(q)
<1>1. q \in Seq(Nat) /\ Once(q)
  BY DEF QueueFits
<1>3. PICK rest : rest = Tail(todo) /\ todo # <<>> /\ next = Head(todo) /\ q2 = <<Sentinel>> \o rest
  BY DEF FirstOf
<1>2. todo \in Seq(Nat) /\ Once(todo) /\ Range(todo) \subseteq Range(q) /\ Sentinel \notin Range(todo)
  <2>1. CASE q # <<>> /\ Head(q) = Sentinel
    <3>1. todo = Tail(q)
      BY <2>1 DEF SentinelGone
    <3>2. PICK T : T = Nat
      OBVIOUS
    <3>3. Once(todo) /\ Head(q) \notin Range(todo) /\ Range(q) = {Head(q)} \cup Range(todo)
      BY <1>1, <2>1, <3>1, <3>2, OnceTail
    <3> QED
      BY <1>1, <2>1, <3>1, <3>3
  <2>2. CASE ~ (q # <<>> /\ Head(q) = Sentinel)
    <3>1. todo = q
      BY <2>2 DEF SentinelGone
    <3>2. q # <<>> /\ Head(q) # Sentinel
      BY <1>3, <2>2, <3>1
    <3> QED
      BY <1>1, <3>1, <3>2
  <2> QED
    BY <2>1, <2>2
<1>4. /\ rest \in Seq(Nat) /\ next \in Nat /\ Once(rest) /\ next \notin Range(rest)
      /\ Range(todo) = {next} \cup Range(rest)
  BY <1>2, <1>3, InnermostFrame, OnceTail
<1>5. next # Sentinel /\ next \in Range(q) /\ Sentinel \notin Range(rest) /\ Range(rest) \subseteq Range(q)
  BY <1>2, <1>4
<1>6. WaitsAt(its, next, e)
  BY <1>5 DEF QueueFits
<1>7. /\ q2 \in Seq(Nat) /\ q2 # <<>> /\ Head(q2) = Sentinel /\ Range(q2) = {Sentinel} \cup Range(rest)
      /\ Len(q2) = Len(rest) + 1 /\ q2[1] = Sentinel
      /\ \A k \in 2..(Len(rest) + 1) : k - 1 \in 1..Len(rest) /\ q2[k] = rest[k - 1]
  <2>1. PICK T, z : T = Nat /\ z = Sentinel
    OBVIOUS
  <2>2. z \in T /\ rest \in Seq(T)
    BY <1>4, <2>1 DEF Sentinel
  <2>3. q2 = <<z>> \o rest
    BY <1>3, <2>1
  <2>4. q2 \in Seq(T) /\ q2 # <<>>
    BY <2>2, <2>3, FrameBefore
  <2>6. Head(q2) = z /\ q2[1] = z
    BY <2>2, <2>3, FrameBefore
  <2>7. Range(q2) = {z} \cup Range(rest)
    BY <2>2, <2>3, FrameBefore
  <2>8. Len(q2) = Len(rest) + 1
    BY <2>2, <2>3, FrameBefore
  <2>5. \A k \in 2..(Len(rest) + 1) : k - 1 \in 1..Len(rest) /\ q2[k] = rest[k - 1]
    BY <2>2, <2>3, FrameBefore
  <2> QED
    BY <2>1, <2>4, <2>5, <2>6, <2>7, <2>8
<1>8. Once(q2)
  <2>1. SUFFICES ASSUME NEW a \in 1..Len(q2), NEW b \in 1..Len(q2), q2[a] = q2[b] PROVE a = b
    BY DEF Once
  <2>2. Len(rest) \in Nat /\ \A k \in 1..Len(rest) : rest[k] \in Range(rest)
    BY <1>4, HeldBySeq
  <2>3. \A k \in 1..Len(q2) : k = 1 \/ k \in 2..(Len(rest) + 1)
    <3>1. Len(q2) = Len(rest) + 1
      BY <1>7
    <3> QED
      BY <2>2, <3>1
  <2>4. \A k \in 2..(Len(rest) + 1) : q2[k] # Sentinel
    BY <1>5, <1>7, <2>2
  <2>5. CASE a \in 2..(Len(rest) + 1) /\ b \in 2..(Len(rest) + 1)
    <3>1. a - 1 \in 1..Len(rest) /\ b - 1 \in 1..Len(rest) /\ rest[a - 1] = rest[b - 1]
      BY <1>7, <2>1, <2>5
    <3>2. a - 1 = b - 1
      BY <1>4, <3>1 DEF Once
    <3> QED
      BY <2>2, <2>5, <3>2
  <2> QED
    BY <1>7, <2>1, <2>3, <2>4, <2>5
<1>9. NotToDo(q2, fr)
  BY <1>5, <1>7 DEF QueueFits, NotToDo, Apart
<1>10. QueueFits(q2, e, its, fr)
  BY <1>5, <1>7, <1>8, <1>9 DEF QueueFits
<1>11. next \notin Range(q2)
  BY <1>4, <1>5, <1>7
<1> QED
  BY <1>5, <1>6, <1>7, <1>10, <1>11 DEF Sentinel

\* A queue that is empty.
LEMMA EmptyFits ==
  ASSUME NEW its, NEW fr, NEW e, NEW q, q = <<>>
  PROVE  QueueFits(q, e, its, fr) /\ Range(q) = {} /\ (q # <<>> => Head(q) = Sentinel)
<1>1. q \in Seq(Nat) /\ Len(q) = 0
  OBVIOUS
<1>2. Range(q) = {}
  BY <1>1, HeldBySeq
<1> QED
  BY <1>1, <1>2 DEF QueueFits, Once, NotToDo, Apart

\* What waits at e, in e's queue no more, waits nowhere.
LEMMA NextUnplaced ==
  ASSUME NEW qu, NEW its, NEW fr, QueuesFit(qu, its, fr), NEW e \in Animated, NEW i, WaitsAt(its, i, e),
         NEW q, i \in Range(q), NotToDo(q, fr), i \notin Range(qu[e]), i # 0
  PROVE  Unplaced(i, qu, fr)
<1>1. \A d \in Animated : i \notin Range(qu[d])
  <2>1. SUFFICES ASSUME NEW d \in Animated, i \in Range(qu[d]) PROVE FALSE
    OBVIOUS
  <2>2. WaitsAt(its, i, d)
    BY <2>1 DEF QueuesFit, QueueFits, Sentinel
  <2>3. d = e
    BY <2>2 DEF WaitsAt
  <2> QED
    BY <2>1, <2>3
<1>2. \A f \in Range(fr) : f.op = "finish" => i \notin Range(f.todo)
  BY DEF NotToDo, Apart, Sentinel
<1> QED
  BY <1>1, <1>2 DEF Unplaced

\* A queue in order.
LEMMA QueueBegins ==
  ASSUME NEW qu, NEW hk, NEW fin, NEW its, NEW tms, NEW dls, NEW fr, NEW B, NEW O,
         InOrder(qu, hk, fin, its, tms, dls, fr, B, O), NEW e \in Animated
  PROVE  QueueFits(qu[e], e, its, fr) /\ (Sentinel \in Range(qu[e]) => Head(qu[e]) = Sentinel)
<1>1. QueueFits(qu[e], e, its, fr) /\ (qu[e] # <<>> => Head(qu[e]) = Sentinel)
  BY DEF InOrder, Sound, QueuesFit
<1>2. Sentinel \in Range(qu[e]) => qu[e] # <<>>
  BY <1>1, EmptyFits
<1> QED
  BY <1>1, <1>2

\* What dequeue() does, when all is in order but for e, which is idle or not in O.
LEMMA DequeueInOrder ==
  ASSUME NEW fin, NEW its, NEW ds, NEW s, NEW e \in Animated,
         NEW B \in SUBSET Animated, NEW O \in SUBSET Animated,
         NEW B1, NEW O1, InOrder(queue, stopHook, fin, its, timers, ds, s, B1, O1), LoopTypes,
         e \notin B1, e \notin O1, \A d \in B : d = e \/ d \in B1, \A d \in O : d = e \/ d \in O1,
         NEW q, QueueFits(q, e, its, s), Sentinel \in Range(q) => Head(q) = Sentinel,
         e \in O => Idle(e, fin, its, timers, ds, s),
         Dequeue(e, q, its, ds, s),
         NEW lst, TimersKept(its, timers, ds, lst)
  PROVE  /\ InOrder(queue', stopHook', fin, items', timers', delays', frames', B, O)
         /\ LoopTypes' /\ TimersKept(items', timers', delays', lst)
<1>0. /\ its \in Seq(ItemRecords) /\ s \in Seq(CallFrames) /\ DelaysFit(ds, its)
      /\ QueuesFit(queue, its, s)
  BY DEF InOrder, Sound, FramesFit
<1>9. OnAnimated(queue) /\ OnAnimated(stopHook)
  BY OrderTypes
<1>1. PICK todo, next : /\ todo = IF q # <<>> /\ Head(q) = Sentinel THEN Tail(q) ELSE q
                        /\ next = Head(todo)
  OBVIOUS
<1>2. CASE todo = <<>>
  <2>1. PICK q2, qu2, hk2, h : /\ q2 = <<>> /\ qu2 = SetAt(queue, e, q2)
                               /\ h = IF unqueued[e] = 0 THEN 0 ELSE stopHook[e]
                               /\ hk2 = SetAt(stopHook, e, h)
    OBVIOUS
  <2>2. /\ queue' = qu2 /\ stopHook' = hk2 /\ items' = its /\ delays' = ds /\ frames' = s
        /\ timers' = timers /\ inProgress' = inProgress /\ loops' = loops
    BY <1>1, <1>2, <2>1 DEF Dequeue, SetAt
  <2>10. QueueFits(q2, e, its, s) /\ (q2 # <<>> => Head(q2) = Sentinel) 
    BY <2>1, EmptyFits
  <2>3. SetTo(qu2, queue, e, q2) /\ SetTo(hk2, stopHook, e, h)
    BY <1>9, <2>1, OneSet
  <2>4. InOrder(qu2, stopHook, fin, its, timers, ds, s, B1, O1) /\ qu2[e] = <<>>
    <3>1. InOrder(qu2, stopHook, fin, its, timers, ds, s, B1, O1)
      BY <2>3, <2>10, OrderQueue
    <3> QED
      BY <2>1, <2>3, <3>1 DEF SetTo
  <2>5. h = 0 \/ (h \in 1..Len(its) /\ its[h].elem = e)
    BY <2>1 DEF InOrder, Sound, HooksFit
  <2>6. InOrder(qu2, hk2, fin, its, timers, ds, s, B1, O1)
    BY <2>3, <2>4, <2>5, OrderHook
  <2>7. e \in B => Busy(e, qu2[e], its, s)
    BY <2>4 DEF Busy
  <2>8. e \in O => Orderly(e, qu2[e], hk2[e], fin, its, timers, ds, s)
    BY <1>0, IdleOrderly
  <2>9. InOrder(qu2, hk2, fin, its, timers, ds, s, B, O)
    BY <2>6, <2>7, <2>8, OrderMore
  <2> QED
    BY <2>2, <2>9 DEF LoopTypes, LoopRuns
<1>3. CASE todo # <<>>
  <2>1. PICK rest, q2, qu2 : /\ rest = Tail(todo) /\ q2 = <<Sentinel>> \o rest
                             /\ qu2 = SetAt(queue, e, q2)
    OBVIOUS
  <2>10. SetTo(qu2, queue, e, q2)
    BY <1>9, <2>1, OneSet
  <2>2. /\ WaitsAt(its, next, e) /\ next # 0
        /\ q2 # <<>> /\ Head(q2) = Sentinel /\ QueueFits(q2, e, its, s)
        /\ next \notin Range(q2) /\ next \in Range(q)
    <3>1. FirstOf(todo, next, q2)
      BY <1>1, <1>3, <2>1 DEF FirstOf
    <3>2. SentinelGone(q, todo)
      BY <1>1 DEF SentinelGone
    <3> QED
      BY <3>1, <3>2, NextTodo
  <2>3. InOrder(qu2, stopHook, fin, its, timers, ds, s, B1, O1) /\ qu2[e] = q2
    <3>1. InOrder(qu2, stopHook, fin, its, timers, ds, s, B1, O1)
      BY <2>2, <2>10, OrderQueue
    <3> QED
      BY <2>10, <3>1 DEF SetTo
  <2>4. Unplaced(next, qu2, s)
    BY <2>2, <2>3, NextUnplaced DEF InOrder, Sound, QueueFits
  <2>5. next \in 1..Len(its) /\ its[next].elem = e /\ its[next].stage = "waiting"
        /\ its[next].kind \in {"animation", "delay"}
    BY <2>2 DEF WaitsAt
  <2>6. queue' = qu2
    BY <1>1, <1>3, <2>1 DEF Dequeue, SetAt
  <2>7. CASE its[next].kind = "delay"
    <3>1. PICK its2, ds2, hk2 : /\ its2 = StageOf(its, next, "running") /\ ds2 = ds \cup {next}
                                /\ hk2 = SetAt(stopHook, e, next)
      OBVIOUS
    <3>2. /\ items' = its2 /\ delays' = ds2 /\ stopHook' = hk2 /\ frames' = s
          /\ timers' = timers /\ inProgress' = inProgress /\ loops' = loops
      BY <1>1, <1>3, <2>7, <3>1 DEF Dequeue, StageOf, SetAt
    <3>3. /\ InOrder(qu2, stopHook, fin, its2, timers, ds2, s, B1, O1)
          /\ Onward(its, its2, next) /\ Len(its2) = Len(its) /\ its2[next].stage = "running"
          /\ Begun(s, its, s, its2)
      <4>1. \A j : j \in ds2 <=> j \in ds \/ j = next
        BY <3>1
      <4>2. its[next].elem \notin O1 /\ its2 = StageOf(its, next, "running")
        BY <2>5, <3>1
      <4> QED
        BY <2>3, <2>4, <2>5, <2>7, <4>1, <4>2, OrderDelay
    <3>4. its2[next].elem = e /\ its2[next].kind = "delay" /\ next \in 1..Len(its2)
      BY <2>5, <2>7, <3>3 DEF Onward
    <3>5. InOrder(qu2, hk2, fin, its2, timers, ds2, s, B1, O1) /\ hk2[e] = next
      <4>1. SetTo(hk2, stopHook, e, next)
        BY <1>9, <3>1, OneSet
      <4>2. InOrder(qu2, hk2, fin, its2, timers, ds2, s, B1, O1)
        BY <3>3, <3>4, <4>1, OrderHook
      <4> QED
        BY <4>1, <4>2 DEF SetTo
    <3>6. e \in B => Busy(e, qu2[e], its2, s)
      BY <3>3, <3>4 DEF Busy, Up
    <3>7. ASSUME e \in O PROVE Orderly(e, qu2[e], hk2[e], fin, its2, timers, ds2, s)
      <4>1. Idle(e, fin, its, timers, ds, s)
        BY <3>7
      <4>2. NoneCompletes(s, its2, e) /\ NoFinish(e, s) /\ e \notin fin
        BY <3>3, <4>1 DEF Idle, Begun
      <4>3. NoEmpty(e, its2)
        BY <3>3, <4>1 DEF Idle, NoEmpty, Onward
      <4>4. \A j \in 1..Len(its2) : OnWay(its2, timers, ds2, j, e) => j = next
        <5>1. SUFFICES ASSUME NEW j \in 1..Len(its2), OnWay(its2, timers, ds2, j, e), j # next PROVE FALSE
          OBVIOUS
        <5>2. j \in 1..Len(its) /\ its2[j] = its[j]
          BY <3>3, <5>1 DEF Onward
        <5> QED
          BY <3>1, <4>1, <5>1, <5>2 DEF Idle, NoneOnWay, OnWay, Up
      <4>5. Alone(e, qu2[e], its2, timers, ds2, s)
        BY <1>0, <2>2, <2>3, <4>2, <4>4, AloneStarts
      <4>6. HookKnown(e, hk2[e], its2, ds2)
        <5>1. SUFFICES ASSUME NEW j \in ds, its2[j].elem = e, j # next PROVE FALSE
          BY <3>1, <3>5 DEF HookKnown
        <5>2. \A k \in ds : its[k].elem # e
          BY <1>0, <4>1, IdleOrderly
        <5>3. j \in 1..Len(its) /\ its2[j] = its[j]
          BY <1>0, <3>3, <5>1 DEF Onward, DelaysFit
        <5> QED
          BY <5>1, <5>2, <5>3
      <4> QED
        BY <4>2, <4>3, <4>5, <4>6 DEF Orderly
    <3>8. InOrder(qu2, hk2, fin, its2, timers, ds2, s, B, O)
      BY <3>5, <3>6, <3>7, OrderMore
    <3>9. TimersKept(its2, timers, ds2, lst)
      BY <3>1, <3>3 DEF TimersKept, KeepsTimer, Onward
    <3> QED
      BY <2>6, <3>2, <3>8, <3>9 DEF LoopTypes, LoopRuns
  <2>8. CASE its[next].kind # "delay"
    <3>1. PICK hk2 : hk2 = SetAt(stopHook, e, 0)
      OBVIOUS
    <3>2. stopHook' = hk2 /\ Animation(next, its, s) /\ delays' = ds
      BY <1>1, <1>3, <2>8, <3>1 DEF Dequeue, SetAt
    <3>3. InOrder(qu2, hk2, fin, its, timers, ds, s, B1, O1)
      <4>1. SetTo(hk2, stopHook, e, 0)
        BY <1>9, <3>1, OneSet
      <4> QED
        BY <2>3, <4>1, OrderHook
    <3>4. PICK its2, tms2, s2 : its2 = items' /\ tms2 = timers' /\ s2 = frames'
      OBVIOUS
    <3>5. /\ InOrder(qu2, hk2, fin, its2, tms2, ds, s2, B1, O1)
          /\ LoopTypes'
          /\ Onward(its, its2, next) /\ Len(its2) = Len(its) /\ its2[next].stage = "running"
          /\ Range(tms2) = Range(timers) \cup {next}
          /\ Begun(s, its, s2, its2)
      BY <2>4, <2>5, <2>8, <3>2, <3>3, <3>4, OrderAnimation
    <3>6. its2[next].elem = e /\ its2[next].kind = "animation" /\ next \in 1..Len(its2)
      BY <2>5, <2>8, <3>5 DEF Onward
    <3>7. e \in B => Busy(e, qu2[e], its2, s2)
      BY <3>5, <3>6 DEF Busy, Up
    <3>8. ASSUME e \in O PROVE Orderly(e, qu2[e], hk2[e], fin, its2, tms2, ds, s2)
      <4>1. Idle(e, fin, its, timers, ds, s)
        BY <3>8
      <4>2. NoneCompletes(s2, its2, e) /\ NoFinish(e, s2) /\ e \notin fin
        BY <3>5, <4>1 DEF Idle, Begun
      <4>3. NoEmpty(e, its2)
        BY <3>5, <4>1 DEF Idle, NoEmpty, Onward
      <4>4. \A j \in 1..Len(its2) : OnWay(its2, tms2, ds, j, e) => j = next
        <5>1. SUFFICES ASSUME NEW j \in 1..Len(its2), OnWay(its2, tms2, ds, j, e), j # next PROVE FALSE
          OBVIOUS
        <5>2. j \in 1..Len(its) /\ its2[j] = its[j]
          BY <3>5, <5>1 DEF Onward
        <5> QED
          BY <3>5, <4>1, <5>1, <5>2 DEF Idle, NoneOnWay, OnWay, Up
      <4>5. Alone(e, qu2[e], its2, tms2, ds, s2)
        BY <2>2, <2>3, <3>5, <4>2, <4>4, AloneStarts DEF Begun
      <4>6. HookKnown(e, hk2[e], its2, ds)
        <5>1. \A k \in ds : its[k].elem # e
          BY <1>0, <4>1, IdleOrderly
        <5>2. \A k \in ds : its2[k].elem = its[k].elem
          BY <1>0, <3>5 DEF Onward, DelaysFit
        <5> QED
          BY <5>1, <5>2 DEF HookKnown
      <4> QED
        BY <4>2, <4>3, <4>5, <4>6 DEF Orderly
    <3>9. InOrder(qu2, hk2, fin, its2, tms2, ds, s2, B, O)
      BY <3>5, <3>7, <3>8, OrderMore
    <3>10. TimersKept(its2, tms2, ds, lst)
      BY <3>5 DEF TimersKept, KeepsTimer, Onward
    <3> QED
      BY <2>6, <3>2, <3>4, <3>5, <3>9, <3>10
  <2> QED
    BY <2>7, <2>8
<1> QED
  BY <1>2, <1>3

-----------------------------------------------------------------------------
\* Page code.

\* Item n of its has just been asked for; elements of B and O are not given up.
AskedItem(its, n, e, kind) == its = Asked(e, kind) /\ n = NewItem
NotLost(B) == B = Animated \ lost
NotCut(C) == C = Animated \ cut

\* Past the queue only of an element that is not of O.
MayAsk(kind, e, O) ==
  kind \in {"animation", "delay", "unqueued", "empty"} /\ (kind = "empty" => e \notin O)

\* An item that is asked for, in order.
LEMMA AskedInOrder ==
  ASSUME EffectsInv, CanAsk, NEW e \in Animated, NEW kind,
         NEW B, NotLost(B), NEW C, NotCut(C), NEW O \in SUBSET C,
         MayAsk(kind, e, O), NEW its, NEW n, AskedItem(its, n, e, kind)
  PROVE  /\ InOrder(queue, stopHook, finishing, its, timers, delays, frames, B, O)
         /\ LoopTypes /\ TimersKept(its, timers, delays, lost)
         /\ Unplaced(n, queue, frames) /\ n \notin Range(queue[e])
         /\ n \in 1..Len(its) /\ its[n].elem = e /\ its[n].kind = kind
         /\ its[n].stage = "waiting"
<1>1. PICK x : x = [elem |-> e, kind |-> kind, stage |-> "waiting"]
  OBVIOUS
<1>2. x \in ItemRecords /\ x.elem = e /\ x.kind = kind /\ x.stage = "waiting"
  BY <1>1 DEF ItemRecords, MayAsk
<1>3. OneMore(its, items, n, x)
  BY <1>1 DEF Asked, NewItem, OneMore, AskedItem
<1>4. InOrder(queue, stopHook, finishing, items, timers, delays, frames, B, C) /\ LoopTypes
  BY PageInOrder DEF CanAsk, NotLost, NotCut
<1>5. InOrder(queue, stopHook, finishing, items, timers, delays, frames, B, O)
  <2>1. B \in SUBSET B
    OBVIOUS
  <2> QED
    BY <1>4, <2>1, OrderLess
<1>6. /\ InOrder(queue, stopHook, finishing, its, timers, delays, frames, B, O)
      /\ Unplaced(n, queue, frames)
      /\ \A d \in Animated : n \notin Range(queue[d])
      /\ n \in 1..Len(its) /\ its[n] = x
      /\ \A i \in 1..Len(its) : i # n => i \in 1..Len(items) /\ its[i] = items[i]
  <2>1. x.kind = "empty" => x.elem \notin O
    BY <1>2 DEF MayAsk
  <2> QED
    BY <1>2, <1>3, <1>5, <2>1, OrderAsk
<1>7. TimersKept(its, timers, delays, lost)
  <2>1. SUFFICES ASSUME NEW i \in 1..Len(its) PROVE KeepsTimer(i, its, timers, delays, lost)
    BY DEF TimersKept
  <2>2. CASE i = n
    BY <1>2, <1>6, <2>2 DEF KeepsTimer
  <2>3. CASE i # n
    BY <1>6, <2>3 DEF KeepsTimer, TimersKept, EffectsInv
  <2> QED
    BY <2>2, <2>3
<1> QED
  BY <1>1, <1>2, <1>4, <1>6, <1>7

\* animate() and delay().
LEMMA AskKeeps ==
  ASSUME EffectsInv, NEW e \in Animated, NEW kind \in {"animation", "delay"}, Ask(e, kind)
  PROVE  EffectsInv'
<1>1. PICK its, n, q : its = Asked(e, kind) /\ n = NewItem /\ q = Append(queue[e], n)
  OBVIOUS
<1>2. /\ CanAsk /\ Queue(e, q, its)
      /\ unqueued' = unqueued /\ finishing' = finishing /\ cut' = cut /\ lost' = lost
  BY <1>1 DEF Ask
<1>3. PICK B, O : B = Animated \ lost /\ O = Animated \ cut
  OBVIOUS
<1>4. /\ InOrder(queue, stopHook, finishing, its, timers, delays, frames, B, O)
      /\ LoopTypes /\ TimersKept(its, timers, delays, lost)
      /\ Unplaced(n, queue, frames) /\ n \notin Range(queue[e])
      /\ n \in 1..Len(its) /\ its[n].elem = e /\ its[n].kind = kind
      /\ its[n].stage = "waiting"
  <2>1. MayAsk(kind, e, O) /\ O \in SUBSET O
    BY DEF MayAsk
  <2>2. NotLost(B) /\ NotCut(O) /\ AskedItem(its, n, e, kind)
    BY <1>1, <1>3 DEF NotLost, NotCut, AskedItem
  <2> QED
    BY <1>2, <2>1, <2>2, AskedInOrder
<1>5. n \in Nat /\ n # 0 /\ queue[e] \in Seq(Nat) /\ Once(queue[e])
  BY <1>4 DEF InOrder, Sound, QueuesFit, QueueFits
<1>6. /\ q \in Seq(Nat) /\ Range(q) = Range(queue[e]) \cup {n} /\ q # <<>>
      /\ Len(q) = Len(queue[e]) + 1 /\ q[Len(queue[e]) + 1] = n
      /\ \A k \in 1..Len(queue[e]) : q[k] = queue[e][k]
  <2>1. PICK q0 : q0 = queue[e]
    OBVIOUS
  <2>2. /\ Append(q0, n) \in Seq(Nat) /\ Len(Append(q0, n)) = Len(q0) + 1 /\ Append(q0, n) # <<>>
        /\ Append(q0, n)[Len(q0) + 1] = n /\ \A k \in 1..Len(q0) : Append(q0, n)[k] = q0[k]
        /\ Range(Append(q0, n)) = Range(q0) \cup {n}
    <3>1. q0 \in Seq(Nat) /\ n \in Nat
      BY <1>5, <2>1
    <3> QED
      BY <3>1, RangeAppend
  <2>3. q = Append(q0, n)
    BY <1>1, <2>1
  <2> QED
    BY <2>1, <2>2, <2>3
<1>7. QueueFits(q, e, its, frames)
  <2>1. Once(q)
    <3>1. SUFFICES ASSUME NEW a \in 1..Len(q), NEW b \in 1..Len(q), q[a] = q[b] PROVE a = b
      BY DEF Once
    <3>2. Len(queue[e]) \in Nat /\ \A k \in 1..Len(queue[e]) : queue[e][k] \in Range(queue[e])
      BY <1>5, HeldBySeq
    <3>3. \A k \in 1..Len(q) : k \in 1..Len(queue[e]) \/ k = Len(queue[e]) + 1
      BY <1>6, <3>2
    <3>4. CASE a \in 1..Len(queue[e]) /\ b \in 1..Len(queue[e])
      BY <1>5, <1>6, <3>1, <3>4 DEF Once
    <3>5. \A k \in 1..Len(queue[e]) : q[k] # n
      BY <1>4, <1>6, <3>2
    <3> QED
      BY <1>6, <3>1, <3>3, <3>4, <3>5
  <2>2. NotToDo(q, frames)
    BY <1>4, <1>5, <1>6 DEF NotToDo, Apart, Unplaced, InOrder, Sound, QueuesFit, QueueFits
  <2>3. WaitsAt(its, n, e)
    BY <1>4 DEF WaitsAt
  <2>4. \A i \in Range(q) : i = Sentinel \/ WaitsAt(its, i, e)
    BY <1>4, <1>6, <2>3 DEF InOrder, Sound, QueuesFit, QueueFits
  <2> QED
    BY <1>6, <2>1, <2>2, <2>4 DEF QueueFits
<1>15. PICK B1, O1 : B1 = B \ {e} /\ O1 = O \ {e}
  OBVIOUS
<1>16. /\ B1 \in SUBSET B /\ O1 \in SUBSET O /\ e \notin B1 /\ e \notin O1
       /\ \A d \in B : d = e \/ d \in B1
       /\ \A d \in O : d = e \/ d \in O1
  BY <1>15
<1>8. InOrder(queue, stopHook, finishing, its, timers, delays, frames, B1, O1)
  BY <1>4, <1>16, OrderLess
<1>9. queue[e] # <<>> => Head(q) = Head(queue[e])
  BY <1>1, <1>5
<1>10. queue[e] # <<>> => Head(queue[e]) = Sentinel
  BY <1>4 DEF InOrder
<1>11. unqueued' \in [Animated -> Int] /\ finishing' \subseteq Animated
  BY <1>2 DEF EffectsInv, EffectTypes
<1>12. B \in SUBSET Animated /\ O \in SUBSET Animated
  BY <1>3
<1>13. CASE q # <<>> /\ Head(q) = Sentinel
  <2>1. PICK qu2 : qu2 = SetAt(queue, e, q)
    OBVIOUS
  <2>2. /\ queue' = qu2 /\ items' = its /\ stopHook' = stopHook /\ timers' = timers
        /\ delays' = delays /\ inProgress' = inProgress /\ loops' = loops /\ frames' = frames
    BY <1>2, <1>13, <2>1 DEF Queue, SetAt
  <2>3. queue[e] # <<>>
    <3>1. ASSUME queue[e] = <<>> PROVE FALSE
      <4>1. q = <<n>>
        BY <1>1, <3>1
      <4> QED
        BY <1>5, <1>13, <4>1 DEF Sentinel
    <3> QED
      BY <3>1
  <2>4. InOrder(qu2, stopHook, finishing, its, timers, delays, frames, B1, O1) /\ qu2[e] = q
    <3>1. SetTo(qu2, queue, e, q)
      BY <1>8, <2>1, OrderTypes, OneSet
    <3>2. InOrder(qu2, stopHook, finishing, its, timers, delays, frames, B1, O1)
      BY <1>7, <1>8, <1>13, <1>16, <3>1, OrderQueue
    <3> QED
      BY <3>1, <3>2 DEF SetTo
  <2>5. e \in B => Busy(e, qu2[e], its, frames)
    BY <1>4, <2>3 DEF InOrder, Busy
  <2>6. e \in O => Orderly(e, qu2[e], stopHook[e], finishing, its, timers, delays, frames)
    BY <1>4, <1>6, <2>4 DEF InOrder, Orderly, Alone
  <2>7. InOrder(qu2, stopHook, finishing, its, timers, delays, frames, B, O)
    BY <1>12, <1>16, <2>4, <2>5, <2>6, OrderMore
  <2>8. LoopTypes'
    BY <1>4, <2>2 DEF LoopTypes, LoopRuns
  <2> QED
    BY <1>2, <1>3, <1>4, <1>11, <2>2, <2>7, <2>8, OrderKept
<1>14. CASE ~ (q # <<>> /\ Head(q) = Sentinel)
  <2>1. Dequeue(e, q, its, delays, frames)
    BY <1>2, <1>14 DEF Queue
  <2>2. queue[e] = <<>>
    BY <1>6, <1>9, <1>10, <1>14
  <2>3. e \in O => Idle(e, finishing, its, timers, delays, frames)
    <3>1. ASSUME e \in O PROVE Orderly(e, queue[e], stopHook[e], finishing, its, timers, delays, frames)
      BY <1>4, <3>1 DEF InOrder
    <3> QED
      BY <2>2, <3>1, EmptyIdle
  <2>4. Sentinel \in Range(q) => Head(q) = Sentinel
    <3>1. Range(queue[e]) = {}
      BY <1>5, <2>2, HeldBySeq
    <3> QED
      BY <1>5, <1>6, <3>1 DEF Sentinel
  <2>5. /\ InOrder(queue', stopHook', finishing, items', timers', delays', frames', B, O)
        /\ LoopTypes' /\ TimersKept(items', timers', delays', lost)
    <3>1. /\ LoopTypes /\ TimersKept(its, timers, delays, lost)
          /\ e \notin B1 /\ e \notin O1
          /\ (\A d \in B : d = e \/ d \in B1) /\ (\A d \in O : d = e \/ d \in O1)
      BY <1>4, <1>16
    <3> QED
      BY <1>7, <1>8, <1>12, <2>1, <2>3, <2>4, <3>1, DequeueInOrder
  <2> QED
    BY <1>2, <1>3, <1>11, <2>5, OrderKept
<1> QED
  BY <1>13, <1>14

\* An animation that starts at once.
AskedAtOnce(e, kind) ==
  /\ Animation(NewItem, Asked(e, kind), frames) /\ unqueued' \in [Animated -> Int]
  /\ cut' = IF kind = "empty" THEN cut \cup {e} ELSE cut
  /\ queue' = queue /\ stopHook' = stopHook /\ finishing' = finishing /\ delays' = delays
  /\ lost' = lost

\* An animation that starts at once keeps the invariant.
LEMMA AskAnimation ==
  ASSUME EffectsInv, CanAsk, NEW e \in Animated, NEW kind \in {"unqueued", "empty"},
         AskedAtOnce(e, kind)
  PROVE  EffectsInv'
<1>1. PICK its, n : its = Asked(e, kind) /\ n = NewItem
  OBVIOUS
<1>2. PICK B, O, C : B = Animated \ lost /\ O = Animated \ cut' /\ C = Animated \ cut
  OBVIOUS
<1>3. /\ InOrder(queue, stopHook, finishing, its, timers, delays, frames, B, O)
      /\ LoopTypes /\ TimersKept(its, timers, delays, lost)
      /\ Unplaced(n, queue, frames)
      /\ n \in 1..Len(its) /\ its[n].elem = e /\ its[n].kind = kind
      /\ its[n].stage = "waiting"
  <2>1. MayAsk(kind, e, O) /\ O \in SUBSET C
    BY <1>2 DEF AskedAtOnce, MayAsk
  <2>2. NotLost(B) /\ NotCut(C) /\ AskedItem(its, n, e, kind)
    BY <1>1, <1>2 DEF NotLost, NotCut, AskedItem
  <2> QED
    BY <2>1, <2>2, AskedInOrder
<1>4. its[n].kind # "delay" /\ (its[n].elem \in O => its[n].kind = "unqueued")
  BY <1>2, <1>3 DEF AskedAtOnce
<1>5. /\ InOrder(queue, stopHook, finishing, items', timers', delays, frames', B, O)
      /\ LoopTypes'
      /\ Onward(its, items', n) /\ Len(items') = Len(its)
      /\ Range(timers') = Range(timers) \cup {n}
  <2>1. Animation(n, its, frames)
    BY <1>1 DEF AskedAtOnce
  <2> QED
    BY <1>3, <1>4, <2>1, OrderAnimation
<1>6. TimersKept(items', timers', delays, lost)
  BY <1>3, <1>5 DEF TimersKept, KeepsTimer, Onward
<1>7. finishing' \subseteq Animated
  BY DEF EffectsInv, EffectTypes, AskedAtOnce
<1> QED
  BY <1>2, <1>5, <1>6, <1>7, OrderKept DEF AskedAtOnce

\* animate(props, {queue: false}) keeps it.
LEMMA AskUnqueuedKeeps ==
  ASSUME EffectsInv, NEW e \in Animated, AskUnqueued(e)
  PROVE  EffectsInv'
<1>1. /\ CanAsk /\ Animation(NewItem, Asked(e, "unqueued"), frames)
      /\ unqueued' = [unqueued EXCEPT ![e] = @ + 1]
      /\ queue' = queue /\ stopHook' = stopHook /\ finishing' = finishing /\ delays' = delays
      /\ lost' = lost /\ cut' = cut
  BY DEF AskUnqueued
<1>2. unqueued' \in [Animated -> Int]
  BY <1>1 DEF EffectsInv, EffectTypes
<1>3. PICK kind : kind = "unqueued"
  OBVIOUS
<1>4. kind \in {"unqueued", "empty"} /\ AskedAtOnce(e, kind)
  BY <1>1, <1>2, <1>3 DEF AskedAtOnce
<1> QED
  BY <1>1, <1>4, AskAnimation

\* animate({}) keeps it.
LEMMA AskEmptyKeeps ==
  ASSUME EffectsInv, NEW e \in Animated, AskEmpty(e)
  PROVE  EffectsInv'
<1>1. /\ CanAsk /\ Animation(NewItem, Asked(e, "empty"), frames)
      /\ unqueued' = unqueued
      /\ queue' = queue /\ stopHook' = stopHook /\ finishing' = finishing /\ delays' = delays
      /\ lost' = lost /\ cut' = cut \cup {e}
  BY DEF AskEmpty, CutsIn
<1>2. unqueued' \in [Animated -> Int]
  BY <1>1 DEF EffectsInv, EffectTypes
<1>3. PICK kind : kind = "empty"
  OBVIOUS
<1>4. kind \in {"unqueued", "empty"} /\ AskedAtOnce(e, kind)
  BY <1>1, <1>2, <1>3 DEF AskedAtOnce
<1> QED
  BY <1>1, <1>4, AskAnimation

\* The page's complete callbacks of e, by their index and by their frame.
LEMMA CompletingNone ==
  ASSUME EffectsInv, NEW e
  PROVE  /\ Completing(e) = {} <=> NoneCompletes(frames, items, e)
         /\ \A k \in 1..Len(frames) : k \in Completing(e) <=> Completes(frames[k], items, e)
<1>1. frames \in Seq(CallFrames)
  BY DEF EffectsInv, Sound, FramesFit
<1>2. \A k \in 1..Len(frames) : k \in Completing(e) <=> Completes(frames[k], items, e)
  BY DEF Completing, Completes, ElemOf, InQueue
<1>3. Completing(e) \subseteq 1..Len(frames)
  BY DEF Completing
<1>4. \A f : f \in Range(frames) <=> \E k \in 1..Len(frames) : frames[k] = f
  BY <1>1, HeldBySeq
<1> QED
  BY <1>2, <1>3, <1>4 DEF NoneCompletes

\* clearQueue() keeps the invariant.
LEMMA ClearQueueKeeps ==
  ASSUME EffectsInv, NEW e \in Animated, ClearQueue(e)
  PROVE  EffectsInv'
<1>1. PICK q : q = <<>>
  OBVIOUS
<1>2. /\ CanStop /\ Dequeue(e, q, items, delays, frames)
      /\ unqueued' = unqueued /\ finishing' = finishing /\ lost' = lost
      /\ cut' = IF queue[e] # <<>> \/ Completing(e) # {} THEN cut \cup {e} ELSE cut
  BY <1>1 DEF ClearQueue, Queue, CutsIn
<1>3. PICK B, O : B = Animated \ lost /\ O = Animated \ cut'
  OBVIOUS
<1>12. PICK B1, O1, C : B1 = B \ {e} /\ O1 = O \ {e} /\ C = Animated \ cut
  OBVIOUS
<1>5. /\ B1 \in SUBSET B /\ O1 \in SUBSET C /\ O \in SUBSET C
      /\ B \in SUBSET Animated /\ O \in SUBSET Animated
      /\ e \notin B1 /\ e \notin O1
      /\ \A d \in B : d = e \/ d \in B1
      /\ \A d \in O : d = e \/ d \in O1
  BY <1>2, <1>3, <1>12
<1>4. InOrder(queue, stopHook, finishing, items, timers, delays, frames, B, C) /\ LoopTypes
  BY <1>2, <1>3, <1>12, PageInOrder DEF CanStop
<1>6. InOrder(queue, stopHook, finishing, items, timers, delays, frames, B1, O1)
  BY <1>4, <1>5, OrderLess
<1>7. ASSUME e \in O PROVE Idle(e, finishing, items, timers, delays, frames)
  <2>1. queue[e] = <<>>
    BY <1>2, <1>3, <1>7
  <2>2. Orderly(e, queue[e], stopHook[e], finishing, items, timers, delays, frames)
    BY <1>4, <1>5, <1>7 DEF InOrder
  <2> QED
    BY <2>1, <2>2, EmptyIdle
<1>8. QueueFits(q, e, items, frames) /\ (Sentinel \in Range(q) => Head(q) = Sentinel)
  BY <1>1, EmptyFits DEF Sentinel
<1>9. TimersKept(items, timers, delays, lost)
  BY DEF EffectsInv
<1>10. /\ InOrder(queue', stopHook', finishing, items', timers', delays', frames', B, O)
       /\ LoopTypes' /\ TimersKept(items', timers', delays', lost)
  BY <1>2, <1>4, <1>5, <1>6, <1>7, <1>8, <1>9, DequeueInOrder
<1>11. unqueued' \in [Animated -> Int] /\ finishing' \subseteq Animated
  BY <1>2 DEF EffectsInv, EffectTypes
<1> QED
  BY <1>2, <1>3, <1>10, <1>11, OrderKept

\* The invariant with a loop of stop() or finish() as the innermost call.
LEMMA LoopKept ==
  ASSUME NEW f, NEW r, NEW s, s = <<f>> \o r, frames' = s, f.op \in {"stop", "finish"}, f.elem \in Animated,
         FrameFits(f, items'), AlsoApart(f, queue', r),
         NEW B, NEW O, B = Animated \ lost', O = Animated \ cut',
         NEW B1, NEW O1, InOrder(queue', stopHook', finishing', items', timers', delays', r, B1, O1),
         \A d \in B : d = f.elem \/ d \in B1, \A d \in O : d = f.elem \/ d \in O1,
         f.elem \in B => Busy(f.elem, queue'[f.elem], items', s),
         f.elem \in O => OneOf(f.elem, queue'[f.elem], stopHook'[f.elem], finishing', items', timers',
                               delays', s),
         LoopTypes', unqueued' \in [Animated -> Int], finishing' \subseteq Animated,
         TimersKept(items', timers', delays', lost')
  PROVE  EffectsInv'
<1>1. r \in Seq(CallFrames) /\ f \in CallFrames
  BY DEF InOrder, Sound, FramesFit, FrameFits
<1>3. Range(s) = {f} \cup Range(r) /\ s # <<>> /\ Head(s) = f /\ Tail(s) = r
  BY <1>1, FrameBefore
<1>4. Sound(queue', stopHook', items', timers', delays', s)
  BY SoundPush DEF InOrder
<1>5. SpareBelow(s)
  BY <1>3 DEF SpareBelow, InOrder
<1>6. ASSUME NEW d \in B PROVE Busy(d, queue'[d], items', s)
  <2>1. CASE d = f.elem
    BY <1>6, <2>1
  <2>2. CASE d # f.elem
    <3>1. Busy(d, queue'[d], items', r)
      BY <1>6, <2>2 DEF InOrder
    <3> QED
      BY <1>3, <3>1 DEF Busy
  <2> QED
    BY <2>1, <2>2
<1>7. ASSUME NEW d \in O
      PROVE  OneOf(d, queue'[d], stopHook'[d], finishing', items', timers', delays', s)
  <2>1. CASE d = f.elem
    BY <1>7, <2>1
  <2>2. CASE d # f.elem
    <3>1. Orderly(d, queue'[d], stopHook'[d], finishing', items', timers', delays', r)
      BY <1>7, <2>2 DEF InOrder
    <3>2. ~ Completes(f, items', d)
      BY DEF Completes
    <3>3. /\ NoneCompletes(s, items', d) <=> NoneCompletes(r, items', d)
          /\ OneCompletes(r, items', d) => OneCompletes(s, items', d)
      BY <1>1, <3>2, CompletesBefore
    <3>4. Alone(d, queue'[d], items', timers', delays', s)
      BY <3>1, <3>3 DEF Orderly, Alone
    <3>5. NoFinish(d, s)
      BY <1>3, <2>2, <3>1 DEF Orderly, NoFinish
    <3>6. StopsAll(d, items', timers', delays', s)
      BY <1>3, <2>2 DEF StopsAll
    <3> QED
      BY <3>1, <3>4, <3>5, <3>6 DEF Orderly, OneOf
  <2> QED
    BY <2>1, <2>2
<1> QED
  BY <1>4, <1>5, <1>6, <1>7
     DEF InOrder, EffectsInv, EffectTypes, LoopTypes, LoopRuns, SentinelFirst

\* stop() of e, when it leaves nothing behind if it will dequeue.
LEMMA StopOneOf ==
  ASSUME NEW e, NEW q, NEW h, NEW fin, NEW its, NEW tms, NEW dls, NEW r \in Seq(CallFrames), NEW f \in CallFrames, NEW s, s = <<f>> \o r,
         Orderly(e, q, h, fin, its, tms, dls, r),
         f.op = "stop",
         Dequeues(f) => /\ NoneCompletes(r, its, e)
                        /\ \A i \in dls : its[i].elem # e
                        /\ \A n \in 1..Len(tms) : Up(its, tms[n], e) => n <= f.at
  PROVE  OneOf(e, q, h, fin, its, tms, dls, s)
<1>2. Range(s) = {f} \cup Range(r) /\ s # <<>> /\ Head(s) = f
  BY FrameBefore
<1>3. ~ Completes(f, its, e)
  BY DEF Completes
<1>4. /\ NoneCompletes(s, its, e) <=> NoneCompletes(r, its, e)
      /\ OneCompletes(r, its, e) => OneCompletes(s, its, e)
  BY <1>3, CompletesBefore
<1>5. Alone(e, q, its, tms, dls, s)
  BY <1>4 DEF Orderly, Alone
<1>6. NoFinish(e, s)
  BY <1>2 DEF Orderly, NoFinish
<1>7. StopsAll(e, its, tms, dls, s)
  BY <1>2, <1>4 DEF StopsAll
<1> QED
  BY <1>5, <1>6, <1>7 DEF Orderly, OneOf

\* finish() of e, when nothing was on its way.
LEMMA FinishOneOf ==
  ASSUME NEW e, NEW q, q = <<>>, NEW h, NEW fin, NEW fin2, NEW its, NEW tms, NEW dls, NEW r \in Seq(CallFrames), NEW f \in CallFrames, NEW s, s = <<f>> \o r,
         DelaysFit(dls, its), Idle(e, fin2, its, tms, dls, r),
         f.op = "finish", f.elem = e, f.item = 0, f.todo = <<>>, f.at <= Len(tms)
  PROVE  OneOf(e, q, h, fin, its, tms, dls, s)
<1>2. s # <<>> /\ Head(s) = f /\ Tail(s) = r
  BY FrameBefore
<1>3. ~ Completes(f, its, e)
  BY DEF Completes
<1>4. Orderly(e, q, h, fin2, its, tms, dls, r)
  BY IdleOrderly
<1>5. /\ NoneCompletes(s, its, e) <=> NoneCompletes(r, its, e)
      /\ OneCompletes(r, its, e) => OneCompletes(s, its, e)
  BY <1>3, CompletesBefore
<1>6. Alone(e, q, its, tms, dls, s)
  BY <1>4, <1>5 DEF Orderly, Alone
<1>7. IdleFinish(e, q, fin, tms, s)
  BY <1>2 DEF IdleFinish, Idle
<1>8. StopsAll(e, its, tms, dls, s)
  BY <1>2 DEF StopsAll
<1> QED
  BY <1>4, <1>6, <1>7, <1>8 DEF Orderly, OneOf

\* hooks.stop cancels the delay h that it knows.
Cancels(h, its, dls, its2, x, dls2) ==
  /\ IF h \in dls THEN x = h /\ its2 = StageOf(its, h, "rejected") ELSE x = 0 /\ its2 = its
  /\ dls2 = dls \ {h}
\* A delay cancelled leaves all in order, but that e's queue may not advance.
LEMMA CancelInOrder ==
  ASSUME NEW qu, NEW hk, NEW fin, NEW its, NEW tms, NEW dls, NEW fr, NEW B, NEW O,
         InOrder(qu, hk, fin, its, tms, dls, fr, B, O), NEW e \in Animated, e \notin B,
         NEW h, h \in dls => its[h].elem = e,
         NEW its2, NEW x, NEW dls2, Cancels(h, its, dls, its2, x, dls2)
  PROVE  /\ InOrder(qu, hk, fin, its2, tms, dls2, fr, B, O)
         /\ Onward(its, its2, x) /\ Len(its2) = Len(its)
         /\ \A lst : TimersKept(its, tms, dls, lst) => TimersKept(its2, tms, dls2, lst)
         /\ \A q, k : Orderly(e, q, k, fin, its, tms, dls, fr) => Orderly(e, q, k, fin, its2, tms, dls2, fr)
         /\ \A i \in dls2 : i \in dls /\ its2[i].elem = its[i].elem
<1>1. /\ its \in Seq(ItemRecords) /\ fr \in Seq(CallFrames) /\ \A f \in Range(fr) : FrameFits(f, its)
      /\ Sound(qu, hk, its, tms, dls, fr) /\ TimersFit(tms, its) /\ DelaysFit(dls, its)
      /\ O \subseteq Animated
  BY DEF InOrder, Sound, FramesFit
<1>3. CASE h \in dls
  <2>1. x = h /\ h \in 1..Len(its) /\ its[h].stage = "running" /\ its2 = StageOf(its, h, "rejected")
    BY <1>1, <1>3 DEF DelaysFit, Cancels
  <2>9. dls2 \in SUBSET dls /\ h \notin dls2 /\ \A i \in dls : i # h => i \in dls2
    BY DEF Cancels
  <2>2. Onward(its, its2, h) /\ Len(its2) = Len(its) /\ its2[h].stage = "rejected"
    <3>1. "rejected" \in {"waiting", "running", "resolved", "rejected"} /\ "rejected" \in Over
      BY DEF Over
    <3> QED
      BY <1>1, <2>1, <3>1, StageOnward
  <2>3. Unplaced(h, qu, fr)
    BY <1>1, <2>1, StartedUnplaced
  <2>4. InOrder(qu, hk, fin, its2, tms, dls2, fr, B, O)
    <3>1. \A d \in B : ~ Up(its, h, d)
      BY <1>3 DEF Up
    <3>2. dls2 \in SUBSET dls /\ h \notin dls2 /\ Range(tms) \subseteq Range(tms)
          /\ its2[h].stage # "running"
      BY <2>2, <2>9
    <3> QED
      BY <1>1, <2>2, <2>3, <3>1, <3>2, OrderOnward
  <2>5. \A lst : TimersKept(its, tms, dls, lst) => TimersKept(its2, tms, dls2, lst)
    BY <2>1, <2>2, <2>9 DEF TimersKept, KeepsTimer, Onward
  <2>6. ASSUME NEW q, NEW k, Orderly(e, q, k, fin, its, tms, dls, fr)
        PROVE  Orderly(e, q, k, fin, its2, tms, dls2, fr)
    <3>1. ~ Up(its2, h, e)
      BY <2>2 DEF Up
    <3>2. DelaysFit(dls2, its2)
      BY <2>4 DEF InOrder, Sound
    <3>3. Begun(fr, its, fr, its2)
      BY <1>1, <2>2, BegunOnward
    <3>4. \A i \in 1..Len(its) : i # h => (i \in dls2 => i \in dls) /\ (i \in Range(tms) => i \in Range(tms))
      BY <2>9
    <3> QED
      BY <1>1, <2>2, <2>6, <3>1, <3>2, <3>3, <3>4, OrderlyOnward
  <2>7. \A i \in dls2 : i \in dls /\ its2[i].elem = its[i].elem
    BY <1>1, <2>2, <2>9 DEF DelaysFit, Onward
  <2> QED
    BY <2>1, <2>2, <2>4, <2>5, <2>6, <2>7
<1>4. CASE h \notin dls
  <2>1. its2 = its /\ x = 0 /\ dls2 = dls
    BY <1>4 DEF Cancels
  <2>2. Onward(its, its2, x)
    BY <1>1, <2>1, OnwardSame
  <2> QED
    BY <2>1, <2>2
<1> QED
  BY <1>3, <1>4

\* The frame of stop(), and that of finish().
LEMMA StopFrame ==
  ASSUME NEW e \in Animated, NEW n \in Nat, NEW gotoEnd \in BOOLEAN, NEW owes \in BOOLEAN, NEW its,
         Len(its) \in Nat,
         NEW f, f = [op |-> "stop", elem |-> e, at |-> n, item |-> 0, gotoEnd |-> gotoEnd,
                     dequeue |-> TRUE, owes |-> owes]
  PROVE  /\ FrameFits(f, its) /\ f \in CallFrames
         /\ f.op = "stop" /\ f.elem = e /\ f.at = n /\ f.gotoEnd = gotoEnd /\ f.owes = owes
<1>1. /\ f.op = "stop" /\ f.elem = e /\ f.at = n /\ f.gotoEnd = gotoEnd /\ f.owes = owes
      /\ f.item = 0
  OBVIOUS
<1>2. f \in StopFrames
  BY DEF StopFrames
<1> QED
  BY <1>1, <1>2 DEF FrameFits, CallFrames

\* The frame of finish() fits.
LEMMA FinishFrame ==
  ASSUME NEW e \in Animated, NEW n \in Nat, NEW todo \in Seq(Nat), NEW its, Len(its) \in Nat,
         Once(todo), \A i \in Range(todo) : i = Sentinel \/ WaitsAt(its, i, e),
         NEW f, f = [op |-> "finish", elem |-> e, at |-> n, item |-> 0, todo |-> todo]
  PROVE  /\ FrameFits(f, its) /\ f \in CallFrames
         /\ f.op = "finish" /\ f.elem = e /\ f.at = n /\ f.item = 0 /\ f.todo = todo
<1>1. f.op = "finish" /\ f.elem = e /\ f.at = n /\ f.item = 0 /\ f.todo = todo
  OBVIOUS
<1>2. f \in FinishFrames
  BY DEF FinishFrames
<1> QED
  BY <1>1, <1>2 DEF FrameFits, CallFrames

\* stop(clear, gotoEnd), up to its loop, keeps the invariant.
LEMMA StopKeeps ==
  ASSUME EffectsInv, NEW e \in Animated, NEW clear \in BOOLEAN, NEW gotoEnd \in BOOLEAN,
         Stop(e, clear, gotoEnd)
  PROVE  EffectsInv'
<1>1. PICK hook, x, qu2, hk2, its2, dls2, f, s, B, O, B1, O1, C :
        /\ hook = IF clear /\ unqueued[e] = 0 THEN 0 ELSE stopHook[e]
        /\ x = IF hook \in delays THEN hook ELSE 0
        /\ qu2 = IF clear THEN SetAt(queue, e, <<>>) ELSE queue
        /\ hk2 = SetAt(stopHook, e, 0)
        /\ its2 = IF hook \in delays THEN StageOf(items, hook, "rejected") ELSE items
        /\ dls2 = delays \ {hook}
        /\ f = [op |-> "stop", elem |-> e, at |-> Len(timers), item |-> 0, gotoEnd |-> gotoEnd,
                dequeue |-> TRUE, owes |-> hook \in delays]
        /\ s = <<f>> \o frames
        /\ B = Animated \ lost /\ O = Animated \ cut'
        /\ B1 = B \ {e} /\ O1 = O \ {e} /\ C = Animated \ cut
  OBVIOUS
<1>2. /\ CanStop /\ queue' = qu2 /\ stopHook' = hk2 /\ delays' = dls2 /\ items' = its2
      /\ frames' = s
      /\ cut' = IF (clear /\ queue[e] # <<>>) \/ Completing(e) # {} THEN cut \cup {e} ELSE cut
      /\ unqueued' = unqueued /\ finishing' = finishing /\ timers' = timers
      /\ inProgress' = inProgress /\ loops' = loops /\ lost' = lost
  BY <1>1 DEF Stop, CutsIn, StageOf, SetAt
<1>3. InOrder(queue, stopHook, finishing, items, timers, delays, frames, B, C) /\ LoopTypes
  BY <1>1, <1>2, PageInOrder DEF CanStop
<1>4. /\ items \in Seq(ItemRecords) /\ Len(items) \in Nat /\ frames \in Seq(CallFrames)
      /\ \A g \in Range(frames) : FrameFits(g, items)
      /\ timers \in Seq(Nat) /\ Len(timers) \in Nat /\ DelaysFit(delays, items)
  BY <1>3 DEF InOrder, Sound, FramesFit, TimersFit
<1>5. /\ B1 \in SUBSET B /\ O1 \in SUBSET C /\ O \in SUBSET C /\ e \notin B1 /\ e \notin O1
      /\ \A d \in B : d = e \/ d \in B1
      /\ \A d \in O : d = e \/ d \in O1
  BY <1>1, <1>2
<1>6. InOrder(queue, stopHook, finishing, items, timers, delays, frames, B1, O1)
  BY <1>3, <1>5, OrderLess
<1>7. InOrder(qu2, stopHook, finishing, items, timers, delays, frames, B1, O1)
  <2>1. CASE clear
    <3>1. PICK q : q = <<>>
      OBVIOUS
    <3>2. QueueFits(q, e, items, frames) /\ (q # <<>> => Head(q) = Sentinel)
      BY <3>1, EmptyFits
    <3>4. qu2 = SetAt(queue, e, q)
      BY <1>1, <2>1, <3>1
    <3>3. SetTo(qu2, queue, e, q)
      BY <1>6, <3>4, OrderTypes, OneSet
    <3> QED
      BY <1>5, <1>6, <3>2, <3>3, OrderQueue
  <2>2. CASE ~ clear
    BY <1>1, <1>6, <2>2
  <2> QED
    BY <2>1, <2>2
<1>8. InOrder(qu2, hk2, finishing, items, timers, delays, frames, B1, O1) /\ hk2[e] = 0
  <2>1. SetTo(hk2, stopHook, e, 0)
    BY <1>1, <1>6, OrderTypes, OneSet
  <2>2. InOrder(qu2, hk2, finishing, items, timers, delays, frames, B1, O1)
    BY <1>5, <1>7, <2>1, OrderHook
  <2> QED
    BY <2>1, <2>2 DEF SetTo
<1>9. hook \in delays => items[hook].elem = e /\ hook = stopHook[e]
  BY <1>1, <1>3, <1>4 DEF InOrder, Sound, HooksFit, DelaysFit
<1>10. /\ InOrder(qu2, hk2, finishing, its2, timers, dls2, frames, B1, O1)
       /\ Onward(items, its2, x) /\ Len(its2) = Len(items)
       /\ \A lst : TimersKept(items, timers, delays, lst) => TimersKept(its2, timers, dls2, lst)
       /\ \A q, k : Orderly(e, q, k, finishing, items, timers, delays, frames)
                      => Orderly(e, q, k, finishing, its2, timers, dls2, frames)
       /\ \A i \in dls2 : i \in delays /\ its2[i].elem = items[i].elem
  <2>1. Cancels(hook, items, delays, its2, x, dls2)
    BY <1>1 DEF Cancels
  <2> QED
    BY <1>5, <1>8, <1>9, <2>1, CancelInOrder
<1>11. PICK owes \in BOOLEAN : owes = (hook \in delays)
  <2>1. (hook \in delays) \in BOOLEAN
    OBVIOUS
  <2> QED
    BY <2>1
<1>12. /\ FrameFits(f, its2) /\ f \in CallFrames
       /\ f.op = "stop" /\ f.elem = e /\ f.at = Len(timers) /\ f.gotoEnd = gotoEnd /\ f.owes = owes
  <2>1. f = [op |-> "stop", elem |-> e, at |-> Len(timers), item |-> 0, gotoEnd |-> gotoEnd,
             dequeue |-> TRUE, owes |-> owes]
    BY <1>1, <1>11
  <2>2. Len(its2) \in Nat
    BY <1>4, <1>10
  <2> QED
    BY <1>4, <2>1, <2>2, StopFrame
<1>19. s = <<f>> \o frames
  BY <1>1
<1>13. Range(s) = {f} \cup Range(frames)
  BY <1>19, <1>4, <1>12, FrameBefore
<1>14. ASSUME e \in B PROVE Busy(e, qu2[e], its2, s)
  <2>1. CASE hook \in delays
    BY <1>11, <1>12, <1>13, <2>1 DEF Busy, Owing
  <2>2. CASE hook \notin delays
    <3>1. its2 = items
      BY <1>1, <2>2
    <3>2. Busy(e, queue[e], items, frames)
      BY <1>3, <1>14 DEF InOrder
    <3>3. qu2[e] # <<>> => queue[e] # <<>>
      BY <1>1, <1>3 DEF InOrder, Sound, QueuesFit, SetAt
    <3> QED
      BY <1>13, <3>1, <3>2, <3>3 DEF Busy
  <2> QED
    BY <2>1, <2>2
<1>15. ASSUME e \in O
       PROVE  OneOf(e, qu2[e], hk2[e], finishing, its2, timers, dls2, s)
  <2>1. (clear => queue[e] = <<>>) /\ NoneCompletes(frames, items, e)
    BY <1>1, <1>2, <1>15, CompletingNone
  <2>2. qu2[e] = queue[e]
    BY <1>1, <1>3, <2>1 DEF InOrder, Sound, QueuesFit, SetAt
  <2>3. Orderly(e, queue[e], stopHook[e], finishing, items, timers, delays, frames)
    BY <1>3, <1>5, <1>15 DEF InOrder
  <2>4. Orderly(e, qu2[e], stopHook[e], finishing, its2, timers, dls2, frames)
    BY <1>10, <2>2, <2>3
  <2>5. \A i \in dls2 : its2[i].elem # e
    <3>1. SUFFICES ASSUME NEW i \in dls2, items[i].elem = e, i \in delays PROVE FALSE
      BY <1>10
    <3>2. stopHook[e] = i /\ hook # i
      BY <1>1, <2>3, <3>1 DEF Orderly, HookKnown
    <3>3. clear
      BY <1>1, <3>2
    <3>4. Idle(e, finishing, items, timers, delays, frames)
      BY <2>1, <2>3, <3>3, EmptyIdle
    <3> QED
      BY <1>4, <3>1, <3>4, IdleOrderly
  <2>6. Orderly(e, qu2[e], hk2[e], finishing, its2, timers, dls2, frames)
    BY <2>4, <2>5 DEF Orderly, HookKnown
  <2>7. NoneCompletes(frames, its2, e)
    BY <1>4, <1>10, <2>1, CompletesOnward
  <2>8. \A n \in 1..Len(timers) : n <= f.at
    BY <1>4, <1>12
  <2> QED
    BY <1>4, <1>12, <1>19, <2>5, <2>6, <2>7, <2>8, StopOneOf
<1>16. TimersKept(its2, timers, dls2, lost)
  BY <1>10 DEF EffectsInv
<1>17. unqueued' \in [Animated -> Int] /\ finishing' \subseteq Animated /\ LoopTypes'
  BY <1>2, <1>3 DEF EffectsInv, EffectTypes, LoopTypes, LoopRuns
<1>18. AlsoApart(f, qu2, frames)
  BY <1>12 DEF AlsoApart
<1> QED
  <2>1. s = <<f>> \o frames /\ frames' = s /\ f.op \in {"stop", "finish"} /\ f.elem = e
        /\ B = Animated \ lost' /\ O = Animated \ cut'
    BY <1>1, <1>2, <1>12
  <2>2. /\ FrameFits(f, items') /\ AlsoApart(f, queue', frames)
        /\ InOrder(queue', stopHook', finishing', items', timers', delays', frames, B1, O1)
    BY <1>2, <1>10, <1>12, <1>18
  <2>3. e \in B => Busy(e, queue'[e], items', s)
    BY <1>2, <1>14
  <2>4. e \in O => OneOf(e, queue'[e], stopHook'[e], finishing', items', timers', delays', s)
    BY <1>2, <1>15
  <2>5. TimersKept(items', timers', delays', lost')
    BY <1>2, <1>16
  <2> QED
    <3>1. f.elem \in Animated /\ (\A d \in B : d = f.elem \/ d \in B1)
          /\ (\A d \in O : d = f.elem \/ d \in O1)
      BY <1>5, <2>1
    <3>2. f.elem \in B => Busy(f.elem, queue'[f.elem], items', s)
      BY <2>1, <2>3
    <3>3. f.elem \in O => OneOf(f.elem, queue'[f.elem], stopHook'[f.elem], finishing', items', timers', delays', s)
      BY <2>1, <2>4
    <3> QED
      BY <1>17, <2>1, <2>2, <2>5, <3>1, <3>2, <3>3, LoopKept

\* Another element is finishing.
LEMMA OrderFinishing ==
  ASSUME NEW qu, NEW hk, NEW fin, NEW its, NEW tms, NEW dls, NEW fr, NEW B, NEW O,
         InOrder(qu, hk, fin, its, tms, dls, fr, B, O), NEW fin2, \A e \in O : e \in fin2 => e \in fin
  PROVE  InOrder(qu, hk, fin2, its, tms, dls, fr, B, O)
  BY DEF InOrder, Orderly

\* finish(), up to its loop, keeps the invariant.
LEMMA FinishKeeps ==
  ASSUME EffectsInv, NEW e \in Animated, Finish(e)
  PROVE  EffectsInv'
<1>1. PICK q, hook, x, qu2, its2, dls2, fin2, f, s, B, O, B1, O1, C :
        /\ q = <<>> /\ hook = stopHook[e]
        /\ x = IF hook \in delays THEN hook ELSE 0
        /\ qu2 = SetAt(queue, e, q)
        /\ its2 = IF hook \in delays THEN StageOf(items, hook, "rejected") ELSE items
        /\ dls2 = delays \ {hook} /\ fin2 = finishing \cup {e}
        /\ f = [op |-> "finish", elem |-> e, at |-> Len(timers), item |-> 0, todo |-> queue[e]]
        /\ s = <<f>> \o frames
        /\ B = Animated \ lost /\ O = Animated \ cut'
        /\ B1 = B \ {e} /\ O1 = O \ {e} /\ C = Animated \ cut
  OBVIOUS
<1>2. /\ CanStop /\ queue' = qu2 /\ stopHook' = stopHook /\ delays' = dls2 /\ items' = its2
      /\ frames' = s /\ finishing' = fin2
      /\ cut' = IF queue[e] # <<>> \/ Completing(e) # {} THEN cut \cup {e} ELSE cut
      /\ unqueued' = unqueued /\ timers' = timers
      /\ inProgress' = inProgress /\ loops' = loops /\ lost' = lost
  BY <1>1 DEF Finish, CutsIn, StageOf, SetAt
<1>3. InOrder(queue, stopHook, finishing, items, timers, delays, frames, B, C) /\ LoopTypes
  BY <1>1, <1>2, PageInOrder DEF CanStop
<1>4. /\ items \in Seq(ItemRecords) /\ Len(items) \in Nat /\ frames \in Seq(CallFrames)
      /\ \A g \in Range(frames) : FrameFits(g, items)
      /\ timers \in Seq(Nat) /\ Len(timers) \in Nat /\ DelaysFit(delays, items)
      /\ QueueFits(queue[e], e, items, frames)
  BY <1>3 DEF InOrder, Sound, FramesFit, TimersFit, QueuesFit
<1>5. /\ B1 \in SUBSET B /\ O1 \in SUBSET C /\ O \in SUBSET C /\ e \notin B1 /\ e \notin O1
      /\ \A d \in B : d = e \/ d \in B1
      /\ \A d \in O : d = e \/ d \in O1
  BY <1>1, <1>2
<1>6. InOrder(queue, stopHook, finishing, items, timers, delays, frames, B1, O1)
  BY <1>3, <1>5, OrderLess
<1>7. hook \in delays => items[hook].elem = e
  BY <1>1, <1>3, <1>4 DEF InOrder, Sound, HooksFit, DelaysFit
<1>8. /\ InOrder(queue, stopHook, finishing, its2, timers, dls2, frames, B1, O1)
      /\ Onward(items, its2, x) /\ Len(its2) = Len(items)
      /\ \A lst : TimersKept(items, timers, delays, lst) => TimersKept(its2, timers, dls2, lst)
      /\ \A p, k : Orderly(e, p, k, finishing, items, timers, delays, frames)
                     => Orderly(e, p, k, finishing, its2, timers, dls2, frames)
      /\ \A i \in dls2 : i \in delays /\ its2[i].elem = items[i].elem
  <2>1. Cancels(hook, items, delays, its2, x, dls2)
    BY <1>1 DEF Cancels
  <2> QED
    BY <1>5, <1>6, <1>7, <2>1, CancelInOrder
<1>9. QueueFits(q, e, its2, frames) /\ (q # <<>> => Head(q) = Sentinel) /\ Range(q) = {}
  BY <1>1, EmptyFits
<1>10. InOrder(qu2, stopHook, finishing, its2, timers, dls2, frames, B1, O1) /\ qu2[e] = q
  <2>1. SetTo(qu2, queue, e, q)
    BY <1>1, <1>6, OrderTypes, OneSet
  <2>2. InOrder(qu2, stopHook, finishing, its2, timers, dls2, frames, B1, O1)
    BY <1>5, <1>8, <1>9, <2>1, OrderQueue
  <2> QED
    BY <2>1, <2>2 DEF SetTo
<1>11. InOrder(qu2, stopHook, fin2, its2, timers, dls2, frames, B1, O1)
  <2>1. \A d \in O1 : d \in fin2 => d \in finishing
    BY <1>1, <1>5
  <2> QED
    BY <1>10, <2>1, OrderFinishing
<1>12. QueueFits(queue[e], e, its2, frames)
  BY <1>8 DEF InOrder, Sound, QueuesFit
<1>13. /\ FrameFits(f, its2) /\ f \in CallFrames
       /\ f.op = "finish" /\ f.elem = e /\ f.at = Len(timers) /\ f.item = 0 /\ f.todo = queue[e]
  <2>1. Len(its2) \in Nat
    BY <1>4, <1>8
  <2> QED
    <3>1. /\ queue[e] \in Seq(Nat) /\ Once(queue[e])
          /\ \A i \in Range(queue[e]) : i = Sentinel \/ WaitsAt(its2, i, e)
      BY <1>12 DEF QueueFits
    <3>2. f = [op |-> "finish", elem |-> e, at |-> Len(timers), item |-> 0, todo |-> queue[e]]
      BY <1>1
    <3> QED
      BY <1>4, <2>1, <3>1, <3>2, FinishFrame
<1>14. AlsoApart(f, qu2, frames)
  <2>1. ASSUME NEW d \in Animated PROVE Apart(qu2[d], f.todo)
    <3>1. CASE d = e
      BY <1>9, <1>10, <3>1 DEF Apart
    <3>2. CASE d # e
      <4>1. qu2[d] = queue[d]
        BY <1>1, <1>3, <3>2 DEF InOrder, Sound, QueuesFit, SetAt
      <4>2. ASSUME NEW i \in Range(queue[d]), i \in Range(queue[e]) PROVE i = Sentinel
        <5>1. i = Sentinel \/ (WaitsAt(items, i, d) /\ WaitsAt(items, i, e))
          BY <1>3, <4>2 DEF InOrder, Sound, QueuesFit, QueueFits
        <5> QED
          BY <3>2, <5>1 DEF WaitsAt
      <4> QED
        BY <1>13, <4>1, <4>2 DEF Apart
    <3> QED
      BY <3>1, <3>2
  <2>2. \A g \in Range(frames) : g.op = "finish" => Apart(f.todo, g.todo)
    BY <1>12, <1>13 DEF QueueFits, NotToDo
  <2> QED
    BY <2>1, <2>2 DEF AlsoApart
<1>15. e \in B => Busy(e, qu2[e], its2, s)
  BY <1>1, <1>10 DEF Busy
<1>16. ASSUME e \in O
       PROVE  OneOf(e, qu2[e], stopHook[e], fin2, its2, timers, dls2, s)
  <2>1. queue[e] = <<>>
    BY <1>1, <1>2, <1>16
  <2>2. Orderly(e, queue[e], stopHook[e], finishing, items, timers, delays, frames)
    BY <1>3, <1>5, <1>16 DEF InOrder
  <2>3. Orderly(e, queue[e], stopHook[e], finishing, its2, timers, dls2, frames)
    BY <1>8, <2>2
  <2>4. Idle(e, finishing, its2, timers, dls2, frames)
    BY <2>1, <2>3, EmptyIdle
  <2>5. DelaysFit(dls2, its2)
    BY <1>10 DEF InOrder, Sound
  <2>6. f.todo = <<>> /\ f.at <= Len(timers) /\ qu2[e] = <<>>
    BY <1>1, <1>4, <1>10, <1>13, <2>1
  <2> QED
    BY <1>1, <1>4, <1>13, <2>4, <2>5, <2>6, FinishOneOf
<1>17. TimersKept(its2, timers, dls2, lost)
  BY <1>8 DEF EffectsInv
<1>18. unqueued' \in [Animated -> Int] /\ finishing' \subseteq Animated /\ LoopTypes'
  BY <1>1, <1>2, <1>3 DEF EffectsInv, EffectTypes, LoopTypes, LoopRuns
<1> QED
  <2>1. s = <<f>> \o frames /\ frames' = s /\ f.op \in {"stop", "finish"} /\ f.elem = e
        /\ B = Animated \ lost' /\ O = Animated \ cut'
    BY <1>1, <1>2, <1>13
  <2>2. /\ FrameFits(f, items') /\ AlsoApart(f, queue', frames)
        /\ InOrder(queue', stopHook', finishing', items', timers', delays', frames, B1, O1)
    BY <1>2, <1>11, <1>13, <1>18, <1>14
  <2>3. e \in B => Busy(e, queue'[e], items', s)
    BY <1>2, <1>15
  <2>4. e \in O => OneOf(e, queue'[e], stopHook'[e], finishing', items', timers', delays', s)
    BY <1>2, <1>16
  <2>5. TimersKept(items', timers', delays', lost')
    BY <1>2, <1>17
  <2> QED
    <3>1. f.elem \in Animated /\ (\A d \in B : d = f.elem \/ d \in B1)
          /\ (\A d \in O : d = f.elem \/ d \in O1)
      BY <1>5, <2>1
    <3>2. f.elem \in B => Busy(f.elem, queue'[f.elem], items', s)
      BY <2>1, <2>3
    <3>3. f.elem \in O => OneOf(f.elem, queue'[f.elem], stopHook'[f.elem], finishing', items', timers', delays', s)
      BY <2>1, <2>4
    <3> QED
      BY <1>18, <2>1, <2>2, <2>5, <3>1, <3>2, <3>3, LoopKept

-----------------------------------------------------------------------------
\* Calls that return, and throws.

\* A hook is taken while the queue is empty, or stays.
LEMMA OrderEnded ==
  ASSUME NEW qu, NEW hk, NEW fin, NEW its, NEW tms, NEW dls, NEW fr, NEW B, NEW O,
         InOrder(qu, hk, fin, its, tms, dls, fr, B, O), NEW e \in Animated,
         NEW h, h = hk[e] \/ (h = 0 /\ qu[e] = <<>>), NEW hk2, SetTo(hk2, hk, e, h)
  PROVE  InOrder(qu, hk2, fin, its, tms, dls, fr, B, O)
<1>1. CASE h = hk[e]
  <2>1. \A d \in Animated : hk2[d] = hk[d]
    BY <1>1 DEF SetTo
  <2>2. OnAnimated(hk) /\ OnAnimated(hk2)
    BY OrderTypes DEF SetTo
  <2>3. hk2 = hk
    BY <2>1, <2>2 DEF OnAnimated
  <2> QED
    BY <2>3
<1>2. CASE h = 0 /\ qu[e] = <<>>
  <2>1. PICK O1 : Without(O1, O, e)
    BY DEF Without
  <2>2. InOrder(qu, hk, fin, its, tms, dls, fr, B, O1)
    <3>1. B \in SUBSET B /\ O1 \in SUBSET O
      BY <2>1, WithoutOne
    <3> QED
      BY <3>1, OrderLess
  <2>3. InOrder(qu, hk2, fin, its, tms, dls, fr, B, O1)
    BY <1>2, <2>1, <2>2, WithoutOne, OrderHook
  <2>4. ASSUME e \in O PROVE Orderly(e, qu[e], hk2[e], fin, its, tms, dls, fr)
    <3>1. Orderly(e, qu[e], hk[e], fin, its, tms, dls, fr)
      BY <2>4 DEF InOrder
    <3>2. Idle(e, fin, its, tms, dls, fr)
      BY <1>2, <3>1, EmptyIdle
    <3>3. fr \in Seq(CallFrames) /\ DelaysFit(dls, its)
      BY DEF InOrder, Sound, FramesFit
    <3> QED
      BY <3>2, <3>3, IdleOrderly
  <2>5. e \in B => Busy(e, qu[e], its, fr)
    BY DEF InOrder
  <2>6. B \in SUBSET Animated /\ O \in SUBSET Animated
    BY DEF InOrder
  <2> QED
    BY <2>1, <2>3, <2>4, <2>5, <2>6, WithoutOne, OrderMore
<1> QED
  BY <1>1, <1>2

\* An animation of no queue has ended: what always() does with the hooks.
LEMMA EndedHook ==
  ASSUME NEW its, NEW fin, NEW tms, NEW dls, NEW fr, NEW B, NEW O,
         InOrder(queue, stopHook, fin, its, tms, dls, fr, B, O), NEW i,
         items[i].elem \in Animated, Ended(i), unqueued \in [Animated -> Int]
  PROVE  InOrder(queue, stopHook', fin, its, tms, dls, fr, B, O) /\ unqueued' \in [Animated -> Int]
<1>1. PICK e : e = items[i].elem
  OBVIOUS
<1>2. CASE InQueue(i)
  BY <1>2 DEF Ended
<1>3. CASE ~ InQueue(i)
  <2>1. PICK h, hk2 : /\ h = IF unqueued[e] = 1 /\ queue[e] = <<>> THEN 0 ELSE stopHook[e]
                      /\ hk2 = SetAt(stopHook, e, h)
    OBVIOUS
  <2>2. stopHook' = hk2 /\ unqueued' = [unqueued EXCEPT ![e] = @ - 1]
    BY <1>1, <1>3, <2>1 DEF Ended, ElemOf, SetAt
  <2>3. SetTo(hk2, stopHook, e, h)
    BY <1>1, <2>1, OrderTypes, OneSet
  <2>4. h = stopHook[e] \/ (h = 0 /\ queue[e] = <<>>)
    BY <2>1
  <2>5. InOrder(queue, hk2, fin, its, tms, dls, fr, B, O)
    BY <1>1, <2>3, <2>4, OrderEnded
  <2> QED
    BY <1>1, <2>2, <2>5
<1> QED
  BY <1>2, <1>3

\* The elements that the page has not given up.
LEMMA NotGivenUp ==
  ASSUME NEW B, NotLost(B), NEW O, NotCut(O)
  PROVE  /\ B \in SUBSET Animated /\ O \in SUBSET Animated
         /\ B \in SUBSET (Animated \ lost) /\ O \in SUBSET (Animated \ cut)
         /\ (lost' = lost => B = Animated \ lost') /\ (cut' = cut => O = Animated \ cut')
  BY DEF NotLost, NotCut

\* A complete callback that returns, and dequeues, keeps the invariant.
LEMMA CompleteReturnsKeeps ==
  ASSUME EffectsInv, CompleteReturns
  PROVE  EffectsInv'
<1>1. PICK f, i, e, r, B, O : /\ f = Head(frames) /\ i = f.item /\ e = items[i].elem /\ r = Outer
                              /\ NotLost(B) /\ NotCut(O)
  BY DEF NotLost, NotCut
<1>2. /\ frames # <<>> /\ f.op = "complete" /\ In("complete")
      /\ finishing' = finishing /\ cut' = cut /\ lost' = lost
  BY <1>1 DEF CompleteReturns, In
<1>3. /\ B \in SUBSET Animated /\ O \in SUBSET Animated
      /\ B \in SUBSET (Animated \ lost) /\ O \in SUBSET (Animated \ cut)
      /\ B = Animated \ lost' /\ O = Animated \ cut'
  BY <1>1, <1>2, NotGivenUp
<1>4. /\ Sound(queue, stopHook, items, timers, delays, frames)
      /\ items \in Seq(ItemRecords) /\ frames \in Seq(CallFrames)
      /\ FrameFits(f, items) /\ r \in Seq(CallFrames) /\ r = Tail(frames)
      /\ finishing \subseteq Animated /\ unqueued \in [Animated -> Int]
  BY <1>1, <1>2, SoundPop DEF EffectsInv, EffectTypes, Sound, FramesFit, Outer
<1>5. i \in 1..Len(items) /\ e \in Animated
  <2>1. i \in 1..Len(items)
    BY <1>1, <1>2, <1>4 DEF FrameFits
  <2> QED
    BY <1>1, <1>4, <2>1, ItemTypes
<1>6. CASE items[i].kind = "unqueued"
  <2>1. ~ InQueue(i) /\ Ended(i) /\ frames' = r
        /\ queue' = queue /\ items' = items /\ timers' = timers /\ delays' = delays
        /\ inProgress' = inProgress /\ loops' = loops
    BY <1>1, <1>6 DEF CompleteReturns, InQueue
  <2>2. /\ \A d \in B : ~ Completes(Head(frames), items, d) /\ ~ Owing(Head(frames), d)
        /\ \A d \in O : ~ (Head(frames).op = "finish" /\ Head(frames).elem = d)
    BY <1>1, <1>2, <1>6 DEF Completes, Owing
  <2>3. InOrder(queue, stopHook, finishing, items, timers, delays, r, B, O) /\ LoopTypes
    BY <1>1, <1>2, <1>3, <2>2, BehindInOrder
  <2>4. InOrder(queue, stopHook', finishing, items, timers, delays, r, B, O)
        /\ unqueued' \in [Animated -> Int]
    BY <1>1, <1>4, <1>5, <2>1, <2>3, EndedHook
  <2>5. LoopTypes' /\ TimersKept(items, timers, delays, lost)
    BY <2>1, <2>3 DEF EffectsInv, LoopTypes, LoopRuns
  <2> QED
    BY <1>2, <1>3, <1>4, <2>1, <2>4, <2>5, OrderKept
<1>7. CASE items[i].kind # "unqueued"
  <2>1. /\ Dequeue(e, queue[e], items, delays, r) /\ unqueued' = unqueued
    BY <1>1, <1>7 DEF CompleteReturns, InQueue, ElemOf
  <2>2. PICK B1, O1 : Without(B1, B, e) /\ Without(O1, O, e)
    BY DEF Without
  <2>3. /\ \A d \in B1 : ~ Completes(Head(frames), items, d) /\ ~ Owing(Head(frames), d)
        /\ \A d \in O : ~ (Head(frames).op = "finish" /\ Head(frames).elem = d)
        /\ Completes(f, items, e)
    BY <1>1, <1>2, <1>7, <2>2 DEF Completes, Owing, Without
  <2>4. B1 \in SUBSET B /\ e \notin B1 /\ O1 \in SUBSET O /\ e \notin O1
        /\ (\A d \in B : d = e \/ d \in B1) /\ (\A d \in O : d = e \/ d \in O1)
    BY <2>2, WithoutOne
  <2>5. InOrder(queue, stopHook, finishing, items, timers, delays, r, B1, O) /\ LoopTypes
    <3>1. B1 \in SUBSET (Animated \ lost)
      BY <1>3, <2>4
    <3> QED
      BY <1>1, <1>2, <1>3, <2>3, <3>1, BehindInOrder
  <2>6. ASSUME e \in O PROVE Idle(e, finishing, items, timers, delays, r)
    <3>1. Orderly(e, queue[e], stopHook[e], finishing, items, timers, delays, r)
      BY <2>5, <2>6 DEF InOrder
    <3>2. Alone(e, queue[e], items, timers, delays, frames)
      BY <1>3, <2>6 DEF EffectsInv, OneOf
    <3>3. OneCompletes(frames, items, e)
      BY <3>2 DEF Alone
    <3>4. ~ NoneCompletes(frames, items, e) /\ NoneCompletes(r, items, e)
      BY <1>1, <1>2, <1>4, <2>3, <3>3, CompletesBehind
    <3> QED
      BY <3>1, <3>2, <3>4 DEF Idle, Orderly, Alone
  <2>7. InOrder(queue, stopHook, finishing, items, timers, delays, r, B1, O1)
    <3>1. B1 \in SUBSET B1
      OBVIOUS
    <3> QED
      BY <2>4, <2>5, <3>1, OrderLess
  <2>8. QueueFits(queue[e], e, items, r) /\ (Sentinel \in Range(queue[e]) => Head(queue[e]) = Sentinel)
    BY <1>5, <2>5, QueueBegins
  <2>9. TimersKept(items, timers, delays, lost)
    BY DEF EffectsInv
  <2>10. PICK q : q = queue[e]
    OBVIOUS
  <2>11. /\ InOrder(queue', stopHook', finishing, items', timers', delays', frames', B, O)
         /\ LoopTypes' /\ TimersKept(items', timers', delays', lost)
    <3>1. /\ LoopTypes /\ e \in Animated /\ B \in SUBSET Animated /\ O \in SUBSET Animated
          /\ e \notin B1 /\ e \notin O1
          /\ (\A d \in B : d = e \/ d \in B1) /\ (\A d \in O : d = e \/ d \in O1)
      BY <1>3, <1>5, <2>4, <2>5
    <3>2. /\ Dequeue(e, q, items, delays, r) /\ QueueFits(q, e, items, r)
          /\ (Sentinel \in Range(q) => Head(q) = Sentinel)
      BY <2>1, <2>8, <2>10
    <3> QED
      BY <2>6, <2>7, <2>9, <3>1, <3>2, DequeueInOrder
  <2> QED
    BY <1>2, <1>3, <1>4, <2>1, <2>11, OrderKept
<1> QED
  BY <1>6, <1>7

\* A throw: no call goes on, and none is finishing an element not given up.
LEMMA ThrowKeeps ==
  ASSUME EffectsInv, Throw, NEW O, NotCut(O),
         \A e \in O : ~ IdleFinish(e, queue[e], finishing, timers, frames)
  PROVE  EffectsInv'
<1>1. PICK s, B : s = <<>> /\ B = Animated \ lost'
  OBVIOUS
<1>2. /\ frames' = s /\ queue' = queue /\ stopHook' = stopHook /\ unqueued' = unqueued
      /\ finishing' = finishing /\ items' = items /\ timers' = timers /\ delays' = delays
      /\ inProgress' = inProgress /\ loops' = loops /\ cut' = cut
      /\ lost' = lost \cup GivenUp
  BY <1>1 DEF Throw
<1>3. /\ Sound(queue, stopHook, items, timers, delays, frames)
      /\ items \in Seq(ItemRecords) /\ frames \in Seq(CallFrames)
  BY DEF EffectsInv, Sound, FramesFit
<1>4. /\ s \in Seq(CallFrames) /\ Len(s) = 0 /\ Range(s) = {}
  <2>1. s \in Seq(CallFrames) /\ Len(s) = 0
    BY <1>1
  <2> QED
    BY <1>1, <2>1, HeldBySeq
<1>5. Sound(queue, stopHook, items, timers, delays, s)
  <2>1. FramesFit(s, items) /\ TodosApart(s)
    BY <1>4 DEF FramesFit, TodosApart
  <2>2. QueuesFit(queue, items, s)
    BY <1>3, <1>4 DEF Sound, QueuesFit, QueueFits, NotToDo
  <2> QED
    BY <1>3, <2>1, <2>2 DEF Sound
<1>6. ASSUME NEW e \in B PROVE Busy(e, queue[e], items, s)
  <2>1. SUFFICES ASSUME queue[e] # <<>> PROVE \E i \in 1..Len(items) : Up(items, i, e)
    BY DEF Busy
  <2>2. e \in Animated /\ e \notin lost /\ e \notin GivenUp
    BY <1>1, <1>2, <1>6
  <2>3. Busy(e, queue[e], items, frames)
    BY <2>2 DEF EffectsInv
  <2>4. ASSUME NEW f \in Range(frames) PROVE ~ Completes(f, items, e) /\ ~ Owing(f, e)
    <3>1. PICK k \in 1..Len(frames) : frames[k] = f
      BY <1>3, HeldBySeq
    <3>2. f.op = "complete" => items[f.item].elem \in GivenUp
      BY <3>1 DEF GivenUp, ElemOf
    <3>3. f.op = "stop" => f.elem \in GivenUp
      BY <3>1 DEF GivenUp
    <3> QED
      BY <2>2, <3>2, <3>3 DEF Completes, Owing
  <2> QED
    BY <2>1, <2>3, <2>4 DEF Busy
<1>7. ASSUME NEW e \in O
      PROVE  Orderly(e, queue[e], stopHook[e], finishing, items, timers, delays, s)
  <2>1. OneOf(e, queue[e], stopHook[e], finishing, items, timers, delays, frames)
    BY <1>7 DEF EffectsInv, NotCut
  <2>2. OneCompletes(s, items, e) /\ NoneCompletes(s, items, e) /\ NoFinish(e, s)
    BY <1>4 DEF OneCompletes, NoneCompletes, NoFinish
  <2>3. Alone(e, queue[e], items, timers, delays, s)
    BY <2>1, <2>2 DEF OneOf, Alone
  <2> QED
    BY <2>1, <2>2, <2>3 DEF OneOf, Orderly
<1>8. InOrder(queue, stopHook, finishing, items, timers, delays, s, B, O)
  <2>1. AllSpare(s) /\ B \subseteq Animated /\ O \subseteq Animated
    BY <1>1, <1>4 DEF AllSpare, NotCut
  <2> QED
    BY <1>5, <1>6, <1>7, <2>1 DEF InOrder, EffectsInv, SentinelFirst
<1>9. TimersKept(items, timers, delays, lost')
  BY <1>2 DEF EffectsInv, TimersKept, KeepsTimer
<1>10. LoopTypes' /\ unqueued' \in [Animated -> Int] /\ finishing' \subseteq Animated
  BY <1>2 DEF EffectsInv, EffectTypes, LoopTypes, LoopRuns
<1>11. O = Animated \ cut'
  BY <1>2 DEF NotCut
<1> QED
  BY <1>1, <1>2, <1>8, <1>9, <1>10, <1>11, OrderKept

\* A complete callback that throws keeps it.
LEMMA CompleteThrowsKeeps ==
  ASSUME EffectsInv, CompleteThrows
  PROVE  EffectsInv'
<1>1. PICK O : NotCut(O)
  BY DEF NotCut
<1>2. \A e \in O : ~ IdleFinish(e, queue[e], finishing, timers, frames)
  BY DEF CompleteThrows, In, IdleFinish
<1> QED
  BY <1>1, <1>2, ThrowKeeps DEF CompleteThrows

\* The TypeError of a loop whose timer is missing keeps it.
LEMMA TimerMissingKeeps ==
  ASSUME EffectsInv, TimerMissing
  PROVE  EffectsInv'
<1>1. PICK O : NotCut(O)
  BY DEF NotCut
<1>2. timers \in Seq(Nat) /\ frames \in Seq(CallFrames) /\ frames # <<>>
  BY DEF EffectsInv, Sound, TimersFit, FramesFit, TimerMissing, In
<1>3. PICK f, n : f = Head(frames) /\ n = Len(timers)
  OBVIOUS
<1>4. n \in Nat /\ f.at \in Nat /\ f.at > n
  <2>1. f \in CallFrames /\ f.op \in {"stop", "finish"} /\ f.at > n
    BY <1>2, <1>3 DEF TimerMissing, In
  <2>2. f.at \in Nat
    BY <2>1 DEF CallFrames, CompleteFrames, CreateFrames, TickFrames, StopFrames, FinishFrames
  <2> QED
    BY <1>2, <1>3, <2>1, <2>2
<1>5. ~ (f.at <= n)
  BY <1>4
<1>6. \A e \in O : ~ IdleFinish(e, queue[e], finishing, timers, frames)
  BY <1>3, <1>5 DEF IdleFinish
<1> QED
  BY <1>1, <1>6, ThrowKeeps DEF TimerMissing

\* doAnimation() returns.
LEMMA CreatedKeeps ==
  ASSUME EffectsInv, Created
  PROVE  EffectsInv'
<1>1. PICK f, i, e, r, B, O : /\ f = Head(frames) /\ i = f.item /\ e = items[i].elem /\ r = Outer
                              /\ NotLost(B) /\ NotCut(O)
  BY DEF NotLost, NotCut
<1>2. /\ frames # <<>> /\ f.op = "create"
      /\ queue' = queue /\ finishing' = finishing /\ timers' = timers /\ delays' = delays
      /\ inProgress' = inProgress /\ loops' = loops /\ cut' = cut /\ lost' = lost
  BY <1>1 DEF Created, In
<1>3. /\ B \in SUBSET Animated /\ O \in SUBSET Animated
      /\ B \in SUBSET (Animated \ lost) /\ O \in SUBSET (Animated \ cut)
      /\ B = Animated \ lost' /\ O = Animated \ cut'
  BY <1>1, <1>2, NotGivenUp
<1>4. /\ items \in Seq(ItemRecords) /\ FrameFits(f, items)
      /\ finishing' \subseteq Animated /\ unqueued \in [Animated -> Int]
  BY <1>1, <1>2, SoundPop DEF EffectsInv, EffectTypes, Sound
<1>5. i \in 1..Len(items) /\ items[i].kind # "delay" /\ e \in Animated
  <2>1. i \in 1..Len(items) /\ items[i].kind # "delay"
    BY <1>1, <1>2, <1>4 DEF FrameFits
  <2> QED
    BY <1>1, <1>4, <2>1, ItemTypes
<1>6. InOrder(queue, stopHook, finishing, items, timers, delays, r, B, O) /\ LoopTypes
  <2>1. /\ \A d \in B : ~ Completes(Head(frames), items, d) /\ ~ Owing(Head(frames), d)
        /\ \A d \in O : ~ (Head(frames).op = "finish" /\ Head(frames).elem = d)
    BY <1>1, <1>2 DEF Completes, Owing
  <2> QED
    BY <1>1, <1>2, <1>3, <2>1, BehindInOrder
<1>7. LoopTypes' /\ TimersKept(items, timers, delays, lost)
  BY <1>2, <1>6 DEF EffectsInv, LoopTypes, LoopRuns
<1>8. CASE ~ (Running(i) /\ (items[i].kind = "empty" \/ ElemOf(i) \in finishing))
  <2>1. frames' = r /\ items' = items /\ unqueued' = unqueued /\ stopHook' = stopHook
    BY <1>1, <1>8 DEF Created
  <2> QED
    BY <1>2, <1>3, <1>4, <1>6, <1>7, <2>1, OrderKept
<1>9. CASE Running(i) /\ (items[i].kind = "empty" \/ ElemOf(i) \in finishing)
  <2>1. PICK its2, r2, B1, st : /\ its2 = StageOf(items, i, st) /\ st = "resolved"
                                /\ r2 = <<CompleteFrame(i)>> \o r /\ Without(B1, B, e)
    BY DEF Without
  <2>2. frames' = r2 /\ items' = its2 /\ unqueued' = unqueued /\ stopHook' = stopHook
    BY <1>1, <1>9, <2>1 DEF Created, Resolve, StageOf
  <2>3. e \notin O
    BY <1>1, <1>5, <1>6, <1>9 DEF InOrder, Orderly, NoEmpty, ElemOf
  <2>4. B1 \in SUBSET B /\ e \notin B1 /\ \A d \in B : d = e \/ d \in B1
    BY <2>1, WithoutOne
  <2>5. Ends(its2, items, i, e, st)
    BY <1>1, <1>5, <1>9, <2>1 DEF Running, Over, Ends
  <2>6. /\ InOrder(queue, stopHook, finishing, its2, timers, delays, r, B1, O)
        /\ items[i].kind = "unqueued" => InOrder(queue, stopHook, finishing, its2, timers, delays, r, B, O)
        /\ Onward(items, its2, i) /\ Len(its2) = Len(items) /\ i \in 1..Len(its2)
        /\ its2[i].stage = st /\ its2[i].elem = e /\ its2[i].kind = items[i].kind
    BY <1>6, <2>3, <2>4, <2>5, OrderEnds
  <2>7. InOrder(queue, stopHook, finishing, its2, timers, delays, r2, B, O)
    <3>1. CompletesNext(r2, r, its2, i, e)
      BY <2>1, <2>6 DEF CompletesNext
    <3> QED
      BY <1>3, <1>5, <2>1, <2>3, <2>6, <3>1, OrderCompletes
  <2>8. TimersKept(its2, timers, delays, lost)
    BY <1>7, <2>1, <2>6, TimersOnward
  <2> QED
    BY <1>2, <1>3, <1>4, <1>7, <2>2, <2>7, <2>8, OrderKept
<1> QED
  BY <1>8, <1>9

-----------------------------------------------------------------------------
\* The browser.

\* A frame keeps the invariant.
LEMMA FrameKeeps ==
  ASSUME EffectsInv, Frame
  PROVE  EffectsInv'
<1>1. PICK B, O, s : NotLost(B) /\ NotCut(O) /\ s = <<>>
  BY DEF NotLost, NotCut
<1>2. /\ frames = s /\ loops > 0 /\ PageCode
      /\ queue' = queue /\ stopHook' = stopHook /\ unqueued' = unqueued /\ finishing' = finishing
      /\ items' = items /\ timers' = timers /\ delays' = delays /\ inProgress' = inProgress
      /\ cut' = cut /\ lost' = lost
      /\ IF inProgress THEN loops' = loops /\ frames' = <<TickFrame(1)>>
                       ELSE loops' = loops - 1 /\ frames' = s
  BY <1>1 DEF Frame, PageCode
<1>3. B = Animated \ lost' /\ O = Animated \ cut' /\ B = Animated \ lost /\ O = Animated \ cut
  BY <1>1, <1>2, NotGivenUp DEF NotLost, NotCut
<1>4. InOrder(queue, stopHook, finishing, items, timers, delays, s, B, O) /\ LoopTypes
  BY <1>2, <1>3, PageInOrder
<1>5. TimersKept(items, timers, delays, lost) /\ unqueued' \in [Animated -> Int]
      /\ finishing' \subseteq Animated
  BY <1>2 DEF EffectsInv, EffectTypes
<1>6. CASE inProgress
  <2>1. PICK f, r2 : f = TickFrame(1) /\ r2 = <<f>> \o s
    OBVIOUS
  <2>2. f.op = "tick" /\ FrameFits(f, items)
    <3>1. /\ f \in TickFrames /\ f.op = "tick" /\ f.item = 0
      BY <2>1 DEF TickFrame, TickFrames
    <3>2. Len(items) \in Nat
      BY <1>4 DEF InOrder, Sound
    <3> QED
      BY <3>1, <3>2 DEF FrameFits, CallFrames
  <2>3. InOrder(queue, stopHook, finishing, items, timers, delays, r2, B, O)
    <3>1. AlsoApart(f, queue, s) /\ \A e \in O : ~ Completes(f, items, e)
      BY <2>2 DEF AlsoApart, Completes
    <3> QED
      BY <1>4, <2>1, <2>2, <3>1, OrderPush
  <2>4. r2 = <<f>>
    BY <1>1, <2>1
  <2>5. frames' = r2 /\ LoopTypes'
    BY <1>2, <1>4, <1>6, <2>1, <2>4 DEF LoopTypes, LoopRuns
  <2> QED
    BY <1>2, <1>3, <1>5, <2>3, <2>5, OrderKept
<1>7. CASE ~ inProgress
  <2>1. frames' = s /\ LoopTypes'
    BY <1>2, <1>4, <1>7 DEF LoopTypes, LoopRuns
  <2> QED
    BY <1>2, <1>3, <1>4, <1>5, <2>1, OrderKept
<1> QED
  BY <1>6, <1>7

\* A delay that ends, and dequeues, keeps the invariant.
LEMMA DelayEndsKeeps ==
  ASSUME EffectsInv, NEW i \in delays, DelayEnds(i)
  PROVE  EffectsInv'
<1>1. PICK B, O, s, e, its2, dls2, st, B1, O1, q :
        /\ NotLost(B) /\ NotCut(O) /\ s = <<>> /\ e = items[i].elem /\ q = queue[e]
        /\ st = "resolved" /\ its2 = StageOf(items, i, st) /\ dls2 = delays \ {i}
        /\ Without(B1, B, e) /\ Without(O1, O, e)
  BY DEF NotLost, NotCut, Without
<1>2. /\ frames = s /\ PageCode /\ Dequeue(e, q, its2, dls2, s)
      /\ unqueued' = unqueued /\ finishing' = finishing /\ cut' = cut /\ lost' = lost
  BY <1>1 DEF DelayEnds, PageCode, ElemOf, StageOf
<1>3. B = Animated \ lost' /\ O = Animated \ cut' /\ B = Animated \ lost /\ O = Animated \ cut
      /\ B \in SUBSET Animated /\ O \in SUBSET Animated
  BY <1>1, <1>2, NotGivenUp DEF NotLost, NotCut
<1>4. InOrder(queue, stopHook, finishing, items, timers, delays, s, B, O) /\ LoopTypes
  BY <1>2, <1>3, PageInOrder
<1>5. B1 \in SUBSET B /\ e \notin B1 /\ O1 \in SUBSET O /\ e \notin O1
      /\ (\A d \in B : d = e \/ d \in B1) /\ (\A d \in O : d = e \/ d \in O1)
  BY <1>1, WithoutOne
<1>6. /\ items \in Seq(ItemRecords) /\ i \in 1..Len(items) /\ items[i].kind = "delay"
      /\ items[i].stage = "running" /\ TimersFit(timers, items)
      /\ Sound(queue, stopHook, items, timers, delays, s)
  BY <1>4 DEF InOrder, Sound, DelaysFit
<1>7. Onward(items, its2, i) /\ Len(its2) = Len(items) /\ its2[i].stage = st /\ e \in Animated
  <2>1. st \in {"waiting", "running", "resolved", "rejected"} /\ st \in Over
    BY <1>1 DEF Over
  <2> QED
    BY <1>1, <1>6, <2>1, StageOnward, ItemTypes
<1>8. InOrder(queue, stopHook, finishing, its2, timers, dls2, s, B1, O1)
  <2>1. InOrder(queue, stopHook, finishing, items, timers, delays, s, B1, O1)
    BY <1>4, <1>5, OrderLess
  <2>2. \A d \in B1 : ~ Up(items, i, d)
    BY <1>1, <1>5 DEF Up
  <2>3. Unplaced(i, queue, s)
    BY <1>6, StartedUnplaced
  <2>4. dls2 \in SUBSET delays /\ i \notin dls2 /\ Range(timers) \subseteq Range(timers)
        /\ its2[i].stage # "running"
    BY <1>1, <1>7
  <2> QED
    BY <1>6, <1>7, <2>1, <2>2, <2>3, <2>4, OrderOnward
<1>9. ASSUME e \in O PROVE Idle(e, finishing, its2, timers, dls2, s)
  <2>1. Orderly(e, queue[e], stopHook[e], finishing, items, timers, delays, s)
    BY <1>4, <1>9 DEF InOrder
  <2>2. OnWay(items, timers, delays, i, e)
    BY <1>1, <1>6 DEF OnWay, Up
  <2>3. NoneOnWay(its2, timers, dls2, e)
    <3>1. SUFFICES ASSUME NEW j \in 1..Len(its2), OnWay(its2, timers, dls2, j, e) PROVE FALSE
      BY DEF NoneOnWay
    <3>2. j # i
      BY <1>1, <1>7, <3>1 DEF OnWay, Up
    <3>3. j \in 1..Len(items) /\ its2[j] = items[j]
      BY <1>7, <3>1, <3>2 DEF Onward
    <3>4. OnWay(items, timers, delays, j, e)
      BY <1>1, <3>1, <3>3 DEF OnWay, Up
    <3> QED
      BY <1>6, <2>1, <2>2, <3>2, <3>3, <3>4 DEF Orderly, Alone
  <2>4. NoneCompletes(s, its2, e)
    <3>1. Range(s) = {}
      BY <1>1, EmptyFits
    <3> QED
      BY <3>1 DEF NoneCompletes
  <2>5. NoEmpty(e, its2)
    BY <1>7, <2>1 DEF Orderly, NoEmpty, Onward
  <2> QED
    BY <2>1, <2>3, <2>4, <2>5 DEF Orderly, Idle
<1>10. QueueFits(q, e, its2, s) /\ (Sentinel \in Range(q) => Head(q) = Sentinel)
  BY <1>1, <1>7, <1>8, QueueBegins
<1>11. TimersKept(its2, timers, dls2, lost)
  <2>1. TimersKept(items, timers, delays, lost)
    BY DEF EffectsInv
  <2>2. \A j \in 1..Len(items) : j # i /\ j \in delays => j \in dls2
    BY <1>1
  <2> QED
    BY <1>1, <1>7, <2>1, <2>2 DEF TimersKept, KeepsTimer, Onward
<1>12. /\ InOrder(queue', stopHook', finishing, items', timers', delays', frames', B, O)
       /\ LoopTypes' /\ TimersKept(items', timers', delays', lost)
  <2>1. Dequeue(e, q, its2, dls2, s) /\ LoopTypes /\ B \in SUBSET Animated /\ O \in SUBSET Animated
    BY <1>2, <1>3, <1>4
  <2> QED
    BY <1>5, <1>7, <1>8, <1>9, <1>10, <1>11, <2>1, DequeueInOrder
<1>13. unqueued' \in [Animated -> Int] /\ finishing' \subseteq Animated
  BY <1>2 DEF EffectsInv, EffectTypes
<1> QED
  BY <1>2, <1>3, <1>12, <1>13, OrderKept

-----------------------------------------------------------------------------
\* The frame loop.

\* A tick goes on, at k, with item i.
TickAt(f, k, i) == [f EXCEPT !.at = k, !.item = i]
\* The frame of a tick fits wherever it goes on.
LEMMA TickGoes ==
  ASSUME NEW its, Len(its) \in Nat, NEW f \in CallFrames, f.op = "tick", NEW k \in Nat \ {0},
         NEW i, i = 0 \/ (i \in 1..Len(its) /\ its[i].stage \in Over), NEW g, g = TickAt(f, k, i)
  PROVE  FrameFits(g, its) /\ g.op = "tick" /\ g \in CallFrames
<1>1. f \in TickFrames
  BY DEF CallFrames, CompleteFrames, CreateFrames, TickFrames, StopFrames, FinishFrames
<1>2. i \in Nat /\ i \in 0..Len(its)
  OBVIOUS
<1>3. g \in TickFrames /\ g.op = "tick" /\ g.item = i
  BY <1>1, <1>2 DEF TickAt, TickFrames
<1> QED
  BY <1>2, <1>3 DEF FrameFits, CallFrames

\* The frames with a tick before them.
Before(fr2, f, fr) == fr2 = <<f>> \o fr
\* A tick goes on: all is in order still.
LEMMA OrderTicks ==
  ASSUME NEW qu, NEW hk, NEW fin, NEW its, NEW tms, NEW dls, NEW fr, NEW B, NEW O,
         InOrder(qu, hk, fin, its, tms, dls, fr, B, O), NEW f, FrameFits(f, its), f.op = "tick",
         NEW fr2, Before(fr2, f, fr)
  PROVE  InOrder(qu, hk, fin, its, tms, dls, fr2, B, O)
<1>1. AlsoApart(f, qu, fr) /\ \A e \in O : ~ Completes(f, its, e)
  BY DEF AlsoApart, Completes
<1> QED
  BY <1>1, OrderPush DEF Before

\* A step of fx.tick() keeps the invariant.
LEMMA TickKeeps ==
  ASSUME EffectsInv, Tick
  PROVE  EffectsInv'
<1>1. PICK f, r, t, n, B, O : /\ f = Head(frames) /\ r = Outer /\ t = timers[f.at]
                              /\ n = Len(timers) /\ NotLost(B) /\ NotCut(O)
  BY DEF NotLost, NotCut
<1>2. /\ frames # <<>> /\ f.op = "tick"
      /\ queue' = queue /\ finishing' = finishing /\ delays' = delays
      /\ loops' = loops /\ cut' = cut /\ lost' = lost
  BY <1>1 DEF Tick, In
<1>3. /\ B \in SUBSET Animated /\ O \in SUBSET Animated
      /\ B \in SUBSET (Animated \ lost) /\ O \in SUBSET (Animated \ cut)
      /\ B = Animated \ lost' /\ O = Animated \ cut'
  BY <1>1, <1>2, NotGivenUp
<1>4. /\ items \in Seq(ItemRecords) /\ FrameFits(f, items) /\ TimersFit(timers, items)
      /\ finishing' \subseteq Animated /\ unqueued \in [Animated -> Int] /\ Len(items) \in Nat
  <2>1. Sound(queue, stopHook, items, timers, delays, frames)
    BY DEF EffectsInv
  <2>2. items \in Seq(ItemRecords) /\ TimersFit(timers, items)
    BY <2>1 DEF Sound
  <2>3. FrameFits(f, items)
    BY <1>1, <1>2, <2>1, SoundPop
  <2> QED
    BY <1>2, <2>2, <2>3 DEF EffectsInv, EffectTypes
<1>5. /\ f \in CallFrames /\ f.at \in Nat \ {0} /\ n \in Nat /\ timers \in Seq(Nat)
      /\ f.item = 0 \/ (f.item \in 1..Len(items) /\ items[f.item].stage \in Over)
  <2>1. f \in CallFrames
    BY <1>4 DEF FrameFits
  <2>2. f.at \in Nat \ {0}
    BY <1>2, <2>1 DEF CallFrames, CompleteFrames, CreateFrames, TickFrames, StopFrames, FinishFrames
  <2>3. f.item = 0 \/ (f.item \in 1..Len(items) /\ items[f.item].stage \in Over)
    BY <1>2, <1>4 DEF FrameFits
  <2> QED
    BY <1>1, <1>4, <2>1, <2>2, <2>3 DEF TimersFit
<1>6. InOrder(queue, stopHook, finishing, items, timers, delays, r, B, O) /\ LoopTypes
  <2>1. /\ \A d \in B : ~ Completes(Head(frames), items, d) /\ ~ Owing(Head(frames), d)
        /\ \A d \in O : ~ (Head(frames).op = "finish" /\ Head(frames).elem = d)
    BY <1>1, <1>2 DEF Completes, Owing
  <2> QED
    BY <1>1, <1>2, <1>3, <2>1, BehindInOrder
<1>7. TimersKept(items, timers, delays, lost)
  BY DEF EffectsInv
<1>8. CASE /\ f.item = 0 /\ f.at > Len(timers)
           /\ inProgress' = (timers # <<>>) /\ frames' = r
           /\ UNCHANGED <<items, timers, unqueued, stopHook>>
  <2>1. LoopTypes'
    BY <1>2, <1>6, <1>8 DEF LoopTypes, LoopRuns
  <2> QED
    BY <1>2, <1>3, <1>4, <1>6, <1>7, <1>8, <2>1, OrderKept
<1>9. ASSUME NEW k \in Nat \ {0}, NEW i, i = 0 \/ (i \in 1..Len(items) /\ items[i].stage \in Over),
             NEW g, g = TickAt(f, k, i), NEW r2, Before(r2, g, r), frames' = r2,
             UNCHANGED <<items, timers, inProgress, unqueued, stopHook>>
      PROVE  EffectsInv'
  <2>1. FrameFits(g, items) /\ g.op = "tick"
    BY <1>2, <1>4, <1>5, <1>9, TickGoes
  <2>2. InOrder(queue, stopHook, finishing, items, timers, delays, r2, B, O)
    BY <1>6, <1>9, <2>1, OrderTicks
  <2>3. LoopTypes'
    BY <1>2, <1>6, <1>9 DEF LoopTypes, LoopRuns
  <2> QED
    BY <1>2, <1>3, <1>4, <1>7, <1>9, <2>2, <2>3, OrderKept
<1>10. CASE /\ f.item = 0 /\ f.at <= Len(timers) /\ Running(t) /\ items[t].kind # "empty"
            /\ frames' = <<TickAt(f, f.at + 1, 0)>> \o r
            /\ UNCHANGED <<items, timers, inProgress, unqueued, stopHook>>
  <2>1. PICK k, i, g, r2 : k = f.at + 1 /\ i = 0 /\ g = TickAt(f, k, i) /\ r2 = <<g>> \o r
    OBVIOUS
  <2>2. k \in Nat \ {0} /\ Before(r2, g, r) /\ frames' = r2
    BY <1>5, <1>10, <2>1 DEF Before
  <2> QED
    BY <1>9, <1>10, <2>1, <2>2
<1>11. CASE /\ f.item = 0 /\ f.at <= Len(timers)
            /\ IF Running(t) THEN Resolve(t, <<TickAt(f, f.at, t)>> \o r)
               ELSE frames' = <<TickAt(f, f.at, t)>> \o r /\ UNCHANGED <<items, unqueued, stopHook>>
            /\ UNCHANGED <<timers, inProgress>>
  <2>1. PICK g, r2 : g = TickAt(f, f.at, t) /\ r2 = <<g>> \o r
    OBVIOUS
  <2>2. /\ t \in Range(timers) /\ t \in 1..Len(items) /\ items[t].kind # "delay"
        /\ items[t].stage # "waiting"
    <3>1. t \in Range(timers)
      <4>1. f.at \in 1..Len(timers)
        BY <1>1, <1>5, <1>11
      <4> QED
        BY <1>1, <1>5, <4>1, HeldBySeq
    <3> QED
      BY <1>4, <3>1 DEF TimersFit
  <2>3. CASE ~ Running(t)
    <3>1. items[t].stage \in Over
      <4>1. items[t].stage \in {"waiting", "running", "resolved", "rejected"}
        BY <1>4, <2>2, ItemTypes
      <4> QED
        BY <2>2, <2>3, <4>1 DEF Running, Over
    <3>2. /\ frames' = r2 /\ Before(r2, g, r)
          /\ UNCHANGED <<items, timers, inProgress, unqueued, stopHook>>
      BY <1>11, <2>1, <2>3 DEF Before
    <3> QED
      BY <1>5, <1>9, <2>1, <2>2, <3>1, <3>2
  <2>4. CASE Running(t)
    <3>1. PICK e, st, its2, r3, B1 : /\ e = items[t].elem /\ st = "resolved"
                                     /\ its2 = StageOf(items, t, st)
                                     /\ r3 = <<CompleteFrame(t)>> \o r2 /\ Without(B1, B, e)
      BY DEF Without
    <3>2. /\ frames' = r3 /\ items' = its2 /\ unqueued' = unqueued /\ stopHook' = stopHook
          /\ timers' = timers /\ inProgress' = inProgress /\ Before(r2, g, r)
      BY <1>11, <2>1, <2>4, <3>1 DEF Resolve, StageOf, Before
    <3>3. Ends(its2, items, t, e, st)
      BY <2>2, <2>4, <3>1 DEF Ends, Running, Over
    <3>4. /\ InOrder(queue, stopHook, finishing, its2, timers, delays, r, B1, O)
          /\ items[t].kind = "unqueued" => InOrder(queue, stopHook, finishing, its2, timers, delays, r, B, O)
          /\ Onward(items, its2, t) /\ Len(its2) = Len(items) /\ t \in 1..Len(its2)
          /\ its2[t].stage = st /\ its2[t].elem = e /\ its2[t].kind = items[t].kind /\ e \in Animated
          /\ e \in O /\ items[t].kind # "unqueued" =>
              queue[e] # <<>> /\ NoneOnWay(its2, timers, delays, e) /\ NoneCompletes(r, its2, e)
      <4>1. B1 \in SUBSET B /\ e \notin B1
        BY <3>1, WithoutOne
      <4> QED
        BY <1>6, <2>2, <3>3, <4>1, OrderEnds
    <3>5. FrameFits(g, its2) /\ g.op = "tick" /\ g \in CallFrames
      <4>1. t \in 1..Len(its2) /\ its2[t].stage \in Over /\ Len(its2) \in Nat
        BY <1>4, <3>3, <3>4 DEF Ends
      <4> QED
        BY <1>2, <1>5, <2>1, <4>1, TickGoes
    <3>6. InOrder(queue, stopHook, finishing, its2, timers, delays, r2, B1, O)
      BY <3>2, <3>4, <3>5, OrderTicks
    <3>7. its2[t].kind = "unqueued" => InOrder(queue, stopHook, finishing, its2, timers, delays, r2, B, O)
      BY <3>2, <3>4, <3>5, OrderTicks
    <3>8. e \in O /\ its2[t].kind # "unqueued" =>
            queue[e] # <<>> /\ NoneOnWay(its2, timers, delays, e) /\ NoneCompletes(r2, its2, e)
      <4>1. ~ Completes(g, its2, e) /\ r \in Seq(CallFrames)
        BY <3>4, <3>5 DEF Completes, InOrder, Sound, FramesFit
      <4>2. NoneCompletes(r, its2, e) => NoneCompletes(r2, its2, e)
        BY <2>1, <3>5, <4>1, CompletesBefore
      <4> QED
        BY <3>4, <4>2
    <3>9. CompletesNext(r3, r2, its2, t, e)
      BY <3>1, <3>4 DEF CompletesNext
    <3>10. InOrder(queue, stopHook, finishing, its2, timers, delays, r3, B, O)
      BY <1>3, <3>1, <3>4, <3>6, <3>7, <3>8, <3>9, OrderCompletes
    <3>11. TimersKept(its2, timers, delays, lost)
      BY <1>7, <3>1, <3>4, TimersOnward
    <3>12. LoopTypes'
      BY <1>2, <1>6, <3>2 DEF LoopTypes, LoopRuns
    <3> QED
      BY <1>2, <1>3, <1>4, <3>2, <3>10, <3>11, <3>12, OrderKept
  <2> QED
    BY <2>3, <2>4
<1>12. CASE /\ f.item # 0
            /\ timers' = IF StillThere(f) THEN RemoveAt(timers, f.at) ELSE timers
            /\ frames' = <<TickAt(f, IF StillThere(f) THEN f.at ELSE f.at + 1, 0)>> \o r
            /\ UNCHANGED <<items, inProgress, unqueued, stopHook>>
  <2>1. CASE ~ StillThere(f)
    <3>1. PICK k, i, g, r2 : k = f.at + 1 /\ i = 0 /\ g = TickAt(f, k, i) /\ r2 = <<g>> \o r
      OBVIOUS
    <3>2. k \in Nat \ {0} /\ Before(r2, g, r) /\ frames' = r2
      BY <1>5, <1>12, <2>1, <3>1 DEF Before
    <3> QED
      BY <1>9, <1>12, <2>1, <3>1, <3>2
  <2>2. CASE StillThere(f)
    <3>1. PICK k, i, g, r2, tms2 : /\ k = f.at /\ i = 0 /\ g = TickAt(f, k, i) /\ r2 = <<g>> \o r
                                   /\ tms2 = RemoveAt(timers, k)
      OBVIOUS
    <3>2. /\ Before(r2, g, r) /\ frames' = r2 /\ timers' = tms2
          /\ items' = items /\ inProgress' = inProgress /\ unqueued' = unqueued
          /\ stopHook' = stopHook
      BY <1>12, <2>2, <3>1 DEF Before
    <3>3. k \in 1..Len(timers) /\ timers[k] = f.item
      BY <1>1, <1>5, <2>2, <3>1 DEF StillThere
    <3>4. TimersFit(tms2, items) /\ Range(tms2) \subseteq Range(timers)
          /\ \A x \in Range(timers) : x # timers[k] => x \in Range(tms2)
      BY <1>4, <1>5, <3>1, <3>3, TimersLeave, RangeRemoveAt
    <3>5. InOrder(queue, stopHook, finishing, items, tms2, delays, r, B, O)
      BY <1>6, <3>4, OrderTimers
    <3>6. FrameFits(g, items) /\ g.op = "tick"
      BY <1>2, <1>4, <1>5, <3>1, TickGoes
    <3>7. InOrder(queue, stopHook, finishing, items, tms2, delays, r2, B, O)
      BY <3>2, <3>5, <3>6, OrderTicks
    <3>8. TimersKept(items, tms2, delays, lost)
      BY <1>5, <1>7, <1>12, <3>3, <3>4 DEF TimersKept, KeepsTimer, Over
    <3>9. LoopTypes'
      <4>1. timers # <<>>
        BY <3>3
      <4> QED
        BY <1>2, <1>6, <3>2, <4>1 DEF LoopTypes, LoopRuns
    <3> QED
      BY <1>2, <1>3, <1>4, <3>2, <3>7, <3>8, <3>9, OrderKept
  <2> QED
    BY <2>1, <2>2
<1> QED
  BY <1>1, <1>8, <1>10, <1>11, <1>12 DEF Tick, TickAt

-----------------------------------------------------------------------------
\* The loops over jQuery.timers.

\* The innermost call, f, is stop() or finish() of e; O1 are those of O that it
\* does not finish.
LoopOf(f, r, e) ==
  frames # <<>> /\ f = Head(frames) /\ r = Outer /\ e = f.elem /\ f.op \in {"stop", "finish"}
Unfinished(O1, O, f) == O1 = {d \in O : ~ (f.op = "finish" /\ f.elem = d)}

\* How its frame goes on: to the next timer, past one, or with one that ended.
NextTimer(f) == [f EXCEPT !.at = @ - 1, !.item = 0]
PassBy(f) == [f EXCEPT !.at = @ - 1]
EndedAt(f, t) == [Spare(f) EXCEPT !.item = t]

\* g is the same call as f.
Same(g, f) ==
  /\ g.op = f.op /\ g.elem = f.elem
  /\ f.op = "stop" => g.gotoEnd = f.gotoEnd /\ g.owes = f.owes /\ (Dequeues(g) => Dequeues(f))
  /\ f.op = "finish" => g.todo = f.todo

\* Its frame is g when it comes to index k, with timer t ended there when it is
\* f's index.
Goes(g, f, k, t) ==
  \/ k = f.at - 1 /\ (g = NextTimer(f) \/ (g = PassBy(f) /\ f.item = 0))
  \/ k = f.at /\ g = EndedAt(f, t)
\* The frame of a loop fits wherever it goes on, and is of the same call.
LEMMA LoopGoes ==
  ASSUME NEW its, Len(its) \in Nat, NEW f, FrameFits(f, its), f.op \in {"stop", "finish"},
         f.at > 0, NEW k, NEW t, k = f.at => t \in 1..Len(its) /\ its[t].stage \in Over, NEW g,
         Goes(g, f, k, t)
  PROVE  /\ FrameFits(g, its) /\ g \in CallFrames /\ Same(g, f) /\ g.at = k
         /\ k = f.at /\ f.op = "stop" /\ f.gotoEnd => ~ Dequeues(g)
<1>1. f \in StopFrames \cup FinishFrames /\ (k = f.at => t \in Nat /\ t \in 0..Len(its))
  BY DEF FrameFits, CallFrames, CompleteFrames, CreateFrames, TickFrames, StopFrames, FinishFrames
<1>2. f.at \in Nat /\ f.at - 1 \in Nat /\ f.at # f.at - 1
  BY <1>1 DEF StopFrames, FinishFrames
<1>3. CASE f.op = "stop"
  <2>1. f \in StopFrames
    BY <1>1, <1>3 DEF FinishFrames
  <2>2. CASE k = f.at - 1 /\ g = NextTimer(f)
    <3>1. g \in StopFrames /\ g.op = f.op /\ g.elem = f.elem /\ g.gotoEnd = f.gotoEnd
          /\ g.owes = f.owes /\ g.dequeue = f.dequeue /\ g.at = k /\ g.item = 0
      BY <1>2, <2>1, <2>2 DEF NextTimer, StopFrames
    <3>4. FrameFits(g, its) /\ g \in CallFrames
      BY <1>2, <1>3, <3>1 DEF FrameFits, CallFrames
    <3>5. Same(g, f)
      BY <1>3, <3>1 DEF Same, Dequeues
    <3> QED
      BY <1>2, <2>2, <3>1, <3>4, <3>5
  <2>3. CASE k = f.at - 1 /\ g = PassBy(f) /\ f.item = 0
    <3>1. g \in StopFrames /\ g.op = f.op /\ g.elem = f.elem /\ g.gotoEnd = f.gotoEnd
          /\ g.owes = f.owes /\ g.dequeue = f.dequeue /\ g.at = k /\ g.item = 0
      BY <1>2, <2>1, <2>3 DEF PassBy, StopFrames
    <3>4. FrameFits(g, its) /\ g \in CallFrames
      BY <1>2, <1>3, <3>1 DEF FrameFits, CallFrames
    <3>5. Same(g, f)
      BY <1>3, <3>1 DEF Same, Dequeues
    <3> QED
      BY <1>2, <2>3, <3>1, <3>4, <3>5
  <2>4. CASE k = f.at /\ g = EndedAt(f, t)
    <3>1. PICK h : h = Spare(f)
      OBVIOUS
    <3>2. h \in StopFrames /\ h.op = f.op /\ h.elem = f.elem /\ h.gotoEnd = f.gotoEnd
          /\ h.owes = f.owes /\ h.dequeue = FALSE /\ h.at = f.at
      BY <1>3, <2>1, <3>1 DEF Spare, StopFrames
    <3>3. g \in StopFrames /\ g.op = f.op /\ g.elem = f.elem /\ g.gotoEnd = f.gotoEnd
          /\ g.owes = f.owes /\ g.dequeue = FALSE /\ g.at = k /\ g.item = t
      BY <1>1, <2>4, <3>1, <3>2 DEF EndedAt, StopFrames
    <3>4. FrameFits(g, its) /\ g \in CallFrames
      BY <1>1, <1>3, <2>4, <3>3 DEF FrameFits, CallFrames
    <3>5. Same(g, f) /\ (f.gotoEnd => ~ Dequeues(g))
      BY <1>3, <3>3 DEF Same, Dequeues
    <3> QED
      BY <3>3, <3>4, <3>5
  <2> QED
    BY <2>2, <2>3, <2>4 DEF Goes
<1>4. CASE f.op = "finish"
  <2>1. f \in FinishFrames /\ Spare(f) = f
    BY <1>1, <1>4 DEF StopFrames, Spare
  <2>2. CASE k = f.at - 1 /\ g = NextTimer(f)
    <3>1. g \in FinishFrames /\ g.op = f.op /\ g.elem = f.elem /\ g.todo = f.todo
          /\ g.at = k /\ g.item = 0
      BY <1>2, <2>1, <2>2 DEF NextTimer, FinishFrames
    <3> QED
      BY <1>2, <1>4, <3>1 DEF FrameFits, CallFrames, Same
  <2>3. CASE k = f.at - 1 /\ g = PassBy(f) /\ f.item = 0
    <3>1. g \in FinishFrames /\ g.op = f.op /\ g.elem = f.elem /\ g.todo = f.todo
          /\ g.at = k /\ g.item = 0
      BY <1>2, <2>1, <2>3 DEF PassBy, FinishFrames
    <3> QED
      BY <1>2, <1>4, <3>1 DEF FrameFits, CallFrames, Same
  <2>4. CASE k = f.at /\ g = EndedAt(f, t)
    <3>1. g \in FinishFrames /\ g.op = f.op /\ g.elem = f.elem /\ g.todo = f.todo
          /\ g.at = k /\ g.item = t
      BY <1>1, <2>1, <2>4 DEF EndedAt, FinishFrames
    <3>4. FrameFits(g, its) /\ g \in CallFrames
      BY <1>1, <1>4, <2>4, <3>1 DEF FrameFits, CallFrames
    <3>5. Same(g, f)
      BY <1>4, <3>1 DEF Same
    <3> QED
      BY <1>4, <3>1, <3>4, <3>5
  <2> QED
    BY <2>2, <2>3, <2>4 DEF Goes
<1> QED
  BY <1>3, <1>4

\* Behind the loop all is in order; what the loop itself keeps.
LEMMA LoopBehind ==
  ASSUME EffectsInv, NEW f, NEW r, NEW e, LoopOf(f, r, e),
         NEW B, B \in SUBSET (Animated \ lost), NEW O, NotCut(O),
         NEW B1, Without(B1, B, e), NEW O1, Unfinished(O1, O, f)
  PROVE  /\ InOrder(queue, stopHook, finishing, items, timers, delays, r, B1, O1) /\ LoopTypes
         /\ e \in Animated /\ items \in Seq(ItemRecords) /\ Len(items) \in Nat
         /\ timers \in Seq(Nat) /\ Len(timers) \in Nat /\ TimersFit(timers, items)
         /\ FrameFits(f, items) /\ f \in CallFrames /\ f.at \in Nat /\ AlsoApart(f, queue, r)
         /\ r \in Seq(CallFrames) /\ r = Tail(frames) /\ frames \in Seq(CallFrames) /\ Range(frames) = {f} \cup Range(r)
<1>1. /\ frames # <<>> /\ f = Head(frames) /\ r = Outer /\ r = Tail(frames) /\ e = f.elem
      /\ f.op \in {"stop", "finish"} /\ Sound(queue, stopHook, items, timers, delays, frames)
  BY DEF LoopOf, Outer, EffectsInv
<1>2. /\ f \in CallFrames /\ r \in Seq(CallFrames) /\ FrameFits(f, items)
      /\ AlsoApart(f, queue, r) /\ Range(frames) = {f} \cup Range(r)
  <2>1. frames # <<>> /\ Sound(queue, stopHook, items, timers, delays, frames)
    BY <1>1
  <2>2. /\ Head(frames) \in CallFrames /\ Tail(frames) \in Seq(CallFrames)
        /\ FrameFits(Head(frames), items) /\ AlsoApart(Head(frames), queue, Tail(frames))
        /\ Range(frames) = {Head(frames)} \cup Range(Tail(frames))
    <3>1. Head(frames) \in CallFrames /\ Tail(frames) \in Seq(CallFrames)
      BY <2>1, SoundPop
    <3>2. FrameFits(Head(frames), items) /\ AlsoApart(Head(frames), queue, Tail(frames))
      BY <2>1, SoundPop
    <3>3. Range(frames) = {Head(frames)} \cup Range(Tail(frames))
      <4>1. frames \in Seq(CallFrames)
        BY <2>1 DEF Sound, FramesFit
      <4> QED
        BY <2>1, <4>1, InnermostFrame
    <3> QED
      BY <3>1, <3>2, <3>3
  <2>3. f = Head(frames) /\ r = Tail(frames)
    BY <1>1
  <2> QED
    BY <2>2, <2>3
<1>3. e \in Animated /\ f.at \in Nat
  BY <1>1, <1>2 DEF CallFrames, CompleteFrames, CreateFrames, TickFrames, StopFrames, FinishFrames
<1>4. items \in Seq(ItemRecords) /\ TimersFit(timers, items) /\ frames \in Seq(CallFrames)
      /\ timers \in Seq(Nat) /\ Len(items) \in Nat /\ Len(timers) \in Nat
  BY <1>1 DEF Sound, TimersFit, FramesFit
<1>5. InOrder(queue, stopHook, finishing, items, timers, delays, r, B1, O1) /\ LoopTypes
  <2>1. B1 \in SUBSET (Animated \ lost) /\ O1 \in SUBSET (Animated \ cut)
    BY WithoutOne DEF Unfinished, NotCut
  <2>2. /\ \A d \in B1 : ~ Completes(Head(frames), items, d) /\ ~ Owing(Head(frames), d)
        /\ \A d \in O1 : ~ (Head(frames).op = "finish" /\ Head(frames).elem = d)
    BY <1>1, WithoutOne DEF Completes, Owing, Unfinished
  <2> QED
    BY <1>1, <2>1, <2>2, BehindInOrder
<1> QED
  BY <1>1, <1>2, <1>3, <1>4, <1>5

\* A queue advances still when the loop goes on.
LEMMA BusySame ==
  ASSUME NEW f, NEW g, Same(g, f), f.op \in {"stop", "finish"}, NEW fr, NEW r, NEW s,
         Range(fr) = {f} \cup Range(r), Range(s) = {g} \cup Range(r),
         NEW e, NEW q, NEW its, Busy(e, q, its, fr)
  PROVE  Busy(e, q, its, s)
<1>1. SUFFICES ASSUME q # <<>>, NEW h \in Range(fr), Completes(h, its, e) \/ Owing(h, e)
               PROVE  \E k \in Range(s) : Completes(k, its, e) \/ Owing(k, e)
  BY DEF Busy
<1>2. CASE h = f
  <2>1. Owing(g, e)
    BY <1>1, <1>2 DEF Completes, Owing, Same
  <2> QED
    BY <2>1
<1>3. CASE h \in Range(r)
  BY <1>1, <1>3
<1> QED
  BY <1>2, <1>3

\* What is still to do is the same.
LEMMA ApartSame ==
  ASSUME NEW f, NEW g, Same(g, f), NEW qu, NEW r, AlsoApart(f, qu, r)
  PROVE  AlsoApart(g, qu, r)
  BY DEF AlsoApart, Same

\* What a loop, of an element not given up, knows.
LEMMA LoopKnows ==
  ASSUME EffectsInv, NEW f, NEW r, NEW e, LoopOf(f, r, e), NEW O, NotCut(O), e \in O
  PROVE  /\ f.op = "finish" =>
              /\ queue[e] = <<>> /\ f.item = 0 /\ f.todo = <<>> /\ f.at <= Len(timers)
              /\ Idle(e, {}, items, timers, delays, r)
         /\ f.op = "stop" /\ Dequeues(f) =>
              /\ NoneCompletes(r, items, e)
              /\ \A i \in delays : items[i].elem # e
              /\ \A n \in 1..Len(timers) : Up(items, timers[n], e) => n <= f.at
<1>1. /\ frames # <<>> /\ f = Head(frames) /\ r = Tail(frames) /\ e = f.elem
      /\ frames \in Seq(CallFrames)
  BY DEF LoopOf, Outer, EffectsInv, Sound, FramesFit
<1>2. OneOf(e, queue[e], stopHook[e], finishing, items, timers, delays, frames)
  BY DEF EffectsInv, NotCut
<1>3. /\ Alone(e, queue[e], items, timers, delays, frames) /\ NoEmpty(e, items)
      /\ NoFinish(e, frames) \/ IdleFinish(e, queue[e], finishing, timers, frames)
      /\ StopsAll(e, items, timers, delays, frames)
  BY <1>2 DEF OneOf
<1>4. NoneCompletes(frames, items, e) => NoneCompletes(r, items, e)
  BY <1>1, CompletesBehind, <1>3 DEF Alone
<1>5. ASSUME f.op = "finish"
      PROVE  /\ queue[e] = <<>> /\ f.item = 0 /\ f.todo = <<>> /\ f.at <= Len(timers)
             /\ Idle(e, {}, items, timers, delays, r)
  <2>1. f \in Range(frames)
    BY <1>1, InnermostFrame
  <2>2. IdleFinish(e, queue[e], finishing, timers, frames)
    BY <1>1, <1>3, <1>5, <2>1 DEF NoFinish
  <2>3. /\ queue[e] = <<>> /\ f.item = 0 /\ f.todo = <<>> /\ f.at <= Len(timers)
        /\ NoFinish(e, r)
    BY <1>1, <2>2 DEF IdleFinish
  <2>4. NoneOnWay(items, timers, delays, e) /\ NoneCompletes(frames, items, e)
    BY <1>3, <2>3 DEF Alone
  <2> QED
    BY <1>3, <1>4, <2>3, <2>4 DEF Idle
<1>6. ASSUME f.op = "stop", Dequeues(f)
      PROVE  /\ NoneCompletes(r, items, e)
             /\ \A i \in delays : items[i].elem # e
             /\ \A n \in 1..Len(timers) : Up(items, timers[n], e) => n <= f.at
  BY <1>1, <1>3, <1>4, <1>6 DEF StopsAll
<1> QED
  BY <1>5, <1>6

\* The index passes a timer that is not of it, that ended there, or that was
\* put in its place.
Passes(f, tms, tms2, its, lst, lst2) ==
  \/ /\ f.item # 0 /\ f.at > Len(tms) /\ tms2 = tms /\ lst2 = lst
  \/ /\ f.item # 0 /\ f.at \in 1..Len(tms) /\ tms2 = RemoveAt(tms, f.at)
     /\ lst \subseteq lst2 /\ (tms[f.at] # f.item => its[tms[f.at]].elem \in lst2)
  \/ /\ f.item = 0 /\ f.at \in 1..Len(tms) /\ ~ Matches(f, tms[f.at]) /\ tms2 = tms /\ lst2 = lst
\* The timers that stay are those of the running animations not given up, and
\* what was below the index is below the next.
LEMMA PassesTimers ==
  ASSUME NEW f, NEW tms, NEW tms2, NEW lst, NEW lst2, Passes(f, tms, tms2, items, lst, lst2),
         TimersFit(tms, items), f.at \in Nat, f.item # 0 => items[f.item].stage \in Over,
         NEW dls, TimersKept(items, tms, dls, lst)
  PROVE  /\ TimersFit(tms2, items) /\ Range(tms2) \subseteq Range(tms) /\ lst \subseteq lst2
         /\ tms2 # <<>> => tms # <<>>
         /\ TimersKept(items, tms2, dls, lst2)
         /\ f.op = "stop" => \A e : e = f.elem /\ (\A n \in 1..Len(tms) : Up(items, tms[n], e) => n <= f.at)
              => \A n \in 1..Len(tms2) : Up(items, tms2[n], e) => n <= f.at - 1
<1>1. tms \in Seq(Nat) /\ Len(tms) \in Nat
  BY DEF TimersFit
<1>2. CASE f.item # 0 /\ f.at > Len(tms) /\ tms2 = tms /\ lst2 = lst
  <2>1. \A n \in 1..Len(tms) : n <= f.at - 1
    BY <1>1, <1>2
  <2> QED
    BY <1>2, <2>1
<1>3. CASE /\ f.item # 0 /\ f.at \in 1..Len(tms) /\ tms2 = RemoveAt(tms, f.at)
           /\ lst \subseteq lst2 /\ (tms[f.at] # f.item => items[tms[f.at]].elem \in lst2)
  <2>1. TimersFit(tms2, items)
    BY <1>3, TimersLeave
  <2>2. /\ tms2 \in Seq(Nat) /\ Len(tms2) = Len(tms) - 1 /\ Range(tms2) \subseteq Range(tms)
        /\ \A x \in Range(tms) : x # tms[f.at] => x \in Range(tms2)
        /\ \A k \in 1..(Len(tms) - 1) : tms2[k] = IF k < f.at THEN tms[k] ELSE tms[k + 1]
    <3>1. PICK n \in 1..Len(tms) : n = f.at
      BY <1>3
    <3>2. tms2 = RemoveAt(tms, n)
      BY <1>3, <3>1
    <3>3. /\ RemoveAt(tms, n) \in Seq(Nat) /\ Len(RemoveAt(tms, n)) = Len(tms) - 1
          /\ Range(RemoveAt(tms, n)) \subseteq Range(tms)
      BY <1>1, RangeRemoveAt
    <3>4. \A x \in Range(tms) : x # tms[n] => x \in Range(RemoveAt(tms, n))
      BY <1>1, RangeRemoveAt
    <3>5. \A k \in 1..(Len(tms) - 1) : RemoveAt(tms, n)[k] = IF k < n THEN tms[k] ELSE tms[k + 1]
      BY <1>1, RangeRemoveAt
    <3> QED
      BY <3>1, <3>2, <3>3, <3>4, <3>5
  <2>3. tms # <<>>
    BY <1>1, <1>3
  <2>4. ASSUME NEW i \in 1..Len(items), items[i].stage = "running", items[i].elem \notin lst2
        PROVE  i \in dls \/ i \in Range(tms2)
    <3>1. i \in dls \/ i \in Range(tms)
      BY <1>3, <2>4 DEF TimersKept, KeepsTimer
    <3>2. i # tms[f.at]
      BY <1>3, <2>4 DEF Over
    <3> QED
      BY <2>2, <3>1, <3>2
  <2>5. ASSUME NEW e, \A n \in 1..Len(tms) : Up(items, tms[n], e) => n <= f.at,
               NEW n \in 1..Len(tms2), Up(items, tms2[n], e)
        PROVE  n <= f.at - 1
    <3>1. n \in 1..(Len(tms) - 1) /\ n \in Nat
      BY <1>1, <2>2
    <3>2. SUFFICES ASSUME ~ (n < f.at) PROVE FALSE
      BY <1>3, <3>1
    <3>3. tms2[n] = tms[n + 1] /\ n + 1 \in 1..Len(tms)
      BY <1>1, <2>2, <3>1, <3>2
    <3>4. n + 1 <= f.at
      BY <2>5, <3>3
    <3> QED
      BY <3>1, <3>2, <3>4
  <2>6. TimersKept(items, tms2, dls, lst2)
    BY <2>4 DEF TimersKept, KeepsTimer
  <2> QED
    BY <1>3, <2>1, <2>2, <2>3, <2>5, <2>6
<1>4. CASE /\ f.item = 0 /\ f.at \in 1..Len(tms) /\ ~ Matches(f, tms[f.at]) /\ tms2 = tms
           /\ lst2 = lst
  <2>1. ASSUME f.op = "stop", NEW e, e = f.elem,
               \A n \in 1..Len(tms) : Up(items, tms[n], e) => n <= f.at,
               NEW n \in 1..Len(tms), Up(items, tms[n], e)
        PROVE  n <= f.at - 1
    <3>1. n <= f.at
      BY <2>1
    <3>2. n # f.at
      BY <1>4, <2>1 DEF Matches, Up, ElemOf, Running
    <3> QED
      BY <1>1, <3>1, <3>2
  <2> QED
    BY <1>4, <2>1
<1> QED
  BY <1>2, <1>3, <1>4 DEF Passes

\* A step that does this, with the frame g that the loop goes on with.
PassStep(f, r, e, g, s, tms2, lst2) ==
  /\ LoopOf(f, r, e) /\ f.at > 0 /\ Goes(g, f, f.at - 1, 0) /\ s = <<g>> \o r /\ frames' = s
  /\ Passes(f, timers, tms2, items, lost, lst2) /\ timers' = tms2 /\ lost' = lst2
  /\ queue' = queue /\ stopHook' = stopHook /\ unqueued' = unqueued /\ finishing' = finishing
  /\ items' = items /\ delays' = delays /\ inProgress' = inProgress /\ loops' = loops /\ cut' = cut
\* Such a step keeps the invariant.
LEMMA PassesKeeps ==
  ASSUME EffectsInv, NEW f, NEW r, NEW e, NEW g, NEW s, NEW tms2, NEW lst2,
         PassStep(f, r, e, g, s, tms2, lst2)
  PROVE  EffectsInv'
<1>0. PICK k : k = f.at - 1
  OBVIOUS
<1>16. LoopOf(f, r, e) /\ f.at > 0 /\ Goes(g, f, k, 0) /\ s = <<g>> \o r /\ frames' = s
  BY <1>0 DEF PassStep
<1>17. Passes(f, timers, tms2, items, lost, lst2) /\ timers' = tms2 /\ lost' = lst2
  BY DEF PassStep
<1>18. /\ queue' = queue /\ stopHook' = stopHook /\ unqueued' = unqueued /\ finishing' = finishing
       /\ items' = items /\ delays' = delays /\ inProgress' = inProgress /\ loops' = loops /\ cut' = cut
  BY DEF PassStep
<1>1. PICK B, O, B1, O1, B0 : /\ B = Animated \ lst2 /\ NotCut(O) /\ Without(B1, B, e)
                              /\ Unfinished(O1, O, f) /\ NotLost(B0)
  BY DEF Without, Unfinished, NotCut, NotLost
<1>2. TimersKept(items, timers, delays, lost)
  BY DEF EffectsInv
<1>3. /\ FrameFits(f, items) /\ f.at \in Nat /\ Len(items) \in Nat /\ TimersFit(timers, items)
  <2>1. B0 \in SUBSET (Animated \ lost)
    BY <1>1 DEF NotLost
  <2>2. PICK B2 : Without(B2, B0, e)
    BY DEF Without
  <2> QED
    BY <1>1, <1>16, <2>1, <2>2, LoopBehind
<1>4. f.item # 0 => items[f.item].stage \in Over
  BY <1>3, <1>16 DEF FrameFits, LoopOf
<1>5. /\ TimersFit(tms2, items) /\ Range(tms2) \subseteq Range(timers) /\ lost \subseteq lst2
      /\ tms2 # <<>> => timers # <<>>
      /\ TimersKept(items, tms2, delays, lst2)
      /\ f.op = "stop" => \A d : d = f.elem /\ (\A n \in 1..Len(timers) : Up(items, timers[n], d) => n <= f.at)
              => \A n \in 1..Len(tms2) : Up(items, tms2[n], d) => n <= f.at - 1
  BY <1>2, <1>3, <1>4, <1>17, PassesTimers
<1>6. /\ InOrder(queue, stopHook, finishing, items, timers, delays, r, B1, O1) /\ LoopTypes
      /\ e \in Animated /\ AlsoApart(f, queue, r) /\ r \in Seq(CallFrames)
      /\ Range(frames) = {f} \cup Range(r)
  <2>1. B \in SUBSET (Animated \ lost)
    BY <1>1, <1>5
  <2> QED
    BY <1>1, <1>16, <2>1, LoopBehind
<1>7. InOrder(queue, stopHook, finishing, items, tms2, delays, r, B1, O1)
  BY <1>5, <1>6, OrderTimers
<1>8. /\ FrameFits(g, items) /\ g \in CallFrames /\ Same(g, f) /\ g.at = k
  <2>1. k # f.at
    BY <1>0, <1>3
  <2>2. f.op \in {"stop", "finish"}
    BY <1>16 DEF LoopOf
  <2> QED
    BY <1>3, <1>16, <2>1, <2>2, LoopGoes
<1>9. AlsoApart(g, queue, r)
  BY <1>6, <1>8, ApartSame
<1>10. f.op \in {"stop", "finish"} /\ f.elem = e /\ g.op = f.op /\ g.elem = e
  BY <1>8, <1>16 DEF LoopOf, Same
<1>11. Range(s) = {g} \cup Range(r)
  BY <1>6, <1>8, <1>16, FrameBefore
<1>12. ASSUME e \in B PROVE Busy(e, queue[e], items, s)
  <2>1. Busy(e, queue[e], items, frames)
    BY <1>1, <1>5, <1>6, <1>12 DEF EffectsInv
  <2> QED
    BY <1>6, <1>8, <1>10, <1>11, <2>1, BusySame
<1>13. ASSUME e \in O
       PROVE  OneOf(e, queue[e], stopHook[e], finishing, items, tms2, delays, s)
  <2>1. CASE f.op = "stop"
    <3>1. Orderly(e, queue[e], stopHook[e], finishing, items, tms2, delays, r)
      <4>1. e \in O1
        BY <1>1, <1>13, <2>1 DEF Unfinished
      <4> QED
        BY <1>7, <4>1 DEF InOrder
    <3>2. ASSUME Dequeues(g)
          PROVE  /\ NoneCompletes(r, items, e)
                 /\ \A i \in delays : items[i].elem # e
                 /\ \A n \in 1..Len(tms2) : Up(items, tms2[n], e) => n <= g.at
      <4>1. Dequeues(f)
        BY <1>8, <2>1, <3>2 DEF Same
      <4>2. /\ NoneCompletes(r, items, e)
            /\ \A i \in delays : items[i].elem # e
            /\ \A n \in 1..Len(timers) : Up(items, timers[n], e) => n <= f.at
        BY <1>1, <1>13, <1>16, <2>1, <4>1, LoopKnows
      <4> QED
        BY <1>0, <1>5, <1>8, <1>10, <2>1, <4>2
    <3> QED
      BY <1>6, <1>8, <1>10, <1>16, <2>1, <3>1, <3>2, StopOneOf
  <2>2. CASE f.op = "finish"
    <3>1. /\ queue[e] = <<>> /\ f.item = 0 /\ f.todo = <<>> /\ f.at <= Len(timers)
          /\ Idle(e, {}, items, timers, delays, r)
      BY <1>1, <1>13, <1>16, <2>2, LoopKnows
    <3>2. tms2 = timers
      BY <1>17, <3>1 DEF Passes
    <3>3. g.item = 0 /\ g.todo = <<>> /\ g.at <= Len(tms2)
      <4>1. g.item = 0
        <5>1. k # f.at
          BY <1>0, <1>3
        <5>2. g = NextTimer(f) \/ g = PassBy(f)
          BY <1>16, <5>1 DEF Goes
        <5>3. f \in FinishFrames
          BY <1>3, <2>2 DEF FrameFits, CallFrames, CompleteFrames, CreateFrames, TickFrames, StopFrames, FinishFrames
        <5> QED
          BY <3>1, <5>2, <5>3 DEF NextTimer, PassBy, FinishFrames
      <4>2. Len(timers) \in Nat
        BY <1>3 DEF TimersFit
      <4> QED
        BY <1>0, <1>3, <1>8, <2>2, <3>1, <3>2, <4>1, <4>2 DEF Same
    <3>4. DelaysFit(delays, items)
      BY <1>6 DEF InOrder, Sound
    <3> QED
      BY <1>6, <1>8, <1>10, <1>16, <2>2, <3>1, <3>2, <3>3, <3>4, FinishOneOf
  <2> QED
    BY <1>10, <2>1, <2>2
<1>14. LoopTypes' /\ unqueued' \in [Animated -> Int] /\ finishing' \subseteq Animated
  <2>1. unqueued' \in [Animated -> Int] /\ finishing' \subseteq Animated
    BY <1>18 DEF EffectsInv, EffectTypes
  <2>2. LoopTypes'
    BY <1>5, <1>6, <1>17, <1>18 DEF LoopTypes, LoopRuns
  <2> QED
    BY <2>1, <2>2
<1>15. /\ \A d \in B : d = g.elem \/ d \in B1
       /\ \A d \in O : d = g.elem \/ d \in O1
  BY <1>1, <1>10, WithoutOne DEF Unfinished
<1> QED
  <2>1. g.op \in {"stop", "finish"} /\ g.elem \in Animated /\ B = Animated \ lost' /\ O = Animated \ cut'
    BY <1>1, <1>6, <1>10, <1>17, <1>18 DEF NotCut
  <2>2. /\ FrameFits(g, items') /\ AlsoApart(g, queue', r)
        /\ InOrder(queue', stopHook', finishing', items', timers', delays', r, B1, O1)
    BY <1>7, <1>8, <1>9, <1>17, <1>18
  <2>3. g.elem \in B => Busy(g.elem, queue'[g.elem], items', s)
    BY <1>10, <1>12, <1>18
  <2>4. g.elem \in O => OneOf(g.elem, queue'[g.elem], stopHook'[g.elem], finishing', items', timers', delays', s)
    BY <1>10, <1>13, <1>17, <1>18
  <2>5. TimersKept(items', timers', delays', lost')
    BY <1>5, <1>17, <1>18
  <2>6. s = <<g>> \o r /\ frames' = s
    BY <1>16
  <2> QED
    BY <1>14, <1>15, <2>1, <2>2, <2>3, <2>4, <2>5, <2>6, LoopKept

\* An animation of the element, at the index, ends with stage st.
EndStep(f, r, e, g, s, t, st, its2) ==
  /\ LoopOf(f, r, e) /\ f.item = 0 /\ f.at \in 1..Len(timers) /\ t = timers[f.at] /\ Matches(f, t)
  /\ g = EndedAt(f, t) /\ s = <<g>> \o r /\ st \in Over /\ its2 = StageOf(items, t, st)
\* Behind the loop all is in order when the animation has ended.
LEMMA EndsBehind ==
  ASSUME EffectsInv, NEW f, NEW r, NEW e, NEW g, NEW s, NEW t, NEW st, NEW its2,
         EndStep(f, r, e, g, s, t, st, its2),
         NEW B, NotLost(B), NEW O, NotCut(O), NEW B1, Without(B1, B, e)
  PROVE  /\ InOrder(queue, stopHook, finishing, its2, timers, delays, r, B1, O) /\ LoopTypes
         /\ f.op = "finish" => e \notin O
         /\ e \in Animated /\ t \in 1..Len(its2) /\ its2[t].elem = e /\ its2[t].kind = items[t].kind
         /\ its2[t].stage = st /\ Onward(items, its2, t) /\ Len(its2) = Len(items)
         /\ e \in O /\ its2[t].kind # "unqueued" =>
              queue[e] # <<>> /\ NoneOnWay(its2, timers, delays, e) /\ NoneCompletes(r, its2, e)
         /\ FrameFits(g, its2) /\ g \in CallFrames /\ Same(g, f) /\ g.at = f.at /\ AlsoApart(g, queue, r)
         /\ f.op = "stop" /\ f.gotoEnd => ~ Dequeues(g)
         /\ r \in Seq(CallFrames) /\ TimersKept(its2, timers, delays, lost)
         /\ Range(frames) = {f} \cup Range(r) /\ Range(s) = {g} \cup Range(r)
<1>1. /\ LoopOf(f, r, e) /\ f.item = 0 /\ f.at \in 1..Len(timers) /\ t = timers[f.at]
      /\ Matches(f, t) /\ g = EndedAt(f, t) /\ s = <<g>> \o r
      /\ st \in Over /\ its2 = StageOf(items, t, st)
      /\ f.op \in {"stop", "finish"} /\ e = f.elem
  BY DEF EndStep, LoopOf
<1>2. PICK O1 : Unfinished(O1, O, f)
  BY DEF Unfinished
<1>3. /\ InOrder(queue, stopHook, finishing, items, timers, delays, r, B1, O1) /\ LoopTypes
      /\ e \in Animated /\ items \in Seq(ItemRecords) /\ Len(items) \in Nat
      /\ timers \in Seq(Nat) /\ Len(timers) \in Nat /\ TimersFit(timers, items)
      /\ FrameFits(f, items) /\ f \in CallFrames /\ f.at \in Nat /\ AlsoApart(f, queue, r)
      /\ r \in Seq(CallFrames) /\ frames \in Seq(CallFrames) /\ Range(frames) = {f} \cup Range(r)
  <2>1. B \in SUBSET (Animated \ lost)
    BY DEF NotLost
  <2> QED
    BY <1>1, <1>2, <2>1, LoopBehind
<1>4. t \in Range(timers) /\ t \in 1..Len(items) /\ items[t].kind # "delay"
  <2>1. t \in Range(timers)
    BY <1>1, <1>3, HeldBySeq
  <2> QED
    BY <1>3, <2>1 DEF TimersFit
<1>5. items[t].stage = "running" /\ items[t].elem = e /\ (f.op = "finish" => items[t].kind # "unqueued")
  BY <1>1 DEF Matches, ElemOf, Running, InQueue
<1>6. f.op = "finish" => e \notin O
  <2>1. SUFFICES ASSUME f.op = "finish", e \in O PROVE FALSE
    OBVIOUS
  <2>2. Idle(e, {}, items, timers, delays, r)
    BY <1>1, <2>1, LoopKnows
  <2>3. OnWay(items, timers, delays, t, e)
    BY <1>4, <1>5, <2>1 DEF OnWay, Up
  <2> QED
    BY <1>4, <2>2, <2>3 DEF Idle, NoneOnWay
<1>7. O1 = O
  BY <1>1, <1>2, <1>6 DEF Unfinished
<1>8. Ends(its2, items, t, e, st)
  BY <1>1, <1>4, <1>5 DEF Ends
<1>9. /\ InOrder(queue, stopHook, finishing, its2, timers, delays, r, B1, O)
      /\ Onward(items, its2, t) /\ Len(its2) = Len(items) /\ t \in 1..Len(its2)
      /\ its2[t].stage = st /\ its2[t].elem = e /\ its2[t].kind = items[t].kind
      /\ e \in O /\ items[t].kind # "unqueued" =>
           queue[e] # <<>> /\ NoneOnWay(its2, timers, delays, e) /\ NoneCompletes(r, its2, e)
  <2>1. B1 \in SUBSET B1 /\ e \notin B1
    BY WithoutOne
  <2> QED
    BY <1>3, <1>4, <1>7, <1>8, <2>1, OrderEnds
<1>10. FrameFits(f, its2)
  <2>1. Unplaced(t, queue, frames)
    <3>1. Sound(queue, stopHook, items, timers, delays, frames)
      BY DEF EffectsInv
    <3>2. items[t].stage # "waiting"
      BY <1>5
    <3> QED
      BY <1>4, <3>1, <3>2, StartedUnplaced
  <2>2. f.op = "finish" => t = 0 \/ t \notin Range(f.todo)
    BY <1>3, <2>1 DEF Unplaced
  <2> QED
    BY <1>3, <1>9, <2>2, FrameOnward
<1>11. /\ FrameFits(g, its2) /\ g \in CallFrames /\ Same(g, f) /\ g.at = f.at
       /\ f.op = "stop" /\ f.gotoEnd => ~ Dequeues(g)
  <2>1. PICK k : k = f.at
    OBVIOUS
  <2>2. Goes(g, f, k, t) /\ f.at > 0 /\ Len(its2) \in Nat
    BY <1>1, <1>3, <1>9, <2>1 DEF Goes
  <2> QED
    BY <1>1, <1>9, <1>10, <2>1, <2>2, LoopGoes
<1>12. AlsoApart(g, queue, r)
  BY <1>3, <1>11, ApartSame
<1>13. TimersKept(its2, timers, delays, lost)
  <2>1. TimersKept(items, timers, delays, lost)
    BY DEF EffectsInv
  <2>2. its2[t].stage # "running"
    BY <1>1, <1>9 DEF Over
  <2> QED
    BY <1>9, <2>1, <2>2, TimersOnward
<1>14. Range(s) = {g} \cup Range(r)
  BY <1>1, <1>3, <1>11, FrameBefore
<1> QED
  BY <1>3, <1>6, <1>9, <1>11, <1>12, <1>13, <1>14

\* It goes to its end.
LEMMA EndedKeeps ==
  ASSUME EffectsInv, NEW f, NEW r, NEW e, NEW g, NEW s, NEW t, NEW st, NEW its2,
         EndStep(f, r, e, g, s, t, st, its2), ToTheEnd(f), NEW s2, s2 = <<CompleteFrame(t)>> \o s,
         items' = its2 /\ frames' = s2,
         UNCHANGED <<queue, stopHook, unqueued, finishing, timers, delays, inProgress, loops, cut, lost>>
  PROVE  EffectsInv'
<1>1. PICK B, O, B1 : NotLost(B) /\ NotCut(O) /\ Without(B1, B, e)
  BY DEF NotLost, NotCut, Without
<1>2. /\ LoopOf(f, r, e) /\ s = <<g>> \o r /\ f.op \in {"stop", "finish"} /\ f.elem = e
  BY DEF EndStep, LoopOf
<1>3. /\ InOrder(queue, stopHook, finishing, its2, timers, delays, r, B1, O) /\ LoopTypes
      /\ f.op = "finish" => e \notin O
      /\ e \in Animated /\ t \in 1..Len(its2) /\ its2[t].elem = e /\ its2[t].kind = items[t].kind
      /\ Onward(items, its2, t) /\ Len(its2) = Len(items)
      /\ e \in O /\ its2[t].kind # "unqueued" =>
           queue[e] # <<>> /\ NoneOnWay(its2, timers, delays, e) /\ NoneCompletes(r, its2, e)
      /\ FrameFits(g, its2) /\ g \in CallFrames /\ Same(g, f) /\ AlsoApart(g, queue, r)
      /\ f.op = "stop" /\ f.gotoEnd => ~ Dequeues(g)
      /\ r \in Seq(CallFrames) /\ TimersKept(its2, timers, delays, lost)
      /\ Range(frames) = {f} \cup Range(r) /\ Range(s) = {g} \cup Range(r)
  BY <1>1, EndsBehind
<1>4. g.op = f.op /\ g.elem = e /\ g.op \in {"stop", "finish"} /\ (g.op = "stop" => ~ Dequeues(g))
  BY <1>2, <1>3 DEF Same, ToTheEnd
<1>5. InOrder(queue, stopHook, finishing, its2, timers, delays, s, B1, O)
  <2>1. \A d \in O : ~ Completes(g, its2, d) /\ ~ (g.op = "finish" /\ g.elem = d)
    BY <1>3, <1>4 DEF Completes
  <2>2. InOrder(queue, stopHook, finishing, its2, timers, delays, <<g>> \o r, B1, O)
    BY <1>3, <1>4, <2>1, OrderPush
  <2> QED
    BY <1>2, <2>2
<1>6. /\ B \in SUBSET Animated /\ O \in SUBSET Animated /\ B = Animated \ lost' /\ O = Animated \ cut'
  BY <1>1, NotGivenUp
<1>7. its2[t].kind = "unqueued" => InOrder(queue, stopHook, finishing, its2, timers, delays, s, B, O)
  <2>1. SUFFICES ASSUME its2[t].kind = "unqueued"
                 PROVE  InOrder(queue, stopHook, finishing, its2, timers, delays, s, B, O)
    OBVIOUS
  <2>2. ASSUME e \in B PROVE Busy(e, queue[e], its2, s)
    <3>1. Busy(e, queue[e], items, frames)
      BY <1>1, <1>3, <2>2 DEF EffectsInv, NotLost
    <3>2. Busy(e, queue[e], its2, frames)
      <4>1. /\ items \in Seq(ItemRecords) /\ frames \in Seq(CallFrames)
            /\ \A h \in Range(frames) : FrameFits(h, items)
        BY DEF EffectsInv, Sound, FramesFit
      <4>2. ~ Up(items, t, e)
        BY <1>3, <2>1 DEF Up
      <4> QED
        BY <1>3, <3>1, <4>1, <4>2, BusyOnward
    <3> QED
      BY <1>2, <1>3, <3>2, BusySame
  <2>3. e \in O => Orderly(e, queue[e], stopHook[e], finishing, its2, timers, delays, s)
    BY <1>5 DEF InOrder
  <2>4. /\ \A d \in B : d = e \/ d \in B1
        /\ \A d \in O : d = e \/ d \in O
    BY <1>1, WithoutOne
  <2>5. PICK C : C = O
    OBVIOUS
  <2>6. /\ InOrder(queue, stopHook, finishing, its2, timers, delays, s, B1, C)
        /\ e \in Animated /\ B \in SUBSET Animated /\ O \in SUBSET Animated
        /\ (\A d \in B : d = e \/ d \in B1) /\ (\A d \in O : d = e \/ d \in C)
    BY <1>3, <1>5, <1>6, <2>4, <2>5
  <2> QED
    BY <2>2, <2>3, <2>6, OrderMore
<1>8. InOrder(queue, stopHook, finishing, its2, timers, delays, s2, B, O)
  <2>1. NoneCompletes(r, its2, e) => NoneCompletes(s, its2, e)
    <3>1. ~ Completes(g, its2, e)
      BY <1>4 DEF Completes
    <3> QED
      BY <1>2, <1>3, <3>1, CompletesBefore
  <2>2. CompletesNext(s2, s, its2, t, e)
    BY <1>3 DEF CompletesNext
  <2>3. e \in O /\ its2[t].kind # "unqueued" =>
          queue[e] # <<>> /\ NoneOnWay(its2, timers, delays, e) /\ NoneCompletes(s, its2, e)
    BY <1>3, <2>1
  <2> QED
    BY <1>1, <1>3, <1>5, <1>6, <1>7, <2>2, <2>3, OrderCompletes
<1>9. LoopTypes' /\ unqueued' \in [Animated -> Int] /\ finishing' \subseteq Animated
  <2>1. unqueued' \in [Animated -> Int] /\ finishing' \subseteq Animated
    BY DEF EffectsInv, EffectTypes
  <2>2. LoopTypes'
    BY <1>3 DEF LoopTypes, LoopRuns
  <2> QED
    BY <2>1, <2>2
<1> QED
  BY <1>3, <1>6, <1>8, <1>9, OrderKept

\* It is rejected.
RejectStep(t, s, its2) ==
  /\ Ended(t) /\ items' = its2 /\ frames' = s
  /\ queue' = queue /\ finishing' = finishing /\ timers' = timers /\ delays' = delays
  /\ inProgress' = inProgress /\ loops' = loops /\ cut' = cut /\ lost' = lost
\* An animation that is rejected in a loop keeps the invariant.
LEMMA RejectedKeeps ==
  ASSUME EffectsInv, NEW f, NEW r, NEW e, NEW g, NEW s, NEW t, NEW st, NEW its2,
         EndStep(f, r, e, g, s, t, st, its2), ~ ToTheEnd(f), RejectStep(t, s, its2)
  PROVE  EffectsInv'
<1>0. /\ Ended(t) /\ items' = its2 /\ frames' = s
      /\ queue' = queue /\ finishing' = finishing /\ timers' = timers /\ delays' = delays
      /\ inProgress' = inProgress /\ loops' = loops /\ cut' = cut /\ lost' = lost
  BY DEF RejectStep
<1>1. PICK B, O, B1 : NotLost(B) /\ NotCut(O) /\ Without(B1, B, e)
  BY DEF NotLost, NotCut, Without
<1>2. /\ LoopOf(f, r, e) /\ s = <<g>> \o r /\ f.op \in {"stop", "finish"} /\ f.elem = e
      /\ t = timers[f.at]
  BY DEF EndStep, LoopOf
<1>3. f.op = "stop" /\ ~ f.gotoEnd /\ Dequeues(f)
  BY <1>2 DEF ToTheEnd, Dequeues
<1>4. /\ InOrder(queue, stopHook, finishing, its2, timers, delays, r, B1, O) /\ LoopTypes
      /\ e \in Animated /\ t \in 1..Len(its2) /\ its2[t].elem = e /\ its2[t].kind = items[t].kind
      /\ its2[t].stage = st /\ Onward(items, its2, t) /\ Len(its2) = Len(items)
      /\ FrameFits(g, its2) /\ g \in CallFrames /\ Same(g, f) /\ g.at = f.at /\ AlsoApart(g, queue, r)
      /\ r \in Seq(CallFrames) /\ TimersKept(its2, timers, delays, lost)
      /\ Range(frames) = {f} \cup Range(r) /\ Range(s) = {g} \cup Range(r)
  BY <1>1, EndsBehind
<1>5. InOrder(queue, stopHook', finishing, its2, timers, delays, r, B1, O)
      /\ unqueued' \in [Animated -> Int]
  <2>1. items[t].elem \in Animated
    BY <1>4 DEF Onward
  <2>2. InOrder(queue, stopHook, finishing, its2, timers, delays, r, B1, O)
    BY <1>4
  <2>3. unqueued \in [Animated -> Int]
    BY DEF EffectsInv, EffectTypes
  <2> QED
    BY <1>0, <2>1, <2>2, <2>3, EndedHook
<1>6. g.op = "stop" /\ g.elem = e /\ g.gotoEnd = f.gotoEnd
  BY <1>2, <1>3, <1>4 DEF Same
<1>7. e \in B => Busy(e, queue[e], its2, s)
  BY <1>3, <1>4, <1>6 DEF Busy, Owing
<1>8. ASSUME e \in O
      PROVE  OneOf(e, queue[e], stopHook'[e], finishing, its2, timers, delays, s)
  <2>1. Orderly(e, queue[e], stopHook'[e], finishing, its2, timers, delays, r)
    BY <1>5, <1>8 DEF InOrder
  <2>2. /\ NoneCompletes(r, items, e)
        /\ \A i \in delays : items[i].elem # e
        /\ \A n \in 1..Len(timers) : Up(items, timers[n], e) => n <= f.at
    BY <1>1, <1>2, <1>3, <1>8, LoopKnows
  <2>3. /\ items \in Seq(ItemRecords) /\ DelaysFit(delays, items) /\ TimersFit(timers, items)
        /\ \A h \in Range(r) : FrameFits(h, items)
    BY <1>4 DEF EffectsInv, Sound, FramesFit
  <2>4. NoneCompletes(r, its2, e)
    BY <1>4, <2>2, <2>3, CompletesOnward
  <2>5. \A i \in delays : its2[i].elem # e
    BY <1>4, <2>2, <2>3 DEF Onward, DelaysFit
  <2>6. \A n \in 1..Len(timers) : Up(its2, timers[n], e) => n <= g.at
    <3>1. SUFFICES ASSUME NEW n \in 1..Len(timers), Up(its2, timers[n], e) PROVE n <= f.at
      BY <1>4
    <3>2. timers[n] \in 1..Len(items) /\ st \in Over
      BY <1>4, <3>1 DEF Up, EndStep
    <3>3. timers[n] # t
      BY <1>4, <3>1, <3>2 DEF Up, Over
    <3>4. Up(items, timers[n], e)
      BY <1>4, <3>1, <3>2, <3>3 DEF Up, Onward
    <3> QED
      BY <2>2, <3>4
  <2> QED
    BY <1>2, <1>4, <1>6, <2>1, <2>4, <2>5, <2>6, StopOneOf
<1>9. LoopTypes' /\ finishing' \subseteq Animated
  <2>1. finishing' \subseteq Animated
    BY <1>0 DEF EffectsInv, EffectTypes
  <2>2. LoopTypes'
    BY <1>0, <1>4 DEF LoopTypes, LoopRuns
  <2> QED
    BY <2>1, <2>2
<1> QED
  <2>1. /\ g.op \in {"stop", "finish"} /\ g.elem \in Animated /\ s = <<g>> \o r /\ frames' = s
        /\ B = Animated \ lost' /\ O = Animated \ cut'
    BY <1>0, <1>1, <1>2, <1>4, <1>6, NotGivenUp
  <2>2. /\ FrameFits(g, items') /\ AlsoApart(g, queue', r)
        /\ InOrder(queue', stopHook', finishing', items', timers', delays', r, B1, O)
    BY <1>0, <1>4, <1>5
  <2>3. /\ g.elem \in B => Busy(g.elem, queue'[g.elem], items', s)
        /\ g.elem \in O => OneOf(g.elem, queue'[g.elem], stopHook'[g.elem], finishing', items', timers', delays', s)
    BY <1>0, <1>6, <1>7, <1>8
  <2>4. /\ \A d \in B : d = g.elem \/ d \in B1
        /\ \A d \in O : d = g.elem \/ d \in O
    BY <1>1, <1>6, WithoutOne
  <2>5. TimersKept(items', timers', delays', lost')
    BY <1>0, <1>4
  <2> QED
    BY <1>5, <1>9, <2>1, <2>2, <2>3, <2>4, <2>5, LoopKept

\* One timer in the loop of stop() and finish().
LEMMA EachTimerKeeps ==
  ASSUME EffectsInv, EachTimer
  PROVE  EffectsInv'
<1>1. PICK f, r, e, t, n : /\ f = Head(frames) /\ r = Outer /\ e = f.elem
                           /\ t = timers[f.at] /\ n = Len(timers)
  OBVIOUS
<1>2. /\ LoopOf(f, r, e) /\ f.at > 0
      /\ queue' = queue /\ finishing' = finishing /\ delays' = delays
      /\ inProgress' = inProgress /\ loops' = loops /\ cut' = cut
  BY <1>1 DEF EachTimer, In, LoopOf
<1>3. f.at \in Nat /\ n \in Nat /\ (f.at <= n => f.at \in 1..n)
  <2>1. PICK B, O, B1, O1 : /\ B \in SUBSET (Animated \ lost) /\ NotCut(O) /\ Without(B1, B, e)
                            /\ Unfinished(O1, O, f)
    BY DEF NotCut, Without, Unfinished
  <2>2. f.at \in Nat /\ n \in Nat
    BY <1>1, <1>2, <2>1, LoopBehind
  <2> QED
    BY <1>2, <2>2
<1>4. ASSUME NEW g, Goes(g, f, f.at - 1, 0), frames' = <<g>> \o r,
             NEW tms2, timers' = tms2, NEW lst2, lost' = lst2,
             Passes(f, timers, tms2, items, lost, lst2),
             UNCHANGED <<items, unqueued, stopHook>>
      PROVE  EffectsInv'
  <2>1. PICK s : s = <<g>> \o r
    OBVIOUS
  <2>2. PassStep(f, r, e, g, s, tms2, lst2)
    BY <1>2, <1>4, <2>1 DEF PassStep
  <2> QED
    BY <2>2, PassesKeeps
<1>5. CASE f.item # 0
  <2>1. PICK victim, tms2 : /\ victim = IF f.at > n \/ t = f.item THEN {} ELSE {t}
                            /\ tms2 = IF f.at > n THEN timers ELSE RemoveAt(timers, f.at)
    OBVIOUS
  <2>2. PICK g, lst2 : g = NextTimer(f) /\ lst2 = lost \cup {ElemOf(i) : i \in victim}
    OBVIOUS
  <2>3. /\ timers' = tms2 /\ frames' = <<g>> \o r
        /\ items' = items /\ unqueued' = unqueued /\ stopHook' = stopHook
    <3>1. timers' = tms2
      BY <1>1, <1>5, <2>1 DEF EachTimer
    <3>2. frames' = <<g>> \o r
      BY <1>1, <1>5, <2>2 DEF EachTimer, NextTimer
    <3>3. items' = items /\ unqueued' = unqueued /\ stopHook' = stopHook
      BY <1>1, <1>5 DEF EachTimer
    <3> QED
      BY <3>1, <3>2, <3>3
  <2>4. lost' = lst2
    <3>1. lost' = lost \cup {ElemOf(i) : i \in IF f.at > n \/ t = f.item THEN {} ELSE {t}}
      BY <1>1, <1>5 DEF EachTimer
    <3> QED
      BY <2>1, <2>2, <3>1
  <2>5. Goes(g, f, f.at - 1, 0)
    BY <2>2 DEF Goes
  <2>6. lost \subseteq lst2 /\ \A i \in victim : items[i].elem \in lst2
    BY <2>2 DEF ElemOf
  <2>7. victim = {} => lst2 = lost
    BY <2>2
  <2>8. Passes(f, timers, tms2, items, lost, lst2)
    <3>1. CASE f.at > n
      <4>1. victim = {}
        BY <2>1, <3>1
      <4>2. tms2 = timers
        BY <2>1, <3>1
      <4> QED
        BY <1>1, <1>5, <2>7, <3>1, <4>1, <4>2 DEF Passes
    <3>2. CASE f.at <= n
      <4>1. ~ (f.at > n)
        BY <1>3, <3>2
      <4>2. f.at \in 1..Len(timers) /\ tms2 = RemoveAt(timers, f.at)
        BY <1>1, <1>3, <2>1, <3>2, <4>1
      <4>4. ASSUME timers[f.at] # f.item PROVE items[timers[f.at]].elem \in lst2
        <5>1. t # f.item /\ t = timers[f.at]
          BY <1>1, <4>4
        <5>2. t \in victim
          BY <2>1, <4>1, <5>1
        <5> QED
          BY <2>6, <5>1, <5>2
      <4> QED
        BY <1>5, <2>6, <4>2, <4>4 DEF Passes
    <3> QED
      BY <1>3, <3>1, <3>2
  <2> QED
    BY <1>4, <2>3, <2>4, <2>5, <2>8
<1>6. CASE f.item = 0 /\ ~ Matches(f, t)
  <2>1. PICK g, tms2, lst2 : g = PassBy(f) /\ tms2 = timers /\ lst2 = lost
    OBVIOUS
  <2>2. /\ timers' = tms2 /\ lost' = lst2 /\ frames' = <<g>> \o r /\ f.at <= n
        /\ UNCHANGED <<items, unqueued, stopHook>>
    BY <1>1, <1>6, <2>1 DEF EachTimer, PassBy
  <2>3. Goes(g, f, f.at - 1, 0)
    BY <1>6, <2>1 DEF Goes
  <2>4. Passes(f, timers, tms2, items, lost, lst2)
    BY <1>1, <1>3, <1>6, <2>1, <2>2 DEF Passes
  <2> QED
    BY <1>4, <2>2, <2>3, <2>4
<1>7. CASE f.item = 0 /\ Matches(f, t)
  <2>1. PICK g, s, st, its2 : /\ g = EndedAt(f, t) /\ s = <<g>> \o r
                              /\ st = IF ToTheEnd(f) THEN "resolved" ELSE "rejected"
                              /\ its2 = StageOf(items, t, st)
    OBVIOUS
  <2>2. /\ IF ToTheEnd(f) THEN Resolve(t, s) ELSE Reject(t, s)
        /\ f.at <= n /\ timers' = timers /\ lost' = lost
    BY <1>1, <1>7, <2>1 DEF EachTimer, EndedAt
  <2>3. EndStep(f, r, e, g, s, t, st, its2)
    <3>1. st \in Over
      BY <2>1 DEF Over
    <3>2. f.at \in 1..Len(timers)
      BY <1>1, <1>3, <2>2
    <3> QED
      BY <1>1, <1>2, <1>7, <2>1, <3>1, <3>2 DEF EndStep
  <2>4. CASE ToTheEnd(f)
    <3>1. PICK s2 : s2 = <<CompleteFrame(t)>> \o s
      OBVIOUS
    <3>2. items' = its2 /\ frames' = s2 /\ unqueued' = unqueued /\ stopHook' = stopHook
      BY <2>1, <2>2, <2>4, <3>1 DEF Resolve, StageOf
    <3> QED
      BY <1>2, <2>2, <2>3, <2>4, <3>1, <3>2, EndedKeeps
  <2>5. CASE ~ ToTheEnd(f)
    <3>1. RejectStep(t, s, its2)
      BY <1>2, <2>1, <2>2, <2>5 DEF Reject, StageOf, RejectStep
    <3> QED
      BY <2>3, <2>5, <3>1, RejectedKeeps
  <2> QED
    BY <2>4, <2>5
<1> QED
  BY <1>5, <1>6, <1>7

\* The end of stop().
LEMMA StopReturnsKeeps ==
  ASSUME EffectsInv, StopReturns
  PROVE  EffectsInv'
<1>1. PICK f, r, e, n : f = Head(frames) /\ r = Outer /\ e = f.elem /\ n = Len(timers)
  OBVIOUS
<1>2. /\ LoopOf(f, r, e) /\ f.op = "stop" /\ f.at = 0
      /\ unqueued' = unqueued /\ finishing' = finishing /\ cut' = cut
  BY <1>1 DEF StopReturns, In, LoopOf
<1>3. PICK B, O, B1, O1, O2 :
        /\ B = Animated \ lost' /\ NotCut(O) /\ Without(B1, B, e) /\ Unfinished(O2, O, f)
        /\ Without(O1, O, e)
  BY DEF Without, Unfinished, NotCut
<1>4. /\ B1 \in SUBSET B /\ e \notin B1 /\ (\A d \in B : d = e \/ d \in B1)
      /\ O1 \in SUBSET O /\ e \notin O1 /\ (\A d \in O : d = e \/ d \in O1)
      /\ B \in SUBSET Animated /\ O \in SUBSET Animated /\ O2 = O /\ O = Animated \ cut'
  BY <1>2, <1>3, WithoutOne DEF Unfinished, NotCut
<1>5. lost \subseteq lost' /\ (Dequeues(f) => lost' = lost)
  BY <1>1 DEF StopReturns
<1>6. /\ InOrder(queue, stopHook, finishing, items, timers, delays, r, B1, O) /\ LoopTypes
      /\ e \in Animated /\ timers \in Seq(Nat) /\ n \in Nat /\ r \in Seq(CallFrames)
      /\ Range(frames) = {f} \cup Range(r)
  <2>1. B \in SUBSET (Animated \ lost)
    BY <1>3, <1>5
  <2> QED
    BY <1>1, <1>2, <1>3, <1>4, <2>1, LoopBehind
<1>7. TimersKept(items, timers, delays, lost')
  BY <1>5 DEF EffectsInv, TimersKept, KeepsTimer
<1>8. unqueued' \in [Animated -> Int] /\ finishing' \subseteq Animated
  BY <1>2 DEF EffectsInv, EffectTypes
<1>9. CASE Dequeues(f)
  <2>1. Dequeue(e, queue[e], items, delays, r)
    BY <1>1, <1>9 DEF StopReturns
  <2>2. InOrder(queue, stopHook, finishing, items, timers, delays, r, B1, O1)
    <3>1. B1 \in SUBSET B1
      OBVIOUS
    <3> QED
      BY <1>4, <1>6, <3>1, OrderLess
  <2>3. ASSUME e \in O PROVE Idle(e, finishing, items, timers, delays, r)
    <3>1. /\ NoneCompletes(r, items, e)
          /\ \A i \in delays : items[i].elem # e
          /\ \A k \in 1..Len(timers) : Up(items, timers[k], e) => k <= 0
      BY <1>2, <1>3, <1>9, <2>3, LoopKnows
    <3>2. Orderly(e, queue[e], stopHook[e], finishing, items, timers, delays, r)
      BY <1>6, <2>3 DEF InOrder
    <3>3. NoneOnWay(items, timers, delays, e)
      <4>1. SUFFICES ASSUME NEW i \in 1..Len(items), Up(items, i, e), i \in Range(timers) PROVE FALSE
        BY <3>1 DEF NoneOnWay, OnWay, Up
      <4>2. PICK k \in 1..Len(timers) : timers[k] = i
        BY <1>6, <4>1, HeldBySeq
      <4>3. k <= 0
        BY <3>1, <4>1, <4>2
      <4> QED
        BY <1>1, <1>6, <4>3
    <3> QED
      BY <3>1, <3>2, <3>3 DEF Idle, Orderly
  <2>4. QueueFits(queue[e], e, items, r) /\ (Sentinel \in Range(queue[e]) => Head(queue[e]) = Sentinel)
    BY <1>6, QueueBegins
  <2>5. PICK q : q = queue[e]
    OBVIOUS
  <2>6. /\ InOrder(queue', stopHook', finishing, items', timers', delays', frames', B, O)
        /\ LoopTypes' /\ TimersKept(items', timers', delays', lost')
    BY <1>4, <1>6, <1>7, <2>1, <2>2, <2>3, <2>4, <2>5, DequeueInOrder
  <2> QED
    BY <1>2, <1>3, <1>4, <1>8, <2>6, OrderKept
<1>10. CASE ~ Dequeues(f)
  <2>1. /\ lost' = IF f.owes THEN lost \cup {e} ELSE lost
        /\ frames' = r /\ queue' = queue /\ stopHook' = stopHook /\ items' = items
        /\ timers' = timers /\ delays' = delays /\ inProgress' = inProgress /\ loops' = loops
    BY <1>1, <1>10 DEF StopReturns
  <2>2. ASSUME e \in B PROVE Busy(e, queue[e], items, r)
    <3>1. Busy(e, queue[e], items, frames) /\ e \notin lost'
      BY <1>3, <1>5, <1>6, <2>2 DEF EffectsInv
    <3>2. ~ Owing(f, e) /\ ~ Completes(f, items, e)
      BY <1>2, <1>10, <2>1, <3>1 DEF Owing, Completes, Dequeues
    <3> QED
      BY <1>6, <3>1, <3>2 DEF Busy
  <2>3. e \in O => Orderly(e, queue[e], stopHook[e], finishing, items, timers, delays, r)
    BY <1>6 DEF InOrder
  <2>4. InOrder(queue, stopHook, finishing, items, timers, delays, r, B, O)
    <3>1. /\ B \in SUBSET Animated /\ O \in SUBSET Animated /\ e \in Animated
          /\ \A d \in B : d = e \/ d \in B1
          /\ InOrder(queue, stopHook, finishing, items, timers, delays, r, B1, O)
      BY <1>4, <1>6
    <3>2. PICK C : C = O
      OBVIOUS
    <3>3. InOrder(queue, stopHook, finishing, items, timers, delays, r, B, C)
      BY <2>2, <2>3, <3>1, <3>2, OrderMore
    <3> QED
      BY <3>2, <3>3
  <2>5. LoopTypes'
    BY <1>6, <2>1 DEF LoopTypes, LoopRuns
  <2> QED
    BY <1>2, <1>3, <1>4, <1>7, <1>8, <2>1, <2>4, <2>5, OrderKept
<1> QED
  BY <1>9, <1>10

\* finish() takes the first of what it has to do.
RestToDo(f) == [f EXCEPT !.todo = Tail(@)]
\* What is left to do fits, and the first of it waits nowhere else.
LEMMA ToDoLess ==
  ASSUME NEW its, NEW f, FrameFits(f, its), f.op = "finish", f.todo # <<>>,
         NEW qu, NEW r, AlsoApart(f, qu, r), NEW g, g = RestToDo(f), NEW i, i = Head(f.todo)
  PROVE  /\ FrameFits(g, its) /\ g \in CallFrames /\ g.op = "finish" /\ g.elem = f.elem
         /\ AlsoApart(g, qu, r)
         /\ i # Sentinel => /\ WaitsAt(its, i, f.elem) /\ i \notin Range(g.todo)
                            /\ \A e \in Animated : i \notin Range(qu[e])
                            /\ \A h \in Range(r) : h.op = "finish" => i \notin Range(h.todo)
<1>1. f \in FinishFrames
  BY DEF FrameFits, CallFrames, CompleteFrames, CreateFrames, TickFrames, StopFrames, FinishFrames
<1>2. PICK todo, rest : todo = f.todo /\ rest = Tail(todo)
  OBVIOUS
<1>3. todo \in Seq(Nat) /\ todo # <<>> /\ Once(todo)
  BY <1>1, <1>2 DEF FinishFrames, FrameFits
<1>4. Once(rest) /\ i \notin Range(rest) /\ Range(todo) = {i} \cup Range(rest) /\ rest \in Seq(Nat)
  <2>1. Once(rest) /\ i \notin Range(rest) /\ Range(todo) = {i} \cup Range(rest)
    BY <1>2, <1>3, OnceTail
  <2>2. rest \in Seq(Nat)
    BY <1>2, <1>3
  <2> QED
    BY <2>1, <2>2
<1>5. /\ g \in FinishFrames /\ g.op = "finish" /\ g.elem = f.elem /\ g.todo = rest
      /\ g.item = f.item
  BY <1>1, <1>2, <1>4 DEF RestToDo, FinishFrames
<1>6. FrameFits(g, its) /\ g \in CallFrames
  <2>1. g \in CallFrames
    BY <1>5 DEF CallFrames
  <2>2. \A j \in Range(rest) : j = Sentinel \/ WaitsAt(its, j, f.elem)
    BY <1>2, <1>4 DEF FrameFits
  <2>3. f.item \in 0..Len(its) /\ (f.item # 0 => its[f.item].stage \in Over)
    BY DEF FrameFits
  <2> QED
    BY <1>4, <1>5, <2>1, <2>2, <2>3 DEF FrameFits
<1>7. AlsoApart(g, qu, r)
  BY <1>2, <1>4, <1>5 DEF AlsoApart, Apart
<1>8. ASSUME i # Sentinel
      PROVE  /\ WaitsAt(its, i, f.elem)
             /\ \A e \in Animated : i \notin Range(qu[e])
             /\ \A h \in Range(r) : h.op = "finish" => i \notin Range(h.todo)
  BY <1>2, <1>4, <1>8 DEF FrameFits, AlsoApart, Apart
<1> QED
  BY <1>4, <1>5, <1>6, <1>7, <1>8

\* The rest of finish().
LEMMA FinishQueueKeeps ==
  ASSUME EffectsInv, FinishQueue
  PROVE  EffectsInv'
<1>1. PICK f, r, e, B, O, O1 : /\ f = Head(frames) /\ r = Outer /\ e = f.elem
                               /\ NotLost(B) /\ NotCut(O) /\ Unfinished(O1, O, f)
  BY DEF Unfinished, NotCut, NotLost
<1>2. /\ LoopOf(f, r, e) /\ f.op = "finish" /\ frames # <<>>
      /\ queue' = queue /\ stopHook' = stopHook /\ unqueued' = unqueued /\ delays' = delays
      /\ cut' = cut /\ lost' = lost
  BY <1>1 DEF FinishQueue, In, LoopOf
<1>3. /\ B \in SUBSET Animated /\ O \in SUBSET Animated /\ B \in SUBSET (Animated \ lost)
      /\ B = Animated \ lost' /\ O = Animated \ cut'
  BY <1>1, <1>2, NotGivenUp
<1>4. /\ e \in Animated /\ items \in Seq(ItemRecords) /\ Len(items) \in Nat
      /\ FrameFits(f, items) /\ AlsoApart(f, queue, r) /\ r \in Seq(CallFrames)
  <2>1. PICK B1 : Without(B1, B, e)
    BY DEF Without
  <2> QED
    BY <1>1, <1>2, <1>3, <2>1, LoopBehind
<1>5. InOrder(queue, stopHook, finishing, items, timers, delays, r, B, O1) /\ LoopTypes
  <2>1. O1 \in SUBSET (Animated \ cut)
    BY <1>1 DEF Unfinished, NotCut
  <2>2. /\ \A d \in B : ~ Completes(Head(frames), items, d) /\ ~ Owing(Head(frames), d)
        /\ \A d \in O1 : ~ (Head(frames).op = "finish" /\ Head(frames).elem = d)
    BY <1>1, <1>2 DEF Completes, Owing, Unfinished
  <2> QED
    BY <1>1, <1>2, <1>3, <2>1, <2>2, BehindInOrder
<1>6. TimersKept(items, timers, delays, lost)
  BY DEF EffectsInv
<1>7. unqueued' \in [Animated -> Int] /\ finishing \subseteq Animated
  BY <1>2 DEF EffectsInv, EffectTypes
<1>8. CASE f.todo = <<>>
  <2>1. PICK fin2 : fin2 = finishing \ {e}
    OBVIOUS
  <2>2. /\ finishing' = fin2 /\ frames' = r
        /\ items' = items /\ timers' = timers /\ inProgress' = inProgress /\ loops' = loops
    BY <1>1, <1>8, <2>1 DEF FinishQueue
  <2>3. fin2 \subseteq Animated /\ e \notin fin2 /\ (\A d \in fin2 : d \in finishing)
    BY <1>7, <2>1
  <2>4. InOrder(queue, stopHook, fin2, items, timers, delays, r, B, O1)
    BY <1>5, <2>3, OrderFinishing
  <2>5. ASSUME e \in O PROVE Orderly(e, queue[e], stopHook[e], fin2, items, timers, delays, r)
    <3>1. Idle(e, {}, items, timers, delays, r)
      BY <1>1, <1>2, <2>5, LoopKnows
    <3>2. Idle(e, fin2, items, timers, delays, r)
      BY <2>3, <3>1 DEF Idle
    <3>3. DelaysFit(delays, items)
      BY <1>5 DEF InOrder, Sound
    <3> QED
      BY <1>4, <3>2, <3>3, IdleOrderly
  <2>6. e \in B => Busy(e, queue[e], items, r)
    BY <1>5 DEF InOrder
  <2>7. \A d \in O : d = e \/ d \in O1
    BY <1>1 DEF Unfinished
  <2>8. InOrder(queue, stopHook, fin2, items, timers, delays, r, B, O)
    <3>1. PICK C : C = B
      OBVIOUS
    <3>2. InOrder(queue, stopHook, fin2, items, timers, delays, r, C, O)
      BY <1>3, <1>4, <2>4, <2>5, <2>6, <2>7, <3>1, OrderMore
    <3> QED
      BY <3>1, <3>2
  <2>9. LoopTypes'
    BY <1>5, <2>2 DEF LoopTypes, LoopRuns
  <2> QED
    BY <1>2, <1>3, <1>6, <1>7, <2>2, <2>3, <2>8, <2>9, OrderKept
<1>9. CASE f.todo # <<>>
  <2>1. PICK i, g, s : i = Head(f.todo) /\ g = RestToDo(f) /\ s = <<g>> \o r
    OBVIOUS
  <2>2. /\ finishing' = finishing
        /\ IF i # Sentinel /\ items[i].kind # "delay"
             THEN Animation(i, items, s)
             ELSE /\ frames' = s /\ items' = items /\ timers' = timers
                  /\ inProgress' = inProgress /\ loops' = loops
    BY <1>1, <1>9, <2>1 DEF FinishQueue, RestToDo
  <2>3. /\ FrameFits(g, items) /\ g \in CallFrames /\ g.op = "finish" /\ g.elem = e
        /\ AlsoApart(g, queue, r)
        /\ i # Sentinel => /\ WaitsAt(items, i, e) /\ i \notin Range(g.todo)
                           /\ \A d \in Animated : i \notin Range(queue[d])
                           /\ \A h \in Range(r) : h.op = "finish" => i \notin Range(h.todo)
    <3>1. /\ FrameFits(f, items) /\ f.op = "finish" /\ f.todo # <<>> /\ AlsoApart(f, queue, r)
          /\ g = RestToDo(f) /\ i = Head(f.todo)
      BY <1>2, <1>4, <1>9, <2>1
    <3>2. /\ FrameFits(g, items) /\ g \in CallFrames /\ g.op = "finish" /\ g.elem = f.elem
          /\ AlsoApart(g, queue, r)
      BY <3>1, ToDoLess
    <3>3. i # Sentinel => /\ WaitsAt(items, i, f.elem) /\ i \notin Range(g.todo)
                          /\ \A d \in Animated : i \notin Range(queue[d])
                          /\ \A h \in Range(r) : h.op = "finish" => i \notin Range(h.todo)
      BY <3>1, ToDoLess
    <3> QED
      BY <1>1, <3>2, <3>3
  <2>4. e \notin O
    BY <1>1, <1>2, <1>9, LoopKnows
  <2>5. O1 = O
    BY <1>1, <2>4 DEF Unfinished
  <2>6. InOrder(queue, stopHook, finishing, items, timers, delays, s, B, O)
    <3>1. \A d \in O : ~ Completes(g, items, d) /\ ~ (g.op = "finish" /\ g.elem = d)
      BY <2>3, <2>4 DEF Completes
    <3>2. g.op = "stop" => ~ Dequeues(g)
      BY <2>3
    <3>3. InOrder(queue, stopHook, finishing, items, timers, delays, <<g>> \o r, B, O)
      BY <1>5, <2>3, <2>5, <3>1, <3>2, OrderPush
    <3> QED
      BY <2>1, <3>3
  <2>7. CASE ~ (i # Sentinel /\ items[i].kind # "delay")
    <3>1. /\ frames' = s /\ items' = items /\ timers' = timers
          /\ inProgress' = inProgress /\ loops' = loops
      BY <2>2, <2>7
    <3>2. LoopTypes'
      BY <1>5, <3>1 DEF LoopTypes, LoopRuns
    <3> QED
      BY <1>2, <1>3, <1>6, <1>7, <2>2, <2>6, <3>1, <3>2, OrderKept
  <2>8. CASE i # Sentinel /\ items[i].kind # "delay"
    <3>1. Animation(i, items, s)
      BY <2>2, <2>8
    <3>2. i \in 1..Len(items) /\ items[i].stage = "waiting" /\ items[i].elem = e
      BY <2>3, <2>8 DEF WaitsAt
    <3>3. Unplaced(i, queue, s)
      <4>1. Range(s) = {g} \cup Range(r)
        BY <1>4, <2>1, <2>3, FrameBefore
      <4> QED
        BY <2>3, <2>8, <4>1 DEF Unplaced
    <3>4. /\ InOrder(queue, stopHook, finishing, items', timers', delays, frames', B, O)
          /\ LoopTypes'
          /\ Onward(items, items', i) /\ Len(items') = Len(items)
          /\ Range(timers') = Range(timers) \cup {i}
      BY <1>5, <2>4, <2>6, <2>8, <3>1, <3>2, <3>3, OrderAnimation
    <3>5. TimersKept(items', timers', delays, lost)
      <4>1. SUFFICES ASSUME NEW j \in 1..Len(items'), items'[j].stage = "running",
                            items'[j].elem \notin lost
                     PROVE  j \in delays \/ j \in Range(timers')
        BY DEF TimersKept, KeepsTimer
      <4>2. CASE j = i
        BY <3>4, <4>2
      <4>3. CASE j # i
        <5>1. j \in 1..Len(items) /\ items'[j] = items[j]
          BY <3>4, <4>1, <4>3 DEF Onward
        <5> QED
          BY <1>6, <3>4, <4>1, <5>1 DEF TimersKept, KeepsTimer
      <4> QED
        BY <4>2, <4>3
    <3> QED
      BY <1>2, <1>3, <1>7, <2>2, <3>4, <3>5, OrderKept
  <2> QED
    BY <2>7, <2>8
<1> QED
  BY <1>8, <1>9

-----------------------------------------------------------------------------
\* Every step keeps the invariant, and the invariant is what is to be shown.

\* The invariant holds of a page on which nothing was asked for.
LEMMA EffectsBegin ==
  ASSUME EffectsInit
  PROVE  EffectsInv
<1>1. PICK s : s = <<>>
  OBVIOUS
<1>2. /\ items = s /\ timers = s /\ frames = s /\ delays = {} /\ finishing = {}
      /\ queue = [e \in Animated |-> s] /\ stopHook = [e \in Animated |-> 0]
      /\ unqueued = [e \in Animated |-> 0] /\ inProgress = FALSE /\ loops = 0
  BY <1>1 DEF EffectsInit
<1>3. /\ s \in Seq(ItemRecords) /\ s \in Seq(Nat) /\ s \in Seq(CallFrames)
      /\ Len(s) = 0 /\ 1..Len(s) = {} /\ Range(s) = {}
  <2>1. Range(s) = {}
    BY <1>1, EmptyFits
  <2> QED
    BY <1>1, <2>1
<1>4. EffectTypes
  <2>1. unqueued \in [Animated -> Int]
    BY <1>2
  <2>2. loops \in Nat /\ finishing \subseteq Animated
    BY <1>2
  <2>3. inProgress \in BOOLEAN
    BY <1>2
  <2> QED
    BY <2>1, <2>2, <2>3 DEF EffectTypes
<1>5. Sound(queue, stopHook, items, timers, delays, frames)
  <2>1. TimersFit(timers, items) /\ DelaysFit(delays, items)
    BY <1>2, <1>3 DEF TimersFit, DelaysFit
  <2>2. HooksFit(stopHook, items)
    BY <1>2 DEF HooksFit
  <2>3. FramesFit(frames, items) /\ TodosApart(frames)
    BY <1>2, <1>3 DEF FramesFit, TodosApart
  <2>4. QueuesFit(queue, items, frames)
    BY <1>2, <1>3 DEF QueuesFit, QueueFits, Once, NotToDo
  <2> QED
    BY <1>2, <1>3, <2>1, <2>2, <2>3, <2>4 DEF Sound
<1>6. SentinelFirst /\ LoopRuns /\ TimersKept(items, timers, delays, lost) /\ SpareBelow(frames)
  BY <1>1, <1>2, <1>3 DEF SentinelFirst, LoopRuns, TimersKept, SpareBelow
<1>7. \A e \in Animated : Busy(e, queue[e], items, frames)
  BY <1>1, <1>2 DEF Busy
<1>8. \A e \in Animated : OneOf(e, queue[e], stopHook[e], finishing, items, timers, delays, frames)
  <2>1. TAKE e \in Animated
  <2>2. Alone(e, queue[e], items, timers, delays, frames)
    BY <1>2, <1>3 DEF Alone, OneCompletes, NoneOnWay, NoneCompletes
  <2>3. HookKnown(e, stopHook[e], items, delays) /\ NoEmpty(e, items)
    BY <1>2, <1>3 DEF HookKnown, NoEmpty
  <2>4. NoFinish(e, frames) /\ e \notin finishing
    BY <1>2, <1>3 DEF NoFinish
  <2>5. StopsAll(e, items, timers, delays, frames)
    BY <1>1, <1>2 DEF StopsAll
  <2> QED
    BY <2>2, <2>3, <2>4, <2>5 DEF OneOf
<1> QED
  BY <1>4, <1>5, <1>6, <1>7, <1>8 DEF EffectsInv

\* Every step keeps the invariant.
LEMMA EffectsStep ==
  ASSUME EffectsInv, [EffectsNext]_effectVars
  PROVE  EffectsInv'
<1>1. CASE UNCHANGED effectVars
  BY <1>1 DEF effectVars, EffectsInv, EffectTypes, SentinelFirst, LoopRuns
<1>2. ASSUME NEW e \in Animated, NEW kind \in {"animation", "delay"}, Ask(e, kind) PROVE EffectsInv'
  BY <1>2, AskKeeps
<1>3. ASSUME NEW e \in Animated,
             AskUnqueued(e) \/ AskEmpty(e) \/ ClearQueue(e) \/ Finish(e)
      PROVE  EffectsInv'
  BY <1>3, AskUnqueuedKeeps, AskEmptyKeeps, ClearQueueKeeps, FinishKeeps
<1>4. ASSUME NEW e \in Animated, NEW clear \in BOOLEAN, NEW gotoEnd \in BOOLEAN, Stop(e, clear, gotoEnd)
      PROVE  EffectsInv'
  BY <1>4, StopKeeps
<1>5. CASE CompleteReturns \/ CompleteThrows \/ Created
  BY <1>5, CompleteReturnsKeeps, CompleteThrowsKeeps, CreatedKeeps
<1>6. CASE Tick \/ EachTimer \/ TimerMissing
  BY <1>6, TickKeeps, EachTimerKeeps, TimerMissingKeeps
<1>7. CASE StopReturns \/ FinishQueue \/ Frame
  BY <1>7, StopReturnsKeeps, FinishQueueKeeps, FrameKeeps
<1>8. ASSUME NEW i \in delays, DelayEnds(i) PROVE EffectsInv'
  BY <1>8, DelayEndsKeeps
<1> QED
  BY <1>1, <1>2, <1>3, <1>4, <1>5, <1>6, <1>7, <1>8 DEF EffectsNext

\* A set whose members are equal has one at most.
LEMMA AtMostOne ==
  ASSUME NEW S, \A a \in S, b \in S : a = b
  PROVE  IsFiniteSet(S) /\ Cardinality(S) \in {0, 1} /\ (S = {} => Cardinality(S) = 0)
<1>1. CASE S = {}
  BY <1>1, FS_EmptySet
<1>2. CASE S # {}
  <2>1. PICK a : a \in S
    BY <1>2
  <2>2. S = {a}
    BY <2>1
  <2> QED
    BY <1>2, <2>2, FS_Singleton
<1> QED
  BY <1>1, <1>2

\* The invariant implies that one of an element is in progress.
LEMMA InvOneInProgress ==
  ASSUME EffectsInv
  PROVE  OneInProgress
<1>1. /\ timers \in Seq(Nat) /\ frames \in Seq(CallFrames)
  BY DEF EffectsInv, Sound, TimersFit, FramesFit
<1>2. ASSUME NEW e \in Animated \ cut
      PROVE  Cardinality(Going(e)) + Cardinality(Completing(e)) <= 1
  <2>1. Alone(e, queue[e], items, timers, delays, frames)
    BY DEF EffectsInv, OneOf
  <2>2. \A i \in Going(e) : i \in 1..Len(items) /\ OnWay(items, timers, delays, i, e)
    BY <1>1, HeldBySeq DEF Going, Started, ElemOf, InQueue, Running, OnWay, Up
  <2>3. \A i \in Going(e), j \in Going(e) : i = j
    BY <2>1, <2>2 DEF Alone
  <2>4. \A j \in Completing(e), k \in Completing(e) : j = k
    <3>1. \A k \in Completing(e) : k \in 1..Len(frames) /\ Completes(frames[k], items, e)
      BY DEF Completing, Completes, ElemOf, InQueue
    <3> QED
      BY <2>1, <3>1 DEF Alone, OneCompletes
  <2>5. Going(e) = {} \/ Completing(e) = {}
    BY <2>1, <2>2, CompletingNone DEF Alone, NoneOnWay
  <2>6. /\ Cardinality(Going(e)) \in {0, 1} /\ (Going(e) = {} => Cardinality(Going(e)) = 0)
        /\ Cardinality(Completing(e)) \in {0, 1} /\ (Completing(e) = {} => Cardinality(Completing(e)) = 0)
    BY <2>3, <2>4, AtMostOne
  <2> QED
    BY <2>5, <2>6
<1>3. ASSUME NEW e \in Animated \ lost, queue[e] # <<>>
      PROVE  \/ Started(e) # {} \/ Completing(e) # {}
             \/ \E k \in 1..Len(frames) : frames[k].op = "stop" /\ frames[k].elem = e
  <2>1. Busy(e, queue[e], items, frames)
    BY DEF EffectsInv
  <2>2. CASE \E i \in 1..Len(items) : Up(items, i, e)
    BY <2>2 DEF Up, Started, ElemOf, InQueue, Running
  <2>3. ASSUME NEW f \in Range(frames), Completes(f, items, e) PROVE Completing(e) # {}
    BY <2>3, CompletingNone DEF NoneCompletes
  <2>4. ASSUME NEW f \in Range(frames), Owing(f, e)
        PROVE  \E k \in 1..Len(frames) : frames[k].op = "stop" /\ frames[k].elem = e
    BY <1>1, <2>4, HeldBySeq DEF Owing
  <2> QED
    BY <1>3, <2>1, <2>2, <2>3, <2>4 DEF Busy
<1> QED
  BY <1>2, <1>3 DEF OneInProgress, OneAtATime, NeverStalls

\* It implies that the timers run.
LEMMA InvTimersRun ==
  ASSUME EffectsInv
  PROVE  TimersRun
<1>1. timers \in Seq(Nat)
  BY DEF EffectsInv, Sound, TimersFit
<1>2. timers # <<>> => inProgress /\ loops > 0
  BY DEF EffectsInv, LoopRuns
<1>3. ASSUME NEW i \in 1..Len(items), Running(i), ElemOf(i) \notin lost
      PROVE  i \in delays \/ Contains(timers, i)
  BY <1>1, <1>3, HeldBySeq DEF EffectsInv, TimersKept, KeepsTimer, Running, ElemOf
<1> QED
  BY <1>2, <1>3 DEF TimersRun

\* One queued animation or delay of an element is on its way at a time, its
\* complete callback included, unless the page gave up the sentinel itself; and
\* while a queue is not empty, something of its element is in progress that will
\* dequeue (jquery.js queue(), dequeue(), stop(), finish() and the fx timers).
THEOREM QueuesAdvance == EffectsSpec => []OneInProgress
<1>1. EffectsInit => EffectsInv
  BY EffectsBegin
<1>2. EffectsInv /\ [EffectsNext]_effectVars => EffectsInv'
  BY EffectsStep
<1>3. EffectsInv => OneInProgress
  BY InvOneInProgress
<1> QED
  BY <1>1, <1>2, <1>3, PTL DEF EffectsSpec

\* Whatever callbacks do to jQuery.timers in the middle of a loop over it, an
\* animation that is not over keeps its timer, and a frame is asked for while
\* there are timers (jquery.js fx.tick(), fx.timer() and schedule()).
THEOREM TimersGoOn == EffectsSpec => []TimersRun
<1>1. EffectsInit => EffectsInv
  BY EffectsBegin
<1>2. EffectsInv /\ [EffectsNext]_effectVars => EffectsInv'
  BY EffectsStep
<1>3. EffectsInv => TimersRun
  BY InvTimersRun
<1> QED
  BY <1>1, <1>2, <1>3, PTL DEF EffectsSpec
=============================================================================
