--------------------------- MODULE BatchImportProofs ---------------------------
(***************************************************************************)
(* Proofs about BatchImport, for every set of stocks and every pool.       *)
(***************************************************************************)
EXTENDS BatchImport, TLAPS

Stages == {"none", "queued", "finished"} \cup Held

ImportTypes ==
  /\ list \subseteq Stocks
  /\ rejected \subseteq Stocks
  /\ stage \in [Stocks -> Stages]
  /\ queue \in Seq(Stocks)
  /\ handled \in [Stocks -> Nat]

\* A stock that was not submitted, or was rejected, has no sub task.
CallInv ==
  /\ \A s \in list : stage[s] = "none" /\ s \notin rejected
  /\ \A s \in rejected : stage[s] = "none"

\* The queue holds each stock once, and only sub tasks that no thread took.
QueueInv ==
  /\ \A i \in DOMAIN queue : stage[queue[i]] = "queued"
  /\ \A i, j \in DOMAIN queue : queue[i] = queue[j] => i = j

\* What is still to be handled was not handled.
ToHandle(s) == s \in list \/ s \in rejected \/ stage[s] \in {"queued", "taken", "counted"}
OnceInv == \A s \in Stocks : handled[s] <= 1 /\ (ToHandle(s) => handled[s] = 0)

ImportInv == ImportTypes /\ CallInv /\ QueueInv /\ OnceInv

-----------------------------------------------------------------------------
LEMMA ImportInit == Init => ImportInv
<1> SUFFICES ASSUME Init PROVE ImportInv
  OBVIOUS
<1>1. ImportTypes
  BY DEF Init, ImportTypes, Stages
<1>2. CallInv /\ QueueInv
  BY DEF Init, CallInv, QueueInv
<1>3. OnceInv
  BY DEF Init, OnceInv
<1> QED
  BY <1>1, <1>2, <1>3 DEF ImportInv

\* A stock leaves the list: to a thread, to the queue or to the call itself.
LEMMA SubmitStep ==
  ASSUME ImportInv, Submit
  PROVE  ImportInv'
<1> USE DEF ImportInv
<1>1. PICK s \in list :
       /\ list' = list \ {s}
       /\ \/ stage' = [stage EXCEPT ![s] = "taken"] /\ UNCHANGED <<queue, rejected>>
          \/ /\ queue' = Append(queue, s) /\ stage' = [stage EXCEPT ![s] = "queued"]
             /\ UNCHANGED rejected
          \/ rejected' = {s} /\ UNCHANGED <<queue, stage>>
  BY DEF Submit
<1>2. s \in Stocks /\ stage[s] = "none" /\ s \notin rejected /\ handled[s] = 0 /\ handled' = handled
  BY DEF Submit, ImportTypes, CallInv, OnceInv, ToHandle
<1>3. \A i \in DOMAIN queue : queue[i] # s /\ queue[i] \in Stocks
  BY <1>2 DEF QueueInv, ImportTypes
<1>4. CASE stage' = [stage EXCEPT ![s] = "taken"] /\ UNCHANGED <<queue, rejected>>
  <2>1. ImportTypes'
    BY <1>1, <1>2, <1>4 DEF ImportTypes, Stages, Held
  <2>2. CallInv' /\ QueueInv'
    BY <1>1, <1>2, <1>3, <1>4 DEF CallInv, QueueInv, ImportTypes
  <2>3. OnceInv'
    BY <1>1, <1>2, <1>4 DEF OnceInv, ToHandle, ImportTypes
  <2> QED
    BY <2>1, <2>2, <2>3
<1>5. CASE /\ queue' = Append(queue, s) /\ stage' = [stage EXCEPT ![s] = "queued"]
           /\ UNCHANGED rejected
  <2>1. ImportTypes'
    BY <1>1, <1>2, <1>5 DEF ImportTypes, Stages
  <2>2. CallInv'
    BY <1>1, <1>2, <1>5 DEF CallInv, ImportTypes
  <2>3. QueueInv'
    <3>1. /\ DOMAIN queue' = 1 .. Len(queue) + 1
          /\ \A i \in DOMAIN queue' : queue'[i] = IF i \in DOMAIN queue THEN queue[i] ELSE s
      BY <1>2, <1>5 DEF ImportTypes
    <3>2. \A i \in DOMAIN queue' \ DOMAIN queue : i = Len(queue) + 1
      BY <3>1 DEF ImportTypes
    <3> QED
      BY <1>2, <1>3, <1>5, <3>1, <3>2 DEF QueueInv, ImportTypes
  <2>4. OnceInv'
    BY <1>1, <1>2, <1>5 DEF OnceInv, ToHandle, ImportTypes
  <2> QED
    BY <2>1, <2>2, <2>3, <2>4
<1>6. CASE rejected' = {s} /\ UNCHANGED <<queue, stage>>
  BY <1>1, <1>2, <1>6 DEF ImportTypes, CallInv, QueueInv, OnceInv, ToHandle
<1> QED
  BY <1>1, <1>4, <1>5, <1>6

\* The call handles the rejected file itself.
LEMMA HandleRejectedStep ==
  ASSUME ImportInv, HandleRejected
  PROVE  ImportInv'
<1> USE DEF ImportInv
<1>1. PICK s \in rejected : handled' = [handled EXCEPT ![s] = @ + 1]
  BY DEF HandleRejected, HandleStockDaily
<1>2. rejected' = {} /\ UNCHANGED <<list, stage, queue>>
  BY DEF HandleRejected
<1>3. s \in Stocks /\ s \notin list /\ stage[s] = "none" /\ handled[s] = 0
  BY DEF ImportTypes, CallInv, OnceInv, ToHandle
<1>4. ImportTypes'
  BY <1>1, <1>2, <1>3 DEF ImportTypes
<1>5. CallInv' /\ QueueInv'
  BY <1>2 DEF CallInv, QueueInv
<1>6. OnceInv'
  BY <1>1, <1>2, <1>3 DEF OnceInv, ToHandle, ImportTypes
<1> QED
  BY <1>4, <1>5, <1>6

\* A thread takes the sub task at the head of the queue.
LEMMA TakeStep ==
  ASSUME ImportInv, Take
  PROVE  ImportInv'
<1> USE DEF ImportInv
<1> DEFINE s == Head(queue)
<1>1. /\ queue # << >> /\ queue' = Tail(queue)
      /\ stage' = [stage EXCEPT ![s] = "taken"]
      /\ UNCHANGED <<list, rejected, handled>>
  BY DEF Take
<1>2. s = queue[1] /\ 1 \in DOMAIN queue /\ s \in Stocks
  BY <1>1 DEF ImportTypes
<1>3. stage[s] = "queued" /\ handled[s] = 0
  BY <1>2 DEF QueueInv, OnceInv, ToHandle
<1>4. /\ DOMAIN queue' = 1 .. Len(queue) - 1
      /\ \A i \in DOMAIN queue' : queue'[i] = queue[i + 1] /\ i + 1 \in DOMAIN queue /\ i + 1 # 1
  BY <1>1 DEF ImportTypes
<1>5. ImportTypes'
  BY <1>1, <1>2 DEF ImportTypes, Stages, Held
<1>6. CallInv'
  BY <1>1, <1>3 DEF CallInv, ImportTypes
<1>7. QueueInv'
  <2>1. \A i \in DOMAIN queue' : queue'[i] # s /\ queue'[i] \in Stocks
    BY <1>2, <1>4 DEF QueueInv, ImportTypes
  <2>2. \A i, j \in DOMAIN queue' : queue'[i] = queue'[j] => i = j
    <3> SUFFICES ASSUME NEW i \in DOMAIN queue', NEW j \in DOMAIN queue', queue'[i] = queue'[j]
                 PROVE  i = j
      OBVIOUS
    <3>1. i + 1 = j + 1
      BY <1>4 DEF QueueInv
    <3> QED
      BY <1>4, <3>1
  <2> QED
    BY <1>1, <1>4, <2>1, <2>2 DEF QueueInv, ImportTypes
<1>8. OnceInv'
  BY <1>1, <1>2, <1>3 DEF OnceInv, ToHandle, ImportTypes
<1> QED
  BY <1>5, <1>6, <1>7, <1>8

\* A thread of the pool with a sub task.
LEMMA SubTaskStep ==
  ASSUME ImportInv, NEW s \in Stocks, CountIn(s) \/ Handle(s) \/ CountOut(s)
  PROVE  ImportInv'
<1> USE DEF ImportInv
<1>1. UNCHANGED <<list, rejected, queue>> /\ stage[s] \in Held
  BY DEF CountIn, Handle, CountOut, Held
<1>2. /\ stage' \in [Stocks -> Stages]
      /\ \A r \in Stocks \ {s} : stage'[r] = stage[r] /\ handled'[r] = handled[r]
      /\ handled' \in [Stocks -> Nat]
  <2>1. /\ \E g \in Stages : stage' = [stage EXCEPT ![s] = g]
        /\ handled' = handled \/ handled' = [handled EXCEPT ![s] = @ + 1]
    BY DEF CountIn, Handle, CountOut, HandleStockDaily, Stages, Held
  <2>2. stage \in [Stocks -> Stages] /\ handled \in [Stocks -> Nat]
    BY DEF ImportTypes
  <2>3. /\ stage' \in [Stocks -> Stages]
        /\ \A r \in Stocks \ {s} : stage'[r] = stage[r]
    BY <2>1, <2>2
  <2>4. /\ handled' \in [Stocks -> Nat]
        /\ \A r \in Stocks \ {s} : handled'[r] = handled[r]
    BY <2>1, <2>2
  <2> QED
    BY <2>3, <2>4
<1>3. ImportTypes'
  BY <1>1, <1>2 DEF ImportTypes
<1>4. s \notin list /\ s \notin rejected /\ \A i \in DOMAIN queue : queue[i] # s
  BY <1>1 DEF CallInv, QueueInv, Held
<1>5. CallInv'
  BY <1>1, <1>2, <1>4 DEF CallInv, ImportTypes
<1>6. QueueInv'
  BY <1>1, <1>2, <1>4 DEF QueueInv, ImportTypes
<1>7. handled'[s] <= 1 /\ (ToHandle(s)' => handled'[s] = 0)
  <2>1. CASE CountIn(s)
    BY <2>1 DEF CountIn, OnceInv, ToHandle
  <2>2. CASE Handle(s)
    <3>1. handled'[s] = 1 /\ stage'[s] = "handled"
      BY <2>2 DEF Handle, HandleStockDaily, OnceInv, ToHandle, ImportTypes
    <3> QED
      BY <1>1, <1>4, <3>1 DEF ToHandle
  <2>3. CASE CountOut(s)
    <3>1. handled' = handled /\ stage'[s] = "finished"
      BY <2>3 DEF CountOut, ImportTypes
    <3> QED
      BY <1>1, <1>4, <3>1 DEF ToHandle, OnceInv
  <2> QED
    BY <2>1, <2>2, <2>3
<1>8. OnceInv'
  BY <1>1, <1>2, <1>7 DEF OnceInv, ToHandle
<1> QED
  BY <1>3, <1>5, <1>6, <1>8

LEMMA ImportNext == ImportInv /\ [Next]_vars => ImportInv'
<1> SUFFICES ASSUME ImportInv, [Next]_vars PROVE ImportInv'
  OBVIOUS
<1>1. CASE UNCHANGED <<list, rejected, stage, queue, handled>>
  BY <1>1 DEF ImportInv, ImportTypes, CallInv, QueueInv, OnceInv, ToHandle
<1>2. CASE EndOfList \/ Poll \/ WakeUp \/ ThreadEnds \/ UNCHANGED vars
  BY <1>1, <1>2 DEF EndOfList, Poll, WakeUp, ThreadEnds, vars
<1> QED
  BY <1>2, SubmitStep, HandleRejectedStep, TakeStep, SubTaskStep DEF Next, Call, Pool

\* saveDailyIndexFromFile: no file is handled twice, by the pool and the call
\* or by two threads, for every number of files and every size of the pool.
THEOREM HandledOnceAlways == Spec => []HandledOnce
<1>1. ImportInv => HandledOnce
  BY DEF ImportInv, OnceInv, HandledOnce
<1> QED
  BY ImportInit, ImportNext, <1>1, PTL DEF Spec
=============================================================================
