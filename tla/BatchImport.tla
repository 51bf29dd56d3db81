------------------------------ MODULE BatchImport ------------------------------
(***************************************************************************)
(* StockServiceImpl.saveDailyIndexFromFile: one call hands a file for each *)
(* stock to the bounded pool, handles what the pool rejects itself, and    *)
(* then polls a counter of the sub tasks under way.  The pool is           *)
(* java.util.concurrent.ThreadPoolExecutor as AppConfig sets it up.        *)
(***************************************************************************)
EXTENDS Integers, Sequences, FiniteSets

CONSTANTS
  Stocks,         \* the A shares, one file each
  CorePoolSize,
  MaxPoolSize,
  QueueCapacity

ASSUME PoolAssumption ==
  /\ CorePoolSize \in Nat /\ MaxPoolSize \in Nat \ {0} /\ QueueCapacity \in Nat
  /\ CorePoolSize <= MaxPoolSize

VARIABLES
  pc,        \* where the call stands
  list,      \* stocks still to be submitted
  rejected,  \* the stock the call handles itself
  stage,     \* per stock: where its sub task is
  queue,     \* the pool's queue
  poolSize,  \* threads of the pool
  counter,   \* atomicInteger
  handled    \* history: how often a stock's file was handled

vars == <<pc, list, rejected, stage, queue, poolSize, counter, handled>>

Held == {"taken", "counted", "handled"}

TypeOK ==
  /\ pc \in {"submitting", "handling", "polling", "sleeping", "returned"}
  /\ list \subseteq Stocks
  /\ rejected \subseteq Stocks
  /\ stage \in [Stocks -> {"none", "queued", "finished"} \cup Held]
  /\ queue \in Seq(Stocks)
  /\ poolSize \in 0 .. MaxPoolSize
  /\ counter \in 0 .. MaxPoolSize
  /\ handled \in [Stocks -> Nat]

Init ==
  /\ pc = "submitting"
  /\ list = Stocks
  /\ rejected = {}
  /\ stage = [s \in Stocks |-> "none"]
  /\ queue = << >>
  /\ poolSize = 0
  /\ counter = 0
  /\ handled = [s \in Stocks |-> 0]

-----------------------------------------------------------------------------
\* Threads of the pool without a sub task.
Idle == poolSize - Cardinality({s \in Stocks : stage[s] \in Held})

QueueFull == Len(queue) >= QueueCapacity

\* A new thread takes the sub task at once: below the core size, and again
\* when the queue is full.
NewThread == poolSize < CorePoolSize \/ (QueueFull /\ poolSize < MaxPoolSize)

Submit ==
  /\ pc = "submitting"
  /\ \E s \in list :
       /\ list' = list \ {s}
       /\ \/ /\ NewThread
             /\ poolSize' = poolSize + 1
             /\ stage' = [stage EXCEPT ![s] = "taken"]
             /\ UNCHANGED <<queue, rejected, pc>>
          \/ /\ poolSize >= CorePoolSize /\ ~ QueueFull
             /\ queue' = Append(queue, s)
             /\ stage' = [stage EXCEPT ![s] = "queued"]
             /\ UNCHANGED <<poolSize, rejected, pc>>
          \/ /\ poolSize = MaxPoolSize /\ QueueFull
             /\ rejected' = {s}
             /\ pc' = "handling"
             /\ UNCHANGED <<queue, stage, poolSize>>
  /\ UNCHANGED <<counter, handled>>

\* handleStockDaily catches what it throws, so that it always returns.
HandleStockDaily(s) == handled' = [handled EXCEPT ![s] = @ + 1]

\* Mutant: a rejected stock is only logged.
HandleRejectedLogged ==
  /\ pc = "handling"
  /\ rejected' = {}
  /\ pc' = "submitting"
  /\ UNCHANGED <<list, stage, queue, poolSize, counter, handled>>

\* Mutant: the rejected stock is submitted again as well.
HandleRejectedAgain ==
  /\ pc = "handling"
  /\ \E s \in rejected : HandleStockDaily(s) /\ list' = list \cup {s}
  /\ rejected' = {}
  /\ pc' = "submitting"
  /\ UNCHANGED <<stage, queue, poolSize, counter>>

\* After RejectedExecutionException the call sleeps and handles the file.
HandleRejected ==
  /\ pc = "handling"
  /\ \E s \in rejected : HandleStockDaily(s)
  /\ rejected' = {}
  /\ pc' = "submitting"
  /\ UNCHANGED <<list, stage, queue, poolSize, counter>>

EndOfList ==
  /\ pc = "submitting" /\ list = {}
  /\ pc' = "polling"
  /\ UNCHANGED <<list, rejected, stage, queue, poolSize, counter, handled>>

\* while (atomicInteger.get() <= 0): log "sub task is not completed", sleep.
Poll ==
  /\ pc = "polling"
  /\ pc' = IF counter <= 0 THEN "sleeping" ELSE "returned"
  /\ UNCHANGED <<list, rejected, stage, queue, poolSize, counter, handled>>

WakeUp ==
  /\ pc = "sleeping"
  /\ pc' = "polling"
  /\ UNCHANGED <<list, rejected, stage, queue, poolSize, counter, handled>>

-----------------------------------------------------------------------------
\* A thread of the pool: takes the head of the queue, counts itself in,
\* handles the file, counts itself out.
Take ==
  /\ queue # << >> /\ Idle > 0
  /\ stage' = [stage EXCEPT ![Head(queue)] = "taken"]
  /\ queue' = Tail(queue)
  /\ UNCHANGED <<pc, list, rejected, poolSize, counter, handled>>

CountIn(s) ==
  /\ stage[s] = "taken"
  /\ counter' = counter + 1
  /\ stage' = [stage EXCEPT ![s] = "counted"]
  /\ UNCHANGED <<pc, list, rejected, queue, poolSize, handled>>

Handle(s) ==
  /\ stage[s] = "counted"
  /\ HandleStockDaily(s)
  /\ stage' = [stage EXCEPT ![s] = "handled"]
  /\ UNCHANGED <<pc, list, rejected, queue, poolSize, counter>>

\* The finally block.
CountOut(s) ==
  /\ stage[s] = "handled"
  /\ counter' = counter - 1
  /\ stage' = [stage EXCEPT ![s] = "finished"]
  /\ UNCHANGED <<pc, list, rejected, queue, poolSize, handled>>

\* A thread above the core size ends after keepAliveSeconds without work.
ThreadEnds ==
  /\ Idle > 0 /\ queue = << >> /\ poolSize > CorePoolSize
  /\ poolSize' = poolSize - 1
  /\ UNCHANGED <<pc, list, rejected, stage, queue, counter, handled>>

Call == Submit \/ HandleRejected \/ EndOfList \/ Poll \/ WakeUp
Pool == Take \/ ThreadEnds \/ \E s \in Stocks : CountIn(s) \/ Handle(s) \/ CountOut(s)

Next == Call \/ Pool

Spec == Init /\ [][Next]_vars

-----------------------------------------------------------------------------
\* A file is handled by the pool or by the call, never by both or twice.
HandledOnce == \A s \in Stocks : handled[s] <= 1

\* When the call says "sub task is not completed" and goes on polling, some
\* sub task is not finished.
WaitsForSubTasks ==
  [][pc = "polling" /\ pc' = "sleeping" =>
       \E s \in Stocks : stage[s] \in {"queued"} \cup Held]_vars

-----------------------------------------------------------------------------
\* The call's thread runs, and so do the pool's: files are local and finite.
FairSpec ==
  /\ Spec
  /\ WF_vars(Call)
  /\ WF_vars(Take)
  /\ \A s \in Stocks : WF_vars(CountIn(s) \/ Handle(s) \/ CountOut(s))

\* Every file is handled in the end, also those rejected, and those still
\* queued when the call returns.
EveryFileHandled == <>(\A s \in Stocks : handled[s] > 0)

=============================================================================
