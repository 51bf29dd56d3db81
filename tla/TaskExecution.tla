----------------------------- MODULE TaskExecution -----------------------------
(***************************************************************************)
(* SystemController and TaskServiceImpl.executeTask over the table         *)
(* execute_info.  A request reads the enabled rows of one task and runs    *)
(* them one after the other; requests run on threads of their own and      *)
(* nothing marks a row as being run.  What a task does is left to the      *)
(* modules of the tasks; here its body ends well, throws or never returns. *)
(*                                                                         *)
(* The two times a run writes are represented by the number of the run,    *)
(* which is the order of the start times.                                  *)
(***************************************************************************)
EXTENDS Integers, Sequences, FiniteSets

CONSTANTS
  Threads,     \* request threads
  Rows,        \* ids of execute_info
  TaskOf,      \* execute_info.task_id
  KnownTasks,  \* ids Task.valueOf knows
  QuietTasks,  \* tasks whose body cannot throw: the empty ones and BeginOfDay
  MaxRuns      \* bound on the runs

ASSUME RowsAssumption == Rows \subseteq Nat /\ TaskOf \in [Rows -> Nat]

VARIABLES
  state,    \* execute_info.state
  record,   \* execute_info.start_time, complete_time (a run) and message
  runs,     \* history: row and result of each run, and whether it was written
  beside,   \* history: per run, the runs under way when it started
  pc,       \* per thread: where the request stands
  todo,     \* per thread: rows of the list still to be run
  cur,      \* per thread: the run under way, 0: none
  asked     \* per thread: history, the id that was posted

tableVars == <<state, record>>
threadVars == <<pc, todo, cur, asked>>
vars == <<tableVars, runs, beside, threadVars>>

Completed == 0
Pending == 2

\* The empty message a run begins with.
NoMessage == "no message"

NoRecord == [run |-> 0, message |-> NoMessage]

Ids == Rows \cup {TaskOf[r] : r \in Rows}

Run == [row: Rows, result: {"running", "done", "failed"}, told: BOOLEAN]

TypeOK ==
  /\ state \in [Rows -> {Completed, Pending}]
  /\ record \in [Rows -> [run: Nat, message: {NoMessage, "error"}]]
  /\ runs \in Seq(Run) /\ beside \in Seq(SUBSET Nat)
  /\ pc \in [Threads -> {"idle", "looping", "running", "reporting", "saving", "hung"}]
  /\ todo \in [Threads -> SUBSET Rows]
  /\ cur \in [Threads -> Nat]
  /\ asked \in [Threads -> Ids \cup {0}]

Init ==
  /\ state \in [Rows -> {Completed, Pending}]
  /\ record = [r \in Rows |-> NoRecord]
  /\ runs = << >> /\ beside = << >>
  /\ pc = [t \in Threads |-> "idle"]
  /\ todo = [t \in Threads |-> {}]
  /\ cur = [t \in Threads |-> 0]
  /\ asked = [t \in Threads |-> 0]

-----------------------------------------------------------------------------
\* Mutant: any state is taken, InProgress (1) as well.
ChangeTaskStateUnchecked ==
  /\ \E r \in Rows, s \in 0 .. 2 : state' = [state EXCEPT ![r] = s]
  /\ UNCHANGED <<record, runs, beside, threadVars>>

\* The operator enables or disables a row; other states are refused, an id
\* no row has changes nothing.
ChangeTaskState ==
  /\ \E r \in Rows, s \in {Completed, Pending} : state' = [state EXCEPT ![r] = s]
  /\ UNCHANGED <<record, runs, beside, threadVars>>

\* getByTaskIdAndState: the posted id is compared with the task's id.
PendingRows(id) == {r \in Rows : TaskOf[r] = id /\ state[r] = Pending}

\* POST executeTask: the list of rows is read once.
Execute(t) ==
  /\ pc[t] = "idle"
  /\ \E id \in Ids : /\ todo' = [todo EXCEPT ![t] = PendingRows(id)]
                     /\ asked' = [asked EXCEPT ![t] = id]
  /\ pc' = [pc EXCEPT ![t] = "looping"]
  /\ UNCHANGED <<tableVars, runs, beside, cur>>

\* executeTask begins with the next row; whether it is still enabled is not
\* looked at again, nor whether it is being run.
StartRun(t) ==
  /\ pc[t] = "looping"
  /\ Len(runs) < MaxRuns
  /\ \E r \in todo[t] :
       /\ TaskOf[r] \in KnownTasks
       /\ runs' = Append(runs, [row |-> r, result |-> "running", told |-> FALSE])
       /\ todo' = [todo EXCEPT ![t] = @ \ {r}]
  /\ beside' = Append(beside, {cur[u] : u \in Threads} \ {0})
  /\ cur' = [cur EXCEPT ![t] = Len(runs')]
  /\ pc' = [pc EXCEPT ![t] = "running"]
  /\ UNCHANGED <<tableVars, asked>>

RowOf(t) == runs[cur[t]].row

\* The body returns.
BodyDone(t) ==
  /\ pc[t] = "running"
  /\ runs' = [runs EXCEPT ![cur[t]].result = "done"]
  /\ pc' = [pc EXCEPT ![t] = "saving"]
  /\ UNCHANGED <<tableVars, beside, todo, cur, asked>>

\* The body throws: the message is kept, and a notice is to be sent.
BodyFails(t) ==
  /\ pc[t] = "running"
  /\ TaskOf[RowOf(t)] \notin QuietTasks
  /\ runs' = [runs EXCEPT ![cur[t]].result = "failed"]
  /\ pc' = [pc EXCEPT ![t] = "reporting"]
  /\ UNCHANGED <<tableVars, beside, todo, cur, asked>>

\* Mutant: the body is run again after the notice.
SendNoticeRetry(t) ==
  /\ pc[t] = "reporting"
  /\ pc' = [pc EXCEPT ![t] = "running"]
  /\ runs' = [runs EXCEPT ![cur[t]].result = "running"]
  /\ UNCHANGED <<tableVars, beside, todo, cur, asked>>

\* messageService.send in the catch block.
SendNotice(t) ==
  /\ pc[t] = "reporting"
  /\ pc' = [pc EXCEPT ![t] = "saving"]
  /\ UNCHANGED <<tableVars, runs, beside, todo, cur, asked>>

\* Mutant: the message of an earlier run stays.
MessageKept(n) == IF runs[n].result = "done" THEN record[runs[n].row].message
                                             ELSE "error"

\* The message a run ends with: none unless its body threw.
MessageOf(n) == IF runs[n].result = "done" THEN NoMessage ELSE "error"

\* Mutant: the whole row is written back as it was read.
SaveWholeRow(t) ==
  /\ pc[t] = "saving"
  /\ record' = [record EXCEPT ![RowOf(t)] =
                  [run |-> cur[t], message |-> MessageOf(cur[t])]]
  /\ state' = [state EXCEPT ![RowOf(t)] = Pending]
  /\ runs' = [runs EXCEPT ![cur[t]].told = TRUE]
  /\ pc' = [pc EXCEPT ![t] = "looping"]
  /\ cur' = [cur EXCEPT ![t] = 0]
  /\ UNCHANGED <<beside, todo, asked>>

\* Mutant: a row that has its times keeps them.
SaveFirst(t) ==
  /\ pc[t] = "saving"
  /\ record' = [record EXCEPT ![RowOf(t)] =
                  IF @.run # 0 THEN @
                  ELSE [run |-> cur[t], message |-> MessageOf(cur[t])]]
  /\ runs' = [runs EXCEPT ![cur[t]].told = TRUE]
  /\ pc' = [pc EXCEPT ![t] = "looping"]
  /\ cur' = [cur EXCEPT ![t] = 0]
  /\ UNCHANGED <<state, beside, todo, asked>>

\* executeInfoDao.update: both times and the message, and never the state.
Save(t) ==
  /\ pc[t] = "saving"
  /\ record' = [record EXCEPT ![RowOf(t)] =
                  [run |-> cur[t], message |-> MessageOf(cur[t])]]
  /\ runs' = [runs EXCEPT ![cur[t]].told = TRUE]
  /\ pc' = [pc EXCEPT ![t] = "looping"]
  /\ cur' = [cur EXCEPT ![t] = 0]
  /\ UNCHANGED <<state, beside, todo, asked>>

Leave(t, p) ==
  /\ pc' = [pc EXCEPT ![t] = p]
  /\ todo' = [todo EXCEPT ![t] = {}]
  /\ cur' = [cur EXCEPT ![t] = 0]
  /\ asked' = [asked EXCEPT ![t] = 0]
  /\ UNCHANGED <<tableVars, runs, beside>>

EndRequest(t) ==
  /\ pc[t] = "looping" /\ todo[t] = {}
  /\ Leave(t, "idle")

\* An exception nobody catches ends the request with the rest of its list:
\* an unknown task id, a notice that cannot be sent, a failing update.
Escape(t) ==
  /\ \/ pc[t] = "looping" /\ \E r \in todo[t] : TaskOf[r] \notin KnownTasks
     \/ pc[t] \in {"reporting", "saving"}
  /\ Leave(t, "idle")

\* A call of the body never returns.
Hang(t) ==
  /\ pc[t] \in {"running", "reporting"}
  /\ Leave(t, "hung")

\* The process is killed and started again.
Crash ==
  /\ pc' = [t \in Threads |-> "idle"]
  /\ todo' = [t \in Threads |-> {}]
  /\ cur' = [t \in Threads |-> 0]
  /\ asked' = [t \in Threads |-> 0]
  /\ UNCHANGED <<tableVars, runs, beside>>

Request(t) ==
  \/ Execute(t) \/ StartRun(t)
  \/ BodyDone(t) \/ BodyFails(t) \/ SendNotice(t)
  \/ Save(t) \/ EndRequest(t) \/ Escape(t) \/ Hang(t)

Next == ChangeTaskState \/ Crash \/ \E t \in Threads : Request(t)

Spec == Init /\ [][Next]_vars

-----------------------------------------------------------------------------
(***************************************************************************)
(* The board this table is to its operator.                                *)
(***************************************************************************)
ResultOf(r) == IF record[r].run = 0 THEN "none"
               ELSE IF record[r].message = NoMessage THEN "done" ELSE "failed"

Board == INSTANCE TaskBoard WITH
  enabled <- {r \in Rows : state[r] = Pending},
  shown <- [r \in Rows |-> [run |-> record[r].run, result |-> ResultOf(r)]]

\* Rows are enabled and disabled by the operator alone, whatever runs, and a
\* row only ever shows the result of one finished run of its own, never a
\* mixture of two and never the same run twice.
ImplementsBoard == Board!BoardSpec

\* A row shows an older run than one that was written only if the newer began
\* beside it: runs that follow one another, also those of different requests,
\* of requests cut short or before and after a restart, are shown in order.
OlderRunOverlapped ==
  \A n \in DOMAIN runs :
    LET shownRun == record[runs[n].row].run
    IN runs[n].told /\ n > shownRun => shownRun \in beside[n]

\* A row's message is empty only when the run it shows ended well.
SuccessShownIsReal ==
  \A r \in Rows : record[r].run # 0 =>
    /\ record[r].run \in DOMAIN runs
    /\ runs[record[r].run].row = r
    /\ record[r].message = NoMessage <=> runs[record[r].run].result = "done"

\* The task list calls the two columns "latest start time" and "latest
\* completion time": no run of the row that was written started later.
LatestRunShown ==
  \A r \in Rows : \A n \in DOMAIN runs :
    runs[n].row = r /\ runs[n].told => n <= record[r].run

\* The task list posts the id of the row whose button was pressed: that row
\* is the one that is run.
RunsTheRowPressed ==
  \A t \in Threads : cur[t] # 0 /\ asked[t] \in Rows => RowOf(t) = asked[t]

-----------------------------------------------------------------------------
FairSpec ==
  Spec /\ \A t \in Threads :
    WF_vars(StartRun(t) \/ BodyDone(t) \/ BodyFails(t) \/ SendNotice(t)
            \/ Save(t) \/ Escape(t) \/ EndRequest(t))

\* Every request is answered, with an error or not, unless a call hangs (or
\* the bound on runs is reached).
RequestEnds ==
  \A t \in Threads :
    pc[t] # "idle" ~> pc[t] \in {"idle", "hung"} \/ Len(runs) = MaxRuns

=============================================================================
