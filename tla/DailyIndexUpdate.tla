--------------------------- MODULE DailyIndexUpdate ---------------------------
(***************************************************************************)
(* The task UpdateOfDailyIndex: a run reads the rows of its day once, then *)
(* asks the quote source for every stock without one and inserts what was  *)
(* traded that day.  Nothing keeps two runs apart, the inserts are not one *)
(* transaction, and an exception or a crash leaves the rest of the list    *)
(* to a later run.  The calendar and the source go on meanwhile.           *)
(*                                                                         *)
(* The rows are asked for by the local date, GMT+8; a quote is compared    *)
(* with the date in GMT, which before 08:00 is the day before.             *)
(*                                                                         *)
(* A call that never returns is a thread that takes no further step: the   *)
(* safety properties hold with it, as no fairness is assumed for them.     *)
(***************************************************************************)
EXTENDS Integers, Bags, BagsExt

CONSTANTS
  Threads,  \* request threads
  Stocks,   \* listed A shares and indices
  NoStock,  \* no stock
  LastDay,  \* bound on the calendar
  MaxCopies \* bound: copies of a row inserted by a thread's runs before 08:00

ASSUME StocksAssumption == NoStock \notin Stocks
ASSUME LastDayAssumption == LastDay \in Nat \ {0}
ASSUME MaxCopiesAssumption == MaxCopies \in Nat

VARIABLES
  today,    \* the calendar, by local time
  early,    \* it is before 08:00
  quote,    \* per stock: what the source answers
  trades,   \* history: the days each stock was traded on
  rows,     \* the table daily_index, a bag: two rows may say the same
  pc,       \* per thread: where the run stands
  day,      \* per thread: date, the local date the rows are asked for by
  currentDate,  \* per thread: currentDateStr, its date in GMT
  todo,     \* per thread: stocks of the list still to come, without a row
  got       \* per thread: the stock and day about to be inserted

threadVars == <<pc, day, currentDate, todo, got>>
sourceVars == <<today, early, quote, trades>>
vars == <<sourceVars, rows, threadVars>>

\* Day 0 is the day before the model's calendar.
Days == 0 .. LastDay

\* A quote's date, and whether opening price, volume and value are positive.
Quote == [day: Days, traded: BOOLEAN]

NoRow == [stock |-> NoStock, day |-> 0]

\* by and early are history: the thread, and that its run began before 08:00.
Row == [stock: Stocks, day: Days, by: Threads, early: BOOLEAN]

Table == BagToSet(rows)

TypeOK ==
  /\ today \in Days \ {0} /\ early \in BOOLEAN
  /\ quote \in [Stocks -> Quote]
  /\ trades \subseteq Stocks \X Days
  /\ IsABag(rows) /\ Table \subseteq Row
  /\ pc \in [Threads -> {"idle", "reading", "looping", "inserting"}]
  /\ day \in [Threads -> Days] /\ currentDate \in [Threads -> Days]
  /\ todo \in [Threads -> SUBSET Stocks]
  /\ got \in [Threads -> [stock: Stocks \cup {NoStock}, day: Days]]

Init ==
  /\ today = 1 /\ early = FALSE
  /\ quote = [s \in Stocks |-> [day |-> 0, traded |-> TRUE]]
  /\ trades = Stocks \X {0}
  /\ rows = EmptyBag
  /\ pc = [t \in Threads |-> "idle"]
  /\ day = [t \in Threads |-> 0] /\ currentDate = [t \in Threads |-> 0]
  /\ todo = [t \in Threads |-> {}]
  /\ got = [t \in Threads |-> NoRow]

-----------------------------------------------------------------------------
NextDay ==
  /\ today < LastDay
  /\ today' = today + 1 /\ early' = TRUE
  /\ UNCHANGED <<quote, trades, rows, threadVars>>

\* 08:00: the day begins in GMT.
Morning ==
  /\ early
  /\ early' = FALSE
  /\ UNCHANGED <<today, quote, trades, rows, threadVars>>

\* The source dates a quote today when the exchange opens, later than 08:00 and
\* before any trade; a suspended stock keeps its old quote or gets no trade.
Open(s) ==
  /\ ~ early
  /\ quote[s].day < today
  /\ quote' = [quote EXCEPT ![s] = [day |-> today, traded |-> FALSE]]
  /\ UNCHANGED <<today, early, trades, rows, threadVars>>

Trade(s) ==
  /\ quote[s].day = today /\ ~ quote[s].traded
  /\ quote' = [quote EXCEPT ![s].traded = TRUE]
  /\ trades' = trades \cup {<<s, today>>}
  /\ UNCHANGED <<today, early, rows, threadVars>>

Source == NextDay \/ Morning \/ \E s \in Stocks : Open(s) \/ Trade(s)

-----------------------------------------------------------------------------
\* What org.apache.http's DateUtils.formatDate makes of the present time.
GmtDate == IF early THEN today - 1 ELSE today

\* The list of stocks is read and the date is taken.
Start(t) ==
  /\ pc[t] = "idle"
  /\ early => \A r \in Table : r.by = t /\ r.early => rows[r] < MaxCopies
  /\ pc' = [pc EXCEPT ![t] = "reading"]
  /\ day' = [day EXCEPT ![t] = today]
  /\ currentDate' = [currentDate EXCEPT ![t] = GmtDate]
  /\ UNCHANGED <<sourceVars, rows, todo, got>>

\* Mutant: the rows of every day.
StockIdListAllDays(d) == {r.stock : r \in Table}

\* getDailyIndexListByDate, and stockIdList made of it.
StockIdList(d) == {r.stock : r \in {q \in Table : q.day = d}}

ReadDay(t) ==
  /\ pc[t] = "reading"
  /\ todo' = [todo EXCEPT ![t] = Stocks \ StockIdList(day[t])]
  /\ pc' = [pc EXCEPT ![t] = "looping"]
  /\ UNCHANGED <<sourceVars, rows, day, currentDate, got>>

\* Mutants: the day is not compared, the trade is not.
WantedAnyDay(q, d) == q.traded
WantedUntraded(q, d) == q.day = d

\* The quotes that become a row, in a run whose currentDateStr is d.
Wanted(q, d) == q.traded /\ q.day = d

\* The next stock of the list: its quote is wanted, or it is passed over.
Fetch(t) ==
  /\ pc[t] = "looping"
  /\ \E s \in todo[t] :
       /\ todo' = [todo EXCEPT ![t] = @ \ {s}]
       /\ \/ /\ Wanted(quote[s], currentDate[t])
             /\ got' = [got EXCEPT ![t] = [stock |-> s, day |-> quote[s].day]]
             /\ pc' = [pc EXCEPT ![t] = "inserting"]
          \/ /\ ~ Wanted(quote[s], currentDate[t])
             /\ UNCHANGED <<pc, got>>
  /\ UNCHANGED <<sourceVars, rows, day, currentDate>>

\* The source does not know the stock, or answers something else.
NoAnswer(t) ==
  /\ pc[t] = "looping"
  /\ \E s \in todo[t] : todo' = [todo EXCEPT ![t] = @ \ {s}]
  /\ UNCHANGED <<sourceVars, rows, pc, day, currentDate, got>>

NewRow(t) == [stock |-> got[t].stock, day |-> got[t].day,
              by |-> t, early |-> currentDate[t] # day[t]]

\* dailyIndexDao.save: an insert of its own, with the date of the quote.
Insert(t) ==
  /\ pc[t] = "inserting"
  /\ rows' = BagAdd(rows, NewRow(t))
  /\ pc' = [pc EXCEPT ![t] = "looping"]
  /\ got' = [got EXCEPT ![t] = NoRow]
  /\ UNCHANGED <<sourceVars, day, currentDate, todo>>

\* The thread's locals are gone.
Leave(t) ==
  /\ pc' = [pc EXCEPT ![t] = "idle"]
  /\ day' = [day EXCEPT ![t] = 0]
  /\ currentDate' = [currentDate EXCEPT ![t] = 0]
  /\ todo' = [todo EXCEPT ![t] = {}]
  /\ got' = [got EXCEPT ![t] = NoRow]
  /\ UNCHANGED <<sourceVars, rows>>

EndRun(t) ==
  /\ pc[t] = "looping" /\ todo[t] = {}
  /\ Leave(t)

\* Calls are left to make.
Unfinished(t) == pc[t] \in {"reading", "inserting"} \/ todo[t] # {}

\* The source, the parser or the database throws: the loop has no catch.
Abort(t) == Unfinished(t) /\ Leave(t)

\* The process is killed and started again.
Crash ==
  /\ pc' = [t \in Threads |-> "idle"]
  /\ day' = [t \in Threads |-> 0]
  /\ currentDate' = [t \in Threads |-> 0]
  /\ todo' = [t \in Threads |-> {}]
  /\ got' = [t \in Threads |-> NoRow]
  /\ UNCHANGED <<sourceVars, rows>>

Work(t) == ReadDay(t) \/ Fetch(t) \/ Insert(t) \/ EndRun(t)

Run(t) == Start(t) \/ Work(t) \/ NoAnswer(t) \/ Abort(t)

Next == Source \/ Crash \/ \E t \in Threads : Run(t)

Spec == Init /\ [][Next]_vars

-----------------------------------------------------------------------------
\* Two rows of one stock and day come from two threads, that is from runs that
\* overlapped, or the later one from a run begun before 08:00, which is given
\* the rows of the new day and takes the quotes of the old.  From 08:00 on one
\* thread's runs never repeat a row, however they are cut short and repeated,
\* and over midnight.
OneRowPerThread == \A r \in Table : ~ r.early => rows[r] = 1

\* A row stands for a day its stock was traded on, also when it is inserted on
\* a later day: a quote from before the day's first trade never becomes a row.
RowsAreTraded == \A r \in Table : <<r.stock, r.day>> \in trades

HasRow(s, d) == \E r \in Table : r.stock = s /\ r.day = d

-----------------------------------------------------------------------------
\* The operator, or the cron job that posts executeTask, goes on starting runs.
FairSpec ==
  /\ Spec
  /\ \A t \in Threads : WF_vars(Start(t)) /\ WF_vars(Work(t))

\* A run is cut short, or gets no answer about a stock it should insert.
Fault ==
  \E t \in Threads :
    \/ Unfinished(t) /\ pc'[t] = "idle"
    \/ /\ pc[t] = "looping" /\ pc'[t] = "looping"
       /\ \E s \in todo[t] \ todo'[t] : Wanted(quote[s], currentDate[t])

\* What is traded gets its row while the day lasts (here: on the last day),
\* if the runs meet with faults only finitely often.
TradesGetRows ==
  <>[][~ Fault]_vars =>
    \A s \in Stocks : <<s, LastDay>> \in trades ~> HasRow(s, LastDay)

=============================================================================
