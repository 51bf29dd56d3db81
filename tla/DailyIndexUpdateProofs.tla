------------------------ MODULE DailyIndexUpdateProofs ------------------------
(***************************************************************************)
(* Proofs about DailyIndexUpdate, for every set of stocks and threads and  *)
(* every calendar, with any number of aborted and crashed runs.            *)
(***************************************************************************)
EXTENDS DailyIndexUpdate, TLAPS

\* Thread t inserted a row of stock s for day d.
Inserted(t, s, d) == \E r \in Table : r.by = t /\ r.stock = s /\ r.day = d

\* The run of thread t began at 08:00 or later.
DatesAgree(t) == currentDate[t] = day[t]

\* What a run is still to look at, or about to insert, its thread has not
\* inserted, if the rows it was given are those of the quotes it takes.
RunInvOf(t) ==
  /\ pc[t] \in {"looping", "inserting"} /\ DatesAgree(t) =>
       \A s \in todo[t] : ~ Inserted(t, s, day[t])
  /\ pc[t] = "inserting" =>
       /\ got[t].stock \in Stocks \ todo[t]
       /\ got[t].day = currentDate[t]
       /\ DatesAgree(t) => ~ Inserted(t, got[t].stock, day[t])
       /\ <<got[t].stock, got[t].day>> \in trades

RunInv == \A t \in Threads : RunInvOf(t)

\* A quote with a volume is of a day the stock was traded on.
QuoteInv ==
  \A s \in Stocks : quote[s].traded = TRUE => <<s, quote[s].day>> \in trades

IInv == TypeOK /\ RunInv /\ QuoteInv /\ OneRowPerThread /\ RowsAreTraded

-----------------------------------------------------------------------------
LEMMA InitIInv == Init => IInv
<1> SUFFICES ASSUME Init PROVE IInv
  OBVIOUS
<1>1. 0 \in Days /\ 1 \in Days
  BY LastDayAssumption DEF Days
<1>2. rows = EmptyBag /\ IsABag(EmptyBag) /\ Table = {}
  BY DEF Init, EmptyBag, SetToBag, IsABag, Table, BagToSet
<1>3. TypeOK
  <2>1. today \in Days \ {0} /\ early \in BOOLEAN /\ trades \subseteq Stocks \X Days
    <3>1. today = 1 /\ early = FALSE /\ trades = Stocks \X {0}
      BY DEF Init
    <3>2. Stocks \X {0} \subseteq Stocks \X Days
      BY <1>1
    <3>3. trades \subseteq Stocks \X Days
      BY <3>1, <3>2, Zenon
    <3>4. today \in Days \ {0}
      BY <1>1, <3>1
    <3>5. early \in BOOLEAN
      BY <3>1, Zenon
    <3> QED
      BY <3>3, <3>4, <3>5
  <2>2. quote \in [Stocks -> Quote]
    BY <1>1 DEF Init, Quote
  <2>3. IsABag(rows) /\ Table \subseteq Row
    BY <1>2
  <2>4. /\ pc \in [Threads -> {"idle", "reading", "looping", "inserting"}]
        /\ day \in [Threads -> Days] /\ currentDate \in [Threads -> Days]
        /\ todo \in [Threads -> SUBSET Stocks]
        /\ got \in [Threads -> [stock: Stocks \cup {NoStock}, day: Days]]
    BY <1>1 DEF Init, NoRow
  <2> QED
    BY <2>1, <2>2, <2>3, <2>4 DEF TypeOK
<1>4. RunInv /\ QuoteInv /\ OneRowPerThread /\ RowsAreTraded
  BY <1>2 DEF Init, RunInv, RunInvOf, QuoteInv, OneRowPerThread, RowsAreTraded
<1> QED
  BY <1>3, <1>4 DEF IInv

\* The calendar and the source leave table and runs alone.
LEMMA SourceStep ==
  ASSUME IInv, Source
  PROVE  IInv'
<1>1. UNCHANGED <<rows, pc, day, currentDate, todo, got>> /\ trades \subseteq trades'
  BY DEF Source, NextDay, Morning, Open, Trade, threadVars
<1>2. UNCHANGED Table
  BY <1>1 DEF Table
<1>3. RunInv' /\ OneRowPerThread' /\ RowsAreTraded'
  BY <1>1, <1>2 DEF IInv, RunInv, RunInvOf, DatesAgree, Inserted, OneRowPerThread,
                    RowsAreTraded
<1>4. TypeOK' /\ QuoteInv'
  <2>1. CASE NextDay
    <3>1. today' \in Days \ {0} /\ early' \in BOOLEAN
      BY <2>1, LastDayAssumption DEF IInv, TypeOK, NextDay, Days
    <3> QED
      BY <2>1, <3>1, <1>1, <1>2 DEF IInv, TypeOK, QuoteInv, NextDay
  <2>2. CASE Morning
    BY <2>2, <1>1, <1>2 DEF IInv, TypeOK, QuoteInv, Morning
  <2>3. ASSUME NEW s \in Stocks, Open(s) PROVE TypeOK' /\ QuoteInv'
    <3>1. /\ quote' = [quote EXCEPT ![s] = [day |-> today, traded |-> FALSE]]
          /\ UNCHANGED <<today, early, trades>>
      BY <2>3 DEF Open
    <3>2. quote' \in [Stocks -> Quote]
      BY <3>1 DEF IInv, TypeOK, Quote
    <3> QED
      BY <1>1, <1>2, <3>1, <3>2 DEF IInv, TypeOK, QuoteInv
  <2>4. ASSUME NEW s \in Stocks, Trade(s) PROVE TypeOK' /\ QuoteInv'
    <3>1. /\ quote[s].day = today /\ UNCHANGED <<today, early>>
          /\ quote' = [quote EXCEPT ![s].traded = TRUE]
          /\ trades' = trades \cup {<<s, today>>}
      BY <2>4 DEF Trade
    <3>2. quote' \in [Stocks -> Quote] /\ quote'[s].day = today
      BY <3>1 DEF IInv, TypeOK, Quote
    <3>3. QuoteInv'
      BY <3>1, <3>2 DEF IInv, TypeOK, QuoteInv
    <3> QED
      BY <1>1, <1>2, <3>1, <3>2, <3>3 DEF IInv, TypeOK
  <2> QED
    BY <2>1, <2>2, <2>3, <2>4 DEF Source
<1> QED
  BY <1>3, <1>4 DEF IInv

\* What a thread's locals are when no run is under way.
LEMMA Blank == 0 \in Days /\ NoRow \in [stock: Stocks \cup {NoStock}, day: Days]
BY LastDayAssumption DEF Days, NoRow

\* A run that starts, reads, looks at a stock or ends leaves the table alone.
LEMMA RunStep ==
  ASSUME IInv, NEW t \in Threads,
         Start(t) \/ ReadDay(t) \/ Fetch(t) \/ NoAnswer(t) \/ EndRun(t) \/ Abort(t)
  PROVE  IInv'
<1>1. UNCHANGED <<today, early, quote, trades, rows, Table>>
  BY DEF Start, ReadDay, Fetch, NoAnswer, EndRun, Abort, Leave, sourceVars, Table
<1>2. QuoteInv' /\ OneRowPerThread' /\ RowsAreTraded'
  BY <1>1 DEF IInv, QuoteInv, OneRowPerThread, RowsAreTraded
<1>3. CASE Start(t)
  <2>1. GmtDate \in Days
    BY LastDayAssumption DEF IInv, TypeOK, GmtDate, Days
  <2>2. TypeOK'
    BY <1>1, <1>3, <2>1 DEF IInv, TypeOK, Start
  <2>3. RunInv'
    BY <1>1, <1>3 DEF IInv, TypeOK, RunInv, RunInvOf, DatesAgree, Inserted, Start
  <2> QED
    BY <1>2, <2>2, <2>3 DEF IInv
<1>4. CASE ReadDay(t)
  <2>1. TypeOK'
    BY <1>1, <1>4 DEF IInv, TypeOK, ReadDay
  <2>2. \A s \in todo'[t] : ~ Inserted(t, s, day[t])
    BY <1>4 DEF IInv, TypeOK, ReadDay, StockIdList, Inserted
  <2>3. RunInv'
    BY <1>1, <1>4, <2>2 DEF IInv, TypeOK, RunInv, RunInvOf, DatesAgree, Inserted, ReadDay
  <2> QED
    BY <1>2, <2>1, <2>3 DEF IInv
<1>5. CASE Fetch(t)
  <2>1. PICK s \in todo[t] :
          /\ todo' = [todo EXCEPT ![t] = @ \ {s}]
          /\ \/ /\ Wanted(quote[s], currentDate[t])
                /\ got' = [got EXCEPT ![t] = [stock |-> s, day |-> quote[s].day]]
                /\ pc' = [pc EXCEPT ![t] = "inserting"]
             \/ UNCHANGED <<pc, got>>
    BY <1>5 DEF Fetch
  <2>2. /\ pc[t] = "looping" /\ UNCHANGED <<day, currentDate>> /\ s \in Stocks
        /\ quote[s].day \in Days /\ quote[s].traded \in BOOLEAN
        /\ day[t] \in Days /\ currentDate[t] \in Days
    BY <1>5, <2>1 DEF Fetch, IInv, TypeOK, Quote
  <2>3. todo' \in [Threads -> SUBSET Stocks] /\ todo'[t] = todo[t] \ {s}
    BY <2>1 DEF IInv, TypeOK
  <2>4. CASE Wanted(quote[s], currentDate[t]) /\ UNCHANGED rows
             /\ got' = [got EXCEPT ![t] = [stock |-> s, day |-> quote[s].day]]
             /\ pc' = [pc EXCEPT ![t] = "inserting"]
    <3>1. quote[s].day = currentDate[t]
      BY <2>4 DEF Wanted
    <3>2. quote[s].traded = TRUE
      BY <2>2, <2>4, Zenon DEF Wanted
    <3>3. <<s, currentDate[t]>> \in trades
      BY <2>2, <3>1, <3>2 DEF IInv, QuoteInv
    <3>4. got'[t] = [stock |-> s, day |-> currentDate[t]]
      BY <2>4, <3>1 DEF IInv, TypeOK
    <3>5. TypeOK'
      BY <1>1, <2>2, <2>3, <2>4 DEF IInv, TypeOK
    <3>6. RunInv'
      <4>1. DatesAgree(t) => \A r \in todo[t] : ~ Inserted(t, r, day[t])
        BY <2>2 DEF IInv, RunInv, RunInvOf
      <4>2. ASSUME NEW u \in Threads, u # t
            PROVE  /\ pc'[u] = pc[u] /\ todo'[u] = todo[u]
                   /\ got'[u] = got[u]
        BY <2>1, <2>2, <2>4, <4>2 DEF IInv, TypeOK
      <4>3. pc'[t] = "inserting" /\ day'[t] = day[t] /\ todo'[t] \subseteq Stocks
        BY <2>2, <2>3, <2>4 DEF IInv, TypeOK
      <4>4. ASSUME NEW u \in Threads, u # t PROVE RunInvOf(u)'
        <5>1. RunInvOf(u)
          BY DEF IInv, RunInv
        <5> QED
          BY <1>1, <2>2, <4>2, <4>4, <5>1 DEF RunInvOf, DatesAgree, Inserted
      <4>5. RunInvOf(t)'
        <5>1. DatesAgree(t)' => DatesAgree(t)
          BY <2>2 DEF DatesAgree
        <5>2. DatesAgree(t) => \A r \in todo'[t] : ~ Inserted(t, r, day[t])'
          BY <1>1, <2>3, <4>1, <4>3 DEF Inserted
        <5>3. DatesAgree(t) => ~ Inserted(t, s, day[t])'
          BY <1>1, <2>1, <4>1, <4>3 DEF Inserted
        <5> QED
          BY <1>1, <2>2, <2>3, <3>3, <3>4, <4>3, <5>1, <5>2, <5>3 DEF RunInvOf
      <4> QED
        BY <4>4, <4>5 DEF RunInv
    <3> QED
      BY <1>2, <3>5, <3>6 DEF IInv
  <2>5. CASE UNCHANGED <<pc, got>>
    <3>1. TypeOK'
      BY <1>1, <2>2, <2>3, <2>5 DEF IInv, TypeOK
    <3>2. RunInv'
      BY <1>1, <2>1, <2>2, <2>3, <2>5
        DEF IInv, TypeOK, RunInv, RunInvOf, DatesAgree, Inserted
    <3> QED
      BY <1>2, <3>1, <3>2 DEF IInv
  <2> QED
    BY <1>1, <2>1, <2>4, <2>5
<1>6. CASE NoAnswer(t)
  <2>1. TypeOK'
    BY <1>1, <1>6 DEF IInv, TypeOK, NoAnswer
  <2>2. RunInv'
    BY <1>1, <1>6 DEF IInv, TypeOK, RunInv, RunInvOf, DatesAgree, Inserted, NoAnswer
  <2> QED
    BY <1>2, <2>1, <2>2 DEF IInv
<1>7. CASE EndRun(t) \/ Abort(t)
  <2>1. /\ pc' = [pc EXCEPT ![t] = "idle"] /\ day' = [day EXCEPT ![t] = 0]
        /\ currentDate' = [currentDate EXCEPT ![t] = 0]
        /\ todo' = [todo EXCEPT ![t] = {}] /\ got' = [got EXCEPT ![t] = NoRow]
    BY <1>7 DEF EndRun, Abort, Leave
  <2>2. day' \in [Threads -> Days] /\ currentDate' \in [Threads -> Days]
    BY <2>1, Blank DEF IInv, TypeOK
  <2>3. got' \in [Threads -> [stock: Stocks \cup {NoStock}, day: Days]]
    BY <2>1, Blank DEF IInv, TypeOK
  <2>4. TypeOK'
    BY <1>1, <2>1, <2>2, <2>3 DEF IInv, TypeOK
  <2>5. RunInv'
    BY <1>1, <2>1 DEF IInv, TypeOK, RunInv, RunInvOf, DatesAgree, Inserted
  <2> QED
    BY <1>2, <2>4, <2>5 DEF IInv
<1> QED
  BY <1>3, <1>4, <1>5, <1>6, <1>7

\* An insert adds the first row its thread has for that stock and day, if its
\* run began at 08:00 or later.
LEMMA InsertStep ==
  ASSUME IInv, NEW t \in Threads, Insert(t)
  PROVE  IInv'
<1> DEFINE new == NewRow(t)
<1>1. /\ pc[t] = "inserting" /\ rows' = BagAdd(rows, new)
      /\ pc' = [pc EXCEPT ![t] = "looping"]
      /\ got' = [got EXCEPT ![t] = NoRow]
      /\ UNCHANGED <<today, early, quote, trades, day, currentDate, todo>>
  BY DEF Insert, sourceVars
<1>2. /\ got[t].stock \in Stocks \ todo[t] /\ got[t].day = currentDate[t]
      /\ DatesAgree(t) => ~ Inserted(t, got[t].stock, day[t])
      /\ <<got[t].stock, got[t].day>> \in trades
  BY <1>1 DEF IInv, RunInv, RunInvOf
<1>3. /\ new.stock = got[t].stock /\ new.day = currentDate[t] /\ new.by = t
      /\ new.early = ~ DatesAgree(t)
  BY <1>2 DEF NewRow, DatesAgree
<1>4. new \in Row
  BY <1>2 DEF IInv, TypeOK, Row, NewRow
<1> HIDE DEF new
<1>5. /\ IsABag(rows') /\ Table' = Table \cup {new}
      /\ \A r \in Table : r # new => rows'[r] = rows[r]
      /\ new \notin Table => rows'[new] = 1
  BY <1>1 DEF IInv, TypeOK, IsABag, BagAdd, Table, BagToSet
<1>6. TypeOK'
  BY <1>1, <1>4, <1>5, Blank DEF IInv, TypeOK
<1>7. RunInv'
  <2>1. \A u \in Threads, s \in Stocks, d \in Days :
          Inserted(u, s, d)' =>
            Inserted(u, s, d) \/ (u = t /\ s = got[t].stock /\ d = currentDate[t])
    BY <1>3, <1>5 DEF Inserted
  <2> SUFFICES ASSUME NEW u \in Threads PROVE RunInvOf(u)'
    BY DEF RunInv
  <2>2. RunInvOf(u)
    BY DEF IInv, RunInv
  <2>3. CASE u # t
    <3>1. /\ pc'[u] = pc[u] /\ got'[u] = got[u] /\ todo'[u] = todo[u]
          /\ day'[u] = day[u] /\ currentDate'[u] = currentDate[u]
          /\ day[u] \in Days /\ todo[u] \subseteq Stocks
      BY <1>1, <2>3 DEF IInv, TypeOK
    <3>2. ASSUME NEW s \in Stocks PROVE Inserted(u, s, day[u])' => Inserted(u, s, day[u])
      <4>1. PICK d \in Days : d = day[u]
        BY <3>1
      <4>2. Inserted(u, s, d)' => Inserted(u, s, d)
        BY <2>1, <2>3
      <4> QED
        BY <1>1, <4>1, <4>2 DEF Inserted
    <3> QED
      BY <1>1, <2>2, <3>1, <3>2 DEF RunInvOf, DatesAgree
  <2>4. CASE u = t
    <3>1. pc'[t] = "looping" /\ todo'[t] = todo[t] /\ todo[t] \subseteq Stocks
          /\ day'[t] = day[t] /\ day[t] \in Days
      BY <1>1 DEF IInv, TypeOK
    <3>2. ASSUME DatesAgree(t), NEW s \in todo[t] PROVE ~ Inserted(t, s, day[t])'
      <4>1. PICK d \in Days : d = day[t]
        BY <3>1
      <4>2. ~ Inserted(t, s, d)
        BY <1>1, <2>2, <2>4, <3>2, <4>1 DEF RunInvOf
      <4>3. ~ Inserted(t, s, d)'
        BY <1>2, <2>1, <3>1, <4>2
      <4> QED
        BY <1>1, <4>1, <4>3 DEF Inserted
    <3> QED
      BY <1>1, <2>4, <3>1, <3>2 DEF RunInvOf, DatesAgree
  <2> QED
    BY <2>3, <2>4
<1>8. OneRowPerThread'
  <2>1. new \in Table => new.early = TRUE
    BY <1>2, <1>3 DEF Inserted, DatesAgree
  <2> QED
    BY <1>5, <2>1 DEF IInv, OneRowPerThread
<1>9. RowsAreTraded'
  BY <1>1, <1>2, <1>3, <1>5 DEF IInv, RowsAreTraded
<1>10. QuoteInv'
  BY <1>1 DEF IInv, QuoteInv
<1> QED
  BY <1>6, <1>7, <1>8, <1>9, <1>10 DEF IInv

LEMMA CrashStep == ASSUME IInv, Crash PROVE IInv'
<1>1. UNCHANGED <<today, early, quote, trades, rows, Table>>
  BY DEF Crash, sourceVars, Table
<1>2. TypeOK'
  BY <1>1, Blank DEF IInv, TypeOK, Crash
<1>3. RunInv'
  BY DEF RunInv, RunInvOf, Crash
<1>4. QuoteInv' /\ OneRowPerThread' /\ RowsAreTraded'
  BY <1>1 DEF IInv, QuoteInv, OneRowPerThread, RowsAreTraded
<1> QED
  BY <1>2, <1>3, <1>4 DEF IInv

LEMMA StutterStep == ASSUME IInv, UNCHANGED vars PROVE IInv'
<1>1. UNCHANGED <<today, early, quote, trades, rows, Table, pc, day, currentDate, todo, got>>
  BY DEF vars, sourceVars, threadVars, Table
<1> QED
  BY <1>1 DEF IInv, TypeOK, RunInv, RunInvOf, DatesAgree, Inserted, QuoteInv,
              OneRowPerThread, RowsAreTraded

LEMMA NextIInv == IInv /\ [Next]_vars => IInv'
<1> SUFFICES ASSUME IInv, [Next]_vars PROVE IInv'
  OBVIOUS
<1>1. CASE Source
  BY <1>1, SourceStep
<1>2. CASE Crash
  BY <1>2, CrashStep
<1>3. ASSUME NEW t \in Threads, Run(t) PROVE IInv'
  BY <1>3, RunStep, InsertStep DEF Run, Work
<1>4. CASE UNCHANGED vars
  BY <1>4, StutterStep
<1> QED
  BY <1>1, <1>2, <1>3, <1>4 DEF Next

LEMMA IInvAlways == Spec => []IInv
BY InitIInv, NextIInv, PTL DEF Spec

\* Every variable of the source, the table and the runs keeps its type.
THEOREM TypeCorrect == Spec => []TypeOK
<1>1. IInv => TypeOK
  BY DEF IInv
<1> QED
  BY <1>1, IInvAlways, PTL

\* Runs begun at 08:00 or later and repeated after any failure, and over
\* midnight, insert no row twice: a second row of a stock and day takes a
\* second thread, or a run begun before 08:00.
THEOREM OneRowPerThreadAlways == Spec => []OneRowPerThread
<1>1. IInv => OneRowPerThread
  BY DEF IInv
<1> QED
  BY <1>1, IInvAlways, PTL

\* Whatever the source answers and when, a row is of a day with a trade.
THEOREM RowsAreTradedAlways == Spec => []RowsAreTraded
<1>1. IInv => RowsAreTraded
  BY DEF IInv
<1> QED
  BY <1>1, IInvAlways, PTL

=============================================================================
