----------------------------- MODULE StockUpdate -----------------------------
(***************************************************************************)
(* The task UpdateOfStock: a run reads the stocks of stock_info, crawls    *)
(* the exchanges' list, compares the two and saves the differences, with a *)
(* log row for each, in one transaction (StockServiceImpl.update).  What   *)
(* was read is not locked, and nothing keeps two runs apart.               *)
(*                                                                         *)
(* The statements of the transaction lock the rows they touch and an       *)
(* exception rolls them back, so the transaction is one action.  A restart *)
(* is an Abort of every run.  The schema is not part of the repository: if *)
(* the tables have keys that refuse a row, that is an Abort as well.       *)
(***************************************************************************)
EXTENDS Naturals, FiniteSetsExt, Functions, Sequences

CONSTANTS
  Threads,      \* request threads
  Codes,        \* stock codes; an index may have the code of a stock
  StockNames,   \* names the exchanges give to stocks
  IndexNames,   \* names of indices
  OriNames,     \* the names isOriName accepts: no prefix N, XD, XR, DR
  Absent,       \* a code the exchanges do not list; no name
  Hand,         \* who entered the rows no run inserted
  HandMade,     \* contents stock_info may have before the first run
  FirstLists,   \* what the exchanges may list at first
  MaxChanges    \* bound on the changes of the exchanges' list

Names == StockNames \cup IndexNames

\* The exchanges' list: the name of each listed code.
SourceList == [Codes -> StockNames \cup {Absent}]

\* A row of stock_info; its position is its id.  first (the name it was
\* inserted with) and by are history.
StockInfo == [code: Codes, name: Names, first: Names, index: BOOLEAN,
              by: Threads \cup {Hand}]

ASSUME NamesAssumption ==
  /\ StockNames \cap IndexNames = {} /\ OriNames \subseteq StockNames
  /\ Absent \notin Names /\ Hand \notin Threads
ASSUME CodesAssumption == IsFiniteSet(Codes)
ASSUME HandMadeAssumption ==
  \A table \in HandMade :
    /\ table \in Seq(StockInfo)
    /\ \A r \in DOMAIN table :
         /\ table[r].by = Hand /\ table[r].first = table[r].name
         /\ table[r].index <=> table[r].name \in IndexNames
ASSUME FirstListsAssumption == FirstLists \subseteq SourceList
ASSUME MaxChangesAssumption == MaxChanges \in Nat

VARIABLES
  source,     \* the exchanges' list: per code its name
  changes,    \* changes of it so far
  stockInfo,  \* the table stock_info
  stockLog,   \* the table stock_log, in the order of insertion
  pc,         \* per thread: where the run stands
  db,         \* per thread: dbStockMap
  crawled     \* per thread: crawlerList

sourceVars == <<source, changes>>
tables == <<stockInfo, stockLog>>
threadVars == <<pc, db, crawled>>
vars == <<sourceVars, tables, threadVars>>

\* A stock as a run remembers it; id 0 is no stock.
Remembered == [id: Nat, name: Names \cup {Absent}]
NoStock == [id |-> 0, name |-> Absent]

\* stockId is 0 until the log row of a new stock is given the stock's id.
StockLog == [stockId: Nat, type: {"New", "Rename"}, old: Names \cup {Absent},
             new: StockNames]

TypeOK ==
  /\ source \in SourceList
  /\ changes \in 0 .. MaxChanges
  /\ stockInfo \in Seq(StockInfo)
  /\ stockLog \in Seq(StockLog)
  /\ \A i \in DOMAIN stockLog : stockLog[i].type = "Rename" =>
       stockLog[i].stockId \in DOMAIN stockInfo /\ stockLog[i].old # Absent
  /\ pc \in [Threads -> {"idle", "crawling", "saving"}]
  /\ db \in [Threads -> [Codes -> Remembered]]
  /\ crawled \in [Threads -> SourceList]

NoList == [c \in Codes |-> Absent]

Init ==
  /\ source \in FirstLists
  /\ changes = 0
  /\ stockInfo \in HandMade
  /\ stockLog = << >>
  /\ pc = [t \in Threads |-> "idle"]
  /\ db = [t \in Threads |-> [c \in Codes |-> NoStock]]
  /\ crawled = [t \in Threads |-> NoList]

-----------------------------------------------------------------------------
\* A stock is listed, renamed or taken from the list.
Change(c) ==
  /\ changes < MaxChanges
  /\ changes' = changes + 1
  /\ \E n \in (StockNames \cup {Absent}) \ {source[c]} :
       source' = [source EXCEPT ![c] = n]
  /\ UNCHANGED <<tables, threadVars>>

\* The rows a code stands for, indices left out; a run takes the first.
Group(c) == {r \in DOMAIN stockInfo : stockInfo[r].code = c /\ ~ stockInfo[r].index}

Remember(group) ==
  IF group = {} THEN NoStock ELSE [id |-> Min(group), name |-> stockInfo[Min(group)].name]

\* Mutants: indices are kept; only stocks still listed are read.
DbStockMapIndices ==
  [c \in Codes |-> Remember({r \in DOMAIN stockInfo : stockInfo[r].code = c})]
DbStockMapListed ==
  [c \in Codes |-> IF source[c] = Absent THEN NoStock ELSE Remember(Group(c))]

DbStockMap == [c \in Codes |-> Remember(Group(c))]

Read(t) ==
  /\ pc[t] = "idle"
  /\ db' = [db EXCEPT ![t] = DbStockMap]
  /\ pc' = [pc EXCEPT ![t] = "crawling"]
  /\ UNCHANGED <<sourceVars, tables, crawled>>

\* getStockList: the list of the moment.
Crawl(t) ==
  /\ pc[t] = "crawling"
  /\ crawled' = [crawled EXCEPT ![t] = source]
  /\ pc' = [pc EXCEPT ![t] = "saving"]
  /\ UNCHANGED <<sourceVars, tables, db>>

-----------------------------------------------------------------------------
\* Code c of the crawled list is not in the table: needAddedList.
IsNew(t, c) == crawled[t][c] # Absent /\ db[t][c] = NoStock

\* Code c has another name in the table, and the new one has no prefix:
\* needUpdatedList.
IsRenamed(t, c) ==
  crawled[t][c] \in OriNames /\ db[t][c] # NoStock /\ crawled[t][c] # db[t][c].name

NeedAdded(t) == {c \in Codes : IsNew(t, c)}
NeedUpdated(t) == {c \in Codes : IsRenamed(t, c)}
NeedLogged(t) == NeedAdded(t) \cup NeedUpdated(t)

\* A list of the members of S, in any order.
ListsOf(S) == {list \in [1 .. Cardinality(S) -> S] : IsInjective(list) /\ Range(list) = S}

\* stockInfoDao.add.
Added(t, list) ==
  stockInfo \o [i \in DOMAIN list |->
    [code |-> list[i], name |-> crawled[t][list[i]], first |-> crawled[t][list[i]],
     index |-> FALSE, by |-> t]]

\* Mutant: by code.
UpdatedByCode(t, table) ==
  [r \in DOMAIN table |->
     IF IsRenamed(t, table[r].code)
     THEN [table[r] EXCEPT !.name = crawled[t][table[r].code]] ELSE table[r]]

\* stockInfoDao.update: name and abbreviation by id.
Updated(t, table) ==
  [r \in DOMAIN table |->
     LET c == table[r].code
     IN  IF db[t][c].id = r /\ IsRenamed(t, c)
         THEN [table[r] EXCEPT !.name = crawled[t][c]] ELSE table[r]]

\* Mutant: old and new value in the wrong order.
LogSwapped(t, c) ==
  IF IsRenamed(t, c)
  THEN [stockId |-> db[t][c].id, type |-> "Rename", old |-> crawled[t][c], new |-> db[t][c].name]
  ELSE [stockId |-> 0, type |-> "New", old |-> Absent, new |-> crawled[t][c]]

Log(t, c) ==
  IF IsRenamed(t, c)
  THEN [stockId |-> db[t][c].id, type |-> "Rename", old |-> db[t][c].name, new |-> crawled[t][c]]
  ELSE [stockId |-> 0, type |-> "New", old |-> Absent, new |-> crawled[t][c]]

\* stockLogDao.add.
Logged(t, list) == stockLog \o [i \in DOMAIN list |-> Log(t, list[i])]

\* Mutant: the name is not compared.
MatchesByCode(table, codes, n) ==
  {r \in DOMAIN table : r > 1 /\ table[r].code \in codes}

\* The rows the statement of setStockIdByCodeType joins to the log rows of n.
Matches(table, codes, n) ==
  {r \in DOMAIN table : r > 1 /\ table[r].code \in codes /\ table[r].name = n}

\* Which of several matches a log row gets is the database's choice.
Picks(table, codes) ==
  LET matched == {n \in Names : Matches(table, codes, n) # {}}
  IN  {pick \in [matched -> 1 .. Len(table)] :
         \A n \in matched : pick[n] \in Matches(table, codes, n)}

\* setStockIdByCodeType: every log row of a new stock with a matching name.
Relinked(log, pick) ==
  [i \in DOMAIN log |->
     IF log[i].type = "New" /\ log[i].new \in DOMAIN pick
     THEN [log[i] EXCEPT !.stockId = pick[log[i].new]] ELSE log[i]]

Leave(t) ==
  /\ pc' = [pc EXCEPT ![t] = "idle"]
  /\ db' = [db EXCEPT ![t] = [c \in Codes |-> NoStock]]
  /\ crawled' = [crawled EXCEPT ![t] = NoList]

\* StockServiceImpl.update, and the end of the run.
Update(t) ==
  /\ pc[t] = "saving"
  /\ \E list \in ListsOf(NeedAdded(t)),
        logs \in ListsOf(NeedLogged(t)) :
       /\ stockInfo' = Updated(t, Added(t, list))
       /\ \E pick \in Picks(stockInfo', NeedAdded(t)) :
            stockLog' = Relinked(Logged(t, logs), pick)
  /\ Leave(t)
  /\ UNCHANGED sourceVars

\* The crawl, a code of no known type, a name without pinyin or the database
\* throws; or the crawled list is empty, which leaves nothing to save.
Abort(t) ==
  /\ pc[t] # "idle"
  /\ Leave(t)
  /\ UNCHANGED <<sourceVars, tables>>

Work(t) == Crawl(t) \/ Update(t)

Run(t) == Read(t) \/ Work(t) \/ Abort(t)

Next == (\E c \in Codes : Change(c)) \/ \E t \in Threads : Run(t)

Spec == Init /\ [][Next]_vars

-----------------------------------------------------------------------------
\* Two rows of a code come from two threads, that is from runs that
\* overlapped: the runs of one thread insert a stock once, whatever it is
\* renamed to, however long it is off the list, and though an index has its code.
OneRowPerThread ==
  \A r, s \in DOMAIN stockInfo :
    stockInfo[r].code = stockInfo[s].code /\ stockInfo[r].by = stockInfo[s].by
      /\ stockInfo[r].by # Hand => r = s

Renames(r) ==
  {i \in DOMAIN stockLog : stockLog[i].type = "Rename" /\ stockLog[i].stockId = r}

\* The log tells each row's name, under overlapping runs too: it is what the
\* last rename of the row says, or else the one it was inserted with.
LogTellsName ==
  \A r \in DOMAIN stockInfo :
    /\ Renames(r) = {} => stockInfo[r].name = stockInfo[r].first
    /\ \A i \in Renames(r) :
         (\A j \in Renames(r) : j <= i) => stockInfo[r].name = stockLog[i].new

\* Row r was named n before log row i was written.
HadName(r, n, i) ==
  \/ n = stockInfo[r].first
  \/ \E j \in Renames(r) : j < i /\ n = stockLog[j].new

\* A rename starts from a name the row had, if not always from its last: a run
\* may have read the row before another run renamed it.
RenamesFromAName ==
  \A r \in DOMAIN stockInfo : \A i \in Renames(r) : HadName(r, stockLog[i].old, i)

\* The log row of a new stock is given, by name, a stock that had this name;
\* it stays without one only if the stock became the first row of the table.
LogsNameTheirStock ==
  \A i \in DOMAIN stockLog :
    LET r == IF stockLog[i].stockId = 0 THEN 1 ELSE stockLog[i].stockId
    IN  /\ r \in DOMAIN stockInfo
        /\ ~ stockInfo[r].index
        /\ HadName(r, stockLog[i].new, Len(stockLog) + 1)

-----------------------------------------------------------------------------
\* Someone goes on starting runs, and threads run.  This is weak fairness: in
\* every state a thread can take such a step.
FairSpec == Spec /\ \A t \in Threads : []<><<Read(t) \/ Work(t)>>_vars

\* A run is cut short.
Fault ==
  \E t \in Threads :
    \/ pc[t] = "crawling" /\ pc'[t] = "idle"
    \/ /\ pc[t] = "saving" /\ pc'[t] = "idle" /\ UNCHANGED tables
       /\ NeedLogged(t) # {}

\* If the exchanges leave their list alone, and runs meet with faults only
\* finitely often, each listed stock is in the table in the end, by its listed
\* name unless that has a prefix: what runs with older lists saved is put right.
TableFollowsSource ==
  <>[][~ Fault]_vars =>
    <>[](\A c \in Codes : source[c] # Absent =>
           /\ Group(c) # {}
           /\ stockInfo[Min(Group(c))].name = source[c] \/ source[c] \notin OriNames)

=============================================================================
