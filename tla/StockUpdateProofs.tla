-------------------------- MODULE StockUpdateProofs --------------------------
(***************************************************************************)
(* Proofs about StockUpdate, for every set of codes, names and threads and *)
(* every table entered by hand, with any number of aborted runs.           *)
(***************************************************************************)
EXTENDS StockUpdate, FiniteSetTheorems, SequenceTheorems, WellFoundedInduction, TLAPS

\* A row is an index if its name is one; no run inserts an index.
IndexInv ==
  \A r \in DOMAIN stockInfo :
    /\ stockInfo[r].index <=> stockInfo[r].name \in IndexNames
    /\ stockInfo[r].index => stockInfo[r].by = Hand

\* A row bears a name it was inserted with or renamed to.
NameInv ==
  \A r \in DOMAIN stockInfo : HadName(r, stockInfo[r].name, Len(stockLog) + 1)

\* What thread t remembers of code c: a stock of that code, with a name it had,
\* or that the thread has inserted none.
Knows(t, c) ==
  IF db[t][c] = NoStock
  THEN pc[t] # "idle" =>
         \A r \in DOMAIN stockInfo : stockInfo[r].code = c => stockInfo[r].by # t
  ELSE LET r == db[t][c].id
       IN  /\ r \in DOMAIN stockInfo /\ stockInfo[r].code = c
           /\ ~ stockInfo[r].index
           /\ db[t][c].name \in Names
           /\ HadName(r, db[t][c].name, Len(stockLog) + 1)

DbInv == \A t \in Threads, c \in Codes : Knows(t, c)

IInv ==
  /\ TypeOK /\ IndexInv /\ NameInv /\ DbInv
  /\ OneRowPerThread /\ LogTellsName /\ RenamesFromAName /\ LogsNameTheirStock

-----------------------------------------------------------------------------
Less == {p \in Nat \X Nat : p[1] < p[2]}

LEMMA LessWellFounded == IsWellFoundedOn(Less, Nat)
<1>1. Less = OpToRel(<, Nat)
  BY DEF Less, OpToRel
<1> QED
  BY <1>1, NatLessThanWellFounded

\* A set of rows that is not empty has a first one.
LEMMA MinExists ==
  ASSUME NEW S \in SUBSET Nat, S # {}
  PROVE  Min(S) \in S /\ \A y \in S : Min(S) <= y
<1>1. PICK x \in S : \A y \in S : ~ (<<y, x>> \in Less)
  BY LessWellFounded, WFMin
<1>2. ASSUME NEW y \in S PROVE x <= y
  <2>1. x \in Nat /\ y \in Nat
    OBVIOUS
  <2>2. ~ (y < x)
    BY <1>1, <2>1 DEF Less
  <2> QED
    BY <2>1, <2>2
<1> QED
  BY <1>2 DEF Min

\* The types of what the tables and a run consist of.
LEMMA Types ==
  ASSUME TypeOK
  PROVE  /\ \A r \in DOMAIN stockInfo :
              /\ r \in Nat /\ stockInfo[r].code \in Codes
              /\ stockInfo[r].name \in Names /\ stockInfo[r].first \in Names
              /\ stockInfo[r].index \in BOOLEAN
              /\ stockInfo[r].by \in Threads \cup {Hand}
         /\ \A i \in DOMAIN stockLog :
              /\ i \in Nat /\ stockLog[i].stockId \in Nat
              /\ stockLog[i].type \in {"New", "Rename"}
              /\ stockLog[i].new \in StockNames
         /\ DOMAIN stockInfo = 1 .. Len(stockInfo) /\ Len(stockInfo) \in Nat
         /\ DOMAIN stockLog = 1 .. Len(stockLog) /\ Len(stockLog) \in Nat
<1>1. /\ \A r \in DOMAIN stockInfo : r \in Nat /\ stockInfo[r] \in StockInfo
      /\ DOMAIN stockInfo = 1 .. Len(stockInfo) /\ Len(stockInfo) \in Nat
  BY DEF TypeOK
<1>2. /\ \A i \in DOMAIN stockLog : i \in Nat /\ stockLog[i] \in StockLog
      /\ DOMAIN stockLog = 1 .. Len(stockLog) /\ Len(stockLog) \in Nat
  BY DEF TypeOK
<1>3. \A x \in StockInfo :
        /\ x.code \in Codes /\ x.name \in Names /\ x.first \in Names
        /\ x.index \in BOOLEAN /\ x.by \in Threads \cup {Hand}
  BY DEF StockInfo
<1>4. \A x \in StockLog :
        x.stockId \in Nat /\ x.type \in {"New", "Rename"} /\ x.new \in StockNames
  BY DEF StockLog
<1> QED
  BY <1>1, <1>2, <1>3, <1>4

LEMMA Blank ==
  /\ [c \in Codes |-> NoStock] \in [Codes -> Remembered]
  /\ NoList \in SourceList
BY DEF NoStock, Remembered, NoList, SourceList

LEMMA InitIInv == Init => IInv
<1> SUFFICES ASSUME Init PROVE IInv
  OBVIOUS
<1>1. PICK table \in HandMade : stockInfo = table
  BY DEF Init
<1>2. /\ stockInfo \in Seq(StockInfo)
      /\ \A r \in DOMAIN stockInfo :
           /\ stockInfo[r].by = Hand /\ stockInfo[r].first = stockInfo[r].name
           /\ stockInfo[r].index <=> stockInfo[r].name \in IndexNames
  BY <1>1, HandMadeAssumption
<1>3. TypeOK
  <2>1. stockLog \in Seq(StockLog) /\ DOMAIN stockLog = {}
    BY DEF Init
  <2>2. changes \in 0 .. MaxChanges /\ source \in SourceList
    BY MaxChangesAssumption, FirstListsAssumption DEF Init
  <2>3. /\ pc \in [Threads -> {"idle", "crawling", "saving"}]
        /\ db \in [Threads -> [Codes -> Remembered]]
        /\ crawled \in [Threads -> SourceList]
    BY Blank DEF Init
  <2> QED
    BY <1>2, <2>1, <2>2, <2>3 DEF TypeOK
<1>4. DOMAIN stockLog = {} /\ \A r : Renames(r) = {}
  BY DEF Init, Renames
<1>5. IndexInv /\ NameInv /\ OneRowPerThread /\ LogTellsName
  BY <1>2, <1>4 DEF IndexInv, NameInv, HadName, OneRowPerThread, LogTellsName
<1>6. RenamesFromAName /\ LogsNameTheirStock
  BY <1>4 DEF RenamesFromAName, LogsNameTheirStock
<1>7. DbInv
  <2>1. \A t \in Threads, c \in Codes : db[t][c] = NoStock /\ pc[t] = "idle"
    BY DEF Init
  <2> QED
    BY <2>1 DEF DbInv, Knows
<1> QED
  BY <1>3, <1>5, <1>6, <1>7 DEF IInv

-----------------------------------------------------------------------------
\* The exchanges' list does not touch the tables or a run.
LEMMA ChangeStep ==
  ASSUME IInv, NEW c \in Codes, Change(c)
  PROVE  IInv'
<1>1. UNCHANGED <<stockInfo, stockLog, pc, db, crawled>>
  BY DEF Change, tables, threadVars
<1>2. TypeOK'
  <2>1. changes' \in 0 .. MaxChanges
    BY MaxChangesAssumption DEF Change, IInv, TypeOK
  <2>2. source' \in SourceList
    BY DEF Change, IInv, TypeOK, SourceList
  <2> QED
    BY <1>1, <2>1, <2>2 DEF IInv, TypeOK
<1> QED
  BY <1>1, <1>2 DEF IInv, IndexInv, NameInv, DbInv, Knows, HadName, Renames,
     OneRowPerThread, LogTellsName, RenamesFromAName, LogsNameTheirStock

\* What concerns the tables alone is kept by a step that leaves them alone.
TableInv ==
  /\ IndexInv /\ NameInv
  /\ OneRowPerThread /\ LogTellsName /\ RenamesFromAName /\ LogsNameTheirStock

LEMMA TablesUnchanged ==
  ASSUME IInv, UNCHANGED <<stockInfo, stockLog>>
  PROVE  TableInv'
BY DEF IInv, TableInv, IndexInv, NameInv, HadName, Renames, OneRowPerThread, LogTellsName,
       RenamesFromAName, LogsNameTheirStock

\* Reading the table, a run gets to know rows of it.
LEMMA ReadStep ==
  ASSUME IInv, NEW t \in Threads, Read(t)
  PROVE  IInv'
<1>1. /\ UNCHANGED <<source, changes, stockInfo, stockLog, crawled>>
      /\ db' = [db EXCEPT ![t] = DbStockMap]
      /\ pc' = [pc EXCEPT ![t] = "crawling"]
  BY DEF Read, sourceVars, tables
<1>2. ASSUME NEW c \in Codes
      PROVE  /\ DbStockMap[c] \in Remembered
             /\ DbStockMap[c] = NoStock =>
                  \A r \in DOMAIN stockInfo : stockInfo[r].code = c => stockInfo[r].by # t
             /\ DbStockMap[c] # NoStock =>
                  LET r == DbStockMap[c].id
                  IN  /\ r \in DOMAIN stockInfo /\ stockInfo[r].code = c
                      /\ ~ stockInfo[r].index
                      /\ DbStockMap[c].name = stockInfo[r].name
  <2>1. DbStockMap[c] = Remember(Group(c))
    BY DEF DbStockMap
  <2>2. CASE Group(c) = {}
    <3>1. DbStockMap[c] = NoStock
      BY <2>1, <2>2 DEF Remember
    <3>2. \A r \in DOMAIN stockInfo : stockInfo[r].code = c => stockInfo[r].index
      BY <2>2 DEF Group
    <3>3. \A r \in DOMAIN stockInfo : stockInfo[r].code = c => stockInfo[r].by # t
      BY <3>2, NamesAssumption DEF IInv, IndexInv
    <3>4. NoStock \in Remembered
      BY DEF NoStock, Remembered
    <3> QED
      BY <3>1, <3>3, <3>4
  <2>3. CASE Group(c) # {}
    <3> DEFINE m == Min(Group(c))
    <3>1. Group(c) \in SUBSET Nat
      BY Types DEF IInv, Group
    <3>2. m \in Group(c)
      BY <2>3, <3>1, MinExists
    <3>3. /\ m \in DOMAIN stockInfo /\ stockInfo[m].code = c /\ ~ stockInfo[m].index
          /\ m \in Nat /\ stockInfo[m].name \in Names
      BY <3>2, Types DEF IInv, Group
    <3>4. DbStockMap[c] = [id |-> m, name |-> stockInfo[m].name]
      BY <2>1, <2>3 DEF Remember
    <3> HIDE DEF m
    <3>5. DbStockMap[c] # NoStock
      BY <3>3, <3>4, NamesAssumption DEF NoStock
    <3> QED
      BY <3>3, <3>4, <3>5 DEF Remembered
  <2> QED
    BY <2>2, <2>3
<1>3. TypeOK'
  <2>1. DbStockMap \in [Codes -> Remembered]
    BY <1>2 DEF DbStockMap
  <2> QED
    BY <1>1, <2>1 DEF IInv, TypeOK
<1>4. DbInv'
  <2> SUFFICES ASSUME NEW u \in Threads, NEW c \in Codes PROVE Knows(u, c)'
    BY DEF DbInv
  <2>1. CASE u # t
    <3>1. db'[u] = db[u] /\ pc'[u] = pc[u]
      BY <1>1, <2>1 DEF IInv, TypeOK
    <3>2. Knows(u, c)
      BY DEF IInv, DbInv
    <3> QED
      BY <1>1, <3>1, <3>2 DEF Knows, HadName, Renames
  <2>2. CASE u = t
    <3>1. db'[t][c] = DbStockMap[c]
      BY <1>1 DEF IInv, TypeOK
    <3>2. CASE DbStockMap[c] = NoStock
      BY <1>1, <1>2, <2>2, <3>1, <3>2 DEF Knows
    <3>3. CASE DbStockMap[c] # NoStock
      <4> DEFINE r == DbStockMap[c].id
      <4>1. /\ r \in DOMAIN stockInfo /\ stockInfo[r].code = c
            /\ ~ stockInfo[r].index /\ DbStockMap[c].name = stockInfo[r].name
        BY <1>2, <3>3
      <4>2. HadName(r, stockInfo[r].name, Len(stockLog) + 1) /\ stockInfo[r].name \in Names
        BY <4>1, Types DEF IInv, NameInv
      <4> QED
        BY <1>1, <2>2, <3>1, <3>3, <4>1, <4>2 DEF Knows, HadName, Renames
    <3> QED
      BY <3>2, <3>3
  <2> QED
    BY <2>1, <2>2
<1> QED
  BY <1>1, <1>3, <1>4, TablesUnchanged DEF IInv, TableInv

LEMMA CrawlStep ==
  ASSUME IInv, NEW t \in Threads, Crawl(t)
  PROVE  IInv'
<1>1. /\ UNCHANGED <<source, changes, stockInfo, stockLog, db>>
      /\ crawled' = [crawled EXCEPT ![t] = source]
      /\ pc[t] = "crawling" /\ pc' = [pc EXCEPT ![t] = "saving"]
  BY DEF Crawl, sourceVars, tables
<1>2. TypeOK'
  BY <1>1 DEF IInv, TypeOK
<1>3. DbInv'
  <2>1. \A u \in Threads : pc'[u] # "idle" => pc[u] # "idle"
    BY <1>1 DEF IInv, TypeOK
  <2> QED
    BY <1>1, <2>1 DEF IInv, DbInv, Knows, HadName, Renames
<1> QED
  BY <1>1, <1>2, <1>3, TablesUnchanged DEF IInv, TableInv

\* A thread whose run is over remembers nothing.
LEMMA LeaveType ==
  ASSUME TypeOK, NEW t \in Threads, Leave(t)
  PROVE  /\ pc' \in [Threads -> {"idle", "crawling", "saving"}]
         /\ db' \in [Threads -> [Codes -> Remembered]]
         /\ crawled' \in [Threads -> SourceList]
         /\ pc'[t] = "idle" /\ \A c \in Codes : db'[t][c] = NoStock
         /\ \A u \in Threads \ {t} : pc'[u] = pc[u] /\ db'[u] = db[u]
BY Blank DEF TypeOK, Leave

LEMMA AbortStep ==
  ASSUME IInv, NEW t \in Threads, Abort(t)
  PROVE  IInv'
<1>1. UNCHANGED <<source, changes, stockInfo, stockLog>> /\ Leave(t)
  BY DEF Abort, sourceVars, tables
<1>2. TypeOK'
  BY <1>1, LeaveType DEF IInv, TypeOK
<1>3. DbInv'
  <2> SUFFICES ASSUME NEW u \in Threads, NEW c \in Codes PROVE Knows(u, c)'
    BY DEF DbInv
  <2>1. /\ pc'[t] = "idle" /\ db'[t][c] = NoStock
        /\ u # t => pc'[u] = pc[u] /\ db'[u] = db[u]
    BY <1>1, LeaveType DEF IInv
  <2>2. Knows(u, c)
    BY DEF IInv, DbInv
  <2> QED
    BY <1>1, <2>1, <2>2 DEF Knows, HadName, Renames
<1> QED
  BY <1>1, <1>2, <1>3, TablesUnchanged DEF IInv, TableInv

-----------------------------------------------------------------------------
\* The lists of needAddedList and of the log have a length.
LEMMA ListLength ==
  ASSUME NEW S \in SUBSET Codes
  PROVE  Cardinality(S) \in Nat
BY CodesAssumption, FS_Subset, FS_CardinalityType

\* A list names each member once.
LEMMA ListProperties ==
  ASSUME NEW S \in SUBSET Codes, NEW list \in ListsOf(S)
  PROVE  /\ DOMAIN list = 1 .. Cardinality(S)
         /\ \A i \in DOMAIN list : list[i] \in S
         /\ \A i, j \in DOMAIN list : list[i] = list[j] => i = j
         /\ \A c \in S : \E i \in DOMAIN list : list[i] = c
BY DEF ListsOf, IsInjective, Range

\* A sequence with another appended to it.
LEMMA Appended ==
  ASSUME NEW S, NEW old \in Seq(S), NEW new \in Seq(S)
  PROVE  /\ old \o new \in Seq(S) /\ Len(old \o new) = Len(old) + Len(new)
         /\ \A i \in 1 .. Len(old) : (old \o new)[i] = old[i]
         /\ \A i \in 1 .. Len(new) : (old \o new)[Len(old) + i] = new[i]
<1>1. Len(old) \in Nat /\ Len(new) \in Nat
  OBVIOUS
<1>2. ASSUME NEW i \in 1 .. Len(old) PROVE (old \o new)[i] = old[i]
  BY <1>1, ConcatProperties
<1>3. ASSUME NEW i \in 1 .. Len(new) PROVE (old \o new)[Len(old) + i] = new[i]
  BY <1>1, ConcatProperties
<1> QED
  BY <1>2, <1>3, ConcatProperties

NewRow(t, c) ==
  [code |-> c, name |-> crawled[t][c], first |-> crawled[t][c], index |-> FALSE, by |-> t]

\* A new stock is not renamed as well, and its listed name is a stock's.
LEMMA NewStock ==
  ASSUME TypeOK, NEW t \in Threads, NEW c \in Codes
  PROVE  /\ IsNew(t, c) => /\ ~ IsRenamed(t, c) /\ crawled[t][c] \in StockNames
                           /\ NewRow(t, c) \in StockInfo
         /\ IsRenamed(t, c) => ~ IsNew(t, c) /\ crawled[t][c] \in StockNames
<1>1. crawled[t][c] \in StockNames \cup {Absent}
  BY DEF TypeOK, SourceList
<1>2. OriNames \subseteq StockNames /\ Absent \notin StockNames
  BY NamesAssumption DEF Names
<1>3. IsNew(t, c) => NewRow(t, c) \in StockInfo
  BY <1>1 DEF IsNew, NewRow, StockInfo, Names
<1> QED
  BY <1>1, <1>2, <1>3 DEF IsNew, IsRenamed

\* Inserting keeps the rows and adds one for each new stock.
LEMMA AddedRows ==
  ASSUME TypeOK, NEW t \in Threads, NEW list \in ListsOf(NeedAdded(t))
  PROVE  LET table == Added(t, list)
         IN  /\ table \in Seq(StockInfo)
             /\ Len(table) = Len(stockInfo) + Cardinality(NeedAdded(t))
             /\ \A r \in 1 .. Len(stockInfo) : table[r] = stockInfo[r]
             /\ \A i \in DOMAIN list : table[Len(stockInfo) + i] = NewRow(t, list[i])
<1> DEFINE n == Cardinality(NeedAdded(t))
           new == [i \in DOMAIN list |-> NewRow(t, list[i])]
<1>1. NeedAdded(t) \in SUBSET Codes
  BY DEF NeedAdded
<1>2. n \in Nat
  BY <1>1, ListLength
<1>3. DOMAIN list = 1 .. n /\ \A i \in DOMAIN list : list[i] \in NeedAdded(t)
  BY <1>1, ListProperties
<1>4. \A i \in DOMAIN list : NewRow(t, list[i]) \in StockInfo
  BY <1>1, <1>3, NewStock DEF NeedAdded
<1>5. new \in [1 .. n -> StockInfo]
  BY <1>3, <1>4
<1>6. new \in Seq(StockInfo) /\ Len(new) = n
  BY <1>2, <1>5
<1>7. Added(t, list) = stockInfo \o new
  BY DEF Added, NewRow
<1>8. stockInfo \in Seq(StockInfo)
  BY DEF TypeOK
<1>9. \A i \in DOMAIN list : new[i] = NewRow(t, list[i])
  OBVIOUS
<1> HIDE DEF new
<1> QED
  BY <1>3, <1>6, <1>7, <1>8, <1>9, Appended DEF n

\* Thread t's run renames row r.
Renaming(t, r) ==
  LET c == stockInfo[r].code IN db[t][c].id = r /\ IsRenamed(t, c)

\* What inserting and renaming do to the table.
LEMMA UpdateTable ==
  ASSUME IInv, NEW t \in Threads, NEW list \in ListsOf(NeedAdded(t)),
         stockInfo' = Updated(t, Added(t, list))
  PROVE  /\ stockInfo' \in Seq(StockInfo)
         /\ DOMAIN stockInfo \subseteq DOMAIN stockInfo'
         /\ \A r \in DOMAIN stockInfo :
              stockInfo'[r] = IF Renaming(t, r)
                              THEN [stockInfo[r] EXCEPT !.name = crawled[t][stockInfo[r].code]]
                              ELSE stockInfo[r]
         /\ \A r \in DOMAIN stockInfo' \ DOMAIN stockInfo :
              \E c \in NeedAdded(t) : stockInfo'[r] = NewRow(t, c)
         /\ \A r, s \in DOMAIN stockInfo' \ DOMAIN stockInfo :
              stockInfo'[r].code = stockInfo'[s].code => r = s
         /\ \A c \in NeedAdded(t) :
              \E r \in DOMAIN stockInfo' \ DOMAIN stockInfo : stockInfo'[r] = NewRow(t, c)
<1> DEFINE table == Added(t, list)
           n == Cardinality(NeedAdded(t))
           L == Len(stockInfo)
<1>1. NeedAdded(t) \in SUBSET Codes /\ n \in Nat /\ L \in Nat /\ DOMAIN stockInfo = 1 .. L
  BY ListLength, Types DEF NeedAdded, IInv
<1>2. /\ table \in Seq(StockInfo) /\ Len(table) = L + n
      /\ \A r \in 1 .. L : table[r] = stockInfo[r]
      /\ \A i \in DOMAIN list : table[L + i] = NewRow(t, list[i])
  BY AddedRows DEF IInv
<1>3. /\ DOMAIN list = 1 .. n
      /\ \A i \in DOMAIN list : list[i] \in NeedAdded(t)
      /\ \A i, j \in DOMAIN list : list[i] = list[j] => i = j
      /\ \A c \in NeedAdded(t) : \E i \in DOMAIN list : list[i] = c
  BY <1>1, ListProperties
<1> HIDE DEF table, n
<1>4. DOMAIN table = 1 .. L + n
  BY <1>1, <1>2
<1>5. /\ DOMAIN stockInfo' = 1 .. L + n
      /\ \A r \in 1 .. L + n :
           stockInfo'[r] = LET c == table[r].code
                           IN  IF db[t][c].id = r /\ IsRenamed(t, c)
                               THEN [table[r] EXCEPT !.name = crawled[t][c]] ELSE table[r]
  BY <1>4 DEF Updated, table
<1>6. ASSUME NEW r \in 1 .. L
      PROVE  stockInfo'[r] = IF Renaming(t, r)
                             THEN [stockInfo[r] EXCEPT !.name = crawled[t][stockInfo[r].code]]
                             ELSE stockInfo[r]
  BY <1>1, <1>2, <1>5 DEF Renaming
<1>7. ASSUME NEW i \in DOMAIN list PROVE stockInfo'[L + i] = NewRow(t, list[i])
  <2>1. table[L + i] = NewRow(t, list[i]) /\ L + i \in 1 .. L + n /\ list[i] \in Codes
    BY <1>1, <1>2, <1>3
  <2>2. ~ IsRenamed(t, list[i])
    BY <1>3, <2>1, NewStock DEF IInv, NeedAdded
  <2> QED
    BY <1>5, <2>1, <2>2 DEF NewRow
<1>8. ASSUME NEW r \in 1 .. L + n PROVE stockInfo'[r] \in StockInfo
  <2>1. table[r] \in StockInfo
    BY <1>2, <1>4
  <2>2. \A c \in Codes : IsRenamed(t, c) => crawled[t][c] \in Names
    BY NewStock DEF IInv, Names
  <2> QED
    BY <1>5, <2>1, <2>2 DEF StockInfo
<1>9. stockInfo' \in Seq(StockInfo)
  <2>1. stockInfo' = [r \in 1 .. L + n |-> stockInfo'[r]]
    BY <1>4 DEF Updated, table
  <2>2. stockInfo' \in [1 .. L + n -> StockInfo]
    BY <1>8, <2>1
  <2> QED
    BY <1>1, <2>2
<1>10. ASSUME NEW r \in DOMAIN stockInfo' \ DOMAIN stockInfo
       PROVE  \E i \in DOMAIN list : r = L + i /\ stockInfo'[r] = NewRow(t, list[i])
  <2>1. r - L \in DOMAIN list /\ r = L + (r - L)
    BY <1>1, <1>3, <1>5
  <2> QED
    BY <1>7, <2>1
<1>11. ASSUME NEW i \in DOMAIN list PROVE L + i \in DOMAIN stockInfo' \ DOMAIN stockInfo
  BY <1>1, <1>3, <1>5
<1>12. ASSUME NEW r \in DOMAIN stockInfo' \ DOMAIN stockInfo,
              NEW s \in DOMAIN stockInfo' \ DOMAIN stockInfo,
              stockInfo'[r].code = stockInfo'[s].code
       PROVE  r = s
  <2>1. PICK i \in DOMAIN list : r = L + i /\ stockInfo'[r] = NewRow(t, list[i])
    BY <1>10
  <2>2. PICK j \in DOMAIN list : s = L + j /\ stockInfo'[s] = NewRow(t, list[j])
    BY <1>10
  <2>3. list[i] = list[j]
    BY <1>12, <2>1, <2>2 DEF NewRow
  <2> QED
    BY <1>3, <2>1, <2>2, <2>3
<1>13. \A c \in NeedAdded(t) :
         \E r \in DOMAIN stockInfo' \ DOMAIN stockInfo : stockInfo'[r] = NewRow(t, c)
  BY <1>3, <1>7, <1>11
<1> QED
  BY <1>1, <1>3, <1>5, <1>6, <1>9, <1>10, <1>12, <1>13

\* The log row of a code is of the log's type.
LEMMA LogType ==
  ASSUME IInv, NEW t \in Threads, NEW c \in NeedLogged(t)
  PROVE  /\ c \in Codes /\ Log(t, c) \in StockLog /\ Log(t, c).new = crawled[t][c]
         /\ c \in NeedUpdated(t) =>
              /\ Log(t, c).type = "Rename" /\ Log(t, c).stockId = db[t][c].id
              /\ Log(t, c).old = db[t][c].name /\ db[t][c].name # Absent
              /\ db[t][c].id \in DOMAIN stockInfo
              /\ stockInfo[db[t][c].id].code = c /\ ~ stockInfo[db[t][c].id].index
              /\ HadName(db[t][c].id, db[t][c].name, Len(stockLog) + 1)
         /\ c \notin NeedUpdated(t) => c \in NeedAdded(t) /\ Log(t, c).type = "New"
                                       /\ Log(t, c).stockId = 0
<1>1. c \in Codes /\ (IsNew(t, c) \/ IsRenamed(t, c)) /\ crawled[t][c] \in StockNames
  BY NewStock DEF NeedLogged, NeedAdded, NeedUpdated, IInv
<1>2. CASE IsRenamed(t, c)
  <2>1. db[t][c] # NoStock
    BY <1>2 DEF IsRenamed
  <2>2. /\ db[t][c].id \in DOMAIN stockInfo /\ db[t][c].name \in Names
        /\ stockInfo[db[t][c].id].code = c /\ ~ stockInfo[db[t][c].id].index
        /\ HadName(db[t][c].id, db[t][c].name, Len(stockLog) + 1)
    BY <1>1, <2>1 DEF IInv, DbInv, Knows
  <2>3. db[t][c].id \in Nat
    BY <2>2, Types DEF IInv
  <2>4. Log(t, c) = [stockId |-> db[t][c].id, type |-> "Rename", old |-> db[t][c].name,
                     new |-> crawled[t][c]]
    BY <1>2 DEF Log
  <2>5. Log(t, c) \in StockLog
    BY <1>1, <2>2, <2>3, <2>4 DEF StockLog
  <2> QED
    BY <1>1, <1>2, <2>2, <2>4, <2>5, NamesAssumption DEF NeedUpdated
<1>3. CASE ~ IsRenamed(t, c)
  <2>1. Log(t, c) = [stockId |-> 0, type |-> "New", old |-> Absent, new |-> crawled[t][c]]
    BY <1>3 DEF Log
  <2>2. Log(t, c) \in StockLog
    BY <1>1, <2>1 DEF StockLog
  <2> QED
    BY <1>1, <1>3, <2>1, <2>2 DEF NeedUpdated, NeedAdded
<1> QED
  BY <1>2, <1>3

\* What linking does to a log row.
LinkOf(t, log, i) ==
  IF log[i].type = "New" /\ Matches(stockInfo', NeedAdded(t), log[i].new) # {}
  THEN stockLog'[i].stockId \in Matches(stockInfo', NeedAdded(t), log[i].new)
  ELSE stockLog'[i].stockId = log[i].stockId

\* Writing the log keeps its rows and adds one for each new or renamed stock.
LEMMA LoggedRows ==
  ASSUME IInv, NEW t \in Threads,
         NEW logs \in ListsOf(NeedLogged(t))
  PROVE  LET log == Logged(t, logs)
         IN  /\ log \in Seq(StockLog)
             /\ Len(log) = Len(stockLog) + Cardinality(NeedLogged(t))
             /\ \A i \in 1 .. Len(stockLog) : log[i] = stockLog[i]
             /\ \A i \in DOMAIN logs : log[Len(stockLog) + i] = Log(t, logs[i])
<1> DEFINE both == NeedLogged(t)
           n == Cardinality(both)
           new == [i \in DOMAIN logs |-> Log(t, logs[i])]
<1>1. both \in SUBSET Codes
  BY DEF NeedLogged, NeedAdded, NeedUpdated
<1> HIDE DEF both
<1>2. n \in Nat
  BY <1>1, ListLength
<1>3. DOMAIN logs = 1 .. n /\ \A i \in DOMAIN logs : logs[i] \in both
  BY <1>1, ListProperties DEF both
<1>4. \A i \in DOMAIN logs : Log(t, logs[i]) \in StockLog
  BY <1>3, LogType DEF both
<1>5. new \in [1 .. n -> StockLog]
  BY <1>3, <1>4
<1>6. new \in Seq(StockLog) /\ Len(new) = n
  BY <1>2, <1>5
<1>7. Logged(t, logs) = stockLog \o new
  BY DEF Logged
<1>8. stockLog \in Seq(StockLog)
  BY DEF IInv, TypeOK
<1>9. \A i \in DOMAIN logs : new[i] = Log(t, logs[i])
  OBVIOUS
<1> HIDE DEF new
<1> QED
  BY <1>3, <1>6, <1>7, <1>8, <1>9, Appended DEF n, both

\* What a run adds to the log, and how its new rows are linked.
LEMMA UpdateLog ==
  ASSUME IInv, NEW t \in Threads,
         NEW logs \in ListsOf(NeedLogged(t)),
         NEW pick \in Picks(stockInfo', NeedAdded(t)),
         stockInfo' \in Seq(StockInfo),
         stockLog' = Relinked(Logged(t, logs), pick)
  PROVE  LET log == Logged(t, logs)
         IN  /\ stockLog' \in Seq(StockLog) /\ DOMAIN stockLog' = DOMAIN log
             /\ Len(stockLog') >= Len(stockLog) /\ Len(stockLog') \in Nat
             /\ \A i \in DOMAIN stockLog : i \in DOMAIN log /\ log[i] = stockLog[i]
             /\ \A i \in DOMAIN log :
                  /\ stockLog'[i].type = log[i].type /\ stockLog'[i].new = log[i].new
                  /\ stockLog'[i].old = log[i].old
                  /\ LinkOf(t, log, i)
             /\ \A i \in DOMAIN log \ DOMAIN stockLog :
                  \E c \in NeedLogged(t) : log[i] = Log(t, c)
             /\ \A c \in NeedLogged(t) :
                  \E i \in DOMAIN log \ DOMAIN stockLog :
                    /\ log[i] = Log(t, c)
                    /\ \A j \in (DOMAIN log \ DOMAIN stockLog) \ {i} :
                         \E d \in NeedLogged(t) \ {c} : log[j] = Log(t, d)
<1> DEFINE both == NeedLogged(t)
           k == Cardinality(both)
           log == Logged(t, logs)
           M == Len(stockLog)
<1>1. both \in SUBSET Codes /\ k \in Nat /\ M \in Nat /\ DOMAIN stockLog = 1 .. M
  <2>1. both \in SUBSET Codes
    BY DEF NeedLogged, NeedAdded, NeedUpdated
  <2> QED
    BY <2>1, ListLength, Types DEF IInv
<1>2. /\ DOMAIN logs = 1 .. k
      /\ \A i \in DOMAIN logs : logs[i] \in both
      /\ \A i, j \in DOMAIN logs : logs[i] = logs[j] => i = j
      /\ \A c \in both : \E i \in DOMAIN logs : logs[i] = c
  BY <1>1, ListProperties
<1> HIDE DEF log, k
<1>3. /\ log \in Seq(StockLog) /\ Len(log) = M + k
      /\ \A i \in 1 .. M : log[i] = stockLog[i]
      /\ \A i \in 1 .. k : log[M + i] = Log(t, logs[i])
  <2>1. /\ log \in Seq(StockLog) /\ Len(log) = M + k
        /\ \A i \in 1 .. M : log[i] = stockLog[i]
        /\ \A i \in DOMAIN logs : log[M + i] = Log(t, logs[i])
    BY LoggedRows DEF log, k
  <2> QED
    BY <1>2, <2>1
<1>4. DOMAIN log = 1 .. M + k /\ \A i \in DOMAIN log : log[i] \in StockLog
  BY <1>1, <1>3
<1>5. stockLog' = Relinked(log, pick)
  BY DEF log
<1>6. ASSUME NEW i \in DOMAIN log
      PROVE  /\ stockLog'[i] \in StockLog
             /\ stockLog'[i].type = log[i].type /\ stockLog'[i].new = log[i].new
             /\ stockLog'[i].old = log[i].old
             /\ LinkOf(t, log, i)
  <2>1. /\ log[i] \in StockLog
        /\ stockLog'[i] = IF log[i].type = "New" /\ log[i].new \in DOMAIN pick
                          THEN [log[i] EXCEPT !.stockId = pick[log[i].new]] ELSE log[i]
    BY <1>4, <1>5 DEF Relinked
  <2>2. log[i].new \in Names
    BY <2>1 DEF StockLog, Names
  <2>3. \A m \in Names :
          /\ m \in DOMAIN pick <=> Matches(stockInfo', NeedAdded(t), m) # {}
          /\ m \in DOMAIN pick => /\ pick[m] \in Matches(stockInfo', NeedAdded(t), m)
                                  /\ pick[m] \in 1 .. Len(stockInfo')
    BY DEF Picks
  <2>4. Len(stockInfo') \in Nat
    OBVIOUS
  <2>5. CASE log[i].type = "New" /\ log[i].new \in DOMAIN pick
    <3>1. /\ pick[log[i].new] \in Nat
          /\ pick[log[i].new] \in Matches(stockInfo', NeedAdded(t), log[i].new)
      BY <2>2, <2>3, <2>4, <2>5
    <3>2. stockLog'[i] = [log[i] EXCEPT !.stockId = pick[log[i].new]]
      BY <2>1, <2>5
    <3>3. /\ stockLog'[i] \in StockLog /\ stockLog'[i].stockId = pick[log[i].new]
          /\ stockLog'[i].type = log[i].type /\ stockLog'[i].new = log[i].new
          /\ stockLog'[i].old = log[i].old
      BY <2>1, <3>1, <3>2 DEF StockLog
    <3> QED
      BY <2>5, <3>1, <3>3 DEF LinkOf
  <2>6. CASE ~ (log[i].type = "New" /\ log[i].new \in DOMAIN pick)
    BY <2>1, <2>2, <2>3, <2>6 DEF LinkOf
  <2> QED
    BY <2>5, <2>6
<1>7. stockLog' \in Seq(StockLog) /\ DOMAIN stockLog' = DOMAIN log /\ Len(stockLog') = M + k
  <2>1. stockLog' = [i \in 1 .. M + k |-> stockLog'[i]]
    BY <1>4, <1>5 DEF Relinked
  <2>2. stockLog' \in [1 .. M + k -> StockLog]
    BY <1>4, <1>6, <2>1
  <2> QED
    BY <1>1, <1>4, <2>2
<1>8. ASSUME NEW j \in DOMAIN log \ DOMAIN stockLog
       PROVE  \E i \in 1 .. k : j = M + i /\ log[j] = Log(t, logs[i]) /\ logs[i] \in both
  <2>1. j - M \in 1 .. k /\ j = M + (j - M)
    BY <1>1, <1>4
  <2> QED
    BY <1>2, <1>3, <2>1
<1>9. ASSUME NEW c \in both
       PROVE  \E i \in DOMAIN log \ DOMAIN stockLog :
                /\ log[i] = Log(t, c)
                /\ \A j \in (DOMAIN log \ DOMAIN stockLog) \ {i} :
                     \E d \in both \ {c} : log[j] = Log(t, d)
  <2>1. PICK a \in 1 .. k : logs[a] = c
    BY <1>2
  <2>2. M + a \in DOMAIN log \ DOMAIN stockLog /\ log[M + a] = Log(t, c)
    BY <1>1, <1>3, <1>4, <2>1
  <2>3. ASSUME NEW j \in (DOMAIN log \ DOMAIN stockLog) \ {M + a}
        PROVE  \E d \in both \ {c} : log[j] = Log(t, d)
    <3>1. PICK b \in 1 .. k : j = M + b /\ log[j] = Log(t, logs[b]) /\ logs[b] \in both
      BY <1>8
    <3>2. logs[b] # c
      BY <1>2, <2>1, <3>1
    <3> QED
      BY <3>1, <3>2
  <2> QED
    BY <2>2, <2>3
<1> QED
  <2>1. \A i \in DOMAIN stockLog : i \in DOMAIN log /\ log[i] = stockLog[i]
    BY <1>1, <1>3, <1>4
  <2>2. Len(stockLog') >= Len(stockLog) /\ Len(stockLog') \in Nat
    BY <1>1, <1>7
  <2> QED
    BY <1>6, <1>7, <1>8, <1>9, <2>1, <2>2 DEF log

-----------------------------------------------------------------------------
\* Saving keeps the rows, adds rows of new stocks ...
KeepsRows(t) ==
  \A r \in DOMAIN stockInfo :
    /\ r \in DOMAIN stockInfo'
    /\ stockInfo'[r].code = stockInfo[r].code /\ stockInfo'[r].first = stockInfo[r].first
    /\ stockInfo'[r].index = stockInfo[r].index /\ stockInfo'[r].by = stockInfo[r].by
    /\ stockInfo'[r].name = IF Renaming(t, r) THEN crawled[t][stockInfo[r].code]
                            ELSE stockInfo[r].name

AddsRows(t) ==
  /\ \A r \in DOMAIN stockInfo' \ DOMAIN stockInfo :
       \E c \in NeedAdded(t) : stockInfo'[r] = NewRow(t, c)
  /\ \A r, s \in DOMAIN stockInfo' \ DOMAIN stockInfo :
       stockInfo'[r].code = stockInfo'[s].code => r = s

\* ... keeps what the log says ...
KeepsLog ==
  /\ Len(stockLog') \in Nat /\ Len(stockLog') >= Len(stockLog)
  /\ \A i \in DOMAIN stockLog :
       /\ i \in DOMAIN stockLog' /\ stockLog'[i].type = stockLog[i].type
       /\ stockLog'[i].new = stockLog[i].new /\ stockLog'[i].old = stockLog[i].old
       /\ stockLog[i].type = "Rename" => stockLog'[i].stockId = stockLog[i].stockId

\* ... links log rows of new stocks by name only ...
LinkedByName(i) ==
  LET r == stockLog'[i].stockId
  IN  r \in DOMAIN stockInfo' /\ r > 1 /\ stockInfo'[r].name = stockLog'[i].new

LinksLog(t) ==
  /\ \A i \in DOMAIN stockLog :
       stockLog'[i].stockId = stockLog[i].stockId \/ LinkedByName(i)
  /\ \A i \in DOMAIN stockLog' \ DOMAIN stockLog :
       stockLog'[i].type = "New" =>
         \/ LinkedByName(i)
         \/ stockLog'[i].stockId = 0 /\ 1 \in DOMAIN stockInfo'
              /\ stockInfo'[1].first = stockLog'[i].new /\ ~ stockInfo'[1].index

\* ... and logs each rename of a row once, as a rename of this row from the name
\* the run had read.
LogsRenames(t) ==
  /\ \A r : r \notin DOMAIN stockInfo => Renames(r)' = {}
  /\ \A r \in DOMAIN stockInfo : ~ Renaming(t, r) => Renames(r)' = Renames(r)
  /\ \A r \in DOMAIN stockInfo : Renaming(t, r) =>
       \E i \in DOMAIN stockLog' \ DOMAIN stockLog :
         /\ i \in Nat /\ i > Len(stockLog) /\ i <= Len(stockLog')
         /\ Renames(r)' = Renames(r) \cup {i}
         /\ stockLog'[i].new = crawled[t][stockInfo[r].code]
         /\ stockLog'[i].old = db[t][stockInfo[r].code].name
  /\ \A i \in DOMAIN stockLog' \ DOMAIN stockLog :
       stockLog'[i].type = "Rename" =>
         LET r == stockLog'[i].stockId
         IN  /\ r \in DOMAIN stockInfo /\ Renaming(t, r) /\ ~ stockInfo[r].index
             /\ stockLog'[i].old # Absent

\* Saving, of which the rest of the proof needs only this.
LEMMA UpdateEffect ==
  ASSUME IInv, NEW t \in Threads, Update(t)
  PROVE  /\ pc[t] = "saving" /\ Leave(t) /\ UNCHANGED <<source, changes>>
         /\ stockInfo' \in Seq(StockInfo) /\ stockLog' \in Seq(StockLog)
         /\ KeepsRows(t) /\ AddsRows(t) /\ KeepsLog /\ LinksLog(t) /\ LogsRenames(t)
<1>1. PICK list \in ListsOf(NeedAdded(t)), logs \in ListsOf(NeedLogged(t)) :
        /\ stockInfo' = Updated(t, Added(t, list))
        /\ \E pick \in Picks(stockInfo', NeedAdded(t)) :
             stockLog' = Relinked(Logged(t, logs), pick)
  BY DEF Update
<1>2. PICK pick \in Picks(stockInfo', NeedAdded(t)) :
        stockLog' = Relinked(Logged(t, logs), pick)
  BY <1>1
<1> DEFINE log == Logged(t, logs)
<1>3. /\ stockInfo' \in Seq(StockInfo)
      /\ DOMAIN stockInfo \subseteq DOMAIN stockInfo'
      /\ \A r \in DOMAIN stockInfo :
           stockInfo'[r] = IF Renaming(t, r)
                           THEN [stockInfo[r] EXCEPT !.name = crawled[t][stockInfo[r].code]]
                           ELSE stockInfo[r]
      /\ AddsRows(t)
      /\ \A c \in NeedAdded(t) : \E r \in DOMAIN stockInfo' : stockInfo'[r] = NewRow(t, c)
  BY <1>1, UpdateTable DEF AddsRows
<1>4. KeepsRows(t)
  <2>1. \A r \in DOMAIN stockInfo : stockInfo[r] \in StockInfo
    BY DEF IInv, TypeOK
  <2> QED
    BY <1>3, <2>1 DEF KeepsRows, StockInfo
<1> HIDE DEF log
<1>5. /\ stockLog' \in Seq(StockLog) /\ DOMAIN stockLog' = DOMAIN log
      /\ Len(stockLog') >= Len(stockLog) /\ Len(stockLog') \in Nat
      /\ \A i \in DOMAIN stockLog : i \in DOMAIN log /\ log[i] = stockLog[i]
      /\ \A i \in DOMAIN log :
           /\ stockLog'[i].type = log[i].type /\ stockLog'[i].new = log[i].new
           /\ stockLog'[i].old = log[i].old
           /\ LinkOf(t, log, i)
      /\ \A i \in DOMAIN log \ DOMAIN stockLog : \E c \in NeedLogged(t) : log[i] = Log(t, c)
      /\ \A c \in NeedLogged(t) :
           \E i \in DOMAIN log \ DOMAIN stockLog :
             /\ log[i] = Log(t, c)
             /\ \A j \in (DOMAIN log \ DOMAIN stockLog) \ {i} :
                  \E d \in NeedLogged(t) \ {c} : log[j] = Log(t, d)
  BY <1>2, <1>3, UpdateLog DEF log
<1>6. KeepsLog
  BY <1>5 DEF KeepsLog, LinkOf
<1>7. ASSUME NEW i \in DOMAIN log,
             stockLog'[i].stockId \in Matches(stockInfo', NeedAdded(t), log[i].new)
      PROVE  LinkedByName(i)
  BY <1>5, <1>7 DEF LinkedByName, Matches
<1>8. LinksLog(t)
  <2>1. ASSUME NEW i \in DOMAIN stockLog
        PROVE  stockLog'[i].stockId = stockLog[i].stockId \/ LinkedByName(i)
    BY <1>5, <1>7 DEF LinkOf
  <2>2. ASSUME NEW i \in DOMAIN stockLog' \ DOMAIN stockLog, stockLog'[i].type = "New",
               ~ LinkedByName(i)
        PROVE  stockLog'[i].stockId = 0 /\ 1 \in DOMAIN stockInfo'
                 /\ stockInfo'[1].first = stockLog'[i].new /\ ~ stockInfo'[1].index
    <3>1. PICK c \in NeedLogged(t) : log[i] = Log(t, c)
      BY <1>5
    <3>2. i \in DOMAIN log /\ log[i].type = "New" /\ stockLog'[i].new = log[i].new
      BY <1>5, <2>2
    <3>3. /\ c \in NeedAdded(t) /\ log[i].stockId = 0 /\ log[i].new = crawled[t][c]
      BY <3>1, <3>2, LogType
    <3>4. /\ Matches(stockInfo', NeedAdded(t), log[i].new) = {}
          /\ stockLog'[i].stockId = log[i].stockId
      BY <1>5, <1>7, <2>2, <3>2 DEF LinkOf
    <3>5. PICK s \in DOMAIN stockInfo' : stockInfo'[s] = NewRow(t, c)
      BY <1>3, <3>3
    <3>6. /\ stockInfo'[s].code \in NeedAdded(t) /\ stockInfo'[s].name = log[i].new
          /\ stockInfo'[s].first = log[i].new /\ ~ stockInfo'[s].index
      BY <3>3, <3>5 DEF NewRow
    <3>7. s \in Nat /\ s >= 1
      BY <1>3
    <3>8. ~ (s > 1)
      BY <3>4, <3>6 DEF Matches
    <3>9. s = 1
      BY <3>7, <3>8
    <3> QED
      BY <3>2, <3>3, <3>4, <3>6, <3>9
  <2> QED
    BY <2>1, <2>2 DEF LinksLog
<1>9. LogsRenames(t)
  <2>1. ASSUME NEW i \in DOMAIN log \ DOMAIN stockLog, NEW c \in NeedLogged(t),
               log[i] = Log(t, c)
        PROVE  /\ i \in Nat /\ i > Len(stockLog) /\ i <= Len(stockLog')
               /\ stockLog'[i].type = "Rename" <=> c \in NeedUpdated(t)
               /\ c \in NeedUpdated(t) =>
                    /\ stockLog'[i].stockId \in DOMAIN stockInfo
                    /\ stockLog'[i].stockId = db[t][c].id
                    /\ stockInfo[stockLog'[i].stockId].code = c
                    /\ ~ stockInfo[stockLog'[i].stockId].index
                    /\ Renaming(t, stockLog'[i].stockId)
                    /\ stockLog'[i].new = crawled[t][c]
                    /\ stockLog'[i].old = db[t][c].name /\ stockLog'[i].old # Absent
    <3>1. i \in Nat /\ i > Len(stockLog) /\ i <= Len(stockLog')
      BY <1>5, Types DEF IInv
    <3>2. stockLog'[i].type = "Rename" <=> c \in NeedUpdated(t)
      <4>1. log[i].type = "Rename" <=> c \in NeedUpdated(t)
        BY <2>1, LogType
      <4>2. stockLog'[i].type = log[i].type
        BY <1>5, <2>1
      <4> QED
        BY <4>1, <4>2
    <3>3. ASSUME c \in NeedUpdated(t)
          PROVE  /\ stockLog'[i].stockId = db[t][c].id
                 /\ db[t][c].id \in DOMAIN stockInfo
                 /\ stockInfo[db[t][c].id].code = c /\ ~ stockInfo[db[t][c].id].index
                 /\ stockLog'[i].new = crawled[t][c]
                 /\ stockLog'[i].old = db[t][c].name /\ db[t][c].name # Absent
      <4>1. /\ log[i].type = "Rename" /\ log[i].stockId = db[t][c].id
            /\ log[i].new = crawled[t][c] /\ log[i].old = db[t][c].name
            /\ db[t][c].name # Absent /\ db[t][c].id \in DOMAIN stockInfo
            /\ stockInfo[db[t][c].id].code = c /\ ~ stockInfo[db[t][c].id].index
        BY <2>1, <3>3, LogType
      <4>2. stockLog'[i].stockId = log[i].stockId
        BY <1>5, <4>1 DEF LinkOf
      <4> QED
        BY <1>5, <4>1, <4>2
    <3>4. c \in NeedUpdated(t) => Renaming(t, db[t][c].id)
      BY <3>3 DEF NeedUpdated, Renaming
    <3> QED
      BY <3>1, <3>2, <3>3, <3>4
  <2>2. \A i \in DOMAIN stockLog : \A r : i \in Renames(r)' <=> i \in Renames(r)
    BY <1>6 DEF KeepsLog, Renames, IInv, TypeOK
  <2>3. ASSUME NEW r, NEW i \in Renames(r)', i \notin Renames(r)
        PROVE  \E c \in NeedUpdated(t) :
                 /\ log[i] = Log(t, c) /\ i \in DOMAIN log \ DOMAIN stockLog
                 /\ r \in DOMAIN stockInfo /\ stockInfo[r].code = c /\ Renaming(t, r)
    <3>1. /\ i \in DOMAIN log \ DOMAIN stockLog
          /\ stockLog'[i].type = "Rename" /\ stockLog'[i].stockId = r
      BY <1>5, <2>2, <2>3 DEF Renames
    <3> QED
      BY <1>5, <2>1, <3>1
  <2>4. \A r : Renames(r) \subseteq Renames(r)'
    BY <2>2 DEF Renames
  <2>5. \A r : r \notin DOMAIN stockInfo => Renames(r)' = {}
    <3>1. \A r : r \notin DOMAIN stockInfo => Renames(r) = {}
      BY DEF IInv, TypeOK, Renames
    <3> QED
      BY <2>3, <3>1
  <2>6. \A r \in DOMAIN stockInfo : ~ Renaming(t, r) => Renames(r)' = Renames(r)
    BY <2>3, <2>4
  <2>7. ASSUME NEW r \in DOMAIN stockInfo, Renaming(t, r)
        PROVE  \E i \in DOMAIN stockLog' \ DOMAIN stockLog :
                 /\ i \in Nat /\ i > Len(stockLog) /\ i <= Len(stockLog')
                 /\ Renames(r)' = Renames(r) \cup {i}
                 /\ stockLog'[i].new = crawled[t][stockInfo[r].code]
                 /\ stockLog'[i].old = db[t][stockInfo[r].code].name
    <3> DEFINE c == stockInfo[r].code
    <3>1. c \in NeedUpdated(t) /\ c \in NeedLogged(t) /\ db[t][c].id = r
      BY <2>7, Types DEF IInv, Renaming, NeedUpdated, NeedLogged
    <3> HIDE DEF c
    <3>2. PICK i \in DOMAIN log \ DOMAIN stockLog :
            /\ log[i] = Log(t, c)
            /\ \A j \in (DOMAIN log \ DOMAIN stockLog) \ {i} :
                 \E d \in NeedLogged(t) \ {c} : log[j] = Log(t, d)
      BY <1>5, <3>1
    <3>3. /\ i \in Nat /\ i > Len(stockLog) /\ i <= Len(stockLog')
          /\ stockLog'[i].type = "Rename" /\ stockLog'[i].stockId = r
          /\ stockLog'[i].new = crawled[t][c] /\ stockLog'[i].old = db[t][c].name
      BY <2>1, <3>1, <3>2
    <3>4. i \in Renames(r)' /\ i \in DOMAIN stockLog' \ DOMAIN stockLog
      BY <1>5, <3>2, <3>3 DEF Renames
    <3>5. ASSUME NEW j \in Renames(r)', j \notin Renames(r), j # i
          PROVE  FALSE
      <4>1. j \in (DOMAIN log \ DOMAIN stockLog) \ {i}
        BY <2>3, <3>5
      <4>2. PICK d \in NeedLogged(t) \ {c} : log[j] = Log(t, d)
        BY <3>2, <4>1
      <4>3. stockLog'[j].type = "Rename" /\ stockLog'[j].stockId = r
        BY <3>5 DEF Renames
      <4>4. stockInfo[r].code = d
        BY <2>1, <4>1, <4>2, <4>3
      <4> QED
        BY <4>2, <4>4 DEF c
    <3>6. Renames(r)' = Renames(r) \cup {i}
      BY <2>4, <3>4, <3>5
    <3> QED
      BY <3>3, <3>4, <3>6 DEF c
  <2>8. \A i \in DOMAIN stockLog' \ DOMAIN stockLog :
          stockLog'[i].type = "Rename" =>
            LET r == stockLog'[i].stockId
            IN  /\ r \in DOMAIN stockInfo /\ Renaming(t, r) /\ ~ stockInfo[r].index
                /\ stockLog'[i].old # Absent
    BY <1>5, <2>1
  <2> QED
    BY <2>5, <2>6, <2>7, <2>8 DEF LogsRenames
<1> QED
  BY <1>3, <1>4, <1>5, <1>6, <1>8, <1>9 DEF Update, sourceVars

-----------------------------------------------------------------------------
\* Row r was named n before log row i of the next state was written.
HadNameNext(r, n, i) ==
  n = stockInfo'[r].first \/ \E j \in Renames(r)' : j < i /\ n = stockLog'[j].new

\* A name that a row had it keeps having had, and one it is renamed to it has had.
LEMMA NamesKept ==
  ASSUME IInv, NEW t \in Threads, KeepsRows(t), KeepsLog, LogsRenames(t)
  PROVE  /\ \A r \in DOMAIN stockInfo : \A n : \A i, j \in Nat :
              i <= j /\ HadName(r, n, i) => HadNameNext(r, n, j)
         /\ \A r \in DOMAIN stockInfo :
              Renaming(t, r) => HadName(r, stockInfo[r].name, Len(stockLog) + 1)'
<1>1. \A r \in DOMAIN stockInfo : Renames(r) \subseteq Renames(r)'
  BY DEF LogsRenames
<1>2. \A r : Renames(r) \subseteq DOMAIN stockLog /\ Renames(r) \subseteq Nat
  BY Types DEF IInv, Renames
<1>3. ASSUME NEW r \in DOMAIN stockInfo, NEW n, NEW i \in Nat, NEW j \in Nat,
             i <= j, HadName(r, n, i)
      PROVE  HadNameNext(r, n, j)
  <2>1. CASE n = stockInfo[r].first
    BY <2>1 DEF KeepsRows, HadNameNext
  <2>2. CASE \E k \in Renames(r) : k < i /\ n = stockLog[k].new
    <3>1. PICK k \in Renames(r) : k < i /\ n = stockLog[k].new
      BY <2>2
    <3>2. k \in Renames(r)' /\ stockLog'[k].new = n /\ k < j
      BY <1>1, <1>2, <1>3, <3>1 DEF KeepsLog
    <3> QED
      BY <3>2 DEF HadNameNext
  <2> QED
    BY <1>3, <2>1, <2>2 DEF HadName
<1>4. ASSUME NEW r \in DOMAIN stockInfo, Renaming(t, r)
      PROVE  HadName(r, stockInfo[r].name, Len(stockLog) + 1)'
  <2>1. PICK i \in Nat :
          /\ i <= Len(stockLog') /\ i \in Renames(r)'
          /\ stockLog'[i].new = crawled[t][stockInfo[r].code]
    BY <1>4 DEF LogsRenames
  <2>2. stockInfo'[r].name = stockLog'[i].new
    BY <1>4, <2>1 DEF KeepsRows
  <2>3. i < Len(stockLog') + 1
    BY <2>1 DEF KeepsLog
  <2> QED
    BY <2>1, <2>2, <2>3 DEF HadName
<1> QED
  BY <1>3, <1>4

LEMMA UpdateStep ==
  ASSUME IInv, NEW t \in Threads, Update(t)
  PROVE  IInv'
<1>1. /\ pc[t] = "saving" /\ Leave(t) /\ UNCHANGED <<source, changes>>
      /\ stockInfo' \in Seq(StockInfo) /\ stockLog' \in Seq(StockLog)
      /\ KeepsRows(t) /\ AddsRows(t) /\ KeepsLog /\ LinksLog(t) /\ LogsRenames(t)
  BY UpdateEffect
<1>2. /\ \A r \in DOMAIN stockInfo : \A n : \A i, j \in Nat :
           i <= j /\ HadName(r, n, i) => HadNameNext(r, n, j)
      /\ \A r \in DOMAIN stockInfo :
           Renaming(t, r) => HadName(r, stockInfo[r].name, Len(stockLog) + 1)'
  BY <1>1, NamesKept
<1>3. /\ Len(stockLog) + 1 \in Nat /\ Len(stockLog') + 1 \in Nat
      /\ Len(stockLog) + 1 <= Len(stockLog') + 1
  BY <1>1, Types DEF IInv, KeepsLog
<1>4. ASSUME NEW r \in DOMAIN stockInfo' \ DOMAIN stockInfo
      PROVE  /\ stockInfo'[r].code \in Codes /\ stockInfo'[r].by = t
             /\ db[t][stockInfo'[r].code] = NoStock
             /\ ~ stockInfo'[r].index /\ stockInfo'[r].index \in BOOLEAN
             /\ stockInfo'[r].name = stockInfo'[r].first
             /\ stockInfo'[r].name \in StockNames
  <2>1. PICK c \in NeedAdded(t) : stockInfo'[r] = NewRow(t, c)
    BY <1>1 DEF AddsRows
  <2>2. c \in Codes /\ IsNew(t, c) /\ crawled[t][c] \in StockNames
    BY NewStock DEF IInv, NeedAdded
  <2> QED
    BY <2>1, <2>2 DEF NewRow, IsNew
<1>5. TypeOK'
  <2>1. ASSUME NEW i \in DOMAIN stockLog', stockLog'[i].type = "Rename"
        PROVE  stockLog'[i].stockId \in DOMAIN stockInfo' /\ stockLog'[i].old # Absent
    <3>1. CASE i \in DOMAIN stockLog
      BY <1>1, <2>1, <3>1 DEF IInv, TypeOK, KeepsLog, KeepsRows
    <3>2. CASE i \notin DOMAIN stockLog
      BY <1>1, <2>1, <3>2 DEF LogsRenames, KeepsRows
    <3> QED
      BY <3>1, <3>2
  <2> QED
    BY <1>1, <2>1, LeaveType DEF IInv, TypeOK
<1>6. IndexInv'
  <2>1. ASSUME NEW r \in DOMAIN stockInfo, Renaming(t, r)
        PROVE  ~ stockInfo[r].index /\ stockInfo'[r].name \in StockNames
    <3> DEFINE c == stockInfo[r].code
    <3>1. c \in Codes /\ db[t][c].id = r /\ IsRenamed(t, c)
      BY <2>1, Types DEF IInv, Renaming
    <3>2. crawled[t][c] \in StockNames /\ db[t][c] # NoStock
      BY <3>1, NewStock DEF IInv, IsRenamed
    <3> QED
      BY <1>1, <2>1, <3>1, <3>2 DEF IInv, DbInv, Knows, KeepsRows
  <2>2. StockNames \cap IndexNames = {}
    BY NamesAssumption
  <2>3. ASSUME NEW r \in DOMAIN stockInfo
        PROVE  /\ stockInfo'[r].index <=> stockInfo'[r].name \in IndexNames
               /\ stockInfo'[r].index => stockInfo'[r].by = Hand
    BY <1>1, <2>1, <2>2 DEF KeepsRows, IInv, IndexInv
  <2> QED
    BY <1>4, <2>2, <2>3 DEF IndexInv
<1>7. NameInv'
  <2>1. ASSUME NEW r \in DOMAIN stockInfo, ~ Renaming(t, r)
        PROVE  HadName(r, stockInfo[r].name, Len(stockLog) + 1)'
    <3>1. stockInfo'[r].name = stockInfo[r].name
      BY <1>1, <2>1 DEF KeepsRows
    <3>2. HadName(r, stockInfo[r].name, Len(stockLog) + 1)
      BY DEF IInv, NameInv
    <3>3. HadNameNext(r, stockInfo[r].name, Len(stockLog') + 1)
      BY <1>2, <1>3, <3>2
    <3> QED
      BY <3>1, <3>3 DEF HadName, HadNameNext
  <2>2. ASSUME NEW r \in DOMAIN stockInfo' \ DOMAIN stockInfo
        PROVE  HadName(r, stockInfo[r].name, Len(stockLog) + 1)'
    BY <1>4 DEF HadName
  <2> QED
    BY <1>2, <2>1, <2>2 DEF NameInv
<1>8. DbInv'
  <2> SUFFICES ASSUME NEW u \in Threads, NEW c \in Codes PROVE Knows(u, c)'
    BY DEF DbInv
  <2>1. /\ pc'[t] = "idle" /\ db'[t][c] = NoStock
        /\ u # t => pc'[u] = pc[u] /\ db'[u] = db[u]
    BY <1>1, LeaveType DEF IInv
  <2>2. Knows(u, c)
    BY DEF IInv, DbInv
  <2>3. CASE u = t
    BY <2>1, <2>3 DEF Knows
  <2>4. CASE u # t /\ db[u][c] = NoStock
    BY <1>1, <1>4, <2>1, <2>2, <2>4 DEF Knows, KeepsRows
  <2>5. CASE u # t /\ db[u][c] # NoStock
    <3>1. PICK r \in DOMAIN stockInfo, n \in Names :
            /\ r = db[u][c].id /\ n = db[u][c].name
            /\ stockInfo[r].code = c /\ ~ stockInfo[r].index
            /\ HadName(r, n, Len(stockLog) + 1)
      BY <2>2, <2>5 DEF Knows
    <3>2. r \in DOMAIN stockInfo' /\ stockInfo'[r].code = c /\ ~ stockInfo'[r].index
      BY <1>1, <3>1 DEF KeepsRows
    <3>3. HadNameNext(r, n, Len(stockLog') + 1)
      BY <1>2, <1>3, <3>1
    <3> QED
      BY <2>1, <2>5, <3>1, <3>2, <3>3 DEF Knows, HadName, HadNameNext, Renames
  <2> QED
    BY <2>3, <2>4, <2>5
<1>9. OneRowPerThread'
  <2> SUFFICES ASSUME NEW r \in DOMAIN stockInfo', NEW s \in DOMAIN stockInfo',
                      stockInfo'[r].code = stockInfo'[s].code,
                      stockInfo'[r].by = stockInfo'[s].by, stockInfo'[r].by # Hand
               PROVE  r = s
    BY DEF OneRowPerThread
  <2>1. CASE r \in DOMAIN stockInfo /\ s \in DOMAIN stockInfo
    BY <1>1, <2>1 DEF KeepsRows, IInv, OneRowPerThread
  <2>2. CASE r \notin DOMAIN stockInfo /\ s \notin DOMAIN stockInfo
    BY <1>1, <2>2 DEF AddsRows
  <2>3. ASSUME NEW p \in DOMAIN stockInfo, NEW q \in DOMAIN stockInfo' \ DOMAIN stockInfo,
               stockInfo'[p].code = stockInfo'[q].code, stockInfo'[p].by = stockInfo'[q].by
        PROVE  FALSE
    <3>1. stockInfo[p].code = stockInfo'[q].code /\ stockInfo[p].by = t
      BY <1>1, <1>4, <2>3 DEF KeepsRows
    <3>2. stockInfo[p].code \in Codes /\ db[t][stockInfo[p].code] = NoStock
      BY <1>4, <3>1
    <3> QED
      BY <1>1, <3>1, <3>2 DEF IInv, DbInv, Knows
  <2> QED
    BY <2>1, <2>2, <2>3
<1>10. LogTellsName'
  <2> SUFFICES ASSUME NEW r \in DOMAIN stockInfo'
               PROVE  /\ Renames(r)' = {} => stockInfo'[r].name = stockInfo'[r].first
                      /\ \A i \in Renames(r)' :
                           (\A j \in Renames(r)' : j <= i) => stockInfo'[r].name = stockLog'[i].new
    BY DEF LogTellsName
  <2>1. CASE r \notin DOMAIN stockInfo
    BY <1>1, <1>4, <2>1 DEF LogsRenames
  <2>2. CASE r \in DOMAIN stockInfo /\ ~ Renaming(t, r)
    <3>1. /\ Renames(r)' = Renames(r) /\ stockInfo'[r].name = stockInfo[r].name
          /\ stockInfo'[r].first = stockInfo[r].first
      BY <1>1, <2>2 DEF LogsRenames, KeepsRows
    <3>2. \A i \in Renames(r) : stockLog'[i].new = stockLog[i].new
      BY <1>1 DEF KeepsLog, Renames
    <3> QED
      BY <2>2, <3>1, <3>2 DEF IInv, LogTellsName
  <2>3. CASE r \in DOMAIN stockInfo /\ Renaming(t, r)
    <3>1. PICK i \in Nat :
            /\ i > Len(stockLog) /\ Renames(r)' = Renames(r) \cup {i}
            /\ stockLog'[i].new = crawled[t][stockInfo[r].code]
      BY <1>1, <2>3 DEF LogsRenames
    <3>2. stockInfo'[r].name = stockLog'[i].new
      BY <1>1, <2>3, <3>1 DEF KeepsRows
    <3>3. \A j \in Renames(r) : j \in Nat /\ j < i
      BY <3>1, Types DEF IInv, Renames
    <3> QED
      BY <3>1, <3>2, <3>3
  <2> QED
    BY <2>1, <2>2, <2>3
<1>11. RenamesFromAName'
  <2> SUFFICES ASSUME NEW r \in DOMAIN stockInfo', NEW i \in Renames(r)'
               PROVE  HadName(r, stockLog[i].old, i)'
    BY DEF RenamesFromAName
  <2>1. r \in DOMAIN stockInfo
    BY <1>1 DEF LogsRenames
  <2>2. CASE i \in Renames(r)
    <3>1. i \in Nat /\ i <= i /\ stockLog'[i].old = stockLog[i].old
      BY <1>1, <2>2, Types DEF IInv, KeepsLog, Renames
    <3>2. HadName(r, stockLog[i].old, i)
      BY <2>1, <2>2 DEF IInv, RenamesFromAName
    <3>3. HadNameNext(r, stockLog[i].old, i)
      BY <1>2, <2>1, <3>1, <3>2
    <3> QED
      BY <3>1, <3>3 DEF HadName, HadNameNext
  <2>3. CASE i \notin Renames(r)
    <3> DEFINE c == stockInfo[r].code
    <3>1. Renaming(t, r)
      BY <1>1, <2>1, <2>3 DEF LogsRenames
    <3>2. i \in Nat /\ i > Len(stockLog) /\ stockLog'[i].old = db[t][c].name
      BY <1>1, <2>1, <2>3, <3>1 DEF LogsRenames
    <3>3. c \in Codes /\ db[t][c].id = r /\ db[t][c] # NoStock
      BY <2>1, <3>1, Types DEF IInv, Renaming, IsRenamed
    <3>4. HadName(r, db[t][c].name, Len(stockLog) + 1)
      BY <3>3 DEF IInv, DbInv, Knows
    <3>5. Len(stockLog) + 1 <= i
      BY <1>3, <3>2, Types DEF IInv
    <3>6. HadNameNext(r, db[t][c].name, i)
      BY <1>2, <1>3, <2>1, <3>2, <3>4, <3>5
    <3> QED
      BY <3>2, <3>6 DEF HadName, HadNameNext
  <2> QED
    BY <2>2, <2>3
<1>12. LogsNameTheirStock'
  <2> SUFFICES ASSUME NEW i \in DOMAIN stockLog'
               PROVE  \E r \in DOMAIN stockInfo' : \E n :
                        /\ r = IF stockLog'[i].stockId = 0 THEN 1 ELSE stockLog'[i].stockId
                        /\ n = stockLog'[i].new
                        /\ ~ stockInfo'[r].index /\ HadName(r, n, Len(stockLog) + 1)'
    BY DEF LogsNameTheirStock, HadName, Renames
  <2>1. /\ i \in Nat /\ i < Len(stockLog') + 1
        /\ stockLog'[i].type \in {"New", "Rename"} /\ stockLog'[i].new \in StockNames
    <3>1. stockLog'[i] \in StockLog /\ i \in Nat /\ i <= Len(stockLog')
      BY <1>1
    <3> QED
      BY <1>3, <3>1, Types DEF StockLog, KeepsLog
  <2>2. CASE LinkedByName(i)
    <3>1. PICK r \in DOMAIN stockInfo' :
            r = stockLog'[i].stockId /\ r # 0 /\ stockInfo'[r].name = stockLog'[i].new
      BY <2>2 DEF LinkedByName
    <3>2. \E n : n = stockLog'[i].new /\ HadName(r, n, Len(stockLog) + 1)'
      BY <1>7, <3>1 DEF NameInv, HadName
    <3>3. ~ stockInfo'[r].index
      BY <1>6, <2>1, <3>1, NamesAssumption DEF IndexInv
    <3> QED
      BY <3>1, <3>2, <3>3
  <2>3. CASE i \in DOMAIN stockLog /\ ~ LinkedByName(i)
    <3>1. PICK r \in DOMAIN stockInfo, n \in StockNames :
            /\ r = IF stockLog[i].stockId = 0 THEN 1 ELSE stockLog[i].stockId
            /\ n = stockLog[i].new
            /\ ~ stockInfo[r].index /\ HadName(r, n, Len(stockLog) + 1)
      BY <2>3, Types DEF IInv, LogsNameTheirStock
    <3>2. stockLog'[i].stockId = stockLog[i].stockId /\ stockLog'[i].new = stockLog[i].new
      BY <1>1, <2>3 DEF LinksLog, KeepsLog
    <3>3. HadNameNext(r, n, Len(stockLog') + 1)
      BY <1>2, <1>3, <3>1
    <3>4. HadName(r, n, Len(stockLog) + 1)'
      BY <3>3 DEF HadName, HadNameNext
    <3> QED
      BY <1>1, <3>1, <3>2, <3>4 DEF KeepsRows
  <2>4. CASE i \notin DOMAIN stockLog /\ ~ LinkedByName(i) /\ stockLog'[i].type = "New"
    BY <1>1, <2>4 DEF LinksLog, HadName
  <2>5. CASE i \notin DOMAIN stockLog /\ ~ LinkedByName(i) /\ stockLog'[i].type = "Rename"
    <3>1. PICK r \in DOMAIN stockInfo : r = stockLog'[i].stockId /\ ~ stockInfo[r].index
      BY <1>1, <2>5 DEF LogsRenames
    <3>2. r \in DOMAIN stockInfo' /\ ~ stockInfo'[r].index /\ r # 0
      BY <1>1, <3>1, Types DEF IInv, KeepsRows
    <3>3. i \in Renames(r)'
      BY <2>5, <3>1 DEF Renames
    <3>4. \E n : n = stockLog'[i].new /\ HadName(r, n, Len(stockLog) + 1)'
      BY <2>1, <3>3 DEF HadName
    <3> QED
      BY <3>1, <3>2, <3>4
  <2> QED
    BY <2>1, <2>2, <2>3, <2>4, <2>5
<1> QED
  BY <1>5, <1>6, <1>7, <1>8, <1>9, <1>10, <1>11, <1>12 DEF IInv

LEMMA StutterStep ==
  ASSUME IInv, UNCHANGED vars
  PROVE  IInv'
BY DEF IInv, TypeOK, IndexInv, NameInv, DbInv, Knows, HadName, Renames, OneRowPerThread,
   LogTellsName, RenamesFromAName, LogsNameTheirStock, vars, sourceVars, tables, threadVars

LEMMA NextIInv == IInv /\ [Next]_vars => IInv'
<1> SUFFICES ASSUME IInv, [Next]_vars PROVE IInv'
  OBVIOUS
<1>1. ASSUME NEW c \in Codes, Change(c) PROVE IInv'
  BY <1>1, ChangeStep
<1>2. ASSUME NEW t \in Threads, Read(t) PROVE IInv'
  BY <1>2, ReadStep
<1>3. ASSUME NEW t \in Threads, Crawl(t) PROVE IInv'
  BY <1>3, CrawlStep
<1>4. ASSUME NEW t \in Threads, Update(t) PROVE IInv'
  BY <1>4, UpdateStep
<1>5. ASSUME NEW t \in Threads, Abort(t) PROVE IInv'
  BY <1>5, AbortStep
<1>6. CASE UNCHANGED vars
  BY <1>6, StutterStep
<1> QED
  BY <1>1, <1>2, <1>3, <1>4, <1>5, <1>6 DEF Next, Run, Work

LEMMA IInvAlways == Spec => []IInv
BY InitIInv, NextIInv, PTL DEF Spec

-----------------------------------------------------------------------------
\* The tables and the runs keep their types; a rename's log row names a row of
\* stock_info and the name it had.
THEOREM TypeCorrect == Spec => []TypeOK
<1>1. IInv => TypeOK
  BY DEF IInv
<1> QED
  BY <1>1, IInvAlways, PTL

\* StockServiceImpl.update inserts a stock again only when runs overlap: with
\* any number of runs, renames, delistings and indices with its code, one
\* thread's runs insert it once.
THEOREM OneRowPerThreadAlways == Spec => []OneRowPerThread
<1>1. IInv => OneRowPerThread
  BY DEF IInv
<1> QED
  BY <1>1, IInvAlways, PTL

\* Each row of stock_info bears the name that the last Rename row of stock_log
\* gives it, however many runs save at a time.
THEOREM LogTellsNameAlways == Spec => []LogTellsName
<1>1. IInv => LogTellsName
  BY DEF IInv
<1> QED
  BY <1>1, IInvAlways, PTL

\* The old name in a Rename row is one the stock had before, even if the run
\* that wrote it had read the table before others renamed the stock.
THEOREM RenamesFromANameAlways == Spec => []RenamesFromAName
<1>1. IInv => RenamesFromAName
  BY DEF IInv
<1> QED
  BY <1>1, IInvAlways, PTL

\* What setStockIdByCodeType links a log row to is a stock, not an index, that
\* had the logged name, and an unlinked row is of the first row of the table.
THEOREM LogsNameTheirStockAlways == Spec => []LogsNameTheirStock
<1>1. IInv => LogsNameTheirStock
  BY DEF IInv
<1> QED
  BY <1>1, IInvAlways, PTL

=============================================================================
