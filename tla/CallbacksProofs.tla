---------------------------- MODULE CallbacksProofs ----------------------------
(***************************************************************************)
(* Proofs about callback lists, for every set of functions and of flags and *)
(* any number of uses, at the top level or in a callback of the list; and  *)
(* about event handlers, for every set of functions and any number of uses *)
(* and clicks, at the top level or in a handler.                           *)
(***************************************************************************)
EXTENDS Callbacks, Events, FiniteSetTheorems, FunctionTheorems, TLAPS

-----------------------------------------------------------------------------
\* Lists: what a loop with splice() leaves.

\* How many indexes of K are not above i, which says where those above go.
UpTo(K, i) == {j \in K : j <= i}

\* The members of K are numbers from 1 on.
LEMMA Indexes ==
  ASSUME NEW n \in Nat, NEW K \in SUBSET (1..n)
  PROVE  \A k \in K : k \in Int /\ 1 <= k /\ k <= n /\ 0 < k
  OBVIOUS

\* More of K is up to a higher index.
LEMMA UpToMonotone ==
  ASSUME NEW n \in Nat, NEW K \in SUBSET (1..n), NEW i \in Int, NEW k \in Int, i <= k
  PROVE  UpTo(K, i) \subseteq UpTo(K, k)
  <1> SUFFICES ASSUME NEW j \in K, j <= i PROVE j <= k
    BY DEF UpTo
  <1>1. j \in Int
    BY Indexes
  <1> QED BY <1>1

\* The indexes of K up to i can be counted, and are at most i.
LEMMA UpToFinite ==
  ASSUME NEW n \in Nat, NEW K \in SUBSET (1..n), NEW i \in Int
  PROVE  /\ IsFiniteSet(K) /\ Cardinality(K) \in Nat
         /\ IsFiniteSet(UpTo(K, i))
         /\ Cardinality(UpTo(K, i)) \in 0..Cardinality(K)
         /\ i >= 0 => Cardinality(UpTo(K, i)) <= i
  <1>1. IsFiniteSet(1..n)
    BY FS_Interval
  <1>2. IsFiniteSet(K) /\ Cardinality(K) \in Nat
    BY <1>1, FS_Subset, FS_CardinalityType
  <1>3. UpTo(K, i) \subseteq K
    BY DEF UpTo
  <1>4. IsFiniteSet(UpTo(K, i)) /\ Cardinality(UpTo(K, i)) <= Cardinality(K)
    BY <1>2, <1>3, FS_Subset
  <1>5. Cardinality(UpTo(K, i)) \in Nat
    BY <1>4, FS_CardinalityType
  <1>6. ASSUME i >= 0 PROVE Cardinality(UpTo(K, i)) <= i
    <2>1. UpTo(K, i) \subseteq 1..i
      <3>1. \A k \in UpTo(K, i) : k \in Int /\ 1 <= k /\ k <= i
        BY Indexes DEF UpTo
      <3> QED BY <3>1
    <2>2. IsFiniteSet(1..i) /\ Cardinality(1..i) = i
      BY <1>6, FS_Interval
    <2> QED BY <2>1, <2>2, FS_Subset
  <1> QED BY <1>2, <1>4, <1>5, <1>6

\* Each index of K has one more up to it than the one before.
LEMMA UpToGrows ==
  ASSUME NEW n \in Nat, NEW K \in SUBSET (1..n), NEW i \in Int, NEW k \in K, i < k
  PROVE  Cardinality(UpTo(K, i)) < Cardinality(UpTo(K, k))
  <1>1. k \in Int /\ \A j \in K : j \in Int
    BY Indexes
  <1>2. UpTo(K, i) \subseteq UpTo(K, k) /\ k \in UpTo(K, k) /\ k \notin UpTo(K, i)
    <2>1. i <= k /\ k <= k /\ ~ (k <= i)
      BY <1>1
    <2>2. UpTo(K, i) \subseteq UpTo(K, k)
      BY <1>1, <2>1, UpToMonotone
    <2> QED BY <2>1, <2>2 DEF UpTo
  <1>3. UpTo(K, i) /= UpTo(K, k)
    BY <1>2
  <1>4. IsFiniteSet(UpTo(K, k)) /\ IsFiniteSet(UpTo(K, i))
    BY <1>1, UpToFinite
  <1>5. Cardinality(UpTo(K, i)) \in Nat /\ Cardinality(UpTo(K, k)) \in Nat
    BY <1>4, FS_CardinalityType
  <1>6. /\ Cardinality(UpTo(K, i)) <= Cardinality(UpTo(K, k))
        /\ Cardinality(UpTo(K, i)) = Cardinality(UpTo(K, k)) => UpTo(K, i) = UpTo(K, k)
    BY <1>2, <1>4, FS_Subset
  <1> QED BY <1>3, <1>5, <1>6

\* Every number up to the size of K is that of an index.
LEMMA NthExists ==
  ASSUME NEW n \in Nat, NEW K \in SUBSET (1..n), NEW m \in 1..Cardinality(K)
  PROVE  \E k \in K : Cardinality(UpTo(K, k)) = m
  <1> DEFINE N == Cardinality(K)
             rank == [k \in K |-> Cardinality(UpTo(K, k))]
             R == {rank[k] : k \in K}
  <1>1. IsFiniteSet(K) /\ N \in Nat
    <2>1. 0 \in Int
      OBVIOUS
    <2> QED BY <2>1, UpToFinite
  <1>2. \A k \in K : k \in Int /\ rank[k] \in 1..N
    <2> TAKE k \in K
    <2>1. k \in Int /\ 0 \in Int /\ 0 < k
      BY Indexes
    <2>2. Cardinality(UpTo(K, 0)) < Cardinality(UpTo(K, k))
      BY <2>1, UpToGrows
    <2>3. Cardinality(UpTo(K, k)) \in 0..N /\ Cardinality(UpTo(K, 0)) \in 0..N
      BY <2>1, UpToFinite
    <2> QED BY <1>1, <2>1, <2>2, <2>3
  <1>3. \A j, k \in K : rank[j] = rank[k] => j = k
    <2> TAKE j, k \in K
    <2>1. j \in Int /\ k \in Int
      BY Indexes
    <2>2. j < k => rank[j] < rank[k]
      BY <2>1, UpToGrows
    <2>3. k < j => rank[k] < rank[j]
      BY <2>1, UpToGrows
    <2>4. rank[j] \in Int /\ rank[k] \in Int
      BY <1>1, <1>2
    <2> HIDE DEF rank
    <2> QED BY <2>1, <2>2, <2>3, <2>4
  <1>4. rank \in Bijection(K, R)
    <2>1. rank \in [K -> R]
      OBVIOUS
    <2>2. \A r \in R : \E k \in K : rank[k] = r
      OBVIOUS
    <2> HIDE DEF rank, R
    <2> QED BY <2>1, <2>2, <1>3, Fun_IsBij
  <1>5. IsFiniteSet(R) /\ Cardinality(R) = N
    <2>1. ExistsBijection(K, R)
      BY <1>4 DEF ExistsBijection
    <2> QED BY <2>1, <1>1, FS_Bijection
  <1>6. R \subseteq 1..N
    BY <1>2
  <1>7. IsFiniteSet(1..N) /\ Cardinality(1..N) = N
    BY <1>1, FS_Interval
  <1>8. R = 1..N
    BY <1>5, <1>6, <1>7, FS_Subset
  <1>9. m \in R
    BY <1>8
  <1> QED BY <1>9

\* What is kept of a sequence is in its order, complete, and an entry goes
\* below exactly as many as were kept up to any place it stood above.
InOrderOf(T, s, K, nth) ==
  /\ nth \in [1..Cardinality(K) -> K]
  /\ Cardinality(K) \in Nat
  /\ Kept(s, K) \in Seq(T) /\ Len(Kept(s, K)) = Cardinality(K)
  /\ \A n \in 1..Cardinality(K) : Kept(s, K)[n] = s[nth[n]]
  /\ \A m, n \in 1..Cardinality(K) : m < n => nth[m] < nth[n]
  /\ \A k \in K : \E n \in 1..Cardinality(K) : nth[n] = k
  /\ \A n \in 1..Cardinality(K) : \A i \in Int :
       nth[n] <= i <=> n <= Cardinality(UpTo(K, i))

\* Kept() keeps the entries at K, each once, in the order they had.
LEMMA KeptInOrder ==
  ASSUME NEW T, NEW s \in Seq(T), NEW K \in SUBSET (1..Len(s))
  PROVE  \E nth : InOrderOf(T, s, K, nth)
  <1> DEFINE N == Cardinality(K)
             nth == [n \in 1..N |-> NthOf(K, n)]
  <1>1. N \in Nat /\ Len(s) \in Nat /\ \A k \in K : k \in Int /\ k \in 1..Len(s)
    <2>1. Len(s) \in Nat /\ 0 \in Int
      OBVIOUS
    <2> QED BY <2>1, UpToFinite, Indexes
  <1>2. \A n \in 1..N : nth[n] \in K /\ Cardinality(UpTo(K, nth[n])) = n
    <2> TAKE n \in 1..N
    <2>1. \E k \in K : Cardinality(UpTo(K, k)) = n
      BY <1>1, NthExists
    <2>2. nth[n] = CHOOSE k \in K : Cardinality(UpTo(K, k)) = n
      BY DEF NthOf, UpTo
    <2> HIDE DEF nth
    <2> QED BY <2>1, <2>2
  <1>3. nth \in [1..N -> K]
    BY <1>2
  <1>4. Kept(s, K) = [n \in 1..N |-> s[nth[n]]]
    BY DEF Kept
  <1> HIDE DEF nth
  <1>5. \A n \in 1..N : s[nth[n]] \in T
    <2>1. \A k \in 1..Len(s) : s[k] \in T
      OBVIOUS
    <2> QED BY <1>1, <1>2, <2>1
  <1>6. Kept(s, K) \in Seq(T) /\ Len(Kept(s, K)) = N
    BY <1>1, <1>4, <1>5
  <1>7. \A n \in 1..N : Kept(s, K)[n] = s[nth[n]]
    BY <1>4
  <1>8. \A n \in 1..N : \A i \in Int : nth[n] <= i <=> n <= Cardinality(UpTo(K, i))
    <2> TAKE n \in 1..N
    <2> TAKE i \in Int
    <2>1. nth[n] \in K /\ nth[n] \in Int /\ Cardinality(UpTo(K, nth[n])) = n
      BY <1>1, <1>2
    <2>2. Cardinality(UpTo(K, i)) \in 0..N
      BY <1>1, UpToFinite
    <2>3. i < nth[n] => Cardinality(UpTo(K, i)) < n
      BY <1>1, <2>1, UpToGrows
    <2>4. nth[n] <= i => n <= Cardinality(UpTo(K, i))
      <3> HAVE nth[n] <= i
      <3>1. UpTo(K, nth[n]) \subseteq UpTo(K, i)
        BY <1>1, <2>1, UpToMonotone
      <3>2. IsFiniteSet(UpTo(K, i))
        BY <1>1, UpToFinite
      <3> QED BY <3>1, <3>2, <2>1, FS_Subset
    <2> QED BY <1>1, <2>1, <2>2, <2>3, <2>4
  <1>9. \A m, n \in 1..N : m < n => nth[m] < nth[n]
    <2> TAKE m, n \in 1..N
    <2> HAVE m < n
    <2>1. nth[m] \in Int /\ nth[n] \in Int /\ Cardinality(UpTo(K, nth[m])) = m
      BY <1>1, <1>2
    <2>2. ~ (nth[n] <= nth[m])
      BY <2>1, <1>8
    <2> QED BY <2>1, <2>2
  <1>10. \A k \in K : \E n \in 1..N : nth[n] = k
    <2> TAKE k \in K
    <2>1. k \in Int /\ 0 \in Int /\ 0 < k
      BY Indexes
    <2> DEFINE n == Cardinality(UpTo(K, k))
    <2>2. n \in 0..N /\ Cardinality(UpTo(K, 0)) \in 0..N /\ Cardinality(UpTo(K, 0)) < n
      BY <1>1, <2>1, UpToFinite, UpToGrows
    <2> HIDE DEF n
    <2>3. n \in 1..N
      BY <1>1, <2>2
    <2>4. nth[n] \in K /\ nth[n] \in Int /\ Cardinality(UpTo(K, nth[n])) = n
      BY <1>1, <1>2, <2>3
    <2>5. ~ (nth[n] < k) /\ ~ (k < nth[n])
      <3>1. nth[n] < k => Cardinality(UpTo(K, nth[n])) < Cardinality(UpTo(K, k))
        BY <1>1, <2>1, <2>4, UpToGrows
      <3>2. k < nth[n] => Cardinality(UpTo(K, k)) < Cardinality(UpTo(K, nth[n]))
        BY <1>1, <2>1, <2>4, UpToGrows
      <3>3. Cardinality(UpTo(K, k)) = n /\ n \in Int
        BY <2>3 DEF n
      <3> QED BY <2>4, <3>1, <3>2, <3>3
    <2> QED BY <2>1, <2>3, <2>4, <2>5
  <1>11. InOrderOf(T, s, K, nth)
    BY <1>1, <1>3, <1>6, <1>7, <1>8, <1>9, <1>10 DEF InOrderOf
  <1> QED BY <1>11

-----------------------------------------------------------------------------
\* Callbacks: a fire reaches everybody, once, in order.

Entries == [fn : Fns, id : Nat]
CallbackLists ==
  [options : ListOptions, fns : Seq(Entries), queue : Seq(Nat \ {NoValue}), firing : BOOLEAN,
   index : Nat, memory : Nat, locked : BOOLEAN, alive : BOOLEAN]

\* What the variables hold.
CallbackTypes ==
  /\ list \in CallbackLists
  /\ at \in {"idle", "loop", "call"} /\ operations \in Nat
  /\ called \in Seq(Nat \X Nat)
  /\ owed \subseteq Nat /\ emptied \in BOOLEAN

\* fire() is at work, at its loop or in a function that it called.
Within == at \in {"loop", "call"}

\* The list is in the order of the adds, the queue in that of the fires.
ListInOrder ==
  /\ \A k \in 1..Len(list.fns) : list.fns[k].id <= operations
  /\ \A j, k \in 1..Len(list.fns) : j < k => list.fns[j].id < list.fns[k].id
  /\ \A k \in 1..Len(list.queue) : list.memory < list.queue[k] /\ list.queue[k] <= operations
  /\ \A j, k \in 1..Len(list.queue) : j < k => list.queue[j] < list.queue[k]
  /\ list.memory <= operations

\* The closure variables together: what at rest, disabled and stopped mean.
ListRests ==
  /\ Within => list.firing
  /\ ~ list.firing => list.index = 0 /\ list.queue = << >>
  /\ ~ list.alive => list.fns = << >> /\ list.queue = << >> /\ list.memory = NoValue /\ list.locked
  /\ at = "call" /\ list.memory = NoValue => ~ list.alive
  /\ at = "loop" /\ list.memory = NoValue => AtEnd(list)
  /\ Within /\ list.alive /\ ~ emptied => list.index <= Len(list.fns)

\* No call is before one that was made: not of a later value, not of one that
\* waits, not of a function that the value has yet to reach.
CallsBehind ==
  \A i \in 1..Len(called) :
    /\ called[i][1] <= operations /\ called[i][2] <= operations
    /\ list.memory # NoValue => called[i][1] <= list.memory
    /\ \A k \in 1..Len(list.queue) : called[i][1] < list.queue[k]
    /\ Within /\ list.memory # NoValue /\ called[i][1] = list.memory =>
         \A k \in 1..Len(list.fns) : k > list.index => called[i][2] < list.fns[k].id

\* Whoever is owed the value is still to be reached by the loop.
OwedAhead ==
  /\ Within => \A x \in owed : \E k \in 1..Len(list.fns) : k > list.index /\ list.fns[k].id = x
  /\ ~ Within /\ ~ list.firing /\ list.memory # NoValue => owed = {}

\* The calls are in the order of the values, and in that of the list for each.
CallsInv ==
  \A i, j \in 1..Len(called) :
    i < j => \/ called[i][1] < called[j][1]
             \/ called[i][1] = called[j][1] /\ called[i][2] < called[j][2]

\* The inductive invariant.
CallbacksInv ==
  CallbackTypes /\ ListInOrder /\ ListRests /\ CallsBehind /\ OwedAhead /\ CallsInv

-----------------------------------------------------------------------------
\* A use of the list that does not fire: it keeps some functions, in their
\* order and on their side of firingIndex, may add the one that is numbered by
\* this use at the end, and may queue a value, or forget what is queued.
KeepsOrAdds(l, old) ==
  /\ old \in [1..Len(l.fns) -> 1..(Len(list.fns) + 1)]
  /\ \A j, k \in 1..Len(l.fns) : j < k => old[j] < old[k]
  /\ \A k \in 1..Len(l.fns) :
       IF old[k] <= Len(list.fns)
       THEN l.fns[k] = list.fns[old[k]] /\ (k > l.index <=> old[k] > list.index)
       ELSE /\ l.fns[k].id = operations + 1
            /\ Within /\ ~ emptied => k > l.index
            /\ ~ list.firing => list.memory = NoValue

\* What any use from the page or a callback makes of the list.
Follows(l, e) ==
  /\ l \in CallbackLists /\ l.firing = list.firing /\ (l.alive => list.alive)
  /\ l.memory = list.memory \/ (l.memory = NoValue /\ ~ l.alive)
  /\ ~ l.alive => l.fns = << >> /\ l.queue = << >> /\ l.memory = NoValue /\ l.locked
  /\ ~ list.firing => l.index = 0 /\ l.queue = << >>
  /\ \A k \in 1..Len(l.queue) :
       \/ k <= Len(list.queue) /\ l.queue[k] = list.queue[k]
       \/ k = Len(list.queue) + 1 /\ l.queue[k] = operations + 1
  /\ \E old : KeepsOrAdds(l, old)
  /\ Within /\ l.alive /\ ~ e => l.index <= Len(l.fns) /\ ~ emptied

\* CallbackTypes, taken apart.
LEMMA CallTypes ==
  ASSUME CallbackTypes
  PROVE  /\ list.fns \in Seq(Entries) /\ list.queue \in Seq(Nat \ {NoValue})
         /\ Len(list.fns) \in Nat /\ Len(list.queue) \in Nat
         /\ \A k \in 1..Len(list.fns) : list.fns[k] \in Entries /\ list.fns[k].id \in Nat
         /\ \A k \in 1..Len(list.queue) : list.queue[k] \in Nat /\ list.queue[k] # NoValue
         /\ list.index \in Nat /\ list.memory \in Nat /\ operations \in Nat
         /\ list.firing \in BOOLEAN /\ list.locked \in BOOLEAN /\ list.alive \in BOOLEAN
         /\ called \in Seq(Nat \X Nat) /\ Len(called) \in Nat
         /\ \A i \in 1..Len(called) : called[i][1] \in Nat /\ called[i][2] \in Nat
         /\ DOMAIN list.fns = 1..Len(list.fns)
  <1>1. list \in CallbackLists /\ operations \in Nat /\ called \in Seq(Nat \X Nat)
    BY DEF CallbackTypes
  <1>2. /\ list.fns \in Seq(Entries) /\ list.queue \in Seq(Nat \ {NoValue})
        /\ list.index \in Nat /\ list.memory \in Nat
        /\ list.firing \in BOOLEAN /\ list.locked \in BOOLEAN /\ list.alive \in BOOLEAN
    BY <1>1 DEF CallbackLists
  <1>3. /\ Len(list.fns) \in Nat /\ Len(list.queue) \in Nat
        /\ \A k \in 1..Len(list.fns) : list.fns[k] \in Entries
        /\ \A k \in 1..Len(list.queue) : list.queue[k] \in Nat \ {NoValue}
        /\ DOMAIN list.fns = 1..Len(list.fns)
    BY <1>2
  <1>4. \A k \in 1..Len(list.fns) : list.fns[k].id \in Nat
    BY <1>3 DEF Entries
  <1>5. Len(called) \in Nat /\ \A i \in 1..Len(called) : called[i] \in Nat \X Nat
    BY <1>1
  <1>6. \A i \in 1..Len(called) : called[i][1] \in Nat /\ called[i][2] \in Nat
    BY <1>5
  <1> QED BY <1>1, <1>2, <1>3, <1>4, <1>5, <1>6

\* The functions of a list have different numbers.
LEMMA DifferentIds ==
  ASSUME CallbackTypes, ListInOrder
  PROVE  \A j, k \in 1..Len(list.fns) : list.fns[j].id = list.fns[k].id => j = k
  <1> TAKE j, k \in 1..Len(list.fns)
  <1>1. list.fns[j].id \in Nat /\ list.fns[k].id \in Nat /\ Len(list.fns) \in Nat
    BY CallTypes
  <1>2. j < k => list.fns[j].id < list.fns[k].id
    BY DEF ListInOrder
  <1>3. k < j => list.fns[k].id < list.fns[j].id
    BY DEF ListInOrder
  <1> QED BY <1>1, <1>2, <1>3

\* A use that makes no more of the list than Follows() keeps the invariant.
LEMMA UseFollows ==
  ASSUME CallbacksInv, NEW l, NEW e \in BOOLEAN, Follows(l, e), Use(l), emptied' = e
  PROVE  CallbacksInv'
  <1> USE DEF CallbacksInv
  <1>1. /\ at # "loop" /\ operations' = operations + 1 /\ list' = l /\ called' = called
        /\ at' = IF l.firing /\ ~ list.firing THEN "loop" ELSE at
        /\ owed' = IF l.memory # list.memory THEN Listed(l)
                   ELSE (owed \cap Listed(l))
                          \cup (IF emptied THEN {} ELSE Listed(l) \ Listed(list))
    BY DEF Use
  <1>2. PICK old : KeepsOrAdds(l, old)
    BY DEF Follows
  <1>3. /\ l \in CallbackLists /\ l.firing = list.firing /\ (l.alive => list.alive)
        /\ l.memory = list.memory \/ (l.memory = NoValue /\ ~ l.alive)
        /\ ~ l.alive => l.fns = << >> /\ l.queue = << >> /\ l.memory = NoValue /\ l.locked
        /\ ~ list.firing => l.index = 0 /\ l.queue = << >>
        /\ \A k \in 1..Len(l.queue) :
             \/ k <= Len(list.queue) /\ l.queue[k] = list.queue[k]
             \/ k = Len(list.queue) + 1 /\ l.queue[k] = operations + 1
        /\ Within /\ l.alive /\ ~ e => l.index <= Len(l.fns) /\ ~ emptied
    BY DEF Follows
  <1>4. /\ l.fns \in Seq(Entries) /\ l.queue \in Seq(Nat \ {NoValue})
        /\ l.index \in Nat /\ l.memory \in Nat
        /\ l.firing \in BOOLEAN /\ l.locked \in BOOLEAN /\ l.alive \in BOOLEAN
    BY <1>3 DEF CallbackLists
  <1>5. /\ Len(l.fns) \in Nat /\ Len(l.queue) \in Nat /\ DOMAIN l.fns = 1..Len(l.fns)
        /\ \A k \in 1..Len(l.fns) : l.fns[k] \in Entries /\ l.fns[k].id \in Nat
    <2>1. /\ Len(l.fns) \in Nat /\ Len(l.queue) \in Nat /\ DOMAIN l.fns = 1..Len(l.fns)
          /\ \A k \in 1..Len(l.fns) : l.fns[k] \in Entries
      BY <1>4
    <2>2. \A k \in 1..Len(l.fns) : l.fns[k].id \in Nat
      BY <2>1 DEF Entries
    <2> QED BY <2>1, <2>2
  <1>6. at' = at /\ (Within' <=> Within)
    BY <1>1, <1>3 DEF Within
  <1>7. /\ Len(list.fns) \in Nat /\ Len(list.queue) \in Nat /\ list.index \in Nat
        /\ list.memory \in Nat /\ operations \in Nat
        /\ \A k \in 1..Len(list.queue) : list.queue[k] \in Nat
        /\ \A k \in 1..Len(list.fns) : list.fns[k].id \in Nat
        /\ \A i \in 1..Len(called) : called[i][1] \in Nat /\ called[i][2] \in Nat
        /\ DOMAIN list.fns = 1..Len(list.fns)
    BY CallTypes
  <1>8. /\ \A j, k \in 1..Len(l.fns) : j < k => old[j] < old[k]
        /\ \A k \in 1..Len(l.fns) : old[k] \in 1..(Len(list.fns) + 1)
        /\ \A k \in 1..Len(l.fns) : old[k] <= Len(list.fns) =>
             /\ old[k] \in 1..Len(list.fns)
             /\ l.fns[k] = list.fns[old[k]] /\ (k > l.index <=> old[k] > list.index)
        /\ \A k \in 1..Len(l.fns) : ~ (old[k] <= Len(list.fns)) =>
             /\ l.fns[k].id = operations + 1
             /\ Within /\ ~ emptied => k > l.index
             /\ ~ list.firing => list.memory = NoValue
    <2>1. /\ old \in [1..Len(l.fns) -> 1..(Len(list.fns) + 1)]
          /\ \A j, k \in 1..Len(l.fns) : j < k => old[j] < old[k]
      BY <1>2 DEF KeepsOrAdds
    <2>2. \A k \in 1..Len(l.fns) : old[k] \in 1..(Len(list.fns) + 1)
      BY <2>1
    <2>3. \A k \in 1..Len(l.fns) : old[k] <= Len(list.fns) => old[k] \in 1..Len(list.fns)
      BY <2>2, <1>7
    <2>4. \A k \in 1..Len(l.fns) : old[k] <= Len(list.fns) =>
             l.fns[k] = list.fns[old[k]] /\ (k > l.index <=> old[k] > list.index)
      BY <1>2 DEF KeepsOrAdds
    <2>5. \A k \in 1..Len(l.fns) : ~ (old[k] <= Len(list.fns)) =>
             /\ l.fns[k].id = operations + 1
             /\ Within /\ ~ emptied => k > l.index
             /\ ~ list.firing => list.memory = NoValue
      BY <1>2 DEF KeepsOrAdds
    <2> QED BY <2>1, <2>2, <2>3, <2>4, <2>5
  <1>9. /\ \A k \in 1..Len(list.fns) : list.fns[k].id <= operations
        /\ \A j, k \in 1..Len(list.fns) : j < k => list.fns[j].id < list.fns[k].id
        /\ \A k \in 1..Len(list.queue) : list.memory < list.queue[k] /\ list.queue[k] <= operations
        /\ \A j, k \in 1..Len(list.queue) : j < k => list.queue[j] < list.queue[k]
        /\ list.memory <= operations
    BY DEF ListInOrder
  <1>10. /\ Listed(l) = {l.fns[k].id : k \in 1..Len(l.fns)}
         /\ Listed(list) = {list.fns[k].id : k \in 1..Len(list.fns)}
    BY <1>5, <1>7 DEF Listed
  <1>11. CallbackTypes'
    <2>1. Listed(l) \subseteq Nat
      BY <1>5, <1>10
    <2>2. owed' \subseteq Nat
      BY <1>1, <2>1 DEF CallbackTypes
    <2> QED BY <1>1, <1>3, <1>6, <2>2 DEF CallbackTypes
  <1>12. ListInOrder'
    <2>1. \A k \in 1..Len(l.fns) : l.fns[k].id <= operations + 1
      <3> TAKE k \in 1..Len(l.fns)
      <3>1. CASE old[k] <= Len(list.fns)
        <4>1. old[k] \in 1..Len(list.fns) /\ l.fns[k] = list.fns[old[k]]
          BY <3>1, <1>8
        <4>2. list.fns[old[k]].id <= operations /\ list.fns[old[k]].id \in Nat
          BY <4>1, <1>7, <1>9
        <4> QED BY <4>1, <4>2, <1>7
      <3>2. CASE ~ (old[k] <= Len(list.fns))
        <4>1. l.fns[k].id = operations + 1
          BY <3>2, <1>8
        <4> QED BY <4>1, <1>7
      <3> QED BY <3>1, <3>2
    <2>2. \A j, k \in 1..Len(l.fns) : j < k => l.fns[j].id < l.fns[k].id
      <3> TAKE j, k \in 1..Len(l.fns)
      <3> HAVE j < k
      <3>1. old[j] < old[k] /\ old[j] \in Int /\ old[k] \in 1..(Len(list.fns) + 1)
        BY <1>8
      <3>2. old[j] <= Len(list.fns)
        BY <3>1, <1>7
      <3>3. l.fns[j] = list.fns[old[j]] /\ old[j] \in 1..Len(list.fns)
        BY <3>2, <1>8
      <3>4. CASE old[k] <= Len(list.fns)
        <4>1. l.fns[k] = list.fns[old[k]] /\ old[k] \in 1..Len(list.fns)
          BY <3>4, <1>8
        <4> QED BY <4>1, <3>1, <3>3, <1>9
      <3>5. CASE ~ (old[k] <= Len(list.fns))
        <4>1. l.fns[k].id = operations + 1
          BY <3>5, <1>8
        <4>2. list.fns[old[j]].id <= operations /\ list.fns[old[j]].id \in Nat
          BY <3>3, <1>7, <1>9
        <4> QED BY <4>1, <4>2, <3>3, <1>7
      <3> QED BY <3>4, <3>5
    <2>3. \A k \in 1..Len(l.queue) : l.memory < l.queue[k] /\ l.queue[k] <= operations + 1
      <3> TAKE k \in 1..Len(l.queue)
      <3>1. l.memory <= list.memory
        BY <1>3, <1>4, <1>7 DEF NoValue
      <3>2. CASE k <= Len(list.queue) /\ l.queue[k] = list.queue[k]
        <4>1. k \in 1..Len(list.queue)
          BY <3>2, <1>5, <1>7
        <4>2. list.memory < list.queue[k] /\ list.queue[k] <= operations /\ list.queue[k] \in Nat
          BY <4>1, <1>7, <1>9
        <4>3. list.memory \in Nat /\ l.memory \in Nat /\ operations \in Nat
          BY <1>4, <1>7
        <4> QED BY <4>2, <4>3, <3>1, <3>2
      <3>3. CASE l.queue[k] = operations + 1
        <4>1. list.memory \in Nat /\ l.memory \in Nat /\ operations \in Nat /\ list.memory <= operations
          BY <1>4, <1>7, <1>9
        <4> QED BY <4>1, <3>1, <3>3
      <3> QED BY <3>2, <3>3, <1>3
    <2>4. \A j, k \in 1..Len(l.queue) : j < k => l.queue[j] < l.queue[k]
      <3> TAKE j, k \in 1..Len(l.queue)
      <3> HAVE j < k
      <3>1. j \in Int /\ k \in Int /\ 1 <= j /\ 1 <= k
        BY <1>5
      <3>2. j <= Len(list.queue) /\ j \in 1..Len(list.queue) /\ l.queue[j] = list.queue[j]
        BY <3>1, <1>3, <1>7
      <3>3. CASE k <= Len(list.queue) /\ l.queue[k] = list.queue[k]
        <4>1. k \in 1..Len(list.queue)
          BY <3>1, <3>3, <1>7
        <4> QED BY <4>1, <3>2, <3>3, <1>9
      <3>4. CASE l.queue[k] = operations + 1
        BY <3>2, <3>4, <1>7, <1>9
      <3> QED BY <3>3, <3>4, <1>3
    <2>5. l.memory <= operations + 1
      <3>1. l.memory = list.memory \/ l.memory = 0
        BY <1>3 DEF NoValue
      <3> QED BY <3>1, <1>7, <1>9
    <2> QED BY <2>1, <2>2, <2>3, <2>4, <2>5, <1>1 DEF ListInOrder
  <1>13. ListRests'
    <2>1. Within => l.firing
      BY <1>3 DEF ListRests
    <2>2. ~ l.firing => l.index = 0 /\ l.queue = << >>
      BY <1>3
    <2>3. at = "call" /\ l.memory = NoValue => ~ l.alive
      BY <1>3 DEF ListRests
    <2>4. Within /\ l.alive /\ ~ e => l.index <= Len(l.fns)
      BY <1>3
    <2>5. ~ l.alive => l.fns = << >> /\ l.queue = << >> /\ l.memory = NoValue /\ l.locked
      BY <1>3
    <2> QED BY <2>1, <2>2, <2>3, <2>4, <2>5, <1>1, <1>6 DEF ListRests
  <1>14. CallsBehind'
    <2> SUFFICES ASSUME NEW i \in 1..Len(called)
                 PROVE  /\ called[i][1] <= operations + 1 /\ called[i][2] <= operations + 1
                        /\ l.memory # NoValue => called[i][1] <= l.memory
                        /\ \A k \in 1..Len(l.queue) : called[i][1] < l.queue[k]
                        /\ Within /\ l.memory # NoValue /\ called[i][1] = l.memory =>
                             \A k \in 1..Len(l.fns) : k > l.index => called[i][2] < l.fns[k].id
      BY <1>1, <1>6 DEF CallsBehind
    <2>1. /\ called[i][1] <= operations /\ called[i][2] <= operations
          /\ list.memory # NoValue => called[i][1] <= list.memory
          /\ \A k \in 1..Len(list.queue) : called[i][1] < list.queue[k]
          /\ Within /\ list.memory # NoValue /\ called[i][1] = list.memory =>
               \A k \in 1..Len(list.fns) : k > list.index => called[i][2] < list.fns[k].id
      BY DEF CallsBehind
    <2>2. called[i][1] \in Nat /\ called[i][2] \in Nat
      BY <1>7
    <2>3. called[i][1] <= operations + 1 /\ called[i][2] <= operations + 1
      BY <2>1, <2>2, <1>7
    <2>4. l.memory # NoValue => l.memory = list.memory
      BY <1>3
    <2>5. \A k \in 1..Len(l.queue) : called[i][1] < l.queue[k]
      <3> TAKE k \in 1..Len(l.queue)
      <3>1. CASE k <= Len(list.queue) /\ l.queue[k] = list.queue[k]
        <4>1. k \in 1..Len(list.queue)
          BY <3>1, <1>5, <1>7
        <4> QED BY <4>1, <3>1, <2>1
      <3>2. CASE l.queue[k] = operations + 1
        BY <3>2, <2>1, <2>2, <1>7
      <3> QED BY <3>1, <3>2, <1>3
    <2>6. ASSUME Within, l.memory # NoValue, called[i][1] = l.memory,
                 NEW k \in 1..Len(l.fns), k > l.index
          PROVE  called[i][2] < l.fns[k].id
      <3>1. CASE old[k] <= Len(list.fns)
        <4>1. old[k] \in 1..Len(list.fns) /\ l.fns[k] = list.fns[old[k]] /\ old[k] > list.index
          BY <3>1, <2>6, <1>8
        <4> QED BY <4>1, <2>1, <2>4, <2>6
      <3>2. CASE ~ (old[k] <= Len(list.fns))
        <4>1. l.fns[k].id = operations + 1
          BY <3>2, <1>8
        <4> QED BY <4>1, <2>1, <2>2, <1>7
      <3> QED BY <3>1, <3>2
    <2> QED BY <2>1, <2>3, <2>4, <2>5, <2>6
  <1>15. OwedAhead'
    <2>1. ASSUME Within, NEW x \in owed'
          PROVE  \E k \in 1..Len(l.fns) : k > l.index /\ l.fns[k].id = x
      <3>1. CASE l.memory # list.memory
        <4>1. l.fns = << >>
          BY <3>1, <1>3
        <4>2. Listed(l) = {}
          BY <4>1, <1>10
        <4> QED BY <4>2, <3>1, <2>1, <1>1
      <3>2. CASE l.memory = list.memory /\ x \in owed
        <4>1. x \in Listed(l)
          BY <3>2, <2>1, <1>1
        <4>2. PICK k \in 1..Len(l.fns) : l.fns[k].id = x
          BY <4>1, <1>10
        <4>3. PICK j \in 1..Len(list.fns) : j > list.index /\ list.fns[j].id = x
          BY <3>2, <2>1 DEF OwedAhead
        <4>4. old[k] <= Len(list.fns)
          <5>1. x <= operations /\ x \in Nat
            BY <4>3, <1>7, <1>9
          <5> QED BY <5>1, <4>2, <1>7, <1>8
        <4>5. old[k] \in 1..Len(list.fns) /\ l.fns[k] = list.fns[old[k]]
          BY <4>2, <4>4, <1>8
        <4>6. old[k] = j
          BY <4>2, <4>3, <4>5, DifferentIds
        <4>7. k > l.index
          BY <4>2, <4>3, <4>4, <4>6, <1>8
        <4> QED BY <4>2, <4>7
      <3>3. CASE l.memory = list.memory /\ x \notin owed
        <4>1. ~ emptied /\ x \in Listed(l) /\ x \notin Listed(list)
          BY <3>3, <2>1, <1>1
        <4>2. PICK k \in 1..Len(l.fns) : l.fns[k].id = x
          BY <4>1, <1>10
        <4>3. ~ (old[k] <= Len(list.fns))
          <5> SUFFICES ASSUME old[k] <= Len(list.fns) PROVE FALSE
            OBVIOUS
          <5>1. old[k] \in 1..Len(list.fns) /\ l.fns[k] = list.fns[old[k]]
            BY <4>2, <1>8
          <5> QED BY <5>1, <4>1, <4>2, <1>10
        <4>4. k > l.index
          BY <4>1, <4>2, <4>3, <2>1, <1>8
        <4> QED BY <4>2, <4>4
      <3> QED BY <3>1, <3>2, <3>3
    <2>2. ASSUME ~ Within, ~ l.firing, l.memory # NoValue PROVE owed' = {}
      <3>1. l.memory = list.memory /\ ~ list.firing /\ owed = {}
        BY <2>2, <1>3 DEF OwedAhead
      <3>2. \A k \in 1..Len(l.fns) : old[k] <= Len(list.fns)
        BY <3>1, <2>2, <1>8
      <3>3. Listed(l) \subseteq Listed(list)
        BY <3>2, <1>8, <1>10
      <3> QED BY <3>1, <3>3, <1>1
    <2> QED BY <2>1, <2>2, <1>1, <1>6 DEF OwedAhead
  <1>16. CallsInv'
    BY <1>1 DEF CallsInv
  <1> QED BY <1>11, <1>12, <1>13, <1>14, <1>15, <1>16

\* Everything stays.
LEMMA KeepsAll ==
  ASSUME CallbacksInv, NEW l, l.fns = list.fns, l.index = list.index
  PROVE  \E old : KeepsOrAdds(l, old)
  <1> DEFINE n == Len(list.fns)
             old == [k \in 1..n |-> k]
  <1>1. n \in Nat
    BY CallTypes DEF CallbacksInv
  <1>2. old \in [1..n -> 1..(n + 1)]
    BY <1>1
  <1>3. \A k \in 1..n : old[k] = k /\ k <= n
    BY <1>1
  <1> HIDE DEF old, n
  <1>4. \A j, k \in 1..n : j < k => old[j] < old[k]
    BY <1>3
  <1> QED BY <1>2, <1>3, <1>4 DEF KeepsOrAdds, n

\* Nothing stays.
LEMMA KeepsNone ==
  ASSUME NEW l, l.fns = << >> PROVE \E old : KeepsOrAdds(l, old)
  <1>1. Len(l.fns) = 0
    OBVIOUS
  <1> DEFINE old == [k \in 1..0 |-> k]
  <1>2. old \in [1..Len(l.fns) -> 1..(Len(list.fns) + 1)] /\ 1..Len(l.fns) = {}
    BY <1>1
  <1> HIDE DEF old
  <1>3. KeepsOrAdds(l, old)
    BY <1>2 DEF KeepsOrAdds
  <1> QED BY <1>3

\* One more at the end.
LEMMA KeepsAdded ==
  ASSUME CallbacksInv, NEW e \in Entries, e.id = operations + 1, list.alive,
         ~ list.firing => list.memory = NoValue,
         NEW l, l.fns = Append(list.fns, e), l.index = list.index
  PROVE  \E old : KeepsOrAdds(l, old)
  <1> DEFINE n == Len(list.fns)
             old == [k \in 1..(n + 1) |-> k]
  <1>1. n \in Nat /\ list.fns \in Seq(Entries) /\ list.index \in Nat
    BY CallTypes DEF CallbacksInv
  <1>2. /\ Len(l.fns) = n + 1 /\ l.fns[n + 1] = e
        /\ \A k \in 1..n : l.fns[k] = list.fns[k]
    BY <1>1
  <1>3. Within /\ ~ emptied => list.index <= n
    BY DEF CallbacksInv, ListRests
  <1>4. old \in [1..(n + 1) -> 1..(n + 1)]
    OBVIOUS
  <1>5. \A k \in 1..(n + 1) : old[k] = k /\ (k <= n => k \in 1..n) /\ (~ (k <= n) => k = n + 1)
    BY <1>1
  <1> HIDE DEF old, n
  <1>6. \A j, k \in 1..(n + 1) : j < k => old[j] < old[k]
    BY <1>5
  <1>7. Within /\ ~ emptied => n + 1 > list.index
    BY <1>1, <1>3
  <1>8. \A k \in 1..(n + 1) :
          IF old[k] <= n
          THEN l.fns[k] = list.fns[old[k]] /\ (k > l.index <=> old[k] > list.index)
          ELSE /\ l.fns[k].id = operations + 1
               /\ Within /\ ~ emptied => k > l.index
               /\ ~ list.firing => list.memory = NoValue
    <2> TAKE k \in 1..(n + 1)
    <2>1. CASE k <= n
      BY <2>1, <1>2, <1>5
    <2>2. CASE ~ (k <= n)
      BY <2>2, <1>2, <1>5, <1>7
    <2> QED BY <2>1, <2>2
  <1> QED BY <1>2, <1>4, <1>6, <1>8 DEF KeepsOrAdds, n


\* Of the indexes up to any place, those gone and those kept are all.
LEMMA GoneAndKept ==
  ASSUME NEW y \in Nat, NEW K, NEW gone,
         K \cup gone = 1..y, K \cap gone = {}
  PROVE  /\ Cardinality(K) \in Nat /\ Cardinality(gone) \in Nat
         /\ Cardinality(K) + Cardinality(gone) = y
  <1>1. IsFiniteSet(1..y) /\ Cardinality(1..y) = y
    BY FS_Interval
  <1>2. IsFiniteSet(K) /\ IsFiniteSet(gone)
    <2>1. K \subseteq 1..y /\ gone \subseteq 1..y
      OBVIOUS
    <2> QED BY <2>1, <1>1, FS_Subset
  <1>3. Cardinality(K) \in Nat /\ Cardinality(gone) \in Nat
    BY <1>2, FS_CardinalityType
  <1>4. Cardinality(K \cup gone) = Cardinality(K) + Cardinality(gone) - Cardinality(K \cap gone)
    BY <1>2, FS_Union
  <1>5. Cardinality({}) = 0
    BY FS_EmptySet
  <1>6. Cardinality(K \cup gone) = y /\ Cardinality(K \cap gone) = 0
    BY <1>1, <1>5
  <1>7. \A a, b \in Nat : y = a + b - 0 => a + b = y
    OBVIOUS
  <1>8. y = Cardinality(K) + Cardinality(gone) - 0
    BY <1>4, <1>6
  <1> QED BY <1>3, <1>7, <1>8

\* remove(): firingIndex goes back by as many as went before it.
LEMMA KeepsOthers ==
  ASSUME CallbacksInv, NEW f
  PROVE  LET l == RemoveFrom(list, f) IN
         /\ l.fns \in Seq(Entries) /\ l.index \in Nat
         /\ list.fns = << >> => l.fns = << >>
         /\ list.index = 0 => l.index = 0
         /\ list.index <= Len(list.fns) => l.index <= Len(l.fns)
         /\ \E old : KeepsOrAdds(l, old)
  <1> DEFINE n == Len(list.fns)
             K == Others(list, f)
             x == list.index
             gone == {i \in DOMAIN list.fns : list.fns[i].fn = f /\ i <= x}
             l == RemoveFrom(list, f)
             c == Cardinality(K)
             g == Cardinality(gone)
  <1>1. /\ n \in Nat /\ list.fns \in Seq(Entries) /\ x \in Nat /\ x \in Int
        /\ DOMAIN list.fns = 1..n /\ list \in CallbackLists
    BY CallTypes DEF CallbacksInv, CallbackTypes
  <1>2. l = [list EXCEPT !.fns = Kept(list.fns, K), !.index = x - g]
    BY DEF RemoveFrom
  <1>3. l.fns = Kept(list.fns, K) /\ l.index = x - g
    BY <1>1, <1>2 DEF CallbackLists
  <1>4. K \in SUBSET (1..Len(list.fns)) /\ gone \subseteq 1..n
    BY <1>1 DEF Others
  <1>5. /\ x <= n => UpTo(K, x) \cup gone = 1..x /\ UpTo(K, x) \cap gone = {}
        /\ ~ (x <= n) => K \cup gone = 1..n /\ K \cap gone = {}
    BY <1>1 DEF UpTo, Others
  <1> HIDE DEF K, gone, l, n, x
  <1>6. PICK nth : InOrderOf(Entries, list.fns, K, nth)
    BY <1>1, <1>4, KeptInOrder
  <1>6a. /\ nth \in [1..c -> K] /\ c \in Nat
         /\ Kept(list.fns, K) \in Seq(Entries) /\ Len(Kept(list.fns, K)) = c
         /\ \A m \in 1..c : Kept(list.fns, K)[m] = list.fns[nth[m]]
         /\ \A m, k \in 1..c : m < k => nth[m] < nth[k]
         /\ \A m \in 1..c : nth[m] <= x <=> m <= Cardinality(UpTo(K, x))
    BY <1>1, <1>6 DEF InOrderOf
  <1>7. Len(l.fns) = c /\ c \in Nat /\ l.fns \in Seq(Entries)
    BY <1>3, <1>6a
  <1>8. \A m \in 1..c : nth[m] \in 1..n /\ nth[m] \in K
    BY <1>4, <1>6a DEF n
  <1>9. ASSUME x <= n
        PROVE  /\ \A m \in 1..c : m > l.index <=> nth[m] > x
               /\ l.index \in Nat /\ (x = 0 => l.index = 0) /\ (x <= n => l.index <= c)
    <2> DEFINE a == Cardinality(UpTo(K, x))
    <2>1. a \in Nat /\ g \in Nat /\ a + g = x
      BY <1>1, <1>5, <1>9, GoneAndKept
    <2>2. a <= c
      <3>1. UpTo(K, x) \subseteq K
        BY DEF UpTo
      <3>2. IsFiniteSet(K)
        <4>1. IsFiniteSet(1..n)
          BY <1>1, FS_Interval
        <4>2. K \subseteq 1..n
          BY <1>4 DEF n
        <4> QED BY <4>1, <4>2, FS_Subset
      <3> QED BY <3>1, <3>2, FS_Subset
    <2> HIDE DEF g
    <2>3. l.index = a
      BY <2>1, <1>3
    <2>4. \A m \in 1..c : nth[m] <= x <=> m <= a
      BY <1>6a
    <2> HIDE DEF a, c
    <2>5. \A m \in 1..c : m > l.index <=> nth[m] > x
      <3> TAKE m \in 1..c
      <3>1. m \in Int /\ nth[m] \in Int
        BY <1>6a, <1>8
      <3> QED BY <3>1, <2>1, <2>3, <2>4, <1>1
    <2>6. l.index \in Nat /\ (x = 0 => l.index = 0) /\ (x <= n => l.index <= c)
      BY <2>1, <2>2, <2>3
    <2> QED BY <2>5, <2>6
  <1>10. ASSUME ~ (x <= n)
        PROVE  /\ \A m \in 1..c : m > l.index <=> nth[m] > x
               /\ l.index \in Nat /\ (x = 0 => l.index = 0) /\ (x <= n => l.index <= c)
    <2>1. c \in Nat /\ g \in Nat /\ c + g = n
      BY <1>1, <1>5, <1>10, GoneAndKept
    <2> HIDE DEF c, g
    <2>2. l.index \in Nat /\ l.index >= c /\ x # 0
      BY <2>1, <1>1, <1>3, <1>10
    <2>3. \A m \in 1..c : ~ (m > l.index) /\ ~ (nth[m] > x)
      BY <2>1, <2>2, <1>1, <1>8, <1>10
    <2> QED BY <2>2, <2>3, <1>10
  <1>11. /\ \A m \in 1..c : m > l.index <=> nth[m] > x
         /\ l.index \in Nat /\ (x = 0 => l.index = 0) /\ (x <= n => l.index <= c)
    BY <1>9, <1>10
  <1> HIDE DEF c
  <1>12. list.fns = << >> => l.fns = << >>
    <2> HAVE list.fns = << >>
    <2>1. n = 0
      BY DEF n
    <2>2. c = 0
      <3> SUFFICES ASSUME c /= 0 PROVE FALSE
        OBVIOUS
      <3>1. 1 \in 1..c
        BY <1>6a
      <3> QED BY <3>1, <2>1, <1>8
    <2> QED BY <2>2, <1>7
  <1>13. KeepsOrAdds(l, nth)
    <2>1. nth \in [1..c -> 1..(n + 1)]
      <3>1. \A m \in 1..c : nth[m] \in 1..(n + 1)
        BY <1>1, <1>8
      <3> QED BY <3>1, <1>6a
    <2>2. \A m \in 1..c : nth[m] <= n /\ l.fns[m] = list.fns[nth[m]]
      BY <1>1, <1>3, <1>6a, <1>8
    <2> QED BY <2>1, <2>2, <1>6a, <1>7, <1>11 DEF KeepsOrAdds, n, x
  <1> QED BY <1>7, <1>11, <1>12, <1>13 DEF l, n, x

\* Whatever does not fire follows what the list was.
LEMMA SameFollows ==
  ASSUME CallbacksInv PROVE Follows(list, emptied)
  <1> USE DEF CallbacksInv
  <1>1. list \in CallbackLists /\ Len(list.queue) \in Nat
    BY CallTypes DEF CallbackTypes
  <1>2. \E old : KeepsOrAdds(list, old)
    BY KeepsAll
  <1>3. /\ ~ list.alive => list.fns = << >> /\ list.queue = << >> /\ list.memory = NoValue /\ list.locked
        /\ ~ list.firing => list.index = 0 /\ list.queue = << >>
        /\ Within /\ list.alive /\ ~ emptied => list.index <= Len(list.fns)
    BY DEF ListRests
  <1>4. \A k \in 1..Len(list.queue) : k <= Len(list.queue)
    BY <1>1
  <1> QED BY <1>1, <1>2, <1>3, <1>4 DEF Follows

\* add() follows: it appends, or queues a memory to be fired again.
LEMMA AddFollows ==
  ASSUME CallbacksInv, NEW e \in Entries, e.id = operations + 1,
         ~ list.alive \/ list.memory = NoValue \/ list.firing
  PROVE  Follows(AddTo(list, e), emptied)
  <1> DEFINE l == [list EXCEPT !.fns = Append(@, e)]
  <1>1. CASE AddTo(list, e) = list
    BY <1>1, SameFollows
  <1>2. CASE AddTo(list, e) = l /\ list.alive
    <2> USE DEF CallbacksInv
    <2>1. list \in CallbackLists /\ Len(list.queue) \in Nat /\ list.fns \in Seq(Entries)
      BY CallTypes DEF CallbackTypes
    <2>2. /\ l.fns = Append(list.fns, e) /\ l.index = list.index /\ l.queue = list.queue
          /\ l.firing = list.firing /\ l.memory = list.memory /\ l.locked = list.locked
          /\ l.alive = list.alive
      BY <2>1 DEF CallbackLists
    <2>3. l \in CallbackLists
      <3>1. Append(list.fns, e) \in Seq(Entries)
        BY <2>1
      <3> QED BY <2>1, <3>1 DEF CallbackLists
    <2> HIDE DEF l
    <2>4. \E old : KeepsOrAdds(l, old)
      <3>1. ~ list.firing => list.memory = NoValue
        BY <1>2
      <3> QED BY <3>1, <2>2, <1>2, KeepsAdded
    <2>5. /\ ~ list.firing => list.index = 0 /\ list.queue = << >>
          /\ Within /\ ~ emptied => list.index <= Len(list.fns)
      BY <1>2 DEF ListRests
    <2>6. list.index <= Len(list.fns) => l.index <= Len(l.fns)
      <3>1. Len(l.fns) = Len(list.fns) + 1
        BY <2>1, <2>2
      <3> QED BY <3>1, <2>1, <2>2 DEF CallbackLists
    <2>7. \A k \in 1..Len(list.queue) : k <= Len(list.queue)
      BY <2>1
    <2> QED BY <1>2, <2>2, <2>3, <2>4, <2>5, <2>6, <2>7 DEF Follows
  <1> QED BY <1>1, <1>2 DEF AddTo

\* remove() follows: it keeps what is not the function, and moves firingIndex.
LEMMA RemoveFollows ==
  ASSUME CallbacksInv, NEW f PROVE Follows(RemoveFrom(list, f), emptied)
  <1> USE DEF CallbacksInv
  <1> DEFINE l == RemoveFrom(list, f)
  <1>1. list \in CallbackLists /\ Len(list.queue) \in Nat
    BY CallTypes DEF CallbackTypes
  <1>2. /\ l.fns \in Seq(Entries) /\ l.index \in Nat
        /\ list.fns = << >> => l.fns = << >>
        /\ list.index = 0 => l.index = 0
        /\ list.index <= Len(list.fns) => l.index <= Len(l.fns)
        /\ \E old : KeepsOrAdds(l, old)
    BY KeepsOthers
  <1>3. /\ l = [list EXCEPT !.fns = l.fns, !.index = l.index]
        /\ l.queue = list.queue /\ l.options = list.options
        /\ l.firing = list.firing /\ l.memory = list.memory /\ l.locked = list.locked
        /\ l.alive = list.alive
    BY <1>1 DEF RemoveFrom, CallbackLists
  <1> HIDE DEF l
  <1>4. l \in CallbackLists
    BY <1>1, <1>2, <1>3 DEF CallbackLists
  <1>5. /\ ~ list.alive => list.fns = << >> /\ list.queue = << >> /\ list.memory = NoValue /\ list.locked
        /\ ~ list.firing => list.index = 0 /\ list.queue = << >>
        /\ Within /\ list.alive /\ ~ emptied => list.index <= Len(list.fns)
    BY DEF ListRests
  <1>6. \A k \in 1..Len(list.queue) : k <= Len(list.queue)
    BY <1>1
  <1>7. Follows(l, emptied)
    BY <1>2, <1>3, <1>4, <1>5, <1>6 DEF Follows
  <1> QED BY <1>7 DEF l

\* empty() follows: it keeps nobody.
LEMMA EmptyFollows ==
  ASSUME CallbacksInv, at # "loop" PROVE Follows(EmptyList(list), at = "call")
  <1> USE DEF CallbacksInv
  <1> DEFINE l == EmptyList(list)
  <1>1. list \in CallbackLists /\ Len(list.queue) \in Nat
    BY CallTypes DEF CallbackTypes
  <1>2. /\ l.fns = << >> /\ l.index = list.index /\ l.queue = list.queue
        /\ l.firing = list.firing /\ l.memory = list.memory /\ l.locked = list.locked
        /\ l.alive = list.alive /\ l \in CallbackLists
    <2>1. << >> \in Seq(Entries)
      OBVIOUS
    <2> QED BY <1>1, <2>1 DEF EmptyList, CallbackLists
  <1> HIDE DEF l
  <1>3. \E old : KeepsOrAdds(l, old)
    BY <1>2, KeepsNone
  <1>4. /\ ~ list.alive => list.queue = << >> /\ list.memory = NoValue /\ list.locked
        /\ ~ list.firing => list.index = 0 /\ list.queue = << >>
    BY DEF ListRests
  <1>5. \A k \in 1..Len(list.queue) : k <= Len(list.queue)
    BY <1>1
  <1>6. Within => at = "call"
    BY DEF Within
  <1>7. Follows(l, at = "call")
    BY <1>2, <1>3, <1>4, <1>5, <1>6 DEF Follows
  <1> QED BY <1>7 DEF l

\* disable() follows: it keeps nobody and is final.
LEMMA DisableFollows ==
  ASSUME CallbacksInv PROVE Follows(DisableList(list), emptied)
  <1> USE DEF CallbacksInv
  <1> DEFINE l == DisableList(list)
  <1>1. list \in CallbackLists
    BY DEF CallbackTypes
  <1>2. /\ l.fns = << >> /\ l.index = list.index /\ l.queue = << >>
        /\ l.firing = list.firing /\ l.memory = NoValue /\ l.locked /\ ~ l.alive
    BY <1>1 DEF DisableList, CallbackLists
  <1>3. l \in CallbackLists
    <2>1. << >> \in Seq(Entries) /\ << >> \in Seq(Nat \ {NoValue}) /\ NoValue \in Nat
      BY DEF NoValue
    <2> QED BY <1>1, <2>1 DEF DisableList, CallbackLists
  <1> HIDE DEF l
  <1>4. \E old : KeepsOrAdds(l, old)
    BY <1>2, KeepsNone
  <1>5. ~ list.firing => list.index = 0
    BY DEF ListRests
  <1>6. 1..Len(l.queue) = {}
    BY <1>2
  <1>7. Follows(l, emptied)
    BY <1>2, <1>3, <1>4, <1>5, <1>6 DEF Follows
  <1> QED BY <1>7 DEF l

\* lock() follows: it forgets what is queued, and disables an unfired list.
LEMMA LockFollows ==
  ASSUME CallbacksInv PROVE Follows(LockList(list), emptied)
  <1> DEFINE l == [list EXCEPT !.locked = TRUE, !.queue = << >>]
  <1>1. CASE LockList(list) = DisableList(list)
    BY <1>1, DisableFollows
  <1>2. CASE LockList(list) = l
    <2> USE DEF CallbacksInv
    <2>1. list \in CallbackLists
      BY DEF CallbackTypes
    <2>2. /\ l.fns = list.fns /\ l.index = list.index /\ l.queue = << >>
          /\ l.firing = list.firing /\ l.memory = list.memory /\ l.locked
          /\ l.alive = list.alive /\ l \in CallbackLists
      <3>1. << >> \in Seq(Nat \ {NoValue})
        OBVIOUS
      <3> QED BY <2>1, <3>1 DEF CallbackLists
    <2> HIDE DEF l
    <2>3. \E old : KeepsOrAdds(l, old)
      BY <2>2, KeepsAll
    <2>4. /\ ~ list.alive => list.fns = << >> /\ list.memory = NoValue
          /\ ~ list.firing => list.index = 0
          /\ Within /\ list.alive /\ ~ emptied => list.index <= Len(list.fns)
      BY DEF ListRests
    <2>5. 1..Len(l.queue) = {}
      BY <2>2
    <2>6. Follows(l, emptied)
      BY <2>2, <2>3, <2>4, <2>5 DEF Follows
    <2> QED BY <1>2, <2>6
  <1> QED BY <1>1, <1>2 DEF LockList

\* fire() follows: it queues a value, or does nothing on a locked list.
LEMMA FireFollows ==
  ASSUME CallbacksInv, list.locked \/ list.firing
  PROVE  Follows(FireWith(list, operations + 1), emptied)
  <1> DEFINE l == [list EXCEPT !.queue = Append(@, operations + 1)]
  <1>1. CASE list.locked
    BY <1>1, SameFollows DEF FireWith
  <1>2. CASE ~ list.locked
    <2> USE DEF CallbacksInv
    <2>1. list \in CallbackLists /\ list.queue \in Seq(Nat \ {NoValue}) /\ operations \in Nat
      BY CallTypes DEF CallbackTypes
    <2>2. list.firing /\ FireWith(list, operations + 1) = l
      BY <1>2 DEF FireWith
    <2>3. /\ l.fns = list.fns /\ l.index = list.index /\ l.queue = Append(list.queue, operations + 1)
          /\ l.firing = list.firing /\ l.memory = list.memory /\ l.locked = list.locked
          /\ l.alive = list.alive
      BY <2>1 DEF CallbackLists
    <2>4. l \in CallbackLists
      <3>1. Append(list.queue, operations + 1) \in Seq(Nat \ {NoValue})
        BY <2>1 DEF NoValue
      <3> QED BY <2>1, <3>1 DEF CallbackLists
    <2> HIDE DEF l
    <2>5. \E old : KeepsOrAdds(l, old)
      BY <2>3, KeepsAll
    <2>6. /\ list.alive
          /\ Within /\ ~ emptied => list.index <= Len(list.fns)
      BY <1>2 DEF ListRests
    <2>7. \A k \in 1..Len(l.queue) :
            \/ k <= Len(list.queue) /\ l.queue[k] = list.queue[k]
            \/ k = Len(list.queue) + 1 /\ l.queue[k] = operations + 1
      BY <2>1, <2>3
    <2>8. Follows(l, emptied)
      BY <2>2, <2>3, <2>4, <2>5, <2>6, <2>7 DEF Follows
    <2> QED BY <2>2, <2>8
  <1> QED BY <1>1, <1>2

\* A use of the list at rest that fires it: with a value of its own, or, for
\* the function it adds, with the value in memory.
LEMMA UseFires ==
  ASSUME CallbacksInv, ~ list.firing,
         NEW l, Use(l), emptied' = emptied, l \in CallbackLists,
         l.firing, l.alive, l.queue = << >>,
         \/ l.fns = list.fns
         \/ \E e \in Entries : e.id = operations + 1 /\ l.fns = Append(list.fns, e),
         \/ l.memory = operations + 1 /\ l.index = 0 /\ l.fns = list.fns
         \/ l.memory = list.memory /\ l.memory # NoValue /\ l.index = Len(list.fns)
  PROVE  CallbacksInv'
  <1> USE DEF CallbacksInv
  <1>1. ~ Within
    BY DEF ListRests
  <1>2. /\ operations' = operations + 1 /\ list' = l /\ called' = called /\ at' = "loop"
        /\ owed' = IF l.memory # list.memory THEN Listed(l)
                   ELSE (owed \cap Listed(l))
                          \cup (IF emptied THEN {} ELSE Listed(l) \ Listed(list))
    BY DEF Use
  <1>3. /\ Len(list.fns) \in Nat /\ list.fns \in Seq(Entries)
        /\ list.memory \in Nat /\ operations \in Nat
        /\ \A k \in 1..Len(list.fns) : list.fns[k] \in Entries /\ list.fns[k].id \in Nat
        /\ \A i \in 1..Len(called) : called[i][1] \in Nat /\ called[i][2] \in Nat
        /\ DOMAIN list.fns = 1..Len(list.fns)
    BY CallTypes
  <1>4. /\ Len(l.fns) \in {Len(list.fns), Len(list.fns) + 1}
        /\ l.fns \in Seq(Entries) /\ DOMAIN l.fns = 1..Len(l.fns)
        /\ \A k \in 1..Len(l.fns) :
             \/ k \in 1..Len(list.fns) /\ l.fns[k] = list.fns[k]
             \/ k = Len(list.fns) + 1 /\ l.fns[k].id = operations + 1 /\ l.fns # list.fns
    <2>1. CASE l.fns = list.fns
      BY <2>1, <1>3
    <2>2. ASSUME NEW e \in Entries, e.id = operations + 1, l.fns = Append(list.fns, e)
          PROVE  /\ Len(l.fns) = Len(list.fns) + 1
                 /\ l.fns \in Seq(Entries) /\ DOMAIN l.fns = 1..Len(l.fns)
                 /\ \A k \in 1..Len(l.fns) :
                      \/ k \in 1..Len(list.fns) /\ l.fns[k] = list.fns[k]
                      \/ k = Len(list.fns) + 1 /\ l.fns[k].id = operations + 1 /\ l.fns # list.fns
      <3>1. Len(l.fns) = Len(list.fns) + 1 /\ l.fns # list.fns
        BY <2>2, <1>3
      <3> QED BY <3>1, <2>2, <1>3
    <2> QED BY <2>1, <2>2
  <1>5. /\ \A k \in 1..Len(l.fns) : l.fns[k].id \in Nat /\ l.fns[k] \in Entries
        /\ l.index \in Nat /\ l.memory \in Nat /\ 1..Len(l.queue) = {} /\ Len(l.fns) \in Nat
        /\ l.memory # NoValue
    <2>1. \A k \in 1..Len(l.fns) : l.fns[k] \in Entries
      BY <1>4
    <2>2. l.memory \in Nat /\ l.index \in Nat /\ l.memory # NoValue
      BY <1>3 DEF CallbackLists, NoValue
    <2>3. \A k \in 1..Len(l.fns) : l.fns[k].id \in Nat
      BY <2>1 DEF Entries
    <2>4. 1..Len(l.queue) = {}
      OBVIOUS
    <2> QED BY <2>1, <2>2, <2>3, <2>4, <1>3, <1>4
  <1>6. /\ \A k \in 1..Len(list.fns) : list.fns[k].id <= operations
        /\ \A j, k \in 1..Len(list.fns) : j < k => list.fns[j].id < list.fns[k].id
        /\ list.memory <= operations
    BY DEF ListInOrder
  <1>7. /\ Listed(l) = {l.fns[k].id : k \in 1..Len(l.fns)}
        /\ Listed(list) = {list.fns[k].id : k \in 1..Len(list.fns)}
    BY <1>3, <1>4 DEF Listed
  <1>8. CallbackTypes'
    <2>1. owed' \subseteq Nat
      <3>1. Listed(l) \subseteq Nat
        BY <1>5, <1>7
      <3> QED BY <3>1, <1>2 DEF CallbackTypes
    <2> QED BY <1>2, <2>1 DEF CallbackTypes
  <1>9. ListInOrder'
    <2>1. \A k \in 1..Len(l.fns) : l.fns[k].id <= operations + 1
      <3> TAKE k \in 1..Len(l.fns)
      <3>1. CASE k \in 1..Len(list.fns) /\ l.fns[k] = list.fns[k]
        BY <3>1, <1>3, <1>6
      <3>2. CASE l.fns[k].id = operations + 1
        BY <3>2, <1>3
      <3> QED BY <3>1, <3>2, <1>4
    <2>2. \A j, k \in 1..Len(l.fns) : j < k => l.fns[j].id < l.fns[k].id
      <3> TAKE j, k \in 1..Len(l.fns)
      <3> HAVE j < k
      <3>1. j \in 1..Len(list.fns) /\ l.fns[j] = list.fns[j]
        BY <1>3, <1>4
      <3>2. CASE k \in 1..Len(list.fns) /\ l.fns[k] = list.fns[k]
        BY <3>1, <3>2, <1>6
      <3>3. CASE l.fns[k].id = operations + 1
        <4>1. list.fns[j].id <= operations /\ list.fns[j].id \in Nat
          BY <3>1, <1>3, <1>6
        <4> QED BY <4>1, <3>1, <3>3, <1>3
      <3> QED BY <3>2, <3>3, <1>4
    <2>3. l.memory <= operations + 1
      BY <1>3, <1>6
    <2> QED BY <2>1, <2>2, <2>3, <1>2, <1>5 DEF ListInOrder
  <1>10. ListRests'
    <2>1. l.index <= Len(l.fns)
      BY <1>3, <1>4
    <2>2. Within'
      BY <1>2 DEF Within
    <2> QED BY <1>2, <1>5, <2>1, <2>2 DEF ListRests
  <1>11. CallsBehind'
    <2> SUFFICES ASSUME NEW i \in 1..Len(called)
                 PROVE  /\ called[i][1] <= operations + 1 /\ called[i][2] <= operations + 1
                        /\ called[i][1] <= l.memory
                        /\ called[i][1] = l.memory =>
                             \A k \in 1..Len(l.fns) : k > l.index => called[i][2] < l.fns[k].id
      BY <1>2, <1>5 DEF CallsBehind
    <2>1. /\ called[i][1] <= operations /\ called[i][2] <= operations
          /\ list.memory # NoValue => called[i][1] <= list.memory
      BY DEF CallsBehind
    <2>2. called[i][1] \in Nat /\ called[i][2] \in Nat
      BY <1>3
    <2>3. called[i][1] <= operations + 1 /\ called[i][2] <= operations + 1
      BY <2>1, <2>2, <1>3
    <2>4. called[i][1] <= l.memory
      BY <2>1, <2>3
    <2>5. ASSUME called[i][1] = l.memory, NEW k \in 1..Len(l.fns), k > l.index
          PROVE  called[i][2] < l.fns[k].id
      <3>1. l.memory # operations + 1
        BY <2>1, <2>2, <2>5, <1>3
      <3>2. l.index = Len(list.fns)
        BY <3>1
      <3>3. l.fns[k].id = operations + 1
        BY <3>2, <2>5, <1>3, <1>4
      <3> QED BY <3>3, <2>1, <2>2, <1>3
    <2> QED BY <2>3, <2>4, <2>5
  <1>12. OwedAhead'
    <2>1. ASSUME NEW x \in owed'
          PROVE  \E k \in 1..Len(l.fns) : k > l.index /\ l.fns[k].id = x
      <3>1. CASE l.memory # list.memory
        <4>1. PICK k \in 1..Len(l.fns) : l.fns[k].id = x
          BY <3>1, <2>1, <1>2, <1>7
        <4>2. k > l.index
          BY <3>1
        <4> QED BY <4>1, <4>2
      <3>2. CASE l.memory = list.memory
        <4>1. owed = {} /\ l.index = Len(list.fns)
          BY <3>2, <1>1, <1>3, <1>5, <1>6 DEF OwedAhead
        <4>2. x \in Listed(l) /\ x \notin Listed(list)
          BY <3>2, <4>1, <2>1, <1>2
        <4>3. PICK k \in 1..Len(l.fns) : l.fns[k].id = x
          BY <4>2, <1>7
        <4>4. k = Len(list.fns) + 1
          BY <4>2, <4>3, <1>4, <1>7
        <4> QED BY <4>1, <4>3, <4>4, <1>3
      <3> QED BY <3>1, <3>2
    <2>2. Within'
      BY <1>2 DEF Within
    <2> QED BY <2>1, <2>2, <1>2 DEF OwedAhead
  <1>13. CallsInv'
    BY <1>2 DEF CallsInv
  <1> QED BY <1>8, <1>9, <1>10, <1>11, <1>12, <1>13

\* fire() takes the only value of the queue.
LEMMA FireOne ==
  ASSUME NEW q \in CallbackLists, NEW v \in Nat \ {NoValue}, q.queue = <<v>>
  PROVE  LET l == Fire(q) IN
         /\ l \in CallbackLists /\ l.fns = q.fns /\ l.index = q.index /\ l.queue = << >>
         /\ l.memory = v /\ l.firing /\ l.alive = q.alive
  <1> DEFINE b == q.locked \/ "once" \in q.options
             l == Fire(q)
  <1>1. b \in BOOLEAN /\ << >> \in Seq(Nat \ {NoValue})
    OBVIOUS
  <1>2. Head(q.queue) = v /\ Tail(q.queue) = << >>
    OBVIOUS
  <1>3. q = [q EXCEPT !.locked = q.locked]
    BY DEF CallbackLists
  <1>4. l = [q EXCEPT !.locked = b, !.firing = TRUE, !.memory = v, !.queue = << >>]
    BY <1>2 DEF Fire, CallbackLists
  <1> HIDE DEF b, l
  <1>5. l \in CallbackLists
    BY <1>1, <1>4 DEF CallbackLists
  <1>6. /\ l.fns = q.fns /\ l.index = q.index /\ l.queue = << >>
        /\ l.memory = v /\ l.firing /\ l.alive = q.alive
    BY <1>4 DEF CallbackLists
  <1> QED BY <1>5, <1>6 DEF l

\* Each action keeps the invariant.
LEMMA AddKeeps == ASSUME CallbacksInv, Add PROVE CallbacksInv'
  <1>1. PICK f \in Fns : Use(AddTo(list, [fn |-> f, id |-> operations + 1]))
    BY DEF Add
  <1> DEFINE e == [fn |-> f, id |-> operations + 1]
             l == AddTo(list, e)
             added == IF "unique" \in list.options /\ Has(list, f)
                      THEN list ELSE [list EXCEPT !.fns = Append(@, e)]
  <1>2. /\ operations \in Nat /\ emptied' = emptied /\ emptied \in BOOLEAN
        /\ list \in CallbackLists /\ list.fns \in Seq(Entries) /\ list.memory \in Nat
    BY CallTypes DEF CallbacksInv, Add, CallbackTypes
  <1>3. e \in Entries /\ e.id = operations + 1 /\ e.fn = f
    BY <1>2 DEF Entries
  <1>4. CASE ~ list.alive \/ list.memory = NoValue \/ list.firing
    <2>1. Follows(l, emptied)
      BY <1>3, <1>4, AddFollows
    <2> QED BY <1>1, <1>2, <2>1, UseFollows
  <1>5. CASE list.alive /\ list.memory # NoValue /\ ~ list.firing
    <2>1. l = Fire([added EXCEPT !.index = Len(list.fns), !.queue = Append(@, list.memory)])
      BY <1>3, <1>5 DEF AddTo
    <2>2. added.fns = list.fns \/ added.fns = Append(list.fns, e)
      BY <1>2 DEF CallbackLists
    <2>3. added \in CallbackLists /\ added.options = list.options /\ added.queue = list.queue
          /\ added.memory = list.memory /\ added.alive = list.alive
      <3>1. Append(list.fns, e) \in Seq(Entries)
        BY <1>2, <1>3
      <3> HIDE DEF e
      <3> QED BY <1>2, <3>1 DEF CallbackLists
    <2>4. list.queue = << >>
      BY <1>5 DEF CallbacksInv, ListRests
    <2>5. Append(<< >>, list.memory) = <<list.memory>>
          /\ Head(<<list.memory>>) = list.memory /\ Tail(<<list.memory>>) = << >>
      OBVIOUS
    <2> HIDE DEF added, e
    <2> DEFINE q == [added EXCEPT !.index = Len(list.fns), !.queue = Append(@, list.memory)]
    <2>6. /\ q.fns = added.fns /\ q.index = Len(list.fns) /\ q.queue = <<list.memory>>
          /\ q.options = list.options /\ q.alive = list.alive /\ q.locked = added.locked
          /\ q.memory = list.memory
      BY <2>3, <2>4, <2>5 DEF CallbackLists
    <2>7. q \in CallbackLists
      <3>1. Len(list.fns) \in Nat /\ <<list.memory>> \in Seq(Nat \ {NoValue})
        BY <1>2, <1>5
      <3> QED BY <3>1, <2>3, <2>4, <2>5 DEF CallbackLists
    <2> HIDE DEF q
    <2>8. list.memory \in Nat \ {NoValue}
      BY <1>2, <1>5
    <2>9. /\ l.fns = added.fns /\ l.index = Len(list.fns) /\ l.queue = << >>
          /\ l.memory = list.memory /\ l.firing /\ l.alive /\ l \in CallbackLists
      <3>1. l = Fire(q)
        BY <2>1 DEF q
      <3> HIDE DEF l
      <3> QED BY <3>1, <1>5, <2>6, <2>7, <2>8, FireOne
    <2>10. Use(l)
      BY <1>1 DEF e
    <2> HIDE DEF l
    <2> QED BY <1>2, <1>3, <1>5, <2>2, <2>9, <2>10, UseFires
  <1> QED BY <1>4, <1>5

\* Firing is one use more: its value is later than all that were fired.
LEMMA FireKeeps == ASSUME CallbacksInv, FireList PROVE CallbacksInv'
  <1> DEFINE l == FireWith(list, operations + 1)
             v == operations + 1
  <1>1. /\ operations \in Nat /\ emptied' = emptied /\ emptied \in BOOLEAN /\ Use(l)
        /\ list \in CallbackLists /\ list.fns \in Seq(Entries) /\ list.memory \in Nat
    BY CallTypes DEF CallbacksInv, FireList, CallbackTypes
  <1>2. CASE list.locked \/ list.firing
    <2>1. Follows(l, emptied)
      BY <1>2, FireFollows
    <2> QED BY <1>1, <2>1, UseFollows
  <1>3. CASE ~ list.locked /\ ~ list.firing
    <2>1. list.queue = << >> /\ list.index = 0 /\ list.alive
      BY <1>3 DEF CallbacksInv, ListRests
    <2>2. Append(<< >>, v) = <<v>> /\ Head(<<v>>) = v /\ Tail(<<v>>) = << >>
      OBVIOUS
    <2>3. v \in Nat \ {NoValue}
      BY <1>1 DEF NoValue
    <2> DEFINE q == [list EXCEPT !.queue = Append(@, v)]
    <2>4. l = Fire(q)
      BY <1>3 DEF FireWith
    <2> HIDE DEF v
    <2>5. /\ q.fns = list.fns /\ q.index = 0 /\ q.queue = <<v>>
          /\ q.options = list.options /\ q.alive /\ q.locked = list.locked
      BY <1>1, <2>1, <2>2 DEF CallbackLists
    <2>6. q \in CallbackLists
      <3>1. <<v>> \in Seq(Nat \ {NoValue})
        BY <2>3
      <3> QED BY <3>1, <1>1, <2>1, <2>2 DEF CallbackLists
    <2> HIDE DEF q
    <2>8. /\ l.fns = list.fns /\ l.index = 0 /\ l.queue = << >>
          /\ l.memory = v /\ l.firing /\ l.alive /\ l \in CallbackLists
      <3> HIDE DEF l
      <3> QED BY <2>3, <2>4, <2>5, <2>6, FireOne
    <2>10. Use(l)
      BY <1>1
    <2> HIDE DEF l
    <2> QED BY <1>1, <1>3, <2>8, <2>10, UseFires DEF v
  <1> QED BY <1>2, <1>3

\* The loop comes to the next function, which was called for no later value.
LEMMA CallNextKeeps == ASSUME CallbacksInv, CallNext PROVE CallbacksInv'
  <1> USE DEF CallbacksInv
  <1> DEFINE n == Len(list.fns)
             x == list.index + 1
             f == list.fns[x].id
             m == Len(called)
  <1>1. /\ at = "loop" /\ at' = "call" /\ ~ AtEnd(list)
        /\ list' = [list EXCEPT !.index = @ + 1]
        /\ called' = Append(called, <<list.memory, f>>)
        /\ owed' = owed \ {f} /\ operations' = operations /\ emptied' = emptied
    BY DEF CallNext
  <1>2. /\ n \in Nat /\ list.index \in Nat /\ list.memory \in Nat /\ operations \in Nat
        /\ \A k \in 1..n : list.fns[k].id \in Nat
        /\ \A i \in 1..m : called[i][1] \in Nat /\ called[i][2] \in Nat
        /\ m \in Nat /\ called \in Seq(Nat \X Nat) /\ list \in CallbackLists
        /\ \A k \in 1..Len(list.queue) : list.queue[k] \in Nat
    BY CallTypes DEF CallbackTypes
  <1>3. x \in 1..n /\ list.index < x /\ f \in Nat
    <2>1. ~ (list.index >= n)
      BY <1>1 DEF AtEnd
    <2>2. n \in Nat /\ list.index \in Nat
      BY <1>2
    <2>3. x \in 1..n /\ list.index < x
      <3> HIDE DEF n
      <3> QED BY <2>1, <2>2
    <2> QED BY <2>3, <1>2
  <1>4. /\ list'.fns = list.fns /\ list'.index = x /\ list'.queue = list.queue
        /\ list'.firing = list.firing /\ list'.memory = list.memory
        /\ list'.locked = list.locked /\ list'.alive = list.alive
        /\ list' \in CallbackLists
    <2>1. list' = [list EXCEPT !.index = x] /\ x \in Nat
      BY <1>1, <1>2
    <2> HIDE DEF x
    <2> QED BY <2>1, <1>2 DEF CallbackLists
  <1>5. /\ Len(called') = m + 1 /\ called'[m + 1] = <<list.memory, f>>
        /\ \A i \in 1..m : called'[i] = called[i]
        /\ <<list.memory, f>> \in Nat \X Nat /\ called' \in Seq(Nat \X Nat)
    <2>1. <<list.memory, f>> \in Nat \X Nat
      BY <1>2, <1>3
    <2> HIDE DEF f
    <2> QED BY <2>1, <1>1, <1>2
  <1>6. called'[m + 1][1] = list.memory /\ called'[m + 1][2] = f
    BY <1>5
  <1>7. \A i \in 1..(m + 1) : i \in 1..m \/ i = m + 1
    BY <1>2
  <1>8. list.memory # NoValue /\ Within /\ Within'
    BY <1>1 DEF ListRests, Within
  <1>9. /\ f <= operations /\ list.memory <= operations
        /\ \A k \in 1..n : k > x => f < list.fns[k].id
        /\ \A k \in 1..n : list.fns[k].id = f => k = x
        /\ \A k \in 1..Len(list.queue) : list.memory < list.queue[k]
    BY <1>3, DifferentIds DEF ListInOrder
  <1>10. \A i \in 1..m :
           /\ called[i][1] <= operations /\ called[i][2] <= operations
           /\ called[i][1] <= list.memory
           /\ \A k \in 1..Len(list.queue) : called[i][1] < list.queue[k]
           /\ called[i][1] = list.memory =>
                \A k \in 1..n : k > list.index => called[i][2] < list.fns[k].id
    BY <1>8 DEF CallsBehind
  <1> HIDE DEF f, m, n, x
  <1>11. CallbackTypes'
    BY <1>1, <1>4, <1>5 DEF CallbackTypes
  <1>12. ListInOrder'
    BY <1>1, <1>4 DEF ListInOrder
  <1>13. ListRests'
    BY <1>1, <1>3, <1>4, <1>8 DEF ListRests, n
  <1>14. CallsBehind'
    <2>1. ASSUME NEW i \in 1..(m + 1)
          PROVE  /\ called'[i][1] <= operations /\ called'[i][2] <= operations
                 /\ called'[i][1] <= list.memory
                 /\ \A k \in 1..Len(list.queue) : called'[i][1] < list.queue[k]
                 /\ called'[i][1] = list.memory =>
                      \A k \in 1..n : k > x => called'[i][2] < list.fns[k].id
      <3>1. CASE i \in 1..m
        <4>1. called'[i] = called[i]
          BY <3>1, <1>5
        <4>2. \A k \in 1..n : k > x => k > list.index
          BY <1>2, <1>3
        <4> QED BY <3>1, <4>1, <4>2, <1>10
      <3>2. CASE i = m + 1
        <4>1. list.memory <= list.memory
          BY <1>2
        <4> QED BY <3>2, <4>1, <1>6, <1>9
      <3> QED BY <3>1, <3>2, <1>7
    <2>2. Len(called') = m + 1 /\ list'.index = x /\ list'.memory = list.memory
          /\ list'.queue = list.queue /\ Len(list'.fns) = n /\ list'.fns = list.fns
          /\ operations' = operations
      BY <1>1, <1>4, <1>5 DEF n
    <2>3. \A i \in 1..Len(called') :
            /\ called'[i][1] <= operations' /\ called'[i][2] <= operations'
            /\ called'[i][1] <= list'.memory
            /\ \A k \in 1..Len(list'.queue) : called'[i][1] < list'.queue[k]
            /\ called'[i][1] = list'.memory =>
                 \A k \in 1..Len(list'.fns) : k > list'.index => called'[i][2] < list'.fns[k].id
      BY <2>1, <2>2
    <2> QED BY <2>3 DEF CallsBehind
  <1>15. OwedAhead'
    <2>1. ASSUME NEW y \in owed' PROVE \E k \in 1..n : k > x /\ list.fns[k].id = y
      <3>1. y \in owed /\ y # f
        BY <2>1, <1>1
      <3>2. PICK k \in 1..n : k > list.index /\ list.fns[k].id = y
        BY <3>1, <1>8 DEF OwedAhead, n
      <3>3. k # x
        BY <3>1, <3>2 DEF f
      <3>4. k > x
        BY <3>2, <3>3, <1>2 DEF x
      <3> QED BY <3>2, <3>4
    <2> QED BY <2>1, <1>4, <1>8 DEF OwedAhead, n
  <1>16. CallsInv'
    <2>1. ASSUME NEW i \in 1..(m + 1), NEW j \in 1..(m + 1), i < j
          PROVE  \/ called'[i][1] < called'[j][1]
                 \/ called'[i][1] = called'[j][1] /\ called'[i][2] < called'[j][2]
      <3>1. i \in 1..m /\ called'[i] = called[i]
        <4>1. m \in Nat
          BY <1>2
        <4>2. i \in 1..m
          BY <4>1, <2>1
        <4> QED BY <4>2, <1>5
      <3>2. CASE j \in 1..m
        <4>1. called'[j] = called[j]
          BY <3>2, <1>5
        <4> QED BY <4>1, <3>1, <3>2, <2>1 DEF CallsInv, m
      <3>3. CASE j = m + 1
        <4>1. /\ called[i][1] <= list.memory /\ called[i][1] \in Nat
              /\ called[i][1] = list.memory => called[i][2] < f
          BY <3>1, <1>2, <1>3, <1>10 DEF f
        <4> QED BY <4>1, <3>1, <3>3, <1>2, <1>6
      <3> QED BY <3>2, <3>3, <1>7
    <2> QED BY <2>1, <1>5 DEF CallsInv
  <1> QED BY <1>11, <1>12, <1>13, <1>14, <1>15, <1>16

\* A callback that returns or throws changes no list.
LEMMA ReturnKeeps == ASSUME CallbacksInv, Return \/ Throw PROVE CallbacksInv'
  <1> USE DEF CallbacksInv
  <1>1. /\ at = "call" /\ at' \in {"loop", "idle"} /\ owed' \in {owed, {}}
        /\ (at' = "idle" => owed' = {})
        /\ list' = list /\ operations' = operations /\ called' = called /\ emptied' = emptied
    BY DEF Return, Throw
  <1>2. Within /\ (Within' <=> at' = "loop")
    BY <1>1 DEF Within
  <1>3. CallbackTypes' /\ ListInOrder' /\ CallsInv' /\ CallsBehind'
    <2>1. CallbackTypes'
      BY <1>1 DEF CallbackTypes
    <2>2. ListInOrder'
      BY <1>1 DEF ListInOrder
    <2>3. CallsInv'
      BY <1>1 DEF CallsInv
    <2>4. CallsBehind'
      BY <1>1, <1>2 DEF CallsBehind
    <2> QED BY <2>1, <2>2, <2>3, <2>4
  <1>4. ListRests'
    <2>1. list.memory = NoValue => list.fns = << >> /\ list.index \in Nat
      BY <1>1, CallTypes DEF ListRests
    <2>2. list.memory = NoValue => AtEnd(list)
      BY <2>1 DEF AtEnd
    <2>3. AtEnd(list)' <=> AtEnd(list)
      BY <1>1 DEF AtEnd
    <2> QED BY <1>1, <1>2, <2>2, <2>3 DEF ListRests
  <1>5. OwedAhead'
    BY <1>1, <1>2 DEF OwedAhead, ListRests
  <1> QED BY <1>3, <1>4, <1>5

\* With stopOnFalse, false ends the loop, and nobody is owed the value.
LEMMA ReturnFalseKeeps == ASSUME CallbacksInv, ReturnFalse PROVE CallbacksInv'
  <1> USE DEF CallbacksInv
  <1>1. /\ at = "call" /\ at' = "loop" /\ owed' = {}
        /\ list' = [list EXCEPT !.index = Len(list.fns), !.memory = NoValue]
        /\ operations' = operations /\ called' = called /\ emptied' = emptied
    BY DEF ReturnFalse, StopValue
  <1>2. Within /\ Within'
    BY <1>1 DEF Within
  <1>3. list \in CallbackLists /\ Len(list.fns) \in Nat /\ NoValue \in Nat
    BY CallTypes DEF CallbackTypes, NoValue
  <1>4. /\ list'.fns = list.fns /\ list'.index = Len(list.fns) /\ list'.queue = list.queue
        /\ list'.firing = list.firing /\ list'.memory = NoValue
        /\ list'.locked = list.locked /\ list'.alive = list.alive
        /\ list' \in CallbackLists
    BY <1>1, <1>3 DEF CallbackLists
  <1>5. CallbackTypes'
    BY <1>1, <1>4 DEF CallbackTypes
  <1>6. ListInOrder'
    <2>1. \A k \in 1..Len(list.queue) : NoValue < list.queue[k]
      <3>1. \A k \in 1..Len(list.queue) : list.queue[k] \in Nat /\ list.queue[k] # NoValue
        BY CallTypes
      <3> QED BY <3>1 DEF NoValue
    <2>2. NoValue <= operations
      BY CallTypes DEF NoValue
    <2> QED BY <2>1, <2>2, <1>1, <1>4 DEF ListInOrder
  <1>7. ListRests'
    <2>1. AtEnd(list)'
      BY <1>3, <1>4 DEF AtEnd
    <2>2. Len(list.fns) <= Len(list.fns)
      BY <1>3
    <2> QED BY <2>1, <2>2, <1>1, <1>2, <1>4 DEF ListRests
  <1>8. CallsBehind'
    BY <1>1, <1>4 DEF CallsBehind
  <1>9. OwedAhead'
    BY <1>1, <1>2 DEF OwedAhead
  <1>10. CallsInv'
    BY <1>1 DEF CallsInv
  <1> QED BY <1>5, <1>6, <1>7, <1>8, <1>9, <1>10

\* The next value of the queue is later than those of all calls.
LEMMA NextValueKeeps == ASSUME CallbacksInv, NextValue PROVE CallbacksInv'
  <1> USE DEF CallbacksInv
  <1> DEFINE v == Head(list.queue)
             n == Len(list.fns)
  <1>1. /\ at = "loop" /\ at' = at /\ owed' = Listed(list) /\ emptied' = FALSE
        /\ list' = [list EXCEPT !.index = 0, !.memory = v, !.queue = Tail(@)]
        /\ list.queue # << >> /\ operations' = operations /\ called' = called
    BY DEF NextValue, NextValueOf
  <1>2. /\ list \in CallbackLists /\ n \in Nat /\ list.queue \in Seq(Nat \ {NoValue})
        /\ DOMAIN list.fns = 1..n /\ \A k \in 1..n : list.fns[k].id \in Nat
        /\ \A i \in 1..Len(called) : called[i][1] \in Nat
        /\ operations \in Nat
    BY CallTypes DEF CallbackTypes
  <1>3. /\ v = list.queue[1] /\ 1 \in 1..Len(list.queue) /\ v \in Nat \ {NoValue}
        /\ Tail(list.queue) \in Seq(Nat \ {NoValue})
        /\ \A k \in 1..Len(Tail(list.queue)) :
             k + 1 \in 1..Len(list.queue) /\ Tail(list.queue)[k] = list.queue[k + 1]
    BY <1>1, <1>2
  <1> HIDE DEF v, n
  <1>4. /\ list'.fns = list.fns /\ list'.index = 0 /\ list'.queue = Tail(list.queue)
        /\ list'.firing = list.firing /\ list'.memory = v
        /\ list'.locked = list.locked /\ list'.alive = list.alive
        /\ list' \in CallbackLists
    BY <1>1, <1>2, <1>3 DEF CallbackLists
  <1>5. Within /\ Within' /\ list.alive
    BY <1>1 DEF Within, ListRests
  <1>6. Listed(list) = {list.fns[k].id : k \in 1..n}
    BY <1>2 DEF Listed
  <1>7. CallbackTypes'
    <2>1. Listed(list) \subseteq Nat
      BY <1>2, <1>6
    <2> QED BY <2>1, <1>1, <1>4 DEF CallbackTypes
  <1>8. \A k \in 1..Len(list.queue) : list.queue[k] \in Int
    BY <1>2
  <1>9. ListInOrder'
    <2>1. \A j, k \in 1..Len(list.queue) : j < k => list.queue[j] < list.queue[k]
      BY DEF ListInOrder
    <2>2. \A k \in 1..Len(Tail(list.queue)) :
            v < Tail(list.queue)[k] /\ Tail(list.queue)[k] <= operations
      <3> TAKE k \in 1..Len(Tail(list.queue))
      <3>1. k + 1 \in 1..Len(list.queue) /\ 1 < k + 1
        BY <1>2, <1>3
      <3>2. list.queue[1] < list.queue[k + 1] /\ list.queue[k + 1] <= operations
        BY <2>1, <3>1, <1>3 DEF ListInOrder
      <3> QED BY <3>2, <1>3
    <2>3. \A j, k \in 1..Len(Tail(list.queue)) : j < k => Tail(list.queue)[j] < Tail(list.queue)[k]
      <3> TAKE j, k \in 1..Len(Tail(list.queue))
      <3> HAVE j < k
      <3>1. j + 1 < k + 1 /\ j + 1 \in 1..Len(list.queue) /\ k + 1 \in 1..Len(list.queue)
        BY <1>2, <1>3
      <3> QED BY <3>1, <2>1, <1>3
    <2>4. v <= operations
      BY <1>3 DEF ListInOrder
    <2> QED BY <2>2, <2>3, <2>4, <1>1, <1>4 DEF ListInOrder
  <1>10. ListRests'
    <2>1. 0 <= n
      BY <1>2
    <2> QED BY <2>1, <1>1, <1>3, <1>4, <1>5 DEF ListRests, n
  <1>11. CallsBehind'
    <2> SUFFICES ASSUME NEW i \in 1..Len(called)
                 PROVE  /\ called[i][1] <= operations /\ called[i][2] <= operations
                        /\ called[i][1] <= v /\ called[i][1] # v
                        /\ \A k \in 1..Len(Tail(list.queue)) : called[i][1] < Tail(list.queue)[k]
      BY <1>1, <1>4 DEF CallsBehind
    <2>1. /\ called[i][1] <= operations /\ called[i][2] <= operations
          /\ \A k \in 1..Len(list.queue) : called[i][1] < list.queue[k]
      BY DEF CallsBehind
    <2>2. called[i][1] < v /\ called[i][1] \in Nat
      BY <2>1, <1>2, <1>3
    <2>3. \A k \in 1..Len(Tail(list.queue)) : called[i][1] < Tail(list.queue)[k]
      BY <2>1, <1>3
    <2> QED BY <2>1, <2>2, <2>3, <1>3
  <1>12. OwedAhead'
    <2>1. \A y \in Listed(list) : \E k \in 1..n : k > 0 /\ list.fns[k].id = y
      BY <1>2, <1>6
    <2> QED BY <2>1, <1>1, <1>4, <1>5 DEF OwedAhead, n
  <1>13. CallsInv'
    BY <1>1 DEF CallsInv
  <1> QED BY <1>7, <1>9, <1>10, <1>11, <1>12, <1>13

\* The queue is empty: the list comes to rest, for good without memory.
LEMMA FinishKeeps == ASSUME CallbacksInv, Finish PROVE CallbacksInv'
  <1> USE DEF CallbacksInv
  <1> DEFINE kept == IF "memory" \in list.options THEN list.memory ELSE NoValue
             fns == IF list.locked THEN << >> ELSE list.fns
             alive == list.alive /\ (list.locked => kept # NoValue)
  <1>1. /\ at = "loop" /\ AtEnd(list) /\ list.queue = << >> /\ at' = "idle"
        /\ list' = [list EXCEPT !.index = 0, !.firing = FALSE, !.memory = kept,
                                !.fns = fns, !.alive = alive]
        /\ operations' = operations /\ called' = called /\ owed' = owed /\ emptied' = FALSE
    BY DEF Finish, EndOfFire
  <1>2. /\ list \in CallbackLists /\ Len(list.fns) \in Nat /\ list.fns \in Seq(Entries)
        /\ list.memory \in Nat /\ operations \in Nat /\ list.index \in Nat
        /\ list.locked \in BOOLEAN /\ list.alive \in BOOLEAN
    BY CallTypes DEF CallbackTypes
  <1>3. /\ kept \in Nat /\ kept \in {list.memory, NoValue}
        /\ fns \in Seq(Entries) /\ fns \in {list.fns, << >>} /\ alive \in BOOLEAN
        /\ list.locked => fns = << >>
        /\ ~ alive => ~ list.alive \/ (list.locked /\ kept = NoValue)
        /\ alive => list.alive
    <2>1. << >> \in Seq(Entries)
      OBVIOUS
    <2> QED BY <2>1, <1>2 DEF NoValue
  <1> HIDE DEF kept, fns, alive
  <1>4. /\ list'.fns = fns /\ list'.index = 0 /\ list'.queue = << >>
        /\ list'.firing = FALSE /\ list'.memory = kept
        /\ list'.locked = list.locked /\ list'.alive = alive
        /\ list' \in CallbackLists
    BY <1>1, <1>2, <1>3 DEF CallbackLists
  <1>5. Within /\ ~ Within'
    BY <1>1 DEF Within
  <1>6. CallbackTypes'
    BY <1>1, <1>4 DEF CallbackTypes
  <1>7. 1..Len(<< >>) = {} /\ NoValue <= operations
    BY <1>2 DEF NoValue
  <1>8. ListInOrder'
    <2>1. /\ \A k \in 1..Len(fns) : fns[k].id <= operations
          /\ \A j, k \in 1..Len(fns) : j < k => fns[j].id < fns[k].id
      <3>1. CASE fns = list.fns
        BY <3>1 DEF ListInOrder
      <3>2. CASE fns = << >>
        <4>1. 1..Len(fns) = {}
          BY <3>2
        <4> QED BY <4>1
      <3> QED BY <3>1, <3>2, <1>3
    <2>2. kept <= operations
      BY <1>3, <1>7 DEF ListInOrder
    <2> QED BY <2>1, <2>2, <1>1, <1>4, <1>7 DEF ListInOrder
  <1>9. ListRests'
    <2>1. ~ alive => fns = << >> /\ kept = NoValue /\ list.locked
      <3>1. ~ list.alive => list.fns = << >> /\ list.memory = NoValue /\ list.locked
        BY DEF ListRests
      <3> QED BY <3>1, <1>3
    <2> QED BY <2>1, <1>1, <1>4, <1>5 DEF ListRests
  <1>10. CallsBehind'
    <2> SUFFICES ASSUME NEW i \in 1..Len(called)
                 PROVE  /\ called[i][1] <= operations /\ called[i][2] <= operations
                        /\ kept # NoValue => called[i][1] <= kept
      BY <1>1, <1>4, <1>5, <1>7 DEF CallsBehind
    <2> QED BY <1>3 DEF CallsBehind
  <1>11. OwedAhead'
    <2>1. owed = {}
      <3> SUFFICES ASSUME NEW y \in owed PROVE FALSE
        OBVIOUS
      <3>1. PICK k \in 1..Len(list.fns) : k > list.index
        BY <1>5 DEF OwedAhead
      <3> QED BY <3>1, <1>1, <1>2 DEF AtEnd
    <2> QED BY <2>1, <1>1, <1>5 DEF OwedAhead
  <1>12. CallsInv'
    BY <1>1 DEF CallsInv
  <1> QED BY <1>6, <1>8, <1>9, <1>10, <1>11, <1>12

\* A new list satisfies the invariant.
LEMMA CallbacksStart == ASSUME CallbacksInit PROVE CallbacksInv
  <1>1. PICK o \in ListOptions : list = NewList(o)
    BY DEF CallbacksInit
  <1>2. /\ list.fns = << >> /\ list.queue = << >> /\ list.firing = FALSE /\ list.index = 0
        /\ list.memory = NoValue /\ list.locked = FALSE /\ list.alive = TRUE
        /\ list.options = o
    BY <1>1 DEF NewList
  <1>3. list \in CallbackLists
    <2>1. << >> \in Seq(Entries) /\ << >> \in Seq(Nat \ {NoValue}) /\ NoValue \in Nat
      BY DEF NoValue
    <2> QED BY <2>1, <1>1 DEF CallbackLists, NewList
  <1>4. /\ at = "idle" /\ operations = 0 /\ called = << >> /\ owed = {} /\ emptied = FALSE
    BY DEF CallbacksInit
  <1>5. 1..Len(<< >>) = {} /\ << >> \in Seq(Nat \X Nat) /\ NoValue <= 0 /\ 0 \in Nat
    BY DEF NoValue
  <1>6. CallbackTypes
    BY <1>3, <1>4, <1>5 DEF CallbackTypes
  <1>7. ~ Within
    BY <1>4 DEF Within
  <1>8. ListInOrder
    BY <1>2, <1>4, <1>5 DEF ListInOrder
  <1>9. ListRests
    BY <1>2, <1>4, <1>7 DEF ListRests
  <1>10. CallsBehind /\ CallsInv /\ OwedAhead
    BY <1>2, <1>4, <1>5, <1>7 DEF CallsBehind, CallsInv, OwedAhead
  <1> QED BY <1>6, <1>8, <1>9, <1>10 DEF CallbacksInv

\* Every step keeps it.
LEMMA CallbacksStep == ASSUME CallbacksInv, [CallbacksNext]_callbackVars PROVE CallbacksInv'
  <1>1. emptied \in BOOLEAN /\ (at = "call") \in BOOLEAN
    BY DEF CallbacksInv, CallbackTypes
  <1>2. CASE Add
    BY <1>2, AddKeeps
  <1>3. CASE Remove
    <2>1. PICK f \in Fns : Use(RemoveFrom(list, f))
      BY <1>3 DEF Remove
    <2>2. Follows(RemoveFrom(list, f), emptied) /\ emptied' = emptied
      BY <1>3, RemoveFollows DEF Remove
    <2> QED BY <1>1, <2>1, <2>2, UseFollows
  <1>4. CASE Empty
    <2>1. Use(EmptyList(list)) /\ emptied' = (at = "call") /\ at # "loop"
      BY <1>4 DEF Empty, Use
    <2>2. Follows(EmptyList(list), at = "call")
      BY <2>1, EmptyFollows
    <2> QED BY <1>1, <2>1, <2>2, UseFollows
  <1>5. CASE Disable
    <2>1. Use(DisableList(list)) /\ emptied' = emptied
      BY <1>5 DEF Disable
    <2>2. Follows(DisableList(list), emptied)
      BY DisableFollows
    <2> QED BY <1>1, <2>1, <2>2, UseFollows
  <1>6. CASE Lock
    <2>1. Use(LockList(list)) /\ emptied' = emptied
      BY <1>6 DEF Lock
    <2>2. Follows(LockList(list), emptied)
      BY LockFollows
    <2> QED BY <1>1, <2>1, <2>2, UseFollows
  <1>7. CASE FireList
    BY <1>7, FireKeeps
  <1>8. CASE CallNext
    BY <1>8, CallNextKeeps
  <1>9. CASE Return \/ Throw
    BY <1>9, ReturnKeeps
  <1>10. CASE ReturnFalse
    BY <1>10, ReturnFalseKeeps
  <1>11. CASE NextValue
    BY <1>11, NextValueKeeps
  <1>12. CASE Finish
    BY <1>12, FinishKeeps
  <1>13. CASE UNCHANGED callbackVars
    <2>1. /\ list' = list /\ at' = at /\ operations' = operations /\ called' = called
          /\ owed' = owed /\ emptied' = emptied
      BY <1>13 DEF callbackVars
    <2> QED BY <2>1 DEF CallbacksInv, CallbackTypes, ListInOrder, ListRests, CallsBehind,
                        OwedAhead, CallsInv, Within, AtEnd
  <1> QED BY <1>2, <1>3, <1>4, <1>5, <1>6, <1>7, <1>8, <1>9, <1>10, <1>11, <1>12, <1>13
          DEF CallbacksNext

\* A fire of a callback list reaches everybody it should, once, and in the
\* order of the fires and of the adds: whatever the callbacks do to the list
\* that calls them.
THEOREM CalledAllInOrderAlways == CallbacksSpec => []CalledAllInOrder
  <1>1. CallbacksInit => CallbacksInv
    BY CallbacksStart
  <1>2. CallbacksInv /\ [CallbacksNext]_callbackVars => CallbacksInv'
    BY CallbacksStep
  <1>3. CallbacksInv => CalledAllInOrder
    <2> HAVE CallbacksInv
    <2> USE DEF CallbacksInv
    <2>1. NoneSkipped
      <3> SUFFICES ASSUME at = "loop", AtEnd(list), NEW y \in owed PROVE FALSE
        BY DEF NoneSkipped
      <3>1. PICK k \in 1..Len(list.fns) : k > list.index
        BY DEF OwedAhead, Within
      <3>2. Len(list.fns) \in Nat /\ list.index \in Nat
        BY CallTypes
      <3> QED BY <3>1, <3>2 DEF AtEnd
    <2>2. CalledInOrder
      <3>1. DOMAIN called = 1..Len(called)
        BY DEF CallbackTypes
      <3> QED BY <3>1 DEF CalledInOrder, CallsInv
    <2> QED BY <2>1, <2>2 DEF CalledAllInOrder
  <1> QED BY <1>1, <1>2, <1>3, PTL DEF CallbacksSpec

-----------------------------------------------------------------------------
\* Events: the handlers of an element in order, and who runs for an event.

\* What the variables hold.
HandlerRecords == [fn : HandlerFns, id : Nat, one : BOOLEAN, delegate : BOOLEAN]
EventFlags == [stopped : BOOLEAN, immediate : BOOLEAN, prevented : BOOLEAN]
Paths == {<<"target", "root">>, <<"root">>, <<"target">>, << >>}
Natives == [what : {"native"}, e : Nat, of : Nat, x : Elements, path : Paths, again : BOOLEAN]
Triggers == [what : {"trigger"}, e : Nat, of : Nat, only : BOOLEAN, x : Elements, path : Paths]
Dispatches == [what : {"dispatch"}, e : Nat, of : Nat, x : Elements, queue : Seq(HandlerRecords),
               last : Nat, calling : BOOLEAN]
Frames == Natives \cup Triggers \cup Dispatches

\* The variables hold these.
EventTypes ==
  /\ handlers \in [Elements -> Seq(HandlerRecords)]
  /\ delegateCount \in [Elements -> Nat] /\ listening \in [Elements -> BOOLEAN]
  /\ triggered \in BOOLEAN /\ nested \in BOOLEAN /\ overlap \in BOOLEAN
  /\ event \in Seq(EventFlags) /\ doing \in Seq(Frames) /\ uses \in Nat
  /\ ran \in Seq(Nat \X Elements \X Nat \X BOOLEAN)

\* The kinds of frames: one that climbs the path, again or not, and a dispatch.
Climbs(f) == f.what = "native" \/ f.what = "trigger"
Repeats(f) == f.what = "native" /\ f.again
Dispatching(f) == f.what = "dispatch"

\* An event with the path p has yet to come to x.
Ahead(p, x) == \E i \in 1..Len(p) : p[i] = x

\* The handlers of an element, as HandlersInOrder has them, each there once.
HandlersFit ==
  \A x \in Elements :
    /\ \A i \in 1..Len(handlers[x]) : handlers[x][i].delegate <=> i <= delegateCount[x]
    /\ delegateCount[x] <= Len(handlers[x])
    /\ listening[x] <=> handlers[x] # << >>
    /\ \A i, j \in 1..Len(handlers[x]) : handlers[x][i].id = handlers[x][j].id => i = j

\* A handler is bound to x, or was when a dispatch on x began.
KnownAt(x, h) ==
  \/ \E i \in 1..Len(handlers[x]) : handlers[x][i] = h
  \/ \E k \in 1..Len(doing) : /\ Dispatching(doing[k]) /\ doing[k].x = x
                              /\ \E j \in 1..Len(doing[k].queue) : doing[k].queue[j] = h

\* A number tells the handler and its element, for good.
Numbered ==
  /\ \A x, y \in Elements, h, g \in HandlerRecords :
       KnownAt(x, h) /\ KnownAt(y, g) /\ h.id = g.id => x = y /\ h = g
  /\ \A x \in Elements, h \in HandlerRecords : KnownAt(x, h) => h.id <= uses
  /\ \A i \in 1..Len(ran) : ran[i][3] <= uses
  /\ \A x \in Elements, h \in HandlerRecords : KnownAt(x, h) =>
       \A i \in 1..Len(ran) : ran[i][3] = h.id => ran[i][4] = h.one

\* An event climbs once, but for its second time in a native method.
ClimbsOnce ==
  /\ \A k, l \in 1..Len(doing) :
       /\ Climbs(doing[k]) /\ ~ Repeats(doing[k]) /\ Climbs(doing[l]) /\ ~ Repeats(doing[l])
       /\ doing[k].of = doing[l].of
       => k = l
  /\ \A k \in 1..Len(doing) : doing[k].of <= Len(event)
  /\ \A i \in 1..Len(ran) : ran[i][1] <= Len(event)
  /\ \A k \in 1..Len(doing) : Dispatching(doing[k]) =>
       \A i, j \in 1..Len(doing[k].queue) : doing[k].queue[i].id = doing[k].queue[j].id => i = j

\* While an event climbs the second time nothing happens but that, and it is
\* suppressed.
Suppressed ==
  ~ nested => \A k \in 1..Len(doing) : Repeats(doing[k]) => k = Len(doing) /\ triggered

\* A dispatch is of the event below it in the stack, on an element that lies
\* behind it; what ran of the event there is at the front of the queue.
DispatchFits ==
  ~ nested => \A k \in 1..Len(doing) : Dispatching(doing[k]) =>
    /\ k > 1 /\ Climbs(doing[k - 1]) /\ ~ Repeats(doing[k - 1]) /\ doing[k - 1].of = doing[k].of
    /\ ~ Ahead(doing[k - 1].path, doing[k].x)
    /\ \A i \in 1..Len(ran) : ran[i][1] = doing[k].of /\ ran[i][2] = doing[k].x =>
         \E j \in 1..Len(doing[k].queue) : j <= doing[k].last /\ ran[i][3] = doing[k].queue[j].id

\* No handler ran of an event where it has yet to come.
NoneAhead ==
  ~ nested => \A k \in 1..Len(doing) : Climbs(doing[k]) /\ ~ Repeats(doing[k]) =>
    \A i \in 1..Len(ran) : ran[i][1] = doing[k].of => ~ Ahead(doing[k].path, ran[i][2])

\* Without an overlap, a one() handler that ran is bound no more, and no queue
\* has it still to be called.
OneIsOver ==
  ~ overlap =>
    /\ \A k, l \in 1..Len(doing) :
         Dispatching(doing[k]) /\ Dispatching(doing[l]) /\ doing[k].x = doing[l].x => k = l
    /\ \A i \in 1..Len(ran) : ran[i][4] =>
         /\ \A x \in Elements : \A j \in 1..Len(handlers[x]) : handlers[x][j].id # ran[i][3]
         /\ \A k \in 1..Len(doing) : Dispatching(doing[k]) =>
              \A j \in 1..Len(doing[k].queue) :
                j > doing[k].last => doing[k].queue[j].id # ran[i][3]

\* What ran, ran once for its event, and a one() handler at all.
RanOnce ==
  /\ ~ nested => \A i, j \in 1..Len(ran) : ran[i] = ran[j] => i = j
  /\ ~ overlap => \A i, j \in 1..Len(ran) : ran[i][4] /\ ran[i][3] = ran[j][3] => i = j

\* The inductive invariant.
EventsInv ==
  /\ EventTypes /\ HandlersFit /\ Numbered /\ ClimbsOnce
  /\ Suppressed /\ DispatchFits /\ NoneAhead /\ OneIsOver /\ RanOnce

\* The document of the model: an element in its parent.
LEMMA TwoElements ==
  /\ Elements = {"target", "root"}
  /\ Path["target"] = <<"target", "root">> /\ Path["root"] = <<"root">>
  BY DEF Elements, Path

\* A step up a path leaves its head behind.
LEMMA PathSteps ==
  /\ \A x \in Elements : Path[x] \in Paths /\ <<x>> \in Paths
  /\ \A p \in Paths : p # << >> =>
       /\ Head(p) \in Elements /\ Tail(p) \in Paths /\ Ahead(p, Head(p))
       /\ ~ Ahead(Tail(p), Head(p))
       /\ \A x \in Elements : Ahead(Tail(p), x) => Ahead(p, x)
  <1>1. \A x \in Elements : Path[x] \in Paths /\ <<x>> \in Paths
    BY TwoElements DEF Paths
  <1>2. ASSUME NEW p \in Paths, p # << >>
        PROVE  /\ Head(p) \in Elements /\ Tail(p) \in Paths /\ Ahead(p, Head(p))
               /\ ~ Ahead(Tail(p), Head(p))
               /\ \A x \in Elements : Ahead(Tail(p), x) => Ahead(p, x)
    <2>1. CASE p = <<"target", "root">>
      <3>1. Head(p) = "target" /\ Tail(p) = <<"root">> /\ Len(p) = 2 /\ Len(Tail(p)) = 1
            /\ p[1] = "target" /\ p[2] = "root" /\ Tail(p)[1] = "root"
        BY <2>1
      <3>2. Ahead(p, "target") /\ Ahead(p, "root")
        BY <3>1 DEF Ahead
      <3>3. \A x : Ahead(Tail(p), x) => x = "root"
        BY <3>1 DEF Ahead
      <3>4. "target" # "root"
        OBVIOUS
      <3> QED BY <3>1, <3>2, <3>3, <3>4, TwoElements DEF Paths
    <2>2. CASE p = <<"root">> \/ p = <<"target">>
      <3>1. Len(p) = 1 /\ Tail(p) = << >> /\ Head(p) = p[1] /\ p[1] \in Elements
        <4>1. CASE p = <<"root">>
          BY <4>1, TwoElements
        <4>2. CASE p = <<"target">>
          BY <4>2, TwoElements
        <4> QED BY <2>2, <4>1, <4>2
      <3>2. Ahead(p, Head(p))
        BY <3>1 DEF Ahead
      <3>3. \A x : ~ Ahead(Tail(p), x)
        BY <3>1 DEF Ahead
      <3> QED BY <3>1, <3>2, <3>3 DEF Paths
    <2> QED BY <1>2, <2>1, <2>2 DEF Paths
  <1> QED BY <1>1, <1>2

\* EventTypes, taken apart.
LEMMA EventFacts ==
  ASSUME EventTypes
  PROVE  /\ \A x \in Elements :
              /\ handlers[x] \in Seq(HandlerRecords) /\ Len(handlers[x]) \in Nat
              /\ DOMAIN handlers[x] = 1..Len(handlers[x])
              /\ delegateCount[x] \in Nat /\ listening[x] \in BOOLEAN
              /\ \A i \in 1..Len(handlers[x]) :
                   /\ handlers[x][i] \in HandlerRecords /\ handlers[x][i].id \in Nat
                   /\ handlers[x][i].delegate \in BOOLEAN
         /\ Len(event) \in Nat /\ Len(doing) \in Nat /\ uses \in Nat /\ Len(ran) \in Nat
         /\ \A k \in 1..Len(doing) :
              doing[k] \in Frames /\ doing[k].x \in Elements /\ doing[k].of \in Nat
         /\ \A k \in 1..Len(doing) : Dispatching(doing[k]) =>
              doing[k] \in Dispatches /\ doing[k].queue \in Seq(HandlerRecords)
              /\ Len(doing[k].queue) \in Nat
              /\ doing[k].last \in Nat /\ doing[k].calling \in BOOLEAN
              /\ \A j \in 1..Len(doing[k].queue) :
                   doing[k].queue[j] \in HandlerRecords /\ doing[k].queue[j].id \in Nat
         /\ \A k \in 1..Len(doing) : Climbs(doing[k]) =>
              doing[k] \in Natives \cup Triggers /\ doing[k].path \in Paths
         /\ \A i \in 1..Len(ran) :
              /\ ran[i] \in Nat \X Elements \X Nat \X BOOLEAN
              /\ ran[i][1] \in Nat /\ ran[i][2] \in Elements /\ ran[i][3] \in Nat
              /\ ran[i][4] \in BOOLEAN
  <1> USE DEF EventTypes
  <1>1. ASSUME NEW x \in Elements
        PROVE  /\ handlers[x] \in Seq(HandlerRecords) /\ Len(handlers[x]) \in Nat
               /\ DOMAIN handlers[x] = 1..Len(handlers[x])
               /\ delegateCount[x] \in Nat /\ listening[x] \in BOOLEAN
               /\ \A i \in 1..Len(handlers[x]) :
                    /\ handlers[x][i] \in HandlerRecords /\ handlers[x][i].id \in Nat
                    /\ handlers[x][i].delegate \in BOOLEAN
    <2>1. handlers[x] \in Seq(HandlerRecords) /\ delegateCount[x] \in Nat /\ listening[x] \in BOOLEAN
      OBVIOUS
    <2>2. /\ Len(handlers[x]) \in Nat /\ DOMAIN handlers[x] = 1..Len(handlers[x])
          /\ \A i \in 1..Len(handlers[x]) : handlers[x][i] \in HandlerRecords
      BY <2>1
    <2>3. \A i \in 1..Len(handlers[x]) :
            handlers[x][i].id \in Nat /\ handlers[x][i].delegate \in BOOLEAN
      BY <2>2 DEF HandlerRecords
    <2> QED BY <2>1, <2>2, <2>3
  <1>2. /\ Len(event) \in Nat /\ Len(doing) \in Nat /\ Len(ran) \in Nat
        /\ \A k \in 1..Len(doing) : doing[k] \in Frames
        /\ \A i \in 1..Len(ran) : ran[i] \in Nat \X Elements \X Nat \X BOOLEAN
    OBVIOUS
  <1>3. \A k \in 1..Len(doing) : doing[k].x \in Elements /\ doing[k].of \in Nat
    BY <1>2 DEF Frames, Natives, Triggers, Dispatches
  <1>4. ASSUME NEW k \in 1..Len(doing), Dispatching(doing[k])
        PROVE  doing[k] \in Dispatches /\ doing[k].queue \in Seq(HandlerRecords)
               /\ Len(doing[k].queue) \in Nat
               /\ doing[k].last \in Nat /\ doing[k].calling \in BOOLEAN
               /\ \A j \in 1..Len(doing[k].queue) :
                    doing[k].queue[j] \in HandlerRecords /\ doing[k].queue[j].id \in Nat
    <2>1. doing[k] \in Dispatches
      BY <1>2, <1>4 DEF Frames, Natives, Triggers, Dispatching
    <2>2. doing[k].queue \in Seq(HandlerRecords) /\ doing[k].last \in Nat
          /\ doing[k].calling \in BOOLEAN
      BY <2>1 DEF Dispatches
    <2>3. Len(doing[k].queue) \in Nat
          /\ \A j \in 1..Len(doing[k].queue) : doing[k].queue[j] \in HandlerRecords
      BY <2>2
    <2>4. \A j \in 1..Len(doing[k].queue) : doing[k].queue[j].id \in Nat
      BY <2>3 DEF HandlerRecords
    <2> QED BY <2>1, <2>2, <2>3, <2>4
  <1>5. ASSUME NEW k \in 1..Len(doing), Climbs(doing[k])
        PROVE  doing[k] \in Natives \cup Triggers /\ doing[k].path \in Paths
    <2>1. doing[k] \in Natives \cup Triggers
      BY <1>2, <1>5 DEF Frames, Dispatches, Climbs
    <2> QED BY <2>1 DEF Natives, Triggers
  <1>6. \A i \in 1..Len(ran) : /\ ran[i][1] \in Nat /\ ran[i][2] \in Elements
                               /\ ran[i][3] \in Nat /\ ran[i][4] \in BOOLEAN
    BY <1>2
  <1> QED BY <1>1, <1>2, <1>3, <1>4, <1>5, <1>6

\* Handler h of element x is n, bound to z by this use.
NewAt(x, h, z, n) == x = z /\ h = n /\ n.id = uses + 1 /\ uses' = uses + 1

\* Numbering goes on: what is known was known, or is the handler of this use.
LEMMA NumberedKept ==
  ASSUME EventTypes, Numbered, uses' \in Nat, uses <= uses', ran' = ran, NEW z, NEW n,
         \A x \in Elements, h \in HandlerRecords :
           KnownAt(x, h)' => KnownAt(x, h) \/ NewAt(x, h, z, n)
  PROVE  Numbered'
  <1> USE DEF NewAt
  <1>1. /\ uses \in Nat /\ \A h \in HandlerRecords : h.id \in Nat
        /\ \A i \in 1..Len(ran) : ran[i][3] \in Nat
    BY EventFacts DEF HandlerRecords
  <1>2. /\ \A x, y \in Elements, h, g \in HandlerRecords :
             KnownAt(x, h) /\ KnownAt(y, g) /\ h.id = g.id => x = y /\ h = g
        /\ \A x \in Elements, h \in HandlerRecords : KnownAt(x, h) => h.id <= uses
        /\ \A i \in 1..Len(ran) : ran[i][3] <= uses
        /\ \A x \in Elements, h \in HandlerRecords : KnownAt(x, h) =>
             \A i \in 1..Len(ran) : ran[i][3] = h.id => ran[i][4] = h.one
    BY DEF Numbered
  <1>3. ASSUME NEW x \in Elements, NEW y \in Elements, NEW h \in HandlerRecords,
               NEW g \in HandlerRecords, KnownAt(x, h)', KnownAt(y, g)', h.id = g.id
        PROVE  x = y /\ h = g
    <2>1. KnownAt(x, h) \/ (x = z /\ h = n /\ n.id = uses + 1)
      BY <1>3
    <2>2. KnownAt(y, g) \/ (y = z /\ g = n /\ n.id = uses + 1)
      BY <1>3
    <2>3. CASE KnownAt(x, h) /\ KnownAt(y, g)
      BY <2>3, <1>2, <1>3
    <2>4. KnownAt(x, h) => h.id # uses + 1
      BY <1>1, <1>2
    <2>5. KnownAt(y, g) => g.id # uses + 1
      BY <1>1, <1>2
    <2> QED BY <2>1, <2>2, <2>3, <2>4, <2>5, <1>3
  <1>4. ASSUME NEW x \in Elements, NEW h \in HandlerRecords, KnownAt(x, h)'
        PROVE  h.id <= uses' /\ \A i \in 1..Len(ran) : ran[i][3] = h.id => ran[i][4] = h.one
    <2>1. CASE KnownAt(x, h)
      <3>1. h.id <= uses /\ \A i \in 1..Len(ran) : ran[i][3] = h.id => ran[i][4] = h.one
        BY <2>1, <1>2
      <3> QED BY <3>1, <1>1
    <2>2. CASE h.id = uses + 1 /\ uses' = uses + 1
      <3>1. \A i \in 1..Len(ran) : ran[i][3] # h.id
        BY <2>2, <1>1, <1>2
      <3> QED BY <2>2, <3>1, <1>1
    <2> QED BY <2>1, <2>2, <1>4
  <1>5. \A i \in 1..Len(ran) : ran[i][3] <= uses'
    BY <1>1, <1>2
  <1> QED BY <1>3, <1>4, <1>5 DEF Numbered

\* Taking handlers off leaves the others in their order, the delegates in front.
LEMMA HandlersShrink ==
  ASSUME EventTypes, HandlersFit, NEW x \in Elements, NEW gone \in SUBSET (DOMAIN handlers[x]),
         RemoveHandlers(x, gone)
  PROVE  /\ handlers' \in [Elements -> Seq(HandlerRecords)]
         /\ delegateCount' \in [Elements -> Nat] /\ listening' \in [Elements -> BOOLEAN]
         /\ HandlersFit'
         /\ \A y \in Elements : \A i \in 1..Len(handlers'[y]) : \E j \in 1..Len(handlers[y]) :
              handlers'[y][i] = handlers[y][j] /\ (y = x => j \notin gone)
  <1> DEFINE s == handlers[x]
             n == Len(s)
             K == DOMAIN s \ gone
             t == Kept(s, K)
             dc == delegateCount[x]
             g == gone \cap Delegates(x)
             c == Cardinality(K)
             a == Cardinality(UpTo(K, dc))
  <1>1. /\ handlers \in [Elements -> Seq(HandlerRecords)] /\ delegateCount \in [Elements -> Nat]
        /\ listening \in [Elements -> BOOLEAN]
    BY DEF EventTypes
  <1>2. /\ s \in Seq(HandlerRecords) /\ n \in Nat /\ DOMAIN s = 1..n /\ dc \in Nat /\ dc \in Int
        /\ \A i \in 1..n : s[i].delegate \in BOOLEAN
    BY EventFacts
  <1>3. /\ \A i \in 1..n : s[i].delegate <=> i <= dc
        /\ dc <= n /\ (listening[x] <=> s # << >>)
        /\ \A i, j \in 1..n : s[i].id = s[j].id => i = j
    BY DEF HandlersFit
  <1>4. /\ handlers' = [handlers EXCEPT ![x] = t]
        /\ delegateCount' = [delegateCount EXCEPT ![x] = dc - Cardinality(g)]
        /\ listening' = [listening EXCEPT ![x] = @ /\ t # << >>]
    BY <1>1 DEF RemoveHandlers
  <1>5. K \in SUBSET (1..Len(s)) /\ UpTo(K, dc) \cup g = 1..dc /\ UpTo(K, dc) \cap g = {}
    <2>1. Delegates(x) = {i \in 1..n : i <= dc}
      BY <1>2, <1>3 DEF Delegates
    <2>2. Delegates(x) = 1..dc
      BY <2>1, <1>2, <1>3
    <2>3. gone \subseteq 1..n
      BY <1>2
    <2>4. K = 1..n \ gone
      BY <1>2
    <2> HIDE DEF K, n, dc
    <2>5. UpTo(K, dc) = {i \in 1..n : i \notin gone /\ i <= dc}
      BY <2>4 DEF UpTo
    <2>6. UpTo(K, dc) = 1..dc \ gone
      BY <2>5, <1>2, <1>3
    <2> QED BY <2>2, <2>4, <2>6 DEF n
  <1> HIDE DEF K, g, t
  <1>6. PICK nth : InOrderOf(HandlerRecords, s, K, nth)
    <2> HIDE DEF s
    <2> QED BY <1>2, <1>5, KeptInOrder
  <1>7. /\ nth \in [1..c -> K] /\ c \in Nat /\ t \in Seq(HandlerRecords) /\ Len(t) = c
        /\ \A m \in 1..c : t[m] = s[nth[m]]
        /\ \A m, k \in 1..c : m < k => nth[m] < nth[k]
        /\ \A m \in 1..c : nth[m] <= dc <=> m <= a
    BY <1>2, <1>6 DEF InOrderOf, t
  <1>8. a \in Nat /\ dc - Cardinality(g) = a /\ a <= c
    <2>1. a \in Nat /\ Cardinality(g) \in Nat /\ a + Cardinality(g) = dc
      BY <1>2, <1>5, GoneAndKept
    <2>2. a \in 0..c
      BY <1>2, <1>5, UpToFinite
    <2> HIDE DEF a, c, dc
    <2> QED BY <2>1, <2>2, <1>2, <1>7
  <1>9. \A m \in 1..c : nth[m] \in K /\ nth[m] \in 1..n /\ nth[m] \notin gone
    BY <1>5, <1>7 DEF K
  <1> HIDE DEF a, c, s, n, dc
  <1>10. /\ handlers' \in [Elements -> Seq(HandlerRecords)]
         /\ delegateCount' \in [Elements -> Nat] /\ listening' \in [Elements -> BOOLEAN]
         /\ handlers'[x] = t /\ delegateCount'[x] = a
         /\ listening'[x] = (listening[x] /\ t # << >>)
         /\ \A y \in Elements \ {x} : /\ handlers'[y] = handlers[y]
                                      /\ delegateCount'[y] = delegateCount[y]
                                      /\ listening'[y] = listening[y]
    <2>1. handlers' \in [Elements -> Seq(HandlerRecords)] /\ handlers'[x] = t
      BY <1>1, <1>4, <1>7
    <2>2. delegateCount' \in [Elements -> Nat] /\ delegateCount'[x] = a
      BY <1>1, <1>4, <1>8
    <2>3. listening' \in [Elements -> BOOLEAN] /\ listening'[x] = (listening[x] /\ t # << >>)
      BY <1>1, <1>4
    <2> QED BY <2>1, <2>2, <2>3, <1>1, <1>4
  <1>11. /\ \A m \in 1..Len(t) : t[m].delegate <=> m <= a
         /\ a <= Len(t)
         /\ \A m, k \in 1..Len(t) : t[m].id = t[k].id => m = k
    <2>1. \A m \in 1..c : t[m].delegate <=> m <= a
      BY <1>3, <1>7, <1>9
    <2>2. \A m, k \in 1..c : t[m].id = t[k].id => m = k
      <3> TAKE m, k \in 1..c
      <3> HAVE t[m].id = t[k].id
      <3>1. nth[m] = nth[k]
        BY <1>3, <1>7, <1>9
      <3>2. ~ (m < k) /\ ~ (k < m)
        BY <3>1, <1>2, <1>7, <1>9
      <3> QED BY <3>2, <1>7
    <2> QED BY <2>1, <2>2, <1>7, <1>8
  <1>12. listening[x] /\ t # << >> <=> t # << >>
    <2>1. t # << >> => s # << >>
      <3> HAVE t # << >>
      <3>1. 1 \in 1..c
        BY <1>7
      <3>2. nth[1] \in 1..n
        BY <3>1, <1>9
      <3> QED BY <3>2 DEF n
    <2> QED BY <2>1, <1>3
  <1>13. HandlersFit'
    <2>1. ASSUME NEW y \in Elements
          PROVE  /\ \A i \in 1..Len(handlers'[y]) : handlers'[y][i].delegate <=> i <= delegateCount'[y]
                 /\ delegateCount'[y] <= Len(handlers'[y])
                 /\ listening'[y] <=> handlers'[y] # << >>
                 /\ \A i, j \in 1..Len(handlers'[y]) : handlers'[y][i].id = handlers'[y][j].id => i = j
      <3>1. CASE y = x
        BY <3>1, <1>10, <1>11, <1>12
      <3>2. CASE y # x
        <4>1. /\ handlers'[y] = handlers[y] /\ delegateCount'[y] = delegateCount[y]
              /\ listening'[y] = listening[y]
          BY <3>2, <1>10
        <4>2. /\ \A i \in 1..Len(handlers[y]) : handlers[y][i].delegate <=> i <= delegateCount[y]
              /\ delegateCount[y] <= Len(handlers[y])
              /\ listening[y] <=> handlers[y] # << >>
              /\ \A i, j \in 1..Len(handlers[y]) : handlers[y][i].id = handlers[y][j].id => i = j
          BY DEF HandlersFit
        <4> QED BY <4>1, <4>2
      <3> QED BY <3>1, <3>2
    <2> QED BY <2>1 DEF HandlersFit
  <1>14. ASSUME NEW y \in Elements, NEW i \in 1..Len(handlers'[y])
         PROVE  \E j \in 1..Len(handlers[y]) :
                  handlers'[y][i] = handlers[y][j] /\ (y = x => j \notin gone)
    <2>1. CASE y = x
      <3>1. t[i] = s[nth[i]] /\ nth[i] \in 1..n /\ nth[i] \notin gone
        BY <2>1, <1>7, <1>9, <1>10
      <3> QED BY <2>1, <3>1, <1>10 DEF s, n
    <2>2. CASE y # x
      BY <2>2, <1>10
    <2> QED BY <2>1, <2>2
  <1> QED BY <1>10, <1>13, <1>14

\* The entries of s with h behind the first d.
InsertedAt(T, s, h, d, t) ==
  /\ t \in Seq(T) /\ Len(t) = Len(s) + 1 /\ t[d + 1] = h
  /\ \A i \in 1..d : t[i] = s[i]
  /\ \A i \in (d + 1)..Len(s) : t[i + 1] = s[i]

\* Where the entries go when one is inserted behind the first d.
LEMMA Inserts ==
  ASSUME NEW T, NEW s \in Seq(T), NEW h \in T, NEW d \in Nat, d <= Len(s)
  PROVE  InsertedAt(T, s, h, d, Seqs!InsertAt(s, d + 1, h))
  <1> DEFINE n == Len(s)
             u == SubSeq(s, 1, d)
             v == SubSeq(s, d + 1, n)
             w == u \o <<h>>
             t == Seqs!InsertAt(s, d + 1, h)
  <1>1. t = SubSeq(s, 1, (d + 1) - 1) \o <<h>> \o SubSeq(s, d + 1, Len(s)) /\ (d + 1) - 1 = d
    BY DEF Seqs!InsertAt
  <1>2. t = w \o v
    BY <1>1
  <1>3. u \in Seq(T) /\ Len(u) = d
    OBVIOUS
  <1>4. \A i \in 1..d : u[i] = s[i]
    OBVIOUS
  <1>5. v \in Seq(T) /\ Len(v) = n - d
    OBVIOUS
  <1>6. \A i \in 1..(n - d) : v[i] = s[d + i]
    OBVIOUS
  <1>7. n \in Nat /\ d <= n
    OBVIOUS
  <1> HIDE DEF u, v, n, t
  <1>8. /\ w \in Seq(T) /\ Len(w) = d + 1 /\ w[d + 1] = h
        /\ \A i \in 1..d : w[i] = s[i]
    BY <1>3, <1>4
  <1> HIDE DEF w
  <1>9. t \in Seq(T) /\ Len(t) = n + 1
    <2>1. t \in Seq(T)
      BY <1>2, <1>5, <1>8
    <2>2. Len(t) = Len(w) + Len(v)
      <3>1. Len(w \o v) = Len(w) + Len(v)
        BY <1>5, <1>8
      <3> QED BY <3>1, <1>2
    <2>3. Len(w) + Len(v) = (d + 1) + (n - d)
      BY <1>5, <1>8
    <2> QED BY <2>1, <2>2, <2>3, <1>7
  <1>10. /\ \A i \in 1..(d + 1) : t[i] = w[i]
         /\ \A i \in 1..(n - d) : t[d + 1 + i] = v[i]
    BY <1>2, <1>5, <1>7, <1>8
  <1>11. ASSUME NEW i \in (d + 1)..n PROVE t[i + 1] = s[i]
    <2>1. i - d \in 1..(n - d) /\ d + 1 + (i - d) = i + 1 /\ d + (i - d) = i
      BY <1>7
    <2>2. t[d + 1 + (i - d)] = v[i - d] /\ v[i - d] = s[d + (i - d)]
      BY <2>1, <1>6, <1>10
    <2> QED BY <2>1, <2>2
  <1>12. d + 1 \in 1..(d + 1) /\ \A i \in 1..d : i \in 1..(d + 1)
    OBVIOUS
  <1>13. /\ t \in Seq(T) /\ Len(t) = n + 1 /\ t[d + 1] = h
         /\ \A i \in 1..d : t[i] = s[i]
         /\ \A i \in (d + 1)..n : t[i + 1] = s[i]
    BY <1>8, <1>9, <1>10, <1>11, <1>12
  <1> QED BY <1>13 DEF n, t, InsertedAt

\* What On does to the handlers of x.
AddsHandler(x, h) ==
  /\ handlers' = [handlers EXCEPT ![x] = Inserted(x, h)]
  /\ delegateCount' = [delegateCount EXCEPT ![x] = IF h.delegate THEN @ + 1 ELSE @]
  /\ listening' = [listening EXCEPT ![x] = TRUE]

\* A bound handler goes behind the delegates or to the end.
LEMMA HandlersGrow ==
  ASSUME EventTypes, HandlersFit, Numbered, NEW x \in Elements, NEW h \in HandlerRecords,
         h.id = uses + 1, AddsHandler(x, h)
  PROVE  /\ handlers' \in [Elements -> Seq(HandlerRecords)]
         /\ delegateCount' \in [Elements -> Nat] /\ listening' \in [Elements -> BOOLEAN]
         /\ HandlersFit'
         /\ \A y \in Elements : \A i \in 1..Len(handlers'[y]) :
              \/ \E j \in 1..Len(handlers[y]) : handlers'[y][i] = handlers[y][j]
              \/ y = x /\ handlers'[y][i] = h
  <1> DEFINE s == handlers[x]
             n == Len(s)
             dc == delegateCount[x]
             t == Inserted(x, h)
             p == IF h.delegate THEN dc + 1 ELSE n + 1
             c == IF h.delegate THEN dc + 1 ELSE dc
  <1> USE DEF AddsHandler
  <1>1. /\ handlers \in [Elements -> Seq(HandlerRecords)] /\ delegateCount \in [Elements -> Nat]
        /\ listening \in [Elements -> BOOLEAN]
    BY DEF EventTypes
  <1>2. /\ s \in Seq(HandlerRecords) /\ n \in Nat /\ DOMAIN s = 1..n /\ dc \in Nat /\ uses \in Nat
        /\ \A i \in 1..n : s[i].delegate \in BOOLEAN /\ s[i].id \in Nat /\ s[i] \in HandlerRecords
        /\ h.delegate \in BOOLEAN
    BY EventFacts DEF HandlerRecords
  <1>3. /\ \A i \in 1..n : s[i].delegate <=> i <= dc
        /\ dc <= n
        /\ \A i, j \in 1..n : s[i].id = s[j].id => i = j
    BY DEF HandlersFit
  <1>4. \A i \in 1..n : s[i].id # h.id
    <2> TAKE i \in 1..n
    <2>1. KnownAt(x, s[i])
      BY DEF KnownAt
    <2>2. s[i].id <= uses
      BY <2>1, <1>2 DEF Numbered
    <2> QED BY <2>2, <1>2
  <1>5. p \in 1..(n + 1) /\ c \in Nat /\ c <= n + 1 /\ (h.delegate <=> p <= c)
        /\ (p <= c => c = dc + 1 /\ p = c) /\ (~ (p <= c) => c = dc /\ p = n + 1)
    BY <1>2, <1>3
  <1>6. /\ t \in Seq(HandlerRecords) /\ Len(t) = n + 1 /\ t[p] = h
        /\ \A i \in 1..(n + 1) : i < p => i \in 1..n /\ t[i] = s[i]
        /\ \A i \in 1..(n + 1) : i > p => i - 1 \in 1..n /\ t[i] = s[i - 1]
    <2> HIDE DEF s, n, dc
    <2>1. CASE h.delegate
      <3>1. t = Seqs!InsertAt(s, dc + 1, h) /\ p = dc + 1
        BY <2>1 DEF Inserted, s, dc
      <3>2. /\ t \in Seq(HandlerRecords) /\ Len(t) = n + 1 /\ t[dc + 1] = h
            /\ \A i \in 1..dc : t[i] = s[i]
            /\ \A i \in (dc + 1)..n : t[i + 1] = s[i]
        <4>1. s \in Seq(HandlerRecords) /\ dc \in Nat /\ dc <= Len(s)
          BY <1>2, <1>3 DEF n
        <4> HIDE DEF t
        <4>2. InsertedAt(HandlerRecords, s, h, dc, Seqs!InsertAt(s, dc + 1, h))
          BY <4>1, Inserts
        <4>3. InsertedAt(HandlerRecords, s, h, dc, t)
          BY <4>2, <3>1
        <4> QED BY <4>3 DEF n, InsertedAt
      <3> HIDE DEF p, t
      <3>3. ASSUME NEW i \in 1..(n + 1), i > p PROVE i - 1 \in 1..n /\ t[i] = s[i - 1]
        <4>1. i - 1 \in (dc + 1)..n /\ i - 1 \in 1..n /\ (i - 1) + 1 = i
          BY <3>1, <3>3, <1>2, <1>3
        <4> QED BY <4>1, <3>2
      <3>4. ASSUME NEW i \in 1..(n + 1), i < p PROVE i \in 1..n /\ t[i] = s[i]
        <4>1. i \in 1..dc /\ i \in 1..n
          BY <3>1, <3>4, <1>2, <1>3
        <4> QED BY <4>1, <3>2
      <3> QED BY <3>1, <3>2, <3>3, <3>4
    <2>2. CASE ~ h.delegate
      <3>1. t = Append(s, h) /\ p = n + 1
        BY <2>2 DEF Inserted, s
      <3> HIDE DEF t, p
      <3> QED BY <3>1, <1>2 DEF n
    <2> QED BY <2>1, <2>2
  <1>7. handlers' = [handlers EXCEPT ![x] = t] /\ delegateCount' = [delegateCount EXCEPT ![x] = c]
    BY <1>1
  <1> HIDE DEF s, n, dc, t, p, c
  <1>8. /\ handlers' \in [Elements -> Seq(HandlerRecords)]
        /\ delegateCount' \in [Elements -> Nat] /\ listening' \in [Elements -> BOOLEAN]
        /\ handlers'[x] = t /\ delegateCount'[x] = c /\ listening'[x] = TRUE
        /\ \A y \in Elements \ {x} : /\ handlers'[y] = handlers[y]
                                     /\ delegateCount'[y] = delegateCount[y]
                                     /\ listening'[y] = listening[y]
    BY <1>1, <1>5, <1>6, <1>7
  <1>9. \A i \in 1..(n + 1) : i < p \/ i = p \/ i > p
    BY <1>2, <1>5
  <1>10. \A i \in 1..Len(t) : t[i].delegate <=> i <= c
    <2> TAKE i \in 1..Len(t)
    <2>1. CASE i < p
      <3>1. (s[i].delegate <=> i <= dc) /\ t[i] = s[i]
        BY <2>1, <1>3, <1>6
      <3>2. i <= c <=> i <= dc
        BY <2>1, <1>2, <1>5, <1>6
      <3> QED BY <3>1, <3>2
    <2>2. CASE i = p
      BY <2>2, <1>5, <1>6
    <2>3. CASE i > p
      <3>1. (s[i - 1].delegate <=> i - 1 <= dc) /\ t[i] = s[i - 1]
        BY <2>3, <1>3, <1>6
      <3>2. i <= c <=> i - 1 <= dc
        BY <2>3, <1>2, <1>5, <1>6
      <3> QED BY <3>1, <3>2
    <2> QED BY <2>1, <2>2, <2>3, <1>6, <1>9
  <1>11. \A i, j \in 1..Len(t) : t[i].id = t[j].id => i = j
    <2> TAKE i, j \in 1..Len(t)
    <2> HAVE t[i].id = t[j].id
    <2>1. i \in Int /\ j \in Int /\ p \in Int
      BY <1>5
    <2>2. CASE i = p \/ j = p
      BY <2>2, <1>4, <1>6, <1>9
    <2>3. CASE i < p /\ j < p
      BY <2>3, <1>3, <1>6
    <2>4. CASE i > p /\ j > p
      <3>1. i - 1 = j - 1
        BY <2>4, <1>3, <1>6
      <3> QED BY <3>1, <2>1
    <2>5. CASE i < p /\ j > p
      <3>1. i = j - 1
        BY <2>5, <1>3, <1>6
      <3> QED BY <3>1, <2>1, <2>5
    <2>6. CASE i > p /\ j < p
      <3>1. i - 1 = j
        BY <2>6, <1>3, <1>6
      <3> QED BY <3>1, <2>1, <2>6
    <2> QED BY <2>2, <2>3, <2>4, <2>5, <2>6, <1>6, <1>9
  <1>12. HandlersFit'
    <2>1. ASSUME NEW y \in Elements
          PROVE  /\ \A i \in 1..Len(handlers'[y]) : handlers'[y][i].delegate <=> i <= delegateCount'[y]
                 /\ delegateCount'[y] <= Len(handlers'[y])
                 /\ listening'[y] <=> handlers'[y] # << >>
                 /\ \A i, j \in 1..Len(handlers'[y]) : handlers'[y][i].id = handlers'[y][j].id => i = j
      <3>1. CASE y = x
        <4>1. t # << >>
          BY <1>2, <1>6
        <4> QED BY <3>1, <4>1, <1>5, <1>6, <1>8, <1>10, <1>11
      <3>2. CASE y # x
        BY <3>2, <1>8 DEF HandlersFit
      <3> QED BY <3>1, <3>2
    <2> QED BY <2>1 DEF HandlersFit
  <1>13. ASSUME NEW y \in Elements, NEW i \in 1..Len(handlers'[y])
         PROVE  \/ \E j \in 1..Len(handlers[y]) : handlers'[y][i] = handlers[y][j]
                \/ y = x /\ handlers'[y][i] = h
    <2>1. CASE y = x
      <3>1. i < p \/ i = p \/ i > p
        BY <2>1, <1>6, <1>8, <1>9
      <3>2. t[i] = h \/ \E j \in 1..n : t[i] = s[j]
        BY <3>1, <2>1, <1>6, <1>8
      <3> QED BY <2>1, <3>2, <1>8 DEF s, n
    <2>2. CASE y # x
      BY <2>2, <1>8
    <2> QED BY <2>1, <2>2
  <1> QED BY <1>8, <1>12, <1>13

\* Of the handlers bound now, only n of z was not bound before.
BoundSince(z, n) ==
  \A x \in Elements : \A i \in 1..Len(handlers'[x]) :
    \/ \E j \in 1..Len(handlers[x]) : handlers'[x][i] = handlers[x][j]
    \/ x = z /\ handlers'[x][i] = n /\ n.id = uses + 1

\* Binding and unbinding disturbs no event under way.
LEMMA HandlersFollow ==
  ASSUME EventsInv, NEW z, NEW n, uses' = uses + 1,
         UNCHANGED <<triggered, event, doing, ran, nested, overlap>>,
         handlers' \in [Elements -> Seq(HandlerRecords)],
         delegateCount' \in [Elements -> Nat], listening' \in [Elements -> BOOLEAN],
         HandlersFit',
         BoundSince(z, n)
  PROVE  EventsInv'
  <1>0. /\ EventTypes /\ HandlersFit /\ Numbered /\ ClimbsOnce
        /\ Suppressed /\ DispatchFits /\ NoneAhead /\ OneIsOver /\ RanOnce
    BY DEF EventsInv
  <1> USE <1>0 DEF BoundSince
  <1>1. EventTypes'
    BY DEF EventTypes
  <1>2. Numbered'
    <2>1. ASSUME NEW x \in Elements, NEW h \in HandlerRecords, KnownAt(x, h)'
          PROVE  \/ KnownAt(x, h)
                 \/ x = z /\ h = n /\ n.id = uses + 1 /\ uses' = uses + 1
      <3>1. CASE \E i \in 1..Len(handlers'[x]) : handlers'[x][i] = h
        BY <3>1 DEF KnownAt
      <3>2. CASE \E k \in 1..Len(doing) : /\ Dispatching(doing[k]) /\ doing[k].x = x
                                          /\ \E j \in 1..Len(doing[k].queue) : doing[k].queue[j] = h
        BY <3>2 DEF KnownAt
      <3> QED BY <2>1, <3>1, <3>2 DEF KnownAt
    <2>2. uses' \in Nat /\ uses <= uses' /\ ran' = ran
      BY EventFacts
    <2>3. \A x \in Elements, h \in HandlerRecords :
            KnownAt(x, h)' => KnownAt(x, h) \/ NewAt(x, h, z, n)
      BY <2>1 DEF NewAt
    <2> QED BY <2>2, <2>3, NumberedKept
  <1>3. ClimbsOnce'
    BY DEF ClimbsOnce, Dispatching, Climbs, Repeats
  <1>4. Suppressed'
    BY DEF Suppressed, Repeats
  <1>5. DispatchFits'
    BY DEF DispatchFits, Dispatching, Climbs, Repeats, Ahead
  <1>6. NoneAhead'
    BY DEF NoneAhead, Climbs, Repeats, Ahead
  <1>7. OneIsOver'
    <2> SUFFICES ASSUME ~ overlap PROVE OneIsOver'
      BY DEF OneIsOver
    <2>1. ASSUME NEW i \in 1..Len(ran), ran[i][4], NEW x \in Elements,
                 NEW j \in 1..Len(handlers'[x])
          PROVE  handlers'[x][j].id # ran[i][3]
      <3>1. \A m \in 1..Len(handlers[x]) : handlers[x][m].id # ran[i][3]
        BY <2>1 DEF OneIsOver
      <3>2. ran[i][3] <= uses /\ ran[i][3] \in Nat /\ uses \in Nat
        BY EventFacts DEF Numbered
      <3>3. uses + 1 # ran[i][3]
        BY <3>2
      <3> QED BY <3>1, <3>3
    <2>2. /\ \A k, l \in 1..Len(doing) :
               Dispatching(doing[k]) /\ Dispatching(doing[l]) /\ doing[k].x = doing[l].x => k = l
          /\ \A i \in 1..Len(ran) : ran[i][4] =>
               \A k \in 1..Len(doing) : Dispatching(doing[k]) =>
                 \A j \in 1..Len(doing[k].queue) :
                   j > doing[k].last => doing[k].queue[j].id # ran[i][3]
      BY DEF OneIsOver
    <2> QED BY <2>1, <2>2 DEF OneIsOver, Dispatching
  <1>8. RanOnce'
    BY DEF RanOnce
  <1> QED BY <1>1, <1>2, <1>3, <1>4, <1>5, <1>6, <1>7, <1>8 DEF EventsInv

\* A frame of the stack goes on: the same event on the same element, its path
\* not longer, its dispatch no further.
Like(f, g) ==
  /\ g.what = f.what /\ g.of = f.of /\ g.x = f.x
  /\ Repeats(g) <=> Repeats(f)
  /\ Dispatching(f) => g.queue = f.queue /\ g.last = f.last
  /\ Climbs(f) => \A x \in Elements : Ahead(g.path, x) => Ahead(f.path, x)

\* A frame put on the stack is of a new event, or the second time of one, or
\* the dispatch of the event below it.
Fresh(k) ==
  /\ doing'[k].of <= Len(event')
  /\ Climbs(doing'[k]) /\ ~ Repeats(doing'[k]) => doing'[k].of = Len(event) + 1
  /\ Dispatching(doing'[k]) =>
       /\ doing'[k].last = 0
       /\ \A i, j \in 1..Len(doing'[k].queue) :
            doing'[k].queue[i].id = doing'[k].queue[j].id => i = j
       /\ \A j \in 1..Len(doing'[k].queue) : \E i \in 1..Len(handlers[doing'[k].x]) :
            doing'[k].queue[j] = handlers[doing'[k].x][i]
       /\ ~ overlap' => \A l \in 1..Len(doing) : Dispatching(doing[l]) => doing[l].x # doing'[k].x
       /\ ~ nested' =>
            /\ k > 1 /\ Climbs(doing[k - 1]) /\ ~ Repeats(doing[k - 1])
            /\ doing[k - 1].of = doing'[k].of
            /\ Ahead(doing[k - 1].path, doing'[k].x)
            /\ ~ Ahead(doing'[k - 1].path, doing'[k].x)

\* While no handler is bound, taken off or called, the stack moves as it should.
LEMMA StackFollows ==
  ASSUME EventsInv, UNCHANGED <<handlers, delegateCount, listening, ran>>,
         triggered' \in BOOLEAN, nested' \in BOOLEAN, overlap' \in BOOLEAN,
         nested => nested', overlap => overlap',
         event' \in Seq(EventFlags), Len(event) <= Len(event'),
         uses' \in Nat, uses <= uses', doing' \in Seq(Frames), Suppressed',
         \A k \in 1..Len(doing') : \/ k <= Len(doing) /\ Like(doing[k], doing'[k])
                                   \/ k = Len(doing) + 1 /\ Fresh(k)
  PROVE  EventsInv'
  <1>0. /\ EventTypes /\ HandlersFit /\ Numbered /\ ClimbsOnce
        /\ Suppressed /\ DispatchFits /\ NoneAhead /\ OneIsOver /\ RanOnce
    BY DEF EventsInv
  <1> USE <1>0
  <1> DEFINE n == Len(doing)
  <1>1. EventTypes' /\ HandlersFit'
    BY DEF EventTypes, HandlersFit
  <1>2. /\ n \in Nat /\ Len(doing') \in Nat /\ Len(event) \in Nat /\ Len(event') \in Nat
        /\ \A k \in 1..n : doing[k] \in Frames /\ doing[k].x \in Elements /\ doing[k].of \in Nat
        /\ \A k \in 1..Len(doing') :
             doing'[k] \in Frames /\ doing'[k].x \in Elements /\ doing'[k].of \in Nat
        /\ \A i \in 1..Len(ran) : ran[i][1] \in Nat /\ ran[i][2] \in Elements /\ ran[i][3] \in Nat
        /\ \A k \in 1..Len(doing') : Dispatching(doing'[k]) => doing'[k].queue \in Seq(HandlerRecords)
    <2>1. /\ n \in Nat /\ Len(event) \in Nat
          /\ \A k \in 1..n : doing[k] \in Frames /\ doing[k].x \in Elements /\ doing[k].of \in Nat
          /\ \A i \in 1..Len(ran) : ran[i][1] \in Nat /\ ran[i][2] \in Elements /\ ran[i][3] \in Nat
      BY EventFacts
    <2>2. Len(event') \in Nat /\ Len(doing') \in Nat /\ \A k \in 1..Len(doing') : doing'[k] \in Frames
      OBVIOUS
    <2>3. \A f \in Frames : f.x \in Elements /\ f.of \in Nat
      BY DEF Frames, Natives, Triggers, Dispatches
    <2>4. \A f \in Frames : Dispatching(f) => f.queue \in Seq(HandlerRecords)
      BY DEF Frames, Natives, Triggers, Dispatches, Dispatching
    <2> QED BY <2>1, <2>2, <2>3, <2>4
  <1> HIDE DEF n
  <1>3. /\ \A k \in 1..Len(doing') : k \in Int /\ ((k \in 1..n /\ Like(doing[k], doing'[k]))
                                                   \/ (k = n + 1 /\ Fresh(k)))
        /\ \A k \in 1..Len(doing') : k > 1 => k - 1 \in 1..Len(doing')
        /\ \A k \in 1..n : k # n + 1
    <2>1. \A k \in 1..Len(doing') : k \in Int /\ (k > 1 => k - 1 \in 1..Len(doing'))
      BY <1>2
    <2>2. \A k \in 1..n : k # n + 1
      BY <1>2
    <2>3. \A k \in 1..Len(doing') : k <= n => k \in 1..n
      BY <1>2
    <2>4. \A k \in 1..Len(doing') : (k <= n /\ Like(doing[k], doing'[k])) \/ (k = n + 1 /\ Fresh(k))
      BY DEF n
    <2> QED BY <2>1, <2>2, <2>3, <2>4
  <1>4. \A k \in 1..Len(doing') : k \in 1..n =>
          /\ Like(doing[k], doing'[k])
          /\ doing'[k].of = doing[k].of /\ doing'[k].x = doing[k].x
          /\ Climbs(doing'[k]) <=> Climbs(doing[k])
          /\ Repeats(doing'[k]) <=> Repeats(doing[k])
          /\ Dispatching(doing'[k]) <=> Dispatching(doing[k])
          /\ Dispatching(doing[k]) => doing'[k].queue = doing[k].queue /\ doing'[k].last = doing[k].last
          /\ Climbs(doing[k]) =>
               \A x \in Elements : Ahead(doing'[k].path, x) => Ahead(doing[k].path, x)
    <2>1. \A k \in 1..Len(doing') : k \in 1..n => Like(doing[k], doing'[k])
      BY <1>3
    <2>2. ASSUME NEW f, NEW g, Like(f, g)
          PROVE  /\ g.of = f.of /\ g.x = f.x
                 /\ Climbs(g) <=> Climbs(f)
                 /\ Repeats(g) <=> Repeats(f)
                 /\ Dispatching(g) <=> Dispatching(f)
                 /\ Dispatching(f) => g.queue = f.queue /\ g.last = f.last
                 /\ Climbs(f) => \A x \in Elements : Ahead(g.path, x) => Ahead(f.path, x)
      <3>1. g.what = f.what
        BY <2>2 DEF Like
      <3>2. (Climbs(g) <=> Climbs(f)) /\ (Dispatching(g) <=> Dispatching(f))
        BY <3>1 DEF Climbs, Dispatching
      <3> QED BY <2>2, <3>2 DEF Like
    <2> QED BY <2>1, <2>2
  <1>5. Numbered'
    <2>1. ASSUME NEW x \in Elements, NEW h \in HandlerRecords, KnownAt(x, h)'
          PROVE  KnownAt(x, h)
      <3>1. CASE \E i \in 1..Len(handlers'[x]) : handlers'[x][i] = h
        BY <3>1 DEF KnownAt
      <3>2. CASE \E k \in 1..Len(doing') : /\ Dispatching(doing'[k]) /\ doing'[k].x = x
                                           /\ \E j \in 1..Len(doing'[k].queue) : doing'[k].queue[j] = h
        <4>1. PICK k \in 1..Len(doing') : /\ Dispatching(doing'[k]) /\ doing'[k].x = x
                                          /\ \E j \in 1..Len(doing'[k].queue) : doing'[k].queue[j] = h
          BY <3>2
        <4>2. CASE k \in 1..n
          <5>1. /\ Dispatching(doing[k]) /\ doing[k].x = x
                /\ \E j \in 1..Len(doing[k].queue) : doing[k].queue[j] = h
            BY <4>1, <4>2, <1>4
          <5> QED BY <4>2, <5>1 DEF KnownAt, n
        <4>3. CASE Fresh(k)
          <5>1. PICK j \in 1..Len(doing'[k].queue) : doing'[k].queue[j] = h
            BY <4>1
          <5>2. \E i \in 1..Len(handlers[x]) : doing'[k].queue[j] = handlers[x][i]
            BY <4>1, <4>3 DEF Fresh
          <5> QED BY <5>1, <5>2 DEF KnownAt
        <4> QED BY <4>1, <4>2, <4>3, <1>3
      <3> QED BY <2>1, <3>1, <3>2 DEF KnownAt
    <2>2. \A x \in Elements, h \in HandlerRecords : KnownAt(x, h)' => KnownAt(x, h)
      BY <2>1
    <2> QED BY <2>2, NumberedKept
  <1>6. ClimbsOnce'
    <2>1. ASSUME NEW k \in 1..Len(doing'), NEW l \in 1..Len(doing'),
                 Climbs(doing'[k]), ~ Repeats(doing'[k]), Climbs(doing'[l]), ~ Repeats(doing'[l]),
                 doing'[k].of = doing'[l].of
          PROVE  k = l
      <3>1. CASE k \in 1..n /\ l \in 1..n
        BY <2>1, <3>1, <1>4 DEF ClimbsOnce, n
      <3>2. CASE k = n + 1 /\ l = n + 1
        BY <3>2
      <3>3. ASSUME NEW a \in 1..Len(doing'), NEW b \in 1..Len(doing'), a \in 1..n, b = n + 1, Fresh(b),
                   Climbs(doing'[b]), ~ Repeats(doing'[b]), doing'[a].of = doing'[b].of
            PROVE  FALSE
        <4>1. doing'[a].of = doing[a].of /\ doing[a].of <= Len(event)
          BY <3>3, <1>4 DEF ClimbsOnce, n
        <4>2. doing'[b].of = Len(event) + 1
          BY <3>3 DEF Fresh
        <4>3. Len(event) + 1 <= Len(event)
          BY <3>3, <4>1, <4>2
        <4> QED BY <4>3, <1>2
      <3> QED BY <2>1, <3>1, <3>2, <3>3, <1>3
    <2>2. \A k \in 1..Len(doing') : doing'[k].of <= Len(event')
      <3> TAKE k \in 1..Len(doing')
      <3>1. CASE k \in 1..n
        <4>1. doing'[k].of = doing[k].of /\ doing[k].of <= Len(event)
          BY <3>1, <1>4 DEF ClimbsOnce, n
        <4> QED BY <4>1, <3>1, <1>2
      <3>2. CASE Fresh(k)
        BY <3>2 DEF Fresh
      <3> QED BY <3>1, <3>2, <1>3
    <2>3. \A i \in 1..Len(ran') : ran'[i][1] <= Len(event')
      <3> TAKE i \in 1..Len(ran')
      <3>1. ran[i][1] <= Len(event) /\ ran[i][1] \in Nat
        BY <1>2 DEF ClimbsOnce
      <3> QED BY <3>1, <1>2
    <2>4. \A k \in 1..Len(doing') : Dispatching(doing'[k]) =>
            \A i, j \in 1..Len(doing'[k].queue) : doing'[k].queue[i].id = doing'[k].queue[j].id => i = j
      <3> TAKE k \in 1..Len(doing')
      <3> HAVE Dispatching(doing'[k])
      <3>1. CASE k \in 1..n
        <4>1. Dispatching(doing[k]) /\ doing'[k].queue = doing[k].queue
          BY <3>1, <1>4
        <4>2. \A i, j \in 1..Len(doing[k].queue) : doing[k].queue[i].id = doing[k].queue[j].id => i = j
          BY <3>1, <4>1 DEF ClimbsOnce, n
        <4> QED BY <4>1, <4>2
      <3>2. CASE Fresh(k)
        BY <3>2 DEF Fresh
      <3> QED BY <3>1, <3>2, <1>3
    <2> QED BY <2>1, <2>2, <2>3, <2>4 DEF ClimbsOnce, Climbs, Repeats, Dispatching
  <1>7. DispatchFits'
    <2> SUFFICES ASSUME ~ nested' PROVE DispatchFits'
      BY DEF DispatchFits
    <2>1. ASSUME NEW k \in 1..Len(doing'), Dispatching(doing'[k])
          PROVE  /\ k > 1 /\ Climbs(doing'[k - 1]) /\ ~ Repeats(doing'[k - 1])
                 /\ doing'[k - 1].of = doing'[k].of
                 /\ ~ Ahead(doing'[k - 1].path, doing'[k].x)
                 /\ \A i \in 1..Len(ran) : ran[i][1] = doing'[k].of /\ ran[i][2] = doing'[k].x =>
                      \E j \in 1..Len(doing'[k].queue) :
                        j <= doing'[k].last /\ ran[i][3] = doing'[k].queue[j].id
      <3>1. CASE k \in 1..n
        <4>1. /\ Dispatching(doing[k]) /\ doing'[k].of = doing[k].of /\ doing'[k].x = doing[k].x
              /\ doing'[k].queue = doing[k].queue /\ doing'[k].last = doing[k].last
          BY <2>1, <3>1, <1>4
        <4>2. /\ k > 1 /\ Climbs(doing[k - 1]) /\ ~ Repeats(doing[k - 1]) /\ doing[k - 1].of = doing[k].of
              /\ ~ Ahead(doing[k - 1].path, doing[k].x)
              /\ \A i \in 1..Len(ran) : ran[i][1] = doing[k].of /\ ran[i][2] = doing[k].x =>
                   \E j \in 1..Len(doing[k].queue) : j <= doing[k].last /\ ran[i][3] = doing[k].queue[j].id
          BY <3>1, <4>1 DEF DispatchFits, n
        <4>3. k - 1 \in 1..n /\ k - 1 \in 1..Len(doing')
          BY <3>1, <4>2, <1>2, <1>3
        <4>4. /\ Climbs(doing'[k - 1]) /\ ~ Repeats(doing'[k - 1]) /\ doing'[k - 1].of = doing[k - 1].of
              /\ ~ Ahead(doing'[k - 1].path, doing[k].x)
          BY <4>2, <4>3, <3>1, <1>2, <1>4
        <4> QED BY <4>1, <4>2, <4>4
      <3>2. CASE k = n + 1 /\ Fresh(k)
        <4>1. /\ k > 1 /\ Climbs(doing[k - 1]) /\ ~ Repeats(doing[k - 1])
              /\ doing[k - 1].of = doing'[k].of
              /\ Ahead(doing[k - 1].path, doing'[k].x)
              /\ ~ Ahead(doing'[k - 1].path, doing'[k].x)
          BY <2>1, <3>2 DEF Fresh
        <4>2. k - 1 \in 1..n /\ k - 1 \in 1..Len(doing')
          BY <3>2, <4>1, <1>2, <1>3
        <4>3. Climbs(doing'[k - 1]) /\ ~ Repeats(doing'[k - 1]) /\ doing'[k - 1].of = doing[k - 1].of
          BY <4>1, <4>2, <1>4
        <4>4. \A i \in 1..Len(ran) : ran[i][1] = doing'[k].of => ran[i][2] # doing'[k].x
          <5> TAKE i \in 1..Len(ran)
          <5> HAVE ran[i][1] = doing'[k].of
          <5>1. ~ Ahead(doing[k - 1].path, ran[i][2])
            BY <4>1, <4>2 DEF NoneAhead, n
          <5> QED BY <4>1, <5>1
        <4> QED BY <4>1, <4>3, <4>4
      <3> QED BY <3>1, <3>2, <1>3
    <2> QED BY <2>1 DEF DispatchFits, Dispatching, Climbs, Repeats, Ahead
  <1>8. NoneAhead'
    <2> SUFFICES ASSUME ~ nested' PROVE NoneAhead'
      BY DEF NoneAhead
    <2>1. ASSUME NEW k \in 1..Len(doing'), Climbs(doing'[k]), ~ Repeats(doing'[k]),
                 NEW i \in 1..Len(ran), ran[i][1] = doing'[k].of
          PROVE  ~ Ahead(doing'[k].path, ran[i][2])
      <3>1. CASE k \in 1..n
        <4>1. Climbs(doing[k]) /\ ~ Repeats(doing[k]) /\ ran[i][1] = doing[k].of /\ ran[i][2] \in Elements
          BY <2>1, <3>1, <1>2, <1>4
        <4>2. ~ Ahead(doing[k].path, ran[i][2])
          BY <3>1, <4>1 DEF NoneAhead, n
        <4> QED BY <3>1, <4>1, <4>2, <1>4
      <3>2. CASE Fresh(k)
        <4>1. doing'[k].of = Len(event) + 1 /\ ran[i][1] <= Len(event)
          BY <2>1, <3>2 DEF Fresh, ClimbsOnce
        <4> QED BY <2>1, <4>1, <1>2
      <3> QED BY <3>1, <3>2, <1>3
    <2> QED BY <2>1 DEF NoneAhead, Climbs, Repeats, Ahead
  <1>9. OneIsOver'
    <2> SUFFICES ASSUME ~ overlap' PROVE OneIsOver'
      BY DEF OneIsOver
    <2>0. /\ \A k, l \in 1..n :
               Dispatching(doing[k]) /\ Dispatching(doing[l]) /\ doing[k].x = doing[l].x => k = l
          /\ \A i \in 1..Len(ran) : ran[i][4] =>
               /\ \A x \in Elements : \A j \in 1..Len(handlers[x]) : handlers[x][j].id # ran[i][3]
               /\ \A k \in 1..n : Dispatching(doing[k]) =>
                    \A j \in 1..Len(doing[k].queue) :
                      j > doing[k].last => doing[k].queue[j].id # ran[i][3]
      BY DEF OneIsOver, n
    <2>1. ASSUME NEW k \in 1..Len(doing'), NEW l \in 1..Len(doing'),
                 Dispatching(doing'[k]), Dispatching(doing'[l]), doing'[k].x = doing'[l].x
          PROVE  k = l
      <3>1. CASE k \in 1..n /\ l \in 1..n
        BY <2>0, <2>1, <3>1, <1>4
      <3>2. CASE k = n + 1 /\ l = n + 1
        BY <3>2
      <3>3. ASSUME NEW a \in 1..Len(doing'), NEW b \in 1..Len(doing'), a \in 1..n, Fresh(b),
                   Dispatching(doing'[a]), Dispatching(doing'[b]), doing'[a].x = doing'[b].x
            PROVE  FALSE
        <4>1. Dispatching(doing[a]) /\ doing[a].x = doing'[a].x
          BY <3>3, <1>4
        <4> QED BY <3>3, <4>1 DEF Fresh, n
      <3> QED BY <2>1, <3>1, <3>2, <3>3, <1>3
    <2>2. ASSUME NEW i \in 1..Len(ran), ran[i][4], NEW k \in 1..Len(doing'), Dispatching(doing'[k]),
                 NEW j \in 1..Len(doing'[k].queue), j > doing'[k].last
          PROVE  doing'[k].queue[j].id # ran[i][3]
      <3>1. CASE k \in 1..n
        <4>1. Dispatching(doing[k]) /\ doing'[k].queue = doing[k].queue /\ doing'[k].last = doing[k].last
          BY <2>2, <3>1, <1>4
        <4>2. j \in 1..Len(doing[k].queue) /\ j > doing[k].last
          BY <2>2, <4>1
        <4>3. doing[k].queue[j].id # ran[i][3]
          BY <2>0, <2>2, <3>1, <4>1, <4>2
        <4> QED BY <4>1, <4>3
      <3>2. CASE Fresh(k)
        <4>1. PICK m \in 1..Len(handlers[doing'[k].x]) : doing'[k].queue[j] = handlers[doing'[k].x][m]
          BY <2>2, <3>2 DEF Fresh
        <4> QED BY <2>0, <2>2, <4>1, <1>2
      <3> QED BY <3>1, <3>2, <1>3
    <2> QED BY <2>0, <2>1, <2>2 DEF OneIsOver, Dispatching
  <1>10. RanOnce'
    BY DEF RanOnce
  <1> QED BY <1>1, <1>5, <1>6, <1>7, <1>8, <1>9, <1>10 DEF EventsInv

\* A dispatch copies handlers of its element, each once.
LEMMA QueueFits ==
  ASSUME EventTypes, HandlersFit, NEW x \in Elements, NEW target
  PROVE  /\ HandlerQueue(x, target) \in Seq(HandlerRecords)
         /\ \A i, j \in 1..Len(HandlerQueue(x, target)) :
              HandlerQueue(x, target)[i].id = HandlerQueue(x, target)[j].id => i = j
         /\ \A j \in 1..Len(HandlerQueue(x, target)) : \E i \in 1..Len(handlers[x]) :
              HandlerQueue(x, target)[j] = handlers[x][i]
  <1> DEFINE s == handlers[x]
             K == IF target = x THEN DOMAIN handlers[x] \ Delegates(x) ELSE DOMAIN handlers[x]
             q == HandlerQueue(x, target)
  <1>1. s \in Seq(HandlerRecords) /\ DOMAIN s = 1..Len(s) /\ Len(s) \in Nat
    BY EventFacts
  <1>2. K \in SUBSET (1..Len(s))
    BY <1>1
  <1>3. q = Kept(s, K)
    BY DEF HandlerQueue
  <1>4. \A i, j \in 1..Len(s) : s[i].id = s[j].id => i = j
    BY DEF HandlersFit
  <1> HIDE DEF K, q, s
  <1>5. PICK nth : InOrderOf(HandlerRecords, s, K, nth)
    BY <1>1, <1>2, KeptInOrder
  <1> DEFINE c == Cardinality(K)
  <1>6. /\ nth \in [1..c -> K] /\ c \in Nat /\ q \in Seq(HandlerRecords) /\ Len(q) = c
        /\ \A m \in 1..c : q[m] = s[nth[m]]
        /\ \A m, k \in 1..c : m < k => nth[m] < nth[k]
    BY <1>3, <1>5 DEF InOrderOf
  <1> HIDE DEF c
  <1>7. \A m \in 1..c : nth[m] \in 1..Len(s)
    BY <1>2, <1>6
  <1>8. \A m, k \in 1..c : q[m].id = q[k].id => m = k
    <2> TAKE m, k \in 1..c
    <2> HAVE q[m].id = q[k].id
    <2>1. nth[m] = nth[k]
      BY <1>4, <1>6, <1>7
    <2>2. ~ (m < k) /\ ~ (k < m)
      BY <2>1, <1>1, <1>6, <1>7
    <2> QED BY <2>2, <1>6
  <1>9. \A m \in 1..c : \E i \in 1..Len(s) : q[m] = s[i]
    BY <1>6, <1>7
  <1> QED BY <1>6, <1>8, <1>9 DEF q, s

\* What calling and returning change of a dispatch.
LEMMA DispatchGoesOn ==
  ASSUME NEW f \in Dispatches
  PROVE  /\ LET g == [f EXCEPT !.last = @ + 1, !.calling = TRUE] IN
            /\ g \in Dispatches /\ g.what = "dispatch" /\ g.of = f.of /\ g.x = f.x
            /\ g.queue = f.queue /\ g.last = f.last + 1
         /\ LET g == [f EXCEPT !.calling = FALSE] IN
            /\ g \in Dispatches /\ g.what = "dispatch" /\ g.of = f.of /\ g.x = f.x
            /\ g.queue = f.queue /\ g.last = f.last
  <1>1. f.last + 1 \in Nat
    BY DEF Dispatches
  <1>2. ASSUME NEW l \in Nat, NEW b \in BOOLEAN
        PROVE  LET g == [f EXCEPT !.last = l, !.calling = b] IN
               /\ g \in Dispatches /\ g.what = "dispatch" /\ g.of = f.of /\ g.x = f.x
               /\ g.queue = f.queue /\ g.last = l
    BY DEF Dispatches
  <1>3. ASSUME NEW b \in BOOLEAN
        PROVE  LET g == [f EXCEPT !.calling = b] IN
               /\ g \in Dispatches /\ g.what = "dispatch" /\ g.of = f.of /\ g.x = f.x
               /\ g.queue = f.queue /\ g.last = f.last
    BY DEF Dispatches
  <1>4. TRUE \in BOOLEAN /\ FALSE \in BOOLEAN
    OBVIOUS
  <1> QED BY <1>1, <1>2, <1>3, <1>4

\* A handler is called: it is the next of its dispatch, and no other handler of
\* its number is left if it is a one() handler.
LEMMA CallKeeps == ASSUME EventsInv, CallHandler PROVE EventsInv'
  <1>0. /\ EventTypes /\ HandlersFit /\ Numbered /\ ClimbsOnce
        /\ Suppressed /\ DispatchFits /\ NoneAhead /\ OneIsOver /\ RanOnce
    BY DEF EventsInv
  <1> USE <1>0
  <1> DEFINE n == Len(doing)
             d == doing[n]
             m == d.last + 1
             h == d.queue[m]
  <1>1. /\ n \in Nat /\ Len(event) \in Nat /\ uses \in Nat /\ Len(ran) \in Nat
        /\ \A k \in 1..n : doing[k] \in Frames /\ doing[k].x \in Elements /\ doing[k].of \in Nat
        /\ \A i \in 1..Len(ran) : ran[i][1] \in Nat /\ ran[i][2] \in Elements /\ ran[i][3] \in Nat
                                  /\ ran[i][4] \in BOOLEAN
    BY EventFacts
  <1>2. /\ n \in 1..n /\ Dispatching(d) /\ d \in Dispatches /\ d.x \in Elements /\ d.of \in Nat
        /\ d.queue \in Seq(HandlerRecords) /\ d.last \in Nat
        /\ m \in 1..Len(d.queue) /\ h \in HandlerRecords /\ h.id \in Nat
    <2>1. n \in 1..n /\ Dispatching(d) /\ d.last < Len(d.queue)
      BY <1>1 DEF CallHandler, Doing, Depth, Callable, Dispatching, EventTypes
    <2>2. /\ d \in Dispatches /\ d.queue \in Seq(HandlerRecords) /\ d.last \in Nat
          /\ Len(d.queue) \in Nat /\ d.x \in Elements /\ d.of \in Nat
          /\ \A j \in 1..Len(d.queue) : d.queue[j] \in HandlerRecords /\ d.queue[j].id \in Nat
      BY <2>1, EventFacts
    <2>3. m \in 1..Len(d.queue)
      <3> HIDE DEF d, n
      <3> QED BY <2>1, <2>2
    <2> QED BY <2>1, <2>2, <2>3
  <1>3. KnownAt(d.x, h)
    BY <1>2 DEF KnownAt
  <1>4. /\ doing' = [doing EXCEPT ![n].last = @ + 1, ![n].calling = TRUE]
        /\ ran' = Append(ran, <<d.of, d.x, h.id, h.one>>)
        /\ UNCHANGED <<triggered, event, uses, nested, overlap>>
    BY DEF CallHandler, Depth, NextHandler
  <1>5. /\ handlers' \in [Elements -> Seq(HandlerRecords)]
        /\ delegateCount' \in [Elements -> Nat] /\ listening' \in [Elements -> BOOLEAN]
        /\ HandlersFit'
        /\ \A y \in Elements : \A i \in 1..Len(handlers'[y]) : \E j \in 1..Len(handlers[y]) :
             handlers'[y][i] = handlers[y][j] /\ (h.one => handlers[y][j].id # h.id)
    <2>1. CASE h.one
      <3> DEFINE gone == IF h.delegate THEN OfFn(d.x, h.fn) \cap Delegates(d.x) ELSE OfFn(d.x, h.fn)
      <3>1. RemoveHandlers(d.x, gone)
        BY <2>1 DEF CallHandler, Depth, NextHandler
      <3>2. gone \in SUBSET (DOMAIN handlers[d.x])
        BY DEF OfFn, Delegates
      <3>3. \A j \in DOMAIN handlers[d.x] : handlers[d.x][j] = h => j \in gone
        BY DEF OfFn, Delegates
      <3> HIDE DEF gone, h, m, d, n
      <3>4. /\ handlers' \in [Elements -> Seq(HandlerRecords)]
            /\ delegateCount' \in [Elements -> Nat] /\ listening' \in [Elements -> BOOLEAN]
            /\ HandlersFit'
            /\ \A y \in Elements : \A i \in 1..Len(handlers'[y]) : \E j \in 1..Len(handlers[y]) :
                 handlers'[y][i] = handlers[y][j] /\ (y = d.x => j \notin gone)
        BY <3>1, <3>2, <1>2, HandlersShrink
      <3>5. ASSUME NEW y \in Elements, NEW j \in 1..Len(handlers[y]), y = d.x => j \notin gone
            PROVE  handlers[y][j].id # h.id
        <4>1. /\ handlers[y][j] \in HandlerRecords /\ KnownAt(y, handlers[y][j])
              /\ DOMAIN handlers[y] = 1..Len(handlers[y])
          BY EventFacts DEF KnownAt
        <4>2. handlers[y][j].id = h.id => y = d.x /\ handlers[y][j] = h
          BY <4>1, <1>2, <1>3 DEF Numbered
        <4> QED BY <4>1, <4>2, <3>3, <3>5
      <3>6. ASSUME NEW y \in Elements, NEW i \in 1..Len(handlers'[y])
            PROVE  \E j \in 1..Len(handlers[y]) :
                     handlers'[y][i] = handlers[y][j] /\ handlers[y][j].id # h.id
        <4>1. PICK j \in 1..Len(handlers[y]) :
                handlers'[y][i] = handlers[y][j] /\ (y = d.x => j \notin gone)
          BY <3>4
        <4> QED BY <4>1, <3>5
      <3>7. \A y \in Elements : \A i \in 1..Len(handlers'[y]) : \E j \in 1..Len(handlers[y]) :
              handlers'[y][i] = handlers[y][j] /\ (h.one => handlers[y][j].id # h.id)
        BY <3>6
      <3> QED BY <3>4, <3>7
    <2>2. CASE ~ h.one
      <3>1. UNCHANGED <<handlers, delegateCount, listening>>
        BY <2>2 DEF CallHandler, Depth, NextHandler
      <3> HIDE DEF h
      <3> QED BY <2>2, <3>1 DEF HandlersFit, EventTypes
    <2> QED BY <2>1, <2>2
  <1> DEFINE d2 == [d EXCEPT !.last = @ + 1, !.calling = TRUE]
  <1>6. /\ d2 \in Dispatches /\ d2 \in Frames /\ d2.what = "dispatch" /\ d2.of = d.of /\ d2.x = d.x
        /\ d2.queue = d.queue /\ d2.last = m
    <2>1. d \in Dispatches
      BY <1>2
    <2> HIDE DEF d
    <2> QED BY <2>1, DispatchGoesOn DEF Frames
  <1>7. /\ doing' \in Seq(Frames) /\ Len(doing') = n /\ doing'[n] = d2
        /\ \A k \in 1..n : k # n => doing'[k] = doing[k]
    <2>1. doing \in Seq(Frames) /\ doing' = [doing EXCEPT ![n] = d2]
      BY <1>4 DEF EventTypes
    <2> HIDE DEF d2
    <2> QED BY <2>1, <1>2, <1>6
  <1> HIDE DEF d2
  <1>8. \A k \in 1..n : /\ doing'[k].what = doing[k].what /\ doing'[k].of = doing[k].of
                        /\ doing'[k].x = doing[k].x
                        /\ Climbs(doing'[k]) <=> Climbs(doing[k])
                        /\ Repeats(doing'[k]) <=> Repeats(doing[k])
                        /\ Dispatching(doing'[k]) <=> Dispatching(doing[k])
                        /\ Climbs(doing[k]) => doing'[k].path = doing[k].path
                        /\ Dispatching(doing[k]) => doing'[k].queue = doing[k].queue
                                                    /\ doing'[k].last = IF k = n THEN m ELSE doing[k].last
    <2> TAKE k \in 1..n
    <2>1. CASE k = n
      <3>1. /\ d.what = "dispatch" /\ ~ Climbs(d) /\ ~ Repeats(d)
        BY <1>2 DEF Dispatching, Climbs, Repeats
      <3>2. /\ d2.what = "dispatch" /\ ~ Climbs(d2) /\ ~ Repeats(d2) /\ Dispatching(d2)
        BY <1>6 DEF Dispatching, Climbs, Repeats
      <3> QED BY <2>1, <3>1, <3>2, <1>2, <1>6, <1>7
    <2>2. CASE k # n
      <3>1. doing'[k] = doing[k]
        BY <2>2, <1>7
      <3> QED BY <2>2, <3>1
    <2> QED BY <2>1, <2>2
  <1>9. /\ ran' \in Seq(Nat \X Elements \X Nat \X BOOLEAN) /\ Len(ran') = Len(ran) + 1
        /\ ran'[Len(ran) + 1][1] = d.of /\ ran'[Len(ran) + 1][2] = d.x
        /\ ran'[Len(ran) + 1][3] = h.id /\ ran'[Len(ran) + 1][4] = h.one
        /\ \A i \in 1..Len(ran) : ran'[i] = ran[i]
    <2>1. h.one \in BOOLEAN
      BY <1>2 DEF HandlerRecords
    <2>2. <<d.of, d.x, h.id, h.one>> \in Nat \X Elements \X Nat \X BOOLEAN
      BY <2>1, <1>2
    <2>3. ran \in Seq(Nat \X Elements \X Nat \X BOOLEAN)
      BY DEF EventTypes
    <2>4. \A a, b, c, e : <<a, b, c, e>>[1] = a /\ <<a, b, c, e>>[2] = b
                          /\ <<a, b, c, e>>[3] = c /\ <<a, b, c, e>>[4] = e
      OBVIOUS
    <2> DEFINE new == <<d.of, d.x, h.id, h.one>>
    <2>5. new[1] = d.of /\ new[2] = d.x /\ new[3] = h.id /\ new[4] = h.one
      BY <2>4
    <2>6. new \in Nat \X Elements \X Nat \X BOOLEAN /\ ran' = Append(ran, new)
      BY <2>2, <1>4
    <2> HIDE DEF h, d, new
    <2>7. /\ ran' \in Seq(Nat \X Elements \X Nat \X BOOLEAN) /\ Len(ran') = Len(ran) + 1
          /\ ran'[Len(ran) + 1] = new /\ \A i \in 1..Len(ran) : ran'[i] = ran[i]
      BY <2>3, <2>6
    <2> QED BY <2>5, <2>7
  <1>10. \A i \in 1..Len(ran') : \/ i \in 1..Len(ran) /\ ran'[i] = ran[i]
                                 \/ /\ i = Len(ran) + 1 /\ ran'[i][1] = d.of /\ ran'[i][2] = d.x
                                    /\ ran'[i][3] = h.id /\ ran'[i][4] = h.one
    <2> TAKE i \in 1..Len(ran')
    <2>1. i \in 1..Len(ran) \/ i = Len(ran) + 1
      BY <1>1, <1>9
    <2>2. CASE i \in 1..Len(ran)
      BY <2>2, <1>9
    <2>3. CASE i = Len(ran) + 1
      <3> HIDE DEF h, d
      <3> QED BY <2>3, <1>9
    <2> QED BY <2>1, <2>2, <2>3
  <1>11. ASSUME NEW i \in 1..Len(ran), NEW j \in 1..Len(d.queue), ~ nested, j <= d.last,
                ran[i][3] = d.queue[j].id
         PROVE  ran[i][3] # h.id
    <2>1. j # m
      BY <1>11, <1>2
    <2>2. d.queue[j].id = d.queue[m].id => j = m
      BY <1>2 DEF ClimbsOnce
    <2> QED BY <1>11, <2>1, <2>2
  <1> HIDE DEF h, m, d
  <1>12. EventTypes'
    BY <1>4, <1>5, <1>7, <1>9 DEF EventTypes
  <1>13. ASSUME NEW y \in Elements, NEW g \in HandlerRecords, KnownAt(y, g)'
         PROVE  KnownAt(y, g)
    <2>1. CASE \E i \in 1..Len(handlers'[y]) : handlers'[y][i] = g
      <3>1. PICK i \in 1..Len(handlers'[y]) : handlers'[y][i] = g
        BY <2>1
      <3>2. PICK j \in 1..Len(handlers[y]) : handlers'[y][i] = handlers[y][j]
        BY <1>5
      <3> QED BY <3>1, <3>2 DEF KnownAt
    <2>2. CASE \E k \in 1..Len(doing') : /\ Dispatching(doing'[k]) /\ doing'[k].x = y
                                         /\ \E j \in 1..Len(doing'[k].queue) : doing'[k].queue[j] = g
      <3>1. PICK k \in 1..n : /\ Dispatching(doing'[k]) /\ doing'[k].x = y
                              /\ \E j \in 1..Len(doing'[k].queue) : doing'[k].queue[j] = g
        BY <2>2, <1>7
      <3>2. /\ Dispatching(doing[k]) /\ doing[k].x = y
            /\ \E j \in 1..Len(doing[k].queue) : doing[k].queue[j] = g
        BY <3>1, <1>8
      <3> QED BY <3>2 DEF KnownAt
    <2> QED BY <1>13, <2>1, <2>2 DEF KnownAt
  <1>14. Numbered'
    <2>1. \A y, z \in Elements, g, f \in HandlerRecords :
            KnownAt(y, g)' /\ KnownAt(z, f)' /\ g.id = f.id => y = z /\ g = f
      BY <1>13 DEF Numbered
    <2>2. \A y \in Elements, g \in HandlerRecords : KnownAt(y, g)' => g.id <= uses'
      BY <1>4, <1>13 DEF Numbered
    <2>3. h.id <= uses
      BY <1>2, <1>3 DEF Numbered
    <2>4. \A i \in 1..Len(ran') : ran'[i][3] <= uses'
      <3>1. \A i \in 1..Len(ran) : ran[i][3] <= uses
        BY DEF Numbered
      <3> QED BY <3>1, <2>3, <1>4, <1>10
    <2>5. ASSUME NEW y \in Elements, NEW g \in HandlerRecords, KnownAt(y, g)',
                 NEW i \in 1..Len(ran'), ran'[i][3] = g.id
          PROVE  ran'[i][4] = g.one
      <3>1. KnownAt(y, g)
        BY <2>5, <1>13
      <3>2. CASE i \in 1..Len(ran) /\ ran'[i] = ran[i]
        BY <3>1, <3>2, <2>5 DEF Numbered
      <3>3. CASE ran'[i][3] = h.id /\ ran'[i][4] = h.one
        <4>1. g = h
          BY <3>1, <3>3, <2>5, <1>2, <1>3 DEF Numbered
        <4> QED BY <3>3, <4>1
      <3> QED BY <3>2, <3>3, <1>10
    <2> QED BY <2>1, <2>2, <2>4, <2>5 DEF Numbered
  <1>15. ClimbsOnce'
    <2>1. \A k, l \in 1..n :
            /\ Climbs(doing'[k]) /\ ~ Repeats(doing'[k]) /\ Climbs(doing'[l]) /\ ~ Repeats(doing'[l])
            /\ doing'[k].of = doing'[l].of
            => k = l
      BY <1>8 DEF ClimbsOnce, n
    <2>2. \A k \in 1..n : doing'[k].of <= Len(event')
      BY <1>4, <1>8 DEF ClimbsOnce, n
    <2>3. \A i \in 1..Len(ran') : ran'[i][1] <= Len(event')
      <3>1. d.of <= Len(event)
        BY <1>2 DEF ClimbsOnce, n, d
      <3>2. \A i \in 1..Len(ran) : ran[i][1] <= Len(event)
        BY DEF ClimbsOnce
      <3> QED BY <3>1, <3>2, <1>4, <1>10
    <2>4. \A k \in 1..n : Dispatching(doing'[k]) =>
            \A i, j \in 1..Len(doing'[k].queue) : doing'[k].queue[i].id = doing'[k].queue[j].id => i = j
      <3> TAKE k \in 1..n
      <3> HAVE Dispatching(doing'[k])
      <3>1. Dispatching(doing[k]) /\ doing'[k].queue = doing[k].queue
        BY <1>8
      <3>2. \A i, j \in 1..Len(doing[k].queue) : doing[k].queue[i].id = doing[k].queue[j].id => i = j
        BY <3>1 DEF ClimbsOnce, n
      <3> QED BY <3>1, <3>2
    <2> HIDE DEF n
    <2> QED BY <2>1, <2>2, <2>3, <2>4, <1>7 DEF ClimbsOnce, Climbs, Repeats, Dispatching
  <1>16. Suppressed'
    <2>1. ~ nested => \A k \in 1..n : Repeats(doing'[k]) => k = n /\ triggered
      BY <1>8 DEF Suppressed, n
    <2> HIDE DEF n
    <2> QED BY <2>1, <1>4, <1>7 DEF Suppressed, Repeats
  <1>17. ASSUME ~ nested, NEW k \in 1..n, Climbs(doing[k]), ~ Repeats(doing[k]), doing[k].of = d.of
         PROVE  k = n - 1 /\ ~ Ahead(doing[k].path, d.x)
    <2>1. /\ n > 1 /\ Climbs(doing[n - 1]) /\ ~ Repeats(doing[n - 1]) /\ doing[n - 1].of = d.of
          /\ ~ Ahead(doing[n - 1].path, d.x)
      BY <1>2, <1>17 DEF DispatchFits, n, d
    <2>2. n - 1 \in 1..n
      BY <2>1, <1>1
    <2>3. k = n - 1
      BY <1>17, <2>1, <2>2 DEF ClimbsOnce, n
    <2> QED BY <2>1, <2>3
  <1>18. DispatchFits'
    <2> SUFFICES ASSUME ~ nested PROVE DispatchFits'
      BY <1>4 DEF DispatchFits
    <2>1. ASSUME NEW k \in 1..n, Dispatching(doing'[k])
          PROVE  /\ k > 1 /\ Climbs(doing'[k - 1]) /\ ~ Repeats(doing'[k - 1])
                 /\ doing'[k - 1].of = doing'[k].of
                 /\ ~ Ahead(doing'[k - 1].path, doing'[k].x)
                 /\ \A i \in 1..Len(ran') : ran'[i][1] = doing'[k].of /\ ran'[i][2] = doing'[k].x =>
                      \E j \in 1..Len(doing'[k].queue) :
                        j <= doing'[k].last /\ ran'[i][3] = doing'[k].queue[j].id
      <3>1. /\ Dispatching(doing[k]) /\ doing'[k].of = doing[k].of /\ doing'[k].x = doing[k].x
            /\ doing'[k].queue = doing[k].queue
            /\ doing'[k].last = IF k = n THEN m ELSE doing[k].last
        BY <2>1, <1>8
      <3>2. /\ k > 1 /\ Climbs(doing[k - 1]) /\ ~ Repeats(doing[k - 1]) /\ doing[k - 1].of = doing[k].of
            /\ ~ Ahead(doing[k - 1].path, doing[k].x)
            /\ \A i \in 1..Len(ran) : ran[i][1] = doing[k].of /\ ran[i][2] = doing[k].x =>
                 \E j \in 1..Len(doing[k].queue) : j <= doing[k].last /\ ran[i][3] = doing[k].queue[j].id
        BY <3>1 DEF DispatchFits, n
      <3>3. k - 1 \in 1..n
        BY <3>2, <1>1
      <3>4. /\ Climbs(doing'[k - 1]) /\ ~ Repeats(doing'[k - 1]) /\ doing'[k - 1].of = doing[k - 1].of
            /\ doing'[k - 1].path = doing[k - 1].path
        BY <3>2, <3>3, <1>8
      <3>5. ASSUME NEW i \in 1..Len(ran'), ran'[i][1] = doing[k].of, ran'[i][2] = doing[k].x
            PROVE  \E j \in 1..Len(doing[k].queue) :
                     j <= doing'[k].last /\ ran'[i][3] = doing[k].queue[j].id
        <4>1. CASE i \in 1..Len(ran) /\ ran'[i] = ran[i]
          <5>1. PICK j \in 1..Len(doing[k].queue) : j <= doing[k].last /\ ran[i][3] = doing[k].queue[j].id
            BY <3>2, <3>5, <4>1
          <5>2. j <= doing'[k].last
            <6>1. CASE k = n
              <7>1. doing'[k].last = m /\ doing[k].last = d.last /\ m = d.last + 1 /\ d.last \in Nat
                BY <3>1, <6>1, <1>2 DEF d, m
              <7> QED BY <5>1, <7>1
            <6>2. CASE k # n
              BY <6>2, <5>1, <3>1
            <6> QED BY <6>1, <6>2
          <5> QED BY <4>1, <5>1, <5>2
        <4>2. CASE ran'[i][1] = d.of /\ ran'[i][2] = d.x /\ ran'[i][3] = h.id
          <5>1. doing[k - 1].of = d.of
            BY <3>2, <3>5, <4>2
          <5>2. k - 1 = n - 1
            BY <3>2, <3>3, <5>1, <1>17
          <5>3. k = n
            BY <5>2, <1>1
          <5>4. doing[k].queue = d.queue /\ doing'[k].last = m /\ m \in 1..Len(d.queue)
                /\ h = d.queue[m]
            BY <5>3, <3>1, <1>2 DEF d, h
          <5> QED BY <5>4, <4>2, <1>1, <1>2
        <4> QED BY <4>1, <4>2, <1>10
      <3> QED BY <3>1, <3>2, <3>4, <3>5
    <2> HIDE DEF n
    <2> QED BY <2>1, <1>7 DEF DispatchFits, Dispatching, Climbs, Repeats, Ahead
  <1>19. NoneAhead'
    <2> SUFFICES ASSUME ~ nested PROVE NoneAhead'
      BY <1>4 DEF NoneAhead
    <2>1. ASSUME NEW k \in 1..n, Climbs(doing'[k]), ~ Repeats(doing'[k]),
                 NEW i \in 1..Len(ran'), ran'[i][1] = doing'[k].of
          PROVE  ~ Ahead(doing'[k].path, ran'[i][2])
      <3>1. Climbs(doing[k]) /\ ~ Repeats(doing[k]) /\ doing'[k].of = doing[k].of
            /\ doing'[k].path = doing[k].path
        BY <2>1, <1>8
      <3>2. CASE i \in 1..Len(ran) /\ ran'[i] = ran[i]
        BY <2>1, <3>1, <3>2 DEF NoneAhead, n
      <3>3. CASE ran'[i][1] = d.of /\ ran'[i][2] = d.x
        BY <2>1, <3>1, <3>3, <1>17
      <3> QED BY <3>2, <3>3, <1>10
    <2> HIDE DEF n
    <2> QED BY <2>1, <1>7 DEF NoneAhead, Climbs, Repeats, Ahead
  <1>20. ASSUME ~ overlap, NEW i \in 1..Len(ran), ran[i][4]
         PROVE  ran[i][3] # h.id
    <2>1. \A j \in 1..Len(d.queue) : j > d.last => d.queue[j].id # ran[i][3]
      BY <1>2, <1>20 DEF OneIsOver, n, d
    <2>2. m \in 1..Len(d.queue) /\ m > d.last
      BY <1>2 DEF m
    <2> QED BY <2>1, <2>2 DEF h
  <1>21. OneIsOver'
    <2> SUFFICES ASSUME ~ overlap PROVE OneIsOver'
      BY <1>4 DEF OneIsOver
    <2>0. /\ \A k, l \in 1..n :
               Dispatching(doing[k]) /\ Dispatching(doing[l]) /\ doing[k].x = doing[l].x => k = l
          /\ \A i \in 1..Len(ran) : ran[i][4] =>
               /\ \A x \in Elements : \A j \in 1..Len(handlers[x]) : handlers[x][j].id # ran[i][3]
               /\ \A k \in 1..n : Dispatching(doing[k]) =>
                    \A j \in 1..Len(doing[k].queue) :
                      j > doing[k].last => doing[k].queue[j].id # ran[i][3]
      BY DEF OneIsOver, n
    <2>1. \A k, l \in 1..n :
            Dispatching(doing'[k]) /\ Dispatching(doing'[l]) /\ doing'[k].x = doing'[l].x => k = l
      BY <2>0, <1>8
    <2>2. ASSUME NEW i \in 1..Len(ran'), ran'[i][4], NEW x \in Elements, NEW j \in 1..Len(handlers'[x])
          PROVE  handlers'[x][j].id # ran'[i][3]
      <3>1. PICK a \in 1..Len(handlers[x]) :
                   handlers'[x][j] = handlers[x][a] /\ (h.one => handlers[x][a].id # h.id)
        BY <1>5
      <3>2. CASE i \in 1..Len(ran) /\ ran'[i] = ran[i]
        BY <2>0, <2>2, <3>1, <3>2
      <3>3. CASE ran'[i][3] = h.id /\ ran'[i][4] = h.one
        BY <2>2, <3>1, <3>3
      <3> QED BY <3>2, <3>3, <1>10
    <2>3. ASSUME NEW i \in 1..Len(ran'), ran'[i][4], NEW k \in 1..n, Dispatching(doing'[k]),
                 NEW j \in 1..Len(doing'[k].queue), j > doing'[k].last
          PROVE  doing'[k].queue[j].id # ran'[i][3]
      <3>1. /\ Dispatching(doing[k]) /\ doing'[k].x = doing[k].x
            /\ doing'[k].queue = doing[k].queue
            /\ doing'[k].last = IF k = n THEN m ELSE doing[k].last
        BY <2>3, <1>8
      <3>2. j \in 1..Len(doing[k].queue) /\ j \in Int
        BY <3>1
      <3>3. CASE i \in 1..Len(ran) /\ ran'[i] = ran[i]
        <4>1. j > doing[k].last
          <5>1. CASE k = n
            <6>1. doing[k].last = d.last /\ m = d.last + 1 /\ d.last \in Nat /\ j > m
              BY <2>3, <3>1, <5>1, <1>2 DEF d, m
            <6> QED BY <6>1, <3>2
          <5>2. CASE k # n
            BY <2>3, <3>1, <5>2
          <5> QED BY <5>1, <5>2
        <4>2. doing[k].queue[j].id # ran[i][3]
          BY <2>0, <2>3, <3>1, <3>2, <3>3, <4>1
        <4> QED BY <3>1, <3>3, <4>2
      <3>4. CASE ran'[i][3] = h.id
        <4> SUFFICES ASSUME doing[k].queue[j].id = h.id PROVE FALSE
          BY <3>1, <3>4
        <4>1. doing[k].queue[j] \in HandlerRecords /\ KnownAt(doing[k].x, doing[k].queue[j])
              /\ doing[k].x \in Elements
          BY <3>1, <3>2, EventFacts DEF KnownAt, n
        <4>2. doing[k].x = d.x
          BY <4>1, <1>2, <1>3 DEF Numbered
        <4>3. k = n
          BY <4>2, <3>1, <2>0, <1>2 DEF d
        <4>4. d.queue[j].id = d.queue[m].id /\ j \in 1..Len(d.queue) /\ j > m
          BY <4>3, <2>3, <3>1, <3>2 DEF d, h
        <4>5. j = m
          BY <4>4, <1>2 DEF ClimbsOnce, n, d
        <4> QED BY <4>4, <4>5, <3>2
      <3> QED BY <3>3, <3>4, <1>10
    <2> HIDE DEF n
    <2> QED BY <2>1, <2>2, <2>3, <1>7 DEF OneIsOver, Dispatching
  <1>22. RanOnce'
    <2>1. ASSUME ~ nested, NEW i \in 1..Len(ran), ran[i][1] = d.of, ran[i][2] = d.x
          PROVE  ran[i][3] # h.id
      <3>1. PICK j \in 1..Len(d.queue) : j <= d.last /\ ran[i][3] = d.queue[j].id
        BY <2>1, <1>2 DEF DispatchFits, n, d
      <3> QED BY <2>1, <3>1, <1>11
    <2>2. ASSUME ~ nested, NEW i \in 1..Len(ran'), NEW j \in 1..Len(ran'), ran'[i] = ran'[j]
          PROVE  i = j
      <3>1. CASE i \in 1..Len(ran) /\ j \in 1..Len(ran)
        BY <2>2, <3>1, <1>9 DEF RanOnce
      <3>2. CASE i = Len(ran) + 1 /\ j = Len(ran) + 1
        BY <3>2
      <3>3. ASSUME NEW a \in 1..Len(ran), NEW b \in 1..Len(ran'), b = Len(ran) + 1, ran'[a] = ran'[b]
            PROVE  FALSE
        <4>1. ran'[a] = ran[a] /\ ran'[b][1] = d.of /\ ran'[b][2] = d.x /\ ran'[b][3] = h.id
          BY <3>3, <1>9
        <4>2. ran[a][1] = d.of /\ ran[a][2] = d.x /\ ran[a][3] = h.id
          BY <3>3, <4>1
        <4> QED BY <4>2, <2>1, <2>2
      <3> QED BY <2>2, <3>1, <3>2, <3>3, <1>10
    <2>3. ASSUME ~ overlap, NEW i \in 1..Len(ran'), NEW j \in 1..Len(ran'),
                 ran'[i][4], ran'[i][3] = ran'[j][3]
          PROVE  i = j
      <3>1. CASE i \in 1..Len(ran) /\ j \in 1..Len(ran)
        BY <2>3, <3>1, <1>9 DEF RanOnce
      <3>2. CASE i = Len(ran) + 1 /\ j = Len(ran) + 1
        BY <3>2
      <3>3. CASE i \in 1..Len(ran) /\ j = Len(ran) + 1
        <4>1. ran'[i] = ran[i] /\ ran'[j][3] = h.id
          BY <3>3, <1>9
        <4> QED BY <4>1, <3>3, <2>3, <1>20
      <3>4. CASE i = Len(ran) + 1 /\ j \in 1..Len(ran)
        <4>1. ran'[j] = ran[j] /\ ran'[i][3] = h.id /\ ran'[i][4] = h.one
          BY <3>4, <1>9
        <4>2. ran[j][4] = h.one
          BY <4>1, <2>3, <3>4, <1>2, <1>3 DEF Numbered
        <4> QED BY <4>1, <4>2, <3>4, <2>3, <1>20
      <3> QED BY <2>3, <3>1, <3>2, <3>3, <3>4, <1>10
    <2> QED BY <2>2, <2>3, <1>4 DEF RanOnce
  <1> QED BY <1>5, <1>12, <1>14, <1>15, <1>16, <1>18, <1>19, <1>21, <1>22 DEF EventsInv

\* What an event's climb and its default action change of its frame.
LEMMA ClimbGoesOn ==
  ASSUME NEW f \in Natives \cup Triggers, NEW p \in Paths
  PROVE  /\ LET g == [f EXCEPT !.path = p] IN
            /\ g \in Frames /\ g.what = f.what /\ g.of = f.of /\ g.x = f.x /\ g.path = p
            /\ Climbs(g) /\ (Repeats(g) <=> Repeats(f))
         /\ f \in Triggers => LET g == [f EXCEPT !.only = TRUE] IN
            /\ g \in Frames /\ g.what = f.what /\ g.of = f.of /\ g.x = f.x /\ g.path = f.path
            /\ Climbs(g) /\ ~ Repeats(g) /\ ~ Repeats(f)
  <1>1. CASE f \in Natives
    <2> DEFINE g == [f EXCEPT !.path = p]
    <2>1. g \in Natives /\ g.what = f.what /\ g.of = f.of /\ g.x = f.x /\ g.path = p
          /\ g.what = "native"
      BY <1>1 DEF Natives
    <2>2. g.again = f.again
      BY <1>1 DEF Natives
    <2>3. f \notin Triggers
      BY <1>1 DEF Natives, Triggers
    <2>4. Climbs(g)
      BY <2>1 DEF Climbs
    <2>5. Repeats(g) <=> Repeats(f)
      BY <2>1, <2>2 DEF Repeats
    <2> HIDE DEF g
    <2>6. g \in Frames
      BY <2>1 DEF Frames
    <2> QED BY <2>1, <2>3, <2>4, <2>5, <2>6 DEF g
  <1>2. CASE f \in Triggers
    <2>1. ASSUME NEW b \in BOOLEAN
          PROVE  LET g == [f EXCEPT !.only = b] IN
                 g \in Triggers /\ g.what = f.what /\ g.of = f.of /\ g.x = f.x /\ g.path = f.path
      BY <1>2 DEF Triggers
    <2>2. LET g == [f EXCEPT !.path = p] IN
          g \in Triggers /\ g.what = f.what /\ g.of = f.of /\ g.x = f.x /\ g.path = p
      BY <1>2 DEF Triggers
    <2>3. \A g \in Triggers : g \in Frames /\ Climbs(g) /\ ~ Repeats(g)
      BY DEF Triggers, Frames, Climbs, Repeats
    <2>4. TRUE \in BOOLEAN
      OBVIOUS
    <2>5. LET g == [f EXCEPT !.only = TRUE] IN
          g \in Triggers /\ g.what = f.what /\ g.of = f.of /\ g.x = f.x /\ g.path = f.path
      BY <2>1, <2>4
    <2> QED BY <1>2, <2>2, <2>3, <2>5
  <1> QED BY <1>1, <1>2

\* The shapes a stack takes.
LEMMA Pushed ==
  ASSUME NEW s \in Seq(Frames), NEW g \in Frames
  PROVE  LET t == Append(s, g) IN
         /\ t \in Seq(Frames) /\ Len(t) = Len(s) + 1 /\ t[Len(s) + 1] = g
         /\ \A k \in 1..Len(s) : t[k] = s[k]
  OBVIOUS

\* A stack without its top has the frames it had.
LEMMA Popped ==
  ASSUME NEW s \in Seq(Frames), NEW m \in Int, m < Len(s)
  PROVE  LET t == SubSeq(s, 1, m) IN
         /\ t \in Seq(Frames) /\ Len(t) \in Nat /\ (Len(t) < Len(s) \/ Len(t) = 0)
         /\ \A k \in 1..Len(t) : t[k] = s[k]
  <1>1. Len(s) \in Nat /\ \A k \in 1..Len(s) : s[k] \in Frames
    OBVIOUS
  <1>2. CASE m < 1
    BY <1>2
  <1>3. CASE m >= 1
    BY <1>1, <1>3
  <1> QED BY <1>2, <1>3

\* Leaving frames of the stack keeps the invariant: a second climb is at the top.
LEMMA PopFollows ==
  ASSUME EventsInv, NEW m \in Int, m < Len(doing), doing' = SubSeq(doing, 1, m),
         UNCHANGED <<handlers, delegateCount, listening, event, uses, ran, nested, overlap>>,
         triggered' \in BOOLEAN
  PROVE  EventsInv'
  <1>1. EventTypes /\ Suppressed
    BY DEF EventsInv
  <1>2. /\ doing \in Seq(Frames) /\ Len(doing) \in Nat /\ event \in Seq(EventFlags) /\ uses \in Nat
        /\ Len(event) \in Nat /\ nested \in BOOLEAN /\ overlap \in BOOLEAN
    BY <1>1 DEF EventTypes
  <1>3. /\ doing' \in Seq(Frames) /\ Len(doing') \in Nat
        /\ (Len(doing') < Len(doing) \/ Len(doing') = 0)
        /\ \A k \in 1..Len(doing') : doing'[k] = doing[k]
    BY <1>2, Popped
  <1>4. \A k \in 1..Len(doing') : k \in 1..Len(doing) /\ k < Len(doing) /\ k <= Len(doing)
    BY <1>2, <1>3
  <1>5. Suppressed'
    <2>1. ~ nested => \A k \in 1..Len(doing) : Repeats(doing[k]) => k = Len(doing)
      BY <1>1 DEF Suppressed
    <2>2. ~ nested => \A k \in 1..Len(doing') : ~ Repeats(doing'[k])
      BY <1>2, <1>3, <1>4, <2>1
    <2> QED BY <2>2 DEF Suppressed, Repeats
  <1>6. \A k \in 1..Len(doing') : k <= Len(doing) /\ Like(doing[k], doing'[k])
    BY <1>3, <1>4 DEF Like
  <1>7. /\ nested' \in BOOLEAN /\ overlap' \in BOOLEAN /\ (nested => nested') /\ (overlap => overlap')
        /\ event' \in Seq(EventFlags) /\ Len(event) <= Len(event') /\ uses' \in Nat /\ uses <= uses'
    BY <1>2
  <1>8. \A k \in 1..Len(doing') : \/ k <= Len(doing) /\ Like(doing[k], doing'[k])
                                  \/ k = Len(doing) + 1 /\ Fresh(k)
    BY <1>6
  <1> QED BY <1>3, <1>5, <1>7, <1>8, StackFollows

\* A handler that throws takes the stack down.
LEMMA ThrowKeeps == ASSUME EventsInv, HandlerThrows PROVE EventsInv'
  <1>1. EventTypes
    BY DEF EventsInv
  <1>2. Len(doing) \in Nat /\ triggered \in BOOLEAN
    BY <1>1 DEF EventTypes
  <1>3. /\ UNCHANGED <<handlers, delegateCount, listening, triggered, event, uses, ran, nested, overlap>>
        /\ \/ doing' = SubSeq(doing, 1, Len(doing) - 1)
           \/ doing' = SubSeq(doing, 1, Len(doing) - 2)
    BY DEF HandlerThrows, Rest, Depth
  <1>4. /\ Len(doing) - 1 \in Int /\ Len(doing) - 1 < Len(doing)
        /\ Len(doing) - 2 \in Int /\ Len(doing) - 2 < Len(doing)
    BY <1>2
  <1> QED BY <1>2, <1>3, <1>4, PopFollows

\* A dispatch or an event that is over goes off the stack.
LEMMA EndKeeps == ASSUME EventsInv, EndDispatch \/ EndTrigger \/ EndNative PROVE EventsInv'
  <1>1. EventTypes
    BY DEF EventsInv
  <1>2. Len(doing) \in Nat /\ triggered \in BOOLEAN
    BY <1>1 DEF EventTypes
  <1>3. /\ UNCHANGED <<handlers, delegateCount, listening, event, uses, ran, nested, overlap>>
        /\ doing' = SubSeq(doing, 1, Len(doing) - 1)
    BY DEF EndDispatch, EndTrigger, EndNative, Rest, Depth
  <1>4. triggered' \in BOOLEAN
    BY <1>2 DEF EndDispatch, EndTrigger, EndNative
  <1>5. Len(doing) - 1 \in Int /\ Len(doing) - 1 < Len(doing)
    BY <1>2
  <1> QED BY <1>3, <1>4, <1>5, PopFollows

\* trigger() of a new event, which notes where a second climb would end too early.
LEMMA TriggerKeeps == ASSUME EventsInv, Trigger PROVE EventsInv'
  <1>1. EventTypes /\ Suppressed
    BY DEF EventsInv
  <1>2. /\ doing \in Seq(Frames) /\ Len(doing) \in Nat /\ event \in Seq(EventFlags) /\ uses \in Nat
        /\ Len(event) \in Nat /\ nested \in BOOLEAN /\ overlap \in BOOLEAN /\ triggered \in BOOLEAN
    BY <1>1 DEF EventTypes
  <1>3. /\ UNCHANGED <<handlers, delegateCount, listening, triggered, ran, overlap>>
        /\ event' = NewEvent /\ nested' = (nested \/ triggered) /\ uses' = uses + 1
    BY DEF Trigger, Uses
  <1>4. PICK x \in Elements, only \in BOOLEAN :
          doing' = Append(doing, [what |-> "trigger", e |-> Len(event) + 1, of |-> Len(event) + 1,
                                  only |-> only, x |-> x, path |-> IF only THEN <<x>> ELSE Path[x]])
    BY DEF Trigger
  <1> DEFINE p == IF only THEN <<x>> ELSE Path[x]
             g == [what |-> "trigger", e |-> Len(event) + 1, of |-> Len(event) + 1,
                   only |-> only, x |-> x, path |-> p]
  <1>5. p \in Paths
    BY PathSteps
  <1> HIDE DEF p
  <1>6. g \in Triggers /\ g.of = Len(event) + 1 /\ g.what = "trigger"
    BY <1>2, <1>5 DEF Triggers
  <1>7. doing' = Append(doing, g)
    BY <1>4 DEF p
  <1> HIDE DEF g
  <1>8. g \in Frames /\ ~ Repeats(g) /\ ~ Dispatching(g)
    BY <1>6 DEF Frames, Repeats, Dispatching
  <1>9. /\ doing' \in Seq(Frames) /\ Len(doing') = Len(doing) + 1 /\ doing'[Len(doing) + 1] = g
        /\ \A k \in 1..Len(doing) : doing'[k] = doing[k]
    BY <1>2, <1>7, <1>8, Pushed
  <1>10. event' \in Seq(EventFlags) /\ Len(event') = Len(event) + 1
    <2>1. [stopped |-> FALSE, immediate |-> FALSE, prevented |-> FALSE] \in EventFlags
      BY DEF EventFlags
    <2> QED BY <2>1, <1>2, <1>3 DEF NewEvent
  <1>11. \A k \in 1..Len(doing') : k \in 1..Len(doing) \/ k = Len(doing) + 1
    BY <1>2, <1>9
  <1>12. Suppressed'
    <2>1. ASSUME ~ nested' PROVE \A k \in 1..Len(doing') : ~ Repeats(doing'[k])
      <3>1. ~ nested /\ ~ triggered
        BY <2>1, <1>3
      <3>2. \A k \in 1..Len(doing) : ~ Repeats(doing[k])
        BY <3>1, <1>1 DEF Suppressed
      <3> QED BY <3>2, <1>8, <1>9, <1>11
    <2> QED BY <2>1 DEF Suppressed, Repeats
  <1>13. Fresh(Len(doing) + 1)
    BY <1>2, <1>6, <1>8, <1>9, <1>10 DEF Fresh
  <1>14. \A k \in 1..Len(doing') : \/ k <= Len(doing) /\ Like(doing[k], doing'[k])
                                   \/ k = Len(doing) + 1 /\ Fresh(k)
    BY <1>2, <1>9, <1>11, <1>13 DEF Like
  <1>15. /\ triggered' \in BOOLEAN /\ nested' \in BOOLEAN /\ overlap' \in BOOLEAN
         /\ (nested => nested') /\ (overlap => overlap')
         /\ Len(event) <= Len(event') /\ uses' \in Nat /\ uses <= uses'
    BY <1>2, <1>3, <1>10
  <1> QED BY <1>3, <1>9, <1>10, <1>12, <1>14, <1>15, StackFollows

\* A click of the user begins an event that nobody ran for.
LEMMA ClickKeeps == ASSUME EventsInv, Click PROVE EventsInv'
  <1>1. EventTypes
    BY DEF EventsInv
  <1>2. /\ event \in Seq(EventFlags) /\ uses \in Nat /\ Len(event) \in Nat
        /\ nested \in BOOLEAN /\ overlap \in BOOLEAN /\ triggered \in BOOLEAN
    BY <1>1 DEF EventTypes
  <1>3. /\ UNCHANGED <<handlers, delegateCount, listening, triggered, ran, nested, overlap>>
        /\ event' = NewEvent /\ uses' = uses + 1 /\ doing = << >> /\ Len(doing) = 0
    BY DEF Click
  <1> DEFINE g == [what |-> "native", e |-> Len(event) + 1, of |-> Len(event) + 1, x |-> "target",
                   path |-> Path["target"], again |-> FALSE]
  <1>4. doing' = <<g>>
    BY DEF Click
  <1>5. g \in Natives /\ g.of = Len(event) + 1 /\ g.what = "native" /\ g.again = FALSE
    <2>1. Path["target"] \in Paths /\ "target" \in Elements
      BY TwoElements, PathSteps
    <2>2. ASSUME NEW q \in Paths, NEW n \in Nat
          PROVE  [what |-> "native", e |-> n, of |-> n, x |-> "target", path |-> q, again |-> FALSE]
                   \in Natives
      BY <2>1 DEF Natives
    <2> QED BY <2>1, <2>2, <1>2
  <1> HIDE DEF g
  <1>6. g \in Frames /\ ~ Repeats(g) /\ ~ Dispatching(g)
    BY <1>5 DEF Frames, Repeats, Dispatching
  <1>7. doing' \in Seq(Frames) /\ Len(doing') = 1 /\ doing'[1] = g
    BY <1>4, <1>6
  <1>8. event' \in Seq(EventFlags) /\ Len(event') = Len(event) + 1
    <2>1. [stopped |-> FALSE, immediate |-> FALSE, prevented |-> FALSE] \in EventFlags
      BY DEF EventFlags
    <2> QED BY <2>1, <1>2, <1>3 DEF NewEvent
  <1>9. \A k \in 1..Len(doing') : k = 1 /\ k = Len(doing) + 1
    BY <1>3, <1>7
  <1>10. Suppressed'
    <2>1. \A k \in 1..Len(doing') : ~ Repeats(doing'[k])
      BY <1>6, <1>7, <1>9
    <2> QED BY <2>1 DEF Suppressed, Repeats
  <1>11. Fresh(1)
    BY <1>2, <1>5, <1>6, <1>7, <1>8 DEF Fresh
  <1>12. \A k \in 1..Len(doing') : \/ k <= Len(doing) /\ Like(doing[k], doing'[k])
                                   \/ k = Len(doing) + 1 /\ Fresh(k)
    BY <1>9, <1>11
  <1>13. /\ triggered' \in BOOLEAN /\ nested' \in BOOLEAN /\ overlap' \in BOOLEAN
         /\ (nested => nested') /\ (overlap => overlap')
         /\ Len(event) <= Len(event') /\ uses' \in Nat /\ uses <= uses'
    BY <1>2, <1>3, <1>8
  <1> QED BY <1>3, <1>7, <1>8, <1>10, <1>12, <1>13, StackFollows

\* The events s after a handler has set flags of the event e.
FlagsOf(s, e) == {[s EXCEPT ![e].stopped = TRUE],
                  [s EXCEPT ![e].stopped = TRUE, ![e].immediate = TRUE],
                  [s EXCEPT ![e].prevented = TRUE],
                  [s EXCEPT ![e].stopped = TRUE, ![e].prevented = TRUE]}

\* Flags of an event are set and events are as many as before.
LEMMA FlagsSet ==
  ASSUME NEW s \in Seq(EventFlags), NEW e,
         NEW t \in FlagsOf(s, e)
  PROVE  t \in Seq(EventFlags) /\ Len(t) = Len(s)
  <1>1. \A f \in EventFlags : /\ [f EXCEPT !.stopped = TRUE] \in EventFlags
                              /\ [f EXCEPT !.immediate = TRUE] \in EventFlags
                              /\ [f EXCEPT !.prevented = TRUE] \in EventFlags
    <2>1. ASSUME NEW f \in EventFlags, NEW b \in BOOLEAN
          PROVE  /\ [f EXCEPT !.stopped = b] \in EventFlags
                 /\ [f EXCEPT !.immediate = b] \in EventFlags
                 /\ [f EXCEPT !.prevented = b] \in EventFlags
      BY DEF EventFlags
    <2>2. TRUE \in BOOLEAN
      OBVIOUS
    <2> QED BY <2>1, <2>2
  <1>2. /\ Len(s) \in Nat /\ s = [i \in 1..Len(s) |-> s[i]]
        /\ \A i \in 1..Len(s) : s[i] \in EventFlags
    OBVIOUS
  <1>3. ASSUME NEW r \in Seq(EventFlags), Len(r) = Len(s), NEW g, e \in 1..Len(r) => g \in EventFlags
        PROVE  [r EXCEPT ![e] = g] \in Seq(EventFlags) /\ Len([r EXCEPT ![e] = g]) = Len(s)
    <2>1. CASE e \in 1..Len(r)
      BY <1>3, <2>1
    <2>2. CASE e \notin 1..Len(r)
      <3>1. [r EXCEPT ![e] = g] = r
        BY <2>2
      <3> QED BY <3>1, <1>3
    <2> QED BY <2>1, <2>2
  <1>4. ASSUME NEW r \in Seq(EventFlags), Len(r) = Len(s)
        PROVE  /\ [r EXCEPT ![e].stopped = TRUE] \in Seq(EventFlags)
               /\ Len([r EXCEPT ![e].stopped = TRUE]) = Len(s)
               /\ [r EXCEPT ![e].immediate = TRUE] \in Seq(EventFlags)
               /\ Len([r EXCEPT ![e].immediate = TRUE]) = Len(s)
               /\ [r EXCEPT ![e].prevented = TRUE] \in Seq(EventFlags)
               /\ Len([r EXCEPT ![e].prevented = TRUE]) = Len(s)
    <2>1. e \in 1..Len(r) => r[e] \in EventFlags
      BY <1>4
    <2>2. e \in 1..Len(r) => /\ [r[e] EXCEPT !.stopped = TRUE] \in EventFlags
                             /\ [r[e] EXCEPT !.immediate = TRUE] \in EventFlags
                             /\ [r[e] EXCEPT !.prevented = TRUE] \in EventFlags
      BY <2>1, <1>1
    <2> QED BY <2>2, <1>3, <1>4
  <1>5. LET u == [s EXCEPT ![e].stopped = TRUE] IN u \in Seq(EventFlags) /\ Len(u) = Len(s)
    BY <1>4
  <1>6. [s EXCEPT ![e].prevented = TRUE] \in Seq(EventFlags)
        /\ Len([s EXCEPT ![e].prevented = TRUE]) = Len(s)
    BY <1>4
  <1> DEFINE u == [s EXCEPT ![e].stopped = TRUE]
  <1>7. /\ u \in Seq(EventFlags) /\ Len(u) = Len(s)
        /\ [s EXCEPT ![e].stopped = TRUE, ![e].immediate = TRUE] = [u EXCEPT ![e].immediate = TRUE]
        /\ [s EXCEPT ![e].stopped = TRUE, ![e].prevented = TRUE] = [u EXCEPT ![e].prevented = TRUE]
    BY <1>5
  <1> HIDE DEF u
  <1>8. /\ [u EXCEPT ![e].immediate = TRUE] \in Seq(EventFlags)
        /\ Len([u EXCEPT ![e].immediate = TRUE]) = Len(s)
        /\ [u EXCEPT ![e].prevented = TRUE] \in Seq(EventFlags)
        /\ Len([u EXCEPT ![e].prevented = TRUE]) = Len(s)
    BY <1>4, <1>7
  <1> QED BY <1>5, <1>6, <1>7, <1>8 DEF FlagsOf

\* Setting flags of an event, or the end of a call, moves nothing.
LEMMA FlagsFollow ==
  ASSUME EventsInv, UNCHANGED <<handlers, delegateCount, listening, triggered, ran, nested, overlap>>,
         event' \in Seq(EventFlags), Len(event') = Len(event), uses' \in Nat, uses <= uses',
         doing' \in Seq(Frames), Len(doing') = Len(doing),
         \A k \in 1..Len(doing) : Like(doing[k], doing'[k])
  PROVE  EventsInv'
  <1>1. EventTypes /\ Suppressed
    BY DEF EventsInv
  <1>2. /\ Len(doing) \in Nat /\ Len(event) \in Nat
        /\ nested \in BOOLEAN /\ overlap \in BOOLEAN /\ triggered \in BOOLEAN
    BY <1>1 DEF EventTypes
  <1>3. Suppressed'
    <2>1. \A k \in 1..Len(doing) : Repeats(doing'[k]) <=> Repeats(doing[k])
      BY DEF Like
    <2>2. ~ nested => \A k \in 1..Len(doing') : Repeats(doing'[k]) => k = Len(doing') /\ triggered'
      BY <1>1, <2>1 DEF Suppressed
    <2> QED BY <2>2 DEF Suppressed, Repeats
  <1>4. \A k \in 1..Len(doing') : \/ k <= Len(doing) /\ Like(doing[k], doing'[k])
                                  \/ k = Len(doing) + 1 /\ Fresh(k)
    BY <1>2
  <1>5. /\ triggered' \in BOOLEAN /\ nested' \in BOOLEAN /\ overlap' \in BOOLEAN
        /\ (nested => nested') /\ (overlap => overlap') /\ Len(event) <= Len(event')
    BY <1>2
  <1> QED BY <1>3, <1>4, <1>5, StackFollows

\* Stopping an event sets flags only.
LEMMA StopKeeps == ASSUME EventsInv, StopEvent PROVE EventsInv'
  <1>1. EventTypes
    BY DEF EventsInv
  <1>2. /\ event \in Seq(EventFlags) /\ uses \in Nat /\ doing \in Seq(Frames)
    BY <1>1 DEF EventTypes
  <1>3. /\ UNCHANGED <<handlers, delegateCount, listening, triggered, doing, ran, nested, overlap>>
        /\ uses' = uses + 1
    BY DEF StopEvent, Uses
  <1> DEFINE e == doing[Depth].e
  <1>4. event' \in FlagsOf(event, e)
    BY DEF StopEvent, FlagsOf
  <1> HIDE DEF e
  <1>5. event' \in Seq(EventFlags) /\ Len(event') = Len(event)
    BY <1>2, <1>4, FlagsSet
  <1>6. \A k \in 1..Len(doing) : Like(doing[k], doing'[k])
    BY <1>3 DEF Like
  <1> QED BY <1>2, <1>3, <1>5, <1>6, FlagsFollow

\* So does a handler that returns, perhaps false.
LEMMA ReturnsKeep == ASSUME EventsInv, HandlerReturns PROVE EventsInv'
  <1>1. EventTypes
    BY DEF EventsInv
  <1>2. /\ event \in Seq(EventFlags) /\ uses \in Nat /\ doing \in Seq(Frames) /\ Len(doing) \in Nat
    BY <1>1 DEF EventTypes
  <1>3. /\ UNCHANGED <<handlers, delegateCount, listening, triggered, uses, ran, nested, overlap>>
        /\ doing' = [doing EXCEPT ![Len(doing)].calling = FALSE]
        /\ Len(doing) \in 1..Len(doing) /\ Dispatching(doing[Len(doing)])
    BY <1>2 DEF HandlerReturns, Depth, Doing, Dispatching
  <1> DEFINE e == doing[Depth].e
  <1>4. event' = event \/ event' \in FlagsOf(event, e)
    BY DEF HandlerReturns, FlagsOf
  <1> HIDE DEF e
  <1>5. event' \in Seq(EventFlags) /\ Len(event') = Len(event)
    BY <1>2, <1>4, FlagsSet
  <1> DEFINE d == doing[Len(doing)]
             g == [d EXCEPT !.calling = FALSE]
  <1>6. d \in Dispatches
    BY <1>1, <1>3, EventFacts
  <1>7. /\ g \in Dispatches /\ g.what = "dispatch" /\ g.of = d.of /\ g.x = d.x
        /\ g.queue = d.queue /\ g.last = d.last /\ g \in Frames
    <2> HIDE DEF d
    <2> QED BY <1>6, DispatchGoesOn DEF Frames
  <1>8. doing' = [doing EXCEPT ![Len(doing)] = g]
    BY <1>3
  <1> HIDE DEF g, d
  <1>9. /\ doing' \in Seq(Frames) /\ Len(doing') = Len(doing) /\ doing'[Len(doing)] = g
        /\ \A k \in 1..Len(doing) : k # Len(doing) => doing'[k] = doing[k]
    <2>1. doing \in Seq(Frames) /\ Len(doing) \in 1..Len(doing) /\ g \in Frames
      BY <1>2, <1>3, <1>7
    <2> QED BY <2>1, <1>8
  <1>10. Like(d, g)
    <2>1. d.what = "dispatch"
      BY <1>3 DEF Dispatching, d
    <2> QED BY <1>7, <2>1 DEF Like, Repeats, Climbs
  <1>11. \A f : Like(f, f)
    BY DEF Like
  <1>12. \A k \in 1..Len(doing) : Like(doing[k], doing'[k])
    BY <1>9, <1>10, <1>11 DEF d
  <1>13. uses' \in Nat /\ uses <= uses'
    BY <1>2, <1>3
  <1> QED BY <1>3, <1>5, <1>9, <1>12, <1>13, FlagsFollow

\* The top of the stack while an event climbs.
LEMMA ClimbTop ==
  ASSUME EventTypes, Climb
  PROVE  /\ doing \in Seq(Frames) /\ Len(doing) \in Nat /\ Len(doing) \in 1..Len(doing)
         /\ Climbs(doing[Len(doing)]) /\ ~ Dispatching(doing[Len(doing)])
         /\ doing[Len(doing)] \in Natives \cup Triggers
         /\ doing[Len(doing)].path \in Paths /\ doing[Len(doing)].x \in Elements
         /\ doing[Len(doing)].of \in Nat
  <1>1. doing \in Seq(Frames) /\ Len(doing) \in Nat
    BY DEF EventTypes
  <1>2. /\ doing # << >>
        /\ doing[Len(doing)].what = "native" \/ doing[Len(doing)].what = "trigger"
    BY DEF Climb, Doing, Depth
  <1>3. Len(doing) \in 1..Len(doing)
    BY <1>1, <1>2
  <1>4. Climbs(doing[Len(doing)]) /\ ~ Dispatching(doing[Len(doing)])
    BY <1>2 DEF Climbs, Dispatching
  <1> QED BY <1>1, <1>3, <1>4, EventFacts

\* The event reaches the next element of its path, which lies behind it then.
LEMMA ReachKeeps == ASSUME EventsInv, Reach PROVE EventsInv'
  <1>1. EventTypes /\ Suppressed /\ HandlersFit /\ ClimbsOnce
    BY DEF EventsInv
  <1> DEFINE n == Len(doing)
             f == doing[n]
             p == f.path
             x == Head(p)
             g == [f EXCEPT !.path = Tail(@)]
             moved == [doing EXCEPT ![n] = g]
             d == [what |-> "dispatch", e |-> f.e, of |-> f.of, x |-> x,
                   queue |-> HandlerQueue(x, f.x), last |-> 0, calling |-> FALSE]
  <1>2. /\ doing \in Seq(Frames) /\ n \in Nat /\ n \in 1..n
        /\ Climbs(f) /\ ~ Dispatching(f) /\ f \in Natives \cup Triggers
        /\ p \in Paths /\ f.x \in Elements /\ f.of \in Nat
    BY <1>1, ClimbTop DEF Reach
  <1>3. p # << >>
    BY DEF Reach, AtTheTop, Climbing, Depth
  <1>4. /\ x \in Elements /\ Tail(p) \in Paths /\ Ahead(p, x) /\ ~ Ahead(Tail(p), x)
        /\ \A y \in Elements : Ahead(Tail(p), y) => Ahead(p, y)
    BY <1>2, <1>3, PathSteps
  <1>5. g \in Frames /\ g.what = f.what /\ g.of = f.of /\ g.x = f.x /\ g.path = Tail(p)
        /\ Climbs(g) /\ (Repeats(g) <=> Repeats(f))
    <2>1. g = [f EXCEPT !.path = Tail(p)]
      OBVIOUS
    <2> HIDE DEF f, g
    <2> QED BY <2>1, <1>2, <1>4, ClimbGoesOn
  <1>6. Like(f, g)
    <2> HIDE DEF f, g
    <2> QED BY <1>2, <1>4, <1>5 DEF Like
  <1>7. /\ moved \in Seq(Frames) /\ Len(moved) = n /\ moved[n] = g
        /\ \A k \in 1..n : k # n => moved[k] = doing[k]
    <2>1. doing \in Seq(Frames) /\ n \in 1..n /\ g \in Frames
      BY <1>2, <1>5
    <2> HIDE DEF g
    <2> QED BY <2>1
  <1>8. \A k \in 1..n : Like(doing[k], moved[k])
    <2>1. \A h : Like(h, h)
      BY DEF Like
    <2> HIDE DEF g, moved
    <2> QED BY <2>1, <1>6, <1>7
  <1>9. /\ UNCHANGED <<handlers, delegateCount, listening, triggered, event, uses, ran, nested>>
        /\ IF listening[x] /\ ~ triggered
           THEN /\ doing' = Append(moved, d)
                /\ overlap' = (overlap \/ \E i \in DOMAIN doing :
                                            doing[i].what = "dispatch" /\ doing[i].x = x)
           ELSE doing' = moved /\ UNCHANGED overlap
    BY DEF Reach, Climbing, Depth
  <1>10. /\ event \in Seq(EventFlags) /\ uses \in Nat /\ Len(event) \in Nat /\ DOMAIN doing = 1..n
         /\ nested \in BOOLEAN /\ overlap \in BOOLEAN /\ triggered \in BOOLEAN
    BY <1>1 DEF EventTypes
  <1>11. CASE ~ (listening[x] /\ ~ triggered)
    <2>1. doing' = moved /\ overlap' = overlap
      BY <1>9, <1>11
    <2> HIDE DEF moved, x, g, d
    <2>2. \A k \in 1..Len(doing) : Like(doing[k], doing'[k])
      BY <2>1, <1>8
    <2>3. doing' \in Seq(Frames) /\ Len(doing') = Len(doing)
      BY <2>1, <1>7
    <2>4. uses' \in Nat /\ uses <= uses' /\ event' \in Seq(EventFlags) /\ Len(event') = Len(event)
      BY <1>9, <1>10
    <2> QED BY <2>1, <2>2, <2>3, <2>4, <1>9, FlagsFollow
  <1>12. CASE listening[x] /\ ~ triggered
    <2>1. /\ doing' = Append(moved, d)
          /\ overlap' = (overlap \/ \E i \in 1..n : doing[i].what = "dispatch" /\ doing[i].x = x)
      BY <1>9, <1>10, <1>12
    <2>2. /\ HandlerQueue(x, f.x) \in Seq(HandlerRecords)
          /\ \A i, j \in 1..Len(HandlerQueue(x, f.x)) :
               HandlerQueue(x, f.x)[i].id = HandlerQueue(x, f.x)[j].id => i = j
          /\ \A j \in 1..Len(HandlerQueue(x, f.x)) : \E i \in 1..Len(handlers[x]) :
               HandlerQueue(x, f.x)[j] = handlers[x][i]
      <3> HIDE DEF x, f
      <3> QED BY <1>1, <1>4, QueueFits
    <2>3. f.e \in Nat
      BY <1>2 DEF Natives, Triggers
    <2>4. /\ d \in Dispatches /\ d.what = "dispatch" /\ d.of = f.of /\ d.x = x
          /\ d.queue = HandlerQueue(x, f.x) /\ d.last = 0
      <3>1. ASSUME NEW a \in Nat, NEW b \in Nat, NEW y \in Elements, NEW q \in Seq(HandlerRecords)
            PROVE  LET r == [what |-> "dispatch", e |-> a, of |-> b, x |-> y, queue |-> q,
                             last |-> 0, calling |-> FALSE] IN
                   /\ r \in Dispatches /\ r.what = "dispatch" /\ r.of = b /\ r.x = y
                   /\ r.queue = q /\ r.last = 0
        BY DEF Dispatches
      <3> HIDE DEF f, x
      <3> QED BY <3>1, <2>2, <2>3, <1>2, <1>4
    <2> HIDE DEF d, moved, g
    <2>5. d \in Frames /\ Dispatching(d) /\ ~ Climbs(d) /\ ~ Repeats(d)
      BY <2>4 DEF Frames, Dispatching, Climbs, Repeats
    <2>6. /\ doing' \in Seq(Frames) /\ Len(doing') = n + 1 /\ doing'[n + 1] = d
          /\ \A k \in 1..n : doing'[k] = moved[k]
      BY <2>1, <2>5, <1>7, Pushed
    <2>7. \A k \in 1..Len(doing') : k \in 1..n \/ k = n + 1
      BY <2>6, <1>2
    <2>8. \A k \in 1..n : k <= Len(doing) /\ Like(doing[k], doing'[k])
      BY <2>6, <1>2, <1>8
    <2>9. ~ nested => \A k \in 1..n : ~ Repeats(doing[k])
      BY <1>1, <1>12 DEF Suppressed
    <2>10. Suppressed'
      <3>1. ~ nested => \A k \in 1..Len(doing') : ~ Repeats(doing'[k])
        BY <2>5, <2>6, <2>7, <2>8, <2>9 DEF Like
      <3> QED BY <3>1, <1>9 DEF Suppressed, Repeats
    <2>11. Fresh(n + 1)
      <3> DEFINE m == n + 1
      <3>1. m > 1 /\ m - 1 = n /\ doing'[m] = d /\ doing'[n] = g
        BY <1>2, <1>7, <2>6
      <3> HIDE DEF m
      <3>2. doing'[m].of <= Len(event')
        <4>1. doing[n].of <= Len(event)
          BY <1>1, <1>2 DEF ClimbsOnce
        <4> QED BY <4>1, <3>1, <2>4, <1>9
      <3>3. ~ Climbs(doing'[m])
        BY <3>1, <2>5
      <3>4. ~ overlap' => \A l \in 1..Len(doing) : Dispatching(doing[l]) => doing[l].x # doing'[m].x
        BY <3>1, <2>1, <2>4 DEF Dispatching
      <3>5. ~ nested' => /\ m > 1 /\ Climbs(doing[m - 1]) /\ ~ Repeats(doing[m - 1])
                         /\ doing[m - 1].of = doing'[m].of
                         /\ Ahead(doing[m - 1].path, doing'[m].x)
                         /\ ~ Ahead(doing'[m - 1].path, doing'[m].x)
        BY <3>1, <2>4, <2>9, <1>2, <1>4, <1>5, <1>9
      <3>6. /\ doing'[m].last = 0
            /\ \A i, j \in 1..Len(doing'[m].queue) :
                 doing'[m].queue[i].id = doing'[m].queue[j].id => i = j
            /\ \A j \in 1..Len(doing'[m].queue) : \E i \in 1..Len(handlers[doing'[m].x]) :
                 doing'[m].queue[j] = handlers[doing'[m].x][i]
        BY <3>1, <2>2, <2>4
      <3>7. Fresh(m)
        BY <3>2, <3>3, <3>4, <3>5, <3>6 DEF Fresh
      <3> QED BY <3>7 DEF m
    <2>12. \A k \in 1..Len(doing') : \/ k <= Len(doing) /\ Like(doing[k], doing'[k])
                                     \/ k = Len(doing) + 1 /\ Fresh(k)
      BY <2>7, <2>8, <2>11
    <2>13. /\ triggered' \in BOOLEAN /\ nested' \in BOOLEAN /\ overlap' \in BOOLEAN
           /\ (nested => nested') /\ (overlap => overlap')
           /\ event' \in Seq(EventFlags) /\ Len(event) <= Len(event') /\ uses' \in Nat /\ uses <= uses'
      BY <2>1, <1>9, <1>10
    <2> HIDE DEF n
    <2> QED BY <2>6, <2>10, <2>12, <2>13, <1>9, StackFollows DEF n
  <1> QED BY <1>11, <1>12

\* The default action fires the event a second time, under the flag triggered.
LEMMA DefaultKeeps == ASSUME EventsInv, DefaultAction PROVE EventsInv'
  <1>1. EventTypes /\ Suppressed /\ ClimbsOnce
    BY DEF EventsInv
  <1> DEFINE n == Len(doing)
             f == doing[n]
             g == [f EXCEPT !.only = TRUE]
             moved == [doing EXCEPT ![n] = g]
             d == [what |-> "native", e |-> Len(event) + 1, of |-> f.of, x |-> f.x,
                   path |-> Path[f.x], again |-> TRUE]
  <1>2. /\ doing \in Seq(Frames) /\ n \in Nat /\ n \in 1..n
        /\ Climbs(f) /\ ~ Dispatching(f) /\ f \in Natives \cup Triggers
        /\ f.path \in Paths /\ f.x \in Elements /\ f.of \in Nat /\ f.what = "trigger"
    BY <1>1, ClimbTop DEF DefaultAction, Climb, Doing, Depth
  <1>3. f \in Triggers
    BY <1>2 DEF Natives, Triggers
  <1>4. g \in Frames /\ g.what = f.what /\ g.of = f.of /\ g.x = f.x /\ g.path = f.path
        /\ Climbs(g) /\ ~ Repeats(g) /\ ~ Repeats(f)
    <2> HIDE DEF f
    <2> QED BY <1>2, <1>3, ClimbGoesOn
  <1>5. Like(f, g)
    <2> HIDE DEF f, g
    <2> QED BY <1>2, <1>4 DEF Like
  <1>6. /\ moved \in Seq(Frames) /\ Len(moved) = n /\ moved[n] = g
        /\ \A k \in 1..n : k # n => moved[k] = doing[k]
    <2>1. doing \in Seq(Frames) /\ n \in 1..n /\ g \in Frames
      BY <1>2, <1>4
    <2> HIDE DEF g
    <2> QED BY <2>1
  <1>7. \A k \in 1..n : Like(doing[k], moved[k])
    <2>1. \A h : Like(h, h)
      BY DEF Like
    <2> HIDE DEF g, moved
    <2> QED BY <2>1, <1>5, <1>6
  <1>8. /\ UNCHANGED <<handlers, delegateCount, listening, uses, ran, nested, overlap>>
        /\ triggered' = TRUE /\ event' = NewEvent /\ doing' = Append(moved, d)
    BY DEF DefaultAction, Climbing, Depth
  <1>9. /\ event \in Seq(EventFlags) /\ uses \in Nat /\ Len(event) \in Nat
        /\ nested \in BOOLEAN /\ overlap \in BOOLEAN
    BY <1>1 DEF EventTypes
  <1>10. /\ d \in Natives /\ d.what = "native" /\ d.of = f.of /\ d.again = TRUE
    <2>1. ASSUME NEW a \in Nat, NEW b \in Nat, NEW y \in Elements, NEW q \in Paths
          PROVE  LET r == [what |-> "native", e |-> a, of |-> b, x |-> y, path |-> q, again |-> TRUE] IN
                 r \in Natives /\ r.what = "native" /\ r.of = b /\ r.again = TRUE
      BY DEF Natives
    <2> HIDE DEF f
    <2>2. Path[f.x] \in Paths
      BY <1>2, PathSteps
    <2>3. Len(event) + 1 \in Nat
      BY <1>9
    <2> QED BY <2>1, <2>2, <2>3, <1>2
  <1> HIDE DEF d, moved, g
  <1>11. d \in Frames /\ ~ Dispatching(d) /\ Repeats(d)
    BY <1>10 DEF Frames, Dispatching, Repeats
  <1>12. /\ doing' \in Seq(Frames) /\ Len(doing') = n + 1 /\ doing'[n + 1] = d
         /\ \A k \in 1..n : doing'[k] = moved[k]
    BY <1>6, <1>8, <1>11, Pushed
  <1>13. event' \in Seq(EventFlags) /\ Len(event') = Len(event) + 1
    <2>1. [stopped |-> FALSE, immediate |-> FALSE, prevented |-> FALSE] \in EventFlags
      BY DEF EventFlags
    <2> QED BY <2>1, <1>8, <1>9 DEF NewEvent
  <1>14. \A k \in 1..Len(doing') : k \in 1..n \/ k = n + 1
    BY <1>2, <1>12
  <1>15. \A k \in 1..n : k <= Len(doing) /\ Like(doing[k], doing'[k])
    BY <1>2, <1>7, <1>12
  <1>16. Suppressed'
    <2>1. ~ nested => \A k \in 1..n : ~ Repeats(doing[k])
      BY <1>1, <1>4 DEF Suppressed
    <2>2. ~ nested => \A k \in 1..n : ~ Repeats(doing'[k])
      BY <2>1, <1>15 DEF Like
    <2>3. ~ nested => \A k \in 1..Len(doing') : Repeats(doing'[k]) => k = Len(doing')
      BY <2>2, <1>12, <1>14
    <2> QED BY <2>3, <1>8 DEF Suppressed, Repeats
  <1>17. Fresh(n + 1)
    <2>1. f.of <= Len(event)
      BY <1>1, <1>2 DEF ClimbsOnce
    <2>2. doing'[n + 1] = d /\ d.of <= Len(event')
      BY <2>1, <1>2, <1>9, <1>10, <1>12, <1>13
    <2> HIDE DEF n
    <2> QED BY <2>2, <1>11 DEF Fresh
  <1>18. \A k \in 1..Len(doing') : \/ k <= Len(doing) /\ Like(doing[k], doing'[k])
                                   \/ k = Len(doing) + 1 /\ Fresh(k)
    BY <1>14, <1>15, <1>17
  <1>19. /\ triggered' \in BOOLEAN /\ nested' \in BOOLEAN /\ overlap' \in BOOLEAN
         /\ (nested => nested') /\ (overlap => overlap')
         /\ Len(event) <= Len(event') /\ uses' \in Nat /\ uses <= uses'
    BY <1>8, <1>9, <1>13
  <1> HIDE DEF n
  <1> QED BY <1>8, <1>12, <1>13, <1>16, <1>18, <1>19, StackFollows DEF n

\* on() and one() bind a handler with a new number.
LEMMA OnKeeps == ASSUME EventsInv, On PROVE EventsInv'
  <1>1. EventTypes /\ HandlersFit /\ Numbered
    BY DEF EventsInv
  <1>2. UNCHANGED <<triggered, event, doing, ran, nested, overlap>> /\ uses' = uses + 1
    BY DEF On, Uses
  <1>3. PICK x \in Elements, f \in HandlerFns, one \in BOOLEAN, delegate \in BOOLEAN :
          /\ handlers' = [handlers EXCEPT ![x] = Inserted(x, Bound(f, one, delegate))]
          /\ delegateCount' = [delegateCount EXCEPT ![x] = IF delegate THEN @ + 1 ELSE @]
          /\ listening' = [listening EXCEPT ![x] = TRUE]
    BY DEF On
  <1> DEFINE h == Bound(f, one, delegate)
  <1>4. h \in HandlerRecords /\ h.id = uses + 1 /\ h.delegate = delegate
    <2>1. uses + 1 \in Nat
      BY <1>1 DEF EventTypes
    <2> QED BY <2>1 DEF Bound, HandlerRecords
  <1> HIDE DEF h
  <1>5. AddsHandler(x, h)
    BY <1>3, <1>4 DEF h, AddsHandler
  <1>6. /\ handlers' \in [Elements -> Seq(HandlerRecords)]
        /\ delegateCount' \in [Elements -> Nat] /\ listening' \in [Elements -> BOOLEAN]
        /\ HandlersFit'
        /\ \A y \in Elements : \A i \in 1..Len(handlers'[y]) :
             \/ \E j \in 1..Len(handlers[y]) : handlers'[y][i] = handlers[y][j]
             \/ y = x /\ handlers'[y][i] = h
    BY <1>1, <1>4, <1>5, HandlersGrow
  <1>7. BoundSince(x, h)
    BY <1>4, <1>6 DEF BoundSince
  <1> QED BY <1>2, <1>6, <1>7, HandlersFollow

\* off() unbinds, and nothing that is bound gets another place in the order.
LEMMA OffKeeps == ASSUME EventsInv, Off PROVE EventsInv'
  <1>1. EventTypes /\ HandlersFit
    BY DEF EventsInv
  <1>2. UNCHANGED <<triggered, event, doing, ran, nested, overlap>> /\ uses' = uses + 1
    BY DEF Off, Uses
  <1>3. PICK x \in Elements : \E gone \in SUBSET (DOMAIN handlers[x]) : RemoveHandlers(x, gone)
    <2>1. PICK x \in Elements : \/ RemoveHandlers(x, DOMAIN handlers[x])
                                \/ \E f \in HandlerFns : RemoveHandlers(x, OfFn(x, f))
                                \/ RemoveHandlers(x, Delegates(x))
      BY DEF Off
    <2>2. \A f : OfFn(x, f) \in SUBSET (DOMAIN handlers[x])
      BY DEF OfFn
    <2>3. Delegates(x) \in SUBSET (DOMAIN handlers[x]) /\ DOMAIN handlers[x] \in SUBSET (DOMAIN handlers[x])
      BY DEF Delegates
    <2>4. \E gone \in SUBSET (DOMAIN handlers[x]) : RemoveHandlers(x, gone)
      BY <2>1, <2>2, <2>3
    <2> QED BY <2>4
  <1> PICK gone \in SUBSET (DOMAIN handlers[x]) : RemoveHandlers(x, gone)
    BY <1>3
  <1>4. /\ handlers' \in [Elements -> Seq(HandlerRecords)]
        /\ delegateCount' \in [Elements -> Nat] /\ listening' \in [Elements -> BOOLEAN]
        /\ HandlersFit'
        /\ \A y \in Elements : \A i \in 1..Len(handlers'[y]) : \E j \in 1..Len(handlers[y]) :
             handlers'[y][i] = handlers[y][j] /\ (y = x => j \notin gone)
    BY <1>1, <1>3, HandlersShrink
  <1>5. BoundSince(x, {})
    BY <1>4 DEF BoundSince
  <1> QED BY <1>2, <1>4, <1>5, HandlersFollow

\* Before anything is bound the invariant holds.
LEMMA EventsStart == ASSUME EventsInit PROVE EventsInv
  <1> USE DEF EventsInit
  <1>1. EventTypes
    <2>1. << >> \in Seq(HandlerRecords) /\ << >> \in Seq(EventFlags) /\ << >> \in Seq(Frames)
          /\ << >> \in Seq(Nat \X Elements \X Nat \X BOOLEAN)
      OBVIOUS
    <2> QED BY <2>1 DEF EventTypes
  <1>2. /\ Len(doing) = 0 /\ Len(ran) = 0 /\ \A k \in 1..Len(doing) : FALSE
        /\ \A i \in 1..Len(ran) : FALSE
    OBVIOUS
  <1>3. \A x \in Elements : /\ handlers[x] = << >> /\ Len(handlers[x]) = 0 /\ delegateCount[x] = 0
                            /\ listening[x] = FALSE /\ \A i \in 1..Len(handlers[x]) : FALSE
    OBVIOUS
  <1>4. HandlersFit
    BY <1>3 DEF HandlersFit
  <1>5. \A h : \A x \in Elements : ~ KnownAt(x, h)
    BY <1>2, <1>3 DEF KnownAt
  <1>6. Numbered
    BY <1>2, <1>5 DEF Numbered
  <1>7. ClimbsOnce /\ Suppressed /\ DispatchFits /\ NoneAhead /\ OneIsOver /\ RanOnce
    BY <1>2 DEF ClimbsOnce, Suppressed, DispatchFits, NoneAhead, OneIsOver, RanOnce
  <1> QED BY <1>1, <1>4, <1>6, <1>7 DEF EventsInv

\* Every step keeps it.
LEMMA EventsStep == ASSUME EventsInv, [EventsNext]_eventVars PROVE EventsInv'
  <1>1. CASE EventsNext
    BY <1>1, OnKeeps, OffKeeps, TriggerKeeps, ClickKeeps, StopKeeps, ReachKeeps, CallKeeps,
       ReturnsKeep, ThrowKeeps, EndKeeps, DefaultKeeps DEF EventsNext
  <1>2. CASE UNCHANGED eventVars
    <2>1. /\ UNCHANGED <<handlers, delegateCount, listening, triggered, ran, nested, overlap>>
          /\ event' = event /\ uses' = uses /\ doing' = doing
      BY <1>2 DEF eventVars
    <2>2. event \in Seq(EventFlags) /\ uses \in Nat /\ doing \in Seq(Frames)
      BY DEF EventsInv, EventTypes
    <2>3. \A k \in 1..Len(doing) : Like(doing[k], doing'[k])
      BY <2>1 DEF Like
    <2> QED BY <2>1, <2>2, <2>3, FlagsFollow
  <1> QED BY <1>1, <1>2

\* The handlers of an element are in order while dispatches copy them, one()
\* takes them off and off() removes them; a trigger() whose default action
\* fires the event again lets no handler see it twice, and a one() handler
\* runs once: for every number of functions, handlers and nested events.
THEOREM HandlersRunRightAlways == EventsSpec => []HandlersRunRight
  <1>1. EventsInv => HandlersRunRight
    <2> SUFFICES ASSUME EventsInv PROVE HandlersRunRight
      OBVIOUS
    <2>1. EventTypes /\ HandlersFit /\ RanOnce
      BY DEF EventsInv
    <2>2. /\ \A x \in Elements : DOMAIN handlers[x] = 1..Len(handlers[x])
          /\ DOMAIN ran = 1..Len(ran)
      BY <2>1, EventFacts DEF EventTypes
    <2>3. HandlersInOrder
      BY <2>1, <2>2 DEF HandlersInOrder, HandlersFit
    <2>4. SeenOnce /\ OneRunsOnce
      BY <2>1, <2>2 DEF SeenOnce, OneRunsOnce, RanOnce
    <2> QED BY <2>3, <2>4 DEF HandlersRunRight
  <1>2. EventsSpec => []EventsInv
    BY EventsStart, EventsStep, PTL DEF EventsSpec
  <1> QED BY <1>1, <1>2, PTL
=============================================================================
