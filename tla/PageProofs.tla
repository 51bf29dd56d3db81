------------------------------ MODULE PageProofs ------------------------------
(***************************************************************************)
(* Proofs about a page and the requests it makes. About the page: Ready    *)
(* and Data, for any number of holds and calls, Fade, for fades, show()    *)
(* and hide() in any order, and Modal, for any number of dialogs. About    *)
(* the requests: Ajax, for every number of them that call each other in    *)
(* any nesting; Jsonp, for every number of requests over the pool of       *)
(* names; TaskPage, for every table, page size and number of requests; and *)
(* TaskExecution, which answers the requests to run a task: for every      *)
(* table, every set of threads and every bound on runs, whatever crashes,  *)
(* hangs and throws, the table is the board it is to its operator.         *)
(***************************************************************************)
EXTENDS Ready, Data, Fade, Modal, Ajax, Jsonp, TaskPage, TaskExecution, FiniteSets,
        NaturalsInduction, WellFoundedInduction, FiniteSetTheorems, TLAPS

-----------------------------------------------------------------------------
\* Ready: not before the document and every hold, and then at once.

\* jQuery.isReady says that the document was parsed.
Flags == parsed \in {FALSE, TRUE} /\ isReady = parsed

\* What readyWait counts: the holds, and the document until it is parsed.
WaitCounts ==
  /\ held \in Nat
  /\ parsed = TRUE => readyWait = held
  /\ parsed = FALSE => readyWait = held + 1

\* How the list was resolved; not before the document was parsed.
ResolvedFree ==
  /\ parsed = FALSE => readyList = NotYet
  /\ readyList \in {NotYet, [dom |-> TRUE, held |-> 0]}
  /\ parsed = TRUE /\ held = 0 => readyList # NotYet

\* The inductive invariant.
ReadyInv == Flags /\ WaitCounts /\ ResolvedFree

\* Before ready() has fired nothing is noted of when it did.
LEMMA NotYetDiffers == NotYet # [dom |-> TRUE, held |-> 0]
<1>1. NotYet.dom = FALSE /\ [dom |-> TRUE, held |-> 0].dom = TRUE
  BY DEF NotYet
<1> QED
  BY <1>1

\* It holds while the document is parsed.
LEMMA ReadyInit_Inv == ReadyInit => ReadyInv
<1> SUFFICES ASSUME ReadyInit PROVE ReadyInv
  OBVIOUS
<1>1. parsed = FALSE /\ isReady = FALSE /\ held = 0 /\ readyWait = 1 /\ readyList = NotYet
  BY DEF ReadyInit
<1>0. Flags
  BY <1>1 DEF Flags
<1>2. WaitCounts
  <2>1. parsed = TRUE => readyWait = held
    BY <1>1, Zenon
  <2> QED
    BY <1>1, <2>1 DEF WaitCounts
<1>3. ResolvedFree
  BY <1>1 DEF ResolvedFree
<1> QED
  BY <1>0, <1>2, <1>3 DEF ReadyInv

\* Every step keeps it.
LEMMA ReadyNext_Inv == ReadyInv /\ [ReadyNext]_readyVars => ReadyInv'
<1> SUFFICES ASSUME ReadyInv, [ReadyNext]_readyVars PROVE ReadyInv'
  OBVIOUS
<1> USE DEF ReadyInv
<1>0. held \in Nat /\ parsed \in {FALSE, TRUE}
  BY DEF WaitCounts, Flags
<1>1. CASE Parsed
  <2>1. parsed = FALSE
    BY <1>0, <1>1 DEF Parsed
  <2>2. isReady = FALSE
    BY <2>1 DEF Flags
  <2>3. readyWait = held + 1 /\ readyList = NotYet
    BY <2>1 DEF WaitCounts, ResolvedFree
  <2>4. parsed' = TRUE /\ isReady' = TRUE /\ held' = held
    BY <1>1, <2>2 DEF Parsed
  <2>5. readyWait' = held /\ readyList' = IF held > 0 THEN NotYet ELSE [dom |-> TRUE, held |-> held]
    <3>1. /\ readyWait' = readyWait - 1
          /\ readyList' = IF readyWait > 1 THEN readyList ELSE [dom |-> TRUE, held |-> held]
      BY <1>1, <2>2, <2>3 DEF Parsed, Resolve
    <3> QED
      BY <1>0, <2>3, <3>1
  <2>6. WaitCounts'
    BY <1>0, <2>4, <2>5 DEF WaitCounts
  <2>7. ResolvedFree'
    <3>1. CASE held > 0
      BY <1>0, <2>4, <2>5, <3>1 DEF ResolvedFree
    <3>2. CASE held = 0
      BY <2>4, <2>5, <3>2, NotYetDiffers DEF ResolvedFree
    <3> QED
      BY <1>0, <3>1, <3>2
  <2> QED
    BY <2>4, <2>6, <2>7 DEF Flags
<1>2. CASE Hold
  <2>1. held' = held + 1 /\ readyWait' = readyWait + 1
         /\ UNCHANGED <<isReady, readyList, parsed>>
    BY <1>2 DEF Hold
  <2>2. Flags'
    BY <2>1 DEF Flags
  <2>3. WaitCounts'
    BY <1>0, <2>1 DEF WaitCounts
  <2>4. ResolvedFree'
    BY <1>0, <2>1 DEF ResolvedFree
  <2> QED
    BY <2>2, <2>3, <2>4
<1>3. CASE Release
  <2>1. held > 0 /\ held' = held - 1 /\ readyWait' = readyWait - 1 /\ parsed' = parsed
    BY <1>3 DEF Release
  <2>2. CASE readyWait > 1
    <3>1. isReady' = isReady /\ readyList' = readyList
      BY <1>3, <2>2 DEF Release
    <3>2. Flags'
      BY <2>1, <3>1 DEF Flags
    <3>3. WaitCounts'
      BY <1>0, <2>1 DEF WaitCounts
    <3>4. ResolvedFree'
      <4>1. parsed = TRUE => held > 1
        BY <1>0, <2>2 DEF WaitCounts
      <4> QED
        BY <1>0, <2>1, <3>1, <4>1 DEF ResolvedFree
    <3> QED
      BY <3>2, <3>3, <3>4
  <2>3. CASE ~ (readyWait > 1)
    <3>1. parsed = TRUE /\ held = 1 /\ readyWait = 1
      BY <1>0, <2>1, <2>3 DEF WaitCounts
    <3>2. isReady' = TRUE /\ readyList' = IF readyList = NotYet THEN [dom |-> parsed, held |-> held - 1] ELSE readyList
      BY <1>3, <2>3 DEF Release, Resolve
    <3>3. readyList' = [dom |-> TRUE, held |-> 0]
      <4>1. held - 1 = 0
        BY <3>1
      <4>2. readyList' = IF readyList = NotYet THEN [dom |-> TRUE, held |-> 0] ELSE readyList
        BY <3>1, <3>2, <4>1, Zenon
      <4> QED
        BY <4>2 DEF ResolvedFree
    <3>4. Flags'
      BY <2>1, <3>1, <3>2 DEF Flags
    <3>5. WaitCounts'
      BY <2>1, <3>1 DEF WaitCounts
    <3>6. ResolvedFree'
      BY <2>1, <3>1, <3>3, NotYetDiffers DEF ResolvedFree
    <3> QED
      BY <3>4, <3>5, <3>6
  <2> QED
    BY <2>2, <2>3
<1>4. ASSUME NEW fn \in ReadyFns, PassReady(fn) \/ RunReady(fn) PROVE ReadyInv'
  BY <1>4 DEF PassReady, RunReady, Flags, WaitCounts, ResolvedFree
<1>5. CASE UNCHANGED readyVars
  BY <1>5 DEF readyVars, Flags, WaitCounts, ResolvedFree
<1> QED
  BY <1>1, <1>2, <1>3, <1>4, <1>5 DEF ReadyNext

\* jQuery.ready and holdReady: the list is resolved by the event that makes
\* readyWait zero, and by no earlier one, for every number of holds.
THEOREM ReadyWhenFreeAlways == ReadySpec => []ReadyWhenFree
<1>1. ReadyInv => ReadyWhenFree
  BY DEF ReadyInv, Flags, ResolvedFree, ReadyWhenFree
<1> QED
  BY ReadyInit_Inv, ReadyNext_Inv, <1>1, PTL DEF ReadySpec

-----------------------------------------------------------------------------
\* Data: an element keeps its data.

\* The cache objects, by number.
Objects == 1 .. Len(objects)
\* What a key may hold.
AnyValue == Values \cup {Undefined}

\* What the variables hold.
DataTypes ==
  /\ attributes \in [Owners -> [Keys -> AnyValue]]
  /\ userData \in [Owners -> Nat]
  /\ objects \in Seq([Keys -> AnyValue])
  /\ inPage \subseteq Owners
  /\ heldObject \in Nat
  /\ agreed \in [Owners -> [Keys -> AnyValue]]

\* An element has an object of its own; a clone that is not made yet has none.
ObjectsInv ==
  /\ \A e \in Owners : userData[e] # NoCache => userData[e] \in Objects
  /\ heldObject # NoCache => heldObject \in Objects
  /\ userData["element"] # NoCache => userData["element"] # userData["clone"]

\* Where page and element agree on a whole value, the element has it.
AgreedInv ==
  \A e \in Owners, k \in Keys : Whole(agreed[e][k]) => Stored(e)[k] = agreed[e][k]

\* The inductive invariant.
DataInv == DataTypes /\ ObjectsInv /\ AgreedInv

-----------------------------------------------------------------------------
\* It holds for an element without data.
LEMMA DataInit_Inv == DataInit => DataInv
<1> SUFFICES ASSUME DataInit PROVE DataInv
  OBVIOUS
<1>1. NoData \in [Keys -> AnyValue] /\ \A k \in Keys : NoData[k] = Undefined
  BY DEF NoData, AnyValue
<1> HIDE DEF NoData
<1>2. DataTypes
  BY <1>1 DEF DataInit, DataTypes, Owners, NoCache
<1>3. ObjectsInv
  BY DEF DataInit, ObjectsInv, Owners
<1>4. AgreedInv
  BY <1>1 DEF DataInit, AgreedInv, Whole
<1> QED
  BY <1>2, <1>3, <1>4 DEF DataInv

\* The data of an element is a value for each key.
LEMMA StoredType ==
  ASSUME DataInv, NEW e \in Owners
  PROVE  Stored(e) \in [Keys -> AnyValue]
<1>1. NoData \in [Keys -> AnyValue]
  BY DEF NoData, AnyValue
<1> QED
  BY <1>1 DEF DataInv, DataTypes, ObjectsInv, Objects, Stored

\* What cache() does: e's data is d, the other element's is as it was.
LEMMA CacheEffect ==
  ASSUME DataInv, NEW e \in Owners, NEW d \in [Keys -> AnyValue], Cache(e, d)
  PROVE  /\ userData' \in [Owners -> Nat] /\ objects' \in Seq([Keys -> AnyValue])
         /\ Len(objects) <= Len(objects')
         /\ \A f \in Owners : userData'[f] # NoCache => userData'[f] \in Objects'
         /\ userData'["element"] # NoCache => userData'["element"] # userData'["clone"]
         /\ Stored(e)' = d
         /\ \A f \in Owners \ {e} : Stored(f)' = Stored(f)
         /\ userData'[e] \in Objects'
<1> USE DEF DataInv, NoCache
<1>1. userData \in [Owners -> Nat] /\ objects \in Seq([Keys -> AnyValue])
  BY DEF DataTypes
<1>2. CASE userData[e] = NoCache
  <2>1. objects' = Append(objects, d) /\ userData' = [userData EXCEPT ![e] = Len(objects')]
    BY <1>2 DEF Cache
  <2>2. /\ objects' \in Seq([Keys -> AnyValue]) /\ Len(objects') = Len(objects) + 1
        /\ objects'[Len(objects) + 1] = d
        /\ \A i \in Objects : objects'[i] = objects[i]
    BY <1>1, <2>1 DEF Objects
  <2>3. /\ userData' \in [Owners -> Nat] /\ userData'[e] = Len(objects) + 1
        /\ \A f \in Owners \ {e} : userData'[f] = userData[f]
    BY <1>1, <2>1, <2>2
  <2>4. \A f \in Owners \ {e} : Stored(f)' = Stored(f)
    BY <2>2, <2>3 DEF Stored, ObjectsInv
  <2>5. Stored(e)' = d
    BY <1>1, <2>2, <2>3 DEF Stored
  <2>6. \A f \in Owners : userData'[f] # NoCache => userData'[f] \in Objects'
    BY <1>1, <2>2, <2>3 DEF ObjectsInv, Objects
  <2>7. \A f \in Owners : userData[f] # Len(objects) + 1
    BY <1>1 DEF ObjectsInv, Objects
  <2>8. userData'["element"] # userData'["clone"]
    BY <2>3, <2>7 DEF Owners
  <2> QED
    BY <1>1, <2>2, <2>3, <2>4, <2>5, <2>6, <2>8
<1>3. CASE userData[e] # NoCache
  <2>1. objects' = [objects EXCEPT ![userData[e]] = d] /\ userData' = userData
    BY <1>3 DEF Cache
  <2>2. userData[e] \in Objects
    BY <1>3 DEF ObjectsInv
  <2>3. /\ objects' \in Seq([Keys -> AnyValue]) /\ Len(objects') = Len(objects)
        /\ objects'[userData[e]] = d
        /\ \A i \in Objects \ {userData[e]} : objects'[i] = objects[i]
    BY <1>1, <2>1, <2>2 DEF Objects
  <2>4. \A f \in Owners \ {e} : userData[f] # userData[e]
    BY <1>3 DEF ObjectsInv, Owners
  <2>5. \A f \in Owners \ {e} : Stored(f)' = Stored(f)
    BY <2>1, <2>3, <2>4 DEF Stored, ObjectsInv
  <2>6. Stored(e)' = d
    BY <1>3, <2>1, <2>3 DEF Stored
  <2> QED
    BY <1>1, <2>1, <2>2, <2>3, <2>5, <2>6 DEF ObjectsInv, Objects
<1> QED
  BY <1>2, <1>3

\* Data that grows by what was undefined keeps what was agreed on.
LEMMA AttributesKeep ==
  ASSUME DataInv, NEW e \in Owners, NEW ks \in SUBSET Keys
  PROVE  /\ WithAttributes(e, ks) \in [Keys -> AnyValue]
         /\ \A k \in Keys : Whole(Stored(e)[k]) => WithAttributes(e, ks)[k] = Stored(e)[k]
  BY StoredType DEF WithAttributes, DataInv, DataTypes

-----------------------------------------------------------------------------
\* A call that makes e's data d, and what is agreed for e the same or less.
LEMMA CallKeeps ==
  ASSUME DataInv, NEW e \in Owners, NEW d \in [Keys -> AnyValue], NEW a \in [Keys -> AnyValue],
         Cache(e, d) \/ (d = Stored(e) /\ UNCHANGED <<userData, objects>>),
         agreed' = [agreed EXCEPT ![e] = a],
         \A k \in Keys : Whole(a[k]) => d[k] = a[k],
         attributes' \in [Owners -> [Keys -> AnyValue]], inPage' \subseteq Owners,
         heldObject' = heldObject \/ heldObject' = userData'[e]
  PROVE  DataInv'
<1> USE DEF DataInv
<1>1. agreed' \in [Owners -> [Keys -> AnyValue]] /\ agreed'[e] = a
      /\ \A f \in Owners \ {e} : agreed'[f] = agreed[f]
  BY DEF DataTypes
<1>2. CASE Cache(e, d)
  <2>1. heldObject' \in Nat /\ (heldObject' # NoCache => heldObject' \in Objects')
    BY <1>2, CacheEffect DEF DataTypes, ObjectsInv, Objects
  <2>2. DataTypes'
    BY <1>1, <1>2, <2>1, CacheEffect DEF DataTypes
  <2>3. ObjectsInv'
    BY <1>2, <2>1, CacheEffect DEF ObjectsInv
  <2>4. AgreedInv'
    BY <1>1, <1>2, CacheEffect DEF AgreedInv
  <2> QED
    BY <2>2, <2>3, <2>4
<1>3. CASE d = Stored(e) /\ UNCHANGED <<userData, objects>>
  <2>1. \A f \in Owners : Stored(f)' = Stored(f)
    BY <1>3 DEF Stored
  <2>2. heldObject' \in Nat /\ (heldObject' # NoCache => heldObject' \in Objects')
    BY <1>3 DEF DataTypes, ObjectsInv, Objects
  <2>3. DataTypes' /\ ObjectsInv'
    BY <1>1, <1>3, <2>2 DEF DataTypes, ObjectsInv, Objects
  <2>4. AgreedInv'
    BY <1>1, <1>3, <2>1 DEF AgreedInv
  <2> QED
    BY <2>3, <2>4
<1> QED
  BY <1>2, <1>3

\* data(key, value) keeps the invariant,
LEMMA SetDataStep ==
  ASSUME DataInv, NEW e \in Owners, NEW k \in Keys, NEW v \in Values, SetData(e, k, v)
  PROVE  DataInv'
<1> DEFINE d == [Stored(e) EXCEPT ![k] = v]
           a == [agreed[e] EXCEPT ![k] = v]
<1>1. d \in [Keys -> AnyValue] /\ a \in [Keys -> AnyValue]
  BY StoredType DEF AnyValue, DataInv, DataTypes
<1>2. \A l \in Keys : Whole(a[l]) => d[l] = a[l]
  BY StoredType DEF DataInv, DataTypes, AgreedInv
<1>3. /\ Cache(e, d) /\ agreed' = [agreed EXCEPT ![e] = a]
      /\ UNCHANGED <<attributes, inPage, heldObject>>
  BY DEF SetData, Agree
<1>4. attributes' \in [Owners -> [Keys -> AnyValue]] /\ inPage' \subseteq Owners
  BY <1>3 DEF DataInv, DataTypes
<1> HIDE DEF d, a
<1> QED
  BY <1>1, <1>2, <1>3, <1>4, CallKeeps

\* and so does data(key), which may copy an attribute,
LEMMA GetDataStep ==
  ASSUME DataInv, NEW e \in Owners, NEW k \in Keys, GetData(e, k)
  PROVE  DataInv'
<1> DEFINE d == WithAttributes(e, {k})
           a == IF Whole(agreed[e][k]) THEN agreed[e] ELSE [agreed[e] EXCEPT ![k] = d[k]]
<1>1. /\ d \in [Keys -> AnyValue]
      /\ \A l \in Keys : Whole(Stored(e)[l]) => d[l] = Stored(e)[l]
  BY AttributesKeep
<1>2. /\ Cache(e, d) \/ (d = Stored(e) /\ UNCHANGED <<userData, objects>>)
      /\ agreed' = [agreed EXCEPT ![e] = a]
      /\ UNCHANGED <<attributes, inPage, heldObject>>
  BY DEF GetData, Agree
<1> HIDE DEF d
<1>3. a \in [Keys -> AnyValue]
  BY <1>1 DEF DataInv, DataTypes
<1>4. \A l \in Keys : Whole(a[l]) => d[l] = a[l]
  BY <1>1 DEF DataInv, DataTypes, AgreedInv
<1>5. attributes' \in [Owners -> [Keys -> AnyValue]] /\ inPage' \subseteq Owners
  BY <1>2 DEF DataInv, DataTypes
<1> HIDE DEF a
<1> QED
  BY <1>1, <1>2, <1>3, <1>4, <1>5, CallKeeps

\* and data(), which copies all and hands out the object,
LEMMA GetAllDataStep ==
  ASSUME DataInv, NEW e \in Owners, GetAllData(e)
  PROVE  DataInv'
<1> DEFINE ks == IF e \in hasDataAttrs THEN {} ELSE Keys
           d == WithAttributes(e, ks)
           a == [k \in Keys |-> IF Whole(agreed[e][k]) THEN agreed[e][k] ELSE d[k]]
<1>1. ks \in SUBSET Keys
  OBVIOUS
<1>2. /\ Cache(e, d) /\ agreed' = [agreed EXCEPT ![e] = a]
      /\ heldObject' = userData'[e] /\ UNCHANGED <<attributes, inPage>>
  BY DEF GetAllData, Agree
<1> HIDE DEF ks
<1>3. /\ d \in [Keys -> AnyValue]
      /\ \A l \in Keys : Whole(Stored(e)[l]) => d[l] = Stored(e)[l]
  BY <1>1, AttributesKeep
<1> HIDE DEF d
<1>4. a \in [Keys -> AnyValue]
  BY <1>3 DEF DataInv, DataTypes
<1>5. \A l \in Keys : Whole(a[l]) => d[l] = a[l]
  BY <1>3 DEF DataInv, DataTypes, AgreedInv
<1>6. attributes' \in [Owners -> [Keys -> AnyValue]] /\ inPage' \subseteq Owners
  BY <1>2 DEF DataInv, DataTypes
<1> HIDE DEF a
<1> QED
  BY <1>2, <1>3, <1>4, <1>5, <1>6, CallKeeps

\* The page's object may be an element's, or one that was let go.
LEMMA WriteObjectStep ==
  ASSUME DataInv, NEW k \in Keys, NEW v \in Values, WriteObject(k, v)
  PROVE  DataInv'
<1> USE DEF DataInv, NoCache
<1> DEFINE n == heldObject
<1>1. /\ n # NoCache /\ objects' = [objects EXCEPT ![n][k] = v]
      /\ agreed' = [e \in Owners |-> IF userData[e] = n
                                     THEN [agreed[e] EXCEPT ![k] = v] ELSE agreed[e]]
      /\ UNCHANGED <<attributes, userData, inPage, heldObject>>
  BY DEF WriteObject
<1>2. n \in Objects /\ objects \in Seq([Keys -> AnyValue]) /\ v \in AnyValue
  BY <1>1 DEF ObjectsInv, DataTypes, AnyValue
<1> HIDE DEF n
<1>3. objects[n] \in [Keys -> AnyValue]
  BY <1>2 DEF Objects
<1>4. [objects[n] EXCEPT ![k] = v] \in [Keys -> AnyValue]
  BY <1>2, <1>3
<1>5. /\ objects' \in Seq([Keys -> AnyValue]) /\ Len(objects') = Len(objects)
      /\ objects'[n] = [objects[n] EXCEPT ![k] = v]
      /\ \A i \in Objects \ {n} : objects'[i] = objects[i]
  BY <1>1, <1>2, <1>4 DEF Objects
<1>6. agreed' \in [Owners -> [Keys -> AnyValue]]
  BY <1>1, <1>2 DEF DataTypes
<1>7. DataTypes' /\ ObjectsInv'
  BY <1>1, <1>5, <1>6 DEF DataTypes, ObjectsInv, Objects
<1>8. ASSUME NEW e \in Owners, NEW l \in Keys, Whole(agreed'[e][l])
      PROVE  Stored(e)'[l] = agreed'[e][l]
  <2>1. CASE userData[e] = n
    <3>1. Stored(e) = objects[n] /\ Stored(e)' = [objects[n] EXCEPT ![k] = v]
      BY <1>1, <1>5, <2>1 DEF Stored
    <3>2. agreed'[e] = [agreed[e] EXCEPT ![k] = v] /\ agreed[e] \in [Keys -> AnyValue]
      BY <1>1, <2>1 DEF DataTypes
    <3> QED
      BY <1>3, <1>8, <3>1, <3>2 DEF AgreedInv
  <2>2. CASE userData[e] # n
    <3>1. Stored(e)' = Stored(e)
      BY <1>1, <1>5, <2>2 DEF Stored, ObjectsInv
    <3>2. agreed'[e] = agreed[e]
      BY <1>1, <2>2
    <3> QED
      BY <1>8, <3>1, <3>2 DEF AgreedInv
  <2> QED
    BY <2>1, <2>2
<1> QED
  BY <1>7, <1>8 DEF AgreedInv

\* An element's object is let go, changed or not; nothing of it is agreed on
\* that it does not keep.
LEMMA LetGoKeeps ==
  ASSUME DataInv, NEW e \in Owners, LetGo(e), NEW a \in [Keys -> AnyValue],
         \A k \in Keys : ~ Whole(a[k]),
         agreed' = [agreed EXCEPT ![e] = a],
         objects' \in Seq([Keys -> AnyValue]), Len(objects') = Len(objects),
         \A i \in Objects : i # userData[e] => objects'[i] = objects[i],
         UNCHANGED <<attributes, inPage, heldObject>>
  PROVE  DataInv'
<1> USE DEF DataInv, NoCache
<1>1. /\ userData' \in [Owners -> Nat] /\ userData'[e] = NoCache
      /\ \A f \in Owners \ {e} : userData'[f] = userData[f]
  BY DEF LetGo, DataTypes
<1>2. /\ agreed' \in [Owners -> [Keys -> AnyValue]] /\ agreed'[e] = a
      /\ \A f \in Owners \ {e} : agreed'[f] = agreed[f]
  BY DEF DataTypes
<1>3. \A f \in Owners \ {e} : userData[f] # NoCache => userData[f] # userData[e]
  BY DEF ObjectsInv, Owners
<1>4. \A f \in Owners \ {e} : Stored(f)' = Stored(f)
  BY <1>1, <1>3 DEF Stored, ObjectsInv
<1>5. DataTypes'
  BY <1>1, <1>2 DEF DataTypes
<1>6. ObjectsInv'
  BY <1>1 DEF ObjectsInv, Objects, Owners
<1>7. AgreedInv'
  BY <1>2, <1>4 DEF AgreedInv
<1> QED
  BY <1>5, <1>6, <1>7

\* and removeData(), which drops an object without keys.
LEMMA RemoveDataStep ==
  ASSUME DataInv, NEW e \in Owners, NEW ks \in SUBSET Keys, RemoveData(e, ks)
  PROVE  DataInv'
<1> DEFINE kept == [k \in Keys |-> IF k \in ks THEN Undefined ELSE Stored(e)[k]]
           a == [k \in Keys |-> IF k \in ks THEN Undefined ELSE agreed[e][k]]
<1>1. kept \in [Keys -> AnyValue] /\ a \in [Keys -> AnyValue]
  BY StoredType DEF AnyValue, DataInv, DataTypes
<1>2. \A k \in Keys : Whole(a[k]) => kept[k] = a[k]
  BY DEF DataInv, AgreedInv, Whole
<1>3. agreed' = [agreed EXCEPT ![e] = a] /\ UNCHANGED <<attributes, inPage, heldObject>>
  BY DEF RemoveData, Agree
<1>4. attributes' \in [Owners -> [Keys -> AnyValue]] /\ inPage' \subseteq Owners
  BY <1>3 DEF DataInv, DataTypes
<1>5. CASE userData[e] = NoCache
  <2>1. UNCHANGED <<userData, objects>>
    BY <1>5 DEF RemoveData
  <2>2. Stored(e) = NoData
    BY <1>5 DEF Stored
  <2>3. kept = Stored(e)
    BY <2>2 DEF NoData
  <2> HIDE DEF kept, a
  <2> QED
    BY <1>1, <1>2, <1>3, <1>4, <2>1, <2>3, CallKeeps
<1>6. CASE userData[e] # NoCache
  <2>1. objects' = [objects EXCEPT ![userData[e]] = kept]
        /\ IF kept = NoData THEN LetGo(e) ELSE UNCHANGED userData
    BY <1>6 DEF RemoveData
  <2> HIDE DEF kept, a
  <2>2. CASE kept = NoData
    <3>1. \A k \in Keys : ~ Whole(a[k])
      BY <1>2, <2>2 DEF NoData, Whole
    <3>2. userData[e] \in Objects /\ objects \in Seq([Keys -> AnyValue])
      BY <1>6 DEF DataInv, DataTypes, ObjectsInv
    <3>3. /\ objects' \in Seq([Keys -> AnyValue]) /\ Len(objects') = Len(objects)
          /\ \A i \in Objects : i # userData[e] => objects'[i] = objects[i]
      BY <1>1, <2>1, <3>2 DEF Objects
    <3> QED
      BY <1>1, <1>3, <2>1, <2>2, <3>1, <3>3, LetGoKeeps
  <2>3. CASE kept # NoData
    <3>1. Cache(e, kept)
      BY <1>6, <2>1, <2>3 DEF Cache
    <3> QED
      BY <1>1, <1>2, <1>3, <1>4, <3>1, CallKeeps
  <2> QED
    BY <2>2, <2>3
<1> QED
  BY <1>5, <1>6

\* removeData() and cleanData().
LEMMA RemoveAllStep ==
  ASSUME DataInv, NEW e \in Owners, RemoveAllData(e) \/ CleanData(e)
  PROVE  DataInv'
<1>1. NoData \in [Keys -> AnyValue] /\ \A k \in Keys : ~ Whole(NoData[k])
  BY DEF NoData, AnyValue, Whole
<1>2. /\ LetGo(e) /\ agreed' = [agreed EXCEPT ![e] = NoData]
      /\ UNCHANGED <<attributes, objects, inPage, heldObject>>
  BY DEF RemoveAllData, CleanData, Agree
<1>3. objects' \in Seq([Keys -> AnyValue])
  BY <1>2 DEF DataInv, DataTypes
<1> HIDE DEF NoData
<1> QED
  BY <1>1, <1>2, <1>3, LetGoKeeps

\* The clone has the element's attributes, and its data or none.
LEMMA CloneStep ==
  ASSUME DataInv, NEW withData \in BOOLEAN, Clone(withData)
  PROVE  DataInv'
<1> USE DEF DataInv
<1> DEFINE d == Stored("element")
<1>0. "element" \in Owners /\ "clone" \in Owners /\ "element" # "clone" /\ Owners = {"element", "clone"}
  BY DEF Owners
<1>1. d \in [Keys -> AnyValue]
  BY <1>0, StoredType
<1>2. /\ attributes' \in [Owners -> [Keys -> AnyValue]] /\ inPage' \subseteq Owners
      /\ heldObject' = heldObject
  BY <1>0 DEF Clone, DataTypes
<1>3. agreed["element"] \in [Keys -> AnyValue]
  BY <1>0 DEF DataTypes
<1>4. \A k \in Keys : Whole(agreed["element"][k]) => d[k] = agreed["element"][k]
  BY <1>0 DEF AgreedInv
<1>5. CASE withData = TRUE /\ d # NoData
  <2>1. Cache("clone", d) /\ agreed' = [agreed EXCEPT !["clone"] = agreed["element"]]
    BY <1>5 DEF Clone, Agree
  <2> QED
    BY <1>0, <1>1, <1>2, <1>3, <1>4, <2>1, CallKeeps
<1>6. CASE withData = TRUE /\ d = NoData
  <2>1. UNCHANGED <<userData, objects>> /\ agreed' = [agreed EXCEPT !["clone"] = agreed["element"]]
    BY <1>6 DEF Clone, Agree
  <2>2. \A k \in Keys : ~ Whole(agreed["element"][k])
    BY <1>4, <1>6 DEF NoData, Whole
  <2>3. Stored("clone") \in [Keys -> AnyValue]
    BY <1>0, StoredType
  <2> QED
    BY <1>0, <1>2, <1>3, <2>1, <2>2, <2>3, CallKeeps
<1>7. CASE withData = FALSE
  <2>1. UNCHANGED <<userData, objects, agreed>>
    BY <1>7 DEF Clone
  <2> QED
    BY <1>2, <2>1 DEF DataTypes, ObjectsInv, Objects, AgreedInv, Stored
<1> QED
  BY <1>5, <1>6, <1>7

\* Every step keeps the invariant.
LEMMA DataNext_Inv == DataInv /\ [DataNext]_dataVars => DataInv'
<1> SUFFICES ASSUME DataInv, [DataNext]_dataVars PROVE DataInv'
  OBVIOUS
<1>0. inPage \subseteq Owners
  BY DEF DataInv, DataTypes
<1>1. ASSUME NEW e \in Owners, NEW k \in Keys, NEW v \in AnyValue, SetAttribute(e, k, v)
      PROVE  DataInv'
  <2>1. attributes' \in [Owners -> [Keys -> AnyValue]]
    BY <1>1 DEF SetAttribute, DataInv, DataTypes
  <2>2. UNCHANGED <<userData, objects, inPage, heldObject, agreed>>
    BY <1>1 DEF SetAttribute
  <2> QED
    BY <2>1, <2>2 DEF DataInv, DataTypes, ObjectsInv, Objects, AgreedInv, Stored
<1>2. ASSUME NEW e \in Owners, NEW k \in Keys, NEW v \in Values, SetData(e, k, v) PROVE DataInv'
  BY <1>2, SetDataStep
<1>3. ASSUME NEW e \in Owners, NEW k \in Keys, GetData(e, k) PROVE DataInv'
  BY <1>3, GetDataStep
<1>4. ASSUME NEW e \in Owners, GetAllData(e) PROVE DataInv'
  BY <1>4, GetAllDataStep
<1>5. ASSUME NEW e \in Owners, RemoveAllData(e) \/ CleanData(e) PROVE DataInv'
  BY <1>5, RemoveAllStep
<1>6. ASSUME NEW e \in Owners, NEW ks \in (SUBSET Keys) \ {{}}, RemoveData(e, ks) PROVE DataInv'
  BY <1>6, RemoveDataStep
<1>7. ASSUME NEW k \in Keys, NEW v \in Values, WriteObject(k, v) PROVE DataInv'
  BY <1>7, WriteObjectStep
<1>8. ASSUME NEW withData \in BOOLEAN, Clone(withData) PROVE DataInv'
  BY <1>8, CloneStep
<1>9. CASE UNCHANGED dataVars
  BY <1>9 DEF dataVars, DataInv, DataTypes, ObjectsInv, Objects, AgreedInv, Stored
<1> QED
  BY <1>0, <1>1, <1>2, <1>3, <1>4, <1>5, <1>6, <1>7, <1>8, <1>9 DEF DataNext, AnyValue

\* data(), removeData(), clone() and cleanData(): what was set or read stays,
\* for every number of calls, keys and values.
THEOREM DataKeptAlways == DataSpec => []DataKept
<1>1. DataInv => DataKept
  BY DEF DataInv, DataTypes, AgreedInv, DataKept
<1> QED
  BY DataInit_Inv, DataNext_Inv, <1>1, PTL DEF DataSpec

-----------------------------------------------------------------------------
\* Fade: a fade ends as asked.

\* What the variables hold.
Displays == {"", "none", "block"}
Levels == {"zero", "mid", "half", "full"}
Opacities == Levels \cup {""}
Notes == [opacity : Levels, hidden : {"yes", "no", "unknown"}]
Fades == [way : Ways, hidden : BOOLEAN, orig : Opacities, end : Levels, tweens : BOOLEAN]

\* The types of the fade machine.
FadeTypes ==
  /\ cascade \in BOOLEAN /\ disturbed \in BOOLEAN
  /\ display \in Displays /\ oldDisplay \in {"absent", "", "block"}
  /\ opacity \in Opacities /\ first \in {"", "half"}
  /\ fxshow = Absent \/ fxshow \in Notes
  /\ fade = Absent \/ fade \in Fades

\* The notes always name the opacity that the page set, and so does what a
\* fade with tweens goes back to; without notes the style itself does.
OpacityKept ==
  /\ IF fxshow = Absent THEN Level(opacity) = Level(first)
                        ELSE fxshow.opacity = Level(first)
  /\ fade /= Absent /\ fade.tweens =>
       fxshow /= Absent /\ Level(fade.orig) = Level(first)

\* What a fade that nothing disturbed will come to.
WillEndAsAsked ==
  fade /= Absent =>
    /\ ended = "none"
    /\ ~ disturbed /\ fade.way = "show" => ~ IsHidden(display) /\ (fade.tweens => fade.hidden)
    /\ ~ disturbed /\ fade.way = "hide" => IF fade.tweens THEN ~ fade.hidden
                                           ELSE IsHidden(display)

\* The inductive invariant.
FadeInv == FadeTypes /\ OpacityKept /\ WillEndAsAsked /\ EndsAsAsked
-----------------------------------------------------------------------------
\* Notes are never mistaken for their absence.
LEMMA NotesAreThere == \A n \in Notes : n /= Absent
  <1>1. \A n \in Notes : "opacity" \in DOMAIN n
    BY DEF Notes
  <1>2. "opacity" \notin DOMAIN Absent
    BY DEF Absent
  <1> QED BY <1>1, <1>2

\* What show() makes of a style is displayed.
LEMMA ShownIsVisible ==
  ASSUME FadeTypes
  PROVE  /\ Shown(display, oldDisplay) \in Displays
         /\ ~ IsHidden(Shown(display, oldDisplay))
  BY DEF FadeTypes, Shown, IsHidden, Displays

\* display "none" is hidden.
LEMMA NoneIsHidden == IsHidden("none")
  BY DEF IsHidden

\* A style stands for a level.
LEMMA LevelTypes == \A o \in Opacities : Level(o) \in Levels
  BY DEF Level, Levels, Opacities

\* The page sets no opacity that Level() would take for invisible.
LEMMA FirstLevel ==
  ASSUME FadeTypes PROVE Level(first) \in Levels \ {"zero"} /\ Level(Level(first)) = Level(first)
  BY DEF FadeTypes, Level, Levels

\* show() displays and hide() hides.
LEMMA ShowHideTypes ==
  ASSUME FadeTypes, NEW show \in BOOLEAN, ShowHide(show)
  PROVE  /\ display' \in Displays /\ oldDisplay' \in {"absent", "", "block"}
         /\ show => ~ IsHidden(display')
         /\ ~ show => display' = "none"
  <1>1. CASE show
    BY <1>1, ShownIsVisible DEF ShowHide, FadeTypes
  <1>2. CASE ~ show
    BY <1>2 DEF ShowHide, FadeTypes, Displays
  <1> QED BY <1>1, <1>2

\* The invariant holds for an element the page has styled.
LEMMA FadeInvInit == FadeInit => FadeInv
  BY NotesAreThere DEF FadeInit, FadeInv, FadeTypes, OpacityKept, WillEndAsAsked, EndsAsAsked,
     Displays, Levels, Opacities, Level

\* A plain call in the middle of a fade is noted as a disturbance.
LEMMA FadeInvPlain ==
  ASSUME FadeInv, NEW way \in Ways, Plain(way) PROVE FadeInv'
  <1> DEFINE show == way = "show" \/ (way = "toggle" /\ IsHidden(display))
  <1>1. ShowHide(show) /\ show \in BOOLEAN
    BY DEF Plain
  <1>2. FadeTypes'
    <2> HIDE DEF show
    <2>1. display' \in Displays /\ oldDisplay' \in {"absent", "", "block"}
      BY <1>1, ShowHideTypes DEF FadeInv
    <2>2. disturbed' \in BOOLEAN
      BY DEF Plain
    <2> QED BY <2>1, <2>2 DEF Plain, FadeInv, FadeTypes
  <1>3. OpacityKept'
    BY DEF Plain, FadeInv, OpacityKept, Level
  <1>4. WillEndAsAsked'
    BY DEF Plain, WillEndAsAsked
  <1>5. EndsAsAsked'
    BY DEF Plain, EndsAsAsked
  <1> QED BY <1>2, <1>3, <1>4, <1>5 DEF FadeInv

\* A fade goes by the notes of the one before it; those name the page's
\* opacity, and a way that asks for nothing gets a fade without tweens.
LEMMA FadeInvStart ==
  ASSUME FadeInv, NEW way \in Ways, StartFade(way) PROVE FadeInv'
  <1> USE DEF FadeInv
  <1>1. /\ fade = Absent /\ ended' = "none"
        /\ disturbed' = (Noted /\ fxshow.hidden /= "unknown")
        /\ UNCHANGED <<cascade, opacity, first>>
    BY DEF StartFade
  <1>2. disturbed' \in BOOLEAN
    BY <1>1
  <1>3. Level(opacity) \in Levels /\ Level(first) \in Levels \ {"zero"}
    BY LevelTypes, FirstLevel DEF FadeTypes
  <1>4. IsHidden(display) \in BOOLEAN
    BY DEF IsHidden
  <1>5. EndsAsAsked'
    BY <1>1 DEF EndsAsAsked
  <1>6. CASE NoChange(way)
    <2>1. /\ fade' = [way |-> way, hidden |-> IsHidden(display), orig |-> opacity,
                      end |-> Level(opacity), tweens |-> FALSE]
          /\ UNCHANGED <<display, oldDisplay, fxshow>>
      BY <1>6 DEF StartFade
    <2>2. fade' \in Fades
      BY <2>1, <1>3, <1>4 DEF Fades, FadeTypes
    <2>3. FadeTypes'
      BY <1>1, <1>2, <2>1, <2>2 DEF FadeTypes
    <2>4. fade'.way = way /\ fade'.tweens = FALSE
      BY <2>1
    <2>5. OpacityKept'
      BY <1>1, <2>1, <2>4 DEF OpacityKept, Level
    <2>6. way = (IF IsHidden(display) THEN "hide" ELSE "show")
      BY <1>6 DEF NoChange
    <2>7. IsHidden(display)' = IsHidden(display)
      BY <1>1, <2>1 DEF IsHidden
    <2>8. WillEndAsAsked'
      BY <1>1, <2>4, <2>6, <2>7 DEF WillEndAsAsked
    <2> QED BY <2>3, <2>5, <2>8, <1>5
  <1>7. CASE ~ NoChange(way)
    <2> DEFINE hidden == Shows(way)
               from == Level(opacity)
               full == IF Noted THEN fxshow.opacity ELSE from
               note == IF way = "toggle" THEN YesNo(~ hidden)
                       ELSE IF Noted THEN fxshow.hidden ELSE "unknown"
    <2>1. /\ fade' = [way |-> way, hidden |-> hidden, orig |-> Origin(full),
                      end |-> IF hidden THEN full ELSE "zero", tweens |-> TRUE]
          /\ fxshow' = [opacity |-> full, hidden |-> note]
          /\ IF hidden THEN ShowHide(TRUE) ELSE UNCHANGED <<display, oldDisplay>>
      BY <1>7 DEF StartFade
    <2>2. hidden \in BOOLEAN
      <3>1. (IsHidden(display) \/ (way = "show" /\ Noted)) \in BOOLEAN
        OBVIOUS
      <3>2. (fxshow.hidden = "yes") \in BOOLEAN
        OBVIOUS
      <3> QED BY <3>1, <3>2, Zenon DEF Shows
    <2>3. full = Level(first)
      BY DEF OpacityKept, Noted
    <2>4. Origin(full) \in Opacities /\ Level(Origin(full)) = Level(first)
      <3>1. CASE Noted
        <4>1. full /= "zero" /\ full \in Levels
          BY <2>3, <1>3
        <4>2. Origin(full) = full
          BY <3>1, <4>1, Zenon DEF Origin
        <4> QED BY <4>1, <4>2, <2>3, FirstLevel DEF Opacities
      <3>2. CASE ~ Noted
        BY <3>2, <2>3 DEF Origin, OpacityKept, Noted, FadeTypes
      <3> QED BY <3>1, <3>2
    <2>5. note \in {"yes", "no", "unknown"}
      BY DEF YesNo, FadeTypes, Noted, Notes
    <2>6. way \in {"show", "hide"} /\ ~ disturbed' => hidden = (way = "show")
      BY <1>1, <1>7, <1>4 DEF Shows, NoChange
    <2>7. /\ display' \in Displays /\ oldDisplay' \in {"absent", "", "block"}
          /\ hidden => ~ IsHidden(display')
      <3>1. CASE hidden
        BY <3>1, <2>1, ShowHideTypes
      <3>2. CASE ~ hidden
        BY <3>2, <2>1 DEF FadeTypes
      <3> QED BY <3>1, <3>2
    <2> HIDE DEF hidden, full, note
    <2>8. fade' \in Fades
      BY <2>1, <2>2, <2>3, <2>4, <1>3 DEF Fades, Levels
    <2>9. fxshow' \in Notes /\ fxshow'.opacity = full
      BY <2>1, <2>3, <2>5, <1>3 DEF Notes
    <2>10. FadeTypes'
      BY <1>1, <1>2, <2>7, <2>8, <2>9 DEF FadeTypes
    <2>11. fade'.way = way /\ fade'.tweens = TRUE /\ fade'.hidden = hidden
           /\ fade'.orig = Origin(full)
      BY <2>1
    <2>12. fxshow' /= Absent
      BY <2>9, NotesAreThere
    <2>13. OpacityKept'
      <3>1. fxshow'.opacity = Level(first)' /\ Level(fade'.orig) = Level(first)'
        BY <1>1, <2>9, <2>3, <2>11, <2>4 DEF Level
      <3> QED BY <3>1, <2>12 DEF OpacityKept, Level
    <2>14. WillEndAsAsked'
      <3>1. IsHidden(display') = IsHidden(display)'
        BY <1>1 DEF IsHidden
      <3> QED BY <3>1, <1>1, <2>6, <2>7, <2>11, <2>2 DEF WillEndAsAsked
    <2> QED BY <2>10, <2>13, <2>14, <1>5
  <1> QED BY <1>6, <1>7
\* A frame of a fade keeps the invariant; its last one ends it as asked.
LEMMA FadeInvTick ==
  ASSUME FadeInv, FadeTick PROVE FadeInv'
  <1> USE DEF FadeInv
  <1>1. /\ fade \in Fades /\ fade /= Absent /\ fade.tweens
        /\ opacity' \in {"zero", "mid", fade.end}
        /\ UNCHANGED <<cascade, display, oldDisplay, fxshow, fade, first, ended, disturbed>>
    BY DEF FadeTick, FadeTypes
  <1>2. fade.end \in Levels
    BY <1>1 DEF Fades
  <1>3. FadeTypes'
    BY <1>1, <1>2 DEF FadeTypes, Opacities, Levels
  <1>4. OpacityKept'
    BY <1>1 DEF OpacityKept, Level
  <1>5. IsHidden(display)' = IsHidden(display)
    BY <1>1 DEF IsHidden
  <1>6. WillEndAsAsked' /\ EndsAsAsked'
    BY <1>1, <1>5 DEF WillEndAsAsked, EndsAsAsked
  <1> QED BY <1>3, <1>4, <1>6

\* At its end a fade puts the opacity back, and one that hid hides.
LEMMA FadeInvEnds ==
  ASSUME FadeInv, FadeEnds PROVE FadeInv'
  <1> USE DEF FadeInv
  <1>1. /\ fade \in Fades /\ fade /= Absent /\ fade' = Absent /\ ended' = fade.way
        /\ UNCHANGED <<cascade, first, disturbed>>
    BY DEF FadeEnds, FadeTypes
  <1>2. fade.way \in Ways /\ fade.orig \in Opacities /\ fade.hidden \in BOOLEAN
    BY <1>1 DEF Fades
  <1>3. WillEndAsAsked'
    BY <1>1 DEF WillEndAsAsked
  <1>4. CASE fade.tweens
    <2>1. /\ IF fade.hidden THEN UNCHANGED <<display, oldDisplay>> ELSE ShowHide(FALSE)
          /\ fxshow' = Absent /\ opacity' = fade.orig
      BY <1>4 DEF FadeEnds
    <2>2. OpacityKept'
      <3>1. Level(opacity') = Level(first)
        BY <1>1, <1>4, <2>1 DEF OpacityKept
      <3> QED BY <3>1, <1>1, <2>1 DEF OpacityKept, Level
    <2>3. CASE fade.hidden
      <3>1. UNCHANGED <<display, oldDisplay>>
        BY <2>1, <2>3
      <3>2. FadeTypes'
        BY <1>1, <1>2, <2>1, <3>1 DEF FadeTypes
      <3>3. IsHidden(display)' = IsHidden(display)
        BY <1>1, <3>1 DEF IsHidden
      <3>4. EndsAsAsked'
        <4>1. ~ disturbed /\ fade.way \in {"show", "hide"} =>
                fade.way = "show" /\ ~ IsHidden(display)
          BY <1>1, <1>4, <2>3 DEF WillEndAsAsked
        <4>2. ~ disturbed' /\ ended' \in {"show", "hide"} =>
                ended' = "show" /\ ~ IsHidden(display)'
          BY <1>1, <3>3, <4>1, Zenon
        <4>3. IsHidden(display)' \in BOOLEAN
          BY DEF IsHidden
        <4> QED BY <4>2, <4>3 DEF EndsAsAsked
      <3> QED BY <3>2, <3>4, <2>2, <1>3
    <2>4. CASE ~ fade.hidden
      <3>1. display' = "none" /\ oldDisplay' \in {"absent", "", "block"}
        BY <2>1, <2>4, ShowHideTypes
      <3>2. FadeTypes'
        BY <1>1, <1>2, <2>1, <3>1 DEF FadeTypes, Displays
      <3>3. IsHidden(display)'
        BY <3>1 DEF IsHidden
      <3>4. EndsAsAsked'
        BY <1>1, <1>4, <2>4, <3>3 DEF EndsAsAsked, WillEndAsAsked
      <3> QED BY <3>2, <3>4, <2>2, <1>3
    <2> QED BY <2>3, <2>4
  <1>5. CASE ~ fade.tweens
    <2>1. UNCHANGED <<display, oldDisplay, fxshow, opacity>>
      BY <1>5 DEF FadeEnds
    <2>2. FadeTypes' /\ OpacityKept'
      BY <1>1, <2>1 DEF FadeTypes, OpacityKept, Level
    <2>3. IsHidden(display)' = IsHidden(display)
      BY <1>1, <2>1 DEF IsHidden
    <2>4. EndsAsAsked'
      <3>1. ~ disturbed /\ fade.way = "show" => ~ IsHidden(display)
        BY <1>1, <1>5 DEF WillEndAsAsked
      <3>2. ~ disturbed /\ fade.way = "hide" => IsHidden(display)
        BY <1>1, <1>5 DEF WillEndAsAsked
      <3>3. ~ disturbed' /\ ended' = "show" => ~ IsHidden(display)'
        BY <1>1, <2>3, <3>1
      <3>4. ~ disturbed' /\ ended' = "hide" => IsHidden(display)'
        BY <1>1, <2>3, <3>2
      <3>5. IsHidden(display)' \in BOOLEAN
        BY DEF IsHidden
      <3> QED BY <3>3, <3>4, <3>5 DEF EndsAsAsked
    <2> QED BY <2>2, <2>4, <1>3
  <1> QED BY <1>4, <1>5

\* stop() leaves the notes, which keep the page's opacity.
LEMMA FadeInvStopped ==
  ASSUME FadeInv, FadeStopped PROVE FadeInv'
  <1>1. FadeTypes' /\ OpacityKept'
    BY DEF FadeInv, FadeStopped, FadeTypes, OpacityKept, Level
  <1>2. WillEndAsAsked' /\ EndsAsAsked'
    BY DEF FadeStopped, WillEndAsAsked, EndsAsAsked
  <1> QED BY <1>1, <1>2 DEF FadeInv

\* Every step keeps it.
LEMMA FadeInvNext == FadeInv /\ [FadeNext]_fadeVars => FadeInv'
  <1> SUFFICES ASSUME FadeInv, [FadeNext]_fadeVars PROVE FadeInv'
    OBVIOUS
  <1>1. ASSUME NEW way \in Ways, Plain(way) PROVE FadeInv'
    BY <1>1, FadeInvPlain
  <1>2. ASSUME NEW way \in Ways, StartFade(way) PROVE FadeInv'
    BY <1>2, FadeInvStart
  <1>3. CASE FadeTick
    BY <1>3, FadeInvTick
  <1>4. CASE FadeEnds
    BY <1>4, FadeInvEnds
  <1>5. CASE FadeStopped
    BY <1>5, FadeInvStopped
  <1>6. CASE UNCHANGED fadeVars
    BY <1>6 DEF fadeVars, FadeInv, FadeTypes, OpacityKept, WillEndAsAsked, EndsAsAsked, Level,
       IsHidden
  <1> QED BY <1>1, <1>2, <1>3, <1>4, <1>5, <1>6 DEF FadeNext

\* Whatever fades, stops and plain calls follow each other, once no fade runs
\* and none left notes the element has the opacity the page gave it, and a fade
\* that ran undisturbed left it displayed or hidden as asked
\* (defaultPrefilter and showHide of jquery.js).
THEOREM FadesAsAskedAlways == FadeSpec => []FadesAsAsked
  <1>1. FadeInv => FadesAsAsked
    BY DEF FadeInv, OpacityKept, FadesAsAsked, OpacityRestored
  <1> QED BY <1>1, FadeInvInit, FadeInvNext, PTL DEF FadeSpec

-----------------------------------------------------------------------------
\* Modal: the page is covered while a dialog is open.

\* What the variables hold.
ModalTypes ==
  /\ fades \in BOOLEAN /\ modals \in Seq(Modals) /\ made \in 0..MaxModals
  /\ blocker \in [Modals -> {"none", "up", "fading", "gone"}]
  /\ orphans \in Nat
  /\ shown \subseteq Modals /\ hiding \subseteq Modals
  /\ loading \subseteq Modals /\ targetless \subseteq Modals
  /\ showTimers \in [Modals -> Nat]
  /\ locked \in BOOLEAN /\ keys \in BOOLEAN
  /\ early \subseteq Modals /\ misled \in BOOLEAN

\* The modals that open nothing yet, or never will.
Bare == loading \cup targetless

\* The stack holds each modal at most once, and only modals that were made; the
\* content that is waited for is no missing target.
StackOfModals ==
  /\ \A j, k \in 1..Len(modals) : modals[j] = modals[k] => j = k
  /\ \A k \in 1..Len(modals) : modals[k] <= made
  /\ \A m \in Bare : m <= made
  /\ loading \cap targetless = {}

\* A modal without an overlay has never been opened.
NotOpenedYet ==
  \A m \in Modals :
    /\ m > made => blocker[m] = "none"
    /\ blocker[m] = "none" => showTimers[m] = 0 /\ m \notin shown

\* What the page and its dialogs are to each other, of the values ms to ea
\* that the variables have or that a step is about to give them.
Fitting(ms, bl, sh, hd, br, ts, lk, ks, ea) ==
  /\ \A m \in Modals : (bl[m] = "up") <=> (m \in Range(ms) /\ m \notin br)
  /\ \A m \in br : m \in Range(ms) /\ bl[m] = "none"
  /\ \A m \in Modals : ts[m] > 0 => m \in Range(ms) \/ m \in ea
  /\ (\E m \in Modals : bl[m] = "up") => lk /\ ks
  /\ ks => lk /\ ms /= <<>>
  /\ ms = <<>> /\ lk => \E m \in Modals : bl[m] = "fading"
  /\ sh \subseteq Range(ms) \cup hd \cup ea

\* Unless a dialog was misled, the page fits its dialogs and no overlay is
\* forgotten.
PageFits ==
  ~ misled => /\ orphans = 0
              /\ Fitting(modals, blocker, shown, hiding, Bare, showTimers, locked, keys, early)

\* The inductive invariant.
ModalInv == ModalTypes /\ StackOfModals /\ NotOpenedYet /\ PageFits

-----------------------------------------------------------------------------
\* Less-than on numbers as a relation, for the highest index of a set.
ModalLess == {p \in Nat \X Nat : p[1] < p[2]}

\* A set of numbers has a least.
LEMMA ModalLessWellFounded == IsWellFoundedOn(ModalLess, Nat)
  <1>1. ModalLess = OpToRel(<, Nat)
    BY DEF ModalLess, OpToRel
  <1> QED BY <1>1, NatLessThanWellFounded

\* The index of the topmost modal without an overlay.
LEMMA MaxOfIndexes ==
  ASSUME NEW n \in Nat, NEW S \in SUBSET (1..n), S /= {}
  PROVE  Max(S) \in S
  <1> DEFINE T == {k \in Nat : k <= n /\ (n - k) \in S}
  <1>1. T \in SUBSET Nat /\ T /= {}
    <2>1. PICK k \in S : TRUE
      OBVIOUS
    <2>2. n - k \in Nat /\ n - k <= n /\ n - (n - k) = k
      BY <2>1
    <2> QED BY <2>1, <2>2
  <1>2. PICK x \in T : \A y \in T : ~ (<<y, x>> \in ModalLess)
    BY <1>1, ModalLessWellFounded, WFMin
  <1>3. n - x \in S /\ x \in Nat
    OBVIOUS
  <1>4. \A k \in S : n - x >= k
    <2> TAKE k \in S
    <2>1. k \in Nat /\ n - k \in Nat /\ n - k <= n /\ n - (n - k) = k
      OBVIOUS
    <2>2. n - k \in T
      BY <2>1
    <2>3. ~ (n - k < x)
      BY <1>2, <1>3, <2>1, <2>2 DEF ModalLess
    <2> QED BY <1>3, <2>1, <2>3
  <1> HIDE DEF T
  <1> QED BY <1>3, <1>4 DEF Max

\* ModalTypes, taken apart for the stack.
LEMMA StackTypes ==
  ASSUME ModalTypes
  PROVE  /\ Len(modals) \in Nat /\ modals \in Seq(Modals)
         /\ \A k \in 1..Len(modals) : modals[k] \in Modals
         /\ \A m : m \in Range(modals) <=> \E k \in 1..Len(modals) : modals[k] = m
         /\ modals = <<>> <=> Len(modals) = 0
         /\ Modals \subseteq Nat
  <1>1. modals \in Seq(Modals)
    BY DEF ModalTypes
  <1>2. DOMAIN modals = 1..Len(modals) /\ Len(modals) \in Nat
    BY <1>1
  <1>3. \A k \in 1..Len(modals) : modals[k] \in Modals
    BY <1>1
  <1>4. \A m : m \in Range(modals) <=> \E k \in 1..Len(modals) : modals[k] = m
    BY <1>2 DEF Range
  <1>5. modals = <<>> <=> Len(modals) = 0
    BY <1>1
  <1>6. Modals \subseteq Nat
    BY ModalAssumption DEF Modals
  <1> QED BY <1>1, <1>2, <1>3, <1>4, <1>5, <1>6

\* n closes take the n topmost modals off the stack.
LEMMA BelowTop ==
  ASSUME ModalTypes, StackOfModals, NEW n \in 0..Len(modals)
  PROVE  /\ Below(n) \in Seq(Modals) /\ Len(Below(n)) = Len(modals) - n
         /\ \A k \in 1..(Len(modals) - n) : Below(n)[k] = modals[k]
         /\ \A m : m \in Range(modals) <=> m \in Range(Below(n)) \/ m \in Top(n)
         /\ \A m : ~ (m \in Range(Below(n)) /\ m \in Top(n))
         /\ Below(n) = <<>> <=> n = Len(modals)
         /\ Top(n) = {} <=> n = 0
         /\ Top(n) \subseteq Modals
         /\ n = 0 => Below(n) = modals
  <1>1. Len(modals) \in Nat /\ modals \in Seq(Modals) /\ n \in Nat
    BY StackTypes
  <1>2. /\ Below(n) \in Seq(Modals) /\ Len(Below(n)) = Len(modals) - n
        /\ \A k \in 1..(Len(modals) - n) : Below(n)[k] = modals[k]
    BY <1>1 DEF Below
  <1>3. \A m : m \in Range(Below(n)) <=> \E k \in 1..(Len(modals) - n) : modals[k] = m
    <2>1. DOMAIN Below(n) = 1..(Len(modals) - n)
      BY <1>2
    <2> QED BY <2>1, <1>2 DEF Range
  <1>4. \A m : m \in Top(n) <=> \E k \in (Len(modals) - n + 1)..Len(modals) : modals[k] = m
    BY DEF Top
  <1>5. \A k : k \in 1..Len(modals) <=> \/ k \in 1..(Len(modals) - n)
                                       \/ k \in (Len(modals) - n + 1)..Len(modals)
    BY <1>1
  <1>6. \A m : m \in Range(modals) <=> m \in Range(Below(n)) \/ m \in Top(n)
    BY <1>3, <1>4, <1>5, StackTypes
  <1>7. \A m : ~ (m \in Range(Below(n)) /\ m \in Top(n))
    <2> SUFFICES ASSUME NEW m, m \in Range(Below(n)), m \in Top(n) PROVE FALSE
      OBVIOUS
    <2>1. PICK j \in 1..(Len(modals) - n) : modals[j] = m
      BY <1>3
    <2>2. PICK k \in (Len(modals) - n + 1)..Len(modals) : modals[k] = m
      BY <1>4
    <2>3. j = k
      BY <2>1, <2>2, <1>5 DEF StackOfModals
    <2> QED BY <2>3, <1>1
  <1>8. Below(n) = <<>> <=> n = Len(modals)
    BY <1>1, <1>2
  <1>9. Top(n) = {} <=> n = 0
    <2>1. CASE n = 0
      BY <2>1, <1>1, <1>4
    <2>2. CASE n /= 0
      <3>1. Len(modals) \in (Len(modals) - n + 1)..Len(modals)
        BY <2>2, <1>1
      <3> QED BY <3>1, <2>2, <1>4
    <2> QED BY <2>1, <2>2
  <1>10. Top(n) \subseteq Modals
    BY <1>4, <1>5, StackTypes
  <1>11. n = 0 => Below(n) = modals
    BY <1>1 DEF Below
  <1> HIDE DEF Below
  <1> QED BY <1>2, <1>6, <1>7, <1>8, <1>9, <1>10, <1>11

\* The current dialog is the last of the stack.
LEMMA CurrentModal ==
  ASSUME ModalTypes, StackOfModals, IsActive
  PROVE  /\ Current \in Modals /\ Current \in Range(modals) /\ Len(modals) >= 1
         /\ 1 \in 0..Len(modals)
         /\ Top(1) = {Current}
  <1>1. Len(modals) \in Nat /\ Len(modals) >= 1
    BY StackTypes DEF IsActive
  <1>2. Current = modals[Len(modals)]
    BY DEF Current, Last
  <1>3. Top(1) = {modals[k] : k \in Len(modals)..Len(modals)}
    BY <1>1 DEF Top
  <1> QED BY <1>1, <1>2, <1>3, StackTypes

\* What any number of closes leaves as it is.
LEMMA ClosedTypes ==
  ASSUME ModalTypes, StackOfModals, NEW n \in 0..Len(modals)
  PROVE  /\ Closed(n).blocker \in [Modals -> {"none", "up", "fading", "gone"}]
         /\ \A m \in Modals : Closed(n).blocker[m] = "none" <=> blocker[m] = "none"
         /\ Closed(n).shown \subseteq shown /\ Closed(n).hiding \subseteq Modals
         /\ Closed(n).locked \in BOOLEAN /\ Closed(n).keys \in BOOLEAN
         /\ Closed(n).early \subseteq Modals
         /\ Closed(n).misled \in BOOLEAN
         /\ misled => Closed(n).misled
         /\ (\E k \in Top(n) : Throws(k)) => Closed(n).misled
  <1> DEFINE done == {m \in Top(n) : ~ Throws(m)}
  <1>1. Closed(n).blocker = [m \in Modals |-> IF m \notin done THEN blocker[m]
                               ELSE IF fades THEN "fading" ELSE "gone"]
    BY DEF Closed
  <1>2. \A m \in done : blocker[m] /= "none" /\ m \in Top(n)
    BY DEF Throws
  <1>3. Top(n) \subseteq Modals
    BY BelowTop
  <1>4. Closed(n).blocker \in [Modals -> {"none", "up", "fading", "gone"}]
    BY <1>1 DEF ModalTypes
  <1>5. \A m \in Modals : Closed(n).blocker[m] = "none" <=> blocker[m] = "none"
    BY <1>1, <1>2
  <1>6. Closed(n).shown \subseteq shown /\ Closed(n).hiding \subseteq Modals
    BY DEF Closed, ModalTypes
  <1>7. Closed(n).locked \in BOOLEAN /\ Closed(n).keys \in BOOLEAN
    BY DEF Closed
  <1>8. Closed(n).early \subseteq Modals
    BY <1>3 DEF Closed, ModalTypes
  <1>9. Closed(n).misled = (misled \/ Top(n) /= done)
    BY DEF Closed
  <1>10. (\E k \in Top(n) : Throws(k)) => Top(n) /= done
    OBVIOUS
  <1> HIDE DEF done
  <1> QED BY <1>4, <1>5, <1>6, <1>7, <1>8, <1>9, <1>10

\* When none of the closed modals lacks its overlay, the page fits what is left.
LEMMA ClosedFits ==
  ASSUME ModalInv, ~ misled, NEW n \in 0..Len(modals), \A k \in Top(n) : ~ Throws(k)
  PROVE  /\ Closed(n).misled = misled
         /\ Fitting(Below(n), Closed(n).blocker, Closed(n).shown, Closed(n).hiding, Bare,
                    showTimers, Closed(n).locked, Closed(n).keys, Closed(n).early)
  <1> USE DEF ModalInv
  <1> DEFINE bl == Closed(n).blocker
             ea == Closed(n).early
             lk == Closed(n).locked
             ks == Closed(n).keys
  <1>1. {m \in Top(n) : ~ Throws(m)} = Top(n)
    OBVIOUS
  <1>2. /\ bl = [m \in Modals |-> IF m \notin Top(n) THEN blocker[m]
                                  ELSE IF fades THEN "fading" ELSE "gone"]
        /\ Closed(n).shown = IF fades THEN shown ELSE shown \ Top(n)
        /\ Closed(n).hiding = IF fades THEN hiding \cup (Top(n) \cap shown) ELSE hiding
        /\ ea = early \cup {m \in Top(n) : showTimers[m] > 0}
        /\ Closed(n).misled = (misled \/ Top(n) /= Top(n))
    BY <1>1 DEF Closed
  <1>3. lk = (locked /\ (fades \/ Below(n) /= <<>> \/ Top(n) /= Top(n) \/ Top(n) = {}))
    BY <1>1 DEF Closed
  <1>4. ks = (keys /\ (Below(n) /= <<>> \/ Top(n) /= Top(n) \/ Top(n) = {}))
    BY <1>1 DEF Closed
  <1>5. Closed(n).misled = misled
    BY <1>2 DEF ModalTypes
  <1>6. Fitting(modals, blocker, shown, hiding, Bare, showTimers, locked, keys, early)
    BY DEF PageFits
  <1>7. /\ \A m : m \in Range(modals) <=> m \in Range(Below(n)) \/ m \in Top(n)
        /\ \A m : ~ (m \in Range(Below(n)) /\ m \in Top(n))
        /\ Below(n) = <<>> <=> n = Len(modals)
        /\ Top(n) = {} <=> n = 0
        /\ Top(n) \subseteq Modals
        /\ n = 0 => Below(n) = modals
    BY BelowTop
  <1>8. \A m \in Top(n) : blocker[m] /= "none"
    BY DEF Throws
  <1>9. \A m \in Bare : m \in Modals
    BY DEF ModalTypes, Bare
  <1> HIDE DEF bl, ea, lk, ks
  <1>10. \A m \in Modals : bl[m] = IF m \notin Top(n) THEN blocker[m]
                                   ELSE IF fades THEN "fading" ELSE "gone"
    BY <1>2
  <1>11. \A m \in Modals : (bl[m] = "up") <=> (m \in Range(Below(n)) /\ m \notin Bare)
    <2> TAKE m \in Modals
    <2>1. (blocker[m] = "up") <=> (m \in Range(modals) /\ m \notin Bare)
      BY <1>6 DEF Fitting
    <2> QED BY <2>1, <1>10, <1>7
  <1>12. \A m \in Bare : m \in Range(Below(n)) /\ bl[m] = "none"
    <2> TAKE m \in Bare
    <2>1. m \in Range(modals) /\ blocker[m] = "none" /\ m \in Modals
      BY <1>6, <1>9 DEF Fitting
    <2> QED BY <2>1, <1>8, <1>7, <1>10
  <1>13. \A m \in Modals : showTimers[m] > 0 => m \in Range(Below(n)) \/ m \in ea
    <2> TAKE m \in Modals
    <2>1. showTimers[m] > 0 => m \in Range(modals) \/ m \in early
      BY <1>6 DEF Fitting
    <2> QED BY <2>1, <1>2, <1>7
  <1>14. (\E m \in Modals : bl[m] = "up") => lk /\ ks
    <2> SUFFICES ASSUME NEW m \in Modals, bl[m] = "up" PROVE lk /\ ks
      OBVIOUS
    <2>1. blocker[m] = "up"
      BY <1>10
    <2>2. locked /\ keys
      BY <2>1, <1>6 DEF Fitting
    <2>3. Below(n) /= <<>>
      <3>1. m \in Range(Below(n))
        BY <1>11
      <3>2. Range(<<>>) = {}
        BY DEF Range
      <3> QED BY <3>1, <3>2
    <2> QED BY <2>2, <2>3, <1>3, <1>4
  <1>15. ks => lk /\ Below(n) /= <<>>
    <2>1. keys => locked /\ modals /= <<>>
      BY <1>6 DEF Fitting
    <2> QED BY <2>1, <1>3, <1>4, <1>7
  <1>16. Below(n) = <<>> /\ lk => \E m \in Modals : bl[m] = "fading"
    <2> SUFFICES ASSUME Below(n) = <<>>, lk PROVE \E m \in Modals : bl[m] = "fading"
      OBVIOUS
    <2>1. CASE Top(n) = {}
      <3>1. modals = <<>> /\ locked
        BY <2>1, <1>7, <1>3
      <3>2. PICK m \in Modals : blocker[m] = "fading"
        BY <3>1, <1>6 DEF Fitting
      <3> QED BY <3>2, <2>1, <1>10
    <2>2. CASE Top(n) /= {}
      <3>1. fades
        BY <2>2, <1>3
      <3>2. PICK m \in Top(n) : m \in Modals
        BY <2>2, <1>7
      <3> QED BY <3>1, <3>2, <1>10
    <2> QED BY <2>1, <2>2
  <1>17. Closed(n).shown \subseteq Range(Below(n)) \cup Closed(n).hiding \cup ea
    <2>1. shown \subseteq Range(modals) \cup hiding \cup early
      BY <1>6 DEF Fitting
    <2> QED BY <2>1, <1>2, <1>7
  <1> QED BY <1>5, <1>11, <1>12, <1>13, <1>14, <1>15, <1>16, <1>17 DEF Fitting, bl, ea, lk, ks

\* What open() makes of a page that fits the dialogs ms0, with one more.
LEMMA OpenFits ==
  ASSUME ModalTypes, NEW ms0, NEW ms,
         NEW bl \in [Modals -> {"none", "up", "fading", "gone"}],
         NEW sh, NEW hd, NEW br \in SUBSET Modals, NEW lk, NEW ks, NEW ea, NEW m \in Modals,
         \A x : x \in Range(ms) <=> x \in Range(ms0) \/ x = m,
         Fitting(ms0, bl, sh, hd, br, showTimers, lk, ks, ea), Open(m, bl, sh)
  PROVE  Fitting(ms, blocker', shown', hd, br \ {m}, showTimers', locked', keys', ea)
  <1>1. /\ blocker' = [bl EXCEPT ![m] = "up"]
        /\ shown' = IF fades THEN sh ELSE sh \cup {m}
        /\ showTimers' = IF fades THEN [showTimers EXCEPT ![m] = @ + 1] ELSE showTimers
        /\ locked' = TRUE /\ keys' = TRUE
    BY DEF Open
  <1>2. m \in Range(ms) /\ ms /= <<>>
    <2>1. Range(<<>>) = {}
      BY DEF Range
    <2> QED BY <2>1
  <1>3. showTimers \in [Modals -> Nat]
    BY DEF ModalTypes
  <1>4. blocker'[m] = "up" /\ \A x \in Modals \ {m} : blocker'[x] = bl[x]
    BY <1>1
  <1>5. \A x \in Modals \ {m} : showTimers'[x] = showTimers[x]
    BY <1>1, <1>3
  <1>6. \A x \in Modals : (blocker'[x] = "up") <=> (x \in Range(ms) /\ x \notin br \ {m})
    <2> TAKE x \in Modals
    <2>1. (bl[x] = "up") <=> (x \in Range(ms0) /\ x \notin br)
      BY DEF Fitting
    <2> QED BY <2>1, <1>2, <1>4
  <1>8. \A x \in br \ {m} : x \in Range(ms) /\ blocker'[x] = "none"
    <2> TAKE x \in br \ {m}
    <2>1. x \in Range(ms0) /\ bl[x] = "none"
      BY DEF Fitting
    <2> QED BY <2>1, <1>4
  <1>9. \A x \in Modals : showTimers'[x] > 0 => x \in Range(ms) \/ x \in ea
    <2> TAKE x \in Modals
    <2>1. showTimers[x] > 0 => x \in Range(ms0) \/ x \in ea
      BY DEF Fitting
    <2> QED BY <2>1, <1>2, <1>5
  <1>10. shown' \subseteq Range(ms) \cup hd \cup ea
    <2>1. sh \subseteq Range(ms0) \cup hd \cup ea
      BY DEF Fitting
    <2> QED BY <2>1, <1>1, <1>2
  <1> QED BY <1>1, <1>2, <1>6, <1>8, <1>9, <1>10 DEF Fitting

\* The element is shown or will be, by a modal that has an overlay.
LEMMA OpenTypes ==
  ASSUME ModalTypes, NEW bl \in [Modals -> {"none", "up", "fading", "gone"}],
         NEW sh \in SUBSET Modals, NEW m \in Modals, Open(m, bl, sh)
  PROVE  /\ blocker' \in [Modals -> {"none", "up", "fading", "gone"}]
         /\ shown' \subseteq Modals /\ showTimers' \in [Modals -> Nat]
         /\ locked' \in BOOLEAN /\ keys' \in BOOLEAN
         /\ blocker'[m] = "up"
         /\ \A x \in Modals \ {m} : /\ blocker'[x] = bl[x] /\ showTimers'[x] = showTimers[x]
                                    /\ x \in shown' => x \in sh
  <1>1. /\ blocker' = [bl EXCEPT ![m] = "up"]
        /\ shown' = IF fades THEN sh ELSE sh \cup {m}
        /\ showTimers' = IF fades THEN [showTimers EXCEPT ![m] = @ + 1] ELSE showTimers
        /\ locked' = TRUE /\ keys' = TRUE
    BY DEF Open
  <1>2. showTimers \in [Modals -> Nat]
    BY DEF ModalTypes
  <1>3. blocker' \in [Modals -> {"none", "up", "fading", "gone"}] /\ blocker'[m] = "up"
    BY <1>1
  <1>4. shown' \subseteq Modals
    BY <1>1
  <1>5. showTimers' \in [Modals -> Nat]
    <2>1. [showTimers EXCEPT ![m] = @ + 1] \in [Modals -> Nat]
      BY <1>2
    <2> QED BY <2>1, <1>1, <1>2, Zenon
  <1>6. \A x \in Modals \ {m} : /\ blocker'[x] = bl[x] /\ showTimers'[x] = showTimers[x]
                                /\ x \in shown' => x \in sh
    BY <1>1, <1>2
  <1> QED BY <1>1, <1>3, <1>4, <1>5, <1>6

\* A stack that lost its top is one still.
LEMMA BelowIsStack ==
  ASSUME ModalTypes, StackOfModals, NEW n \in 0..Len(modals), modals' = Below(n),
         made' \in Nat, made' >= made, \A m \in Bare' : m <= made',
         loading' \cap targetless' = {}
  PROVE  StackOfModals'
  <1>1. /\ Len(modals') = Len(modals) - n
        /\ \A k \in 1..(Len(modals) - n) : modals'[k] = modals[k]
    BY BelowTop
  <1>2. \A k \in 1..(Len(modals) - n) : k \in 1..Len(modals)
    BY StackTypes
  <1>3. \A k \in 1..Len(modals') : modals'[k] <= made'
    <2> TAKE k \in 1..Len(modals')
    <2>1. k \in 1..Len(modals) /\ modals'[k] = modals[k]
      BY <1>1, <1>2
    <2>2. modals[k] <= made /\ modals[k] \in Nat /\ made \in Nat
      BY <2>1, StackTypes, ModalAssumption DEF StackOfModals, ModalTypes
    <2> QED BY <2>1, <2>2
  <1>4. \A j, k \in 1..Len(modals') : modals'[j] = modals'[k] => j = k
    BY <1>1, <1>2 DEF StackOfModals
  <1> QED BY <1>3, <1>4 DEF StackOfModals

\* The invariant holds for a page without dialogs.
LEMMA ModalInvInit == ModalInit => ModalInv
  <1> SUFFICES ASSUME ModalInit PROVE ModalInv
    OBVIOUS
  <1>1. modals \in Seq(Modals) /\ Len(modals) = 0 /\ Range(modals) = {}
    BY DEF ModalInit, Range
  <1>2. ModalTypes
    <2>1. /\ blocker \in [Modals -> {"none", "up", "fading", "gone"}]
          /\ showTimers \in [Modals -> Nat]
      BY DEF ModalInit
    <2>2. made \in 0..MaxModals
      BY ModalAssumption DEF ModalInit
    <2> QED BY <1>1, <2>1, <2>2 DEF ModalInit, ModalTypes
  <1>3. StackOfModals
    BY <1>1 DEF ModalInit, StackOfModals, Bare
  <1>4. NotOpenedYet
    BY DEF ModalInit, NotOpenedYet
  <1>5. Fitting(modals, blocker, shown, hiding, Bare, showTimers, locked, keys, early)
    BY <1>1 DEF ModalInit, Fitting, Bare
  <1> QED BY <1>2, <1>3, <1>4, <1>5 DEF ModalInv, PageFits, ModalInit

\* Closing takes the current dialog and its overlay,
LEMMA ModalInvClose ==
  ASSUME ModalInv, CloseCurrent PROVE ModalInv'
  <1> USE DEF ModalInv
  <1> DEFINE c == Closed(1)
  <1>1. /\ IsActive /\ modals' = Below(1)
        /\ blocker' = c.blocker /\ shown' = c.shown /\ locked' = c.locked
        /\ hiding' = c.hiding
        /\ keys' = c.keys /\ early' = c.early /\ misled' = c.misled
        /\ UNCHANGED <<fades, made, orphans, spinning, loading, targetless, showTimers>>
    BY DEF CloseCurrent
  <1>2. 1 \in 0..Len(modals)
    BY <1>1, CurrentModal
  <1>3. Below(1) \in Seq(Modals)
    BY <1>2, BelowTop
  <1>4. /\ c.blocker \in [Modals -> {"none", "up", "fading", "gone"}]
        /\ \A m \in Modals : c.blocker[m] = "none" <=> blocker[m] = "none"
        /\ c.shown \subseteq shown /\ c.hiding \subseteq Modals
        /\ c.locked \in BOOLEAN /\ c.keys \in BOOLEAN
        /\ c.early \subseteq Modals
        /\ c.misled \in BOOLEAN
        /\ misled => c.misled
        /\ (\E k \in Top(1) : Throws(k)) => c.misled
    BY <1>2, ClosedTypes
  <1>5. ASSUME ~ misled' PROVE orphans' = 0 /\
          Fitting(Below(1), c.blocker, c.shown, c.hiding, Bare, showTimers, c.locked, c.keys, c.early)
    <2>1. ~ misled /\ \A k \in Top(1) : ~ Throws(k)
      BY <1>1, <1>4, <1>5
    <2> QED BY <2>1, <1>1, <1>2, ClosedFits DEF PageFits
  <1> HIDE DEF c
  <1>6. ModalTypes'
    BY <1>1, <1>3, <1>4 DEF ModalTypes
  <1>7. StackOfModals'
    <2>1. /\ made' \in Nat /\ made' >= made /\ \A m \in Bare' : m <= made'
          /\ loading' \cap targetless' = {}
      BY <1>1, ModalAssumption DEF ModalTypes, StackOfModals, Bare
    <2> QED BY <2>1, <1>1, <1>2, BelowIsStack
  <1>8. NotOpenedYet'
    BY <1>1, <1>4 DEF NotOpenedYet
  <1>9. PageFits'
    BY <1>1, <1>5 DEF PageFits, Bare
  <1> QED BY <1>6, <1>7, <1>8, <1>9

\* and timers and fades touch only what is open or was closed early.
LEMMA ModalInvTimers ==
  ASSUME ModalInv, NEW m \in Modals, ShowTimer(m) \/ Faded(m) \/ Hidden(m) PROVE ModalInv'
  <1> USE DEF ModalInv
  <1>1. UNCHANGED <<fades, modals, made, orphans, spinning, loading, targetless, keys,
                    early, misled>>
    BY DEF ShowTimer, Faded, Hidden
  <1>2. StackOfModals' /\ Bare' = Bare
    BY <1>1 DEF StackOfModals, Bare
  <1>3. ~ misled => Fitting(modals, blocker, shown, hiding, Bare, showTimers, locked, keys, early)
    BY DEF PageFits
  <1>4. CASE ShowTimer(m)
    <2>1. /\ showTimers[m] > 0 /\ showTimers' = [showTimers EXCEPT ![m] = @ - 1]
          /\ shown' = shown \cup {m}
          /\ UNCHANGED <<blocker, hiding, locked>>
      BY <1>4 DEF ShowTimer
    <2>2. showTimers \in [Modals -> Nat] /\ shown \subseteq Modals
      BY DEF ModalTypes
    <2>3. showTimers' \in [Modals -> Nat]
      BY <2>1, <2>2
    <2>4. \A x \in Modals : showTimers'[x] > 0 => showTimers[x] > 0
      BY <2>1, <2>2
    <2>5. \A x \in Modals \ {m} : showTimers'[x] = showTimers[x]
      BY <2>1, <2>2
    <2>6. ModalTypes'
      BY <1>1, <2>1, <2>2, <2>3 DEF ModalTypes
    <2>7. NotOpenedYet'
      <3>1. blocker[m] /= "none"
        BY <2>1, <2>2 DEF NotOpenedYet
      <3> QED BY <1>1, <2>1, <2>5, <3>1 DEF NotOpenedYet
    <2>8. ~ misled =>
              Fitting(modals, blocker, shown', hiding, Bare, showTimers', locked, keys, early)
      BY <1>3, <2>1, <2>4 DEF Fitting
    <2>9. PageFits'
      BY <1>1, <1>2, <2>1, <2>8 DEF PageFits
    <2> QED BY <1>2, <2>6, <2>7, <2>9
  <1>5. CASE Faded(m)
    <2>1. /\ blocker[m] = "fading" /\ blocker' = [blocker EXCEPT ![m] = "gone"]
          /\ locked' = (locked /\ IsActive)
          /\ UNCHANGED <<shown, hiding, showTimers>>
      BY <1>5 DEF Faded
    <2>2. blocker \in [Modals -> {"none", "up", "fading", "gone"}] /\ Bare \subseteq Modals
      BY DEF ModalTypes, Bare
    <2>3. blocker' \in [Modals -> {"none", "up", "fading", "gone"}] /\ locked' \in BOOLEAN
      BY <2>1, <2>2
    <2>4. blocker'[m] = "gone" /\ \A x \in Modals \ {m} : blocker'[x] = blocker[x]
      BY <2>1, <2>2
    <2>5. ModalTypes'
      BY <1>1, <2>1, <2>3 DEF ModalTypes
    <2>6. \A x \in Modals : blocker'[x] = "none" <=> blocker[x] = "none"
      BY <2>1, <2>4
    <2>7. NotOpenedYet'
      BY <1>1, <2>1, <2>6 DEF NotOpenedYet
    <2>8. \A x \in Modals : blocker'[x] = "up" <=> blocker[x] = "up"
      BY <2>1, <2>4
    <2>9. ASSUME ~ misled
          PROVE  Fitting(modals, blocker', shown, hiding, Bare, showTimers, locked', keys, early)
      <3>1. Fitting(modals, blocker, shown, hiding, Bare, showTimers, locked, keys, early)
        BY <1>3, <2>9
      <3>2. \A x \in Bare : blocker'[x] = "none"
        BY <3>1, <2>2, <2>6 DEF Fitting
      <3>3. IsActive <=> modals /= <<>>
        BY DEF IsActive
      <3>4. locked' => modals /= <<>> /\ locked
        BY <2>1, <3>3
      <3>5. (\E x \in Modals : blocker'[x] = "up") => locked' /\ keys
        BY <3>1, <3>3, <2>1, <2>8 DEF Fitting
      <3>6. keys => locked' /\ modals /= <<>>
        BY <3>1, <3>3, <2>1 DEF Fitting
      <3> QED BY <3>1, <3>2, <3>4, <3>5, <3>6, <2>8 DEF Fitting
    <2>10. PageFits'
      BY <1>1, <1>2, <2>1, <2>9 DEF PageFits
    <2> QED BY <1>2, <2>5, <2>7, <2>10
  <1>6. CASE Hidden(m)
    <2>1. /\ m \in hiding /\ hiding' = hiding \ {m} /\ shown' = shown \ {m}
          /\ UNCHANGED <<blocker, showTimers, locked>>
      BY <1>6 DEF Hidden
    <2>2. ModalTypes'
      BY <1>1, <2>1 DEF ModalTypes
    <2>3. NotOpenedYet'
      BY <1>1, <2>1 DEF NotOpenedYet
    <2>4. ~ misled =>
              Fitting(modals, blocker, shown', hiding', Bare, showTimers, locked, keys, early)
      BY <1>3, <2>1 DEF Fitting
    <2>5. PageFits'
      BY <1>1, <1>2, <2>1, <2>4 DEF PageFits
    <2> QED BY <1>2, <2>2, <2>3, <2>5
  <1> QED BY <1>4, <1>5, <1>6

\* The answer opens the current modal; when that is the one it is for, the
\* modal had no overlay before.
LEMMA ModalInvLoaded ==
  ASSUME ModalInv, NEW m \in Modals, Loaded(m) PROVE ModalInv'
  <1> USE DEF ModalInv
  <1>1. /\ m \in loading /\ loading' = loading \ {m}
        /\ UNCHANGED <<fades, modals, made, hiding, targetless, early>>
    BY DEF Loaded
  <1>2. /\ loading' \subseteq Modals /\ Bare \subseteq Modals
        /\ m \in Bare /\ Bare' = Bare \ {m}
    BY <1>1 DEF ModalTypes, StackOfModals, Bare
  <1>3. StackOfModals'
    BY <1>1, <1>2 DEF StackOfModals
  <1>4. ~ misled => orphans = 0 /\
          Fitting(modals, blocker, shown, hiding, Bare, showTimers, locked, keys, early)
    BY DEF PageFits
  <1>5. CASE IsActive
    <2>1. /\ Open(Current, blocker, shown)
          /\ orphans' = IF blocker[Current] = "up" THEN orphans + 1 ELSE orphans
          /\ misled' = (misled \/ Current /= m)
      BY <1>5 DEF Loaded
    <2>2. Current \in Modals /\ Current \in Range(modals)
      BY <1>5, CurrentModal
    <2>3. blocker \in [Modals -> {"none", "up", "fading", "gone"}] /\ shown \in SUBSET Modals
      BY DEF ModalTypes
    <2>4. orphans' \in Nat /\ misled' \in BOOLEAN
      BY <2>1 DEF ModalTypes
    <2>5. /\ blocker' \in [Modals -> {"none", "up", "fading", "gone"}]
          /\ shown' \subseteq Modals /\ showTimers' \in [Modals -> Nat]
          /\ locked' \in BOOLEAN /\ keys' \in BOOLEAN
          /\ blocker'[Current] = "up"
          /\ \A x \in Modals \ {Current} :
                /\ blocker'[x] = blocker[x] /\ showTimers'[x] = showTimers[x]
                /\ x \in shown' => x \in shown
      BY <2>1, <2>2, <2>3, OpenTypes
    <2>6. ModalTypes'
      BY <1>1, <1>2, <2>4, <2>5 DEF ModalTypes
    <2>7. NotOpenedYet'
      <3>1. Current <= made
        BY <2>2, StackTypes DEF StackOfModals
      <3>2. ~ (Current > made) /\ made' = made
        BY <3>1, <1>1, <2>2, StackTypes, ModalAssumption DEF ModalTypes
      <3>3. \A x \in Modals : x /= Current =>
               /\ x > made' => blocker'[x] = "none"
               /\ blocker'[x] = "none" => showTimers'[x] = 0 /\ x \notin shown'
        BY <2>5, <3>2 DEF NotOpenedYet
      <3> QED BY <3>2, <3>3, <2>5 DEF NotOpenedYet
    <2>8. ASSUME ~ misled'
          PROVE  orphans' = 0 /\ Fitting(modals, blocker', shown', hiding, Bare', showTimers',
                                         locked', keys', early)
      <3>1. ~ misled /\ Current = m
        BY <2>1, <2>8
      <3>2. orphans = 0 /\
              Fitting(modals, blocker, shown, hiding, Bare, showTimers, locked, keys, early)
        BY <3>1, <1>4
      <3>3. blocker[m] = "none"
        BY <3>2, <1>2 DEF Fitting
      <3>4. orphans' = 0
        BY <3>1, <3>2, <3>3, <2>1
      <3>5. \A x : x \in Range(modals) <=> x \in Range(modals) \/ x = Current
        BY <2>2
      <3>6. Fitting(modals, blocker', shown', hiding, Bare \ {Current}, showTimers', locked', keys',
                    early)
        BY <3>2, <3>5, <1>2, <2>1, <2>2, <2>3, OpenFits
      <3> QED BY <3>1, <3>4, <3>6, <1>1, <1>2
    <2>9. PageFits'
      BY <1>1, <2>8 DEF PageFits
    <2> QED BY <1>3, <2>6, <2>7, <2>9
  <1>6. CASE ~ IsActive
    <2>1. UNCHANGED <<spinning, blocker, shown, showTimers, locked, keys, orphans, misled>>
      BY <1>6 DEF Loaded
    <2>2. ModalTypes' /\ NotOpenedYet'
      BY <1>1, <1>2, <2>1 DEF ModalTypes, NotOpenedYet
    <2>3. misled
      <3>1. m \notin Range(modals)
        BY <1>6, StackTypes DEF IsActive
      <3> QED BY <3>1, <1>2, <1>4 DEF Fitting
    <2>4. PageFits'
      BY <2>1, <2>3 DEF PageFits
    <2> QED BY <1>3, <2>2, <2>4
  <1> QED BY <1>5, <1>6

\* A failed answer takes the current modal off the stack; when that is the one
\* it is for, the modal had no overlay.
LEMMA ModalInvFailed ==
  ASSUME ModalInv, NEW m \in Modals, LoadFailed(m) PROVE ModalInv'
  <1> USE DEF ModalInv
  <1>1. /\ m \in loading /\ loading' = loading \ {m}
        /\ UNCHANGED <<fades, made, blocker, orphans, shown, hiding, targetless, showTimers,
                       locked, keys, early>>
    BY DEF LoadFailed
  <1>2. loading' \subseteq Modals /\ m \in Bare /\ Bare' = Bare \ {m} /\ Bare \subseteq Modals
    BY <1>1 DEF ModalTypes, StackOfModals, Bare
  <1>3. NotOpenedYet'
    BY <1>1 DEF NotOpenedYet
  <1>4. ~ misled => orphans = 0 /\
          Fitting(modals, blocker, shown, hiding, Bare, showTimers, locked, keys, early)
    BY DEF PageFits
  <1>5. /\ made' \in Nat /\ made' >= made /\ \A x \in Bare' : x <= made'
        /\ loading' \cap targetless' = {}
    BY <1>1, <1>2, ModalAssumption DEF ModalTypes, StackOfModals
  <1>6. CASE IsActive
    <2>1. modals' = Below(1) /\ misled' = (misled \/ Current /= m \/ locked)
      BY <1>6 DEF LoadFailed
    <2>2. Current \in Modals /\ Top(1) = {Current} /\ 1 \in 0..Len(modals)
      BY <1>6, CurrentModal
    <2>3. /\ Below(1) \in Seq(Modals)
          /\ \A x : x \in Range(modals) <=> x \in Range(Below(1)) \/ x \in Top(1)
          /\ \A x : ~ (x \in Range(Below(1)) /\ x \in Top(1))
      BY <2>2, BelowTop
    <2>4. ModalTypes'
      BY <1>1, <1>2, <2>1, <2>3 DEF ModalTypes
    <2>5. StackOfModals'
      BY <1>5, <2>1, <2>2, BelowIsStack
    <2>6. ASSUME ~ misled'
          PROVE  Fitting(Below(1), blocker, shown, hiding, Bare', showTimers, locked, keys, early)
      <3>1. ~ misled /\ Current = m /\ ~ locked
        BY <2>1, <2>6
      <3>2. Fitting(modals, blocker, shown, hiding, Bare, showTimers, locked, keys, early)
        BY <3>1, <1>4
      <3>3. \A x : x \in Range(modals) <=> x \in Range(Below(1)) \/ x = m
        BY <2>2, <2>3, <3>1
      <3>4. m \notin Range(Below(1))
        BY <2>2, <2>3, <3>1
      <3>5. blocker[m] = "none" /\ showTimers[m] = 0 /\ m \notin shown
        BY <3>2, <1>2 DEF Fitting, NotOpenedYet
      <3>6. ~ keys /\ \A x \in Modals : blocker[x] /= "up"
        BY <3>1, <3>2 DEF Fitting
      <3>7. \A x \in Modals : (blocker[x] = "up") <=> (x \in Range(Below(1)) /\ x \notin Bare')
        <4> TAKE x \in Modals
        <4>1. ~ (x \in Range(modals) /\ x \notin Bare)
          BY <3>2, <3>6 DEF Fitting
        <4> QED BY <4>1, <3>3, <3>4, <3>6, <1>2
      <3>8. \A x \in Bare' : x \in Range(Below(1)) /\ blocker[x] = "none"
        <4> TAKE x \in Bare'
        <4>1. x \in Bare /\ x /= m
          BY <1>2
        <4> QED BY <4>1, <3>2, <3>3 DEF Fitting
      <3>9. \A x \in Modals : showTimers[x] > 0 => x \in Range(Below(1)) \/ x \in early
        <4> TAKE x \in Modals
        <4>1. showTimers[x] > 0 => x \in Range(modals) \/ x \in early
          BY <3>2 DEF Fitting
        <4> QED BY <4>1, <3>3, <3>5
      <3>10. shown \subseteq Range(Below(1)) \cup hiding \cup early
        <4>1. shown \subseteq Range(modals) \cup hiding \cup early
          BY <3>2 DEF Fitting
        <4> QED BY <4>1, <3>3, <3>5
      <3> QED BY <3>1, <3>6, <3>7, <3>8, <3>9, <3>10 DEF Fitting
    <2>7. PageFits'
      <3>1. ~ misled' => ~ misled
        BY <2>1
      <3> QED BY <3>1, <1>1, <1>4, <2>1, <2>6 DEF PageFits
    <2> QED BY <1>3, <2>4, <2>5, <2>7
  <1>7. CASE ~ IsActive
    <2>1. UNCHANGED <<spinning, modals, misled>>
      BY <1>7 DEF LoadFailed
    <2>2. ModalTypes' /\ StackOfModals'
      BY <1>1, <1>2, <1>5, <2>1 DEF ModalTypes, StackOfModals
    <2>3. misled
      <3>1. m \notin Range(modals)
        BY <1>7, StackTypes DEF IsActive
      <3> QED BY <3>1, <1>2, <1>4 DEF Fitting
    <2>4. PageFits'
      BY <2>1, <2>3 DEF PageFits
    <2> QED BY <1>3, <2>2, <2>4
  <1> QED BY <1>6, <1>7

\* How many are closed for a new modal: up to the topmost without an overlay.
LEMMA ToCloseRange ==
  ASSUME ModalTypes, NEW ce \in BOOLEAN
  PROVE  ToClose(ce) \in 0..Len(modals)
  <1> DEFINE stuck == {k \in 1..Len(modals) : Throws(modals[k])}
  <1>1. Len(modals) \in Nat
    BY StackTypes
  <1>2. CASE stuck = {}
    BY <1>1, <1>2 DEF ToClose
  <1>3. CASE stuck /= {}
    <2>1. stuck \in SUBSET (1..Len(modals))
      OBVIOUS
    <2> HIDE DEF stuck
    <2>2. Max(stuck) \in 1..Len(modals)
      BY <1>1, <1>3, <2>1, MaxOfIndexes
    <2>3. ToClose(ce) = IF ~ ce THEN 0 ELSE Len(modals) - Max(stuck) + 1
      BY <1>3 DEF ToClose, stuck
    <2> QED BY <1>1, <2>2, <2>3
  <1> QED BY <1>2, <1>3

\* A dialog on top of the stack leaves those below as they are.
LEMMA AppendModal ==
  ASSUME NEW s \in Seq(Modals), NEW m \in Modals
  PROVE  /\ Append(s, m) \in Seq(Modals) /\ Len(Append(s, m)) = Len(s) + 1
         /\ \A k \in 1..Len(s) : Append(s, m)[k] = s[k]
         /\ Append(s, m)[Len(s) + 1] = m
  OBVIOUS

\* A new modal goes on top of a stack that may have lost its top.
LEMMA AppendedIsStack ==
  ASSUME ModalTypes, StackOfModals, NEW n \in 0..Len(modals), made < MaxModals,
         modals' = Append(Below(n), made + 1), made' = made + 1,
         \A m \in Bare' : m <= made', loading' \cap targetless' = {}
  PROVE  /\ StackOfModals' /\ modals' \in Seq(Modals)
         /\ \A x : x \in Range(modals') <=> x \in Range(Below(n)) \/ x = made + 1
         /\ made + 1 \notin Range(modals)
  <1> DEFINE left == Below(n)
  <1>1. /\ left \in Seq(Modals) /\ Len(left) = Len(modals) - n
        /\ \A k \in 1..(Len(modals) - n) : left[k] = modals[k]
    BY BelowTop
  <1>2. /\ Len(modals) \in Nat /\ n \in Nat
        /\ \A k \in 1..(Len(modals) - n) : k \in 1..Len(modals)
    BY StackTypes
  <1>3. made \in Nat /\ made + 1 \in Modals /\ \A k \in 1..Len(modals) : modals[k] \in Nat
    <2>1. made \in Nat /\ made + 1 \in Modals
      BY ModalAssumption DEF ModalTypes, Modals
    <2> QED BY <2>1, StackTypes
  <1>4. \A k \in 1..Len(left) : left[k] <= made /\ left[k] \in Nat
    BY <1>1, <1>2, <1>3 DEF StackOfModals
  <1>5. \A j, k \in 1..Len(left) : left[j] = left[k] => j = k
    BY <1>1, <1>2 DEF StackOfModals
  <1>6. Len(left) \in Nat /\ left \in Seq(Modals)
    BY <1>1
  <1>7. made + 1 \notin Range(modals)
    BY <1>3, StackTypes DEF StackOfModals
  <1>8. Range(left) = {left[k] : k \in 1..Len(left)}
    <2>1. DOMAIN left = 1..Len(left)
      BY <1>6
    <2> HIDE DEF left
    <2> QED BY <2>1 DEF Range
  <1> HIDE DEF left
  <1>9. modals' = Append(left, made + 1)
    BY DEF left
  <1>10. /\ modals' \in Seq(Modals) /\ Len(modals') = Len(left) + 1
         /\ \A k \in 1..Len(left) : modals'[k] = left[k]
         /\ modals'[Len(left) + 1] = made + 1
    <2>1. PICK m \in Modals : m = made + 1
      BY <1>3
    <2>2. modals' = Append(left, m)
      BY <1>9, <2>1
    <2>3. /\ modals' \in Seq(Modals) /\ Len(modals') = Len(left) + 1
          /\ \A k \in 1..Len(left) : modals'[k] = left[k]
          /\ modals'[Len(left) + 1] = m
      <3>1. left \in Seq(Modals)
        BY <1>6
      <3>2. m \in Modals
        BY <2>1
      <3>3. /\ Append(left, m) \in Seq(Modals) /\ Len(Append(left, m)) = Len(left) + 1
            /\ \A k \in 1..Len(left) : Append(left, m)[k] = left[k]
            /\ Append(left, m)[Len(left) + 1] = m
        BY <3>1, <3>2, AppendModal
      <3> QED BY <2>2, <3>3
    <2> QED BY <2>1, <2>3
  <1>11. \A k : k \in 1..Len(modals') <=> k \in 1..Len(left) \/ k = Len(left) + 1
    BY <1>6, <1>10
  <1>12. \A k \in 1..Len(modals') : modals'[k] <= made'
    BY <1>3, <1>4, <1>10, <1>11
  <1>13. \A j, k \in 1..Len(modals') : modals'[j] = modals'[k] => j = k
    <2> TAKE j, k \in 1..Len(modals')
    <2> HAVE modals'[j] = modals'[k]
    <2>1. CASE j \in 1..Len(left) /\ k \in 1..Len(left)
      BY <2>1, <1>5, <1>10
    <2>2. CASE j = Len(left) + 1 /\ k = Len(left) + 1
      BY <2>2
    <2>3. CASE j = Len(left) + 1 /\ k \in 1..Len(left)
      BY <2>3, <1>3, <1>4, <1>10
    <2>4. CASE k = Len(left) + 1 /\ j \in 1..Len(left)
      BY <2>4, <1>3, <1>4, <1>10
    <2> QED BY <1>11, <2>1, <2>2, <2>3, <2>4
  <1>14. \A x : x \in Range(modals') <=> x \in Range(left) \/ x = made + 1
    <2>1. DOMAIN modals' = 1..Len(modals')
      BY <1>10
    <2>2. Range(modals') = {modals'[k] : k \in 1..Len(modals')}
      BY <2>1 DEF Range
    <2> QED BY <2>2, <1>8, <1>10, <1>11
  <1>15. StackOfModals'
    BY <1>12, <1>13 DEF StackOfModals
  <1> QED BY <1>7, <1>10, <1>14, <1>15 DEF left

\* A new modal: nothing of it is on the page yet.
LEMMA NewIsFresh ==
  ASSUME ModalInv, made < MaxModals
  PROVE  /\ made \in Nat /\ made + 1 \in Modals /\ made + 1 \notin Bare
         /\ blocker[made + 1] = "none" /\ showTimers[made + 1] = 0 /\ made + 1 \notin shown
  <1>1. made \in Nat /\ made + 1 \in Modals
    BY ModalAssumption DEF ModalInv, ModalTypes, Modals
  <1>2. made + 1 \notin Bare
    BY <1>1 DEF ModalInv, StackOfModals
  <1>3. made + 1 > made
    BY <1>1
  <1> QED BY <1>1, <1>2, <1>3 DEF ModalInv, NotOpenedYet

\* Opening keeps the invariant.
LEMMA ModalInvNew ==
  ASSUME ModalInv, NEW kind \in Kinds, NEW ce \in BOOLEAN, NewModal(kind, ce)
  PROVE  ModalInv'
  <1> USE DEF ModalInv
  <1> DEFINE m == made + 1
             n == ToClose(ce)
             c == Closed(n)
             thrown == \E k \in Top(n) : Throws(k)
  <1>1. /\ made < MaxModals /\ made' = m
        /\ early' = c.early /\ misled' = c.misled /\ hiding' = c.hiding
        /\ UNCHANGED <<fades, orphans>>
    BY DEF NewModal
  <1>2. n \in 0..Len(modals)
    BY ToCloseRange
  <1>3. /\ made \in Nat /\ m \in Modals /\ m \notin Bare
        /\ blocker[m] = "none" /\ showTimers[m] = 0 /\ m \notin shown
    BY <1>1, NewIsFresh
  <1>4. made' \in 0..MaxModals /\ made' \in Nat /\ made' >= made
    BY <1>1, <1>3, ModalAssumption
  <1>5. /\ modals' = IF thrown THEN Below(n) ELSE Append(Below(n), m)
        /\ loading' = loading \cup (IF ~ thrown /\ kind = "fetched" THEN {m} ELSE {})
        /\ targetless' = targetless \cup (IF ~ thrown /\ kind = "targetless" THEN {m} ELSE {})
        /\ IF (IF ~ thrown /\ kind = "element" THEN {m} ELSE {}) /= {}
             THEN Open(m, c.blocker, c.shown)
             ELSE /\ blocker' = c.blocker /\ shown' = c.shown /\ locked' = c.locked
                  /\ keys' = c.keys /\ UNCHANGED showTimers
    BY DEF NewModal
  <1> HIDE DEF n
  <1>6. /\ c.blocker \in [Modals -> {"none", "up", "fading", "gone"}]
        /\ \A x \in Modals : c.blocker[x] = "none" <=> blocker[x] = "none"
        /\ c.shown \subseteq shown /\ c.hiding \subseteq Modals
        /\ c.locked \in BOOLEAN /\ c.keys \in BOOLEAN
        /\ c.early \subseteq Modals
        /\ c.misled \in BOOLEAN
        /\ misled => c.misled
        /\ (\E k \in Top(n) : Throws(k)) => c.misled
    BY <1>2, ClosedTypes
  <1>7. ASSUME ~ misled'
        PROVE  /\ orphans' = 0 /\ \A k \in Top(n) : ~ Throws(k)
               /\ Fitting(Below(n), c.blocker, c.shown, c.hiding, Bare, showTimers, c.locked, c.keys,
                       c.early)
    <2>1. ~ misled /\ \A k \in Top(n) : ~ Throws(k)
      BY <1>1, <1>6, <1>7
    <2> QED BY <2>1, <1>1, <1>2, ClosedFits DEF PageFits
  <1>8. /\ showTimers \in [Modals -> Nat] /\ Bare \subseteq Modals /\ shown \subseteq Modals
        /\ loading \subseteq Modals /\ targetless \subseteq Modals
        /\ loading \cap targetless = {} /\ Below(n) \in Seq(Modals)
        /\ \A x \in Bare : x <= made'
    <2>1. \A x \in Bare : x \in Nat /\ x <= made
      BY StackTypes DEF ModalTypes, StackOfModals, Bare
    <2> QED BY <2>1, <1>1, <1>2, <1>3, BelowTop DEF ModalTypes, StackOfModals, Bare
  <1>9. \A x \in Modals : x > made' => x > made
    BY <1>1, <1>3, StackTypes
  <1> HIDE DEF c, m
  <1>10. CASE thrown
    <2>1. /\ modals' = Below(n) /\ blocker' = c.blocker /\ shown' = c.shown
          /\ locked' = c.locked /\ keys' = c.keys
          /\ UNCHANGED <<loading, targetless, showTimers>> /\ Bare' = Bare
      BY <1>5, <1>10 DEF Bare
    <2>2. ModalTypes'
      BY <1>1, <1>4, <1>6, <1>8, <2>1 DEF ModalTypes
    <2>3. StackOfModals'
      BY <1>2, <1>4, <1>8, <2>1, BelowIsStack
    <2>4. NotOpenedYet'
      BY <1>6, <1>9, <2>1 DEF NotOpenedYet
    <2>5. PageFits'
      BY <1>1, <1>6, <1>10 DEF PageFits
    <2> QED BY <2>2, <2>3, <2>4, <2>5
  <1>11. CASE ~ thrown /\ kind /= "element"
    <2>1. /\ modals' = Append(Below(n), m)
          /\ blocker' = c.blocker /\ shown' = c.shown
          /\ locked' = c.locked /\ keys' = c.keys
          /\ UNCHANGED showTimers
      BY <1>5, <1>11
    <2>8. /\ Bare' = Bare \cup {m} /\ loading' \cap targetless' = {}
          /\ loading' \subseteq Modals /\ targetless' \subseteq Modals
      <3>1. m \notin loading /\ m \notin targetless
        BY <1>3 DEF Bare
      <3>2. CASE kind = "fetched"
        <4>1. loading' = loading \cup {m} /\ targetless' = targetless
          BY <1>5, <1>11, <3>2
        <4> QED BY <4>1, <3>1, <1>3, <1>8 DEF Bare
      <3>3. CASE kind = "targetless"
        <4>1. targetless' = targetless \cup {m} /\ loading' = loading
          BY <1>5, <1>11, <3>3
        <4> QED BY <4>1, <3>1, <1>3, <1>8 DEF Bare
      <3> QED BY <3>2, <3>3, <1>11 DEF Kinds
    <2>2. \A x \in Bare' : x <= made'
      BY <1>1, <1>3, <1>8, <2>8 DEF m
    <2>3. /\ StackOfModals' /\ modals' \in Seq(Modals)
          /\ \A x : x \in Range(modals') <=> x \in Range(Below(n)) \/ x = m
          /\ m \notin Range(modals)
      BY <1>1, <1>2, <2>1, <2>2, <2>8, AppendedIsStack DEF m
    <2>4. ModalTypes'
      BY <1>1, <1>3, <1>4, <1>6, <1>8, <2>1, <2>3, <2>8 DEF ModalTypes
    <2>5. NotOpenedYet'
      BY <1>6, <1>9, <2>1 DEF NotOpenedYet
    <2>6. ASSUME ~ misled'
          PROVE  Fitting(modals', c.blocker, c.shown, c.hiding, Bare', showTimers, c.locked,
                         c.keys, c.early)
      <3>1. Fitting(Below(n), c.blocker, c.shown, c.hiding, Bare, showTimers, c.locked, c.keys,
                       c.early)
        BY <1>7, <2>6
      <3>2. c.blocker[m] = "none"
        BY <1>3, <1>6
      <3>3. m \notin Range(Below(n))
        BY <1>2, <2>3, BelowTop
      <3>4. \A x \in Modals : (c.blocker[x] = "up") <=> (x \in Range(modals') /\ x \notin Bare')
        <4> TAKE x \in Modals
        <4>1. (c.blocker[x] = "up") <=> (x \in Range(Below(n)) /\ x \notin Bare)
          BY <3>1 DEF Fitting
        <4> QED BY <4>1, <3>2, <2>8, <2>3
      <3>5. \A x \in Bare' : x \in Range(modals') /\ c.blocker[x] = "none"
        BY <3>1, <3>2, <2>8, <2>3 DEF Fitting
      <3>6. \A x \in Modals : showTimers[x] > 0 => x \in Range(modals') \/ x \in c.early
        BY <3>1, <2>3 DEF Fitting
      <3>7. modals' /= <<>>
        <4>1. Range(<<>>) = {}
          BY DEF Range
        <4> QED BY <4>1, <2>3
      <3>8. c.shown \subseteq Range(modals') \cup c.hiding \cup c.early
        BY <3>1, <2>3 DEF Fitting
      <3> QED BY <3>1, <3>4, <3>5, <3>6, <3>7, <3>8 DEF Fitting
    <2>7. PageFits'
      BY <1>1, <1>7, <2>1, <2>6 DEF PageFits
    <2> QED BY <2>3, <2>4, <2>5, <2>7
  <1>12. CASE ~ thrown /\ kind = "element"
    <2>1. modals' = Append(Below(n), m) /\ Open(m, c.blocker, c.shown)
      BY <1>5, <1>12
    <2>10. loading' = loading /\ targetless' = targetless
      BY <1>5, <1>12
    <2>11. Bare' = Bare /\ loading' \cap targetless' = {}
      BY <2>10, <1>8 DEF Bare
    <2>2. \A x \in Bare' : x <= made'
      BY <1>8, <2>11
    <2>3. /\ StackOfModals' /\ modals' \in Seq(Modals)
          /\ \A x : x \in Range(modals') <=> x \in Range(Below(n)) \/ x = m
          /\ m \notin Range(modals)
      BY <1>1, <1>2, <2>1, <2>2, <2>11, AppendedIsStack DEF m
    <2>4. c.shown \in SUBSET Modals
      BY <1>6, <1>8
    <2>5. /\ blocker' \in [Modals -> {"none", "up", "fading", "gone"}]
          /\ shown' \subseteq Modals /\ showTimers' \in [Modals -> Nat]
          /\ locked' \in BOOLEAN /\ keys' \in BOOLEAN
          /\ blocker'[m] = "up"
          /\ \A x \in Modals \ {m} :
                /\ blocker'[x] = c.blocker[x] /\ showTimers'[x] = showTimers[x]
                /\ x \in shown' => x \in c.shown
      BY <1>3, <1>6, <2>1, <2>4, OpenTypes
    <2>6. ModalTypes'
      BY <1>1, <1>3, <1>4, <1>6, <1>8, <2>1, <2>3, <2>5, <2>10 DEF ModalTypes
    <2>7. NotOpenedYet'
      <3>1. ~ (m > made')
        BY <1>1, <1>3 DEF m
      <3>2. \A x \in Modals : x /= m =>
               /\ x > made' => blocker'[x] = "none"
               /\ blocker'[x] = "none" => showTimers'[x] = 0 /\ x \notin shown'
        BY <1>6, <1>9, <2>5 DEF NotOpenedYet
      <3> QED BY <3>1, <3>2, <2>5 DEF NotOpenedYet
    <2>8. ASSUME ~ misled'
          PROVE  Fitting(modals', blocker', shown', c.hiding, Bare, showTimers', locked', keys',
                         c.early)
      <3>1. Fitting(Below(n), c.blocker, c.shown, c.hiding, Bare, showTimers, c.locked, c.keys,
                       c.early)
        BY <1>7, <2>8
      <3>2. Bare \in SUBSET Modals /\ Bare \ {m} = Bare
        BY <1>3, <1>8
      <3>3. Fitting(modals', blocker', shown', c.hiding, Bare \ {m}, showTimers', locked',
                   keys', c.early)
        BY <3>1, <3>2, <1>3, <1>6, <2>1, <2>3, OpenFits
      <3> QED BY <3>2, <3>3
    <2>9. PageFits'
      BY <1>1, <1>7, <2>11, <2>8 DEF PageFits
    <2> QED BY <2>3, <2>6, <2>7, <2>9
  <1> QED BY <1>10, <1>11, <1>12

\* Every step keeps the invariant.
LEMMA ModalInvNext == ModalInv /\ [ModalNext]_modalVars => ModalInv'
  <1> SUFFICES ASSUME ModalInv, [ModalNext]_modalVars PROVE ModalInv'
    OBVIOUS
  <1>1. ASSUME NEW kind \in Kinds, NEW closeExisting \in BOOLEAN, NewModal(kind, closeExisting)
        PROVE  ModalInv'
    BY <1>1, ModalInvNew
  <1>2. CASE CloseCurrent
    BY <1>2, ModalInvClose
  <1>3. ASSUME NEW m \in Modals, Loaded(m) PROVE ModalInv'
    BY <1>3, ModalInvLoaded
  <1>4. ASSUME NEW m \in Modals, LoadFailed(m) PROVE ModalInv'
    BY <1>4, ModalInvFailed
  <1>5. ASSUME NEW m \in Modals, ShowTimer(m) \/ Faded(m) \/ Hidden(m) PROVE ModalInv'
    BY <1>5, ModalInvTimers
  <1>6. CASE UNCHANGED modalVars
    BY <1>6 DEF modalVars, ModalInv, ModalTypes, StackOfModals, NotOpenedYet, PageFits, Bare
  <1> QED BY <1>1, <1>2, <1>3, <1>4, <1>5, <1>6 DEF ModalNext

\* Unless an answer met another dialog or a dialog was closed before it had an
\* overlay, the overlays are those of the dialogs on the stack that have their
\* content and their target, the page is locked and listens for keys while there
\* is one, and what is displayed belongs to a dialog on the stack, is fading out
\* or was closed before its timer: whatever dialogs are opened, stacked, closed,
\* faded and loaded (open, close, block, unblock, show and hide of
\* jquery.modal.js).
THEOREM DialogsInPlaceAlways == ModalSpec => []DialogsInPlace
  <1>1. ModalInv => DialogsInPlace
    <2> SUFFICES ASSUME ModalInv, ~ misled PROVE DialogsInPlace
      BY DEF DialogsInPlace, CoveredWhileOpen, ShownIsOpen
    <2>1. orphans = 0 /\ Fitting(modals, blocker, shown, hiding, Bare, showTimers, locked, keys, early)
      BY DEF ModalInv, PageFits
    <2>2. \A m \in Range(modals) : m \in Modals
      BY StackTypes DEF ModalInv
    <2>3. {m \in Modals : blocker[m] = "up"} = Opened
      BY <2>1, <2>2 DEF Fitting, Opened, Bare
    <2>4. Opened /= {} => locked /\ keys
      BY <2>1, <2>3 DEF Fitting
    <2>5. ~ IsActive => ~ keys
      BY <2>1 DEF Fitting, IsActive
    <2>6. ~ IsActive /\ (\A m \in Modals : blocker[m] /= "fading") => ~ locked
      BY <2>1 DEF Fitting, IsActive
    <2>7. shown \subseteq Range(modals) \cup hiding \cup early
      BY <2>1 DEF Fitting
    <2> QED BY <2>1, <2>3, <2>4, <2>5, <2>6, <2>7 DEF DialogsInPlace, CoveredWhileOpen, ShownIsOpen
  <1> QED BY <1>1, ModalInvInit, ModalInvNext, PTL DEF ModalSpec


-----------------------------------------------------------------------------
\* Ajax: a request settles once.

\* What the variables hold.
Points == {"prefilter", "ajaxStart", "beforeSend", "ajaxSend", "convert", "callbacks", "statusCode",
           "result", "complete", "ajaxComplete", "ajaxStop"}
FrameTypes == [fn: {"ajax", "done"}, r: Requests, stage: Points, ok: BOOLEAN]

\* The types of the request machine.
RequestTypes ==
  /\ completed \in [Requests -> {"null", "false", "true"}]
  /\ outcome \in [Requests -> {"pending", "success", "error"}]
  /\ frames \in Seq(FrameTypes)

\* A done() whose answer is still to be converted.
Converts(i) == frames[i].fn = "done" /\ frames[i].stage = "convert"

\* A request has one done() that will settle it, and none once it is settled.
ConvertInv ==
  /\ \A i \in DOMAIN frames : Converts(i) =>
       completed[frames[i].r] = "true" /\ outcome[frames[i].r] = "pending"
  /\ \A i, j \in DOMAIN frames :
       Converts(i) /\ Converts(j) /\ frames[i].r = frames[j].r => i = j

\* A request that is settled is completed.
SettledInv == \A r \in Requests : outcome[r] # "pending" => completed[r] = "true"

\* The inductive invariant of OutcomeFinal.
AjaxInv == RequestTypes /\ ConvertInv /\ SettledInv

-----------------------------------------------------------------------------
\* It holds before the first request.
LEMMA AjaxInit_Inv == AjaxInit => AjaxInv
  BY DEF AjaxInit, AjaxInv, RequestTypes, ConvertInv, SettledInv

\* What a sequence keeps when its last element goes.
LEMMA UnderFrames ==
  ASSUME frames \in Seq(FrameTypes), frames # << >>
  PROVE  /\ Under \in Seq(FrameTypes) /\ Len(frames) \in DOMAIN frames
         /\ DOMAIN Under = DOMAIN frames \ {Len(frames)}
         /\ \A i \in DOMAIN Under : Under[i] = frames[i]
  BY DEF Under

\* Every frame is of a request.
LEMMA FrameRequests ==
  ASSUME frames \in Seq(FrameTypes)
  PROVE  \A i \in DOMAIN frames : frames[i].r \in Requests
<1>1. \A i \in DOMAIN frames : frames[i] \in FrameTypes
  OBVIOUS
<1> QED
  BY <1>1 DEF FrameTypes

\* The frames that are left keep the invariant.
LEMMA FewerFrames ==
  ASSUME AjaxInv, UNCHANGED <<completed, outcome>>,
         frames' \in Seq(FrameTypes), DOMAIN frames' \subseteq DOMAIN frames,
         \A i \in DOMAIN frames' : frames'[i] = frames[i]
  PROVE  AjaxInv'
  BY DEF AjaxInv, RequestTypes, ConvertInv, Converts, SettledInv

\* So do they when the frame on top comes to a point behind the conversion.
LEMMA LaterStage ==
  ASSUME AjaxInv, UNCHANGED <<completed, outcome>>, frames # << >>,
         NEW stage \in Points, stage # "convert", GoTo(stage)
  PROVE  AjaxInv'
<1> USE DEF AjaxInv
<1>1. frames \in Seq(FrameTypes) /\ Len(frames) \in DOMAIN frames
  BY DEF RequestTypes
<1>2. frames' = [frames EXCEPT ![Len(frames)] = [@ EXCEPT !.stage = stage]]
  BY DEF GoTo
<1>3. frames[Len(frames)] \in FrameTypes
  BY <1>1
<1>4. [frames[Len(frames)] EXCEPT !.stage = stage] \in FrameTypes
  BY <1>3 DEF FrameTypes
<1>5. /\ frames' \in Seq(FrameTypes) /\ DOMAIN frames' = DOMAIN frames
      /\ \A i \in DOMAIN frames \ {Len(frames)} : frames'[i] = frames[i]
      /\ frames'[Len(frames)].stage = stage
  BY <1>1, <1>2, <1>3, <1>4 DEF FrameTypes
<1>6. \A i \in DOMAIN frames' : Converts(i)' => i # Len(frames) /\ Converts(i) /\ frames'[i] = frames[i]
  BY <1>5 DEF Converts
<1>7. ConvertInv'
  BY <1>5, <1>6 DEF ConvertInv
<1> QED
  BY <1>5, <1>7 DEF RequestTypes, SettledInv

\* done() in the place of the frame on top, or above it: a request that is not
\* completed has no done() yet.
LEMMA DoneKeeps ==
  ASSUME AjaxInv, UNCHANGED outcome, NEW r \in Requests, NEW ok \in BOOLEAN,
         NEW below \in Seq(FrameTypes), DOMAIN below \subseteq DOMAIN frames,
         \A i \in DOMAIN below : below[i] = frames[i],
         Done(r, ok, below)
  PROVE  AjaxInv'
<1> USE DEF AjaxInv
<1>1. CASE completed[r] = "true"
  <2>1. frames' = below /\ completed' = completed
    BY <1>1 DEF Done
  <2> QED
    BY <2>1, FewerFrames
<1>2. CASE completed[r] # "true"
  <2> DEFINE new == [fn |-> "done", r |-> r, stage |-> "convert", ok |-> ok]
  <2>1. completed' = [completed EXCEPT ![r] = "true"] /\ frames' = Append(below, new)
    BY <1>2 DEF Done
  <2>2. new \in FrameTypes
    BY DEF FrameTypes, Points
  <2>3. /\ frames' \in Seq(FrameTypes)
        /\ DOMAIN frames' = DOMAIN below \cup {Len(below) + 1}
        /\ \A i \in DOMAIN below : frames'[i] = frames[i]
        /\ frames'[Len(below) + 1] = new
        /\ Len(below) + 1 \notin DOMAIN below
    BY <2>1, <2>2
  <2> HIDE DEF new
  <2>4. new.r = r
    BY DEF new
  <2>5. /\ completed'[r] = "true"
        /\ \A s \in Requests \ {r} : completed'[s] = completed[s]
        /\ completed' \in [Requests -> {"null", "false", "true"}]
    BY <2>1 DEF RequestTypes
  <2>6. outcome[r] = "pending" /\ outcome' = outcome
    BY <1>2 DEF SettledInv, RequestTypes
  <2>7. \A i \in DOMAIN below :
          Converts(i)' => Converts(i) /\ frames'[i].r = frames[i].r /\ frames[i].r # r /\ frames[i].r \in Requests
    BY <1>2, <2>3, FrameRequests DEF Converts, ConvertInv, RequestTypes
  <2>8. \A i \in DOMAIN frames' : Converts(i)' =>
          completed'[frames'[i].r] = "true" /\ outcome'[frames'[i].r] = "pending"
    <3> SUFFICES ASSUME NEW i \in DOMAIN frames', Converts(i)'
                 PROVE  completed'[frames'[i].r] = "true" /\ outcome'[frames'[i].r] = "pending"
      OBVIOUS
    <3>1. CASE i \in DOMAIN below
      BY <2>5, <2>6, <2>7, <3>1 DEF ConvertInv
    <3>2. CASE i = Len(below) + 1
      BY <2>3, <2>4, <2>5, <2>6, <3>2
    <3> QED
      BY <2>3, <3>1, <3>2
  <2>9. \A i, j \in DOMAIN frames' :
          Converts(i)' /\ Converts(j)' /\ frames'[i].r = frames'[j].r => i = j
    <3> SUFFICES ASSUME NEW i \in DOMAIN frames', NEW j \in DOMAIN frames',
                        Converts(i)', Converts(j)', frames'[i].r = frames'[j].r
                 PROVE  i = j
      OBVIOUS
    <3>1. CASE i \in DOMAIN below /\ j \in DOMAIN below
      BY <2>7, <3>1 DEF ConvertInv
    <3>2. CASE i = Len(below) + 1 /\ j \in DOMAIN below
      BY <2>3, <2>4, <2>7, <3>2
    <3>3. CASE i \in DOMAIN below /\ j = Len(below) + 1
      BY <2>3, <2>4, <2>7, <3>3
    <3> QED
      BY <2>3, <3>1, <3>2, <3>3
  <2>10. SettledInv'
    BY <2>5, <2>6 DEF SettledInv
  <2> QED
    BY <2>3, <2>5, <2>6, <2>8, <2>9, <2>10 DEF ConvertInv, RequestTypes
<1> QED
  BY <1>1, <1>2

\* The same for a done() that replaces the frame on top.
LEMMA DoneOnTop ==
  ASSUME AjaxInv, UNCHANGED outcome, frames # << >>, NEW ok \in BOOLEAN,
         Done(Frame.r, ok, Under)
  PROVE  AjaxInv'
<1>1. frames \in Seq(FrameTypes)
  BY DEF AjaxInv, RequestTypes
<1>2. Frame.r \in Requests
  BY <1>1, UnderFrames, FrameRequests DEF Frame
<1> QED
  BY <1>1, <1>2, UnderFrames, DoneKeeps

\* And for one above all frames.
LEMMA DoneAbove ==
  ASSUME AjaxInv, UNCHANGED outcome, NEW r \in Requests, NEW ok \in BOOLEAN,
         Done(r, ok, frames)
  PROVE  AjaxInv'
  BY DoneKeeps DEF AjaxInv, RequestTypes

-----------------------------------------------------------------------------
\* A request is begun: its frame converts nothing.
LEMMA AjaxStep ==
  ASSUME AjaxInv, Ajax
  PROVE  AjaxInv'
<1> USE DEF AjaxInv
<1>1. PICK r \in Requests :
        frames' = Append(frames, [fn |-> "ajax", r |-> r, stage |-> "prefilter", ok |-> FALSE])
  BY DEF Ajax, Begun
<1>2. UNCHANGED <<completed, outcome>> /\ frames \in Seq(FrameTypes)
  BY DEF Ajax, RequestTypes
<1> DEFINE new == [fn |-> "ajax", r |-> r, stage |-> "prefilter", ok |-> FALSE]
<1>3. new \in FrameTypes
  BY DEF FrameTypes, Points
<1>4. /\ frames' \in Seq(FrameTypes)
      /\ DOMAIN frames' = DOMAIN frames \cup {Len(frames) + 1}
      /\ \A i \in DOMAIN frames : frames'[i] = frames[i]
      /\ frames'[Len(frames) + 1] = new
  BY <1>1, <1>2, <1>3
<1>5. \A i \in DOMAIN frames' : Converts(i)' => i \in DOMAIN frames /\ Converts(i)
  BY <1>4 DEF Converts
<1> HIDE DEF new
<1>6. ConvertInv'
  BY <1>2, <1>4, <1>5 DEF ConvertInv
<1> QED
  BY <1>2, <1>4, <1>6 DEF RequestTypes, SettledInv

\* The conversion settles the request; no other done() will.
LEMMA AfterConvertStep ==
  ASSUME AjaxInv, AfterConvert
  PROVE  AjaxInv' /\ \A r \in Requests : outcome[r] # "pending" => outcome'[r] = outcome[r]
<1> USE DEF AjaxInv
<1>1. PICK result \in {"success", "error"} : outcome' = [outcome EXCEPT ![Frame.r] = result]
  BY DEF AfterConvert
<1>2. frames # << >> /\ Frame.fn = "done" /\ Frame.stage = "convert" /\ completed' = completed
  BY DEF AfterConvert, At
<1> DEFINE n == Len(frames)
<1>3. frames \in Seq(FrameTypes) /\ n \in DOMAIN frames /\ Frame = frames[n] /\ Frame \in FrameTypes
  BY <1>2 DEF RequestTypes, Frame
<1>4. Frame.r \in Requests /\ Converts(n)
  BY <1>2, <1>3 DEF FrameTypes, Converts
<1>5. outcome[Frame.r] = "pending" /\ completed[Frame.r] = "true"
  BY <1>3, <1>4 DEF ConvertInv
<1>6. frames' = [frames EXCEPT ![n] = [@ EXCEPT !.stage = "callbacks"]]
  BY DEF AfterConvert, GoTo
<1>7. [frames[n] EXCEPT !.stage = "callbacks"] \in FrameTypes
  BY <1>3 DEF FrameTypes, Points
<1> HIDE DEF n
<1>8. /\ frames' \in Seq(FrameTypes) /\ DOMAIN frames' = DOMAIN frames
      /\ \A i \in DOMAIN frames \ {n} : frames'[i] = frames[i]
      /\ frames'[n].stage = "callbacks"
  BY <1>3, <1>6, <1>7 DEF FrameTypes
<1>9. \A i \in DOMAIN frames' :
        Converts(i)' => /\ i # n /\ Converts(i) /\ frames'[i] = frames[i]
                        /\ frames[i].r # Frame.r /\ frames[i].r \in Requests
  <2>1. \A i \in DOMAIN frames' : Converts(i)' => i # n /\ Converts(i) /\ frames'[i] = frames[i]
    BY <1>8 DEF Converts
  <2>2. \A i \in DOMAIN frames : frames[i].r \in Requests
    BY <1>3, FrameRequests
  <2> QED
    BY <1>3, <1>4, <1>8, <2>1, <2>2 DEF ConvertInv
<1>10. /\ outcome' \in [Requests -> {"pending", "success", "error"}]
       /\ \A r \in Requests \ {Frame.r} : outcome'[r] = outcome[r]
  BY <1>1, <1>4 DEF RequestTypes
<1>11. ConvertInv'
  BY <1>2, <1>8, <1>9, <1>10 DEF ConvertInv
<1>12. SettledInv'
  BY <1>2, <1>5, <1>10 DEF SettledInv
<1> QED
  BY <1>2, <1>5, <1>8, <1>10, <1>11, <1>12 DEF RequestTypes

\* All other points of ajax() and done().
LEMMA OtherReturns ==
  ASSUME AjaxInv,
         \/ AfterPrefilters \/ AfterAjaxStart \/ AfterBeforeSend \/ NoTransport \/ Send
         \/ StageDone \/ AfterAjaxComplete \/ AfterAjaxStop \/ PageThrows
  PROVE  AjaxInv' /\ outcome' = outcome
<1>1. outcome' = outcome /\ frames # << >> /\ frames \in Seq(FrameTypes)
  BY DEF AfterPrefilters, AfterAjaxStart, AfterBeforeSend, NoTransport, Send, StageDone,
         AfterAjaxComplete, AfterAjaxStop, PageThrows, At, AjaxInv, RequestTypes
<1>2. ASSUME frames' = Under, completed' = completed PROVE AjaxInv'
  BY <1>1, <1>2, UnderFrames, FewerFrames
<1>3. CASE AfterPrefilters
  <2>1. completed' = completed /\ (frames' = Under \/ GoTo("ajaxStart") \/ GoTo("beforeSend"))
    BY <1>3 DEF AfterPrefilters
  <2> QED
    BY <1>1, <1>2, <2>1, LaterStage DEF Points
<1>4. CASE AfterAjaxStart
  BY <1>1, <1>4, LaterStage DEF AfterAjaxStart, Points
<1>5. CASE AfterBeforeSend
  <2>1. (GoTo("ajaxSend") /\ completed' = completed) \/ Done(Frame.r, FALSE, Under)
    BY <1>5 DEF AfterBeforeSend
  <2> QED
    BY <1>1, <2>1, LaterStage, DoneOnTop DEF Points
<1>6. CASE NoTransport
  BY <1>1, <1>6, DoneOnTop DEF NoTransport
<1>7. CASE Send
  <2>1. \/ frames' = Under /\ completed' = completed
        \/ \E ok \in BOOLEAN : Done(Frame.r, ok, Under)
        \/ completed[Frame.r] # "true" /\ completed' = [completed EXCEPT ![Frame.r] = "false"] /\ frames' = Under
    BY <1>7 DEF Send
  <2>2. ASSUME completed[Frame.r] # "true", frames' = Under,
               completed' = [completed EXCEPT ![Frame.r] = "false"]
        PROVE  AjaxInv'
    <3> USE DEF AjaxInv
    <3>1. /\ Under \in Seq(FrameTypes) /\ DOMAIN Under \subseteq DOMAIN frames
          /\ \A i \in DOMAIN Under : Under[i] = frames[i]
      BY <1>1, UnderFrames
    <3>2. /\ completed' \in [Requests -> {"null", "false", "true"}]
          /\ \A r \in Requests : completed[r] = "true" => completed'[r] = "true"
      BY <2>2 DEF RequestTypes
    <3>3. \A i \in DOMAIN frames : frames[i].r \in Requests
      BY <1>1, FrameRequests
    <3>4. ConvertInv'
      BY <1>1, <2>2, <3>1, <3>2, <3>3 DEF ConvertInv, Converts
    <3>5. SettledInv'
      BY <1>1, <3>2 DEF SettledInv
    <3> QED
      BY <1>1, <2>2, <3>1, <3>2, <3>4, <3>5 DEF RequestTypes
  <2> QED
    BY <1>1, <1>2, <2>1, <2>2, DoneOnTop
<1>8. CASE StageDone
  <2>1. /\ completed' = completed
        /\ frames' = Under \/ \E j \in DOMAIN Stages : GoTo(Stages[j])
    <3>1. completed' = completed
      BY <1>8 DEF StageDone
    <3>2. PICK i \in DOMAIN Stages :
            LET later == {j \in Calls(Frame.r) : j > i}
            IN IF later = {} THEN frames' = Under
               ELSE GoTo(Stages[CHOOSE j \in later : \A k \in later : j <= k])
      BY <1>8 DEF StageDone
    <3> DEFINE later == {j \in Calls(Frame.r) : j > i}
               next == CHOOSE j \in later : \A k \in later : j <= k
    <3>3. CASE later = {}
      BY <3>1, <3>2, <3>3
    <3>4. CASE later # {}
      <4>1. later \subseteq 1 .. 5
        BY DEF Calls, Stages
      <4>2. \E j \in later : \A k \in later : j <= k
        BY <3>4, <4>1
      <4>3. next \in later
        BY <4>2
      <4>4. next \in DOMAIN Stages /\ GoTo(Stages[next])
        BY <3>2, <3>4, <4>3 DEF Calls
      <4> QED
        BY <3>1, <4>4
    <3> QED
      BY <3>3, <3>4
  <2>2. \A j \in DOMAIN Stages : Stages[j] \in Points /\ Stages[j] # "convert"
    BY DEF Stages, Points
  <2> QED
    BY <1>1, <1>2, <2>1, <2>2, LaterStage
<1>9. CASE AfterAjaxComplete
  <2>1. completed' = completed /\ (frames' = Under \/ GoTo("ajaxStop"))
    BY <1>9 DEF AfterAjaxComplete
  <2> QED
    BY <1>1, <1>2, <2>1, LaterStage DEF Points
<1>10. CASE AfterAjaxStop
  BY <1>2, <1>10 DEF AfterAjaxStop
<1>11. CASE PageThrows
  BY <1>2, <1>11 DEF PageThrows
<1> QED
  BY <1>1, <1>3, <1>4, <1>5, <1>6, <1>7, <1>8, <1>9, <1>10, <1>11

\* Every step keeps it, and settles no settled request again.
LEMMA AjaxNextStep ==
  ASSUME AjaxInv, [AjaxNext]_ajaxVars
  PROVE  AjaxInv' /\ \A r \in Requests : outcome[r] # "pending" => outcome'[r] = outcome[r]
<1>1. CASE Ajax
  BY <1>1, AjaxStep DEF Ajax
<1>2. CASE Abort \/ TimedOut \/ Answer
  <2>1. PICK r \in Requests, ok \in BOOLEAN : outcome' = outcome /\ Done(r, ok, frames)
    BY <1>2 DEF Abort, TimedOut, Answer, Begun
  <2> QED
    BY <2>1, DoneAbove
<1>3. CASE PageReturns \/ PageThrows
  BY <1>3, AfterConvertStep, OtherReturns DEF PageReturns
<1>4. CASE UNCHANGED ajaxVars
  <2>1. UNCHANGED <<completed, outcome, frames>>
    BY <1>4 DEF ajaxVars
  <2> QED
    BY <2>1 DEF AjaxInv, RequestTypes, ConvertInv, Converts, SettledInv
<1> QED
  BY <1>1, <1>2, <1>3, <1>4 DEF AjaxNext

\* jQuery.ajax: a request settles once.  Whatever answers, timers and aborts
\* come after, and however calls of the page nest, the outcome stays.
THEOREM OutcomeFinalAlways == AjaxSpec => OutcomeFinal
<1>1. AjaxInv /\ [AjaxNext]_ajaxVars =>
        [\A r \in Requests : outcome[r] # "pending" => outcome'[r] = outcome[r]]_ajaxVars
  BY AjaxNextStep
<1>2. AjaxInv /\ [AjaxNext]_ajaxVars => AjaxInv'
  BY AjaxNextStep
<1> QED
  BY AjaxInit_Inv, <1>1, <1>2, PTL DEF AjaxSpec, OutcomeFinal

-----------------------------------------------------------------------------
\* Ajax: requests are counted.

\* What the variables of the count hold.
CountTypes ==
  /\ settings \in [Requests -> AjaxSettings \cup {NoSettings}]
  /\ counted \in [Requests -> BOOLEAN]
  /\ lost \subseteq Requests

\* A call of done() is the first one of a request that is completed; one that
\* the page has thrown out of is over.  A request is counted after the
\* prefilters, and counted down only if it was counted.
FrameFits(i) ==
  LET r == frames[i].r IN
  /\ r \in Begun
  /\ frames[i].fn = "done" => completed[r] = "true" /\ r \notin lost
  /\ frames[i].fn = "done" /\ frames[i].stage = "ajaxComplete" => counted[r]
  /\ frames[i].fn = "ajax" /\ frames[i].stage = "prefilter" => ~ counted[r]

\* Every frame fits, and each call is in the stack once.
FramesInv ==
  /\ \A i \in DOMAIN frames : FrameFits(i)
  /\ \A i, j \in DOMAIN frames :
       frames[i].fn = frames[j].fn /\ frames[i].r = frames[j].r => i = j

\* Nothing has happened to a request that is not called.
BegunInv ==
  /\ \A r \in Requests \ Begun : ~ counted[r] /\ completed[r] # "true"
  /\ \A r \in lost : completed[r] = "true"

\* The requests that jQuery.active should count.
CountedRequests == {r \in Requests : Counted(r)}

\* It counts them.
CountInv == IsFiniteSet(CountedRequests) /\ ajaxActive = Cardinality(CountedRequests)

\* Starts and stops alternate, and the last is a start while requests are
\* counted.
SignalsInv ==
  /\ signals \in Seq({"ajaxStart", "ajaxStop"})
  /\ \A i \in DOMAIN signals : signals[i] = IF i % 2 = 1 THEN "ajaxStart" ELSE "ajaxStop"
  /\ ajaxActive > 0 <=> Len(signals) % 2 = 1

\* The inductive invariant of ActiveCounts, beside AjaxInv and SentInv.
ActiveInv == CountTypes /\ FramesInv /\ BegunInv /\ CountInv /\ SignalsInv

\* It holds before the first request.
LEMMA ActiveInit_Inv == AjaxInit => ActiveInv
<1> SUFFICES ASSUME AjaxInit PROVE ActiveInv
  OBVIOUS
<1>1. /\ settings = [r \in Requests |-> NoSettings] /\ completed = [r \in Requests |-> "null"]
      /\ counted = [r \in Requests |-> FALSE] /\ ajaxActive = 0
      /\ frames = << >> /\ signals = << >> /\ lost = {}
  BY DEF AjaxInit
<1>2. \A r \in Requests : ~ counted[r] /\ completed[r] # "true"
  BY <1>1
<1>3. CountedRequests = {}
  BY <1>2 DEF CountedRequests, Counted
<1>4. CountTypes
  BY <1>1 DEF CountTypes
<1>5. FramesInv
  BY <1>1 DEF FramesInv
<1>6. BegunInv
  BY <1>1, <1>2 DEF BegunInv
<1>7. CountInv
  BY <1>1, <1>3, FS_EmptySet DEF CountInv
<1>8. SignalsInv
  <2>1. signals \in Seq({"ajaxStart", "ajaxStop"}) /\ Len(signals) = 0 /\ DOMAIN signals = {}
    BY <1>1
  <2> QED
    BY <1>1, <2>1 DEF SignalsInv
<1> QED
  BY <1>4, <1>5, <1>6, <1>7, <1>8 DEF ActiveInv

\* The counter stands while no request begins or stops to be counted.
LEMMA SameCount ==
  ASSUME ActiveInv, \A r \in Requests : Counted(r)' <=> Counted(r),
         UNCHANGED <<ajaxActive, signals>>
  PROVE  CountInv' /\ SignalsInv'
<1>1. CountedRequests' = CountedRequests
  BY DEF CountedRequests
<1> QED
  BY <1>1 DEF ActiveInv, CountInv, SignalsInv

\* Frames that go do not count: an ajax(), a done() that has counted down, or
\* one of a request that is not counted.
LEMMA FramesGo ==
  ASSUME ActiveInv, UNCHANGED <<settings, completed, counted, lost, ajaxActive, signals>>,
         DOMAIN frames' \subseteq DOMAIN frames, \A i \in DOMAIN frames' : frames'[i] = frames[i],
         \A i \in DOMAIN frames \ DOMAIN frames' :
           frames[i].fn = "done" /\ frames[i].stage # "ajaxStop" => ~ counted[frames[i].r]
  PROVE  ActiveInv'
<1>1. CountTypes' /\ BegunInv'
  BY DEF ActiveInv, CountTypes, BegunInv, Begun
<1>2. FramesInv'
  BY DEF ActiveInv, FramesInv, FrameFits, Begun
<1>3. \A r \in Requests : Counted(r)' <=> Counted(r)
  BY DEF Counted
<1> QED
  BY <1>1, <1>2, <1>3, SameCount DEF ActiveInv

\* The frame on top goes on to a point of the call it is.
LEMMA FrameGoesOn ==
  ASSUME AjaxInv, ActiveInv, frames # << >>, NEW stage \in Points, GoTo(stage),
         UNCHANGED <<settings, completed, counted, lost>>,
         stage # "prefilter", stage = "ajaxComplete" => counted[Frame.r],
         NEW top \in Requests, top = Frame.r
  PROVE  /\ CountTypes' /\ FramesInv' /\ BegunInv'
         /\ \A r \in Requests :
              r # top \/ (Frame.stage # "ajaxStop" /\ stage # "ajaxStop") => (Counted(r)' <=> Counted(r))
         /\ stage = "ajaxStop" /\ Frame.fn = "done" => ~ Counted(top)'
<1> DEFINE n == Len(frames)
<1>1. frames \in Seq(FrameTypes) /\ n \in DOMAIN frames /\ Frame = frames[n] /\ Frame \in FrameTypes
  BY DEF AjaxInv, RequestTypes, Frame
<1>2. frames' = [frames EXCEPT ![n] = [@ EXCEPT !.stage = stage]]
  BY DEF GoTo
<1> HIDE DEF n
<1>3. /\ DOMAIN frames' = DOMAIN frames
      /\ \A i \in DOMAIN frames \ {n} : frames'[i] = frames[i]
      /\ frames'[n].stage = stage /\ frames'[n].fn = Frame.fn /\ frames'[n].r = Frame.r
  BY <1>1, <1>2 DEF FrameTypes
<1>4. \A i \in DOMAIN frames : frames'[i].fn = frames[i].fn /\ frames'[i].r = frames[i].r
  BY <1>1, <1>3
<1>5. CountTypes' /\ BegunInv'
  BY DEF ActiveInv, CountTypes, BegunInv, Begun
<1>6. \A i \in DOMAIN frames' : FrameFits(i)
  BY <1>3 DEF ActiveInv, FramesInv
<1>7. \A i \in DOMAIN frames' : FrameFits(i)'
  <2> SUFFICES ASSUME NEW i \in DOMAIN frames' PROVE FrameFits(i)'
    OBVIOUS
  <2>1. FrameFits(i)
    BY <1>6
  <2>2. CASE i # n
    BY <1>3, <2>1, <2>2 DEF FrameFits, Begun
  <2>3. CASE i = n
    BY <1>1, <1>3, <2>1, <2>3 DEF FrameFits, Begun
  <2> QED
    BY <2>2, <2>3
<1>8. FramesInv'
  BY <1>3, <1>4, <1>7 DEF ActiveInv, FramesInv
<1>9. ASSUME NEW r \in Requests, r # top \/ (Frame.stage # "ajaxStop" /\ stage # "ajaxStop")
      PROVE  Counted(r)' <=> Counted(r)
  <2>1. \A i \in DOMAIN frames : frames[i].r = r =>
          (frames'[i].stage # "ajaxStop" <=> frames[i].stage # "ajaxStop")
    BY <1>1, <1>3, <1>9
  <2> QED
    BY <1>3, <1>4, <2>1 DEF Counted
<1>10. ASSUME stage = "ajaxStop", Frame.fn = "done" PROVE ~ Counted(top)'
  <2>1. completed[top] = "true" /\ top \notin lost
    BY <1>1, <1>3, <1>6, <1>10 DEF FrameFits
  <2>2. \A i \in DOMAIN frames : frames[i].fn = "done" /\ frames[i].r = top => i = n
    BY <1>1, <1>10 DEF ActiveInv, FramesInv
  <2> QED
    BY <1>3, <1>4, <1>10, <2>1, <2>2 DEF Counted
<1> QED
  BY <1>5, <1>8, <1>9, <1>10

\* The same, when it is counted as before.
LEMMA FrameGoesOnCounted ==
  ASSUME AjaxInv, ActiveInv, frames # << >>, NEW stage \in Points, GoTo(stage),
         UNCHANGED <<settings, completed, counted, lost, ajaxActive, signals>>,
         stage \notin {"prefilter", "ajaxStop"}, Frame.stage # "ajaxStop",
         stage = "ajaxComplete" => counted[Frame.r]
  PROVE  ActiveInv'
<1>1. PICK top \in Requests : top = Frame.r
  BY FrameRequests, UnderFrames DEF AjaxInv, RequestTypes, Frame
<1>2. \A r \in Requests : Counted(r)' <=> Counted(r)
  BY <1>1, FrameGoesOn
<1> QED
  BY <1>1, <1>2, FrameGoesOn, SameCount DEF ActiveInv

\* done() is counted instead of the request it completes.
LEMMA DoneCounted ==
  ASSUME AjaxInv, ActiveInv, NEW r \in Begun, NEW ok \in BOOLEAN,
         NEW below \in Seq(FrameTypes), DOMAIN below \subseteq DOMAIN frames,
         \A i \in DOMAIN below : below[i] = frames[i],
         \A i \in DOMAIN frames \ DOMAIN below : frames[i].fn # "done",
         Done(r, ok, below), UNCHANGED <<settings, counted, lost, ajaxActive, signals>>
  PROVE  ActiveInv'
<1>1. CASE completed[r] = "true"
  <2>1. frames' = below /\ completed' = completed
    BY <1>1 DEF Done
  <2> QED
    BY <2>1, FramesGo
<1>2. CASE completed[r] # "true"
  <2> DEFINE new == [fn |-> "done", r |-> r, stage |-> "convert", ok |-> ok]
             top == Len(below) + 1
  <2>1. completed' = [completed EXCEPT ![r] = "true"] /\ frames' = Append(below, new)
    BY <1>2 DEF Done
  <2>2. new \in FrameTypes /\ r \in Requests
    BY DEF FrameTypes, Points, Begun
  <2>3. /\ DOMAIN frames' = DOMAIN below \cup {top} /\ top \notin DOMAIN below
        /\ \A i \in DOMAIN below : frames'[i] = frames[i]
        /\ frames'[top] = new
    BY <2>1, <2>2
  <2>4. new.r = r /\ new.fn = "done" /\ new.stage = "convert"
    OBVIOUS
  <2> HIDE DEF new, top
  <2>5. /\ completed'[r] = "true"
        /\ \A q \in Requests \ {r} : completed'[q] = completed[q]
    BY <2>1, <2>2 DEF AjaxInv, RequestTypes
  <2>6. r \notin lost
    BY <1>2 DEF ActiveInv, BegunInv
  <2>7. \A i \in DOMAIN frames : frames[i].fn = "done" => frames[i].r # r
    BY <1>2 DEF ActiveInv, FramesInv, FrameFits
  <2>8. \A i \in DOMAIN frames : FrameFits(i) /\ frames[i].r \in Requests
    BY DEF ActiveInv, FramesInv, FrameFits, Begun
  <2>9. \A i \in DOMAIN frames' : FrameFits(i)'
    <3> SUFFICES ASSUME NEW i \in DOMAIN frames' PROVE FrameFits(i)'
      OBVIOUS
    <3>1. CASE i \in DOMAIN below
      <4>1. frames'[i] = frames[i] /\ FrameFits(i) /\ frames[i].r \in Requests
        BY <2>3, <2>8, <3>1
      <4> QED
        BY <2>5, <4>1 DEF FrameFits, Begun
    <3>2. CASE i = top
      BY <2>3, <2>4, <2>5, <2>6, <3>2 DEF FrameFits, Begun
    <3> QED
      BY <2>3, <3>1, <3>2
  <2>10. \A i, j \in DOMAIN frames' :
           frames'[i].fn = frames'[j].fn /\ frames'[i].r = frames'[j].r => i = j
    <3>1. \A i \in DOMAIN below : ~ (frames'[i].fn = "done" /\ frames'[i].r = r)
      BY <2>3, <2>7
    <3>2. \A i, j \in DOMAIN below :
            frames'[i].fn = frames'[j].fn /\ frames'[i].r = frames'[j].r => i = j
      BY <2>3 DEF ActiveInv, FramesInv
    <3> QED
      BY <2>3, <2>4, <3>1, <3>2
  <2>11. BegunInv'
    BY <2>2, <2>5 DEF ActiveInv, CountTypes, BegunInv, Begun
  <2>12. \A q \in Requests : Counted(q)' <=> Counted(q)
    <3> SUFFICES ASSUME NEW q \in Requests PROVE Counted(q)' <=> Counted(q)
      OBVIOUS
    <3>1. CASE q = r
      <4>1. counted[r] => Counted(r)
        BY <1>2 DEF Counted
      <4>2. counted[r] => Counted(r)'
        BY <2>3, <2>4 DEF Counted
      <4> QED
        BY <3>1, <4>1, <4>2 DEF Counted
    <3>2. CASE q # r
      <4>1. (\E i \in DOMAIN frames' : frames'[i].fn = "done" /\ frames'[i].r = q /\ frames'[i].stage # "ajaxStop")
            <=> (\E i \in DOMAIN frames : frames[i].fn = "done" /\ frames[i].r = q /\ frames[i].stage # "ajaxStop")
        BY <2>3, <2>4, <3>2
      <4> QED
        BY <2>5, <3>2, <4>1 DEF Counted
    <3> QED
      BY <3>1, <3>2
  <2>13. CountTypes'
    BY DEF ActiveInv, CountTypes
  <2> QED
    BY <2>9, <2>10, <2>11, <2>12, <2>13, SameCount DEF FramesInv, ActiveInv
<1> QED
  BY <1>1, <1>2

\* For a done() in the place of an ajax() on top, and for one above all frames.
LEMMA DoneOnTopCounted ==
  ASSUME AjaxInv, ActiveInv, frames # << >>, Frame.fn = "ajax", NEW ok \in BOOLEAN,
         Done(Frame.r, ok, Under), UNCHANGED <<settings, counted, lost, ajaxActive, signals>>
  PROVE  ActiveInv'
<1>1. frames \in Seq(FrameTypes)
  BY DEF AjaxInv, RequestTypes
<1>2. /\ Under \in Seq(FrameTypes) /\ Len(frames) \in DOMAIN frames
      /\ DOMAIN Under = DOMAIN frames \ {Len(frames)}
      /\ \A i \in DOMAIN Under : Under[i] = frames[i]
  BY <1>1, UnderFrames
<1>3. Frame.r \in Begun
  BY <1>2 DEF Frame, ActiveInv, FramesInv, FrameFits
<1>4. \A i \in DOMAIN frames \ DOMAIN Under : frames[i].fn # "done"
  BY <1>2 DEF Frame
<1> QED
  BY <1>2, <1>3, <1>4, DoneCounted

\* A done() called by an event, not by code of a request.
LEMMA DoneAboveCounted ==
  ASSUME AjaxInv, ActiveInv, NEW r \in Begun, NEW ok \in BOOLEAN,
         Done(r, ok, frames), UNCHANGED <<settings, counted, lost, ajaxActive, signals>>
  PROVE  ActiveInv'
  BY DoneCounted DEF AjaxInv, RequestTypes

\* The frame on top goes, and does not count.
LEMMA TopGoes ==
  ASSUME AjaxInv, ActiveInv, frames # << >>, frames' = Under,
         UNCHANGED <<settings, completed, counted, lost, ajaxActive, signals>>,
         Frame.fn = "done" /\ Frame.stage # "ajaxStop" => ~ counted[Frame.r]
  PROVE  ActiveInv'
<1>1. /\ Len(frames) \in DOMAIN frames
      /\ DOMAIN Under = DOMAIN frames \ {Len(frames)}
      /\ \A i \in DOMAIN Under : Under[i] = frames[i]
  BY UnderFrames DEF AjaxInv, RequestTypes
<1> QED
  BY <1>1, FramesGo DEF Frame

-----------------------------------------------------------------------------
\* A call of jQuery.ajax() is not counted before its prefilters.
LEMMA AjaxCounted ==
  ASSUME AjaxInv, ActiveInv, Ajax
  PROVE  ActiveInv'
<1>1. PICK r \in Requests \ Begun, s \in AjaxSettings :
        /\ settings' = [settings EXCEPT ![r] = s]
        /\ frames' = Append(frames, [fn |-> "ajax", r |-> r, stage |-> "prefilter", ok |-> FALSE])
  BY DEF Ajax
<1>2. UNCHANGED <<completed, counted, lost, ajaxActive, signals>> /\ frames \in Seq(FrameTypes)
  BY DEF Ajax, AjaxInv, RequestTypes
<1> DEFINE new == [fn |-> "ajax", r |-> r, stage |-> "prefilter", ok |-> FALSE]
           top == Len(frames) + 1
<1>3. new \in FrameTypes /\ new.fn = "ajax" /\ new.r = r /\ new.stage = "prefilter"
  BY DEF FrameTypes, Points
<1>4. /\ DOMAIN frames' = DOMAIN frames \cup {top} /\ top \notin DOMAIN frames
      /\ \A i \in DOMAIN frames : frames'[i] = frames[i]
      /\ frames'[top] = new
  BY <1>1, <1>2, <1>3
<1> HIDE DEF new, top
<1>5. /\ settings' \in [Requests -> AjaxSettings \cup {NoSettings}] /\ settings'[r] = s
      /\ \A q \in Requests \ {r} : settings'[q] = settings[q]
  BY <1>1 DEF ActiveInv, CountTypes
<1>6. s # NoSettings
  <2>1. "not called" \in NoSettings /\ "not called" \notin s
    BY AjaxSettingsAssumption DEF NoSettings
  <2> QED
    BY <2>1
<1>7. Begun' = Begun \cup {r}
  BY <1>5, <1>6 DEF Begun
<1>8. ~ counted[r] /\ completed[r] # "true" /\ r \in Requests /\ r \notin Begun
  BY DEF ActiveInv, BegunInv
<1>9. \A i \in DOMAIN frames' : FrameFits(i)'
  <2>1. \A i \in DOMAIN frames : FrameFits(i)
    BY DEF ActiveInv, FramesInv
  <2>2. \A i \in DOMAIN frames : FrameFits(i)'
    BY <1>2, <1>4, <1>7, <2>1 DEF FrameFits
  <2>3. \A i \in DOMAIN frames' : i = top => FrameFits(i)'
    BY <1>2, <1>3, <1>4, <1>7, <1>8 DEF FrameFits
  <2> QED
    BY <1>4, <2>2, <2>3
<1>10. \A i, j \in DOMAIN frames' :
         frames'[i].fn = frames'[j].fn /\ frames'[i].r = frames'[j].r => i = j
  <2>1. \A i \in DOMAIN frames : frames'[i].r # r
    BY <1>4, <1>8 DEF ActiveInv, FramesInv, FrameFits
  <2>2. \A i, j \in DOMAIN frames :
          frames'[i].fn = frames'[j].fn /\ frames'[i].r = frames'[j].r => i = j
    BY <1>4 DEF ActiveInv, FramesInv
  <2> QED
    BY <1>3, <1>4, <2>1, <2>2
<1>11. CountTypes'
  BY <1>2, <1>5 DEF ActiveInv, CountTypes
<1>12. BegunInv'
  BY <1>2, <1>7 DEF ActiveInv, BegunInv
<1>13. \A q \in Requests : Counted(q)' <=> Counted(q)
  BY <1>2, <1>3, <1>4 DEF Counted
<1> QED
  BY <1>2, <1>9, <1>10, <1>11, <1>12, <1>13, SameCount DEF FramesInv, ActiveInv

\* The request is counted once, and the first one triggers ajaxStart.
LEMMA AfterPrefiltersCounted ==
  ASSUME AjaxInv, ActiveInv, AfterPrefilters
  PROVE  ActiveInv'
<1> DEFINE global == "global" \in settings[Frame.r]
           begins == global /\ ajaxActive = 0
           n == Len(frames)
<1>1. /\ frames # << >> /\ Frame.fn = "ajax" /\ Frame.stage = "prefilter"
      /\ UNCHANGED <<settings, completed, lost>>
  BY DEF AfterPrefilters, At
<1>2. frames \in Seq(FrameTypes) /\ n \in DOMAIN frames /\ Frame = frames[n] /\ Frame \in FrameTypes
  BY <1>1 DEF AjaxInv, RequestTypes, Frame
<1>3. PICK r \in Requests : r = Frame.r /\ r \in Begun /\ ~ counted[r]
  BY <1>1, <1>2 DEF ActiveInv, FramesInv, FrameFits, Begun
<1>4. CASE completed[r] = "true"
  <2>1. frames' = Under /\ UNCHANGED <<counted, ajaxActive, signals>>
    BY <1>3, <1>4 DEF AfterPrefilters
  <2> QED
    BY <1>1, <2>1, TopGoes
<1>5. CASE completed[r] # "true"
  <2>1. /\ counted' = [counted EXCEPT ![r] = global]
        /\ ajaxActive' = IF global THEN ajaxActive + 1 ELSE ajaxActive
        /\ signals' = IF begins THEN Append(signals, "ajaxStart") ELSE signals
        /\ GoTo(IF begins THEN "ajaxStart" ELSE "beforeSend")
    BY <1>3, <1>5 DEF AfterPrefilters
  <2> DEFINE stage == IF begins THEN "ajaxStart" ELSE "beforeSend"
  <2>2. stage \in {"ajaxStart", "beforeSend"}
    OBVIOUS
  <2>3. frames' = [frames EXCEPT ![n] = [@ EXCEPT !.stage = stage]]
    BY <2>1 DEF GoTo
  <2> HIDE DEF n, stage
  <2>4. /\ DOMAIN frames' = DOMAIN frames
        /\ \A i \in DOMAIN frames \ {n} : frames'[i] = frames[i]
        /\ frames'[n].stage = stage /\ frames'[n].fn = "ajax" /\ frames'[n].r = r
    BY <1>1, <1>2, <1>3, <2>3 DEF FrameTypes
  <2>5. \A i \in DOMAIN frames : frames'[i].fn = frames[i].fn /\ frames'[i].r = frames[i].r
    BY <1>1, <1>2, <1>3, <2>4
  <2>0. global \in BOOLEAN
    OBVIOUS
  <2> HIDE DEF global
  <2>6. /\ counted' \in [Requests -> BOOLEAN] /\ (counted'[r] <=> global)
        /\ \A q \in Requests \ {r} : counted'[q] = counted[q]
    BY <1>3, <2>0, <2>1 DEF ActiveInv, CountTypes
  <2>7. \A i \in DOMAIN frames' : FrameFits(i)'
    <3> SUFFICES ASSUME NEW i \in DOMAIN frames' PROVE FrameFits(i)'
      OBVIOUS
    <3>1. FrameFits(i) /\ frames[i].r \in Requests
      BY <2>4 DEF ActiveInv, FramesInv, FrameFits, Begun
    <3>2. CASE i = n
      BY <1>1, <1>3, <2>2, <2>4, <3>2 DEF FrameFits, Begun
    <3>3. CASE i # n
      <4>1. frames'[i] = frames[i]
        BY <2>4, <3>3
      <4>2. CASE frames[i].r # r
        <5>1. counted'[frames[i].r] = counted[frames[i].r]
          BY <2>6, <3>1, <4>2
        <5> QED
          BY <1>1, <3>1, <4>1, <5>1 DEF FrameFits, Begun
      <4>3. CASE frames[i].r = r
        <5>1. frames[i].fn # "ajax"
          BY <1>1, <1>2, <1>3, <2>4, <3>3, <4>3 DEF ActiveInv, FramesInv
        <5>2. ~ (frames[i].fn = "done" /\ frames[i].stage = "ajaxComplete")
          BY <1>3, <3>1, <4>3 DEF FrameFits
        <5> QED
          BY <1>1, <3>1, <4>1, <5>1, <5>2 DEF FrameFits, Begun
      <4> QED
        BY <4>2, <4>3
    <3> QED
      BY <3>2, <3>3
  <2>8. \A i, j \in DOMAIN frames' :
          frames'[i].fn = frames'[j].fn /\ frames'[i].r = frames'[j].r => i = j
    BY <2>4, <2>5 DEF ActiveInv, FramesInv
  <2>9. BegunInv'
    BY <1>1, <1>3, <2>6 DEF ActiveInv, BegunInv, Begun
  <2>10. \A q \in Requests \ {r} : Counted(q)' <=> Counted(q)
    <3> SUFFICES ASSUME NEW q \in Requests \ {r} PROVE Counted(q)' <=> Counted(q)
      OBVIOUS
    <3>1. (\E i \in DOMAIN frames' : frames'[i].fn = "done" /\ frames'[i].r = q /\ frames'[i].stage # "ajaxStop")
          <=> (\E i \in DOMAIN frames : frames[i].fn = "done" /\ frames[i].r = q /\ frames[i].stage # "ajaxStop")
      BY <1>1, <1>2, <2>4
    <3>2. counted'[q] = counted[q]
      BY <2>6
    <3> QED
      BY <1>1, <3>1, <3>2 DEF Counted
  <2>11. ~ Counted(r) /\ (Counted(r)' <=> global)
    <3>1. ~ Counted(r)
      BY <1>3 DEF Counted
    <3>2. completed'[r] # "true"
      BY <1>1, <1>5
    <3> QED
      BY <2>6, <3>1, <3>2 DEF Counted
  <2>12. CountTypes'
    BY <1>1, <2>6 DEF ActiveInv, CountTypes
  <2>13. /\ IsFiniteSet(CountedRequests) /\ ajaxActive = Cardinality(CountedRequests)
         /\ ajaxActive \in Nat
    BY FS_CardinalityType DEF ActiveInv, CountInv
  <2>14. CASE global
    <3>1. CountedRequests' = CountedRequests \cup {r} /\ r \notin CountedRequests
      BY <1>3, <2>10, <2>11, <2>14 DEF CountedRequests
    <3>2. CountInv'
      BY <2>1, <2>13, <2>14, <3>1, FS_AddElement DEF CountInv
    <3>3. SignalsInv'
      <4>1. ajaxActive' = ajaxActive + 1 /\ signals \in Seq({"ajaxStart", "ajaxStop"})
        BY <2>1, <2>14 DEF ActiveInv, SignalsInv
      <4>2. CASE ajaxActive = 0
        <5>1. signals' = Append(signals, "ajaxStart")
          BY <2>1, <2>14, <4>2
        <5>2. /\ signals' \in Seq({"ajaxStart", "ajaxStop"}) /\ Len(signals') = Len(signals) + 1
              /\ DOMAIN signals' = DOMAIN signals \cup {Len(signals) + 1}
              /\ \A i \in DOMAIN signals : signals'[i] = signals[i]
              /\ signals'[Len(signals) + 1] = "ajaxStart"
              /\ Len(signals) \in Nat
          BY <4>1, <5>1
        <5>3. Len(signals) % 2 # 1
          BY <2>13, <4>2 DEF ActiveInv, SignalsInv
        <5>4. (Len(signals) + 1) % 2 = 1
          BY <5>2, <5>3
        <5>5. \A i \in DOMAIN signals' : signals'[i] = IF i % 2 = 1 THEN "ajaxStart" ELSE "ajaxStop"
          BY <5>2, <5>4 DEF ActiveInv, SignalsInv
        <5>6. ajaxActive' > 0 <=> Len(signals') % 2 = 1
          BY <2>13, <4>1, <5>2, <5>4
        <5> QED
          BY <5>2, <5>5, <5>6 DEF SignalsInv
      <4>3. CASE ajaxActive # 0
        <5>1. signals' = signals
          BY <2>1, <4>3
        <5> QED
          BY <2>13, <4>1, <4>3, <5>1 DEF ActiveInv, SignalsInv
      <4> QED
        BY <4>2, <4>3
    <3> QED
      BY <2>7, <2>8, <2>9, <2>12, <3>2, <3>3 DEF ActiveInv, FramesInv
  <2>15. CASE ~ global
    <3>1. ajaxActive' = ajaxActive /\ signals' = signals
      BY <2>1, <2>15
    <3>2. \A q \in Requests : Counted(q)' <=> Counted(q)
      BY <2>10, <2>11, <2>15
    <3> QED
      BY <2>7, <2>8, <2>9, <2>12, <3>1, <3>2, SameCount DEF ActiveInv, FramesInv
  <2> QED
    BY <2>14, <2>15
<1> QED
  BY <1>4, <1>5

\* The one done() of a counted request counts it down, and the last one
\* triggers ajaxStop.
LEMMA AfterAjaxCompleteCounted ==
  ASSUME AjaxInv, ActiveInv, AfterAjaxComplete
  PROVE  ActiveInv'
<1> DEFINE n == Len(frames)
<1>1. /\ frames # << >> /\ Frame.fn = "done" /\ Frame.stage = "ajaxComplete"
      /\ ajaxActive' = ajaxActive - 1
      /\ UNCHANGED <<settings, completed, counted, lost>>
      /\ \/ ajaxActive = 1 /\ signals' = Append(signals, "ajaxStop") /\ GoTo("ajaxStop")
         \/ ajaxActive # 1 /\ frames' = Under /\ UNCHANGED signals
  BY DEF AfterAjaxComplete, At
<1>2. frames \in Seq(FrameTypes) /\ n \in DOMAIN frames /\ Frame = frames[n] /\ Frame \in FrameTypes
  BY <1>1 DEF AjaxInv, RequestTypes, Frame
<1>3. PICK r \in Requests :
      /\ r = Frame.r /\ counted[r] /\ completed[r] = "true" /\ r \notin lost
      /\ \A i \in DOMAIN frames : frames[i].fn = "done" /\ frames[i].r = r => i = n
  BY <1>1, <1>2 DEF ActiveInv, FramesInv, FrameFits, Begun
<1>4. Counted(r)
  BY <1>1, <1>2, <1>3 DEF Counted
<1>5. /\ IsFiniteSet(CountedRequests) /\ ajaxActive = Cardinality(CountedRequests)
      /\ ajaxActive \in Nat /\ r \in CountedRequests
  BY <1>3, <1>4, FS_CardinalityType DEF ActiveInv, CountInv, CountedRequests
<1>6. ajaxActive >= 1
  BY <1>5, FS_EmptySet
<1> HIDE DEF n
<1>7. /\ CountTypes' /\ FramesInv' /\ BegunInv'
      /\ \A q \in Requests \ {r} : Counted(q)' <=> Counted(q)
      /\ ~ Counted(r)'
  <2>1. CASE GoTo("ajaxStop")
    <3>1. "ajaxStop" \in Points
      BY DEF Points
    <3> QED
      BY <1>1, <1>3, <2>1, <3>1, FrameGoesOn
  <2>2. CASE frames' = Under
    <3>1. /\ DOMAIN frames' = DOMAIN frames \ {n} /\ \A i \in DOMAIN frames' : frames'[i] = frames[i]
      BY <1>1, <1>2, <2>2, UnderFrames DEF n
    <3>2. CountTypes' /\ BegunInv'
      BY <1>1 DEF ActiveInv, CountTypes, BegunInv, Begun
    <3>3. FramesInv'
      BY <1>1, <3>1 DEF ActiveInv, FramesInv, FrameFits, Begun
    <3>4. ~ Counted(r)'
      BY <1>1, <1>3, <3>1 DEF Counted
    <3>5. ASSUME NEW q \in Requests \ {r} PROVE Counted(q)' <=> Counted(q)
      <4>1. (\E i \in DOMAIN frames' : frames'[i].fn = "done" /\ frames'[i].r = q /\ frames'[i].stage # "ajaxStop")
            <=> (\E i \in DOMAIN frames : frames[i].fn = "done" /\ frames[i].r = q /\ frames[i].stage # "ajaxStop")
        BY <1>2, <1>3, <3>1
      <4> QED
        BY <1>1, <4>1 DEF Counted
    <3> QED
      BY <3>2, <3>3, <3>4, <3>5
  <2> QED
    BY <1>1, <2>1, <2>2
<1>8. CountInv'
  <2>1. CountedRequests' = CountedRequests \ {r}
    BY <1>3, <1>7 DEF CountedRequests
  <2> QED
    BY <1>1, <1>5, <2>1, FS_RemoveElement DEF CountInv
<1>9. SignalsInv'
  <2>1. signals \in Seq({"ajaxStart", "ajaxStop"}) /\ Len(signals) % 2 = 1
    BY <1>5, <1>6 DEF ActiveInv, SignalsInv
  <2>2. CASE ajaxActive = 1
    <3>1. signals' = Append(signals, "ajaxStop")
      BY <1>1, <2>2
    <3>2. /\ signals' \in Seq({"ajaxStart", "ajaxStop"}) /\ Len(signals') = Len(signals) + 1
          /\ DOMAIN signals' = DOMAIN signals \cup {Len(signals) + 1}
          /\ \A i \in DOMAIN signals : signals'[i] = signals[i]
          /\ signals'[Len(signals) + 1] = "ajaxStop"
          /\ Len(signals) \in Nat
      BY <2>1, <3>1
    <3>3. (Len(signals) + 1) % 2 # 1
      BY <2>1, <3>2
    <3>4. \A i \in DOMAIN signals' : signals'[i] = IF i % 2 = 1 THEN "ajaxStart" ELSE "ajaxStop"
      BY <3>2, <3>3 DEF ActiveInv, SignalsInv
    <3>5. ajaxActive' > 0 <=> Len(signals') % 2 = 1
      BY <1>1, <2>2, <3>2, <3>3
    <3> QED
      BY <3>2, <3>4, <3>5 DEF SignalsInv
  <2>3. CASE ajaxActive # 1
    <3>1. signals' = signals /\ ajaxActive' > 0
      BY <1>1, <1>5, <1>6, <2>3
    <3> QED
      BY <2>1, <3>1 DEF ActiveInv, SignalsInv
  <2> QED
    BY <2>2, <2>3
<1> QED
  BY <1>7, <1>8, <1>9 DEF ActiveInv

\* A done() comes to the counter if its request is counted.
LEMMA StageDoneCounted ==
  ASSUME AjaxInv, ActiveInv, StageDone
  PROVE  ActiveInv'
<1>1. /\ frames # << >> /\ Frame.fn = "done"
      /\ UNCHANGED <<settings, completed, counted, lost, ajaxActive, signals>>
  BY DEF StageDone
<1>2. PICK i \in DOMAIN Stages :
        /\ Frame.stage = Stages[i] /\ Stages[i] # "ajaxComplete"
        /\ LET later == {j \in Calls(Frame.r) : j > i}
           IN IF later = {} THEN frames' = Under
              ELSE GoTo(Stages[CHOOSE j \in later : \A k \in later : j <= k])
  BY DEF StageDone
<1> DEFINE later == {j \in Calls(Frame.r) : j > i}
           next == CHOOSE j \in later : \A k \in later : j <= k
<1>3. CASE later = {}
  <2>1. ~ counted[Frame.r]
    <3> SUFFICES ASSUME counted[Frame.r] PROVE FALSE
      OBVIOUS
    <3>1. 5 \in DOMAIN Stages /\ Stages[5] = "ajaxComplete" /\ DOMAIN Stages = 1 .. 5
      BY DEF Stages
    <3>2. 5 \in Calls(Frame.r)
      BY <3>1 DEF Calls
    <3>3. i \in 1 .. 5 /\ i # 5
      BY <1>2, <3>1
    <3>4. i < 5
      BY <3>3
    <3> QED
      BY <1>3, <3>2, <3>4
  <2> QED
    BY <1>1, <1>2, <1>3, <2>1, TopGoes
<1>4. CASE later # {}
  <2>1. later \subseteq 1 .. 5
    BY DEF Calls, Stages
  <2>2. \E j \in later : \A k \in later : j <= k
    BY <1>4, <2>1
  <2>3. next \in later
    BY <2>2
  <2>4. next \in Calls(Frame.r) /\ GoTo(Stages[next])
    BY <1>2, <1>4, <2>3
  <2> HIDE DEF next, later
  <2>5. /\ Stages[next] \in Points /\ Stages[next] \notin {"prefilter", "ajaxStop"}
        /\ Stages[next] = "ajaxComplete" => counted[Frame.r]
    BY <2>4 DEF Calls, Stages, Points
  <2>6. Frame.stage # "ajaxStop"
    BY <1>2 DEF Stages
  <2> QED
    BY <1>1, <2>4, <2>5, <2>6, FrameGoesOnCounted
<1> QED
  BY <1>3, <1>4

\* Going on to the transport keeps the count.
LEMMA SendCounted ==
  ASSUME AjaxInv, ActiveInv, Send
  PROVE  ActiveInv'
<1> DEFINE r == Frame.r
           n == Len(frames)
<1>1. /\ frames # << >> /\ Frame.fn = "ajax"
      /\ UNCHANGED <<settings, counted, lost, ajaxActive, signals>>
  BY DEF Send, At
<1>2. \/ frames' = Under /\ completed' = completed
      \/ \E ok \in BOOLEAN : Done(r, ok, Under)
      \/ completed[r] # "true" /\ completed' = [completed EXCEPT ![r] = "false"] /\ frames' = Under
  BY DEF Send
<1>3. CASE frames' = Under /\ completed' = completed
  BY <1>1, <1>3, TopGoes
<1>4. CASE \E ok \in BOOLEAN : Done(r, ok, Under)
  BY <1>1, <1>4, DoneOnTopCounted
<1>5. CASE completed[r] # "true" /\ completed' = [completed EXCEPT ![r] = "false"] /\ frames' = Under
  <2>1. /\ n \in DOMAIN frames /\ Frame = frames[n] /\ DOMAIN frames' = DOMAIN frames \ {n}
        /\ \A i \in DOMAIN frames' : frames'[i] = frames[i]
    BY <1>1, <1>5, UnderFrames DEF AjaxInv, RequestTypes, Frame
  <2>2. \A q \in Requests : completed'[q] = "true" <=> completed[q] = "true"
    BY <1>5 DEF AjaxInv, RequestTypes
  <2>3. \A i \in DOMAIN frames : FrameFits(i) /\ frames[i].r \in Requests
    BY DEF ActiveInv, FramesInv, FrameFits, Begun
  <2>4. FramesInv'
    <3>1. \A i \in DOMAIN frames' : FrameFits(i)'
      BY <1>1, <2>1, <2>2, <2>3 DEF FrameFits, Begun
    <3> QED
      BY <2>1, <3>1 DEF ActiveInv, FramesInv
  <2>5. CountTypes'
    BY <1>1 DEF ActiveInv, CountTypes
  <2>6. BegunInv'
    BY <1>1, <2>2 DEF ActiveInv, BegunInv, Begun, CountTypes
  <2>7. \A q \in Requests : Counted(q)' <=> Counted(q)
    <3> SUFFICES ASSUME NEW q \in Requests PROVE Counted(q)' <=> Counted(q)
      OBVIOUS
    <3>1. (\E i \in DOMAIN frames' : frames'[i].fn = "done" /\ frames'[i].r = q /\ frames'[i].stage # "ajaxStop")
          <=> (\E i \in DOMAIN frames : frames[i].fn = "done" /\ frames[i].r = q /\ frames[i].stage # "ajaxStop")
      BY <1>1, <2>1
    <3> QED
      BY <1>1, <2>2, <3>1 DEF Counted
  <2> QED
    BY <1>1, <2>4, <2>5, <2>6, <2>7, SameCount DEF ActiveInv
<1> QED
  BY <1>2, <1>3, <1>4, <1>5

\* An exception leaves done() where it is: the request stays counted, and is
\* lost.
LEMMA PageThrowsCounted ==
  ASSUME AjaxInv, ActiveInv, PageThrows
  PROVE  ActiveInv'
<1> DEFINE n == Len(frames)
<1>1. /\ frames # << >> /\ frames' = Under
      /\ UNCHANGED <<settings, completed, counted, ajaxActive, signals>>
      /\ lost' = IF Frame.fn = "done" /\ Frame.stage # "ajaxStop" THEN lost \cup {Frame.r} ELSE lost
  BY DEF PageThrows
<1>2. CASE ~ (Frame.fn = "done" /\ Frame.stage # "ajaxStop")
  BY <1>1, <1>2, TopGoes
<1>3. CASE Frame.fn = "done" /\ Frame.stage # "ajaxStop"
  <2>1. /\ n \in DOMAIN frames /\ Frame = frames[n] /\ DOMAIN frames' = DOMAIN frames \ {n}
        /\ \A i \in DOMAIN frames' : frames'[i] = frames[i]
    BY <1>1, UnderFrames DEF AjaxInv, RequestTypes, Frame
  <2>2. lost' = lost \cup {Frame.r}
    BY <1>1, <1>3
  <2>3. PICK r \in Requests :
        /\ r = Frame.r /\ completed[r] = "true" /\ r \notin lost
        /\ \A i \in DOMAIN frames : frames[i].fn = "done" /\ frames[i].r = r => i = n
    BY <1>3, <2>1 DEF ActiveInv, FramesInv, FrameFits, Begun
  <2> HIDE DEF n
  <2>4. CountTypes' /\ BegunInv'
    BY <1>1, <2>2, <2>3 DEF ActiveInv, CountTypes, BegunInv, Begun
  <2>5. FramesInv'
    <3>1. \A i \in DOMAIN frames' : FrameFits(i)'
      BY <1>1, <2>1, <2>2, <2>3 DEF ActiveInv, FramesInv, FrameFits, Begun
    <3> QED
      BY <2>1, <3>1 DEF ActiveInv, FramesInv
  <2>6. \A q \in Requests : Counted(q)' <=> Counted(q)
    <3> SUFFICES ASSUME NEW q \in Requests PROVE Counted(q)' <=> Counted(q)
      OBVIOUS
    <3>1. CASE q = r
      <4>1. counted[r] => Counted(r) /\ Counted(r)'
        BY <1>1, <1>3, <2>1, <2>2, <2>3 DEF Counted
      <4> QED
        BY <1>1, <3>1, <4>1 DEF Counted
    <3>2. CASE q # r
      <4>1. (\E i \in DOMAIN frames' : frames'[i].fn = "done" /\ frames'[i].r = q /\ frames'[i].stage # "ajaxStop")
            <=> (\E i \in DOMAIN frames : frames[i].fn = "done" /\ frames[i].r = q /\ frames[i].stage # "ajaxStop")
        BY <2>1, <2>3, <3>2
      <4> QED
        BY <1>1, <2>2, <2>3, <3>2, <4>1 DEF Counted
    <3> QED
      BY <3>1, <3>2
  <2> QED
    BY <1>1, <2>4, <2>5, <2>6, SameCount DEF ActiveInv
<1> QED
  BY <1>2, <1>3

\* So do the returns of the other handlers.
LEMMA OtherReturnsCounted ==
  ASSUME AjaxInv, ActiveInv,
         AfterAjaxStart \/ AfterBeforeSend \/ NoTransport \/ AfterConvert \/ AfterAjaxStop
  PROVE  ActiveInv'
<1>1. CASE AfterAjaxStart
  <2>1. /\ frames # << >> /\ Frame.stage = "ajaxStart" /\ GoTo("beforeSend")
        /\ UNCHANGED <<settings, completed, counted, lost, ajaxActive, signals>>
    BY <1>1 DEF AfterAjaxStart, At
  <2> QED
    BY <2>1, FrameGoesOnCounted DEF Points
<1>2. CASE AfterBeforeSend
  <2>1. /\ frames # << >> /\ Frame.fn = "ajax" /\ Frame.stage = "beforeSend"
        /\ UNCHANGED <<settings, counted, lost, ajaxActive, signals>>
        /\ (GoTo("ajaxSend") /\ completed' = completed) \/ Done(Frame.r, FALSE, Under)
    BY <1>2 DEF AfterBeforeSend, At
  <2> QED
    BY <2>1, FrameGoesOnCounted, DoneOnTopCounted DEF Points
<1>3. CASE NoTransport
  BY <1>3, DoneOnTopCounted DEF NoTransport, At
<1>4. CASE AfterConvert
  <2>1. /\ frames # << >> /\ Frame.stage = "convert" /\ GoTo("callbacks")
        /\ UNCHANGED <<settings, completed, counted, lost, ajaxActive, signals>>
    BY <1>4 DEF AfterConvert, At
  <2> QED
    BY <2>1, FrameGoesOnCounted DEF Points
<1>5. CASE AfterAjaxStop
  BY <1>5, TopGoes DEF AfterAjaxStop, At
<1> QED
  BY <1>1, <1>2, <1>3, <1>4, <1>5

\* A request with a timer or an open transport has been begun.
SentBegun == \A r \in Requests : timeout[r] \/ wire[r] = "open" => r \in Begun

\* The types of timers and transports, and that their requests have begun.
SentInv ==
  /\ timeout \in [Requests -> BOOLEAN] /\ wire \in [Requests -> {"none", "open", "closed"}]
  /\ SentBegun

\* Only Send sets a timer and opens a transport.
LEMMA SentKept ==
  ASSUME SentInv, settings' = settings,
         timeout' \in [Requests -> BOOLEAN], wire' \in [Requests -> {"none", "open", "closed"}],
         \A r \in Requests : timeout'[r] => timeout[r] \/ r \in Begun,
         \A r \in Requests : wire'[r] = "open" => wire[r] = "open" \/ r \in Begun
  PROVE  SentInv'
  BY DEF SentInv, SentBegun, Begun

\* done() sets no timer.
LEMMA DoneTimeout ==
  ASSUME SentInv, NEW r \in Requests, NEW ok, NEW below, Done(r, ok, below)
  PROVE  timeout' \in [Requests -> BOOLEAN] /\ \A q \in Requests : timeout'[q] => timeout[q]
<1>1. timeout' = timeout \/ timeout' = [timeout EXCEPT ![r] = FALSE]
  BY DEF Done
<1>2. CASE timeout' = timeout
  BY <1>2 DEF SentInv
<1>3. CASE timeout' = [timeout EXCEPT ![r] = FALSE]
  <2>1. timeout \in [Requests -> BOOLEAN]
    BY DEF SentInv
  <2> QED
    BY <1>3, <2>1
<1> QED
  BY <1>1, <1>2, <1>3

\* A transport that closes opens none.
LEMMA WireClosed ==
  ASSUME SentInv, NEW r \in Requests,
         wire' = [wire EXCEPT ![r] = "closed"] \/ CancelTransport(r) \/ wire' = wire
  PROVE  /\ wire' \in [Requests -> {"none", "open", "closed"}]
         /\ \A q \in Requests : wire'[q] = "open" => wire[q] = "open"
  BY DEF SentInv, CancelTransport

\* Every step keeps SentInv.
LEMMA SentNext ==
  ASSUME AjaxInv, ActiveInv, SentInv, [AjaxNext]_ajaxVars
  PROVE  SentInv'
<1>1. CASE Ajax
  <2>1. PICK r \in Requests \ Begun, s \in AjaxSettings : settings' = [settings EXCEPT ![r] = s]
    BY <1>1 DEF Ajax
  <2>2. \A q \in Begun : q \in Begun'
    BY <2>1 DEF Begun, ActiveInv, CountTypes
  <2> QED
    BY <1>1, <2>2 DEF Ajax, SentInv, SentBegun
<1>2. CASE Abort \/ TimedOut \/ Answer
  <2>1. PICK r \in Requests, ok \in BOOLEAN :
          /\ wire' = [wire EXCEPT ![r] = "closed"] \/ CancelTransport(r)
          /\ Done(r, ok, frames)
    BY <1>2 DEF Abort, TimedOut, Answer, Begun
  <2>2. settings' = settings
    BY <1>2 DEF Abort, TimedOut, Answer
  <2> QED
    BY <2>1, <2>2, DoneTimeout, WireClosed, SentKept
<1>3. CASE Send
  <2>1. /\ Len(frames) \in DOMAIN frames /\ Frame = frames[Len(frames)] /\ settings' = settings
    BY <1>3, UnderFrames DEF Send, At, AjaxInv, RequestTypes, Frame
  <2>2. Frame.r \in Begun /\ Frame.r \in Requests
    BY <2>1 DEF ActiveInv, FramesInv, FrameFits, Begun
  <2>3. \/ timeout' = timeout /\ wire' = wire
        \/ \E ok \in BOOLEAN : Done(Frame.r, ok, Under) /\ wire' = [wire EXCEPT ![Frame.r] = "closed"]
        \/ /\ timeout' = [timeout EXCEPT ![Frame.r] = "timed" \in settings[Frame.r]]
           /\ wire' = [wire EXCEPT ![Frame.r] = "open"]
    BY <1>3 DEF Send
  <2>4. CASE timeout' = timeout /\ wire' = wire
    BY <2>1, <2>4 DEF SentInv, SentBegun, Begun
  <2>5. CASE \E ok \in BOOLEAN : Done(Frame.r, ok, Under) /\ wire' = [wire EXCEPT ![Frame.r] = "closed"]
    BY <2>1, <2>2, <2>5, DoneTimeout, WireClosed, SentKept
  <2>6. CASE /\ timeout' = [timeout EXCEPT ![Frame.r] = "timed" \in settings[Frame.r]]
             /\ wire' = [wire EXCEPT ![Frame.r] = "open"]
    <3>1. ("timed" \in settings[Frame.r]) \in BOOLEAN
      OBVIOUS
    <3>2. /\ timeout' \in [Requests -> BOOLEAN]
          /\ \A q \in Requests : timeout'[q] => timeout[q] \/ q = Frame.r
      BY <2>6, <3>1 DEF SentInv
    <3>3. /\ wire' \in [Requests -> {"none", "open", "closed"}]
          /\ \A q \in Requests : wire'[q] = "open" => wire[q] = "open" \/ q = Frame.r
      BY <2>6 DEF SentInv
    <3> QED
      BY <2>1, <2>2, <3>2, <3>3, SentKept
  <2> QED
    BY <2>3, <2>4, <2>5, <2>6
<1>4. CASE AfterBeforeSend \/ NoTransport
  <2>1. wire' = wire /\ settings' = settings /\ (timeout' = timeout \/ Done(Frame.r, FALSE, Under))
    BY <1>4 DEF AfterBeforeSend, NoTransport
  <2>2. Frame.r \in Requests
    BY <1>4, UnderFrames, FrameRequests DEF AfterBeforeSend, NoTransport, At, AjaxInv, RequestTypes, Frame
  <2>3. CASE timeout' = timeout
    BY <2>1, <2>3 DEF SentInv, SentBegun, Begun
  <2>4. CASE Done(Frame.r, FALSE, Under)
    BY <2>1, <2>2, <2>4, DoneTimeout, WireClosed, SentKept
  <2> QED
    BY <2>1, <2>3, <2>4
<1>5. CASE \/ AfterPrefilters \/ AfterAjaxStart \/ AfterConvert \/ StageDone \/ AfterAjaxComplete
           \/ AfterAjaxStop \/ PageThrows \/ UNCHANGED ajaxVars
  <2>1. UNCHANGED <<settings, timeout, wire>>
    BY <1>5 DEF AfterPrefilters, AfterAjaxStart, AfterConvert, StageDone, AfterAjaxComplete,
                AfterAjaxStop, PageThrows, ajaxVars
  <2> QED
    BY <2>1 DEF SentInv, SentBegun, Begun
<1> QED
  BY <1>1, <1>2, <1>3, <1>4, <1>5 DEF AjaxNext, PageReturns

\* Every step keeps ActiveInv.
LEMMA ActiveNext ==
  ASSUME AjaxInv, ActiveInv, SentInv, [AjaxNext]_ajaxVars
  PROVE  ActiveInv'
<1>1. CASE Abort \/ TimedOut \/ Answer
  <2>1. PICK r \in Requests, ok \in BOOLEAN :
          /\ r \in Begun \/ timeout[r] \/ wire[r] = "open"
          /\ Done(r, ok, frames)
    BY <1>1 DEF Abort, TimedOut, Answer, Begun
  <2>2. UNCHANGED <<settings, counted, lost, ajaxActive, signals>>
    BY <1>1 DEF Abort, TimedOut, Answer
  <2>3. r \in Begun
    BY <2>1 DEF SentInv, SentBegun
  <2> QED
    BY <2>1, <2>2, <2>3, DoneAboveCounted
<1>2. CASE UNCHANGED ajaxVars
  <2>1. UNCHANGED <<settings, completed, counted, lost, ajaxActive, signals, frames>>
    BY <1>2 DEF ajaxVars
  <2> QED
    BY <2>1, FramesGo
<1> QED
  BY <1>1, <1>2, AjaxCounted, AfterPrefiltersCounted, AfterAjaxCompleteCounted, StageDoneCounted,
     SendCounted, PageThrowsCounted, OtherReturnsCounted DEF AjaxNext, PageReturns

\* jQuery.active: however requests are nested, aborted, refused and thrown out
\* of, it is the number of those under way or lost, and ajaxStart and ajaxStop
\* take turns.
THEOREM ActiveCountsAlways == AjaxSpec => []ActiveCounts
<1>1. AjaxInit => SentInv
  BY DEF AjaxInit, SentInv, SentBegun
<1>2. AjaxInv /\ [AjaxNext]_ajaxVars => AjaxInv'
  BY AjaxNextStep
<1>3. AjaxInv /\ ActiveInv /\ SentInv /\ [AjaxNext]_ajaxVars => ActiveInv' /\ SentInv'
  BY ActiveNext, SentNext
<1>4. ActiveInv => ActiveCounts
  BY DEF ActiveInv, CountInv, SignalsInv, CountedRequests, ActiveCounts
<1> QED
  BY AjaxInit_Inv, ActiveInit_Inv, <1>1, <1>2, <1>3, <1>4, PTL DEF AjaxSpec

-----------------------------------------------------------------------------
\* Jsonp: a request gets its own answer.

\* What the variables hold.
JsonpTypes ==
  /\ nonce \in Nat
  /\ name \in [JsonpRequests -> -1 .. nonce]
  /\ oldCallbacks \in Seq(1 .. nonce)
  /\ pending \subseteq JsonpRequests /\ scripts \subseteq JsonpRequests
  /\ window \in [JsonpNames -> JsonpRequests \cup {Nobody}]
  /\ overwritten \in [JsonpRequests -> JsonpRequests \cup {Nobody}]
  /\ container \in [JsonpRequests -> JsonpRequests \cup {Nobody}]
  /\ got \in [JsonpRequests -> JsonpRequests \cup {Nobody}]

\* The requests that were sent.
NamedRequests == {r \in JsonpRequests : Named(r)}

\* A name is made up by a request that had none, and there are not more names
\* than requests.
NamesEnough == nonce <= Cardinality(NamedRequests)

\* A name of the pool is there once, and no pending request has it.
PoolFree ==
  /\ \A i, j \in DOMAIN oldCallbacks : oldCallbacks[i] = oldCallbacks[j] => i = j
  /\ \A i \in DOMAIN oldCallbacks, r \in pending : name[r] # oldCallbacks[i]

\* The pending request with a name of the pool is the only one of that name,
\* and holds the global; without one the global is not there.
HoldsGlobal ==
  /\ \A r \in pending : Named(r) /\ (Pooled(r) => window[name[r]] = r)
  /\ \A r \in scripts : Named(r)
  /\ \A n \in JsonpNames : window[n] # Nobody => name[window[n]] = n /\ (n > 0 => window[n] \in pending)
  
\* Only a callback of a name the page gave is overwritten, by such a callback.
OverwrittenGiven ==
  \A r \in JsonpRequests : overwritten[r] # Nobody => name[r] = Given /\ name[overwritten[r]] = Given

\* Nobody calls a callback that is not there yet.
NotAskedYet ==
  \A r \in JsonpRequests : ~ Named(r) => container[r] = Nobody /\ got[r] = Nobody

\* Scripts that could call the callback of a pending request, and did.
CalledByItsOwn ==
  \A r \in JsonpRequests : Pooled(r) /\ r \notin reused =>
    /\ r \in pending => \A q \in scripts : name[q] = name[r] => q = r
    /\ container[r] \in {Nobody, r} /\ got[r] \in {Nobody, r}

\* The inductive invariant.
JsonpInv == JsonpTypes /\ NamesEnough /\ PoolFree /\ HoldsGlobal /\ OverwrittenGiven /\ NotAskedYet /\ CalledByItsOwn

\* It holds before the first request.
LEMMA JsonpInit_Inv == JsonpInit => JsonpInv
<1> SUFFICES ASSUME JsonpInit PROVE JsonpInv
  OBVIOUS
<1>1. \A r \in JsonpRequests : name[r] = -1
  BY DEF JsonpInit
<1>2. JsonpTypes
  BY DEF JsonpInit, JsonpTypes
<1>3. NamedRequests = {}
  BY <1>1 DEF NamedRequests, Named
<1>4. NamesEnough
  BY <1>3, FS_EmptySet DEF JsonpInit, NamesEnough
<1>5. PoolFree
  BY DEF JsonpInit, PoolFree
<1>6. HoldsGlobal
  BY DEF JsonpInit, HoldsGlobal
<1>7. OverwrittenGiven
  BY DEF JsonpInit, OverwrittenGiven
<1>8. NotAskedYet
  BY DEF JsonpInit, NotAskedYet
<1>9. CalledByItsOwn
  BY <1>1 DEF CalledByItsOwn, Pooled
<1> QED
  BY <1>2, <1>4, <1>5, <1>6, <1>7, <1>8, <1>9 DEF JsonpInv

\* A request without a name leaves one to be made up.
LEMMA NameToMakeUp ==
  ASSUME JsonpInv, NEW r \in JsonpRequests, ~ Named(r)
  PROVE  /\ Cardinality(NamedRequests \cup {r}) = Cardinality(NamedRequests) + 1
         /\ nonce + 1 <= Cardinality(NamedRequests \cup {r})
         /\ Cardinality(NamedRequests \cup {r}) <= Cardinality(JsonpRequests)
         /\ Cardinality(NamedRequests) \in Nat /\ Cardinality(JsonpRequests) \in Nat
<1>1. IsFiniteSet(JsonpRequests)
  BY JsonpAssumption
<1>2. NamedRequests \subseteq JsonpRequests /\ NamedRequests \cup {r} \subseteq JsonpRequests
  BY DEF NamedRequests
<1>3. IsFiniteSet(NamedRequests) /\ r \notin NamedRequests
  BY <1>1, <1>2, FS_Subset DEF NamedRequests
<1>4. Cardinality(NamedRequests \cup {r}) = Cardinality(NamedRequests) + 1
  BY <1>3, FS_AddElement
<1>5. Cardinality(NamedRequests \cup {r}) <= Cardinality(JsonpRequests)
  BY <1>1, <1>2, FS_Subset
<1>6. Cardinality(NamedRequests) \in Nat /\ Cardinality(JsonpRequests) \in Nat
  BY <1>1, <1>3, FS_CardinalityType
<1>7. nonce \in Nat /\ nonce <= Cardinality(NamedRequests)
  BY DEF JsonpInv, JsonpTypes, NamesEnough
<1> QED
  BY <1>4, <1>5, <1>6, <1>7

\* Every name there is can be the name of a global.
LEMMA NamesAreGlobals ==
  ASSUME JsonpInv
  PROVE  \A n \in 0 .. nonce : n \in JsonpNames
<1>1. IsFiniteSet(JsonpRequests) /\ NamedRequests \subseteq JsonpRequests
  BY JsonpAssumption DEF NamedRequests
<1>2. Cardinality(NamedRequests) <= Cardinality(JsonpRequests)
  BY <1>1, FS_Subset
<1>3. Cardinality(NamedRequests) \in Nat /\ Cardinality(JsonpRequests) \in Nat
  BY <1>1, FS_Subset, FS_CardinalityType
<1>4. nonce \in Nat /\ nonce <= Cardinality(NamedRequests)
  BY DEF JsonpInv, JsonpTypes, NamesEnough
<1> QED
  BY <1>2, <1>3, <1>4 DEF JsonpNames

\* The name a request gets: not that of a pending request, unless the page
\* gives it.
LEMMA SendJsonpStep ==
  ASSUME JsonpInv, NEW r \in JsonpRequests, NEW given \in BOOLEAN, SendJsonp(r, given)
  PROVE  JsonpInv'
<1> DEFINE n == IF given THEN Given
                ELSE IF oldCallbacks # <<>> THEN Last(oldCallbacks) ELSE nonce + 1
           pops == ~ given /\ oldCallbacks # <<>>
<1>1. /\ ~ Named(r) /\ name' = [name EXCEPT ![r] = n]
      /\ overwritten' = [overwritten EXCEPT ![r] = window[n]]
      /\ window' = [window EXCEPT ![n] = r]
      /\ pending' = pending \cup {r} /\ scripts' = scripts \cup {r}
      /\ reused' = IF \E q \in scripts : name[q] = n THEN reused \cup {r} ELSE reused
      /\ UNCHANGED <<container, got>>
  BY DEF SendJsonp
<1>2. /\ oldCallbacks' = IF pops THEN NamesLeft ELSE oldCallbacks
      /\ nonce' = IF given \/ pops THEN nonce ELSE nonce + 1
  BY DEF SendJsonp
<1>0. /\ nonce \in Nat /\ name \in [JsonpRequests -> -1 .. nonce]
      /\ oldCallbacks \in Seq(1 .. nonce)
      /\ pending \subseteq JsonpRequests /\ scripts \subseteq JsonpRequests
      /\ window \in [JsonpNames -> JsonpRequests \cup {Nobody}]
      /\ overwritten \in [JsonpRequests -> JsonpRequests \cup {Nobody}]
      /\ container \in [JsonpRequests -> JsonpRequests \cup {Nobody}]
      /\ got \in [JsonpRequests -> JsonpRequests \cup {Nobody}]
      /\ Nobody \notin JsonpRequests /\ JsonpNames \subseteq Nat
  BY JsonpAssumption DEF JsonpInv, JsonpTypes, JsonpNames
<1>3. /\ name[r] = -1 /\ r \notin pending /\ r \notin scripts
      /\ \A q \in JsonpRequests : name[q] >= -1 /\ name[q] <= nonce
  BY <1>0, <1>1 DEF JsonpInv, Named, HoldsGlobal
<1>4. /\ nonce' \in Nat /\ nonce <= nonce' /\ nonce' <= nonce + 1 /\ n \in 0 .. nonce'
      /\ oldCallbacks' \in Seq(1 .. nonce)
      /\ DOMAIN oldCallbacks' \subseteq DOMAIN oldCallbacks
      /\ \A i \in DOMAIN oldCallbacks' : oldCallbacks'[i] = oldCallbacks[i]
      /\ pops => n = oldCallbacks[Len(oldCallbacks)] /\ Len(oldCallbacks) \in DOMAIN oldCallbacks
                 /\ Len(oldCallbacks) \notin DOMAIN oldCallbacks'
      /\ ~ pops => n = Given \/ n = nonce + 1
  <2>1. CASE pops
    <3>1. /\ oldCallbacks' = SubSeq(oldCallbacks, 1, Len(oldCallbacks) - 1) /\ nonce' = nonce
          /\ n = oldCallbacks[Len(oldCallbacks)]
      BY <1>2, <2>1 DEF NamesLeft, Front, Last
    <3>2. /\ Len(oldCallbacks) \in Nat /\ DOMAIN oldCallbacks = 1 .. Len(oldCallbacks)
          /\ \A i \in 1 .. Len(oldCallbacks) : oldCallbacks[i] \in 1 .. nonce
      BY <1>0
    <3>3. Len(oldCallbacks) # 0
      BY <1>0, <2>1
    <3>4. /\ oldCallbacks' \in Seq(1 .. nonce)
          /\ DOMAIN oldCallbacks' = 1 .. (Len(oldCallbacks) - 1)
          /\ \A i \in 1 .. (Len(oldCallbacks) - 1) : oldCallbacks'[i] = oldCallbacks[i]
      BY <1>0, <3>1, <3>2, <3>3
    <3>5. Len(oldCallbacks) \in DOMAIN oldCallbacks
          /\ Len(oldCallbacks) \notin DOMAIN oldCallbacks'
          /\ DOMAIN oldCallbacks' \subseteq DOMAIN oldCallbacks
          /\ \A i \in DOMAIN oldCallbacks' : oldCallbacks'[i] = oldCallbacks[i]
      BY <3>2, <3>3, <3>4
    <3>6. n \in 0 .. nonce'
      <4>1. oldCallbacks[Len(oldCallbacks)] \in 1 .. nonce
        BY <3>2, <3>3
      <4> QED
        BY <1>0, <3>1, <4>1
    <3>7. nonce' \in Nat /\ nonce <= nonce' /\ nonce' <= nonce + 1
      BY <1>0, <3>1
    <3> HIDE DEF n
    <3> QED
      BY <2>1, <3>1, <3>4, <3>5, <3>6, <3>7
  <2>2. CASE ~ pops
    BY <1>0, <1>2, <2>2 DEF Given
  <2> QED
    BY <2>1, <2>2
<1>5. n \in JsonpNames
  <2>0. ~ Named(r)
    BY <1>1
  <2>1. nonce + 1 <= Cardinality(JsonpRequests) /\ Cardinality(JsonpRequests) \in Nat
    <3>1. Cardinality(NamedRequests \cup {r}) \in Nat
      BY <2>0, NameToMakeUp
    <3> QED
      BY <1>0, <2>0, <3>1, NameToMakeUp
  <2> QED
    BY <1>0, <1>4, <2>1 DEF JsonpNames
<1> HIDE DEF n, pops
<1>6. JsonpTypes'
  <2>1. name' \in [JsonpRequests -> -1 .. nonce']
    BY <1>0, <1>1, <1>4
  <2>2. oldCallbacks' \in Seq(1 .. nonce')
    BY <1>0, <1>4
  <2>3. window' \in [JsonpNames -> JsonpRequests \cup {Nobody}]
    BY <1>0, <1>1, <1>5
  <2>4. overwritten' \in [JsonpRequests -> JsonpRequests \cup {Nobody}]
    BY <1>0, <1>1, <1>5
  <2> QED
    BY <1>0, <1>1, <1>4, <2>1, <2>2, <2>3, <2>4 DEF JsonpTypes
<1>7. NamesEnough'
  <2>1. NamedRequests' = NamedRequests \cup {r}
    BY <1>0, <1>1, <1>4 DEF NamedRequests, Named
  <2> QED
    BY <1>0, <1>1, <1>4, <2>1, NameToMakeUp DEF NamesEnough
<1>8. /\ name'[r] = n /\ window'[n] = r /\ overwritten'[r] = window[n]
      /\ \A q \in JsonpRequests \ {r} : name'[q] = name[q] /\ overwritten'[q] = overwritten[q]
      /\ \A m \in JsonpNames \ {n} : window'[m] = window[m]
  BY <1>0, <1>1, <1>5
<1>9. \A q \in pending : n # Given => name[q] # n
  BY <1>0, <1>3, <1>4 DEF JsonpInv, PoolFree
<1>10. n # Given => window[n] = Nobody
  <2> SUFFICES ASSUME n # Given, window[n] # Nobody PROVE FALSE
    OBVIOUS
  <2>1. window[n] \in pending /\ name[window[n]] = n
    BY <1>0, <1>4, <1>5 DEF JsonpInv, HoldsGlobal, Given
  <2> QED
    BY <1>9, <2>1
<1>11. PoolFree'
  <2>1. \A i \in DOMAIN oldCallbacks' : oldCallbacks'[i] # n
    BY <1>0, <1>4 DEF JsonpInv, PoolFree, Given
  <2>2. \A i, j \in DOMAIN oldCallbacks' : oldCallbacks'[i] = oldCallbacks'[j] => i = j
    BY <1>4 DEF JsonpInv, PoolFree
  <2>3. ASSUME NEW i \in DOMAIN oldCallbacks', NEW q \in pending'
        PROVE  name'[q] # oldCallbacks'[i]
    <3>1. CASE q = r
      BY <1>8, <2>1, <3>1
    <3>2. CASE q # r
      <4>1. q \in pending /\ q \in JsonpRequests
        BY <1>0, <1>1, <3>2
      <4> QED
        BY <1>4, <1>8, <3>2, <4>1 DEF JsonpInv, PoolFree
    <3> QED
      BY <3>1, <3>2
  <2> QED
    BY <2>2, <2>3 DEF PoolFree
<1>12. HoldsGlobal'
  <2>1. \A q \in pending : Named(q)' /\ (Pooled(q)' => window'[name'[q]] = q)
    <3> SUFFICES ASSUME NEW q \in pending
                 PROVE  Named(q)' /\ (Pooled(q)' => window'[name'[q]] = q)
      OBVIOUS
    <3>1. q # r /\ q \in JsonpRequests /\ name'[q] = name[q] /\ Named(q)
      BY <1>0, <1>3, <1>8 DEF JsonpInv, HoldsGlobal
    <3>2. CASE name[q] > 0
      <4>1. name[q] # n /\ name[q] \in JsonpNames
        BY <1>0, <1>3, <1>9, <3>1, <3>2, NamesAreGlobals DEF Given
      <4> QED
        BY <1>8, <3>1, <3>2, <4>1 DEF JsonpInv, HoldsGlobal, Pooled, Named
    <3> QED
      BY <3>1, <3>2 DEF Pooled, Named
  <2>2. Named(r)' /\ window'[name'[r]] = r
    BY <1>4, <1>8 DEF Named
  <2>3. \A q \in scripts' : Named(q)'
    BY <1>0, <1>1, <1>3, <1>8, <2>2 DEF JsonpInv, HoldsGlobal, Named
  <2>4. \A m \in JsonpNames : window'[m] # Nobody =>
          name'[window'[m]] = m /\ (m > 0 => window'[m] \in pending')
    <3> SUFFICES ASSUME NEW m \in JsonpNames, window'[m] # Nobody
                 PROVE  name'[window'[m]] = m /\ (m > 0 => window'[m] \in pending')
      OBVIOUS
    <3>1. CASE m = n
      BY <1>1, <1>8, <3>1
    <3>2. CASE m # n
      <4>1. window'[m] = window[m] /\ window[m] \in JsonpRequests
        BY <1>0, <1>8, <3>2
      <4>2. name[window[m]] = m /\ (m > 0 => window[m] \in pending)
        BY <4>1 DEF JsonpInv, HoldsGlobal
      <4>3. window[m] # r
        BY <1>0, <1>3, <4>2
      <4> QED
        BY <1>1, <1>8, <4>1, <4>2, <4>3
    <3> QED
      BY <3>1, <3>2
  <2> QED
    BY <1>1, <2>1, <2>2, <2>3, <2>4 DEF HoldsGlobal
<1>13. OverwrittenGiven'
  <2> SUFFICES ASSUME NEW q \in JsonpRequests, overwritten'[q] # Nobody
               PROVE  name'[q] = Given /\ name'[overwritten'[q]] = Given
    BY DEF OverwrittenGiven
  <2>1. CASE q = r
    <3>1. n = Given /\ name[window[n]] = n /\ window[n] \in JsonpRequests
      BY <1>0, <1>5, <1>8, <1>10, <2>1 DEF JsonpInv, HoldsGlobal
    <3> QED
      BY <1>3, <1>8, <2>1, <3>1 DEF Given
  <2>2. CASE q # r
    <3>1. name[q] = Given /\ name[overwritten[q]] = Given /\ overwritten[q] \in JsonpRequests
      BY <1>0, <1>8, <2>2 DEF JsonpInv, OverwrittenGiven
    <3> QED
      BY <1>3, <1>8, <2>2, <3>1 DEF Given
  <2> QED
    BY <2>1, <2>2
<1>14. CalledByItsOwn'
  <2> SUFFICES ASSUME NEW q \in JsonpRequests, Pooled(q)', q \notin reused'
               PROVE  /\ q \in pending' => \A p \in scripts' : name'[p] = name'[q] => p = q
                      /\ container'[q] \in {Nobody, q} /\ got'[q] \in {Nobody, q}
    BY DEF CalledByItsOwn
  <2>1. CASE q = r
    <3>1. \A p \in scripts : name[p] # n
      BY <1>1, <2>1
    <3>2. \A p \in scripts' : name'[p] = name'[q] => p = q
      BY <1>0, <1>1, <1>8, <2>1, <3>1
    <3>3. container[r] = Nobody /\ got[r] = Nobody
      BY <1>1 DEF JsonpInv, NotAskedYet
    <3> QED
      BY <1>1, <2>1, <3>2, <3>3
  <2>2. CASE q # r
    <3>1. Pooled(q) /\ q \notin reused /\ name'[q] = name[q]
      BY <1>1, <1>8, <2>2 DEF Pooled
    <3>2. q \in pending' => q \in pending /\ name[q] # n
      BY <1>1, <1>9, <2>2, <3>1 DEF Pooled, Given
    <3> QED
      BY <1>0, <1>1, <1>8, <2>2, <3>1, <3>2 DEF JsonpInv, CalledByItsOwn
  <2> QED
    BY <2>1, <2>2
<1>15. NotAskedYet'
  BY <1>1, <1>4, <1>8 DEF JsonpInv, NotAskedYet, Named
<1> QED
  BY <1>6, <1>7, <1>11, <1>12, <1>13, <1>14, <1>15 DEF JsonpInv

\* The clean-up: the names that are taken and the globals that are there.  It
\* is told whose answers the callbacks are left with.
LEMMA CleanUpStep ==
  ASSUME JsonpInv, NEW r \in pending,
         NEW box \in [JsonpRequests -> JsonpRequests \cup {Nobody}],
         CleanUp(r, box), UNCHANGED <<nonce, name, reused>>,
         scripts' \subseteq scripts,
         \A q \in JsonpRequests : ~ Named(q) => box[q] = Nobody,
         \A q \in JsonpRequests : Pooled(q) /\ q \notin reused => box[q] \in {Nobody, q},
         \A q \in JsonpRequests : got'[q] = got[q] \/ (q = r /\ got'[q] = box[q]),
         got' \in [JsonpRequests -> JsonpRequests \cup {Nobody}]
  PROVE  JsonpInv'
<1> DEFINE old == overwritten[r]
           n == name[r]
<1>0. /\ nonce \in Nat /\ name \in [JsonpRequests -> -1 .. nonce]
      /\ oldCallbacks \in Seq(1 .. nonce)
      /\ pending \subseteq JsonpRequests /\ scripts \subseteq JsonpRequests
      /\ window \in [JsonpNames -> JsonpRequests \cup {Nobody}]
      /\ overwritten \in [JsonpRequests -> JsonpRequests \cup {Nobody}]
      /\ container \in [JsonpRequests -> JsonpRequests \cup {Nobody}]
      /\ Nobody \notin JsonpRequests /\ JsonpNames \subseteq Nat
  BY JsonpAssumption DEF JsonpInv, JsonpTypes, JsonpNames
<1>1. /\ r \in JsonpRequests /\ Named(r) /\ n \in JsonpNames /\ n \in 0 .. nonce
  <2>1. r \in JsonpRequests /\ Named(r)
    BY <1>0 DEF JsonpInv, HoldsGlobal
  <2>2. n \in 0 .. nonce
    BY <1>0, <2>1 DEF Named
  <2> QED
    BY <2>1, <2>2, NamesAreGlobals
<1>2. /\ pending' = pending \ {r} /\ window' = [window EXCEPT ![n] = old]
      /\ oldCallbacks' = IF Pooled(r) THEN Append(oldCallbacks, n) ELSE oldCallbacks
      /\ container' = IF old # Nobody /\ box[r] # Nobody
                      THEN [box EXCEPT ![old] = box[r], ![r] = Nobody]
                      ELSE [box EXCEPT ![r] = Nobody]
      /\ overwritten' = [overwritten EXCEPT ![r] = Nobody]
  BY DEF CleanUp
<1>3. old \in JsonpRequests \cup {Nobody} /\ (old # Nobody => n = Given /\ name[old] = Given)
  BY <1>0, <1>1 DEF JsonpInv, OverwrittenGiven
<1> HIDE DEF old, n
<1>4. /\ window' \in [JsonpNames -> JsonpRequests \cup {Nobody}] /\ window'[n] = old
      /\ \A m \in JsonpNames \ {n} : window'[m] = window[m]
  BY <1>0, <1>1, <1>2, <1>3
<1>5. /\ overwritten' \in [JsonpRequests -> JsonpRequests \cup {Nobody}] /\ overwritten'[r] = Nobody
      /\ \A q \in JsonpRequests \ {r} : overwritten'[q] = overwritten[q]
  BY <1>0, <1>1, <1>2
<1>6. /\ container' \in [JsonpRequests -> JsonpRequests \cup {Nobody}] /\ container'[r] = Nobody
      /\ \A q \in JsonpRequests \ {r} : container'[q] = box[q] \/ q = old
  <2>1. CASE old # Nobody /\ box[r] # Nobody
    BY <1>1, <1>2, <1>3, <2>1
  <2>2. CASE ~ (old # Nobody /\ box[r] # Nobody)
    BY <1>1, <1>2, <2>2
  <2> QED
    BY <2>1, <2>2
<1>7. /\ oldCallbacks' \in Seq(1 .. nonce)
      /\ ~ Pooled(r) => oldCallbacks' = oldCallbacks
      /\ Pooled(r) => /\ n > 0
                      /\ DOMAIN oldCallbacks' = DOMAIN oldCallbacks \cup {Len(oldCallbacks) + 1}
                      /\ Len(oldCallbacks) + 1 \notin DOMAIN oldCallbacks
                      /\ \A i \in DOMAIN oldCallbacks : oldCallbacks'[i] = oldCallbacks[i]
                      /\ oldCallbacks'[Len(oldCallbacks) + 1] = n
  <2>1. CASE Pooled(r)
    <3>1. n \in 1 .. nonce /\ oldCallbacks' = Append(oldCallbacks, n)
      BY <1>0, <1>1, <1>2, <2>1 DEF Pooled, n
    <3> QED
      BY <1>0, <2>1, <3>1
  <2>2. CASE ~ Pooled(r)
    BY <1>0, <1>2, <2>2
  <2> QED
    BY <2>1, <2>2
<1>8. JsonpTypes'
  BY <1>0, <1>2, <1>4, <1>5, <1>6, <1>7 DEF JsonpTypes
<1>9. NamesEnough'
  BY DEF JsonpInv, NamesEnough, NamedRequests, Named
<1>10. PoolFree'
  <2>1. CASE ~ Pooled(r)
    BY <1>2, <1>7, <2>1 DEF JsonpInv, PoolFree
  <2>2. CASE Pooled(r)
    <3>1. \A i \in DOMAIN oldCallbacks : oldCallbacks[i] # n
      BY <1>1 DEF JsonpInv, PoolFree, n
    <3>2. \A q \in pending \ {r} : name[q] # n
      <4> SUFFICES ASSUME NEW q \in pending \ {r}, name[q] = n PROVE FALSE
        OBVIOUS
      <4>1. window[n] = r /\ window[n] = q
        BY <2>2 DEF JsonpInv, HoldsGlobal, Pooled, n
      <4> QED
        BY <4>1
    <3>3. \A i, j \in DOMAIN oldCallbacks' : oldCallbacks'[i] = oldCallbacks'[j] => i = j
      BY <1>7, <2>2, <3>1 DEF JsonpInv, PoolFree
    <3>4. \A i \in DOMAIN oldCallbacks', q \in pending' : name[q] # oldCallbacks'[i]
      BY <1>2, <1>7, <2>2, <3>2 DEF JsonpInv, PoolFree
    <3> QED
      BY <3>3, <3>4 DEF PoolFree
  <2> QED
    BY <2>1, <2>2
<1>11. HoldsGlobal'
  <2>1. \A q \in pending' : Named(q)' /\ (Pooled(q)' => window'[name'[q]] = q)
    <3> SUFFICES ASSUME NEW q \in pending, q # r
                 PROVE  Named(q) /\ (Pooled(q) => window'[name[q]] = q)
      BY <1>2 DEF Named, Pooled
    <3>1. Named(q) /\ (Pooled(q) => window[name[q]] = q)
      BY DEF JsonpInv, HoldsGlobal
    <3>2. CASE Pooled(q)
      <4>1. name[q] # n
        BY <3>1, <3>2 DEF JsonpInv, HoldsGlobal, Pooled, n
      <4>2. name[q] \in JsonpNames
        BY <1>0, <3>2, NamesAreGlobals DEF Pooled
      <4> QED
        BY <1>4, <3>1, <4>1, <4>2
    <3> QED
      BY <3>1, <3>2
  <2>2. \A q \in scripts' : Named(q)'
    BY DEF JsonpInv, HoldsGlobal, Named
  <2>3. \A m \in JsonpNames : window'[m] # Nobody =>
          name'[window'[m]] = m /\ (m > 0 => window'[m] \in pending')
    <3> SUFFICES ASSUME NEW m \in JsonpNames, window'[m] # Nobody
                 PROVE  name[window'[m]] = m /\ (m > 0 => window'[m] \in pending')
      OBVIOUS
    <3>1. CASE m = n
      BY <1>3, <1>4, <3>1 DEF Given
    <3>2. CASE m # n
      <4>1. window'[m] = window[m]
        BY <1>4, <3>2
      <4>2. name[window[m]] = m /\ (m > 0 => window[m] \in pending)
        BY <4>1 DEF JsonpInv, HoldsGlobal
      <4> QED
        BY <1>2, <3>2, <4>1, <4>2 DEF n
    <3> QED
      BY <3>1, <3>2
  <2> QED
    BY <2>1, <2>2, <2>3 DEF HoldsGlobal
<1>12. OverwrittenGiven'
  BY <1>5 DEF JsonpInv, OverwrittenGiven
<1>13. NotAskedYet'
  <2> SUFFICES ASSUME NEW q \in JsonpRequests, ~ Named(q)
               PROVE  container'[q] = Nobody /\ got'[q] = Nobody
    BY DEF NotAskedYet, Named
  <2>1. q # r /\ q # old
    BY <1>0, <1>1, <1>3 DEF Named, Given
  <2> QED
    BY <1>6, <2>1 DEF JsonpInv, NotAskedYet
<1>14. CalledByItsOwn'
  <2> SUFFICES ASSUME NEW q \in JsonpRequests, Pooled(q), q \notin reused
               PROVE  /\ q \in pending' => \A p \in scripts' : name[p] = name[q] => p = q
                      /\ container'[q] \in {Nobody, q} /\ got'[q] \in {Nobody, q}
    BY DEF CalledByItsOwn, Pooled
  <2>1. q \in pending' => \A p \in scripts' : name[p] = name[q] => p = q
    BY <1>2 DEF JsonpInv, CalledByItsOwn
  <2>2. q # old
    BY <1>0, <1>3 DEF Pooled, Given
  <2>3. box[q] \in {Nobody, q} /\ got[q] \in {Nobody, q}
    BY DEF JsonpInv, CalledByItsOwn
  <2>4. container'[q] \in {Nobody, q}
    BY <1>6, <2>2, <2>3
  <2> QED
    BY <2>1, <2>3, <2>4
<1> QED
  BY <1>8, <1>9, <1>10, <1>11, <1>12, <1>13, <1>14 DEF JsonpInv

\* A script calls the global of its name, and its request succeeds or fails.
LEMMA ScriptRunsStep ==
  ASSUME JsonpInv, NEW r \in JsonpRequests, ScriptRuns(r)
  PROVE  JsonpInv'
<1> DEFINE callee == window[name[r]]
           box == IF callee = Nobody THEN container ELSE [container EXCEPT ![callee] = r]
<1>1. /\ r \in scripts /\ scripts' = scripts \ {r} /\ UNCHANGED <<nonce, name, reused>>
      /\ \/ r \in pending /\ CleanUp(r, box) /\ got' = [got EXCEPT ![r] = box[r]]
         \/ container' = box /\ UNCHANGED <<pending, window, oldCallbacks, overwritten, got>>
  BY DEF ScriptRuns
<1>0. /\ nonce \in Nat /\ name \in [JsonpRequests -> -1 .. nonce]
      /\ window \in [JsonpNames -> JsonpRequests \cup {Nobody}]
      /\ container \in [JsonpRequests -> JsonpRequests \cup {Nobody}]
      /\ got \in [JsonpRequests -> JsonpRequests \cup {Nobody}]
      /\ Nobody \notin JsonpRequests /\ JsonpNames \subseteq Nat
  BY JsonpAssumption DEF JsonpInv, JsonpTypes, JsonpNames
<1>2. name[r] \in 0 .. nonce
  BY <1>0, <1>1 DEF JsonpInv, HoldsGlobal, Named
<1>3. name[r] \in JsonpNames
  BY <1>2, NamesAreGlobals
<1>4. /\ callee \in JsonpRequests \cup {Nobody}
      /\ callee # Nobody => /\ name[callee] = name[r] /\ callee \in JsonpRequests
                            /\ name[r] > 0 => callee \in pending
  BY <1>0, <1>3 DEF JsonpInv, HoldsGlobal
<1> HIDE DEF callee
<1>5. /\ box \in [JsonpRequests -> JsonpRequests \cup {Nobody}]
      /\ \A q \in JsonpRequests \ {callee} : box[q] = container[q]
      /\ callee # Nobody => box[callee] = r
  BY <1>0, <1>4
<1> HIDE DEF box
<1>6. \A q \in JsonpRequests : ~ Named(q) => box[q] = Nobody
  <2> SUFFICES ASSUME NEW q \in JsonpRequests, ~ Named(q) PROVE box[q] = Nobody
    OBVIOUS
  <2>1. q # callee
    BY <1>0, <1>2, <1>4 DEF Named
  <2> QED
    BY <1>5, <2>1 DEF JsonpInv, NotAskedYet
<1>7. \A q \in JsonpRequests : Pooled(q) /\ q \notin reused => box[q] \in {Nobody, q}
  <2> SUFFICES ASSUME NEW q \in JsonpRequests, Pooled(q), q \notin reused
               PROVE  box[q] \in {Nobody, q}
    OBVIOUS
  <2>1. CASE q = callee
    <3>1. q \in pending /\ name[r] = name[q]
      BY <1>0, <1>4, <2>1 DEF Pooled
    <3>2. r = q
      BY <1>1, <3>1 DEF JsonpInv, CalledByItsOwn
    <3> QED
      BY <1>0, <1>5, <2>1, <3>2
  <2>2. CASE q # callee
    BY <1>5, <2>2 DEF JsonpInv, CalledByItsOwn
  <2> QED
    BY <2>1, <2>2
<1>8. CASE r \in pending /\ CleanUp(r, box) /\ got' = [got EXCEPT ![r] = box[r]]
  <2>1. got' \in [JsonpRequests -> JsonpRequests \cup {Nobody}]
    BY <1>0, <1>5, <1>8
  <2>2. \A q \in JsonpRequests : got'[q] = got[q] \/ (q = r /\ got'[q] = box[q])
    BY <1>0, <1>8
  <2>3. scripts' \subseteq scripts /\ r \in pending /\ CleanUp(r, box) /\ UNCHANGED <<nonce, name, reused>>
    BY <1>1, <1>8
  <2> QED
    BY <1>5, <1>6, <1>7, <2>1, <2>2, <2>3, CleanUpStep
<1>9. CASE container' = box /\ UNCHANGED <<pending, window, oldCallbacks, overwritten, got>>
  <2>1. JsonpTypes'
    BY <1>1, <1>5, <1>9 DEF JsonpInv, JsonpTypes
  <2>2. NamesEnough' /\ PoolFree'
    BY <1>1, <1>9 DEF JsonpInv, NamesEnough, NamedRequests, Named, PoolFree
  <2>3. HoldsGlobal' /\ OverwrittenGiven'
    BY <1>1, <1>9 DEF JsonpInv, HoldsGlobal, OverwrittenGiven, Named, Pooled
  <2>4. NotAskedYet'
    BY <1>1, <1>6, <1>9 DEF JsonpInv, NotAskedYet, Named
  <2>5. CalledByItsOwn'
    BY <1>1, <1>7, <1>9 DEF JsonpInv, CalledByItsOwn, Pooled
  <2> QED
    BY <2>1, <2>2, <2>3, <2>4, <2>5 DEF JsonpInv
<1> QED
  BY <1>1, <1>8, <1>9

\* A request without an answer cleans up too, but nobody is called.
LEMMA GiveUpJsonpStep ==
  ASSUME JsonpInv, NEW r \in JsonpRequests, GiveUpJsonp(r)
  PROVE  JsonpInv'
<1>1. /\ r \in pending /\ CleanUp(r, container) /\ scripts' \subseteq scripts
      /\ UNCHANGED <<nonce, name, got, reused>>
  BY DEF GiveUpJsonp
<1>2. /\ container \in [JsonpRequests -> JsonpRequests \cup {Nobody}]
      /\ got \in [JsonpRequests -> JsonpRequests \cup {Nobody}]
      /\ \A q \in JsonpRequests : ~ Named(q) => container[q] = Nobody
      /\ \A q \in JsonpRequests : Pooled(q) /\ q \notin reused => container[q] \in {Nobody, q}
  BY DEF JsonpInv, JsonpTypes, NotAskedYet, CalledByItsOwn
<1>3. \A q \in JsonpRequests : got'[q] = got[q]
  BY <1>1
<1>4. got' \in [JsonpRequests -> JsonpRequests \cup {Nobody}]
  BY <1>1, <1>2
<1> QED
  BY <1>1, <1>2, <1>3, <1>4, CleanUpStep

\* Every step keeps the invariant.
LEMMA JsonpNext_Inv == JsonpInv /\ [JsonpNext]_jsonpVars => JsonpInv'
<1> SUFFICES ASSUME JsonpInv, [JsonpNext]_jsonpVars PROVE JsonpInv'
  OBVIOUS
<1>1. CASE JsonpNext
  BY <1>1, SendJsonpStep, ScriptRunsStep, GiveUpJsonpStep DEF JsonpNext
<1>2. CASE UNCHANGED jsonpVars
  BY <1>2 DEF jsonpVars, JsonpInv, JsonpTypes, NamesEnough, NamedRequests, Named, Pooled, PoolFree,
              HoldsGlobal, OverwrittenGiven, NotAskedYet, CalledByItsOwn
<1> QED
  BY <1>1, <1>2

\* JSONP: the pool never hands out a name whose callback is waited for, so a
\* pending request has its global and succeeds with its own answer, unless an
\* old script of its name could still run.
THEOREM JsonpAnswersItsOwnAlways == JsonpSpec => []JsonpAnswersItsOwn
<1>1. JsonpInv => JsonpAnswersItsOwn
  BY DEF JsonpInv, HoldsGlobal, CalledByItsOwn, JsonpAnswersItsOwn
<1> QED
  BY JsonpInit_Inv, JsonpNext_Inv, <1>1, PTL DEF JsonpSpec

-----------------------------------------------------------------------------
\* TaskPage: table, page bar and server agree.

\* What the variables hold.
PageRequests == [id: Nat, kind: {"draw", "change", "delete"}, page: Page, asString: BOOLEAN,
                 rows: Nat, seen: [version: Int, records: Nat]]

\* The types of the page machine.
PageTypes ==
  /\ server \in [version: Nat, records: Nat]
  /\ drawn \in [version: Int, records: Nat, page: Page, asString: BOOLEAN]
  /\ field \in Page
  /\ requests \subseteq PageRequests
  /\ sent \in Nat

\* What has been served, and what is drawn, was the server's table once.
VersionsPast ==
  /\ drawn = NotDrawn \/ drawn.version \in 0 .. server.version
  /\ \A q \in requests : q.seen = Unserved \/ q.seen.version \in 0 .. server.version

\* Before the first page is drawn there is no row to press a button of.
NothingPressed ==
  drawn = NotDrawn => server.version = 0 /\ \A q \in requests : q.kind = "draw"

\* A page before the first is drawn only if it has no rows.
DrawnPage == drawn.page.tenths >= 10 \/ drawn.records = 0

\* A fraction in the page bar, on the page or under way was typed once.
FractionInv ==
  ~ fraction => /\ DigitsOnly(field) /\ DigitsOnly(drawn.page)
                /\ \A q \in requests : DigitsOnly(q.page)

\* A request that will show the table as it is now: a button, whose answer draws
\* again, or a draw that has seen it or is still to see it.
WillShow(q) == q.kind = "draw" => q.seen = Unserved \/ q.seen.version = server.version

\* The page shows the table as it is, or will.
FreshOrWillBe ==
  drawn # NotDrawn /\ ~ overtaken /\ ~ alerted =>
    drawn.version = server.version \/ \E q \in requests : WillShow(q)

\* The inductive invariant.
PageInv ==
  /\ PageTypes /\ VersionsPast /\ NothingPressed /\ DrawnPage /\ FractionInv
  /\ AsksForAPage /\ FreshOrWillBe

\* The page numbers.
LEMMA PageNumbers ==
  /\ \A n \in Int : /\ PageNumber(n) \in Page /\ DigitsOnly(PageNumber(n))
                     /\ PageNumber(n).int = n /\ PageNumber(n).tenths = 10 * n
  /\ EmptyField \in Page /\ DigitsOnly(EmptyField)
  /\ \A f \in Page : DigitsOnly(f) /\ f # EmptyField => f.int \in Int /\ f.tenths = 10 * f.int
<1>1. ASSUME NEW n \in Int
      PROVE  /\ PageNumber(n) \in Page /\ DigitsOnly(PageNumber(n))
             /\ PageNumber(n).int = n /\ PageNumber(n).tenths = 10 * n
  <2>1. n # NaN /\ 10 * n \in Int
    BY NaNAssumption
  <2>2. PageNumber(n).int = n /\ PageNumber(n).tenths = 10 * n /\ PageNumber(n) \in Page
    BY <2>1 DEF PageNumber, Page
  <2> QED
    BY <2>1, <2>2 DEF DigitsOnly
<1>2. EmptyField \in Page /\ DigitsOnly(EmptyField)
  BY DEF EmptyField, Page, DigitsOnly
<1>3. ASSUME NEW f \in Page, DigitsOnly(f), f # EmptyField
      PROVE  f.int \in Int /\ f.tenths = 10 * f.int
  BY <1>3 DEF Page, DigitsOnly
<1> QED
  BY <1>1, <1>2, <1>3

\* It holds for a page that is not drawn yet.
LEMMA TaskPageInit_Inv == TaskPageInit => PageInv
<1> SUFFICES ASSUME TaskPageInit PROVE PageInv
  OBVIOUS
<1>1. /\ drawn = NotDrawn /\ field = PageNumber(1) /\ requests = {} /\ sent = 0
      /\ server \in [version: {0}, records: Records]
  BY DEF TaskPageInit
<1>2. NotDrawn \in [version: Int, records: Nat, page: Page, asString: BOOLEAN]
  BY PageNumbers DEF NotDrawn
<1>3. server \in [version: Nat, records: Nat] /\ server.version = 0
  <2>1. Records \subseteq Nat
    BY NumbersAssumption
  <2>2. /\ server = [version |-> server.version, records |-> server.records]
        /\ server.version = 0 /\ server.records \in Records
    BY <1>1
  <2>3. server.records \in Nat
    BY <2>1, <2>2
  <2> QED
    BY <2>2, <2>3
<1>4. drawn.page = PageNumber(1) /\ drawn.records = 0
  BY <1>1 DEF NotDrawn
<1>5. PageTypes
  BY <1>1, <1>2, <1>3, PageNumbers DEF PageTypes
<1>6. VersionsPast /\ NothingPressed /\ DrawnPage /\ AsksForAPage /\ FreshOrWillBe
  BY <1>1, <1>3, <1>4 DEF VersionsPast, NothingPressed, DrawnPage, AsksForAPage, FreshOrWillBe
<1>7. FractionInv
  BY <1>1, <1>4, PageNumbers DEF FractionInv
<1> QED
  BY <1>5, <1>6, <1>7 DEF PageInv

\* The fields of a request.
LEMMA RequestFields ==
  ASSUME PageInv, NEW q \in requests
  PROVE  /\ q \in PageRequests
         /\ q.page \in Page /\ q.rows \in Nat /\ q.asString \in BOOLEAN
         /\ q.seen.version \in Int /\ q.seen.records \in Nat
  BY DEF PageInv, PageTypes, PageRequests

\* A table with rows has a first page.
LEMMA TotalPageType ==
  ASSUME NEW n \in Nat
  PROVE  TotalPage(n) \in Nat /\ (n > 0 => TotalPage(n) >= 1)
  BY PageSizeAssumption DEF TotalPage

\* What may be asked for: no page before the first, unless a fraction was
\* typed, the input is empty or the table has no rows.
MayAsk(f) ==
  /\ f \in Page
  /\ ~ fraction => /\ DigitsOnly(f)
                   /\ f.tenths >= 10 \/ f = EmptyField \/ drawn.records = 0

\* What the input may hold.
FieldHolds(f) == f \in Page /\ (~ fraction => DigitsOnly(f))

\* The first page.
LEMMA FirstPage == MayAsk(PageNumber(1))
  BY PageNumbers DEF MayAsk

\* A request that is not served will show the table as it is, whatever
\* happens before.
LEMMA AskInsteadKeeps ==
  ASSUME PageInv, NEW old \in SUBSET requests, NEW kind \in {"draw", "change", "delete"},
         NEW page, MayAsk(page), NEW asString \in BOOLEAN,
         kind = "draw" \/ drawn # NotDrawn,
         AskInstead(old, kind, page, asString),
         UNCHANGED <<server, drawn, alerted, overtaken, fraction>>, FieldHolds(field')
  PROVE  PageInv'
<1> DEFINE new == [id |-> sent + 1, kind |-> kind, page |-> page, asString |-> asString,
                   rows |-> drawn.records, seen |-> Unserved]
<1>1. sent' = sent + 1 /\ requests' = (requests \ old) \cup {new}
  BY DEF AskInstead
<1>2. new \in PageRequests
  BY DEF PageInv, PageTypes, PageRequests, Unserved, MayAsk
<1>3. new.kind = kind /\ new.page = page /\ new.rows = drawn.records /\ new.seen = Unserved
  OBVIOUS
<1> HIDE DEF new
<1>4. PageTypes'
  BY <1>1, <1>2 DEF PageInv, PageTypes, FieldHolds
<1>5. VersionsPast'
  BY <1>1, <1>3 DEF PageInv, VersionsPast
<1>6. NothingPressed'
  BY <1>1, <1>3 DEF PageInv, NothingPressed
<1>7. DrawnPage'
  BY DEF PageInv, DrawnPage
<1>8. AsksForAPage'
  BY <1>1, <1>3 DEF PageInv, AsksForAPage, MayAsk
<1>10. FractionInv'
  BY <1>1, <1>3 DEF PageInv, FractionInv, MayAsk, FieldHolds
<1>9. FreshOrWillBe'
  BY <1>1, <1>3 DEF FreshOrWillBe, WillShow
<1> QED
  BY <1>4, <1>5, <1>6, <1>7, <1>8, <1>9, <1>10 DEF PageInv

\* The page bar.
LEMMA DrawFieldKeeps ==
  ASSUME PageInv, NEW f, DrawField(f), field' = f, MayAsk(f),
         UNCHANGED <<server, drawn, alerted, overtaken, fraction>>
  PROVE  PageInv'
<1>1. AskInstead({}, "draw", f, TRUE)
  BY DEF DrawField, Ask
<1>2. FieldHolds(field')
  BY DEF FieldHolds, MayAsk
<1> QED
  BY <1>1, <1>2, AskInsteadKeeps

\* Steps that leave the table, the page and the requests alone.
LEMMA SamePage ==
  ASSUME PageInv, field' \in Page, ~ fraction' => ~ fraction /\ DigitsOnly(field'),
         UNCHANGED <<server, drawn, requests, sent, alerted, overtaken>>
  PROVE  PageInv'
<1>1. PageTypes' /\ VersionsPast' /\ NothingPressed' /\ DrawnPage' /\ FreshOrWillBe'
  BY DEF PageInv, PageTypes, VersionsPast, NothingPressed, DrawnPage, FreshOrWillBe, WillShow
<1>2. AsksForAPage' /\ FractionInv'
  BY DEF PageInv, AsksForAPage, FractionInv
<1> QED
  BY <1>1, <1>2 DEF PageInv

\* The page bar asks for a page at most.
LEMMA PageBarStep ==
  ASSUME PageInv, Blur \/ ClickPrevious \/ ClickNext
  PROVE  PageInv'
<1>1. /\ field \in Page /\ drawn.records \in Nat /\ drawn.page \in Page
      /\ drawn.page.tenths >= 10 \/ drawn.records = 0
      /\ ~ fraction => DigitsOnly(field) /\ DigitsOnly(drawn.page)
  BY DEF PageInv, PageTypes, DrawnPage, FractionInv
<1>2. Total \in Nat /\ (drawn.records > 0 => Total >= 1)
  BY <1>1, TotalPageType DEF Total
<1>3. CASE Blur
  <2>1. /\ field' = Clamped(field) /\ UNCHANGED <<server, drawn, alerted, overtaken, fraction>>
        /\ DrawField(field') \/ UNCHANGED <<sent, requests>>
    BY <1>3 DEF Blur
  <2>2. MayAsk(Clamped(field))
    <3>1. CASE field.int = NaN
      <4>1. DigitsOnly(field) => field = EmptyField
        BY <3>1 DEF DigitsOnly
      <4> QED
        BY <1>1, <3>1, <4>1 DEF Clamped, MayAsk
    <3>2. CASE field.int # NaN
      <4>1. field.int \in Int
        BY <1>1, <3>2 DEF Page
      <4>2. CASE field.int > Total
        BY <1>1, <1>2, <3>2, <4>2, PageNumbers DEF Clamped, MayAsk
      <4>3. CASE ~ (field.int > Total) /\ field.int < 1
        BY <3>2, <4>3, PageNumbers DEF Clamped, MayAsk
      <4>4. CASE ~ (field.int > Total) /\ ~ (field.int < 1)
        <5>1. Clamped(field) = field
          BY <3>2, <4>4 DEF Clamped
        <5>2. DigitsOnly(field) => field.tenths >= 10
          BY <3>2, <4>1, <4>4 DEF DigitsOnly, EmptyField
        <5> QED
          BY <1>1, <5>1, <5>2 DEF MayAsk
      <4> QED
        BY <4>2, <4>3, <4>4
    <3> QED
      BY <3>1, <3>2
  <2>3. field' \in Page /\ (~ fraction' => ~ fraction /\ DigitsOnly(field'))
    BY <2>1, <2>2 DEF MayAsk
  <2> QED
    BY <2>1, <2>2, <2>3, DrawFieldKeeps, SamePage
<1>4. CASE ClickPrevious
  <2>1. /\ field' = Shifted(drawn.page, -1) /\ drawn.page.tenths > 10 /\ DrawField(field')
        /\ UNCHANGED <<server, drawn, alerted, overtaken, fraction>>
    BY <1>4 DEF ClickPrevious
  <2>2. MayAsk(Shifted(drawn.page, -1))
    <3>1. CASE drawn.page.int = NaN
      BY <3>1, PageNumbers DEF Shifted, MayAsk
    <3>2. CASE drawn.page.int # NaN
      <4>1. drawn.page.int \in Int /\ drawn.page.int + -1 \in Int
        BY <1>1, <3>2 DEF Page
      <4>2. DigitsOnly(drawn.page) => 10 * (drawn.page.int + -1) >= 10
        BY <2>1, <3>2, <4>1 DEF DigitsOnly, EmptyField
      <4> QED
        BY <1>1, <3>2, <4>1, <4>2, PageNumbers DEF Shifted, MayAsk
    <3> QED
      BY <3>1, <3>2
  <2> QED
    BY <2>1, <2>2, DrawFieldKeeps
<1>5. CASE ClickNext
  <2>1. /\ field' = Shifted(drawn.page, 1)
        /\ DrawField(field') /\ UNCHANGED <<server, drawn, alerted, overtaken, fraction>>
    BY <1>5 DEF ClickNext
  <2>2. MayAsk(Shifted(drawn.page, 1))
    <3>1. CASE drawn.page.int = NaN
      BY <3>1, PageNumbers DEF Shifted, MayAsk
    <3>2. CASE drawn.page.int # NaN
      <4>1. drawn.page.int \in Int /\ drawn.page.int + 1 \in Int
        BY <1>1, <3>2 DEF Page
      <4>2. DigitsOnly(drawn.page) /\ drawn.page.tenths >= 10 => 10 * (drawn.page.int + 1) >= 10
        BY <3>2, <4>1 DEF DigitsOnly, EmptyField
      <4> QED
        BY <1>1, <3>2, <4>1, <4>2, PageNumbers DEF Shifted, MayAsk
    <3> QED
      BY <3>1, <3>2
  <2> QED
    BY <2>1, <2>2, DrawFieldKeeps
<1> QED
  BY <1>3, <1>4, <1>5

\* So does loading the page.
LEMMA LoadPageStep ==
  ASSUME PageInv, LoadPage
  PROVE  PageInv'
<1>1. /\ UNCHANGED <<server, drawn, field, alerted, overtaken, fraction>>
      /\ AskInstead({}, "draw", PageNumber(1), FALSE) \/ UNCHANGED <<sent, requests>>
  BY DEF LoadPage, DrawFirst, Ask
<1>2. field' \in Page /\ FieldHolds(field') /\ (~ fraction' => ~ fraction /\ DigitsOnly(field'))
  BY <1>1 DEF PageInv, PageTypes, FractionInv, FieldHolds
<1> QED
  BY <1>1, <1>2, FirstPage, AskInsteadKeeps, SamePage

\* A button of a row asks for a change of it.
LEMMA ClickRowStep ==
  ASSUME PageInv, ClickRow
  PROVE  PageInv'
<1>1. PICK kind \in {"change", "delete"} : AskInstead({}, kind, PageNumber(1), FALSE)
  BY DEF ClickRow, Ask
<1>2. drawn # NotDrawn /\ UNCHANGED <<server, drawn, field, alerted, overtaken, fraction>>
  BY DEF ClickRow
<1>3. FieldHolds(field')
  BY <1>2 DEF PageInv, PageTypes, FractionInv, FieldHolds
<1> QED
  BY <1>1, <1>2, <1>3, FirstPage, AskInsteadKeeps

\* The answer to a change: the page draws the first page anew.
LEMMA ChangedStep ==
  ASSUME PageInv, Changed
  PROVE  PageInv'
<1>1. PICK q \in requests : AskInstead({q}, "draw", PageNumber(1), FALSE)
  BY DEF Changed
<1>2. UNCHANGED <<server, drawn, field, alerted, overtaken, fraction>>
  BY DEF Changed
<1>3. FieldHolds(field')
  BY <1>2 DEF PageInv, PageTypes, FractionInv, FieldHolds
<1> QED
  BY <1>1, <1>2, <1>3, FirstPage, AskInsteadKeeps

\* The table changes only when a button's request is served; that request
\* draws again.
LEMMA ServeStep ==
  ASSUME PageInv, Serve
  PROVE  PageInv'
<1>1. PICK q \in requests :
        /\ q.seen = Unserved
        /\ server' = IF q.kind = "draw" THEN server
                     ELSE [version |-> server.version + 1,
                           records |-> IF q.kind = "delete" /\ server.records > 0
                                       THEN server.records - 1 ELSE server.records]
        /\ requests' = (requests \ {q}) \cup {[q EXCEPT !.seen = server']}
  BY DEF Serve
<1>2. UNCHANGED <<drawn, field, sent, alerted, overtaken, fraction>>
  BY DEF Serve
<1> DEFINE served == [q EXCEPT !.seen = server']
<1>3. server \in [version: Nat, records: Nat] /\ server.version \in Nat
  BY DEF PageInv, PageTypes
<1>4. /\ server' \in [version: Nat, records: Nat] /\ server'.version \in Nat
      /\ server.version <= server'.version
      /\ q.kind = "draw" => server'.version = server.version
  <2>1. CASE q.kind = "draw"
    BY <1>1, <1>3, <2>1
  <2>2. CASE q.kind # "draw"
    <3> DEFINE left == IF q.kind = "delete" /\ server.records > 0
                       THEN server.records - 1 ELSE server.records
    <3>1. left \in Nat
      BY <1>3
    <3>2. server' = [version |-> server.version + 1, records |-> left]
      BY <1>1, <2>2
    <3> QED
      BY <1>3, <2>2, <3>1, <3>2
  <2> QED
    BY <2>1, <2>2
<1>5. served \in PageRequests /\ served.seen = server' /\ served.kind = q.kind
      /\ served.page = q.page /\ served.rows = q.rows
  <2>1. q \in PageRequests
    BY RequestFields
  <2>2. server' \in [version: Int, records: Nat]
    BY <1>4
  <2> QED
    BY <2>1, <2>2 DEF PageRequests
<1>6. requests' = (requests \ {q}) \cup {served}
  BY <1>1
<1> HIDE DEF served
<1>7. PageTypes'
  BY <1>2, <1>4, <1>5, <1>6 DEF PageInv, PageTypes
<1>8. VersionsPast'
  BY <1>2, <1>3, <1>4, <1>5, <1>6 DEF PageInv, VersionsPast
<1>9. NothingPressed'
  <2> SUFFICES ASSUME drawn = NotDrawn
               PROVE  server'.version = 0 /\ \A p \in requests' : p.kind = "draw"
    BY <1>2 DEF NothingPressed
  <2>1. server.version = 0 /\ \A p \in requests : p.kind = "draw"
    BY DEF PageInv, NothingPressed
  <2> QED
    BY <1>4, <1>5, <1>6, <2>1
<1>10. DrawnPage'
  BY <1>2 DEF PageInv, DrawnPage
<1>11. AsksForAPage' /\ FractionInv'
  BY <1>2, <1>5, <1>6 DEF PageInv, AsksForAPage, FractionInv
<1>12. FreshOrWillBe'
  BY <1>5, <1>6 DEF FreshOrWillBe, WillShow
<1> QED
  BY <1>7, <1>8, <1>9, <1>10, <1>11, <1>12 DEF PageInv

\* The table grows at the server, in the version it has.
LEMMA GrowStep ==
  ASSUME PageInv, Grow
  PROVE  PageInv'
<1>1. server' = [server EXCEPT !.records = @ + 1]
  BY DEF Grow
<1>2. UNCHANGED <<drawn, field, requests, sent, alerted, overtaken, fraction>>
  BY DEF Grow
<1>3. server' \in [version: Nat, records: Nat] /\ server'.version = server.version
  BY <1>1 DEF PageInv, PageTypes
<1>4. PageTypes' /\ VersionsPast' /\ NothingPressed' /\ DrawnPage' /\ FreshOrWillBe'
  BY <1>2, <1>3 DEF PageInv, PageTypes, VersionsPast, NothingPressed, DrawnPage,
                    FreshOrWillBe, WillShow
<1>5. AsksForAPage' /\ FractionInv'
  BY <1>2 DEF PageInv, AsksForAPage, FractionInv
<1> QED
  BY <1>4, <1>5 DEF PageInv

\* An answer that is rendered is the newest, or another will be drawn, or it
\* has overtaken a newer one.
LEMMA RenderStep ==
  ASSUME PageInv, Render
  PROVE  PageInv'
<1>1. PICK q \in requests :
        /\ q.kind = "draw" /\ q.seen # Unserved /\ ~ Refused(q)
        /\ drawn' = [version |-> q.seen.version, records |-> q.seen.records,
                     page |-> q.page, asString |-> q.asString]
        /\ field' = q.page
        /\ overtaken' = (overtaken \/ q.seen.version < drawn.version)
        /\ requests' = requests \ {q}
  BY DEF Render
<1>2. UNCHANGED <<server, sent, alerted, fraction>>
  BY DEF Render
<1>3. /\ q.page \in Page /\ q.asString \in BOOLEAN
      /\ q.seen.version \in 0 .. server.version /\ q.seen.records \in Nat
  BY <1>1, RequestFields DEF PageInv, VersionsPast
<1>4. /\ drawn' \in [version: Int, records: Nat, page: Page, asString: BOOLEAN]
      /\ drawn'.version = q.seen.version /\ drawn'.page = q.page /\ drawn'.records = q.seen.records
  <2>1. server.version \in Nat
    BY DEF PageInv, PageTypes
  <2> QED
    BY <1>1, <1>3, <2>1
<1>5. drawn' # NotDrawn
  BY <1>3, <1>4 DEF NotDrawn
<1>6. PageTypes'
  BY <1>1, <1>2, <1>3, <1>4 DEF PageInv, PageTypes
<1>7. VersionsPast'
  BY <1>1, <1>2, <1>3, <1>4 DEF PageInv, VersionsPast
<1>8. NothingPressed'
  BY <1>5 DEF NothingPressed
<1>9. DrawnPage'
  <2>1. q.page.tenths \in Int
    BY <1>3 DEF Page
  <2> QED
    BY <1>1, <1>3, <1>4, <2>1 DEF DrawnPage, Refused
<1>10. AsksForAPage' /\ FractionInv'
  BY <1>1, <1>2, <1>4 DEF PageInv, AsksForAPage, FractionInv
<1>11. FreshOrWillBe'
  <2> SUFFICES ASSUME ~ overtaken', ~ alerted, q.seen.version # server.version
               PROVE  \E p \in requests' : WillShow(p)'
    BY <1>2, <1>4 DEF FreshOrWillBe
  <2>1. ~ overtaken /\ ~ (q.seen.version < drawn.version)
    BY <1>1
  <2>2. ~ WillShow(q)
    BY <1>1 DEF WillShow
  <2>3. drawn # NotDrawn
    <3> SUFFICES ASSUME drawn = NotDrawn PROVE FALSE
      OBVIOUS
    <3>1. server.version = 0
      BY DEF PageInv, NothingPressed
    <3> QED
      BY <1>3, <3>1
  <2>4. drawn.version # server.version
    <3>1. server.version \in Nat
      BY DEF PageInv, PageTypes
    <3> QED
      BY <1>3, <2>1, <3>1
  <2>5. PICK p \in requests : WillShow(p)
    BY <2>1, <2>3, <2>4 DEF PageInv, FreshOrWillBe
  <2>6. p \in requests' /\ WillShow(p)'
    BY <1>1, <1>2, <2>2, <2>5 DEF WillShow
  <2> QED
    BY <2>6
<1> QED
  BY <1>6, <1>7, <1>8, <1>9, <1>10, <1>11 DEF PageInv

\* A request that fails changes nothing.
LEMMA FailStep ==
  ASSUME PageInv, Fail
  PROVE  PageInv'
<1>1. PICK q \in requests : requests' = requests \ {q}
  BY DEF Fail
<1>2. alerted' = TRUE /\ UNCHANGED <<server, drawn, field, sent, overtaken, fraction>>
  BY DEF Fail
<1>3. PageTypes' /\ VersionsPast' /\ NothingPressed' /\ DrawnPage' /\ FreshOrWillBe'
  BY <1>1, <1>2 DEF PageInv, PageTypes, VersionsPast, NothingPressed, DrawnPage, FreshOrWillBe
<1>4. AsksForAPage' /\ FractionInv'
  BY <1>1, <1>2 DEF PageInv, AsksForAPage, FractionInv
<1> QED
  BY <1>3, <1>4 DEF PageInv

\* Logging in, the expiry of the token and typing touch no table.
LEMMA OtherPageStep ==
  ASSUME PageInv, LogIn \/ Expire \/ TypePage \/ UNCHANGED pageVars
  PROVE  PageInv'
<1>1. UNCHANGED <<server, drawn, requests, sent, alerted, overtaken>>
  BY DEF LogIn, Expire, TypePage, pageVars
<1>2. field' \in Page
  <2>1. field \in Page /\ TypedPages \subseteq Page /\ EmptyField \in Page
    BY NumbersAssumption, PageNumbers DEF PageInv, PageTypes
  <2>2. field' = field \/ field' \in TypedPages \cup {EmptyField}
    BY DEF LogIn, Expire, TypePage, pageVars
  <2> QED
    BY <2>1, <2>2, Zenon
<1>3. ~ fraction' => ~ fraction /\ DigitsOnly(field')
  <2>1. CASE TypePage
    BY <2>1 DEF TypePage
  <2>2. CASE LogIn \/ Expire \/ UNCHANGED pageVars
    BY <2>2 DEF LogIn, Expire, pageVars, PageInv, FractionInv
  <2> QED
    BY <2>1, <2>2
<1> QED
  BY <1>1, <1>2, <1>3, SamePage

\* Every step keeps the invariant.
LEMMA TaskPageNext_Inv == PageInv /\ [TaskPageNext]_pageVars => PageInv'
  BY LoadPageStep, PageBarStep, ClickRowStep, ServeStep, GrowStep, RenderStep, ChangedStep, FailStep,
     OtherPageStep DEF TaskPageNext

\* The table pages: with no request under way the page shows the table as the
\* server has it, unless an answer overtook another or the visitor was told of
\* a failure, and as long as only whole numbers are typed the page bar asks for
\* no page before the first.
THEOREM TableInStepAlways == TaskPageSpec => []TableInStep
<1>1. PageInv => TableInStep
  BY DEF PageInv, FreshOrWillBe, TableInStep, ShownIsFresh
<1> QED
  BY TaskPageInit_Inv, TaskPageNext_Inv, <1>1, PTL DEF TaskPageSpec

-----------------------------------------------------------------------------
\* TaskExecution: what the table says of runs (Init, Next, Spec, IInv are its own).

\* Two threads never work on the same run, and a run at work was not written.
RunsAreOwned ==
  \A t, u \in Threads :
    cur[t] # 0 => /\ cur[t] \in DOMAIN runs /\ runs[cur[t]].told = FALSE
                  /\ cur[u] = cur[t] => u = t
                  /\ TaskOf[RowOf(t)] = asked[t]

\* What the place a request stands at says of its run.
StageInv ==
  \A t \in Threads :
    /\ cur[t] # 0 => pc[t] \in {"running", "reporting", "saving"}
    /\ pc[t] = "running" => cur[t] # 0 /\ runs[cur[t]].result = "running"
    /\ pc[t] = "reporting" => cur[t] # 0 /\ runs[cur[t]].result = "failed"
    /\ pc[t] = "saving" => cur[t] # 0 /\ runs[cur[t]].result \in {"done", "failed"}

\* A request's list holds rows of the task it asked for.
ListInv == \A t \in Threads : \A r \in todo[t] : TaskOf[r] = asked[t]

\* A row shows a run of its own that was written, with that run's result.
ShownInv ==
  \A r \in Rows : record[r].run # 0 =>
    /\ record[r].run \in DOMAIN runs
    /\ runs[record[r].run].row = r
    /\ runs[record[r].run].told = TRUE
    /\ runs[record[r].run].result \in {"done", "failed"}
    /\ record[r].message = NoMessage <=> runs[record[r].run].result = "done"

\* A run that started later than one at work started beside it.
BesideInv ==
  /\ DOMAIN beside = DOMAIN runs
  /\ \A t \in Threads : cur[t] # 0 =>
       \A n \in DOMAIN runs : n > cur[t] => cur[t] \in beside[n]

IInv == /\ TypeOK /\ RunsAreOwned /\ StageInv /\ ListInv /\ ShownInv
        /\ BesideInv /\ OlderRunOverlapped

\* It holds before the first request.
LEMMA InitIInv == Init => IInv
<1> SUFFICES ASSUME Init PROVE IInv
  OBVIOUS
<1>1. TypeOK
  BY DEF Init, TypeOK, NoRecord
<1>2. RunsAreOwned /\ StageInv /\ ListInv
  BY DEF Init, RunsAreOwned, StageInv, ListInv
<1>3. ShownInv
  BY DEF Init, ShownInv, NoRecord
<1>4. BesideInv /\ OlderRunOverlapped
  BY DEF Init, BesideInv, OlderRunOverlapped
<1> QED
  BY <1>1, <1>2, <1>3, <1>4 DEF IInv

\* Starting a run appends one that nobody owns yet.
LEMMA StartRunStep ==
  ASSUME IInv, NEW t \in Threads, StartRun(t)
  PROVE  IInv'
<1>1. PICK r \in todo[t] :
        /\ TaskOf[r] \in KnownTasks
        /\ runs' = Append(runs, [row |-> r, result |-> "running", told |-> FALSE])
        /\ todo' = [todo EXCEPT ![t] = @ \ {r}]
  BY DEF StartRun
<1> DEFINE new == [row |-> r, result |-> "running", told |-> FALSE]
<1>2. r \in Rows /\ TaskOf[r] = asked[t]
  BY DEF IInv, TypeOK, ListInv
<1>3. new \in Run /\ runs \in Seq(Run)
  BY <1>2 DEF Run, IInv, TypeOK
<1>4. /\ runs' \in Seq(Run) /\ Len(runs') = Len(runs) + 1
      /\ \A n \in DOMAIN runs : n \in DOMAIN runs' /\ runs'[n] = runs[n]
      /\ Len(runs') \in DOMAIN runs' /\ runs'[Len(runs')] = new
      /\ Len(runs') \notin DOMAIN runs /\ Len(runs') \in Nat \ {0}
  BY <1>1, <1>3
<1>5. /\ cur' = [cur EXCEPT ![t] = Len(runs')]
      /\ pc' = [pc EXCEPT ![t] = "running"]
      /\ beside' = Append(beside, {cur[u] : u \in Threads} \ {0})
      /\ UNCHANGED <<state, record, asked>> /\ pc[t] = "looping"
  BY DEF StartRun, tableVars
<1> HIDE DEF new
<1>6. TypeOK'
  <2>1. beside' \in Seq(SUBSET Nat)
    <3>1. {cur[u] : u \in Threads} \ {0} \in SUBSET Nat /\ beside \in Seq(SUBSET Nat)
      BY DEF IInv, TypeOK
    <3> QED
      BY <1>5, <3>1
  <2> QED
    BY <1>1, <1>4, <1>5, <2>1 DEF IInv, TypeOK
<1>7. RunsAreOwned'
  BY <1>2, <1>4, <1>5 DEF IInv, TypeOK, RunsAreOwned, RowOf, new
<1>8. StageInv'
  BY <1>4, <1>5 DEF IInv, TypeOK, RunsAreOwned, StageInv, new
<1>9. ListInv'
  BY <1>1, <1>5 DEF IInv, TypeOK, ListInv
<1>10. ShownInv'
  BY <1>4, <1>5 DEF IInv, ShownInv
<1>11. /\ DOMAIN beside' = DOMAIN runs'
       /\ \A n \in DOMAIN runs : beside'[n] = beside[n]
       /\ beside'[Len(runs')] = {cur[u] : u \in Threads} \ {0}
  <2>1. beside \in Seq(SUBSET Nat) /\ Len(beside) = Len(runs)
    BY <1>3 DEF IInv, TypeOK, BesideInv
  <2> QED
    BY <1>3, <1>4, <1>5, <2>1
<1>12. BesideInv'
  <2>1. ASSUME NEW u \in Threads, cur'[u] # 0, NEW n \in DOMAIN runs', n > cur'[u]
        PROVE  cur'[u] \in beside'[n]
    <3>1. u # t /\ cur'[u] = cur[u]
      BY <1>3, <1>4, <1>5, <2>1 DEF IInv, TypeOK
    <3>2. CASE n \in DOMAIN runs
      BY <1>11, <2>1, <3>1, <3>2 DEF IInv, BesideInv
    <3>3. CASE n = Len(runs')
      BY <1>11, <2>1, <3>1, <3>3
    <3> QED
      BY <1>3, <1>4, <3>2, <3>3
  <2> QED
    BY <1>11, <2>1 DEF BesideInv
<1>13. OlderRunOverlapped'
  <2>1. ASSUME NEW n \in DOMAIN runs', runs'[n].told
        PROVE  n \in DOMAIN runs
    BY <1>3, <1>4, <2>1 DEF new
  <2> QED
    BY <1>4, <1>5, <1>11, <2>1 DEF IInv, OlderRunOverlapped
<1> QED
  BY <1>6, <1>7, <1>8, <1>9, <1>10, <1>12, <1>13 DEF IInv

\* A body that returns or throws changes its own run only.
LEMMA ResultStep ==
  ASSUME IInv, NEW t \in Threads, pc[t] = "running",
         NEW res \in {"done", "failed"}, NEW p \in {"reporting", "saving"},
         p = "reporting" => res = "failed",
         runs' = [runs EXCEPT ![cur[t]].result = res],
         pc' = [pc EXCEPT ![t] = p],
         UNCHANGED <<tableVars, beside, todo, cur, asked>>
  PROVE  IInv'
<1> DEFINE new == [runs[cur[t]] EXCEPT !.result = res]
<1>1. cur[t] \in DOMAIN runs /\ runs \in Seq(Run) /\ runs[cur[t]].told = FALSE
      /\ runs[cur[t]] \in Run
  BY DEF IInv, TypeOK, RunsAreOwned, StageInv
<1>2. /\ new = [row |-> runs[cur[t]].row, result |-> res, told |-> runs[cur[t]].told]
      /\ new \in Run
  BY <1>1 DEF Run
<1>3. /\ runs' \in Seq(Run) /\ DOMAIN runs' = DOMAIN runs
      /\ runs'[cur[t]].result = res
      /\ \A n \in DOMAIN runs : /\ runs'[n].row = runs[n].row
                                /\ runs'[n].told = runs[n].told
                                /\ n # cur[t] => runs'[n] = runs[n]
  BY <1>1, <1>2 DEF Run
<1>4. TypeOK'
  BY <1>3 DEF IInv, TypeOK, tableVars
<1>5. RunsAreOwned'
  BY <1>3 DEF IInv, RunsAreOwned, RowOf, tableVars
<1>6. StageInv'
  BY <1>1, <1>3 DEF IInv, TypeOK, StageInv, RunsAreOwned
<1>7. ListInv'
  BY DEF IInv, ListInv
<1>8. ShownInv'
  BY <1>1, <1>3 DEF IInv, ShownInv, tableVars
<1>9. BesideInv' /\ OlderRunOverlapped'
  BY <1>3 DEF IInv, BesideInv, OlderRunOverlapped, tableVars
<1> QED
  BY <1>4, <1>5, <1>6, <1>7, <1>8, <1>9 DEF IInv

\* Writing a run shows it on its own row.
LEMMA SaveStep ==
  ASSUME IInv, NEW t \in Threads, Save(t)
  PROVE  IInv'
<1>1. /\ cur[t] \in DOMAIN runs /\ runs \in Seq(Run) /\ cur[t] # 0
      /\ runs[cur[t]].result \in {"done", "failed"} /\ RowOf(t) \in Rows
      /\ runs[cur[t]] \in Run
  <2>1. cur[t] \in DOMAIN runs /\ runs \in Seq(Run) /\ cur[t] # 0
    BY DEF IInv, TypeOK, RunsAreOwned, StageInv, Save
  <2>2. runs[cur[t]] \in Run
    BY <2>1
  <2> QED
    BY <2>1, <2>2 DEF IInv, StageInv, Save, RowOf, Run
<1> DEFINE new == [runs[cur[t]] EXCEPT !.told = TRUE]
<1>2. new \in Run
  <2>1. PICK run \in Run : run = runs[cur[t]]
    BY <1>1
  <2>2. new = [run EXCEPT !.told = TRUE]
    BY <2>1
  <2> QED
    BY <2>2 DEF Run
<1>3. /\ runs' \in Seq(Run) /\ DOMAIN runs' = DOMAIN runs
      /\ runs'[cur[t]].told = TRUE
      /\ \A n \in DOMAIN runs : /\ runs'[n].row = runs[n].row
                                /\ runs'[n].result = runs[n].result
                                /\ n # cur[t] => runs'[n] = runs[n]
  BY <1>1, <1>2 DEF Run, Save
<1>4. /\ record' = [record EXCEPT ![RowOf(t)] =
                     [run |-> cur[t], message |-> MessageOf(cur[t])]]
      /\ cur' = [cur EXCEPT ![t] = 0] /\ pc' = [pc EXCEPT ![t] = "looping"]
      /\ UNCHANGED <<state, beside, todo, asked>>
  BY DEF Save
<1>5. TypeOK'
  BY <1>1, <1>3, <1>4 DEF IInv, TypeOK, MessageOf
<1>6. RunsAreOwned'
  BY <1>1, <1>3, <1>4 DEF IInv, TypeOK, RunsAreOwned, RowOf
<1>7. StageInv'
  BY <1>1, <1>3, <1>4 DEF IInv, TypeOK, StageInv, RunsAreOwned
<1>8. ListInv'
  BY <1>4 DEF IInv, ListInv
<1>9. ShownInv'
  <2> SUFFICES ASSUME NEW r \in Rows, record'[r].run # 0
               PROVE  /\ record'[r].run \in DOMAIN runs'
                      /\ runs'[record'[r].run].row = r
                      /\ runs'[record'[r].run].told = TRUE
                      /\ runs'[record'[r].run].result \in {"done", "failed"}
                      /\ record'[r].message = NoMessage <=> runs'[record'[r].run].result = "done"
    BY DEF ShownInv
  <2>1. CASE r = RowOf(t)
    <3>1. record'[r] = [run |-> cur[t], message |-> MessageOf(cur[t])]
      BY <1>4, <2>1 DEF IInv, TypeOK
    <3> QED
      <4>1. record'[r].run = cur[t] /\ record'[r].message = MessageOf(cur[t])
        BY <3>1
      <4>2. runs'[cur[t]].row = r /\ runs'[cur[t]].result = runs[cur[t]].result
        BY <1>1, <1>3, <2>1 DEF RowOf
      <4>3. MessageOf(cur[t]) = NoMessage <=> runs[cur[t]].result = "done"
        BY DEF MessageOf, NoMessage
      <4> QED
        BY <1>1, <1>3, <4>1, <4>2, <4>3
  <2>2. CASE r # RowOf(t)
    <3>1. record'[r] = record[r]
      BY <1>4, <2>2 DEF IInv, TypeOK
    <3>2. record[r].run # cur[t]
      BY <3>1, <2>2, <1>1 DEF IInv, ShownInv, RowOf
    <3> QED
      BY <1>3, <3>1, <3>2 DEF IInv, ShownInv
  <2> QED
    BY <2>1, <2>2
<1>10. BesideInv'
  BY <1>3, <1>4 DEF IInv, TypeOK, BesideInv
<1>11. OlderRunOverlapped'
  <2> SUFFICES ASSUME NEW n \in DOMAIN runs, runs'[n].told, n > record'[runs[n].row].run
               PROVE  record'[runs[n].row].run \in beside[n]
    BY <1>3, <1>4 DEF OlderRunOverlapped
  <2>1. runs[n].row \in Rows
    <3>1. PICK run \in Run : run = runs[n]
      BY <1>1
    <3> QED
      BY <3>1 DEF Run
  <2>2. CASE runs[n].row = RowOf(t)
    <3>1. record'[runs[n].row].run = cur[t]
      BY <1>1, <1>4, <2>2 DEF IInv, TypeOK
    <3> QED
      BY <1>1, <3>1 DEF IInv, BesideInv
  <2>3. CASE runs[n].row # RowOf(t)
    <3>1. record'[runs[n].row] = record[runs[n].row] /\ n # cur[t]
      BY <1>4, <2>1, <2>3 DEF IInv, TypeOK, RowOf
    <3> QED
      BY <1>3, <3>1 DEF IInv, OlderRunOverlapped
  <2> QED
    BY <2>2, <2>3
<1> QED
  BY <1>5, <1>6, <1>7, <1>8, <1>9, <1>10, <1>11 DEF IInv

\* A request that ends or hangs leaves its run as it is.
LEMMA LeaveStep ==
  ASSUME IInv, NEW t \in Threads, NEW p \in {"idle", "hung"}, Leave(t, p)
  PROVE  IInv'
<1>1. TypeOK'
  BY DEF IInv, TypeOK, Leave, tableVars
<1>2. RunsAreOwned' /\ StageInv'
  BY DEF IInv, TypeOK, RunsAreOwned, StageInv, Leave, RowOf
<1>3. ListInv' /\ ShownInv'
  BY DEF IInv, TypeOK, ListInv, ShownInv, Leave, tableVars
<1>4. BesideInv' /\ OlderRunOverlapped'
  BY DEF IInv, TypeOK, BesideInv, OlderRunOverlapped, Leave, tableVars
<1> QED
  BY <1>1, <1>2, <1>3, <1>4 DEF IInv

LEMMA ExecuteStep ==
  ASSUME IInv, NEW t \in Threads, Execute(t)
  PROVE  IInv'
<1>1. PICK id \in Ids : /\ todo' = [todo EXCEPT ![t] = PendingRows(id)]
                        /\ asked' = [asked EXCEPT ![t] = id]
  BY DEF Execute
<1>2. cur[t] = 0
  BY DEF IInv, StageInv, TypeOK, Execute
<1>3. TypeOK'
  BY <1>1 DEF IInv, TypeOK, Execute, tableVars, PendingRows
<1>4. RunsAreOwned' /\ StageInv'
  BY <1>1, <1>2 DEF IInv, TypeOK, RunsAreOwned, StageInv, Execute, RowOf
<1>5. ListInv'
  BY <1>1 DEF IInv, TypeOK, ListInv, PendingRows
<1>6. ShownInv'
  BY DEF IInv, ShownInv, Execute, tableVars
<1>7. BesideInv' /\ OlderRunOverlapped'
  BY DEF IInv, BesideInv, OlderRunOverlapped, Execute, tableVars
<1> QED
  BY <1>3, <1>4, <1>5, <1>6, <1>7 DEF IInv

LEMMA SendNoticeStep ==
  ASSUME IInv, NEW t \in Threads, SendNotice(t)
  PROVE  IInv'
<1>1. TypeOK' /\ ListInv' /\ ShownInv'
  BY DEF IInv, TypeOK, ListInv, ShownInv, SendNotice, tableVars
<1>2. RunsAreOwned' /\ StageInv'
  BY DEF IInv, TypeOK, RunsAreOwned, StageInv, SendNotice, RowOf
<1>3. BesideInv' /\ OlderRunOverlapped'
  BY DEF IInv, BesideInv, OlderRunOverlapped, SendNotice, tableVars
<1> QED
  BY <1>1, <1>2, <1>3 DEF IInv

LEMMA CrashStep == ASSUME IInv, Crash PROVE IInv'
<1>1. TypeOK' /\ ShownInv'
  BY DEF IInv, TypeOK, ShownInv, Crash, tableVars
<1>2. RunsAreOwned' /\ StageInv' /\ ListInv'
  BY DEF RunsAreOwned, StageInv, ListInv, Crash
<1>3. BesideInv' /\ OlderRunOverlapped'
  BY DEF IInv, BesideInv, OlderRunOverlapped, Crash, tableVars
<1> QED
  BY <1>1, <1>2, <1>3 DEF IInv

LEMMA ToggleStep == ASSUME IInv, ChangeTaskState PROVE IInv'
<1>1. TypeOK'
  BY DEF IInv, TypeOK, ChangeTaskState, threadVars
<1>2. RunsAreOwned' /\ StageInv' /\ ListInv' /\ ShownInv'
  BY DEF IInv, RunsAreOwned, StageInv, ListInv, ShownInv, RowOf,
         ChangeTaskState, threadVars
<1>3. BesideInv' /\ OlderRunOverlapped'
  BY DEF IInv, BesideInv, OlderRunOverlapped, ChangeTaskState, threadVars
<1> QED
  BY <1>1, <1>2, <1>3 DEF IInv

LEMMA StutterStep == ASSUME IInv, UNCHANGED vars PROVE IInv'
<1>1. TypeOK' /\ RunsAreOwned' /\ StageInv' /\ ListInv' /\ ShownInv'
  BY DEF IInv, TypeOK, RunsAreOwned, StageInv, ListInv, ShownInv, RowOf,
         vars, tableVars, threadVars
<1>2. BesideInv' /\ OlderRunOverlapped'
  BY DEF IInv, BesideInv, OlderRunOverlapped, vars, tableVars, threadVars
<1> QED
  BY <1>1, <1>2 DEF IInv

LEMMA NextIInv == IInv /\ [Next]_vars => IInv'
<1> SUFFICES ASSUME IInv, [Next]_vars PROVE IInv'
  OBVIOUS
<1>1. CASE ChangeTaskState
  BY <1>1, ToggleStep
<1>2. CASE Crash
  BY <1>2, CrashStep
<1>3. CASE \E t \in Threads : Request(t)
  <2>1. PICK t \in Threads : Request(t)
    BY <1>3
  <2>2. CASE Execute(t)
    BY <2>2, ExecuteStep
  <2>3. CASE StartRun(t)
    BY <2>3, StartRunStep
  <2>4. CASE BodyDone(t)
    BY <2>4, ResultStep DEF BodyDone
  <2>5. CASE BodyFails(t)
    BY <2>5, ResultStep DEF BodyFails
  <2>6. CASE SendNotice(t)
    BY <2>6, SendNoticeStep
  <2>7. CASE Save(t)
    BY <2>7, SaveStep
  <2>8. CASE EndRequest(t) \/ Escape(t)
    <3>1. Leave(t, "idle")
      BY <2>8 DEF EndRequest, Escape
    <3> QED
      BY <3>1, LeaveStep
  <2>9. CASE Hang(t)
    BY <2>9, LeaveStep DEF Hang
  <2> QED
    BY <2>1, <2>2, <2>3, <2>4, <2>5, <2>6, <2>7, <2>8, <2>9 DEF Request
<1>4. CASE UNCHANGED vars
  BY <1>4, StutterStep
<1> QED
  BY <1>1, <1>2, <1>3, <1>4 DEF Next

LEMMA IInvAlways == Spec => []IInv
BY InitIInv, NextIInv, PTL DEF Spec

\* Every variable of the table and of the requests keeps its type.
THEOREM TypeCorrect == Spec => []TypeOK
<1>1. IInv => TypeOK
  BY DEF IInv
<1> QED
  BY <1>1, IInvAlways, PTL

\* Runs of a row that follow one another are shown in order: an older run only
\* stays in the place of a newer one that began beside it.
THEOREM OlderRunOverlappedAlways == Spec => []OlderRunOverlapped
<1>1. IInv => OlderRunOverlapped
  BY DEF IInv
<1> QED
  BY <1>1, IInvAlways, PTL

\* The message a row shows is that of the run whose times it shows.
THEOREM SuccessShownIsRealAlways == Spec => []SuccessShownIsReal
<1>1. IInv => SuccessShownIsReal
  BY DEF IInv, ShownInv, SuccessShownIsReal
<1> QED
  BY <1>1, IInvAlways, PTL

-----------------------------------------------------------------------------
(***************************************************************************)
(* The table implements the board: toggling a row, starting a run, its     *)
(* body's end and the update are the board's four actions, every other     *)
(* step of a request, and a crash, leaves the board alone.                 *)
(***************************************************************************)
\* What is not written to the table and starts or ends no run is a stutter.
LEMMA Stutters ==
  ASSUME UNCHANGED <<state, record, runs>>
  PROVE  UNCHANGED Board!boardVars
BY DEF Board!boardVars, ResultOf

LEMMA ToggleImplemented ==
  ASSUME ChangeTaskState PROVE Board!Toggle
<1>1. UNCHANGED <<record, runs>>
  BY DEF ChangeTaskState
<1>2. {r \in Rows : state'[r] = Pending} \in SUBSET Rows
  OBVIOUS
<1> QED
  BY <1>1, <1>2 DEF Board!Toggle, ResultOf

LEMMA StartImplemented ==
  ASSUME IInv, NEW t \in Threads, StartRun(t) PROVE Board!Start
<1>1. PICK r \in todo[t] :
        runs' = Append(runs, [row |-> r, result |-> "running", told |-> FALSE])
  BY DEF StartRun
<1>2. r \in Rows
  BY DEF IInv, TypeOK
<1>3. UNCHANGED <<state, record>>
  BY DEF StartRun, tableVars
<1> QED
  BY <1>1, <1>2, <1>3 DEF Board!Start, ResultOf

LEMMA FinishImplemented ==
  ASSUME IInv, NEW t \in Threads, BodyDone(t) \/ BodyFails(t)
  PROVE  Board!Finish
<1>1. PICK res \in {"done", "failed"} :
        runs' = [runs EXCEPT ![cur[t]].result = res]
  BY DEF BodyDone, BodyFails
<1>2. cur[t] \in DOMAIN runs /\ runs[cur[t]].result = "running"
  BY DEF IInv, StageInv, RunsAreOwned, BodyDone, BodyFails
<1>3. UNCHANGED <<state, record>>
  BY DEF BodyDone, BodyFails, tableVars
<1> QED
  BY <1>1, <1>2, <1>3 DEF Board!Finish, Board!Results, ResultOf

LEMMA TellImplemented ==
  ASSUME IInv, NEW t \in Threads, Save(t) PROVE Board!Tell
<1> DEFINE onBoard == [r \in Rows |-> [run |-> record[r].run, result |-> ResultOf(r)]]
<1>1. /\ cur[t] \in DOMAIN runs /\ cur[t] # 0 /\ runs[cur[t]] \in Run
      /\ runs[cur[t]].told = FALSE
  BY DEF IInv, TypeOK, StageInv, RunsAreOwned, Save
<1>2. runs[cur[t]].result \in {"done", "failed"} /\ RowOf(t) \in Rows
  BY <1>1 DEF IInv, StageInv, Save, RowOf, Run
<1>3. /\ runs' = [runs EXCEPT ![cur[t]].told = TRUE]
      /\ UNCHANGED state
      /\ record' = [record EXCEPT ![RowOf(t)] =
                     [run |-> cur[t], message |-> MessageOf(cur[t])]]
  BY DEF Save
<1>4. PICK row \in Rows : row = RowOf(t)
  BY <1>2
<1>5. onBoard' = [onBoard EXCEPT ![row] =
                  [run |-> cur[t], result |-> runs[cur[t]].result]]
  <2>1. ASSUME NEW r \in Rows, r # row
        PROVE  record'[r] = record[r] /\ ResultOf(r)' = ResultOf(r)
    BY <1>3, <1>4, <2>1 DEF IInv, TypeOK, ResultOf
  <2>2. record'[row].run = cur[t] /\ record'[row].message = MessageOf(cur[t])
    BY <1>3, <1>4 DEF IInv, TypeOK
  <2>3. ResultOf(row)' = runs[cur[t]].result
    <3>1. ResultOf(row)' = IF MessageOf(cur[t]) = NoMessage THEN "done" ELSE "failed"
      BY <1>1, <2>2 DEF ResultOf
    <3> QED
      BY <1>2, <3>1 DEF MessageOf, NoMessage
  <2> QED
    BY <2>1, <2>2, <2>3
<1> QED
  BY <1>1, <1>2, <1>3, <1>4, <1>5 DEF Board!Tell, Board!Results, RowOf

LEMMA StepImplemented == IInv /\ [Next]_vars => [Board!BoardNext]_(Board!boardVars)
<1> SUFFICES ASSUME IInv, [Next]_vars PROVE [Board!BoardNext]_(Board!boardVars)
  OBVIOUS
<1>1. CASE ChangeTaskState
  BY <1>1, ToggleImplemented DEF Board!BoardNext
<1>2. CASE Crash
  BY <1>2, Stutters DEF Crash, tableVars
<1>3. CASE \E t \in Threads : Request(t)
  <2>1. PICK t \in Threads : Request(t)
    BY <1>3
  <2>2. CASE StartRun(t)
    BY <2>2, StartImplemented DEF Board!BoardNext
  <2>3. CASE BodyDone(t) \/ BodyFails(t)
    BY <2>3, FinishImplemented DEF Board!BoardNext
  <2>4. CASE Save(t)
    BY <2>4, TellImplemented DEF Board!BoardNext
  <2>5. CASE Execute(t) \/ SendNotice(t) \/ EndRequest(t) \/ Escape(t) \/ Hang(t)
    BY <2>5, Stutters DEF Execute, SendNotice, EndRequest, Escape, Hang, Leave, tableVars
  <2> QED
    BY <2>1, <2>2, <2>3, <2>4, <2>5 DEF Request
<1>4. CASE UNCHANGED vars
  BY <1>4, Stutters DEF vars, tableVars
<1> QED
  BY <1>1, <1>2, <1>3, <1>4 DEF Next

LEMMA InitImplemented == Init => Board!BoardInit
BY DEF Init, Board!BoardInit, Board!NoRun, NoRecord, ResultOf

\* The table execute_info, written by any number of overlapping requests that
\* may be killed anywhere, is the operator's board.
THEOREM Implementation == Spec => ImplementsBoard
<1> QED
  BY InitImplemented, StepImplemented, IInvAlways, PTL
  DEF Spec, ImplementsBoard, Board!BoardSpec

=============================================================================
