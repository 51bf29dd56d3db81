------------------------- MODULE VolumeStrategyProofs -------------------------
(***************************************************************************)
(* Proofs about VolumeStrategy, for every set of threads and stocks, every *)
(* bound, either listing order and any number of failures.                 *)
(***************************************************************************)
EXTENDS VolumeStrategy, SequenceTheorems, FiniteSetTheorems, WellFoundedInduction, TLAPS

\* A set of requests does not name one follow-up twice.
UniqueKeys(requests) ==
  \A q, r \in requests :
    q.tradeCode = r.tradeCode /\ q.tradeType = r.tradeType => q = r

\* Order o is the one request r asked for.
Answers(o, r) == /\ o.tradeCode = r.tradeCode /\ o.mmlb = r.tradeType
                 /\ o.zqdm = r.stockCode /\ o.wtsl = r.amount

\* Every deal is one of an order in the book.
BookInv == \A i \in DOMAIN deals : deals[i].wtbh \in DOMAIN order

\* A thread about to save holds the code of an order in the book.
SavingInv == \A t \in Threads : pc[t] = "saving" => holding[t] \in DOMAIN order

TypeInv == TypeOK /\ BookInv /\ SavingInv

\* A tick holds one entry at most for a code, and one request for a follow-up.
UniqueInv ==
  \A t \in Threads :
    /\ \A c, d \in dealList[t] : c.cjbh = d.cjbh => c = d
    /\ UniqueKeys(toSubmit[t])

\* The code a thread holds is that of its own order for the request it is at,
\* and that order has no row; only a thread about to save holds a code.
HoldingInv ==
  \A t \in Threads :
    /\ pc[t] # "saving" => holding[t] = NoEntrust
    /\ pc[t] = "saving" =>
         /\ order[holding[t]].placedBy = t
         /\ ~ Saved(holding[t])
         /\ \E r \in toSubmit[t] : FirstSubmit(t, r) /\ Answers(order[holding[t]], r)

\* A tick never has a request pending for which its thread saved a row.
PendingInv ==
  \A t \in Threads, e \in DOMAIN order :
    order[e].placedBy = t /\ Saved(e) =>
      \A r \in toSubmit[t] :
        ~ (r.tradeCode = order[e].tradeCode /\ r.tradeType = order[e].mmlb)

\* A thread saved at most one row for a follow-up.
OneRowInv ==
  \A e, f \in DOMAIN order :
    /\ ByRobot(e) /\ order[e].placedBy = order[f].placedBy
    /\ order[e].tradeCode = order[f].tradeCode
    /\ order[e].mmlb = order[f].mmlb
    /\ Saved(e) /\ Saved(f)
    => e = f

IInv == /\ TypeInv /\ RowsBacked /\ UniqueInv /\ HoldingInv
        /\ PendingInv /\ OneRowInv

-----------------------------------------------------------------------------
LEMMA MergedTyped ==
  ASSUME TypeOK, NEW i \in DOMAIN deals,
         Dealt(deals[i].wtbh) = order[deals[i].wtbh].wtsl,
         deals[i].wtbh \in DOMAIN order
  PROVE  Merged(i) \in MergedDeal
<1>1. deals[i] \in Deal /\ i \in Nat
  BY DEF TypeOK
<1>2. order[deals[i].wtbh] \in Order
  BY <1>1 DEF TypeOK
<1> QED
  BY <1>1, <1>2 DEF Merged, MergedDeal, Deal, Order

LEMMA NeedSubmitTyped ==
  ASSUME NEW rows, NEW d \in MergedDeal
  PROVE  NeedSubmit(rows, d) \subseteq SubmitRequest
<1>1. \A side \in Sides : Request(d, side) \in SubmitRequest
  BY DEF Request, SubmitRequest, MergedDeal
<1> QED
  BY <1>1 DEF NeedSubmit, FollowUpSides, Sides

LEMMA SiblingsTyped ==
  ASSUME NEW rows \in SUBSET TradeOrder, NEW e
  PROVE  Siblings(rows, e) \subseteq Entrusts
BY DEF Siblings, TradeOrder

LEMMA RevokeListsTyped ==
  ASSUME NEW rows \in SUBSET TradeOrder, NEW ds \in SUBSET MergedDeal,
         NEW rs \in RevokeLists(rows, ds)
  PROVE  rs \subseteq RevokeRequest
<1>1. \A d \in ds : [tradeCode: {d.cjbh}, entrustCode: Siblings(rows, d.wtbh)]
                       \subseteq RevokeRequest
  <2> SUFFICES ASSUME NEW d \in ds
               PROVE  [tradeCode: {d.cjbh}, entrustCode: Siblings(rows, d.wtbh)]
                        \subseteq RevokeRequest
    OBVIOUS
  <2>1. d.cjbh \in Nat
    BY DEF MergedDeal
  <2> QED
    BY <2>1, SiblingsTyped DEF RevokeRequest
<1>2. rs \subseteq UNION {[tradeCode: {d.cjbh}, entrustCode: Siblings(rows, d.wtbh)] :
                            d \in {d \in ds : Handled(rows, d)}}
  BY DEF RevokeLists
<1> QED
  BY <1>1, <1>2

LEMMA AcceptTyped ==
  ASSUME TypeOK, NEW o \in Order, Accept(o)
  PROVE  /\ order' \in Seq(Order) /\ Len(order') <= MaxOrders
         /\ Len(order') = Len(order) + 1 /\ Len(order') \in Entrusts
         /\ DOMAIN order \subseteq DOMAIN order'
         /\ DOMAIN order' = DOMAIN order \cup {Len(order')}
         /\ order'[Len(order')] = o
         /\ \A e \in DOMAIN order : order'[e] = order[e]
BY BoundsAssumption DEF TypeOK, Accept, Entrusts

\* A revoke changes nothing of an order but whether it is live.
LEMMA RevokeKeepsOrders ==
  ASSUME TypeOK, NEW t \in Threads, Revoke(t)
  PROVE  /\ order' \in Seq(Order) /\ Len(order') = Len(order)
         /\ DOMAIN order' = DOMAIN order
         /\ \A e \in DOMAIN order :
              /\ order'[e].zqdm = order[e].zqdm /\ order'[e].mmlb = order[e].mmlb
              /\ order'[e].wtsl = order[e].wtsl
              /\ order'[e].placedBy = order[e].placedBy
              /\ order'[e].tradeCode = order[e].tradeCode
<1>1. PICK r \in toRevoke[t], honoured \in BOOLEAN :
        order' = [order EXCEPT ![r.entrustCode].live = @ /\ ~ honoured]
  BY DEF Revoke
<1>2. \A e \in DOMAIN order : order[e] \in Order
  BY DEF TypeOK
<1>3. \A e \in DOMAIN order :
        /\ order'[e] \in Order
        /\ order'[e].zqdm = order[e].zqdm /\ order'[e].mmlb = order[e].mmlb
        /\ order'[e].wtsl = order[e].wtsl
        /\ order'[e].placedBy = order[e].placedBy
        /\ order'[e].tradeCode = order[e].tradeCode
  BY <1>1, <1>2 DEF Order
<1>4. DOMAIN order' = DOMAIN order
  BY <1>1
<1>5. order' \in [1 .. Len(order) -> Order]
  <2>1. order \in [1 .. Len(order) -> Order] /\ DOMAIN order = 1 .. Len(order)
    BY DEF TypeOK
  <2>2. order' = [e \in DOMAIN order |-> order'[e]]
    BY <1>1
  <2> QED
    BY <1>3, <2>1, <2>2
<1>6. order' \in Seq(Order) /\ Len(order') = Len(order)
  BY <1>5, SeqDef DEF TypeOK
<1> QED
  BY <1>3, <1>4, <1>6

-----------------------------------------------------------------------------

LEMMA TypeInit == Init => TypeInv
<1> SUFFICES ASSUME Init PROVE TypeInv
  OBVIOUS
<1> QED
  BY BoundsAssumption DEF Init, TypeInv, TypeOK, BookInv, SavingInv

LEMMA TypeNext == TypeInv /\ [Next]_vars => TypeInv'
<1> SUFFICES ASSUME TypeInv, [Next]_vars PROVE TypeInv'
  OBVIOUS
<1> USE DEF TypeInv
<1>1. CASE PlaceManually
  <2>1. PICK s \in Stocks, side \in Sides, v \in Volumes :
          Accept([zqdm |-> s, mmlb |-> side, wtsl |-> v, live |-> TRUE,
                  placedBy |-> User, tradeCode |-> 0])
    BY <1>1 DEF PlaceManually
  <2>2. [zqdm |-> s, mmlb |-> side, wtsl |-> v, live |-> TRUE,
         placedBy |-> User, tradeCode |-> 0] \in Order
    BY VolumesAssumption DEF Order
  <2>3. /\ order' \in Seq(Order) /\ Len(order') <= MaxOrders
        /\ DOMAIN order \subseteq DOMAIN order'
    BY <2>1, <2>2, AcceptTyped
  <2> QED
    BY <1>1, <2>3 DEF PlaceManually, threadVars, TypeOK, BookInv, SavingInv
<1>2. CASE Fill
  <2>1. PICK e \in DOMAIN order : \E v \in 1 .. order[e].wtsl - Dealt(e) :
          deals' = Append(deals, [wtbh |-> e, cjsl |-> v])
    BY <1>2 DEF Fill
  <2>2. PICK v \in 1 .. order[e].wtsl - Dealt(e) :
          deals' = Append(deals, [wtbh |-> e, cjsl |-> v])
    BY <2>1
  <2>3. v \in Nat /\ e \in Entrusts
    BY BoundsAssumption DEF TypeOK, Entrusts
  <2>4. [wtbh |-> e, cjsl |-> v] \in Deal
    BY <2>3 DEF Deal
  <2>5. deals' \in Seq(Deal)
    BY <2>2, <2>4 DEF TypeOK
  <2>6. BookInv'
    BY <1>2, <2>2, <2>4 DEF TypeOK, BookInv, SavingInv, Fill, Deal
  <2> QED
    BY <1>2, <2>5, <2>6 DEF Fill, threadVars, TypeOK, SavingInv
<1>3. CASE Crash
  BY <1>3 DEF Crash, brokerVars, TypeOK, BookInv, SavingInv
<1>4. ASSUME NEW t \in Threads, QueryDeals(t) PROVE TypeInv'
  <2>1. MergeDealList \subseteq MergedDeal
    BY MergedTyped DEF MergeDealList, BookInv
  <2> QED
    BY <1>4, <2>1 DEF QueryDeals, brokerVars, TypeOK, BookInv, SavingInv
<1>5. ASSUME NEW t \in Threads, Plan(t) PROVE TypeInv'
  <2>1. PICK found \in SUBSET Stocks :
          LET ds == {d \in dealList[t] : d.zqdm \in found}
          IN  /\ toSubmit' = [toSubmit EXCEPT ![t] =
                                UNION {NeedSubmit(tradeOrder, d) : d \in ds}]
              /\ \E rs \in RevokeLists(tradeOrder, ds) :
                   toRevoke' = [toRevoke EXCEPT ![t] = rs]
    BY <1>5 DEF Plan
  <2> DEFINE ds == {d \in dealList[t] : d.zqdm \in found}
  <2>2. ds \in SUBSET MergedDeal /\ tradeOrder \in SUBSET TradeOrder
    BY DEF TypeOK
  <2>3. UNION {NeedSubmit(tradeOrder, d) : d \in ds} \subseteq SubmitRequest
    BY <2>2, NeedSubmitTyped
  <2>4. PICK rs \in RevokeLists(tradeOrder, ds) : toRevoke' = [toRevoke EXCEPT ![t] = rs]
    BY <2>1
  <2>5. rs \subseteq RevokeRequest
    BY <2>2, <2>4, RevokeListsTyped
  <2>6. toSubmit' \in [Threads -> SUBSET SubmitRequest]
    BY <2>1, <2>3 DEF TypeOK
  <2>7. toRevoke' \in [Threads -> SUBSET RevokeRequest]
    BY <2>4, <2>5 DEF TypeOK
  <2> QED
    BY <1>5, <2>6, <2>7 DEF Plan, brokerVars, TypeOK, BookInv, SavingInv
<1>6. ASSUME NEW t \in Threads, Revoke(t) PROVE TypeInv'
  <2>1. order' \in Seq(Order) /\ Len(order') = Len(order) /\ DOMAIN order' = DOMAIN order
    BY <1>6, RevokeKeepsOrders
  <2>2. asked' \subseteq Entrusts /\ toRevoke' \in [Threads -> SUBSET RevokeRequest]
    BY <1>6 DEF Revoke, TypeOK, RevokeRequest
  <2> QED
    BY <1>6, <2>1, <2>2 DEF Revoke, TypeOK, BookInv, SavingInv
<1>7. ASSUME NEW t \in Threads, SubmitAccepted(t) PROVE TypeInv'
  <2>1. PICK r \in toSubmit[t] :
          /\ Accept([zqdm |-> r.stockCode, mmlb |-> r.tradeType,
                     wtsl |-> r.amount, live |-> TRUE,
                     placedBy |-> t, tradeCode |-> r.tradeCode])
          /\ holding' = [holding EXCEPT ![t] = Len(order')]
    BY <1>7 DEF SubmitAccepted
  <2>2. [zqdm |-> r.stockCode, mmlb |-> r.tradeType, wtsl |-> r.amount, live |-> TRUE,
         placedBy |-> t, tradeCode |-> r.tradeCode] \in Order
    BY DEF Order, TypeOK, SubmitRequest
  <2>3. /\ order' \in Seq(Order) /\ Len(order') <= MaxOrders
        /\ DOMAIN order \subseteq DOMAIN order' /\ Len(order') \in Entrusts
        /\ Len(order') \in DOMAIN order'
    BY <2>1, <2>2, AcceptTyped
  <2> QED
    BY <1>7, <2>1, <2>3 DEF SubmitAccepted, TypeOK, BookInv, SavingInv
<1>8. ASSUME NEW t \in Threads, SubmitRejected(t) PROVE TypeInv'
  BY <1>8 DEF SubmitRejected, brokerVars, TypeOK, BookInv, SavingInv
<1>9. ASSUME NEW t \in Threads, SaveTradeOrder(t) PROVE TypeInv'
  <2>1. PICK r \in toSubmit[t] :
          /\ tradeOrder' = tradeOrder \cup {Row(r, holding[t])}
          /\ toSubmit' = [toSubmit EXCEPT ![t] = @ \ {r}]
    BY <1>9 DEF SaveTradeOrder
  <2>2. Row(r, holding[t]) \in TradeOrder
    <3>1. holding[t] \in Entrusts
      BY <1>9, BoundsAssumption DEF SaveTradeOrder, SavingInv, TypeOK, Entrusts
    <3> QED
      BY <3>1 DEF Row, TradeOrder, TypeOK, SubmitRequest
  <2> QED
    BY <1>9, <2>1, <2>2 DEF SaveTradeOrder, brokerVars, TypeOK, BookInv, SavingInv
<1>10. ASSUME NEW t \in Threads, NEW p \in {"idle", "hung"}, Leave(t, p) PROVE TypeInv'
  BY <1>10 DEF Leave, brokerVars, TypeOK, BookInv, SavingInv
<1>11. CASE UNCHANGED vars
  BY <1>11 DEF vars, brokerVars, threadVars, TypeOK, BookInv, SavingInv
<1> QED
  BY <1>1, <1>2, <1>3, <1>4, <1>5, <1>6, <1>7, <1>8, <1>9, <1>10, <1>11
     DEF Next, Tick, EndTick, AbortTick, HangTick

\* The variables keep their types under every behaviour of the robot, its
\* threads and the broker.
THEOREM TypeCorrect == Spec => []TypeOK
<1>1. TypeInv => TypeOK
  BY DEF TypeInv
<1> QED
  BY <1>1, TypeInit, TypeNext, PTL DEF Spec
-----------------------------------------------------------------------------
\* The request a tick is at is one.
LEMMA FirstSubmitUnique ==
  ASSUME TypeOK, UniqueInv, NEW t \in Threads, NEW r, NEW q,
         FirstSubmit(t, r), FirstSubmit(t, q)
  PROVE  r = q
<1>1. r \in SubmitRequest /\ q \in SubmitRequest
  BY DEF TypeOK, FirstSubmit
<1>2. r.tradeCode = q.tradeCode
  BY <1>1, FlagsAssumption DEF FirstSubmit, ListedBefore, SubmitRequest
<1>3. r.tradeType = q.tradeType
  BY <1>1, <1>2 DEF FirstSubmit, SubmitRequest, Sides
<1> QED
  BY <1>2, <1>3 DEF UniqueInv, UniqueKeys, FirstSubmit

\* An order enters the book: no row names it, the rest is as before.
LEMMA AcceptKeeps ==
  ASSUME IInv, NEW o \in Order, Accept(o), tradeOrder' = tradeOrder
  PROVE  /\ RowsBacked' /\ OneRowInv'
         /\ \A r \in tradeOrder' : r.entrustCode # Len(order')
         /\ \A e \in DOMAIN order' : Saved(e)' => Saved(e) /\ e \in DOMAIN order
         /\ \A e \in DOMAIN order : order'[e] = order[e] /\ e # Len(order')
<1>1. /\ DOMAIN order' = DOMAIN order \cup {Len(order')}
      /\ \A e \in DOMAIN order : order'[e] = order[e]
  BY AcceptTyped DEF IInv, TypeInv
<1>2. Len(order') \notin DOMAIN order
  BY AcceptTyped DEF IInv, TypeInv, TypeOK
<1>3. \A r \in tradeOrder : r.entrustCode \in DOMAIN order
  BY DEF IInv, RowsBacked
<1>4. \A e \in DOMAIN order' : Saved(e)' => Saved(e) /\ e \in DOMAIN order
  BY <1>3 DEF Saved
<1>5. \A r \in tradeOrder' : r.entrustCode # Len(order')
  BY <1>2, <1>3
<1>6. RowsBacked'
  BY <1>1, <1>3 DEF IInv, RowsBacked
<1>7. OneRowInv'
  BY <1>1, <1>4 DEF IInv, OneRowInv, ByRobot
<1> QED
  BY <1>1, <1>2, <1>4, <1>5, <1>6, <1>7

\* Nothing the safety properties speak of changes.
LEMMA SameBook ==
  ASSUME IInv, tradeOrder' = tradeOrder, DOMAIN order' = DOMAIN order,
         \A e \in DOMAIN order :
           /\ order'[e].zqdm = order[e].zqdm /\ order'[e].mmlb = order[e].mmlb
           /\ order'[e].wtsl = order[e].wtsl
           /\ order'[e].placedBy = order[e].placedBy
           /\ order'[e].tradeCode = order[e].tradeCode
  PROVE  RowsBacked' /\ OneRowInv'
<1>1. RowsBacked'
  BY DEF IInv, RowsBacked
<1>2. OneRowInv'
  BY DEF IInv, OneRowInv, ByRobot, Saved
<1> QED
  BY <1>1, <1>2

\* The requests a tick plans name each follow-up once, and none with a row.
LEMMA PlanUnique ==
  ASSUME NEW rows, NEW ds,
         \A c, d \in ds : c.cjbh = d.cjbh => c = d
  PROVE  /\ UniqueKeys(UNION {NeedSubmit(rows, d) : d \in ds})
         /\ \A q \in UNION {NeedSubmit(rows, d) : d \in ds}, r \in rows :
              ~ (r.tradeCode = q.tradeCode /\ r.tradeType = q.tradeType)
<1>1. \A d : \A q \in NeedSubmit(rows, d) :
        /\ q = Request(d, q.tradeType)
        /\ q.tradeCode = d.cjbh
        /\ \A r \in rows : ~ (r.tradeCode = q.tradeCode /\ r.tradeType = q.tradeType)
  BY DEF NeedSubmit, Request
<1>2. ASSUME NEW q \in UNION {NeedSubmit(rows, d) : d \in ds},
             NEW r \in UNION {NeedSubmit(rows, d) : d \in ds},
             q.tradeCode = r.tradeCode, q.tradeType = r.tradeType
      PROVE  q = r
  <2>1. PICK c \in ds : q \in NeedSubmit(rows, c)
    OBVIOUS
  <2>2. PICK d \in ds : r \in NeedSubmit(rows, d)
    OBVIOUS
  <2>3. c = d
    BY <1>1, <1>2, <2>1, <2>2
  <2> QED
    BY <1>1, <1>2, <2>1, <2>2, <2>3
<1> QED
  BY <1>1, <1>2 DEF UniqueKeys

LEMMA SafetyInit == Init => IInv
<1> SUFFICES ASSUME Init PROVE IInv
  OBVIOUS
<1>1. DOMAIN order = {}
  BY DEF Init
<1> QED
  BY <1>1, TypeInit DEF Init, IInv, RowsBacked, UniqueInv, UniqueKeys, HoldingInv,
                        PendingInv, OneRowInv

LEMMA SafetyNext == IInv /\ [Next]_vars => IInv'
<1> SUFFICES ASSUME IInv, [Next]_vars PROVE IInv'
  OBVIOUS
<1>0. TypeInv /\ TypeOK /\ TypeInv'
  BY TypeNext DEF IInv, TypeInv
<1>1. CASE PlaceManually
  <2>1. PICK o \in Order : Accept(o) /\ o.placedBy = User
    <3>1. PICK s \in Stocks, side \in Sides, v \in Volumes :
            Accept([zqdm |-> s, mmlb |-> side, wtsl |-> v, live |-> TRUE,
                    placedBy |-> User, tradeCode |-> 0])
      BY <1>1 DEF PlaceManually
    <3>2. [zqdm |-> s, mmlb |-> side, wtsl |-> v, live |-> TRUE,
           placedBy |-> User, tradeCode |-> 0] \in Order
      BY VolumesAssumption DEF Order
    <3> QED
      BY <3>1, <3>2
  <2>2. /\ RowsBacked' /\ OneRowInv'
        /\ \A r \in tradeOrder' : r.entrustCode # Len(order')
        /\ \A e \in DOMAIN order' : Saved(e)' => Saved(e) /\ e \in DOMAIN order
        /\ \A e \in DOMAIN order : order'[e] = order[e]
    BY <1>1, <2>1, AcceptKeeps DEF PlaceManually
  <2>3. UniqueInv'
    BY <1>1 DEF PlaceManually, threadVars, IInv, UniqueInv, UniqueKeys
  <2>4. HoldingInv'
    BY <1>0, <1>1, <2>2 DEF PlaceManually, threadVars, IInv, HoldingInv, TypeInv, SavingInv,
                            Saved, FirstSubmit, Answers
  <2>5. PendingInv'
    BY <1>1, <2>2 DEF PlaceManually, threadVars, IInv, PendingInv
  <2> QED
    BY <1>0, <2>2, <2>3, <2>4, <2>5 DEF IInv
<1>2. CASE Fill
  <2>1. UNCHANGED <<order, tradeOrder, threadVars>>
    BY <1>2 DEF Fill
  <2> QED
    BY <1>0, <2>1 DEF threadVars, IInv, RowsBacked, UniqueInv, UniqueKeys, HoldingInv,
                      PendingInv, OneRowInv, Saved, ByRobot, FirstSubmit, Answers
<1>3. CASE Crash
  <2>1. RowsBacked' /\ OneRowInv'
    BY <1>3, SameBook DEF Crash, brokerVars
  <2>2. UniqueInv' /\ HoldingInv' /\ PendingInv'
    BY <1>3 DEF Crash, UniqueInv, UniqueKeys, HoldingInv, PendingInv
  <2> QED
    BY <1>0, <2>1, <2>2 DEF IInv
<1>4. ASSUME NEW t \in Threads, QueryDeals(t) PROVE IInv'
  <2>1. RowsBacked' /\ OneRowInv'
    BY <1>4, SameBook DEF QueryDeals, brokerVars
  <2>2. \A c, d \in MergeDealList : c.cjbh = d.cjbh => c = d
    BY DEF MergeDealList, Merged
  <2>3. UniqueInv'
    BY <1>0, <1>4, <2>2 DEF QueryDeals, IInv, UniqueInv, UniqueKeys, TypeOK
  <2>4. HoldingInv'
    BY <1>0, <1>4 DEF QueryDeals, brokerVars, IInv, HoldingInv, TypeOK, Saved,
                      FirstSubmit, Answers
  <2>5. PendingInv'
    BY <1>4 DEF QueryDeals, brokerVars, IInv, PendingInv, Saved
  <2> QED
    BY <1>0, <2>1, <2>3, <2>4, <2>5 DEF IInv
<1>5. ASSUME NEW t \in Threads, Plan(t) PROVE IInv'
  <2>1. PICK found \in SUBSET Stocks :
          toSubmit' = [toSubmit EXCEPT ![t] =
            UNION {NeedSubmit(tradeOrder, d) : d \in {d \in dealList[t] : d.zqdm \in found}}]
    BY <1>5 DEF Plan
  <2> DEFINE ds == {d \in dealList[t] : d.zqdm \in found}
             planned == UNION {NeedSubmit(tradeOrder, d) : d \in ds}
  <2>2. \A c, d \in ds : c.cjbh = d.cjbh => c = d
    BY DEF IInv, UniqueInv
  <2>3. /\ UniqueKeys(planned)
        /\ \A q \in planned, r \in tradeOrder :
             ~ (r.tradeCode = q.tradeCode /\ r.tradeType = q.tradeType)
    BY <2>2, PlanUnique
  <2>4. toSubmit'[t] = planned /\ \A u \in Threads \ {t} : toSubmit'[u] = toSubmit[u]
    BY <1>0, <2>1 DEF TypeOK
  <2> HIDE DEF planned
  <2>5. RowsBacked' /\ OneRowInv'
    BY <1>5, SameBook DEF Plan, brokerVars
  <2>6. UniqueInv'
    BY <1>0, <1>5, <2>3, <2>4 DEF Plan, IInv, UniqueInv, UniqueKeys, TypeOK
  <2>7. HoldingInv'
    BY <1>0, <1>5, <2>4 DEF Plan, brokerVars, IInv, HoldingInv, TypeOK, Saved,
                            FirstSubmit, Answers
  <2>8. PendingInv'
    <3>1. \A e \in DOMAIN order : Saved(e) =>
            \E r \in tradeOrder : /\ r.tradeCode = order[e].tradeCode
                                 /\ r.tradeType = order[e].mmlb
      BY DEF IInv, RowsBacked, Saved
    <3> QED
      BY <1>5, <2>3, <2>4, <3>1 DEF Plan, brokerVars, IInv, PendingInv, Saved
  <2> QED
    BY <1>0, <2>5, <2>6, <2>7, <2>8 DEF IInv
<1>6. ASSUME NEW t \in Threads, Revoke(t) PROVE IInv'
  <2>1. /\ DOMAIN order' = DOMAIN order
        /\ \A e \in DOMAIN order :
             /\ order'[e].zqdm = order[e].zqdm /\ order'[e].mmlb = order[e].mmlb
             /\ order'[e].wtsl = order[e].wtsl
             /\ order'[e].placedBy = order[e].placedBy
             /\ order'[e].tradeCode = order[e].tradeCode
    BY <1>0, <1>6, RevokeKeepsOrders
  <2>2. UNCHANGED <<tradeOrder, pc, dealList, toSubmit, holding>>
    BY <1>6 DEF Revoke
  <2>3. RowsBacked' /\ OneRowInv'
    BY <2>1, <2>2, SameBook
  <2>4. UniqueInv'
    BY <2>2 DEF IInv, UniqueInv, UniqueKeys
  <2>5. HoldingInv'
    BY <1>0, <2>1, <2>2 DEF IInv, HoldingInv, TypeInv, SavingInv, Saved, FirstSubmit, Answers
  <2>6. PendingInv'
    BY <2>1, <2>2 DEF IInv, PendingInv, Saved
  <2> QED
    BY <1>0, <2>3, <2>4, <2>5, <2>6 DEF IInv
<1>7. ASSUME NEW t \in Threads, SubmitAccepted(t) PROVE IInv'
  <2>1. PICK r \in toSubmit[t] :
          /\ FirstSubmit(t, r)
          /\ Accept([zqdm |-> r.stockCode, mmlb |-> r.tradeType,
                     wtsl |-> r.amount, live |-> TRUE,
                     placedBy |-> t, tradeCode |-> r.tradeCode])
          /\ holding' = [holding EXCEPT ![t] = Len(order')]
    BY <1>7 DEF SubmitAccepted
  <2> DEFINE o == [zqdm |-> r.stockCode, mmlb |-> r.tradeType, wtsl |-> r.amount,
                   live |-> TRUE, placedBy |-> t, tradeCode |-> r.tradeCode]
  <2>2. o \in Order /\ Answers(o, r) /\ o.placedBy = t
    BY <1>0 DEF Order, TypeOK, SubmitRequest, Answers
  <2> HIDE DEF o
  <2>3. Accept(o) /\ tradeOrder' = tradeOrder
    BY <1>7, <2>1 DEF SubmitAccepted, o
  <2>4. /\ RowsBacked' /\ OneRowInv'
        /\ \A q \in tradeOrder' : q.entrustCode # Len(order')
        /\ \A e \in DOMAIN order' : Saved(e)' => Saved(e) /\ e \in DOMAIN order
        /\ \A e \in DOMAIN order : order'[e] = order[e]
    BY <2>2, <2>3, AcceptKeeps
  <2>5. order'[Len(order')] = o
    BY <1>0, <2>2, <2>3, AcceptTyped
  <2>6. /\ UNCHANGED <<dealList, toSubmit>>
        /\ pc'[t] = "saving" /\ holding'[t] = Len(order')
        /\ \A u \in Threads \ {t} : pc'[u] = pc[u] /\ holding'[u] = holding[u]
    BY <1>0, <1>7, <2>1 DEF SubmitAccepted, TypeOK
  <2>7. UniqueInv'
    BY <2>6 DEF IInv, UniqueInv, UniqueKeys
  <2>8. HoldingInv'
    BY <1>0, <2>1, <2>2, <2>3, <2>4, <2>5, <2>6
       DEF IInv, HoldingInv, TypeInv, SavingInv, Saved, FirstSubmit, Answers
  <2>9. PendingInv'
    BY <2>4, <2>6 DEF IInv, PendingInv
  <2> QED
    BY <1>0, <2>4, <2>7, <2>8, <2>9 DEF IInv
<1>8. ASSUME NEW t \in Threads, SubmitRejected(t) PROVE IInv'
  <2>1. RowsBacked' /\ OneRowInv'
    BY <1>8, SameBook DEF SubmitRejected, brokerVars
  <2>2. /\ toSubmit'[t] \subseteq toSubmit[t]
        /\ \A u \in Threads \ {t} : toSubmit'[u] = toSubmit[u]
        /\ pc[t] = "acting"
    BY <1>0, <1>8 DEF SubmitRejected, TypeOK
  <2>3. UniqueInv'
    BY <1>8, <2>2 DEF SubmitRejected, IInv, UniqueInv, UniqueKeys
  <2>4. HoldingInv'
    BY <1>8, <2>2 DEF SubmitRejected, brokerVars, IInv, HoldingInv, Saved, FirstSubmit, Answers
  <2>5. PendingInv'
    BY <1>8, <2>2 DEF SubmitRejected, brokerVars, IInv, PendingInv, Saved
  <2> QED
    BY <1>0, <2>1, <2>3, <2>4, <2>5 DEF IInv
<1>9. ASSUME NEW t \in Threads, SaveTradeOrder(t) PROVE IInv'
  <2> DEFINE h == holding[t]
  <2>1. PICK r \in toSubmit[t] :
          /\ FirstSubmit(t, r)
          /\ tradeOrder' = tradeOrder \cup {Row(r, h)}
          /\ toSubmit' = [toSubmit EXCEPT ![t] = @ \ {r}]
    BY <1>9 DEF SaveTradeOrder
  <2>2. h \in DOMAIN order /\ order[h].placedBy = t /\ ~ Saved(h)
    BY <1>9 DEF SaveTradeOrder, IInv, HoldingInv, TypeInv, SavingInv
  <2>3. Answers(order[h], r)
    <3>1. PICK q \in toSubmit[t] : FirstSubmit(t, q) /\ Answers(order[h], q)
      BY <1>9 DEF SaveTradeOrder, IInv, HoldingInv
    <3>2. q = r
      BY <1>0, <2>1, <3>1, FirstSubmitUnique DEF IInv
    <3> QED
      BY <3>1, <3>2
  <2> HIDE DEF h
  <2>4. /\ order' = order
        /\ dealList' = dealList
        /\ pc'[t] = "acting" /\ holding'[t] = NoEntrust
        /\ toSubmit'[t] = toSubmit[t] \ {r}
        /\ \A u \in Threads \ {t} : /\ pc'[u] = pc[u] /\ holding'[u] = holding[u]
                                   /\ toSubmit'[u] = toSubmit[u]
    BY <1>0, <1>9, <2>1 DEF SaveTradeOrder, brokerVars, TypeOK
  <2>5. \A e \in DOMAIN order : Saved(e)' <=> Saved(e) \/ e = h
    <3>1. Row(r, h).entrustCode = h
      BY DEF Row
    <3> QED
      BY <2>1, <3>1 DEF Saved
  <2>6. RowsBacked'
    <3>1. /\ Row(r, h).entrustCode = h
          /\ order[h].tradeCode = Row(r, h).tradeCode /\ order[h].mmlb = Row(r, h).tradeType
          /\ order[h].zqdm = Row(r, h).stockCode /\ order[h].wtsl = Row(r, h).volume
      BY <2>3 DEF Answers, Row
    <3> QED
      BY <2>1, <2>2, <2>4, <3>1 DEF IInv, RowsBacked, Saved
  <2>7. UniqueInv'
    BY <2>4 DEF IInv, UniqueInv, UniqueKeys
  <2>8. HoldingInv'
    <3> SUFFICES ASSUME NEW u \in Threads
                 PROVE  /\ pc'[u] # "saving" => holding'[u] = NoEntrust
                        /\ pc'[u] = "saving" =>
                             /\ order'[holding'[u]].placedBy = u
                             /\ \A q \in tradeOrder' : q.entrustCode # holding'[u]
                             /\ \E q \in toSubmit'[u] :
                                  /\ FirstSubmit(u, q)'
                                  /\ Answers(order'[holding'[u]], q)
      BY DEF HoldingInv, Saved, Answers
    <3>1. CASE u = t
      BY <2>4, <3>1
    <3>2. CASE u # t
      <4>1. pc[u] = "saving" => holding[u] # h
        BY <2>2, <3>2 DEF IInv, HoldingInv
      <4> QED
        BY <2>1, <2>4, <3>2, <4>1 DEF IInv, HoldingInv, Saved, FirstSubmit, Answers, Row
    <3> QED
      BY <3>1, <3>2
  <2>9. PendingInv'
    <3> SUFFICES ASSUME NEW u \in Threads, NEW e \in DOMAIN order,
                        order[e].placedBy = u, Saved(e)', NEW q \in toSubmit'[u],
                        q.tradeCode = order[e].tradeCode, q.tradeType = order[e].mmlb
                 PROVE  FALSE
      BY <2>4 DEF PendingInv
    <3>1. q \in toSubmit[u]
      BY <2>4
    <3>2. e = h /\ u = t
      BY <2>2, <2>5, <3>1 DEF IInv, PendingInv
    <3>3. q = r
      BY <2>1, <2>3, <3>1, <3>2 DEF IInv, UniqueInv, UniqueKeys, Answers
    <3> QED
      BY <2>4, <3>2, <3>3
  <2>10. OneRowInv'
    <3>1. \A f \in DOMAIN order :
            /\ order[f].placedBy = t /\ order[f].tradeCode = order[h].tradeCode
            /\ order[f].mmlb = order[h].mmlb /\ Saved(f)
            => FALSE
      BY <2>1, <2>3 DEF IInv, PendingInv, Answers
    <3> QED
      BY <2>2, <2>4, <2>5, <3>1 DEF IInv, OneRowInv, ByRobot
  <2> QED
    BY <1>0, <2>6, <2>7, <2>8, <2>9, <2>10 DEF IInv
<1>10. ASSUME NEW t \in Threads, NEW p \in {"idle", "hung"}, Leave(t, p) PROVE IInv'
  <2>1. RowsBacked' /\ OneRowInv'
    BY <1>10, SameBook DEF Leave, brokerVars
  <2>2. /\ pc'[t] # "saving" /\ holding'[t] = NoEntrust
        /\ toSubmit'[t] = {} /\ dealList'[t] = {}
        /\ \A u \in Threads \ {t} : /\ pc'[u] = pc[u] /\ holding'[u] = holding[u]
                                   /\ toSubmit'[u] = toSubmit[u]
                                   /\ dealList'[u] = dealList[u]
        /\ UNCHANGED <<order, tradeOrder>>
    BY <1>0, <1>10 DEF Leave, brokerVars, TypeOK
  <2>3. UniqueInv'
    BY <2>2 DEF IInv, UniqueInv, UniqueKeys
  <2>4. HoldingInv'
    BY <2>2 DEF IInv, HoldingInv, Saved, FirstSubmit, Answers
  <2>5. PendingInv'
    BY <2>2 DEF IInv, PendingInv, Saved
  <2> QED
    BY <1>0, <2>1, <2>3, <2>4, <2>5 DEF IInv
<1>11. CASE UNCHANGED vars
  BY <1>0, <1>11 DEF vars, brokerVars, threadVars, IInv, RowsBacked, UniqueInv, UniqueKeys,
                     HoldingInv, PendingInv, OneRowInv, Saved, ByRobot, FirstSubmit, Answers
<1> QED
  BY <1>1, <1>2, <1>3, <1>4, <1>5, <1>6, <1>7, <1>8, <1>9, <1>10, <1>11
     DEF Next, Tick, EndTick, AbortTick, HangTick

LEMMA Safety == Spec => []IInv
BY SafetyInit, SafetyNext, PTL DEF Spec

\* Every row stands for one accepted order with the row's deal, side, stock
\* and volume, whatever runs concurrently and wherever ticks are cut short.
THEOREM RowsBackedAlways == Spec => []RowsBacked
<1>1. IInv => RowsBacked
  BY DEF IInv
<1> QED
  BY <1>1, Safety, PTL

\* One thread never knows of two orders for one follow-up of a deal, for any
\* number of threads, deals, failures and restarts.
THEOREM OncePerThreadAlways == Spec => []OncePerThread
<1>1. IInv => OncePerThread
  <2> SUFFICES ASSUME IInv, NEW e \in DOMAIN order, NEW f \in DOMAIN order,
                      ByRobot(e), order[e].placedBy = order[f].placedBy,
                      order[e].tradeCode = order[f].tradeCode,
                      order[e].mmlb = order[f].mmlb, Kept(e), Kept(f)
               PROVE  e = f
    BY DEF OncePerThread
  <2> DEFINE t == order[e].placedBy
  <2>1. t \in Threads /\ e # NoEntrust /\ f # NoEntrust
    <3>1. order[e] \in Order /\ DOMAIN order \subseteq Nat \ {0}
      BY DEF IInv, TypeInv, TypeOK
    <3> QED
      BY <3>1 DEF Order, ByRobot, NoEntrust
  <2>2. \A x \in {e, f} : ~ Saved(x) =>
          /\ x = holding[t] /\ pc[t] = "saving"
          /\ \E r \in toSubmit[t] : r.tradeCode = order[x].tradeCode /\ r.tradeType = order[x].mmlb
    BY <2>1 DEF IInv, HoldingInv, Kept, Answers
  <2>3. CASE Saved(e) /\ Saved(f)
    BY <2>3 DEF IInv, OneRowInv
  <2>4. CASE ~ Saved(e) /\ ~ Saved(f)
    BY <2>2, <2>4
  <2>5. CASE Saved(e) /\ ~ Saved(f)
    BY <2>1, <2>2, <2>5 DEF IInv, PendingInv
  <2>6. CASE ~ Saved(e) /\ Saved(f)
    BY <2>1, <2>2, <2>6 DEF IInv, PendingInv
  <2> QED
    BY <2>3, <2>4, <2>5, <2>6
<1> QED
  BY <1>1, Safety, PTL

-----------------------------------------------------------------------------
(***************************************************************************)
(* What an order that was dealt in full keeps.  The sum of its deals is a  *)
(* fold over the set of them; that it stays needs no arithmetic, as the    *)
(* set stays.                                                              *)
(***************************************************************************)
PickIn(s) == CHOOSE x \in s : TRUE

SumOf(f, S) ==
  CHOOSE iter : iter = [s \in SUBSET S |->
    IF s = {} THEN 0 ELSE f[PickIn(s)].cjsl + iter[s \ {PickIn(s)}]]

LEMMA DealtIsSum ==
  ASSUME NEW e
  PROVE  Dealt(e) = SumOf(deals, DealsOf(e))[DealsOf(e)]
BY DEF Dealt, MapThenSumSet, MapThenFoldSet, SumOf, PickIn

LEMMA SumSame ==
  ASSUME NEW S, NEW f, NEW g, \A i \in S : f[i].cjsl = g[i].cjsl
  PROVE  SumOf(f, S) = SumOf(g, S)
<1> DEFINE Unfolded(h, iter) == [s \in SUBSET S |->
             IF s = {} THEN 0 ELSE h[PickIn(s)].cjsl + iter[s \ {PickIn(s)}]]
<1>1. \A s \in SUBSET S : s # {} => PickIn(s) \in S
  BY DEF PickIn
<1>2. ASSUME NEW iter PROVE Unfolded(f, iter) = Unfolded(g, iter)
  BY <1>1
<1>3. \A iter : (iter = Unfolded(f, iter)) <=> (iter = Unfolded(g, iter))
  BY <1>2
<1>4. (CHOOSE iter : iter = Unfolded(f, iter)) = (CHOOSE iter : iter = Unfolded(g, iter))
  <2> HIDE DEF Unfolded
  <2> QED
    BY <1>3
<1> QED
  BY <1>4 DEF SumOf

LEMMA OrderTyped ==
  ASSUME TypeOK, NEW e \in DOMAIN order
  PROVE  order[e].wtsl \in Nat /\ order[e].mmlb \in Sides
<1>1. order \in Seq(Order)
  BY DEF TypeOK
<1>2. order[e] \in Order
  BY <1>1
<1> QED
  BY <1>2 DEF Order

\* The orders of the book stay what they are, but for being live.
LEMMA OrdersStay ==
  ASSUME TypeInv, [Next]_vars
  PROVE  \A e \in DOMAIN order :
           /\ e \in DOMAIN order'
           /\ order'[e].zqdm = order[e].zqdm /\ order'[e].mmlb = order[e].mmlb
           /\ order'[e].wtsl = order[e].wtsl
           /\ order'[e].placedBy = order[e].placedBy
           /\ order'[e].tradeCode = order[e].tradeCode
<1> USE DEF TypeInv
<1>1. CASE PlaceManually
  <2>1. PICK s \in Stocks, side \in Sides, v \in Volumes :
          Accept([zqdm |-> s, mmlb |-> side, wtsl |-> v, live |-> TRUE,
                  placedBy |-> User, tradeCode |-> 0])
    BY <1>1 DEF PlaceManually
  <2>2. [zqdm |-> s, mmlb |-> side, wtsl |-> v, live |-> TRUE,
         placedBy |-> User, tradeCode |-> 0] \in Order
    BY VolumesAssumption DEF Order
  <2> QED
    BY <2>1, <2>2, AcceptTyped
<1>2. ASSUME NEW t \in Threads, SubmitAccepted(t) PROVE \E o \in Order : Accept(o)
  <2>1. PICK r \in toSubmit[t] :
          Accept([zqdm |-> r.stockCode, mmlb |-> r.tradeType, wtsl |-> r.amount,
                  live |-> TRUE, placedBy |-> t, tradeCode |-> r.tradeCode])
    BY <1>2 DEF SubmitAccepted
  <2>2. [zqdm |-> r.stockCode, mmlb |-> r.tradeType, wtsl |-> r.amount, live |-> TRUE,
         placedBy |-> t, tradeCode |-> r.tradeCode] \in Order
    BY DEF Order, TypeOK, SubmitRequest
  <2> QED
    BY <2>1, <2>2
<1>3. CASE \E o \in Order : Accept(o)
  BY <1>3, AcceptTyped
<1>4. CASE \E t \in Threads : Revoke(t)
  BY <1>4, RevokeKeepsOrders
<1>5. CASE order' = order
  BY <1>5
<1> QED
  BY <1>1, <1>2, <1>3, <1>4, <1>5
     DEF Next, Tick, Fill, Crash, QueryDeals, Plan, SubmitRejected, SaveTradeOrder, EndTick,
         AbortTick, HangTick, Leave, vars, brokerVars

\* Deals stay, and an order that was dealt in full gets no more of them.
LEMMA DealsStay ==
  ASSUME TypeInv, [Next]_vars
  PROVE  /\ \A i \in DOMAIN deals : i \in DOMAIN deals' /\ deals'[i] = deals[i]
         /\ \A e \in DOMAIN order : Dealt(e) = order[e].wtsl => DealsOf(e)' = DealsOf(e)
<1> USE DEF TypeInv
<1>1. CASE Fill
  <2>1. PICK e \in DOMAIN order : \E v \in 1 .. order[e].wtsl - Dealt(e) :
          deals' = Append(deals, [wtbh |-> e, cjsl |-> v])
    BY <1>1 DEF Fill
  <2>2. PICK v \in 1 .. order[e].wtsl - Dealt(e) :
          deals' = Append(deals, [wtbh |-> e, cjsl |-> v])
    BY <2>1
  <2>3. /\ DOMAIN deals' = DOMAIN deals \cup {Len(deals) + 1}
        /\ \A i \in DOMAIN deals : deals'[i] = deals[i]
        /\ deals'[Len(deals) + 1].wtbh = e
    BY <2>2 DEF TypeOK
  <2>4. Dealt(e) # order[e].wtsl
    <3>1. order[e].wtsl \in Nat
      BY <2>1, OrderTyped
    <3> QED
      BY <3>1, <2>2
  <2>5. ASSUME NEW f \in DOMAIN order, f # e PROVE DealsOf(f)' = DealsOf(f)
    BY <2>3, <2>5 DEF DealsOf
  <2> QED
    BY <2>3, <2>4, <2>5
<1>2. CASE deals' = deals
  BY <1>2 DEF DealsOf
<1> QED
  BY <1>1, <1>2
     DEF Next, Tick, PlaceManually, Crash, QueryDeals, Plan, Revoke, SubmitAccepted,
         SubmitRejected, SaveTradeOrder, EndTick, AbortTick, HangTick, Leave, vars, brokerVars

LEMMA FullStays ==
  ASSUME TypeInv, [Next]_vars, NEW e \in DOMAIN order, Dealt(e) = order[e].wtsl
  PROVE  Dealt(e)' = order'[e].wtsl /\ DealsOf(e)' = DealsOf(e)
<1>1. DealsOf(e)' = DealsOf(e)
  BY DealsStay
<1>2. \A i \in DealsOf(e) : deals'[i].cjsl = deals[i].cjsl
  BY DealsStay DEF DealsOf
<1>3. SumOf(deals', DealsOf(e)) = SumOf(deals, DealsOf(e))
  BY <1>2, SumSame
<1>4. Dealt(e)' = SumOf(deals', DealsOf(e)')[DealsOf(e)']
  BY DEF Dealt, MapThenSumSet, MapThenFoldSet, SumOf, PickIn
<1>5. Dealt(e)' = Dealt(e)
  BY <1>1, <1>3, <1>4, DealtIsSum
<1> QED
  BY <1>1, <1>5, OrdersStay
-----------------------------------------------------------------------------
\* Code c is that of an order dealt in full, of this stock and volume, and
\* side may follow it up.
Mirrors(c, side, stock, amount) ==
  /\ c \in DOMAIN deals
  /\ FirstListed(c)
  /\ LET d == deals[c].wtbh
     IN  /\ Dealt(d) = order[d].wtsl
         /\ amount = order[d].wtsl /\ stock = order[d].zqdm
         /\ side = "S" => order[d].mmlb = "B"

\* A merged deal of a tick is that of an order dealt in full.
MergedRight(d) ==
  /\ d.cjbh \in DOMAIN deals /\ d.wtbh = deals[d.cjbh].wtbh
  /\ d.mmlb \in Sides /\ d.mmlb = order[d.wtbh].mmlb
  /\ Mirrors(d.cjbh, "B", d.zqdm, d.cjsl)

\* e is one leg of a pair, and the other leg was dealt in full.
OtherLegDealt(e) ==
  \E r, s \in tradeOrder :
    /\ s.entrustCode = e
    /\ r.tradeCode = s.tradeCode /\ r.tradeType # s.tradeType
    /\ Dealt(r.entrustCode) = order[r.entrustCode].wtsl

\* What a tick has in hand is right, and so are the orders and revokes it made.
HandInv ==
  \A t \in Threads :
    /\ \A d \in dealList[t] : MergedRight(d)
    /\ \A r \in toSubmit[t] : Mirrors(r.tradeCode, r.tradeType, r.stockCode, r.amount)
    /\ \A r \in toRevoke[t] : OtherLegDealt(r.entrustCode)

\* So are the revokes that went out.
RevokedInv == \A e \in asked : OtherLegDealt(e)

FollowInv == IInv /\ HandInv /\ FollowUpMirrorsFill /\ RevokedInv

LEMMA MirrorsStays ==
  ASSUME TypeInv, [Next]_vars, NEW c, NEW side, NEW stock, NEW amount,
         Mirrors(c, side, stock, amount)
  PROVE  Mirrors(c, side, stock, amount)'
<1> DEFINE d == deals[c].wtbh
<1>1. c \in DOMAIN deals /\ d \in DOMAIN order /\ Dealt(d) = order[d].wtsl
  BY DEF Mirrors, TypeInv, BookInv
<1>2. c \in DOMAIN deals' /\ deals'[c] = deals[c]
  BY <1>1, DealsStay
<1>3. PICK e : e = d
  OBVIOUS
<1>4. Dealt(e)' = order'[e].wtsl /\ DealsOf(e)' = DealsOf(e)
  BY <1>1, <1>3, FullStays
<1>5. /\ order'[e].zqdm = order[e].zqdm /\ order'[e].mmlb = order[e].mmlb
      /\ order'[e].wtsl = order[e].wtsl
  BY <1>1, <1>3, OrdersStay
<1>6. FirstListed(c)'
  <2>1. FirstListed(c)
    BY DEF Mirrors
  <2>2. \A j \in DealsOf(e)' : ~ ListedBefore(j, c)
    BY <1>3, <1>4, <2>1 DEF FirstListed
  <2> QED
    BY <1>2, <1>3, <2>2 DEF FirstListed, ListedBefore
<1>7. deals'[c].wtbh = e
  BY <1>2, <1>3
<1> QED
  BY <1>2, <1>3, <1>4, <1>5, <1>6, <1>7 DEF Mirrors

LEMMA MergedRightStays ==
  ASSUME TypeInv, [Next]_vars, NEW d, MergedRight(d)
  PROVE  MergedRight(d)'
<1>1. Mirrors(d.cjbh, "B", d.zqdm, d.cjsl)'
  BY MirrorsStays DEF MergedRight
<1>2. d.wtbh \in DOMAIN order
  BY DEF MergedRight, TypeInv, BookInv
<1>3. d.cjbh \in DOMAIN deals' /\ deals'[d.cjbh] = deals[d.cjbh] /\ order'[d.wtbh].mmlb = order[d.wtbh].mmlb
  BY <1>2, DealsStay, OrdersStay DEF MergedRight
<1> QED
  BY <1>1, <1>3 DEF MergedRight

LEMMA OtherLegDealtStays ==
  ASSUME IInv, [Next]_vars, NEW e, OtherLegDealt(e)
  PROVE  OtherLegDealt(e)'
<1>1. PICK r \in tradeOrder, s \in tradeOrder :
        /\ s.entrustCode = e
        /\ r.tradeCode = s.tradeCode /\ r.tradeType # s.tradeType
        /\ Dealt(r.entrustCode) = order[r.entrustCode].wtsl
  BY DEF OtherLegDealt
<1>2. r.entrustCode \in DOMAIN order
  BY DEF IInv, RowsBacked
<1>3. Dealt(r.entrustCode)' = order'[r.entrustCode].wtsl
  BY <1>1, <1>2, FullStays DEF IInv
<1>4. tradeOrder \subseteq tradeOrder'
  BY DEF Next, Tick, PlaceManually, Fill, Crash, QueryDeals, Plan, Revoke, SubmitAccepted,
         SubmitRejected, SaveTradeOrder, EndTick, AbortTick, HangTick, Leave, vars
<1> QED
  BY <1>1, <1>3, <1>4 DEF OtherLegDealt

\* What queryInput makes of the broker's list.
LEMMA MergedDealsRight ==
  ASSUME TypeInv, NEW d \in MergeDealList
  PROVE  MergedRight(d)
<1>1. PICK i \in DOMAIN deals :
        d = Merged(i) /\ FirstListed(i) /\ Dealt(deals[i].wtbh) = order[deals[i].wtbh].wtsl
  BY DEF MergeDealList
<1>2. order[deals[i].wtbh].mmlb \in Sides
  BY <1>1, OrderTyped DEF TypeInv, BookInv
<1> QED
  BY <1>1, <1>2 DEF MergedRight, Mirrors, Merged

\* What setNeedSubmit and setNeedRevoke make of a deal.
LEMMA PlannedRight ==
  ASSUME NEW d, MergedRight(d)
  PROVE  /\ \A r \in NeedSubmit(tradeOrder, d) :
              Mirrors(r.tradeCode, r.tradeType, r.stockCode, r.amount)
         /\ \A e \in Siblings(tradeOrder, d.wtbh) : OtherLegDealt(e)
<1>1. ASSUME NEW r \in NeedSubmit(tradeOrder, d)
      PROVE  Mirrors(r.tradeCode, r.tradeType, r.stockCode, r.amount)
  <2>1. PICK side \in FollowUpSides(d) : r = Request(d, side)
    BY DEF NeedSubmit
  <2>2. side = "S" => d.mmlb = "B"
    BY DEF FollowUpSides
  <2>3. r.tradeCode = d.cjbh /\ r.tradeType = side /\ r.stockCode = d.zqdm /\ r.amount = d.cjsl
    BY <2>1 DEF Request
  <2> QED
    BY <2>2, <2>3 DEF MergedRight, Mirrors
<1>2. ASSUME NEW e \in Siblings(tradeOrder, d.wtbh)
      PROVE  OtherLegDealt(e)
  BY DEF Siblings, OtherLegDealt, MergedRight, Mirrors
<1> QED
  BY <1>1, <1>2

-----------------------------------------------------------------------------
\* The deals in hand are those of before, or were queried just now.
LEMMA DealListStep ==
  ASSUME TypeInv, [Next]_vars, NEW t \in Threads, NEW d \in dealList'[t]
  PROVE  d \in dealList[t] \/ d \in MergeDealList
<1>1. ASSUME NEW u \in Threads, QueryDeals(u) PROVE d \in dealList[t] \/ d \in MergeDealList
  BY <1>1 DEF QueryDeals, TypeInv, TypeOK
<1>2. ASSUME NEW u \in Threads, Plan(u) PROVE d \in dealList[t]
  BY <1>2 DEF Plan, TypeInv, TypeOK
<1>3. ASSUME NEW u \in Threads, NEW p, Leave(u, p) PROVE d \in dealList[t]
  BY <1>3 DEF Leave, TypeInv, TypeOK
<1>4. CASE Crash
  BY <1>4 DEF Crash
<1>5. CASE dealList' = dealList
  BY <1>5
<1> QED
  BY <1>1, <1>2, <1>3, <1>4, <1>5
     DEF Next, Tick, PlaceManually, Fill, Revoke, SubmitAccepted, SubmitRejected, SaveTradeOrder,
         EndTick, AbortTick, HangTick, vars, threadVars

\* The requests in hand are those of before, or were planned just now.
LEMMA RequestsStep ==
  ASSUME TypeInv, [Next]_vars, NEW t \in Threads
  PROVE  /\ \A r \in toSubmit'[t] : \/ r \in toSubmit[t]
                                    \/ \E d \in dealList[t] : r \in NeedSubmit(tradeOrder, d)
         /\ \A r \in toRevoke'[t] : \/ r \in toRevoke[t]
                                    \/ \E d \in dealList[t] : r.entrustCode \in Siblings(tradeOrder, d.wtbh)
<1> USE DEF TypeInv
<1>1. ASSUME NEW u \in Threads, Plan(u)
      PROVE  /\ \A r \in toSubmit'[t] : \/ r \in toSubmit[t]
                                        \/ \E d \in dealList[t] : r \in NeedSubmit(tradeOrder, d)
             /\ \A r \in toRevoke'[t] : \/ r \in toRevoke[t]
                                        \/ \E d \in dealList[t] : r.entrustCode \in Siblings(tradeOrder, d.wtbh)
  <2>1. PICK found \in SUBSET Stocks :
          LET ds == {d \in dealList[u] : d.zqdm \in found}
          IN  /\ toSubmit' = [toSubmit EXCEPT ![u] = UNION {NeedSubmit(tradeOrder, d) : d \in ds}]
              /\ \E rs \in RevokeLists(tradeOrder, ds) : toRevoke' = [toRevoke EXCEPT ![u] = rs]
    BY <1>1 DEF Plan
  <2> DEFINE ds == {d \in dealList[u] : d.zqdm \in found}
  <2>2. PICK rs \in RevokeLists(tradeOrder, ds) : toRevoke' = [toRevoke EXCEPT ![u] = rs]
    BY <2>1
  <2>3. CASE u # t
    BY <2>1, <2>2, <2>3 DEF TypeOK
  <2>4. CASE u = t
    <3>1. toSubmit'[t] = UNION {NeedSubmit(tradeOrder, d) : d \in ds} /\ toRevoke'[t] = rs
      BY <2>1, <2>2, <2>4 DEF TypeOK
    <3>2. \A r \in rs : \E d \in ds :
            r \in [tradeCode: {d.cjbh}, entrustCode: Siblings(tradeOrder, d.wtbh)]
      BY DEF RevokeLists
    <3>3. \A r \in rs : \E d \in ds : r.entrustCode \in Siblings(tradeOrder, d.wtbh)
      BY <3>2
    <3> QED
      BY <2>4, <3>1, <3>3
  <2> QED
    BY <2>3, <2>4
<1>2. ASSUME NEW u \in Threads, Revoke(u) \/ SubmitRejected(u) \/ SaveTradeOrder(u)
      PROVE  toSubmit'[t] \subseteq toSubmit[t] /\ toRevoke'[t] \subseteq toRevoke[t]
  <2>1. CASE Revoke(u)
    <3>1. PICK r \in toRevoke[u] : toRevoke' = [toRevoke EXCEPT ![u] = @ \ {r}]
      BY <2>1 DEF Revoke
    <3>2. toSubmit' = toSubmit
      BY <2>1 DEF Revoke
    <3> QED
      BY <3>1, <3>2 DEF TypeOK
  <2>2. CASE SubmitRejected(u) \/ SaveTradeOrder(u)
    BY <2>2 DEF SubmitRejected, SaveTradeOrder, TypeOK
  <2> QED
    BY <1>2, <2>1, <2>2
<1>3. ASSUME NEW u \in Threads, NEW p, Leave(u, p)
      PROVE  toSubmit'[t] \subseteq toSubmit[t] /\ toRevoke'[t] \subseteq toRevoke[t]
  BY <1>3 DEF Leave, TypeOK
<1>4. CASE Crash
  BY <1>4 DEF Crash
<1>5. CASE UNCHANGED <<toSubmit, toRevoke>>
  BY <1>5
<1> QED
  BY <1>1, <1>2, <1>3, <1>4, <1>5
     DEF Next, Tick, PlaceManually, Fill, QueryDeals, SubmitAccepted,
         EndTick, AbortTick, HangTick, vars, threadVars

\* An order of the robot that is new answers a request in hand.
LEMMA OrderStep ==
  ASSUME TypeInv, [Next]_vars, NEW e \in DOMAIN order' \ DOMAIN order, order'[e].placedBy # User
  PROVE  \E t \in Threads : \E r \in toSubmit[t] : Answers(order'[e], r)
<1> USE DEF TypeInv
<1>1. CASE PlaceManually
  <2>1. PICK s \in Stocks, side \in Sides, v \in Volumes :
          Accept([zqdm |-> s, mmlb |-> side, wtsl |-> v, live |-> TRUE,
                  placedBy |-> User, tradeCode |-> 0])
    BY <1>1 DEF PlaceManually
  <2> DEFINE o == [zqdm |-> s, mmlb |-> side, wtsl |-> v, live |-> TRUE,
                   placedBy |-> User, tradeCode |-> 0]
  <2>2. o \in Order
    BY VolumesAssumption DEF Order
  <2>3. order'[e] = o
    BY <2>1, <2>2, AcceptTyped
  <2> QED
    BY <2>3
<1>2. ASSUME NEW t \in Threads, SubmitAccepted(t)
      PROVE  \E r \in toSubmit[t] : Answers(order'[e], r)
  <2>1. PICK r \in toSubmit[t] :
          Accept([zqdm |-> r.stockCode, mmlb |-> r.tradeType, wtsl |-> r.amount,
                  live |-> TRUE, placedBy |-> t, tradeCode |-> r.tradeCode])
    BY <1>2 DEF SubmitAccepted
  <2> DEFINE o == [zqdm |-> r.stockCode, mmlb |-> r.tradeType, wtsl |-> r.amount,
                   live |-> TRUE, placedBy |-> t, tradeCode |-> r.tradeCode]
  <2>2. o \in Order
    BY DEF Order, TypeOK, SubmitRequest
  <2>3. order'[e] = o
    BY <2>1, <2>2, AcceptTyped
  <2>4. Answers(o, r)
    BY DEF Answers
  <2> QED
    BY <2>3, <2>4
<1>3. ASSUME NEW t \in Threads, Revoke(t) PROVE FALSE
  BY <1>3, RevokeKeepsOrders
<1>4. CASE order' = order
  BY <1>4
<1> QED
  BY <1>1, <1>2, <1>3, <1>4
     DEF Next, Tick, Fill, Crash, QueryDeals, Plan, SubmitRejected, SaveTradeOrder, EndTick,
         AbortTick, HangTick, Leave, vars, brokerVars

\* A revoke that is new is one in hand.
LEMMA AskedStep ==
  ASSUME [Next]_vars, NEW e \in asked'
  PROVE  e \in asked \/ \E t \in Threads : \E r \in toRevoke[t] : e = r.entrustCode
<1>1. ASSUME NEW t \in Threads, Revoke(t)
      PROVE  e \in asked \/ \E r \in toRevoke[t] : e = r.entrustCode
  BY <1>1 DEF Revoke
<1>2. CASE asked' = asked
  BY <1>2
<1> QED
  BY <1>1, <1>2
     DEF Next, Tick, PlaceManually, Fill, Crash, QueryDeals, Plan, SubmitAccepted,
         SubmitRejected, SaveTradeOrder, EndTick, AbortTick, HangTick, Leave, vars, brokerVars

LEMMA FollowInit == Init => FollowInv
<1> SUFFICES ASSUME Init PROVE FollowInv
  OBVIOUS
<1>1. IInv
  BY SafetyInit
<1>2. HandInv /\ FollowUpMirrorsFill /\ RevokedInv
  BY DEF Init, HandInv, FollowUpMirrorsFill, RevokedInv
<1> QED
  BY <1>1, <1>2 DEF FollowInv

LEMMA FollowNext == FollowInv /\ [Next]_vars => FollowInv'
<1> SUFFICES ASSUME FollowInv, [Next]_vars PROVE FollowInv'
  OBVIOUS
<1>0. IInv /\ TypeInv /\ IInv'
  BY SafetyNext DEF FollowInv, IInv
<1>1. ASSUME NEW t \in Threads, NEW d \in dealList'[t] PROVE MergedRight(d)'
  <2>1. MergedRight(d)
    BY <1>0, DealListStep, MergedDealsRight DEF FollowInv, HandInv
  <2> QED
    BY <1>0, <2>1, MergedRightStays
<1>2. ASSUME NEW t \in Threads, NEW r \in toSubmit'[t]
      PROVE  Mirrors(r.tradeCode, r.tradeType, r.stockCode, r.amount)'
  <2>1. Mirrors(r.tradeCode, r.tradeType, r.stockCode, r.amount)
    BY <1>0, RequestsStep, PlannedRight DEF FollowInv, HandInv
  <2> QED
    BY <1>0, <2>1, MirrorsStays
<1>3. ASSUME NEW t \in Threads, NEW r \in toRevoke'[t] PROVE OtherLegDealt(r.entrustCode)'
  <2>1. OtherLegDealt(r.entrustCode)
    BY <1>0, RequestsStep, PlannedRight DEF FollowInv, HandInv
  <2> QED
    BY <1>0, <2>1, OtherLegDealtStays
<1>4. FollowUpMirrorsFill'
  <2> SUFFICES ASSUME NEW e \in DOMAIN order', order'[e].placedBy # User,
                      NEW o, o = order'[e]
               PROVE  Mirrors(o.tradeCode, o.mmlb, o.zqdm, o.wtsl)'
    BY DEF FollowUpMirrorsFill, ByRobot, Mirrors
  <2>1. Mirrors(o.tradeCode, o.mmlb, o.zqdm, o.wtsl)
    <3>1. CASE e \in DOMAIN order
      <4>1. /\ o.tradeCode = order[e].tradeCode /\ o.mmlb = order[e].mmlb
            /\ o.zqdm = order[e].zqdm /\ o.wtsl = order[e].wtsl /\ ByRobot(e)
        BY <1>0, <3>1, OrdersStay DEF ByRobot
      <4> QED
        BY <3>1, <4>1 DEF FollowInv, FollowUpMirrorsFill, Mirrors
    <3>2. CASE e \notin DOMAIN order
      <4>1. PICK t \in Threads : \E r \in toSubmit[t] : Answers(o, r)
        BY <1>0, <3>2, OrderStep
      <4>2. PICK r \in toSubmit[t] : Answers(o, r)
        BY <4>1
      <4> QED
        BY <4>2 DEF FollowInv, HandInv, Answers
    <3> QED
      BY <3>1, <3>2
  <2> QED
    BY <1>0, <2>1, MirrorsStays
<1>5. RevokedInv'
  <2> SUFFICES ASSUME NEW e \in asked' PROVE OtherLegDealt(e)'
    BY DEF RevokedInv
  <2>1. OtherLegDealt(e)
    BY AskedStep DEF FollowInv, HandInv, RevokedInv
  <2> QED
    BY <1>0, <2>1, OtherLegDealtStays
<1> QED
  BY <1>0, <1>1, <1>2, <1>3, <1>4, <1>5 DEF FollowInv, HandInv

\* VolumeStrategyHandler: an order of the robot follows up an order that was
\* dealt in full, with its stock, its volume and the code of its merged deal,
\* for every sequence of partial deals and any overlap of ticks.
THEOREM FollowUpMirrorsFillAlways == Spec => []FollowUpMirrorsFill
<1>1. FollowInv => FollowUpMirrorsFill
  BY DEF FollowInv
<1> QED
  BY <1>1, FollowInit, FollowNext, PTL DEF Spec

\* setNeedRevoke: only an order of the robot is revoked, and only when its
\* order on the other side of the same deal was dealt in full, whatever other
\* ticks did since the rows were read.
THEOREM RevokesOtherLegOnlyAlways == Spec => []RevokesOtherLegOnly
<1>1. FollowInv => RevokesOtherLegOnly
  <2> SUFFICES ASSUME FollowInv, NEW e \in asked
               PROVE  /\ e \in DOMAIN order /\ ByRobot(e)
                      /\ \E d \in DOMAIN order :
                           /\ ByRobot(d) /\ order[d].tradeCode = order[e].tradeCode
                           /\ order[d].mmlb # order[e].mmlb
                           /\ Dealt(d) = order[d].wtsl
    BY DEF RevokesOtherLegOnly
  <2>1. OtherLegDealt(e) /\ RowsBacked
    BY DEF FollowInv, RevokedInv, IInv
  <2>2. PICK r, s \in tradeOrder :
          /\ s.entrustCode = e
          /\ r.tradeCode = s.tradeCode /\ r.tradeType # s.tradeType
          /\ Dealt(r.entrustCode) = order[r.entrustCode].wtsl
    BY <2>1 DEF OtherLegDealt
  <2>3. PICK d : d = r.entrustCode
    OBVIOUS
  <2>4. /\ e \in DOMAIN order /\ ByRobot(e)
        /\ order[e].tradeCode = s.tradeCode /\ order[e].mmlb = s.tradeType
    BY <2>1, <2>2, UserAssumption DEF RowsBacked, ByRobot
  <2>5. /\ d \in DOMAIN order /\ ByRobot(d)
        /\ order[d].tradeCode = r.tradeCode /\ order[d].mmlb = r.tradeType
    BY <2>1, <2>3, UserAssumption DEF RowsBacked, ByRobot
  <2>6. Dealt(d) = order[d].wtsl
    BY <2>2, <2>3
  <2> QED
    BY <2>2, <2>4, <2>5, <2>6
<1> QED
  BY <1>1, FollowInit, FollowNext, PTL DEF Spec

-----------------------------------------------------------------------------
(***************************************************************************)
(* Sums over finite sets.  MapThenSumSet picks one element after another;  *)
(* that its recursion defines a function, and that the order of the picks  *)
(* does not matter, is shown by a set of least size for which it is not so.*)
(***************************************************************************)
Less == {p \in Nat \X Nat : p[1] < p[2]}

\* A set of numbers has a least.
LEMMA LeastOf ==
  ASSUME NEW T \in SUBSET Nat, T # {}
  PROVE  \E x \in T : \A y \in T : x <= y
<1>1. Less = OpToRel(<, Nat)
  BY DEF Less, OpToRel
<1>2. IsWellFoundedOn(Less, Nat)
  BY <1>1, NatLessThanWellFounded
<1>3. PICK x \in T : \A y \in T : ~ (<<y, x>> \in Less)
  BY <1>2, WFMin
<1>4. ASSUME NEW y \in T PROVE x <= y
  <2>1. x \in Nat /\ y \in Nat
    OBVIOUS
  <2>2. ~ (<<y, x>> \in Less)
    BY <1>3
  <2>3. ~ (y < x)
    BY <2>1, <2>2 DEF Less
  <2> QED
    BY <2>1, <2>3
<1> QED
  BY <1>4

\* What the recursion makes of iter, on the sets in D, for a function g.
Unfolded(g, D, iter) ==
  [s \in D |-> IF s = {} THEN 0 ELSE g[PickIn(s)] + iter[s \ {PickIn(s)}]]

FoldOf(g, S) == CHOOSE iter : iter = Unfolded(g, SUBSET S, iter)

\* The sum of g over S.
Total(g, S) == FoldOf(g, S)[S]

\* The subsets of S with at most n elements.
Small(S, n) == {s \in SUBSET S : Cardinality(s) <= n}

\* A set without the element picked is smaller by one.
LEMMA Picked ==
  ASSUME NEW s, IsFiniteSet(s), s # {}
  PROVE  /\ PickIn(s) \in s /\ IsFiniteSet(s \ {PickIn(s)})
         /\ Cardinality(s) \in Nat /\ Cardinality(s \ {PickIn(s)}) \in Nat
         /\ Cardinality(s \ {PickIn(s)}) = Cardinality(s) - 1
<1>1. PickIn(s) \in s
  BY DEF PickIn
<1> QED
  BY <1>1, FS_RemoveElement, FS_CardinalityType

\* What is defined on the subsets of at most n elements goes on to n + 1.
LEMMA FoldGrows ==
  ASSUME NEW g, NEW S, IsFiniteSet(S), NEW n \in Nat,
         NEW h, h = Unfolded(g, Small(S, n), h)
  PROVE  \E k : k = Unfolded(g, Small(S, n + 1), k)
<1> DEFINE k == Unfolded(g, Small(S, n + 1), h)
<1>1. \A s \in SUBSET S : IsFiniteSet(s) /\ Cardinality(s) \in Nat
  BY FS_Subset, FS_CardinalityType
<1>2. ASSUME NEW s \in Small(S, n + 1), s # {}
      PROVE  s \ {PickIn(s)} \in Small(S, n)
  BY <1>1, <1>2, Picked DEF Small
<1>3. ASSUME NEW u \in Small(S, n) PROVE k[u] = h[u]
  <2>1. u \in Small(S, n + 1)
    BY <1>1 DEF Small
  <2>2. h[u] = IF u = {} THEN 0 ELSE g[PickIn(u)] + h[u \ {PickIn(u)}]
    BY DEF Unfolded
  <2> QED
    BY <2>1, <2>2 DEF Unfolded
<1>4. ASSUME NEW s \in Small(S, n + 1)
      PROVE  k[s] = IF s = {} THEN 0 ELSE g[PickIn(s)] + k[s \ {PickIn(s)}]
  BY <1>2, <1>3 DEF Unfolded
<1>5. k = Unfolded(g, Small(S, n + 1), k)
  BY <1>4 DEF Unfolded
<1> QED
  BY <1>5

\* The recursion defines a function.
LEMMA FoldDefined ==
  ASSUME NEW g, NEW S, IsFiniteSet(S)
  PROVE  FoldOf(g, S) = Unfolded(g, SUBSET S, FoldOf(g, S))
<1> DEFINE Defined(n) == \E h : h = Unfolded(g, Small(S, n), h)
           T == {n \in Nat : ~ Defined(n)}
<1>1. \A s \in SUBSET S : IsFiniteSet(s) /\ Cardinality(s) \in Nat /\ (Cardinality(s) = 0 => s = {})
  BY FS_Subset, FS_CardinalityType, FS_EmptySet
<1>2. Defined(0)
  <2> DEFINE h == [s \in Small(S, 0) |-> 0]
  <2>1. \A s \in Small(S, 0) : s = {}
    BY <1>1 DEF Small
  <2>2. h = Unfolded(g, Small(S, 0), h)
    BY <2>1 DEF Unfolded
  <2> QED
    BY <2>2
<1>3. \A n \in Nat : Defined(n) => Defined(n + 1)
  BY FoldGrows
<1> HIDE DEF Defined
<1>4. T = {}
  <2> SUFFICES ASSUME T # {} PROVE FALSE
    OBVIOUS
  <2>1. PICK x \in T : \A y \in T : x <= y
    BY LeastOf
  <2>2. x # 0 /\ x \in Nat /\ ~ Defined(x)
    BY <1>2
  <2>3. x - 1 \in Nat /\ ~ (x - 1 \in T) /\ (x - 1) + 1 = x
    BY <2>1, <2>2
  <2> QED
    BY <1>3, <2>2, <2>3
<1>5. Cardinality(S) \in Nat /\ Small(S, Cardinality(S)) = SUBSET S
  BY FS_Subset, FS_CardinalityType DEF Small
<1>6. \E h : h = Unfolded(g, SUBSET S, h)
  BY <1>4, <1>5 DEF Defined
<1> QED
  BY <1>6 DEF FoldOf

LEMMA FoldAt ==
  ASSUME NEW g, NEW S, IsFiniteSet(S), NEW s \in SUBSET S
  PROVE  FoldOf(g, S)[s] = IF s = {} THEN 0
                           ELSE g[PickIn(s)] + FoldOf(g, S)[s \ {PickIn(s)}]
<1> DEFINE h == FoldOf(g, S)
<1>1. h = Unfolded(g, SUBSET S, h)
  BY FoldDefined
<1>2. Unfolded(g, SUBSET S, h)[s] = IF s = {} THEN 0 ELSE g[PickIn(s)] + h[s \ {PickIn(s)}]
  BY DEF Unfolded
<1> HIDE DEF h
<1>3. h[s] = IF s = {} THEN 0 ELSE g[PickIn(s)] + h[s \ {PickIn(s)}]
  BY <1>1, <1>2
<1> QED
  BY <1>3 DEF h

\* What it gives for a set depends on that set only.
LEMMA FoldWithin ==
  ASSUME NEW g, NEW S, IsFiniteSet(S), NEW R \in SUBSET S
  PROVE  \A s \in SUBSET R : FoldOf(g, S)[s] = FoldOf(g, R)[s]
<1> DEFINE Differ(n) == \E s \in SUBSET R : Cardinality(s) = n /\ FoldOf(g, S)[s] # FoldOf(g, R)[s]
           T == {n \in Nat : Differ(n)}
<1>0. IsFiniteSet(R)
  BY FS_Subset
<1>1. \A s \in SUBSET R : IsFiniteSet(s) /\ Cardinality(s) \in Nat /\ s \in SUBSET S
  BY FS_Subset, FS_CardinalityType
<1>2. T = {}
  <2> SUFFICES ASSUME T # {} PROVE FALSE
    OBVIOUS
  <2>1. PICK x \in T : \A y \in T : x <= y
    BY LeastOf
  <2>2. PICK s \in SUBSET R : Cardinality(s) = x /\ FoldOf(g, S)[s] # FoldOf(g, R)[s]
    OBVIOUS
  <2>3. s # {}
    <3>1. FoldOf(g, S)[{}] = 0 /\ FoldOf(g, R)[{}] = 0
      <4>1. {} \in SUBSET S /\ {} \in SUBSET R
        OBVIOUS
      <4> QED
        BY <1>0, <4>1, FoldAt
    <3> QED
      BY <2>2, <3>1
  <2>4. /\ s \ {PickIn(s)} \in SUBSET R
        /\ Cardinality(s \ {PickIn(s)}) = x - 1 /\ x - 1 \in Nat
    BY <1>1, <2>2, <2>3, Picked
  <2>5. FoldOf(g, S)[s \ {PickIn(s)}] = FoldOf(g, R)[s \ {PickIn(s)}]
    <3>1. x \in Nat /\ ~ (x <= x - 1)
      OBVIOUS
    <3>2. x - 1 \notin T
      BY <2>1, <3>1
    <3> QED
      BY <2>4, <3>2
  <2>6. /\ FoldOf(g, S)[s] = g[PickIn(s)] + FoldOf(g, S)[s \ {PickIn(s)}]
        /\ FoldOf(g, R)[s] = g[PickIn(s)] + FoldOf(g, R)[s \ {PickIn(s)}]
    BY <1>0, <1>1, <2>3, FoldAt
  <2> QED
    BY <2>2, <2>5, <2>6
<1> QED
  BY <1>1, <1>2

LEMMA TotalPicks ==
  ASSUME NEW g, NEW S, IsFiniteSet(S), S # {}
  PROVE  Total(g, S) = g[PickIn(S)] + Total(g, S \ {PickIn(S)})
<1> DEFINE R == S \ {PickIn(S)}
<1>1. FoldOf(g, S)[S] = g[PickIn(S)] + FoldOf(g, S)[R]
  BY FoldAt
<1>2. FoldOf(g, S)[R] = FoldOf(g, R)[R]
  BY FoldWithin
<1> QED
  BY <1>1, <1>2 DEF Total

LEMMA TotalNone ==
  ASSUME NEW g PROVE Total(g, {}) = 0
BY FoldAt, FS_EmptySet DEF Total

\* A sum of numbers is a number, and any element may be taken first.
LEMMA TotalTakes ==
  ASSUME NEW g, NEW S, IsFiniteSet(S), \A x \in S : g[x] \in Nat
  PROVE  /\ Total(g, S) \in Nat
         /\ \A x \in S : Total(g, S) = g[x] + Total(g, S \ {x})
<1> DEFINE Right(s) == /\ Total(g, s) \in Nat
                       /\ \A x \in s : Total(g, s) = g[x] + Total(g, s \ {x})
           T == {n \in Nat : \E s \in SUBSET S : Cardinality(s) = n /\ ~ Right(s)}
<1>1. \A s \in SUBSET S : IsFiniteSet(s) /\ Cardinality(s) \in Nat
  BY FS_Subset, FS_CardinalityType
<1>2. Right({})
  BY TotalNone
<1>3. ASSUME NEW s \in SUBSET S, s # {},
             \A u \in SUBSET S : Cardinality(u) < Cardinality(s) => Right(u)
      PROVE  Right(s)
  <2> DEFINE p == PickIn(s)
             r == s \ {p}
  <2>1. p \in s /\ IsFiniteSet(s) /\ IsFiniteSet(r) /\ r \in SUBSET S /\ Cardinality(r) < Cardinality(s)
    BY <1>1, <1>3, Picked
  <2>2. Total(g, s) = g[p] + Total(g, r)
    BY <1>3, <2>1, TotalPicks
  <2>3. Right(r)
    BY <1>3, <2>1
  <2> HIDE DEF p
  <2>4. Total(g, s) \in Nat /\ g[p] \in Nat
    BY <2>1, <2>2, <2>3
  <2>5. ASSUME NEW x \in s PROVE Total(g, s) = g[x] + Total(g, s \ {x})
    <3>1. CASE x = p
      BY <2>2, <3>1
    <3>2. CASE x # p
      <4>1. x \in r /\ p \in s \ {x} /\ s \ {x} \in SUBSET S
        BY <2>1, <3>2
      <4>2. Cardinality(s \ {x}) < Cardinality(s)
        BY <1>1, <2>1, FS_RemoveElement
      <4>3. Total(g, r) = g[x] + Total(g, r \ {x})
        BY <2>3, <4>1
      <4>4. Right(s \ {x})
        BY <1>3, <4>1, <4>2
      <4>5. Total(g, s \ {x}) = g[p] + Total(g, (s \ {x}) \ {p})
        BY <4>1, <4>4
      <4>6. (s \ {x}) \ {p} = r \ {x}
        OBVIOUS
      <4>7. /\ g[x] \in Nat /\ Total(g, s \ {x}) \in Nat /\ Total(g, r) \in Nat
            /\ Total(g, r \ {x}) \in Nat
        <5>1. r \ {x} \in SUBSET S /\ Cardinality(r \ {x}) < Cardinality(s)
          <6>1. Cardinality(r \ {x}) = Cardinality(r) - 1
            BY <2>1, <4>1, FS_RemoveElement
          <6>2. r \ {x} \in SUBSET S /\ Cardinality(r) \in Nat /\ Cardinality(s) \in Nat
            BY <1>1, <2>1
          <6> QED
            BY <2>1, <6>1, <6>2
        <5>2. Right(r \ {x})
          BY <1>3, <5>1
        <5> QED
          BY <2>3, <4>4, <5>2
      <4> HIDE DEF r
      <4> QED
        BY <2>2, <2>4, <4>3, <4>5, <4>6, <4>7
    <3> QED
      BY <3>1, <3>2
  <2> QED
    BY <2>4, <2>5
<1> HIDE DEF Right
<1>4. T = {}
  <2> SUFFICES ASSUME T # {} PROVE FALSE
    OBVIOUS
  <2>1. PICK n \in T : \A y \in T : n <= y
    BY LeastOf
  <2>2. PICK s \in SUBSET S : Cardinality(s) = n /\ ~ Right(s)
    OBVIOUS
  <2>3. \A u \in SUBSET S : Cardinality(u) < n => Right(u)
    <3> SUFFICES ASSUME NEW u \in SUBSET S, Cardinality(u) < n, ~ Right(u) PROVE FALSE
      OBVIOUS
    <3>1. Cardinality(u) \in T
      BY <1>1
    <3> QED
      BY <1>1, <2>1, <3>1
  <2> QED
    BY <1>2, <1>3, <2>2, <2>3
<1>5. Right(S)
  BY <1>1, <1>4
<1> QED
  BY <1>5 DEF Right

\* A sum is at most another into which its parts can be mapped, one to one.
LEMMA TotalInto ==
  ASSUME NEW S, IsFiniteSet(S), NEW T, IsFiniteSet(T), NEW g, NEW h, NEW f,
         \A x \in S : g[x] \in Nat /\ f[x] \in T /\ g[x] <= h[f[x]],
         \A y \in T : h[y] \in Nat,
         \A x, y \in S : f[x] = f[y] => x = y
  PROVE  Total(g, S) <= Total(h, T)
<1> DEFINE Right(s) == \A U \in SUBSET T : (\A x \in s : f[x] \in U) => Total(g, s) <= Total(h, U)
           N == {n \in Nat : \E s \in SUBSET S : Cardinality(s) = n /\ ~ Right(s)}
<1>1. \A s \in SUBSET S : IsFiniteSet(s) /\ Cardinality(s) \in Nat
  BY FS_Subset, FS_CardinalityType
<1>2. ASSUME NEW U \in SUBSET T
      PROVE  /\ IsFiniteSet(U) /\ Total(h, U) \in Nat
             /\ \A y \in U : Total(h, U) = h[y] + Total(h, U \ {y})
  <2>1. IsFiniteSet(U) /\ \A y \in U : h[y] \in Nat
    BY FS_Subset
  <2> QED
    BY <2>1, TotalTakes
<1>3. Right({})
  BY <1>2, TotalNone
<1>4. ASSUME NEW s \in SUBSET S, NEW x \in s, Right(s \ {x}) PROVE Right(s)
  <2> SUFFICES ASSUME NEW U \in SUBSET T, \A y \in s : f[y] \in U
               PROVE  Total(g, s) <= Total(h, U)
    OBVIOUS
  <2>1. Total(g, s) = g[x] + Total(g, s \ {x}) /\ Total(g, s \ {x}) \in Nat
    <3>1. IsFiniteSet(s) /\ IsFiniteSet(s \ {x}) /\ \A y \in s : g[y] \in Nat
      BY <1>1
    <3> QED
      BY <3>1, TotalTakes
  <2>2. U \ {f[x]} \in SUBSET T /\ \A y \in s \ {x} : f[y] \in U \ {f[x]}
    OBVIOUS
  <2>3. Total(g, s \ {x}) <= Total(h, U \ {f[x]})
    BY <1>4, <2>2
  <2>4. Total(h, U) = h[f[x]] + Total(h, U \ {f[x]}) /\ Total(h, U \ {f[x]}) \in Nat
    BY <1>2, <2>2
  <2>5. g[x] \in Nat /\ h[f[x]] \in Nat /\ g[x] <= h[f[x]]
    OBVIOUS
  <2> QED
    BY <2>1, <2>3, <2>4, <2>5
<1> HIDE DEF Right
<1>5. N = {}
  <2> SUFFICES ASSUME N # {} PROVE FALSE
    OBVIOUS
  <2>1. PICK n \in N : \A y \in N : n <= y
    BY LeastOf
  <2>2. PICK s \in SUBSET S : Cardinality(s) = n /\ ~ Right(s)
    OBVIOUS
  <2>3. PICK x \in s : TRUE
    BY <1>3, <2>2
  <2>4. Cardinality(s \ {x}) < n /\ s \ {x} \in SUBSET S
    <3>1. Cardinality(s \ {x}) = Cardinality(s) - 1
      BY <1>1, <2>3, FS_RemoveElement
    <3> QED
      BY <1>1, <2>2, <3>1
  <2>5. Right(s \ {x})
    <3> SUFFICES ASSUME ~ Right(s \ {x}) PROVE FALSE
      OBVIOUS
    <3>1. Cardinality(s \ {x}) \in N
      BY <1>1, <2>4
    <3> QED
      BY <1>1, <2>1, <2>4, <3>1
  <2> QED
    BY <1>4, <2>2, <2>3, <2>5
<1>6. Right(S)
  BY <1>1, <1>5
<1> QED
  BY <1>6 DEF Right

\* The sums of the model are such totals.
LEMMA DealtIsTotal ==
  ASSUME NEW e
  PROVE  Dealt(e) = Total([i \in DealsOf(e) |-> deals[i].cjsl], DealsOf(e))
<1> DEFINE S == DealsOf(e)
           g == [i \in S |-> deals[i].cjsl]
           Plain(iter) == [s \in SUBSET S |->
             IF s = {} THEN 0 ELSE deals[PickIn(s)].cjsl + iter[s \ {PickIn(s)}]]
<1>1. Dealt(e) = (CHOOSE iter : iter = Plain(iter))[S]
  BY DEF Dealt, MapThenSumSet, MapThenFoldSet, PickIn
<1>2. \A s \in SUBSET S : s # {} => PickIn(s) \in S
  BY DEF PickIn
<1>3. ASSUME NEW iter PROVE Plain(iter) = Unfolded(g, SUBSET S, iter)
  BY <1>2 DEF Unfolded
<1>4. (CHOOSE iter : iter = Plain(iter)) = (CHOOSE iter : iter = Unfolded(g, SUBSET S, iter))
  <2>1. \A iter : (iter = Plain(iter)) <=> (iter = Unfolded(g, SUBSET S, iter))
    BY <1>3
  <2> HIDE DEF Plain
  <2> QED
    BY <2>1
<1> QED
  BY <1>1, <1>4 DEF Total, FoldOf

LEMMA SalesAreTotal ==
  ASSUME NEW S
  PROVE  MapThenSumSet(LAMBDA e : order[e].wtsl, S) = Total([e \in S |-> order[e].wtsl], S)
<1> DEFINE g == [e \in S |-> order[e].wtsl]
           Plain(iter) == [s \in SUBSET S |->
             IF s = {} THEN 0 ELSE order[PickIn(s)].wtsl + iter[s \ {PickIn(s)}]]
<1>1. MapThenSumSet(LAMBDA e : order[e].wtsl, S) = (CHOOSE iter : iter = Plain(iter))[S]
  BY DEF MapThenSumSet, MapThenFoldSet, PickIn
<1>2. \A s \in SUBSET S : s # {} => PickIn(s) \in S
  BY DEF PickIn
<1>3. ASSUME NEW iter PROVE Plain(iter) = Unfolded(g, SUBSET S, iter)
  BY <1>2 DEF Unfolded
<1>4. (CHOOSE iter : iter = Plain(iter)) = (CHOOSE iter : iter = Unfolded(g, SUBSET S, iter))
  <2>1. \A iter : (iter = Plain(iter)) <=> (iter = Unfolded(g, SUBSET S, iter))
    BY <1>3
  <2> HIDE DEF Plain
  <2> QED
    BY <2>1
<1> QED
  BY <1>1, <1>4 DEF Total, FoldOf

LEMMA PurchasesAreTotal ==
  ASSUME NEW S
  PROVE  MapThenSumSet(Dealt, S) = Total([e \in S |-> Dealt(e)], S)
<1> DEFINE g == [e \in S |-> Dealt(e)]
           Plain(iter) == [s \in SUBSET S |->
             IF s = {} THEN 0 ELSE Dealt(PickIn(s)) + iter[s \ {PickIn(s)}]]
<1>1. MapThenSumSet(Dealt, S) = (CHOOSE iter : iter = Plain(iter))[S]
  BY DEF MapThenSumSet, MapThenFoldSet, PickIn
<1>2. \A s \in SUBSET S : s # {} => PickIn(s) \in S
  BY DEF PickIn
<1>3. ASSUME NEW iter PROVE Plain(iter) = Unfolded(g, SUBSET S, iter)
  BY <1>2 DEF Unfolded
<1>4. (CHOOSE iter : iter = Plain(iter)) = (CHOOSE iter : iter = Unfolded(g, SUBSET S, iter))
  <2>1. \A iter : (iter = Plain(iter)) <=> (iter = Unfolded(g, SUBSET S, iter))
    BY <1>3
  <2> HIDE DEF Plain
  <2> QED
    BY <2>1
<1> QED
  BY <1>1, <1>4 DEF Total, FoldOf

\* An order is never dealt for less than nothing.
LEMMA DealtIsNat ==
  ASSUME TypeOK, NEW e PROVE Dealt(e) \in Nat
<1>1. DealsOf(e) \subseteq 1 .. Len(deals) /\ Len(deals) \in Nat
  BY DEF TypeOK, DealsOf
<1>2. IsFiniteSet(DealsOf(e))
  <2>1. IsFiniteSet(1 .. Len(deals))
    BY <1>1, FS_Interval
  <2> QED
    BY <1>1, <2>1, FS_Subset
<1>3. \A i \in DealsOf(e) : deals[i].cjsl \in Nat
  <2>1. \A i \in DOMAIN deals : deals[i] \in Deal
    BY DEF TypeOK
  <2> QED
    BY <2>1 DEF DealsOf, Deal
<1>4. Total([i \in DealsOf(e) |-> deals[i].cjsl], DealsOf(e)) \in Nat
  BY <1>2, <1>3, TotalTakes
<1> QED
  BY <1>4, DealtIsTotal

\* Of the deals of one order only one is listed first.
LEMMA OneFirst ==
  ASSUME TypeOK, NEW i \in DOMAIN deals, NEW j \in DOMAIN deals,
         deals[i].wtbh = deals[j].wtbh, FirstListed(i), FirstListed(j)
  PROVE  i = j
<1>1. i \in DealsOf(deals[j].wtbh) /\ j \in DealsOf(deals[i].wtbh)
  BY DEF DealsOf
<1>2. ~ ListedBefore(i, j) /\ ~ ListedBefore(j, i)
  BY <1>1 DEF FirstListed
<1>3. i \in Int /\ j \in Int
  BY DEF TypeOK
<1> QED
  BY <1>2, <1>3 DEF ListedBefore

\* Each sale a thread knows of follows up a purchase of its own, dealt in
\* full for that volume.
LEMMA SalesCoveredLemma ==
  ASSUME FollowInv, OncePerThread PROVE SalesCovered
<1> SUFFICES ASSUME NEW t \in Threads
             PROVE  LET sales == {e \in DOMAIN order : /\ order[e].placedBy = t
                                       /\ order[e].mmlb = "S" /\ Kept(e)}
                        bought == {e \in DOMAIN order : order[e].mmlb = "B"}
                    IN  MapThenSumSet(LAMBDA e : order[e].wtsl, sales)
                          <= MapThenSumSet(Dealt, bought)
  BY DEF SalesCovered
<1> DEFINE sales == {e \in DOMAIN order : /\ order[e].placedBy = t
                                          /\ order[e].mmlb = "S" /\ Kept(e)}
           bought == {e \in DOMAIN order : order[e].mmlb = "B"}
           g == [e \in sales |-> order[e].wtsl]
           h == [e \in bought |-> Dealt(e)]
           f == [e \in sales |-> deals[order[e].tradeCode].wtbh]
<1>0. TypeOK /\ BookInv /\ FollowUpMirrorsFill /\ OncePerThread
  BY DEF FollowInv, IInv, TypeInv
<1>1. IsFiniteSet(sales) /\ IsFiniteSet(bought)
  <2>1. DOMAIN order = 1 .. Len(order) /\ Len(order) \in Nat
    BY <1>0 DEF TypeOK
  <2>2. IsFiniteSet(DOMAIN order)
    BY <2>1, FS_Interval
  <2> QED
    BY <2>2, FS_Subset
<1>2. ASSUME NEW e \in sales
      PROVE  /\ ByRobot(e) /\ order[e].tradeCode \in DOMAIN deals /\ FirstListed(order[e].tradeCode)
             /\ f[e] \in bought /\ g[e] \in Nat /\ g[e] = h[f[e]]
  <2>1. ByRobot(e)
    BY UserAssumption DEF ByRobot
  <2> DEFINE d == deals[order[e].tradeCode].wtbh
  <2>2. /\ order[e].tradeCode \in DOMAIN deals /\ FirstListed(order[e].tradeCode)
        /\ Dealt(d) = order[d].wtsl /\ order[e].wtsl = order[d].wtsl /\ order[d].mmlb = "B"
    BY <1>0, <2>1 DEF FollowUpMirrorsFill
  <2>3. d \in bought /\ f[e] = d
    BY <1>0, <2>2 DEF BookInv
  <2>4. g[e] = order[e].wtsl /\ order[e].wtsl \in Nat
    BY <1>0, OrderTyped
  <2>5. h[d] = Dealt(d)
    BY <2>3
  <2> HIDE DEF d, h, g, f, bought, sales
  <2> QED
    BY <2>1, <2>2, <2>3, <2>4, <2>5
<1>3. \A d \in bought : h[d] \in Nat
  BY <1>0, DealtIsNat
<1>4. ASSUME NEW e \in sales, NEW k \in sales, f[e] = f[k] PROVE e = k
  <2>1. deals[order[e].tradeCode].wtbh = deals[order[k].tradeCode].wtbh
    BY <1>4
  <2>2. order[e].tradeCode = order[k].tradeCode
    BY <1>0, <1>2, <2>1, OneFirst
  <2> QED
    BY <1>0, <1>2, <2>2 DEF OncePerThread
<1>5. Total(g, sales) <= Total(h, bought)
  <2>1. \A e \in sales : g[e] \in Nat /\ f[e] \in bought /\ g[e] <= h[f[e]]
    <3> TAKE e \in sales
    <3>1. g[e] \in Nat /\ f[e] \in bought /\ g[e] = h[f[e]]
      BY <1>2
    <3> HIDE DEF g, f, h, bought, sales
    <3> QED
      BY <3>1
  <2>2. \A e, k \in sales : f[e] = f[k] => e = k
    BY <1>4
  <2> HIDE DEF g, f, h, bought, sales
  <2> QED
    BY <1>1, <1>3, <2>1, <2>2, TotalInto
<1>6. /\ MapThenSumSet(LAMBDA e : order[e].wtsl, sales) = Total(g, sales)
      /\ MapThenSumSet(Dealt, bought) = Total(h, bought)
  BY SalesAreTotal, PurchasesAreTotal
<1> QED
  BY <1>5, <1>6

\* One thread never offers for sale more than the purchases dealt so far
\* (setNeedSubmit and saveTradeOrder, over any number of ticks, aborts and
\* restarts): each of its sales takes the volume of a purchase dealt in full,
\* and no two of them the same purchase.
THEOREM SalesCoveredAlways == Spec => []SalesCovered
<1>1. FollowInv /\ OncePerThread => SalesCovered
  BY SalesCoveredLemma
<1> QED
  BY <1>1, FollowInit, FollowNext, OncePerThreadAlways, PTL DEF Spec

-----------------------------------------------------------------------------
\* Of the other legs the rows name for deal c, one was asked to be revoked or
\* is still to be.
LegsAsked(t, c) ==
  LET legs == Siblings(orderList[t], deals[c].wtbh)
  IN legs # {} => \E e \in legs : e \in asked \/ \E q \in toRevoke[t] : q.entrustCode = e

AskedInv == \A t \in Threads : \A r \in toSubmit[t] : LegsAsked(t, r.tradeCode)

\* The plan has a revoke for each deal with something to submit.
LEMMA PlanAsks ==
  ASSUME FollowInv, NEW t \in Threads, Plan(t), NEW r \in toSubmit'[t]
  PROVE  LegsAsked(t, r.tradeCode)'
<1>0. TypeInv /\ TypeOK
  BY DEF FollowInv, IInv, TypeInv
<1>1. PICK found \in SUBSET Stocks :
        LET ds == {d \in dealList[t] : d.zqdm \in found}
        IN  /\ toSubmit' = [toSubmit EXCEPT ![t] = UNION {NeedSubmit(tradeOrder, d) : d \in ds}]
            /\ \E rs \in RevokeLists(tradeOrder, ds) : toRevoke' = [toRevoke EXCEPT ![t] = rs]
  BY DEF Plan
<1> DEFINE ds == {d \in dealList[t] : d.zqdm \in found}
<1>2. PICK rs \in RevokeLists(tradeOrder, ds) : toRevoke' = [toRevoke EXCEPT ![t] = rs]
  BY <1>1
<1>3. /\ toSubmit'[t] = UNION {NeedSubmit(tradeOrder, d) : d \in ds} /\ toRevoke'[t] = rs
      /\ orderList'[t] = tradeOrder /\ deals' = deals
  BY <1>0, <1>1, <1>2 DEF Plan, TypeOK, brokerVars
<1>4. PICK d \in ds : r \in NeedSubmit(tradeOrder, d)
  BY <1>3
<1>5. r.tradeCode = d.cjbh /\ Handled(tradeOrder, d)
  BY <1>4 DEF NeedSubmit, Request, Handled
<1>6. deals[d.cjbh].wtbh = d.wtbh
  BY DEF FollowInv, HandInv, MergedRight
<1>7. CASE Siblings(tradeOrder, d.wtbh) # {}
  <2>1. Cardinality({q \in rs : q.tradeCode = d.cjbh}) = 1
    BY <1>5, <1>7 DEF RevokeLists
  <2>2. PICK q \in rs : q.tradeCode = d.cjbh
    <3> DEFINE ofDeal == {q \in rs : q.tradeCode = d.cjbh}
    <3>1. Cardinality({}) # 1
      BY FS_EmptySet
    <3>2. ofDeal # {}
      <4> HIDE DEF ofDeal
      <4>1. Cardinality(ofDeal) = 1
        BY <2>1 DEF ofDeal
      <4> QED
        BY <3>1, <4>1
    <3> QED
      BY <3>2
  <2>3. PICK c \in ds : q \in [tradeCode: {c.cjbh}, entrustCode: Siblings(tradeOrder, c.wtbh)]
    BY DEF RevokeLists
  <2>4. c = d
    BY <2>2, <2>3 DEF FollowInv, IInv, UniqueInv
  <2>5. q.entrustCode \in Siblings(tradeOrder, d.wtbh)
    BY <2>3, <2>4
  <2> QED
    BY <1>3, <1>5, <1>6, <2>5 DEF LegsAsked
<1>8. CASE Siblings(tradeOrder, d.wtbh) = {}
  BY <1>3, <1>5, <1>6, <1>8 DEF LegsAsked
<1> QED
  BY <1>7, <1>8

\* A step that leaves the tick's rows and what is asked or to be asked.
LEMMA LegsStayAsked ==
  ASSUME FollowInv, [Next]_vars, NEW t \in Threads, NEW r \in toSubmit[t], LegsAsked(t, r.tradeCode),
         orderList'[t] = orderList[t], asked \subseteq asked',
         \A q \in toRevoke[t] : q \in toRevoke'[t] \/ q.entrustCode \in asked'
  PROVE  LegsAsked(t, r.tradeCode)'
<1>1. r.tradeCode \in DOMAIN deals
  BY DEF FollowInv, HandInv, Mirrors
<1>2. deals'[r.tradeCode] = deals[r.tradeCode]
  BY <1>1, DealsStay DEF FollowInv, IInv
<1> QED
  BY <1>2 DEF LegsAsked

LEMMA AskedNext ==
  ASSUME FollowInv, AskedInv, [Next]_vars
  PROVE  AskedInv'
<1>0. TypeOK
  BY DEF FollowInv, IInv, TypeInv
<1> SUFFICES ASSUME NEW t \in Threads, NEW r \in toSubmit'[t]
             PROVE  LegsAsked(t, r.tradeCode)'
  BY DEF AskedInv
<1>1. CASE Plan(t)
  BY <1>1, PlanAsks
<1>2. CASE /\ toSubmit'[t] \subseteq toSubmit[t] /\ orderList'[t] = orderList[t]
           /\ asked \subseteq asked'
           /\ \A q \in toRevoke[t] : q \in toRevoke'[t] \/ q.entrustCode \in asked'
  BY <1>2, LegsStayAsked DEF AskedInv
<1>3. ASSUME NEW u \in Threads, Revoke(u)
      PROVE  /\ toSubmit'[t] = toSubmit[t] /\ orderList'[t] = orderList[t]
             /\ asked \subseteq asked'
             /\ \A q \in toRevoke[t] : q \in toRevoke'[t] \/ q.entrustCode \in asked'
  <2>1. PICK q \in toRevoke[u] : /\ asked' = asked \cup {q.entrustCode}
                                 /\ toRevoke' = [toRevoke EXCEPT ![u] = @ \ {q}]
    BY <1>3 DEF Revoke
  <2>2. UNCHANGED <<toSubmit, orderList>>
    BY <1>3 DEF Revoke
  <2> QED
    BY <1>0, <2>1, <2>2 DEF TypeOK
<1>4. ASSUME NEW u \in Threads, Plan(u), u # t
      PROVE  UNCHANGED <<toSubmit[t], orderList[t], toRevoke[t], asked>>
  BY <1>0, <1>4 DEF Plan, TypeOK, brokerVars
<1>5. ASSUME NEW u \in Threads, SubmitRejected(u) \/ SaveTradeOrder(u)
      PROVE  toSubmit'[t] \subseteq toSubmit[t] /\ UNCHANGED <<orderList, toRevoke, asked>>
  BY <1>0, <1>5 DEF SubmitRejected, SaveTradeOrder, TypeOK, brokerVars
<1>6. ASSUME NEW u \in Threads, NEW p, Leave(u, p), u # t
      PROVE  UNCHANGED <<toSubmit[t], orderList[t], toRevoke[t], asked>>
  BY <1>0, <1>6 DEF Leave, TypeOK, brokerVars
<1>7. ASSUME NEW p, Leave(t, p) PROVE FALSE
  BY <1>0, <1>7 DEF Leave, TypeOK
<1>8. ASSUME Crash PROVE FALSE
  BY <1>8 DEF Crash
<1>9. CASE UNCHANGED <<toSubmit, orderList, toRevoke, asked>>
  BY <1>2, <1>9
<1> QED
  BY <1>1, <1>2, <1>3, <1>4, <1>5, <1>6, <1>7, <1>8, <1>9
     DEF Next, Tick, PlaceManually, Fill, QueryDeals, SubmitAccepted, EndTick, AbortTick,
         HangTick, vars, brokerVars, threadVars

\* An order that is new was submitted after the last revoke of its tick.
LEMMA SubmitStep ==
  ASSUME TypeInv, [Next]_vars, NEW t \in Threads, NEW e \in DOMAIN order' \ DOMAIN order,
         order'[e].placedBy = t
  PROVE  toRevoke[t] = {} /\ \E r \in toSubmit[t] : order'[e].tradeCode = r.tradeCode
<1> USE DEF TypeInv
<1>1. CASE PlaceManually
  <2>1. PICK s \in Stocks, side \in Sides, v \in Volumes :
          Accept([zqdm |-> s, mmlb |-> side, wtsl |-> v, live |-> TRUE,
                  placedBy |-> User, tradeCode |-> 0])
    BY <1>1 DEF PlaceManually
  <2> DEFINE o == [zqdm |-> s, mmlb |-> side, wtsl |-> v, live |-> TRUE,
                   placedBy |-> User, tradeCode |-> 0]
  <2>2. o \in Order
    BY VolumesAssumption DEF Order
  <2>3. order'[e] = o
    BY <2>1, <2>2, AcceptTyped
  <2> QED
    BY <2>3, UserAssumption
<1>2. ASSUME NEW u \in Threads, SubmitAccepted(u)
      PROVE  toRevoke[t] = {} /\ \E r \in toSubmit[t] : order'[e].tradeCode = r.tradeCode
  <2>1. PICK r \in toSubmit[u] :
          Accept([zqdm |-> r.stockCode, mmlb |-> r.tradeType, wtsl |-> r.amount,
                  live |-> TRUE, placedBy |-> u, tradeCode |-> r.tradeCode])
    BY <1>2 DEF SubmitAccepted
  <2> DEFINE o == [zqdm |-> r.stockCode, mmlb |-> r.tradeType, wtsl |-> r.amount,
                   live |-> TRUE, placedBy |-> u, tradeCode |-> r.tradeCode]
  <2>2. o \in Order
    BY DEF Order, TypeOK, SubmitRequest
  <2>3. order'[e] = o
    BY <2>1, <2>2, AcceptTyped
  <2>4. u = t
    BY <2>3
  <2> QED
    BY <1>2, <2>3, <2>4 DEF SubmitAccepted
<1>3. ASSUME NEW u \in Threads, Revoke(u) PROVE FALSE
  BY <1>3, RevokeKeepsOrders
<1>4. CASE order' = order
  BY <1>4
<1> QED
  BY <1>1, <1>2, <1>3, <1>4
     DEF Next, Tick, Fill, Crash, QueryDeals, Plan, SubmitRejected, SaveTradeOrder, EndTick,
         AbortTick, HangTick, Leave, vars, brokerVars

\* handleResult: for every deal with another leg in the rows that the tick
\* read, the broker was asked to revoke that leg before the first follow-up.
THEOREM OtherLegAskedFirstAlways == Spec => OtherLegAskedFirst
<1> DEFINE AskedFirst == \A t \in Threads, e \in DOMAIN order' \ DOMAIN order :
             order'[e].placedBy = t =>
               LET legs == Siblings(orderList[t], deals[order'[e].tradeCode].wtbh)
               IN  legs # {} => legs \cap asked # {}
<1>1. Init => AskedInv
  BY DEF Init, AskedInv
<1>2. FollowInv /\ AskedInv /\ [Next]_vars => AskedInv'
  BY AskedNext
<1>3. FollowInv /\ AskedInv /\ [Next]_vars => [AskedFirst]_vars
  <2> SUFFICES ASSUME FollowInv, AskedInv, [Next]_vars, NEW t \in Threads,
                      NEW e \in DOMAIN order' \ DOMAIN order, order'[e].placedBy = t
               PROVE  LET legs == Siblings(orderList[t], deals[order'[e].tradeCode].wtbh)
                      IN  legs # {} => legs \cap asked # {}
    OBVIOUS
  <2>1. toRevoke[t] = {} /\ \E r \in toSubmit[t] : order'[e].tradeCode = r.tradeCode
    BY SubmitStep DEF FollowInv, IInv
  <2> QED
    BY <2>1 DEF AskedInv, LegsAsked
<1> QED
  BY <1>1, <1>2, <1>3, FollowInit, FollowNext, PTL DEF Spec, OtherLegAskedFirst

=============================================================================
