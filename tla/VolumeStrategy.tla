---------------------------- MODULE VolumeStrategy ----------------------------
(***************************************************************************)
(* The trading robot: VolumeStrategyHandler driven by the trade ticker.    *)
(* One tick of a thread reads the day's deals from the broker, reads the   *)
(* trade_order table, computes which orders to revoke and to submit, then  *)
(* sends them one by one and saves a row for every accepted order.  Every  *)
(* POST /system/executeTask runs a tick on its own request thread, nothing *)
(* keeps two ticks apart, and a tick may end at any call that throws.      *)
(*                                                                         *)
(* Broker, user and clock are the environment.  Prices and the daily       *)
(* restart of codes are left out: one trading day, amounts only.           *)
(***************************************************************************)
EXTENDS Integers, Sequences, FiniteSets, FiniteSetsExt

CONSTANTS
  Threads,       \* request threads that may run a tick
  MaxOrders,     \* bound on the orders the broker accepts that day
  Stocks,        \* stock codes (zqdm)
  Ruled,         \* stocks whose open trade rule every lookup finds
  Volumes,       \* order volumes (wtsl) a user may choose
  MaxManual,     \* bound on the orders the user places by hand
  NewestFirst,   \* the broker lists the latest deal first
  CanHang,       \* a broker call may never return (no read timeout is set)
  User           \* who places an order by hand; not a thread

ASSUME UserAssumption == User \notin Threads
ASSUME RuledAssumption == Ruled \subseteq Stocks
ASSUME VolumesAssumption == Volumes \subseteq Nat \ {0}
ASSUME BoundsAssumption == MaxOrders \in Nat /\ MaxManual \in Nat
ASSUME FlagsAssumption == NewestFirst \in BOOLEAN /\ CanHang \in BOOLEAN

VARIABLES
  order,         \* broker: the orders accepted; the index is the code (wtbh)
  deals,         \* broker: the deals of the day; the index is the code (cjbh)
  asked,         \* broker: codes it was asked to revoke
  tradeOrder,    \* table trade_order
  pc,            \* per thread: where the tick stands
  dealList,      \* per thread: input.dealDataList, merged
  orderList,     \* per thread: input.tradeOrderList
  toRevoke,      \* per thread: rest of result.revokeList
  toSubmit,      \* per thread: rest of result.submitList
  holding        \* per thread: code in the response not saved yet

brokerVars == <<order, deals, asked>>
threadVars == <<pc, dealList, orderList, toRevoke, toSubmit, holding>>
vars == <<brokerVars, tradeOrder, threadVars>>

Sides == {"B", "S"}
Entrusts == 1 .. MaxOrders
NoEntrust == 0

(***************************************************************************)
(* Records.  placedBy and tradeCode of an order are history: the broker    *)
(* does not know them.  tradeCode 0 is an order placed by hand.            *)
(***************************************************************************)
Order == [zqdm: Stocks, mmlb: Sides, wtsl: Nat, live: BOOLEAN,
          placedBy: Threads \cup {User}, tradeCode: Nat]
Deal == [wtbh: Entrusts, cjsl: Nat]
MergedDeal == [cjbh: Nat, wtbh: Entrusts, cjsl: Nat, mmlb: Sides, zqdm: Stocks]
TradeOrder == [tradeCode: Nat, tradeType: Sides, stockCode: Stocks,
               volume: Nat, entrustCode: Entrusts]
RevokeRequest == [tradeCode: Nat, entrustCode: Entrusts]
SubmitRequest == [tradeCode: Nat, tradeType: Sides, stockCode: Stocks,
                  amount: Nat]

TypeOK ==
  /\ order \in Seq(Order) /\ Len(order) <= MaxOrders
  /\ deals \in Seq(Deal)
  /\ asked \subseteq Entrusts
  /\ tradeOrder \subseteq TradeOrder
  /\ pc \in [Threads -> {"idle", "planning", "acting", "saving", "hung"}]
  /\ dealList \in [Threads -> SUBSET MergedDeal]
  /\ orderList \in [Threads -> SUBSET TradeOrder]
  /\ toRevoke \in [Threads -> SUBSET RevokeRequest]
  /\ toSubmit \in [Threads -> SUBSET SubmitRequest]
  /\ holding \in [Threads -> Entrusts \cup {NoEntrust}]

Init ==
  /\ order = << >>
  /\ deals = << >>
  /\ asked = {}
  /\ tradeOrder = {}
  /\ pc = [t \in Threads |-> "idle"]
  /\ dealList = [t \in Threads |-> {}]
  /\ orderList = [t \in Threads |-> {}]
  /\ toRevoke = [t \in Threads |-> {}]
  /\ toSubmit = [t \in Threads |-> {}]
  /\ holding = [t \in Threads |-> NoEntrust]

-----------------------------------------------------------------------------
(***************************************************************************)
(* The broker's book.                                                      *)
(***************************************************************************)
DealsOf(e) == {i \in DOMAIN deals : deals[i].wtbh = e}

Dealt(e) == MapThenSumSet(LAMBDA i : deals[i].cjsl, DealsOf(e))

Manual == {e \in DOMAIN order : order[e].placedBy = User}

\* The broker accepts o under the next code.
Accept(o) == Len(order) < MaxOrders /\ order' = Append(order, o)

\* The user places an order by hand at the broker.
PlaceManually ==
  /\ Cardinality(Manual) < MaxManual
  /\ \E s \in Stocks, side \in Sides, v \in Volumes :
       Accept([zqdm |-> s, mmlb |-> side, wtsl |-> v, live |-> TRUE,
               placedBy |-> User, tradeCode |-> 0])
  /\ UNCHANGED <<deals, asked, tradeOrder, threadVars>>

\* The exchange fills a part of a live order, or all that is left of it.
Fill ==
  /\ \E e \in DOMAIN order :
       /\ order[e].live
       /\ \E v \in 1 .. order[e].wtsl - Dealt(e) :
            deals' = Append(deals, [wtbh |-> e, cjsl |-> v])
  /\ UNCHANGED <<order, asked, tradeOrder, threadVars>>

-----------------------------------------------------------------------------
(***************************************************************************)
(* What a tick computes.                                                   *)
(***************************************************************************)

\* Deals and requests keep the order of the broker's list.
ListedBefore(c, d) == IF NewestFirst THEN c > d ELSE c < d

\* The code a merged deal carries: that of the partial deal listed first.
FirstListed(i) ==
  \A j \in DealsOf(deals[i].wtbh) : ~ ListedBefore(j, i)

Merged(i) == [cjbh |-> i, wtbh |-> deals[i].wtbh, cjsl |-> Dealt(deals[i].wtbh),
              mmlb |-> order[deals[i].wtbh].mmlb,
              zqdm |-> order[deals[i].wtbh].zqdm]

\* Mutant: partly dealt orders are kept.
MergeDealListPartial == {Merged(i) : i \in {i \in DOMAIN deals : FirstListed(i)}}

\* One entry for each order of the deal list, with the sum of its deals;
\* only orders dealt in full are kept.
MergeDealList ==
  {Merged(i) : i \in {i \in DOMAIN deals :
     /\ FirstListed(i)
     /\ Dealt(deals[i].wtbh) = order[deals[i].wtbh].wtsl}}

\* Mutant: sales are followed by a sale as well.
FollowUpSidesBoth(d) == Sides

\* A deal of a buy order is followed by a sale and a purchase, a deal of a
\* sale by a purchase.
FollowUpSides(d) == IF d.mmlb = "B" THEN {"S", "B"} ELSE {"B"}

Request(d, side) == [tradeCode |-> d.cjbh, tradeType |-> side,
                     stockCode |-> d.zqdm, amount |-> d.cjsl]

\* Mutant: the rows are not searched.
NeedSubmitUnchecked(rows, d) == {Request(d, side) : side \in FollowUpSides(d)}

\* Mutant: a row of either side counts.
NeedSubmitEitherSide(rows, d) ==
  {Request(d, side) : side \in {side \in FollowUpSides(d) :
     ~ \E r \in rows : r.tradeCode = d.cjbh}}

\* setNeedSubmit: the follow-ups of deal d the rows know nothing of.
NeedSubmit(rows, d) ==
  {Request(d, side) : side \in {side \in FollowUpSides(d) :
     ~ \E r \in rows : r.tradeCode = d.cjbh /\ r.tradeType = side}}

\* Mutant: the two legs may be of the same side.
SiblingsAnySide(rows, e) ==
  {s.entrustCode : s \in {s \in rows :
     \E r \in rows : r.entrustCode = e /\ r.tradeCode = s.tradeCode}}

\* getNeedRevokeWtbh: the other leg of a pair of which e is one leg.
Siblings(rows, e) ==
  {s.entrustCode : s \in {s \in rows :
     \E r \in rows : /\ r.entrustCode = e
                     /\ r.tradeCode = s.tradeCode
                     /\ r.tradeType # s.tradeType}}

Handled(rows, d) == NeedSubmit(rows, d) # {}

\* The revoke lists a tick may end up with: one sibling, whichever the
\* search finds, for every deal that has something to submit.
RevokeLists(rows, ds) ==
  {rs \in SUBSET UNION {[tradeCode: {d.cjbh}, entrustCode: Siblings(rows, d.wtbh)] :
                          d \in {d \in ds : Handled(rows, d)}} :
     \A d \in ds :
       Handled(rows, d) /\ Siblings(rows, d.wtbh) # {} =>
         Cardinality({r \in rs : r.tradeCode = d.cjbh}) = 1}

FirstRevoke(t, r) ==
  /\ r \in toRevoke[t]
  /\ \A q \in toRevoke[t] : ~ ListedBefore(q.tradeCode, r.tradeCode)

\* For one deal the sale is listed before the purchase.
FirstSubmit(t, r) ==
  /\ r \in toSubmit[t]
  /\ \A q \in toSubmit[t] :
       /\ ~ ListedBefore(q.tradeCode, r.tradeCode)
       /\ q.tradeCode = r.tradeCode /\ q.tradeType = "S" => r.tradeType = "S"

-----------------------------------------------------------------------------
(***************************************************************************)
(* The steps of a tick.                                                    *)
(***************************************************************************)

\* queryInput: the deals are fetched first ...
QueryDeals(t) ==
  /\ pc[t] = "idle"
  /\ pc' = [pc EXCEPT ![t] = "planning"]
  /\ dealList' = [dealList EXCEPT ![t] = MergeDealList]
  /\ UNCHANGED <<brokerVars, tradeOrder, orderList, toRevoke, toSubmit, holding>>

\* ... then the rows; handle(input) works on these two only.
Plan(t) ==
  /\ pc[t] = "planning"
  /\ pc' = [pc EXCEPT ![t] = "acting"]
  /\ orderList' = [orderList EXCEPT ![t] = tradeOrder]
  /\ \E found \in {R \in SUBSET Stocks : Ruled \subseteq R} :
       LET ds == {d \in dealList[t] : d.zqdm \in found}
       IN  /\ toSubmit' = [toSubmit EXCEPT ![t] =
                             UNION {NeedSubmit(tradeOrder, d) : d \in ds}]
           /\ \E rs \in RevokeLists(tradeOrder, ds) :
                toRevoke' = [toRevoke EXCEPT ![t] = rs]
  /\ dealList' = [dealList EXCEPT ![t] = {}]   \* not read again
  /\ UNCHANGED <<brokerVars, tradeOrder, holding>>

\* One revoke.  The broker may honour it or not; the response parser reads
\* success from any answer, so the tick goes on all the same.
Revoke(t) ==
  /\ pc[t] = "acting"
  /\ \E r \in toRevoke[t], honoured \in BOOLEAN :
       /\ FirstRevoke(t, r)
       /\ order' = [order EXCEPT ![r.entrustCode].live = @ /\ ~ honoured]
       /\ asked' = asked \cup {r.entrustCode}
       /\ toRevoke' = [toRevoke EXCEPT ![t] = @ \ {r}]
  /\ UNCHANGED <<deals, tradeOrder, pc, dealList, orderList, toSubmit, holding>>

\* Mutant: submits may overtake revokes.
SubmitAcceptedEarly(t) ==
  /\ pc[t] = "acting"
  /\ \E r \in toSubmit[t] :
       /\ FirstSubmit(t, r)
       /\ Accept([zqdm |-> r.stockCode, mmlb |-> r.tradeType,
                  wtsl |-> r.amount, live |-> TRUE,
                  placedBy |-> t, tradeCode |-> r.tradeCode])
       /\ holding' = [holding EXCEPT ![t] = Len(order')]
  /\ pc' = [pc EXCEPT ![t] = "saving"]
  /\ UNCHANGED <<deals, asked, tradeOrder, dealList, orderList, toRevoke, toSubmit>>

\* One submit the broker accepts; the response with the code arrives.
SubmitAccepted(t) ==
  /\ pc[t] = "acting"
  /\ toRevoke[t] = {}
  /\ \E r \in toSubmit[t] :
       /\ FirstSubmit(t, r)
       /\ Accept([zqdm |-> r.stockCode, mmlb |-> r.tradeType,
                  wtsl |-> r.amount, live |-> TRUE,
                  placedBy |-> t, tradeCode |-> r.tradeCode])
       /\ holding' = [holding EXCEPT ![t] = Len(order')]
  /\ pc' = [pc EXCEPT ![t] = "saving"]
  /\ UNCHANGED <<deals, asked, tradeOrder, dealList, orderList, toRevoke, toSubmit>>

\* Mutant: every row is a sale.
RowSale(r, e) == [tradeCode |-> r.tradeCode, tradeType |-> "S",
                  stockCode |-> r.stockCode, volume |-> r.amount, entrustCode |-> e]

\* The row saved for request r answered with code e.
Row(r, e) == [tradeCode |-> r.tradeCode, tradeType |-> r.tradeType,
              stockCode |-> r.stockCode, volume |-> r.amount, entrustCode |-> e]

\* Mutant: a declined submit is tried again at once.
SubmitRejectedRetry(t) ==
  /\ pc[t] = "acting"
  /\ toRevoke[t] = {}
  /\ \E r \in toSubmit[t] : FirstSubmit(t, r)
  /\ UNCHANGED vars

\* One submit the broker declines: no row, on to the next request.
SubmitRejected(t) ==
  /\ pc[t] = "acting"
  /\ toRevoke[t] = {}
  /\ \E r \in toSubmit[t] :
       /\ FirstSubmit(t, r)
       /\ toSubmit' = [toSubmit EXCEPT ![t] = @ \ {r}]
  /\ UNCHANGED <<brokerVars, tradeOrder, pc, dealList, orderList, toRevoke, holding>>

\* saveTradeOrder: the row of the accepted order.
SaveTradeOrder(t) ==
  /\ pc[t] = "saving"
  /\ \E r \in toSubmit[t] :
       /\ FirstSubmit(t, r)
       /\ tradeOrder' = tradeOrder \cup {Row(r, holding[t])}
       /\ toSubmit' = [toSubmit EXCEPT ![t] = @ \ {r}]
  /\ holding' = [holding EXCEPT ![t] = NoEntrust]
  /\ pc' = [pc EXCEPT ![t] = "acting"]
  /\ UNCHANGED <<brokerVars, dealList, orderList, toRevoke>>

\* The thread's locals are gone; p is where it stands now.
Leave(t, p) ==
  /\ pc' = [pc EXCEPT ![t] = p]
  /\ dealList' = [dealList EXCEPT ![t] = {}]
  /\ orderList' = [orderList EXCEPT ![t] = {}]
  /\ toRevoke' = [toRevoke EXCEPT ![t] = {}]
  /\ toSubmit' = [toSubmit EXCEPT ![t] = {}]
  /\ holding' = [holding EXCEPT ![t] = NoEntrust]
  /\ UNCHANGED <<brokerVars, tradeOrder>>

EndTick(t) ==
  /\ pc[t] = "acting"
  /\ toRevoke[t] = {} /\ toSubmit[t] = {}
  /\ Leave(t, "idle")

\* Calls are left to make.
Unfinished(t) ==
  \/ pc[t] \in {"planning", "saving"}
  \/ pc[t] = "acting" /\ (toRevoke[t] # {} \/ toSubmit[t] # {})

\* Any call of the tick throws - broker unreachable or a login page instead of
\* an answer, response lost, a code of no known type (getPrecision), database
\* or cache error - and runTradeTicker logs it and goes on.
AbortTick(t) ==
  /\ Unfinished(t)
  /\ Leave(t, "idle")

\* A call to the broker never returns.
HangTick(t) ==
  /\ CanHang /\ Unfinished(t)
  /\ Leave(t, "hung")

\* The process is killed and started again: only the table survives.
Crash ==
  /\ pc' = [t \in Threads |-> "idle"]
  /\ dealList' = [t \in Threads |-> {}]
  /\ orderList' = [t \in Threads |-> {}]
  /\ toRevoke' = [t \in Threads |-> {}]
  /\ toSubmit' = [t \in Threads |-> {}]
  /\ holding' = [t \in Threads |-> NoEntrust]
  /\ UNCHANGED <<brokerVars, tradeOrder>>

Tick(t) ==
  \/ QueryDeals(t)
  \/ Plan(t)
  \/ Revoke(t)
  \/ SubmitAccepted(t)
  \/ SubmitRejected(t)
  \/ SaveTradeOrder(t)
  \/ EndTick(t)
  \/ AbortTick(t)
  \/ HangTick(t)

Next ==
  \/ PlaceManually
  \/ Fill
  \/ Crash
  \/ \E t \in Threads : Tick(t)

Spec == Init /\ [][Next]_vars

-----------------------------------------------------------------------------
(***************************************************************************)
(* Properties.                                                             *)
(***************************************************************************)
Saved(e) == \E r \in tradeOrder : r.entrustCode = e

\* The robot knows of e: its row is saved or its code is about to be.
Kept(e) == Saved(e) \/ \E t \in Threads : holding[t] = e

ByRobot(e) == order[e].placedBy # User

\* Every row of trade_order stands for one accepted order, the one its
\* entrust code names, with that order's deal, side, stock and volume
\* (handleResult pairs the response of one request with that request).
RowsBacked ==
  /\ \A r \in tradeOrder :
       /\ r.entrustCode \in DOMAIN order
       /\ LET o == order[r.entrustCode]
          IN  /\ o.placedBy \in Threads
              /\ o.tradeCode = r.tradeCode /\ o.mmlb = r.tradeType
              /\ o.zqdm = r.stockCode /\ o.wtsl = r.volume
  /\ \A r, s \in tradeOrder : r.entrustCode = s.entrustCode => r = s

\* Across all the ticks of one thread, whatever aborts, hangs and restarts
\* happen in between, at most one order for each follow-up of a deal is one
\* the robot knows of: a second one is only placed when the row of the first
\* was lost.  (Two threads may well place two: see the README.)
OncePerThread ==
  \A e, f \in DOMAIN order :
    /\ ByRobot(e) /\ order[e].placedBy = order[f].placedBy
    /\ order[e].tradeCode = order[f].tradeCode
    /\ order[e].mmlb = order[f].mmlb
    /\ Kept(e) /\ Kept(f)
    => e = f

\* Every order of the robot follows up an order that was dealt in full, for
\* the whole of its volume and in the same stock, under the one code that
\* every later query gives that deal; a sale only follows up a purchase.
FollowUpMirrorsFill ==
  \A e \in DOMAIN order : ByRobot(e) =>
    /\ order[e].tradeCode \in DOMAIN deals
    /\ LET d == deals[order[e].tradeCode].wtbh
       IN  /\ Dealt(d) = order[d].wtsl
           /\ FirstListed(order[e].tradeCode)
           /\ order[e].wtsl = order[d].wtsl /\ order[e].zqdm = order[d].zqdm
           /\ order[e].mmlb = "S" => order[d].mmlb = "B"

\* One thread never offers for sale more than the purchases dealt so far:
\* over the sales it knows of, the volumes add up to at most those of the
\* purchases dealt in full.
SalesCovered ==
  \A t \in Threads :
    LET sales == {e \in DOMAIN order : /\ order[e].placedBy = t
                                       /\ order[e].mmlb = "S" /\ Kept(e)}
        bought == {e \in DOMAIN order : order[e].mmlb = "B"}
    IN  MapThenSumSet(LAMBDA e : order[e].wtsl, sales)
          <= MapThenSumSet(Dealt, bought)

\* The robot asks the broker to revoke only an order of its own, and only when
\* its order on the other side of the same deal was dealt in full: never a
\* user's order, never a leg of a pair still open.  When both legs are dealt
\* between two ticks, it asks for both.
RevokesOtherLegOnly ==
  \A e \in asked :
    /\ e \in DOMAIN order /\ ByRobot(e)
    /\ \E d \in DOMAIN order :
         /\ ByRobot(d) /\ order[d].tradeCode = order[e].tradeCode
         /\ order[d].mmlb # order[e].mmlb
         /\ Dealt(d) = order[d].wtsl

\* Before a tick places a follow-up for a leg of a pair, the broker has been
\* asked to revoke the other leg, if the rows the tick read name one: all
\* revokes go out before the first submit.
OtherLegAskedFirst ==
  [][\A t \in Threads, e \in DOMAIN order' \ DOMAIN order :
       order'[e].placedBy = t =>
         LET legs == Siblings(orderList[t], deals[order'[e].tradeCode].wtbh)
         IN  legs # {} => legs \cap asked # {}]_vars

-----------------------------------------------------------------------------
(***************************************************************************)
(* Liveness.  The steps of a started tick are taken by a running thread.   *)
(* That ticks are started again, and that the broker does not decline a    *)
(* submit for ever, is an assumption on the operator and the broker.       *)
(***************************************************************************)
TickFairness ==
  \A t \in Threads :
    WF_vars(Plan(t) \/ Revoke(t) \/ SubmitAccepted(t) \/ SubmitRejected(t)
            \/ SaveTradeOrder(t) \/ EndTick(t))

RetryFairness ==
  \A t \in Threads :
    WF_vars(QueryDeals(t)) /\ SF_vars(SubmitAccepted(t))

FairSpec == Spec /\ TickFairness

RetrySpec == Spec /\ TickFairness /\ RetryFairness

\* A tick that began ends, in an idle or in a hung thread.
TickEnds ==
  \A t \in Threads : pc[t] # "idle" ~> pc[t] \in {"idle", "hung"}

\* A tick is cut short: by an exception or by a restart.
Fault == \E t \in Threads : Unfinished(t) /\ pc'[t] = "idle"

\* If ticks are cut short only finitely often, each follow-up of an order
\* dealt in full, of a stock with a rule, gets a row in the end, whatever the
\* broker declined before and wherever the ticks were cut short, as long as
\* the broker has codes.
EveryFillFollowedUp ==
  <>[][~ Fault]_vars =>
  \A e \in Entrusts, side \in Sides :
    /\ e \in DOMAIN order /\ Dealt(e) = order[e].wtsl
    /\ order[e].zqdm \in Ruled /\ side \in FollowUpSides(order[e])
    ~> \/ \E r \in tradeOrder : /\ deals[r.tradeCode].wtbh = e
                                /\ r.tradeType = side
       \/ Len(order) = MaxOrders

=============================================================================
