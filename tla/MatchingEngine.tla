--------------------------- MODULE MatchingEngine ---------------------------
(***************************************************************************)
(* The single-threaded matching core: MatchingEngine (src/MatchingEngine.  *)
(* cpp) over its OrderBook and slab pool, driven one feed message at a     *)
(* time as ReplayEngine::applyMessage does (allocate, fill in the Order,   *)
(* call the engine, drain the fills).                                      *)
(*                                                                         *)
(* A CANCEL, a MODIFY of an unknown id and an ADD of a resting id are one  *)
(* step.  An order that enters the match loop becomes `incoming'; every    *)
(* turn of the loop is one MatchStep, and FinishMatch is the loop's exit   *)
(* together with the tail of matchLimit / matchMarket / matchIOC and the   *)
(* drain.  No other message is taken meanwhile: the engine has one thread. *)
(* Logical timestamps and symbols do not influence matching and are left   *)
(* out here.                                                               *)
(***************************************************************************)
EXTENDS OrderBook

VARIABLES
  slab,       \* contents of the pool's slots
  levels,     \* m_bids and m_asks
  orderMap,   \* m_orderMap
  m_fills,    \* fills not drained yet
  incoming,   \* the order in the match loop, or NoSlot
  drained     \* m_fillScratch: the fills of the last message

vars == <<slab, levels, orderMap, m_fills, incoming, drained>>

Fill == [buyOrderId : Ids, sellOrderId : Ids, price : Prices, qty : Nat]

Init ==
  /\ slab = [s \in Slots |-> NoOrder]
  /\ levels = [side \in Sides |-> [p \in Prices |-> NoLevel]]
  /\ orderMap = [id \in Ids |-> NoSlot]
  /\ m_fills = <<>>
  /\ incoming = NoSlot
  /\ drained = <<>>

-----------------------------------------------------------------------------
(* The match loop *)

Opposite(side) == IF side = "BUY" THEN "SELL" ELSE "BUY"

bestOpposite(side) ==
  IF side = "BUY" THEN getBestAsk(levels) ELSE getBestBid(levels)

crosses_mutStrict(o, restPrice) ==
  \/ o.type = "MARKET"
  \/ IF o.side = "BUY" THEN restPrice < o.price ELSE restPrice > o.price

\* respectPrice is FALSE for MARKET orders only.
crosses(o, restPrice) ==
  \/ o.type = "MARKET"
  \/ IF o.side = "BUY" THEN restPrice <= o.price ELSE restPrice >= o.price

\* The while condition of matchOneSide and its three breaks.
LoopContinues ==
  LET o == slab[incoming]
      restPrice == bestOpposite(o.side)
  IN /\ ~isFilled(o)
     /\ restPrice # 0
     /\ crosses(o, restPrice)

FillOf(o, r, price, qty) ==
  [buyOrderId  |-> IF o.side = "BUY" THEN o.orderId ELSE r.orderId,
   sellOrderId |-> IF o.side = "BUY" THEN r.orderId ELSE o.orderId,
   price |-> price, qty |-> qty]

matchQty(o, r) ==
  IF remainingQty(o) <= remainingQty(r) THEN remainingQty(o) ELSE remainingQty(r)

MatchStep ==
  /\ incoming # NoSlot
  /\ LoopContinues
  /\ LET o == slab[incoming]
         restPrice == bestOpposite(o.side)
         lv == levels[Opposite(o.side)][restPrice]
         resting == front(lv)
         q == matchQty(o, slab[resting])
         r == [slab[resting] EXCEPT !.filledQty = @ + q]
         traded == [slab EXCEPT ![incoming].filledQty = @ + q, ![resting] = r]
         decreased == [levels EXCEPT ![Opposite(o.side)][restPrice] =
                         decreaseTotalQty(@, q)]
     IN /\ m_fills' = Append(m_fills, FillOf(o, r, restPrice, q))
        /\ IF isFilled(r)
           THEN /\ levels' = book_removeOrder(decreased, resting, r)
                /\ orderMap' = [orderMap EXCEPT ![r.orderId] = NoSlot]
                /\ slab' = [traded EXCEPT ![resting] = NoOrder]
           ELSE /\ levels' = decreased
                /\ slab' = traded
                /\ UNCHANGED orderMap
  /\ UNCHANGED <<incoming, drained>>

drainFillsInto_mutCopy(fills) ==
  /\ drained' = fills
  /\ m_fills' = fills

\* drainFillsInto(m_fillScratch): clear the target, then swap.
drainFillsInto(fills) ==
  /\ drained' = fills
  /\ m_fills' = <<>>

Rests_mutIOC(o) ==
  /\ o.type # "MARKET"
  /\ ~isFilled(o)
  /\ ~containsOrder(orderMap, o.orderId)

\* Only an unfilled LIMIT order may rest; OrderBook::addOrder refuses an id
\* that is already resting.
Rests(o) ==
  /\ o.type = "LIMIT"
  /\ ~isFilled(o)
  /\ ~containsOrder(orderMap, o.orderId)

\* The tail of matchLimit, matchMarket and matchIOC, and the drain.
Settle ==
  /\ LET o == slab[incoming]
     IN IF Rests(o)
        THEN /\ levels' = book_addOrder(levels, incoming, o)
             /\ orderMap' = [orderMap EXCEPT ![o.orderId] = incoming]
             /\ UNCHANGED slab
        ELSE /\ slab' = [slab EXCEPT ![incoming] = NoOrder]
             /\ UNCHANGED <<levels, orderMap>>
  /\ incoming' = NoSlot
  /\ drainFillsInto(m_fills)

FinishMatch ==
  /\ incoming # NoSlot
  /\ ~LoopContinues
  /\ Settle

-----------------------------------------------------------------------------
(* Messages *)

\* processOrder up to the match loop: an id that is already resting (in the
\* id map om) sends the order's slot back to the pool.
processOrder(s, o, om) ==
  IF containsOrder(om, o.orderId)
  THEN /\ slab' = [slab EXCEPT ![s] = NoOrder]
       /\ incoming' = NoSlot
       /\ drainFillsInto(m_fills)
  ELSE /\ slab' = [slab EXCEPT ![s] = o]
       /\ incoming' = s
       /\ UNCHANGED <<m_fills, drained>>

NewOrder(id, side, type, price, qty) ==
  [orderId |-> id, price |-> price, qty |-> qty, filledQty |-> 0,
   side |-> side, type |-> type]

AddOrder(id, side, type, price, qty) ==
  /\ incoming = NoSlot
  /\ type = "MARKET" \/ price # 0
  /\ \E s \in Slots :
       /\ slab[s] = NoOrder
       /\ processOrder(s, NewOrder(id, side, type, price, qty), orderMap)
  /\ UNCHANGED <<levels, orderMap>>

\* The pool is exhausted: the message is dropped before the drain.
DropAdd ==
  /\ incoming = NoSlot
  /\ \A s \in Slots : slab[s] # NoOrder
  /\ UNCHANGED vars

\* OrderBook::cancelOrder: the book without the order, then the caller's part.
CancelOrder(id) ==
  /\ incoming = NoSlot
  /\ IF containsOrder(orderMap, id)
     THEN LET s == orderMap[id]
          IN /\ levels' = book_removeOrder(levels, s, slab[s])
             /\ orderMap' = [orderMap EXCEPT ![id] = NoSlot]
             /\ slab' = [slab EXCEPT ![s] = NoOrder]
     ELSE UNCHANGED <<slab, levels, orderMap>>
  /\ drainFillsInto(m_fills)
  /\ UNCHANGED incoming

\* Cancel and re-add in place: the slot keeps its id and side, loses its
\* place in the queue, and becomes an unfilled LIMIT order.
ModifyOrder(id, newPrice, newQty) ==
  /\ incoming = NoSlot
  /\ IF containsOrder(orderMap, id)
     THEN LET s == orderMap[id]
              om == [orderMap EXCEPT ![id] = NoSlot]
              o == [slab[s] EXCEPT !.price = newPrice, !.qty = newQty,
                                   !.filledQty = 0, !.type = "LIMIT"]
          IN /\ levels' = book_removeOrder(levels, s, slab[s])
             /\ orderMap' = om
             /\ processOrder(s, o, om)
     ELSE /\ drainFillsInto(m_fills)
          /\ UNCHANGED <<slab, levels, orderMap, incoming>>

Next ==
  \/ \E id \in Ids, side \in Sides, type \in OrderTypes,
        price \in 0 .. MaxPrice, qty \in Qtys : AddOrder(id, side, type, price, qty)
  \/ DropAdd
  \/ \E id \in Ids : CancelOrder(id)
  \/ \E id \in Ids, price \in Prices, qty \in Qtys : ModifyOrder(id, price, qty)
  \/ MatchStep
  \/ FinishMatch

Spec == Init /\ [][Next]_vars

-----------------------------------------------------------------------------
(* Properties *)

\* Slots of all orders of the book.
Resting == UNION {OrdersAt(levels, side, p) : side \in Sides, p \in Prices}

\* The state of the engine (OrderBook.h, MatchingEngine.h) has the type its
\* fields declare.
TypeOK ==
  /\ slab \in [Slots -> Order \cup {NoOrder}]
  /\ levels \in Levels
  /\ orderMap \in [Ids -> Slots \cup {NoSlot}]
  /\ m_fills \in Seq(Fill)
  /\ incoming \in Slots \cup {NoSlot}
  /\ drained \in Seq(Fill)

\* Every slot taken from the pool has exactly one owner: it is the order in
\* the match loop, or it is on exactly one price level, once, under its own
\* side and price, with its id mapped to it.  No slot leaks (taken, not
\* owned), none is freed while still chained, no id map entry dangles, and no
\* level is kept without an order.
EveryOrderOwnedOnce ==
  /\ \A s \in Slots : slab[s] # NoOrder =>
       orderMap[slab[s].orderId] = IF s = incoming THEN NoSlot ELSE s
  /\ incoming # NoSlot => slab[incoming] # NoOrder
  /\ IdMapSound(slab, levels, orderMap)
  /\ LevelsSound(slab, levels, orderMap)
  /\ QueuesOK(levels)

\* The cached m_totalQty of a level is the sum of the remaining quantities of
\* the orders on it and m_orderCount their number, through partial fills,
\* full fills and cancels: the clamp of decreaseTotalQty and the unsigned
\* subtraction of removeOrder never lose or double-count a unit.
LevelTotals ==
  \A side \in Sides, p \in Prices : levels[side][p] # NoLevel =>
    LET lv == levels[side][p]
    IN /\ lv.orderCount = Len(lv.queue)
       /\ lv.totalQty = SumTo([i \in 1 .. Len(lv.queue) |->
                                 remainingQty(slab[lv.queue[i]])], Len(lv.queue))

\* The book is never crossed or locked, not even in the middle of a match.
NeverCrossed ==
  \A b \in Present(levels, "BUY"), a \in Present(levels, "SELL") : b < a

\* Only LIMIT orders rest, each with something left to fill (a resting order
\* with nothing left would make the match loop trade zero units), and no
\* order is ever filled beyond its quantity.
RestingOrdersOpen ==
  /\ \A s \in Resting : slab[s].type = "LIMIT" /\ ~isFilled(slab[s])
  /\ \A s \in Slots : slab[s] # NoOrder => slab[s].filledQty <= slab[s].qty

\* The fills collected for the message in progress are exactly what the
\* incoming order has been filled: none is empty, none is lost or left over
\* from an earlier message (modifyOrder resets filledQty for that reason).
FillsAccountForIncoming ==
  /\ \A i \in DOMAIN m_fills : m_fills[i].qty > 0
  /\ IF incoming = NoSlot
     THEN m_fills = <<>>
     ELSE slab[incoming].filledQty =
            SumTo([i \in 1 .. Len(m_fills) |-> m_fills[i].qty], Len(m_fills))

\* A fill that a step adds to m_fills (matchOneSide).
TradeAtBestPrice ==
  Len(m_fills') > Len(m_fills) =>
    LET f == m_fills'[Len(m_fills')]
        o == slab[incoming]
        resting == orderMap[IF o.side = "BUY" THEN f.sellOrderId ELSE f.buyOrderId]
    IN /\ f.price = slab[resting].price
       /\ crosses(o, f.price)
       /\ \A s \in Resting : slab[s].side # o.side =>
            IF o.side = "BUY" THEN f.price <= slab[s].price
                              ELSE f.price >= slab[s].price

\* Price priority: a trade is made at the resting order's price, inside the
\* incoming limit, and no order resting on that side has a better price.
TradesAtBestPrice == [][TradeAtBestPrice]_vars

\* From q to q1 no order overtakes another and newcomers are last.
KeepsOrder(q, q1) ==
  \A i, j \in DOMAIN q1 : i < j =>
    /\ q1[j] \in Range(q) => q1[i] \in Range(q)
    /\ (q1[i] \in Range(q) /\ q1[j] \in Range(q)) =>
         PositionOf(q, q1[i]) < PositionOf(q, q1[j])

QueuesKeepOrder ==
  \A side \in Sides, p \in Prices :
    (levels[side][p] # NoLevel /\ levels'[side][p] # NoLevel) =>
      KeepsOrder(levels[side][p].queue, levels'[side][p].queue)

MakersAreFirst ==
  \A s \in Resting :
    (slab'[s] = NoOrder \/ slab'[s].filledQty > slab[s].filledQty) =>
      incoming = NoSlot \/ s = Head(levels[slab[s].side][slab[s].price].queue)

\* Time priority: a step never reorders the orders that stay on a level, an
\* order that joins a level joins behind all of them, and the maker of a
\* trade is the first order of its level.
TimePriorityKept == [][QueuesKeepOrder /\ MakersAreFirst]_vars

\* The unbounded loop of matchOneSide ends: every step of a message finishes it
\* or fills some of what its order has left.
LoopProgress ==
  [][incoming # NoSlot =>
       \/ incoming' = NoSlot
       \/ /\ incoming' = incoming
          /\ remainingQty(slab'[incoming]) < remainingQty(slab[incoming])]_vars

=============================================================================
