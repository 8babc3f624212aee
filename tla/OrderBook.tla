----------------------------- MODULE OrderBook -----------------------------
(***************************************************************************)
(* The data structures of the matching core, as operators on their values: *)
(* Order (core/Order.h), PriceLevel (core/PriceLevel.h) and OrderBook      *)
(* (core/OrderBook.h, src/OrderBook.cpp).                                  *)
(*                                                                         *)
(* An Order* is a slot of the slab pool.  `slab' maps every slot to the    *)
(* Order constructed in it, or to NoOrder while the slot is free.  The two *)
(* std::maps m_bids and m_asks are `levels[BUY]' and `levels[SELL]': a     *)
(* function from prices to levels with NoLevel for an absent key.  The     *)
(* unordered_map m_orderMap is a function from ids to slots with NoSlot    *)
(* for an absent key.  The intrusive list of a level is the sequence of    *)
(* the slots on it, head first.                                            *)
(***************************************************************************)
EXTENDS Integers, Sequences, FiniteSetsExt, Functions

CONSTANTS
  Ids,        \* order ids in use (non-zero uint64 values)
  Slots,      \* slots of the pool
  MaxPrice,   \* prices are 1 .. MaxPrice; 0 means "no price"
  MaxQty,     \* quantities are 1 .. MaxQty
  NoSlot,     \* the null Order*
  NoOrder,    \* contents of a slot that is on the free list
  NoLevel     \* a price without an entry in m_bids / m_asks

Sides == {"BUY", "SELL"}
OrderTypes == {"LIMIT", "MARKET", "IOC"}
Prices == 1 .. MaxPrice
Qtys == 1 .. MaxQty

Order == [orderId : Ids, price : 0 .. MaxPrice, qty : Qtys,
          filledQty : 0 .. MaxQty, side : Sides, type : OrderTypes]

Level == [queue : Seq(Slots), totalQty : Int, orderCount : Int]

ASSUME BoundsAssumption == MaxPrice \in Nat /\ MaxQty \in Nat
ASSUME NullAssumption == /\ NoSlot \notin Slots
                         /\ NoOrder \notin Order
                         /\ NoLevel \notin Level

-----------------------------------------------------------------------------
(* Order *)

\* remainingQty clamps at 0.
remainingQty(o) == IF o.filledQty >= o.qty THEN 0 ELSE o.qty - o.filledQty

isFilled(o) == o.filledQty >= o.qty

-----------------------------------------------------------------------------
(* PriceLevel.  `rem' is the order's remainingQty() at the call.  The      *)
(* uint64 m_totalQty is an unbounded integer here: an underflow shows as a *)
(* negative number, which LevelTotals of MatchingEngine excludes.          *)

EmptyLevel == [queue |-> <<>>, totalQty |-> 0, orderCount |-> 0]

level_addOrder(lv, s, rem) ==
  [queue |-> Append(lv.queue, s),
   totalQty |-> lv.totalQty + rem, orderCount |-> lv.orderCount + 1]

\* Index of a slot in a queue that holds it.
PositionOf(q, s) == CHOOSE i \in DOMAIN q : q[i] = s

\* A queue without the slot at position i.
Without(q, i) == SubSeq(q, 1, i - 1) \o SubSeq(q, i + 1, Len(q))

level_removeOrder(lv, s, rem) ==
  [queue |-> Without(lv.queue, PositionOf(lv.queue, s)),
   totalQty |-> lv.totalQty - rem, orderCount |-> lv.orderCount - 1]

decreaseTotalQty_mutSkip(lv, q) == lv

decreaseTotalQty(lv, q) ==
  [lv EXCEPT !.totalQty = IF q > @ THEN 0 ELSE @ - q]

front_mutLast(lv) == lv.queue[Len(lv.queue)]

front(lv) == Head(lv.queue)

isEmpty(lv) == lv.queue = <<>>

-----------------------------------------------------------------------------
(* OrderBook *)

Present(levels, side) == {p \in Prices : levels[side][p] # NoLevel}

getBestBid(levels) ==
  IF Present(levels, "BUY") = {} THEN 0 ELSE Max(Present(levels, "BUY"))

getBestAsk_mutLast(levels) ==
  IF Present(levels, "SELL") = {} THEN 0 ELSE Max(Present(levels, "SELL"))

getBestAsk(levels) ==
  IF Present(levels, "SELL") = {} THEN 0 ELSE Min(Present(levels, "SELL"))

containsOrder(orderMap, id) == orderMap[id] # NoSlot

\* m_bids / m_asks after addOrder(order): operator[] creates a missing level.
book_addOrder(levels, s, o) ==
  [levels EXCEPT ![o.side][o.price] =
     level_addOrder(IF @ = NoLevel THEN EmptyLevel ELSE @, s, remainingQty(o))]

book_removeOrder_mutKeepEmpty(levels, s, o) ==
  [levels EXCEPT ![o.side][o.price] =
     IF @ = NoLevel THEN @ ELSE level_removeOrder(@, s, remainingQty(o))]

\* m_bids / m_asks after removeOrder(order): an emptied level is erased.
book_removeOrder(levels, s, o) ==
  [levels EXCEPT ![o.side][o.price] =
     IF @ = NoLevel
     THEN @
     ELSE LET lv == level_removeOrder(@, s, remainingQty(o))
          IN IF isEmpty(lv) THEN NoLevel ELSE lv]

-----------------------------------------------------------------------------
(* What the properties and proofs say about a book *)

Levels == [Sides -> [Prices -> Level \cup {NoLevel}]]

\* Slots of the orders resting at one price.
OrdersAt(levels, side, p) ==
  IF levels[side][p] = NoLevel THEN {} ELSE Range(levels[side][p].queue)

\* The orders at one price, first in time first; none without a level.
QueueAt(levels, side, p) ==
  IF levels[side][p] = NoLevel THEN <<>> ELSE levels[side][p].queue

\* No order is on two levels.
Apart(levels) ==
  \A side1 \in Sides, side2 \in Sides, p1 \in Prices, p2 \in Prices :
    (side1 # side2 \/ p1 # p2) =>
      \A s \in OrdersAt(levels, side1, p1) : s \notin OrdersAt(levels, side2, p2)

\* Sum of w[1] .. w[n].
SumTo(w, n) ==
  LET acc[i \in 0 .. n] == IF i = 0 THEN 0 ELSE acc[i - 1] + w[i] IN acc[n]

\* No level is empty and none has an order twice.
QueuesOK(levels) ==
  \A side \in Sides : \A p \in Present(levels, side) :
    /\ levels[side][p].queue # <<>>
    /\ IsInjective(levels[side][p].queue)

\* Every id map entry leads to an order of that id on the level of its side
\* and price.
IdMapSound(slab, levels, orderMap) ==
  \A id \in Ids : orderMap[id] # NoSlot =>
    LET s == orderMap[id]
    IN /\ slab[s] # NoOrder
       /\ slab[s].orderId = id
       /\ slab[s].price \in Prices
       /\ s \in OrdersAt(levels, slab[s].side, slab[s].price)

\* Every order on a level has that side and price, and is found by its id.
LevelsSound(slab, levels, orderMap) ==
  \A side \in Sides, p \in Prices : \A s \in OrdersAt(levels, side, p) :
    /\ slab[s] # NoOrder
    /\ slab[s].side = side
    /\ slab[s].price = p
    /\ orderMap[slab[s].orderId] = s
=============================================================================
