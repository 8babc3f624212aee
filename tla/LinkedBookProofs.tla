-------------------------- MODULE LinkedBookProofs --------------------------
(***************************************************************************)
(* The intrusive lists and the free list under the book: a step on the     *)
(* pointers is a step on the queues of MatchingEngine, and the pointers    *)
(* spell the queues in both directions, for every set of ids and slots.    *)
(***************************************************************************)
EXTENDS MatchingEngineProofs, PointerProofs

(* The pointers refine the queues *)

\* The slots without an Order.
FreeSlots == {s \in Slots : slab[s] = NoOrder}

\* The pointers are those of the book and of the slab.
PointerInv == LinksOf(links, levels) /\ FreeChain(pool, FreeSlots)

\* What the pointers do not see: every step of the linked engine is a step of
\* the matching engine.
LEMMA LinkedStep == [LinkedNext]_linkedVars => [Next]_vars
<1>1. LinkedNext => Next
  BY ZenonT(60) DEF LinkedNext, LinkedAdd, LinkedDrop, LinkedCancel, LinkedModify, LinkedMatch, LinkedFinish, Next
<1>2. UNCHANGED linkedVars => UNCHANGED vars
  BY ZenonT(60) DEF linkedVars
<1> QED
  BY <1>1, <1>2, ZenonT(60)

\* The linked engine implements the matching engine.
THEOREM LinkedRefines == LinkedSpec => Spec
<1>1. LinkedInit => Init
  BY ZenonT(30) DEF LinkedInit
<1> QED
  BY <1>1, LinkedStep, PTL DEF LinkedSpec, Spec

\* The links of an empty book and the pool of the constructor.
LEMMA PointerInit == LinkedInit => PointerInv
<1> SUFFICES ASSUME LinkedInit PROVE PointerInv
  BY ZenonT(30)
<1>1. /\ slab = [s \in Slots |-> NoOrder]
      /\ levels = [side \in Sides |-> [p \in Prices |-> NoLevel]]
  BY ZenonT(30) DEF LinkedInit, Init
<1>2. FreeSlots = Slots
  BY <1>1, ZenonT(30) DEF FreeSlots
<1>3. FreeChain(pool, FreeSlots)
  <2>1. PICK order \in Bijection(1 .. Cardinality(Slots), Slots) : pool = NewPool(order)
    BY Zenon DEF LinkedInit
  <2> QED
    BY <1>2, <2>1, NewPoolChain, ZenonT(30)
<1>4. LinksOf(links, levels)
  <2>1. links = [next |-> [s \in Slots |-> NoSlot], prev |-> [s \in Slots |-> NoSlot],
                 head |-> NullEnds, tail |-> NullEnds]
    BY ZenonT(60) DEF LinkedInit
  <2>2. links \in Links
    BY <2>1, ZenonT(30) DEF Links, Ptr, NullEnds
  <2>3. \A side \in Sides, p \in Prices : QueueAt(levels, side, p) = <<>>
    BY <1>1, ZenonT(30) DEF QueueAt
  <2>4. \A side \in Sides, p \in Prices : Chain(links, side, p, <<>>)
    BY <2>1, SMTT(30) DEF Chain, PtrAt, NullEnds
  <2> QED
    BY <2>1, <2>2, <2>3, <2>4, ZenonT(30) DEF LinksOf
<1> QED
  BY <1>3, <1>4, ZenonT(30) DEF PointerInv

\* The facts about both books of a step.
LEMMA BothBooks ==
  ASSUME IInv, IInv'
  PROVE  /\ levels \in Levels /\ QueuesOK(levels) /\ Apart(levels) /\ slab \in Slab
         /\ levels' \in Levels /\ QueuesOK(levels')
<1>1. levels \in Levels /\ QueuesOK(levels) /\ Apart(levels) /\ slab \in Slab
  BY BookFacts, ZenonT(30)
<1>2. levels' \in Levels /\ QueuesOK(levels')
  BY ZenonT(30) DEF IInv, TypeOK, EveryOrderOwnedOnce
<1> QED
  BY <1>1, <1>2, ZenonT(30)

\* An ADD takes the first free slot, and a refused one gives it back.
LEMMA PointerAdd ==
  ASSUME IInv, PointerInv, NEW id \in Ids, NEW side \in Sides, NEW type \in OrderTypes,
         NEW price \in 0 .. MaxPrice, NEW qty \in Qtys,
         LinkedAdd(id, side, type, price, qty)
  PROVE  PointerInv'
<1> DEFINE h == pool.freeHead
           F == FreeSlots
<1>1. /\ h # NoSlot /\ AddOrder(id, side, type, price, qty)
      /\ incoming' \in {h, NoSlot}
      /\ pool' = IF incoming' = NoSlot THEN deallocate(allocate(pool), h) ELSE allocate(pool)
      /\ links' = links
  BY ZenonT(30) DEF LinkedAdd
<1>2. /\ levels' = levels
      /\ \/ slab' = slab /\ incoming' = NoSlot
         \/ \E s \in Slots, o \in Order :
              slab[s] = NoOrder /\ slab' = [slab EXCEPT ![s] = o] /\ incoming' = s
  BY <1>1, AddShape, ZenonT(30)
<1>3. LinksOf(links', levels')
  BY <1>1, <1>2, ZenonT(30) DEF PointerInv
<1>4. FreeChain(pool, F)
  BY ZenonT(60) DEF PointerInv
<1> HIDE DEF F
<1>5. h \in F /\ h \in Slots /\ FreeChain(allocate(pool), F \ {h})
  BY <1>1, <1>4, PopChain, ZenonT(30)
<1>6. FreeChain(pool', FreeSlots')
  <2>1. CASE incoming' = NoSlot
    <3>1. slab' = slab
      BY <1>2, <2>1, NullAssumption, ZenonT(30)
    <3>2. FreeSlots' = F
      BY <3>1, ZenonT(30) DEF FreeSlots, F
    <3>3. FreeChain(deallocate(allocate(pool), h), (F \ {h}) \cup {h})
      BY <1>5, PushChain, ZenonT(30)
    <3>4. (F \ {h}) \cup {h} = F
      BY <1>5, ZenonT(30)
    <3> QED
      BY <1>1, <2>1, <3>2, <3>3, <3>4, ZenonT(30)
  <2>2. CASE incoming' # NoSlot
    <3>1. PICK o \in Order : slab' = [slab EXCEPT ![h] = o] /\ incoming' = h
      BY <1>1, <1>2, <2>2, ZenonT(30)
    <3>2. slab \in Slab /\ o # NoOrder
      BY BookFacts, NullAssumption, ZenonT(30)
    <3>3. FreeSlots' = F \ {h}
      BY <1>5, <3>1, <3>2, ZenonT(60) DEF FreeSlots, F, Slab
    <3> QED
      BY <1>1, <1>5, <2>2, <3>3, ZenonT(30)
  <2> QED
    BY <2>1, <2>2, ZenonT(30)
<1> QED
  BY <1>3, <1>6, ZenonT(60) DEF PointerInv

\* deallocate: the slot of an order that the step frees joins the list.
LEMMA PointerFree ==
  ASSUME IInv, FreeChain(pool, FreeSlots), NEW s \in Slots, slab[s] \in Order,
         \A x \in Slots : slab'[x] = NoOrder <=> (x = s \/ slab[x] = NoOrder),
         pool' = deallocate(pool, s)
  PROVE  FreeChain(pool', FreeSlots')
<1>1. s \notin FreeSlots
  BY NullAssumption, ZenonT(30) DEF FreeSlots
<1>2. FreeSlots' = FreeSlots \cup {s}
  BY ZenonT(60) DEF FreeSlots
<1> QED
  BY <1>1, <1>2, PushChain, ZenonT(30)

\* A pool that is left alone and the same slots without an Order.
LEMMA PointerKept ==
  ASSUME FreeChain(pool, FreeSlots), \A x \in Slots : slab'[x] = NoOrder <=> slab[x] = NoOrder,
         pool' = pool
  PROVE  FreeChain(pool', FreeSlots')
<1>1. FreeSlots' = FreeSlots
  BY ZenonT(30) DEF FreeSlots
<1> QED
  BY <1>1, ZenonT(30)

\* A known order that leaves its level takes its links out.
LEMMA PointerUnlink ==
  ASSUME IInv, IInv', PointerInv, NEW id \in Ids, orderMap[id] # NoSlot,
         levels' = book_removeOrder(levels, orderMap[id], slab[orderMap[id]]),
         Unlink(orderMap[id])
  PROVE  LinksOf(links', levels')
<1> DEFINE s == orderMap[id]
           side0 == slab[s].side
           p0 == slab[s].price
<1>1. /\ levels \in Levels /\ QueuesOK(levels) /\ Apart(levels)
      /\ levels' \in Levels /\ QueuesOK(levels') /\ LinksOf(links, levels)
  BY BothBooks, ZenonT(30) DEF PointerInv
<1>2. side0 \in Sides /\ p0 \in Prices /\ s \in OrdersAt(levels, side0, p0)
  BY KnownOrder, ZenonT(60)
<1>3. \A side \in Sides, p \in Prices : QueueAt(levels', side, p) = QueueAfterRemove(side0, p0, s, side, p)
  BY UnlinkQueues, ZenonT(30)
<1>4. links' = removeOrder(links, side0, p0, s)
  BY ZenonT(60) DEF Unlink
<1> HIDE DEF s, side0, p0
<1>5. \A side \in Sides, p \in Prices :
        QueueAt(levels', side, p) =
          IF side = side0 /\ p = p0
          THEN Without(QueueAt(levels, side, p), PositionOf(QueueAt(levels, side, p), s))
          ELSE QueueAt(levels, side, p)
  BY <1>3, ZenonT(60) DEF QueueAfterRemove
<1> QED
  BY <1>1, <1>2, <1>4, <1>5, LinksRemove, ZenonT(60)

\* cancelOrder unlinks and deallocates, or finds nothing.
LEMMA PointerCancel ==
  ASSUME IInv, IInv', PointerInv, NEW id \in Ids, LinkedCancel(id)
  PROVE  PointerInv'
<1>1. CancelOrder(id) /\ FreeChain(pool, FreeSlots) /\ slab \in Slab
  BY BookFacts, ZenonT(30) DEF LinkedCancel, PointerInv
<1>2. CASE orderMap[id] = NoSlot
  <2>1. links' = links /\ pool' = pool
    BY <1>2, ZenonT(60) DEF LinkedCancel, containsOrder
  <2>2. slab' = slab /\ levels' = levels
    BY <1>1, <1>2, CancelShape, ZenonT(60)
  <2>3. FreeSlots' = FreeSlots
    BY <2>2, ZenonT(60) DEF FreeSlots
  <2> QED
    BY <2>1, <2>2, <2>3, ZenonT(60) DEF PointerInv
<1>3. CASE orderMap[id] # NoSlot
  <2> DEFINE s == orderMap[id]
  <2>1. Unlink(s) /\ pool' = deallocate(pool, s)
    BY <1>3, ZenonT(30) DEF LinkedCancel, containsOrder
  <2>2. levels' = book_removeOrder(levels, s, slab[s]) /\ slab' = [slab EXCEPT ![s] = NoOrder]
    BY <1>1, <1>3, CancelShape, ZenonT(30)
  <2>3. s \in Slots /\ slab[s] \in Order
    BY <1>3, KnownOrder, ZenonT(30)
  <2>4. LinksOf(links', levels')
    BY <1>3, <2>1, <2>2, PointerUnlink, ZenonT(30)
  <2> HIDE DEF s
  <2>5. \A x \in Slots : slab'[x] = NoOrder <=> (x = s \/ slab[x] = NoOrder)
    BY <1>1, <2>2, <2>3, ZenonT(30) DEF Slab
  <2>6. FreeChain(pool', FreeSlots')
    BY <1>1, <2>1, <2>3, <2>5, PointerFree, ZenonT(30)
  <2> QED
    BY <2>4, <2>6, ZenonT(30) DEF PointerInv
<1> QED
  BY <1>2, <1>3, ZenonT(30)

\* modifyOrder decreases a quantity in place: no pointer moves; otherwise it cancels.
LEMMA PointerModify ==
  ASSUME IInv, IInv', PointerInv, NEW id \in Ids, NEW price \in Prices, NEW qty \in Qtys,
         LinkedModify(id, price, qty)
  PROVE  PointerInv'
<1>1. /\ ModifyOrder(id, price, qty) /\ FreeChain(pool, FreeSlots) /\ slab \in Slab /\ pool' = pool
  BY BookFacts, ZenonT(60) DEF LinkedModify, PointerInv
<1>2. CASE orderMap[id] = NoSlot
  <2>1. links' = links
    BY <1>2, ZenonT(30) DEF LinkedModify, containsOrder
  <2>2. slab' = slab /\ levels' = levels
    BY <1>1, <1>2, ModifyShape, ZenonT(30)
  <2>3. FreeSlots' = FreeSlots
    BY <2>2, ZenonT(30) DEF FreeSlots
  <2> QED
    BY <1>1, <2>1, <2>2, <2>3, ZenonT(30) DEF PointerInv
<1>3. CASE orderMap[id] # NoSlot
  <2> DEFINE s == orderMap[id]
  <2>1. Unlink(s)
    BY <1>3, ZenonT(30) DEF LinkedModify, containsOrder
  <2>2. levels' = book_removeOrder(levels, s, slab[s])
        /\ \E o \in Order : o.filledQty = 0 /\ slab' = [slab EXCEPT ![s] = o]
    BY <1>1, <1>3, ModifyShape, ZenonT(30)
  <2>3. s \in Slots /\ slab[s] \in Order
    BY <1>3, KnownOrder, ZenonT(60)
  <2>4. LinksOf(links', levels')
    BY <1>3, <2>1, <2>2, PointerUnlink, ZenonT(30)
  <2> HIDE DEF s
  <2>5. \A x \in Slots : slab'[x] = NoOrder <=> slab[x] = NoOrder
    BY <1>1, <2>2, <2>3, NullAssumption, ZenonT(30) DEF Slab
  <2>6. FreeChain(pool', FreeSlots')
    BY <1>1, <2>5, PointerKept, ZenonT(30)
  <2> QED
    BY <2>4, <2>6, ZenonT(30) DEF PointerInv
<1> QED
  BY <1>2, <1>3, ZenonT(60)

\* A turn of matchOneSide: a filled maker is unlinked and deallocated.
LEMMA PointerMatch ==
  ASSUME IInv, IInv', PointerInv, LinkedMatch
  PROVE  PointerInv'
<1>1. MatchStep /\ FreeChain(pool, FreeSlots) /\ LinksOf(links, levels)
  BY Zenon DEF LinkedMatch, PointerInv
<1>2. /\ levels \in Levels /\ QueuesOK(levels) /\ Apart(levels) /\ slab \in Slab
      /\ levels' \in Levels /\ QueuesOK(levels')
  BY BothBooks, ZenonT(30)
<1>3. /\ taker \in Order /\ slab[incoming] = taker /\ incoming \in Slots
      /\ makerSide \in Sides /\ tradePrice \in Prices /\ maker \in Slots /\ maker # incoming
      /\ maker \in OrdersAt(levels, makerSide, tradePrice)
      /\ slab[maker] \in Order /\ slab[maker].side = makerSide /\ slab[maker].price = tradePrice
      /\ slab[maker].filledQty + tradeQty <= slab[maker].qty
  BY <1>1, TradeFacts, MatchShape, ZenonT(30)
<1>4. /\ takerAfter \in Order /\ makerAfter \in Order /\ tradedSlab \in Slab
      /\ makerAfter.filledQty = slab[maker].filledQty + tradeQty
      /\ makerAfter.qty = slab[maker].qty
      /\ \A x \in Slots : tradedSlab[x] = IF x = incoming THEN takerAfter
                                          ELSE IF x = maker THEN makerAfter ELSE slab[x]
  BY <1>1, TradedOrders, ZenonT(30)
<1>5. \A x \in Slots : tradedSlab[x] = NoOrder <=> slab[x] = NoOrder
  BY <1>3, <1>4, NullAssumption, ZenonT(30)
<1>6. IF remainingQty(taker) >= remainingQty(slab[maker])
      THEN Unlink(maker) /\ pool' = deallocate(pool, maker)
      ELSE links' = links /\ pool' = pool
  BY ZenonT(60) DEF LinkedMatch, taker, makerSide, tradePrice, maker
<1>7. isFilled(makerAfter) <=> remainingQty(taker) >= remainingQty(slab[maker])
  <2>1. tradeQty = IF remainingQty(taker) <= remainingQty(slab[maker])
                   THEN remainingQty(taker) ELSE remainingQty(slab[maker])
    BY ZenonT(60) DEF tradeQty, matchQty
  <2>2. /\ remainingQty(taker) \in Nat /\ slab[maker].filledQty \in Nat /\ slab[maker].qty \in Nat
        /\ remainingQty(slab[maker]) = IF slab[maker].filledQty >= slab[maker].qty THEN 0
                                       ELSE slab[maker].qty - slab[maker].filledQty
    <3>1. remainingQty(taker) \in Nat
      BY <1>3, RemainingNat, ZenonT(30)
    <3>2. slab[maker].filledQty \in Nat /\ slab[maker].qty \in Nat
      BY <1>3, BoundsAssumption, SMTT(30) DEF Order, Qtys
    <3> QED
      BY <3>1, <3>2, ZenonT(30) DEF remainingQty
  <2>3. isFilled(makerAfter) <=> slab[maker].filledQty + tradeQty >= slab[maker].qty
    BY <1>4, ZenonT(30) DEF isFilled
  <2> QED
    BY <1>3, <2>1, <2>2, <2>3, SMTT(30)
<1>8. \A side \in Sides, p \in Prices :
        QueueAt(levels', side, p) =
          IF isFilled(makerAfter) THEN QueueAfterRemove(makerSide, tradePrice, maker, side, p)
                                  ELSE QueueAt(levels, side, p)
  BY <1>1, MatchQueues, ZenonT(30)
<1>9. CASE isFilled(makerAfter)
  <2>1. Unlink(maker) /\ pool' = deallocate(pool, maker)
    BY <1>6, <1>7, <1>9, ZenonT(60)
  <2>2. links' = removeOrder(links, makerSide, tradePrice, maker)
    BY <1>3, <2>1, ZenonT(30) DEF Unlink
  <2>3. \A side \in Sides, p \in Prices :
          QueueAt(levels', side, p) =
            IF side = makerSide /\ p = tradePrice
            THEN Without(QueueAt(levels, side, p), PositionOf(QueueAt(levels, side, p), maker))
            ELSE QueueAt(levels, side, p)
    BY <1>8, <1>9, ZenonT(60) DEF QueueAfterRemove
  <2>4. LinksOf(links', levels')
    BY <1>1, <1>2, <1>3, <2>2, <2>3, LinksRemove, SMTT(30)
  <2>5. slab' = [tradedSlab EXCEPT ![maker] = NoOrder]
    BY <1>1, <1>9, MatchShape, ZenonT(30)
  <2>6. \A x \in Slots : slab'[x] = NoOrder <=> (x = maker \/ slab[x] = NoOrder)
    BY <1>3, <1>4, <1>5, <2>5, ZenonT(30) DEF Slab
  <2>7. FreeChain(pool', FreeSlots')
    BY <1>1, <1>3, <2>1, <2>6, PointerFree, ZenonT(30)
  <2> QED
    BY <2>4, <2>7, ZenonT(30) DEF PointerInv
<1>10. CASE ~isFilled(makerAfter)
  <2>1. links' = links /\ pool' = pool
    BY <1>6, <1>7, <1>10, ZenonT(60)
  <2>2. slab' = tradedSlab
    BY <1>1, <1>10, MatchShape, ZenonT(60)
  <2>3. \A side \in Sides, p \in Prices : QueueAt(levels', side, p) = QueueAt(levels, side, p)
    BY <1>8, <1>10, ZenonT(30)
  <2>4. LinksOf(links', levels')
    BY <1>1, <1>2, <2>1, <2>3, LinksSame, ZenonT(30)
  <2>5. FreeChain(pool', FreeSlots')
    BY <1>1, <1>5, <2>1, <2>2, PointerKept, ZenonT(60)
  <2> QED
    BY <2>4, <2>5, ZenonT(30) DEF PointerInv
<1> QED
  BY <1>9, <1>10, ZenonT(30)

\* The incoming order rests at the tail of its level or its slot is given back.
LEMMA PointerFinish ==
  ASSUME IInv, IInv', PointerInv, LinkedFinish
  PROVE  PointerInv'
<1>1. FinishMatch /\ LinkedSettle /\ FreeChain(pool, FreeSlots) /\ LinksOf(links, levels)
  BY ZenonT(60) DEF LinkedFinish, PointerInv
<1>2. /\ levels \in Levels /\ QueuesOK(levels) /\ Apart(levels) /\ slab \in Slab
      /\ levels' \in Levels /\ QueuesOK(levels')
  BY BothBooks, ZenonT(30)
<1>3. incoming \in Slots /\ taker \in Order /\ slab[incoming] = taker
  BY <1>1, FinishShape, ZenonT(60)
<1>4. IF Rests(taker)
      THEN links' = addOrder(links, taker.side, taker.price, incoming) /\ pool' = pool
      ELSE pool' = deallocate(pool, incoming) /\ links' = links
  BY <1>1, ZenonT(30) DEF LinkedSettle, taker
<1>5. CASE Rests(taker)
  <2>1. levels' = book_addOrder(levels, incoming, taker) /\ slab' = slab
        /\ taker.price \in Prices /\ taker.side \in Sides
    BY <1>1, <1>3, <1>5, FinishShape, ZenonT(60) DEF Order
  <2>2. OnNoLevel(levels, incoming)
    BY NotResting, ZenonT(60) DEF OnNoLevel
  <2>3. \A side \in Sides, p \in Prices :
          QueueAt(levels', side, p) = QueueAfterAdd(taker.side, taker.price, incoming, side, p)
    BY <1>1, <1>5, FinishQueues, ZenonT(60)
  <2>4. \A side \in Sides, p \in Prices :
          QueueAt(levels', side, p) =
            IF side = taker.side /\ p = taker.price THEN Append(QueueAt(levels, side, p), incoming)
                                                    ELSE QueueAt(levels, side, p)
    BY <2>3, ZenonT(60) DEF QueueAfterAdd
  <2>5. LinksOf(links', levels')
    BY <1>1, <1>2, <1>3, <1>4, <1>5, <2>1, <2>2, <2>4, LinksAdd, SMTT(30)
  <2>6. FreeSlots' = FreeSlots
    BY <2>1, ZenonT(30) DEF FreeSlots
  <2> QED
    BY <1>1, <1>4, <1>5, <2>5, <2>6, ZenonT(30) DEF PointerInv
<1>6. CASE ~Rests(taker)
  <2>1. slab' = [slab EXCEPT ![incoming] = NoOrder] /\ levels' = levels
    BY <1>1, <1>6, FinishShape, ZenonT(60)
  <2>2. \A x \in Slots : slab'[x] = NoOrder <=> (x = incoming \/ slab[x] = NoOrder)
    BY <1>2, <1>3, <2>1, ZenonT(30) DEF Slab
  <2>3. FreeChain(pool', FreeSlots')
    BY <1>1, <1>3, <1>4, <1>6, <2>2, PointerFree, ZenonT(30)
  <2> QED
    BY <1>1, <1>4, <1>6, <2>1, <2>3, ZenonT(30) DEF PointerInv
<1> QED
  BY <1>5, <1>6, ZenonT(60)

\* Every step keeps the pointers right.
LEMMA PointerNext ==
  ASSUME IInv, IInv', PointerInv, [LinkedNext]_linkedVars
  PROVE  PointerInv'
<1>1. CASE UNCHANGED <<vars, links, pool>>
  BY <1>1, ZenonT(60) DEF PointerInv, FreeSlots, vars
<1>2. CASE LinkedDrop
  BY <1>2, ZenonT(30) DEF LinkedDrop, DropAdd, PointerInv, FreeSlots, vars
<1> QED
  BY <1>1, <1>2, PointerAdd, PointerCancel, PointerModify, PointerMatch, PointerFinish, ZenonT(60)
  DEF LinkedNext, linkedVars

\* The pointers are the book and the pool.
THEOREM PointersExact == LinkedSpec => []PointersMirrorBook
<1>1. IInv /\ PointerInv => PointersMirrorBook
  <2> SUFFICES ASSUME IInv, LinksOf(links, levels), FreeChain(pool, FreeSlots)
               PROVE  PointersMirrorBook
    BY ZenonT(60) DEF PointerInv
  <2>1. FreeListExact
    BY ChainIsExact, ZenonT(60) DEF FreeSlots
  <2>2. \A s \in Slots \ Resting : OnNoLevel(levels, s)
    BY SMTT(30) DEF Resting, OnNoLevel
  <2>3. ASSUME NEW side \in Sides, NEW p \in Prices
        PROVE  LET q == IF levels[side][p] = NoLevel THEN <<>> ELSE levels[side][p].queue
                   At(i) == IF i \in DOMAIN q THEN q[i] ELSE NoSlot
               IN /\ links.head[side][p] = At(1) /\ links.tail[side][p] = At(Len(q))
                  /\ \A i \in DOMAIN q : links.next[q[i]] = At(i + 1) /\ links.prev[q[i]] = At(i - 1)
    <3> DEFINE q == QueueAt(levels, side, p)
    <3>1. q \in Seq(Slots) /\ Chain(links, side, p, q)
      BY BookFacts, QueueFacts, ZenonT(30) DEF LinksOf
    <3>2. q = IF levels[side][p] = NoLevel THEN <<>> ELSE levels[side][p].queue
      BY ZenonT(60) DEF QueueAt
    <3> HIDE DEF q
    <3>3. DOMAIN q = 1 .. Len(q)
      BY <3>1, SMTT(30)
    <3> QED
      BY <3>1, <3>2, <3>3, ZenonT(30) DEF Chain, PtrAt
  <2>4. LinksMirrorQueues
    BY <2>2, <2>3, ZenonT(60) DEF LinksMirrorQueues, LinksOf
  <2> QED
    BY <2>1, <2>4, ZenonT(60) DEF PointersMirrorBook
<1>2. LinkedSpec => []IInv
  BY LinkedRefines, AlwaysIInv, PTL
<1>3. IInv /\ IInv' /\ PointerInv /\ [LinkedNext]_linkedVars => PointerInv'
  BY PointerNext, ZenonT(60)
<1>4. LinkedSpec => []PointerInv
  BY <1>2, <1>3, PointerInit, PTL DEF LinkedSpec
<1> QED
  BY <1>1, <1>2, <1>4, PTL
=============================================================================
