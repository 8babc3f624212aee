----------------------------- MODULE LinkedBook -----------------------------
(***************************************************************************)
(* The pointers under the matching core: the links that Order carries for  *)
(* its price level (core/PriceLevel.h), and the free list that SlabPool    *)
(* (core/SlabPool.h) threads through the slots that hold no Order.  Every  *)
(* step of MatchingEngine is taken together with what it does to these     *)
(* pointers; the null pointer is NoSlot.  An erased level and one that was *)
(* never made have null ends.                                              *)
(***************************************************************************)
EXTENDS MatchingEngine

VARIABLES
  links,   \* next and prev of every Order, m_head and m_tail of every level
  pool     \* m_freeHead, the pointer stored in every free slot, m_allocated

\* SlabPool has one block of memory, for capacity slots.
ASSUME SlotsAssumption == IsFiniteSet(Slots)

linkedVars == <<vars, links, pool>>

NullEnds == [side \in Sides |-> [p \in Prices |-> NoSlot]]

-----------------------------------------------------------------------------
(* PriceLevel *)

addOrder(l, side, p, s) ==
  LET tail == l.tail[side][p]
  IN [next |-> [x \in Slots |-> IF x = s THEN NoSlot ELSE IF x = tail THEN s ELSE l.next[x]],
      prev |-> [l.prev EXCEPT ![s] = tail],
      head |-> IF tail = NoSlot THEN [l.head EXCEPT ![side][p] = s] ELSE l.head,
      tail |-> [l.tail EXCEPT ![side][p] = s]]

removeOrder_mutKeepsTail(l, side, p, s) ==
  [next |-> [x \in Slots |-> IF x = s THEN NoSlot ELSE IF x = l.prev[s] THEN l.next[s] ELSE l.next[x]],
   prev |-> [x \in Slots |-> IF x = s THEN NoSlot ELSE IF x = l.next[s] THEN l.prev[s] ELSE l.prev[x]],
   head |-> IF l.prev[s] = NoSlot THEN [l.head EXCEPT ![side][p] = l.next[s]] ELSE l.head,
   tail |-> IF l.prev[s] = NoSlot /\ l.next[s] = NoSlot THEN [l.tail EXCEPT ![side][p] = NoSlot] ELSE l.tail]

\* The four cases: a neighbour or an end of the level takes each link over.
removeOrder(l, side, p, s) ==
  [next |-> [x \in Slots |-> IF x = s THEN NoSlot ELSE IF x = l.prev[s] THEN l.next[s] ELSE l.next[x]],
   prev |-> [x \in Slots |-> IF x = s THEN NoSlot ELSE IF x = l.next[s] THEN l.prev[s] ELSE l.prev[x]],
   head |-> IF l.prev[s] = NoSlot THEN [l.head EXCEPT ![side][p] = l.next[s]] ELSE l.head,
   tail |-> IF l.next[s] = NoSlot THEN [l.tail EXCEPT ![side][p] = l.prev[s]] ELSE l.tail]

-----------------------------------------------------------------------------
(* SlabPool *)

\* The constructor frees the slots in the order of their addresses.
NewPool(order) ==
  LET n == Len(order)
  IN [freeHead |-> IF n = 0 THEN NoSlot ELSE order[n], allocated |-> 0,
      stored |-> [s \in Slots |-> LET i == PositionOf(order, s)
                                  IN IF i = 1 THEN NoSlot ELSE order[i - 1]]]

popFree(pl) ==
  [freeHead |-> pl.stored[pl.freeHead], allocated |-> pl.allocated,
   stored |-> [pl.stored EXCEPT ![pl.freeHead] = NoSlot]]

pushFree(pl, s) ==
  [freeHead |-> s, allocated |-> pl.allocated, stored |-> [pl.stored EXCEPT ![s] = pl.freeHead]]

\* allocate of a pool that is not exhausted.
allocate(pl) == [popFree(pl) EXCEPT !.allocated = @ + 1]

deallocate(pl, s) == [pushFree(pl, s) EXCEPT !.allocated = @ - 1]

-----------------------------------------------------------------------------
LinkedInit ==
  /\ Init
  /\ links = [next |-> [s \in Slots |-> NoSlot], prev |-> [s \in Slots |-> NoSlot],
              head |-> NullEnds, tail |-> NullEnds]
  /\ pool \in {NewPool(order) : order \in Bijection(1 .. Cardinality(Slots), Slots)}

Unlink(s) == links' = removeOrder(links, slab[s].side, slab[s].price, s)

\* An ADD takes the first free slot; a resting id sends it straight back.
LinkedAdd(id, side, type, price, qty) ==
  /\ pool.freeHead # NoSlot
  /\ AddOrder(id, side, type, price, qty)
  /\ incoming' \in {pool.freeHead, NoSlot}
  /\ pool' = IF incoming' = NoSlot THEN deallocate(allocate(pool), pool.freeHead) ELSE allocate(pool)
  /\ UNCHANGED links

LinkedDrop ==
  /\ pool.freeHead = NoSlot
  /\ DropAdd
  /\ UNCHANGED <<links, pool>>

\* The first order of the level trades; a filled one leaves level and pool.
LinkedMatch ==
  /\ MatchStep
  /\ LET o == slab[incoming]
         resting == front(levels[Opposite(o.side)][bestOpposite(o.side)])
     IN IF remainingQty(o) >= remainingQty(slab[resting])
        THEN Unlink(resting) /\ pool' = deallocate(pool, resting)
        ELSE UNCHANGED <<links, pool>>

LinkedSettle ==
  LET o == slab[incoming]
  IN IF Rests(o)
     THEN links' = addOrder(links, o.side, o.price, incoming) /\ UNCHANGED pool
     ELSE pool' = deallocate(pool, incoming) /\ UNCHANGED links

LinkedFinish_mutRequeue ==
  IF incoming # NoSlot /\ ~LoopContinues
     /\ slab[incoming].type = "IOC" /\ ~isFilled(slab[incoming])
  THEN /\ slab' = [slab EXCEPT ![incoming].type = "LIMIT"]
       /\ UNCHANGED <<levels, orderMap, m_fills, incoming, drained, links, pool>>
  ELSE FinishMatch /\ LinkedSettle

LinkedFinish == FinishMatch /\ LinkedSettle

LinkedCancel(id) ==
  /\ CancelOrder(id)
  /\ IF containsOrder(orderMap, id)
     THEN Unlink(orderMap[id]) /\ pool' = deallocate(pool, orderMap[id])
     ELSE UNCHANGED <<links, pool>>

LinkedModify(id, price, qty) ==
  /\ ModifyOrder(id, price, qty)
  /\ IF containsOrder(orderMap, id) THEN Unlink(orderMap[id]) ELSE UNCHANGED links
  /\ UNCHANGED pool

LinkedNext ==
  \/ \E id \in Ids, side \in Sides, type \in OrderTypes,
        price \in 0 .. MaxPrice, qty \in Qtys : LinkedAdd(id, side, type, price, qty)
  \/ LinkedDrop
  \/ \E id \in Ids : LinkedCancel(id)
  \/ \E id \in Ids, price \in Prices, qty \in Qtys : LinkedModify(id, price, qty)
  \/ LinkedMatch
  \/ LinkedFinish

LinkedSpec == LinkedInit /\ [][LinkedNext]_linkedVars

-----------------------------------------------------------------------------
(* Properties *)

\* Following the links of a level from m_head gives its FIFO queue, following
\* them back from m_tail gives the reverse, and an order on no level has no
\* links: the pointer surgery of addOrder and removeOrder (PriceLevel) is the
\* queue that matching is specified with.
LinksMirrorQueues ==
  /\ \A side \in Sides, p \in Prices :
       LET q == IF levels[side][p] = NoLevel THEN <<>> ELSE levels[side][p].queue
           At(i) == IF i \in DOMAIN q THEN q[i] ELSE NoSlot
       IN /\ links.head[side][p] = At(1) /\ links.tail[side][p] = At(Len(q))
          /\ \A i \in DOMAIN q : links.next[q[i]] = At(i + 1) /\ links.prev[q[i]] = At(i - 1)
  /\ \A s \in Slots \ Resting : links.next[s] = NoSlot /\ links.prev[s] = NoSlot

\* The slot k steps down the free list.
FreeAt(k) ==
  LET walk[i \in 0 .. k] ==
        IF i = 0 THEN pool.freeHead
        ELSE IF walk[i - 1] = NoSlot THEN NoSlot ELSE pool.stored[walk[i - 1]]
  IN walk[k]

\* The free list is a chain through exactly the slots without an Order, each
\* once and then null, and allocatedCount() is the number of the others: no
\* slot is lost, handed out twice or freed twice (allocate, deallocate).
FreeListExact ==
  LET free == {s \in Slots : slab[s] = NoOrder}
  IN /\ {FreeAt(k) : k \in 0 .. Cardinality(free) - 1} = free
     /\ FreeAt(Cardinality(free)) = NoSlot
     /\ pool.allocated = Cardinality(Slots \ free)

\* The pointers are the book and the pool that matching is specified with:
\* LinksMirrorQueues and FreeListExact (PriceLevel, SlabPool).
PointersMirrorBook == LinksMirrorQueues /\ FreeListExact
=============================================================================
