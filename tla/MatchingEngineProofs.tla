------------------------ MODULE MatchingEngineProofs ------------------------
(***************************************************************************)
(* Proofs about OrderBook and MatchingEngine for every set of ids and      *)
(* slots and every bound on prices and quantities.  First what the         *)
(* operations of PriceLevel and OrderBook do to the queues of a book, to   *)
(* the total quantities of its levels and to the orders in it.  Then the   *)
(* engine: orders have one owner, the book is never crossed and the match  *)
(* loop ends; the total quantity of every level is the sum of what its     *)
(* orders have left, the fills of a message add up to what its order was   *)
(* filled, and trades have price-time priority.                            *)
(***************************************************************************)
EXTENDS MatchingEngine, SequenceTheorems, WellFoundedInduction, TLAPS

\* Removing an index of a sequence closes the gap.
LEMMA WithoutProperties ==
  ASSUME NEW S, NEW q \in Seq(S), NEW i \in 1 .. Len(q)
  PROVE  /\ Without(q, i) \in Seq(S)
         /\ Len(Without(q, i)) = Len(q) - 1
         /\ \A j \in 1 .. Len(q) - 1 :
              Without(q, i)[j] = IF j < i THEN q[j] ELSE q[j + 1]
<1> DEFINE a == SubSeq(q, 1, i - 1)
           b == SubSeq(q, i + 1, Len(q))
<1>1. Len(q) \in Nat
  BY LenProperties, Zenon
<1>2. /\ a \in Seq(S) /\ Len(a) = i - 1
      /\ \A j \in 1 .. i - 1 : a[j] = q[j]
  BY <1>1, SubSeqProperties
<1>3. /\ b \in Seq(S) /\ Len(b) = Len(q) - i
      /\ \A j \in 1 .. Len(q) - i : b[j] = q[i + j]
  BY <1>1, SubSeqProperties
<1>4. /\ a \o b \in Seq(S)
      /\ Len(a \o b) = Len(a) + Len(b)
      /\ \A j \in 1 .. Len(a) + Len(b) :
           (a \o b)[j] = IF j <= Len(a) THEN a[j] ELSE b[j - Len(a)]
  BY <1>2, <1>3, ConcatProperties, ZenonT(60)
<1>5. Without(q, i) = a \o b
  BY Zenon DEF Without
<1> HIDE DEF a, b
<1>6. Len(a \o b) = Len(q) - 1
  BY <1>1, <1>2, <1>3, <1>4
<1>7. ASSUME NEW j \in 1 .. Len(q) - 1
      PROVE  (a \o b)[j] = IF j < i THEN q[j] ELSE q[j + 1]
  <2>1. (a \o b)[j] = IF j <= Len(a) THEN a[j] ELSE b[j - Len(a)]
    BY <1>1, <1>2, <1>3, <1>4, SMTT(30)
  <2>2. CASE j < i
    BY <1>1, <1>2, <2>1, <2>2
  <2>3. CASE ~(j < i)
    <3>1. j - Len(a) \in 1 .. Len(q) - i /\ ~(j <= Len(a))
      BY <1>1, <1>2, <2>3
    <3>2. b[j - Len(a)] = q[i + (j - Len(a))]
      BY <1>3, <3>1, Zenon
    <3>3. i + (j - Len(a)) = j + 1
      BY <1>1, <1>2
    <3> QED
      BY <2>1, <2>3, <3>1, <3>2, <3>3, Zenon
  <2> QED
    BY <2>2, <2>3, Zenon
<1> QED
  BY <1>4, <1>5, <1>6, <1>7, Zenon

\* Unlinking an order from a queue that has it once removes exactly it.
LEMMA RemoveFromQueue ==
  ASSUME NEW S, NEW q \in Seq(S), IsInjective(q), NEW s \in Range(q)
  PROVE  LET i == PositionOf(q, s)
             r == Without(q, i)
         IN /\ i \in 1 .. Len(q) /\ q[i] = s
            /\ r \in Seq(S)
            /\ Len(r) = Len(q) - 1
            /\ \A j \in 1 .. Len(r) : r[j] = IF j < i THEN q[j] ELSE q[j + 1]
            /\ IsInjective(r)
            /\ Range(r) = Range(q) \ {s}
<1> DEFINE i == PositionOf(q, s)
           r == Without(q, i)
<1>1. Len(q) \in Nat /\ DOMAIN q = 1 .. Len(q)
  BY LenProperties, Zenon
<1>2. i \in 1 .. Len(q) /\ q[i] = s
  <2>1. \E k \in DOMAIN q : q[k] = s
    BY Zenon DEF Range
  <2> QED
    BY <1>1, <2>1, Zenon DEF PositionOf
<1> HIDE DEF i
<1>3. /\ r \in Seq(S) /\ Len(r) = Len(q) - 1
      /\ \A j \in 1 .. Len(r) : r[j] = IF j < i THEN q[j] ELSE q[j + 1]
  BY <1>2, WithoutProperties, Zenon
<1> HIDE DEF r
<1>4. DOMAIN r = 1 .. Len(q) - 1
  BY <1>3, LenProperties, Zenon
<1>5. \A j, k \in DOMAIN q : q[j] = q[k] => j = k
  BY Zenon DEF IsInjective
<1>6. IsInjective(r)
  <2> SUFFICES ASSUME NEW j \in DOMAIN r, NEW k \in DOMAIN r, r[j] = r[k]
               PROVE  j = k
    BY Zenon DEF IsInjective
  <2>1. /\ j \in 1 .. Len(q) /\ j + 1 \in 1 .. Len(q)
        /\ k \in 1 .. Len(q) /\ k + 1 \in 1 .. Len(q)
    BY <1>1, <1>4
  <2>2. r[j] = (IF j < i THEN q[j] ELSE q[j + 1]) /\ r[k] = IF k < i THEN q[k] ELSE q[k + 1]
    BY <1>3, <1>4, Zenon
  <2>3. PICK j1 \in 1 .. Len(q) : j1 = IF j < i THEN j ELSE j + 1
    BY <2>1, Zenon
  <2>4. PICK k1 \in 1 .. Len(q) : k1 = IF k < i THEN k ELSE k + 1
    BY <2>1, Zenon
  <2>5. r[j] = q[j1] /\ r[k] = q[k1]
    BY <2>2, <2>3, <2>4, Zenon
  <2>6. j1 = k1
    BY <1>1, <1>5, <2>5, Zenon
  <2> QED
    BY <1>1, <1>2, <2>1, <2>3, <2>4, <2>6, SMTT(30)
<1>7. ASSUME NEW x \in Range(r) PROVE x \in Range(q) \ {s}
  <2>1. PICK j \in 1 .. Len(q) - 1 : r[j] = x
    BY <1>4, Zenon DEF Range
  <2>2. j \in 1 .. Len(q) /\ j + 1 \in 1 .. Len(q)
    BY <1>1
  <2>3. x = IF j < i THEN q[j] ELSE q[j + 1]
    BY <1>3, <2>1, Zenon
  <2>4. j < i => j # i
    BY <1>1, <1>2
  <2>5. ~(j < i) => j + 1 # i
    BY <1>1, <1>2
  <2> QED
    BY <1>1, <1>2, <1>5, <2>2, <2>3, <2>4, <2>5, Zenon DEF Range
<1>8. ASSUME NEW x \in Range(q) \ {s} PROVE x \in Range(r)
  <2>1. PICK k \in 1 .. Len(q) : q[k] = x
    BY <1>1, Zenon DEF Range
  <2>2. k # i
    BY <1>2, <2>1, Zenon
  <2>3. CASE k < i
    <3>1. k \in 1 .. Len(q) - 1
      BY <1>1, <1>2, <2>3
    <3> QED
      BY <1>3, <1>4, <2>1, <2>3, <3>1, Zenon DEF Range
  <2>4. CASE ~(k < i)
    <3>1. k - 1 \in 1 .. Len(q) - 1 /\ ~(k - 1 < i) /\ (k - 1) + 1 = k
      BY <1>1, <1>2, <2>2, <2>4
    <3>2. r[k - 1] = x
      BY <1>3, <2>1, <3>1, Zenon
    <3> QED
      BY <1>4, <3>1, <3>2, Zenon DEF Range
  <2> QED
    BY <2>3, <2>4, Zenon
<1> QED
  BY <1>2, <1>3, <1>6, <1>7, <1>8, Zenon DEF i, r

\* Linking an order behind the tail of a queue that does not have it.
LEMMA AppendToQueue ==
  ASSUME NEW S, NEW q \in Seq(S), NEW s \in S
  PROVE  /\ Append(q, s) \in Seq(S)
         /\ Append(q, s) # <<>>
         /\ Range(Append(q, s)) = Range(q) \cup {s}
         /\ (IsInjective(q) /\ s \notin Range(q)) => IsInjective(Append(q, s))
<1>1. /\ Len(q) \in Nat /\ DOMAIN q = 1 .. Len(q)
      /\ Append(q, s) \in Seq(S) /\ DOMAIN Append(q, s) = 1 .. Len(q) + 1
      /\ Append(q, s) # <<>>
      /\ \A j \in 1 .. Len(q) : Append(q, s)[j] = q[j]
      /\ Append(q, s)[Len(q) + 1] = s
  BY LenProperties, AppendProperties
<1>2. Range(Append(q, s)) = Range(q) \cup {s}
  BY <1>1 DEF Range
<1>3. ASSUME IsInjective(q), s \notin Range(q) PROVE IsInjective(Append(q, s))
  <2> SUFFICES ASSUME NEW j \in 1 .. Len(q) + 1, NEW k \in 1 .. Len(q) + 1,
                      Append(q, s)[j] = Append(q, s)[k]
               PROVE  j = k
    BY <1>1, Zenon DEF IsInjective
  <2>1. \A m \in 1 .. Len(q) : q[m] # s
    BY <1>1, <1>3, Zenon DEF Range
  <2>2. CASE j \in 1 .. Len(q) /\ k \in 1 .. Len(q)
    BY <1>1, <1>3, <2>2, Zenon DEF IsInjective
  <2>3. CASE j = Len(q) + 1 \/ k = Len(q) + 1
    BY <1>1, <2>1, <2>3
  <2> QED
    BY <1>1, <2>2, <2>3
<1> QED
  BY <1>1, <1>2, <1>3, Zenon

\* A non-empty set of naturals has a least element, and a greatest one if it
\* is bounded.
LEMMA LeastExists ==
  ASSUME NEW T, T \subseteq Nat, T # {}
  PROVE  \E x \in T : \A y \in T : x <= y
<1>1. PICK x \in T : \A y \in T : ~(<<y, x>> \in OpToRel(<, Nat))
  BY WFMin, NatLessThanWellFounded, Zenon
<1>2. ASSUME NEW y \in T PROVE x <= y
  <2>1. x \in Nat /\ y \in Nat
    BY Zenon
  <2>2. y < x => <<y, x>> \in OpToRel(<, Nat)
    BY <2>1, Zenon DEF OpToRel
  <2>3. ~(y < x)
    BY <1>1, <2>2, Zenon
  <2> QED
    BY <2>1, <2>3
<1> QED
  BY <1>2, Zenon

\* A nonempty set of prices has a greatest element (m_bids.begin()).
LEMMA GreatestExists ==
  ASSUME NEW N \in Nat, NEW T, T \subseteq 1 .. N, T # {}
  PROVE  \E x \in T : \A y \in T : x >= y
<1> DEFINE U == {N - y : y \in T}
<1>1. PICK u \in U : \A v \in U : u <= v
  <2>1. \A y \in T : N - y \in Nat
    OBVIOUS
  <2>2. U \subseteq Nat /\ U # {}
    BY <2>1, Zenon
  <2> HIDE DEF U
  <2> QED
    BY <2>2, LeastExists, Zenon
<1>2. PICK x \in T : u = N - x
  BY <1>1, Zenon
<1>3. ASSUME NEW y \in T PROVE x >= y
  <2>1. N - x <= N - y
    BY <1>1, <1>2, Zenon
  <2> QED
    BY <2>1
<1> QED
  BY <1>3, Zenon

\* getBestAsk is 0 on an empty side and otherwise the lowest price present;
\* getBestBid is 0 or the highest.
LEMMA BestAsk ==
  ASSUME NEW lvls
  PROVE  IF Present(lvls, "SELL") = {}
         THEN getBestAsk(lvls) = 0
         ELSE /\ getBestAsk(lvls) \in Present(lvls, "SELL")
              /\ \A p \in Present(lvls, "SELL") : getBestAsk(lvls) <= p
<1> DEFINE T == Present(lvls, "SELL")
<1>1. T \subseteq Nat
  BY BoundsAssumption DEF Present, Prices
<1> HIDE DEF T
<1>2. ASSUME T # {} PROVE Min(T) \in T /\ \A y \in T : Min(T) <= y
  <2>1. \E x \in T : \A y \in T : x <= y
    BY <1>1, <1>2, LeastExists, Zenon
  <2> QED
    BY <2>1, Zenon DEF Min
<1> QED
  BY <1>2, Zenon DEF getBestAsk, T

\* getBestBid is 0 for an empty side and else the highest price with a level.
LEMMA BestBid ==
  ASSUME NEW lvls
  PROVE  IF Present(lvls, "BUY") = {}
         THEN getBestBid(lvls) = 0
         ELSE /\ getBestBid(lvls) \in Present(lvls, "BUY")
              /\ \A p \in Present(lvls, "BUY") : getBestBid(lvls) >= p
<1> DEFINE T == Present(lvls, "BUY")
<1>1. T \subseteq 1 .. MaxPrice
  BY Zenon DEF Present, Prices
<1> HIDE DEF T
<1>2. ASSUME T # {} PROVE Max(T) \in T /\ \A y \in T : Max(T) >= y
  <2>1. \E x \in T : \A y \in T : x >= y
    BY <1>1, <1>2, GreatestExists, BoundsAssumption, Zenon
  <2> QED
    BY <2>1, Zenon DEF Max
<1> QED
  BY <1>2, Zenon DEF getBestBid, T

\* OrderBook::addOrder puts the order on its level, creating the level if it
\* has to, and touches no other.
LEMMA BookAdd ==
  ASSUME NEW lvls \in Levels, QueuesOK(lvls),
         NEW o \in Order, o.price \in Prices, NEW s \in Slots,
         s \notin OrdersAt(lvls, o.side, o.price),
         NEW l1, l1 = book_addOrder(lvls, s, o)
  PROVE  /\ l1 \in Levels
         /\ QueuesOK(l1)
         /\ \A side \in Sides, p \in Prices :
              OrdersAt(l1, side, p) =
                IF side = o.side /\ p = o.price
                THEN OrdersAt(lvls, side, p) \cup {s} ELSE OrdersAt(lvls, side, p)
         /\ \A side \in Sides :
              Present(l1, side) =
                IF side = o.side THEN Present(lvls, side) \cup {o.price}
                                 ELSE Present(lvls, side)
<1> DEFINE old == lvls[o.side][o.price]
           base == IF old = NoLevel THEN EmptyLevel ELSE old
           lv == level_addOrder(base, s, remainingQty(o))
<1>1. /\ o.side \in Sides /\ o.price \in Prices
      /\ remainingQty(o) \in Int
  BY BoundsAssumption DEF Order, remainingQty, Qtys
<1>2. /\ base \in Level
      /\ IsInjective(base.queue)
      /\ Range(base.queue) = OrdersAt(lvls, o.side, o.price)
  <2>1. CASE old = NoLevel
    <3>1. IsInjective(<<>>) /\ Range(<<>>) = {}
      BY DEF IsInjective, Range
    <3> QED
      BY <2>1, <3>1 DEF EmptyLevel, Level, OrdersAt
  <2>2. CASE old # NoLevel
    BY <1>1, <2>2, Zenon DEF Levels, QueuesOK, Present, OrdersAt
  <2> QED
    BY <2>1, <2>2, Zenon
<1> HIDE DEF base
<1>3. base.queue \in Seq(Slots) /\ base.totalQty \in Int /\ base.orderCount \in Int
  BY <1>2, Zenon DEF Level
<1>4. /\ Append(base.queue, s) \in Seq(Slots)
      /\ Append(base.queue, s) # <<>>
      /\ Range(Append(base.queue, s)) = OrdersAt(lvls, o.side, o.price) \cup {s}
      /\ IsInjective(Append(base.queue, s))
  BY <1>2, <1>3, AppendToQueue
<1>5. lv.queue = Append(base.queue, s) /\ lv \in Level /\ lv # NoLevel
  <2>1. lv.queue = Append(base.queue, s)
    BY Zenon DEF level_addOrder
  <2>2. lv \in Level
    BY <1>1, <1>3, <1>4 DEF level_addOrder, Level
  <2> QED
    BY <2>1, <2>2, NullAssumption, Zenon
<1>6. l1 = [lvls EXCEPT ![o.side][o.price] = lv]
  BY Zenon DEF book_addOrder, base
<1> HIDE DEF lv
<1>7. l1 \in Levels
  BY <1>1, <1>5, <1>6 DEF Levels
<1>8. ASSUME NEW side \in Sides, NEW p \in Prices
      PROVE  l1[side][p] = IF side = o.side /\ p = o.price THEN lv ELSE lvls[side][p]
  BY <1>1, <1>6 DEF Levels
<1>9. ASSUME NEW side \in Sides, NEW p \in Prices
      PROVE  OrdersAt(l1, side, p) =
                IF side = o.side /\ p = o.price
                THEN OrdersAt(lvls, side, p) \cup {s} ELSE OrdersAt(lvls, side, p)
  BY <1>4, <1>5, <1>8, ZenonT(60) DEF OrdersAt
<1>10. ASSUME NEW side \in Sides
       PROVE  Present(l1, side) =
                IF side = o.side THEN Present(lvls, side) \cup {o.price}
                                 ELSE Present(lvls, side)
  BY <1>1, <1>5, <1>8 DEF Present
<1>11. QueuesOK(l1)
  <2> SUFFICES ASSUME NEW side \in Sides, NEW p \in Prices, l1[side][p] # NoLevel
               PROVE  l1[side][p].queue # <<>> /\ IsInjective(l1[side][p].queue)
    BY Zenon DEF QueuesOK, Present
  <2>1. CASE side = o.side /\ p = o.price
    <3>1. l1[side][p] = lv
      BY <1>8, <2>1, Zenon
    <3> QED
      BY <1>4, <1>5, <3>1, Zenon
  <2>2. CASE ~(side = o.side /\ p = o.price)
    BY <1>8, <2>2 DEF QueuesOK, Present
  <2> QED
    BY <2>1, <2>2, Zenon
<1> QED
  BY <1>7, <1>9, <1>10, <1>11, Zenon

\* OrderBook::removeOrder takes the order off its level, erases the level if
\* that emptied it, and touches no other.
LEMMA BookRemove ==
  ASSUME NEW lvls \in Levels, QueuesOK(lvls),
         NEW o \in Order, o.price \in Prices,
         NEW s \in OrdersAt(lvls, o.side, o.price),
         NEW l1, l1 = book_removeOrder(lvls, s, o)
  PROVE  /\ l1 \in Levels
         /\ QueuesOK(l1)
         /\ \A side \in Sides, p \in Prices :
              OrdersAt(l1, side, p) =
                IF side = o.side /\ p = o.price
                THEN OrdersAt(lvls, side, p) \ {s} ELSE OrdersAt(lvls, side, p)
         /\ \A side \in Sides : Present(l1, side) \subseteq Present(lvls, side)
<1> DEFINE old == lvls[o.side][o.price]
           lv == level_removeOrder(old, s, remainingQty(o))
           new == IF isEmpty(lv) THEN NoLevel ELSE lv
<1>1. o.side \in Sides /\ o.price \in Prices /\ remainingQty(o) \in Int
  BY BoundsAssumption DEF Order, remainingQty, Qtys
<1>2. /\ old # NoLevel /\ old \in Level
      /\ OrdersAt(lvls, o.side, o.price) = Range(old.queue)
      /\ IsInjective(old.queue)
  <2>1. old # NoLevel
    BY Zenon DEF OrdersAt
  <2> QED
    BY <1>1, <2>1, Zenon DEF OrdersAt, Levels, QueuesOK, Present
<1>3. old.queue \in Seq(Slots) /\ old.totalQty \in Int /\ old.orderCount \in Int
  BY <1>2, Zenon DEF Level
<1>4. l1 = [lvls EXCEPT ![o.side][o.price] = new]
  BY <1>2, Zenon DEF book_removeOrder
<1> HIDE DEF old
<1> DEFINE r == Without(old.queue, PositionOf(old.queue, s))
<1>5. r \in Seq(Slots) /\ IsInjective(r) /\ Range(r) = Range(old.queue) \ {s}
  BY <1>2, <1>3, RemoveFromQueue
<1>6. lv.queue = r /\ lv \in Level /\ lv # NoLevel
  <2>1. lv.queue = r
    BY Zenon DEF level_removeOrder
  <2> HIDE DEF r
  <2>2. lv = [queue |-> r, totalQty |-> old.totalQty - remainingQty(o),
              orderCount |-> old.orderCount - 1]
    BY Zenon DEF level_removeOrder, r
  <2>3. lv \in Level
    BY <1>1, <1>3, <1>5, <2>2, SMTT(30) DEF Level
  <2> QED
    BY <2>1, <2>3, NullAssumption, Zenon
<1> HIDE DEF r, lv
<1>7. /\ new \in Level \cup {NoLevel}
      /\ new # NoLevel => new.queue = r /\ r # <<>>
      /\ new = NoLevel => r = <<>>
  BY <1>6, Zenon DEF isEmpty
<1> HIDE DEF new
<1>8. l1 \in Levels
  BY <1>1, <1>4, <1>7 DEF Levels
<1>9. ASSUME NEW side \in Sides, NEW p \in Prices
      PROVE  l1[side][p] = IF side = o.side /\ p = o.price THEN new ELSE lvls[side][p]
  BY <1>1, <1>4 DEF Levels
<1>10. ASSUME NEW side \in Sides, NEW p \in Prices
       PROVE  OrdersAt(l1, side, p) =
                IF side = o.side /\ p = o.price
                THEN OrdersAt(lvls, side, p) \ {s} ELSE OrdersAt(lvls, side, p)
  <2>1. CASE side = o.side /\ p = o.price
    <3>1. l1[side][p] = new
      BY <1>9, <2>1, Zenon
    <3>2. Range(<<>>) = {}
      BY DEF Range
    <3>3. OrdersAt(l1, side, p) = Range(r)
      BY <1>7, <3>1, <3>2, Zenon DEF OrdersAt
    <3> QED
      BY <1>2, <1>5, <2>1, <3>3, Zenon
  <2>2. CASE ~(side = o.side /\ p = o.price)
    <3>1. l1[side][p] = lvls[side][p]
      BY <1>9, <2>2, Zenon
    <3> QED
      BY <2>2, <3>1, Zenon DEF OrdersAt
  <2> QED
    BY <2>1, <2>2, Zenon
<1>11. ASSUME NEW side \in Sides PROVE Present(l1, side) \subseteq Present(lvls, side)
  BY <1>2, <1>9, ZenonT(30) DEF Present, old
<1>12. QueuesOK(l1)
  <2> SUFFICES ASSUME NEW side \in Sides, NEW p \in Prices, l1[side][p] # NoLevel
               PROVE  l1[side][p].queue # <<>> /\ IsInjective(l1[side][p].queue)
    BY Zenon DEF QueuesOK, Present
  <2>1. CASE side = o.side /\ p = o.price
    <3>1. l1[side][p] = new
      BY <1>9, <2>1, Zenon
    <3> QED
      BY <1>5, <1>7, <3>1, Zenon
  <2>2. CASE ~(side = o.side /\ p = o.price)
    <3>1. l1[side][p] = lvls[side][p]
      BY <1>9, <2>2, Zenon
    <3> QED
      BY <3>1, Zenon DEF QueuesOK, Present
  <2> QED
    BY <2>1, <2>2, Zenon
<1> QED
  BY <1>8, <1>10, <1>11, <1>12, Zenon

\* The book after decreaseTotalQty(d) at one price.
DecreasedAt(lvls, side, p, d) == [lvls EXCEPT ![side][p] = decreaseTotalQty(@, d)]

\* PriceLevel::decreaseTotalQty leaves every queue alone.
LEMMA BookDecrease ==
  ASSUME NEW lvls \in Levels, QueuesOK(lvls), NEW q \in Nat,
         NEW side0 \in Sides, NEW p0 \in Present(lvls, side0),
         NEW l1, l1 = DecreasedAt(lvls, side0, p0, q)
  PROVE  /\ l1 \in Levels
         /\ QueuesOK(l1)
         /\ \A side \in Sides, p \in Prices :
              OrdersAt(l1, side, p) = OrdersAt(lvls, side, p)
         /\ \A side \in Sides : Present(l1, side) = Present(lvls, side)
<1> DEFINE old == lvls[side0][p0]
           new == decreaseTotalQty(old, q)
<1>1. p0 \in Prices /\ old # NoLevel /\ old \in Level
  BY Zenon DEF Present, Levels
<1>2. /\ new \in Level /\ new # NoLevel
      /\ new.queue = old.queue
  <2>1. new = [old EXCEPT !.totalQty = IF q > old.totalQty THEN 0 ELSE old.totalQty - q]
    BY <1>1, Zenon DEF decreaseTotalQty, Level
  <2>2. new \in Level /\ new.queue = old.queue
    BY <1>1, <2>1, SMTT(30) DEF Level
  <2> QED
    BY <2>2, NullAssumption, Zenon
<1>3. l1 = [lvls EXCEPT ![side0][p0] = new]
  BY Zenon DEF DecreasedAt
<1> HIDE DEF new
<1>4. l1 \in Levels
  BY <1>1, <1>2, <1>3 DEF Levels
<1>5. ASSUME NEW side \in Sides, NEW p \in Prices
      PROVE  l1[side][p] = IF side = side0 /\ p = p0 THEN new ELSE lvls[side][p]
  BY <1>1, <1>3 DEF Levels
<1>6. ASSUME NEW side \in Sides, NEW p \in Prices
      PROVE  /\ l1[side][p] = NoLevel <=> lvls[side][p] = NoLevel
             /\ l1[side][p] # NoLevel => l1[side][p].queue = lvls[side][p].queue
  <2>1. CASE side = side0 /\ p = p0
    <3>1. l1[side][p] = new
      BY <1>5, <2>1, Zenon
    <3> QED
      BY <1>1, <1>2, <2>1, <3>1, Zenon
  <2>2. CASE ~(side = side0 /\ p = p0)
    <3>1. l1[side][p] = lvls[side][p]
      BY <1>5, <2>2, Zenon
    <3> QED
      BY <3>1, Zenon
  <2> QED
    BY <2>1, <2>2, Zenon
<1>7. ASSUME NEW side \in Sides, NEW p \in Prices
      PROVE  OrdersAt(l1, side, p) = OrdersAt(lvls, side, p)
  BY <1>6, Zenon DEF OrdersAt
<1>8. ASSUME NEW side \in Sides PROVE Present(l1, side) = Present(lvls, side)
  BY <1>6, Zenon DEF Present
<1>9. QueuesOK(l1)
  BY <1>6 DEF QueuesOK, Present
<1> QED
  BY <1>4, <1>7, <1>8, <1>9, Zenon

Slab == [Slots -> Order \cup {NoOrder}]
IdMap == [Ids -> Slots \cup {NoSlot}]

\* The orders the id map knows keep their id, side and price from sl to sl1,
\* except possibly s.
SameOrders(sl, sl1, om, s) ==
  \A id \in Ids : (om[id] # NoSlot /\ om[id] # s) =>
    /\ sl1[om[id]] # NoOrder
    /\ sl1[om[id]].orderId = sl[om[id]].orderId
    /\ sl1[om[id]].side = sl[om[id]].side
    /\ sl1[om[id]].price = sl[om[id]].price

\* The orders linked on a side are slots of the pool.
LEMMA OrdersAtSlots ==
  ASSUME NEW lvls \in Levels, NEW side \in Sides, NEW p \in Prices
  PROVE  OrdersAt(lvls, side, p) \subseteq Slots
<1> SUFFICES ASSUME NEW s \in OrdersAt(lvls, side, p) PROVE s \in Slots
  BY Zenon
<1>1. lvls[side][p] # NoLevel /\ s \in Range(lvls[side][p].queue)
  BY Zenon DEF OrdersAt
<1>2. lvls[side][p].queue \in Seq(Slots)
  BY <1>1, Zenon DEF Levels, Level
<1> QED
  BY <1>1, <1>2, LenProperties, ElementOfSeq DEF Range

\* A change of quantities only keeps the book sound.
LEMMA BookFrame ==
  ASSUME NEW sl \in Slab, NEW sl1 \in Slab, NEW om \in IdMap,
         NEW lvls \in Levels, NEW l1 \in Levels,
         IdMapSound(sl, lvls, om), LevelsSound(sl, lvls, om),
         SameOrders(sl, sl1, om, NoSlot),
         \A side \in Sides, p \in Prices : OrdersAt(l1, side, p) = OrdersAt(lvls, side, p)
  PROVE  IdMapSound(sl1, l1, om) /\ LevelsSound(sl1, l1, om)
<1>1. ASSUME NEW id \in Ids, om[id] # NoSlot
      PROVE  /\ sl1[om[id]] # NoOrder
             /\ sl1[om[id]].orderId = id
             /\ sl1[om[id]].price \in Prices
             /\ om[id] \in OrdersAt(l1, sl1[om[id]].side, sl1[om[id]].price)
  <2> DEFINE s == om[id]
  <2>1. /\ sl[s] # NoOrder /\ sl[s].orderId = id /\ sl[s].price \in Prices
        /\ s \in OrdersAt(lvls, sl[s].side, sl[s].price)
    BY <1>1, Zenon DEF IdMapSound
  <2>2. /\ sl1[s] # NoOrder /\ sl1[s].orderId = id
        /\ sl1[s].side = sl[s].side /\ sl1[s].price = sl[s].price
    BY <1>1, <2>1, Zenon DEF SameOrders
  <2>3. sl[s].side \in Sides
    BY <1>1, <2>1, Zenon DEF Slab, Order, IdMap
  <2> QED
    BY <2>1, <2>2, <2>3, Zenon
<1>2. ASSUME NEW side \in Sides, NEW p \in Prices, NEW s \in OrdersAt(l1, side, p)
      PROVE  sl1[s] # NoOrder /\ sl1[s].side = side /\ sl1[s].price = p /\ om[sl1[s].orderId] = s
  <2>1. s \in OrdersAt(lvls, side, p)
    BY Zenon
  <2>2. sl[s] # NoOrder /\ sl[s].side = side /\ sl[s].price = p /\ om[sl[s].orderId] = s
    BY <2>1 DEF LevelsSound
  <2>3. s \in Slots
    BY <2>1, OrdersAtSlots, Zenon
  <2>4. sl[s].orderId \in Ids
    BY <2>2, <2>3, Zenon DEF Slab, Order
  <2>5. s # NoSlot
    BY <2>3, NullAssumption, ZenonT(60)
  <2> QED
    BY <2>2, <2>4, <2>5, ZenonT(30) DEF SameOrders
<1> QED
  BY <1>1, <1>2 DEF IdMapSound, LevelsSound

\* The book l1, om1 after an order in slot s left, or joined, the book lvls.
BookUnlinked(lvls, sl1, l1, om1, s) ==
  /\ l1 \in Levels
  /\ QueuesOK(l1)
  /\ om1 \in IdMap
  /\ IdMapSound(sl1, l1, om1)
  /\ LevelsSound(sl1, l1, om1)
  /\ \A side \in Sides : Present(l1, side) \subseteq Present(lvls, side)
  /\ \A id \in Ids : om1[id] # s

BookLinked(lvls, sl, l1, om1, s) ==
  /\ l1 \in Levels
  /\ QueuesOK(l1)
  /\ om1 \in IdMap
  /\ IdMapSound(sl, l1, om1)
  /\ LevelsSound(sl, l1, om1)
  /\ \A side \in Sides :
       Present(l1, side) = IF side = sl[s].side
                           THEN Present(lvls, side) \cup {sl[s].price}
                           ELSE Present(lvls, side)

\* Taking an order out of its level and out of the id map keeps the book
\* sound, whatever becomes of the slot.
LEMMA BookUnlink ==
  ASSUME NEW sl \in Slab, NEW sl1 \in Slab, NEW om \in IdMap, NEW lvls \in Levels,
         QueuesOK(lvls), IdMapSound(sl, lvls, om), LevelsSound(sl, lvls, om),
         NEW s \in Slots, NEW o \in Order, om[o.orderId] = s,
         sl[s].side = o.side, sl[s].price = o.price,
         SameOrders(sl, sl1, om, s),
         NEW l1, l1 = book_removeOrder(lvls, s, o),
         NEW om1, om1 = [om EXCEPT ![o.orderId] = NoSlot]
  PROVE  BookUnlinked(lvls, sl1, l1, om1, s)
<1>1. s # NoSlot /\ o.orderId \in Ids /\ o.side \in Sides
  BY NullAssumption, Zenon DEF Order
<1>2. /\ sl[s] # NoOrder /\ sl[s].orderId = o.orderId /\ o.price \in Prices
      /\ s \in OrdersAt(lvls, o.side, o.price)
  BY <1>1, Zenon DEF IdMapSound
<1>3. /\ l1 \in Levels
      /\ QueuesOK(l1)
      /\ \A side \in Sides, p \in Prices :
           OrdersAt(l1, side, p) =
             IF side = o.side /\ p = o.price
             THEN OrdersAt(lvls, side, p) \ {s} ELSE OrdersAt(lvls, side, p)
      /\ \A side \in Sides : Present(l1, side) \subseteq Present(lvls, side)
  BY <1>2, BookRemove
<1>4. /\ om1 \in IdMap
      /\ \A id \in Ids : om1[id] = IF id = o.orderId THEN NoSlot ELSE om[id]
  BY <1>1, Zenon DEF IdMap
<1>5. ASSUME NEW id \in Ids, id # o.orderId PROVE om[id] # s
  BY <1>1, <1>2, <1>5, Zenon DEF IdMapSound
<1>6. ASSUME NEW id \in Ids, om1[id] # NoSlot
      PROVE  /\ sl1[om1[id]] # NoOrder
             /\ sl1[om1[id]].orderId = id
             /\ sl1[om1[id]].price \in Prices
             /\ om1[id] \in OrdersAt(l1, sl1[om1[id]].side, sl1[om1[id]].price)
  <2> DEFINE x == om[id]
  <2>1. id # o.orderId /\ om1[id] = x /\ x # NoSlot /\ x # s /\ x \in Slots
    BY <1>4, <1>5, <1>6, Zenon DEF IdMap
  <2>2. /\ sl[x] # NoOrder /\ sl[x].orderId = id /\ sl[x].price \in Prices
        /\ x \in OrdersAt(lvls, sl[x].side, sl[x].price)
    BY <2>1, Zenon DEF IdMapSound
  <2>3. /\ sl1[x] # NoOrder /\ sl1[x].orderId = id
        /\ sl1[x].side = sl[x].side /\ sl1[x].price = sl[x].price
    BY <2>1, <2>2, Zenon DEF SameOrders
  <2>4. sl[x].side \in Sides
    BY <2>1, <2>2, Zenon DEF Slab, Order
  <2>5. x \in OrdersAt(l1, sl[x].side, sl[x].price)
    BY <1>3, <2>1, <2>2, <2>4, ZenonT(30)
  <2> QED
    BY <2>1, <2>2, <2>3, <2>5, Zenon
<1>7. ASSUME NEW side \in Sides, NEW p \in Prices, NEW x \in OrdersAt(l1, side, p)
      PROVE  sl1[x] # NoOrder /\ sl1[x].side = side /\ sl1[x].price = p /\ om1[sl1[x].orderId] = x
  <2>1. x \in OrdersAt(lvls, side, p)
    BY <1>3, ZenonT(30)
  <2>2. sl[x] # NoOrder /\ sl[x].side = side /\ sl[x].price = p /\ om[sl[x].orderId] = x
    BY <2>1 DEF LevelsSound
  <2>3. x # s
    BY <1>3, <2>2, ZenonT(30)
  <2>4. x \in Slots /\ x # NoSlot
    BY <2>1, OrdersAtSlots, NullAssumption, Zenon
  <2>5. sl[x].orderId \in Ids
    BY <2>2, <2>4, Zenon DEF Slab, Order
  <2>6. /\ sl1[x] # NoOrder /\ sl1[x].orderId = sl[x].orderId
        /\ sl1[x].side = side /\ sl1[x].price = p
    BY <2>2, <2>3, <2>4, <2>5, ZenonT(30) DEF SameOrders
  <2>7. sl[x].orderId # o.orderId
    BY <2>2, <2>3, Zenon
  <2> QED
    BY <1>4, <2>2, <2>5, <2>6, <2>7, Zenon
<1>8. \A id \in Ids : om1[id] # s
  BY <1>1, <1>4, <1>5, ZenonT(60)
<1>9. IdMapSound(sl1, l1, om1)
  BY <1>6, ZenonT(60) DEF IdMapSound
<1>10. LevelsSound(sl1, l1, om1)
  BY <1>7, SMTT(30) DEF LevelsSound
<1> QED
  BY <1>3, <1>4, <1>8, <1>9, <1>10, ZenonT(60) DEF BookUnlinked

\* Putting an order whose id is free on its level and in the id map keeps the
\* book sound.
LEMMA BookLink ==
  ASSUME NEW sl \in Slab, NEW om \in IdMap, NEW lvls \in Levels,
         QueuesOK(lvls), IdMapSound(sl, lvls, om), LevelsSound(sl, lvls, om),
         NEW s \in Slots, sl[s] # NoOrder,
         sl[s].price \in Prices, om[sl[s].orderId] = NoSlot,
         NEW l1, l1 = book_addOrder(lvls, s, sl[s]),
         NEW om1, om1 = [om EXCEPT ![sl[s].orderId] = s]
  PROVE  BookLinked(lvls, sl, l1, om1, s)
<1> DEFINE o == sl[s]
<1>1. o \in Order
  BY Zenon DEF Slab
<1> HIDE DEF o
<1>2. s # NoSlot /\ o.orderId \in Ids /\ o.side \in Sides /\ o.price \in Prices
  BY <1>1, NullAssumption, Zenon DEF Order, o
<1>3. s \notin OrdersAt(lvls, o.side, o.price)
  BY <1>2 DEF LevelsSound, o
<1>4. /\ l1 \in Levels
      /\ QueuesOK(l1)
      /\ \A side \in Sides, p \in Prices :
           OrdersAt(l1, side, p) =
             IF side = o.side /\ p = o.price
             THEN OrdersAt(lvls, side, p) \cup {s} ELSE OrdersAt(lvls, side, p)
      /\ \A side \in Sides :
           Present(l1, side) =
             IF side = o.side THEN Present(lvls, side) \cup {o.price}
                              ELSE Present(lvls, side)
  <2>1. l1 = book_addOrder(lvls, s, o)
    BY Zenon DEF o
  <2> QED
    BY <1>1, <1>2, <1>3, <2>1, BookAdd
<1>5. /\ om1 \in IdMap
      /\ \A id \in Ids : om1[id] = IF id = o.orderId THEN s ELSE om[id]
  BY <1>2, Zenon DEF IdMap, o
<1>6. ASSUME NEW id \in Ids, om1[id] # NoSlot
      PROVE  /\ sl[om1[id]] # NoOrder
             /\ sl[om1[id]].orderId = id
             /\ sl[om1[id]].price \in Prices
             /\ om1[id] \in OrdersAt(l1, sl[om1[id]].side, sl[om1[id]].price)
  <2>1. CASE id = o.orderId
    <3>1. om1[id] = s
      BY <1>5, <2>1, Zenon
    <3>2. s \in OrdersAt(l1, o.side, o.price)
      BY <1>2, <1>4, Zenon
    <3> QED
      BY <1>2, <2>1, <3>1, <3>2, Zenon DEF o
  <2>2. CASE id # o.orderId
    <3> DEFINE x == om[id]
    <3>1. om1[id] = x /\ x # NoSlot /\ x \in Slots
      BY <1>5, <1>6, <2>2, Zenon DEF IdMap
    <3>2. /\ sl[x] # NoOrder /\ sl[x].orderId = id /\ sl[x].price \in Prices
          /\ x \in OrdersAt(lvls, sl[x].side, sl[x].price)
      BY <3>1, Zenon DEF IdMapSound
    <3>3. sl[x].side \in Sides
      BY <3>1, <3>2, Zenon DEF Slab, Order
    <3>4. x \in OrdersAt(l1, sl[x].side, sl[x].price)
      BY <1>4, <3>2, <3>3, Zenon
    <3> QED
      BY <3>1, <3>2, <3>4, Zenon
  <2> QED
    BY <2>1, <2>2, Zenon
<1>7. ASSUME NEW side \in Sides, NEW p \in Prices, NEW x \in OrdersAt(l1, side, p)
      PROVE  sl[x] # NoOrder /\ sl[x].side = side /\ sl[x].price = p /\ om1[sl[x].orderId] = x
  <2>1. CASE x = s /\ side = o.side /\ p = o.price
    BY <1>2, <1>5, <2>1, Zenon DEF o
  <2>2. CASE x \in OrdersAt(lvls, side, p)
    <3>1. sl[x] # NoOrder /\ sl[x].side = side /\ sl[x].price = p /\ om[sl[x].orderId] = x
      BY <2>2 DEF LevelsSound
    <3>2. x \in Slots /\ x # NoSlot
      BY <2>2, OrdersAtSlots, NullAssumption, Zenon
    <3>3. sl[x].orderId \in Ids
      BY <3>1, <3>2, Zenon DEF Slab, Order
    <3>4. sl[x].orderId # o.orderId
      BY <3>1, <3>2, Zenon DEF o
    <3> QED
      BY <1>5, <3>1, <3>3, <3>4, Zenon
  <2> QED
    BY <1>4, <2>1, <2>2, ZenonT(60)
<1>8. IdMapSound(sl, l1, om1)
  BY <1>6, ZenonT(60) DEF IdMapSound
<1>9. LevelsSound(sl, l1, om1)
  BY <1>7, SMTT(30) DEF LevelsSound
<1> QED
  BY <1>4, <1>5, <1>8, <1>9, ZenonT(60) DEF BookLinked, o

-----------------------------------------------------------------------------
(* Sums *)

\* x is the sum of w[1] .. w[n], through its partial sums.
IsSum(w, n, x) ==
  \E acc \in [0 .. n -> Int] :
    /\ acc[0] = 0 /\ acc[n] = x
    /\ \A i \in 1 .. n : w[i] \in Int /\ acc[i] = acc[i - 1] + w[i]

\* SumTo is that sum: partial sums are unique.
LEMMA SumOf ==
  ASSUME NEW n \in Nat, NEW w, NEW x, IsSum(w, n, x)
  PROVE  SumTo(w, n) = x
<1>1. PICK acc \in [0 .. n -> Int] :
        /\ acc[0] = 0 /\ acc[n] = x
        /\ \A i \in 1 .. n : w[i] \in Int /\ acc[i] = acc[i - 1] + w[i]
  BY Zenon DEF IsSum
<1> DEFINE f == CHOOSE g : g = [i \in 0 .. n |-> IF i = 0 THEN 0 ELSE g[i - 1] + w[i]]
<1>2. acc = [i \in 0 .. n |-> IF i = 0 THEN 0 ELSE acc[i - 1] + w[i]]
  BY <1>1
<1>3. f = [i \in 0 .. n |-> IF i = 0 THEN 0 ELSE f[i - 1] + w[i]]
  BY <1>2, Zenon
<1>4. SumTo(w, n) = f[n]
  BY Zenon DEF SumTo
<1> HIDE DEF f
<1>5. f[0] = 0 /\ \A i \in 1 .. n : f[i] = f[i - 1] + w[i]
  BY <1>3
<1> DEFINE T == {i \in 0 .. n : f[i] # acc[i]}
<1>6. T = {}
  <2> SUFFICES ASSUME T # {} PROVE FALSE
    BY Zenon
  <2>1. T \subseteq Nat
    OBVIOUS
  <2>2. PICK i \in T : \A j \in T : i <= j
    BY <2>1, LeastExists, Zenon
  <2>3. i # 0 /\ i \in 1 .. n /\ i - 1 \in 0 .. n
    BY <1>1, <1>5, <2>2, SMTT(30)
  <2>4. f[i - 1] = acc[i - 1]
    BY <2>2, <2>3
  <2> QED
    BY <1>1, <1>5, <2>2, <2>3, <2>4, ZenonT(30)
<1> QED
  BY <1>1, <1>4, <1>6

\* The sum of nothing, and a sum of equal values.
LEMMA SumEmpty ==
  ASSUME NEW w
  PROVE  IsSum(w, 0, 0)
<1>1. [i \in 0 .. 0 |-> 0] \in [0 .. 0 -> Int] /\ [i \in 0 .. 0 |-> 0][0] = 0
  OBVIOUS
<1>2. \A i \in 1 .. 0 : FALSE
  OBVIOUS
<1> QED
  BY <1>1, <1>2, Zenon DEF IsSum

\* It depends on the values only.
LEMMA SumSame ==
  ASSUME NEW n \in Nat, NEW w, NEW v, NEW x, IsSum(w, n, x), \A i \in 1 .. n : v[i] = w[i]
  PROVE  IsSum(v, n, x)
BY Zenon DEF IsSum

\* One more value.
LEMMA SumAppend ==
  ASSUME NEW n \in Nat, NEW w, NEW v, NEW x \in Int, IsSum(w, n, x),
         \A i \in 1 .. n : v[i] = w[i], v[n + 1] \in Int
  PROVE  IsSum(v, n + 1, x + v[n + 1])
<1>1. PICK acc \in [0 .. n -> Int] :
        /\ acc[0] = 0 /\ acc[n] = x
        /\ \A i \in 1 .. n : w[i] \in Int /\ acc[i] = acc[i - 1] + w[i]
  BY Zenon DEF IsSum
<1> DEFINE a == [i \in 0 .. n + 1 |-> IF i = n + 1 THEN x + v[n + 1] ELSE acc[i]]
<1>2. a \in [0 .. n + 1 -> Int] /\ a[0] = 0 /\ a[n + 1] = x + v[n + 1]
  BY <1>1
<1>3. ASSUME NEW i \in 1 .. n + 1 PROVE v[i] \in Int /\ a[i] = a[i - 1] + v[i]
  <2>1. CASE i = n + 1
    BY <1>1, <2>1
  <2>2. CASE i \in 1 .. n
    <3>1. a[i] = acc[i] /\ a[i - 1] = acc[i - 1]
      BY <2>2
    <3> QED
      BY <1>1, <2>2, <3>1, Zenon
  <2> QED
    BY <2>1, <2>2
<1> HIDE DEF a
<1> QED
  BY <1>2, <1>3, Zenon DEF IsSum

\* The sum and the difference of two integers are integers.
LEMMA SumsInt == \A b, c \in Int : b + c \in Int /\ b - c \in Int
  BY SMT

\* A natural added to a bound stays above it.
LEMMA Grows ==
  \A b \in Int, c \in Nat : b + c >= b /\ (b >= 0 => b + c >= c /\ b + c >= 0)
                          /\ \A d \in Nat : b >= d => b + c >= d
  BY SMT

\* One of the values changes.
LEMMA SumChange ==
  ASSUME NEW n \in Nat, NEW w, NEW v, NEW x \in Int, IsSum(w, n, x),
         NEW k \in 1 .. n, NEW d \in Int, v[k] = w[k] + d,
         \A i \in 1 .. n : i # k => v[i] = w[i]
  PROVE  IsSum(v, n, x + d)
<1>1. PICK acc \in [0 .. n -> Int] :
        /\ acc[0] = 0 /\ acc[n] = x
        /\ \A i \in 1 .. n : w[i] \in Int /\ acc[i] = acc[i - 1] + w[i]
  BY Zenon DEF IsSum
<1> DEFINE a == [i \in 0 .. n |-> IF i < k THEN acc[i] ELSE acc[i] + d]
<1>2. a \in [0 .. n -> Int] /\ a[0] = 0 /\ a[n] = x + d
  <2>1. 0 \in 0 .. n /\ n \in 0 .. n /\ 0 < k /\ ~(n < k)
    OBVIOUS
  <2>2. \A i \in 0 .. n : acc[i] \in Int /\ acc[i] + d \in Int
    BY <1>1, SumsInt, Zenon
  <2> QED
    BY <1>1, <2>1, <2>2, Zenon
<1>3. ASSUME NEW i \in 1 .. n PROVE v[i] \in Int /\ a[i] = a[i - 1] + v[i]
  <2>1. /\ i \in 0 .. n /\ i - 1 \in 0 .. n /\ acc[i] \in Int /\ acc[i - 1] \in Int
        /\ w[i] \in Int /\ acc[i] = acc[i - 1] + w[i]
    BY <1>1, SMTT(30)
  <2>6. acc[i - 1] \in Int /\ w[i] \in Int
    BY <2>1, Zenon
  <2>2. CASE i < k
    <3>1. i - 1 < k /\ i # k
      BY <2>2
    <3>2. a[i] = acc[i] /\ a[i - 1] = acc[i - 1] /\ v[i] = w[i]
      BY <2>1, <2>2, <3>1, Zenon
    <3> QED
      BY <2>1, <3>2, Zenon
  <2>3. CASE i = k
    <3>1. i - 1 < k /\ ~(i < k)
      BY <2>3
    <3>2. a[i] = acc[i] + d /\ a[i - 1] = acc[i - 1] /\ v[i] = w[i] + d
      BY <2>1, <2>3, <3>1, Zenon
    <3>3. w[i] + d \in Int /\ (acc[i - 1] + w[i]) + d = acc[i - 1] + (w[i] + d)
      <4> DEFINE y == acc[i - 1]
                 z == w[i]
      <4>1. y \in Int /\ z \in Int
        BY <2>6, Zenon
      <4> HIDE DEF y, z
      <4>2. z + d \in Int /\ (y + z) + d = y + (z + d)
        BY <4>1, SMTT(30)
      <4> QED
        BY <4>2, Zenon DEF y, z
    <3> HIDE DEF a
    <3> QED
      BY <2>1, <3>2, <3>3, Zenon
  <2>4. CASE i > k
    <3>1. ~(i - 1 < k) /\ ~(i < k) /\ i # k
      BY <2>4
    <3>2. a[i] = acc[i] + d /\ a[i - 1] = acc[i - 1] + d /\ v[i] = w[i]
      BY <2>1, <3>1, Zenon
    <3>3. (acc[i - 1] + w[i]) + d = (acc[i - 1] + d) + w[i]
      <4> DEFINE y == acc[i - 1]
                 z == w[i]
      <4>1. y \in Int /\ z \in Int
        BY <2>6, Zenon
      <4> HIDE DEF y, z
      <4>2. (y + z) + d = (y + d) + z
        BY <4>1, SMTT(30)
      <4> QED
        BY <4>2, Zenon DEF y, z
    <3> HIDE DEF a
    <3> QED
      BY <2>1, <3>2, <3>3, Zenon
  <2>5. i < k \/ i = k \/ i > k
    OBVIOUS
  <2> QED
    BY <2>2, <2>3, <2>4, <2>5, Zenon
<1> HIDE DEF a
<1> QED
  BY <1>2, <1>3, Zenon DEF IsSum

\* One of the values is taken out.
LEMMA SumRemove ==
  ASSUME NEW n \in Nat, NEW w, NEW v, NEW x \in Int, IsSum(w, n, x), NEW k \in 1 .. n,
         \A i \in 1 .. n - 1 : v[i] = IF i < k THEN w[i] ELSE w[i + 1]
  PROVE  IsSum(v, n - 1, x - w[k])
<1>1. PICK acc \in [0 .. n -> Int] :
        /\ acc[0] = 0 /\ acc[n] = x
        /\ \A i \in 1 .. n : w[i] \in Int /\ acc[i] = acc[i - 1] + w[i]
  BY Zenon DEF IsSum
<1> DEFINE a == [i \in 0 .. n - 1 |-> IF i < k THEN acc[i] ELSE acc[i + 1] - w[k]]
<1>2. a \in [0 .. n - 1 -> Int] /\ a[0] = 0 /\ a[n - 1] = x - w[k]
  <2>1. /\ 0 \in 0 .. n - 1 /\ 0 < k /\ n - 1 \in 0 .. n - 1 /\ (n - 1) + 1 = n
        /\ (n - 1 < k => n - 1 \in 0 .. n /\ n = k)
    OBVIOUS
  <2>2. a[0] = 0
    BY <1>1, <2>1, Zenon
  <2>3. w[k] \in Int /\ \A i \in 0 .. n - 1 : acc[i] \in Int /\ acc[i + 1] \in Int
    BY <1>1
  <2>4. a \in [0 .. n - 1 -> Int]
    BY <2>3, SumsInt, ZenonT(60)
  <2>5. a[n - 1] = x - w[k]
    <3>1. CASE n - 1 < k
      <4>1. a[n - 1] = acc[n - 1] /\ n = k
        BY <2>1, <3>1, Zenon
      <4>2. acc[n] = x /\ acc[n] = acc[n - 1] + w[n] /\ w[n] \in Int /\ acc[n - 1] \in Int
        BY <1>1, <4>1
      <4> HIDE DEF a
      <4> QED
        BY <4>1, <4>2
    <3>2. CASE ~(n - 1 < k)
      BY <1>1, <2>1, <3>2, Zenon
    <3> QED
      BY <3>1, <3>2, Zenon
  <2> QED
    BY <2>2, <2>4, <2>5, Zenon
<1>3. ASSUME NEW i \in 1 .. n - 1 PROVE v[i] \in Int /\ a[i] = a[i - 1] + v[i]
  <2>1. /\ i \in 1 .. n /\ i + 1 \in 1 .. n /\ (i + 1) - 1 = i /\ i - 1 \in 0 .. n
        /\ acc[i] \in Int /\ acc[i + 1] \in Int /\ acc[i - 1] \in Int
        /\ w[i] \in Int /\ w[i + 1] \in Int /\ w[k] \in Int
        /\ acc[i] = acc[i - 1] + w[i] /\ acc[i + 1] = acc[i] + w[i + 1]
    BY <1>1, SMTT(30)
  <2>5. /\ acc[i] \in Int /\ acc[i - 1] \in Int
        /\ w[i] \in Int /\ w[i + 1] \in Int /\ w[k] \in Int
    BY <2>1, Zenon
  <2>2. CASE i < k
    <3>1. a[i] = acc[i] /\ a[i - 1] = acc[i - 1] /\ v[i] = w[i]
      BY <2>1, <2>2
    <3> QED
      BY <2>1, <3>1, Zenon
  <2>3. CASE i = k
    <3>1. i - 1 \in 0 .. n - 1 /\ i \in 0 .. n - 1 /\ i \in 1 .. n - 1 /\ i - 1 < k /\ ~(i < k)
      BY <2>3
    <3>2. a[i] = acc[i + 1] - w[k] /\ v[i] = w[i + 1]
      BY <3>1, Zenon
    <3>3. a[i - 1] = acc[i - 1]
      BY <3>1, Zenon
    <3>4. acc[i + 1] - w[k] = acc[i - 1] + w[i + 1]
      <4>1. acc[i + 1] = (acc[i - 1] + w[i]) + w[i + 1] /\ w[k] = w[i]
        BY <2>1, <2>3, Zenon
      <4>2. ((acc[i - 1] + w[i]) + w[i + 1]) - w[i] = acc[i - 1] + w[i + 1]
        <5> DEFINE y == acc[i - 1]
                   z == w[i]
                   u == w[i + 1]
        <5>1. y \in Int /\ z \in Int /\ u \in Int
          BY <2>5, Zenon
        <5> HIDE DEF y, z, u
        <5>2. ((y + z) + u) - z = y + u
          BY <5>1, SMTT(30)
        <5> QED
          BY <5>2, Zenon DEF y, z, u
      <4> QED
        BY <4>1, <4>2, Zenon
    <3> QED
      BY <2>1, <3>2, <3>3, <3>4, Zenon
  <2>4. CASE i > k
    <3>1. a[i] = acc[i + 1] - w[k] /\ v[i] = w[i + 1]
      BY <2>1, <2>4
    <3>2. i - 1 \in 0 .. n - 1 /\ ~(i - 1 < k) /\ (i - 1) + 1 = i
      BY <2>4
    <3>3. a[i - 1] = acc[(i - 1) + 1] - w[k]
      BY <3>2, Zenon
    <3>4. a[i - 1] = acc[i] - w[k]
      BY <3>2, <3>3, Zenon
    <3>5. (acc[i] + w[i + 1]) - w[k] = (acc[i] - w[k]) + w[i + 1]
      <4> DEFINE y == acc[i]
                 z == w[i + 1]
                 u == w[k]
      <4>1. y \in Int /\ z \in Int /\ u \in Int
        BY <2>5, Zenon
      <4> HIDE DEF y, z, u
      <4>2. (y + z) - u = (y - u) + z
        BY <4>1, SMTT(30)
      <4> QED
        BY <4>2, Zenon DEF y, z, u
    <3> HIDE DEF a
    <3> QED
      BY <2>1, <3>1, <3>4, <3>5, Zenon
  <2> QED
    BY <2>2, <2>3, <2>4
<1> HIDE DEF a
<1> QED
  BY <1>2, <1>3, Zenon DEF IsSum

\* A sum of naturals is at least each of them.
LEMMA SumBounds ==
  ASSUME NEW n \in Nat, NEW w, NEW x \in Int, IsSum(w, n, x), \A i \in 1 .. n : w[i] \in Nat,
         NEW k \in 1 .. n
  PROVE  w[k] <= x
<1>1. PICK acc \in [0 .. n -> Int] :
        /\ acc[0] = 0 /\ acc[n] = x
        /\ \A i \in 1 .. n : w[i] \in Int /\ acc[i] = acc[i - 1] + w[i]
  BY Zenon DEF IsSum
<1> DEFINE T == {i \in 0 .. n : ~(acc[i] >= IF i < k THEN 0 ELSE w[k])}
<1>2. T = {}
  <2> SUFFICES ASSUME T # {} PROVE FALSE
    BY Zenon
  <2>1. T \subseteq Nat
    OBVIOUS
  <2>2. PICK i \in T : \A j \in T : i <= j
    BY <2>1, LeastExists, Zenon
  <2>3. i # 0 /\ i \in 1 .. n /\ i - 1 \in 0 .. n
    <3>1. 0 < k /\ 0 >= 0
      OBVIOUS
    <3>2. 0 \notin T
      BY <1>1, <3>1, ZenonT(60)
    <3>3. i \in 0 .. n /\ i # 0
      BY <2>2, <3>2, Zenon
    <3> HIDE DEF T
    <3> QED
      BY <3>3, SMTT(30)
  <2>4. acc[i - 1] >= IF i - 1 < k THEN 0 ELSE w[k]
    <3>1. ~(i <= i - 1)
      BY <2>3
    <3>2. i - 1 \notin T
      BY <2>2, <3>1, Zenon
    <3> QED
      BY <2>3, <3>2, Zenon
  <2>5. acc[i] = acc[i - 1] + w[i] /\ acc[i - 1] \in Int /\ w[i] \in Nat /\ w[k] \in Nat
    BY <1>1, <2>3, Zenon
  <2>6. ~(acc[i] >= IF i < k THEN 0 ELSE w[k])
    BY <2>2, Zenon
  <2>7. CASE i < k
    <3>1. i - 1 < k
      BY <2>3, <2>7
    <3> QED
      BY <2>4, <2>5, <2>6, <2>7, <3>1, Grows, Zenon
  <2>8. CASE i = k
    <3>1. i - 1 < k /\ ~(i < k)
      BY <2>3, <2>8
    <3> QED
      BY <2>4, <2>5, <2>6, <2>8, <3>1, Grows, Zenon
  <2>9. CASE i > k
    <3>1. ~(i - 1 < k) /\ ~(i < k)
      BY <2>3, <2>9
    <3> QED
      BY <2>4, <2>5, <2>6, <3>1, Grows, ZenonT(60)
  <2>10. i < k \/ i = k \/ i > k
    BY <2>3
  <2> QED
    BY <2>7, <2>8, <2>9, <2>10, Zenon
<1>3. n \in 0 .. n /\ ~(n < k) /\ w[k] \in Nat /\ n \notin T
  BY <1>2
<1> QED
  BY <1>1, <1>3, Zenon

-----------------------------------------------------------------------------
(* Orders of the book *)

\* What the orders in queue q have left in the slab sl.
Remainders(q, sl) == [i \in 1 .. Len(q) |-> remainingQty(sl[q[i]])]

\* The cached total and count of a level are those of its orders.
TotalOf(lv, sl) ==
  /\ lv.orderCount = Len(lv.queue)
  /\ IsSum(Remainders(lv.queue, sl), Len(lv.queue), lv.totalQty)

\* What an order has left is a natural number.
LEMMA RemainingNat ==
  ASSUME NEW o \in Order
  PROVE  remainingQty(o) \in Nat
  BY BoundsAssumption DEF Order, Qtys, remainingQty

\* A level without orders has no total (the PriceLevel constructor).
LEMMA EmptyTotal ==
  ASSUME NEW sl
  PROVE  TotalOf(EmptyLevel, sl) /\ EmptyLevel \in Level
<1>1. EmptyLevel.queue = <<>> /\ EmptyLevel.totalQty = 0 /\ EmptyLevel.orderCount = 0
  BY Zenon DEF EmptyLevel
<1>2. Len(<<>>) = 0 /\ IsSum(Remainders(<<>>, sl), 0, 0)
  BY SumEmpty, Zenon
<1> QED
  BY <1>1, <1>2 DEF TotalOf, EmptyLevel, Level

\* PriceLevel::addOrder.
LEMMA AddTotal ==
  ASSUME NEW lv \in Level, NEW sl, TotalOf(lv, sl), NEW s \in Slots, sl[s] \in Order
  PROVE  TotalOf(level_addOrder(lv, s, remainingQty(sl[s])), sl)
<1> DEFINE q == lv.queue
           n == Len(q)
           q1 == Append(q, s)
           w == Remainders(q, sl)
           v == Remainders(q1, sl)
           new == level_addOrder(lv, s, remainingQty(sl[s]))
<1>1. q \in Seq(Slots) /\ n \in Nat /\ lv.totalQty \in Int /\ remainingQty(sl[s]) \in Nat
  BY RemainingNat DEF Level
<1>2. /\ new.queue = q1 /\ new.totalQty = lv.totalQty + remainingQty(sl[s])
      /\ new.orderCount = lv.orderCount + 1
  BY Zenon DEF level_addOrder
<1>3. Len(q1) = n + 1 /\ q1[n + 1] = s /\ \A i \in 1 .. n : q1[i] = q[i]
  BY <1>1
<1> HIDE DEF q1
<1>4. v[n + 1] = remainingQty(sl[s]) /\ \A i \in 1 .. n : v[i] = w[i]
  BY <1>1, <1>3 DEF Remainders
<1>5. IsSum(w, n, lv.totalQty) /\ lv.orderCount = n
  BY Zenon DEF TotalOf
<1> HIDE DEF w, v, n
<1>6. IsSum(v, n + 1, lv.totalQty + v[n + 1])
  BY <1>1, <1>4, <1>5, SumAppend, SMTT(30)
<1> QED
  BY <1>1, <1>2, <1>3, <1>4, <1>5, <1>6, ZenonT(30) DEF TotalOf, v, n

\* The total of a level whose orders keep what they have left.
LEMMA SameTotal ==
  ASSUME NEW lv \in Level, NEW sl, NEW sl1, TotalOf(lv, sl),
         \A x \in Range(lv.queue) : remainingQty(sl1[x]) = remainingQty(sl[x])
  PROVE  TotalOf(lv, sl1)
<1> DEFINE q == lv.queue
           n == Len(q)
           w == Remainders(q, sl)
           v == Remainders(q, sl1)
<1>1. n \in Nat /\ lv.totalQty \in Int
  BY DEF Level
<1>2. \A i \in 1 .. n : q[i] \in Range(q)
  BY <1>1 DEF Range, Level
<1>3. \A i \in 1 .. n : v[i] = w[i]
  BY <1>1, <1>2, Zenon DEF Remainders
<1>4. IsSum(w, n, lv.totalQty) /\ lv.orderCount = n
  BY Zenon DEF TotalOf
<1> HIDE DEF w, v, n
<1>5. IsSum(v, n, lv.totalQty)
  BY <1>1, <1>3, <1>4, SumSame, Zenon
<1> QED
  BY <1>4, <1>5, Zenon DEF TotalOf, v, n

\* PriceLevel::decreaseTotalQty, for an order of the level that has just been
\* filled by d of what it had left: the clamp is never taken.
LEMMA DecreaseTotal ==
  ASSUME NEW lv \in Level, IsInjective(lv.queue), NEW sl, NEW sl1, TotalOf(lv, sl),
         NEW s \in Range(lv.queue), NEW d \in Nat,
         \A x \in Range(lv.queue) : sl[x] \in Order,
         d <= remainingQty(sl[s]), remainingQty(sl1[s]) = remainingQty(sl[s]) - d,
         \A x \in Range(lv.queue) : x # s => remainingQty(sl1[x]) = remainingQty(sl[x])
  PROVE  TotalOf(decreaseTotalQty(lv, d), sl1)
<1> DEFINE q == lv.queue
           n == Len(q)
           w == Remainders(q, sl)
           v == Remainders(q, sl1)
           new == decreaseTotalQty(lv, d)
<1>1. q \in Seq(Slots) /\ n \in Nat /\ lv.totalQty \in Int
  BY DEF Level
<1>2. \A i \in 1 .. n : q[i] \in Range(q)
  BY <1>1 DEF Range
<1>3. PICK k \in 1 .. n : q[k] = s
  BY <1>1 DEF Range
<1>4. \A i \in 1 .. n : i # k => q[i] # s
  BY <1>1, <1>3 DEF IsInjective
<1>5. \A i \in 1 .. n : w[i] \in Nat
  BY <1>1, <1>2, RemainingNat, Zenon DEF Remainders
<1>6. v[k] = w[k] - d /\ w[k] = remainingQty(sl[s])
  BY <1>1, <1>3, Zenon DEF Remainders
<1>7. \A i \in 1 .. n : i # k => v[i] = w[i]
  BY <1>1, <1>2, <1>4, Zenon DEF Remainders
<1>8. IsSum(w, n, lv.totalQty) /\ lv.orderCount = n
  BY Zenon DEF TotalOf
<1> HIDE DEF w, v, n
<1>9. w[k] <= lv.totalQty
  BY <1>1, <1>5, <1>8, SumBounds, Zenon
<1>10. IsSum(v, n, lv.totalQty + (-d))
  <2>1. v[k] = w[k] + (-d) /\ -d \in Int
    BY <1>5, <1>6
  <2> QED
    BY <1>1, <1>7, <1>8, <2>1, SumChange, ZenonT(60)
<1>11. d <= lv.totalQty
  BY <1>1, <1>5, <1>6, <1>9
<1>12. new.queue = q /\ new.totalQty = lv.totalQty + (-d) /\ new.orderCount = lv.orderCount
  <2>1. new = [lv EXCEPT !.totalQty = lv.totalQty - d]
    BY <1>1, <1>11, SMTT(30) DEF decreaseTotalQty, Level
  <2> QED
    BY <1>1, <2>1, Zenon DEF Level
<1> QED
  BY <1>8, <1>10, <1>12, Zenon DEF TotalOf, v, n

\* The other orders of the queue keep their remaining quantities.
OthersKeep(q, sl, sl1, s) == \A x \in Range(q) : x # s => remainingQty(sl1[x]) = remainingQty(sl[x])

\* PriceLevel::removeOrder of an order that is on the level once.
LEMMA RemoveTotal ==
  ASSUME NEW lv \in Level, IsInjective(lv.queue), NEW sl, NEW sl1, TotalOf(lv, sl),
         NEW s \in Range(lv.queue), NEW rem, rem = remainingQty(sl[s]),
         OthersKeep(lv.queue, sl, sl1, s)
  PROVE  TotalOf(level_removeOrder(lv, s, rem), sl1)
<1> DEFINE q == lv.queue
           n == Len(q)
           k == PositionOf(q, s)
           r == Without(q, k)
           w == Remainders(q, sl)
           v == Remainders(r, sl1)
           new == level_removeOrder(lv, s, rem)
<1>1. q \in Seq(Slots) /\ n \in Nat /\ lv.totalQty \in Int
  BY DEF Level
<1>2. /\ k \in 1 .. n /\ q[k] = s /\ Len(r) = n - 1
      /\ \A j \in 1 .. Len(r) : r[j] = IF j < k THEN q[j] ELSE q[j + 1]
  BY <1>1, RemoveFromQueue, SMTT(30)
<1>3. new.queue = r /\ new.totalQty = lv.totalQty - rem /\ new.orderCount = lv.orderCount - 1
  BY Zenon DEF level_removeOrder
<1> HIDE DEF k, r
<1>4. \A i \in 1 .. n : q[i] \in Range(q)
  BY <1>1 DEF Range
<1>5. \A i \in 1 .. n : i # k => q[i] # s
  BY <1>1, <1>2, SMTT(30) DEF IsInjective
<1>6. w[k] = rem
  BY <1>1, <1>2, Zenon DEF Remainders
<1>7. ASSUME NEW i \in 1 .. n - 1 PROVE v[i] = IF i < k THEN w[i] ELSE w[i + 1]
  <2>1. i \in 1 .. n /\ i + 1 \in 1 .. n /\ v[i] = remainingQty(sl1[r[i]])
    BY <1>1, <1>2, SMTT(30) DEF Remainders
  <2>2. CASE i < k
    <3>1. r[i] = q[i] /\ q[i] # s /\ w[i] = remainingQty(sl[q[i]])
      BY <1>2, <1>5, <2>1, <2>2, SMTT(30) DEF Remainders
    <3> QED
      BY <1>4, <2>1, <2>2, <3>1, ZenonT(60) DEF OthersKeep
  <2>3. CASE ~(i < k)
    <3>1. r[i] = q[i + 1] /\ q[i + 1] # s /\ w[i + 1] = remainingQty(sl[q[i + 1]])
      BY <1>2, <1>5, <2>1, <2>3 DEF Remainders
    <3> QED
      BY <1>4, <2>1, <2>3, <3>1, ZenonT(60) DEF OthersKeep
  <2> QED
    BY <2>2, <2>3, Zenon
<1>8. IsSum(w, n, lv.totalQty) /\ lv.orderCount = n
  BY Zenon DEF TotalOf
<1> HIDE DEF w, v, n, new
<1>9. IsSum(v, n - 1, lv.totalQty - w[k])
  BY <1>1, <1>2, <1>7, <1>8, SumRemove, Zenon
<1> QED
  BY <1>2, <1>3, <1>6, <1>8, <1>9, ZenonT(60) DEF TotalOf, v, n, new

-----------------------------------------------------------------------------
(* Queues *)

\* The place of an order in a queue that has it once.
LEMMA PositionUnique ==
  ASSUME NEW S, NEW q \in Seq(S), IsInjective(q), NEW i \in 1 .. Len(q)
  PROVE  PositionOf(q, q[i]) = i
  BY DEF PositionOf, IsInjective

\* The queue at every price is a sequence of slots, without repetitions, and
\* empty exactly where there is no level.
LEMMA QueueFacts ==
  ASSUME NEW lvls \in Levels, QueuesOK(lvls), NEW side \in Sides, NEW p \in Prices
  PROVE  /\ QueueAt(lvls, side, p) \in Seq(Slots)
         /\ IsInjective(QueueAt(lvls, side, p))
         /\ OrdersAt(lvls, side, p) = Range(QueueAt(lvls, side, p))
         /\ QueueAt(lvls, side, p) = <<>> <=> lvls[side][p] = NoLevel
<1>1. CASE lvls[side][p] = NoLevel
  <2>1. Range(<<>>) = {} /\ IsInjective(<<>>) /\ <<>> \in Seq(Slots)
    BY DEF Range, IsInjective
  <2> QED
    BY <1>1, <2>1, Zenon DEF QueueAt, OrdersAt
<1>2. CASE lvls[side][p] # NoLevel
  BY <1>2, Zenon DEF QueueAt, OrdersAt, Levels, Level, QueuesOK, Present
<1> QED
  BY <1>1, <1>2, Zenon

\* What OrderBook::addOrder and removeOrder make of the level (side, p) and its
\* queue, when lvls becomes l1.
QueueAdded(lvls, l1, s, o, side, p) ==
  IF side = o.side /\ p = o.price
  THEN /\ l1[side][p] =
            level_addOrder(IF lvls[side][p] = NoLevel THEN EmptyLevel ELSE lvls[side][p],
                           s, remainingQty(o))
       /\ l1[side][p] # NoLevel
       /\ QueueAt(l1, side, p) = Append(QueueAt(lvls, side, p), s)
  ELSE l1[side][p] = lvls[side][p] /\ QueueAt(l1, side, p) = QueueAt(lvls, side, p)

QueueRemoved(lvls, l1, s, o, side, p) ==
  IF side = o.side /\ p = o.price
  THEN /\ lvls[side][p] # NoLevel
       /\ l1[side][p] # NoLevel =>
            l1[side][p] = level_removeOrder(lvls[side][p], s, remainingQty(o))
       /\ LET q == QueueAt(lvls, side, p)
          IN QueueAt(l1, side, p) = Without(q, PositionOf(q, s))
  ELSE l1[side][p] = lvls[side][p] /\ QueueAt(l1, side, p) = QueueAt(lvls, side, p)

\* OrderBook::addOrder appends to one queue.
LEMMA QueueAdd ==
  ASSUME NEW lvls \in Levels, NEW o \in Order, o.price \in Prices, NEW s \in Slots,
         NEW l1, l1 = book_addOrder(lvls, s, o)
  PROVE  \A side \in Sides, p \in Prices : QueueAdded(lvls, l1, s, o, side, p)
<1> DEFINE old == IF lvls[o.side][o.price] = NoLevel THEN EmptyLevel ELSE lvls[o.side][o.price]
           new == level_addOrder(old, s, remainingQty(o))
<1>1. o.side \in Sides /\ o.price \in Prices /\ remainingQty(o) \in Int
  BY RemainingNat DEF Order
<1>2. old \in Level /\ old.queue = QueueAt(lvls, o.side, o.price)
  BY <1>1, EmptyTotal, Zenon DEF Levels, QueueAt, EmptyLevel
<1>3. l1 = [lvls EXCEPT ![o.side][o.price] = new]
  BY Zenon DEF book_addOrder
<1> HIDE DEF old
<1>4. new.queue = Append(old.queue, s)
  BY Zenon DEF level_addOrder
<1>5. new \in Level
  <2>1. Append(old.queue, s) \in Seq(Slots)
    BY <1>2 DEF Level
  <2> QED
    BY <1>1, <1>2, <2>1, SMTT(30) DEF level_addOrder, Level
<1>6. new # NoLevel
  BY <1>5, NullAssumption, ZenonT(60)
<1> HIDE DEF new
<1>7. ASSUME NEW side \in Sides, NEW p \in Prices
      PROVE  l1[side][p] = IF side = o.side /\ p = o.price THEN new ELSE lvls[side][p]
  BY <1>1, <1>3, SMTT(30) DEF Levels
<1>8. ASSUME NEW side \in Sides, NEW p \in Prices, side = o.side /\ p = o.price
      PROVE  /\ l1[side][p] =
                  level_addOrder(IF lvls[side][p] = NoLevel THEN EmptyLevel ELSE lvls[side][p],
                                 s, remainingQty(o))
             /\ l1[side][p] # NoLevel
             /\ QueueAt(l1, side, p) = Append(QueueAt(lvls, side, p), s)
  <2>1. l1[side][p] = new
    BY <1>7, <1>8, Zenon
  <2> QED
    BY <1>2, <1>4, <1>6, <1>8, <2>1, ZenonT(30) DEF QueueAt, new, old
<1>9. ASSUME NEW side \in Sides, NEW p \in Prices, ~(side = o.side /\ p = o.price)
      PROVE  /\ l1[side][p] = lvls[side][p]
             /\ QueueAt(l1, side, p) = QueueAt(lvls, side, p)
  BY <1>7, <1>9, Zenon DEF QueueAt
<1> QED
  BY <1>8, <1>9, ZenonT(60) DEF QueueAdded

\* OrderBook::removeOrder takes the order out of one queue.
LEMMA QueueRemove ==
  ASSUME NEW lvls \in Levels, QueuesOK(lvls), NEW o \in Order, o.price \in Prices,
         NEW s \in OrdersAt(lvls, o.side, o.price),
         NEW l1, l1 = book_removeOrder(lvls, s, o)
  PROVE  \A side \in Sides, p \in Prices : QueueRemoved(lvls, l1, s, o, side, p)
<1> DEFINE old == lvls[o.side][o.price]
           lv == level_removeOrder(old, s, remainingQty(o))
           new == IF isEmpty(lv) THEN NoLevel ELSE lv
<1>1. o.side \in Sides /\ o.price \in Prices
  BY Zenon DEF Order
<1>2. old # NoLevel /\ QueueAt(lvls, o.side, o.price) = old.queue
  BY Zenon DEF OrdersAt, QueueAt
<1>3. l1 = [lvls EXCEPT ![o.side][o.price] = new]
  BY <1>2, ZenonT(60) DEF book_removeOrder
<1>4. lv.queue = Without(old.queue, PositionOf(old.queue, s)) /\ lv # NoLevel
  <2>1. old \in Level /\ IsInjective(old.queue) /\ s \in Range(old.queue)
    BY <1>1, <1>2, ZenonT(60) DEF OrdersAt, Levels, QueuesOK, Present
  <2>2. old.queue \in Seq(Slots) /\ old.totalQty \in Int /\ old.orderCount \in Int
    BY <2>1, Zenon DEF Level
  <2> HIDE DEF old
  <2> DEFINE r == Without(old.queue, PositionOf(old.queue, s))
  <2>3. r \in Seq(Slots)
    BY <2>1, <2>2, RemoveFromQueue, Zenon
  <2>4. lv = [queue |-> r, totalQty |-> old.totalQty - remainingQty(o),
              orderCount |-> old.orderCount - 1]
    BY Zenon DEF level_removeOrder
  <2> HIDE DEF r
  <2>5. lv \in Level
    BY <2>2, <2>3, <2>4, RemainingNat, SMTT(30) DEF Level
  <2> QED
    BY <2>4, <2>5, NullAssumption, SMTT(30) DEF r
<1>5. /\ new # NoLevel => new = lv
      /\ (IF new = NoLevel THEN <<>> ELSE new.queue) = Without(old.queue, PositionOf(old.queue, s))
  BY <1>4, ZenonT(60) DEF isEmpty
<1> HIDE DEF old, lv, new
<1>6. ASSUME NEW side \in Sides, NEW p \in Prices
      PROVE  l1[side][p] = IF side = o.side /\ p = o.price THEN new ELSE lvls[side][p]
  BY <1>1, <1>3, SMTT(30) DEF Levels
<1>7. ASSUME NEW side \in Sides, NEW p \in Prices, side = o.side /\ p = o.price
      PROVE  /\ lvls[side][p] # NoLevel
             /\ l1[side][p] # NoLevel =>
                  l1[side][p] = level_removeOrder(lvls[side][p], s, remainingQty(o))
             /\ LET q == QueueAt(lvls, side, p)
                IN QueueAt(l1, side, p) = Without(q, PositionOf(q, s))
  <2>1. l1[side][p] = new /\ lvls[side][p] = old
    BY <1>6, <1>7, Zenon DEF old
  <2>2. QueueAt(l1, side, p) = Without(old.queue, PositionOf(old.queue, s))
    BY <1>5, <2>1, Zenon DEF QueueAt
  <2> QED
    BY <1>2, <1>5, <1>7, <2>1, <2>2, Zenon DEF lv
<1>8. ASSUME NEW side \in Sides, NEW p \in Prices, ~(side = o.side /\ p = o.price)
      PROVE  /\ l1[side][p] = lvls[side][p]
             /\ QueueAt(l1, side, p) = QueueAt(lvls, side, p)
  BY <1>6, <1>8, Zenon DEF QueueAt
<1> QED
  BY <1>7, <1>8, ZenonT(60) DEF QueueRemoved

\* PriceLevel::decreaseTotalQty changes no queue.
LEMMA QueueDecrease ==
  ASSUME NEW lvls \in Levels, NEW d \in Nat,
         NEW side0 \in Sides, NEW p0 \in Present(lvls, side0),
         NEW l1, l1 = DecreasedAt(lvls, side0, p0, d)
  PROVE  /\ l1[side0][p0] = decreaseTotalQty(lvls[side0][p0], d)
         /\ \A side \in Sides, p \in Prices :
              /\ ~(side = side0 /\ p = p0) => l1[side][p] = lvls[side][p]
              /\ QueueAt(l1, side, p) = QueueAt(lvls, side, p)
<1> DEFINE old == lvls[side0][p0]
           new == decreaseTotalQty(old, d)
<1>1. p0 \in Prices /\ old # NoLevel /\ old \in Level
  BY Zenon DEF Present, Levels
<1>2. new \in Level /\ new # NoLevel /\ new.queue = old.queue
  <2>1. new = [old EXCEPT !.totalQty = IF d > old.totalQty THEN 0 ELSE old.totalQty - d]
    BY <1>1, Zenon DEF decreaseTotalQty, Level
  <2>2. new \in Level /\ new.queue = old.queue
    BY <1>1, <2>1, SMTT(30) DEF Level
  <2> QED
    BY <2>2, NullAssumption, Zenon
<1>3. l1 = [lvls EXCEPT ![side0][p0] = new]
  BY Zenon DEF DecreasedAt
<1> HIDE DEF new
<1>4. ASSUME NEW side \in Sides, NEW p \in Prices
      PROVE  l1[side][p] = IF side = side0 /\ p = p0 THEN new ELSE lvls[side][p]
  BY <1>1, <1>3, ZenonT(60) DEF Levels
<1>5. l1[side0][p0] = new
  BY <1>1, <1>4, Zenon
<1>6. ASSUME NEW side \in Sides, NEW p \in Prices
      PROVE  QueueAt(l1, side, p) = QueueAt(lvls, side, p)
  <2>1. CASE side = side0 /\ p = p0
    BY <1>1, <1>2, <1>5, <2>1, Zenon DEF QueueAt
  <2>2. CASE ~(side = side0 /\ p = p0)
    BY <1>4, <2>2, Zenon DEF QueueAt
  <2> QED
    BY <2>1, <2>2, Zenon
<1> QED
  BY <1>4, <1>5, <1>6, Zenon DEF new

-----------------------------------------------------------------------------
(* Total quantities *)

\* Every level of the book has the totals of its orders.
Totals(lvls, sl) ==
  \A side \in Sides, p \in Prices :
    lvls[side][p] # NoLevel => TotalOf(lvls[side][p], sl)

\* An order of a sound book carries the one side and price of its level.
LEMMA LevelsApart ==
  ASSUME NEW sl, NEW lvls, NEW om, LevelsSound(sl, lvls, om)
  PROVE  Apart(lvls)
  BY DEF LevelsSound, Apart

\* The orders on a level are taken from the slab.
LEMMA OrdersOnLevel ==
  ASSUME NEW lvls \in Levels, NEW side \in Sides, NEW p \in Prices, lvls[side][p] # NoLevel
  PROVE  /\ lvls[side][p] \in Level
         /\ OrdersAt(lvls, side, p) = Range(lvls[side][p].queue)
  BY Zenon DEF Levels, OrdersAt

\* Nothing changes for the orders of the book.
LEMMA TotalsSame ==
  ASSUME NEW lvls \in Levels, NEW sl, NEW sl1, Totals(lvls, sl),
         \A side \in Sides, p \in Prices : \A x \in OrdersAt(lvls, side, p) : sl1[x] = sl[x]
  PROVE  Totals(lvls, sl1)
<1> SUFFICES ASSUME NEW side \in Sides, NEW p \in Prices, lvls[side][p] # NoLevel
             PROVE  TotalOf(lvls[side][p], sl1)
  BY Zenon DEF Totals
<1>1. /\ lvls[side][p] \in Level
      /\ OrdersAt(lvls, side, p) = Range(lvls[side][p].queue)
      /\ TotalOf(lvls[side][p], sl)
  BY OrdersOnLevel, Zenon DEF Totals
<1>2. \A x \in Range(lvls[side][p].queue) : remainingQty(sl1[x]) = remainingQty(sl[x])
  BY <1>1, Zenon
<1> QED
  BY <1>1, <1>2, SameTotal, Zenon

\* An order joins its level (OrderBook::addOrder).
LEMMA TotalsAdd ==
  ASSUME NEW lvls \in Levels, NEW sl, Totals(lvls, sl),
         NEW s \in Slots, sl[s] \in Order, sl[s].price \in Prices,
         NEW l1, l1 = book_addOrder(lvls, s, sl[s])
  PROVE  Totals(l1, sl)
<1> SUFFICES ASSUME NEW side \in Sides, NEW p \in Prices, l1[side][p] # NoLevel
             PROVE  TotalOf(l1[side][p], sl)
  BY ZenonT(60) DEF Totals
<1> DEFINE o == sl[s]
           old == IF lvls[side][p] = NoLevel THEN EmptyLevel ELSE lvls[side][p]
<1>1. IF side = o.side /\ p = o.price
      THEN l1[side][p] = level_addOrder(old, s, remainingQty(o))
      ELSE l1[side][p] = lvls[side][p]
  <2>1. QueueAdded(lvls, l1, s, sl[s], side, p)
    BY QueueAdd, ZenonT(60)
  <2> QED
    BY <2>1, ZenonT(60) DEF QueueAdded
<1>2. old \in Level /\ TotalOf(old, sl)
  BY EmptyTotal, Zenon DEF Levels, Totals
<1>3. CASE side = o.side /\ p = o.price
  <2>1. l1[side][p] = level_addOrder(old, s, remainingQty(sl[s]))
    BY <1>1, <1>3, Zenon
  <2> HIDE DEF old
  <2> QED
    BY <1>2, <2>1, AddTotal, Zenon
<1>4. CASE ~(side = o.side /\ p = o.price)
  BY <1>1, <1>4, Zenon DEF Totals
<1> QED
  BY <1>3, <1>4, Zenon

\* The orders of the book other than s are the same in the slabs sl and sl1.
OthersSame(lvls, sl, sl1, s) ==
  \A side \in Sides, p \in Prices : \A x \in OrdersAt(lvls, side, p) : x # s => sl1[x] = sl[x]

\* An order leaves its level (OrderBook::removeOrder), whatever becomes of it.
LEMMA TotalsRemove ==
  ASSUME NEW lvls \in Levels, QueuesOK(lvls), Apart(lvls),
         NEW sl, NEW sl1, Totals(lvls, sl),
         NEW o \in Order, o.price \in Prices, NEW s \in OrdersAt(lvls, o.side, o.price),
         remainingQty(o) = remainingQty(sl[s]),
         OthersSame(lvls, sl, sl1, s),
         NEW l1, l1 = book_removeOrder(lvls, s, o)
  PROVE  Totals(l1, sl1)
<1> SUFFICES ASSUME NEW side \in Sides, NEW p \in Prices, l1[side][p] # NoLevel
             PROVE  TotalOf(l1[side][p], sl1)
  BY Zenon DEF Totals
<1>1. o.side \in Sides
  BY ZenonT(60) DEF Order
<1>2. IF side = o.side /\ p = o.price
      THEN /\ lvls[side][p] # NoLevel
           /\ l1[side][p] = level_removeOrder(lvls[side][p], s, remainingQty(o))
      ELSE l1[side][p] = lvls[side][p]
  <2>1. QueueRemoved(lvls, l1, s, o, side, p)
    BY QueueRemove, ZenonT(60)
  <2> QED
    BY <2>1, ZenonT(60) DEF QueueRemoved
<1>3. lvls[side][p] # NoLevel
  BY <1>2, Zenon
<1>4. /\ lvls[side][p] \in Level
      /\ OrdersAt(lvls, side, p) = Range(lvls[side][p].queue)
      /\ TotalOf(lvls[side][p], sl)
      /\ IsInjective(lvls[side][p].queue)
  BY <1>3, OrdersOnLevel, Zenon DEF Totals, QueuesOK, Present
<1> DEFINE lv == lvls[side][p]
<1>5. \A x \in Range(lv.queue) : x # s => remainingQty(sl1[x]) = remainingQty(sl[x])
  BY <1>4, ZenonT(60) DEF OthersSame
<1>6. CASE side = o.side /\ p = o.price
  <2>1. l1[side][p] = level_removeOrder(lv, s, remainingQty(o)) /\ s \in Range(lv.queue)
    BY <1>2, <1>4, <1>6, Zenon
  <2>2. /\ lv \in Level /\ TotalOf(lv, sl) /\ IsInjective(lv.queue)
        /\ remainingQty(o) = remainingQty(sl[s]) /\ OthersKeep(lv.queue, sl, sl1, s)
    BY <1>4, <1>5, Zenon DEF OthersKeep
  <2> HIDE DEF lv
  <2>3. TotalOf(level_removeOrder(lv, s, remainingQty(o)), sl1)
    BY <2>1, <2>2, RemoveTotal, ZenonT(60)
  <2> QED
    BY <2>1, <2>3, Zenon
<1>7. CASE ~(side = o.side /\ p = o.price)
  <2>1. s \notin OrdersAt(lvls, side, p)
    BY <1>1, <1>7, Zenon DEF Apart
  <2>2. \A x \in Range(lv.queue) : remainingQty(sl1[x]) = remainingQty(sl[x])
    BY <1>4, <1>5, <2>1, Zenon
  <2>3. l1[side][p] = lv
    BY <1>2, <1>7, Zenon
  <2> HIDE DEF lv
  <2> QED
    BY <1>4, <2>2, <2>3, SameTotal, Zenon DEF lv
<1> QED
  BY <1>6, <1>7, ZenonT(60)

\* An order on a level is filled by d (decreaseTotalQty in executeTrade).
LEMMA TotalsDecrease ==
  ASSUME NEW lvls \in Levels, QueuesOK(lvls), Apart(lvls),
         NEW sl, NEW sl1, Totals(lvls, sl), NEW d \in Nat,
         NEW side0 \in Sides, NEW p0 \in Present(lvls, side0),
         NEW s \in OrdersAt(lvls, side0, p0),
         \A x \in OrdersAt(lvls, side0, p0) : sl[x] \in Order,
         d <= remainingQty(sl[s]), remainingQty(sl1[s]) = remainingQty(sl[s]) - d,
         \A side \in Sides, p \in Prices : \A x \in OrdersAt(lvls, side, p) :
           x # s => sl1[x] = sl[x],
         NEW l1, l1 = DecreasedAt(lvls, side0, p0, d)
  PROVE  Totals(l1, sl1)
<1> SUFFICES ASSUME NEW side \in Sides, NEW p \in Prices, l1[side][p] # NoLevel
             PROVE  TotalOf(l1[side][p], sl1)
  BY Zenon DEF Totals
<1>1. p0 \in Prices /\ lvls[side0][p0] # NoLevel
  BY Zenon DEF Present
<1>2. IF side = side0 /\ p = p0
      THEN l1[side][p] = decreaseTotalQty(lvls[side][p], d)
      ELSE l1[side][p] = lvls[side][p]
  <2>1. /\ l1[side0][p0] = decreaseTotalQty(lvls[side0][p0], d)
        /\ ~(side = side0 /\ p = p0) => l1[side][p] = lvls[side][p]
    BY QueueDecrease
  <2> QED
    BY <2>1, ZenonT(60)
<1>3. lvls[side][p] # NoLevel
  BY <1>1, <1>2, Zenon
<1>4. /\ lvls[side][p] \in Level
      /\ OrdersAt(lvls, side, p) = Range(lvls[side][p].queue)
      /\ TotalOf(lvls[side][p], sl)
      /\ IsInjective(lvls[side][p].queue)
  BY <1>3, OrdersOnLevel, Zenon DEF Totals, QueuesOK, Present
<1> DEFINE lv == lvls[side][p]
<1>5. \A x \in Range(lv.queue) : x # s => remainingQty(sl1[x]) = remainingQty(sl[x])
  BY <1>4, ZenonT(60)
<1>6. CASE side = side0 /\ p = p0
  <2>1. l1[side][p] = decreaseTotalQty(lv, d) /\ s \in Range(lv.queue)
    BY <1>2, <1>4, <1>6, Zenon
  <2>2. \A x \in Range(lv.queue) : sl[x] \in Order
    BY <1>4, <1>6, Zenon
  <2> HIDE DEF lv
  <2> QED
    BY <1>4, <1>5, <2>1, <2>2, DecreaseTotal, ZenonT(60) DEF lv
<1>7. CASE ~(side = side0 /\ p = p0)
  <2>1. s \notin OrdersAt(lvls, side, p)
    BY <1>1, <1>7, Zenon DEF Apart
  <2>2. \A x \in Range(lv.queue) : remainingQty(sl1[x]) = remainingQty(sl[x])
    BY <1>4, <1>5, <2>1, Zenon
  <2>3. l1[side][p] = lv
    BY <1>2, <1>7, Zenon
  <2> HIDE DEF lv
  <2> QED
    BY <1>4, <2>2, <2>3, SameTotal, ZenonT(30) DEF lv
<1> QED
  BY <1>6, <1>7, Zenon

-----------------------------------------------------------------------------
(* The engine *)

\* The book is sound and the slots of the pool are all accounted for
\* (TypeOK and EveryOrderOwnedOnce); quantities and types are what the match
\* loop needs to make progress and to leave an uncrossed book.
OpenOrders ==
  \A s \in Slots : slab[s] # NoOrder =>
    /\ slab[s].filledQty <= slab[s].qty
    /\ s # incoming => slab[s].type = "LIMIT" /\ slab[s].filledQty < slab[s].qty

IncomingPriced ==
  (incoming # NoSlot /\ slab[incoming].type # "MARKET") =>
    slab[incoming].price \in Prices

IInv ==
  /\ TypeOK
  /\ EveryOrderOwnedOnce
  /\ NeverCrossed
  /\ OpenOrders
  /\ IncomingPriced

-----------------------------------------------------------------------------
\* A new engine with its free pool and empty book satisfies the invariant.
LEMMA InitIInv == Init => IInv
<1> SUFFICES ASSUME Init PROVE IInv
  BY Zenon
<1>1. levels \in Levels /\ \A side \in Sides, p \in Prices : levels[side][p] = NoLevel
  BY Zenon DEF Init, Levels
<1>2. /\ \A side \in Sides : Present(levels, side) = {}
      /\ \A side \in Sides, p \in Prices : OrdersAt(levels, side, p) = {}
  BY <1>1, Zenon DEF Present, OrdersAt
<1>3. TypeOK
  BY <1>1, SMTT(30) DEF Init, TypeOK
<1>4. EveryOrderOwnedOnce
  BY <1>2, Zenon DEF Init, EveryOrderOwnedOnce, IdMapSound, LevelsSound, QueuesOK
<1>5. NeverCrossed
  BY <1>2, Zenon DEF NeverCrossed, Sides
<1> QED
  BY <1>3, <1>4, <1>5, Zenon DEF Init, IInv, OpenOrders, IncomingPriced

\* The order a known id leads to.
LEMMA MappedOrder ==
  ASSUME IInv, NEW id \in Ids, orderMap[id] # NoSlot
  PROVE  LET s == orderMap[id]
         IN /\ s \in Slots /\ s # incoming
            /\ slab[s] \in Order /\ slab[s] # NoOrder
            /\ slab[s].orderId = id
            /\ slab[s].price \in Prices
            /\ slab[s].type = "LIMIT"
            /\ slab[s].filledQty < slab[s].qty
<1> DEFINE s == orderMap[id]
<1>1. s \in Slots
  BY Zenon DEF IInv, TypeOK
<1>2. slab[s] # NoOrder /\ slab[s].orderId = id /\ slab[s].price \in Prices
  BY Zenon DEF IInv, EveryOrderOwnedOnce, IdMapSound
<1>3. s # incoming
  BY <1>1, <1>2, Zenon DEF IInv, EveryOrderOwnedOnce
<1>4. slab[s] \in Order
  BY <1>1, <1>2, Zenon DEF IInv, TypeOK
<1> QED
  BY <1>1, <1>2, <1>3, <1>4, ZenonT(60) DEF IInv, OpenOrders

\* The order id in slot s leaves the book lvl in this step.
StepUnlinked(lvl, s, id) ==
  /\ BookUnlinked(lvl, slab', levels', orderMap', s)
  /\ \A i \in Ids : orderMap'[i] = IF i = id THEN NoSlot ELSE orderMap[i]

\* BookUnlink for a step of the engine; lvl is the book the order leaves.
LEMMA UnlinkStep ==
  ASSUME slab \in Slab, slab' \in Slab, orderMap \in IdMap, NEW lvl \in Levels,
         QueuesOK(lvl), IdMapSound(slab, lvl, orderMap), LevelsSound(slab, lvl, orderMap),
         NEW s \in Slots, NEW o \in Order, orderMap[o.orderId] = s,
         slab[s].side = o.side, slab[s].price = o.price,
         SameOrders(slab, slab', orderMap, s),
         levels' = book_removeOrder(lvl, s, o),
         orderMap' = [orderMap EXCEPT ![o.orderId] = NoSlot]
  PROVE  StepUnlinked(lvl, s, o.orderId)
<1>1. BookUnlinked(lvl, slab', levels', orderMap', s)
  BY BookUnlink, ZenonT(60)
<1>2. /\ orderMap' \in IdMap
      /\ \A id \in Ids : orderMap'[id] = IF id = o.orderId THEN NoSlot ELSE orderMap[id]
  BY Zenon DEF IdMap, Order
<1> QED
  BY <1>1, <1>2, ZenonT(60) DEF StepUnlinked

\* cancelOrder keeps the invariant: an unknown id changes nothing, a resting
\* order leaves its level and the id map and its slot returns to the pool.
LEMMA CancelOrderIInv ==
  ASSUME IInv, NEW id \in Ids, CancelOrder(id)
  PROVE  IInv'
<1>1. /\ slab \in Slab /\ orderMap \in IdMap /\ levels \in Levels
      /\ m_fills \in Seq(Fill) /\ incoming = NoSlot
      /\ drained' = m_fills /\ m_fills' = <<>> /\ incoming' = NoSlot
  BY Zenon DEF IInv, TypeOK, CancelOrder, drainFillsInto, Slab, IdMap
<1>2. CASE orderMap[id] = NoSlot
  <2>1. UNCHANGED <<slab, levels, orderMap, incoming>>
    BY <1>2, ZenonT(60) DEF CancelOrder, containsOrder
  <2>2. TypeOK'
    BY <1>1, <2>1, SMTT(30) DEF IInv, TypeOK
  <2> QED
    BY <2>1, <2>2, Zenon DEF IInv, EveryOrderOwnedOnce, NeverCrossed, OpenOrders, IncomingPriced
<1>3. CASE orderMap[id] # NoSlot
  <2> DEFINE s == orderMap[id]
             o == slab[s]
  <2>1. /\ s \in Slots /\ o \in Order /\ o # NoOrder /\ o.orderId = id
        /\ orderMap[o.orderId] = s /\ slab[s] = o
    BY <1>3, MappedOrder, Zenon
  <2>2. /\ levels' = book_removeOrder(levels, s, o)
        /\ orderMap' = [orderMap EXCEPT ![o.orderId] = NoSlot]
        /\ slab' = [slab EXCEPT ![s] = NoOrder]
    BY <1>3, <2>1, Zenon DEF CancelOrder, containsOrder
  <2> HIDE DEF s, o
  <2>3. slab' \in Slab /\ \A x \in Slots : slab'[x] = IF x = s THEN NoOrder ELSE slab[x]
    BY <1>1, <2>1, <2>2, Zenon DEF Slab
  <2>4. SameOrders(slab, slab', orderMap, s)
    BY <1>1, <2>3, ZenonT(60) DEF SameOrders, IInv, EveryOrderOwnedOnce, IdMapSound, IdMap
  <2>5. /\ orderMap' \in IdMap
        /\ levels' \in Levels
        /\ QueuesOK(levels')
        /\ IdMapSound(slab', levels', orderMap')
        /\ LevelsSound(slab', levels', orderMap')
        /\ \A side \in Sides : Present(levels', side) \subseteq Present(levels, side)
    <3>1. QueuesOK(levels) /\ IdMapSound(slab, levels, orderMap) /\ LevelsSound(slab, levels, orderMap)
      BY Zenon DEF IInv, EveryOrderOwnedOnce
    <3>2. slab[s].side = o.side /\ slab[s].price = o.price
      BY <2>1, ZenonT(60)
    <3>3. StepUnlinked(levels, s, o.orderId)
      BY <1>1, <2>1, <2>2, <2>3, <2>4, <3>1, <3>2, UnlinkStep, ZenonT(60)
    <3> QED
      BY <3>3, ZenonT(60) DEF StepUnlinked, BookUnlinked
  <2>6. TypeOK'
    BY <1>1, <2>3, <2>5, SMTT(30) DEF TypeOK, Slab, IdMap
  <2>7. \A x \in Slots : slab'[x] # NoOrder => orderMap'[slab'[x].orderId] = x
    <3> SUFFICES ASSUME NEW x \in Slots, slab'[x] # NoOrder
                 PROVE  orderMap'[slab'[x].orderId] = x
      BY Zenon
    <3>1. x # s /\ slab'[x] = slab[x]
      BY <2>3, Zenon
    <3>2. orderMap[slab[x].orderId] = x /\ slab[x].orderId \in Ids
      BY <1>1, <3>1, NullAssumption, ZenonT(30) DEF IInv, EveryOrderOwnedOnce, Slab, Order
    <3> QED
      BY <1>1, <2>1, <2>2, <3>1, <3>2, ZenonT(30) DEF IdMap
  <2>8. EveryOrderOwnedOnce'
    BY <1>1, <2>5, <2>7, NullAssumption, Zenon DEF EveryOrderOwnedOnce
  <2>9. NeverCrossed'
    BY <2>5, Zenon DEF IInv, NeverCrossed, Sides
  <2>10. OpenOrders'
    BY <1>1, <2>3, Zenon DEF IInv, OpenOrders
  <2>11. IncomingPriced'
    BY <1>1, Zenon DEF IncomingPriced
  <2> QED
    BY <2>6, <2>8, <2>9, <2>10, <2>11, Zenon DEF IInv
<1> QED
  BY <1>2, <1>3, Zenon

\* What the invariant says of the variables one at a time.
LEMMA IInvTypes ==
  ASSUME IInv
  PROVE  /\ slab \in Slab /\ orderMap \in IdMap /\ levels \in Levels
         /\ m_fills \in Seq(Fill) /\ drained \in Seq(Fill)
         /\ QueuesOK(levels)
         /\ IdMapSound(slab, levels, orderMap)
         /\ LevelsSound(slab, levels, orderMap)
         /\ \A s \in Slots : slab[s] # NoOrder => slab[s] \in Order
BY ZenonT(60) DEF IInv, TypeOK, EveryOrderOwnedOnce, Slab, IdMap

\* An ADD keeps the invariant: it is dropped for want of a slot or for its
\* duplicate id, or its order enters the match loop (applyMessage, processOrder).
LEMMA AddOrderIInv ==
  ASSUME IInv, NEW id \in Ids, NEW side \in Sides, NEW type \in OrderTypes,
         NEW price \in 0 .. MaxPrice, NEW qty \in Qtys,
         AddOrder(id, side, type, price, qty)
  PROVE  IInv'
<1> DEFINE o == NewOrder(id, side, type, price, qty)
<1>1. o \in Order /\ o.orderId = id /\ o.filledQty = 0 /\ o.qty = qty
      /\ o.type = type /\ o.price = price
  BY BoundsAssumption DEF NewOrder, Order, Qtys
<1>2. incoming = NoSlot /\ (type = "MARKET" \/ price # 0) /\ UNCHANGED <<levels, orderMap>>
  BY Zenon DEF AddOrder
<1>3. PICK s \in Slots : slab[s] = NoOrder /\ processOrder(s, o, orderMap)
  BY Zenon DEF AddOrder
<1> HIDE DEF o
<1>4. s # NoSlot
  BY NullAssumption, Zenon
<1>5. CASE orderMap[id] # NoSlot
  <2>1. /\ slab' = [slab EXCEPT ![s] = NoOrder] /\ incoming' = NoSlot
        /\ drained' = m_fills /\ m_fills' = <<>>
    BY <1>1, <1>3, <1>5, Zenon DEF processOrder, containsOrder, drainFillsInto
  <2>2. slab' = slab
    BY <1>3, <2>1, IInvTypes, Zenon DEF Slab
  <2>3. TypeOK'
    BY <1>2, <2>1, <2>2, SMTT(30) DEF IInv, TypeOK
  <2> QED
    BY <1>2, <2>1, <2>2, <2>3, ZenonT(60)
    DEF IInv, EveryOrderOwnedOnce, NeverCrossed, OpenOrders, IncomingPriced
<1>6. CASE orderMap[id] = NoSlot
  <2>1. /\ slab' = [slab EXCEPT ![s] = o] /\ incoming' = s
        /\ UNCHANGED <<m_fills, drained>>
    BY <1>1, <1>3, <1>6, ZenonT(60) DEF processOrder, containsOrder
  <2>2. slab' \in Slab /\ \A x \in Slots : slab'[x] = IF x = s THEN o ELSE slab[x]
    BY <1>1, <2>1, IInvTypes, Zenon DEF Slab
  <2>3. o # NoOrder
    BY <1>1, NullAssumption, Zenon
  <2>4. SameOrders(slab, slab', orderMap, NoSlot)
    <3> SUFFICES ASSUME NEW i \in Ids, orderMap[i] # NoSlot
                 PROVE  slab'[orderMap[i]] = slab[orderMap[i]] /\ slab[orderMap[i]] # NoOrder
      BY Zenon DEF SameOrders
    <3> QED
      BY <1>3, <2>2, MappedOrder, Zenon
  <2>5. IdMapSound(slab', levels', orderMap') /\ LevelsSound(slab', levels', orderMap')
    <3>1. IdMapSound(slab', levels, orderMap) /\ LevelsSound(slab', levels, orderMap)
      BY <2>2, <2>4, IInvTypes, BookFrame, Zenon
    <3> QED
      BY <1>2, <3>1, Zenon
  <2>6. TypeOK'
    BY <1>2, <2>1, <2>2, IInvTypes, Zenon DEF TypeOK, Slab, IdMap
  <2>7. \A x \in Slots : slab'[x] # NoOrder =>
          orderMap'[slab'[x].orderId] = IF x = incoming' THEN NoSlot ELSE x
    BY <1>1, <1>2, <1>6, <2>1, <2>2, NullAssumption, SMTT(30) DEF IInv, EveryOrderOwnedOnce
  <2>8. EveryOrderOwnedOnce'
    BY <1>2, <2>1, <2>2, <2>3, <2>5, <2>7, IInvTypes, ZenonT(30) DEF EveryOrderOwnedOnce
  <2>9. NeverCrossed'
    BY <1>2, Zenon DEF IInv, NeverCrossed
  <2>10. OpenOrders'
    BY <1>1, <1>2, <2>1, <2>2, NullAssumption, SMTT(30) DEF IInv, OpenOrders, Qtys
  <2>11. IncomingPriced'
    BY <1>1, <1>2, <2>1, <2>2, BoundsAssumption, SMTT(30) DEF IncomingPriced, Prices
  <2> QED
    BY <2>6, <2>8, <2>9, <2>10, <2>11, ZenonT(30) DEF IInv
<1> QED
  BY <1>5, <1>6, ZenonT(60)

\* modifyOrder keeps the invariant: the order leaves the book and enters the
\* match loop again in its own slot, as a LIMIT order of its side.
LEMMA ModifyOrderIInv ==
  ASSUME IInv, NEW id \in Ids, NEW newPrice \in Prices, NEW newQty \in Qtys,
         ModifyOrder(id, newPrice, newQty)
  PROVE  IInv'
<1>1. CASE orderMap[id] = NoSlot
  <2>1. UNCHANGED <<slab, levels, orderMap, incoming>> /\ drained' = m_fills /\ m_fills' = <<>>
    BY <1>1, Zenon DEF ModifyOrder, containsOrder, drainFillsInto
  <2>2. TypeOK'
    BY <2>1 DEF IInv, TypeOK
  <2> QED
    BY <2>1, <2>2, Zenon DEF IInv, EveryOrderOwnedOnce, NeverCrossed, OpenOrders, IncomingPriced
<1>2. CASE orderMap[id] # NoSlot
  <2> DEFINE s == orderMap[id]
             old == slab[s]
             o == [old EXCEPT !.price = newPrice, !.qty = newQty,
                              !.filledQty = 0, !.type = "LIMIT"]
             om == [orderMap EXCEPT ![old.orderId] = NoSlot]
  <2>1. /\ s \in Slots /\ old \in Order /\ old # NoOrder /\ old.orderId = id
        /\ orderMap[old.orderId] = s /\ slab[s] = old /\ s # NoSlot
    BY <1>2, MappedOrder, Zenon
  <2>2. /\ levels' = book_removeOrder(levels, s, old)
        /\ orderMap' = om
        /\ processOrder(s, o, om)
        /\ incoming = NoSlot
    BY <1>2, <2>1, Zenon DEF ModifyOrder, containsOrder
  <2>3. /\ o \in Order /\ o.orderId = id /\ o.price = newPrice /\ o.filledQty = 0
        /\ o.qty = newQty /\ o.type = "LIMIT" /\ o # NoOrder
    <3> HIDE DEF old
    <3>1. o \in Order
      <4>1. newPrice \in 0 .. MaxPrice /\ 0 \in 0 .. MaxQty /\ "LIMIT" \in OrderTypes
        BY BoundsAssumption DEF Prices, OrderTypes
      <4> QED
        BY <2>1, <4>1, ZenonT(60) DEF Order
    <3>2. /\ o.orderId = id /\ o.price = newPrice /\ o.filledQty = 0
          /\ o.qty = newQty /\ o.type = "LIMIT"
      BY <2>1, Zenon DEF Order
    <3> QED
      BY <3>1, <3>2, NullAssumption, ZenonT(30)
  <2>4. om[id] = NoSlot
    BY <2>1, IInvTypes, Zenon DEF IdMap
  <2> HIDE DEF s, old, o
  <2>5. /\ slab' = [slab EXCEPT ![s] = o] /\ incoming' = s
        /\ UNCHANGED <<m_fills, drained>>
    BY <2>2, <2>3, <2>4, ZenonT(60) DEF processOrder, containsOrder
  <2>6. slab' \in Slab /\ \A x \in Slots : slab'[x] = IF x = s THEN o ELSE slab[x]
    BY <2>1, <2>3, <2>5, IInvTypes, ZenonT(30) DEF Slab
  <2>7. SameOrders(slab, slab', orderMap, s)
    <3> SUFFICES ASSUME NEW i \in Ids, orderMap[i] # NoSlot, orderMap[i] # s
                 PROVE  slab'[orderMap[i]] = slab[orderMap[i]] /\ slab[orderMap[i]] # NoOrder
      BY Zenon DEF SameOrders
    <3> QED
      BY <2>6, MappedOrder, Zenon
  <2>8. /\ levels' \in Levels
        /\ QueuesOK(levels')
        /\ orderMap' \in IdMap
        /\ IdMapSound(slab', levels', orderMap')
        /\ LevelsSound(slab', levels', orderMap')
        /\ \A side \in Sides : Present(levels', side) \subseteq Present(levels, side)
        /\ \A i \in Ids : orderMap'[i] = IF i = old.orderId THEN NoSlot ELSE orderMap[i]
    <3>1. slab[s].side = old.side /\ slab[s].price = old.price
      BY <2>1, Zenon
    <3>2. /\ slab \in Slab /\ orderMap \in IdMap /\ levels \in Levels
          /\ QueuesOK(levels)
          /\ IdMapSound(slab, levels, orderMap)
          /\ LevelsSound(slab, levels, orderMap)
      BY IInvTypes, Zenon
    <3>3. orderMap' = [orderMap EXCEPT ![old.orderId] = NoSlot]
      BY <2>2, Zenon
    <3>4. StepUnlinked(levels, s, old.orderId)
      BY <2>1, <2>2, <2>6, <2>7, <3>1, <3>2, <3>3, UnlinkStep, ZenonT(60)
    <3> QED
      BY <3>4, ZenonT(60) DEF StepUnlinked, BookUnlinked
  <2>9. TypeOK'
    BY <2>1, <2>5, <2>6, <2>8, IInvTypes, ZenonT(30) DEF TypeOK, Slab, IdMap
  <2>10. \A x \in Slots : slab'[x] # NoOrder =>
           orderMap'[slab'[x].orderId] = IF x = incoming' THEN NoSlot ELSE x
    <3> SUFFICES ASSUME NEW x \in Slots, slab'[x] # NoOrder
                 PROVE  orderMap'[slab'[x].orderId] = IF x = s THEN NoSlot ELSE x
      BY <2>5, ZenonT(60)
    <3>1. CASE x = s
      BY <2>1, <2>3, <2>6, <2>8, <3>1, ZenonT(60)
    <3>2. CASE x # s
      <4>1. slab'[x] = slab[x]
        BY <2>6, <3>2, Zenon
      <4>2. orderMap[slab[x].orderId] = x /\ slab[x].orderId \in Ids
        BY <2>2, <4>1, NullAssumption, IInvTypes, ZenonT(30) DEF IInv, EveryOrderOwnedOnce, Order
      <4>3. slab[x].orderId # old.orderId
        BY <2>1, <3>2, <4>2, ZenonT(60)
      <4> QED
        BY <2>8, <3>2, <4>1, <4>2, <4>3, ZenonT(30)
    <3> QED
      BY <3>1, <3>2, ZenonT(60)
  <2>11. EveryOrderOwnedOnce'
    <3>1. slab'[incoming'] # NoOrder
      BY <2>1, <2>3, <2>5, <2>6, ZenonT(60)
    <3> QED
      BY <2>8, <2>10, <3>1, ZenonT(60) DEF EveryOrderOwnedOnce
  <2>12. NeverCrossed'
    BY <2>8, ZenonT(60) DEF IInv, NeverCrossed, Sides
  <2>13. OpenOrders'
    BY <2>2, <2>3, <2>5, <2>6, NullAssumption, SMTT(30) DEF IInv, OpenOrders, Qtys
  <2>14. IncomingPriced'
    BY <2>1, <2>3, <2>5, <2>6, Zenon DEF IncomingPriced
  <2> QED
    BY <2>9, <2>11, <2>12, <2>13, <2>14, ZenonT(30) DEF IInv
<1> QED
  BY <1>1, <1>2, Zenon

\* The order in the match loop.
LEMMA IncomingOrder ==
  ASSUME IInv, incoming # NoSlot
  PROVE  /\ incoming \in Slots
         /\ slab[incoming] \in Order /\ slab[incoming] # NoOrder
         /\ slab[incoming].side \in Sides
         /\ slab[incoming].filledQty <= slab[incoming].qty
         /\ slab[incoming].type # "MARKET" => slab[incoming].price \in Prices
         /\ slab[incoming].orderId \in Ids
         /\ orderMap[slab[incoming].orderId] = NoSlot
<1>1. incoming \in Slots /\ slab[incoming] # NoOrder
  BY Zenon DEF IInv, TypeOK, EveryOrderOwnedOnce
<1>2. slab[incoming] \in Order
  BY <1>1, IInvTypes, Zenon
<1>3. slab[incoming].side \in Sides /\ slab[incoming].orderId \in Ids
  BY <1>2, Zenon DEF Order
<1> QED
  BY <1>1, <1>2, <1>3, Zenon DEF IInv, OpenOrders, IncomingPriced, EveryOrderOwnedOnce

\* A limit order that leaves the match loop unfilled crosses no level of the
\* other side.
LEMMA LoopExitUncrossed ==
  ASSUME IInv, incoming # NoSlot, ~LoopContinues,
         slab[incoming].type = "LIMIT", ~isFilled(slab[incoming])
  PROVE  /\ slab[incoming].side = "BUY" =>
              \A a \in Present(levels, "SELL") : slab[incoming].price < a
         /\ slab[incoming].side = "SELL" =>
              \A b \in Present(levels, "BUY") : b < slab[incoming].price
<1> DEFINE o == slab[incoming]
<1>1. o.side \in Sides /\ o.price \in Prices /\ o.type = "LIMIT"
  BY IncomingOrder, Zenon
<1>2. bestOpposite(o.side) = 0 \/ ~crosses(o, bestOpposite(o.side))
  BY Zenon DEF LoopContinues
<1>3. Prices \subseteq Int /\ 0 \notin Prices
  BY BoundsAssumption DEF Prices
<1>4. Present(levels, "SELL") \subseteq Prices /\ Present(levels, "BUY") \subseteq Prices
  BY Zenon DEF Present
<1> HIDE DEF o
<1>5. ASSUME o.side = "BUY", NEW a \in Present(levels, "SELL") PROVE o.price < a
  <2>1. /\ getBestAsk(levels) \in Present(levels, "SELL") /\ getBestAsk(levels) <= a
    BY BestAsk, Zenon
  <2>2. bestOpposite(o.side) = getBestAsk(levels)
    BY <1>5, Zenon DEF bestOpposite
  <2>3. ~(getBestAsk(levels) <= o.price)
    BY <1>1, <1>2, <1>3, <1>4, <1>5, <2>1, <2>2, ZenonT(30) DEF crosses
  <2>4. getBestAsk(levels) \in Int /\ a \in Int /\ o.price \in Int
    BY <1>1, <1>3, <1>4, <2>1, ZenonT(60)
  <2> QED
    BY <2>1, <2>3, <2>4, SMTT(30)
<1>6. ASSUME o.side = "SELL", NEW b \in Present(levels, "BUY") PROVE b < o.price
  <2>1. /\ getBestBid(levels) \in Present(levels, "BUY") /\ getBestBid(levels) >= b
    BY BestBid, Zenon
  <2>2. bestOpposite(o.side) = getBestBid(levels)
    BY <1>6, Zenon DEF bestOpposite
  <2>3. ~(getBestBid(levels) >= o.price)
    BY <1>1, <1>2, <1>3, <1>4, <1>6, <2>1, <2>2, ZenonT(30) DEF crosses
  <2>4. getBestBid(levels) \in Int /\ b \in Int /\ o.price \in Int
    BY <1>1, <1>3, <1>4, <2>1, ZenonT(60)
  <2> QED
    BY <2>1, <2>3, <2>4, SMTT(30)
<1> QED
  BY <1>5, <1>6, Zenon DEF o

\* BookLink for a step of the engine.
LEMMA LinkStep ==
  ASSUME slab \in Slab, slab' = slab, orderMap \in IdMap, levels \in Levels,
         QueuesOK(levels), IdMapSound(slab, levels, orderMap), LevelsSound(slab, levels, orderMap),
         NEW s \in Slots, slab[s] # NoOrder,
         slab[s].price \in Prices, orderMap[slab[s].orderId] = NoSlot,
         levels' = book_addOrder(levels, s, slab[s]),
         orderMap' = [orderMap EXCEPT ![slab[s].orderId] = s]
  PROVE  /\ levels' \in Levels
         /\ QueuesOK(levels')
         /\ IdMapSound(slab', levels', orderMap')
         /\ LevelsSound(slab', levels', orderMap')
         /\ \A side \in Sides :
              Present(levels', side) = IF side = slab[s].side
                                       THEN Present(levels, side) \cup {slab[s].price}
                                       ELSE Present(levels, side)
<1>1. BookLinked(levels, slab, levels', orderMap', s)
  BY BookLink, ZenonT(60)
<1> QED
  BY <1>1, ZenonT(60) DEF BookLinked

\* Leaving matchOneSide keeps the invariant: the order rests (matchLimit) or
\* its slot returns to the pool (a filled order, matchMarket, matchIOC).
LEMMA FinishMatchIInv ==
  ASSUME IInv, FinishMatch
  PROVE  IInv'
<1> DEFINE s == incoming
           o == slab[s]
<1>1. /\ s # NoSlot /\ ~LoopContinues
      /\ incoming' = NoSlot /\ drained' = m_fills /\ m_fills' = <<>>
  BY Zenon DEF FinishMatch, Settle, drainFillsInto
<1>2. /\ s \in Slots /\ o \in Order /\ o # NoOrder /\ o.side \in Sides
      /\ o.filledQty <= o.qty /\ o.orderId \in Ids /\ orderMap[o.orderId] = NoSlot
  BY <1>1, IncomingOrder, Zenon
<1>3. /\ slab \in Slab /\ orderMap \in IdMap /\ levels \in Levels
      /\ m_fills \in Seq(Fill) /\ QueuesOK(levels)
      /\ IdMapSound(slab, levels, orderMap)
      /\ LevelsSound(slab, levels, orderMap)
  BY IInvTypes, Zenon
<1>4. ASSUME NEW x \in Slots, slab[x] # NoOrder, x # s
      PROVE  orderMap[slab[x].orderId] = x /\ slab[x].orderId \in Ids
  BY <1>4, IInvTypes, ZenonT(60) DEF IInv, EveryOrderOwnedOnce, Order
<1>5. CASE Rests(o)
  <2>1. /\ levels' = book_addOrder(levels, s, o)
        /\ orderMap' = [orderMap EXCEPT ![o.orderId] = s]
        /\ slab' = slab
    BY <1>5, Zenon DEF FinishMatch, Settle
  <2>2. o.type = "LIMIT" /\ ~isFilled(o)
    BY <1>5, Zenon DEF Rests
  <2>3. o.price \in Prices
    BY <1>1, <2>2, IncomingOrder, ZenonT(30)
  <2>4. /\ levels' \in Levels
        /\ QueuesOK(levels')
        /\ IdMapSound(slab', levels', orderMap')
        /\ LevelsSound(slab', levels', orderMap')
        /\ \A side \in Sides :
             Present(levels', side) = IF side = o.side
                                      THEN Present(levels, side) \cup {o.price}
                                      ELSE Present(levels, side)
    <3>1. /\ levels' = book_addOrder(levels, s, slab[s])
          /\ orderMap' = [orderMap EXCEPT ![slab[s].orderId] = s]
      BY <2>1, Zenon
    <3> QED
      BY <1>2, <1>3, <2>1, <2>3, <3>1, LinkStep, ZenonT(60)
  <2>5. /\ orderMap' \in IdMap
        /\ \A id \in Ids : orderMap'[id] = IF id = o.orderId THEN s ELSE orderMap[id]
    BY <1>2, <1>3, <2>1, ZenonT(60) DEF IdMap
  <2>6. TypeOK'
    BY <1>1, <1>3, <2>1, <2>4, <2>5, IInvTypes, SMTT(30) DEF TypeOK, Slab, IdMap
  <2>7. ASSUME NEW x \in Slots, slab[x] # NoOrder PROVE orderMap'[slab[x].orderId] = x
    <3>1. CASE x = s
      BY <1>2, <2>5, <3>1, ZenonT(60)
    <3>2. CASE x # s
      BY <1>2, <1>4, <2>5, <2>7, <3>2, NullAssumption, SMTT(30)
    <3> QED
      BY <3>1, <3>2, ZenonT(30)
  <2>8. EveryOrderOwnedOnce'
    BY <1>1, <2>1, <2>4, <2>7, NullAssumption, ZenonT(30) DEF EveryOrderOwnedOnce
  <2>9. NeverCrossed'
    <3> SUFFICES ASSUME NEW b \in Present(levels', "BUY"), NEW a \in Present(levels', "SELL")
                 PROVE  b < a
      BY Zenon DEF NeverCrossed
    <3>1. /\ o.side = "BUY" => \A a1 \in Present(levels, "SELL") : o.price < a1
          /\ o.side = "SELL" => \A b1 \in Present(levels, "BUY") : b1 < o.price
      BY <1>1, <2>2, LoopExitUncrossed, ZenonT(30)
    <3>2. \A b1 \in Present(levels, "BUY"), a1 \in Present(levels, "SELL") : b1 < a1
      BY Zenon DEF IInv, NeverCrossed
    <3> HIDE DEF s, o
    <3>3. CASE o.side = "BUY"
      <4>1. /\ b \in Present(levels, "BUY") \cup {o.price}
            /\ a \in Present(levels, "SELL")
        BY <2>4, <3>3, ZenonT(60) DEF Sides
      <4> QED
        BY <3>1, <3>2, <3>3, <4>1, ZenonT(30)
    <3>4. CASE o.side = "SELL"
      <4>1. /\ b \in Present(levels, "BUY")
            /\ a \in Present(levels, "SELL") \cup {o.price}
        BY <2>4, <3>4, ZenonT(30) DEF Sides
      <4> QED
        BY <3>1, <3>2, <3>4, <4>1, ZenonT(30)
    <3> QED
      BY <1>2, <3>3, <3>4, ZenonT(30) DEF Sides
  <2>10. OpenOrders'
    <3>1. o.filledQty < o.qty
      BY <1>2, <2>2, SMTT(30) DEF isFilled, Order, Qtys
    <3> QED
      BY <1>1, <2>1, <2>2, <3>1, NullAssumption, ZenonT(30) DEF IInv, OpenOrders
  <2>11. IncomingPriced'
    BY <1>1, ZenonT(60) DEF IncomingPriced
  <2> QED
    BY <2>6, <2>8, <2>9, <2>10, <2>11, ZenonT(30) DEF IInv
<1>6. CASE ~Rests(o)
  <2>1. slab' = [slab EXCEPT ![s] = NoOrder] /\ UNCHANGED <<levels, orderMap>>
    BY <1>6, ZenonT(60) DEF FinishMatch, Settle
  <2>2. slab' \in Slab /\ \A x \in Slots : slab'[x] = IF x = s THEN NoOrder ELSE slab[x]
    BY <1>2, <1>3, <2>1, ZenonT(30) DEF Slab
  <2>3. SameOrders(slab, slab', orderMap, NoSlot)
    <3> SUFFICES ASSUME NEW i \in Ids, orderMap[i] # NoSlot
                 PROVE  slab'[orderMap[i]] = slab[orderMap[i]] /\ slab[orderMap[i]] # NoOrder
      BY Zenon DEF SameOrders
    <3> QED
      BY <2>2, MappedOrder, ZenonT(60)
  <2>4. IdMapSound(slab', levels', orderMap') /\ LevelsSound(slab', levels', orderMap')
    <3>1. IdMapSound(slab', levels, orderMap) /\ LevelsSound(slab', levels, orderMap)
      BY <1>3, <2>2, <2>3, BookFrame, ZenonT(30)
    <3> QED
      BY <2>1, <3>1, ZenonT(60)
  <2>5. TypeOK'
    BY <1>1, <1>3, <2>1, <2>2, SMTT(30) DEF TypeOK, Slab, IdMap
  <2>6. EveryOrderOwnedOnce'
    BY <1>1, <1>3, <1>4, <2>1, <2>2, <2>4, NullAssumption, ZenonT(60) DEF EveryOrderOwnedOnce
  <2>7. NeverCrossed'
    BY <2>1, Zenon DEF IInv, NeverCrossed
  <2>8. OpenOrders'
    BY <1>1, <2>2, ZenonT(30) DEF IInv, OpenOrders
  <2>9. IncomingPriced'
    BY <1>1, Zenon DEF IncomingPriced
  <2> QED
    BY <2>5, <2>6, <2>7, <2>8, <2>9, ZenonT(30) DEF IInv
<1> QED
  BY <1>5, <1>6, ZenonT(60)

-----------------------------------------------------------------------------
\* One turn of the match loop: the level taken is present, its front is a
\* resting order of the other side, and the quantity traded is positive and
\* fits both orders.
LEMMA MatchFacts ==
  ASSUME IInv, incoming # NoSlot, LoopContinues
  PROVE  LET o == slab[incoming]
             opp == Opposite(o.side)
             p == bestOpposite(o.side)
             r == front(levels[opp][p])
             q == matchQty(o, slab[r])
         IN /\ o \in Order /\ opp \in Sides /\ p \in Present(levels, opp) /\ p \in Prices
            /\ crosses(o, p)
            /\ r \in Slots /\ r # NoSlot /\ r # incoming
            /\ r \in OrdersAt(levels, opp, p)
            /\ slab[r] \in Order /\ slab[r] # NoOrder
            /\ slab[r].side = opp /\ slab[r].price = p
            /\ orderMap[slab[r].orderId] = r
            /\ slab[r].type = "LIMIT"
            /\ q \in Nat /\ q > 0
            /\ o.filledQty + q <= o.qty
            /\ slab[r].filledQty + q <= slab[r].qty
<1> DEFINE o == slab[incoming]
           opp == Opposite(o.side)
           p == bestOpposite(o.side)
           lv == levels[opp][p]
           r == front(lv)
           q == matchQty(o, slab[r])
<1>1. /\ incoming \in Slots /\ o \in Order /\ o.side \in Sides /\ o.filledQty <= o.qty
      /\ o.orderId \in Ids /\ orderMap[o.orderId] = NoSlot
  BY IncomingOrder, Zenon
<1>2. ~isFilled(o) /\ p # 0 /\ crosses(o, p)
  BY Zenon DEF LoopContinues
<1> HIDE DEF o
<1>3. opp \in Sides /\ p \in Present(levels, opp)
  <2>1. CASE o.side = "BUY"
    BY <1>2, <2>1, BestAsk, ZenonT(60) DEF Opposite, bestOpposite, Sides
  <2>2. CASE o.side = "SELL"
    BY <1>2, <2>2, BestBid, ZenonT(60) DEF Opposite, bestOpposite, Sides
  <2> QED
    BY <1>1, <2>1, <2>2, Zenon DEF Sides
<1> HIDE DEF opp, p
<1>4. p \in Prices /\ lv # NoLevel
  BY <1>3, Zenon DEF Present
<1>5. lv \in Level /\ lv.queue \in Seq(Slots) /\ lv.queue # <<>>
  <2>1. lv \in Level
    BY <1>3, <1>4, IInvTypes, ZenonT(60) DEF Levels
  <2> QED
    BY <1>3, <2>1, IInvTypes, ZenonT(60) DEF Level, QueuesOK
<1>6. r \in OrdersAt(levels, opp, p) /\ r \in Slots
  <2>1. 1 \in DOMAIN lv.queue /\ Head(lv.queue) = lv.queue[1]
    BY <1>5, LenProperties, EmptySeq, SMTT(30)
  <2>2. r \in OrdersAt(levels, opp, p)
    BY <1>4, <2>1, ZenonT(60) DEF front, OrdersAt, Range
  <2> QED
    BY <1>3, <1>4, <2>2, OrdersAtSlots, IInvTypes, ZenonT(30)
<1> HIDE DEF r
<1>7. /\ slab[r] # NoOrder /\ slab[r].side = opp /\ slab[r].price = p
      /\ orderMap[slab[r].orderId] = r
  BY <1>3, <1>4, <1>6, IInvTypes, SMTT(30) DEF LevelsSound
<1>8. r # NoSlot
  BY <1>6, NullAssumption, ZenonT(60)
<1>9. r # incoming
  BY <1>1, <1>7, <1>8, ZenonT(30) DEF o
<1>10. slab[r] \in Order
  BY <1>6, <1>7, IInvTypes, Zenon
<1>11. slab[r].type = "LIMIT" /\ slab[r].filledQty < slab[r].qty
  BY <1>6, <1>7, <1>9, ZenonT(30) DEF IInv, OpenOrders
<1>12. /\ q \in Nat /\ q > 0
       /\ o.filledQty + q <= o.qty
       /\ slab[r].filledQty + q <= slab[r].qty
  <2> DEFINE y == slab[r]
  <2>1. /\ o.filledQty \in Nat /\ o.qty \in Nat /\ o.filledQty < o.qty
    BY <1>1, <1>2, BoundsAssumption, SMTT(30) DEF isFilled, Order, Qtys
  <2>2. y.filledQty \in Nat /\ y.qty \in Nat /\ y.filledQty < y.qty
    BY <1>10, <1>11, BoundsAssumption, SMTT(30) DEF Order, Qtys
  <2>3. remainingQty(o) = o.qty - o.filledQty /\ remainingQty(y) = y.qty - y.filledQty
    BY <2>1, <2>2, SMTT(30) DEF remainingQty
  <2> HIDE DEF y
  <2>4. q = IF o.qty - o.filledQty <= y.qty - y.filledQty
            THEN o.qty - o.filledQty ELSE y.qty - y.filledQty
    BY <2>3, ZenonT(60) DEF matchQty, y
  <2> HIDE DEF q
  <2>5. /\ q \in Nat /\ q > 0 /\ o.filledQty + q <= o.qty
        /\ y.filledQty + q <= y.qty
    BY <2>1, <2>2, <2>4, SMTT(30)
  <2> QED
    BY <2>5, Zenon DEF y
<1> QED
  BY <1>1, <1>2, <1>3, <1>4, <1>6, <1>7, <1>8, <1>9, <1>10, <1>11, <1>12, ZenonT(60) DEF o, opp, p, r

\* One turn of matchOneSide with its executeTrade keeps the invariant, whether
\* the resting order stays or is filled and leaves the book.
LEMMA MatchStepIInv ==
  ASSUME IInv, MatchStep
  PROVE  IInv'
<1> DEFINE o == slab[incoming]
           opp == Opposite(o.side)
           p == bestOpposite(o.side)
           r == front(levels[opp][p])
           y == slab[r]
           q == matchQty(o, y)
           y1 == [y EXCEPT !.filledQty = @ + q]
           o1 == [o EXCEPT !.filledQty = @ + q]
           traded == [slab EXCEPT ![incoming].filledQty = @ + q, ![r] = y1]
           dec == [levels EXCEPT ![opp][p] = decreaseTotalQty(@, q)]
<1>1. incoming # NoSlot /\ LoopContinues /\ UNCHANGED <<incoming, drained>>
  BY Zenon DEF MatchStep
<1>2. /\ m_fills' = Append(m_fills, FillOf(o, y1, p, q))
      /\ IF isFilled(y1)
         THEN /\ levels' = book_removeOrder(dec, r, y1)
              /\ orderMap' = [orderMap EXCEPT ![y1.orderId] = NoSlot]
              /\ slab' = [traded EXCEPT ![r] = NoOrder]
         ELSE /\ levels' = dec
              /\ slab' = traded
              /\ UNCHANGED orderMap
  BY Zenon DEF MatchStep
<1>3. incoming \in Slots /\ orderMap[o.orderId] = NoSlot /\ o.orderId \in Ids /\ o # NoOrder
      /\ (o.type # "MARKET" => o.price \in Prices) /\ o.side \in Sides
  BY <1>1, IncomingOrder, ZenonT(60)
<1>4. /\ o \in Order /\ opp \in Sides /\ p \in Present(levels, opp) /\ p \in Prices
      /\ r \in Slots /\ r # NoSlot /\ r # incoming
      /\ r \in OrdersAt(levels, opp, p)
      /\ y \in Order /\ y # NoOrder
      /\ y.side = opp /\ y.price = p
      /\ orderMap[y.orderId] = r
      /\ y.type = "LIMIT"
      /\ q \in Nat /\ q > 0
      /\ o.filledQty + q <= o.qty
      /\ y.filledQty + q <= y.qty
  BY <1>1, MatchFacts, ZenonT(60)
<1>5. /\ slab \in Slab /\ orderMap \in IdMap /\ levels \in Levels
      /\ m_fills \in Seq(Fill) /\ drained \in Seq(Fill) /\ QueuesOK(levels)
      /\ IdMapSound(slab, levels, orderMap)
      /\ LevelsSound(slab, levels, orderMap)
  BY IInvTypes, ZenonT(60)
<1>6. /\ traded \in [Slots -> Order \cup {NoOrder}]
      /\ \A x \in Slots : traded[x] = IF x = incoming THEN o1 ELSE IF x = r THEN y1 ELSE slab[x]
      /\ o1 \in Order /\ o1.orderId = o.orderId /\ o1.side = o.side /\ o1.price = o.price
      /\ o1.type = o.type /\ o1.qty = o.qty /\ o1.filledQty = o.filledQty + q
      /\ y1 \in Order /\ y1.orderId = y.orderId /\ y1.side = y.side /\ y1.price = y.price
      /\ y1.type = y.type /\ y1.qty = y.qty /\ y1.filledQty = y.filledQty + q
  <2> HIDE DEF q, r, p, opp
  <2>1. /\ y1.orderId = y.orderId /\ y1.side = y.side /\ y1.price = y.price
        /\ y1.type = y.type /\ y1.qty = y.qty /\ y1.filledQty = y.filledQty + q
    BY <1>4, Zenon DEF Order
  <2>2. /\ o1.orderId = o.orderId /\ o1.side = o.side /\ o1.price = o.price
        /\ o1.type = o.type /\ o1.qty = o.qty /\ o1.filledQty = o.filledQty + q
    BY <1>4, ZenonT(60) DEF Order
  <2>3. y.filledQty + q \in 0 .. MaxQty /\ o.filledQty + q \in 0 .. MaxQty
    BY <1>4, BoundsAssumption, SMTT(30) DEF Order, Qtys
  <2>4. y1 \in Order
    BY <1>4, <2>3, Zenon DEF Order
  <2>5. o1 \in Order
    BY <1>4, <2>3, ZenonT(60) DEF Order
  <2>6. traded = [slab EXCEPT ![incoming] = o1, ![r] = y1]
    BY <1>3, <1>5, ZenonT(60) DEF Slab
  <2> HIDE DEF o1, y1, traded
  <2>7. /\ traded \in [Slots -> Order \cup {NoOrder}]
        /\ \A x \in Slots : traded[x] = IF x = incoming THEN o1 ELSE IF x = r THEN y1 ELSE slab[x]
    BY <1>3, <1>4, <1>5, <2>4, <2>5, <2>6, ZenonT(30) DEF Slab
  <2> QED
    BY <2>1, <2>2, <2>4, <2>5, <2>7, ZenonT(30)
<1>7. /\ dec \in Levels
      /\ QueuesOK(dec)
      /\ \A side \in Sides, p1 \in Prices : OrdersAt(dec, side, p1) = OrdersAt(levels, side, p1)
      /\ \A side \in Sides : Present(dec, side) = Present(levels, side)
  <2>1. dec = DecreasedAt(levels, opp, p, q)
    BY Zenon DEF DecreasedAt
  <2>2. q \in Nat /\ opp \in Sides /\ p \in Present(levels, opp)
    BY <1>4, ZenonT(60)
  <2> HIDE DEF q, p, opp, dec
  <2>3. dec \in Levels
    BY <1>5, <2>1, <2>2, BookDecrease, ZenonT(60)
  <2>4. QueuesOK(dec)
    BY <1>5, <2>1, <2>2, BookDecrease, ZenonT(60)
  <2>5. ASSUME NEW side \in Sides, NEW p1 \in Prices
        PROVE  /\ OrdersAt(dec, side, p1) = OrdersAt(levels, side, p1)
               /\ dec[side][p1] = NoLevel <=> levels[side][p1] = NoLevel
    <3>1. p \in Prices /\ levels[opp][p] \in Level /\ levels[opp][p] # NoLevel
      BY <1>5, <2>2, ZenonT(30) DEF Present, Levels
    <3>2. /\ decreaseTotalQty(levels[opp][p], q) \in Level
          /\ decreaseTotalQty(levels[opp][p], q).queue = levels[opp][p].queue
      BY <2>2, <3>1, SMTT(30) DEF decreaseTotalQty, Level
    <3>3. dec[side][p1] = IF side = opp /\ p1 = p
                          THEN decreaseTotalQty(levels[opp][p], q) ELSE levels[side][p1]
      BY <1>5, <2>1, <2>2, <3>1, ZenonT(30) DEF Levels, DecreasedAt
    <3> QED
      BY <3>1, <3>2, <3>3, NullAssumption, ZenonT(30) DEF OrdersAt
  <2>6. \A side \in Sides : Present(dec, side) = Present(levels, side)
    BY <2>5, Zenon DEF Present
  <2> QED
    BY <2>3, <2>4, <2>5, <2>6, ZenonT(30)
<1>8. m_fills' \in Seq(Fill)
  <2>1. FillOf(o, y1, p, q) \in Fill
    BY <1>3, <1>4, <1>6, ZenonT(60) DEF FillOf, Fill, Order
  <2> HIDE DEF q, p, y1, o
  <2> QED
    BY <1>2, <1>5, <2>1, AppendProperties, ZenonT(30)
<1> HIDE DEF o, opp, p, r, y, q, y1, o1, traded, dec
<1>9. slab[r] = y /\ slab[incoming] = o
  BY Zenon DEF y, o
<1>10. IdMapSound(slab, dec, orderMap) /\ LevelsSound(slab, dec, orderMap)
  <2>1. SameOrders(slab, slab, orderMap, NoSlot)
    BY MappedOrder, Zenon DEF SameOrders
  <2> QED
    BY <1>5, <1>7, <2>1, BookFrame, ZenonT(30)
<1>11. ASSUME NEW x \in Slots, slab[x] # NoOrder, x # incoming
       PROVE  orderMap[slab[x].orderId] = x /\ slab[x].orderId \in Ids
  BY <1>11, IInvTypes, ZenonT(60) DEF IInv, EveryOrderOwnedOnce, Order
<1>12. CASE isFilled(y1)
  <2>1. /\ levels' = book_removeOrder(dec, r, y1)
        /\ orderMap' = [orderMap EXCEPT ![y1.orderId] = NoSlot]
        /\ slab' = [traded EXCEPT ![r] = NoOrder]
    BY <1>2, <1>12, ZenonT(30)
  <2>2. /\ slab' \in Slab
        /\ \A x \in Slots : slab'[x] = IF x = r THEN NoOrder
                                       ELSE IF x = incoming THEN o1 ELSE slab[x]
    BY <1>4, <1>6, <2>1, ZenonT(30) DEF Slab
  <2>3. SameOrders(slab, slab', orderMap, r)
    <3> SUFFICES ASSUME NEW i \in Ids, orderMap[i] # NoSlot, orderMap[i] # r
                 PROVE  slab'[orderMap[i]] = slab[orderMap[i]] /\ slab[orderMap[i]] # NoOrder
      BY Zenon DEF SameOrders
    <3> QED
      BY <2>2, MappedOrder, ZenonT(30)
  <2>4. /\ levels' \in Levels
        /\ QueuesOK(levels')
        /\ orderMap' \in IdMap
        /\ IdMapSound(slab', levels', orderMap')
        /\ LevelsSound(slab', levels', orderMap')
        /\ \A side \in Sides : Present(levels', side) \subseteq Present(dec, side)
        /\ \A i \in Ids : orderMap'[i] = IF i = y1.orderId THEN NoSlot ELSE orderMap[i]
    <3>1. /\ slab[r].side = y1.side /\ slab[r].price = y1.price
          /\ orderMap[y1.orderId] = r
      BY <1>4, <1>6, <1>9, Zenon
    <3>2. StepUnlinked(dec, r, y1.orderId)
      BY <1>4, <1>5, <1>6, <1>7, <1>10, <2>1, <2>2, <2>3, <3>1, UnlinkStep, ZenonT(60)
    <3> QED
      BY <3>2, ZenonT(60) DEF StepUnlinked, BookUnlinked
  <2>5. TypeOK'
    BY <1>1, <1>3, <1>5, <1>8, <2>2, <2>4, ZenonT(30) DEF TypeOK, Slab, IdMap
  <2>6. \A x \in Slots : slab'[x] # NoOrder =>
          orderMap'[slab'[x].orderId] = IF x = incoming' THEN NoSlot ELSE x
    <3> SUFFICES ASSUME NEW x \in Slots, slab'[x] # NoOrder
                 PROVE  orderMap'[slab'[x].orderId] = IF x = incoming THEN NoSlot ELSE x
      BY <1>1, Zenon
    <3>1. CASE x = incoming
      BY <1>3, <1>4, <1>6, <2>2, <2>4, <3>1, ZenonT(60)
    <3>2. CASE x # incoming
      <4>1. slab'[x] = slab[x] /\ x # r
        BY <2>2, <3>2, ZenonT(60)
      <4>2. orderMap[slab[x].orderId] = x /\ slab[x].orderId \in Ids
        BY <1>11, <3>2, <4>1, ZenonT(60)
      <4>3. slab[x].orderId # y1.orderId
        BY <1>4, <1>6, <4>1, <4>2, ZenonT(60)
      <4> QED
        BY <2>4, <3>2, <4>1, <4>2, <4>3, ZenonT(30)
    <3> QED
      BY <3>1, <3>2, ZenonT(60)
  <2>7. slab'[incoming] = o1 /\ o1 # NoOrder
    BY <1>3, <1>4, <1>6, <2>2, NullAssumption, ZenonT(30)
  <2>8. EveryOrderOwnedOnce'
    BY <1>1, <2>4, <2>6, <2>7, ZenonT(30) DEF EveryOrderOwnedOnce
  <2>9. NeverCrossed'
    BY <1>7, <2>4, ZenonT(60) DEF IInv, NeverCrossed, Sides
  <2>10. OpenOrders'
    <3> SUFFICES ASSUME NEW x \in Slots, slab'[x] # NoOrder
                 PROVE  /\ slab'[x].filledQty <= slab'[x].qty
                        /\ x # incoming => slab'[x].type = "LIMIT" /\ slab'[x].filledQty < slab'[x].qty
      BY <1>1, ZenonT(60) DEF OpenOrders
    <3>1. CASE x = incoming
      BY <1>4, <1>6, <2>7, <3>1, ZenonT(60)
    <3>2. CASE x # incoming
      <4>1. slab'[x] = slab[x]
        BY <2>2, <3>2, ZenonT(60)
      <4> QED
        BY <3>2, <4>1, ZenonT(60) DEF IInv, OpenOrders
    <3> QED
      BY <3>1, <3>2, Zenon
  <2>11. IncomingPriced'
    BY <1>1, <1>3, <1>6, <2>7, ZenonT(30) DEF IncomingPriced
  <2> QED
    BY <2>5, <2>8, <2>9, <2>10, <2>11, ZenonT(30) DEF IInv
<1>13. CASE ~isFilled(y1)
  <2>1. levels' = dec /\ slab' = traded /\ orderMap' = orderMap
    BY <1>2, <1>13, ZenonT(60)
  <2>2. /\ slab' \in Slab
        /\ \A x \in Slots : slab'[x] = IF x = incoming THEN o1 ELSE IF x = r THEN y1 ELSE slab[x]
    BY <1>6, <2>1, ZenonT(60) DEF Slab
  <2>3. y1 # NoOrder /\ o1 # NoOrder
    BY <1>6, NullAssumption, ZenonT(60)
  <2>4. SameOrders(slab, slab', orderMap, NoSlot)
    <3> SUFFICES ASSUME NEW i \in Ids, orderMap[i] # NoSlot
                 PROVE  /\ slab'[orderMap[i]] # NoOrder
                        /\ slab'[orderMap[i]].orderId = slab[orderMap[i]].orderId
                        /\ slab'[orderMap[i]].side = slab[orderMap[i]].side
                        /\ slab'[orderMap[i]].price = slab[orderMap[i]].price
      BY Zenon DEF SameOrders
    <3>1. orderMap[i] \in Slots /\ orderMap[i] # incoming /\ slab[orderMap[i]] # NoOrder
      BY MappedOrder, ZenonT(60)
    <3> QED
      BY <1>6, <1>9, <2>2, <2>3, <3>1, ZenonT(30)
  <2>5. IdMapSound(slab', levels', orderMap') /\ LevelsSound(slab', levels', orderMap')
    <3>1. IdMapSound(slab', dec, orderMap) /\ LevelsSound(slab', dec, orderMap)
      BY <1>5, <1>7, <1>10, <2>2, <2>4, BookFrame, ZenonT(30)
    <3> QED
      BY <2>1, <3>1, ZenonT(30)
  <2>6. TypeOK'
    BY <1>1, <1>3, <1>5, <1>7, <1>8, <2>1, <2>2, ZenonT(30) DEF TypeOK, Slab, IdMap
  <2>7. \A x \in Slots : slab'[x] # NoOrder =>
          orderMap'[slab'[x].orderId] = IF x = incoming' THEN NoSlot ELSE x
    BY <1>1, <1>3, <1>4, <1>6, <1>11, <2>1, <2>2, SMTT(30)
  <2>8. EveryOrderOwnedOnce'
    BY <1>1, <1>3, <1>7, <2>1, <2>2, <2>3, <2>5, <2>7, ZenonT(30) DEF EveryOrderOwnedOnce
  <2>9. NeverCrossed'
    BY <1>7, <2>1, ZenonT(60) DEF IInv, NeverCrossed, Sides
  <2>10. OpenOrders'
    <3>1. y1.filledQty < y1.qty
      BY <1>6, <1>13, BoundsAssumption, SMTT(30) DEF isFilled, Order, Qtys
    <3> QED
      BY <1>1, <1>4, <1>6, <2>2, <3>1, SMTT(30) DEF IInv, OpenOrders
  <2>11. IncomingPriced'
    BY <1>1, <1>3, <1>6, <2>2, ZenonT(30) DEF IncomingPriced
  <2> QED
    BY <2>6, <2>8, <2>9, <2>10, <2>11, ZenonT(30) DEF IInv
<1> QED
  BY <1>12, <1>13, ZenonT(60)

\* IInv is inductive: it holds initially (InitIInv) and every step of the
\* engine, and a stuttering step, keeps it.
LEMMA NextIInv ==
  ASSUME IInv, [Next]_vars
  PROVE  IInv'
<1>1. ASSUME NEW id \in Ids, NEW side \in Sides, NEW type \in OrderTypes,
             NEW price \in 0 .. MaxPrice, NEW qty \in Qtys,
             AddOrder(id, side, type, price, qty)
      PROVE  IInv'
  BY <1>1, AddOrderIInv, Zenon
<1>2. ASSUME NEW id \in Ids, CancelOrder(id)
      PROVE  IInv'
  BY <1>2, CancelOrderIInv, Zenon
<1>3. ASSUME NEW id \in Ids, NEW price \in Prices, NEW qty \in Qtys,
             ModifyOrder(id, price, qty)
      PROVE  IInv'
  BY <1>3, ModifyOrderIInv, ZenonT(60)
<1>4. CASE MatchStep
  BY <1>4, MatchStepIInv, Zenon
<1>5. CASE FinishMatch
  BY <1>5, FinishMatchIInv, Zenon
<1>6. CASE UNCHANGED vars
  <2>1. TypeOK' /\ OpenOrders' /\ IncomingPriced'
    BY <1>6, Zenon DEF vars, IInv, TypeOK, OpenOrders, IncomingPriced
  <2>2. EveryOrderOwnedOnce'
    BY <1>6, Zenon DEF vars, IInv, EveryOrderOwnedOnce
  <2>3. NeverCrossed'
    BY <1>6, Zenon DEF vars, IInv, NeverCrossed
  <2> QED
    BY <2>1, <2>2, <2>3, ZenonT(60) DEF IInv
<1>7. CASE DropAdd
  BY <1>6, <1>7, ZenonT(60) DEF DropAdd
<1> QED
  BY <1>1, <1>2, <1>3, <1>4, <1>5, <1>6, <1>7, ZenonT(30) DEF Next

\* The inductive invariant holds in every reachable state of the engine.
LEMMA AlwaysIInv == Spec => []IInv
  BY InitIInv, NextIInv, PTL DEF Spec

\* Type correctness, for every set of ids and slots and every price and
\* quantity bound: in particular no order is filled beyond MaxQty and no fill
\* carries a price of 0 (executeTrade, matchOneSide).
THEOREM TypeCorrect == Spec => []TypeOK
<1>1. IInv => TypeOK
  BY ZenonT(60) DEF IInv
<1> QED
  BY <1>1, AlwaysIInv, PTL

\* Slot ownership (MatchingEngine, OrderBook and pool together): no leak, no
\* dangling id map entry, no order on two levels, no empty level.
THEOREM OwnedOnce == Spec => []EveryOrderOwnedOnce
<1>1. IInv => EveryOrderOwnedOnce
  BY ZenonT(60) DEF IInv
<1> QED
  BY <1>1, AlwaysIInv, PTL

\* The two sides of the book never meet: matchLimit rests an order only once
\* matchOneSide has consumed every level it crosses.
THEOREM Uncrossed == Spec => []NeverCrossed
<1>1. IInv => NeverCrossed
  BY ZenonT(60) DEF IInv
<1> QED
  BY <1>1, AlwaysIInv, PTL

\* Only unfilled LIMIT orders rest, and executeTrade fills no order beyond its
\* quantity.
THEOREM OpenOrdersOnly == Spec => []RestingOrdersOpen
<1>1. IInv => RestingOrdersOpen
  <2> SUFFICES ASSUME IInv
               PROVE  RestingOrdersOpen
    BY ZenonT(60)
  <2>1. ASSUME NEW s \in Resting
        PROVE  slab[s].type = "LIMIT" /\ ~isFilled(slab[s])
    <3>1. PICK side \in Sides, p \in Prices : s \in OrdersAt(levels, side, p)
      BY <2>1, SMTT(30) DEF Resting
    <3>2. slab[s] # NoOrder /\ orderMap[slab[s].orderId] = s /\ s \in Slots
      BY <3>1, IInvTypes, OrdersAtSlots, SMTT(30) DEF LevelsSound
    <3>3. slab[s] \in Order /\ s # NoSlot
      BY <3>2, IInvTypes, NullAssumption, ZenonT(30)
    <3>4. s # incoming
      BY <3>2, <3>3, Zenon DEF IInv, EveryOrderOwnedOnce
    <3> QED
      BY <3>2, <3>3, <3>4, BoundsAssumption, SMTT(30) DEF IInv, OpenOrders, isFilled, Order, Qtys
  <2>2. \A s \in Slots : slab[s] # NoOrder => slab[s].filledQty <= slab[s].qty
    BY Zenon DEF IInv, OpenOrders
  <2> QED
    BY <2>1, <2>2, ZenonT(60) DEF RestingOrdersOpen
<1> QED
  BY <1>1, AlwaysIInv, PTL

\* A turn of the match loop leaves the incoming order in place and fills some
\* of it (matchOneSide, executeTrade).
LEMMA MatchStepProgress ==
  ASSUME IInv, MatchStep
  PROVE  /\ incoming' = incoming
         /\ remainingQty(slab'[incoming]) < remainingQty(slab[incoming])
<1> DEFINE o == slab[incoming]
           p == bestOpposite(o.side)
           r == front(levels[Opposite(o.side)][p])
           q == matchQty(o, slab[r])
           y1 == [slab[r] EXCEPT !.filledQty = @ + q]
           traded == [slab EXCEPT ![incoming].filledQty = @ + q, ![r] = y1]
<1>1. /\ incoming # NoSlot /\ LoopContinues /\ incoming' = incoming
      /\ slab' = traded \/ slab' = [traded EXCEPT ![r] = NoOrder]
  BY Zenon DEF MatchStep
<1>2. incoming \in Slots
  BY <1>1, IncomingOrder, Zenon
<1>3. /\ o \in Order /\ r \in Slots /\ r # incoming
      /\ q \in Nat /\ q > 0
      /\ o.filledQty + q <= o.qty
  BY <1>1, MatchFacts, Zenon
<1>4. slab \in [Slots -> Order \cup {NoOrder}]
  BY IInvTypes, Zenon DEF Slab
<1> HIDE DEF q, r, y1
<1>5. slab'[incoming] = [o EXCEPT !.filledQty = @ + q]
  BY <1>1, <1>2, <1>3, <1>4, ZenonT(30)
<1>6. /\ slab'[incoming].filledQty = o.filledQty + q
      /\ slab'[incoming].qty = o.qty
  BY <1>3, <1>5, ZenonT(60) DEF Order
<1> QED
  BY <1>1, <1>3, <1>6, BoundsAssumption, SMTT(30) DEF remainingQty, Order, Qtys

\* The match loop of matchOneSide ends for every book and every order: each
\* step of a message finishes it or lowers the unfilled rest of its order,
\* which TypeOK and RestingOrdersOpen bound by 0 from below.
THEOREM MatchingEnds == Spec => LoopProgress
<1> DEFINE Advances == incoming # NoSlot =>
             \/ incoming' = NoSlot
             \/ /\ incoming' = incoming
                /\ remainingQty(slab'[incoming]) < remainingQty(slab[incoming])
<1>1. IInv /\ [Next]_vars => [Advances]_vars
  <2> SUFFICES ASSUME IInv, Next, incoming # NoSlot
               PROVE  Advances
    BY Zenon
  <2>1. CASE MatchStep
    BY <2>1, MatchStepProgress, Zenon
  <2>2. CASE FinishMatch
    BY <2>2, Zenon DEF FinishMatch, Settle
  <2> QED
    BY <2>1, <2>2, ZenonT(60) DEF Next, AddOrder, DropAdd, CancelOrder, ModifyOrder
<1> QED
  BY <1>1, AlwaysIInv, PTL DEF Spec, LoopProgress

-----------------------------------------------------------------------------
(* The steps of the engine *)

\* What an ADD does: the duplicate of a resting id leaves everything as it was
\* but drains the fills; any other order enters the match loop unfilled.
LEMMA AddShape ==
  ASSUME IInv, NEW id \in Ids, NEW side \in Sides, NEW type \in OrderTypes,
         NEW price \in 0 .. MaxPrice, NEW qty \in Qtys,
         AddOrder(id, side, type, price, qty)
  PROVE  /\ incoming = NoSlot /\ levels' = levels /\ orderMap' = orderMap
         /\ \/ /\ slab' = slab /\ incoming' = NoSlot
               /\ m_fills' = <<>> /\ drained' = m_fills
            \/ \E s \in Slots, o \in Order :
                 /\ slab[s] = NoOrder /\ o.filledQty = 0
                 /\ slab' = [slab EXCEPT ![s] = o]
                 /\ incoming' = s /\ m_fills' = m_fills /\ drained' = drained
<1> DEFINE o == NewOrder(id, side, type, price, qty)
<1>1. /\ incoming = NoSlot /\ levels' = levels /\ orderMap' = orderMap
      /\ \E s \in Slots : slab[s] = NoOrder /\ processOrder(s, o, orderMap)
  BY Zenon DEF AddOrder
<1>2. PICK s \in Slots : slab[s] = NoOrder /\ processOrder(s, o, orderMap)
  BY <1>1, ZenonT(60)
<1>3. o \in Order /\ o.filledQty = 0
  BY BoundsAssumption, SMTT(30) DEF NewOrder, Order
<1> HIDE DEF o
<1>4. slab \in Slab
  BY IInvTypes, Zenon
<1>5. CASE containsOrder(orderMap, o.orderId)
  <2>1. slab' = [slab EXCEPT ![s] = NoOrder] /\ incoming' = NoSlot /\ m_fills' = <<>> /\ drained' = m_fills
    BY <1>2, <1>5, ZenonT(30) DEF processOrder, drainFillsInto
  <2>2. slab' = slab
    BY <1>2, <1>4, <2>1, ZenonT(30) DEF Slab
  <2> QED
    BY <1>1, <2>1, <2>2, ZenonT(30)
<1>6. CASE ~containsOrder(orderMap, o.orderId)
  <2>1. slab' = [slab EXCEPT ![s] = o] /\ incoming' = s /\ m_fills' = m_fills /\ drained' = drained
    BY <1>2, <1>6, ZenonT(30) DEF processOrder
  <2> QED
    BY <1>1, <1>2, <1>3, <2>1, ZenonT(30)
<1> QED
  BY <1>5, <1>6, ZenonT(30)

\* The resting order that a CANCEL or a MODIFY takes out of the book.
LEMMA KnownOrder ==
  ASSUME IInv, NEW id \in Ids, orderMap[id] # NoSlot
  PROVE  LET s == orderMap[id]
         IN /\ s \in Slots /\ slab[s] \in Order /\ slab[s].price \in Prices
            /\ slab[s].side \in Sides
            /\ s \in OrdersAt(levels, slab[s].side, slab[s].price)
<1>1. /\ orderMap[id] \in Slots /\ slab[orderMap[id]] \in Order
      /\ slab[orderMap[id]].price \in Prices
  BY MappedOrder, Zenon
<1>2. IdMapSound(slab, levels, orderMap)
  BY IInvTypes, Zenon
<1> QED
  BY <1>1, <1>2, ZenonT(30) DEF IdMapSound, Order

\* What a CANCEL does.
LEMMA CancelShape ==
  ASSUME IInv, NEW id \in Ids, CancelOrder(id)
  PROVE  /\ incoming = NoSlot /\ incoming' = NoSlot /\ m_fills' = <<>> /\ drained' = m_fills
         /\ orderMap[id] = NoSlot => slab' = slab /\ levels' = levels
         /\ orderMap[id] # NoSlot =>
              /\ levels' = book_removeOrder(levels, orderMap[id], slab[orderMap[id]])
              /\ slab' = [slab EXCEPT ![orderMap[id]] = NoOrder]
  BY Zenon DEF CancelOrder, containsOrder, drainFillsInto

\* What a MODIFY does: a known order leaves its level and enters the match
\* loop, unfilled, in its own slot.
LEMMA ModifyShape ==
  ASSUME IInv, NEW id \in Ids, NEW newPrice \in Prices, NEW newQty \in Qtys,
         ModifyOrder(id, newPrice, newQty)
  PROVE  /\ incoming = NoSlot
         /\ orderMap[id] = NoSlot =>
              slab' = slab /\ levels' = levels /\ incoming' = NoSlot /\ m_fills' = <<>>
         /\ orderMap[id] # NoSlot =>
              /\ levels' = book_removeOrder(levels, orderMap[id], slab[orderMap[id]])
              /\ \E o \in Order : o.filledQty = 0 /\ slab' = [slab EXCEPT ![orderMap[id]] = o]
              /\ incoming' = orderMap[id] /\ m_fills' = m_fills
<1>1. CASE orderMap[id] = NoSlot
  BY <1>1, ZenonT(60) DEF ModifyOrder, containsOrder, drainFillsInto
<1>2. CASE orderMap[id] # NoSlot
  <2> DEFINE s == orderMap[id]
             old == slab[s]
             om == [orderMap EXCEPT ![id] = NoSlot]
             o == [old EXCEPT !.price = newPrice, !.qty = newQty,
                              !.filledQty = 0, !.type = "LIMIT"]
  <2>1. incoming = NoSlot /\ levels' = book_removeOrder(levels, s, slab[s]) /\ processOrder(s, o, om)
    BY <1>2, Zenon DEF ModifyOrder, containsOrder
  <2>2. old \in Order /\ old.orderId = id
    BY <1>2, MappedOrder, ZenonT(30)
  <2>3. o \in Order /\ o.filledQty = 0 /\ o.orderId = id
    <3> HIDE DEF old
    <3>1. newPrice \in 0 .. MaxPrice /\ 0 \in 0 .. MaxQty /\ "LIMIT" \in OrderTypes
      BY BoundsAssumption DEF Prices, OrderTypes
    <3>2. o \in Order
      BY <2>2, <3>1, ZenonT(60) DEF Order
    <3> QED
      BY <2>2, <3>2, ZenonT(30) DEF Order
  <2>4. om[id] = NoSlot
    BY IInvTypes, Zenon DEF IdMap
  <2> HIDE DEF o, om
  <2>5. slab' = [slab EXCEPT ![s] = o] /\ incoming' = s /\ m_fills' = m_fills
    BY <2>1, <2>3, <2>4, ZenonT(30) DEF processOrder, containsOrder
  <2> QED
    BY <1>2, <2>1, <2>3, <2>5, ZenonT(30)
<1> QED
  BY <1>1, <1>2, ZenonT(30)

\* The names of one turn of the match loop: the order in the loop, the side,
\* price and slot of the order it trades with, the quantity, both orders, the
\* slab and the book after executeTrade.
taker == slab[incoming]
makerSide == Opposite(taker.side)
tradePrice == bestOpposite(taker.side)
maker == front(levels[makerSide][tradePrice])
tradeQty == matchQty(taker, slab[maker])
takerAfter == [taker EXCEPT !.filledQty = taker.filledQty + tradeQty]
makerAfter == [slab[maker] EXCEPT !.filledQty = slab[maker].filledQty + tradeQty]
tradedSlab == [slab EXCEPT ![incoming] = takerAfter, ![maker] = makerAfter]
tradedBook == DecreasedAt(levels, makerSide, tradePrice, tradeQty)

\* What one turn of the match loop does.
LEMMA MatchShape ==
  ASSUME IInv, MatchStep
  PROVE  /\ incoming \in Slots /\ incoming # NoSlot /\ incoming' = incoming /\ drained' = drained
         /\ m_fills' = Append(m_fills, FillOf(taker, makerAfter, tradePrice, tradeQty))
         /\ IF isFilled(makerAfter)
            THEN /\ levels' = book_removeOrder(tradedBook, maker, makerAfter)
                 /\ slab' = [tradedSlab EXCEPT ![maker] = NoOrder]
            ELSE /\ levels' = tradedBook
                 /\ slab' = tradedSlab
<1> DEFINE o == slab[incoming]
           opp == Opposite(o.side)
           p == bestOpposite(o.side)
           r == front(levels[opp][p])
           q == matchQty(o, slab[r])
           y1 == [slab[r] EXCEPT !.filledQty = @ + q]
           traded == [slab EXCEPT ![incoming].filledQty = @ + q, ![r] = y1]
           dec == [levels EXCEPT ![opp][p] = decreaseTotalQty(@, q)]
<1>1. incoming # NoSlot /\ UNCHANGED <<incoming, drained>>
  BY Zenon DEF MatchStep
<1>2. /\ m_fills' = Append(m_fills, FillOf(o, y1, p, q))
      /\ IF isFilled(y1)
         THEN levels' = book_removeOrder(dec, r, y1) /\ slab' = [traded EXCEPT ![r] = NoOrder]
         ELSE levels' = dec /\ slab' = traded
  BY Zenon DEF MatchStep
<1>3. incoming \in Slots /\ slab \in Slab
  BY <1>1, IncomingOrder, IInvTypes, ZenonT(30)
<1>4. o = taker /\ p = tradePrice /\ r = maker /\ q = tradeQty
  BY Zenon DEF taker, makerSide, tradePrice, maker, tradeQty
<1>5. dec = tradedBook
  BY Zenon DEF taker, makerSide, tradePrice, maker, tradeQty, tradedBook, DecreasedAt
<1> HIDE DEF p, q, r, dec
<1>6. y1 = makerAfter
  BY <1>4, Zenon DEF makerAfter
<1> HIDE DEF y1
<1>7. traded = tradedSlab
  BY <1>3, <1>4, <1>6, ZenonT(30) DEF Slab, tradedSlab, takerAfter, taker
<1> HIDE DEF o, traded
<1> QED
  BY <1>1, <1>2, <1>3, <1>4, <1>5, <1>6, <1>7, ZenonT(30)

\* The names of the turn, when it is taken.
LEMMA TradeFacts ==
  ASSUME IInv, MatchStep
  PROVE  /\ taker \in Order /\ slab[incoming] = taker
         /\ makerSide \in Sides /\ tradePrice \in Prices /\ tradePrice \in Present(levels, makerSide)
         /\ crosses(taker, tradePrice)
         /\ maker \in Slots /\ maker # incoming /\ maker # NoSlot
         /\ maker \in OrdersAt(levels, makerSide, tradePrice)
         /\ maker = front(levels[makerSide][tradePrice])
         /\ slab[maker] \in Order
         /\ slab[maker].side = makerSide /\ slab[maker].price = tradePrice
         /\ orderMap[slab[maker].orderId] = maker
         /\ tradeQty \in Nat /\ tradeQty > 0
         /\ taker.filledQty + tradeQty <= taker.qty
         /\ slab[maker].filledQty + tradeQty <= slab[maker].qty
<1>1. incoming # NoSlot /\ LoopContinues
  BY Zenon DEF MatchStep
<1> QED
  BY <1>1, MatchFacts, Zenon DEF taker, makerSide, tradePrice, maker, tradeQty

\* Both orders and the slab after the trade.
LEMMA TradedOrders ==
  ASSUME IInv, MatchStep
  PROVE  /\ takerAfter \in Order /\ makerAfter \in Order /\ tradedSlab \in Slab
         /\ takerAfter.filledQty = taker.filledQty + tradeQty /\ takerAfter.qty = taker.qty
         /\ makerAfter.filledQty = slab[maker].filledQty + tradeQty
         /\ makerAfter.qty = slab[maker].qty
         /\ makerAfter.orderId = slab[maker].orderId
         /\ makerAfter.side = makerSide /\ makerAfter.price = tradePrice
         /\ remainingQty(makerAfter) = remainingQty(slab[maker]) - tradeQty
         /\ tradeQty <= remainingQty(slab[maker])
         /\ \A x \in Slots : tradedSlab[x] = IF x = incoming THEN takerAfter
                                             ELSE IF x = maker THEN makerAfter ELSE slab[x]
<1> DEFINE y == slab[maker]
<1>1. /\ taker \in Order /\ y \in Order /\ y.side = makerSide /\ y.price = tradePrice
      /\ maker \in Slots /\ maker # incoming
      /\ tradeQty \in Nat /\ taker.filledQty + tradeQty <= taker.qty
      /\ y.filledQty + tradeQty <= y.qty
  BY TradeFacts, Zenon
<1>2. incoming \in Slots /\ slab \in Slab
  BY MatchShape, IInvTypes, ZenonT(30)
<1> HIDE DEF y
<1>3. y.filledQty + tradeQty \in 0 .. MaxQty /\ taker.filledQty + tradeQty \in 0 .. MaxQty
  BY <1>1, BoundsAssumption, SMTT(30) DEF Order, Qtys
<1>4. makerAfter = [y EXCEPT !.filledQty = y.filledQty + tradeQty]
  BY Zenon DEF makerAfter, y
<1>5. /\ makerAfter \in Order
      /\ makerAfter.filledQty = y.filledQty + tradeQty /\ makerAfter.qty = y.qty
      /\ makerAfter.orderId = y.orderId /\ makerAfter.side = y.side /\ makerAfter.price = y.price
  BY <1>1, <1>3, <1>4, ZenonT(30) DEF Order
<1>6. /\ takerAfter \in Order
      /\ takerAfter.filledQty = taker.filledQty + tradeQty /\ takerAfter.qty = taker.qty
  BY <1>1, <1>3, ZenonT(60) DEF Order, takerAfter
<1>7. /\ remainingQty(makerAfter) = remainingQty(y) - tradeQty
      /\ tradeQty <= remainingQty(y)
  <2>1. y.filledQty \in Nat /\ y.qty \in Nat
    BY <1>1, BoundsAssumption, SMTT(30) DEF Order, Qtys
  <2> QED
    BY <1>1, <1>5, <2>1, SMTT(30) DEF remainingQty
<1>8. /\ tradedSlab \in Slab
      /\ \A x \in Slots : tradedSlab[x] = IF x = incoming THEN takerAfter
                                          ELSE IF x = maker THEN makerAfter ELSE slab[x]
  BY <1>1, <1>2, <1>5, <1>6, ZenonT(30) DEF Slab, tradedSlab
<1> QED
  BY <1>1, <1>5, <1>6, <1>7, <1>8, ZenonT(30) DEF y

-----------------------------------------------------------------------------
(* Level totals *)

\* What leaving the match loop does: the order rests or gives its slot back.
LEMMA FinishShape ==
  ASSUME IInv, FinishMatch
  PROVE  /\ incoming \in Slots /\ taker \in Order /\ slab[incoming] = taker
         /\ incoming' = NoSlot /\ m_fills' = <<>> /\ drained' = m_fills
         /\ IF Rests(taker)
            THEN /\ levels' = book_addOrder(levels, incoming, taker) /\ slab' = slab
                 /\ taker.price \in Prices
            ELSE slab' = [slab EXCEPT ![incoming] = NoOrder] /\ levels' = levels
<1>1. incoming # NoSlot /\ Settle
  BY Zenon DEF FinishMatch
<1>2. incoming \in Slots /\ taker \in Order /\ slab[incoming] = taker
      /\ (taker.type # "MARKET" => taker.price \in Prices)
  BY <1>1, IncomingOrder, ZenonT(30) DEF taker
<1>3. incoming' = NoSlot /\ m_fills' = <<>> /\ drained' = m_fills
  BY <1>1, ZenonT(60) DEF Settle, drainFillsInto
<1>4. Rests(taker) => taker.type # "MARKET"
  BY Zenon DEF Rests
<1>5. IF Rests(taker)
      THEN levels' = book_addOrder(levels, incoming, taker) /\ slab' = slab
      ELSE slab' = [slab EXCEPT ![incoming] = NoOrder] /\ levels' = levels
  BY <1>1, Zenon DEF Settle, taker
<1> QED
  BY <1>1, <1>2, <1>3, <1>4, <1>5, ZenonT(60)

\* Neither a free slot nor the order in the match loop is on a level.
LEMMA NotResting ==
  ASSUME IInv, NEW side \in Sides, NEW p \in Prices, NEW x \in OrdersAt(levels, side, p)
  PROVE  /\ x \in Slots /\ x # incoming /\ slab[x] \in Order
         /\ slab[x].side = side /\ slab[x].price = p
<1>1. /\ levels \in Levels /\ LevelsSound(slab, levels, orderMap)
  BY IInvTypes, ZenonT(30)
<1>2. x \in Slots
  BY <1>1, OrdersAtSlots, ZenonT(30)
<1>3. /\ slab[x] # NoOrder /\ slab[x].side = side /\ slab[x].price = p
      /\ orderMap[slab[x].orderId] = x
  BY <1>1, SMTT(30) DEF LevelsSound
<1>4. slab[x] \in Order
  BY <1>2, <1>3, IInvTypes, ZenonT(30)
<1>5. x # incoming
  BY <1>2, <1>3, IncomingOrder, NullAssumption, ZenonT(30)
<1> QED
  BY <1>2, <1>3, <1>4, <1>5, ZenonT(30)

\* What the book says of its levels and orders.
LEMMA BookFacts ==
  ASSUME IInv
  PROVE  levels \in Levels /\ slab \in Slab /\ QueuesOK(levels) /\ Apart(levels)
<1>1. LevelsSound(slab, levels, orderMap)
  BY IInvTypes, ZenonT(60)
<1> QED
  BY <1>1, LevelsApart, IInvTypes, ZenonT(30)

\* Totals are initially those of no level and kept by every step.
LEMMA TotalsInit == Init => Totals(levels, slab)
  BY DEF Init, Totals

\* The totals after an ADD, a CANCEL and a MODIFY.
LEMMA TotalsMessage ==
  ASSUME IInv, Totals(levels, slab),
         \/ \E id \in Ids, side \in Sides, type \in OrderTypes,
               price \in 0 .. MaxPrice, qty \in Qtys : AddOrder(id, side, type, price, qty)
         \/ \E id \in Ids : CancelOrder(id)
         \/ \E id \in Ids, price \in Prices, qty \in Qtys : ModifyOrder(id, price, qty)
  PROVE  Totals(levels', slab')
<1>1. levels \in Levels /\ slab \in Slab /\ QueuesOK(levels) /\ Apart(levels)
  BY BookFacts, Zenon
<1>2. ASSUME NEW s \in Slots, NEW c, slab[s] = NoOrder, slab' = [slab EXCEPT ![s] = c], levels' = levels
      PROVE  Totals(levels', slab')
  <2>1. \A side \in Sides, p \in Prices : \A x \in OrdersAt(levels, side, p) : slab'[x] = slab[x]
    <3> SUFFICES ASSUME NEW side \in Sides, NEW p \in Prices, NEW x \in OrdersAt(levels, side, p)
                 PROVE  slab'[x] = slab[x]
      BY Zenon
    <3>1. x \in Slots /\ x # s
      BY <1>2, NotResting, NullAssumption, ZenonT(60)
    <3> QED
      BY <1>1, <1>2, <3>1, ZenonT(30) DEF Slab
  <2>2. Totals(levels, slab')
    BY <1>1, <2>1, TotalsSame, ZenonT(30)
  <2> QED
    BY <1>2, <2>2, ZenonT(30)
<1>3. ASSUME NEW id \in Ids, orderMap[id] # NoSlot, NEW c,
             levels' = book_removeOrder(levels, orderMap[id], slab[orderMap[id]]),
             slab' = [slab EXCEPT ![orderMap[id]] = c]
      PROVE  Totals(levels', slab')
  <2> DEFINE s == orderMap[id]
             o == slab[s]
  <2>1. s \in Slots /\ o \in Order /\ o.price \in Prices /\ s \in OrdersAt(levels, o.side, o.price)
    BY <1>3, KnownOrder, ZenonT(30)
  <2>2. remainingQty(o) = remainingQty(slab[s])
    BY Zenon
  <2>3. OthersSame(levels, slab, slab', s)
    <3> SUFFICES ASSUME NEW side \in Sides, NEW p \in Prices, NEW x \in OrdersAt(levels, side, p), x # s
                 PROVE  slab'[x] = slab[x]
      BY Zenon DEF OthersSame
    <3>1. x \in Slots
      BY NotResting, ZenonT(60)
    <3> QED
      BY <1>1, <1>3, <3>1, ZenonT(30) DEF Slab
  <2>4. levels' = book_removeOrder(levels, s, o)
    BY <1>3, Zenon
  <2> HIDE DEF s, o
  <2> QED
    BY <1>1, <2>1, <2>2, <2>3, <2>4, TotalsRemove, ZenonT(30)
<1>4. ASSUME NEW id \in Ids, NEW side \in Sides, NEW type \in OrderTypes,
             NEW price \in 0 .. MaxPrice, NEW qty \in Qtys,
             AddOrder(id, side, type, price, qty)
      PROVE  Totals(levels', slab')
  <2>1. CASE slab' = slab
    BY <1>4, <2>1, AddShape, ZenonT(30)
  <2>2. CASE \E s \in Slots, o \in Order : slab[s] = NoOrder /\ slab' = [slab EXCEPT ![s] = o]
    <3>1. PICK s \in Slots, o \in Order : slab[s] = NoOrder /\ slab' = [slab EXCEPT ![s] = o]
      BY <2>2, ZenonT(60)
    <3>2. levels' = levels
      BY <1>4, AddShape, ZenonT(30)
    <3> QED
      BY <1>2, <3>1, <3>2, ZenonT(30)
  <2> QED
    BY <1>4, <2>1, <2>2, AddShape, ZenonT(30)
<1>5. ASSUME NEW id \in Ids, CancelOrder(id)
      PROVE  Totals(levels', slab')
  <2>1. CASE orderMap[id] = NoSlot
    BY <1>5, <2>1, CancelShape, ZenonT(30)
  <2>2. CASE orderMap[id] # NoSlot
    BY <1>3, <1>5, <2>2, CancelShape, ZenonT(30)
  <2> QED
    BY <2>1, <2>2, ZenonT(30)
<1>6. ASSUME NEW id \in Ids, NEW newPrice \in Prices, NEW newQty \in Qtys,
             ModifyOrder(id, newPrice, newQty)
      PROVE  Totals(levels', slab')
  <2>1. CASE orderMap[id] = NoSlot
    BY <1>6, <2>1, ModifyShape, ZenonT(30)
  <2>2. CASE orderMap[id] # NoSlot
    <3>1. PICK o \in Order : slab' = [slab EXCEPT ![orderMap[id]] = o]
      BY <1>6, <2>2, ModifyShape, ZenonT(30)
    <3>2. levels' = book_removeOrder(levels, orderMap[id], slab[orderMap[id]])
      BY <1>6, <2>2, ModifyShape, ZenonT(30)
    <3> QED
      BY <1>3, <2>2, <3>1, <3>2, ZenonT(30)
  <2> QED
    BY <2>1, <2>2, ZenonT(30)
<1> QED
  BY <1>4, <1>5, <1>6, ZenonT(30)

\* The totals after one turn of the match loop (executeTrade, and the removal
\* of a filled order).
LEMMA TotalsMatch ==
  ASSUME IInv, Totals(levels, slab), MatchStep
  PROVE  Totals(levels', slab')
<1>1. levels \in Levels /\ slab \in Slab /\ QueuesOK(levels) /\ Apart(levels)
  BY BookFacts, ZenonT(60)
<1>2. /\ makerSide \in Sides /\ tradePrice \in Prices /\ tradePrice \in Present(levels, makerSide)
      /\ maker \in Slots /\ maker # incoming
      /\ maker \in OrdersAt(levels, makerSide, tradePrice)
      /\ tradeQty \in Nat
  BY TradeFacts, ZenonT(60)
<1>3. /\ makerAfter \in Order /\ tradedSlab \in Slab
      /\ makerAfter.side = makerSide /\ makerAfter.price = tradePrice
      /\ remainingQty(makerAfter) = remainingQty(slab[maker]) - tradeQty
      /\ tradeQty <= remainingQty(slab[maker])
      /\ \A x \in Slots : tradedSlab[x] = IF x = incoming THEN takerAfter
                                          ELSE IF x = maker THEN makerAfter ELSE slab[x]
  BY TradedOrders, ZenonT(60)
<1>4. ASSUME NEW side \in Sides, NEW p \in Prices, NEW x \in OrdersAt(levels, side, p)
      PROVE  /\ x \in Slots /\ slab[x] \in Order
             /\ x # maker => tradedSlab[x] = slab[x]
  <2>1. x \in Slots /\ x # incoming /\ slab[x] \in Order
    BY NotResting, SMTT(30)
  <2> QED
    BY <1>3, <2>1, ZenonT(30)
<1>5. tradedSlab[maker] = makerAfter
  BY <1>2, <1>3, ZenonT(30)
<1>6. Totals(tradedBook, tradedSlab)
  <2>1. \A x \in OrdersAt(levels, makerSide, tradePrice) : slab[x] \in Order
    BY <1>2, <1>4, ZenonT(30)
  <2>2. \A side \in Sides, p \in Prices : \A x \in OrdersAt(levels, side, p) :
          x # maker => tradedSlab[x] = slab[x]
    BY <1>4, ZenonT(30)
  <2>3. remainingQty(tradedSlab[maker]) = remainingQty(slab[maker]) - tradeQty
    BY <1>3, <1>5, ZenonT(30)
  <2>4. tradedBook = DecreasedAt(levels, makerSide, tradePrice, tradeQty)
    BY Zenon DEF tradedBook
  <2> QED
    BY <1>1, <1>2, <1>3, <2>1, <2>2, <2>3, <2>4, TotalsDecrease, ZenonT(30)
<1>7. CASE ~isFilled(makerAfter)
  <2>1. levels' = tradedBook /\ slab' = tradedSlab
    BY <1>7, MatchShape, ZenonT(30)
  <2> QED
    BY <1>6, <2>1, ZenonT(30)
<1>8. CASE isFilled(makerAfter)
  <2>1. levels' = book_removeOrder(tradedBook, maker, makerAfter)
        /\ slab' = [tradedSlab EXCEPT ![maker] = NoOrder]
    BY <1>8, MatchShape, ZenonT(30)
  <2>2. /\ tradedBook \in Levels /\ QueuesOK(tradedBook)
        /\ \A side \in Sides, p \in Prices : OrdersAt(tradedBook, side, p) = OrdersAt(levels, side, p)
    <3>1. tradedBook = DecreasedAt(levels, makerSide, tradePrice, tradeQty)
      BY Zenon DEF tradedBook
    <3> QED
      BY <1>1, <1>2, <3>1, BookDecrease
  <2>3. Apart(tradedBook)
    BY <1>1, <2>2 DEF Apart
  <2>4. maker \in OrdersAt(tradedBook, makerAfter.side, makerAfter.price) /\ makerAfter.price \in Prices
    BY <1>2, <1>3, <2>2, ZenonT(30)
  <2>5. OthersSame(tradedBook, tradedSlab, slab', maker)
    <3> SUFFICES ASSUME NEW side \in Sides, NEW p \in Prices,
                        NEW x \in OrdersAt(tradedBook, side, p), x # maker
                 PROVE  slab'[x] = tradedSlab[x]
      BY Zenon DEF OthersSame
    <3>1. x \in Slots
      BY <1>4, <2>2, ZenonT(30)
    <3> QED
      BY <1>3, <2>1, <3>1, ZenonT(30) DEF Slab
  <2>6. remainingQty(makerAfter) = remainingQty(tradedSlab[maker])
    BY <1>5, ZenonT(60)
  <2> QED
    BY <1>3, <1>6, <2>1, <2>2, <2>3, <2>4, <2>5, <2>6, TotalsRemove, ZenonT(60)
<1> QED
  BY <1>7, <1>8, ZenonT(30)

\* The totals after the match loop.
LEMMA TotalsFinish ==
  ASSUME IInv, Totals(levels, slab), FinishMatch
  PROVE  Totals(levels', slab')
<1>1. levels \in Levels /\ slab \in Slab
  BY BookFacts, ZenonT(60)
<1>2. incoming \in Slots /\ taker \in Order /\ slab[incoming] = taker
  BY FinishShape, Zenon
<1>3. CASE Rests(taker)
  <2>1. /\ levels' = book_addOrder(levels, incoming, slab[incoming]) /\ slab' = slab
        /\ slab[incoming].price \in Prices /\ slab[incoming] \in Order
    BY <1>2, <1>3, FinishShape, ZenonT(30)
  <2>2. Totals(levels', slab)
    BY <1>1, <1>2, <2>1, TotalsAdd, ZenonT(30)
  <2> QED
    BY <2>1, <2>2, ZenonT(30)
<1>4. CASE ~Rests(taker)
  <2>1. slab' = [slab EXCEPT ![incoming] = NoOrder] /\ levels' = levels
    BY <1>4, FinishShape, ZenonT(30)
  <2>2. \A side \in Sides, p \in Prices : \A x \in OrdersAt(levels, side, p) : slab'[x] = slab[x]
    <3> SUFFICES ASSUME NEW side \in Sides, NEW p \in Prices, NEW x \in OrdersAt(levels, side, p)
                 PROVE  slab'[x] = slab[x]
      BY Zenon
    <3>1. x \in Slots /\ x # incoming
      BY NotResting, ZenonT(60)
    <3> QED
      BY <1>1, <2>1, <3>1, ZenonT(30) DEF Slab
  <2>3. Totals(levels, slab')
    BY <1>1, <2>2, TotalsSame, ZenonT(30)
  <2> QED
    BY <2>1, <2>3, ZenonT(30)
<1> QED
  BY <1>3, <1>4, ZenonT(30)

-----------------------------------------------------------------------------
\* The quantities of a sequence of fills.
FillQtys(fills) == [i \in 1 .. Len(fills) |-> fills[i].qty]

\* FillsAccountForIncoming, with the sum as a chain of partial sums.
FillsSum ==
  /\ \A i \in 1 .. Len(m_fills) : m_fills[i].qty > 0
  /\ incoming = NoSlot => m_fills = <<>>
  /\ incoming # NoSlot => IsSum(FillQtys(m_fills), Len(m_fills), slab[incoming].filledQty)

\* Every step keeps the account of the fills.
LEMMA FillsSumStep ==
  ASSUME IInv, FillsSum, Next
  PROVE  FillsSum'
<1>1. ASSUME incoming' = NoSlot, m_fills' = <<>> PROVE FillsSum'
  BY <1>1 DEF FillsSum
<1>2. ASSUME incoming = NoSlot, NEW s \in Slots, NEW o \in Order, o.filledQty = 0,
             slab' = [slab EXCEPT ![s] = o], incoming' = s, m_fills' = m_fills
      PROVE  FillsSum'
  <2>1. m_fills' = <<>> /\ slab'[s].filledQty = 0
    BY <1>2, IInvTypes, ZenonT(30) DEF FillsSum, Slab
  <2>2. IsSum(FillQtys(<<>>), 0, 0) /\ Len(<<>>) = 0
    BY SumEmpty, Zenon
  <2>3. s # NoSlot
    BY NullAssumption, Zenon
  <2> QED
    BY <1>2, <2>1, <2>2, <2>3, ZenonT(30) DEF FillsSum
<1>3. ASSUME NEW id \in Ids, NEW side \in Sides, NEW type \in OrderTypes,
             NEW price \in 0 .. MaxPrice, NEW qty \in Qtys,
             AddOrder(id, side, type, price, qty)
      PROVE  FillsSum'
  BY <1>1, <1>2, <1>3, AddShape, ZenonT(30)
<1>4. ASSUME NEW id \in Ids, CancelOrder(id)
      PROVE  FillsSum'
  BY <1>1, <1>4, CancelShape, ZenonT(30)
<1>5. ASSUME NEW id \in Ids, NEW newPrice \in Prices, NEW newQty \in Qtys,
             ModifyOrder(id, newPrice, newQty)
      PROVE  FillsSum'
  <2>1. CASE orderMap[id] = NoSlot
    BY <1>1, <1>5, <2>1, ModifyShape, ZenonT(30)
  <2>2. CASE orderMap[id] # NoSlot
    <3>1. PICK o \in Order : o.filledQty = 0 /\ slab' = [slab EXCEPT ![orderMap[id]] = o]
      BY <1>5, <2>2, ModifyShape, ZenonT(30)
    <3>2. incoming = NoSlot /\ incoming' = orderMap[id] /\ m_fills' = m_fills
      BY <1>5, <2>2, ModifyShape, ZenonT(30)
    <3>3. orderMap[id] \in Slots
      BY <2>2, KnownOrder, ZenonT(30)
    <3> QED
      BY <1>2, <3>1, <3>2, <3>3, ZenonT(30)
  <2> QED
    BY <2>1, <2>2, ZenonT(30)
<1>6. ASSUME DropAdd PROVE FillsSum'
  BY <1>6, Zenon DEF DropAdd, vars, FillsSum
<1>7. ASSUME FinishMatch PROVE FillsSum'
  BY <1>1, <1>7, FinishShape, ZenonT(30)
<1>8. ASSUME MatchStep PROVE FillsSum'
  <2> DEFINE n == Len(m_fills)
             f == FillOf(taker, makerAfter, tradePrice, tradeQty)
             w == FillQtys(m_fills)
             v == FillQtys(m_fills')
  <2>1. /\ incoming \in Slots /\ incoming # NoSlot /\ incoming' = incoming
        /\ m_fills' = Append(m_fills, f)
        /\ slab' = tradedSlab \/ slab' = [tradedSlab EXCEPT ![maker] = NoOrder]
    BY <1>8, MatchShape, ZenonT(30)
  <2>2. tradeQty \in Nat /\ tradeQty > 0 /\ maker # incoming /\ taker \in Order
        /\ slab[incoming] = taker /\ maker \in Slots
    BY <1>8, TradeFacts, ZenonT(30)
  <2>3. /\ tradedSlab \in Slab
        /\ takerAfter.filledQty = taker.filledQty + tradeQty
        /\ tradedSlab[incoming] = takerAfter
    BY <1>8, <2>1, TradedOrders, ZenonT(30)
  <2>4. slab'[incoming].filledQty = taker.filledQty + tradeQty
    BY <2>1, <2>2, <2>3, ZenonT(30) DEF Slab
  <2>5. f.qty = tradeQty
    BY Zenon DEF FillOf
  <2>6. m_fills \in Seq(Fill) /\ n \in Nat
    BY IInvTypes, SMTT(30)
  <2> HIDE DEF f
  <2>7. Len(m_fills') = n + 1 /\ m_fills'[n + 1] = f /\ \A i \in 1 .. n : m_fills'[i] = m_fills[i]
    BY <2>1, <2>6, SMTT(30)
  <2>8. v[n + 1] = tradeQty /\ \A i \in 1 .. n : v[i] = w[i]
    BY <2>5, <2>6, <2>7, SMTT(30) DEF FillQtys
  <2>9. IsSum(w, n, taker.filledQty)
    BY <2>1, <2>2, ZenonT(30) DEF FillsSum
  <2>10. taker.filledQty \in Int /\ tradeQty \in Int
    BY <2>2, BoundsAssumption, SMTT(30) DEF Order
  <2>11. \A i \in 1 .. Len(m_fills') : m_fills'[i].qty > 0
    <3> SUFFICES ASSUME NEW i \in 1 .. n + 1 PROVE m_fills'[i].qty > 0
      BY <2>7, Zenon
    <3>1. CASE i = n + 1
      BY <2>2, <2>5, <2>7, <3>1, ZenonT(30)
    <3>2. CASE i \in 1 .. n
      BY <2>7, <3>2, ZenonT(30) DEF FillsSum
    <3> QED
      BY <2>6, <3>1, <3>2, SMTT(30)
  <2> HIDE DEF w, v, n
  <2>12. IsSum(v, n + 1, taker.filledQty + v[n + 1])
    BY <2>6, <2>8, <2>9, <2>10, SumAppend, ZenonT(30)
  <2> QED
    BY <2>1, <2>4, <2>7, <2>8, <2>11, <2>12, ZenonT(30) DEF FillsSum, v
<1> QED
  BY <1>3, <1>4, <1>5, <1>6, <1>7, <1>8, ZenonT(30) DEF Next

-----------------------------------------------------------------------------
BookInv == IInv /\ Totals(levels, slab) /\ FillsSum

\* The totals and the account of the fills are invariants of the engine.
LEMMA AlwaysBookInv == Spec => []BookInv
<1>1. Init => BookInv
  <2>1. Init => Totals(levels, slab)
    BY TotalsInit, ZenonT(60)
  <2>2. Init => FillsSum
    BY DEF Init, FillsSum
  <2> QED
    BY <2>1, <2>2, InitIInv, ZenonT(30) DEF BookInv
<1>2. BookInv /\ [Next]_vars => BookInv'
  <2> SUFFICES ASSUME IInv, Totals(levels, slab), FillsSum, [Next]_vars
               PROVE  IInv' /\ Totals(levels', slab') /\ FillsSum'
    BY Zenon DEF BookInv
  <2>1. IInv'
    BY NextIInv, ZenonT(60)
  <2>2. CASE UNCHANGED vars
    BY <2>1, <2>2, ZenonT(30) DEF vars, FillsSum
  <2>3. CASE Next
    <3>1. Totals(levels', slab')
      <4>1. CASE DropAdd
        BY <4>1, ZenonT(60) DEF DropAdd, vars
      <4>2. CASE MatchStep
        BY <4>2, TotalsMatch, ZenonT(30)
      <4>3. CASE FinishMatch
        BY <4>3, TotalsFinish, ZenonT(60)
      <4> QED
        BY <2>3, <4>1, <4>2, <4>3, TotalsMessage, ZenonT(30) DEF Next
    <3> QED
      BY <2>1, <2>3, <3>1, FillsSumStep, ZenonT(30)
  <2> QED
    BY <2>2, <2>3, ZenonT(30)
<1> QED
  BY <1>1, <1>2, PTL DEF Spec

\* LevelTotals, for every set of orders and every sequence of messages.
THEOREM TotalsExact == Spec => []LevelTotals
<1>1. BookInv => LevelTotals
  <2> SUFFICES ASSUME IInv, Totals(levels, slab),
                      NEW side \in Sides, NEW p \in Prices, levels[side][p] # NoLevel
               PROVE  LET lv == levels[side][p]
                      IN /\ lv.orderCount = Len(lv.queue)
                         /\ lv.totalQty = SumTo([i \in 1 .. Len(lv.queue) |->
                                                   remainingQty(slab[lv.queue[i]])], Len(lv.queue))
    BY Zenon DEF BookInv, LevelTotals
  <2> DEFINE lv == levels[side][p]
             n == Len(lv.queue)
             w == Remainders(lv.queue, slab)
  <2>1. n \in Nat /\ lv.totalQty \in Int
    BY BookFacts, OrdersOnLevel, SMTT(30) DEF Level
  <2>2. lv.orderCount = n /\ IsSum(w, n, lv.totalQty)
    BY Zenon DEF Totals, TotalOf
  <2>3. SumTo(w, n) = lv.totalQty
    BY <2>1, <2>2, SumOf, ZenonT(30)
  <2> QED
    BY <2>2, <2>3, ZenonT(60) DEF Remainders
<1> QED
  BY <1>1, AlwaysBookInv, PTL

\* FillsAccountForIncoming.
THEOREM FillsExact == Spec => []FillsAccountForIncoming
<1>1. BookInv => FillsAccountForIncoming
  <2> SUFFICES ASSUME IInv, FillsSum PROVE FillsAccountForIncoming
    BY Zenon DEF BookInv
  <2>1. m_fills \in Seq(Fill) /\ Len(m_fills) \in Nat
    BY IInvTypes
  <2>2. \A i \in DOMAIN m_fills : m_fills[i].qty > 0
    BY <2>1 DEF FillsSum
  <2>3. CASE incoming = NoSlot
    BY <2>2, <2>3, ZenonT(30) DEF FillsSum, FillsAccountForIncoming
  <2>4. CASE incoming # NoSlot
    <3>1. slab[incoming].filledQty \in Int
      BY <2>4, IncomingOrder, BoundsAssumption, SMTT(30) DEF Order
    <3>2. SumTo(FillQtys(m_fills), Len(m_fills)) = slab[incoming].filledQty
      BY <2>1, <2>4, <3>1, SumOf, ZenonT(30) DEF FillsSum
    <3> QED
      BY <2>2, <2>4, <3>2, ZenonT(30) DEF FillsAccountForIncoming, FillQtys
  <2> QED
    BY <2>3, <2>4, ZenonT(30)
<1> QED
  BY <1>1, AlwaysBookInv, PTL

-----------------------------------------------------------------------------
(* Price priority *)

\* The trade is made at the best price of the other side.
LEMMA BestTrade ==
  ASSUME IInv, MatchStep, NEW p \in Present(levels, makerSide)
  PROVE  IF taker.side = "BUY" THEN tradePrice <= p ELSE tradePrice >= p
<1>1. taker.side \in Sides
  BY TradeFacts, Zenon DEF Order
<1>2. CASE taker.side = "BUY"
  BY <1>2, BestAsk, ZenonT(30) DEF makerSide, tradePrice, Opposite, bestOpposite
<1>3. CASE taker.side = "SELL"
  BY <1>3, BestBid, ZenonT(30) DEF makerSide, tradePrice, Opposite, bestOpposite
<1> QED
  BY <1>1, <1>2, <1>3, ZenonT(30) DEF Sides

\* Only a turn of the match loop adds a fill.
LEMMA FillsGrow ==
  ASSUME IInv, Next, Len(m_fills') > Len(m_fills)
  PROVE  MatchStep
<1>1. Len(m_fills) \in Nat /\ Len(<<>>) = 0
  BY IInvTypes
<1>2. m_fills' # m_fills /\ m_fills' # <<>>
  BY <1>1
<1>3. ASSUME NEW id \in Ids, NEW side \in Sides, NEW type \in OrderTypes,
             NEW price \in 0 .. MaxPrice, NEW qty \in Qtys,
             AddOrder(id, side, type, price, qty)
      PROVE  FALSE
  BY <1>2, <1>3, AddShape, ZenonT(30)
<1>4. ASSUME NEW id \in Ids, CancelOrder(id)
      PROVE  FALSE
  BY <1>2, <1>4, CancelShape, ZenonT(30)
<1>5. ASSUME NEW id \in Ids, NEW newPrice \in Prices, NEW newQty \in Qtys,
             ModifyOrder(id, newPrice, newQty)
      PROVE  FALSE
  BY <1>2, <1>5, ModifyShape, ZenonT(30)
<1>6. ~DropAdd
  BY <1>2, Zenon DEF DropAdd, vars
<1>7. ~FinishMatch
  BY <1>2, FinishShape, ZenonT(30)
<1> QED
  BY <1>3, <1>4, <1>5, <1>6, <1>7, ZenonT(30) DEF Next

\* An order is on the level of its side and price.
LEMMA RestingOrder ==
  ASSUME IInv, NEW s \in Resting
  PROVE  /\ s \in Slots /\ s # incoming /\ slab[s] \in Order
         /\ slab[s].side \in Sides /\ slab[s].price \in Prices
         /\ s \in OrdersAt(levels, slab[s].side, slab[s].price)
         /\ slab[s].price \in Present(levels, slab[s].side)
<1>1. PICK side \in Sides, p \in Prices : s \in OrdersAt(levels, side, p)
  BY DEF Resting
<1>2. /\ s \in Slots /\ s # incoming /\ slab[s] \in Order
      /\ slab[s].side = side /\ slab[s].price = p
  BY <1>1, NotResting, SMTT(30)
<1>3. p \in Present(levels, side)
  BY <1>1, Zenon DEF OrdersAt, Present
<1> QED
  BY <1>1, <1>2, <1>3, ZenonT(30)

\* Price priority, for every book.
THEOREM PricePriority == Spec => TradesAtBestPrice
<1>1. ASSUME IInv, [Next]_vars, Len(m_fills') > Len(m_fills) PROVE TradeAtBestPrice
  <2>1. m_fills \in Seq(Fill) /\ Len(m_fills) \in Nat
    BY <1>1, IInvTypes, SMTT(30)
  <2>2. Next
    BY <1>1, <2>1, SMTT(30) DEF vars
  <2>3. MatchStep
    BY <1>1, <2>2, FillsGrow, ZenonT(30)
  <2> DEFINE f == FillOf(taker, makerAfter, tradePrice, tradeQty)
  <2>4. m_fills' = Append(m_fills, f)
    BY <1>1, <2>3, MatchShape, ZenonT(30)
  <2>5. /\ taker \in Order /\ slab[incoming] = taker /\ crosses(taker, tradePrice)
        /\ slab[maker].price = tradePrice /\ orderMap[slab[maker].orderId] = maker
        /\ taker.side \in Sides /\ makerSide \in Sides
    BY <1>1, <2>3, TradeFacts, ZenonT(30) DEF Order
  <2>6. makerAfter.orderId = slab[maker].orderId
    BY <1>1, <2>3, TradedOrders, ZenonT(30)
  <2>7. /\ f.price = tradePrice
        /\ (IF taker.side = "BUY" THEN f.sellOrderId ELSE f.buyOrderId) = slab[maker].orderId
    BY <2>6, ZenonT(30) DEF FillOf
  <2> HIDE DEF f
  <2>8. m_fills'[Len(m_fills')] = f
    BY <2>1, <2>4, SMTT(30)
  <2>9. ASSUME NEW s \in Resting, slab[s].side # taker.side
        PROVE  IF taker.side = "BUY" THEN tradePrice <= slab[s].price
                                     ELSE tradePrice >= slab[s].price
    <3>1. slab[s].side \in Sides /\ slab[s].price \in Present(levels, slab[s].side)
      BY <1>1, RestingOrder, ZenonT(30)
    <3>2. slab[s].side = makerSide
      BY <2>5, <2>9, <3>1, ZenonT(30) DEF makerSide, Opposite, Sides
    <3> QED
      BY <1>1, <2>3, <3>1, <3>2, BestTrade, ZenonT(30)
  <2> QED
    BY <2>5, <2>7, <2>8, <2>9, ZenonT(30) DEF TradeAtBestPrice
<1>2. IInv /\ [Next]_vars => TradeAtBestPrice
  BY <1>1, Zenon DEF TradeAtBestPrice
<1> QED
  BY <1>2, AlwaysIInv, PTL DEF Spec, TradesAtBestPrice

-----------------------------------------------------------------------------
\* Nothing happens to the queue, or an order joins it (PriceLevel::addOrder).
LEMMA KeepsSame ==
  ASSUME NEW S, NEW q \in Seq(S), IsInjective(q)
  PROVE  KeepsOrder(q, q)
<1>1. \A i \in DOMAIN q : i \in 1 .. Len(q) /\ q[i] \in Range(q) /\ PositionOf(q, q[i]) = i
  BY PositionUnique, SMTT(30) DEF Range
<1> QED
  BY <1>1, ZenonT(30) DEF KeepsOrder

\* An order joins behind the others.
LEMMA KeepsAppend ==
  ASSUME NEW S, NEW q \in Seq(S), IsInjective(q), NEW s \in S, s \notin Range(q)
  PROVE  KeepsOrder(q, Append(q, s))
<1> DEFINE n == Len(q)
           q1 == Append(q, s)
<1>1. /\ n \in Nat /\ DOMAIN q1 = 1 .. n + 1 /\ q1[n + 1] = s
      /\ \A i \in 1 .. n : q1[i] = q[i] /\ q[i] \in Range(q) /\ PositionOf(q, q[i]) = i
  BY PositionUnique, SMTT(30) DEF Range
<1> HIDE DEF q1, n
<1>2. \A i, j \in 1 .. n + 1 : i < j => i \in 1 .. n /\ (j = n + 1 \/ j \in 1 .. n)
  BY <1>1
<1>3. \A i, j \in DOMAIN q1 : i < j =>
        /\ q1[j] \in Range(q) => q1[i] \in Range(q)
        /\ (q1[i] \in Range(q) /\ q1[j] \in Range(q)) =>
             PositionOf(q, q1[i]) < PositionOf(q, q1[j])
  <2> SUFFICES ASSUME NEW i \in 1 .. n + 1, NEW j \in 1 .. n + 1, i < j
               PROVE  /\ q1[i] \in Range(q)
                      /\ q1[j] \in Range(q) => PositionOf(q, q1[i]) < PositionOf(q, q1[j])
    BY <1>1, Zenon
  <2> QED
    BY <1>1, <1>2, ZenonT(30)
<1> QED
  BY <1>3, ZenonT(30) DEF KeepsOrder, q1

\* An order leaves (PriceLevel::removeOrder).
LEMMA KeepsRemove ==
  ASSUME NEW S, NEW q \in Seq(S), IsInjective(q), NEW s \in Range(q)
  PROVE  KeepsOrder(q, Without(q, PositionOf(q, s)))
<1> DEFINE n == Len(q)
           k == PositionOf(q, s)
           r == Without(q, k)
<1>1. /\ k \in 1 .. n /\ r \in Seq(S) /\ Len(r) = n - 1 /\ n \in Nat
      /\ \A j \in 1 .. Len(r) : r[j] = IF j < k THEN q[j] ELSE q[j + 1]
  BY RemoveFromQueue, SMTT(30)
<1>2. \A i \in 1 .. n : q[i] \in Range(q) /\ PositionOf(q, q[i]) = i
  BY PositionUnique, SMTT(30) DEF Range
<1>3. DOMAIN r = 1 .. n - 1
  BY <1>1
<1> HIDE DEF r, k, n
<1>4. ASSUME NEW i \in 1 .. n - 1
      PROVE  /\ r[i] \in Range(q)
             /\ PositionOf(q, r[i]) = IF i < k THEN i ELSE i + 1
  <2>1. i \in 1 .. n /\ i + 1 \in 1 .. n
    BY <1>1, SMTT(30)
  <2> QED
    BY <1>1, <1>2, <2>1, ZenonT(30)
<1>5. \A i, j \in DOMAIN r : i < j => PositionOf(q, r[i]) < PositionOf(q, r[j])
  <2> SUFFICES ASSUME NEW i \in 1 .. n - 1, NEW j \in 1 .. n - 1, i < j
               PROVE  PositionOf(q, r[i]) < PositionOf(q, r[j])
    BY <1>3, Zenon
  <2>1. /\ PositionOf(q, r[i]) = IF i < k THEN i ELSE i + 1
        /\ PositionOf(q, r[j]) = IF j < k THEN j ELSE j + 1
    BY <1>4, Zenon
  <2> QED
    BY <1>1, <2>1, SMTT(30)
<1> QED
  BY <1>3, <1>4, <1>5, ZenonT(30) DEF KeepsOrder, r, k

-----------------------------------------------------------------------------
(* Time priority *)

\* The queues after s leaves the one at side0 and p0, and after it joins it.
QueueAfterRemove(side0, p0, s, side, p) ==
  LET q == QueueAt(levels, side, p)
  IN IF side = side0 /\ p = p0 THEN Without(q, PositionOf(q, s)) ELSE q

QueueAfterAdd(side0, p0, s, side, p) ==
  LET q == QueueAt(levels, side, p)
  IN IF side = side0 /\ p = p0 THEN Append(q, s) ELSE q

\* The queues after a known order is taken out of the book.
LEMMA UnlinkQueues ==
  ASSUME IInv, NEW id \in Ids, orderMap[id] # NoSlot,
         levels' = book_removeOrder(levels, orderMap[id], slab[orderMap[id]]),
         NEW side \in Sides, NEW p \in Prices
  PROVE  LET s == orderMap[id]
         IN QueueAt(levels', side, p) = QueueAfterRemove(slab[s].side, slab[s].price, s, side, p)
<1> DEFINE s == orderMap[id]
           o == slab[s]
<1>1. levels \in Levels /\ QueuesOK(levels)
  BY BookFacts, Zenon
<1>2. o \in Order /\ o.price \in Prices /\ s \in OrdersAt(levels, o.side, o.price)
  BY KnownOrder, Zenon
<1>3. levels' = book_removeOrder(levels, s, o)
  BY ZenonT(60)
<1> HIDE DEF s, o
<1>4. IF side = o.side /\ p = o.price
      THEN LET q == QueueAt(levels, side, p)
           IN QueueAt(levels', side, p) = Without(q, PositionOf(q, s))
      ELSE QueueAt(levels', side, p) = QueueAt(levels, side, p)
  <2>1. QueueRemoved(levels, levels', s, o, side, p)
    BY <1>1, <1>2, <1>3, QueueRemove, ZenonT(60)
  <2> QED
    BY <2>1, ZenonT(60) DEF QueueRemoved
<1> QED
  BY <1>4, ZenonT(30) DEF QueueAfterRemove, s, o

\* The queues after a turn of the match loop.
LEMMA MatchQueues ==
  ASSUME IInv, MatchStep, NEW side \in Sides, NEW p \in Prices
  PROVE  QueueAt(levels', side, p) =
           IF isFilled(makerAfter) THEN QueueAfterRemove(makerSide, tradePrice, maker, side, p)
                                   ELSE QueueAt(levels, side, p)
<1>1. levels \in Levels /\ QueuesOK(levels)
  BY BookFacts, ZenonT(30)
<1>2. /\ makerSide \in Sides /\ tradePrice \in Prices /\ tradePrice \in Present(levels, makerSide)
      /\ maker \in OrdersAt(levels, makerSide, tradePrice)
      /\ tradeQty \in Nat
  BY TradeFacts, Zenon
<1>3. makerAfter \in Order /\ makerAfter.side = makerSide /\ makerAfter.price = tradePrice
  BY TradedOrders, Zenon
<1>4. tradedBook = DecreasedAt(levels, makerSide, tradePrice, tradeQty)
  BY Zenon DEF tradedBook
<1>5. /\ tradedBook \in Levels /\ QueuesOK(tradedBook)
      /\ OrdersAt(tradedBook, makerSide, tradePrice) = OrdersAt(levels, makerSide, tradePrice)
  BY <1>1, <1>2, <1>4, BookDecrease, SMTT(30)
<1>6. QueueAt(tradedBook, side, p) = QueueAt(levels, side, p)
  BY <1>1, <1>2, <1>4, QueueDecrease, SMTT(30)
<1>7. CASE ~isFilled(makerAfter)
  <2>1. levels' = tradedBook
    BY <1>7, MatchShape, ZenonT(30)
  <2> QED
    BY <1>6, <1>7, <2>1, Zenon
<1>8. CASE isFilled(makerAfter)
  <2>1. levels' = book_removeOrder(tradedBook, maker, makerAfter)
    BY <1>8, MatchShape, ZenonT(30)
  <2>2. maker \in OrdersAt(tradedBook, makerAfter.side, makerAfter.price) /\ makerAfter.price \in Prices
    BY <1>2, <1>3, <1>5, ZenonT(60)
  <2>3. IF side = makerAfter.side /\ p = makerAfter.price
        THEN LET q == QueueAt(tradedBook, side, p)
             IN QueueAt(levels', side, p) = Without(q, PositionOf(q, maker))
        ELSE QueueAt(levels', side, p) = QueueAt(tradedBook, side, p)
    <3>1. QueueRemoved(tradedBook, levels', maker, makerAfter, side, p)
      BY <1>3, <1>5, <2>1, <2>2, QueueRemove, ZenonT(60)
    <3> QED
      BY <3>1, ZenonT(60) DEF QueueRemoved
  <2> QED
    BY <1>3, <1>6, <1>8, <2>3, ZenonT(30) DEF QueueAfterRemove
<1> QED
  BY <1>7, <1>8, Zenon

\* The queues after the match loop.
LEMMA FinishQueues ==
  ASSUME IInv, FinishMatch, NEW side \in Sides, NEW p \in Prices
  PROVE  QueueAt(levels', side, p) =
           IF Rests(taker) THEN QueueAfterAdd(taker.side, taker.price, incoming, side, p)
                           ELSE QueueAt(levels, side, p)
<1>1. levels \in Levels
  BY BookFacts, ZenonT(30)
<1>2. incoming \in Slots /\ taker \in Order
  BY FinishShape, Zenon
<1>3. CASE Rests(taker)
  <2>1. levels' = book_addOrder(levels, incoming, taker) /\ taker.price \in Prices
    BY <1>3, FinishShape, ZenonT(30)
  <2>2. IF side = taker.side /\ p = taker.price
        THEN QueueAt(levels', side, p) = Append(QueueAt(levels, side, p), incoming)
        ELSE QueueAt(levels', side, p) = QueueAt(levels, side, p)
    <3>1. QueueAdded(levels, levels', incoming, taker, side, p)
      BY <1>1, <1>2, <2>1, QueueAdd, ZenonT(60)
    <3> QED
      BY <3>1, ZenonT(60) DEF QueueAdded
  <2> QED
    BY <1>3, <2>2, ZenonT(30) DEF QueueAfterAdd
<1>4. CASE ~Rests(taker)
  <2>1. levels' = levels
    BY <1>4, FinishShape, ZenonT(30)
  <2> QED
    BY <1>4, <2>1, ZenonT(30)
<1> QED
  BY <1>3, <1>4, ZenonT(30)

\* A step changes a queue in one of three ways.
LEMMA QueueSteps ==
  ASSUME IInv, Next, NEW side \in Sides, NEW p \in Prices
  PROVE  LET q == QueueAt(levels, side, p)
             q1 == QueueAt(levels', side, p)
         IN \/ q1 = q
            \/ \E s \in Slots : s \notin Range(q) /\ q1 = Append(q, s)
            \/ \E s \in Range(q) : q1 = Without(q, PositionOf(q, s))
<1> DEFINE q == QueueAt(levels, side, p)
           q1 == QueueAt(levels', side, p)
           Fine == \/ q1 = q
                   \/ \E s \in Slots : s \notin Range(q) /\ q1 = Append(q, s)
                   \/ \E s \in Range(q) : q1 = Without(q, PositionOf(q, s))
<1>1. OrdersAt(levels, side, p) = Range(q)
  BY BookFacts, QueueFacts, ZenonT(30)
<1>2. ASSUME NEW id \in Ids, orderMap[id] # NoSlot,
             levels' = book_removeOrder(levels, orderMap[id], slab[orderMap[id]])
      PROVE  Fine
  <2> DEFINE s == orderMap[id]
  <2>1. q1 = QueueAfterRemove(slab[s].side, slab[s].price, s, side, p)
    BY <1>2, UnlinkQueues, ZenonT(30)
  <2>2. s \in OrdersAt(levels, slab[s].side, slab[s].price)
    BY <1>2, KnownOrder, ZenonT(30)
  <2> QED
    BY <1>1, <2>1, <2>2, ZenonT(30) DEF QueueAfterRemove
<1>3. ASSUME NEW id \in Ids, NEW side_ \in Sides, NEW type \in OrderTypes,
             NEW price \in 0 .. MaxPrice, NEW qty \in Qtys,
             AddOrder(id, side_, type, price, qty)
      PROVE  Fine
  <2>1. levels' = levels
    BY <1>3, AddShape, ZenonT(30)
  <2> QED
    BY <2>1, Zenon
<1>4. ASSUME NEW id \in Ids, CancelOrder(id)
      PROVE  Fine
  <2>1. CASE orderMap[id] = NoSlot
    <3>1. levels' = levels
      BY <1>4, <2>1, CancelShape, ZenonT(30)
    <3> QED
      BY <3>1, Zenon
  <2>2. CASE orderMap[id] # NoSlot
    BY <1>2, <1>4, <2>2, CancelShape, ZenonT(30)
  <2> QED
    BY <2>1, <2>2, Zenon
<1>5. ASSUME NEW id \in Ids, NEW newPrice \in Prices, NEW newQty \in Qtys,
             ModifyOrder(id, newPrice, newQty)
      PROVE  Fine
  <2>1. CASE orderMap[id] = NoSlot
    <3>1. levels' = levels
      BY <1>5, <2>1, ModifyShape, ZenonT(30)
    <3> QED
      BY <3>1, Zenon
  <2>2. CASE orderMap[id] # NoSlot
    BY <1>2, <1>5, <2>2, ModifyShape, ZenonT(30)
  <2> QED
    BY <2>1, <2>2, Zenon
<1>6. CASE DropAdd
  <2>1. levels' = levels
    BY <1>6, Zenon DEF DropAdd, vars
  <2> QED
    BY <2>1, Zenon
<1>7. CASE FinishMatch
  <2>1. q1 = IF Rests(taker) THEN QueueAfterAdd(taker.side, taker.price, incoming, side, p) ELSE q
    BY <1>7, FinishQueues, Zenon
  <2>2. incoming \in Slots /\ incoming \notin Range(q)
    BY <1>1, <1>7, FinishShape, NotResting, SMTT(30)
  <2> QED
    BY <2>1, <2>2, Zenon DEF QueueAfterAdd
<1>8. CASE MatchStep
  <2>1. q1 = IF isFilled(makerAfter) THEN QueueAfterRemove(makerSide, tradePrice, maker, side, p) ELSE q
    BY <1>8, MatchQueues, Zenon
  <2>2. maker \in OrdersAt(levels, makerSide, tradePrice)
    BY <1>8, TradeFacts, Zenon
  <2> QED
    BY <1>1, <2>1, <2>2, ZenonT(30) DEF QueueAfterRemove
<1> QED
  BY <1>3, <1>4, <1>5, <1>6, <1>7, <1>8, ZenonT(30) DEF Next

\* A step in the match loop fills or frees, of the orders in the book, only the
\* first one of a level.
LEMMA MakerFirst ==
  ASSUME IInv, Next, NEW s \in Resting, incoming # NoSlot,
         slab'[s] = NoOrder \/ slab'[s].filledQty > slab[s].filledQty
  PROVE  s = Head(levels[slab[s].side][slab[s].price].queue)
<1>1. /\ s \in Slots /\ s # incoming /\ slab[s] \in Order
  BY RestingOrder, Zenon
<1>2. slab[s] # NoOrder /\ ~(slab[s].filledQty > slab[s].filledQty)
  BY <1>1, NullAssumption, BoundsAssumption, SMTT(30) DEF Order
<1>3. slab'[s] # slab[s]
  BY <1>2, Zenon
<1>4. slab \in Slab
  BY BookFacts, Zenon
<1>5. CASE MatchStep
  <2>1. slab' = tradedSlab \/ slab' = [tradedSlab EXCEPT ![maker] = NoOrder]
    BY <1>5, MatchShape, Zenon
  <2>2. /\ tradedSlab \in Slab
        /\ \A x \in Slots : tradedSlab[x] = IF x = incoming THEN takerAfter
                                            ELSE IF x = maker THEN makerAfter ELSE slab[x]
    BY <1>5, TradedOrders, Zenon
  <2>3. s = maker
    BY <1>1, <1>3, <2>1, <2>2, ZenonT(30) DEF Slab
  <2>4. /\ maker = front(levels[makerSide][tradePrice])
        /\ slab[maker].side = makerSide /\ slab[maker].price = tradePrice
    BY <1>5, TradeFacts, Zenon
  <2> QED
    BY <2>3, <2>4, Zenon DEF front
<1>6. CASE FinishMatch
  <2>1. slab' = slab \/ slab' = [slab EXCEPT ![incoming] = NoOrder]
    BY <1>6, FinishShape, Zenon
  <2> QED
    BY <1>1, <1>3, <1>4, <2>1, ZenonT(30) DEF Slab
<1>7. CASE DropAdd
  BY <1>7, Zenon DEF DropAdd
<1> QED
  BY <1>5, <1>6, <1>7, ZenonT(30) DEF Next, AddOrder, CancelOrder, ModifyOrder

\* Time priority, for every book.
THEOREM TimePriority == Spec => TimePriorityKept
<1>1. ASSUME IInv, Next, NEW side \in Sides, NEW p \in Prices,
             levels[side][p] # NoLevel, levels'[side][p] # NoLevel
      PROVE  KeepsOrder(levels[side][p].queue, levels'[side][p].queue)
  <2> DEFINE q == QueueAt(levels, side, p)
             q1 == QueueAt(levels', side, p)
  <2>1. q = levels[side][p].queue /\ q1 = levels'[side][p].queue
    BY <1>1, Zenon DEF QueueAt
  <2>2. q \in Seq(Slots) /\ IsInjective(q)
    BY <1>1, BookFacts, QueueFacts, Zenon
  <2>3. \/ q1 = q
        \/ \E s \in Slots : s \notin Range(q) /\ q1 = Append(q, s)
        \/ \E s \in Range(q) : q1 = Without(q, PositionOf(q, s))
    BY <1>1, QueueSteps, Zenon
  <2> HIDE DEF q, q1
  <2>4. KeepsOrder(q, q1)
    BY <2>2, <2>3, KeepsSame, KeepsAppend, KeepsRemove, ZenonT(30)
  <2> QED
    BY <2>1, <2>4, Zenon
<1>2. ASSUME IInv, Next PROVE QueuesKeepOrder
  BY <1>1, <1>2, Zenon DEF QueuesKeepOrder
<1>3. ASSUME IInv, Next PROVE MakersAreFirst
  BY <1>3, MakerFirst, Zenon DEF MakersAreFirst
<1>4. IInv /\ [Next]_vars => [QueuesKeepOrder /\ MakersAreFirst]_vars
  BY <1>2, <1>3, Zenon
<1> QED
  BY <1>4, AlwaysIInv, PTL DEF Spec, TimePriorityKept
=============================================================================
