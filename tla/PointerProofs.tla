--------------------------- MODULE PointerProofs ----------------------------
(***************************************************************************)
(* What linking and unlinking an order does to the intrusive list of its   *)
(* level and to the others (core/PriceLevel.h), and what popFree and       *)
(* pushFree do to the free list of the pool (core/SlabPool.h), for every   *)
(* book, set of slots and order of them on the free list.                  *)
(***************************************************************************)
EXTENDS LinkedBook, SequenceTheorems, FiniteSetTheorems, TLAPS

(* Sequences of slots *)

\* Removing an index of a sequence closes the gap.
LEMMA ListWithout ==
  ASSUME NEW S, NEW q \in Seq(S), NEW i \in 1 .. Len(q)
  PROVE  /\ Without(q, i) \in Seq(S)
         /\ Len(Without(q, i)) = Len(q) - 1
         /\ \A j \in 1 .. Len(q) - 1 :
              Without(q, i)[j] = IF j < i THEN q[j] ELSE q[j + 1]
<1> DEFINE a == SubSeq(q, 1, i - 1)
           b == SubSeq(q, i + 1, Len(q))
<1>1. Len(q) \in Nat
  BY LenProperties, Zenon
<1>2. /\ a \in Seq(S) /\ Len(a) = i - 1
      /\ \A j \in 1 .. i - 1 : a[j] = q[j]
  BY <1>1, SubSeqProperties
<1>3. /\ b \in Seq(S) /\ Len(b) = Len(q) - i
      /\ \A j \in 1 .. Len(q) - i : b[j] = q[i + j]
  BY <1>1, SubSeqProperties
<1>4. /\ a \o b \in Seq(S)
      /\ Len(a \o b) = Len(a) + Len(b)
      /\ \A j \in 1 .. Len(a) + Len(b) :
           (a \o b)[j] = IF j <= Len(a) THEN a[j] ELSE b[j - Len(a)]
  BY <1>2, <1>3, ConcatProperties, ZenonT(60)
<1>5. Without(q, i) = a \o b
  BY Zenon DEF Without
<1> HIDE DEF a, b
<1>6. Len(a \o b) = Len(q) - 1
  BY <1>1, <1>2, <1>3, <1>4
<1>7. ASSUME NEW j \in 1 .. Len(q) - 1
      PROVE  (a \o b)[j] = IF j < i THEN q[j] ELSE q[j + 1]
  <2>1. (a \o b)[j] = IF j <= Len(a) THEN a[j] ELSE b[j - Len(a)]
    BY <1>1, <1>2, <1>3, <1>4, SMTT(30)
  <2>2. CASE j < i
    BY <1>1, <1>2, <2>1, <2>2, SMTT(30)
  <2>3. CASE ~(j < i)
    <3>1. j - Len(a) \in 1 .. Len(q) - i /\ ~(j <= Len(a))
      BY <1>1, <1>2, <2>3
    <3>2. b[j - Len(a)] = q[i + (j - Len(a))]
      BY <1>3, <3>1, Zenon
    <3>3. i + (j - Len(a)) = j + 1
      BY <1>1, <1>2
    <3> QED
      BY <2>1, <2>3, <3>1, <3>2, <3>3, Zenon
  <2> QED
    BY <2>2, <2>3, Zenon
<1> QED
  BY <1>4, <1>5, <1>6, <1>7, Zenon

\* Unlinking an order from a queue that has it once removes exactly it.
LEMMA ListRemove ==
  ASSUME NEW S, NEW q \in Seq(S), IsInjective(q), NEW s \in Range(q)
  PROVE  LET i == PositionOf(q, s)
             r == Without(q, i)
         IN /\ i \in 1 .. Len(q) /\ q[i] = s
            /\ r \in Seq(S)
            /\ Len(r) = Len(q) - 1
            /\ \A j \in 1 .. Len(r) : r[j] = IF j < i THEN q[j] ELSE q[j + 1]
            /\ IsInjective(r)
            /\ Range(r) = Range(q) \ {s}
<1> DEFINE i == PositionOf(q, s)
           r == Without(q, i)
<1>1. Len(q) \in Nat /\ DOMAIN q = 1 .. Len(q)
  BY LenProperties, Zenon
<1>2. i \in 1 .. Len(q) /\ q[i] = s
  <2>1. \E k \in DOMAIN q : q[k] = s
    BY Zenon DEF Range
  <2> QED
    BY <1>1, <2>1, Zenon DEF PositionOf
<1> HIDE DEF i
<1>3. /\ r \in Seq(S) /\ Len(r) = Len(q) - 1
      /\ \A j \in 1 .. Len(r) : r[j] = IF j < i THEN q[j] ELSE q[j + 1]
  BY <1>2, ListWithout, Zenon
<1> HIDE DEF r
<1>4. DOMAIN r = 1 .. Len(q) - 1
  BY <1>3, LenProperties, Zenon
<1>5. \A j, k \in DOMAIN q : q[j] = q[k] => j = k
  BY Zenon DEF IsInjective
<1>6. IsInjective(r)
  <2> SUFFICES ASSUME NEW j \in DOMAIN r, NEW k \in DOMAIN r, r[j] = r[k]
               PROVE  j = k
    BY Zenon DEF IsInjective
  <2>1. /\ j \in 1 .. Len(q) /\ j + 1 \in 1 .. Len(q)
        /\ k \in 1 .. Len(q) /\ k + 1 \in 1 .. Len(q)
    BY <1>1, <1>4
  <2>2. r[j] = (IF j < i THEN q[j] ELSE q[j + 1]) /\ r[k] = IF k < i THEN q[k] ELSE q[k + 1]
    BY <1>3, <1>4, Zenon
  <2>3. PICK j1 \in 1 .. Len(q) : j1 = IF j < i THEN j ELSE j + 1
    BY <2>1, Zenon
  <2>4. PICK k1 \in 1 .. Len(q) : k1 = IF k < i THEN k ELSE k + 1
    BY <2>1, Zenon
  <2>5. r[j] = q[j1] /\ r[k] = q[k1]
    BY <2>2, <2>3, <2>4, Zenon
  <2>6. j1 = k1
    BY <1>1, <1>5, <2>5, Zenon
  <2> QED
    BY <1>1, <1>2, <2>1, <2>3, <2>4, <2>6, SMTT(30)
<1>7. ASSUME NEW x \in Range(r) PROVE x \in Range(q) \ {s}
  <2>1. PICK j \in 1 .. Len(q) - 1 : r[j] = x
    BY <1>4, Zenon DEF Range
  <2>2. j \in 1 .. Len(q) /\ j + 1 \in 1 .. Len(q)
    BY <1>1
  <2>3. x = IF j < i THEN q[j] ELSE q[j + 1]
    BY <1>3, <2>1, Zenon
  <2>4. j < i => j # i
    BY <1>1, <1>2
  <2>5. ~(j < i) => j + 1 # i
    BY <1>1, <1>2
  <2> QED
    BY <1>1, <1>2, <1>5, <2>2, <2>3, <2>4, <2>5, ZenonT(60) DEF Range
<1>8. ASSUME NEW x \in Range(q) \ {s} PROVE x \in Range(r)
  <2>1. PICK k \in 1 .. Len(q) : q[k] = x
    BY <1>1, Zenon DEF Range
  <2>2. k # i
    BY <1>2, <2>1, Zenon
  <2>3. CASE k < i
    <3>1. k \in 1 .. Len(q) - 1
      BY <1>1, <1>2, <2>3
    <3> QED
      BY <1>3, <1>4, <2>1, <2>3, <3>1, Zenon DEF Range
  <2>4. CASE ~(k < i)
    <3>1. k - 1 \in 1 .. Len(q) - 1 /\ ~(k - 1 < i) /\ (k - 1) + 1 = k
      BY <1>1, <1>2, <2>2, <2>4
    <3>2. r[k - 1] = x
      BY <1>3, <2>1, <3>1, Zenon
    <3> QED
      BY <1>4, <3>1, <3>2, Zenon DEF Range
  <2> QED
    BY <2>3, <2>4, Zenon
<1> QED
  BY <1>2, <1>3, <1>6, <1>7, <1>8, Zenon DEF i, r

\* Linking an order behind the tail of a queue that does not have it.
LEMMA ListAppend ==
  ASSUME NEW S, NEW q \in Seq(S), NEW s \in S
  PROVE  /\ Append(q, s) \in Seq(S)
         /\ Append(q, s) # <<>>
         /\ Range(Append(q, s)) = Range(q) \cup {s}
         /\ (IsInjective(q) /\ s \notin Range(q)) => IsInjective(Append(q, s))
<1>1. /\ Len(q) \in Nat /\ DOMAIN q = 1 .. Len(q)
      /\ Append(q, s) \in Seq(S) /\ DOMAIN Append(q, s) = 1 .. Len(q) + 1
      /\ Append(q, s) # <<>>
      /\ \A j \in 1 .. Len(q) : Append(q, s)[j] = q[j]
      /\ Append(q, s)[Len(q) + 1] = s
  BY LenProperties, AppendProperties
<1>2. Range(Append(q, s)) = Range(q) \cup {s}
  BY <1>1 DEF Range
<1>3. ASSUME IsInjective(q), s \notin Range(q) PROVE IsInjective(Append(q, s))
  <2> SUFFICES ASSUME NEW j \in 1 .. Len(q) + 1, NEW k \in 1 .. Len(q) + 1,
                      Append(q, s)[j] = Append(q, s)[k]
               PROVE  j = k
    BY <1>1, Zenon DEF IsInjective
  <2>1. \A m \in 1 .. Len(q) : q[m] # s
    BY <1>1, <1>3, Zenon DEF Range
  <2>2. CASE j \in 1 .. Len(q) /\ k \in 1 .. Len(q)
    BY <1>1, <1>3, <2>2, Zenon DEF IsInjective
  <2>3. CASE j = Len(q) + 1 \/ k = Len(q) + 1
    BY <1>1, <2>1, <2>3
  <2> QED
    BY <1>1, <2>2, <2>3, SMTT(30)
<1> QED
  BY <1>1, <1>2, <1>3, Zenon

\* A non-empty set of naturals has a least element, and a greatest one if it
\* is bounded.
LEMMA LeastPlace ==
  ASSUME NEW T, T \subseteq Nat, T # {}
  PROVE  \E x \in T : \A y \in T : x <= y
<1>1. PICK x \in T : \A y \in T : ~(<<y, x>> \in OpToRel(<, Nat))
  BY WFMin, NatLessThanWellFounded, Zenon
<1>2. ASSUME NEW y \in T PROVE x <= y
  <2>1. x \in Nat /\ y \in Nat
    BY Zenon
  <2>2. y < x => <<y, x>> \in OpToRel(<, Nat)
    BY <2>1, Zenon DEF OpToRel
  <2>3. ~(y < x)
    BY <1>1, <2>2, Zenon
  <2> QED
    BY <2>1, <2>3
<1> QED
  BY <1>2, Zenon

\* The place of an order in a queue that has it once.
LEMMA ListPlace ==
  ASSUME NEW S, NEW q \in Seq(S), IsInjective(q), NEW i \in 1 .. Len(q)
  PROVE  PositionOf(q, q[i]) = i
  BY DEF PositionOf, IsInjective

\* The queue at every price is a sequence of slots, without repetitions, and
\* empty exactly where there is no level.
LEMMA ListQueue ==
  ASSUME NEW lvls \in Levels, QueuesOK(lvls), NEW side \in Sides, NEW p \in Prices
  PROVE  /\ QueueAt(lvls, side, p) \in Seq(Slots)
         /\ IsInjective(QueueAt(lvls, side, p))
         /\ OrdersAt(lvls, side, p) = Range(QueueAt(lvls, side, p))
         /\ QueueAt(lvls, side, p) = <<>> <=> lvls[side][p] = NoLevel
<1>1. CASE lvls[side][p] = NoLevel
  <2>1. Range(<<>>) = {} /\ IsInjective(<<>>) /\ <<>> \in Seq(Slots)
    BY DEF Range, IsInjective
  <2> QED
    BY <1>1, <2>1, Zenon DEF QueueAt, OrdersAt
<1>2. CASE lvls[side][p] # NoLevel
  BY <1>2, Zenon DEF QueueAt, OrdersAt, Levels, Level, QueuesOK, Present
<1> QED
  BY <1>1, <1>2, Zenon

-----------------------------------------------------------------------------
(* The links of one level *)

Ptr == Slots \cup {NoSlot}
Links == [next : [Slots -> Ptr], prev : [Slots -> Ptr],
          head : [Sides -> [Prices -> Ptr]], tail : [Sides -> [Prices -> Ptr]]]

\* What the pointers at place i of queue q lead to.
PtrAt(q, i) == IF i \in 1 .. Len(q) THEN q[i] ELSE NoSlot

\* The links of the level at side and p spell the queue q, both ways.
Chain(l, side, p, q) ==
  /\ l.head[side][p] = PtrAt(q, 1) /\ l.tail[side][p] = PtrAt(q, Len(q))
  /\ \A i \in 1 .. Len(q) : l.next[q[i]] = PtrAt(q, i + 1) /\ l.prev[q[i]] = PtrAt(q, i - 1)

\* PriceLevel::addOrder on its own level: the chain grows by s, and only links
\* of s and of orders of the queue change.
LEMMA ChainAdd ==
  ASSUME NEW l \in Links, NEW side \in Sides, NEW p \in Prices,
         NEW q \in Seq(Slots), IsInjective(q), NEW s \in Slots, s \notin Range(q),
         Chain(l, side, p, q),
         NEW l1, l1 = addOrder(l, side, p, s)
  PROVE  /\ l1 \in Links
         /\ Chain(l1, side, p, Append(q, s))
         /\ \A x \in Slots : (x # s /\ x \notin Range(q)) =>
              l1.next[x] = l.next[x] /\ l1.prev[x] = l.prev[x]
         /\ \A side2 \in Sides, p2 \in Prices : (side2 # side \/ p2 # p) =>
              l1.head[side2][p2] = l.head[side2][p2] /\ l1.tail[side2][p2] = l.tail[side2][p2]
<1> DEFINE n == Len(q)
           q1 == Append(q, s)
           t == l.tail[side][p]
<1>1. /\ n \in Nat /\ Len(q1) = n + 1 /\ q1[n + 1] = s
      /\ \A i \in 1 .. n : q1[i] = q[i] /\ q[i] \in Slots /\ q[i] \in Range(q)
      /\ \A i, j \in 1 .. n : i # j => q[i] # q[j]
  BY DEF Range, IsInjective
<1>2. /\ l.next \in [Slots -> Ptr] /\ l.prev \in [Slots -> Ptr]
      /\ l.head \in [Sides -> [Prices -> Ptr]] /\ l.tail \in [Sides -> [Prices -> Ptr]]
      /\ t \in Ptr
  BY ZenonT(60) DEF Links
<1>3. /\ l1.next = [x \in Slots |-> IF x = s THEN NoSlot ELSE IF x = t THEN s ELSE l.next[x]]
      /\ l1.prev = [l.prev EXCEPT ![s] = t]
      /\ l1.head = IF t = NoSlot THEN [l.head EXCEPT ![side][p] = s] ELSE l.head
      /\ l1.tail = [l.tail EXCEPT ![side][p] = s]
      /\ l1 = [next |-> l1.next, prev |-> l1.prev, head |-> l1.head, tail |-> l1.tail]
  BY Zenon DEF addOrder
<1>4. t = PtrAt(q, n) /\ l.head[side][p] = PtrAt(q, 1)
      /\ \A i \in 1 .. n : l.next[q[i]] = PtrAt(q, i + 1) /\ l.prev[q[i]] = PtrAt(q, i - 1)
  BY Zenon DEF Chain
<1>5. (n = 0 => t = NoSlot) /\ (n # 0 => t = q[n] /\ t \in Slots /\ t # NoSlot /\ n \in 1 .. n)
  BY <1>1, <1>4, NullAssumption, SMTT(30) DEF PtrAt
<1> HIDE DEF q1, t, n
<1>6. l1 \in Links
  <2>1. l1.next \in [Slots -> Ptr] /\ l1.prev \in [Slots -> Ptr]
    BY <1>2, <1>3, SMTT(30) DEF Ptr
  <2>2. l1.head \in [Sides -> [Prices -> Ptr]] /\ l1.tail \in [Sides -> [Prices -> Ptr]]
    BY <1>2, <1>3 DEF Ptr
  <2> QED
    BY <1>3, <2>1, <2>2, ZenonT(30) DEF Links
<1>7. /\ l1.tail[side][p] = s /\ l1.head[side][p] = IF n = 0 THEN s ELSE q[1]
  <2>1. l1.tail[side][p] = s
    BY <1>2, <1>3, SMTT(30)
  <2>2. CASE n = 0
    BY <1>2, <1>3, <1>5, <2>1, <2>2, SMTT(30)
  <2>3. CASE n # 0
    <3>1. l1.head = l.head /\ 1 \in 1 .. n
      BY <1>1, <1>3, <1>5, <2>3, SMTT(30)
    <3> QED
      BY <1>4, <2>1, <2>3, <3>1, ZenonT(30) DEF PtrAt, n
  <2> QED
    BY <2>2, <2>3, ZenonT(60)
<1>8. Chain(l1, side, p, q1)
  <2>1. l1.head[side][p] = PtrAt(q1, 1) /\ l1.tail[side][p] = PtrAt(q1, Len(q1))
    <3>1. PtrAt(q1, n + 1) = s /\ 1 \in 1 .. n + 1 /\ PtrAt(q1, 1) = q1[1]
      BY <1>1 DEF PtrAt
    <3>2. q1[1] = IF n = 0 THEN s ELSE q[1]
      BY <1>1, SMTT(30)
    <3> QED
      BY <1>1, <1>7, <3>1, <3>2, ZenonT(30)
  <2>2. ASSUME NEW i \in 1 .. n + 1
        PROVE  l1.next[q1[i]] = PtrAt(q1, i + 1) /\ l1.prev[q1[i]] = PtrAt(q1, i - 1)
    <3>1. CASE i = n + 1
      <4>1. q1[i] = s /\ l1.next[s] = NoSlot /\ l1.prev[s] = t
        BY <1>1, <1>2, <1>3, <3>1, ZenonT(30)
      <4>2. PtrAt(q1, i + 1) = NoSlot
        BY <1>1, <3>1 DEF PtrAt
      <4>3. PtrAt(q1, i - 1) = t
        <5>1. CASE n = 0
          BY <1>1, <1>5, <3>1, <5>1, SMTT(30) DEF PtrAt
        <5>2. CASE n # 0
          BY <1>1, <1>5, <3>1, <5>2, SMTT(30) DEF PtrAt
        <5> QED
          BY <5>1, <5>2, ZenonT(30)
      <4> QED
        BY <4>1, <4>2, <4>3, ZenonT(30)
    <3>2. CASE i \in 1 .. n
      <4>1. q1[i] = q[i] /\ q[i] \in Slots /\ q[i] # s
        BY <1>1, <3>2, ZenonT(30)
      <4>2. l1.prev[q[i]] = l.prev[q[i]]
        BY <1>2, <1>3, <4>1, ZenonT(30)
      <4>3. PtrAt(q1, i - 1) = PtrAt(q, i - 1)
        BY <1>1, <3>2, SMTT(30) DEF PtrAt, n
      <4>4. CASE i = n
        <5>1. q[i] = t /\ l1.next[q[i]] = s
          BY <1>3, <1>5, <3>2, <4>1, <4>4, SMTT(30)
        <5>2. PtrAt(q1, i + 1) = s
          BY <1>1, <4>4, SMTT(30) DEF PtrAt
        <5> QED
          BY <1>4, <3>2, <4>1, <4>2, <4>3, <5>1, <5>2, ZenonT(30)
      <4>5. CASE i # n
        <5>1. q[i] # t /\ l1.next[q[i]] = l.next[q[i]]
          BY <1>1, <1>3, <1>5, <3>2, <4>1, <4>5, SMTT(30)
        <5>2. PtrAt(q1, i + 1) = PtrAt(q, i + 1)
          BY <1>1, <3>2, <4>5, SMTT(30) DEF PtrAt, n
        <5> QED
          BY <1>4, <3>2, <4>1, <4>2, <4>3, <5>1, <5>2, ZenonT(60)
      <4> QED
        BY <4>4, <4>5, Zenon
    <3> QED
      BY <1>1, <3>1, <3>2, SMTT(30)
  <2> QED
    BY <1>1, <2>1, <2>2, ZenonT(30) DEF Chain
<1>9. ASSUME NEW x \in Slots, x # s, x \notin Range(q)
      PROVE  l1.next[x] = l.next[x] /\ l1.prev[x] = l.prev[x]
  <2>1. x # t
    BY <1>1, <1>5, <1>9, NullAssumption, ZenonT(30)
  <2> QED
    BY <1>2, <1>3, <1>9, <2>1, ZenonT(30)
<1>10. ASSUME NEW side2 \in Sides, NEW p2 \in Prices, side2 # side \/ p2 # p
       PROVE  l1.head[side2][p2] = l.head[side2][p2] /\ l1.tail[side2][p2] = l.tail[side2][p2]
  BY <1>2, <1>3, <1>10, SMTT(30)
<1> QED
  BY <1>6, <1>8, <1>9, <1>10, ZenonT(30) DEF q1

\* Links l1 are links l with s unlinked from queue q.
Unlinked(l, l1, side, p, q, s) ==
  /\ l1 \in Links
  /\ Chain(l1, side, p, Without(q, PositionOf(q, s)))
  /\ l1.next[s] = NoSlot /\ l1.prev[s] = NoSlot
  /\ \A x \in Slots : x \notin Range(q) =>
       l1.next[x] = l.next[x] /\ l1.prev[x] = l.prev[x]
  /\ \A side2 \in Sides, p2 \in Prices : (side2 # side \/ p2 # p) =>
       l1.head[side2][p2] = l.head[side2][p2] /\ l1.tail[side2][p2] = l.tail[side2][p2]

\* PriceLevel::removeOrder on its own level.
LEMMA ChainRemove ==
  ASSUME NEW l \in Links, NEW side \in Sides, NEW p \in Prices,
         NEW q \in Seq(Slots), IsInjective(q), NEW s \in Range(q),
         Chain(l, side, p, q),
         NEW l1, l1 = removeOrder(l, side, p, s)
  PROVE  Unlinked(l, l1, side, p, q, s)
<1> DEFINE n == Len(q)
           k == PositionOf(q, s)
           r == Without(q, k)
           a == l.prev[s]
           b == l.next[s]
<1>1. /\ k \in 1 .. n /\ q[k] = s /\ r \in Seq(Slots) /\ Len(r) = n - 1 /\ n \in Nat
      /\ \A j \in 1 .. Len(r) : r[j] = IF j < k THEN q[j] ELSE q[j + 1]
  BY ListRemove, SMTT(30)
<1>2. /\ \A i \in 1 .. n : q[i] \in Slots /\ q[i] \in Range(q) /\ q[i] # NoSlot
      /\ \A i, j \in 1 .. n : i # j => q[i] # q[j]
  BY NullAssumption DEF Range, IsInjective
<1> HIDE DEF k, r
<1>3. /\ l.next \in [Slots -> Ptr] /\ l.prev \in [Slots -> Ptr] /\ s \in Slots
      /\ l.head \in [Sides -> [Prices -> Ptr]] /\ l.tail \in [Sides -> [Prices -> Ptr]]
      /\ a \in Ptr /\ b \in Ptr
  BY <1>1, <1>2, ZenonT(30) DEF Links
<1>4. /\ l1.next = [x \in Slots |-> IF x = s THEN NoSlot ELSE IF x = a THEN b ELSE l.next[x]]
      /\ l1.prev = [x \in Slots |-> IF x = s THEN NoSlot ELSE IF x = b THEN a ELSE l.prev[x]]
      /\ l1.head = IF a = NoSlot THEN [l.head EXCEPT ![side][p] = b] ELSE l.head
      /\ l1.tail = IF b = NoSlot THEN [l.tail EXCEPT ![side][p] = a] ELSE l.tail
      /\ l1 = [next |-> l1.next, prev |-> l1.prev, head |-> l1.head, tail |-> l1.tail]
  BY Zenon DEF removeOrder
<1>5. /\ l.head[side][p] = PtrAt(q, 1) /\ l.tail[side][p] = PtrAt(q, n)
      /\ \A i \in 1 .. n : l.next[q[i]] = PtrAt(q, i + 1) /\ l.prev[q[i]] = PtrAt(q, i - 1)
  BY Zenon DEF Chain
<1>6. a = PtrAt(q, k - 1) /\ b = PtrAt(q, k + 1)
  BY <1>1, <1>5, Zenon
<1>7. /\ (k = 1 => a = NoSlot) /\ (k # 1 => k - 1 \in 1 .. n /\ a = q[k - 1])
      /\ (k = n => b = NoSlot) /\ (k # n => k + 1 \in 1 .. n /\ b = q[k + 1])
  BY <1>1, <1>6 DEF PtrAt
<1>8. l1 \in Links
  <2>1. l1.next \in [Slots -> Ptr] /\ l1.prev \in [Slots -> Ptr]
    BY <1>3, <1>4, SMTT(30) DEF Ptr
  <2>2. l1.head \in [Sides -> [Prices -> Ptr]] /\ l1.tail \in [Sides -> [Prices -> Ptr]]
    BY <1>3, <1>4, SMTT(30)
  <2> QED
    BY <1>4, <2>1, <2>2, ZenonT(60) DEF Links
<1> HIDE DEF a, b, n
\* Places of r in q.
<1> DEFINE at(j) == IF j < k THEN j ELSE j + 1
<1>9. ASSUME NEW j \in 1 .. n - 1
      PROVE  /\ r[j] = q[at(j)] /\ at(j) \in 1 .. n /\ at(j) # k /\ r[j] \in Slots /\ r[j] # s
             /\ (r[j] = a <=> j = k - 1) /\ (r[j] = b <=> j = k)
  <2>1. r[j] = q[at(j)] /\ at(j) \in 1 .. n /\ at(j) # k
    BY <1>1, SMTT(30)
  <2>2. r[j] \in Slots /\ r[j] # s /\ r[j] # NoSlot
    BY <1>1, <1>2, <2>1, ZenonT(30)
  <2>3. r[j] = a <=> j = k - 1
    <3>1. CASE k = 1
      BY <1>7, <2>2, <3>1, SMTT(30)
    <3>2. CASE k # 1
      <4>1. k - 1 \in 1 .. n /\ a = q[k - 1]
        BY <1>7, <3>2, ZenonT(30)
      <4>2. at(j) = k - 1 <=> j = k - 1
        BY <1>1, SMTT(30)
      <4> HIDE DEF at
      <4> QED
        BY <1>2, <2>1, <4>1, <4>2, ZenonT(30)
    <3> QED
      BY <3>1, <3>2, ZenonT(60)
  <2>4. r[j] = b <=> j = k
    <3>1. CASE k = n
      BY <1>1, <1>7, <2>2, <3>1, SMTT(30)
    <3>2. CASE k # n
      <4>1. k + 1 \in 1 .. n /\ b = q[k + 1]
        BY <1>7, <3>2, ZenonT(30)
      <4>2. at(j) = k + 1 <=> j = k
        BY <1>1, SMTT(30)
      <4> HIDE DEF at
      <4> QED
        BY <1>2, <2>1, <4>1, <4>2, ZenonT(30)
    <3> QED
      BY <3>1, <3>2, Zenon
  <2> HIDE DEF at
  <2> QED
    BY <2>1, <2>2, <2>3, <2>4, ZenonT(30)
<1>10. ASSUME NEW j \in Int, j # k - 1 PROVE PtrAt(r, j + 1) = PtrAt(q, at(j) + 1)
  BY <1>1, <1>10, SMTT(30) DEF PtrAt, n
<1>11. ASSUME NEW j \in Int, j # k PROVE PtrAt(r, j - 1) = PtrAt(q, at(j) - 1)
  BY <1>1, <1>11, SMTT(30) DEF PtrAt, n
<1>12. PtrAt(r, k) = b /\ PtrAt(r, k - 1) = a
  BY <1>1, <1>6, SMTT(30) DEF PtrAt, n
<1>13. ASSUME NEW j \in 1 .. n - 1
       PROVE  l1.next[r[j]] = PtrAt(r, j + 1) /\ l1.prev[r[j]] = PtrAt(r, j - 1)
  <2> HIDE DEF at
  <2>1. /\ r[j] = q[at(j)] /\ at(j) \in 1 .. n /\ r[j] \in Slots /\ r[j] # s
        /\ (r[j] = a <=> j = k - 1) /\ (r[j] = b <=> j = k)
    BY <1>9, Zenon
  <2>2. l1.next[r[j]] = PtrAt(r, j + 1)
    <3>1. CASE j = k - 1
      <4>1. j + 1 = k
        BY <1>1, <3>1, SMTT(30)
      <4> QED
        BY <1>4, <1>12, <2>1, <3>1, <4>1, ZenonT(60)
    <3>2. CASE j # k - 1
      BY <1>4, <1>5, <1>10, <2>1, <3>2, SMTT(30)
    <3> QED
      BY <3>1, <3>2, ZenonT(30)
  <2>3. l1.prev[r[j]] = PtrAt(r, j - 1)
    <3>1. CASE j = k
      BY <1>4, <1>12, <2>1, <3>1, ZenonT(60)
    <3>2. CASE j # k
      BY <1>4, <1>5, <1>11, <2>1, <3>2, SMTT(30)
    <3> QED
      BY <3>1, <3>2, Zenon
  <2> QED
    BY <2>2, <2>3, Zenon
<1>14. l1.head[side][p] = PtrAt(r, 1)
  <2>1. CASE k = 1
    <3>1. l1.head[side][p] = b
      BY <1>3, <1>4, <1>7, <2>1, SMTT(30)
    <3> QED
      BY <1>12, <2>1, <3>1, ZenonT(60)
  <2>2. CASE k # 1
    <3>1. l1.head = l.head
      BY <1>2, <1>4, <1>7, <2>2, SMTT(30)
    <3>2. PtrAt(r, 1) = PtrAt(q, 1)
      BY <1>1, <2>2 DEF PtrAt, n
    <3> QED
      BY <1>5, <3>1, <3>2, ZenonT(60)
  <2> QED
    BY <2>1, <2>2, Zenon
<1>15. l1.tail[side][p] = PtrAt(r, n - 1)
  <2>1. CASE k = n
    <3>1. l1.tail[side][p] = a
      BY <1>3, <1>4, <1>7, <2>1, SMTT(30)
    <3> QED
      BY <1>12, <2>1, <3>1, ZenonT(30)
  <2>2. CASE k # n
    <3>1. l1.tail = l.tail
      BY <1>2, <1>4, <1>7, <2>2, ZenonT(30)
    <3>2. PtrAt(r, n - 1) = PtrAt(q, n)
      BY <1>1, <2>2, SMTT(30) DEF PtrAt, n
    <3> QED
      BY <1>5, <3>1, <3>2, ZenonT(60)
  <2> QED
    BY <2>1, <2>2, Zenon
<1>16. Chain(l1, side, p, r)
  BY <1>1, <1>13, <1>14, <1>15, ZenonT(30) DEF Chain
<1>17. l1.next[s] = NoSlot /\ l1.prev[s] = NoSlot
  BY <1>3, <1>4, Zenon
<1>18. ASSUME NEW x \in Slots, x \notin Range(q)
       PROVE  l1.next[x] = l.next[x] /\ l1.prev[x] = l.prev[x]
  <2>1. x # a /\ x # b /\ x # s
    BY <1>1, <1>2, <1>7, <1>18, NullAssumption, SMTT(30)
  <2> QED
    BY <1>4, <2>1, ZenonT(30)
<1>19. ASSUME NEW side2 \in Sides, NEW p2 \in Prices, side2 # side \/ p2 # p
       PROVE  l1.head[side2][p2] = l.head[side2][p2] /\ l1.tail[side2][p2] = l.tail[side2][p2]
  BY <1>3, <1>4, <1>19, SMTT(30)
<1> QED
  BY <1>8, <1>16, <1>17, <1>18, <1>19, ZenonT(30) DEF r, k, Unlinked

-----------------------------------------------------------------------------
(* The links of all levels *)

\* No level has the order.
OnNoLevel(lvls, s) == \A side \in Sides, p \in Prices : s \notin OrdersAt(lvls, side, p)

\* The links spell the queue of every level, and an order on no level has none.
LinksOf(l, lvls) ==
  /\ l \in Links
  /\ \A side \in Sides, p \in Prices : Chain(l, side, p, QueueAt(lvls, side, p))
  /\ \A s \in Slots : OnNoLevel(lvls, s) => l.next[s] = NoSlot /\ l.prev[s] = NoSlot

\* A level whose ends and orders keep their pointers keeps its chain.
LEMMA ChainFrame ==
  ASSUME NEW l, NEW l1, NEW side, NEW p, NEW q \in Seq(Slots), Chain(l, side, p, q),
         l1.head[side][p] = l.head[side][p], l1.tail[side][p] = l.tail[side][p],
         \A x \in Range(q) : l1.next[x] = l.next[x] /\ l1.prev[x] = l.prev[x]
  PROVE  Chain(l1, side, p, q)
<1>1. \A i \in 1 .. Len(q) : q[i] \in Range(q)
  BY DEF Range
<1> QED
  BY <1>1, Zenon DEF Chain

\* Linking s in behind the orders of one level.
LEMMA LinksAdd ==
  ASSUME NEW lv0 \in Levels, QueuesOK(lv0), Apart(lv0), NEW lv1 \in Levels, QueuesOK(lv1),
         NEW l, LinksOf(l, lv0), NEW side0 \in Sides, NEW p0 \in Prices,
         NEW s \in Slots, OnNoLevel(lv0, s),
         \A side \in Sides, p \in Prices :
           QueueAt(lv1, side, p) = IF side = side0 /\ p = p0 THEN Append(QueueAt(lv0, side, p), s)
                                                             ELSE QueueAt(lv0, side, p)
  PROVE  LinksOf(addOrder(l, side0, p0, s), lv1)
<1> DEFINE l1 == addOrder(l, side0, p0, s)
           q0 == QueueAt(lv0, side0, p0)
<1>1. \A side \in Sides, p \in Prices :
        /\ QueueAt(lv0, side, p) \in Seq(Slots) /\ IsInjective(QueueAt(lv0, side, p))
        /\ OrdersAt(lv0, side, p) = Range(QueueAt(lv0, side, p))
        /\ OrdersAt(lv1, side, p) = Range(QueueAt(lv1, side, p))
  BY ListQueue, Zenon
<1>2. l \in Links /\ s \notin Range(q0) /\ Chain(l, side0, p0, q0)
  BY <1>1, Zenon DEF LinksOf, OnNoLevel
<1>3. l1 = addOrder(l, side0, p0, s)
  BY Zenon
<1>4. q0 \in Seq(Slots) /\ IsInjective(q0) /\ OrdersAt(lv0, side0, p0) = Range(q0)
  BY <1>1, ZenonT(60)
<1> HIDE DEF l1, q0
<1>5. /\ l1 \in Links
      /\ Chain(l1, side0, p0, Append(q0, s))
      /\ \A x \in Slots : (x # s /\ x \notin Range(q0)) =>
           l1.next[x] = l.next[x] /\ l1.prev[x] = l.prev[x]
      /\ \A side2 \in Sides, p2 \in Prices : (side2 # side0 \/ p2 # p0) =>
           l1.head[side2][p2] = l.head[side2][p2] /\ l1.tail[side2][p2] = l.tail[side2][p2]
  BY <1>2, <1>3, <1>4, ChainAdd, SMTT(30)
<1>6. ASSUME NEW side \in Sides, NEW p \in Prices
      PROVE  Chain(l1, side, p, QueueAt(lv1, side, p))
  <2>1. CASE side = side0 /\ p = p0
    BY <1>5, <2>1, Zenon DEF q0
  <2>2. CASE ~(side = side0 /\ p = p0)
    <3> DEFINE q == QueueAt(lv0, side, p)
    <3>1. q \in Seq(Slots) /\ Chain(l, side, p, q) /\ OrdersAt(lv0, side, p) = Range(q)
      BY <1>1, Zenon DEF LinksOf
    <3>2. QueueAt(lv1, side, p) = q
      BY <2>2, Zenon
    <3> HIDE DEF q
    <3>3. \A x \in Range(q) : x \in Slots /\ x # s /\ x \notin Range(q0)
      <4>1. \A x \in Range(q) : x \in Slots
        BY <3>1 DEF Range
      <4> QED
        BY <1>4, <2>2, <3>1, <4>1, SMTT(30) DEF Apart, OnNoLevel
    <3>4. \A x \in Range(q) : l1.next[x] = l.next[x] /\ l1.prev[x] = l.prev[x]
      BY <1>5, <3>3, ZenonT(30)
    <3>5. l1.head[side][p] = l.head[side][p] /\ l1.tail[side][p] = l.tail[side][p]
      BY <1>5, <2>2, ZenonT(30)
    <3> QED
      BY <3>1, <3>2, <3>4, <3>5, ChainFrame, ZenonT(30)
  <2> QED
    BY <2>1, <2>2, ZenonT(30)
<1>7. ASSUME NEW x \in Slots, OnNoLevel(lv1, x)
      PROVE  l1.next[x] = NoSlot /\ l1.prev[x] = NoSlot
  <2>1. Range(Append(q0, s)) = Range(q0) \cup {s}
    BY <1>4, ListAppend
  <2>2. x # s /\ x \notin Range(q0)
    BY <1>1, <1>7, <2>1, ZenonT(60) DEF OnNoLevel, q0
  <2>3. OnNoLevel(lv0, x)
    <3> SUFFICES ASSUME NEW side \in Sides, NEW p \in Prices PROVE x \notin OrdersAt(lv0, side, p)
      BY Zenon DEF OnNoLevel
    <3>1. CASE side = side0 /\ p = p0
      BY <1>4, <2>2, <3>1, ZenonT(30)
    <3>2. CASE ~(side = side0 /\ p = p0)
      <4>1. QueueAt(lv1, side, p) = QueueAt(lv0, side, p)
        BY <3>2, Zenon
      <4> QED
        BY <1>1, <1>7, <4>1 DEF OnNoLevel
    <3> QED
      BY <3>1, <3>2, Zenon
  <2> QED
    BY <1>5, <2>2, <2>3, ZenonT(30) DEF LinksOf
<1> QED
  BY <1>5, <1>6, <1>7, ZenonT(30) DEF LinksOf, l1

\* Unlinking s from its level.
LEMMA LinksRemove ==
  ASSUME NEW lv0 \in Levels, QueuesOK(lv0), Apart(lv0), NEW lv1 \in Levels, QueuesOK(lv1),
         NEW l, LinksOf(l, lv0), NEW side0 \in Sides, NEW p0 \in Prices,
         NEW s \in OrdersAt(lv0, side0, p0),
         \A side \in Sides, p \in Prices :
           QueueAt(lv1, side, p) =
             IF side = side0 /\ p = p0
             THEN Without(QueueAt(lv0, side, p), PositionOf(QueueAt(lv0, side, p), s))
             ELSE QueueAt(lv0, side, p)
  PROVE  LinksOf(removeOrder(l, side0, p0, s), lv1)
<1> DEFINE l1 == removeOrder(l, side0, p0, s)
           q0 == QueueAt(lv0, side0, p0)
           r == Without(q0, PositionOf(q0, s))
<1>1. \A side \in Sides, p \in Prices :
        /\ QueueAt(lv0, side, p) \in Seq(Slots) /\ IsInjective(QueueAt(lv0, side, p))
        /\ OrdersAt(lv0, side, p) = Range(QueueAt(lv0, side, p))
        /\ OrdersAt(lv1, side, p) = Range(QueueAt(lv1, side, p))
  BY ListQueue, Zenon
<1>2. l \in Links /\ s \in Range(q0) /\ Chain(l, side0, p0, q0)
  BY <1>1, Zenon DEF LinksOf
<1>3. l1 = removeOrder(l, side0, p0, s)
  BY Zenon
<1>4. q0 \in Seq(Slots) /\ IsInjective(q0) /\ OrdersAt(lv0, side0, p0) = Range(q0)
      /\ QueueAt(lv1, side0, p0) = r
  BY <1>1, Zenon
<1> HIDE DEF l1, q0
<1>5. /\ l1 \in Links
      /\ Chain(l1, side0, p0, r)
      /\ l1.next[s] = NoSlot /\ l1.prev[s] = NoSlot
      /\ \A x \in Slots : x \notin Range(q0) =>
           l1.next[x] = l.next[x] /\ l1.prev[x] = l.prev[x]
      /\ \A side2 \in Sides, p2 \in Prices : (side2 # side0 \/ p2 # p0) =>
           l1.head[side2][p2] = l.head[side2][p2] /\ l1.tail[side2][p2] = l.tail[side2][p2]
  <2>1. Unlinked(l, l1, side0, p0, q0, s)
    BY <1>2, <1>3, <1>4, ChainRemove, ZenonT(30)
  <2> QED
    BY <2>1, Zenon DEF Unlinked
<1>6. Range(r) = Range(q0) \ {s}
  BY <1>2, <1>4, ListRemove, SMTT(30)
<1> HIDE DEF r
<1>7. ASSUME NEW side \in Sides, NEW p \in Prices
      PROVE  Chain(l1, side, p, QueueAt(lv1, side, p))
  <2>1. CASE side = side0 /\ p = p0
    BY <1>4, <1>5, <2>1, ZenonT(30)
  <2>2. CASE ~(side = side0 /\ p = p0)
    <3> DEFINE q == QueueAt(lv0, side, p)
    <3>1. q \in Seq(Slots) /\ Chain(l, side, p, q) /\ OrdersAt(lv0, side, p) = Range(q)
      BY <1>1, Zenon DEF LinksOf
    <3>2. QueueAt(lv1, side, p) = q
      BY <2>2, ZenonT(30)
    <3> HIDE DEF q
    <3>3. \A x \in Range(q) : x \in Slots /\ x \notin Range(q0)
      <4>1. \A x \in Range(q) : x \in Slots
        BY <3>1, SMTT(30) DEF Range
      <4>2. ASSUME NEW x \in OrdersAt(lv0, side, p) PROVE x \notin OrdersAt(lv0, side0, p0)
        BY <2>2, Zenon DEF Apart
      <4> QED
        BY <1>4, <3>1, <4>1, <4>2, ZenonT(30)
    <3>4. \A x \in Range(q) : l1.next[x] = l.next[x] /\ l1.prev[x] = l.prev[x]
      BY <1>5, <3>3, ZenonT(30)
    <3>5. l1.head[side][p] = l.head[side][p] /\ l1.tail[side][p] = l.tail[side][p]
      BY <1>5, <2>2, ZenonT(30)
    <3> QED
      BY <3>1, <3>2, <3>4, <3>5, ChainFrame, ZenonT(30)
  <2> QED
    BY <2>1, <2>2, Zenon
<1>8. ASSUME NEW x \in Slots, OnNoLevel(lv1, x)
      PROVE  l1.next[x] = NoSlot /\ l1.prev[x] = NoSlot
  <2>1. CASE x = s
    BY <1>5, <2>1, ZenonT(30)
  <2>2. CASE x # s
    <3>1. x \notin Range(q0)
      BY <1>1, <1>4, <1>6, <1>8, <2>2, SMTT(30) DEF OnNoLevel
    <3>2. OnNoLevel(lv0, x)
      <4> SUFFICES ASSUME NEW side \in Sides, NEW p \in Prices PROVE x \notin OrdersAt(lv0, side, p)
        BY Zenon DEF OnNoLevel
      <4>1. CASE side = side0 /\ p = p0
        BY <1>4, <3>1, <4>1, ZenonT(30)
      <4>2. CASE ~(side = side0 /\ p = p0)
        <5>1. QueueAt(lv1, side, p) = QueueAt(lv0, side, p)
          BY <4>2, Zenon
        <5> QED
          BY <1>1, <1>8, <5>1, SMTT(30) DEF OnNoLevel
      <4> QED
        BY <4>1, <4>2, ZenonT(30)
    <3> QED
      BY <1>5, <3>1, <3>2, ZenonT(30) DEF LinksOf
  <2> QED
    BY <2>1, <2>2, Zenon
<1> QED
  BY <1>5, <1>7, <1>8, ZenonT(30) DEF LinksOf, l1

\* The queues are all that the links depend on.
LEMMA LinksSame ==
  ASSUME NEW lv0 \in Levels, QueuesOK(lv0), NEW lv1 \in Levels, QueuesOK(lv1),
         NEW l, LinksOf(l, lv0),
         \A side \in Sides, p \in Prices : QueueAt(lv1, side, p) = QueueAt(lv0, side, p)
  PROVE  LinksOf(l, lv1)
<1>1. \A side \in Sides, p \in Prices : OrdersAt(lv1, side, p) = OrdersAt(lv0, side, p)
  BY ListQueue, ZenonT(60)
<1>2. \A s \in Slots : OnNoLevel(lv1, s) => OnNoLevel(lv0, s)
  BY <1>1, Zenon DEF OnNoLevel
<1> QED
  BY <1>2, Zenon DEF LinksOf

-----------------------------------------------------------------------------
(* The free list *)

Pools == [freeHead : Slots \cup {NoSlot}, allocated : Int, stored : [Slots -> Slots \cup {NoSlot}]]

\* c is the free list of the pool: m slots, each stored in the one before, then
\* null.
ChainOf(pl, m, c) ==
  /\ c \in [0 .. m -> Slots \cup {NoSlot}]
  /\ c[0] = pl.freeHead /\ c[m] = NoSlot
  /\ \A i \in 0 .. m - 1 : c[i] \in Slots /\ c[i + 1] = pl.stored[c[i]]
  /\ \A i, j \in 0 .. m - 1 : c[i] = c[j] => i = j

\* The free list goes through the slots of F and allocatedCount() is the number
\* of the others.
FreeChain(pl, F) ==
  /\ pl \in Pools
  /\ \E m \in Nat : \E c \in [0 .. m -> Slots \cup {NoSlot}] :
       /\ ChainOf(pl, m, c)
       /\ F = {c[i] : i \in 0 .. m - 1}
       /\ pl.allocated = Cardinality(Slots) - m

\* popFree and allocate take the first slot off the list.
LEMMA PopChain ==
  ASSUME NEW pl, NEW F, FreeChain(pl, F), pl.freeHead # NoSlot
  PROVE  /\ pl.freeHead \in F /\ pl.freeHead \in Slots
         /\ FreeChain(allocate(pl), F \ {pl.freeHead})
<1>1. /\ pl \in Pools /\ pl.freeHead \in Slots \cup {NoSlot} /\ pl.allocated \in Int
      /\ pl.stored \in [Slots -> Slots \cup {NoSlot}]
  BY Zenon DEF FreeChain, Pools
<1>2. PICK m \in Nat : \E c \in [0 .. m -> Slots \cup {NoSlot}] :
        ChainOf(pl, m, c) /\ F = {c[i] : i \in 0 .. m - 1} /\ pl.allocated = Cardinality(Slots) - m
  BY Zenon DEF FreeChain
<1>3. PICK c \in [0 .. m -> Slots \cup {NoSlot}] :
        ChainOf(pl, m, c) /\ F = {c[i] : i \in 0 .. m - 1} /\ pl.allocated = Cardinality(Slots) - m
  BY <1>2, Zenon
<1> DEFINE h == pl.freeHead
           p1 == allocate(pl)
<1>4. /\ c[0] = h /\ c[m] = NoSlot
      /\ \A i \in 0 .. m - 1 : c[i] \in Slots /\ c[i + 1] = pl.stored[c[i]]
      /\ \A i, j \in 0 .. m - 1 : c[i] = c[j] => i = j
  BY <1>3, ZenonT(60) DEF ChainOf
<1>5. m # 0 /\ h \in Slots /\ 0 \in 0 .. m - 1 /\ m - 1 \in Nat
  BY <1>1, <1>4, SMTT(30)
<1>6. Cardinality(Slots) \in Int
  BY SlotsAssumption, FS_CardinalityType, SMTT(30)
<1>7. /\ p1.freeHead = pl.stored[h] /\ p1.allocated = pl.allocated + 1
      /\ p1.stored = [pl.stored EXCEPT ![h] = NoSlot]
      /\ p1 \in Pools
  <2>2. p1 = [freeHead |-> pl.stored[h], allocated |-> pl.allocated + 1,
              stored |-> [pl.stored EXCEPT ![h] = NoSlot]]
    <3> DEFINE st == [pl.stored EXCEPT ![h] = NoSlot]
               nh == pl.stored[h]
    <3>1. popFree(pl) = [freeHead |-> nh, allocated |-> pl.allocated, stored |-> st]
      BY Zenon DEF popFree
    <3> HIDE DEF st, nh
    <3>2. allocate(pl) = [freeHead |-> nh, allocated |-> pl.allocated + 1, stored |-> st]
      BY <3>1, SMTT(30) DEF allocate
    <3> QED
      BY <3>2, Zenon DEF st, nh
  <2>3. pl.stored[h] \in Slots \cup {NoSlot} /\ pl.allocated + 1 \in Int
        /\ [pl.stored EXCEPT ![h] = NoSlot] \in [Slots -> Slots \cup {NoSlot}]
    BY <1>1, <1>5, SMTT(30)
  <2> HIDE DEF p1
  <2> QED
    BY <2>2, <2>3, ZenonT(30) DEF Pools
<1> DEFINE n == m - 1
           d == [i \in 0 .. n |-> c[i + 1]]
<1>8. d \in [0 .. n -> Slots \cup {NoSlot}]
  BY <1>5
<1> HIDE DEF p1, h
<1>9. ChainOf(p1, n, d)
  <2>1. d[0] = p1.freeHead /\ d[n] = NoSlot
    BY <1>4, <1>5, <1>7, SMTT(30)
  <2>2. ASSUME NEW i \in 0 .. n - 1 PROVE d[i] \in Slots /\ d[i + 1] = p1.stored[d[i]]
    <3>1. i + 1 \in 0 .. m - 1 /\ i + 1 # 0 /\ d[i] = c[i + 1] /\ d[i + 1] = c[(i + 1) + 1]
      BY <1>5
    <3>2. c[i + 1] \in Slots /\ c[(i + 1) + 1] = pl.stored[c[i + 1]] /\ c[i + 1] # h
      BY <1>4, <1>5, <3>1, ZenonT(30)
    <3> QED
      BY <1>1, <1>7, <3>1, <3>2, ZenonT(30)
  <2>3. ASSUME NEW i \in 0 .. n - 1, NEW j \in 0 .. n - 1, d[i] = d[j] PROVE i = j
    <3>1. i + 1 \in 0 .. m - 1 /\ j + 1 \in 0 .. m - 1 /\ c[i + 1] = c[j + 1]
      BY <1>5, <2>3, SMTT(30)
    <3>2. i + 1 = j + 1
      BY <1>4, <3>1, ZenonT(30)
    <3> QED
      BY <3>2, SMTT(30)
  <2> HIDE DEF d
  <2> QED
    BY <1>8, <2>1, <2>2, <2>3, ZenonT(30) DEF ChainOf
<1>10. F \ {h} = {d[i] : i \in 0 .. n - 1}
  <2>1. ASSUME NEW x \in F \ {h} PROVE \E i \in 0 .. n - 1 : x = d[i]
    <3>1. PICK j \in 0 .. m - 1 : x = c[j]
      BY <1>3, ZenonT(60)
    <3>2. j # 0 /\ j - 1 \in 0 .. n - 1 /\ (j - 1) + 1 = j
      BY <1>4, <1>5, <2>1, <3>1, SMTT(30)
    <3>3. d[j - 1] = c[(j - 1) + 1]
      BY <1>5, <3>2, SMTT(30)
    <3> QED
      BY <3>1, <3>2, <3>3, ZenonT(30)
  <2>2. ASSUME NEW i \in 0 .. n - 1 PROVE d[i] \in F \ {h}
    <3>1. i + 1 \in 0 .. m - 1 /\ d[i] = c[i + 1] /\ i + 1 # 0
      BY <1>5, SMTT(30)
    <3>2. c[i + 1] \in F
      BY <1>3, <3>1, ZenonT(60)
    <3>3. c[i + 1] # h
      BY <1>4, <1>5, <3>1, ZenonT(60)
    <3> QED
      BY <3>1, <3>2, <3>3, ZenonT(60)
  <2> HIDE DEF d
  <2> QED
    BY <2>1, <2>2, SMTT(30)
<1>11. p1.allocated = Cardinality(Slots) - n
  BY <1>1, <1>3, <1>6, <1>7, SMTT(30)
<1>12. h \in F
  BY <1>3, <1>4, <1>5, ZenonT(30)
<1>13. FreeChain(p1, F \ {h})
  <2> HIDE DEF d, n
  <2>1. n \in Nat
    BY <1>5, Zenon DEF n
  <2> QED
    BY <1>7, <1>8, <1>9, <1>10, <1>11, <2>1, ZenonT(30) DEF FreeChain
<1> QED
  BY <1>5, <1>12, <1>13, ZenonT(30) DEF p1, h

\* pushFree and deallocate put a slot that is not free in front of the list.
LEMMA PushChain ==
  ASSUME NEW pl, NEW F, FreeChain(pl, F), NEW s \in Slots, s \notin F
  PROVE  FreeChain(deallocate(pl, s), F \cup {s})
<1>1. /\ pl \in Pools /\ pl.freeHead \in Slots \cup {NoSlot} /\ pl.allocated \in Int
      /\ pl.stored \in [Slots -> Slots \cup {NoSlot}]
  BY Zenon DEF FreeChain, Pools
<1>2. PICK m \in Nat : \E c \in [0 .. m -> Slots \cup {NoSlot}] :
        ChainOf(pl, m, c) /\ F = {c[i] : i \in 0 .. m - 1} /\ pl.allocated = Cardinality(Slots) - m
  BY Zenon DEF FreeChain
<1>3. PICK c \in [0 .. m -> Slots \cup {NoSlot}] :
        ChainOf(pl, m, c) /\ F = {c[i] : i \in 0 .. m - 1} /\ pl.allocated = Cardinality(Slots) - m
  BY <1>2, Zenon
<1> DEFINE p1 == deallocate(pl, s)
<1>4. /\ c[0] = pl.freeHead /\ c[m] = NoSlot
      /\ \A i \in 0 .. m - 1 : c[i] \in Slots /\ c[i + 1] = pl.stored[c[i]] /\ c[i] # s
      /\ \A i, j \in 0 .. m - 1 : c[i] = c[j] => i = j
  BY <1>3 DEF ChainOf
<1>5. Cardinality(Slots) \in Int
  BY SlotsAssumption, FS_CardinalityType, SMTT(30)
<1>6. /\ p1.freeHead = s /\ p1.allocated = pl.allocated - 1
      /\ p1.stored = [pl.stored EXCEPT ![s] = pl.freeHead]
      /\ p1 \in Pools
  <2>2. p1 = [freeHead |-> s, allocated |-> pl.allocated - 1,
              stored |-> [pl.stored EXCEPT ![s] = pl.freeHead]]
    BY DEF deallocate, pushFree
  <2> QED
    BY <1>1, <2>2, SMTT(30) DEF Pools
<1> DEFINE n == m + 1
           d == [i \in 0 .. n |-> IF i = 0 THEN s ELSE c[i - 1]]
<1>7. d \in [0 .. n -> Slots \cup {NoSlot}] /\ d[0] = s
      /\ \A i \in 0 .. m : i + 1 \in 0 .. n /\ d[i + 1] = c[i]
  OBVIOUS
<1> HIDE DEF p1, d
<1>8. ChainOf(p1, n, d)
  <2>1. d[n] = NoSlot
    BY <1>4, <1>7, SMTT(30)
  <2>2. ASSUME NEW i \in 0 .. n - 1 PROVE d[i] \in Slots /\ d[i + 1] = p1.stored[d[i]]
    <3>1. CASE i = 0
      BY <1>1, <1>4, <1>6, <1>7, <3>1, SMTT(30)
    <3>2. CASE i # 0
      <4>1. i - 1 \in 0 .. m - 1 /\ (i - 1) + 1 = i /\ i \in 0 .. m
        BY <3>2, SMTT(30)
      <4>2. d[i] = c[i - 1] /\ d[i + 1] = c[i]
        BY <1>7, <4>1, SMTT(30)
      <4>3. c[i - 1] \in Slots /\ c[i] = pl.stored[c[i - 1]] /\ c[i - 1] # s
        BY <1>4, <4>1, ZenonT(30)
      <4> QED
        BY <1>1, <1>6, <4>2, <4>3, ZenonT(60)
    <3> QED
      BY <3>1, <3>2, ZenonT(30)
  <2>3. ASSUME NEW i \in 0 .. n - 1, NEW j \in 0 .. n - 1, d[i] = d[j] PROVE i = j
    <3>1. ASSUME NEW k \in 0 .. n - 1, k # 0
          PROVE  k - 1 \in 0 .. m - 1 /\ d[k] = c[k - 1] /\ d[k] # s
      <4>1. k - 1 \in 0 .. m - 1 /\ (k - 1) + 1 = k
        BY <3>1, SMTT(30)
      <4>2. d[k] = c[k - 1]
        BY <1>7, <4>1, SMTT(30)
      <4>3. c[k - 1] # s
        BY <1>4, <4>1, ZenonT(30)
      <4> QED
        BY <4>1, <4>2, <4>3, ZenonT(30)
    <3>2. CASE i = 0 \/ j = 0
      BY <1>7, <2>3, <3>1, <3>2, ZenonT(30)
    <3>3. CASE i # 0 /\ j # 0
      <4>1. i - 1 = j - 1
        BY <1>4, <2>3, <3>1, <3>3, ZenonT(60)
      <4> QED
        BY <4>1
    <3> QED
      BY <3>2, <3>3, Zenon
  <2> QED
    BY <1>6, <1>7, <2>1, <2>2, <2>3, ZenonT(30) DEF ChainOf
<1>9. F \cup {s} = {d[i] : i \in 0 .. n - 1}
  <2>1. ASSUME NEW x \in F \cup {s} PROVE \E i \in 0 .. n - 1 : x = d[i]
    <3>1. CASE x = s
      BY <1>7, <3>1, SMTT(30)
    <3>2. CASE x \in F
      <4>1. PICK j \in 0 .. m - 1 : x = c[j]
        BY <1>3, <3>2, ZenonT(60)
      <4>2. j + 1 \in 0 .. n - 1 /\ d[j + 1] = c[j]
        BY <1>7, SMTT(30)
      <4> QED
        BY <4>1, <4>2, ZenonT(30)
    <3> QED
      BY <3>1, <3>2, ZenonT(30)
  <2>2. ASSUME NEW i \in 0 .. n - 1 PROVE d[i] \in F \cup {s}
    <3>1. CASE i = 0
      BY <1>7, <3>1, ZenonT(30)
    <3>2. CASE i # 0
      <4>1. i - 1 \in 0 .. m - 1 /\ i - 1 \in 0 .. m /\ (i - 1) + 1 = i
        BY <3>2, SMTT(30)
      <4>2. d[i] = c[i - 1]
        BY <1>7, <4>1, ZenonT(60)
      <4>3. c[i - 1] \in F
        BY <1>3, <4>1, ZenonT(60)
      <4> QED
        BY <4>2, <4>3, ZenonT(60)
    <3> QED
      BY <3>1, <3>2, ZenonT(30)
  <2> QED
    BY <2>1, <2>2, ZenonT(60)
<1>10. p1.allocated = Cardinality(Slots) - n
  BY <1>1, <1>3, <1>5, <1>6, SMTT(30)
<1>11. FreeChain(p1, F \cup {s})
  <2> HIDE DEF n
  <2>1. n \in Nat
    BY DEF n
  <2> QED
    BY <1>6, <1>7, <1>8, <1>9, <1>10, <2>1, ZenonT(30) DEF FreeChain
<1> QED
  BY <1>11, Zenon DEF p1

-----------------------------------------------------------------------------
(* The free list is exact, and that of a new pool *)

\* Walking the free list follows the chain.
LEMMA FreeWalk ==
  ASSUME NEW m \in Nat, NEW c, ChainOf(pool, m, c), NEW k \in 0 .. m
  PROVE  FreeAt(k) = c[k]
<1>1. /\ c \in [0 .. m -> Slots \cup {NoSlot}]
      /\ c[0] = pool.freeHead
      /\ \A i \in 0 .. m - 1 : c[i] \in Slots /\ c[i + 1] = pool.stored[c[i]]
  BY Zenon DEF ChainOf
<1> DEFINE f == CHOOSE g : g = [i \in 0 .. k |->
                  IF i = 0 THEN pool.freeHead
                  ELSE IF g[i - 1] = NoSlot THEN NoSlot ELSE pool.stored[g[i - 1]]]
           cut == [i \in 0 .. k |-> c[i]]
<1>2. cut = [i \in 0 .. k |-> IF i = 0 THEN pool.freeHead
                              ELSE IF cut[i - 1] = NoSlot THEN NoSlot ELSE pool.stored[cut[i - 1]]]
  <2>1. ASSUME NEW i \in 0 .. k
        PROVE  cut[i] = IF i = 0 THEN pool.freeHead
                        ELSE IF cut[i - 1] = NoSlot THEN NoSlot ELSE pool.stored[cut[i - 1]]
    <3>1. CASE i = 0
      BY <1>1, <3>1, ZenonT(30)
    <3>2. CASE i # 0
      <4>1. i - 1 \in 0 .. m - 1 /\ i - 1 \in 0 .. k /\ (i - 1) + 1 = i
        BY <3>2
      <4>2. cut[i - 1] = c[i - 1] /\ cut[i] = c[i] /\ c[i - 1] \in Slots
            /\ c[i] = pool.stored[c[i - 1]] /\ c[i - 1] # NoSlot
        BY <1>1, <4>1, NullAssumption, ZenonT(30)
      <4> QED
        BY <3>2, <4>2, ZenonT(30)
    <3> QED
      BY <3>1, <3>2, ZenonT(30)
  <2> QED
    BY <2>1, Zenon
<1>3. f = [i \in 0 .. k |-> IF i = 0 THEN pool.freeHead
                            ELSE IF f[i - 1] = NoSlot THEN NoSlot ELSE pool.stored[f[i - 1]]]
  <2> HIDE DEF cut
  <2> QED
    BY <1>2, Zenon
<1>4. FreeAt(k) = f[k]
  BY ZenonT(60) DEF FreeAt
<1> HIDE DEF f
<1>5. /\ f[0] = pool.freeHead
      /\ \A i \in 1 .. k : f[i] = IF f[i - 1] = NoSlot THEN NoSlot ELSE pool.stored[f[i - 1]]
  BY <1>3, SMTT(30)
<1> DEFINE T == {i \in 0 .. k : f[i] # c[i]}
<1>6. T = {}
  <2> SUFFICES ASSUME T # {} PROVE FALSE
    BY Zenon
  <2>1. T \subseteq Nat
    OBVIOUS
  <2>2. PICK i \in T : \A j \in T : i <= j
    BY <2>1, LeastPlace, ZenonT(60)
  <2>3. i # 0 /\ i \in 1 .. k /\ i - 1 \in 0 .. k /\ i - 1 \in 0 .. m - 1 /\ (i - 1) + 1 = i
    BY <1>1, <1>5, <2>2, SMTT(30)
  <2>4. f[i - 1] = c[i - 1]
    BY <2>2, <2>3, SMTT(30)
  <2>5. c[i - 1] # NoSlot /\ c[i] = pool.stored[c[i - 1]]
    BY <1>1, <2>3, NullAssumption, ZenonT(30)
  <2>6. f[i] = c[i]
    BY <1>5, <2>3, <2>4, <2>5, ZenonT(30)
  <2> QED
    BY <2>2, <2>6, Zenon
<1> QED
  BY <1>4, <1>6, SMTT(30)

\* A list without repetitions is as long as it has slots.
LEMMA ChainLength ==
  ASSUME NEW m \in Nat, NEW c, NEW F,
         \A i, j \in 0 .. m - 1 : c[i] = c[j] => i = j, F = {c[i] : i \in 0 .. m - 1}
  PROVE  IsFiniteSet(F) /\ Cardinality(F) = m
<1> DEFINE S == 0 .. m - 1
           g == [i \in S |-> c[i]]
<1>1. g \in Bijection(S, F)
  BY Zenon DEF Bijection, Injection, Surjection, IsInjective
<1>2. IsFiniteSet(S) /\ Cardinality(S) = m
  <2>1. 0 \in Int /\ m - 1 \in Int
    OBVIOUS
  <2>2. IsFiniteSet(S) /\ Cardinality(S) = IF 0 > m - 1 THEN 0 ELSE (m - 1) - 0 + 1
    BY <2>1, FS_Interval, ZenonT(30)
  <2> HIDE DEF S
  <2> QED
    BY <2>2
<1>3. ExistsBijection(S, F)
  BY <1>1, Zenon DEF ExistsBijection
<1> HIDE DEF S
<1> QED
  BY <1>2, <1>3, FS_Bijection, ZenonT(60)

\* The chain through the slots without an Order is what FreeListExact asks for.
LEMMA ChainIsExact ==
  ASSUME FreeChain(pool, {s \in Slots : slab[s] = NoOrder})
  PROVE  FreeListExact
<1> DEFINE F == {s \in Slots : slab[s] = NoOrder}
           card == Cardinality(F)
<1>1. PICK m \in Nat : \E c \in [0 .. m -> Slots \cup {NoSlot}] :
        ChainOf(pool, m, c) /\ F = {c[i] : i \in 0 .. m - 1} /\ pool.allocated = Cardinality(Slots) - m
  BY Zenon DEF FreeChain
<1>2. PICK c \in [0 .. m -> Slots \cup {NoSlot}] :
        ChainOf(pool, m, c) /\ F = {c[i] : i \in 0 .. m - 1} /\ pool.allocated = Cardinality(Slots) - m
  BY <1>1, Zenon
<1>3. \A i, j \in 0 .. m - 1 : c[i] = c[j] => i = j
  BY <1>2, Zenon DEF ChainOf
<1>4. c[m] = NoSlot
  BY <1>2, Zenon DEF ChainOf
<1> HIDE DEF F
<1>5. IsFiniteSet(F) /\ card = m
  BY <1>2, <1>3, ChainLength, ZenonT(30)
<1>6. \A k \in 0 .. m : FreeAt(k) = c[k]
  BY <1>2, FreeWalk, ZenonT(30)
<1>7. {FreeAt(k) : k \in 0 .. card - 1} = F
  <2>1. \A k \in 0 .. m - 1 : FreeAt(k) = c[k]
    BY <1>6
  <2> QED
    BY <1>2, <1>5, <2>1, ZenonT(30)
<1>8. FreeAt(card) = NoSlot
  BY <1>4, <1>5, <1>6, SMTT(30)
<1>9. pool.allocated = Cardinality(Slots \ F)
  <2>1. Cardinality(Slots \ F) = Cardinality(Slots) - Cardinality(Slots \cap F)
    BY SlotsAssumption, FS_Difference, ZenonT(30)
  <2>2. Slots \cap F = F
    BY Zenon DEF F
  <2> QED
    BY <1>2, <1>5, <2>1, <2>2, ZenonT(30)
<1> QED
  BY <1>7, <1>8, <1>9, ZenonT(30) DEF FreeListExact, F

\* The pool the constructor leaves is such a chain through every slot.
LEMMA NewPoolChain ==
  ASSUME NEW order \in Bijection(1 .. Cardinality(Slots), Slots)
  PROVE  FreeChain(NewPool(order), Slots)
<1> DEFINE n == Cardinality(Slots)
<1>1. n \in Nat /\ IsFiniteSet(Slots)
  BY SlotsAssumption, FS_CardinalityType, ZenonT(30)
<1>2. order \in [1 .. n -> Slots] /\ IsInjective(order)
  BY Zenon DEF Bijection, Injection
<1>4. \A s \in Slots : \E i \in 1 .. n : order[i] = s
  BY Zenon DEF Bijection, Surjection
<1> HIDE DEF n
<1>3. order \in Seq(Slots) /\ Len(order) = n /\ DOMAIN order = 1 .. n /\ IsInjective(order)
  BY <1>1, <1>2
<1> DEFINE pl == NewPool(order)
<1>5. \A i \in 1 .. n : PositionOf(order, order[i]) = i
  BY <1>3, ListPlace, ZenonT(30)
<1>6. \A i \in 1 .. n : pl.stored[order[i]] = IF i = 1 THEN NoSlot ELSE order[i - 1]
  BY <1>2, <1>5, ZenonT(30) DEF NewPool
<1>7. pl.freeHead = IF n = 0 THEN NoSlot ELSE order[n]
  BY <1>3, Zenon DEF NewPool
<1>8. pl.stored \in [Slots -> Slots \cup {NoSlot}]
  <2>1. ASSUME NEW s \in Slots
        PROVE  (IF PositionOf(order, s) = 1 THEN NoSlot ELSE order[PositionOf(order, s) - 1]) \in Slots \cup {NoSlot}
    <3>1. PICK i \in 1 .. n : order[i] = s
      BY <1>4, Zenon
    <3>2. PositionOf(order, s) = i
      BY <1>5, <3>1, ZenonT(30)
    <3>3. i # 1 => order[i - 1] \in Slots
      BY <1>1, <1>2, SMTT(30)
    <3> QED
      BY <3>2, <3>3, ZenonT(30)
  <2> QED
    BY <2>1, Zenon DEF NewPool
<1>9. pl \in Pools
  <2>1. pl = [freeHead |-> pl.freeHead, allocated |-> 0, stored |-> pl.stored]
    BY Zenon DEF NewPool
  <2>2. pl.freeHead \in Slots \cup {NoSlot}
    BY <1>1, <1>2, <1>7, SMTT(30)
  <2> HIDE DEF pl
  <2> QED
    BY <1>8, <2>1, <2>2, SMTT(30) DEF Pools
<1>10. pl.allocated = n - n
  BY <1>1, SMTT(30) DEF NewPool
<1> HIDE DEF pl
<1> DEFINE c == [i \in 0 .. n |-> IF i = n THEN NoSlot ELSE order[n - i]]
<1>11. c \in [0 .. n -> Slots \cup {NoSlot}] /\ c[n] = NoSlot
       /\ \A i \in 0 .. n - 1 : c[i] = order[n - i] /\ n - i \in 1 .. n
  BY <1>1, <1>2, SMTT(30)
<1>12. c[0] = pl.freeHead
  BY <1>1, <1>7, SMTT(30)
<1> HIDE DEF c
<1>13. ASSUME NEW i \in 0 .. n - 1 PROVE c[i] \in Slots /\ c[i + 1] = pl.stored[c[i]]
  <2>1. c[i] = order[n - i] /\ n - i \in 1 .. n
    BY <1>11, ZenonT(30)
  <2>2. pl.stored[c[i]] = IF n - i = 1 THEN NoSlot ELSE order[(n - i) - 1]
    BY <1>6, <2>1, ZenonT(60)
  <2>3. CASE i = n - 1
    BY <1>1, <1>2, <1>11, <2>1, <2>2, <2>3, SMTT(30)
  <2>4. CASE i # n - 1
    <3>1. i + 1 \in 0 .. n - 1 /\ n - (i + 1) = (n - i) - 1 /\ n - i # 1
      BY <1>1, <2>4, SMTT(30)
    <3> QED
      BY <1>2, <1>11, <2>1, <2>2, <3>1, ZenonT(30)
  <2> QED
    BY <2>3, <2>4, ZenonT(30)
<1>14. ASSUME NEW i \in 0 .. n - 1, NEW j \in 0 .. n - 1, c[i] = c[j] PROVE i = j
  <2>1. n - i \in 1 .. n /\ n - j \in 1 .. n /\ order[n - i] = order[n - j]
    BY <1>11, <1>14, ZenonT(30)
  <2>2. n - i = n - j
    BY <1>3, <2>1, ZenonT(30) DEF IsInjective
  <2> QED
    BY <1>1, <2>2, SMTT(30)
<1>15. ChainOf(pl, n, c)
  BY <1>11, <1>12, <1>13, <1>14, ZenonT(30) DEF ChainOf
<1>16. Slots = {c[i] : i \in 0 .. n - 1}
  <2>1. ASSUME NEW s \in Slots PROVE \E i \in 0 .. n - 1 : s = c[i]
    <3>1. PICK k \in 1 .. n : order[k] = s
      BY <1>4, Zenon
    <3>2. n - k \in 0 .. n - 1 /\ n - (n - k) = k
      BY <1>1
    <3>3. c[n - k] = order[n - (n - k)]
      BY <1>11, <3>2, ZenonT(30)
    <3> QED
      BY <3>1, <3>2, <3>3, ZenonT(30)
  <2> QED
    BY <1>13, <2>1, ZenonT(30)
<1> QED
  BY <1>1, <1>9, <1>10, <1>11, <1>15, <1>16, ZenonT(30) DEF FreeChain, pl, n
=============================================================================
