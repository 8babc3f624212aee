-------------------------- MODULE PrimitivesProofs --------------------------
(***************************************************************************)
(* The blocking primitives of infra/ keep their promises for every number  *)
(* of threads: no wake-up of a semaphore is lost, however many units are   *)
(* released at once, no value of ThreadSafeQueue is lost or reordered, and *)
(* the only notification Eventcount can miss is the one in its window.     *)
(***************************************************************************)
EXTENDS BlockingPrimitives, FiniteSetTheorems, SequenceTheorems, TLAPS

(* Sums over the threads, as cardinalities of sets of tickets *)

MaxWeight == MaxRelease + Cardinality(Threads) + 1
Weights == [Threads -> 0 .. MaxWeight]

\* One ticket for every unit of weight of a thread.
Tickets(w) == {x \in Threads \X (1 .. MaxWeight) : x[2] <= w[x[1]]}
Total(w) == Cardinality(Tickets(w))

\* The largest weight is a number.
LEMMA MaxWeightNat == MaxWeight \in Nat /\ MaxWeight > 0 /\ Cardinality(Threads) \in Nat
<1>1. Cardinality(Threads) \in Nat
  BY FS_CardinalityType, PrimitivesAssumption
<1>2. MaxRelease \in Nat
  BY PrimitivesAssumption
<1> QED
  BY <1>1, <1>2 DEF MaxWeight

\* Sets of tickets are finite.
LEMMA TicketsFinite ==
  ASSUME NEW T \in SUBSET (Threads \X (1 .. MaxWeight))
  PROVE  IsFiniteSet(T) /\ Cardinality(T) \in Nat
<1>1. IsFiniteSet(1 .. MaxWeight)
  <2>1. MaxWeight \in Int /\ 1 \in Int
    BY MaxWeightNat
  <2> QED
    BY <2>1, FS_Interval, Zenon
<1>2. IsFiniteSet(Threads \X (1 .. MaxWeight))
  BY <1>1, FS_Product, PrimitivesAssumption, Zenon
<1>3. IsFiniteSet(T)
  BY <1>2, FS_Subset, Zenon
<1> QED
  BY <1>3, FS_CardinalityType, Zenon

\* A total is a number.
LEMMA TotalNat ==
  ASSUME NEW w
  PROVE  IsFiniteSet(Tickets(w)) /\ Total(w) \in Nat
<1>1. Tickets(w) \in SUBSET (Threads \X (1 .. MaxWeight))
  BY Zenon DEF Tickets
<1> QED
  BY <1>1, TicketsFinite, Zenon DEF Total

\* The cardinality of two sets of tickets that have none in common.
LEMMA TwoParts ==
  ASSUME NEW S, NEW T, IsFiniteSet(S), IsFiniteSet(T), \A x \in S : x \notin T
  PROVE  Cardinality(S \cup T) = Cardinality(S) + Cardinality(T)
<1>1. S \cap T = {}
  BY Zenon
<1>2. Cardinality(S \cap T) = 0
  BY <1>1, FS_EmptySet, Zenon
<1>3. Cardinality(S \cup T) = Cardinality(S) + Cardinality(T) - Cardinality(S \cap T)
  BY FS_Union, Zenon
<1>4. Cardinality(S) \in Nat /\ Cardinality(T) \in Nat
  BY FS_CardinalityType, Zenon
<1> QED
  BY <1>2, <1>3, <1>4

\* The tickets of one thread.
LEMMA OwnTickets ==
  ASSUME NEW t \in Threads, NEW k \in 0 .. MaxWeight
  PROVE  IsFiniteSet({t} \X (1 .. k)) /\ Cardinality({t} \X (1 .. k)) = k
<1>1. 1 \in Int /\ k \in Int /\ k \in Nat
  BY MaxWeightNat
<1>2. IsFiniteSet(1 .. k) /\ Cardinality(1 .. k) = IF 1 > k THEN 0 ELSE k - 1 + 1
  BY <1>1, FS_Interval, Zenon
<1>3. Cardinality(1 .. k) = k
  BY <1>1, <1>2
<1>4. IsFiniteSet({t}) /\ Cardinality({t}) = 1
  BY FS_Singleton, Zenon
<1>5. /\ IsFiniteSet({t} \X (1 .. k))
      /\ Cardinality({t} \X (1 .. k)) = Cardinality({t}) * Cardinality(1 .. k)
  BY <1>2, <1>4, FS_Product, Zenon
<1> QED
  BY <1>1, <1>3, <1>4, <1>5, SMTT(30)

\* A total is what one thread adds and what the others add.
LEMMA TotalSplit ==
  ASSUME NEW w \in Weights, NEW t \in Threads
  PROVE  LET rest == {x \in Tickets(w) : x[1] # t}
         IN Cardinality(rest) \in Nat /\ Total(w) = Cardinality(rest) + w[t]
<1> DEFINE rest == {x \in Tickets(w) : x[1] # t}
           own == {t} \X (1 .. w[t])
<1>1. w[t] \in 0 .. MaxWeight
  BY DEF Weights
<1>2. IsFiniteSet(own) /\ Cardinality(own) = w[t]
  BY <1>1, OwnTickets, Zenon
<1>3. IsFiniteSet(rest) /\ Cardinality(rest) \in Nat
  <2>1. rest \in SUBSET (Threads \X (1 .. MaxWeight))
    BY Zenon DEF Tickets
  <2> QED
    BY <2>1, TicketsFinite, Zenon
<1>4. Tickets(w) = rest \cup own
  <2>1. ASSUME NEW x \in Tickets(w), x[1] = t PROVE x \in own
    BY <2>1, <1>1, MaxWeightNat DEF Tickets
  <2>2. ASSUME NEW x \in own PROVE x \in Tickets(w)
    BY <2>2, <1>1, MaxWeightNat, SMTT(30) DEF Tickets
  <2> QED
    BY <2>1, <2>2
<1>5. \A x \in rest : x \notin own
  OBVIOUS
<1> HIDE DEF rest, own
<1>6. Cardinality(Tickets(w)) = Cardinality(rest) + Cardinality(own)
  BY <1>2, <1>3, <1>4, <1>5, TwoParts, Zenon
<1> QED
  BY <1>2, <1>3, <1>6, Zenon DEF rest, Total

\* When one thread changes its weight the total changes with it.
LEMMA TotalMove ==
  ASSUME NEW w \in Weights, NEW v \in Weights, NEW t \in Threads,
         \A u \in Threads \ {t} : v[u] = w[u]
  PROVE  Total(v) + w[t] = Total(w) + v[t]
<1> DEFINE restW == {x \in Tickets(w) : x[1] # t}
           restV == {x \in Tickets(v) : x[1] # t}
<1>1. restW = restV
  <2>1. ASSUME NEW x \in Threads \X (1 .. MaxWeight), x[1] # t PROVE w[x[1]] = v[x[1]]
    BY <2>1
  <2> QED
    BY <2>1 DEF Tickets
<1>2. Cardinality(restW) \in Nat /\ Total(w) = Cardinality(restW) + w[t]
  BY TotalSplit, Zenon
<1>3. Cardinality(restV) \in Nat /\ Total(v) = Cardinality(restV) + v[t]
  BY TotalSplit, Zenon
<1>4. w[t] \in Nat /\ v[t] \in Nat
  BY MaxWeightNat DEF Weights
<1> HIDE DEF restW, restV
<1> QED
  BY <1>1, <1>2, <1>3, <1>4, SMTT(30)

\* Smaller weights have a smaller total.
LEMMA TotalLeast ==
  ASSUME NEW w \in Weights, NEW v \in Weights, \A u \in Threads : v[u] <= w[u]
  PROVE  Total(v) <= Total(w)
<1>1. Tickets(v) \in SUBSET Tickets(w)
  <2>1. ASSUME NEW x \in Tickets(v) PROVE x \in Tickets(w)
    <3>1. x \in Threads \X (1 .. MaxWeight) /\ x[2] <= v[x[1]] /\ x[1] \in Threads /\ x[2] \in Nat
      BY <2>1, MaxWeightNat DEF Tickets
    <3>2. v[x[1]] \in Nat /\ w[x[1]] \in Nat /\ v[x[1]] <= w[x[1]]
      BY <3>1, MaxWeightNat DEF Weights
    <3>3. x[2] <= w[x[1]]
      BY <3>1, <3>2
    <3> QED
      BY <3>1, <3>3, Zenon DEF Tickets
  <2> QED
    BY <2>1, Zenon
<1>2. IsFiniteSet(Tickets(w))
  BY TotalNat, Zenon
<1> QED
  BY <1>1, <1>2, FS_Subset, Zenon DEF Total

\* The total of weights of zero.
LEMMA TotalNothing ==
  ASSUME NEW w \in Weights, \A t \in Threads : w[t] = 0
  PROVE  Total(w) = 0
<1>1. Tickets(w) = {}
  BY MaxWeightNat DEF Tickets
<1> QED
  BY <1>1, FS_EmptySet, Zenon DEF Total

\* When the threads of a set come to a weight of one the total grows by the
\* size of the set.
LEMMA TotalWoken ==
  ASSUME NEW w \in Weights, NEW v \in Weights, NEW W \in SUBSET Threads,
         \A u \in W : w[u] = 0 /\ v[u] = 1,
         \A u \in Threads \ W : v[u] = w[u]
  PROVE  IsFiniteSet(W) /\ Cardinality(W) \in Nat /\ Total(v) = Total(w) + Cardinality(W)
<1>1. IsFiniteSet(W) /\ Cardinality(W) \in Nat
  <2>1. IsFiniteSet(W)
    BY PrimitivesAssumption, FS_Subset, Zenon
  <2> QED
    BY <2>1, FS_CardinalityType, Zenon
<1> DEFINE own == W \X {1}
<1>2. IsFiniteSet(own) /\ Cardinality(own) = Cardinality(W)
  <2>1. IsFiniteSet({1}) /\ Cardinality({1}) = 1
    BY FS_Singleton, Zenon
  <2>2. IsFiniteSet(own) /\ Cardinality(own) = Cardinality(W) * Cardinality({1})
    BY <1>1, <2>1, FS_Product, Zenon
  <2> QED
    BY <1>1, <2>1, <2>2
<1>3. Tickets(v) = Tickets(w) \cup own
  <2>1. ASSUME NEW x \in Tickets(v) PROVE x \in Tickets(w) \cup own
    <3>1. x \in Threads \X (1 .. MaxWeight) /\ x[2] <= v[x[1]] /\ x[1] \in Threads /\ x[2] \in 1 .. MaxWeight
      BY <2>1 DEF Tickets
    <3>2. CASE x[1] \in W
      <4>1. v[x[1]] = 1
        BY <3>2, Zenon
      <4>2. x[2] = 1
        BY <3>1, <4>1, MaxWeightNat
      <4> QED
        BY <3>1, <3>2, <4>2
    <3>3. CASE x[1] \notin W
      <4>1. v[x[1]] = w[x[1]]
        BY <3>1, <3>3, Zenon
      <4> QED
        BY <3>1, <4>1, Zenon DEF Tickets
    <3> QED
      BY <3>2, <3>3, Zenon
  <2>2. ASSUME NEW x \in Tickets(w) PROVE x \in Tickets(v)
    <3>1. x \in Threads \X (1 .. MaxWeight) /\ x[2] <= w[x[1]] /\ x[1] \in Threads /\ x[2] \in 1 .. MaxWeight
      BY <2>2 DEF Tickets
    <3>2. x[1] \notin W
      <4>1. SUFFICES ASSUME x[1] \in W PROVE FALSE
        OBVIOUS
      <4>2. w[x[1]] = 0
        BY <4>1, Zenon
      <4> QED
        BY <3>1, <4>2, MaxWeightNat, SMTT(30)
    <3>3. v[x[1]] = w[x[1]]
      BY <3>1, <3>2, Zenon
    <3> QED
      BY <3>1, <3>3, Zenon DEF Tickets
  <2>3. ASSUME NEW x \in own PROVE x \in Tickets(v)
    <3>1. x \in Threads \X (1 .. MaxWeight) /\ x[1] \in W /\ x[2] = 1
      BY <2>3, MaxWeightNat
    <3>2. v[x[1]] = 1
      BY <3>1, Zenon
    <3> QED
      BY <3>1, <3>2 DEF Tickets
  <2> HIDE DEF own
  <2> QED
    BY <2>1, <2>2, <2>3, Zenon
<1>4. \A x \in Tickets(w) : x \notin own
  <2>1. SUFFICES ASSUME NEW x \in Tickets(w), x \in own PROVE FALSE
    BY Zenon
  <2>2. x[1] \in W /\ x[2] = 1 /\ x[2] <= w[x[1]]
    BY <2>1 DEF Tickets
  <2>3. w[x[1]] = 0
    BY <2>2, Zenon
  <2> QED
    BY <2>2, <2>3
<1> HIDE DEF own
<1>5. IsFiniteSet(Tickets(w)) /\ Total(w) \in Nat
  BY TotalNat, Zenon
<1>6. Cardinality(Tickets(v)) = Cardinality(Tickets(w)) + Cardinality(own)
  BY <1>2, <1>3, <1>4, <1>5, TwoParts, ZenonT(60)
<1> QED
  BY <1>1, <1>2, <1>6, Zenon DEF Total

-----------------------------------------------------------------------------
(* The wake-ups that are on their way *)

\* What a thread at place a, which asks for k wake-ups, still does for the
\* sleepers: it wakes k of them, or takes a unit, or sees that there is none.
Owed(a, k) ==
  IF a \in {"wake", "syscall", "epoch", "notify"} THEN k
  ELSE IF a \in {"delist", "try", "lock", "lock_late"} THEN 1 ELSE 0

\* The part of it that comes after the thread has taken the mutex.
Announced(a, k) == IF a = "epoch" THEN k ELSE 0

Listed(a) == IF a \in {"recheck", "wait", "asleep", "delist", "delist_late"} THEN 1 ELSE 0

OwedBy(p, m) == [t \in Threads |-> Owed(p[t], m[t])]
AnnouncedBy(p, m) == [t \in Threads |-> Announced(p[t], m[t])]
ListedBy(p) == [t \in Threads |-> Listed(p[t])]

\* The units that sleepers could take are covered by wake-ups on their way;
\* while a thread that saw none holds the mutex they are all announced.
Covered ==
  /\ Asleep # {} => m_count <= Total(OwedBy(pc, n))
  /\ owner # NoThread => m_count <= Total(AnnouncedBy(pc, n))

\* A thread that saw its predicate fail keeps the mutex until it sleeps.
Locked ==
  /\ \A t \in Threads : pc[t] = "sleepy" => owner = t
  /\ build = "futex" => owner = NoThread

\* m_waiters counts the threads between their enlist and their delist.
Counted == m_waiters = IF build = "futex" THEN Total(ListedBy(pc)) ELSE 0

\* A thread that notifies one by one has at least one left.
Notifies == \A t \in Threads : pc[t] \in {"notify", "epoch"} => n[t] \in 1 .. MaxRelease

Asks == 0 .. MaxRelease + Cardinality(Threads)

Somewhere == [Threads -> AllPlaces]
Asking == [Threads -> Asks]

PlaceTypes ==
  /\ m_count \in 0 .. MaxCount
  /\ pc \in Somewhere /\ n \in Asking
  /\ owner \in Threads \cup {NoThread}

FlagTypes ==
  /\ m_shutdown \in BOOLEAN
  /\ timed \in [Threads -> BOOLEAN] /\ late \in [Threads -> BOOLEAN]
  /\ moved \in [Threads -> BOOLEAN]

SemInv == PlaceTypes /\ (build \in Builds => Covered /\ Locked /\ Counted /\ Notifies)

\* What a thread owes is a weight.
LEMMA OwedTypes ==
  ASSUME NEW a \in AllPlaces, NEW k \in Asks
  PROVE  /\ Owed(a, k) \in 0 .. MaxWeight /\ Owed(a, k) \in Nat
         /\ Announced(a, k) \in 0 .. MaxWeight /\ Announced(a, k) \in Nat
         /\ Announced(a, k) <= Owed(a, k)
         /\ Listed(a) \in {0, 1} /\ Listed(a) \in 0 .. MaxWeight
<1>1. Cardinality(Threads) \in Nat /\ MaxRelease \in Nat
  BY PrimitivesAssumption, FS_CardinalityType, Zenon
<1> DEFINE c == Cardinality(Threads)
<1>2. c \in Nat /\ MaxWeight = MaxRelease + c + 1 /\ Asks = 0 .. MaxRelease + c
  BY <1>1, Zenon DEF MaxWeight, Asks
<1> HIDE DEF c
<1>3. k \in Nat /\ k <= MaxWeight /\ MaxWeight \in Nat /\ 1 <= MaxWeight
  BY <1>1, <1>2
<1>4. Owed(a, k) \in {0, 1, k} /\ Announced(a, k) \in {0, k} /\ Listed(a) \in {0, 1}
  BY Zenon DEF Owed, Announced, Listed
<1>5. Announced(a, k) <= Owed(a, k)
  BY <1>3 DEF Owed, Announced
<1> QED
  BY <1>3, <1>4, <1>5

\* So the weights of the threads are functions to sum.
LEMMA OwedWeights ==
  ASSUME NEW p \in Somewhere, NEW m \in Asking
  PROVE  /\ OwedBy(p, m) \in Weights /\ AnnouncedBy(p, m) \in Weights /\ ListedBy(p) \in Weights
         /\ Total(OwedBy(p, m)) \in Nat /\ Total(AnnouncedBy(p, m)) \in Nat
         /\ Total(ListedBy(p)) \in Nat
<1>1. ASSUME NEW t \in Threads PROVE p[t] \in AllPlaces /\ m[t] \in Asks
  BY Zenon DEF Somewhere, Asking
<1>2. ASSUME NEW t \in Threads
      PROVE  /\ Owed(p[t], m[t]) \in 0 .. MaxWeight /\ Announced(p[t], m[t]) \in 0 .. MaxWeight
             /\ Listed(p[t]) \in 0 .. MaxWeight
  BY <1>1, OwedTypes, Zenon
<1>3. OwedBy(p, m) \in Weights /\ AnnouncedBy(p, m) \in Weights /\ ListedBy(p) \in Weights
  BY <1>2, Zenon DEF OwedBy, AnnouncedBy, ListedBy, Weights
<1> QED
  BY <1>3, TotalNat, Zenon

\* What is announced is owed.
LEMMA AnnouncedOwed ==
  ASSUME NEW p \in Somewhere, NEW m \in Asking
  PROVE  Total(AnnouncedBy(p, m)) <= Total(OwedBy(p, m))
<1>1. OwedBy(p, m) \in Weights /\ AnnouncedBy(p, m) \in Weights
  BY OwedWeights, Zenon
<1>2. ASSUME NEW t \in Threads PROVE AnnouncedBy(p, m)[t] <= OwedBy(p, m)[t]
  <2>1. p[t] \in AllPlaces /\ m[t] \in Asks
    BY Zenon DEF Somewhere, Asking
  <2>2. Announced(p[t], m[t]) <= Owed(p[t], m[t])
    BY <2>1, OwedTypes, Zenon
  <2> QED
    BY <2>2, Zenon DEF AnnouncedBy, OwedBy
<1> QED
  BY <1>1, <1>2, TotalLeast, Zenon

Others(f, g, t) == \A u \in Threads \ {t} : g[u] = f[u]

Balanced(p, m, q, l, t) ==
  /\ Total(OwedBy(q, l)) + Owed(p[t], m[t]) = Total(OwedBy(p, m)) + Owed(q[t], l[t])
  /\ Total(AnnouncedBy(q, l)) + Announced(p[t], m[t])
       = Total(AnnouncedBy(p, m)) + Announced(q[t], l[t])
  /\ Total(ListedBy(q)) + Listed(p[t]) = Total(ListedBy(p)) + Listed(q[t])

\* When one thread moves the totals change by what it owed and owes.
LEMMA OwedMove ==
  ASSUME NEW p \in Somewhere, NEW m \in Asking, NEW q \in Somewhere, NEW l \in Asking,
         NEW t \in Threads, Others(p, q, t), Others(m, l, t)
  PROVE  Balanced(p, m, q, l, t)
<1>1. Total(OwedBy(q, l)) + Owed(p[t], m[t]) = Total(OwedBy(p, m)) + Owed(q[t], l[t])
  <2>1. OwedBy(p, m) \in Weights
    BY OwedWeights, Zenon
  <2>2. OwedBy(q, l) \in Weights
    BY OwedWeights, Zenon
  <2>3. \A u \in Threads \ {t} : OwedBy(q, l)[u] = OwedBy(p, m)[u]
    BY DEF Others, OwedBy
  <2>4. OwedBy(p, m)[t] = Owed(p[t], m[t]) /\ OwedBy(q, l)[t] = Owed(q[t], l[t])
    BY Zenon DEF OwedBy
  <2>5. Total(OwedBy(q, l)) + OwedBy(p, m)[t] = Total(OwedBy(p, m)) + OwedBy(q, l)[t]
    BY <2>1, <2>2, <2>3, TotalMove, ZenonT(60)
  <2> QED
    BY <2>4, <2>5, Zenon
<1>2. Total(AnnouncedBy(q, l)) + Announced(p[t], m[t])
        = Total(AnnouncedBy(p, m)) + Announced(q[t], l[t])
  <2>1. AnnouncedBy(p, m) \in Weights
    BY OwedWeights, Zenon
  <2>2. AnnouncedBy(q, l) \in Weights
    BY OwedWeights, ZenonT(60)
  <2>3. \A u \in Threads \ {t} : AnnouncedBy(q, l)[u] = AnnouncedBy(p, m)[u]
    BY DEF Others, AnnouncedBy
  <2>4. AnnouncedBy(p, m)[t] = Announced(p[t], m[t]) /\ AnnouncedBy(q, l)[t] = Announced(q[t], l[t])
    BY Zenon DEF AnnouncedBy
  <2>5. Total(AnnouncedBy(q, l)) + AnnouncedBy(p, m)[t]
          = Total(AnnouncedBy(p, m)) + AnnouncedBy(q, l)[t]
    BY <2>1, <2>2, <2>3, TotalMove, Zenon
  <2> QED
    BY <2>4, <2>5, Zenon
<1>3. Total(ListedBy(q)) + Listed(p[t]) = Total(ListedBy(p)) + Listed(q[t])
  <2>1. ListedBy(p) \in Weights
    BY OwedWeights, Zenon
  <2>2. ListedBy(q) \in Weights
    BY OwedWeights, Zenon
  <2>3. \A u \in Threads \ {t} : ListedBy(q)[u] = ListedBy(p)[u]
    BY DEF Others, ListedBy
  <2>4. ListedBy(p)[t] = Listed(p[t]) /\ ListedBy(q)[t] = Listed(q[t])
    BY Zenon DEF ListedBy
  <2>5. Total(ListedBy(q)) + ListedBy(p)[t] = Total(ListedBy(p)) + ListedBy(q)[t]
    BY <2>1, <2>2, <2>3, TotalMove, Zenon
  <2> QED
    BY <2>4, <2>5, Zenon
<1> QED
  BY <1>1, <1>2, <1>3, Zenon DEF Balanced

\* Without units there is nothing to cover.
LEMMA NothingToCover ==
  ASSUME PlaceTypes', m_count' = 0
  PROVE  Covered'
<1>1. Total(OwedBy(pc', n')) \in Nat /\ Total(AnnouncedBy(pc', n')) \in Nat
  BY OwedWeights, Zenon DEF PlaceTypes
<1> QED
  BY <1>1 DEF Covered

-----------------------------------------------------------------------------
(* The steps of the semaphores *)

\* A count stays below a total that follows it.
LEMMA StaysBelow ==
  ASSUME NEW c \in Nat, NEW d \in Nat, NEW x \in Nat, NEW y \in Nat, NEW o \in Nat, NEW e \in Nat,
         c <= x, y + o = x + e, d + o <= c + e
  PROVE  d <= y
OBVIOUS

\* When a thread moves to place a, with k wake-ups to ask for, what is owed
\* keeps up with the units and m_waiters with the threads.
KeepsUp(t, a, k) ==
  /\ m_count' \in 0 .. MaxCount
  /\ \/ m_count' = 0 \/ Asleep = {}
     \/ m_count' + Owed(pc[t], n[t]) <= m_count + Owed(a, k)
  /\ \/ m_count' = 0 \/ owner = NoThread
     \/ m_count' + Announced(pc[t], n[t]) <= m_count + Announced(a, k)
  /\ m_waiters' \in Int
  /\ IF build = "futex" THEN m_waiters' + Listed(pc[t]) = m_waiters + Listed(a)
                        ELSE m_waiters' = m_waiters
  /\ a \in {"notify", "epoch"} => k \in 1 .. MaxRelease
  /\ a = "asleep" => m_count' = 0

\* A move that keeps up, with the mutex where it was, keeps the invariant.
LEMMA ThreadMoves ==
  ASSUME SemInv, build \in Builds, build' = build, NEW t \in Threads,
         NEW a \in AllPlaces \ {"sleepy"}, NEW k \in Asks,
         pc' = [pc EXCEPT ![t] = a], n' = [n EXCEPT ![t] = k],
         KeepsUp(t, a, k), owner' = owner
  PROVE  SemInv'
<1>1. pc \in Somewhere /\ n \in Asking /\ m_count \in Nat /\ a \in AllPlaces
  BY PrimitivesAssumption DEF SemInv, PlaceTypes
<1>2. /\ pc' \in Somewhere /\ n' \in Asking /\ pc'[t] = a /\ n'[t] = k
      /\ Others(pc, pc', t) /\ Others(n, n', t)
  BY <1>1, Zenon DEF Somewhere, Asking, Others
<1>3. PlaceTypes'
  BY <1>2, Zenon DEF SemInv, PlaceTypes, KeepsUp
<1>4. pc[t] \in AllPlaces /\ n[t] \in Asks
  BY <1>1, Zenon DEF Somewhere, Asking
<1>5. /\ Total(OwedBy(pc', n')) + Owed(pc[t], n[t]) = Total(OwedBy(pc, n)) + Owed(a, k)
      /\ Total(AnnouncedBy(pc', n')) + Announced(pc[t], n[t])
           = Total(AnnouncedBy(pc, n)) + Announced(a, k)
      /\ Total(ListedBy(pc')) + Listed(pc[t]) = Total(ListedBy(pc)) + Listed(a)
  <2>1. Balanced(pc, n, pc', n', t)
    BY <1>1, <1>2, OwedMove, ZenonT(60)
  <2> QED
    BY <1>2, <2>1, Zenon DEF Balanced
<1>6. m_count' # 0 => Asleep' \subseteq Asleep
  BY <1>2 DEF Asleep, Others, KeepsUp
<1>7. Covered'
  <2>1. CASE m_count' = 0
    BY <1>3, <2>1, NothingToCover, Zenon
  <2>2. CASE m_count' # 0
    <3>1. /\ Total(OwedBy(pc, n)) \in Nat /\ Total(AnnouncedBy(pc, n)) \in Nat
      BY <1>1, OwedWeights, Zenon
    <3>2. /\ Total(OwedBy(pc', n')) \in Nat /\ Total(AnnouncedBy(pc', n')) \in Nat
      BY <1>2, OwedWeights, Zenon
    <3>3. /\ Owed(a, k) \in Nat /\ Announced(a, k) \in Nat
          /\ Owed(pc[t], n[t]) \in Nat /\ Announced(pc[t], n[t]) \in Nat
      BY <1>1, <1>4, OwedTypes, ZenonT(60)
    <3>4. Covered /\ m_count' \in Nat
      BY PrimitivesAssumption DEF SemInv, KeepsUp
    <3>5. Asleep' # {} => m_count' <= Total(OwedBy(pc', n'))
      <4>1. SUFFICES ASSUME Asleep # {} PROVE m_count' <= Total(OwedBy(pc', n'))
        BY <1>6, <2>2, Zenon
      <4>2. m_count <= Total(OwedBy(pc, n))
        BY <3>4, <4>1, Zenon DEF Covered
      <4>3. m_count' + Owed(pc[t], n[t]) <= m_count + Owed(a, k)
        BY <2>2, <4>1, Zenon DEF KeepsUp
      <4> QED
        BY <1>1, <1>5, <3>1, <3>2, <3>3, <3>4, <4>2, <4>3, StaysBelow, ZenonT(60)
    <3>6. owner' # NoThread => m_count' <= Total(AnnouncedBy(pc', n'))
      <4>1. SUFFICES ASSUME owner # NoThread PROVE m_count' <= Total(AnnouncedBy(pc', n'))
        OBVIOUS
      <4>2. m_count <= Total(AnnouncedBy(pc, n))
        BY <3>4, <4>1, Zenon DEF Covered
      <4>3. m_count' + Announced(pc[t], n[t]) <= m_count + Announced(a, k)
        BY <2>2, <4>1, ZenonT(60) DEF KeepsUp
      <4> QED
        BY <1>1, <1>5, <3>1, <3>2, <3>3, <3>4, <4>2, <4>3, StaysBelow, ZenonT(60)
    <3> QED
      BY <3>5, <3>6, Zenon DEF Covered
  <2> QED
    BY <2>1, <2>2, Zenon
<1>8. Locked'
  BY <1>2 DEF SemInv, Locked, Others
<1>9. Counted'
  <2>1. Total(ListedBy(pc)) \in Nat /\ Total(ListedBy(pc')) \in Nat
    BY <1>1, <1>2, OwedWeights, Zenon
  <2>2. Listed(a) \in {0, 1} /\ Listed(pc[t]) \in {0, 1}
    BY Zenon DEF Listed
  <2>3. CASE build = "futex"
    <3>1. m_waiters = Total(ListedBy(pc))
      BY <2>3, Zenon DEF SemInv, Counted
    <3>2. m_waiters' + Listed(pc[t]) = m_waiters + Listed(a)
      BY <2>3, Zenon DEF KeepsUp
    <3>3. m_waiters' \in Int
      BY Zenon DEF KeepsUp
    <3>4. m_waiters' = Total(ListedBy(pc'))
      BY <1>5, <2>1, <2>2, <3>1, <3>2, <3>3, SMTT(30)
    <3> QED
      BY <2>3, <3>4, Zenon DEF Counted
  <2>4. CASE build # "futex"
    BY <2>4, Zenon DEF SemInv, Counted, KeepsUp
  <2> QED
    BY <2>3, <2>4, Zenon
<1>10. Notifies'
  BY <1>2, Zenon DEF SemInv, Others, Notifies, KeepsUp
<1> QED
  BY <1>3, <1>7, <1>8, <1>9, <1>10, Zenon DEF SemInv

\* The same for a thread that asks for no wake-ups.
LEMMA ThreadWalks ==
  ASSUME SemInv, build \in Builds, build' = build, NEW t \in Threads,
         NEW a \in AllPlaces \ {"sleepy", "notify", "epoch"},
         pc' = [pc EXCEPT ![t] = a], n' = n,
         KeepsUp(t, a, n[t]), owner' = owner
  PROVE  SemInv'
<1>1. n \in Asking
  BY Zenon DEF SemInv, PlaceTypes
<1>2. n[t] \in Asks /\ n' = [n EXCEPT ![t] = n[t]]
  BY <1>1, Zenon DEF Asking
<1> QED
  BY <1>2, ThreadMoves, Zenon

\* A thread that saw no unit takes the mutex, to sleep.
LEMMA ThreadBlocks ==
  ASSUME SemInv, build \in Builds, build' = build, NEW t \in Threads,
         build # "futex", owner = NoThread, CV!blocks(t),
         m_count = 0, m_count' = m_count, m_waiters' = m_waiters, n' = n
  PROVE  SemInv'
<1>1. pc' = [pc EXCEPT ![t] = "sleepy"] /\ owner' = t
  BY Zenon DEF CV!blocks
<1>2. pc \in Somewhere /\ "sleepy" \in AllPlaces
  BY Zenon DEF SemInv, PlaceTypes, AllPlaces, CV!InWait
<1>3. pc' \in Somewhere /\ pc'[t] = "sleepy" /\ Others(pc, pc', t)
  BY <1>1, <1>2, Zenon DEF Somewhere, Others
<1>4. PlaceTypes'
  BY <1>1, <1>3, Zenon DEF SemInv, PlaceTypes
<1>5. Covered'
  BY <1>4, NothingToCover, Zenon
<1>6. Locked'
  <2>1. \A u \in Threads : u # NoThread
    BY PrimitivesAssumption, Zenon
  <2>2. \A u \in Threads \ {t} : pc'[u] # "sleepy"
    BY <1>3, <2>1, Zenon DEF SemInv, Locked, Others
  <2> QED
    BY <1>1, <2>2, Zenon DEF Locked
<1>7. Counted' /\ Notifies'
  BY <1>3, Zenon DEF SemInv, Counted, Notifies, Others
<1> QED
  BY <1>4, <1>5, <1>6, <1>7, Zenon DEF SemInv

\* It sleeps: what came in between has been announced.
LEMMA ThreadSleeps ==
  ASSUME SemInv, build \in Builds, build' = build, NEW t \in Threads, CV!sleeps(t),
         m_count' = m_count, m_waiters' = m_waiters, n' = n
  PROVE  SemInv'
<1>1. pc[t] = "sleepy" /\ pc' = [pc EXCEPT ![t] = "asleep"] /\ owner' = NoThread
  BY Zenon DEF CV!sleeps
<1>2. pc \in Somewhere /\ "asleep" \in AllPlaces
  BY Zenon DEF SemInv, PlaceTypes, AllPlaces, Places
<1>3. pc' \in Somewhere /\ pc'[t] = "asleep" /\ Others(pc, pc', t)
  BY <1>1, <1>2, Zenon DEF Somewhere, Others
<1>4. PlaceTypes'
  BY <1>1, <1>3, Zenon DEF SemInv, PlaceTypes
<1>5. owner = t /\ owner # NoThread /\ build # "futex"
  BY <1>1, PrimitivesAssumption, Zenon DEF SemInv, Locked
<1>6. Covered'
  <2>1. Others(n, n', t)
    BY Zenon DEF Others
  <2>2. Balanced(pc, n, pc', n', t)
    BY <1>3, <1>4, <2>1, OwedMove, Zenon DEF SemInv, PlaceTypes
  <2>3. Owed(pc[t], n[t]) = 0 /\ Owed(pc'[t], n'[t]) = 0
    BY <1>1, <1>3, Zenon DEF Owed
  <2>4. Total(OwedBy(pc, n)) \in Nat /\ Total(AnnouncedBy(pc, n)) \in Nat
    BY OwedWeights, Zenon DEF SemInv, PlaceTypes
  <2>5. Total(OwedBy(pc', n')) \in Nat
    BY <1>4, OwedWeights, Zenon DEF PlaceTypes
  <2>6. m_count <= Total(AnnouncedBy(pc, n)) /\ m_count \in Nat
    BY <1>5, PrimitivesAssumption DEF SemInv, Covered, PlaceTypes
  <2>7. Total(AnnouncedBy(pc, n)) <= Total(OwedBy(pc, n))
    BY AnnouncedOwed, Zenon DEF SemInv, PlaceTypes
  <2>8. m_count' <= Total(OwedBy(pc', n'))
    BY <2>2, <2>3, <2>4, <2>5, <2>6, <2>7, SMTT(30) DEF Balanced
  <2> QED
    BY <1>1, <2>8, ZenonT(60) DEF Covered
<1>7. Locked'
  BY <1>1, <1>3, <1>5, Zenon DEF SemInv, Locked, Others
<1>8. Counted' /\ Notifies'
  BY <1>3, <1>5, Zenon DEF SemInv, Counted, Notifies, Others
<1> QED
  BY <1>4, <1>6, <1>7, <1>8, Zenon DEF SemInv

\* A notification for everybody leaves no sleeper.
LEMMA WakesAll ==
  ASSUME SemInv, build \in Builds, build' = build, NEW t \in Threads, build # "futex",
         pc[t] = "notify_all", CV!notifyAll(t, "idle", Expired),
         m_count' = m_count, m_waiters' = m_waiters, n' = n
  PROVE  SemInv'
<1>1. /\ owner' = owner
      /\ pc' = [u \in Threads |-> IF u = t THEN "idle"
                                 ELSE IF u \in Asleep THEN CV!Woken(u, Expired) ELSE pc[u]]
  BY DEF CV!notifyAll, CV!Asleep, Asleep
<1>2. \A u \in Threads : CV!Woken(u, Expired) \in {"lock", "lock_late"}
  BY Zenon DEF CV!Woken
<1>3. \A u \in Threads : pc'[u] = pc[u] \/ (pc[u] \in {"asleep", "notify_all"}
                                            /\ pc'[u] \in {"idle", "lock", "lock_late"})
  BY <1>1, <1>2 DEF Asleep
<1>4. pc' \in Somewhere
  <2>1. pc \in Somewhere /\ {"idle", "lock", "lock_late"} \subseteq AllPlaces
    BY DEF SemInv, PlaceTypes, AllPlaces, Places, CV!InWait
  <2>2. \A u \in Threads : pc'[u] \in AllPlaces
    BY <1>3, <2>1, Zenon DEF Somewhere
  <2> QED
    BY <1>1, <2>2 DEF Somewhere
<1>5. PlaceTypes'
  BY <1>1, <1>4, Zenon DEF SemInv, PlaceTypes
<1>6. Asleep' = {}
  BY <1>1, <1>2, SMTT(30) DEF Asleep
<1>7. AnnouncedBy(pc', n') = AnnouncedBy(pc, n)
  <2>1. \A u \in Threads : Announced(pc'[u], n[u]) = Announced(pc[u], n[u])
    BY <1>3 DEF Announced
  <2> QED
    BY <2>1, Zenon DEF AnnouncedBy
<1>8. Covered'
  BY <1>1, <1>6, <1>7, ZenonT(60) DEF SemInv, Covered
<1>9. Locked' /\ Counted' /\ Notifies'
  BY <1>1, <1>3, SMTT(30) DEF SemInv, Locked, Counted, Notifies
<1> QED
  BY <1>5, <1>8, <1>9, Zenon DEF SemInv

\* A notification passes one wake-up on: the totals stay what they were.
LEMMA PassedOn ==
  ASSUME PlaceTypes, PlaceTypes', NEW t \in Threads, NEW u \in Threads, NEW p \in Somewhere,
         Others(pc, p, t), Others(p, pc', u), Others(n, n', t),
         pc[t] = "notify", n[t] \in Nat, n[t] - 1 \in Nat,
         Owed(p[t], n'[t]) = n[t] - 1, Announced(p[t], n'[t]) = 0,
         p[u] = "asleep", pc'[u] \in {"lock", "lock_late"}
  PROVE  /\ Total(OwedBy(pc', n')) = Total(OwedBy(pc, n))
         /\ Total(AnnouncedBy(pc', n')) = Total(AnnouncedBy(pc, n))
<1>1. pc \in Somewhere /\ pc' \in Somewhere /\ n \in Asking /\ n' \in Asking
  BY Zenon DEF PlaceTypes
<1>2. Others(n', n', u)
  BY Zenon DEF Others
<1>3. Balanced(pc, n, p, n', t)
  BY <1>1, OwedMove, Zenon
<1>4. Balanced(p, n', pc', n', u)
  BY <1>1, <1>2, OwedMove, Zenon
<1>5. Owed(pc[t], n[t]) = n[t] /\ Announced(pc[t], n[t]) = 0
  BY Zenon DEF Announced, Owed
<1>6. /\ Owed(p[u], n'[u]) = 0 /\ Owed(pc'[u], n'[u]) = 1
      /\ Announced(p[u], n'[u]) = 0 /\ Announced(pc'[u], n'[u]) = 0
  BY Zenon DEF Announced, Owed
<1>7. Total(OwedBy(pc, n)) \in Nat /\ Total(AnnouncedBy(pc, n)) \in Nat
  BY <1>1, OwedWeights, Zenon
<1>8. Total(OwedBy(p, n')) \in Nat /\ Total(AnnouncedBy(p, n')) \in Nat
  BY <1>1, OwedWeights, Zenon
<1>9. Total(OwedBy(pc', n')) \in Nat /\ Total(AnnouncedBy(pc', n')) \in Nat
  BY <1>1, OwedWeights, Zenon
<1> QED
  BY <1>3, <1>4, <1>5, <1>6, <1>7, <1>8, <1>9, SMTT(30) DEF Balanced

\* A wake-up passes from the thread that notifies to the one that wakes.
LEMMA WakesOne ==
  ASSUME SemInv, build \in Builds, build' = build, NEW t \in Threads, build # "futex",
         pc[t] = "notify", n' = [n EXCEPT ![t] = @ - 1],
         CV!notifyOne(t, IF n[t] = 1 THEN "idle" ELSE "notify", Expired),
         m_count' = m_count, m_waiters' = m_waiters
  PROVE  SemInv'
<1> DEFINE a == IF n[t] = 1 THEN "idle" ELSE "notify"
           p == [pc EXCEPT ![t] = a]
<1>1. n[t] \in 1 .. MaxRelease /\ n \in Asking /\ pc \in Somewhere /\ owner' = owner
  BY Zenon DEF SemInv, PlaceTypes, Notifies, CV!notifyOne
<1>2. /\ n[t] - 1 \in Asks /\ n[t] \in Nat /\ n[t] - 1 \in Nat
      /\ a = "notify" => n[t] - 1 \in 1 .. MaxRelease
  <2>1. Cardinality(Threads) \in Nat /\ MaxRelease \in Nat
    BY PrimitivesAssumption, FS_CardinalityType, Zenon
  <2> QED
    BY <1>1, <2>1, SMTT(30) DEF Asks
<1>3. a \in AllPlaces /\ a \in {"idle", "notify"}
  BY DEF AllPlaces, Places
<1>4. Owed("notify", n[t]) = n[t] /\ Owed(a, n[t] - 1) = n[t] - 1
  BY <1>1, <1>2, SMTT(30) DEF Owed
<1>5. n' = [n EXCEPT ![t] = n[t] - 1]
  OBVIOUS
<1> HIDE DEF a
<1>6. p \in Somewhere /\ p[t] = a /\ Others(pc, p, t)
  BY <1>1, <1>3, Zenon DEF Somewhere, Others
<1>7. n' \in Asking /\ n'[t] = n[t] - 1 /\ Others(n, n', t)
  BY <1>1, <1>2, <1>5, ZenonT(60) DEF Asking, Others
<1>8. CASE Asleep = {}
  <2>1. pc' = p
    BY <1>8, Zenon DEF CV!notifyOne, CV!Asleep, Asleep, a
  <2>2. KeepsUp(t, a, n[t] - 1)
    <3>1. m_count' \in 0 .. MaxCount
      BY Zenon DEF SemInv, PlaceTypes
    <3>2. Announced(pc[t], n[t]) = 0 /\ Announced(a, n[t] - 1) = 0
      BY <1>3, Zenon DEF Announced
    <3>3. m_count + 0 <= m_count + 0
      BY <3>1, PrimitivesAssumption, SMTT(30)
    <3>4. m_waiters' \in Int
      BY DEF SemInv, Counted
    <3> QED
      BY <1>2, <1>3, <1>8, <3>1, <3>2, <3>3, <3>4, ZenonT(60) DEF KeepsUp
  <2> QED
    BY <1>1, <1>2, <1>3, <1>5, <2>1, <2>2, ThreadMoves, ZenonT(60)
<1>9. CASE Asleep # {}
  <2>1. PICK u \in Asleep : pc' = [p EXCEPT ![u] = CV!Woken(u, Expired)]
    BY <1>9, Zenon DEF CV!notifyOne, CV!Asleep, Asleep, a
  <2> DEFINE w == CV!Woken(u, Expired)
  <2>2. w \in {"lock", "lock_late"} /\ w \in AllPlaces
    BY DEF CV!Woken, AllPlaces, CV!InWait
  <2> HIDE DEF w
  <2>3. u \in Threads /\ pc[u] = "asleep" /\ u # t
    BY Zenon DEF Asleep
  <2>4. p[u] = "asleep"
    BY <1>6, <2>3, Zenon DEF Others
  <2>5. pc' \in Somewhere /\ pc'[u] = w /\ Others(p, pc', u)
    BY <1>6, <2>1, <2>2, <2>3, ZenonT(60) DEF Somewhere, Others, w
  <2>6. pc'[t] = a /\ \A v \in Threads \ {t, u} : pc'[v] = pc[v]
    BY <1>6, <2>3, <2>5, SMTT(30) DEF Others
  <2>7. PlaceTypes'
    BY <1>1, <1>7, <2>5, Zenon DEF SemInv, PlaceTypes
  <2> HIDE DEF p
  <2>8. Covered'
    <3>1. Owed(p[t], n'[t]) = n[t] - 1 /\ Announced(p[t], n'[t]) = 0
      BY <1>3, <1>4, <1>6, <1>7, Zenon DEF Announced
    <3>2. /\ Total(OwedBy(pc', n')) = Total(OwedBy(pc, n))
          /\ Total(AnnouncedBy(pc', n')) = Total(AnnouncedBy(pc, n))
      BY <1>1, <1>2, <1>6, <1>7, <2>2, <2>3, <2>4, <2>5, <2>7, <3>1, PassedOn, ZenonT(30) DEF SemInv
    <3> QED
      BY <1>1, <1>9, <3>2, Zenon DEF SemInv, Covered
  <2>9. Locked'
    BY <1>1, <1>3, <2>2, <2>5, <2>6, SMTT(30) DEF SemInv, Locked
  <2>10. Counted'
    BY Zenon DEF SemInv, Counted
  <2>11. Notifies'
    <3>1. pc'[u] \notin {"notify", "epoch"}
      BY <2>2, <2>5, ZenonT(60)
    <3>2. pc'[t] \in {"notify", "epoch"} => n'[t] \in 1 .. MaxRelease
      BY <1>2, <1>3, <1>7, <2>6, ZenonT(60)
    <3>3. \A v \in Threads \ {t, u} : n'[v] = n[v]
      BY <1>7, ZenonT(60) DEF Others
    <3>4. \A v \in Threads \ {t, u} : pc'[v] \in {"notify", "epoch"} => n'[v] \in 1 .. MaxRelease
      BY <2>6, <3>3, ZenonT(60) DEF SemInv, Notifies
    <3> QED
      BY <3>1, <3>2, <3>4, ZenonT(60) DEF Notifies
  <2> QED
    BY <2>7, <2>8, <2>9, <2>10, <2>11, ZenonT(60) DEF SemInv
<1> QED
  BY <1>8, <1>9, Zenon

\* When a set of sleepers becomes runnable each of them owes one unit more.
LEMMA OwedWoken ==
  ASSUME NEW p \in Somewhere, NEW q \in Somewhere, NEW m \in Asking, NEW W \in SUBSET Threads,
         \A u \in W : p[u] = "asleep" /\ q[u] = "delist",
         \A u \in Threads \ W : q[u] = p[u]
  PROVE  /\ Cardinality(W) \in Nat
         /\ Total(OwedBy(q, m)) = Total(OwedBy(p, m)) + Cardinality(W)
         /\ Total(ListedBy(q)) = Total(ListedBy(p))
<1>1. OwedBy(p, m) \in Weights /\ OwedBy(q, m) \in Weights
  BY OwedWeights, ZenonT(60)
<1>2. \A u \in W : OwedBy(p, m)[u] = 0 /\ OwedBy(q, m)[u] = 1
  BY SMTT(30) DEF OwedBy, Owed
<1>3. \A u \in Threads \ W : OwedBy(q, m)[u] = OwedBy(p, m)[u]
  BY DEF OwedBy
<1>4. Cardinality(W) \in Nat /\ Total(OwedBy(q, m)) = Total(OwedBy(p, m)) + Cardinality(W)
  BY <1>1, <1>2, <1>3, TotalWoken, ZenonT(60)
<1>5. ListedBy(q) = ListedBy(p)
  <2>1. \A u \in Threads : Listed(q[u]) = Listed(p[u])
    BY DEF Listed
  <2> QED
    BY <2>1, Zenon DEF ListedBy
<1> QED
  BY <1>4, <1>5, Zenon

\* Either every sleeper is woken or as many as the caller asked for.
LEMMA FutexWakes ==
  ASSUME SemInv, build = "futex", build' = build, NEW t \in Threads, futexWake(t), owner' = owner
  PROVE  SemInv'
<1> DEFINE p == [pc EXCEPT ![t] = "idle"]
<1>1. PICK woken \in SUBSET Asleep :
        /\ Cardinality(woken) = IF n[t] < Cardinality(Asleep) THEN n[t] ELSE Cardinality(Asleep)
        /\ pc' = [u \in Threads |-> IF u \in woken THEN "delist" ELSE IF u = t THEN "idle" ELSE pc[u]]
  BY Zenon DEF futexWake
<1>2. /\ pc[t] = "syscall" /\ m_count' = m_count /\ m_waiters' = m_waiters /\ n' = n
      /\ t \notin woken /\ woken \in SUBSET Threads
      /\ \A u \in woken : u \in Threads /\ u # t /\ pc[u] = "asleep"
  BY Zenon DEF futexWake, stillVars, Asleep
<1>3. pc \in Somewhere /\ n \in Asking /\ n[t] \in Asks
  BY Zenon DEF SemInv, PlaceTypes, Asking
<1>4. "idle" \in AllPlaces /\ "delist" \in AllPlaces
  BY Zenon DEF AllPlaces, Places
<1>5. p \in Somewhere /\ p[t] = "idle" /\ Others(pc, p, t)
  BY <1>3, <1>4, Zenon DEF Somewhere, Others
<1>6. /\ \A u \in woken : p[u] = "asleep" /\ pc'[u] = "delist"
      /\ \A u \in Threads \ woken : pc'[u] = p[u]
  BY <1>1, <1>2, <1>3, SMTT(30) DEF Somewhere
<1>7. pc' \in Somewhere
  <2>1. \A u \in Threads : pc'[u] \in AllPlaces
    BY <1>4, <1>5, <1>6, Zenon DEF Somewhere
  <2> QED
    BY <1>1, <2>1, SMTT(30) DEF Somewhere
<1>8. PlaceTypes'
  BY <1>2, <1>7, Zenon DEF SemInv, PlaceTypes
<1> HIDE DEF p
<1>9. Others(n, n, t)
  BY Zenon DEF Others
<1>10. Balanced(pc, n, p, n, t)
  BY <1>3, <1>5, <1>9, OwedMove, Zenon
<1>11. /\ Cardinality(woken) \in Nat
       /\ Total(OwedBy(pc', n)) = Total(OwedBy(p, n)) + Cardinality(woken)
       /\ Total(ListedBy(pc')) = Total(ListedBy(p))
  BY <1>2, <1>3, <1>5, <1>6, <1>7, OwedWoken, ZenonT(60)
<1>12. /\ Owed(pc[t], n[t]) = n[t] /\ Owed(p[t], n[t]) = 0
       /\ Listed(pc[t]) = 0 /\ Listed(p[t]) = 0
  BY <1>2, <1>5, ZenonT(60) DEF Owed, Listed
<1>13. owner = NoThread
  BY Zenon DEF SemInv, Locked, Builds
<1>14. Covered'
  <2>1. CASE woken = Asleep
    <3>1. Asleep' = {}
      <4>1. \A u \in Threads : u \in woken \/ pc[u] # "asleep"
        BY <2>1, ZenonT(60) DEF Asleep
      <4>2. \A u \in Threads \ woken : p[u] # "asleep"
        BY <4>1, <1>5, Zenon DEF Others
      <4>3. \A u \in Threads : pc'[u] # "asleep"
        BY <4>2, <1>6, Zenon
      <4> QED
        BY <4>3, ZenonT(60) DEF Asleep
    <3> QED
      BY <1>13, <3>1, ZenonT(60) DEF Covered
  <2>2. CASE woken # Asleep
    <3>1. IsFiniteSet(Asleep)
      BY PrimitivesAssumption, FS_Subset, ZenonT(60) DEF Asleep
    <3>2. Cardinality(woken) # Cardinality(Asleep)
      BY <2>2, <3>1, FS_Subset, ZenonT(60)
    <3>3. Cardinality(woken) = n[t]
      BY <1>1, <3>2, ZenonT(60)
    <3>4. Asleep # {}
      BY <2>2, ZenonT(60)
    <3>5. m_count <= Total(OwedBy(pc, n))
      BY <3>4, ZenonT(60) DEF SemInv, Covered, Builds
    <3>6. Total(OwedBy(pc, n)) \in Nat /\ Total(OwedBy(p, n)) \in Nat
      BY <1>3, <1>5, OwedWeights, ZenonT(60)
    <3>7. Total(OwedBy(p, n)) + n[t] = Total(OwedBy(pc, n)) + 0
      BY <1>10, <1>12, Zenon DEF Balanced
    <3>8. Total(OwedBy(pc', n)) = Total(OwedBy(pc, n))
      BY <1>11, <3>3, <3>6, <3>7, SMTT(30)
    <3> QED
      BY <1>2, <1>13, <3>5, <3>8, ZenonT(60) DEF Covered
  <2> QED
    BY <2>1, <2>2, Zenon
<1>15. Locked'
  BY <1>2, <1>6, <1>5, <1>13, SMTT(30) DEF SemInv, Locked, Builds, Others
<1>16. Counted'
  <2>1. Total(ListedBy(p)) + 0 = Total(ListedBy(pc)) + 0
    BY <1>10, <1>12, Zenon DEF Balanced
  <2>2. Total(ListedBy(pc)) \in Nat /\ Total(ListedBy(p)) \in Nat
    BY <1>3, <1>5, OwedWeights, ZenonT(60)
  <2>3. Total(ListedBy(pc')) = Total(ListedBy(pc))
    BY <1>11, <2>1, <2>2, SMTT(30)
  <2> QED
    BY <1>2, <2>3, Zenon DEF SemInv, Counted, Builds
<1>17. Notifies'
  BY <1>2, <1>6, <1>5, SMTT(30) DEF SemInv, Notifies, Builds, Others
<1> QED
  BY <1>8, <1>14, <1>15, <1>16, <1>17, ZenonT(60) DEF SemInv

\* A step that leaves the units, the places and the mutex alone.
LEMMA NothingMoves ==
  ASSUME SemInv, UNCHANGED <<m_count, m_waiters, pc, n, owner, build>>
  PROVE  SemInv'
BY Zenon DEF SemInv, PlaceTypes, Covered, Locked, Counted, Notifies, Asleep

\* A thread that goes on without giving up what it owes, unless there is no
\* unit or no sleeper.
LEMMA WalksOn ==
  ASSUME SemInv, build \in Builds, build' = build, NEW t \in Threads,
         NEW a \in AllPlaces \ {"sleepy", "notify", "epoch"},
         pc' = [pc EXCEPT ![t] = a],
         n' = n, m_count' = m_count, m_waiters' = m_waiters, owner' = owner,
         pc[t] # "epoch", a = "asleep" => m_count = 0,
         build = "futex" => Listed(pc[t]) = Listed(a),
         \/ m_count = 0 \/ Asleep = {}
         \/ Owed(pc[t], n[t]) = 0 \/ Owed(pc[t], n[t]) = Owed(a, n[t])
  PROVE  SemInv'
<1>1. m_count \in 0 .. MaxCount /\ pc \in Somewhere /\ n \in Asking /\ pc[t] \in AllPlaces /\ n[t] \in Asks
  BY ZenonT(60) DEF SemInv, PlaceTypes, Somewhere, Asking
<1>2. m_count \in Nat
  BY <1>1, PrimitivesAssumption, SMTT(30)
<1>3. /\ Owed(pc[t], n[t]) \in Nat /\ Owed(a, n[t]) \in Nat /\ Announced(a, n[t]) \in Nat
      /\ Listed(a) \in {0, 1} /\ Listed(pc[t]) \in {0, 1}
  BY <1>1, OwedTypes, Zenon
<1>4. Announced(pc[t], n[t]) = 0
  BY Zenon DEF Announced
<1>5. m_waiters \in Nat
  BY <1>1, OwedWeights, SMTT(30) DEF SemInv, Counted
<1>6. m_count = 0 \/ Asleep = {} \/ m_count + Owed(pc[t], n[t]) <= m_count + Owed(a, n[t])
  BY <1>2, <1>3, SMTT(30)
<1>7. m_count + Announced(pc[t], n[t]) <= m_count + Announced(a, n[t])
  BY <1>2, <1>3, <1>4, SMTT(30)
<1>8. m_waiters \in Int /\ (build = "futex" => m_waiters + Listed(pc[t]) = m_waiters + Listed(a))
  BY <1>5
<1>9. KeepsUp(t, a, n[t])
  BY <1>1, <1>6, <1>7, <1>8, ZenonT(60) DEF KeepsUp
<1> QED
  BY <1>9, ThreadWalks, ZenonT(60)

\* A thread that takes a unit was owed one wake-up, or took it in passing.
LEMMA TakesUnit ==
  ASSUME SemInv, build \in Builds, build' = build, NEW t \in Threads,
         NEW a \in {"idle", "returned"}, pc' = [pc EXCEPT ![t] = a],
         pc[t] \in {"idle", "try", "lock", "lock_late"},
         n' = n, m_count > 0, m_count' = m_count - 1, m_waiters' = m_waiters, owner' = owner
  PROVE  SemInv'
<1>1. m_count \in 0 .. MaxCount /\ pc \in Somewhere /\ n \in Asking
  BY Zenon DEF SemInv, PlaceTypes
<1>2. m_count \in Nat /\ m_count' \in 0 .. MaxCount
  BY <1>1, PrimitivesAssumption, SMTT(30)
<1>3. Owed(pc[t], n[t]) \in {0, 1} /\ Owed(a, n[t]) = 0
  BY Zenon DEF Owed
<1>4. Announced(pc[t], n[t]) = 0 /\ Announced(a, n[t]) = 0 /\ Listed(a) = 0 /\ Listed(pc[t]) = 0
  BY Zenon DEF Announced, Listed
<1>5. m_waiters \in Nat
  BY <1>1, OwedWeights, SMTT(30) DEF SemInv, Counted
<1>6. /\ m_count' + Owed(pc[t], n[t]) <= m_count + Owed(a, n[t])
      /\ m_count' + Announced(pc[t], n[t]) <= m_count + Announced(a, n[t])
  BY <1>2, <1>3, <1>4, SMTT(30)
<1>7. m_waiters' \in Int /\ m_waiters' + Listed(pc[t]) = m_waiters + Listed(a)
  BY <1>4, <1>5, SMTT(30)
<1>8. KeepsUp(t, a, n[t])
  BY <1>2, <1>6, <1>7, ZenonT(60) DEF KeepsUp
<1>9. a \in AllPlaces \ {"sleepy", "notify", "epoch"}
  BY ZenonT(60) DEF AllPlaces, Places
<1> QED
  BY <1>8, <1>9, ThreadWalks, Zenon

\* A thread that releases k units has k wake-ups to give.
LEMMA Releases ==
  ASSUME SemInv, build \in Builds, build' = build, NEW t \in Threads,
         NEW a \in {"wake", "notify", "epoch"}, pc' = [pc EXCEPT ![t] = a],
         pc[t] = "idle", NEW k \in Releasable, n' = [n EXCEPT ![t] = k],
         m_count' = m_count + k, m_waiters' = m_waiters, owner' = owner,
         a = "epoch" \/ owner = NoThread
  PROVE  SemInv'
<1>1. m_count \in 0 .. MaxCount /\ pc \in Somewhere /\ n \in Asking
  BY Zenon DEF SemInv, PlaceTypes
<1>2. k \in 1 .. MaxRelease /\ m_count + k <= MaxCount
  BY ZenonT(60) DEF Releasable
<1>3. m_count \in Nat /\ k \in Nat /\ m_count' \in 0 .. MaxCount
  BY <1>1, <1>2, PrimitivesAssumption, SMTT(30)
<1>4. k \in Asks
  <2>1. Cardinality(Threads) \in Nat /\ MaxRelease \in Nat
    BY PrimitivesAssumption, FS_CardinalityType, Zenon
  <2> QED
    BY <1>2, <2>1, SMTT(30) DEF Asks
<1>5. Owed(pc[t], n[t]) = 0 /\ Owed(a, k) = k
  BY Zenon DEF Owed
<1>6. /\ Announced(pc[t], n[t]) = 0 /\ (a = "epoch" => Announced(a, k) = k)
      /\ Listed(a) = 0 /\ Listed(pc[t]) = 0
  BY ZenonT(60) DEF Announced, Listed
<1>7. m_waiters \in Nat
  BY <1>1, OwedWeights, SMTT(30) DEF SemInv, Counted
<1>8. m_count' + Owed(pc[t], n[t]) <= m_count + Owed(a, k)
  BY <1>3, <1>5, SMTT(30)
<1>9. owner = NoThread \/ m_count' + Announced(pc[t], n[t]) <= m_count + Announced(a, k)
  BY <1>3, <1>6, SMTT(30)
<1>10. m_waiters' \in Int /\ m_waiters' + Listed(pc[t]) = m_waiters + Listed(a)
  BY <1>6, <1>7, SMTT(30)
<1>11. a # "asleep" /\ a \in AllPlaces \ {"sleepy"}
  BY ZenonT(60) DEF AllPlaces, Places
<1>12. KeepsUp(t, a, k)
  BY <1>2, <1>3, <1>8, <1>9, <1>10, <1>11, ZenonT(60) DEF KeepsUp
<1> QED
  BY <1>4, <1>11, <1>12, ThreadMoves, ZenonT(60)

\* A sleeper is listed.
LEMMA ListedOne ==
  ASSUME NEW p \in Somewhere, NEW u \in Threads, p[u] = "asleep"
  PROVE  Total(ListedBy(p)) # 0
<1>1. ListedBy(p) \in Weights
  <2>1. ASSUME NEW t \in Threads PROVE Listed(p[t]) \in 0 .. MaxWeight
    <3>1. Listed(p[t]) \in {0, 1}
      BY Zenon DEF Listed
    <3> QED
      BY <3>1, MaxWeightNat, SMTT(30)
  <2> QED
    BY <2>1, ZenonT(60) DEF ListedBy, Weights
<1>2. ListedBy(p)[u] = 1
  BY Zenon DEF ListedBy, Listed
<1> DEFINE rest == Cardinality({x \in Tickets(ListedBy(p)) : x[1] # u})
<1>3. rest \in Nat /\ Total(ListedBy(p)) = rest + ListedBy(p)[u]
  BY <1>1, TotalSplit, ZenonT(60)
<1> HIDE DEF rest
<1> QED
  BY <1>2, <1>3, SMTT(30)

\* The places the semaphores go to.
LEMMA PlacesKnown ==
  {"idle", "try", "check", "enlist", "recheck", "wait", "asleep", "delist", "delist_late",
   "returned", "refused", "wake", "syscall", "lock", "lock_late", "first_lock", "epoch_all",
   "notify_all"} \subseteq AllPlaces \ {"sleepy", "notify", "epoch"}
BY DEF AllPlaces, Places, CV!InWait

\* enlist and delist keep m_waiters and the threads in step.
LEMMA Enlists ==
  ASSUME SemInv, build = "futex", build' = build, NEW t \in Threads,
         enlist(t) \/ delist(t), owner' = owner
  PROVE  SemInv'
<1>1. m_count \in 0 .. MaxCount /\ pc \in Somewhere /\ n \in Asking /\ build \in Builds
  BY Zenon DEF SemInv, PlaceTypes, Builds
<1>2. m_count \in Nat
  BY <1>1, PrimitivesAssumption, SMTT(30)
<1>3. m_waiters \in Nat
  BY <1>1, OwedWeights, SMTT(30) DEF SemInv, Counted
<1> DEFINE a == IF pc[t] = "enlist" THEN "recheck" ELSE IF pc[t] = "delist" THEN "try" ELSE "refused"
<1>4. a \in AllPlaces \ {"sleepy", "notify", "epoch"}
  BY PlacesKnown, SMTT(30)
<1>5. /\ pc' = [pc EXCEPT ![t] = a] /\ n' = n /\ m_count' = m_count
      /\ pc[t] \in {"enlist", "delist", "delist_late"}
      /\ m_waiters' = IF pc[t] = "enlist" THEN m_waiters + 1 ELSE m_waiters - 1
  BY SMTT(30) DEF enlist, delist, Goto, stillVars
<1>6. /\ Owed(pc[t], n[t]) = Owed(a, n[t]) /\ Owed(pc[t], n[t]) \in {0, 1}
      /\ Announced(pc[t], n[t]) = 0 /\ Announced(a, n[t]) = 0
  BY <1>5, SMTT(30) DEF Owed, Announced
<1>7. IF pc[t] = "enlist" THEN Listed(pc[t]) = 0 /\ Listed(a) = 1
                          ELSE Listed(pc[t]) = 1 /\ Listed(a) = 0
  BY <1>5, SMTT(30) DEF Listed
<1>8. a # "asleep"
  BY SMTT(30)
<1> HIDE DEF a
<1>9. /\ m_count' + Owed(pc[t], n[t]) <= m_count + Owed(a, n[t])
      /\ m_count' + Announced(pc[t], n[t]) <= m_count + Announced(a, n[t])
  BY <1>2, <1>5, <1>6, SMTT(30)
<1>10. m_waiters' \in Int /\ m_waiters' + Listed(pc[t]) = m_waiters + Listed(a)
  BY <1>3, <1>5, <1>7, SMTT(30)
<1>11. KeepsUp(t, a, n[t])
  BY <1>1, <1>4, <1>5, <1>8, <1>9, <1>10, ZenonT(60) DEF KeepsUp
<1> QED
  BY <1>1, <1>4, <1>5, <1>11, ThreadWalks, ZenonT(60)

\* shutdown asks for every thread.
LEMMA ShutsDown ==
  ASSUME SemInv, build = "futex", build' = build, NEW t \in Threads, shutdown(t), owner' = owner
  PROVE  SemInv'
<1> DEFINE k == Cardinality(Threads)
<1>1. m_count \in 0 .. MaxCount /\ pc \in Somewhere /\ n \in Asking /\ build \in Builds
  BY Zenon DEF SemInv, PlaceTypes, Builds
<1>2. m_count \in Nat
  BY <1>1, PrimitivesAssumption, SMTT(30)
<1>3. m_waiters \in Nat
  BY <1>1, OwedWeights, SMTT(30) DEF SemInv, Counted
<1>4. /\ pc[t] = "idle" /\ pc' = [pc EXCEPT ![t] = "syscall"] /\ n' = [n EXCEPT ![t] = k]
      /\ m_count' = m_count /\ m_waiters' = m_waiters
  BY Zenon DEF shutdown, Goto
<1>5. k \in Nat /\ k \in Asks
  <2>1. Cardinality(Threads) \in Nat /\ MaxRelease \in Nat
    BY PrimitivesAssumption, FS_CardinalityType, Zenon
  <2> QED
    BY <2>1 DEF Asks
<1> HIDE DEF k
<1>6. /\ Owed(pc[t], n[t]) = 0 /\ Owed("syscall", k) = k
      /\ Announced(pc[t], n[t]) = 0 /\ Announced("syscall", k) = 0
      /\ Listed(pc[t]) = 0 /\ Listed("syscall") = 0
  BY <1>4, ZenonT(60) DEF Owed, Announced, Listed
<1>7. /\ m_count' + Owed(pc[t], n[t]) <= m_count + Owed("syscall", k)
      /\ m_count' + Announced(pc[t], n[t]) <= m_count + Announced("syscall", k)
  BY <1>2, <1>4, <1>5, <1>6, SMTT(30)
<1>8. m_waiters' \in Int /\ m_waiters' + Listed(pc[t]) = m_waiters + Listed("syscall")
  BY <1>3, <1>4, <1>6, SMTT(30)
<1>9. KeepsUp(t, "syscall", k)
  BY <1>1, <1>4, <1>7, <1>8, ZenonT(60) DEF KeepsUp
<1>10. "syscall" \in AllPlaces \ {"sleepy"}
  BY PlacesKnown, Zenon
<1> QED
  BY <1>1, <1>4, <1>5, <1>9, <1>10, ThreadMoves, ZenonT(60)

\* Every step of the futex build keeps the invariant.
LEMMA FutexSteps ==
  ASSUME SemInv, build = "futex", build' = build, NEW t \in Threads, futexNext(t)
  PROVE  SemInv'
<1>1. build \in Builds /\ owner' = owner
  BY Zenon DEF Builds, futexNext
<1>2. CASE deadlinePasses(t)
  BY <1>1, <1>2, NothingMoves, ZenonT(60) DEF deadlinePasses
<1>3. CASE tryAcquire(t)
  <2>1. pc[t] = "try" /\ n' = n /\ m_waiters' = m_waiters
    BY <1>3, Zenon DEF tryAcquire, stillVars
  <2>2. CASE m_count > 0
    <3>1. m_count' = m_count - 1 /\ pc' = [pc EXCEPT ![t] = "returned"]
      BY <1>3, <2>2, Zenon DEF tryAcquire, Goto
    <3> QED
      BY <1>1, <2>1, <2>2, <3>1, TakesUnit, ZenonT(60)
  <2>3. CASE ~(m_count > 0)
    <3>1. m_count' = m_count /\ pc' = [pc EXCEPT ![t] = "check"]
      BY <1>3, <2>3, ZenonT(60) DEF tryAcquire, Goto
    <3>2. m_count = 0
      BY <2>3, PrimitivesAssumption, SMTT(30) DEF SemInv, PlaceTypes
    <3>3. Listed(pc[t]) = Listed("check") /\ "check" \in AllPlaces \ {"sleepy", "notify", "epoch"}
      BY <2>1, PlacesKnown, ZenonT(60) DEF Listed
    <3> QED
      BY <1>1, <2>1, <3>1, <3>2, <3>3, WalksOn, ZenonT(60)
  <2> QED
    BY <2>2, <2>3, ZenonT(60)
<1>4. CASE checkDeadline(t)
  <2>1. PICK a \in {"refused", "returned", "enlist"} : pc' = [pc EXCEPT ![t] = a]
    BY <1>4, Zenon DEF checkDeadline, Goto
  <2>2. pc[t] = "check" /\ n' = n /\ m_waiters' = m_waiters /\ m_count' = m_count
    BY <1>4, Zenon DEF checkDeadline, stillVars
  <2>3. Listed(pc[t]) = Listed(a) /\ a \in AllPlaces \ {"sleepy", "notify", "epoch"}
    BY <2>2, PlacesKnown, Zenon DEF Listed
  <2>4. Owed(pc[t], n[t]) = 0
    BY <2>2, Zenon DEF Owed
  <2> QED
    BY <1>1, <2>1, <2>2, <2>3, <2>4, WalksOn, ZenonT(60)
<1>5. CASE enlist(t) \/ delist(t)
  BY <1>1, <1>5, Enlists, ZenonT(60)
<1>6. CASE recheck(t) \/ futexWait(t)
  <2>1. PICK a \in {"wait", "delist", "asleep"} :
          pc' = [pc EXCEPT ![t] = a] /\ (a = "asleep" => m_count = 0)
    BY <1>6, Zenon DEF recheck, futexWait, Goto
  <2>2. pc[t] \in {"recheck", "wait"} /\ n' = n /\ m_waiters' = m_waiters /\ m_count' = m_count
    BY <1>6, Zenon DEF recheck, futexWait, stillVars
  <2>3. Listed(pc[t]) = Listed(a) /\ a \in AllPlaces \ {"sleepy", "notify", "epoch"}
    BY <2>2, PlacesKnown, ZenonT(60) DEF Listed
  <2>4. Owed(pc[t], n[t]) = 0 /\ pc[t] # "epoch"
    BY <2>2, Zenon DEF Owed
  <2> QED
    BY <1>1, <2>1, <2>2, <2>3, <2>4, WalksOn, ZenonT(60)
<1>7. CASE interrupted(t) \/ timesOut(t)
  <2>1. PICK a \in {"delist", "delist_late"} : pc' = [pc EXCEPT ![t] = a]
    BY <1>7, ZenonT(60) DEF interrupted, timesOut, Goto
  <2>2. pc[t] = "asleep" /\ n' = n /\ m_waiters' = m_waiters /\ m_count' = m_count
    BY <1>7, ZenonT(60) DEF interrupted, timesOut, stillVars
  <2>3. Listed(pc[t]) = Listed(a) /\ a \in AllPlaces \ {"sleepy", "notify", "epoch"}
    BY <2>2, PlacesKnown, ZenonT(60) DEF Listed
  <2>4. Owed(pc[t], n[t]) = 0
    BY <2>2, ZenonT(60) DEF Owed
  <2> QED
    BY <1>1, <2>1, <2>2, <2>3, <2>4, WalksOn, ZenonT(60)
<1>8. CASE wake(t)
  <2>1. pc[t] = "wake" /\ n' = n /\ m_waiters' = m_waiters /\ m_count' = m_count
    BY <1>8, Zenon DEF wake, stillVars
  <2> DEFINE a == IF m_waiters > 0 THEN "syscall" ELSE "idle"
  <2>2. pc' = [pc EXCEPT ![t] = a] /\ a \in {"syscall", "idle"}
    BY <1>8, Zenon DEF wake, Goto
  <2>3. Listed(pc[t]) = Listed(a) /\ a \in AllPlaces \ {"sleepy", "notify", "epoch"}
    BY <2>1, <2>2, PlacesKnown, ZenonT(60) DEF Listed
  <2>4. CASE m_waiters > 0
    <3>1. Owed(pc[t], n[t]) = Owed(a, n[t])
      BY <2>1, <2>4, Zenon DEF Owed
    <3> QED
      BY <1>1, <2>1, <2>2, <2>3, <3>1, WalksOn, ZenonT(60)
  <2>5. CASE ~(m_waiters > 0)
    <3>1. pc \in Somewhere
      BY Zenon DEF SemInv, PlaceTypes
    <3>2. m_waiters = Total(ListedBy(pc))
      BY <1>1, ZenonT(60) DEF SemInv, Counted
    <3>3. Asleep = {}
      <4>1. SUFFICES ASSUME NEW u \in Threads, pc[u] = "asleep" PROVE FALSE
        BY Zenon DEF Asleep
      <4>2. Total(ListedBy(pc)) # 0
        BY <3>1, <4>1, ListedOne, ZenonT(60)
      <4>3. Total(ListedBy(pc)) \in Nat
        BY <3>1, OwedWeights, ZenonT(60) DEF SemInv, PlaceTypes
      <4> QED
        BY <2>5, <3>2, <4>2, <4>3, SMTT(30)
    <3> QED
      BY <1>1, <2>1, <2>2, <2>3, <3>3, WalksOn, ZenonT(60)
  <2> QED
    BY <2>4, <2>5, Zenon
<1>9. CASE futexWake(t)
  BY <1>1, <1>9, FutexWakes, ZenonT(60)
<1>10. CASE acquire(t) \/ tryAcquireFor(t)
  <2>1. /\ pc[t] = "idle" /\ pc' = [pc EXCEPT ![t] = "try"]
        /\ n' = n /\ m_waiters' = m_waiters /\ m_count' = m_count
    BY <1>10, Zenon DEF acquire, tryAcquireFor, Goto
  <2>2. Listed(pc[t]) = Listed("try") /\ "try" \in AllPlaces \ {"sleepy", "notify", "epoch"}
    BY <2>1, PlacesKnown, Zenon DEF Listed
  <2>3. Owed(pc[t], n[t]) = 0
    BY <2>1, ZenonT(60) DEF Owed
  <2> QED
    BY <1>1, <2>1, <2>2, <2>3, WalksOn, ZenonT(60)
<1>11. CASE shutdown(t)
  BY <1>1, <1>11, ShutsDown, Zenon
<1>12. CASE \E k \in Releasable : release(t, k)
  <2>1. PICK k \in Releasable : release(t, k)
    BY <1>12, Zenon
  <2>2. /\ pc[t] = "idle" /\ pc' = [pc EXCEPT ![t] = "wake"] /\ n' = [n EXCEPT ![t] = k]
        /\ m_count' = m_count + k /\ m_waiters' = m_waiters
    BY <2>1, Zenon DEF release, Goto
  <2>3. owner = NoThread
    BY <1>1, Zenon DEF SemInv, Locked
  <2> QED
    BY <1>1, <2>2, <2>3, Releases, ZenonT(60)
<1> QED
  BY <1>2, <1>3, <1>4, <1>5, <1>6, <1>7, <1>8, <1>9, <1>10, <1>11, <1>12, ZenonT(60) DEF futexNext, semStep

\* A thread over a condition variable goes on without a unit.
LEMMA CvWalksOn ==
  ASSUME SemInv, build \in Builds, build # "futex", build' = build, NEW t \in Threads,
         NEW a \in {"idle", "try", "check", "returned", "refused", "lock", "lock_late",
                    "first_lock", "epoch_all", "notify_all"},
         pc' = [pc EXCEPT ![t] = a],
         n' = n, m_count' = m_count, m_waiters' = m_waiters, owner' = owner,
         pc[t] # "epoch",
         \/ m_count = 0 \/ Owed(pc[t], n[t]) = 0 \/ Owed(pc[t], n[t]) = Owed(a, n[t])
  PROVE  SemInv'
<1>1. a \in AllPlaces \ {"sleepy", "notify", "epoch"} /\ a # "asleep"
  BY PlacesKnown, SMTT(30)
<1> QED
  BY <1>1, WalksOn, ZenonT(60)

\* The sleeps and the notifications keep the invariant.
LEMMA CvWaits ==
  ASSUME SemInv, build \in Builds, build # "futex", build' = build, NEW t \in Threads,
         cv_sleep(t) \/ cv_notify(t) \/ cv_notifyAll(t)
  PROVE  SemInv'
<1>1. m_count' = m_count /\ m_waiters' = m_waiters
  BY Zenon DEF cv_sleep, cv_notify, cv_notifyAll
<1>2. CASE cv_sleep(t) /\ CV!sleeps(t)
  <2>1. n' = n
    BY <1>2, Zenon DEF cv_sleep, stillVars
  <2> QED
    BY <1>1, <1>2, <2>1, ThreadSleeps, ZenonT(60)
<1>3. CASE cv_sleep(t) /\ CV!stirs(t, Expired)
  <2>1. n' = n
    BY <1>3, Zenon DEF cv_sleep, stillVars
  <2>2. /\ pc[t] = "asleep" /\ pc' = [pc EXCEPT ![t] = CV!Woken(t, Expired)] /\ owner' = owner
        /\ CV!Woken(t, Expired) \in {"lock", "lock_late"}
    BY <1>3, Zenon DEF CV!stirs, CV!Woken
  <2>3. Owed(pc[t], n[t]) = 0 /\ pc[t] # "epoch"
    BY <2>2, ZenonT(60) DEF Owed
  <2>4. PICK a \in {"lock", "lock_late"} : pc' = [pc EXCEPT ![t] = a]
    BY <2>2, Zenon
  <2> QED
    BY <1>1, <2>1, <2>2, <2>3, <2>4, CvWalksOn, ZenonT(60)
<1>4. CASE cv_notify(t)
  BY <1>1, <1>4, WakesOne, ZenonT(60) DEF cv_notify
<1>5. CASE cv_notifyAll(t)
  <2>1. n' = n
    BY <1>5, ZenonT(60) DEF cv_notifyAll, stillVars
  <2> QED
    BY <1>1, <1>5, <2>1, WakesAll, ZenonT(60) DEF cv_notifyAll
<1> QED
  BY <1>2, <1>3, <1>4, <1>5, ZenonT(60) DEF cv_sleep

\* Every step of CvSemaphore keeps the invariant.
LEMMA CvSteps ==
  ASSUME SemInv, build = "cv", build' = build, NEW t \in Threads, cvNext(t)
  PROVE  SemInv'
<1>1. build \in Builds /\ build # "futex" /\ m_count \in 0 .. MaxCount
  BY Zenon DEF Builds, SemInv, PlaceTypes
<1>2. CASE cv_take(t)
  <2>1. /\ pc[t] \in {"lock", "lock_late"} /\ n' = n /\ m_waiters' = m_waiters /\ owner' = owner
    BY <1>2, ZenonT(60) DEF cv_take, Waiting, stillVars
  <2>2. CASE m_count > 0
    <3>1. m_count # 0
      BY <2>2, SMTT(30)
    <3>2. m_count' = m_count - 1 /\ pc' = [pc EXCEPT ![t] = "returned"]
      BY <1>2, <2>2, <3>1, ZenonT(60) DEF cv_take, Goto
    <3> QED
      BY <1>1, <2>1, <2>2, <3>2, TakesUnit, ZenonT(60)
  <2>3. CASE ~(m_count > 0)
    <3>1. m_count = 0
      BY <1>1, <2>3, PrimitivesAssumption, SMTT(30)
    <3>2. m_count' = m_count
      BY <1>2, <2>3, <3>1, ZenonT(60) DEF cv_take
    <3>3. PICK a \in {"refused", "returned"} : pc' = [pc EXCEPT ![t] = a]
      BY <1>2, ZenonT(60) DEF cv_take, Goto
    <3> QED
      BY <1>1, <2>1, <3>1, <3>2, <3>3, CvWalksOn, ZenonT(60)
  <2> QED
    BY <2>2, <2>3, Zenon
<1>3. CASE cv_wait(t)
  <2>1. /\ pc[t] \in {"lock", "lock_late"} /\ n' = n /\ m_waiters' = m_waiters /\ m_count' = m_count
        /\ owner = NoThread
    BY <1>3, ZenonT(60) DEF cv_wait, Waiting, stillVars, CV!Unlocked
  <2>2. m_count = 0
    BY <1>1, <1>3, PrimitivesAssumption, SMTT(30) DEF cv_wait, cv_Ready
  <2>3. CASE pc[t] = "lock"
    BY <1>1, <1>3, <2>1, <2>2, <2>3, ThreadBlocks, ZenonT(60) DEF cv_wait
  <2>4. CASE pc[t] # "lock"
    <3>1. pc' = [pc EXCEPT ![t] = "refused"] /\ owner' = owner
      BY <1>3, <2>4, ZenonT(60) DEF cv_wait, Goto
    <3> QED
      BY <1>1, <2>1, <2>2, <3>1, CvWalksOn, ZenonT(60)
  <2> QED
    BY <2>3, <2>4, ZenonT(60)
<1>4. CASE cv_sleep(t) \/ cv_notify(t) \/ cv_notifyAll(t)
  BY <1>1, <1>4, CvWaits, ZenonT(60)
<1>5. CASE cv_enter(t, TRUE) \/ cv_enter(t, FALSE) \/ cv_shutdown(t)
  <2>1. /\ pc[t] = "idle" /\ n' = n /\ m_waiters' = m_waiters /\ m_count' = m_count /\ owner' = owner
    BY <1>5, ZenonT(60) DEF cv_enter, cv_shutdown, stillVars
  <2>2. PICK a \in {"lock", "notify_all"} : pc' = [pc EXCEPT ![t] = a]
    BY <1>5, ZenonT(60) DEF cv_enter, cv_shutdown, Goto
  <2>3. Owed(pc[t], n[t]) = 0
    BY <2>1, ZenonT(60) DEF Owed
  <2> QED
    BY <1>1, <2>1, <2>2, <2>3, CvWalksOn, ZenonT(60)
<1>6. CASE \E k \in Releasable : cv_release(t, k)
  <2>1. PICK k \in Releasable : cv_release(t, k)
    BY <1>6, ZenonT(60)
  <2>2. /\ pc[t] = "idle" /\ pc' = [pc EXCEPT ![t] = "notify"] /\ n' = [n EXCEPT ![t] = k]
        /\ m_count' = m_count + k /\ m_waiters' = m_waiters /\ owner' = owner /\ owner = NoThread
    BY <2>1, ZenonT(60) DEF cv_release, Goto, CV!Unlocked
  <2> QED
    BY <1>1, <2>2, Releases, ZenonT(60)
<1> QED
  BY <1>2, <1>3, <1>4, <1>5, <1>6, ZenonT(60) DEF cvNext, cvStep

\* The increment of m_epoch: what was announced is now on its way.
LEMMA Announces ==
  ASSUME SemInv, build = "fallback", build' = build, NEW t \in Threads, fb_epoch(t)
  PROVE  SemInv'
<1>1. /\ pc[t] \in {"epoch", "epoch_all"} /\ owner = NoThread /\ owner' = owner
      /\ n' = n /\ m_count' = m_count /\ m_waiters' = m_waiters /\ build \in Builds /\ build # "futex"
  BY ZenonT(60) DEF fb_epoch, CV!Unlocked, stillVars, Builds
<1>2. CASE pc[t] = "epoch_all"
  <2>1. pc' = [pc EXCEPT ![t] = "notify_all"]
    BY <1>2, ZenonT(60) DEF fb_epoch, Goto
  <2>2. Owed(pc[t], n[t]) = 0 /\ pc[t] # "epoch"
    BY <1>2, Zenon DEF Owed
  <2> QED
    BY <1>1, <2>1, <2>2, CvWalksOn, ZenonT(60)
<1>3. CASE pc[t] = "epoch"
  <2>1. pc' = [pc EXCEPT ![t] = "notify"]
    BY <1>3, ZenonT(60) DEF fb_epoch, Goto
  <2>2. n \in Asking /\ n[t] \in 1 .. MaxRelease /\ m_count \in 0 .. MaxCount
    BY <1>1, <1>3, ZenonT(60) DEF SemInv, PlaceTypes, Notifies
  <2>3. n[t] \in Asks /\ n' = [n EXCEPT ![t] = n[t]]
    BY <1>1, <2>2, ZenonT(60) DEF Asking
  <2>4. Owed(pc[t], n[t]) = n[t] /\ Owed("notify", n[t]) = n[t]
    BY <1>3, ZenonT(60) DEF Owed
  <2>5. m_count + n[t] <= m_count + n[t] /\ m_waiters \in Int
    BY <1>1, <2>2, PrimitivesAssumption, SMTT(30) DEF SemInv, Counted
  <2>6. KeepsUp(t, "notify", n[t])
    BY <1>1, <2>2, <2>4, <2>5, ZenonT(60) DEF KeepsUp
  <2>7. "notify" \in AllPlaces \ {"sleepy"}
    BY Zenon DEF AllPlaces
  <2> QED
    BY <1>1, <2>1, <2>3, <2>6, <2>7, ThreadMoves, ZenonT(60)
<1> QED
  BY <1>1, <1>2, <1>3, ZenonT(60)

\* Every step of the fallback keeps the invariant.
LEMMA FallbackSteps ==
  ASSUME SemInv, build = "fallback", build' = build, NEW t \in Threads, fallbackNext(t)
  PROVE  SemInv'
<1>1. build \in Builds /\ build # "futex" /\ m_count \in 0 .. MaxCount
  BY Zenon DEF Builds, SemInv, PlaceTypes
<1>2. CASE tryAcquire(t) /\ UNCHANGED <<owner, moved>>
  <2>1. pc[t] = "try" /\ n' = n /\ m_waiters' = m_waiters /\ owner' = owner
    BY <1>2, ZenonT(60) DEF tryAcquire, stillVars
  <2>2. CASE m_count > 0
    <3>1. m_count' = m_count - 1 /\ pc' = [pc EXCEPT ![t] = "returned"]
      BY <1>2, <2>2, Zenon DEF tryAcquire, Goto
    <3> QED
      BY <1>1, <2>1, <2>2, <3>1, TakesUnit, ZenonT(60)
  <2>3. CASE ~(m_count > 0)
    <3>1. m_count' = m_count /\ pc' = [pc EXCEPT ![t] = "check"]
      BY <1>2, <2>3, ZenonT(60) DEF tryAcquire, Goto
    <3>2. m_count = 0
      BY <1>1, <2>3, PrimitivesAssumption, SMTT(30)
    <3> QED
      BY <1>1, <2>1, <3>1, <3>2, CvWalksOn, ZenonT(60)
  <2> QED
    BY <2>2, <2>3, ZenonT(60)
<1>3. CASE fb_checkShutdown(t)
  <2>1. /\ pc[t] = "check" /\ n' = n /\ m_waiters' = m_waiters /\ m_count' = m_count /\ owner' = owner
    BY <1>3, Zenon DEF fb_checkShutdown, stillVars
  <2>2. PICK a \in {"first_lock", "refused", "returned"} : pc' = [pc EXCEPT ![t] = a]
    BY <1>3, Zenon DEF fb_checkShutdown, Goto
  <2>3. Owed(pc[t], n[t]) = 0
    BY <2>1, ZenonT(60) DEF Owed
  <2> QED
    BY <1>1, <2>1, <2>2, <2>3, CvWalksOn, ZenonT(60)
<1>4. CASE fb_firstLock(t)
  <2>1. /\ pc[t] = "first_lock" /\ n' = n /\ m_waiters' = m_waiters /\ m_count' = m_count
        /\ owner = NoThread
    BY <1>4, Zenon DEF fb_firstLock, stillVars, CV!Unlocked
  <2>2. CASE m_shutdown \/ m_count > 0
    <3>1. pc' = [pc EXCEPT ![t] = "try"] /\ owner' = owner
      BY <1>4, <2>2, ZenonT(60) DEF fb_firstLock, Goto
    <3>2. Owed(pc[t], n[t]) = 0
      BY <2>1, Zenon DEF Owed
    <3> QED
      BY <1>1, <2>1, <3>1, <3>2, CvWalksOn, ZenonT(60)
  <2>3. CASE ~(m_shutdown \/ m_count > 0)
    <3>1. m_count = 0
      BY <1>1, <2>3, PrimitivesAssumption, SMTT(30)
    <3>2. CV!blocks(t)
      BY <1>4, <2>3, ZenonT(60) DEF fb_firstLock
    <3> QED
      BY <1>1, <2>1, <3>1, <3>2, ThreadBlocks, ZenonT(60)
  <2> QED
    BY <2>2, <2>3, Zenon
<1>5. CASE fb_wait(t)
  <2>1. /\ pc[t] \in {"lock", "lock_late"} /\ n' = n /\ m_waiters' = m_waiters /\ m_count' = m_count
        /\ owner = NoThread
    BY <1>5, ZenonT(60) DEF fb_wait, Waiting, stillVars, CV!Unlocked
  <2>2. CASE fb_Ready(t)
    <3>1. pc' = [pc EXCEPT ![t] = "try"] /\ owner' = owner
      BY <1>5, <2>2, Zenon DEF fb_wait, Goto
    <3>2. Owed(pc[t], n[t]) = Owed("try", n[t])
      BY <2>1, Zenon DEF Owed
    <3> QED
      BY <1>1, <2>1, <3>1, <3>2, CvWalksOn, ZenonT(60)
  <2>3. CASE ~fb_Ready(t) /\ pc[t] = "lock"
    <3>1. m_count = 0
      BY <1>1, <2>3, PrimitivesAssumption, SMTT(30) DEF fb_Ready
    <3>2. CV!blocks(t)
      BY <1>5, <2>3, Zenon DEF fb_wait
    <3> QED
      BY <1>1, <2>1, <3>1, <3>2, ThreadBlocks, ZenonT(60)
  <2>4. CASE ~fb_Ready(t) /\ pc[t] # "lock"
    <3>1. m_count = 0
      BY <1>1, <2>4, PrimitivesAssumption, SMTT(30) DEF fb_Ready
    <3>2. pc' = [pc EXCEPT ![t] = "refused"] /\ owner' = owner
      BY <1>5, <2>4, ZenonT(60) DEF fb_wait, Goto
    <3> QED
      BY <1>1, <2>1, <3>1, <3>2, CvWalksOn, ZenonT(60)
  <2> QED
    BY <2>2, <2>3, <2>4, ZenonT(60)
<1>6. CASE fb_epoch(t)
  BY <1>6, Announces, ZenonT(60)
<1>7. CASE cv_sleep(t) \/ cv_notify(t) \/ cv_notifyAll(t)
  BY <1>1, <1>7, CvWaits, ZenonT(60)
<1>8. CASE ((acquire(t) \/ tryAcquireFor(t)) /\ UNCHANGED <<owner, moved>>) \/ fb_shutdown(t)
  <2>1. /\ pc[t] = "idle" /\ n' = n /\ m_waiters' = m_waiters /\ m_count' = m_count /\ owner' = owner
    BY <1>8, ZenonT(60) DEF acquire, tryAcquireFor, fb_shutdown, stillVars
  <2>2. PICK a \in {"try", "epoch_all"} : pc' = [pc EXCEPT ![t] = a]
    BY <1>8, ZenonT(60) DEF acquire, tryAcquireFor, fb_shutdown, Goto
  <2>3. Owed(pc[t], n[t]) = 0
    BY <2>1, Zenon DEF Owed
  <2> QED
    BY <1>1, <2>1, <2>2, <2>3, CvWalksOn, ZenonT(60)
<1>9. CASE \E k \in Releasable : fb_release(t, k)
  <2>1. PICK k \in Releasable : fb_release(t, k)
    BY <1>9, ZenonT(60)
  <2>2. /\ pc[t] = "idle" /\ pc' = [pc EXCEPT ![t] = "epoch"] /\ n' = [n EXCEPT ![t] = k]
        /\ m_count' = m_count + k /\ m_waiters' = m_waiters /\ owner' = owner
    BY <2>1, ZenonT(60) DEF fb_release, Goto
  <2> QED
    BY <1>1, <2>2, Releases, ZenonT(60)
<1> QED
  BY <1>2, <1>3, <1>4, <1>5, <1>6, <1>7, <1>8, <1>9, ZenonT(60) DEF fallbackNext, fbStep

\* The steps all builds share.
LEMMA CallerSteps ==
  ASSUME SemInv, build \in Builds, build' = build, NEW t \in Threads,
         takeNow(t) \/ callerNext(t)
  PROVE  SemInv'
<1>1. pc \in Somewhere
  BY Zenon DEF SemInv, PlaceTypes
<1>2. CASE takeNow(t)
  <2>1. /\ pc[t] = "idle" /\ n' = n /\ m_waiters' = m_waiters /\ owner' = owner
        /\ m_count > 0 /\ m_count' = m_count - 1 /\ pc' = pc
    BY <1>2, ZenonT(60) DEF takeNow, stillVars
  <2>2. pc' = [pc EXCEPT ![t] = "idle"]
    BY <1>1, <2>1, ZenonT(60) DEF Somewhere
  <2> QED
    BY <2>1, <2>2, TakesUnit, ZenonT(60)
<1>3. CASE deadlinePasses(t) /\ UNCHANGED <<owner, moved>>
  BY <1>3, NothingMoves, ZenonT(60) DEF deadlinePasses
<1>4. CASE leave(t) /\ UNCHANGED <<owner, moved>>
  <2>1. /\ pc[t] \in {"returned", "refused"} /\ pc' = [pc EXCEPT ![t] = "idle"]
        /\ n' = n /\ m_waiters' = m_waiters /\ owner' = owner /\ m_count' = m_count
    BY <1>4, ZenonT(60) DEF leave, Goto
  <2>2. Listed(pc[t]) = Listed("idle") /\ Owed(pc[t], n[t]) = 0 /\ pc[t] # "epoch"
    BY <2>1, ZenonT(60) DEF Listed, Owed
  <2>3. "idle" \in AllPlaces \ {"sleepy", "notify", "epoch"}
    BY PlacesKnown, Zenon
  <2> QED
    BY <2>1, <2>2, <2>3, WalksOn, ZenonT(60)
<1> QED
  BY <1>2, <1>3, <1>4, ZenonT(60) DEF callerNext

\* Every step of the users of a semaphore keeps the invariant.
LEMMA SemaphoreSteps ==
  ASSUME SemInv, Next
  PROVE  SemInv'
<1>1. PICK t \in Users :
        \/ build = "futex" /\ futexNext(t)
        \/ build = "fallback" /\ fallbackNext(t)
        \/ build = "cv" /\ cvNext(t)
        \/ build \in Builds /\ (takeNow(t) \/ callerNext(t))
  BY Zenon DEF Next
<1>2. t \in Threads /\ build' = build
  BY PrimitivesAssumption, ZenonT(60) DEF Next
<1> QED
  BY <1>1, <1>2, FutexSteps, FallbackSteps, CvSteps, CallerSteps, ZenonT(60)

-----------------------------------------------------------------------------
(* ThreadSafeQueue *)

Messages == 1 .. MaxItems

\* A value pushed comes after everything pushed before.
LEMMA PushLast ==
  ASSUME NEW p \in Seq(Messages), NEW q \in Seq(Messages), NEW x \in Messages
  PROVE  Append(q, x) \in Seq(Messages) /\ p \o Append(q, x) = Append(p \o q, x)
BY SMTT(30)

\* A value popped leaves the queue at its head.
LEMMA PopFirst ==
  ASSUME NEW p \in Seq(Messages), NEW q \in Seq(Messages), q # <<>>
  PROVE  /\ Tail(q) \in Seq(Messages) /\ Append(p, Head(q)) \in Seq(Messages)
         /\ Append(p, Head(q)) \o Tail(q) = p \o q
BY SMTT(30)

\* The values in the order of their pushes, and one more.
LEMMA OneMore ==
  ASSUME NEW k \in Nat
  PROVE  /\ [i \in 1 .. k |-> i] \in Seq(Nat)
         /\ Append([i \in 1 .. k |-> i], k + 1) = [i \in 1 .. k + 1 |-> i]
<1>1. [i \in 1 .. k |-> i] \in Seq(Nat) /\ Len([i \in 1 .. k |-> i]) = k
  OBVIOUS
<1> QED
  BY <1>1, SMTT(30)

QueueInv ==
  /\ pushed \in 0 .. MaxItems /\ m_closed \in BOOLEAN
  /\ m_q \in Seq(Messages) /\ popped \in Seq(Messages)
  /\ NoLostMessages

\* A push and a pop keep the order of the messages.
LEMMA QueueSteps ==
  ASSUME QueueInv, Queue!Next
  PROVE  QueueInv'
<1> USE DEF Queue!Goto
<1>1. PICK t \in Threads : Queue!queueStep(t) \/ Queue!push(t) \/ Queue!close(t) \/ Queue!pop(t) \/ Queue!tryPop(t)
  BY PrimitivesAssumption, ZenonT(60) DEF Queue!Next, Queue!Consumers
<1>2. CASE UNCHANGED Queue!queueVars
  BY <1>2, ZenonT(60) DEF QueueInv, NoLostMessages, Queue!NoLostMessages, Queue!queueVars
<1>3. CASE Queue!push(t)
  <2>1. /\ pushed' = pushed + 1 /\ m_q' = Append(m_q, pushed') /\ pushed < MaxItems
        /\ m_closed' = m_closed /\ popped' = popped /\ ended' = ended /\ ~m_closed
    BY <1>3, ZenonT(60) DEF Queue!push
  <2>2. pushed \in Nat /\ pushed' \in 0 .. MaxItems /\ pushed' \in Messages
    BY <2>1, PrimitivesAssumption, SMTT(30) DEF QueueInv, Messages
  <2>3. m_q' \in Seq(Messages)
    BY <2>1, <2>2, PushLast, ZenonT(60) DEF QueueInv
  <2>4. popped' \o m_q' = Append(popped \o m_q, pushed')
    BY <2>1, <2>2, PushLast, ZenonT(60) DEF QueueInv
  <2>5. popped \o m_q = [i \in 1 .. pushed |-> i]
    BY ZenonT(60) DEF QueueInv, NoLostMessages, Queue!NoLostMessages
  <2>6. popped' \o m_q' = [i \in 1 .. pushed' |-> i]
    BY <2>1, <2>2, <2>4, <2>5, OneMore, ZenonT(60)
  <2>7. ended' = {}
    BY <2>1, ZenonT(60) DEF QueueInv, NoLostMessages, Queue!NoLostMessages
  <2> QED
    BY <2>1, <2>2, <2>3, <2>6, <2>7, ZenonT(60) DEF QueueInv, NoLostMessages, Queue!NoLostMessages
<1>4. CASE Queue!close(t)
  BY <1>4, ZenonT(60) DEF Queue!close, QueueInv, NoLostMessages, Queue!NoLostMessages
<1>5. CASE Queue!tryPop(t) \/ Queue!popValue(t)
  <2>1. /\ m_q # <<>> /\ popped' = Append(popped, Head(m_q)) /\ m_q' = Tail(m_q)
        /\ m_closed' = m_closed /\ pushed' = pushed /\ ended' = ended
    BY <1>5, ZenonT(60) DEF Queue!tryPop, Queue!popValue
  <2>2. popped \in Seq(Messages) /\ m_q \in Seq(Messages)
    BY Zenon DEF QueueInv
  <2>3. popped' \in Seq(Messages) /\ m_q' \in Seq(Messages) /\ popped' \o m_q' = popped \o m_q
    BY <2>1, <2>2, PopFirst, ZenonT(60)
  <2>4. ended' = {}
    BY <2>1, ZenonT(60) DEF QueueInv, NoLostMessages, Queue!NoLostMessages
  <2> QED
    BY <2>1, <2>3, <2>4, ZenonT(60) DEF QueueInv, NoLostMessages, Queue!NoLostMessages
<1>6. CASE Queue!popEnd(t)
  BY <1>6, ZenonT(60) DEF Queue!popEnd, QueueInv, NoLostMessages, Queue!NoLostMessages
<1>7. CASE Queue!pop(t) \/ Queue!pushNotify(t) \/ Queue!closeNotify(t) \/ Queue!popWait(t) \/ Queue!sleep(t)
  BY <1>2, <1>7, ZenonT(60) DEF Queue!pop, Queue!pushNotify, Queue!closeNotify, Queue!popWait, Queue!sleep
<1> QED
  BY <1>1, <1>3, <1>4, <1>5, <1>6, <1>7, ZenonT(60) DEF Queue!queueStep

-----------------------------------------------------------------------------
(* Eventcount *)

\* The epoch moved on a waiter only in its window, or a notification is on
\* its way to it.
EventInv ==
  /\ window \in [Threads -> BOOLEAN]
  /\ build = "eventcount" =>
       \A t \in Threads : moved[t] =>
         /\ pc[t] = "sleepy" => window[t]
         /\ pc[t] = "asleep" => window[t] \/ \E u \in Threads : pc[u] = "notify_all"

\* Every step of Eventcount keeps this invariant.
LEMMA EventSteps ==
  ASSUME EventInv, build = "eventcount", build' = build,
         pc \in Somewhere, moved \in [Threads -> BOOLEAN], Event!Next
  PROVE  EventInv'
<1>1. PICK t \in Threads : \/ Event!prepareWait(t) \/ Event!commitWait(t) \/ Event!testEpoch(t)
                           \/ Event!sleep(t) \/ Event!advanceEpoch(t) \/ Event!notifyWaiters(t)
  BY Zenon DEF Event!Next
<1>2. /\ window \in [Threads -> BOOLEAN]
      /\ \A u \in Threads : moved[u] => (pc[u] = "sleepy" => window[u])
      /\ \A u \in Threads : moved[u] =>
           (pc[u] = "asleep" => window[u] \/ \E v \in Threads : pc[v] = "notify_all")
  BY Zenon DEF EventInv
<1>3. ASSUME NEW a, pc' = [pc EXCEPT ![t] = a]
      PROVE  pc'[t] = a /\ \A u \in Threads \ {t} : pc'[u] = pc[u]
  BY <1>3, ZenonT(60) DEF Somewhere
<1>4. CASE Event!prepareWait(t)
  <2>1. pc'[t] = "prepared" /\ (\A u \in Threads \ {t} : pc'[u] = pc[u]) /\ pc[t] = "idle"
    BY <1>3, <1>4, ZenonT(60) DEF Event!prepareWait, Event!Goto
  <2>2. window' \in [Threads -> BOOLEAN]
    BY <1>2, <1>4, ZenonT(60) DEF Event!prepareWait
  <2>3. \A u \in Threads \ {t} : moved'[u] = moved[u] /\ window'[u] = window[u]
    BY <1>2, <1>4, ZenonT(60) DEF Event!prepareWait
  <2> QED
    BY <1>2, <2>1, <2>2, <2>3, ZenonT(60) DEF EventInv
<1>5. CASE Event!commitWait(t)
  <2>1. pc'[t] \in {"lock", "idle"} /\ (\A u \in Threads \ {t} : pc'[u] = pc[u]) /\ pc[t] = "prepared"
    BY <1>3, <1>5, ZenonT(60) DEF Event!commitWait, Event!Goto
  <2>2. window' = window /\ moved' = moved
    BY <1>5, ZenonT(60) DEF Event!commitWait, Event!eventVars
  <2> QED
    BY <1>2, <2>1, <2>2, ZenonT(60) DEF EventInv
<1>6. CASE Event!testEpoch(t)
  <2>1. /\ pc'[t] \in {"idle", "sleepy"} /\ (\A u \in Threads \ {t} : pc'[u] = pc[u])
        /\ pc[t] = "lock" /\ (moved[t] => pc'[t] = "idle")
    BY <1>3, <1>6, ZenonT(60) DEF Event!testEpoch, Event!Goto, Event!blocks
  <2>2. window' = window /\ moved' = moved
    BY <1>6, ZenonT(60) DEF Event!testEpoch, Event!eventVars
  <2> QED
    BY <1>2, <2>1, <2>2, ZenonT(60) DEF EventInv
<1>7. CASE Event!sleep(t)
  <2>1. /\ \/ pc[t] = "sleepy" /\ pc'[t] = "asleep"
           \/ pc[t] = "asleep" /\ pc'[t] = "lock"
        /\ \A u \in Threads \ {t} : pc'[u] = pc[u]
    BY <1>3, <1>7, ZenonT(60) DEF Event!sleep, Event!sleeps, Event!stirs, Event!Woken
  <2>2. window' = window /\ moved' = moved
    BY <1>7, ZenonT(60) DEF Event!sleep, Event!eventVars
  <2> QED
    BY <1>2, <2>1, <2>2, ZenonT(60) DEF EventInv
<1>8. CASE Event!advanceEpoch(t)
  <2>1. pc'[t] = "notify_all" /\ (\A u \in Threads \ {t} : pc'[u] = pc[u]) /\ pc[t] = "idle"
    BY <1>3, <1>8, ZenonT(60) DEF Event!advanceEpoch, Event!Goto
  <2>2. \A u \in Threads : window'[u] = (pc[u] = "sleepy" \/ window[u])
    BY <1>8, Zenon DEF Event!advanceEpoch
  <2>3. window' \in [Threads -> BOOLEAN]
    BY <1>8, ZenonT(60) DEF Event!advanceEpoch
  <2> QED
    BY <2>1, <2>2, <2>3, ZenonT(60) DEF EventInv
<1>9. CASE Event!notifyWaiters(t)
  <2>1. pc' = [u \in Threads |-> IF u = t THEN "idle"
                                 ELSE IF u \in Event!Asleep THEN Event!Woken(u, {}) ELSE pc[u]]
    BY <1>9, Zenon DEF Event!notifyWaiters, Event!notifyAll
  <2>2. \A u \in Threads : pc'[u] = pc[u] \/ pc'[u] \in {"idle", "lock"}
    BY <2>1, ZenonT(60) DEF Event!Woken
  <2>3. \A u \in Threads : pc'[u] # "asleep"
    BY <2>1, SMTT(30) DEF Event!Asleep, Event!Woken
  <2>4. window' = window /\ moved' = moved
    BY <1>9, Zenon DEF Event!notifyWaiters, Event!eventVars
  <2> QED
    BY <1>2, <2>2, <2>3, <2>4, ZenonT(60) DEF EventInv
<1> QED
  BY <1>1, <1>4, <1>5, <1>6, <1>7, <1>8, <1>9, ZenonT(60)

-----------------------------------------------------------------------------
(* Types *)

\* The queue and the event counter use the places of a condition variable.
LEMMA WaitersSomewhere ==
  ASSUME pc \in Somewhere, owner \in Threads \cup {NoThread}, Queue!Next \/ Event!Next
  PROVE  pc' \in Somewhere /\ owner' \in Threads \cup {NoThread}
<1>1. /\ {"idle", "lock", "sleepy", "asleep", "notify", "notify_all", "prepared"} \subseteq AllPlaces
      /\ Producers \subseteq Threads
  BY PrimitivesAssumption DEF AllPlaces, Places, CV!InWait
<1>2. ASSUME NEW t \in Threads, NEW a \in AllPlaces, pc' = [pc EXCEPT ![t] = a]
      PROVE  pc' \in Somewhere
  BY <1>2, Zenon DEF Somewhere
<1>3. ASSUME NEW t \in Threads, NEW u \in Threads, NEW a \in AllPlaces, NEW b \in AllPlaces,
             pc' = [pc EXCEPT ![t] = a, ![u] = b]
      PROVE  pc' \in Somewhere
  BY <1>3, Zenon DEF Somewhere
<1>4. ASSUME NEW t \in Threads, Queue!notifyAll(t, "idle", {}) \/ Event!notifyAll(t, "idle", {})
      PROVE  pc' \in Somewhere /\ owner' = owner
  <2>1. \A u \in Threads : Queue!Woken(u, {}) \in AllPlaces
    BY <1>1, Zenon DEF Queue!Woken
  <2>2. /\ owner' = owner
        /\ pc' = [u \in Threads |-> IF u = t THEN "idle"
                                   ELSE IF u \in Queue!Asleep THEN Queue!Woken(u, {}) ELSE pc[u]]
    BY <1>4, Zenon DEF Queue!notifyAll, Event!notifyAll, Queue!Asleep, Event!Asleep,
                       Queue!Woken, Event!Woken
  <2> QED
    BY <1>1, <2>1, <2>2, ZenonT(60) DEF Somewhere
<1>5. ASSUME NEW t \in Threads, Queue!notifyOne(t, "idle", {})
      PROVE  pc' \in Somewhere /\ owner' = owner
  <2>1. \A u \in Threads : Queue!Woken(u, {}) \in AllPlaces
    BY <1>1, Zenon DEF Queue!Woken
  <2>2. CASE Queue!Asleep = {}
    BY <1>1, <1>2, <1>5, <2>2, ZenonT(60) DEF Queue!notifyOne
  <2>3. CASE Queue!Asleep # {}
    <3>1. PICK u \in Queue!Asleep : pc' = [pc EXCEPT ![t] = "idle", ![u] = Queue!Woken(u, {})]
      BY <1>5, <2>3, Zenon DEF Queue!notifyOne
    <3>2. u \in Threads /\ Queue!Woken(u, {}) \in AllPlaces
      BY <2>1, Zenon DEF Queue!Asleep
    <3> QED
      BY <1>1, <1>3, <1>5, <3>1, <3>2, ZenonT(60) DEF Queue!notifyOne
  <2> QED
    BY <2>2, <2>3, ZenonT(60)
<1>6. ASSUME NEW t \in Threads,
             \/ Queue!blocks(t) \/ Queue!sleeps(t) \/ Queue!stirs(t, {})
             \/ Event!blocks(t) \/ Event!sleeps(t) \/ Event!stirs(t, {})
      PROVE  pc' \in Somewhere /\ owner' \in Threads \cup {NoThread}
  <2>1. PICK a \in {"sleepy", "asleep", "lock"} : pc' = [pc EXCEPT ![t] = a]
    BY <1>6, ZenonT(60) DEF Queue!blocks, Queue!sleeps, Queue!stirs, Queue!Woken,
                       Event!blocks, Event!sleeps, Event!stirs, Event!Woken
  <2>2. pc' \in Somewhere
    BY <1>1, <1>2, <2>1, ZenonT(60)
  <2>3. owner' \in {t, NoThread, owner}
    BY <1>6, ZenonT(60) DEF Queue!blocks, Queue!sleeps, Queue!stirs,
                       Event!blocks, Event!sleeps, Event!stirs
  <2> QED
    BY <2>2, <2>3, ZenonT(60)
<1>7. CASE Queue!Next
  <2>1. PICK t \in Threads : Queue!queueStep(t) \/ Queue!push(t) \/ Queue!close(t)
                             \/ Queue!pop(t) \/ Queue!tryPop(t)
    BY <1>1, <1>7, ZenonT(60) DEF Queue!Next, Queue!Consumers
  <2>2. CASE Queue!pushNotify(t) \/ Queue!closeNotify(t) \/ Queue!popWait(t) \/ Queue!sleep(t)
    BY <1>4, <1>5, <1>6, <2>2, ZenonT(60)
       DEF Queue!pushNotify, Queue!closeNotify, Queue!popWait, Queue!sleep
  <2>3. CASE Queue!popEnd(t) \/ Queue!popValue(t) \/ Queue!push(t) \/ Queue!close(t) \/ Queue!pop(t)
    <3>1. PICK a \in {"idle", "notify", "notify_all", "lock"} : pc' = [pc EXCEPT ![t] = a]
      BY <2>3, ZenonT(60) DEF Queue!popEnd, Queue!popValue, Queue!push, Queue!close, Queue!pop, Queue!Goto
    <3>2. owner' = owner
      BY <2>3, ZenonT(60) DEF Queue!popEnd, Queue!popValue, Queue!push, Queue!close, Queue!pop
    <3> QED
      BY <1>1, <1>2, <3>1, <3>2, ZenonT(60)
  <2>4. CASE Queue!tryPop(t)
    BY <2>4, ZenonT(60) DEF Queue!tryPop
  <2> QED
    BY <2>1, <2>2, <2>3, <2>4, ZenonT(60) DEF Queue!queueStep
<1>8. CASE Event!Next
  <2>1. PICK t \in Threads : \/ Event!prepareWait(t) \/ Event!commitWait(t) \/ Event!testEpoch(t)
                             \/ Event!sleep(t) \/ Event!advanceEpoch(t) \/ Event!notifyWaiters(t)
    BY <1>8, Zenon DEF Event!Next
  <2>2. CASE Event!sleep(t) \/ Event!notifyWaiters(t) \/ (Event!testEpoch(t) /\ ~moved[t])
    BY <1>4, <1>6, <2>2, ZenonT(60) DEF Event!sleep, Event!notifyWaiters, Event!testEpoch
  <2>3. CASE \/ Event!prepareWait(t) \/ Event!commitWait(t) \/ Event!advanceEpoch(t)
             \/ (Event!testEpoch(t) /\ moved[t])
    <3>1. PICK a \in {"idle", "prepared", "lock", "notify_all"} : pc' = [pc EXCEPT ![t] = a]
      BY <2>3, ZenonT(60) DEF Event!prepareWait, Event!commitWait, Event!advanceEpoch, Event!testEpoch,
                         Event!Goto
    <3>2. owner' = owner
      BY <2>3, ZenonT(60) DEF Event!prepareWait, Event!commitWait, Event!advanceEpoch, Event!testEpoch
    <3> QED
      BY <1>1, <1>2, <3>1, <3>2, ZenonT(60)
  <2> QED
    BY <2>1, <2>2, <2>3, ZenonT(60)
<1> QED
  BY <1>7, <1>8, ZenonT(60)

\* No more threads are listed than there are.
LEMMA ListedMost ==
  ASSUME NEW p \in Somewhere, NEW m \in Asking
  PROVE  Total(ListedBy(p)) \in 0 .. Cardinality(Threads)
<1> DEFINE none == [t \in Threads |-> 0]
           all == [t \in Threads |-> 1]
<1>1. none \in Weights /\ all \in Weights
  <2>1. 0 \in 0 .. MaxWeight /\ 1 \in 0 .. MaxWeight
    BY MaxWeightNat, SMTT(30)
  <2> QED
    BY <2>1, Zenon DEF Weights
<1>2. ListedBy(p) \in Weights /\ Total(ListedBy(p)) \in Nat
  BY OwedWeights, ZenonT(60)
<1>3. \A t \in Threads : none[t] = 0 /\ all[t] = 1
  BY Zenon
<1>4. \A t \in Threads : ListedBy(p)[t] <= all[t]
  BY DEF ListedBy, Listed
<1> HIDE DEF none, all
<1>5. Cardinality(Threads) \in Nat /\ Total(all) = Total(none) + Cardinality(Threads)
  BY <1>1, <1>3, TotalWoken, ZenonT(60)
<1>6. Total(none) = 0
  BY <1>1, <1>3, TotalNothing, ZenonT(60)
<1>7. Total(ListedBy(p)) <= Total(all)
  BY <1>1, <1>2, <1>4, TotalLeast, ZenonT(60)
<1> QED
  BY <1>2, <1>5, <1>6, <1>7, SMTT(30)

\* The flags stay Boolean.
LEMMA FlagSteps ==
  ASSUME FlagTypes, Next
  PROVE  FlagTypes'
<1>1. PICK t \in Threads : futexNext(t) \/ fallbackNext(t) \/ cvNext(t) \/ takeNow(t) \/ callerNext(t)
  BY PrimitivesAssumption, Zenon DEF Next
<1>2. CASE UNCHANGED <<m_shutdown, timed, late, moved>>
  BY <1>2, Zenon DEF FlagTypes
<1>3. CASE UNCHANGED <<timed, late, moved>> /\ m_shutdown' = TRUE
  BY <1>3, Zenon DEF FlagTypes
<1>4. CASE \E a, b \in BOOLEAN : /\ UNCHANGED <<m_shutdown, moved>>
                                 /\ timed' = [timed EXCEPT ![t] = a] /\ late' = [late EXCEPT ![t] = b]
  <2>1. PICK a \in BOOLEAN, b \in BOOLEAN :
          /\ UNCHANGED <<m_shutdown, moved>>
          /\ timed' = [timed EXCEPT ![t] = a] /\ late' = [late EXCEPT ![t] = b]
    BY <1>4, Zenon
  <2>2. timed' \in [Threads -> BOOLEAN]
    BY <2>1, ZenonT(60) DEF FlagTypes
  <2>3. late' \in [Threads -> BOOLEAN]
    BY <2>1, ZenonT(60) DEF FlagTypes
  <2> QED
    BY <2>1, <2>2, <2>3, ZenonT(60) DEF FlagTypes
<1>5. CASE deadlinePasses(t) /\ UNCHANGED <<owner, moved>>
  <2>1. late' \in [Threads -> BOOLEAN]
    BY <1>5, Zenon DEF FlagTypes, deadlinePasses
  <2> QED
    BY <1>5, <2>1, ZenonT(60) DEF FlagTypes, deadlinePasses
<1>6. CASE fb_firstLock(t) \/ fb_wait(t) \/ fb_epoch(t)
  <2>1. UNCHANGED <<m_shutdown, timed, late>>
    BY <1>6, Zenon DEF fb_firstLock, fb_wait, fb_epoch, stillVars
  <2>2. CASE fb_firstLock(t)
    <3>1. moved' \in [Threads -> BOOLEAN]
      BY <2>2, ZenonT(60) DEF FlagTypes, fb_firstLock
    <3> QED
      BY <2>1, <3>1, ZenonT(60) DEF FlagTypes
  <2>3. CASE fb_wait(t)
    <3> DEFINE b == moved[t] /\ pc'[t] = "sleepy"
    <3>1. moved' = [moved EXCEPT ![t] = b] /\ b \in BOOLEAN
      BY <2>3, ZenonT(60) DEF fb_wait
    <3> HIDE DEF b
    <3>2. moved' \in [Threads -> BOOLEAN]
      BY <3>1, ZenonT(60) DEF FlagTypes
    <3> QED
      BY <2>1, <3>2, Zenon DEF FlagTypes
  <2>4. CASE fb_epoch(t)
    <3>1. moved' \in [Threads -> BOOLEAN]
      BY <2>4, SMTT(30) DEF fb_epoch
    <3> QED
      BY <2>1, <3>1, Zenon DEF FlagTypes
  <2> QED
    BY <1>6, <2>2, <2>3, <2>4, ZenonT(60)
<1>7. CASE semStep(t) /\ UNCHANGED <<owner, moved>>
  BY <1>2, <1>5, <1>7, ZenonT(60)
     DEF semStep, tryAcquire, checkDeadline, enlist, recheck, futexWait, interrupted, timesOut,
         delist, wake, futexWake, stillVars
<1>8. CASE (acquire(t) \/ tryAcquireFor(t) \/ leave(t)) /\ UNCHANGED <<owner, moved>>
  BY <1>4, <1>8, ZenonT(60) DEF acquire, tryAcquireFor, leave
<1>9. CASE cv_sleep(t) \/ cv_notify(t) \/ cv_notifyAll(t)
  BY <1>2, <1>9, ZenonT(60) DEF cv_sleep, cv_notify, cv_notifyAll, stillVars
<1>10. CASE futexNext(t)
  <2>1. CASE shutdown(t) /\ UNCHANGED <<owner, moved>>
    BY <1>3, <2>1, ZenonT(60) DEF shutdown
  <2>2. CASE \E k \in Releasable : release(t, k) /\ UNCHANGED <<owner, moved>>
    BY <1>2, <2>2, ZenonT(60) DEF release
  <2> QED
    BY <1>7, <1>8, <1>10, <2>1, <2>2, ZenonT(60) DEF futexNext
<1>11. CASE fallbackNext(t)
  <2>1. CASE fbStep(t)
    BY <1>2, <1>6, <1>9, <2>1, ZenonT(60) DEF fbStep, tryAcquire, fb_checkShutdown, stillVars
  <2>2. CASE fb_shutdown(t)
    BY <1>3, <2>2, ZenonT(60) DEF fb_shutdown, stillVars
  <2>3. CASE \E k \in Releasable : fb_release(t, k)
    BY <1>2, <2>3, ZenonT(60) DEF fb_release
  <2> QED
    BY <1>8, <1>11, <2>1, <2>2, <2>3, ZenonT(60) DEF fallbackNext
<1>12. CASE cvNext(t)
  <2>1. CASE cvStep(t)
    BY <1>2, <1>9, <2>1, ZenonT(60) DEF cvStep, cv_take, cv_wait, stillVars
  <2>2. CASE cv_enter(t, TRUE) \/ cv_enter(t, FALSE)
    BY <1>4, <2>2, ZenonT(60) DEF cv_enter
  <2>3. CASE cv_shutdown(t)
    BY <1>3, <2>3, ZenonT(60) DEF cv_shutdown, stillVars
  <2>4. CASE \E k \in Releasable : cv_release(t, k)
    BY <1>2, <2>4, ZenonT(60) DEF cv_release
  <2> QED
    BY <1>12, <2>1, <2>2, <2>3, <2>4, ZenonT(60) DEF cvNext
<1>13. CASE takeNow(t) \/ callerNext(t)
  BY <1>2, <1>5, <1>8, <1>13, ZenonT(60) DEF takeNow, callerNext, stillVars
<1> QED
  BY <1>1, <1>10, <1>11, <1>12, <1>13, ZenonT(60)

\* Eventcount keeps its own flags Boolean.
LEMMA EventMoves ==
  ASSUME moved \in [Threads -> BOOLEAN], Event!Next
  PROVE  moved' \in [Threads -> BOOLEAN]
<1>1. PICK t \in Threads : \/ Event!prepareWait(t) \/ Event!commitWait(t) \/ Event!testEpoch(t)
                           \/ Event!sleep(t) \/ Event!advanceEpoch(t) \/ Event!notifyWaiters(t)
  BY Zenon DEF Event!Next
<1>2. CASE Event!prepareWait(t)
  BY <1>2, ZenonT(60) DEF Event!prepareWait
<1>3. CASE Event!advanceEpoch(t)
  BY <1>3, Zenon DEF Event!advanceEpoch
<1>4. CASE Event!commitWait(t) \/ Event!testEpoch(t) \/ Event!sleep(t) \/ Event!notifyWaiters(t)
  BY <1>4, ZenonT(60) DEF Event!commitWait, Event!testEpoch, Event!sleep, Event!notifyWaiters,
                     Event!eventVars
<1> QED
  BY <1>1, <1>2, <1>3, <1>4, ZenonT(60)

-----------------------------------------------------------------------------
(* The theorems *)

Primitives == Builds \cup {"queue", "eventcount"}

\* The inductive invariant of all the primitives.
PrimInv ==
  /\ SemInv /\ FlagTypes /\ QueueInv /\ EventInv
  /\ build \in Primitives /\ (build \notin Builds => m_waiters = 0)

\* It holds at first.
LEMMA PrimInit == AllInit => PrimInv
<1>1. SUFFICES ASSUME AllInit PROVE PrimInv
  BY Zenon
<1>2. /\ m_count = InitialCount /\ m_waiters = 0 /\ m_shutdown = FALSE /\ owner = NoThread
      /\ pc = [t \in Threads |-> "idle"] /\ n = [t \in Threads |-> 0]
      /\ timed = [t \in Threads |-> FALSE] /\ late = [t \in Threads |-> FALSE]
      /\ moved = [t \in Threads |-> FALSE] /\ window = [t \in Threads |-> FALSE]
      /\ m_q = <<>> /\ m_closed = FALSE /\ pushed = 0 /\ popped = <<>> /\ ended = {}
      /\ build \in Primitives
  BY <1>1, ZenonT(60) DEF AllInit, CvInit, SemInit, Queue!Init, Event!Init, Primitives
<1>3. pc \in Somewhere /\ n \in Asking /\ \A t \in Threads : pc[t] = "idle"
  <2>1. 0 \in Asks
    <3>1. Cardinality(Threads) \in Nat /\ MaxRelease \in Nat
      BY PrimitivesAssumption, FS_CardinalityType, ZenonT(60)
    <3> QED
      BY <3>1, SMTT(30) DEF Asks
  <2>2. "idle" \in AllPlaces
    BY Zenon DEF AllPlaces, Places
  <2> QED
    BY <1>2, <2>1, <2>2, ZenonT(60) DEF Somewhere, Asking
<1>4. PlaceTypes
  BY <1>2, <1>3, PrimitivesAssumption, ZenonT(60) DEF PlaceTypes
<1>5. Covered
  BY <1>2, <1>3, ZenonT(60) DEF Covered, Asleep
<1>6. Locked /\ Notifies
  BY <1>2, <1>3, ZenonT(60) DEF Locked, Notifies
<1>7. Counted
  <2>1. \A t \in Threads : ListedBy(pc)[t] = 0
    BY <1>3, Zenon DEF ListedBy, Listed
  <2>2. ListedBy(pc) \in Weights
    BY <1>3, OwedWeights, ZenonT(60)
  <2>3. Total(ListedBy(pc)) = 0
    BY <2>1, <2>2, TotalNothing, ZenonT(60)
  <2> QED
    BY <1>2, <2>3, ZenonT(60) DEF Counted
<1>8. FlagTypes
  BY <1>2, Zenon DEF FlagTypes
<1>9. QueueInv
  <2>1. pushed \in 0 .. MaxItems /\ m_q \in Seq(Messages) /\ popped \in Seq(Messages)
    BY <1>2, PrimitivesAssumption, SMTT(30) DEF Messages
  <2>2. popped \o m_q = [i \in 1 .. pushed |-> i]
    BY <1>2, SMTT(30)
  <2> QED
    BY <1>2, <2>1, <2>2, ZenonT(60) DEF QueueInv, NoLostMessages, Queue!NoLostMessages
<1>10. EventInv
  BY <1>2, <1>3, ZenonT(60) DEF EventInv
<1> QED
  BY <1>2, <1>4, <1>5, <1>6, <1>7, <1>8, <1>9, <1>10, ZenonT(60) DEF PrimInv, SemInv

\* Every step keeps it.
LEMMA PrimNext == PrimInv /\ [AllNext]_allVars => PrimInv'
<1>1. SUFFICES ASSUME PrimInv, [AllNext]_allVars PROVE PrimInv'
  BY Zenon
<1>2. CASE Next /\ UNCHANGED <<queueVars, window>>
  <2>1. build \in Builds /\ build' = build /\ build # "eventcount"
    BY <1>2, ZenonT(60) DEF Next, Builds
  <2>2. SemInv' /\ FlagTypes'
    BY <1>1, <1>2, SemaphoreSteps, FlagSteps, ZenonT(60) DEF PrimInv
  <2>3. QueueInv'
    BY <1>1, <1>2, ZenonT(60) DEF PrimInv, QueueInv, NoLostMessages, Queue!NoLostMessages, queueVars
  <2>4. EventInv'
    BY <1>1, <1>2, <2>1, ZenonT(60) DEF PrimInv, EventInv
  <2> QED
    BY <1>1, <2>1, <2>2, <2>3, <2>4, ZenonT(60) DEF PrimInv
<1>3. CASE build = "queue" /\ Queue!Next /\ UNCHANGED <<semData, moved, window, build>>
  <2>1. /\ build' = build /\ build' \notin Builds /\ build # "eventcount" /\ moved' = moved
        /\ m_count' = m_count /\ m_waiters' = m_waiters /\ m_shutdown' = m_shutdown
        /\ timed' = timed /\ late' = late /\ n' = n /\ window' = window
    BY <1>3, ZenonT(60) DEF semData, Builds
  <2>2. pc' \in Somewhere /\ owner' \in Threads \cup {NoThread}
    BY <1>1, <1>3, WaitersSomewhere, ZenonT(60) DEF PrimInv, SemInv, PlaceTypes
  <2>3. SemInv'
    BY <1>1, <2>1, <2>2, ZenonT(60) DEF PrimInv, SemInv, PlaceTypes
  <2>4. FlagTypes' /\ EventInv'
    BY <1>1, <2>1, ZenonT(60) DEF PrimInv, FlagTypes, EventInv
  <2>5. QueueInv'
    BY <1>1, <1>3, QueueSteps, ZenonT(60) DEF PrimInv
  <2> QED
    BY <1>1, <2>1, <2>3, <2>4, <2>5, ZenonT(60) DEF PrimInv
<1>4. CASE build = "eventcount" /\ Event!Next /\ UNCHANGED <<semData, queueVars, build>>
  <2>1. /\ build' = build /\ build' \notin Builds
        /\ m_count' = m_count /\ m_waiters' = m_waiters /\ m_shutdown' = m_shutdown
        /\ timed' = timed /\ late' = late /\ n' = n
    BY <1>4, ZenonT(60) DEF semData, Builds
  <2>2. pc' \in Somewhere /\ owner' \in Threads \cup {NoThread}
    BY <1>1, <1>4, WaitersSomewhere, ZenonT(60) DEF PrimInv, SemInv, PlaceTypes
  <2>3. SemInv'
    BY <1>1, <2>1, <2>2, ZenonT(60) DEF PrimInv, SemInv, PlaceTypes
  <2>4. EventInv'
    BY <1>1, <1>4, <2>1, EventSteps, ZenonT(60) DEF PrimInv, SemInv, PlaceTypes, FlagTypes
  <2>5. moved' \in [Threads -> BOOLEAN]
    BY <1>1, <1>4, EventMoves, ZenonT(60) DEF PrimInv, FlagTypes
  <2>6. FlagTypes'
    BY <1>1, <2>1, <2>5, ZenonT(60) DEF PrimInv, FlagTypes
  <2>7. QueueInv'
    BY <1>1, <1>4, ZenonT(60) DEF PrimInv, QueueInv, NoLostMessages, Queue!NoLostMessages, queueVars
  <2> QED
    BY <1>1, <2>1, <2>3, <2>4, <2>6, <2>7, ZenonT(60) DEF PrimInv
<1>5. CASE UNCHANGED allVars
  <2>1. /\ UNCHANGED <<m_count, m_waiters, pc, n, owner, build>>
        /\ UNCHANGED <<m_shutdown, timed, late, moved>> /\ UNCHANGED <<queueVars, window>>
    BY <1>5, Zenon DEF allVars, vars, cvVars, semVars
  <2>2. SemInv' /\ FlagTypes'
    BY <1>1, <2>1, NothingMoves, ZenonT(60) DEF PrimInv, FlagTypes
  <2>3. QueueInv'
    BY <1>1, <2>1, ZenonT(60) DEF PrimInv, QueueInv, NoLostMessages, Queue!NoLostMessages, queueVars
  <2>4. EventInv'
    BY <1>1, <2>1, ZenonT(60) DEF PrimInv, EventInv
  <2> QED
    BY <1>1, <2>1, <2>2, <2>3, <2>4, ZenonT(60) DEF PrimInv
<1> QED
  BY <1>1, <1>2, <1>3, <1>4, <1>5, ZenonT(60) DEF AllNext

\* Every type of TypeOK, for every set of threads and every bound; in
\* particular m_count never goes below zero and m_waiters counts threads
\* (FutexSemaphore.h, CvSemaphore.h, ThreadSafeQueue.h, Eventcount.h).
THEOREM PrimitiveTypes == AllSpec => []TypeOK
<1>1. PrimInv => TypeOK
  <2>1. SUFFICES ASSUME PrimInv PROVE TypeOK
    BY Zenon
  <2>2. m_waiters \in 0 .. Cardinality(Threads)
    <3>1. Total(ListedBy(pc)) \in 0 .. Cardinality(Threads)
      BY <2>1, ListedMost, ZenonT(60) DEF PrimInv, SemInv, PlaceTypes
    <3>2. Cardinality(Threads) \in Nat
      BY PrimitivesAssumption, FS_CardinalityType, ZenonT(60)
    <3>3. 0 \in 0 .. Cardinality(Threads)
      BY <3>2
    <3> QED
      BY <2>1, <3>1, <3>3, ZenonT(60) DEF PrimInv, SemInv, Counted
  <2> QED
    BY <2>1, <2>2, ZenonT(60) DEF PrimInv, SemInv, PlaceTypes, FlagTypes, QueueInv, EventInv, TypeOK,
                             SemTypeOK, Somewhere, Asking, Asks, Messages
<1> QED
  BY <1>1, PrimInit, PrimNext, PTL DEF AllSpec

\* No wake-up is lost in any of the three semaphores, for every number of
\* threads and every bound: units that sleepers could take are covered by
\* wake-ups on their way (release, futexWake, notify_one, acquire).
THEOREM WakeupsKept == AllSpec => []NoLostWakeup
<1>1. PrimInv => NoLostWakeup
  <2>1. SUFFICES ASSUME PrimInv, build \in Builds, Asleep # {}, m_count > 0
                 PROVE  \E t \in Threads :
                          pc[t] \notin {"idle", "asleep", "returned", "refused", "delist_late"}
    BY Zenon DEF NoLostWakeup
  <2>2. /\ pc \in Somewhere /\ n \in Asking /\ m_count \in 0 .. MaxCount
        /\ m_count <= Total(OwedBy(pc, n))
    BY <2>1, ZenonT(60) DEF PrimInv, SemInv, PlaceTypes, Covered
  <2>3. SUFFICES ASSUME \A t \in Threads :
                          pc[t] \in {"idle", "asleep", "returned", "refused", "delist_late"}
                 PROVE  FALSE
    BY Zenon
  <2>4. \A t \in Threads : OwedBy(pc, n)[t] = 0
    BY <2>3, ZenonT(60) DEF OwedBy, Owed
  <2>5. OwedBy(pc, n) \in Weights
    BY <2>2, OwedWeights, ZenonT(60)
  <2>6. Total(OwedBy(pc, n)) = 0
    BY <2>4, <2>5, TotalNothing, ZenonT(60)
  <2> QED
    BY <2>1, <2>2, <2>6, SMTT(30)
<1> QED
  BY <1>1, PrimInit, PrimNext, PTL DEF AllSpec

\* ThreadSafeQueue delivers every message once and in order, and a consumer
\* that was told the end left none behind (push, pop, tryPop, close).
THEOREM MessagesKept == AllSpec => []NoLostMessages
<1>1. PrimInv => NoLostMessages
  BY ZenonT(60) DEF PrimInv, QueueInv
<1> QED
  BY <1>1, PrimInit, PrimNext, PTL DEF AllSpec

\* A waiter of Eventcount can miss the epoch only between its test and its
\* sleep (commitWait, notifyAll).
THEOREM WindowOnly == AllSpec => []MissedOnlyInWindow
<1>1. PrimInv => MissedOnlyInWindow
  BY Zenon DEF PrimInv, EventInv, MissedOnlyInWindow, Event!MissedOnlyInWindow
<1> QED
  BY <1>1, PrimInit, PrimNext, PTL DEF AllSpec
=============================================================================
