--------------------------- MODULE ReadSideProofs ---------------------------
(***************************************************************************)
(* The pool lends a connection to one lease at a time, never pops an empty *)
(* queue and never leaves a reader asleep beside a queued connection, for  *)
(* every number of readers, connections and lease objects.  The stores     *)
(* commit whole batches, end every transaction they begin and report count *)
(* and vwap of one version of the table, for every number of stores, every *)
(* set of batches and every cache of at least two statements.              *)
(***************************************************************************)
EXTENDS ReadSide, FiniteSetTheorems, SequenceTheorems, TLAPS

\* How many threads are, by f, in one of the places P.
Count(f, P) == Cardinality({u \in Threads : f[u] \in P})

\* 1 when place a is one of P.
In(a, P) == IF a \in P THEN 1 ELSE 0

\* Thread t goes to place a.
Moved(f, t, a) == [f EXCEPT ![t] = a]

\* When one thread moves, the count changes by what its two places count for.
LEMMA CountMove ==
  ASSUME NEW f, DOMAIN f = Threads, NEW t \in Threads, NEW a, NEW P,
         NEW g, g = Moved(f, t, a)
  PROVE  /\ Count(f, P) \in Nat /\ Count(g, P) \in Nat
         /\ Count(g, P) = Count(f, P) + In(a, P) - In(f[t], P)
         /\ In(a, P) \in {0, 1} /\ In(f[t], P) \in {0, 1}
<1> DEFINE S == {u \in Threads : f[u] \in P}
           T == {u \in Threads : g[u] \in P}
<1>1. IsFiniteSet(Threads) /\ \A u \in Threads : g[u] = IF u = t THEN a ELSE f[u]
  BY PoolAssumption DEF Moved
<1>2. IsFiniteSet(S) /\ IsFiniteSet(T) /\ Cardinality(S) \in Nat /\ Cardinality(T) \in Nat
  BY <1>1, FS_Subset, FS_CardinalityType
<1>3. T \ {t} = S \ {t}
  BY <1>1
<1>4. t \in S <=> f[t] \in P
  OBVIOUS
<1>5. t \in T <=> a \in P
  BY <1>1
<1> HIDE DEF S, T
<1>6. Cardinality(S \ {t}) = IF t \in S THEN Cardinality(S) - 1 ELSE Cardinality(S)
  BY <1>2, FS_RemoveElement, Zenon
<1>7. Cardinality(T \ {t}) = IF t \in T THEN Cardinality(T) - 1 ELSE Cardinality(T)
  BY <1>2, FS_RemoveElement, Zenon
<1>8. /\ In(a, P) \in {0, 1} /\ In(f[t], P) \in {0, 1}
      /\ (t \in T => In(a, P) = 1) /\ (t \notin T => In(a, P) = 0)
      /\ (t \in S => In(f[t], P) = 1) /\ (t \notin S => In(f[t], P) = 0)
  BY <1>4, <1>5 DEF In
<1>9. Cardinality(T) = Cardinality(S) + In(a, P) - In(f[t], P)
  <2>1. CASE t \in S /\ t \in T
    <3>1. Cardinality(S) - 1 = Cardinality(T) - 1
      BY <1>3, <1>6, <1>7, <2>1, SMTT(30)
    <3>2. In(a, P) = 1 /\ In(f[t], P) = 1
      BY <1>8, <2>1, SMTT(30)
    <3> QED
      BY <1>2, <3>1, <3>2, SMTT(30)
  <2>2. CASE t \in S /\ t \notin T
    <3>1. Cardinality(S) - 1 = Cardinality(T)
      BY <1>3, <1>6, <1>7, <2>2, Zenon
    <3>2. In(a, P) = 0 /\ In(f[t], P) = 1
      BY <1>8, <2>2
    <3> QED
      BY <1>2, <3>1, <3>2
  <2>3. CASE t \notin S /\ t \in T
    <3>1. Cardinality(S) = Cardinality(T) - 1
      BY <1>3, <1>6, <1>7, <2>3, SMTT(30)
    <3>2. In(a, P) = 1 /\ In(f[t], P) = 0
      BY <1>8, <2>3
    <3> QED
      BY <1>2, <3>1, <3>2
  <2>4. CASE t \notin S /\ t \notin T
    <3>1. Cardinality(S) = Cardinality(T)
      BY <1>3, <1>6, <1>7, <2>4, SMTT(30)
    <3>2. In(a, P) = 0 /\ In(f[t], P) = 0
      BY <1>8, <2>4
    <3> QED
      BY <1>2, <3>1, <3>2
  <2> QED
    BY <2>1, <2>2, <2>3, <2>4, Zenon
<1> QED
  BY <1>2, <1>8, <1>9, Zenon DEF Count, S, T

\* Counting is a natural number, zero when no thread is there.
LEMMA CountNat ==
  ASSUME NEW f, NEW P
  PROVE  /\ Count(f, P) \in Nat
         /\ (\A u \in Threads : f[u] \notin P) => Count(f, P) = 0
         /\ (\E u \in Threads : f[u] \in P) => Count(f, P) # 0
<1> DEFINE S == {u \in Threads : f[u] \in P}
<1>1. IsFiniteSet(S) /\ Cardinality(S) \in Nat
  BY PoolAssumption, FS_Subset, FS_CardinalityType
<1>2. Cardinality(S) = 0 <=> S = {}
  BY <1>1, FS_EmptySet
<1> QED
  BY <1>1, <1>2 DEF Count

MaybeConnection == Connections \cup {NoConnection}
PoolPlaces == {"out", "acquire", "assign", "push", "post"}

\* The types of the pool and of its semaphore, which is never shut down.
PoolType ==
  /\ m_available \in Seq(Connections)
  /\ leases \in [Threads -> [Slots -> MaybeConnection]]
  /\ hand \in [Threads -> MaybeConnection]
  /\ slot \in [Threads -> Slots \cup {NoSlot}]
  /\ ppc \in [Threads -> PoolPlaces]
  /\ pc \in [Threads -> Places]
  /\ m_count \in Nat /\ m_waiters \in Int /\ m_shutdown = FALSE
  /\ n \in [Threads -> Nat]

Outside == {"idle", "wake", "syscall"}

\* Where a thread is in the pool and where it is in the semaphore.
PlaceOK(p, a, s, h, l, k) ==
  /\ p = "acquire" <=> a \notin Outside
  /\ p \in {"out", "push", "post"} => a = "idle"
  /\ p # "out" => s \in Slots
  /\ p \in {"out", "acquire"} => h = NoConnection
  /\ p = "push" => l[s] # NoConnection
  /\ a \in {"wake", "syscall"} => k = 1

PlacesOK == \A t \in Threads : PlaceOK(ppc[t], pc[t], slot[t], hand[t], leases[t], n[t])

\* Only thread t moves.
OthersStay(t) ==
  \A u \in Threads \ {t} :
    /\ ppc'[u] = ppc[u] /\ pc'[u] = pc[u] /\ slot'[u] = slot[u] /\ hand'[u] = hand[u]
    /\ leases'[u] = leases[u] /\ n'[u] = n[u]

\* It is enough to look at the thread that moves.
LEMMA PlacesMove ==
  ASSUME PlacesOK, NEW t \in Threads, OthersStay(t),
         PlaceOK(ppc'[t], pc'[t], slot'[t], hand'[t], leases'[t], n'[t])
  PROVE  PlacesOK'
<1> SUFFICES ASSUME NEW u \in Threads
             PROVE  PlaceOK(ppc'[u], pc'[u], slot'[u], hand'[u], leases'[u], n'[u])
  BY DEF PlacesOK
<1>1. PlaceOK(ppc[u], pc[u], slot[u], hand[u], leases[u], n[u])
  BY DEF PlacesOK
<1>2. CASE u = t
  BY <1>2
<1>3. CASE u # t
  <2>1. /\ ppc'[u] = ppc[u] /\ pc'[u] = pc[u] /\ slot'[u] = slot[u] /\ hand'[u] = hand[u]
        /\ leases'[u] = leases[u] /\ n'[u] = n[u]
    BY <1>3 DEF OthersStay
  <2> QED
    BY <1>1, <2>1, Zenon
<1> QED
  BY <1>2, <1>3

\* A connection in the queue, in a lease or in a temporary is in one place.
LeasesApart ==
  \A t, u \in Threads, r, s \in Slots :
    (leases[t][r] # NoConnection /\ leases[t][r] = leases[u][s]) => t = u /\ r = s
HandsApart ==
  \A t, u \in Threads : (hand[t] # NoConnection /\ hand[t] = hand[u]) => t = u
HandNotLeased ==
  \A t, u \in Threads, s \in Slots : hand[t] # NoConnection => hand[t] # leases[u][s]
LeaseNotQueued == \A t \in Threads, s \in Slots : leases[t][s] \notin Range(m_available)
HandNotQueued == \A t \in Threads : hand[t] \notin Range(m_available)
NoneLost ==
  \A c \in Connections :
    \/ c \in Range(m_available)
    \/ \E t \in Threads, s \in Slots : leases[t][s] = c
    \/ \E t \in Threads : hand[t] = c

HeldOnce ==
  /\ IsInjective(m_available)
  /\ LeasesApart /\ HandsApart /\ HandNotLeased /\ LeaseNotQueued /\ HandNotQueued /\ NoneLost

\* When no connection changes its place, none is lost or shared.
LEMMA HeldFrame ==
  ASSUME HeldOnce, m_available' = m_available, leases' = leases, hand' = hand
  PROVE  HeldOnce'
<1>1. LeasesApart' /\ HandsApart' /\ HandNotLeased'
  BY DEF HeldOnce, LeasesApart, HandsApart, HandNotLeased
<1>2. LeaseNotQueued' /\ HandNotQueued'
  BY DEF HeldOnce, LeaseNotQueued, HandNotQueued
<1>3. NoneLost' /\ IsInjective(m_available')
  BY DEF HeldOnce, NoneLost
<1> QED
  BY <1>1, <1>2, <1>3, SMTT(30) DEF HeldOnce

Took == {"returned"}
Posting == {"post"}

\* Every queued connection has a unit in the semaphore, or a reader that took
\* one or that is about to post one.
Units == Len(m_available) = m_count + Count(pc, Took) + Count(ppc, Posting)

Waiting == {"recheck", "wait", "asleep", "delist", "delist_late"}
Helping == {"wake", "syscall", "delist", "try"}

\* m_waiters counts the enlisted threads; while one sleeps, every unit has a
\* thread that will wake a sleeper for it or try to take it.
Wakes ==
  /\ m_waiters = Count(pc, Waiting)
  /\ (\E t \in Threads : pc[t] = "asleep") => m_count <= Count(pc, Helping)

PoolInv == PoolType /\ PlacesOK /\ HeldOnce /\ Units /\ Wakes

\* What a thread inside acquire does to the counters fits its move to a.
MoveFits(t, a) ==
  /\ a \in Places \ Outside /\ pc[t] \notin Outside
  /\ pc' = Moved(pc, t, a) /\ m_shutdown' = m_shutdown /\ n' = n
  /\ m_count' \in Nat /\ m_waiters' \in Int
  /\ m_count' + In(a, Took) = m_count + In(pc[t], Took)
  /\ m_waiters' - In(a, Waiting) = m_waiters - In(pc[t], Waiting)
  /\ a = "asleep" => m_count' = 0
  /\ m_count' = 0 \/ m_count' - In(a, Helping) <= m_count - In(pc[t], Helping)

\* A thread inside acquire goes on, with what it takes and enlists.
LEMMA SemMove ==
  ASSUME PoolInv, NEW t \in Threads, NEW a, MoveFits(t, a), UNCHANGED poolVars
  PROVE  PoolInv'
<1>0. /\ a \in Places \ Outside /\ pc[t] \notin Outside
      /\ pc' = Moved(pc, t, a) /\ m_shutdown' = m_shutdown /\ n' = n
      /\ m_count' \in Nat /\ m_waiters' \in Int
      /\ m_count' + In(a, Took) = m_count + In(pc[t], Took)
      /\ m_waiters' - In(a, Waiting) = m_waiters - In(pc[t], Waiting)
      /\ a = "asleep" => m_count' = 0
      /\ m_count' = 0 \/ m_count' - In(a, Helping) <= m_count - In(pc[t], Helping)
  BY DEF MoveFits
<1>1. PoolType /\ PlacesOK /\ HeldOnce /\ Units /\ Wakes
  BY DEF PoolInv
<1>2. /\ m_available' = m_available /\ leases' = leases /\ hand' = hand /\ slot' = slot /\ ppc' = ppc
  BY DEF poolVars
<1>3. pc \in [Threads -> Places] /\ DOMAIN pc = Threads /\ pc' \in [Threads -> Places]
      /\ \A u \in Threads : pc'[u] = IF u = t THEN a ELSE pc[u]
  BY <1>0, <1>1, Zenon DEF PoolType, Moved
<1>4. PoolType'
  BY <1>0, <1>1, <1>2, <1>3, ZenonT(60) DEF PoolType
<1>5. PlacesOK'
  <2>1. OthersStay(t)
    BY <1>0, <1>1, <1>2, <1>3, Zenon DEF OthersStay
  <2>2. PlaceOK(ppc'[t], pc'[t], slot'[t], hand'[t], leases'[t], n'[t])
    BY <1>0, <1>1, <1>2, <1>3, ZenonT(60) DEF PlacesOK, PlaceOK, Outside
  <2> QED
    BY <1>1, <2>1, <2>2, PlacesMove, ZenonT(60)
<1>6. HeldOnce'
  BY <1>1, <1>2, HeldFrame, SMTT(30)
<1>7. ASSUME NEW P
      PROVE  /\ Count(pc, P) \in Nat /\ Count(pc', P) \in Nat
             /\ Count(pc', P) = Count(pc, P) + In(a, P) - In(pc[t], P)
             /\ In(a, P) \in {0, 1} /\ In(pc[t], P) \in {0, 1}
  BY <1>0, <1>3, CountMove, SMTT(30)
<1>8. m_count \in Nat /\ m_waiters \in Int
  BY <1>1 DEF PoolType
<1>9. Units'
  <2>0. /\ Count(pc, Took) \in Nat /\ Count(pc', Took) \in Nat
        /\ Count(pc', Took) = Count(pc, Took) + In(a, Took) - In(pc[t], Took)
        /\ In(a, Took) \in {0, 1} /\ In(pc[t], Took) \in {0, 1}
    BY <1>7, Zenon
  <2>1. Count(ppc', Posting) = Count(ppc, Posting) /\ Count(ppc, Posting) \in Nat
    BY <1>2, CountNat, SMTT(30)
  <2>2. Len(m_available') = m_count + Count(pc, Took) + Count(ppc, Posting)
    BY <1>1, <1>2, SMTT(30) DEF Units
  <2>3. m_count' + Count(pc', Took) = m_count + Count(pc, Took)
    BY <1>0, <1>8, <2>0, SMTT(30)
  <2> QED
    BY <2>1, <2>2, <2>3, SMTT(30) DEF Units
<1>10. m_waiters' = Count(pc', Waiting)
  <2>0. /\ Count(pc, Waiting) \in Nat /\ Count(pc', Waiting) \in Nat
        /\ Count(pc', Waiting) = Count(pc, Waiting) + In(a, Waiting) - In(pc[t], Waiting)
        /\ In(a, Waiting) \in {0, 1} /\ In(pc[t], Waiting) \in {0, 1}
    BY <1>7, Zenon
  <2>1. m_waiters = Count(pc, Waiting)
    BY <1>1 DEF Wakes
  <2> QED
    BY <1>0, <1>8, <2>0, <2>1, SMTT(30)
<1>11. ASSUME \E u \in Threads : pc'[u] = "asleep" PROVE m_count' <= Count(pc', Helping)
  <2>0. /\ Count(pc, Helping) \in Nat /\ Count(pc', Helping) \in Nat
        /\ Count(pc', Helping) = Count(pc, Helping) + In(a, Helping) - In(pc[t], Helping)
        /\ In(a, Helping) \in {0, 1} /\ In(pc[t], Helping) \in {0, 1}
    BY <1>7, Zenon
  <2>1. CASE m_count' = 0
    BY <2>0, <2>1, SMTT(30)
  <2>2. CASE m_count' # 0
    <3>1. \E u \in Threads : pc[u] = "asleep"
      BY <1>0, <1>3, <1>11, <2>2, ZenonT(60)
    <3>2. m_count <= Count(pc, Helping)
      BY <1>1, <3>1, SMTT(30) DEF Wakes
    <3> QED
      BY <1>0, <1>8, <2>0, <2>2, <3>2, SMTT(30)
  <2> QED
    BY <2>1, <2>2, SMTT(30)
<1> QED
  BY <1>4, <1>5, <1>6, <1>9, <1>10, <1>11, ZenonT(60) DEF PoolInv, Wakes

\* What the places of a thread in acquire count for.
LEMMA InTable ==
  /\ "try" \in Places \ Outside
  /\ In("try", Took) = 0 /\ In("try", Waiting) = 0 /\ In("try", Helping) = 1
  /\ "returned" \in Places \ Outside
  /\ In("returned", Took) = 1 /\ In("returned", Waiting) = 0 /\ In("returned", Helping) = 0
  /\ "check" \in Places \ Outside
  /\ In("check", Took) = 0 /\ In("check", Waiting) = 0 /\ In("check", Helping) = 0
  /\ "refused" \in Places \ Outside
  /\ In("refused", Took) = 0 /\ In("refused", Waiting) = 0 /\ In("refused", Helping) = 0
  /\ "enlist" \in Places \ Outside
  /\ In("enlist", Took) = 0 /\ In("enlist", Waiting) = 0 /\ In("enlist", Helping) = 0
  /\ "recheck" \in Places \ Outside
  /\ In("recheck", Took) = 0 /\ In("recheck", Waiting) = 1 /\ In("recheck", Helping) = 0
  /\ "wait" \in Places \ Outside
  /\ In("wait", Took) = 0 /\ In("wait", Waiting) = 1 /\ In("wait", Helping) = 0
  /\ "delist" \in Places \ Outside
  /\ In("delist", Took) = 0 /\ In("delist", Waiting) = 1 /\ In("delist", Helping) = 1
  /\ "asleep" \in Places \ Outside
  /\ In("asleep", Took) = 0 /\ In("asleep", Waiting) = 1 /\ In("asleep", Helping) = 0
  /\ "delist_late" \in Places \ Outside
  /\ In("delist_late", Took) = 0 /\ In("delist_late", Waiting) = 1 /\ In("delist_late", Helping) = 0
  BY DEF In, Took, Waiting, Helping, Outside, Places

\* tryAcquire, the deadline, the waiter count and the futex wait.
LEMMA AcquireSteps ==
  ASSUME PoolInv, NEW t \in Threads, UNCHANGED poolVars,
         \/ tryAcquire(t) \/ checkDeadline(t) \/ enlist(t) \/ recheck(t)
         \/ futexWait(t) \/ interrupted(t) \/ timesOut(t) \/ delist(t)
  PROVE  PoolInv'
<1>1. m_count \in Nat /\ m_waiters \in Int /\ m_shutdown = FALSE
  BY DEF PoolInv, PoolType
<1>2. CASE tryAcquire(t)
  <2>1. CASE m_count > 0
    <3>1. /\ pc[t] = "try" /\ pc' = Moved(pc, t, "returned")
          /\ m_count' = m_count - 1 /\ m_waiters' = m_waiters /\ m_shutdown' = m_shutdown /\ n' = n
      BY <1>2, <2>1, SMTT(30) DEF tryAcquire, Goto, Moved, stillVars
    <3>9. MoveFits(t, "returned")
      BY <1>1, <2>1, <3>1, InTable, SMTT(30) DEF MoveFits
    <3> QED
      BY <3>9, SemMove, SMTT(30)
  <2>2. CASE m_count = 0
    <3>1. /\ pc[t] = "try" /\ pc' = Moved(pc, t, "check")
          /\ m_count' = m_count /\ m_waiters' = m_waiters /\ m_shutdown' = m_shutdown /\ n' = n
      BY <1>2, <2>2 DEF tryAcquire, Goto, Moved, stillVars
    <3>9. MoveFits(t, "check")
      BY <1>1, <2>2, <3>1, InTable, ZenonT(60) DEF MoveFits
    <3> QED
      BY <3>9, SemMove, SMTT(30)
  <2> QED
    BY <1>1, <2>1, <2>2, SMTT(30)
<1>3. CASE checkDeadline(t)
  <2>1. PICK a \in {"refused", "enlist"} : pc' = Moved(pc, t, a)
    BY <1>1, <1>3, ZenonT(60) DEF checkDeadline, Goto, Moved
  <2>2. /\ pc[t] = "check"
        /\ m_count' = m_count /\ m_waiters' = m_waiters /\ m_shutdown' = m_shutdown /\ n' = n
    BY <1>3, SMTT(30) DEF checkDeadline, stillVars
  <2>9. MoveFits(t, a)
    BY <1>1, <2>1, <2>2, InTable, SMTT(30) DEF MoveFits
  <2> QED
    BY <2>9, SemMove
<1>4. CASE enlist(t)
  <2>1. /\ pc[t] = "enlist" /\ pc' = Moved(pc, t, "recheck")
        /\ m_count' = m_count /\ m_waiters' = m_waiters + 1 /\ m_shutdown' = m_shutdown /\ n' = n
    BY <1>4, SMTT(30) DEF enlist, Goto, Moved, stillVars
  <2>9. MoveFits(t, "recheck")
    BY <1>1, <2>1, InTable, SMTT(30) DEF MoveFits
  <2> QED
    BY <2>9, SemMove, SMTT(30)
<1>5. CASE recheck(t)
  <2>1. PICK a \in {"wait", "delist"} : pc' = Moved(pc, t, a)
    BY <1>5, Zenon DEF recheck, Goto, Moved
  <2>2. /\ pc[t] = "recheck"
        /\ m_count' = m_count /\ m_waiters' = m_waiters /\ m_shutdown' = m_shutdown /\ n' = n
    BY <1>5, SMTT(30) DEF recheck, stillVars
  <2>9. MoveFits(t, a)
    BY <1>1, <2>1, <2>2, InTable, SMTT(30) DEF MoveFits
  <2> QED
    BY <2>9, SemMove
<1>6. CASE futexWait(t)
  <2>1. PICK a \in {"asleep", "delist"} : pc' = Moved(pc, t, a) /\ (a = "asleep" => m_count = 0)
    BY <1>6, Zenon DEF futexWait, Goto, Moved
  <2>2. /\ pc[t] = "wait"
        /\ m_count' = m_count /\ m_waiters' = m_waiters /\ m_shutdown' = m_shutdown /\ n' = n
    BY <1>6, SMTT(30) DEF futexWait, stillVars
  <2>9. MoveFits(t, a)
    BY <1>1, <2>1, <2>2, InTable, SMTT(30) DEF MoveFits
  <2> QED
    BY <2>9, SemMove
<1>7. CASE interrupted(t)
  <2>1. /\ pc[t] = "asleep" /\ pc' = Moved(pc, t, "delist")
        /\ m_count' = m_count /\ m_waiters' = m_waiters /\ m_shutdown' = m_shutdown /\ n' = n
    BY <1>7, SMTT(30) DEF interrupted, Goto, Moved, stillVars
  <2>9. MoveFits(t, "delist")
    BY <1>1, <2>1, InTable, SMTT(30) DEF MoveFits
  <2> QED
    BY <2>9, SemMove, SMTT(30)
<1>8. CASE timesOut(t)
  <2>1. /\ pc[t] = "asleep" /\ pc' = Moved(pc, t, "delist_late")
        /\ m_count' = m_count /\ m_waiters' = m_waiters /\ m_shutdown' = m_shutdown /\ n' = n
    BY <1>8, SMTT(30) DEF timesOut, Goto, Moved, stillVars
  <2>9. MoveFits(t, "delist_late")
    BY <1>1, <2>1, InTable, SMTT(30) DEF MoveFits
  <2> QED
    BY <2>9, SemMove, SMTT(30)
<1>9. CASE delist(t)
  <2>1. m_count' = m_count /\ m_waiters' = m_waiters - 1 /\ m_shutdown' = m_shutdown /\ n' = n
    BY <1>9 DEF delist, stillVars
  <2>2. CASE pc[t] = "delist"
    <3>1. pc' = Moved(pc, t, "try")
      BY <1>9, <2>2, SMTT(30) DEF delist, Goto, Moved
    <3>9. MoveFits(t, "try")
      BY <1>1, <2>1, <2>2, <3>1, InTable, SMTT(30) DEF MoveFits
    <3> QED
      BY <3>9, SemMove, SMTT(30)
  <2>3. CASE pc[t] = "delist_late"
    <3>1. pc' = Moved(pc, t, "refused")
      BY <1>9, <2>3, SMTT(30) DEF delist, Goto, Moved
    <3>9. MoveFits(t, "refused")
      BY <1>1, <2>1, <2>3, <3>1, InTable, SMTT(30) DEF MoveFits
    <3> QED
      BY <3>9, SemMove, SMTT(30)
  <2> QED
    BY <1>9, <2>2, <2>3, Zenon DEF delist
<1> QED
  BY <1>2, <1>3, <1>4, <1>5, <1>6, <1>7, <1>8, <1>9, ZenonT(60)

\* A releasing thread goes on to its system call or returns; it returns only
\* when nobody is left to wake.
LEMMA WakeMove ==
  ASSUME PoolInv, NEW t \in Threads, UNCHANGED poolVars, pc[t] \in {"wake", "syscall"},
         NEW a \in {"syscall", "idle"}, pc' = Moved(pc, t, a),
         m_count' = m_count, m_waiters' = m_waiters, m_shutdown' = m_shutdown, n' = n,
         a = "idle" => \A u \in Threads : pc[u] # "asleep"
  PROVE  PoolInv'
<1>1. PoolType /\ PlacesOK /\ HeldOnce /\ Units /\ Wakes
  BY DEF PoolInv
<1>2. /\ m_available' = m_available /\ leases' = leases /\ hand' = hand /\ slot' = slot /\ ppc' = ppc
  BY DEF poolVars
<1>3. pc \in [Threads -> Places] /\ DOMAIN pc = Threads /\ pc' \in [Threads -> Places]
      /\ \A u \in Threads : pc'[u] = IF u = t THEN a ELSE pc[u]
  BY <1>1 DEF PoolType, Moved, Places
<1>4. PoolType'
  BY <1>1, <1>2, <1>3, Zenon DEF PoolType
<1>5. PlacesOK'
  <2>1. ppc[t] = "assign"
    BY <1>1, Zenon DEF PlacesOK, PlaceOK, PoolType, PoolPlaces, Outside
  <2>2. OthersStay(t)
    BY <1>1, <1>2, <1>3, <2>1, Zenon DEF OthersStay
  <2>3. PlaceOK(ppc'[t], pc'[t], slot'[t], hand'[t], leases'[t], n'[t])
    BY <1>1, <1>2, <1>3, <2>1, ZenonT(60) DEF PlacesOK, PlaceOK, Outside
  <2> QED
    BY <1>1, <2>2, <2>3, PlacesMove, Zenon
<1>6. HeldOnce'
  BY <1>1, <1>2, HeldFrame, ZenonT(60)
<1>7. ASSUME NEW P
      PROVE  /\ Count(pc, P) \in Nat /\ Count(pc', P) \in Nat
             /\ Count(pc', P) = Count(pc, P) + In(a, P) - In(pc[t], P)
  BY <1>3, CountMove, SMTT(30)
<1>8. /\ In(a, Took) = 0 /\ In(pc[t], Took) = 0 /\ In(a, Waiting) = 0 /\ In(pc[t], Waiting) = 0
      /\ In(pc[t], Helping) = 1 /\ (a = "syscall" => In(a, Helping) = 1)
  BY DEF In, Took, Waiting, Helping
<1>9. Count(pc', Took) = Count(pc, Took)
  BY <1>7, <1>8, SMTT(30)
<1>10. Count(pc', Waiting) = Count(pc, Waiting)
  BY <1>7, <1>8, SMTT(30)
<1>11. a = "syscall" => Count(pc', Helping) = Count(pc, Helping)
  BY <1>7, <1>8
<1>12. Units'
  BY <1>1, <1>2, <1>9, Zenon DEF Units
<1>13. Wakes'
  BY <1>1, <1>3, <1>10, <1>11, Zenon DEF Wakes
<1> QED
  BY <1>4, <1>5, <1>6, <1>12, <1>13, ZenonT(60) DEF PoolInv

\* futexWake wakes one sleeper: the releasing thread is done, the sleeper goes on.
LEMMA WakeOne ==
  ASSUME PoolInv, NEW t \in Threads, UNCHANGED poolVars, pc[t] = "syscall",
         NEW w \in Threads, pc[w] = "asleep",
         pc' = Moved(Moved(pc, t, "idle"), w, "delist"),
         m_count' = m_count, m_waiters' = m_waiters, m_shutdown' = m_shutdown, n' = n
  PROVE  PoolInv'
<1> DEFINE g == Moved(pc, t, "idle")
<1>1. PoolType /\ PlacesOK /\ HeldOnce /\ Units /\ Wakes
  BY DEF PoolInv
<1>2. /\ m_available' = m_available /\ leases' = leases /\ hand' = hand /\ slot' = slot /\ ppc' = ppc
  BY DEF poolVars
<1>3. /\ pc \in [Threads -> Places] /\ DOMAIN pc = Threads /\ DOMAIN g = Threads
      /\ t # w /\ g[w] = "asleep" /\ pc' \in [Threads -> Places]
      /\ \A u \in Threads : pc'[u] = IF u = w THEN "delist" ELSE IF u = t THEN "idle" ELSE pc[u]
  BY <1>1, Zenon DEF PoolType, Moved, Places
<1>4. PoolType'
  BY <1>1, <1>2, <1>3, Zenon DEF PoolType
<1>5. PlacesOK'
  <2>1. ppc[t] = "assign"
    BY <1>1, Zenon DEF PlacesOK, PlaceOK, PoolType, PoolPlaces, Outside
  <2> QED
    BY <1>1, <1>2, <1>3, <2>1, ZenonT(60) DEF PlacesOK, PlaceOK, Outside
<1>6. HeldOnce'
  BY <1>1, <1>2, HeldFrame, Zenon
<1>7. ASSUME NEW P
      PROVE  /\ Count(pc, P) \in Nat /\ Count(pc', P) \in Nat /\ Count(g, P) \in Nat
             /\ Count(g, P) = Count(pc, P) + In("idle", P) - In("syscall", P)
             /\ Count(pc', P) = Count(g, P) + In("delist", P) - In("asleep", P)
  <2> HIDE DEF g
  <2>1. g = Moved(pc, t, "idle") /\ pc' = Moved(g, w, "delist")
    BY SMTT(30) DEF g
  <2>2. /\ Count(pc, P) \in Nat /\ Count(g, P) \in Nat
        /\ Count(g, P) = Count(pc, P) + In("idle", P) - In(pc[t], P)
    BY <1>3, <2>1, CountMove, SMTT(30)
  <2>3. /\ Count(g, P) \in Nat /\ Count(pc', P) \in Nat
        /\ Count(pc', P) = Count(g, P) + In("delist", P) - In(g[w], P)
    BY <1>3, <2>1, CountMove, SMTT(30)
  <2> QED
    BY <1>3, <2>2, <2>3, Zenon
<1> HIDE DEF g
<1>8. /\ In("idle", Took) = 0 /\ In("syscall", Took) = 0
      /\ In("delist", Took) = 0 /\ In("asleep", Took) = 0
      /\ In("idle", Waiting) = 0 /\ In("syscall", Waiting) = 0
      /\ In("delist", Waiting) = 1 /\ In("asleep", Waiting) = 1
      /\ In("idle", Helping) = 0 /\ In("syscall", Helping) = 1
      /\ In("delist", Helping) = 1 /\ In("asleep", Helping) = 0
  BY SMTT(30) DEF In, Took, Waiting, Helping
<1>9. Count(pc', Took) = Count(pc, Took)
  BY <1>7, <1>8, SMTT(30)
<1>10. Count(pc', Waiting) = Count(pc, Waiting)
  BY <1>7, <1>8, SMTT(30)
<1>11. Count(pc', Helping) = Count(pc, Helping)
  BY <1>7, <1>8, SMTT(30)
<1>12. Units'
  BY <1>1, <1>2, <1>9, ZenonT(60) DEF Units
<1>13. Wakes'
  BY <1>1, <1>3, <1>10, <1>11, ZenonT(60) DEF Wakes
<1> QED
  BY <1>4, <1>5, <1>6, <1>12, <1>13, Zenon DEF PoolInv

\* The clock, the waiter count read by release and the wake-up.
LEMMA WakeSteps ==
  ASSUME PoolInv, NEW t \in Threads, UNCHANGED poolVars,
         deadlinePasses(t) \/ wake(t) \/ futexWake(t)
  PROVE  PoolInv'
<1>1. PoolType /\ PlacesOK /\ Wakes
  BY DEF PoolInv
<1>2. CASE deadlinePasses(t)
  <2>1. /\ pc' = pc /\ m_count' = m_count /\ m_waiters' = m_waiters /\ m_shutdown' = m_shutdown /\ n' = n
        /\ m_available' = m_available /\ leases' = leases /\ hand' = hand /\ slot' = slot /\ ppc' = ppc
    BY <1>2 DEF deadlinePasses, poolVars
  <2>2. PoolType' /\ PlacesOK'
    BY <1>1, <2>1, ZenonT(60) DEF PoolType, PlacesOK, PlaceOK
  <2>3. HeldOnce'
    BY <2>1, HeldFrame, SMTT(30) DEF PoolInv
  <2>4. Units'
    BY <2>1, SMTT(30) DEF PoolInv, Units
  <2>5. Wakes'
    BY <1>1, <2>1, SMTT(30) DEF Wakes
  <2> QED
    BY <2>2, <2>3, <2>4, <2>5, ZenonT(60) DEF PoolInv
<1>3. CASE wake(t)
  <2>1. /\ pc[t] = "wake" /\ pc' = Moved(pc, t, IF m_waiters > 0 THEN "syscall" ELSE "idle")
        /\ m_count' = m_count /\ m_waiters' = m_waiters /\ m_shutdown' = m_shutdown /\ n' = n
    BY <1>3 DEF wake, Goto, Moved, stillVars
  <2>2. CASE m_waiters > 0
    BY <2>1, <2>2, WakeMove, Zenon
  <2>3. CASE ~(m_waiters > 0)
    <3>1. Count(pc, Waiting) = 0
      BY <1>1, <2>3, CountNat, SMTT(30) DEF Wakes
    <3>2. \A u \in Threads : pc[u] \notin Waiting
      BY <3>1, CountNat
    <3>3. \A u \in Threads : pc[u] # "asleep"
      BY <3>2 DEF Waiting
    <3> QED
      BY <2>1, <2>3, <3>3, WakeMove, ZenonT(60)
  <2> QED
    BY <2>2, <2>3, SMTT(30)
<1>4. CASE futexWake(t)
  <2>1. PICK woken \in SUBSET Asleep :
          /\ Cardinality(woken) = IF n[t] < Cardinality(Asleep) THEN n[t] ELSE Cardinality(Asleep)
          /\ pc' = [u \in Threads |-> IF u \in woken THEN "delist" ELSE IF u = t THEN "idle" ELSE pc[u]]
    BY <1>4, Zenon DEF futexWake
  <2>2. /\ pc[t] = "syscall" /\ n[t] = 1 /\ pc \in [Threads -> Places]
        /\ m_count' = m_count /\ m_waiters' = m_waiters /\ m_shutdown' = m_shutdown /\ n' = n
    BY <1>1, <1>4, Zenon DEF futexWake, stillVars, PlacesOK, PlaceOK, PoolType
  <2>3. CASE Asleep = {}
    <3>1. pc' = Moved(pc, t, "idle") /\ \A u \in Threads : pc[u] # "asleep"
      BY <2>1, <2>2, <2>3, Zenon DEF Asleep, Moved
    <3> QED
      BY <2>2, <3>1, WakeMove, Zenon
  <2>4. CASE Asleep # {}
    <3>1. IsFiniteSet(Asleep) /\ Cardinality(Asleep) \in Nat /\ IsFiniteSet(woken)
      BY PoolAssumption, FS_Subset, FS_CardinalityType, ZenonT(60) DEF Asleep
    <3>2. Cardinality(Asleep) # 0
      BY <2>4, <3>1, FS_EmptySet, SMTT(30)
    <3>3. Cardinality(woken) = 1
      BY <2>1, <2>2, <3>1, <3>2, SMTT(30)
    <3>4. PICK w : woken = {w}
      BY <3>1, <3>3, FS_Singleton, ZenonT(60)
    <3>5. w \in Threads /\ pc[w] = "asleep"
      BY <2>1, <3>4 DEF Asleep
    <3>6. pc' = Moved(Moved(pc, t, "idle"), w, "delist")
      BY <2>1, <2>2, <3>4, <3>5, ZenonT(60) DEF Moved
    <3> QED
      BY <2>2, <3>5, <3>6, WakeOne, ZenonT(60)
  <2> QED
    BY <2>3, <2>4
<1> QED
  BY <1>2, <1>3, <1>4, SMTT(30)

-----------------------------------------------------------------------------
(* Connections *)

\* What an operation of the pool does to the counters and to the queue fits the
\* moves of thread t to place a of the semaphore and place b of the pool.
PoolFits(t, a, b) ==
  /\ pc' = Moved(pc, t, a) /\ ppc' = Moved(ppc, t, b)
  /\ m_count' \in Nat /\ m_waiters' = m_waiters
  /\ Len(m_available') \in Nat
  /\ Len(m_available') - m_count' - In(a, Took) - In(b, Posting)
       = Len(m_available) - m_count - In(pc[t], Took) - In(ppc[t], Posting)
  /\ In(a, Waiting) = In(pc[t], Waiting) /\ (a = "asleep" => pc[t] = "asleep")
  /\ m_count' - In(a, Helping) <= m_count - In(pc[t], Helping)

\* Then every queued connection still has its unit, and every unit its thread.
LEMMA PoolMove ==
  ASSUME PoolInv, NEW t \in Threads, NEW a, NEW b, PoolFits(t, a, b)
  PROVE  Units' /\ Wakes'
<1>0. /\ pc' = Moved(pc, t, a) /\ ppc' = Moved(ppc, t, b)
      /\ m_count' \in Nat /\ m_waiters' = m_waiters
      /\ Len(m_available') \in Nat
      /\ Len(m_available') - m_count' - In(a, Took) - In(b, Posting)
           = Len(m_available) - m_count - In(pc[t], Took) - In(ppc[t], Posting)
      /\ In(a, Waiting) = In(pc[t], Waiting) /\ (a = "asleep" => pc[t] = "asleep")
      /\ m_count' - In(a, Helping) <= m_count - In(pc[t], Helping)
  BY DEF PoolFits
<1>8. pc' = Moved(pc, t, a) /\ ppc' = Moved(ppc, t, b)
  BY DEF PoolFits
<1>9. /\ m_count' \in Nat /\ Len(m_available') \in Nat
      /\ Len(m_available') - m_count' - In(a, Took) - In(b, Posting)
           = Len(m_available) - m_count - In(pc[t], Took) - In(ppc[t], Posting)
  BY DEF PoolFits
<1>1. PoolType /\ Units /\ Wakes
  BY SMTT(30) DEF PoolInv
<1>2. /\ DOMAIN pc = Threads /\ DOMAIN ppc = Threads
      /\ m_count \in Nat /\ m_waiters \in Int /\ Len(m_available) \in Nat
      /\ \A u \in Threads : pc'[u] = IF u = t THEN a ELSE pc[u]
  BY <1>0, <1>1, SMTT(30) DEF PoolType, Moved
<1>3. ASSUME NEW P
      PROVE  /\ Count(pc, P) \in Nat /\ Count(pc', P) \in Nat
             /\ Count(pc', P) = Count(pc, P) + In(a, P) - In(pc[t], P)
             /\ In(a, P) \in {0, 1} /\ In(pc[t], P) \in {0, 1}
  BY <1>8, <1>2, CountMove, SMTT(30)
<1>4. /\ Count(ppc, Posting) \in Nat /\ Count(ppc', Posting) \in Nat
      /\ Count(ppc', Posting) = Count(ppc, Posting) + In(b, Posting) - In(ppc[t], Posting)
      /\ In(b, Posting) \in {0, 1} /\ In(ppc[t], Posting) \in {0, 1}
  BY <1>8, <1>2, CountMove, SMTT(30)
<1>5. Units'
  <2> DEFINE L == Len(m_available)
             M == Len(m_available')
  <2>8. /\ m_count' \in Nat /\ M \in Nat /\ m_count \in Nat /\ L \in Nat
        /\ M - m_count' - In(a, Took) - In(b, Posting) = L - m_count - In(pc[t], Took) - In(ppc[t], Posting)
    BY <1>9, <1>2, Zenon
  <2>9. L = m_count + Count(pc, Took) + Count(ppc, Posting)
    BY <1>1 DEF Units
  <2> HIDE DEF L, M
  <2>1. /\ Count(pc, Took) \in Nat /\ Count(pc', Took) \in Nat
        /\ Count(pc', Took) = Count(pc, Took) + In(a, Took) - In(pc[t], Took)
        /\ In(a, Took) \in {0, 1} /\ In(pc[t], Took) \in {0, 1}
    BY <1>3, ZenonT(60)
  <2>3. L - m_count - In(pc[t], Took) - In(ppc[t], Posting)
          = Count(pc, Took) + Count(ppc, Posting) - In(pc[t], Took) - In(ppc[t], Posting)
    BY <2>8, <1>4, <2>1, <2>9, SMTT(30)
  <2>4. Count(pc, Took) + Count(ppc, Posting) - In(pc[t], Took) - In(ppc[t], Posting)
          = Count(pc', Took) + Count(ppc', Posting) - In(a, Took) - In(b, Posting)
    BY <1>4, <2>1, SMTT(30)
  <2>5. M - m_count' - In(a, Took) - In(b, Posting)
          = Count(pc', Took) + Count(ppc', Posting) - In(a, Took) - In(b, Posting)
    BY <2>8, <2>3, <2>4, ZenonT(60)
  <2>6. /\ In(a, Took) \in Nat /\ In(b, Posting) \in Nat
        /\ Count(pc', Took) \in Nat /\ Count(ppc', Posting) \in Nat
    BY <1>4, <2>1, SMTT(30)
  <2>10. M \in Nat /\ m_count' \in Nat
    BY <2>8, SMTT(30)
  <2>7. M = m_count' + Count(pc', Took) + Count(ppc', Posting)
    BY <2>5, <2>6, <2>10, SMTT(30)
  <2> QED
    BY <2>7 DEF Units, L, M
<1>6. m_waiters' = Count(pc', Waiting)
  <2>1. /\ Count(pc, Waiting) \in Nat /\ Count(pc', Waiting) \in Nat
        /\ Count(pc', Waiting) = Count(pc, Waiting) + In(a, Waiting) - In(pc[t], Waiting)
        /\ In(a, Waiting) \in {0, 1} /\ In(pc[t], Waiting) \in {0, 1}
    BY <1>3, Zenon
  <2>2. m_waiters = Count(pc, Waiting)
    BY <1>1, SMTT(30) DEF Wakes
  <2> QED
    BY <1>0, <1>2, <2>1, <2>2, SMTT(30)
<1>7. ASSUME \E u \in Threads : pc'[u] = "asleep" PROVE m_count' <= Count(pc', Helping)
  <2>1. /\ Count(pc, Helping) \in Nat /\ Count(pc', Helping) \in Nat
        /\ Count(pc', Helping) = Count(pc, Helping) + In(a, Helping) - In(pc[t], Helping)
        /\ In(a, Helping) \in {0, 1} /\ In(pc[t], Helping) \in {0, 1}
    BY <1>3, Zenon
  <2>2. \E u \in Threads : pc[u] = "asleep"
    BY <1>0, <1>2, <1>7, ZenonT(60)
  <2>3. m_count <= Count(pc, Helping)
    BY <1>1, <2>2, SMTT(30) DEF Wakes
  <2> QED
    BY <1>0, <1>2, <2>1, <2>3, SMTT(30)
<1> QED
  BY <1>5, <1>6, <1>7, ZenonT(60) DEF Wakes

\* Popping the queue takes out the connection at its front.
LEMMA QueuePop ==
  ASSUME NEW S, NEW q \in Seq(S), IsInjective(q), Len(q) > 0
  PROVE  /\ Head(q) \in S /\ Head(q) \in Range(q) /\ Tail(q) \in Seq(S) /\ IsInjective(Tail(q))
         /\ Len(Tail(q)) = Len(q) - 1 /\ Range(Tail(q)) = Range(q) \ {Head(q)}
<1> DEFINE r == Tail(q)
<1>1. /\ Len(q) \in Nat /\ DOMAIN q = 1 .. Len(q) /\ Head(q) = q[1] /\ r \in Seq(S)
      /\ Len(r) = Len(q) - 1 /\ DOMAIN r = 1 .. Len(q) - 1
      /\ \A i \in 1 .. Len(q) - 1 : r[i] = q[i + 1]
  OBVIOUS
<1>2. \A i, j \in 1 .. Len(q) : q[i] = q[j] => i = j
  BY <1>1, ZenonT(60) DEF IsInjective
<1> HIDE DEF r
<1>3. IsInjective(r)
  BY <1>1, <1>2, SMTT(30) DEF IsInjective
<1>4. q[1] \in S /\ Head(q) \in Range(q)
  BY <1>1, SMTT(30) DEF Range
<1>5. ASSUME NEW x \in Range(r) PROVE x \in Range(q) \ {Head(q)}
  <2>1. PICK i \in 1 .. Len(q) - 1 : x = q[i + 1]
    BY <1>1, <1>5, ZenonT(60) DEF Range
  <2>2. i + 1 \in 1 .. Len(q) /\ 1 \in 1 .. Len(q) /\ i + 1 # 1
    BY <1>1, SMTT(30)
  <2> QED
    BY <1>1, <1>2, <2>1, <2>2, ZenonT(60) DEF Range
<1>6. ASSUME NEW x \in Range(q) \ {Head(q)} PROVE x \in Range(r)
  <2>1. PICK i \in 1 .. Len(q) : x = q[i]
    BY <1>1, <1>6, Zenon DEF Range
  <2>2. i # 1
    BY <1>1, <1>6, <2>1, ZenonT(60)
  <2>3. i - 1 \in 1 .. Len(q) - 1 /\ (i - 1) + 1 = i
    BY <1>1, <2>2, SMTT(30)
  <2>4. r[i - 1] = x
    BY <1>1, <2>1, <2>3, ZenonT(60)
  <2> QED
    BY <1>1, <2>3, <2>4, ZenonT(60) DEF Range
<1>7. Range(r) = Range(q) \ {Head(q)}
  BY <1>5, <1>6, Zenon
<1> QED
  BY <1>1, <1>3, <1>4, <1>7, ZenonT(60) DEF r

\* Pushing a connection that is not queued.
LEMMA QueuePush ==
  ASSUME NEW S, NEW q \in Seq(S), IsInjective(q), NEW e \in S, e \notin Range(q)
  PROVE  /\ Append(q, e) \in Seq(S) /\ IsInjective(Append(q, e))
         /\ Len(Append(q, e)) = Len(q) + 1 /\ Range(Append(q, e)) = Range(q) \cup {e}
<1> DEFINE r == Append(q, e)
<1>1. /\ Len(q) \in Nat /\ DOMAIN q = 1 .. Len(q) /\ r \in Seq(S)
      /\ Len(r) = Len(q) + 1 /\ DOMAIN r = 1 .. Len(q) + 1
      /\ r[Len(q) + 1] = e /\ \A i \in 1 .. Len(q) : r[i] = q[i]
  OBVIOUS
<1> HIDE DEF r
<1>2. \A i, j \in 1 .. Len(q) : q[i] = q[j] => i = j
  BY <1>1, Zenon DEF IsInjective
<1>3. \A i \in 1 .. Len(q) : q[i] # e
  BY <1>1, ZenonT(60) DEF Range
<1>4. \A i \in 1 .. Len(q) + 1 : i \in 1 .. Len(q) \/ i = Len(q) + 1
  BY <1>1, SMTT(30)
<1>5. IsInjective(r)
  BY <1>1, <1>2, <1>3, <1>4, ZenonT(60) DEF IsInjective
<1>6. \A x : x \in Range(r) <=> x \in Range(q) \cup {e}
  <2>1. \A i \in 1 .. Len(q) : i \in 1 .. Len(q) + 1
    BY <1>1, SMTT(30)
  <2>2. Len(q) + 1 \in 1 .. Len(q) + 1
    BY <1>1, SMTT(30)
  <2> QED
    BY <1>1, <1>4, <2>1, <2>2, ZenonT(60) DEF Range
<1> QED
  BY <1>1, <1>5, <1>6, ZenonT(60) DEF r

\* What is no connection is not queued.
LEMMA NotQueued == \A q \in Seq(Connections) : \A e : e \notin Connections => e \notin Range(q)
  BY SMTT(30) DEF Range

\* The lease object s of thread t gets connection c, the others keep theirs.
LeaseBecomes(t, s, c) ==
  /\ leases' \in [Threads -> [Slots -> MaybeConnection]]
  /\ \A u \in Threads, r \in Slots :
       leases'[u][r] = IF u = t /\ r = s THEN c ELSE leases[u][r]
  /\ \A u \in Threads : u # t => leases'[u] = leases[u]

\* One connection changes its place: from the queue to a temporary,
LEMMA HeldPop ==
  ASSUME PoolType, HeldOnce, NEW t \in Threads, hand[t] = NoConnection, Len(m_available) > 0,
         hand' = Moved(hand, t, Head(m_available)), m_available' = Tail(m_available),
         leases' = leases
  PROVE  HeldOnce' /\ m_available' \in Seq(Connections) /\ hand' \in [Threads -> MaybeConnection]
         /\ Len(m_available') = Len(m_available) - 1
<1> DEFINE c == Head(m_available)
<1>0. m_available \in Seq(Connections) /\ IsInjective(m_available)
  BY Zenon DEF PoolType, HeldOnce
<1>1. /\ c \in Connections /\ c \in Range(m_available) /\ m_available' \in Seq(Connections)
      /\ IsInjective(m_available') /\ Range(m_available') = Range(m_available) \ {c}
      /\ Len(m_available') = Len(m_available) - 1
  BY <1>0, QueuePop, Zenon
<1> HIDE DEF c
<1>2. /\ hand' \in [Threads -> MaybeConnection] /\ c # NoConnection
      /\ \A u \in Threads : hand'[u] = IF u = t THEN c ELSE hand[u]
  BY <1>1, PoolAssumption, ZenonT(60) DEF PoolType, Moved, MaybeConnection, c
<1>3. HeldOnce'
  <2>1. LeasesApart'
    <3>1. LeasesApart
      BY Zenon DEF HeldOnce
    <3> QED
      BY <3>1, SMTT(30) DEF LeasesApart
  <2>2. HandsApart'
    <3> SUFFICES ASSUME NEW v \in Threads, NEW u \in Threads,
                        hand'[v] # NoConnection, hand'[v] = hand'[u]
                 PROVE  v = u
      BY Zenon DEF HandsApart
    <3>1. \A w \in Threads : hand[w] # c
      BY <1>1, ZenonT(60) DEF HeldOnce, HandNotQueued
    <3>2. CASE v # t /\ u # t
      BY <1>2, <3>2, ZenonT(60) DEF HeldOnce, HandsApart
    <3> QED
      BY <1>2, <3>1, <3>2, ZenonT(60)
  <2>3. HandNotLeased'
    <3> SUFFICES ASSUME NEW v \in Threads, NEW u \in Threads, NEW r \in Slots, hand'[v] # NoConnection
                 PROVE  hand'[v] # leases[u][r]
      BY Zenon DEF HandNotLeased
    <3>1. leases[u][r] # c
      BY <1>1, ZenonT(60) DEF HeldOnce, LeaseNotQueued
    <3>2. CASE v # t
      BY <1>2, <3>2, ZenonT(60) DEF HeldOnce, HandNotLeased
    <3> QED
      BY <1>2, <3>1, <3>2, ZenonT(60)
  <2>4. LeaseNotQueued'
    BY <1>1, <1>2, Zenon DEF HeldOnce, LeaseNotQueued, HandNotQueued
  <2>5. HandNotQueued'
    BY <1>1, <1>2, ZenonT(60) DEF HeldOnce, HandNotQueued, HandsApart, LeaseNotQueued
  <2>6. NoneLost'
    <3>1. SUFFICES ASSUME NEW x \in Connections, x # c
                   PROVE  \/ x \in Range(m_available')
                          \/ \E u \in Threads, s \in Slots : leases'[u][s] = x
                          \/ \E u \in Threads : hand'[u] = x
      BY <1>2, ZenonT(60) DEF NoneLost
    <3>2. x # NoConnection
      BY PoolAssumption, ZenonT(60)
    <3>3. \/ x \in Range(m_available)
          \/ \E u \in Threads, s \in Slots : leases[u][s] = x
          \/ \E u \in Threads : hand[u] = x
      BY Zenon DEF HeldOnce, NoneLost
    <3> QED
      BY <1>1, <1>2, <3>1, <3>2, <3>3, ZenonT(60)
  <2> QED
    BY <1>1, <1>2, <2>1, <2>2, <2>3, <2>4, <2>5, <2>6, ZenonT(60) DEF HeldOnce
<1> QED
  BY <1>1, <1>2, <1>3, ZenonT(60)

\* from the temporary to the lease object it is assigned to,
LEMMA HeldAssign ==
  ASSUME PoolType, HeldOnce, NEW t \in Threads, NEW s \in Slots, leases[t][s] = NoConnection,
         hand' = Moved(hand, t, NoConnection), m_available' = m_available,
         LeaseBecomes(t, s, hand[t])
  PROVE  HeldOnce' /\ hand' \in [Threads -> MaybeConnection]
<1>held. LeasesApart /\ HandsApart /\ HandNotLeased /\ LeaseNotQueued /\ HandNotQueued
  BY Zenon DEF HeldOnce
<1>lease. \A u \in Threads, r \in Slots : leases'[u][r] = IF u = t /\ r = s THEN hand[t] ELSE leases[u][r]
  BY Zenon DEF LeaseBecomes
<1>1. /\ hand' \in [Threads -> MaybeConnection]
      /\ \A u \in Threads : hand'[u] = IF u = t THEN NoConnection ELSE hand[u]
  BY ZenonT(60) DEF PoolType, Moved, MaybeConnection
<1>2. NoConnection \notin Range(m_available)
  BY PoolAssumption, NotQueued, ZenonT(60) DEF PoolType
<1>3. NoConnection \notin Connections
  BY PoolAssumption, Zenon
<1>4. HeldOnce'
  <2>1. LeasesApart'
    <3> SUFFICES ASSUME NEW v \in Threads, NEW u \in Threads, NEW q \in Slots, NEW r \in Slots,
                        leases'[v][q] # NoConnection, leases'[v][q] = leases'[u][r]
                 PROVE  v = u /\ q = r
      BY SMTT(30) DEF LeasesApart
    <3>0. /\ leases'[v][q] = IF v = t /\ q = s THEN hand[t] ELSE leases[v][q]
          /\ leases'[u][r] = IF u = t /\ r = s THEN hand[t] ELSE leases[u][r]
      BY <1>lease, Zenon
    <3>1. CASE ~(v = t /\ q = s) /\ ~(u = t /\ r = s)
      <4>1. leases[v][q] # NoConnection /\ leases[v][q] = leases[u][r]
        BY <3>0, <3>1, ZenonT(60)
      <4> QED
        BY <1>held, <4>1, SMTT(30) DEF LeasesApart
    <3>2. CASE v = t /\ q = s /\ ~(u = t /\ r = s)
      <4>1. hand[t] # NoConnection /\ hand[t] = leases[u][r]
        BY <3>0, <3>2, ZenonT(60)
      <4> QED
        BY <1>held, <4>1, ZenonT(60) DEF HandNotLeased
    <3>3. CASE ~(v = t /\ q = s) /\ u = t /\ r = s
      <4>1. hand[t] # NoConnection /\ hand[t] = leases[v][q]
        BY <3>0, <3>3, ZenonT(60)
      <4> QED
        BY <1>held, <4>1, ZenonT(60) DEF HandNotLeased
    <3> QED
      BY <3>1, <3>2, <3>3, ZenonT(60)
  <2>2. HandsApart'
    <3> SUFFICES ASSUME NEW v \in Threads, NEW u \in Threads,
                        hand'[v] # NoConnection, hand'[v] = hand'[u]
                 PROVE  v = u
      BY Zenon DEF HandsApart
    <3>1. hand'[v] = hand[v] /\ hand'[u] = hand[u]
      BY <1>1, ZenonT(60)
    <3> QED
      BY <1>held, <3>1, ZenonT(60) DEF HandsApart
  <2>3. HandNotLeased'
    <3> SUFFICES ASSUME NEW v \in Threads, NEW u \in Threads, NEW r \in Slots, hand'[v] # NoConnection
                 PROVE  hand'[v] # leases'[u][r]
      BY Zenon DEF HandNotLeased
    <3>1. v # t /\ hand'[v] = hand[v] /\ hand[v] # NoConnection
      BY <1>1, ZenonT(60)
    <3>2. CASE u = t /\ r = s
      <4>1. leases'[u][r] = hand[t]
        BY <1>lease, <3>2, ZenonT(60)
      <4> QED
        BY <1>held, <3>1, <4>1, ZenonT(60) DEF HandsApart
    <3>3. CASE ~(u = t /\ r = s)
      <4>1. leases'[u][r] = leases[u][r]
        BY <1>lease, <3>3, ZenonT(60)
      <4> QED
        BY <1>held, <3>1, <4>1, ZenonT(60) DEF HandNotLeased
    <3> QED
      BY <3>2, <3>3, Zenon
  <2>4. LeaseNotQueued'
    BY <1>1, <1>2, <1>held, <1>lease, ZenonT(60) DEF LeaseNotQueued, HandNotQueued
  <2>5. HandNotQueued'
    BY <1>1, <1>2, <1>held, ZenonT(60) DEF HandNotQueued
  <2>6. NoneLost'
    <3>1. SUFFICES ASSUME NEW x \in Connections
                   PROVE  \/ x \in Range(m_available')
                          \/ \E u \in Threads, r \in Slots : leases'[u][r] = x
                          \/ \E u \in Threads : hand'[u] = x
      BY Zenon DEF NoneLost
    <3>2. \/ x \in Range(m_available)
          \/ \E u \in Threads, r \in Slots : leases[u][r] = x
          \/ \E u \in Threads : hand[u] = x
      BY Zenon DEF HeldOnce, NoneLost
    <3>3. CASE x \in Range(m_available)
      BY <3>3, Zenon
    <3>4. ASSUME NEW u \in Threads, NEW r \in Slots, leases[u][r] = x
          PROVE  leases'[u][r] = x
      <4>1. ~ (u = t /\ r = s)
        BY <1>3, <3>4, Zenon
      <4> QED
        BY <1>lease, <3>4, <4>1, Zenon
    <3>5. ASSUME NEW u \in Threads, hand[u] = x
          PROVE  hand'[u] = x \/ leases'[t][s] = x
      BY <1>1, <1>lease, <3>5, Zenon
    <3> QED
      BY <3>2, <3>3, <3>4, <3>5, ZenonT(60)
  <2> QED
    BY <1>1, <1>2, <1>3, <2>1, <2>2, <2>3, <2>4, <2>5, <2>6, ZenonT(30) DEF HeldOnce
<1> QED
  BY <1>1, <1>4, Zenon

\* from a lease object to the temporary of a move,
LEMMA HeldMove ==
  ASSUME PoolType, HeldOnce, NEW t \in Threads, NEW s \in Slots, hand[t] = NoConnection,
         hand' = Moved(hand, t, leases[t][s]), m_available' = m_available,
         LeaseBecomes(t, s, NoConnection)
  PROVE  HeldOnce' /\ hand' \in [Threads -> MaybeConnection]
<1>held. LeasesApart /\ HandsApart /\ HandNotLeased /\ LeaseNotQueued /\ HandNotQueued
  BY Zenon DEF HeldOnce
<1>lease. \A u \in Threads, r \in Slots : leases'[u][r] = IF u = t /\ r = s THEN NoConnection ELSE leases[u][r]
  BY Zenon DEF LeaseBecomes
<1>1. /\ hand' \in [Threads -> MaybeConnection]
      /\ \A u \in Threads : hand'[u] = IF u = t THEN leases[t][s] ELSE hand[u]
  BY SMTT(30) DEF PoolType, Moved, MaybeConnection
<1>2. NoConnection \notin Range(m_available)
  BY PoolAssumption, NotQueued, ZenonT(60) DEF PoolType
<1>3. NoConnection \notin Connections
  BY PoolAssumption, Zenon
<1>4. HeldOnce'
  <2>1. LeasesApart'
    <3> SUFFICES ASSUME NEW v \in Threads, NEW u \in Threads, NEW q \in Slots, NEW r \in Slots,
                        leases'[v][q] # NoConnection, leases'[v][q] = leases'[u][r]
                 PROVE  v = u /\ q = r
      BY SMTT(30) DEF LeasesApart
    <3>1. leases'[v][q] = leases[v][q]
      BY <1>lease, ZenonT(60)
    <3>2. leases'[u][r] = leases[u][r]
      BY <1>lease, ZenonT(60)
    <3>3. leases[v][q] # NoConnection /\ leases[v][q] = leases[u][r]
      BY <3>1, <3>2, ZenonT(60)
    <3> QED
      BY <1>held, <3>3, SMTT(30) DEF LeasesApart
  <2>2. HandsApart'
    <3> SUFFICES ASSUME NEW v \in Threads, NEW u \in Threads,
                        hand'[v] # NoConnection, hand'[v] = hand'[u]
                 PROVE  v = u
      BY Zenon DEF HandsApart
    <3>0. /\ hand'[v] = IF v = t THEN leases[t][s] ELSE hand[v]
          /\ hand'[u] = IF u = t THEN leases[t][s] ELSE hand[u]
      BY <1>1, Zenon
    <3>1. CASE v # t /\ u # t
      BY <1>held, <3>0, <3>1, ZenonT(60) DEF HandsApart
    <3>2. CASE v = t /\ u # t
      <4>1. hand[u] # NoConnection /\ hand[u] = leases[t][s]
        BY <3>0, <3>2, ZenonT(60)
      <4> QED
        BY <1>held, <4>1, ZenonT(60) DEF HandNotLeased
    <3>3. CASE v # t /\ u = t
      <4>1. hand[v] # NoConnection /\ hand[v] = leases[t][s]
        BY <3>0, <3>3, ZenonT(60)
      <4> QED
        BY <1>held, <4>1, ZenonT(60) DEF HandNotLeased
    <3> QED
      BY <3>1, <3>2, <3>3, ZenonT(60)
  <2>3. HandNotLeased'
    <3> SUFFICES ASSUME NEW v \in Threads, NEW u \in Threads, NEW r \in Slots, hand'[v] # NoConnection
                 PROVE  hand'[v] # leases'[u][r]
      BY Zenon DEF HandNotLeased
    <3>1. CASE u = t /\ r = s
      BY <1>lease, <3>1, ZenonT(60)
    <3>2. CASE ~(u = t /\ r = s) /\ v = t
      <4>1. leases'[u][r] = leases[u][r] /\ hand'[v] = leases[t][s]
        BY <1>1, <1>lease, <3>2, ZenonT(60)
      <4>2. ASSUME hand'[v] = leases'[u][r] PROVE FALSE
        <5>1. leases[t][s] # NoConnection /\ leases[t][s] = leases[u][r]
          BY <4>1, <4>2, ZenonT(60)
        <5> QED
          BY <1>held, <3>2, <5>1, SMTT(30) DEF LeasesApart
      <4> QED
        BY <4>2, Zenon
    <3>3. CASE ~(u = t /\ r = s) /\ v # t
      <4>1. leases'[u][r] = leases[u][r] /\ hand'[v] = hand[v] /\ hand[v] # NoConnection
        BY <1>1, <1>lease, <3>3, ZenonT(60)
      <4> QED
        BY <1>held, <4>1, ZenonT(60) DEF HandNotLeased
    <3> QED
      BY <3>1, <3>2, <3>3, ZenonT(60)
  <2>4. LeaseNotQueued'
    BY <1>1, <1>2, <1>held, <1>lease, ZenonT(60) DEF LeaseNotQueued, HandNotQueued
  <2>5. HandNotQueued'
    BY <1>1, <1>2, <1>held, ZenonT(60) DEF HandNotQueued, LeaseNotQueued
  <2>6. NoneLost'
    <3>1. SUFFICES ASSUME NEW x \in Connections
                   PROVE  \/ x \in Range(m_available')
                          \/ \E u \in Threads, r \in Slots : leases'[u][r] = x
                          \/ \E u \in Threads : hand'[u] = x
      BY Zenon DEF NoneLost
    <3>2. \/ x \in Range(m_available)
          \/ \E u \in Threads, r \in Slots : leases[u][r] = x
          \/ \E u \in Threads : hand[u] = x
      BY Zenon DEF HeldOnce, NoneLost
    <3>3. CASE x \in Range(m_available)
      BY <3>3, ZenonT(60)
    <3>4. ASSUME NEW u \in Threads, NEW r \in Slots, leases[u][r] = x
          PROVE  leases'[u][r] = x \/ hand'[t] = x
      BY <1>1, <1>lease, <3>4, ZenonT(60)
    <3>5. ASSUME NEW u \in Threads, hand[u] = x
          PROVE  hand'[u] = x
      <4>1. u # t
        BY <1>3, <3>5, ZenonT(60)
      <4> QED
        BY <1>1, <3>5, <4>1, ZenonT(60)
    <3> QED
      BY <3>2, <3>3, <3>4, <3>5, ZenonT(60)
  <2> QED
    BY <1>1, <1>2, <1>3, <2>1, <2>2, <2>3, <2>4, <2>5, <2>6, ZenonT(30) DEF HeldOnce
<1> QED
  BY <1>1, <1>4, ZenonT(60)

\* and from a lease object back to the queue.
LEMMA HeldPush ==
  ASSUME PoolType, HeldOnce, NEW t \in Threads, NEW s \in Slots, leases[t][s] # NoConnection,
         m_available' = Append(m_available, leases[t][s]), hand' = hand,
         LeaseBecomes(t, s, NoConnection)
  PROVE  HeldOnce' /\ m_available' \in Seq(Connections) /\ Len(m_available') = Len(m_available) + 1
<1>held. LeasesApart /\ HandsApart /\ HandNotLeased /\ LeaseNotQueued /\ HandNotQueued
  BY Zenon DEF HeldOnce
<1>lease. \A u \in Threads, r \in Slots : leases'[u][r] = IF u = t /\ r = s THEN NoConnection ELSE leases[u][r]
  BY Zenon DEF LeaseBecomes
<1> DEFINE c == leases[t][s]
<1>0. /\ m_available \in Seq(Connections) /\ IsInjective(m_available)
      /\ c \in Connections /\ c \notin Range(m_available)
  <2>1. c \in MaybeConnection
    BY ZenonT(60) DEF PoolType
  <2> QED
    BY <2>1, ZenonT(60) DEF PoolType, HeldOnce, LeaseNotQueued, MaybeConnection
<1>1. /\ m_available' \in Seq(Connections) /\ IsInjective(m_available')
      /\ Range(m_available') = Range(m_available) \cup {c}
      /\ Len(m_available') = Len(m_available) + 1
  BY <1>0, QueuePush, ZenonT(60)
<1>2. NoConnection \notin Range(m_available') /\ NoConnection \notin Connections
  BY <1>1, PoolAssumption, NotQueued, ZenonT(60)
<1> HIDE DEF c
<1>3. /\ \A u \in Threads, r \in Slots : leases[u][r] = c => u = t /\ r = s
      /\ \A u \in Threads : hand[u] # c
  <2>1. \A u \in Threads, r \in Slots : leases[u][r] = c => u = t /\ r = s
    BY <1>held, SMTT(30) DEF LeasesApart, c
  <2>2. \A u \in Threads : hand[u] # c
    BY ZenonT(60) DEF HeldOnce, HandNotLeased, c
  <2> QED
    BY <2>1, <2>2, Zenon
<1>4. HeldOnce'
  <2>1. LeasesApart'
    <3> SUFFICES ASSUME NEW v \in Threads, NEW u \in Threads, NEW q \in Slots, NEW r \in Slots,
                        leases'[v][q] # NoConnection, leases'[v][q] = leases'[u][r]
                 PROVE  v = u /\ q = r
      BY SMTT(30) DEF LeasesApart
    <3>1. leases'[v][q] = leases[v][q]
      BY <1>lease, ZenonT(60)
    <3>2. leases'[u][r] = leases[u][r]
      BY <1>lease, ZenonT(60)
    <3>3. leases[v][q] # NoConnection /\ leases[v][q] = leases[u][r]
      BY <3>1, <3>2, ZenonT(60)
    <3> QED
      BY <1>held, <3>3, SMTT(30) DEF LeasesApart
  <2>2. HandsApart'
    BY <1>held, ZenonT(60) DEF HandsApart
  <2>3. HandNotLeased'
    <3> SUFFICES ASSUME NEW v \in Threads, NEW u \in Threads, NEW r \in Slots, hand[v] # NoConnection
                 PROVE  hand[v] # leases'[u][r]
      BY Zenon DEF HandNotLeased
    <3>1. leases'[u][r] = NoConnection \/ leases'[u][r] = leases[u][r]
      BY <1>lease, ZenonT(60)
    <3>2. hand[v] # leases[u][r]
      BY <1>held, Zenon DEF HandNotLeased
    <3> QED
      BY <3>1, <3>2, ZenonT(60)
  <2>4. LeaseNotQueued'
    <3> SUFFICES ASSUME NEW u \in Threads, NEW r \in Slots PROVE leases'[u][r] \notin Range(m_available')
      BY Zenon DEF LeaseNotQueued
    <3>1. CASE u = t /\ r = s
      BY <1>2, <1>lease, <3>1, ZenonT(60)
    <3>2. CASE ~(u = t /\ r = s)
      <4>1. leases'[u][r] = leases[u][r] /\ leases[u][r] # c
        BY <1>3, <1>lease, <3>2, ZenonT(60)
      <4>2. leases[u][r] \notin Range(m_available)
        BY Zenon DEF HeldOnce, LeaseNotQueued
      <4> QED
        BY <1>1, <4>1, <4>2, ZenonT(60)
    <3> QED
      BY <3>1, <3>2, Zenon
  <2>5. HandNotQueued'
    BY <1>1, <1>3, <1>held, ZenonT(60) DEF HandNotQueued
  <2>6. NoneLost'
    <3> SUFFICES ASSUME NEW x \in Connections
                 PROVE  \/ x \in Range(m_available')
                        \/ \E u \in Threads, r \in Slots : leases'[u][r] = x
                        \/ \E u \in Threads : hand[u] = x
      BY Zenon DEF NoneLost
    <3>1. \/ x \in Range(m_available)
          \/ \E u \in Threads, r \in Slots : leases[u][r] = x
          \/ \E u \in Threads : hand[u] = x
      BY Zenon DEF HeldOnce, NoneLost
    <3>2. CASE x \in Range(m_available) \/ x = c
      BY <1>1, <3>2, ZenonT(60)
    <3>3. ASSUME NEW u \in Threads, NEW r \in Slots, leases[u][r] = x, x # c
          PROVE  leases'[u][r] = x
      <4>1. ~(u = t /\ r = s)
        BY <3>3, ZenonT(60) DEF c
      <4> QED
        BY <1>lease, <3>3, <4>1, ZenonT(60)
    <3> QED
      BY <3>1, <3>2, <3>3, ZenonT(60)
  <2> QED
    BY <1>0, <1>1, <1>2, <1>3, <2>1, <2>2, <2>3, <2>4, <2>5, <2>6, ZenonT(60) DEF HeldOnce
<1> QED
  BY <1>1, <1>4, Zenon

-----------------------------------------------------------------------------
(* The operations of the pool *)

\* A reader asks for a connection.
LEMMA AcquireLease ==
  ASSUME PoolInv, NEW t \in Threads, NEW s \in Slots, acquireLease(t, s)
  PROVE  PoolInv'
<1>1. PoolType /\ PlacesOK /\ HeldOnce
  BY DEF PoolInv
<1>2. /\ ppc[t] = "out" /\ pc[t] = "idle" /\ pc' = Moved(pc, t, "try") /\ ppc' = Moved(ppc, t, "acquire")
      /\ slot' = Moved(slot, t, s) /\ m_available' = m_available /\ leases' = leases /\ hand' = hand
      /\ m_count' = m_count /\ m_waiters' = m_waiters /\ m_shutdown' = m_shutdown /\ n' = n
  BY Zenon DEF acquireLease, acquire, tryAcquireFor, At, Go, Goto, Moved
<1>3. /\ \A u \in Threads : pc'[u] = IF u = t THEN "try" ELSE pc[u]
      /\ \A u \in Threads : ppc'[u] = IF u = t THEN "acquire" ELSE ppc[u]
      /\ \A u \in Threads : slot'[u] = IF u = t THEN s ELSE slot[u]
      /\ pc' \in [Threads -> Places] /\ ppc' \in [Threads -> PoolPlaces]
      /\ slot' \in [Threads -> Slots \cup {NoSlot}]
  BY <1>1, <1>2, Zenon DEF PoolType, Moved, Places, PoolPlaces
<1>4. PoolType'
  BY <1>1, <1>2, <1>3, Zenon DEF PoolType
<1>5. PlacesOK'
  <2>1. OthersStay(t)
    BY <1>1, <1>2, <1>3, ZenonT(60) DEF OthersStay
  <2>2. PlaceOK(ppc'[t], pc'[t], slot'[t], hand'[t], leases'[t], n'[t])
    BY <1>1, <1>2, <1>3, ZenonT(60) DEF PlacesOK, PlaceOK, Outside
  <2> QED
    BY <1>1, <2>1, <2>2, PlacesMove, Zenon
<1>6. HeldOnce'
  BY <1>1, <1>2, HeldFrame, ZenonT(60)
<1>7. PoolFits(t, "try", "acquire")
  <2>1. /\ In("try", Took) = 0 /\ In("try", Waiting) = 0 /\ In("try", Helping) = 1
        /\ In(pc[t], Took) = 0 /\ In(pc[t], Waiting) = 0 /\ In(pc[t], Helping) = 0
        /\ In("acquire", Posting) = 0 /\ In(ppc[t], Posting) = 0
    BY <1>2, ZenonT(60) DEF In, Took, Waiting, Helping, Posting
  <2>2. m_count \in Nat /\ Len(m_available) \in Nat
    BY <1>1 DEF PoolType
  <2> QED
    BY <1>2, <2>1, <2>2, SMTT(30) DEF PoolFits
<1>8. Units' /\ Wakes'
  BY <1>7, PoolMove, Zenon
<1> QED
  BY <1>4, <1>5, <1>6, <1>8, ZenonT(60) DEF PoolInv

\* A reader whose acquire returned takes the connection at the front.
LEMMA PopConnection ==
  ASSUME PoolInv, NEW t \in Threads, popConnection(t)
  PROVE  PoolInv'
<1>1. PoolType /\ PlacesOK /\ HeldOnce /\ Units
  BY DEF PoolInv
<1>2. /\ ppc[t] = "acquire" /\ pc[t] = "returned"
      /\ pc' = Moved(pc, t, "idle") /\ ppc' = Moved(ppc, t, "assign")
      /\ slot' = slot /\ m_available' = Tail(m_available) /\ leases' = leases
      /\ hand' = Moved(hand, t, Head(m_available))
      /\ m_count' = m_count /\ m_waiters' = m_waiters /\ m_shutdown' = m_shutdown /\ n' = n
  BY Zenon DEF popConnection, leave, At, Go, Goto, Moved
<1>3. /\ \A u \in Threads : pc'[u] = IF u = t THEN "idle" ELSE pc[u]
      /\ \A u \in Threads : ppc'[u] = IF u = t THEN "assign" ELSE ppc[u]
      /\ \A u \in Threads : u # t => hand'[u] = hand[u]
      /\ pc' \in [Threads -> Places] /\ ppc' \in [Threads -> PoolPlaces]
  BY <1>1, <1>2, ZenonT(60) DEF PoolType, Moved, Places, PoolPlaces
<1>4. Len(m_available) > 0
  <2>1. Count(pc, Took) # 0 /\ Count(pc, Took) \in Nat /\ Count(ppc, Posting) \in Nat
    BY <1>2, CountNat, SMTT(30) DEF Took
  <2>2. m_count \in Nat
    BY <1>1, Zenon DEF PoolType
  <2> QED
    BY <1>1, <2>1, <2>2, SMTT(30) DEF Units
<1>5. hand[t] = NoConnection
  BY <1>1, <1>2, Zenon DEF PlacesOK, PlaceOK
<1>6. /\ HeldOnce' /\ m_available' \in Seq(Connections) /\ hand' \in [Threads -> MaybeConnection]
      /\ Len(m_available') = Len(m_available) - 1
  BY <1>1, <1>2, <1>4, <1>5, HeldPop, ZenonT(60)
<1>7. PoolType'
  BY <1>1, <1>2, <1>3, <1>6, ZenonT(30) DEF PoolType
<1>8. PlacesOK'
  <2>1. OthersStay(t)
    BY <1>1, <1>2, <1>3, ZenonT(60) DEF OthersStay
  <2>2. PlaceOK(ppc'[t], pc'[t], slot'[t], hand'[t], leases'[t], n'[t])
    BY <1>1, <1>2, <1>3, ZenonT(60) DEF PlacesOK, PlaceOK, Outside
  <2> QED
    BY <1>1, <2>1, <2>2, PlacesMove, ZenonT(60)
<1>9. PoolFits(t, "idle", "assign")
  <2>1. /\ In("idle", Took) = 0 /\ In("idle", Waiting) = 0 /\ In("idle", Helping) = 0
        /\ In(pc[t], Took) = 1 /\ In(pc[t], Waiting) = 0 /\ In(pc[t], Helping) = 0
        /\ In("assign", Posting) = 0 /\ In(ppc[t], Posting) = 0
    BY <1>2, ZenonT(60) DEF In, Took, Waiting, Helping, Posting
  <2>2. m_count \in Nat /\ Len(m_available) \in Nat
    BY <1>1, SMTT(30) DEF PoolType
  <2> HIDE DEF PoolInv
  <2>3. Len(m_available') \in Nat /\ Len(m_available') = Len(m_available) - 1
    BY <1>4, <1>6, <2>2, SMTT(30)
  <2>4. Len(m_available') - m_count' - 0 - 0 = Len(m_available) - m_count - 1 - 0
    BY <1>2, <2>2, <2>3, SMTT(30)
  <2>5. m_count' - 0 <= m_count - 0 /\ m_count' \in Nat
    BY <1>2, <2>2, SMTT(30)
  <2> QED
    BY <1>2, <2>1, <2>3, <2>4, <2>5, ZenonT(60) DEF PoolFits
<1>10. Units' /\ Wakes'
  BY <1>9, PoolMove, ZenonT(60)
<1> QED
  BY <1>6, <1>7, <1>8, <1>10, ZenonT(60) DEF PoolInv

\* tryAcquireFor gives up and returns an empty lease.
LEMMA EmptyLease ==
  ASSUME PoolInv, NEW t \in Threads, emptyLease(t)
  PROVE  PoolInv'
<1>1. PoolType /\ PlacesOK /\ HeldOnce
  BY DEF PoolInv
<1>2. /\ ppc[t] = "acquire" /\ pc[t] = "refused"
      /\ pc' = Moved(pc, t, "idle") /\ ppc' = Moved(ppc, t, "assign")
      /\ slot' = slot /\ m_available' = m_available /\ leases' = leases /\ hand' = hand
      /\ m_count' = m_count /\ m_waiters' = m_waiters /\ m_shutdown' = m_shutdown /\ n' = n
  BY Zenon DEF emptyLease, leave, At, Go, Goto, Moved
<1>3. /\ \A u \in Threads : pc'[u] = IF u = t THEN "idle" ELSE pc[u]
      /\ \A u \in Threads : ppc'[u] = IF u = t THEN "assign" ELSE ppc[u]
      /\ pc' \in [Threads -> Places] /\ ppc' \in [Threads -> PoolPlaces]
  BY <1>1, <1>2, ZenonT(60) DEF PoolType, Moved, Places, PoolPlaces
<1>4. PoolType'
  BY <1>1, <1>2, <1>3, ZenonT(60) DEF PoolType
<1>5. PlacesOK'
  <2>1. OthersStay(t)
    BY <1>1, <1>2, <1>3, ZenonT(60) DEF OthersStay
  <2>2. PlaceOK(ppc'[t], pc'[t], slot'[t], hand'[t], leases'[t], n'[t])
    BY <1>1, <1>2, <1>3, ZenonT(60) DEF PlacesOK, PlaceOK, Outside
  <2> QED
    BY <1>1, <2>1, <2>2, PlacesMove, ZenonT(60)
<1>6. HeldOnce'
  BY <1>1, <1>2, HeldFrame, ZenonT(60)
<1>7. PoolFits(t, "idle", "assign")
  <2>1. /\ In("idle", Took) = 0 /\ In("idle", Waiting) = 0 /\ In("idle", Helping) = 0
        /\ In(pc[t], Took) = 0 /\ In(pc[t], Waiting) = 0 /\ In(pc[t], Helping) = 0
        /\ In("assign", Posting) = 0 /\ In(ppc[t], Posting) = 0
    BY <1>2, ZenonT(60) DEF In, Took, Waiting, Helping, Posting
  <2>2. m_count \in Nat /\ Len(m_available) \in Nat
    BY <1>1, SMTT(30) DEF PoolType
  <2> QED
    BY <1>2, <2>1, <2>2, SMTT(30) DEF PoolFits
<1>8. Units' /\ Wakes'
  BY <1>7, PoolMove, Zenon
<1> QED
  BY <1>4, <1>5, <1>6, <1>8, ZenonT(60) DEF PoolInv

\* The queue grows by one when thread t comes to post, and not otherwise.
QueueFits(t, b) ==
  /\ Len(m_available') \in Nat
  /\ Len(m_available') = Len(m_available) + In(b, Posting) - In(ppc[t], Posting)

\* A step outside the semaphore.
LEMMA PoolOnly ==
  ASSUME PoolInv, NEW t \in Threads, NEW b, ppc' = Moved(ppc, t, b), UNCHANGED semVars,
         QueueFits(t, b)
  PROVE  /\ Units' /\ Wakes'
         /\ pc' = pc /\ m_count' = m_count /\ m_waiters' = m_waiters /\ m_shutdown' = m_shutdown /\ n' = n
<1>1. pc' = pc /\ m_count' = m_count /\ m_waiters' = m_waiters /\ m_shutdown' = m_shutdown /\ n' = n
  BY DEF semVars
<1>2. PoolType
  BY SMTT(30) DEF PoolInv
<1>3. pc' = Moved(pc, t, pc[t]) /\ m_count \in Nat /\ Len(m_available) \in Nat
  BY <1>1, <1>2, SMTT(30) DEF PoolType, Moved
<1>4. In(pc[t], Took) \in {0, 1} /\ In(pc[t], Helping) \in {0, 1}
  BY DEF In
<1>5. PoolFits(t, pc[t], b)
  <2> DEFINE i == In(pc[t], Took)
             h == In(pc[t], Helping)
             k == In(ppc[t], Posting)
             k1 == In(b, Posting)
             L == Len(m_available)
             M == Len(m_available')
  <2>1. /\ i \in Nat /\ h \in Nat /\ k \in Nat /\ k1 \in Nat /\ L \in Nat /\ M \in Nat
    BY <1>3, <1>4, ZenonT(60) DEF In, QueueFits
  <2>2. m_count \in Nat /\ M = L + k1 - k
    BY <1>3, ZenonT(60) DEF QueueFits
  <2> HIDE DEF i, h, k, k1, L, M
  <2>3. M - m_count - i - k1 = L - m_count - i - k
    BY <2>1, <2>2, SMTT(30)
  <2>4. m_count - h <= m_count - h
    BY <2>1, <2>2, SMTT(30)
  <2> QED
    BY <1>1, <1>3, <2>1, <2>3, <2>4, ZenonT(60) DEF PoolFits, i, h, k, k1, L, M
<1> QED
  BY <1>1, <1>5, PoolMove, ZenonT(60)

\* The lease object s of thread t gets connection c.
LEMMA LeaseSet ==
  ASSUME PoolType, NEW t \in Threads, NEW s \in Slots, NEW c \in MaybeConnection,
         leases' = [leases EXCEPT ![t][s] = c]
  PROVE  LeaseBecomes(t, s, c)
<1>1. leases \in [Threads -> [Slots -> MaybeConnection]]
  BY Zenon DEF PoolType
<1>2. leases[t] \in [Slots -> MaybeConnection]
  BY <1>1, Zenon
<1> DEFINE row == [leases[t] EXCEPT ![s] = c]
<1>3. row \in [Slots -> MaybeConnection] /\ \A r \in Slots : row[r] = IF r = s THEN c ELSE leases[t][r]
  BY <1>2, ZenonT(60)
<1>4. leases' = [leases EXCEPT ![t] = row]
  OBVIOUS
<1> HIDE DEF row
<1> QED
  BY <1>1, <1>3, <1>4, ZenonT(60) DEF LeaseBecomes

\* Move assignment: the old connection of the lease goes back first.
LEMMA AssignLease ==
  ASSUME PoolInv, NEW t \in Threads, assign(t)
  PROVE  PoolInv'
<1>1. PoolType /\ PlacesOK /\ HeldOnce
  BY DEF PoolInv
<1>2. /\ ppc[t] = "assign" /\ pc[t] = "idle" /\ m_available' = m_available /\ slot[t] \in Slots
      /\ UNCHANGED semVars
  BY <1>1, ZenonT(60) DEF assign, At, PlacesOK, PlaceOK
<1>3. CASE leases[t][slot[t]] # NoConnection
  <2>1. ppc' = Moved(ppc, t, "push") /\ leases' = leases /\ hand' = hand /\ slot' = slot
    BY <1>3, ZenonT(60) DEF assign, Go, Moved
  <2>2. /\ \A u \in Threads : ppc'[u] = IF u = t THEN "push" ELSE ppc[u]
        /\ ppc' \in [Threads -> PoolPlaces] /\ Len(m_available') = Len(m_available) /\ Len(m_available) \in Nat
    BY <1>1, <1>2, <2>1, SMTT(30) DEF PoolType, Moved, PoolPlaces
  <2>3. In(ppc[t], Posting) = 0 /\ In("push", Posting) = 0
    BY <1>2, Zenon DEF In, Posting
  <2>10. QueueFits(t, "push")
    BY <2>2, <2>3, SMTT(30) DEF QueueFits
  <2>4. /\ Units' /\ Wakes'
        /\ pc' = pc /\ m_count' = m_count /\ m_waiters' = m_waiters /\ m_shutdown' = m_shutdown /\ n' = n
    BY <1>2, <2>1, <2>10, PoolOnly, ZenonT(60)
  <2>5. PoolType'
    BY <1>1, <1>2, <2>1, <2>2, <2>4, ZenonT(60) DEF PoolType, LeaseBecomes
  <2>6. PlacesOK'
    <3>1. OthersStay(t)
      BY <1>1, <1>2, <1>3, <2>1, <2>2, <2>4, ZenonT(60) DEF OthersStay, LeaseBecomes
    <3>2. PlaceOK(ppc'[t], pc'[t], slot'[t], hand'[t], leases'[t], n'[t])
      BY <1>1, <1>2, <1>3, <2>1, <2>2, <2>4, ZenonT(60) DEF PlacesOK, PlaceOK, Outside
    <3> QED
      BY <1>1, <3>1, <3>2, PlacesMove, Zenon
  <2>7. HeldOnce'
    BY <1>1, <1>2, <2>1, HeldFrame, ZenonT(60)
  <2> QED
    BY <2>4, <2>5, <2>6, <2>7, ZenonT(60) DEF PoolInv
<1>4. CASE leases[t][slot[t]] = NoConnection
  <2>1. /\ ppc' = Moved(ppc, t, "out") /\ leases' = [leases EXCEPT ![t][slot[t]] = hand[t]]
        /\ hand' = Moved(hand, t, NoConnection) /\ slot' = Moved(slot, t, NoSlot)
    BY <1>4, ZenonT(60) DEF assign, Go, Moved
  <2>2. /\ \A u \in Threads : ppc'[u] = IF u = t THEN "out" ELSE ppc[u]
        /\ \A u \in Threads : slot'[u] = IF u = t THEN NoSlot ELSE slot[u]
        /\ \A u \in Threads : hand'[u] = IF u = t THEN NoConnection ELSE hand[u]
        /\ ppc' \in [Threads -> PoolPlaces] /\ slot' \in [Threads -> Slots \cup {NoSlot}]
        /\ Len(m_available') = Len(m_available) /\ Len(m_available) \in Nat
    BY <1>1, <1>2, <2>1, SMTT(30) DEF PoolType, Moved, PoolPlaces
  <2>3. In(ppc[t], Posting) = 0 /\ In("out", Posting) = 0
    BY <1>2, ZenonT(60) DEF In, Posting
  <2>10. QueueFits(t, "out")
    BY <2>2, <2>3, SMTT(30) DEF QueueFits
  <2>4. /\ Units' /\ Wakes'
        /\ pc' = pc /\ m_count' = m_count /\ m_waiters' = m_waiters /\ m_shutdown' = m_shutdown /\ n' = n
    BY <1>2, <2>1, <2>10, PoolOnly, ZenonT(60)
  <2>5. hand[t] \in MaybeConnection
    BY <1>1, Zenon DEF PoolType
  <2>6. LeaseBecomes(t, slot[t], hand[t])
    BY <1>1, <1>2, <2>1, <2>5, LeaseSet, ZenonT(60)
  <2>7. HeldOnce' /\ hand' \in [Threads -> MaybeConnection]
    BY <1>1, <1>2, <1>4, <2>1, <2>6, HeldAssign, ZenonT(60)
  <2>8. PoolType'
    BY <1>1, <1>2, <2>2, <2>4, <2>6, <2>7, ZenonT(60) DEF PoolType, LeaseBecomes
  <2>9. PlacesOK'
    <3>1. OthersStay(t)
      BY <1>1, <1>2, <2>2, <2>4, <2>6, ZenonT(60) DEF OthersStay, LeaseBecomes
    <3>2. PlaceOK(ppc'[t], pc'[t], slot'[t], hand'[t], leases'[t], n'[t])
      BY <1>1, <1>2, <2>2, <2>4, <2>6, ZenonT(30) DEF PlacesOK, PlaceOK, Outside
    <3> QED
      BY <1>1, <3>1, <3>2, PlacesMove, Zenon
  <2> QED
    BY <2>4, <2>7, <2>8, <2>9, ZenonT(60) DEF PoolInv
<1> QED
  BY <1>3, <1>4, Zenon

\* A lease object is moved to another.
LEMMA MoveLease ==
  ASSUME PoolInv, NEW t \in Threads, NEW from \in Slots, NEW to \in Slots, moveLease(t, from, to)
  PROVE  PoolInv'
<1>1. PoolType /\ PlacesOK /\ HeldOnce
  BY DEF PoolInv
<1>2. /\ ppc[t] = "out" /\ m_available' = m_available /\ UNCHANGED semVars
      /\ ppc' = Moved(ppc, t, "assign") /\ leases' = [leases EXCEPT ![t][from] = NoConnection]
      /\ hand' = Moved(hand, t, leases[t][from]) /\ slot' = Moved(slot, t, to)
  BY ZenonT(60) DEF moveLease, At, Go, Moved
<1>3. /\ \A u \in Threads : ppc'[u] = IF u = t THEN "assign" ELSE ppc[u]
      /\ \A u \in Threads : slot'[u] = IF u = t THEN to ELSE slot[u]
      /\ \A u \in Threads : u # t => hand'[u] = hand[u]
      /\ ppc' \in [Threads -> PoolPlaces] /\ slot' \in [Threads -> Slots \cup {NoSlot}]
      /\ Len(m_available') = Len(m_available) /\ Len(m_available) \in Nat
  BY <1>1, <1>2, SMTT(30) DEF PoolType, Moved, PoolPlaces
<1>4. In(ppc[t], Posting) = 0 /\ In("assign", Posting) = 0
  BY <1>2, ZenonT(60) DEF In, Posting
<1>11. QueueFits(t, "assign")
  BY <1>3, <1>4, SMTT(30) DEF QueueFits
<1>5. /\ Units' /\ Wakes'
      /\ pc' = pc /\ m_count' = m_count /\ m_waiters' = m_waiters /\ m_shutdown' = m_shutdown /\ n' = n
  BY <1>2, <1>11, PoolOnly, ZenonT(60)
<1>6. LeaseBecomes(t, from, NoConnection)
  <2>1. NoConnection \in MaybeConnection
    BY DEF MaybeConnection
  <2> QED
    BY <1>1, <1>2, <2>1, LeaseSet, ZenonT(60)
<1>7. hand[t] = NoConnection
  BY <1>1, <1>2, ZenonT(60) DEF PlacesOK, PlaceOK
<1>8. HeldOnce' /\ hand' \in [Threads -> MaybeConnection]
  BY <1>1, <1>2, <1>6, <1>7, HeldMove, ZenonT(60)
<1>9. PoolType'
  BY <1>1, <1>2, <1>3, <1>5, <1>6, <1>8, ZenonT(30) DEF PoolType, LeaseBecomes
<1>10. PlacesOK'
  <2>1. OthersStay(t)
    BY <1>1, <1>2, <1>3, <1>5, <1>6, ZenonT(60) DEF OthersStay, LeaseBecomes
  <2>2. PlaceOK(ppc'[t], pc'[t], slot'[t], hand'[t], leases'[t], n'[t])
    BY <1>1, <1>2, <1>3, <1>5, <1>6, ZenonT(60) DEF PlacesOK, PlaceOK, Outside
  <2> QED
    BY <1>1, <2>1, <2>2, PlacesMove, ZenonT(60)
<1> QED
  BY <1>5, <1>8, <1>9, <1>10, ZenonT(60) DEF PoolInv

\* reset() or the destructor starts to give a connection back.
LEMMA ResetLease ==
  ASSUME PoolInv, NEW t \in Threads, NEW s \in Slots, resetLease(t, s)
  PROVE  PoolInv'
<1>1. PoolType /\ PlacesOK /\ HeldOnce
  BY DEF PoolInv
<1>2. /\ ppc[t] = "out" /\ leases[t][s] # NoConnection /\ m_available' = m_available /\ UNCHANGED semVars
      /\ ppc' = Moved(ppc, t, "push") /\ leases' = leases /\ hand' = hand /\ slot' = Moved(slot, t, s)
  BY ZenonT(60) DEF resetLease, At, Go, Moved
<1>3. /\ \A u \in Threads : ppc'[u] = IF u = t THEN "push" ELSE ppc[u]
      /\ \A u \in Threads : slot'[u] = IF u = t THEN s ELSE slot[u]
      /\ ppc' \in [Threads -> PoolPlaces] /\ slot' \in [Threads -> Slots \cup {NoSlot}]
      /\ Len(m_available') = Len(m_available) /\ Len(m_available) \in Nat
  BY <1>1, <1>2, SMTT(30) DEF PoolType, Moved, PoolPlaces
<1>4. In(ppc[t], Posting) = 0 /\ In("push", Posting) = 0
  BY <1>2, ZenonT(60) DEF In, Posting
<1>5. QueueFits(t, "push")
  BY <1>3, <1>4, SMTT(30) DEF QueueFits
<1>6. /\ Units' /\ Wakes'
      /\ pc' = pc /\ m_count' = m_count /\ m_waiters' = m_waiters /\ m_shutdown' = m_shutdown /\ n' = n
  BY <1>2, <1>5, PoolOnly, ZenonT(60)
<1>7. HeldOnce'
  BY <1>1, <1>2, HeldFrame, ZenonT(60)
<1>8. PoolType'
  BY <1>1, <1>2, <1>3, <1>6, ZenonT(60) DEF PoolType, LeaseBecomes
<1>9. PlacesOK'
  <2>1. OthersStay(t)
    BY <1>1, <1>2, <1>3, <1>6, ZenonT(60) DEF OthersStay, LeaseBecomes
  <2>2. PlaceOK(ppc'[t], pc'[t], slot'[t], hand'[t], leases'[t], n'[t])
    BY <1>1, <1>2, <1>3, <1>6, ZenonT(60) DEF PlacesOK, PlaceOK, Outside
  <2> QED
    BY <1>1, <2>1, <2>2, PlacesMove, Zenon
<1> QED
  BY <1>6, <1>7, <1>8, <1>9, ZenonT(60) DEF PoolInv

\* The connection goes back into the queue, before its unit is posted.
LEMMA PushConnection ==
  ASSUME PoolInv, NEW t \in Threads, pushConnection(t)
  PROVE  PoolInv'
<1> DEFINE s == slot[t]
<1>1. PoolType /\ PlacesOK /\ HeldOnce
  BY DEF PoolInv
<1>2. /\ ppc[t] = "push" /\ leases[t][s] # NoConnection /\ s \in Slots /\ UNCHANGED semVars
      /\ m_available' = Append(m_available, leases[t][s])
      /\ leases' = [leases EXCEPT ![t][s] = NoConnection]
      /\ ppc' = Moved(ppc, t, "post") /\ hand' = hand /\ slot' = slot
  BY <1>1, ZenonT(60) DEF pushConnection, At, Go, Moved, PlacesOK, PlaceOK
<1>3. /\ \A u \in Threads : ppc'[u] = IF u = t THEN "post" ELSE ppc[u]
      /\ ppc' \in [Threads -> PoolPlaces] /\ Len(m_available) \in Nat
  BY <1>1, <1>2, SMTT(30) DEF PoolType, Moved, PoolPlaces
<1>4. LeaseBecomes(t, s, NoConnection)
  <2>1. NoConnection \in MaybeConnection
    BY DEF MaybeConnection
  <2> QED
    BY <1>1, <1>2, <2>1, LeaseSet, ZenonT(60)
<1>5. HeldOnce' /\ m_available' \in Seq(Connections) /\ Len(m_available') = Len(m_available) + 1
  BY <1>1, <1>2, <1>4, HeldPush, ZenonT(60)
<1>6. QueueFits(t, "post")
  <2>1. In(ppc[t], Posting) = 0 /\ In("post", Posting) = 1
    BY <1>2, ZenonT(60) DEF In, Posting
  <2> DEFINE L == Len(m_available)
             M == Len(m_available')
  <2>2. L \in Nat /\ M = L + 1
    BY <1>3, <1>5, ZenonT(60)
  <2> HIDE DEF L, M
  <2>3. M \in Nat /\ M = L + 1 - 0
    BY <2>2, SMTT(30)
  <2> QED
    BY <2>1, <2>3, ZenonT(60) DEF QueueFits, L, M
<1>7. /\ Units' /\ Wakes'
      /\ pc' = pc /\ m_count' = m_count /\ m_waiters' = m_waiters /\ m_shutdown' = m_shutdown /\ n' = n
  BY <1>2, <1>6, PoolOnly, ZenonT(60)
<1>8. PoolType'
  BY <1>1, <1>2, <1>3, <1>4, <1>5, <1>7, ZenonT(60) DEF PoolType, LeaseBecomes
<1>9. PlacesOK'
  <2>2. OthersStay(t)
    BY <1>2, <1>3, <1>4, <1>7, ZenonT(60) DEF OthersStay, LeaseBecomes
  <2>3. PlaceOK(ppc'[t], pc'[t], slot'[t], hand'[t], leases'[t], n'[t])
    BY <1>1, <1>2, <1>3, <1>7, ZenonT(60) DEF PlacesOK, PlaceOK, Outside
  <2> QED
    BY <1>1, <2>2, <2>3, PlacesMove, Zenon
<1> QED
  BY <1>5, <1>7, <1>8, <1>9, ZenonT(60) DEF PoolInv

\* The unit is posted.
LEMMA PostUnit ==
  ASSUME PoolInv, NEW t \in Threads, postUnit(t)
  PROVE  PoolInv'
<1>1. PoolType /\ PlacesOK /\ HeldOnce
  BY DEF PoolInv
<1>2. /\ ppc[t] = "post" /\ pc[t] = "idle"
      /\ pc' = Moved(pc, t, "wake") /\ ppc' = Moved(ppc, t, "assign")
      /\ slot' = slot /\ m_available' = m_available /\ leases' = leases /\ hand' = hand
      /\ m_count' = m_count + 1 /\ m_waiters' = m_waiters /\ m_shutdown' = m_shutdown /\ n' = Moved(n, t, 1)
  BY Zenon DEF postUnit, release, At, Go, Goto, Moved
<1>3. /\ \A u \in Threads : pc'[u] = IF u = t THEN "wake" ELSE pc[u]
      /\ \A u \in Threads : ppc'[u] = IF u = t THEN "assign" ELSE ppc[u]
      /\ \A u \in Threads : n'[u] = IF u = t THEN 1 ELSE n[u]
      /\ pc' \in [Threads -> Places] /\ ppc' \in [Threads -> PoolPlaces] /\ n' \in [Threads -> Nat]
  BY <1>1, <1>2, ZenonT(60) DEF PoolType, Moved, Places, PoolPlaces
<1>10. m_count \in Nat /\ Len(m_available) \in Nat
  BY <1>1 DEF PoolType
<1>11. m_count + 1 \in Nat
  BY <1>10, SMTT(30)
<1>4. PoolType'
  BY <1>1, <1>2, <1>3, <1>11, ZenonT(60) DEF PoolType
<1>5. PlacesOK'
  <2>1. OthersStay(t)
    BY <1>1, <1>2, <1>3, ZenonT(60) DEF OthersStay
  <2>2. PlaceOK(ppc'[t], pc'[t], slot'[t], hand'[t], leases'[t], n'[t])
    BY <1>1, <1>2, <1>3, ZenonT(60) DEF PlacesOK, PlaceOK, Outside
  <2> QED
    BY <1>1, <2>1, <2>2, PlacesMove, Zenon
<1>6. HeldOnce'
  BY <1>1, <1>2, HeldFrame, ZenonT(60)
<1>7. PoolFits(t, "wake", "assign")
  <2>1. /\ In("wake", Took) = 0 /\ In("wake", Waiting) = 0 /\ In("wake", Helping) = 1
        /\ In(pc[t], Took) = 0 /\ In(pc[t], Waiting) = 0 /\ In(pc[t], Helping) = 0
        /\ In("assign", Posting) = 0 /\ In(ppc[t], Posting) = 1
    BY <1>2, ZenonT(60) DEF In, Took, Waiting, Helping, Posting
  <2> DEFINE L == Len(m_available)
  <2>2. L \in Nat
    BY <1>10, ZenonT(60)
  <2> HIDE DEF L
  <2>3. L - (m_count + 1) - 0 - 0 = L - m_count - 0 - 1 /\ (m_count + 1) - 1 <= m_count - 0
    BY <1>10, <2>2, SMTT(30)
  <2> QED
    BY <1>2, <1>11, <2>1, <2>2, <2>3, ZenonT(60) DEF PoolFits, L
<1>8. Units' /\ Wakes'
  BY <1>7, PoolMove, ZenonT(60)
<1> QED
  BY <1>4, <1>5, <1>6, <1>8, Zenon DEF PoolInv

-----------------------------------------------------------------------------
\* The constructor queues every connection once and gives each a unit.
LEMMA PoolInit == Init => PoolInv
<1> SUFFICES ASSUME Init PROVE PoolInv
  OBVIOUS
<1> DEFINE N == Cardinality(Connections)
<1>1. N \in Nat
  BY PoolAssumption, FS_CardinalityType, ZenonT(60)
<1>3. m_available \in [1 .. N -> Connections] /\ IsInjective(m_available)
  BY Zenon DEF Init, Bijection, Injection
<1>6. \A c \in Connections : c \in Range(m_available)
  <2>1. \A c \in Connections : \E k \in 1 .. N : m_available[k] = c
    BY Zenon DEF Init, Bijection, Surjection
  <2> QED
    BY <1>3, <2>1, ZenonT(30) DEF Range
<1>7. m_available \in Seq(Connections) /\ Len(m_available) = N
  BY <1>1, <1>3, SMTT(30)
<1>8. NoConnection \notin Range(m_available)
  BY <1>3, PoolAssumption, ZenonT(60) DEF Range
<1>9. PoolType
  BY <1>1, <1>7, PoolAssumption, SMTT(30) DEF Init, SemInit, PoolType, MaybeConnection, PoolPlaces, Places
<1>10. PlacesOK
  BY Zenon DEF Init, SemInit, PlacesOK, PlaceOK, Outside
<1>11. HeldOnce
  BY <1>3, <1>6, <1>8, ZenonT(60) DEF Init, HeldOnce, LeasesApart, HandsApart, HandNotLeased, LeaseNotQueued,
     HandNotQueued, NoneLost
<1>12. Count(pc, Took) = 0 /\ Count(pc, Waiting) = 0 /\ Count(ppc, Posting) = 0
  <2>1. \A u \in Threads : pc[u] \notin Took /\ pc[u] \notin Waiting /\ ppc[u] \notin Posting
    BY Zenon DEF Init, SemInit, Took, Waiting, Posting
  <2> QED
    BY <2>1, CountNat, ZenonT(60)
<1>13. m_count = N /\ m_waiters = 0
  BY PoolAssumption, ZenonT(60) DEF Init, SemInit
<1>14. Units
  <2>1. N = N + 0 + 0
    BY <1>1, SMTT(30)
  <2> QED
    BY <1>7, <1>12, <1>13, <2>1, ZenonT(60) DEF Units
<1>15. Wakes
  BY <1>12, <1>13, Zenon DEF Wakes, Init, SemInit
<1> QED
  BY <1>9, <1>10, <1>11, <1>14, <1>15, ZenonT(30) DEF PoolInv

\* Every step of the readers keeps the invariant.
LEMMA PoolNext == PoolInv /\ [Next]_vars => PoolInv'
<1> SUFFICES ASSUME PoolInv, [Next]_vars PROVE PoolInv'
  OBVIOUS
<1>1. CASE UNCHANGED vars
  <2>1. /\ pc' = pc /\ m_count' = m_count /\ m_waiters' = m_waiters /\ m_shutdown' = m_shutdown /\ n' = n
        /\ m_available' = m_available /\ leases' = leases /\ hand' = hand /\ slot' = slot /\ ppc' = ppc
    BY <1>1, ZenonT(60) DEF vars, semVars, poolVars
  <2>2. PoolType' /\ PlacesOK'
    BY <2>1, ZenonT(60) DEF PoolInv, PoolType, PlacesOK, PlaceOK
  <2>3. HeldOnce'
    BY <2>1, HeldFrame, ZenonT(60) DEF PoolInv
  <2>4. Units' /\ Wakes'
    BY <2>1, ZenonT(60) DEF PoolInv, Units, Wakes
  <2> QED
    BY <2>2, <2>3, <2>4, ZenonT(60) DEF PoolInv
<1>2. ASSUME NEW t \in Threads, semStep(t), UNCHANGED poolVars PROVE PoolInv'
  <2>1. \/ tryAcquire(t) \/ checkDeadline(t) \/ enlist(t) \/ recheck(t)
        \/ futexWait(t) \/ interrupted(t) \/ timesOut(t) \/ delist(t)
        \/ deadlinePasses(t) \/ wake(t) \/ futexWake(t)
    BY <1>2, ZenonT(60) DEF semStep
  <2> QED
    BY <1>2, <2>1, AcquireSteps, WakeSteps, ZenonT(60)
<1>3. ASSUME NEW t \in Threads,
             popConnection(t) \/ emptyLease(t) \/ assign(t) \/ pushConnection(t) \/ postUnit(t)
      PROVE  PoolInv'
  BY <1>3, PopConnection, EmptyLease, AssignLease, PushConnection, PostUnit, ZenonT(60)
<1>4. ASSUME NEW t \in Threads, NEW s \in Slots, acquireLease(t, s) \/ resetLease(t, s) PROVE PoolInv'
  BY <1>4, AcquireLease, ResetLease, ZenonT(60)
<1>5. ASSUME NEW t \in Threads, NEW from \in Slots, NEW to \in Slots, moveLease(t, from, to) PROVE PoolInv'
  BY <1>5, MoveLease, ZenonT(60)
<1>6. CASE Next
  BY <1>2, <1>3, <1>4, <1>5, <1>6, ZenonT(30) DEF Next, poolStep
<1> QED
  BY <1>1, <1>6, Zenon

\* Whoever holds a connection is the only one.
LEMMA OneHolder ==
  ASSUME PoolInv, NEW c \in Connections
  PROVE  Cardinality(Holders(c)) = 1
<1>1. PoolType /\ HeldOnce /\ c # NoConnection
  BY PoolAssumption, ZenonT(60) DEF PoolInv
<1>2. m_available \in Seq(Connections) /\ DOMAIN m_available = 1 .. Len(m_available)
  BY <1>1, SMTT(30) DEF PoolType
<1> DEFINE Q == {<<"queue", i>> : i \in {j \in 1 .. Len(m_available) : m_available[j] = c}}
           R == {h \in {"lease"} \X Threads \X Slots : leases[h[2]][h[3]] = c}
           T == {h \in {"hand"} \X Threads : hand[h[2]] = c}
<1>3. Holders(c) = Q \cup R \cup T
  BY Zenon DEF Holders
<1>4. c \notin Range(m_available) => Q = {}
  BY <1>2, Zenon DEF Range
<1>5. (\A t \in Threads, s \in Slots : leases[t][s] # c) => R = {}
  BY Zenon
<1>6. (\A t \in Threads : hand[t] # c) => T = {}
  OBVIOUS
<1>7. ASSUME c \in Range(m_available) PROVE \E h : Q = {h} /\ R = {} /\ T = {}
  <2>1. PICK i \in 1 .. Len(m_available) : m_available[i] = c
    BY <1>2, <1>7, ZenonT(60) DEF Range
  <2>2. \A j \in 1 .. Len(m_available) : m_available[j] = c => j = i
    BY <1>1, <1>2, <2>1, ZenonT(60) DEF HeldOnce, IsInjective
  <2>3. Q = {<<"queue", i>>}
    BY <2>1, <2>2, ZenonT(30)
  <2>4. (\A t \in Threads, s \in Slots : leases[t][s] # c) /\ (\A t \in Threads : hand[t] # c)
    BY <1>1, <1>7, Zenon DEF HeldOnce, LeaseNotQueued, HandNotQueued
  <2> QED
    BY <1>5, <1>6, <2>3, <2>4, ZenonT(30)
<1>8. ASSUME NEW t \in Threads, NEW s \in Slots, leases[t][s] = c PROVE \E h : R = {h} /\ Q = {} /\ T = {}
  <2>1. \A u \in Threads, r \in Slots : leases[u][r] = c => u = t /\ r = s
    BY <1>1, <1>8, SMTT(30) DEF HeldOnce, LeasesApart
  <2>2. R = {<<"lease", t, s>>}
    BY <1>8, <2>1, SMTT(30)
  <2>3. c \notin Range(m_available) /\ \A u \in Threads : hand[u] # c
    BY <1>1, <1>8, ZenonT(60) DEF HeldOnce, LeaseNotQueued, HandNotLeased
  <2> QED
    BY <1>4, <1>6, <2>2, <2>3, ZenonT(30)
<1>9. ASSUME NEW t \in Threads, hand[t] = c PROVE \E h : T = {h} /\ Q = {} /\ R = {}
  <2>1. \A u \in Threads : hand[u] = c => u = t
    BY <1>1, <1>9, ZenonT(60) DEF HeldOnce, HandsApart
  <2>2. T = {<<"hand", t>>}
    BY <1>9, <2>1, SMTT(30)
  <2>3. c \notin Range(m_available) /\ \A u \in Threads, s \in Slots : leases[u][s] # c
    BY <1>1, <1>9, ZenonT(60) DEF HeldOnce, HandNotQueued, HandNotLeased
  <2> QED
    BY <1>4, <1>5, <2>2, <2>3, ZenonT(30)
<1> HIDE DEF Q, R, T
<1>10. \E h : Q \cup R \cup T = {h}
  <2>1. \/ c \in Range(m_available)
        \/ \E t \in Threads, s \in Slots : leases[t][s] = c
        \/ \E t \in Threads : hand[t] = c
    BY <1>1, Zenon DEF HeldOnce, NoneLost
  <2> QED
    BY <1>7, <1>8, <1>9, <2>1, ZenonT(30)
<1> QED
  BY <1>3, <1>10, FS_Singleton, ZenonT(30)

\* A connection is queued once or owned by one lease, never both and never
\* neither (ConnectionLease, ConnectionPool::release).
THEOREM LeasesExclusive == Spec => []LeasedOnce
<1>1. PoolInv => LeasedOnce
  BY OneHolder, ZenonT(60) DEF LeasedOnce
<1> QED
  BY PoolInit, PoolNext, <1>1, PTL, Zenon DEF Spec

\* A reader whose acquire returned finds a connection in the queue: the front()
\* and pop() of ConnectionPool::acquire are never on an empty queue.
THEOREM PopsSucceed == Spec => []PopFindsConnection
<1>1. PoolInv => PopFindsConnection
  <2> SUFFICES ASSUME PoolInv PROVE PopFindsConnection
    OBVIOUS
  <2>1. PoolType /\ PlacesOK /\ Units
    BY DEF PoolInv
  <2>2. {t \in Threads : At(t, "acquire") /\ pc[t] = "returned"} = {t \in Threads : pc[t] \in Took}
    BY <2>1, Zenon DEF PlacesOK, PlaceOK, Outside, Took, At
  <2>3. Count(pc, Took) \in Nat /\ Count(ppc, Posting) \in Nat
    BY CountNat, Zenon
  <2>4. m_count \in Nat
    BY <2>1, ZenonT(60) DEF PoolType
  <2>5. Count(pc, Took) <= m_count + Count(pc, Took) + Count(ppc, Posting)
    BY <2>3, <2>4, SMTT(30)
  <2> QED
    BY <2>1, <2>2, <2>5, ZenonT(30) DEF PopFindsConnection, Count, Units
<1> QED
  BY PoolInit, PoolNext, <1>1, PTL, Zenon DEF Spec

\* No reader sleeps in acquire while a connection is queued and nobody is left
\* to wake it (ConnectionPool::release, BoundedSemaphore::release).
THEOREM PoolNeverStuck == Spec => []NotStuck
<1>1. PoolInv => NotStuck
  <2> SUFFICES ASSUME PoolInv, Asleep # {}, \A t \in Threads : pc[t] = "asleep" \/ At(t, "out")
               PROVE  m_available = <<>>
    BY DEF NotStuck
  <2>1. PoolType /\ PlacesOK /\ Units /\ Wakes
    BY DEF PoolInv
  <2>2. \A t \in Threads : pc[t] \in {"asleep", "idle"} /\ ppc[t] \in {"out", "acquire"}
    BY <2>1, Zenon DEF PlacesOK, PlaceOK, At, Outside
  <2>3. \A t \in Threads : pc[t] \notin Took /\ pc[t] \notin Helping /\ ppc[t] \notin Posting
    BY <2>2, ZenonT(60) DEF Took, Helping, Posting
  <2>4. Count(pc, Took) = 0 /\ Count(pc, Helping) = 0 /\ Count(ppc, Posting) = 0
    BY <2>3, CountNat, ZenonT(60)
  <2>5. m_count \in Nat /\ m_count <= 0
    BY <2>1, <2>4, ZenonT(60) DEF PoolType, Wakes, Asleep
  <2>6. Len(m_available) = 0
    BY <2>1, <2>4, <2>5, SMTT(30) DEF Units
  <2> QED
    BY <2>1, <2>6, SMTT(30) DEF PoolType
<1> QED
  BY PoolInit, PoolNext, <1>1, PTL, Zenon DEF Spec

-----------------------------------------------------------------------------
(* The stores: the transaction of a writer *)

\* The fills that may be inserted.
Fills == UNION {Range(fills) : fills \in Batches}

\* What a store with lock l, place p, table x inside its transaction and fills
\* d to insert has done, when the last committed table is `last': nothing, or
\* it is on the way from that table, or an empty one, to a whole batch more.
Writing(s, last, l, p, x, d) ==
  /\ p \in {"idle", "delete", "prepare", "insert"} /\ x \in Seq(Fills) /\ d \in Seq(Fills)
  /\ p = "idle" => l # s /\ x = <<>>
  /\ p # "idle" => l = s
  /\ p \in {"delete", "prepare"} => d \in Batches /\ x \in {last, <<>>}
  /\ p = "insert" => \E fills \in Batches, base \in {last, <<>>} : x \o d = base \o fills

LastTable == tables[Len(tables)]

\* The maps of the stores.
StoreMap(f) == f = [k \in Stores |-> f[k]]

StoreMaps ==
  /\ StoreMap(spc) /\ StoreMap(txn) /\ StoreMap(todo) /\ StoreMap(m_lru)
  /\ StoreMap(active) /\ StoreMap(snapshot) /\ StoreMap(lastRead)

\* g differs from f in the value v that it has for store s.
StoreChanged(f, g, s, v) ==
  /\ StoreMap(g) /\ g[s] = v
  /\ \A k \in Stores : k # s => g[k] = f[k]

Committed == tables \in Seq(Seq(Fills)) /\ Len(tables) > 0 /\ Store!BatchesWhole

Writers ==
  /\ Committed
  /\ \A s \in Stores : Writing(s, LastTable, lock, spc[s], txn[s], todo[s])

\* An assignment to one store's element leaves those of the others.
LEMMA StoreExcept ==
  ASSUME NEW f, StoreMap(f), NEW s \in Stores, NEW v, NEW g, g = [f EXCEPT ![s] = v]
  PROVE  StoreChanged(f, g, s, v)
<1>1. DOMAIN f = Stores
  BY SMTT(30) DEF StoreMap
<1> QED
  BY <1>1, SMTT(30) DEF StoreChanged, StoreMap

\* A store outside a transaction does not see the lock, or the last table,
\* change hands (Transaction).
LEMMA OtherIdle ==
  ASSUME NEW s, NEW last, NEW l, NEW p, NEW x, NEW d, Writing(s, last, l, p, x, d), l # s,
         NEW last1, NEW l1, l1 # s
  PROVE  Writing(s, last1, l1, p, x, d)
<1>1. p = "idle"
  BY Zenon DEF Writing
<1> QED
  BY <1>1, SMT DEF Writing

\* One turn of the insert loop moves a fill from the batch to the table, so
\* that together they stay what they were (insertBatch).
LEMMA RowMoves ==
  ASSUME NEW x \in Seq(Fills), NEW d \in Seq(Fills), d # <<>>
  PROVE  /\ Append(x, Head(d)) \in Seq(Fills) /\ Tail(d) \in Seq(Fills)
         /\ Append(x, Head(d)) \o Tail(d) = x \o d
<1>1. /\ Append(x, Head(d)) \in Seq(Fills) /\ Tail(d) \in Seq(Fills) /\ Head(d) \in Fills
      /\ Len(Tail(d)) = Len(d) - 1 /\ Len(d) > 0 /\ Len(d) \in Nat /\ Len(x) \in Nat
      /\ Len(Append(x, Head(d))) = Len(x) + 1 /\ Head(d) = d[1]
  BY SMTT(30)
<1> DEFINE a == Append(x, Head(d)) \o Tail(d)
           b == x \o d
<1>2. a \in Seq(Fills) /\ b \in Seq(Fills)
  BY <1>1, ConcatProperties, ZenonT(60)
<1>3. Len(a) = Len(x) + Len(d) /\ Len(b) = Len(x) + Len(d)
  BY <1>1, SMTT(30)
<1>4. ASSUME NEW k \in 1 .. Len(a) PROVE a[k] = b[k]
  <2>1. k \in 1 .. Len(x) + Len(d)
    BY <1>3, <1>4, ZenonT(60)
  <2>2. CASE k <= Len(x)
    BY <1>1, <2>1, <2>2, SMTT(30)
  <2>3. CASE k = Len(x) + 1
    BY <1>1, <2>1, <2>3, SMTT(30)
  <2>4. CASE k > Len(x) + 1
    BY <1>1, <2>1, <2>4, SMTT(30)
  <2> QED
    BY <1>1, <2>1, <2>2, <2>3, <2>4, SMTT(30)
<1>5. a = b
  <2> HIDE DEF a, b
  <2>1. Len(a) = Len(b)
    BY <1>3, ZenonT(60)
  <2> QED
    BY <1>2, <1>4, <2>1, SeqEqual, ZenonT(60)
<1> QED
  BY <1>1, <1>5, ZenonT(60)

\* A whole batch after the last table, or alone, makes every version whole
\* (Transaction::commit).
LEMMA CommitWhole ==
  ASSUME Committed, NEW x \in Seq(Fills), tables' = Append(tables, x),
         NEW fills \in Batches, NEW base \in {LastTable, <<>>}, x = base \o fills
  PROVE  Committed' /\ LastTable' = x
<1>1. /\ tables \in Seq(Seq(Fills)) /\ Len(tables) \in Nat /\ Len(tables) > 0
      /\ tables' \in Seq(Seq(Fills)) /\ Len(tables') = Len(tables) + 1
      /\ \A v \in 1 .. Len(tables) : tables'[v] = tables[v]
      /\ tables'[Len(tables')] = x
  BY SMTT(30) DEF Committed
<1>2. fills \in Seq(Fills)
  BY StoresAssumption, ZenonT(60) DEF Fills
<1>3. <<>> \o fills = fills
  BY <1>2, ConcatEmptySeq, ZenonT(60)
<1>4. x \in {LastTable \o fills, fills}
  BY <1>3, ZenonT(60)
<1>5. ASSUME NEW v \in 1 .. Len(tables') - 1
      PROVE  \E b \in Batches : tables'[v + 1] \in {tables'[v] \o b, b}
  <2>1. CASE v = Len(tables)
    <3>1. tables'[v + 1] = x /\ tables'[v] = LastTable
      BY <1>1, <2>1, SMTT(30) DEF LastTable
    <3> QED
      BY <1>4, <3>1, ZenonT(60)
  <2>2. CASE v # Len(tables)
    <3>1. v \in 1 .. Len(tables) - 1 /\ v \in 1 .. Len(tables) /\ v + 1 \in 1 .. Len(tables)
      BY <1>1, <2>2, SMTT(30)
    <3>2. PICK b \in Batches : tables[v + 1] \in {tables[v] \o b, b}
      BY <3>1, ZenonT(60) DEF Committed, Store!BatchesWhole
    <3> QED
      BY <1>1, <3>1, <3>2, ZenonT(60)
  <2> QED
    BY <2>1, <2>2, ZenonT(60)
<1>6. Store!BatchesWhole'
  BY <1>5, ZenonT(60) DEF Store!BatchesWhole
<1>7. Len(tables') > 0
  BY <1>1, SMTT(30)
<1> QED
  BY <1>1, <1>6, <1>7, ZenonT(60) DEF Committed, LastTable

-----------------------------------------------------------------------------
(* The stores: the steps of a writer *)

\* The elements of the other stores stay.
Elsewhere(s) ==
  \A k \in Stores : k # s =>
    /\ spc'[k] = spc[k] /\ txn'[k] = txn[k] /\ todo'[k] = todo[k] /\ m_lru'[k] = m_lru[k]
    /\ active'[k] = active[k] /\ snapshot'[k] = snapshot[k] /\ lastRead'[k] = lastRead[k]

\* When store s moves, holding or taking the lock, the others are outside.
LEMMA WriterMoves ==
  ASSUME Writers, NEW s \in Stores, Elsewhere(s), Committed',
         lock \in {s, NoStore} /\ lock' \in {s, NoStore},
         Writing(s, LastTable', lock', spc'[s], txn'[s], todo'[s])
  PROVE  Writers'
<1>1. ASSUME NEW k \in Stores, k # s
      PROVE  Writing(k, LastTable', lock', spc'[k], txn'[k], todo'[k])
  <2>1. Writing(k, LastTable, lock, spc[k], txn[k], todo[k])
    BY ZenonT(60) DEF Writers
  <2>2. lock # k /\ lock' # k
    BY <1>1, StoresAssumption, SMTT(30)
  <2>3. Writing(k, LastTable', lock', spc[k], txn[k], todo[k])
    BY <2>1, <2>2, OtherIdle, ZenonT(60)
  <2> QED
    BY <1>1, <2>3, ZenonT(60) DEF Elsewhere
<1> QED
  BY <1>1, ZenonT(60) DEF Writers

\* The maps stay maps, and the other stores keep their elements.
StoreKeeps(s) == StoreMaps' /\ Elsewhere(s)

\* g is f but for the element of store s, if at all.
SameBut(s, f, g) == g = f \/ \E v : g = [f EXCEPT ![s] = v]
KeptBut(s, f, g) == StoreMap(g) /\ \A k \in Stores : k # s => g[k] = f[k]

\* An assignment to the element of a store keeps the others.
LEMMA SameKept ==
  ASSUME NEW s \in Stores, NEW f, NEW g, StoreMap(f), SameBut(s, f, g)
  PROVE  KeptBut(s, f, g)
<1>1. CASE g = f
  BY <1>1, Zenon DEF KeptBut
<1>2. ASSUME NEW v, g = [f EXCEPT ![s] = v]
      PROVE  KeptBut(s, f, g)
  <2>1. StoreChanged(f, g, s, v)
    BY <1>2, StoreExcept, ZenonT(60)
  <2> QED
    BY <2>1, Zenon DEF StoreChanged, KeptBut
<1> QED
  BY <1>1, <1>2, ZenonT(60) DEF SameBut

\* Every step of a store writes its own elements only (TradeStore).
LEMMA StepKeeps ==
  ASSUME StoreMaps, NEW s \in Stores, Store!storeStep(s)
  PROVE  StoreKeeps(s)
<1> DEFINE Own == /\ SameBut(s, spc, spc') /\ SameBut(s, txn, txn')
                  /\ SameBut(s, todo, todo') /\ SameBut(s, m_lru, m_lru')
                  /\ SameBut(s, active, active') /\ SameBut(s, snapshot, snapshot')
                  /\ SameBut(s, lastRead, lastRead')
<1>1. Own
  <2>1. ASSUME NEW sql, Store!query(s, sql) PROVE Own
    BY <2>1, ZenonT(60) DEF SameBut, Store!query, Store!get, Store!writeVars
  <2>2. ASSUME NEW fills, NEW place, Store!begin(s, fills, place) PROVE Own
    BY <2>2, ZenonT(60) DEF SameBut, Store!begin, Store!readVars
  <2>3. CASE Store!deleteAll(s)
    BY <2>3, ZenonT(60) DEF SameBut, Store!deleteAll, Store!readVars
  <2>4. CASE Store!prepareInsert(s)
    BY <2>4, ZenonT(60) DEF SameBut, Store!prepareInsert, Store!get
  <2>5. CASE Store!insertRow(s)
    BY <2>5, Zenon DEF SameBut, Store!insertRow, Store!readVars
  <2>6. CASE Store!commit(s)
    BY <2>6, ZenonT(60) DEF SameBut, Store!commit
  <2>7. CASE Store!rollback(s)
    BY <2>7, ZenonT(60) DEF SameBut, Store!rollback, Store!readVars
  <2>8. CASE Store!reopen(s)
    BY <2>8, ZenonT(60) DEF SameBut, Store!reopen
  <2> HIDE DEF Own
  <2> QED
    BY <2>1, <2>2, <2>3, <2>4, <2>5, <2>6, <2>7, <2>8, ZenonT(60) DEF Store!storeStep
<1>2. KeptBut(s, spc, spc') /\ KeptBut(s, txn, txn') /\ KeptBut(s, todo, todo')
  BY <1>1, SameKept, ZenonT(60) DEF StoreMaps
<1>3. /\ KeptBut(s, m_lru, m_lru') /\ KeptBut(s, active, active')
      /\ KeptBut(s, snapshot, snapshot') /\ KeptBut(s, lastRead, lastRead')
  BY <1>1, SameKept, ZenonT(60) DEF StoreMaps
<1>4. StoreMaps'
  BY <1>2, <1>3, ZenonT(60) DEF StoreMaps, KeptBut, StoreMap
<1> QED
  BY <1>2, <1>3, <1>4, ZenonT(60) DEF StoreKeeps, Elsewhere, KeptBut

Assigned(f, g, s, v) == g = [f EXCEPT ![s] = v]

\* The element that a step gives to its store.
LEMMA StoreValue ==
  ASSUME NEW f, StoreMap(f), NEW s \in Stores, NEW v, NEW g, Assigned(f, g, s, v)
  PROVE  g[s] = v
<1>1. StoreChanged(f, g, s, v)
  BY StoreExcept, ZenonT(60) DEF Assigned
<1> QED
  BY <1>1, Zenon DEF StoreChanged

\* So an assignment to an element of a map of the stores gives it its value.
LEMMA StoreSets ==
  ASSUME StoreMaps, NEW s \in Stores, NEW v
  PROVE  /\ Assigned(spc, spc', s, v) => spc'[s] = v
         /\ Assigned(txn, txn', s, v) => txn'[s] = v
         /\ Assigned(todo, todo', s, v) => todo'[s] = v
         /\ Assigned(m_lru, m_lru', s, v) => m_lru'[s] = v
         /\ Assigned(active, active', s, v) => active'[s] = v
         /\ Assigned(snapshot, snapshot', s, v) => snapshot'[s] = v
         /\ Assigned(lastRead, lastRead', s, v) => lastRead'[s] = v
<1>1. ASSUME Assigned(spc, spc', s, v) PROVE spc'[s] = v
  <2>1. StoreMap(spc)
    BY ZenonT(60) DEF StoreMaps
  <2> QED
    BY <1>1, <2>1, StoreValue, ZenonT(60)
<1>2. ASSUME Assigned(txn, txn', s, v) PROVE txn'[s] = v
  <2>1. StoreMap(txn)
    BY ZenonT(60) DEF StoreMaps
  <2> QED
    BY <1>2, <2>1, StoreValue, ZenonT(60)
<1>3. ASSUME Assigned(todo, todo', s, v) PROVE todo'[s] = v
  <2>1. StoreMap(todo)
    BY ZenonT(60) DEF StoreMaps
  <2> QED
    BY <1>3, <2>1, StoreValue, ZenonT(60)
<1>4. ASSUME Assigned(m_lru, m_lru', s, v) PROVE m_lru'[s] = v
  <2>1. StoreMap(m_lru)
    BY ZenonT(60) DEF StoreMaps
  <2> QED
    BY <1>4, <2>1, StoreValue, ZenonT(60)
<1>5. ASSUME Assigned(active, active', s, v) PROVE active'[s] = v
  <2>1. StoreMap(active)
    BY ZenonT(60) DEF StoreMaps
  <2> QED
    BY <1>5, <2>1, StoreValue, ZenonT(60)
<1>6. ASSUME Assigned(snapshot, snapshot', s, v) PROVE snapshot'[s] = v
  <2>1. StoreMap(snapshot)
    BY ZenonT(60) DEF StoreMaps
  <2> QED
    BY <1>6, <2>1, StoreValue, ZenonT(60)
<1>7. ASSUME Assigned(lastRead, lastRead', s, v) PROVE lastRead'[s] = v
  <2>1. StoreMap(lastRead)
    BY Zenon DEF StoreMaps
  <2> QED
    BY <1>7, <2>1, StoreValue, ZenonT(60)
<1> QED
  BY <1>1, <1>2, <1>3, <1>4, <1>5, <1>6, <1>7, ZenonT(60)

\* Outside of a commit the committed versions stay.
LEMMA CommittedStays ==
  ASSUME Committed, tables' = tables
  PROVE  Committed' /\ LastTable' = LastTable /\ LastTable \in Seq(Fills)
<1>1. Committed' /\ LastTable' = LastTable
  BY ZenonT(60) DEF Committed, LastTable, Store!BatchesWhole
<1>2. LastTable \in Seq(Fills)
  BY SMTT(30) DEF Committed, LastTable
<1> QED
  BY <1>1, <1>2, ZenonT(60)

\* The lock of a store in a transaction.
LEMMA WriterLocks ==
  ASSUME Writers, NEW s \in Stores, spc[s] # "idle"
  PROVE  lock = s
BY Zenon DEF Writers, Writing

\* BEGIN IMMEDIATE (Transaction::Transaction).
LEMMA BeginWrites ==
  ASSUME Writers, StoreMaps, NEW s \in Stores, Elsewhere(s), NEW fills \in Batches,
         NEW place \in {"prepare", "delete"}, Store!begin(s, fills, place)
  PROVE  Writers'
<1>1. /\ lock = NoStore /\ lock' = s /\ tables' = tables
      /\ Assigned(txn, txn', s, LastTable) /\ Assigned(todo, todo', s, fills)
      /\ Assigned(spc, spc', s, place)
  BY Zenon DEF Store!begin, LastTable, Assigned
<1>2. txn'[s] = LastTable /\ todo'[s] = fills /\ spc'[s] = place
  BY <1>1, StoreSets, ZenonT(60)
<1>3. Committed' /\ LastTable' = LastTable /\ LastTable \in Seq(Fills)
  BY <1>1, CommittedStays, ZenonT(60) DEF Writers
<1>4. fills \in Seq(Fills)
  BY StoresAssumption, Zenon DEF Fills
<1>5. Writing(s, LastTable, s, place, LastTable, fills)
  BY <1>3, <1>4, ZenonT(60) DEF Writing
<1>6. lock \in {s, NoStore} /\ lock' \in {s, NoStore}
  BY <1>1, ZenonT(60)
<1> QED
  BY <1>1, <1>2, <1>3, <1>5, <1>6, WriterMoves, ZenonT(60)

\* DELETE FROM trades (replaceAll).
LEMMA DeleteWrites ==
  ASSUME Writers, StoreMaps, NEW s \in Stores, Elsewhere(s), Store!deleteAll(s)
  PROVE  Writers'
<1>1. /\ spc[s] = "delete" /\ lock' = lock /\ tables' = tables /\ todo' = todo
      /\ Assigned(txn, txn', s, <<>>) /\ Assigned(spc, spc', s, "prepare")
  BY Zenon DEF Store!deleteAll, Assigned
<1>2. txn'[s] = <<>> /\ spc'[s] = "prepare"
  BY <1>1, StoreSets, ZenonT(60)
<1>3. Committed' /\ LastTable' = LastTable
  BY <1>1, CommittedStays, ZenonT(60) DEF Writers
<1>4. lock = s
  BY <1>1, WriterLocks, ZenonT(60)
<1>5. Writing(s, LastTable, lock, "delete", txn[s], todo[s])
  BY <1>1, ZenonT(60) DEF Writers
<1>6. <<>> \in Seq(Fills)
  BY SMTT(30)
<1>7. Writing(s, LastTable, s, "prepare", <<>>, todo[s])
  BY <1>5, <1>6, ZenonT(60) DEF Writing
<1>8. lock \in {s, NoStore} /\ lock' \in {s, NoStore}
  BY <1>1, <1>4, ZenonT(60)
<1> QED
  BY <1>1, <1>2, <1>3, <1>4, <1>7, <1>8, WriterMoves, ZenonT(60)

\* The insert statement is taken from the cache (insertBatch).
LEMMA PrepareWrites ==
  ASSUME Writers, StoreMaps, NEW s \in Stores, Elsewhere(s), Store!prepareInsert(s)
  PROVE  Writers'
<1>1. /\ spc[s] = "prepare" /\ lock' = lock /\ tables' = tables /\ todo' = todo
      /\ txn' = txn /\ Assigned(spc, spc', s, "insert")
  BY Zenon DEF Store!prepareInsert, Assigned
<1>2. spc'[s] = "insert"
  BY <1>1, StoreSets, ZenonT(60)
<1>3. Committed' /\ LastTable' = LastTable
  BY <1>1, CommittedStays, ZenonT(60) DEF Writers
<1>4. lock = s
  BY <1>1, WriterLocks, ZenonT(60)
<1>5. Writing(s, LastTable, lock, "prepare", txn[s], todo[s])
  BY <1>1, ZenonT(60) DEF Writers
<1>6. Writing(s, LastTable, s, "insert", txn[s], todo[s])
  BY <1>4, <1>5, ZenonT(60) DEF Writing
<1>7. lock \in {s, NoStore} /\ lock' \in {s, NoStore}
  BY <1>1, <1>4, ZenonT(60)
<1> QED
  BY <1>1, <1>2, <1>3, <1>4, <1>6, <1>7, WriterMoves, ZenonT(60)

\* One turn of the insert loop (insertBatch).
LEMMA InsertWrites ==
  ASSUME Writers, StoreMaps, NEW s \in Stores, Elsewhere(s), Store!insertRow(s)
  PROVE  Writers'
<1>1. /\ spc[s] = "insert" /\ todo[s] # <<>> /\ lock' = lock /\ tables' = tables /\ spc' = spc
      /\ Assigned(txn, txn', s, Append(txn[s], Head(todo[s])))
      /\ Assigned(todo, todo', s, Tail(todo[s]))
  BY Zenon DEF Store!insertRow, Assigned
<1>2. txn'[s] = Append(txn[s], Head(todo[s])) /\ todo'[s] = Tail(todo[s])
  BY <1>1, StoreSets, ZenonT(60)
<1>3. Committed' /\ LastTable' = LastTable
  BY <1>1, CommittedStays, ZenonT(60) DEF Writers
<1>4. lock = s
  BY <1>1, WriterLocks, ZenonT(60)
<1>5. Writing(s, LastTable, lock, "insert", txn[s], todo[s])
  BY <1>1, Zenon DEF Writers
<1>6. txn[s] \in Seq(Fills) /\ todo[s] \in Seq(Fills)
  BY <1>5, ZenonT(60) DEF Writing
<1>7. /\ txn'[s] \in Seq(Fills) /\ todo'[s] \in Seq(Fills)
      /\ txn'[s] \o todo'[s] = txn[s] \o todo[s]
  BY <1>1, <1>2, <1>6, RowMoves, ZenonT(60)
<1>8. Writing(s, LastTable, s, "insert", txn'[s], todo'[s])
  BY <1>4, <1>5, <1>7, Zenon DEF Writing
<1>9. lock \in {s, NoStore} /\ lock' \in {s, NoStore}
  BY <1>1, <1>4, Zenon
<1> QED
  BY <1>1, <1>3, <1>4, <1>8, <1>9, WriterMoves, ZenonT(60)

\* A store outside a transaction.
LEMMA IdleWriting ==
  ASSUME NEW s \in Stores, NEW last, NEW d \in Seq(Fills)
  PROVE  Writing(s, last, NoStore, "idle", <<>>, d)
<1>1. NoStore # s
  BY StoresAssumption, SMTT(30)
<1>2. <<>> \in Seq(Fills)
  BY SMT
<1> QED
  BY <1>1, <1>2, ZenonT(60) DEF Writing

\* COMMIT (Transaction::commit).
LEMMA CommitWrites ==
  ASSUME Writers, StoreMaps, NEW s \in Stores, Elsewhere(s), Store!commit(s)
  PROVE  Writers'
<1>1. /\ spc[s] = "insert" /\ todo[s] = <<>> /\ lock' = NoStore /\ todo' = todo
      /\ tables' = Append(tables, txn[s])
      /\ Assigned(txn, txn', s, <<>>) /\ Assigned(spc, spc', s, "idle")
  BY Zenon DEF Store!commit, Assigned
<1>2. txn'[s] = <<>> /\ spc'[s] = "idle" /\ todo'[s] = <<>>
  BY <1>1, StoreSets, ZenonT(60)
<1>3. lock = s
  BY <1>1, WriterLocks, ZenonT(60)
<1>4. Writing(s, LastTable, lock, "insert", txn[s], <<>>)
  BY <1>1, Zenon DEF Writers
<1>5. PICK fills \in Batches, base \in {LastTable, <<>>} : txn[s] \o <<>> = base \o fills
  BY <1>4, Zenon DEF Writing
<1>6. txn[s] \in Seq(Fills)
  BY <1>4, Zenon DEF Writing
<1>7. txn[s] = base \o fills
  BY <1>5, <1>6, ConcatEmptySeq, Zenon
<1>8. Committed'
  BY <1>1, <1>6, <1>7, CommitWhole, ZenonT(60) DEF Writers
<1>9. <<>> \in Seq(Fills)
  BY SMT
<1>10. Writing(s, LastTable', NoStore, "idle", <<>>, <<>>)
  BY <1>9, IdleWriting, Zenon
<1>11. lock \in {s, NoStore} /\ lock' \in {s, NoStore}
  BY <1>1, <1>3, ZenonT(60)
<1> QED
  BY <1>1, <1>2, <1>8, <1>10, <1>11, WriterMoves, ZenonT(60)

\* ROLLBACK (Transaction::~Transaction).
LEMMA RollbackWrites ==
  ASSUME Writers, StoreMaps, NEW s \in Stores, Elsewhere(s), Store!rollback(s)
  PROVE  Writers'
<1>1. /\ spc[s] \in {"delete", "prepare", "insert"} /\ lock' = NoStore /\ tables' = tables
      /\ Assigned(txn, txn', s, <<>>) /\ Assigned(todo, todo', s, <<>>)
      /\ Assigned(spc, spc', s, "idle")
  BY Zenon DEF Store!rollback, Assigned
<1>2. txn'[s] = <<>> /\ spc'[s] = "idle" /\ todo'[s] = <<>>
  BY <1>1, StoreSets, ZenonT(60)
<1>3. Committed'
  BY <1>1, CommittedStays, ZenonT(60) DEF Writers
<1>4. lock = s
  BY <1>1, WriterLocks, ZenonT(60)
<1>5. <<>> \in Seq(Fills)
  BY SMT
<1>6. Writing(s, LastTable', NoStore, "idle", <<>>, <<>>)
  BY <1>5, IdleWriting, ZenonT(60)
<1>7. lock \in {s, NoStore} /\ lock' \in {s, NoStore}
  BY <1>1, <1>4, ZenonT(60)
<1> QED
  BY <1>1, <1>2, <1>3, <1>6, <1>7, WriterMoves, ZenonT(60)

\* A store that ends, in a transaction or not (~TradeStore).
LEMMA ReopenWrites ==
  ASSUME Writers, StoreMaps, NEW s \in Stores, Elsewhere(s), Store!reopen(s)
  PROVE  Writers'
<1>1. /\ lock' = (IF lock = s THEN NoStore ELSE lock) /\ tables' = tables
      /\ Assigned(txn, txn', s, <<>>) /\ Assigned(todo, todo', s, <<>>)
      /\ Assigned(spc, spc', s, "idle")
  BY Zenon DEF Store!reopen, Assigned
<1>2. txn'[s] = <<>> /\ spc'[s] = "idle" /\ todo'[s] = <<>>
  BY <1>1, StoreSets, ZenonT(60)
<1>3. Committed' /\ LastTable' = LastTable
  BY <1>1, CommittedStays, ZenonT(60) DEF Writers
<1>4. <<>> \in Seq(Fills)
  BY SMT
<1>5. CASE lock = s
  <2>1. Writing(s, LastTable', NoStore, "idle", <<>>, <<>>)
    BY <1>4, IdleWriting, Zenon
  <2>2. lock' = NoStore /\ lock \in {s, NoStore} /\ lock' \in {s, NoStore}
    BY <1>1, <1>5, ZenonT(60)
  <2> QED
    BY <1>2, <1>3, <2>1, <2>2, WriterMoves, ZenonT(60)
<1>6. CASE lock # s
  <2>1. lock' = lock
    BY <1>1, <1>6, ZenonT(60)
  <2>2. Writing(s, LastTable', lock', "idle", <<>>, <<>>)
    BY <1>4, <1>6, <2>1, ZenonT(60) DEF Writing
  <2>3. ASSUME NEW k \in Stores, k # s
        PROVE  Writing(k, LastTable', lock', spc'[k], txn'[k], todo'[k])
    BY <1>3, <2>1, <2>3, ZenonT(60) DEF Writers, Elsewhere
  <2> QED
    BY <1>2, <1>3, <2>2, <2>3, ZenonT(60) DEF Writers
<1> QED
  BY <1>5, <1>6, ZenonT(60)

\* Every step of a store keeps what Writers says.
LEMMA StepWrites ==
  ASSUME Writers, StoreMaps, NEW s \in Stores, Store!storeStep(s)
  PROVE  Writers'
<1>1. Elsewhere(s)
  BY StepKeeps, Zenon DEF StoreKeeps
<1>2. ASSUME NEW sql, Store!query(s, sql) PROVE Writers'
  <2>1. UNCHANGED <<tables, lock, txn, todo, spc>>
    BY <1>2, Zenon DEF Store!query, Store!writeVars
  <2> QED
    BY <2>1, Zenon DEF Writers, Committed, LastTable, Store!BatchesWhole
<1>3. ASSUME NEW fills \in Batches, Store!begin(s, fills, "prepare") \/ Store!begin(s, fills, "delete")
      PROVE  Writers'
  <2>1. "prepare" \in {"prepare", "delete"} /\ "delete" \in {"prepare", "delete"}
    BY Zenon
  <2> QED
    BY <1>1, <1>3, <2>1, BeginWrites, ZenonT(60)
<1>4. CASE Store!deleteAll(s)
  BY <1>1, <1>4, DeleteWrites, ZenonT(60)
<1>5. CASE Store!prepareInsert(s)
  BY <1>1, <1>5, PrepareWrites, ZenonT(60)
<1>6. CASE Store!insertRow(s)
  BY <1>1, <1>6, InsertWrites, Zenon
<1>7. CASE Store!commit(s)
  BY <1>1, <1>7, CommitWrites, Zenon
<1>8. CASE Store!rollback(s)
  BY <1>1, <1>8, RollbackWrites, Zenon
<1>9. CASE Store!reopen(s)
  BY <1>1, <1>9, ReopenWrites, Zenon
<1> QED
  BY <1>2, <1>3, <1>4, <1>5, <1>6, <1>7, <1>8, <1>9, ZenonT(60) DEF Store!storeStep

-----------------------------------------------------------------------------
(* The stores: the statements of a reader *)

\* What holds of the cache u, the active statements a, the version v that the
\* connection reads and the last query r of a store at place p: the statement
\* that tradeCount left active is at the front of the cache and holds the
\* version that tradeCount saw, until the store writes.
Reading(p, u, a, v, r) ==
  /\ u \in Seq(Store!Statements)
  /\ p = "insert" => r.query = "none"
  /\ r.query = "count" => /\ "count" \in a /\ Len(u) > 0 /\ u[1] = "count"
                          /\ v = r.version

ReadingOf(s) == Reading(spc[s], m_lru[s], active[s], snapshot[s], lastRead[s])

\* A cache with room for two has a place for a statement beside the first one.
LEMMA CacheRoom ==
  ASSUME NEW size \in Nat, CacheCapacity \in Nat, CacheCapacity >= 2
  PROVE  LET last == IF size = CacheCapacity THEN size ELSE size + 1
         IN last \in 1 .. size + 1 /\ last \in Nat /\ last <= size + 1 /\ (size > 0 => last >= 2)
BY SMTT(30)

\* StatementCache::get puts the statement first and keeps the others, but for
\* the last one of a full cache.
LEMMA CachedFirst ==
  ASSUME NEW u \in Seq(Store!Statements), NEW sql \in Store!Statements
  PROVE  /\ Store!Cached(u, sql) \in Seq(Store!Statements)
         /\ Len(Store!Cached(u, sql)) > 0 /\ Store!Cached(u, sql)[1] = sql
<1> DEFINE S == Store!Statements
           hits == {k \in DOMAIN u : u[k] = sql}
           last == IF Len(u) = CacheCapacity THEN Len(u) ELSE Len(u) + 1
           place == IF hits # {} THEN CHOOSE k \in hits : TRUE ELSE last
           size == IF place = Len(u) + 1 THEN Len(u) + 1 ELSE Len(u)
           c == [k \in DOMAIN u \cup {place} |->
                   IF k = 1 THEN sql ELSE IF k <= place THEN u[k - 1] ELSE u[k]]
<1>1. Store!Cached(u, sql) = c
  BY Zenon DEF Store!Cached
<1>2. Len(u) \in Nat /\ DOMAIN u = 1 .. Len(u) /\ \A k \in 1 .. Len(u) : u[k] \in S
  BY SMTT(30)
<1>3. CacheCapacity \in Nat /\ CacheCapacity >= 2
  BY StoresAssumption, Zenon
<1>4. hits # {} => place \in 1 .. Len(u)
  <2>1. hits # {} => (CHOOSE k \in hits : TRUE) \in hits
    BY Zenon
  <2> QED
    BY <1>2, <2>1, ZenonT(60)
<1> HIDE DEF last
<1>5. ~(hits # {}) => place = last
  BY Zenon
<1> HIDE DEF S, hits, place
<1>6. place \in 1 .. Len(u) + 1
  <2>1. last \in 1 .. Len(u) + 1
    BY <1>2, <1>3, CacheRoom, ZenonT(60) DEF last
  <2>2. CASE ~(hits # {})
    BY <1>5, <2>1, <2>2, ZenonT(60)
  <2>3. CASE hits # {}
    BY <1>2, <1>4, <2>3, SMTT(30)
  <2> QED
    BY <2>2, <2>3, ZenonT(60)
<1>7. size \in Nat /\ size > 0 /\ size >= place /\ DOMAIN u \cup {place} = 1 .. size
  BY <1>2, <1>6, SMTT(30)
<1> HIDE DEF size
<1>8. ASSUME NEW k \in 1 .. size
      PROVE  (IF k = 1 THEN sql ELSE IF k <= place THEN u[k - 1] ELSE u[k]) \in S
  <2>1. CASE k = 1
    BY <2>1, Zenon DEF S
  <2>2. CASE k # 1 /\ k <= place
    <3>1. k - 1 \in 1 .. Len(u)
      BY <1>2, <1>6, <1>7, <2>2, SMTT(30)
    <3> QED
      BY <1>2, <2>2, <3>1, ZenonT(60)
  <2>3. CASE k # 1 /\ ~(k <= place)
    <3>1. k \in 1 .. Len(u)
      BY <1>2, <1>6, <1>7, <2>3, SMTT(30) DEF size
    <3> QED
      BY <1>2, <2>3, <3>1, ZenonT(60)
  <2> QED
    BY <2>1, <2>2, <2>3, ZenonT(60)
<1>9. c = [k \in 1 .. size |-> IF k = 1 THEN sql ELSE IF k <= place THEN u[k - 1] ELSE u[k]]
  BY <1>7, ZenonT(60)
<1>10. c \in [1 .. size -> S]
  BY <1>8, <1>9, ZenonT(60)
<1>11. c[1] = sql
  <2>1. 1 \in 1 .. size
    BY <1>7, SMTT(30)
  <2> QED
    BY <1>9, <2>1, ZenonT(60)
<1> HIDE DEF c
<1>12. c \in Seq(S) /\ Len(c) = size
  BY <1>7, <1>10, SMTT(30)
<1> QED
  BY <1>1, <1>7, <1>11, <1>12, SMTT(30) DEF S

\* The first statement stays in the cache when another one is taken: the cache
\* has room for two.
LEMMA CachedSecond ==
  ASSUME NEW u \in Seq(Store!Statements), NEW sql, Len(u) > 0, u[1] # sql
  PROVE  u[1] \in Range(Store!Cached(u, sql))
<1> DEFINE hits == {k \in DOMAIN u : u[k] = sql}
           last == IF Len(u) = CacheCapacity THEN Len(u) ELSE Len(u) + 1
           place == IF hits # {} THEN CHOOSE k \in hits : TRUE ELSE last
           c == [k \in DOMAIN u \cup {place} |->
                   IF k = 1 THEN sql ELSE IF k <= place THEN u[k - 1] ELSE u[k]]
<1>1. Store!Cached(u, sql) = c
  BY Zenon DEF Store!Cached
<1>2. Len(u) \in Nat /\ DOMAIN u = 1 .. Len(u)
  BY SMT
<1>3. CacheCapacity \in Nat /\ CacheCapacity >= 2
  BY StoresAssumption, Zenon
<1>4. hits # {} => place \in 1 .. Len(u) /\ u[place] = sql
  <2>1. hits # {} => (CHOOSE k \in hits : TRUE) \in hits
    BY Zenon
  <2> QED
    BY <1>2, <2>1, ZenonT(60)
<1> HIDE DEF last
<1>5. ~(hits # {}) => place = last
  BY Zenon
<1> HIDE DEF hits, place
<1>6. place \in Nat /\ place >= 2 /\ place <= Len(u) + 1
  <2>1. last \in Nat /\ last >= 2 /\ last <= Len(u) + 1
    BY <1>2, <1>3, CacheRoom, ZenonT(60) DEF last
  <2>2. CASE ~(hits # {})
    BY <1>5, <2>1, <2>2, ZenonT(60)
  <2>3. CASE hits # {}
    <3>1. place \in 1 .. Len(u) /\ place # 1
      BY <1>4, <2>3, ZenonT(60)
    <3> QED
      BY <1>2, <3>1, SMTT(30)
  <2> QED
    BY <2>2, <2>3, ZenonT(60)
<1>7. 2 \in DOMAIN u \cup {place}
  BY <1>2, <1>6, SMTT(30)
<1>8. 2 # 1 /\ 2 <= place /\ 2 - 1 = 1
  BY <1>6, SMTT(30)
<1>9. c[2] = u[1]
  BY <1>7, <1>8, ZenonT(60)
<1>10. 2 \in DOMAIN c
  BY <1>7, ZenonT(60)
<1> QED
  BY <1>1, <1>9, <1>10, ZenonT(60) DEF Range

\* A report, tradeCount and then vwap, of store s in one step of the model.
OneVersion(s) ==
  (lastRead[s].query = "count" /\ lastRead'[s].query = "vwap")
    => lastRead'[s].version = lastRead[s].version

\* tradeCount, vwap and timeline: the statement that tradeCount left active is
\* still in the cache when vwap takes its own, and keeps the version.
LEMMA QueryReads ==
  ASSUME StoreMaps, NEW s \in Stores, ReadingOf(s), NEW sql \in Store!Statements \ {"insert"},
         Store!query(s, sql)
  PROVE  ReadingOf(s)' /\ OneVersion(s)
<1> DEFINE u == Store!Cached(m_lru[s], sql)
           others == Store!StillActive(s, sql)
           version == Store!VersionFor(s, others)
           now == IF sql \in Store!OneRow THEN others \cup {sql} ELSE others
           r == [query |-> sql, version |-> version]
           v == IF now = {} THEN 0 ELSE version
<1>1. /\ spc[s] = "idle" /\ spc' = spc /\ Assigned(m_lru, m_lru', s, u)
      /\ Assigned(active, active', s, now) /\ Assigned(snapshot, snapshot', s, v)
      /\ Assigned(lastRead, lastRead', s, r)
  BY Zenon DEF Store!query, Store!get, Store!writeVars, Assigned
<1>2. m_lru[s] \in Seq(Store!Statements) /\ sql \in Store!Statements
  BY Zenon DEF ReadingOf, Reading
<1>3. u \in Seq(Store!Statements) /\ Len(u) > 0 /\ u[1] = sql
  BY <1>2, CachedFirst, ZenonT(60)
<1>4. sql = "count" => "count" \in now
  BY Zenon DEF Store!OneRow
<1>5. r.query = sql /\ r.version = version
  BY Zenon
<1>6. lastRead[s].query = "count" /\ sql = "vwap" => version = lastRead[s].version
  <2> SUFFICES ASSUME lastRead[s].query = "count", sql = "vwap"
               PROVE  version = lastRead[s].version
    BY Zenon
  <2>1. /\ "count" \in active[s] /\ Len(m_lru[s]) > 0 /\ m_lru[s][1] = "count"
        /\ snapshot[s] = lastRead[s].version
    BY Zenon DEF ReadingOf, Reading
  <2>2. m_lru[s][1] # sql
    BY <2>1, ZenonT(60)
  <2>3. "count" \in Range(u)
    BY <1>2, <2>1, <2>2, CachedSecond, ZenonT(60)
  <2>4. others = (active[s] \cap Range(u)) \ {sql}
    BY ZenonT(60) DEF Store!StillActive, Store!Range, Range
  <2> HIDE DEF u
  <2>6. "count" \in others
    BY <2>1, <2>3, <2>4, SMTT(30)
  <2> HIDE DEF others
  <2>5. version = snapshot[s]
    BY <2>6, ZenonT(60) DEF Store!VersionFor
  <2> QED
    BY <2>1, <2>5, ZenonT(60)
<1> HIDE DEF u, others, version, now, r
<1>7. v = version \/ now = {}
  BY Zenon
<1> HIDE DEF v
<1>a. StoreMap(m_lru) /\ StoreMap(active) /\ StoreMap(snapshot) /\ StoreMap(lastRead)
  BY Zenon DEF StoreMaps
<1>b. m_lru'[s] = u
  <2>1. Assigned(m_lru, m_lru', s, u) /\ StoreMap(m_lru)
    BY <1>1, <1>a, ZenonT(60)
  <2> QED
    BY <2>1, StoreValue, ZenonT(60)
<1>c. active'[s] = now
  <2>1. Assigned(active, active', s, now) /\ StoreMap(active)
    BY <1>1, <1>a, ZenonT(60)
  <2> QED
    BY <2>1, StoreValue, Zenon
<1>8. m_lru'[s] = u /\ active'[s] = now
  BY <1>b, <1>c, ZenonT(60)
<1>9. snapshot'[s] = v /\ lastRead'[s] = r
  BY <1>1, <1>a, StoreValue, ZenonT(60)
<1>10. Reading("idle", u, now, v, r)
  <2>1. sql = "count" => v = version
    BY <1>4, <1>7, ZenonT(60)
  <2> QED
    BY <1>3, <1>4, <1>5, <2>1, ZenonT(60) DEF Reading
<1>11. ReadingOf(s)'
  BY <1>1, <1>8, <1>9, <1>10, ZenonT(60) DEF ReadingOf
<1>12. OneVersion(s)
  BY <1>5, <1>6, <1>9, ZenonT(60) DEF OneVersion
<1> QED
  BY <1>11, <1>12, ZenonT(60)

\* Preparing the insert forgets the last query (insertBatch).
LEMMA PrepareReads ==
  ASSUME StoreMaps, NEW s \in Stores, ReadingOf(s), Store!prepareInsert(s)
  PROVE  ReadingOf(s)' /\ OneVersion(s)
<1>1. /\ Assigned(m_lru, m_lru', s, Store!Cached(m_lru[s], "insert"))
      /\ Assigned(lastRead, lastRead', s, Store!NoRead)
  BY Zenon DEF Store!prepareInsert, Store!get, Assigned
<1>2. m_lru'[s] = Store!Cached(m_lru[s], "insert") /\ lastRead'[s] = Store!NoRead
  BY <1>1, StoreSets, ZenonT(60)
<1>3. m_lru[s] \in Seq(Store!Statements) /\ "insert" \in Store!Statements
  BY Zenon DEF ReadingOf, Reading, Store!Statements
<1>4. m_lru'[s] \in Seq(Store!Statements)
  BY <1>2, <1>3, CachedFirst, ZenonT(60)
<1>5. lastRead'[s].query = "none"
  BY <1>2, SMTT(30) DEF Store!NoRead
<1>6. ReadingOf(s)'
  BY <1>4, <1>5, Zenon DEF ReadingOf, Reading
<1>7. OneVersion(s)
  BY <1>5, ZenonT(60) DEF OneVersion
<1> QED
  BY <1>6, <1>7, ZenonT(60)

\* COMMIT: the version that the connection reads changes, but the store has
\* made no query since it began (Transaction::commit).
LEMMA CommitReads ==
  ASSUME StoreMaps, NEW s \in Stores, ReadingOf(s), Store!commit(s)
  PROVE  ReadingOf(s)' /\ OneVersion(s)
<1>1. spc[s] = "insert" /\ m_lru' = m_lru /\ active' = active /\ lastRead' = lastRead
  BY Zenon DEF Store!commit
<1>2. lastRead[s].query = "none" /\ m_lru[s] \in Seq(Store!Statements)
  BY <1>1, ZenonT(60) DEF ReadingOf, Reading
<1>3. ReadingOf(s)'
  BY <1>1, <1>2, ZenonT(60) DEF ReadingOf, Reading
<1>4. OneVersion(s)
  BY <1>1, <1>2, ZenonT(60) DEF OneVersion
<1> QED
  BY <1>3, <1>4, Zenon

\* A new store has read nothing (~TradeStore).
LEMMA ReopenReads ==
  ASSUME StoreMaps, NEW s \in Stores, Store!reopen(s)
  PROVE  ReadingOf(s)' /\ OneVersion(s)
<1>1. Assigned(m_lru, m_lru', s, <<>>) /\ Assigned(lastRead, lastRead', s, Store!NoRead)
  BY Zenon DEF Store!reopen, Assigned
<1>2. m_lru'[s] = <<>> /\ lastRead'[s] = Store!NoRead
  BY <1>1, StoreSets, ZenonT(60)
<1>3. <<>> \in Seq(Store!Statements)
  BY SMTT(30)
<1>4. lastRead'[s].query = "none"
  BY <1>2, SMTT(30) DEF Store!NoRead
<1>5. ReadingOf(s)'
  BY <1>2, <1>3, <1>4, ZenonT(60) DEF ReadingOf, Reading
<1>6. OneVersion(s)
  BY <1>4, Zenon DEF OneVersion
<1> QED
  BY <1>5, <1>6, Zenon

\* Steps that use no statement but the insert (begin, replaceAll, insertBatch).
LEMMA WriteReads ==
  ASSUME NEW s \in Stores, ReadingOf(s), UNCHANGED <<m_lru, active, snapshot, lastRead>>,
         spc'[s] = "insert" => spc[s] = "insert"
  PROVE  ReadingOf(s)' /\ OneVersion(s)
<1>1. ReadingOf(s)'
  BY Zenon DEF ReadingOf, Reading
<1>2. OneVersion(s)
  BY Zenon DEF OneVersion
<1> QED
  BY <1>1, <1>2, Zenon

\* Every step of a store keeps what ReadingOf says of it, and reports of one
\* version.
LEMMA StepReads ==
  ASSUME StoreMaps, NEW s \in Stores, ReadingOf(s), Store!storeStep(s)
  PROVE  ReadingOf(s)' /\ OneVersion(s)
<1>1. ASSUME NEW sql \in Store!Statements \ {"insert"}, Store!query(s, sql)
      PROVE  ReadingOf(s)' /\ OneVersion(s)
  BY <1>1, QueryReads, ZenonT(60)
<1>2. ASSUME NEW fills, NEW place \in {"prepare", "delete"}, Store!begin(s, fills, place)
      PROVE  ReadingOf(s)' /\ OneVersion(s)
  <2>1. Assigned(spc, spc', s, place) /\ UNCHANGED <<m_lru, active, snapshot, lastRead>>
    BY <1>2, Zenon DEF Store!begin, Store!readVars, Assigned
  <2>2. spc'[s] = place
    BY <2>1, StoreSets, ZenonT(60)
  <2> QED
    BY <2>1, <2>2, <1>2, WriteReads, ZenonT(60)
<1>3. CASE Store!deleteAll(s)
  <2>1. Assigned(spc, spc', s, "prepare") /\ UNCHANGED <<m_lru, active, snapshot, lastRead>>
    BY <1>3, Zenon DEF Store!deleteAll, Store!readVars, Assigned
  <2>2. spc'[s] = "prepare"
    BY <2>1, StoreSets, ZenonT(60)
  <2> QED
    BY <2>1, <2>2, WriteReads, ZenonT(60)
<1>4. CASE Store!prepareInsert(s)
  BY <1>4, PrepareReads, ZenonT(60)
<1>5. CASE Store!insertRow(s)
  <2>1. spc' = spc /\ UNCHANGED <<m_lru, active, snapshot, lastRead>>
    BY <1>5, ZenonT(60) DEF Store!insertRow, Store!readVars
  <2> QED
    BY <2>1, WriteReads, ZenonT(60)
<1>6. CASE Store!commit(s)
  BY <1>6, CommitReads, Zenon
<1>7. CASE Store!rollback(s)
  <2>1. Assigned(spc, spc', s, "idle") /\ UNCHANGED <<m_lru, active, snapshot, lastRead>>
    BY <1>7, Zenon DEF Store!rollback, Store!readVars, Assigned
  <2>2. spc'[s] = "idle"
    BY <2>1, StoreSets, ZenonT(60)
  <2> QED
    BY <2>1, <2>2, WriteReads, ZenonT(60)
<1>8. CASE Store!reopen(s)
  BY <1>8, ReopenReads, ZenonT(60)
<1>9. "prepare" \in {"prepare", "delete"} /\ "delete" \in {"prepare", "delete"}
  BY Zenon
<1> QED
  BY <1>1, <1>2, <1>3, <1>4, <1>5, <1>6, <1>7, <1>8, <1>9, ZenonT(60) DEF Store!storeStep

-----------------------------------------------------------------------------
(* The stores: the theorems *)

StoresInv == StoreMaps /\ Writers /\ (\A s \in Stores : ReadingOf(s))

\* What the stores start with: an empty table and no connection in use.
LEMMA StoresInit ==
  ASSUME Store!Init
  PROVE  StoresInv
<1>1. StoreMaps
  BY SMT DEF Store!Init, StoreMaps, StoreMap
<1>2. Committed
  <2>1. tables = << <<>> >>
    BY Zenon DEF Store!Init
  <2>2. tables \in Seq(Seq(Fills)) /\ Len(tables) = 1
    BY <2>1, SMT
  <2>3. 1 .. Len(tables) - 1 = {}
    BY <2>2, SMT
  <2> QED
    BY <2>2, <2>3, SMTT(30) DEF Committed, Store!BatchesWhole
<1>3. ASSUME NEW s \in Stores
      PROVE  Writing(s, LastTable, lock, spc[s], txn[s], todo[s]) /\ ReadingOf(s)
  <2>1. spc[s] = "idle" /\ txn[s] = <<>> /\ todo[s] = <<>> /\ lock = NoStore
    BY SMTT(30) DEF Store!Init
  <2>2. m_lru[s] = <<>> /\ lastRead[s].query = "none"
    BY SMT DEF Store!Init, Store!NoRead
  <2>3. <<>> \in Seq(Fills) /\ <<>> \in Seq(Store!Statements) /\ NoStore # s
    BY StoresAssumption, SMT
  <2>4. Writing(s, LastTable, NoStore, "idle", <<>>, <<>>)
    BY <2>3, SMT DEF Writing
  <2>5. ReadingOf(s)
    BY <2>2, <2>3, Zenon DEF ReadingOf, Reading
  <2> QED
    BY <2>1, <2>4, <2>5, ZenonT(60)
<1> QED
  BY <1>1, <1>2, <1>3, ZenonT(60) DEF StoresInv, Writers

\* One step of one store.
LEMMA StoresStep ==
  ASSUME StoresInv, NEW s \in Stores, Store!storeStep(s)
  PROVE  StoresInv' /\ (\A k \in Stores : OneVersion(k))
<1>1. StoreMaps /\ Writers /\ (\A k \in Stores : ReadingOf(k))
  BY Zenon DEF StoresInv
<1>2. StoreMaps' /\ Elsewhere(s)
  BY <1>1, StepKeeps, Zenon DEF StoreKeeps
<1>3. Writers'
  BY <1>1, StepWrites, Zenon
<1>4. ReadingOf(s)' /\ OneVersion(s)
  BY <1>1, StepReads, ZenonT(60)
<1>5. ASSUME NEW k \in Stores, k # s
      PROVE  ReadingOf(k)' /\ OneVersion(k)
  <2>1. /\ spc'[k] = spc[k] /\ m_lru'[k] = m_lru[k] /\ active'[k] = active[k]
        /\ snapshot'[k] = snapshot[k] /\ lastRead'[k] = lastRead[k]
    BY <1>2, <1>5, Zenon DEF Elsewhere
  <2>2. ReadingOf(k)
    BY <1>1, Zenon
  <2>3. ReadingOf(k)'
    BY <2>1, <2>2, Zenon DEF ReadingOf
  <2>4. OneVersion(k)
    BY <2>1, Zenon DEF OneVersion
  <2> QED
    BY <2>3, <2>4, Zenon
<1> QED
  BY <1>2, <1>3, <1>4, <1>5, ZenonT(60) DEF StoresInv

\* The stores stand still.
LEMMA StoresStand ==
  ASSUME StoresInv, UNCHANGED storeVars
  PROVE  StoresInv' /\ (\A k \in Stores : OneVersion(k))
<1>1. /\ tables' = tables /\ lock' = lock /\ txn' = txn /\ todo' = todo /\ spc' = spc
      /\ m_lru' = m_lru /\ active' = active /\ snapshot' = snapshot /\ lastRead' = lastRead
  BY Zenon DEF storeVars
<1>2. StoreMaps'
  BY <1>1, Zenon DEF StoresInv, StoreMaps, StoreMap
<1>3. Writers'
  BY <1>1, Zenon DEF StoresInv, Writers, Committed, LastTable, Store!BatchesWhole
<1>4. \A k \in Stores : ReadingOf(k)'
  BY <1>1, Zenon DEF StoresInv, ReadingOf
<1>5. \A k \in Stores : OneVersion(k)
  BY <1>1, Zenon DEF OneVersion
<1> QED
  BY <1>2, <1>3, <1>4, <1>5, ZenonT(60) DEF StoresInv

\* Every step of the read side.
LEMMA StoresNext ==
  ASSUME StoresInv, [ReadNext]_<<vars, storeVars, part>>
  PROVE  StoresInv' /\ (\A k \in Stores : OneVersion(k))
<1>1. CASE UNCHANGED storeVars
  BY <1>1, StoresStand, Zenon
<1>2. ASSUME NEW s \in Stores, Store!storeStep(s)
      PROVE  StoresInv' /\ (\A k \in Stores : OneVersion(k))
  BY <1>2, StoresStep, Zenon
<1> QED
  BY <1>1, <1>2, Zenon DEF ReadNext, Store!Next

\* The stores' invariant holds throughout.
LEMMA StoresAlways == ReadSpec => []StoresInv
<1>1. ReadInit => StoresInv
  BY StoresInit, Zenon DEF ReadInit
<1>2. StoresInv /\ [ReadNext]_<<vars, storeVars, part>> => StoresInv'
  BY StoresNext, Zenon
<1> QED
  BY <1>1, <1>2, PTL DEF ReadSpec

\* A store between its calls holds neither the write lock nor rows of a
\* transaction: every BEGIN is ended by its COMMIT or ROLLBACK, whichever
\* statement fails and whenever the store is closed (Transaction, ~Transaction).
THEOREM TransactionsEnd == ReadSpec => []NoTransactionLeaks
<1>1. StoresInv => NoTransactionLeaks
  BY ZenonT(60) DEF StoresInv, Writers, Writing, NoTransactionLeaks, Store!NoTransactionLeaks
<1> QED
  BY StoresAlways, <1>1, PTL

\* Each committed table is the one before it and a whole batch, or the batch
\* alone: no reader sees half of an insertBatch or of a replaceAll.
THEOREM BatchesAreWhole == ReadSpec => []BatchesWhole
<1>1. StoresInv => BatchesWhole
  BY Zenon DEF StoresInv, Writers, Committed, BatchesWhole
<1> QED
  BY StoresAlways, <1>1, PTL

\* A vwap right after a tradeCount, by the same store, reads the version of the
\* table that the count read, whatever other stores commit in between, with any
\* cache of two statements or more (StatementCache::get, tradeCount, vwap).
THEOREM ReportsOfOneVersion == ReadSpec => ReportOfOneVersion
<1>1. StoresInv /\ [ReadNext]_<<vars, storeVars, part>> => \A k \in Stores : OneVersion(k)
  BY StoresNext, ZenonT(60)
<1>2. StoresInv /\ [ReadNext]_<<vars, storeVars, part>>
        => [\A s \in Stores :
              (lastRead[s].query = "count" /\ lastRead'[s].query = "vwap")
                => lastRead'[s].version = lastRead[s].version]_Store!vars
  BY <1>1, Zenon DEF OneVersion
<1> QED
  BY StoresAlways, <1>2, PTL DEF ReadSpec, ReportOfOneVersion, Store!ReportOfOneVersion
=============================================================================
