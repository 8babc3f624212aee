--------------------------- MODULE ConnectionPool ---------------------------
(***************************************************************************)
(* The bounded pool of store connections and its move-only leases          *)
(* (ConnectionPool and ConnectionLease in store/TradeStore.h), used by     *)
(* several reader threads at once.  Every thread has the lease objects     *)
(* Slots; hand[t] is the temporary lease that an expression yields before  *)
(* it is move-assigned to one of them.  A critical section of m_mutex is   *)
(* one step.                                                               *)
(***************************************************************************)
EXTENDS FutexSemaphore, Sequences, Functions

CONSTANTS
  Connections, NoConnection,
  Slots, NoSlot    \* bound: the lease objects of a thread

ASSUME PoolAssumption ==
  /\ IsFiniteSet(Threads) /\ IsFiniteSet(Connections)
  /\ InitialCount = Cardinality(Connections) /\ InitialCount > 0
  /\ NoConnection \notin Connections

VARIABLES
  m_available,
  leases,   \* leases[t][s]: the m_conn of a lease object
  hand,
  slot,     \* the lease object the operation of a thread is about
  ppc       \* the thread: "out" or its place in an operation of the pool

poolVars == <<m_available, leases, hand, slot, ppc>>
vars == <<semVars, poolVars>>

Init ==
  /\ SemInit
  /\ m_available \in Bijection(1 .. Cardinality(Connections), Connections)
  /\ leases = [t \in Threads |-> [s \in Slots |-> NoConnection]]
  /\ hand = [t \in Threads |-> NoConnection]
  /\ slot = [t \in Threads |-> NoSlot]
  /\ ppc = [t \in Threads |-> "out"]

At(t, place) == ppc[t] = place
Go(t, place) == ppc' = [ppc EXCEPT ![t] = place]

-----------------------------------------------------------------------------
(* ConnectionPool::acquire and tryAcquireFor *)

acquireLease(t, s) ==
  /\ At(t, "out")
  /\ acquire(t) \/ tryAcquireFor(t)
  /\ slot' = [slot EXCEPT ![t] = s]
  /\ Go(t, "acquire")
  /\ UNCHANGED <<m_available, leases, hand>>

popConnection(t) ==
  /\ At(t, "acquire") /\ pc[t] = "returned"
  /\ leave(t)
  /\ hand' = [hand EXCEPT ![t] = Head(m_available)]
  /\ m_available' = Tail(m_available)
  /\ Go(t, "assign")
  /\ UNCHANGED <<leases, slot>>

emptyLease(t) ==
  /\ At(t, "acquire") /\ pc[t] = "refused"
  /\ leave(t)
  /\ Go(t, "assign")
  /\ UNCHANGED <<m_available, leases, hand, slot>>

-----------------------------------------------------------------------------
(* ConnectionLease *)

\* operator=(ConnectionLease&&): reset(), then the pointers change hands.
assign(t) ==
  /\ At(t, "assign") /\ pc[t] = "idle"
  /\ IF leases[t][slot[t]] # NoConnection
     THEN Go(t, "push") /\ UNCHANGED <<leases, hand, slot>>
     ELSE /\ leases' = [leases EXCEPT ![t][slot[t]] = hand[t]]
          /\ hand' = [hand EXCEPT ![t] = NoConnection]
          /\ Go(t, "out")
          /\ slot' = [slot EXCEPT ![t] = NoSlot]
  /\ UNCHANGED <<semVars, m_available>>

moveLease_mutKeepsSource(t, from, to) ==
  /\ At(t, "out") /\ from # to
  /\ hand' = [hand EXCEPT ![t] = leases[t][from]]
  /\ slot' = [slot EXCEPT ![t] = to]
  /\ Go(t, "assign")
  /\ UNCHANGED <<semVars, m_available, leases>>

\* One lease object is moved to another, which gives its connection back.
moveLease(t, from, to) ==
  /\ At(t, "out") /\ from # to
  /\ hand' = [hand EXCEPT ![t] = leases[t][from]]
  /\ leases' = [leases EXCEPT ![t][from] = NoConnection]
  /\ slot' = [slot EXCEPT ![t] = to]
  /\ Go(t, "assign")
  /\ UNCHANGED <<semVars, m_available>>

\* reset() or the destructor of a lease that holds a connection.
resetLease(t, s) ==
  /\ At(t, "out") /\ leases[t][s] # NoConnection
  /\ slot' = [slot EXCEPT ![t] = s]
  /\ Go(t, "push")
  /\ UNCHANGED <<semVars, m_available, leases, hand>>

-----------------------------------------------------------------------------
(* ConnectionPool::release: the push under m_mutex, then m_sem.release() *)

pushConnection(t) ==
  /\ At(t, "push")
  /\ m_available' = Append(m_available, leases[t][slot[t]])
  /\ leases' = [leases EXCEPT ![t][slot[t]] = NoConnection]
  /\ Go(t, "post")
  /\ UNCHANGED <<semVars, hand, slot>>

postUnit(t) ==
  /\ At(t, "post")
  /\ release(t, 1)
  /\ Go(t, "assign")
  /\ UNCHANGED <<m_available, leases, hand, slot>>

-----------------------------------------------------------------------------
poolStep(t) ==
  \/ semStep(t) /\ UNCHANGED poolVars
  \/ popConnection(t) \/ emptyLease(t) \/ assign(t) \/ pushConnection(t) \/ postUnit(t)

Next ==
  \E t \in Threads :
    \/ poolStep(t)
    \/ \E s \in Slots : acquireLease(t, s) \/ resetLease(t, s)
    \/ \E from, to \in Slots : moveLease(t, from, to)

Spec == Init /\ [][Next]_vars

-----------------------------------------------------------------------------
(* Properties *)

\* Places that hold connection c: positions of the queue, leases, temporaries.
Holders(c) ==
  {<<"queue", i>> : i \in {j \in 1 .. Len(m_available) : m_available[j] = c}}
    \cup {h \in {"lease"} \X Threads \X Slots : leases[h[2]][h[3]] = c}
    \cup {h \in {"hand"} \X Threads : hand[h[2]] = c}

\* A connection is in the queue once or leased once, never both and never lost:
\* two readers never share one, a moved-from lease returns nothing
\* (ConnectionLease, ConnectionPool::release).
LeasedOnce == \A c \in Connections : Cardinality(Holders(c)) = 1

\* A reader whose acquire on the semaphore returned finds a connection in the
\* queue: front() and pop() never meet an empty queue (ConnectionPool::acquire,
\* tryAcquireFor, and the order of push and m_sem.release() in release).
PopFindsConnection ==
  Cardinality({t \in Threads : At(t, "acquire") /\ pc[t] = "returned"}) <= Len(m_available)

\* The pool is never stuck with a connection inside: if some reader sleeps and
\* no other is in an operation, the queue is empty (release, acquire).
NotStuck ==
  (Asleep # {} /\ \A t \in Threads : pc[t] = "asleep" \/ At(t, "out")) => m_available = <<>>
=============================================================================
