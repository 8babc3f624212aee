------------------------- MODULE BlockingPrimitives -------------------------
(***************************************************************************)
(* The blocking primitives of infra/, each used by the same threads: the   *)
(* semaphores of SemaphoreClients, ThreadSafeQueue and Eventcount.  build  *)
(* says which one a behaviour is about; it never changes.                  *)
(***************************************************************************)
EXTENDS SemaphoreClients, Sequences

CONSTANTS Producers, MaxItems

ASSUME PrimitivesAssumption ==
  /\ IsFiniteSet(Threads) /\ NoThread \notin Threads
  /\ Users \subseteq Threads /\ Producers \subseteq Threads
  /\ MaxCount \in Nat /\ MaxRelease \in Nat /\ MaxItems \in Nat
  /\ InitialCount \in 0 .. MaxCount

VARIABLES m_q, m_closed, pushed, popped, ended, window

Queue == INSTANCE ThreadSafeQueue
Event == INSTANCE Eventcount

queueVars == <<m_q, m_closed, pushed, popped, ended>>
allVars == <<vars, queueVars, window>>

AllInit ==
  /\ CvInit /\ Queue!Init /\ Event!Init
  /\ build \in Builds \cup {"queue", "eventcount"}

AllNext ==
  \/ Next /\ UNCHANGED <<queueVars, window>>
  \/ build = "queue" /\ Queue!Next /\ UNCHANGED <<semData, moved, window, build>>
  \/ build = "eventcount" /\ Event!Next /\ UNCHANGED <<semData, queueVars, build>>

queueRuns(t) ==
  /\ build = "queue" /\ pc[t] # "asleep" /\ Queue!queueStep(t)
  /\ UNCHANGED <<semData, moved, window, build>>

AllSpec ==
  /\ AllInit /\ [][AllNext]_allVars
  /\ Fairness
  /\ \A t \in Threads : SF_allVars(queueRuns(t))

-----------------------------------------------------------------------------
(* Properties *)

AllPlaces == Places \cup CV!InWait
               \cup {"first_lock", "epoch", "epoch_all", "notify", "notify_all", "prepared"}

\* Every field has its type; in particular the count of a semaphore stays
\* between zero and the units released (tryAcquire, acquire, release).
TypeOK ==
  /\ SemTypeOK
  /\ pc \in [Threads -> AllPlaces] /\ owner \in Threads \cup {NoThread}
  /\ m_q \in Seq(1 .. MaxItems) /\ m_closed \in BOOLEAN
  /\ window \in [Threads -> BOOLEAN]

\* NoLostMessages of ThreadSafeQueue.
NoLostMessages == Queue!NoLostMessages

\* MissedOnlyInWindow of Eventcount.
MissedOnlyInWindow == build = "eventcount" => Event!MissedOnlyInWindow

\* close() ends every pop that waits, once the queue is drained, and a value
\* in the queue ends it sooner: no consumer stays blocked (pop, close, push).
ConsumersWake ==
  \A t \in Threads :
    (build = "queue" /\ pc[t] \in CV!InWait /\ (m_closed \/ m_q # <<>>))
      ~> (pc[t] = "idle" \/ (~m_closed /\ m_q = <<>>))

\* No waiter over a condition variable sleeps through the end: ShutdownWakes
\* and ConsumersWake (CvSemaphore, FutexSemaphore, ThreadSafeQueue).
WaitersWake == ShutdownWakes /\ ConsumersWake
=============================================================================
