-------------------------- MODULE SemaphoreClients --------------------------
(***************************************************************************)
(* Threads that use a semaphore in every way its interface offers:         *)
(* blocking, timed and immediate acquires, releases of one or more units,  *)
(* shutdown.  The semaphore is FutexSemaphore on Linux ("futex"),          *)
(* FutexSemaphore elsewhere ("fallback") or CvSemaphore ("cv").            *)
(***************************************************************************)
EXTENDS CvSemaphore

CONSTANTS
  Users,        \* bound: the threads that use the semaphore
  MaxCount,     \* bound on m_count
  MaxRelease    \* bound on the argument of release

VARIABLE build

Builds == {"futex", "fallback", "cv"}

Init == CvInit /\ build \in Builds

\* tryAcquire as a call of its own that succeeds.
takeNow(t) ==
  /\ pc[t] = "idle" /\ m_count > 0 /\ CV!Unlocked
  /\ m_count' = m_count - 1
  /\ UNCHANGED <<m_waiters, m_shutdown, pc, stillVars, owner, moved>>

Releasable == {k \in 1 .. MaxRelease : m_count + k <= MaxCount}

futexNext(t) ==
  /\ \/ semStep(t)
     \/ acquire(t) \/ tryAcquireFor(t) \/ shutdown(t)
     \/ \E k \in Releasable : release(t, k)
  /\ UNCHANGED <<owner, moved>>

fallbackNext(t) ==
  \/ fbStep(t)
  \/ (acquire(t) \/ tryAcquireFor(t)) /\ UNCHANGED <<owner, moved>>
  \/ fb_shutdown(t)
  \/ \E k \in Releasable : fb_release(t, k)

cvNext(t) ==
  \/ cvStep(t)
  \/ cv_enter(t, TRUE) \/ cv_enter(t, FALSE) \/ cv_shutdown(t)
  \/ \E k \in Releasable : cv_release(t, k)

\* What every build has: time passes, and the caller goes on.
callerNext(t) == (deadlinePasses(t) \/ leave(t)) /\ UNCHANGED <<owner, moved>>

Next ==
  /\ \E t \in Users :
       \/ build = "futex" /\ futexNext(t)
       \/ build = "fallback" /\ fallbackNext(t)
       \/ build = "cv" /\ cvNext(t)
       \/ build \in Builds /\ (takeNow(t) \/ callerNext(t))
  /\ UNCHANGED build

vars == <<cvVars, build>>

\* A thread inside the semaphore is scheduled; nothing wakes it from its sleep
\* except another thread and its deadline.
Awake(t) == pc[t] # "asleep" \/ late[t]

futexRuns(t) ==
  build = "futex" /\ Awake(t) /\ semStep(t) /\ UNCHANGED <<owner, moved, build>>

cvRuns(t) ==
  /\ Awake(t)
  /\ \/ build = "fallback" /\ fbStep(t)
     \/ build = "cv" /\ cvStep(t)
  /\ UNCHANGED build

TimePasses(t) == deadlinePasses(t) /\ UNCHANGED <<owner, moved, build>>

\* Threads run and time passes; the mutex is in the end given to every thread
\* that asks for it.
Fairness ==
  \A t \in Users : WF_vars(futexRuns(t)) /\ SF_vars(cvRuns(t)) /\ WF_vars(TimePasses(t))

-----------------------------------------------------------------------------
(* Properties *)

\* The fields of the semaphore have their types; in particular m_count never
\* goes below zero, whoever wins the compare-exchange of tryAcquire.
SemTypeOK ==
  /\ m_count \in 0 .. MaxCount
  /\ m_waiters \in 0 .. Cardinality(Threads)
  /\ m_shutdown \in BOOLEAN
  /\ timed \in [Threads -> BOOLEAN] /\ late \in [Threads -> BOOLEAN]
  /\ n \in [Threads -> 0 .. MaxRelease + Cardinality(Threads)]
  /\ moved \in [Threads -> BOOLEAN]

\* No wake-up is lost: when a thread sleeps although units are there, some
\* other thread is still on its way to wake it or to take them (release
\* between its update and its notification, acquire between its tests).
NoLostWakeup ==
  (build \in Builds /\ Asleep # {} /\ m_count > 0)
    => \E t \in Threads : pc[t] \notin {"idle", "asleep", "returned", "refused", "delist_late"}

\* tryAcquireFor returns, whatever the other threads do and however often the
\* wait is interrupted (tryAcquireFor of FutexSemaphore on Linux and of
\* CvSemaphore; the fallback has no test of the deadline in its loop).
TimedReturns ==
  \A t \in Threads : (timed[t] /\ build # "fallback") ~> (pc[t] \in {"returned", "refused"})

\* shutdown() wakes every thread that is blocked in acquire, also one that is
\* about to sleep, in the two semaphores over a condition variable (shutdown,
\* acquire).
ShutdownWakes ==
  \A t \in Threads :
    (build # "futex" /\ m_shutdown /\ pc[t] \in CV!InWait) ~> (pc[t] \in {"returned", "refused"})
=============================================================================
