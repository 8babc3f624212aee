---------------------------- MODULE CvSemaphore ----------------------------
(***************************************************************************)
(* The two semaphores over a condition variable: CvSemaphore               *)
(* (infra/CvSemaphore.h), with everything under its mutex, and what        *)
(* FutexSemaphore (infra/FutexSemaphore.h) becomes on systems other than   *)
(* Linux, with its count and its flag outside the mutex and an epoch under *)
(* it.  Both have the interface and the variables of the futex build.      *)
(* moved[t] says that m_epoch has left the `seen' of a thread that waits.  *)
(***************************************************************************)
EXTENDS FutexSemaphore

CONSTANT NoThread
VARIABLES owner, moved

CV == INSTANCE CondVar

cvVars == <<semVars, owner, moved>>

CvInit == SemInit /\ owner = NoThread /\ moved = [t \in Threads |-> FALSE]

Waiting(t) == pc[t] \in {"lock", "lock_late"} /\ CV!Unlocked

-----------------------------------------------------------------------------
(* CvSemaphore *)

cv_enter(t, isTimed) ==
  /\ pc[t] = "idle"
  /\ Goto(t, "lock")
  /\ timed' = [timed EXCEPT ![t] = isTimed] /\ late' = [late EXCEPT ![t] = FALSE]
  /\ UNCHANGED <<m_count, m_waiters, m_shutdown, n, owner, moved>>

cv_Ready == m_count > 0 \/ m_shutdown

\* The predicate of wait holds: a unit is taken if there is one.
cv_take(t) ==
  /\ Waiting(t) /\ cv_Ready
  /\ m_count' = IF m_count > 0 THEN m_count - 1 ELSE 0
  /\ Goto(t, IF timed[t] /\ m_count = 0 THEN "refused" ELSE "returned")
  /\ UNCHANGED <<m_waiters, m_shutdown, stillVars, owner, moved>>

\* It does not hold: the thread sleeps, or wait_for returns false.
cv_wait(t) ==
  /\ Waiting(t) /\ ~cv_Ready
  /\ IF pc[t] = "lock" THEN CV!blocks(t) ELSE Goto(t, "refused") /\ UNCHANGED owner
  /\ UNCHANGED <<m_count, m_waiters, m_shutdown, stillVars, moved>>

cv_release(t, k) ==
  /\ pc[t] = "idle" /\ CV!Unlocked
  /\ m_count' = m_count + k
  /\ n' = [n EXCEPT ![t] = k]
  /\ Goto(t, "notify")
  /\ UNCHANGED <<m_waiters, m_shutdown, timed, late, owner, moved>>

cv_shutdown_mutUnlocked(t) ==
  /\ pc[t] = "idle"
  /\ m_shutdown' = TRUE
  /\ Goto(t, "notify_all")
  /\ UNCHANGED <<m_count, m_waiters, stillVars, owner, moved>>

cv_shutdown(t) ==
  /\ pc[t] = "idle" /\ CV!Unlocked
  /\ m_shutdown' = TRUE
  /\ Goto(t, "notify_all")
  /\ UNCHANGED <<m_count, m_waiters, stillVars, owner, moved>>

-----------------------------------------------------------------------------
(* FutexSemaphore without futex(2): tryAcquire is that of the futex build *)

fb_checkShutdown(t) ==
  /\ pc[t] = "check"
  /\ Goto(t, IF ~m_shutdown THEN "first_lock" ELSE IF timed[t] THEN "refused" ELSE "returned")
  /\ UNCHANGED <<m_count, m_waiters, m_shutdown, stillVars, owner, moved>>

fb_Ready(t) == m_shutdown \/ moved[t] \/ m_count > 0

\* The lock, the read of the epoch and the first test of the predicate.
fb_firstLock(t) ==
  /\ pc[t] = "first_lock" /\ CV!Unlocked
  /\ moved' = [moved EXCEPT ![t] = FALSE]
  /\ IF m_shutdown \/ m_count > 0 THEN Goto(t, "try") /\ UNCHANGED owner ELSE CV!blocks(t)
  /\ UNCHANGED <<m_count, m_waiters, m_shutdown, stillVars>>

fb_wait(t) ==
  /\ Waiting(t)
  /\ IF fb_Ready(t) THEN Goto(t, "try") /\ UNCHANGED owner
     ELSE IF pc[t] = "lock" THEN CV!blocks(t) ELSE Goto(t, "refused") /\ UNCHANGED owner
  /\ moved' = [moved EXCEPT ![t] = @ /\ pc'[t] = "sleepy"]
  /\ UNCHANGED <<m_count, m_waiters, m_shutdown, stillVars>>

fb_release(t, k) ==
  /\ pc[t] = "idle"
  /\ m_count' = m_count + k
  /\ n' = [n EXCEPT ![t] = k]
  /\ Goto(t, "epoch")
  /\ UNCHANGED <<m_waiters, m_shutdown, timed, late, owner, moved>>

fb_shutdown(t) ==
  /\ pc[t] = "idle"
  /\ m_shutdown' = TRUE
  /\ Goto(t, "epoch_all")
  /\ UNCHANGED <<m_count, m_waiters, stillVars, owner, moved>>

\* ++m_epoch under the mutex.
fb_epoch(t) ==
  /\ pc[t] \in {"epoch", "epoch_all"} /\ CV!Unlocked
  /\ moved' = [u \in Threads |-> pc[u] \in CV!InWait]
  /\ Goto(t, IF pc[t] = "epoch" THEN "notify" ELSE "notify_all")
  /\ UNCHANGED <<m_count, m_waiters, m_shutdown, stillVars, owner>>

-----------------------------------------------------------------------------
(* Both *)

Expired == {t \in Threads : late[t]}

cv_sleep(t) ==
  /\ CV!sleeps(t) \/ CV!stirs(t, Expired)
  /\ UNCHANGED <<m_count, m_waiters, m_shutdown, stillVars, moved>>

\* The loop of notify_one.
cv_notify(t) ==
  /\ pc[t] = "notify"
  /\ n' = [n EXCEPT ![t] = @ - 1]
  /\ CV!notifyOne(t, IF n[t] = 1 THEN "idle" ELSE "notify", Expired)
  /\ UNCHANGED <<m_count, m_waiters, m_shutdown, timed, late, moved>>

cv_notifyAll(t) ==
  /\ pc[t] = "notify_all"
  /\ CV!notifyAll(t, "idle", Expired)
  /\ UNCHANGED <<m_count, m_waiters, m_shutdown, stillVars, moved>>

cvStep(t) == cv_take(t) \/ cv_wait(t) \/ cv_sleep(t) \/ cv_notify(t) \/ cv_notifyAll(t)

fbStep(t) ==
  \/ tryAcquire(t) /\ UNCHANGED <<owner, moved>>
  \/ fb_checkShutdown(t) \/ fb_firstLock(t) \/ fb_wait(t) \/ fb_epoch(t)
  \/ cv_sleep(t) \/ cv_notify(t) \/ cv_notifyAll(t)
=============================================================================
