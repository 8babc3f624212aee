--------------------------- MODULE FutexSemaphore ---------------------------
(***************************************************************************)
(* The counting semaphore over futex(2) (infra/FutexSemaphore.h, the Linux *)
(* build): every atomic access and every system call of a thread is a step.*)
(* The read-modify-write operations are full barriers, as on x86-64; the   *)
(* load and the compare-exchange of tryAcquire have the effect of one step.*)
(***************************************************************************)
EXTENDS Integers, FiniteSets

CONSTANTS
  Threads,
  InitialCount

VARIABLES
  m_count, m_waiters, m_shutdown,
  pc,      \* where a thread is in the semaphore, "idle" outside
  timed,   \* it is in tryAcquireFor
  late,    \* its deadline has passed
  n        \* how many threads its futexWake asks for

semVars == <<m_count, m_waiters, m_shutdown, pc, timed, late, n>>
stillVars == <<timed, late, n>>
semData == <<m_count, m_waiters, m_shutdown, timed, late, n>>

SemInit ==
  /\ m_count = InitialCount /\ m_waiters = 0 /\ m_shutdown = FALSE
  /\ pc = [t \in Threads |-> "idle"]
  /\ timed = [t \in Threads |-> FALSE] /\ late = [t \in Threads |-> FALSE]
  /\ n = [t \in Threads |-> 0]

Goto(t, place) == pc' = [pc EXCEPT ![t] = place]
Asleep == {t \in Threads : pc[t] = "asleep"}

-----------------------------------------------------------------------------
(* acquire and tryAcquireFor *)

acquire(t) ==
  /\ pc[t] = "idle"
  /\ Goto(t, "try")
  /\ timed' = [timed EXCEPT ![t] = FALSE] /\ late' = [late EXCEPT ![t] = FALSE]
  /\ UNCHANGED <<m_count, m_waiters, m_shutdown, n>>

tryAcquireFor(t) ==
  /\ pc[t] = "idle"
  /\ Goto(t, "try")
  /\ timed' = [timed EXCEPT ![t] = TRUE] /\ late' = [late EXCEPT ![t] = FALSE]
  /\ UNCHANGED <<m_count, m_waiters, m_shutdown, n>>

deadlinePasses(t) ==
  /\ timed[t] /\ ~late[t]
  /\ late' = [late EXCEPT ![t] = TRUE]
  /\ UNCHANGED <<m_count, m_waiters, m_shutdown, pc, timed, n>>

tryAcquire_mutZero(t) ==
  /\ pc[t] = "try"
  /\ m_count' = m_count - 1
  /\ Goto(t, "returned")
  /\ UNCHANGED <<m_waiters, m_shutdown, stillVars>>

tryAcquire(t) ==
  /\ pc[t] = "try"
  /\ IF m_count > 0
     THEN m_count' = m_count - 1 /\ Goto(t, "returned")
     ELSE UNCHANGED m_count /\ Goto(t, "check")
  /\ UNCHANGED <<m_waiters, m_shutdown, stillVars>>

checkDeadline_mutNever(t) ==
  /\ pc[t] = "check"
  /\ Goto(t, IF m_shutdown THEN (IF timed[t] THEN "refused" ELSE "returned") ELSE "enlist")
  /\ UNCHANGED <<m_count, m_waiters, m_shutdown, stillVars>>

\* The returns for a shutdown and for a deadline that has passed.
checkDeadline(t) ==
  /\ pc[t] = "check"
  /\ Goto(t, IF timed[t] /\ (m_shutdown \/ late[t]) THEN "refused"
             ELSE IF m_shutdown THEN "returned" ELSE "enlist")
  /\ UNCHANGED <<m_count, m_waiters, m_shutdown, stillVars>>

enlist(t) ==
  /\ pc[t] = "enlist"
  /\ m_waiters' = m_waiters + 1
  /\ Goto(t, "recheck")
  /\ UNCHANGED <<m_count, m_shutdown, stillVars>>

recheck(t) ==
  /\ pc[t] = "recheck"
  /\ Goto(t, IF m_count = 0 /\ ~m_shutdown THEN "wait" ELSE "delist")
  /\ UNCHANGED <<m_count, m_waiters, m_shutdown, stillVars>>

\* The kernel compares m_count with the expected 0 before the thread sleeps.
futexWait(t) ==
  /\ pc[t] = "wait"
  /\ Goto(t, IF m_count = 0 THEN "asleep" ELSE "delist")
  /\ UNCHANGED <<m_count, m_waiters, m_shutdown, stillVars>>

interrupted(t) ==
  /\ pc[t] = "asleep"
  /\ Goto(t, "delist")
  /\ UNCHANGED <<m_count, m_waiters, m_shutdown, stillVars>>

timesOut(t) ==
  /\ pc[t] = "asleep" /\ timed[t] /\ late[t]
  /\ Goto(t, "delist_late")
  /\ UNCHANGED <<m_count, m_waiters, m_shutdown, stillVars>>

delist(t) ==
  /\ pc[t] \in {"delist", "delist_late"}
  /\ m_waiters' = m_waiters - 1
  /\ Goto(t, IF pc[t] = "delist" THEN "try" ELSE "refused")
  /\ UNCHANGED <<m_count, m_shutdown, stillVars>>

\* The caller goes on with what acquire or tryAcquireFor returned.
leave(t) ==
  /\ pc[t] \in {"returned", "refused"}
  /\ Goto(t, "idle")
  /\ timed' = [timed EXCEPT ![t] = FALSE] /\ late' = [late EXCEPT ![t] = FALSE]
  /\ UNCHANGED <<m_count, m_waiters, m_shutdown, n>>

-----------------------------------------------------------------------------
(* release and shutdown *)

release(t, k) ==
  /\ pc[t] = "idle"
  /\ m_count' = m_count + k
  /\ n' = [n EXCEPT ![t] = k]
  /\ Goto(t, "wake")
  /\ UNCHANGED <<m_waiters, m_shutdown, timed, late>>

wake_mutOffByOne(t) ==
  /\ pc[t] = "wake"
  /\ Goto(t, IF m_waiters > 1 THEN "syscall" ELSE "idle")
  /\ UNCHANGED <<m_count, m_waiters, m_shutdown, stillVars>>

wake(t) ==
  /\ pc[t] = "wake"
  /\ Goto(t, IF m_waiters > 0 THEN "syscall" ELSE "idle")
  /\ UNCHANGED <<m_count, m_waiters, m_shutdown, stillVars>>

futexWake(t) ==
  /\ pc[t] = "syscall"
  /\ \E woken \in SUBSET Asleep :
       /\ Cardinality(woken) = IF n[t] < Cardinality(Asleep) THEN n[t] ELSE Cardinality(Asleep)
       /\ pc' = [u \in Threads |-> IF u \in woken THEN "delist" ELSE IF u = t THEN "idle" ELSE pc[u]]
  /\ UNCHANGED <<m_count, m_waiters, m_shutdown, stillVars>>

shutdown(t) ==
  /\ pc[t] = "idle"
  /\ m_shutdown' = TRUE
  /\ n' = [n EXCEPT ![t] = Cardinality(Threads)]
  /\ Goto(t, "syscall")
  /\ UNCHANGED <<m_count, m_waiters, timed, late>>

-----------------------------------------------------------------------------
\* The steps a thread takes inside the semaphore.
semStep(t) ==
  \/ deadlinePasses(t) \/ tryAcquire(t) \/ checkDeadline(t) \/ enlist(t) \/ recheck(t)
  \/ futexWait(t) \/ interrupted(t) \/ timesOut(t) \/ delist(t)
  \/ wake(t) \/ futexWake(t)

Places == {"idle", "try", "check", "enlist", "recheck", "wait", "asleep", "delist",
           "delist_late", "returned", "refused", "wake", "syscall"}
=============================================================================
