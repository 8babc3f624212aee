------------------------------ MODULE CondVar ------------------------------
(***************************************************************************)
(* std::mutex and std::condition_variable as the classes of infra/ use     *)
(* them.  A critical section without a wait is one step of its thread,     *)
(* taken while the mutex is free.  In wait(lock, pred) a thread at "lock"  *)
(* tests the predicate under the mutex; if it fails the thread keeps the   *)
(* mutex until it sleeps, so that a change made without the mutex can fall *)
(* between the test and the sleep.                                         *)
(***************************************************************************)
CONSTANTS Threads, NoThread
VARIABLES
  pc,      \* where a thread is, "idle" outside
  owner    \* the thread that holds the mutex between two steps

Unlocked == owner = NoThread
Asleep == {t \in Threads : pc[t] = "asleep"}
InWait == {"sleepy", "asleep", "lock", "lock_late"}

\* The predicate was false.
blocks(t) == owner' = t /\ pc' = [pc EXCEPT ![t] = "sleepy"]

sleeps(t) ==
  /\ pc[t] = "sleepy"
  /\ owner' = NoThread /\ pc' = [pc EXCEPT ![t] = "asleep"]

\* A thread whose deadline has passed (a member of `expired') has timed out
\* when it wakes, whatever woke it: the predicate is tested a last time.
Woken(t, expired) == IF t \in expired THEN "lock_late" ELSE "lock"

\* A spurious wake-up, or the deadline.
stirs(t, expired) ==
  /\ pc[t] = "asleep"
  /\ pc' = [pc EXCEPT ![t] = Woken(t, expired)] /\ UNCHANGED owner

\* One sleeper wakes, if there is one; the notifier goes on at `place'.
notifyOne(t, place, expired) ==
  /\ IF Asleep = {}
     THEN pc' = [pc EXCEPT ![t] = place]
     ELSE \E u \in Asleep : pc' = [pc EXCEPT ![t] = place, ![u] = Woken(u, expired)]
  /\ UNCHANGED owner

notifyAll(t, place, expired) ==
  /\ pc' = [u \in Threads |-> IF u = t THEN place
                             ELSE IF u \in Asleep THEN Woken(u, expired) ELSE pc[u]]
  /\ UNCHANGED owner
=============================================================================
