----------------------------- MODULE Eventcount -----------------------------
(***************************************************************************)
(* The event counter (infra/Eventcount.h): threads that wait for the epoch *)
(* to leave the value they observed, and threads that advance it without   *)
(* the mutex of the waiters.  moved[t] says that m_epoch is no longer what *)
(* thread t observed.                                                      *)
(***************************************************************************)
EXTENDS CondVar

VARIABLES
  moved,
  window    \* the epoch last moved between the thread's test and its sleep

eventVars == <<moved, window>>

Init ==
  /\ pc = [t \in Threads |-> "idle"] /\ owner = NoThread
  /\ moved = [t \in Threads |-> FALSE] /\ window = [t \in Threads |-> FALSE]

Goto(t, place) == pc' = [pc EXCEPT ![t] = place]

prepareWait(t) ==
  /\ pc[t] = "idle"
  /\ Goto(t, "prepared")
  /\ moved' = [moved EXCEPT ![t] = FALSE] /\ window' = [window EXCEPT ![t] = FALSE]
  /\ UNCHANGED owner

\* A caller that finds what it waited for does not commit.
commitWait(t) ==
  /\ pc[t] = "prepared"
  /\ Goto(t, "lock") \/ Goto(t, "idle")
  /\ UNCHANGED <<owner, eventVars>>

testEpoch(t) ==
  /\ pc[t] = "lock" /\ Unlocked
  /\ IF moved[t] THEN Goto(t, "idle") /\ UNCHANGED owner ELSE blocks(t)
  /\ UNCHANGED eventVars

sleep(t) == (sleeps(t) \/ stirs(t, {})) /\ UNCHANGED eventVars

advanceEpoch(t) ==
  /\ pc[t] = "idle"
  /\ Goto(t, "notify_all")
  /\ moved' = [u \in Threads |-> pc[u] # "idle"]
  /\ window' = [u \in Threads |-> pc[u] = "sleepy" \/ window[u]]
  /\ UNCHANGED owner

notifyWaiters_mutOne(t) ==
  /\ pc[t] = "notify_all"
  /\ notifyOne(t, "idle", {})
  /\ UNCHANGED eventVars

notifyWaiters(t) ==
  /\ pc[t] = "notify_all"
  /\ notifyAll(t, "idle", {})
  /\ UNCHANGED eventVars

Next ==
  \E t \in Threads :
    \/ prepareWait(t) \/ commitWait(t) \/ testEpoch(t) \/ sleep(t)
    \/ advanceEpoch(t) \/ notifyWaiters(t)

-----------------------------------------------------------------------------
(* Properties *)

\* A waiter that sleeps although the epoch has moved and no notification is
\* on its way lost it in one way only: the epoch moved while the waiter was
\* between its test and its sleep, which notifyAll does not exclude because
\* it does not take the mutex (commitWait, notifyAll).
MissedOnlyInWindow ==
  \A t \in Threads :
    pc[t] = "asleep" /\ moved[t] /\ (\A u \in Threads : pc[u] # "notify_all") => window[t]
=============================================================================
