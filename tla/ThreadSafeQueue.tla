-------------------------- MODULE ThreadSafeQueue --------------------------
(***************************************************************************)
(* The blocking queue over a mutex and a condition variable (infra/        *)
(* ThreadSafeQueue.h), with producers that push and close it and consumers *)
(* that pop until they are told the end, as in its tests and benchmark.    *)
(* Values are numbered in the order of the pushes.                         *)
(***************************************************************************)
EXTENDS Integers, Sequences, CondVar

CONSTANTS
  Producers,   \* the other threads are consumers
  MaxItems     \* bound: values pushed

VARIABLES
  m_q, m_closed,
  pushed,      \* number of values pushed
  popped,      \* values popped, in order
  ended        \* consumers whose pop returned nullopt

queueVars == <<m_q, m_closed, pushed, popped, ended>>

Init ==
  /\ pc = [t \in Threads |-> "idle"] /\ owner = NoThread
  /\ m_q = <<>> /\ m_closed = FALSE
  /\ pushed = 0 /\ popped = <<>> /\ ended = {}

Goto(t, place) == pc' = [pc EXCEPT ![t] = place]
Consumers == Threads \ Producers

-----------------------------------------------------------------------------
(* Producers push nothing after close: "Producer is done." *)

push(t) ==
  /\ pc[t] = "idle" /\ Unlocked
  /\ pushed < MaxItems /\ ~m_closed
  /\ pushed' = pushed + 1
  /\ m_q' = Append(m_q, pushed')
  /\ Goto(t, "notify")
  /\ UNCHANGED <<owner, m_closed, popped, ended>>

pushNotify(t) ==
  /\ pc[t] = "notify"
  /\ notifyOne(t, "idle", {})
  /\ UNCHANGED queueVars

close(t) ==
  /\ pc[t] = "idle" /\ Unlocked
  /\ m_closed' = TRUE
  /\ Goto(t, "notify_all")
  /\ UNCHANGED <<owner, m_q, pushed, popped, ended>>

closeNotify(t) ==
  /\ pc[t] = "notify_all"
  /\ notifyAll(t, "idle", {})
  /\ UNCHANGED queueVars

-----------------------------------------------------------------------------
(* Consumers *)

pop(t) ==
  /\ pc[t] = "idle" /\ t \notin ended
  /\ Goto(t, "lock")
  /\ UNCHANGED <<owner, queueVars>>

\* tryPop on a queue that is not empty.
tryPop(t) ==
  /\ pc[t] = "idle" /\ Unlocked
  /\ m_q # <<>>
  /\ popped' = Append(popped, Head(m_q)) /\ m_q' = Tail(m_q)
  /\ UNCHANGED <<pc, owner, m_closed, pushed, ended>>

popWait(t) ==
  /\ pc[t] = "lock" /\ Unlocked
  /\ m_q = <<>> /\ ~m_closed
  /\ blocks(t)
  /\ UNCHANGED queueVars

popEnd_mutClosed(t) ==
  /\ pc[t] = "lock" /\ Unlocked
  /\ m_closed
  /\ ended' = ended \cup {t}
  /\ Goto(t, "idle")
  /\ UNCHANGED <<owner, m_q, m_closed, pushed, popped>>

popEnd(t) ==
  /\ pc[t] = "lock" /\ Unlocked
  /\ m_q = <<>> /\ m_closed
  /\ ended' = ended \cup {t}
  /\ Goto(t, "idle")
  /\ UNCHANGED <<owner, m_q, m_closed, pushed, popped>>

popValue(t) ==
  /\ pc[t] = "lock" /\ Unlocked
  /\ m_q # <<>>
  /\ popped' = Append(popped, Head(m_q)) /\ m_q' = Tail(m_q)
  /\ Goto(t, "idle")
  /\ UNCHANGED <<owner, m_closed, pushed, ended>>

sleep(t) == (sleeps(t) \/ stirs(t, {})) /\ UNCHANGED queueVars

-----------------------------------------------------------------------------
queueStep(t) ==
  pushNotify(t) \/ closeNotify(t) \/ popWait(t) \/ popEnd(t) \/ popValue(t) \/ sleep(t)

Next ==
  \/ \E t \in Threads : queueStep(t)
  \/ \E t \in Producers : push(t) \/ close(t)
  \/ \E t \in Consumers : pop(t) \/ tryPop(t)

-----------------------------------------------------------------------------
(* Properties *)

\* Every value pushed is still queued or was popped, once, in FIFO order, and
\* a consumer that was told the end left none behind: "consumers process every
\* queued item before exiting (no lost messages, no deadlock)"
\* (ThreadSafeQueue.h, push, pop, tryPop).
NoLostMessages ==
  /\ popped \o m_q = [i \in 1 .. pushed |-> i]
  /\ ended # {} => m_closed /\ m_q = <<>>
=============================================================================
