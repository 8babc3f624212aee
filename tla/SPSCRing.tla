------------------------------ MODULE SPSCRing ------------------------------
(***************************************************************************)
(* The single-producer single-consumer ring (infra/SPSCRingBuffer.h), one  *)
(* step per access to shared memory.                                       *)
(*                                                                         *)
(* The producer is the only writer of m_head, the consumer the only writer *)
(* of m_tail, so a thread always reads its own index exactly.  The index   *)
(* of the other thread is an atomic that may be read late: an acquire load *)
(* returns any value stored since the last one this thread has seen.  The  *)
(* release stores and acquire loads make every access that precedes a      *)
(* store visible to the thread that reads the stored value, which is the   *)
(* order of the steps below.                                               *)
(***************************************************************************)
EXTENDS Integers, Sequences

CONSTANTS
  Values,     \* elements
  Capacity,   \* m_capacity: number of slots, a power of two
  NoValue     \* content of a slot never written

ASSUME CapacityAssumption == Capacity \in Nat /\ Capacity >= 2

VARIABLES
  m_head, m_tail, m_slots,
  pc,         \* the producer: "idle", or inside tryPush before the write
              \* of the slot or before the store of m_head
  value,      \* argument of tryPush
  tailSeen,   \* the m_tail the producer read last
  cpc,        \* the consumer: "idle", or inside tryPop before the read of
              \* the slot or before the store of m_tail
  out,        \* output argument of tryPop
  headSeen,   \* the m_head the consumer read last
  delivered   \* the value the last successful tryPop returned

vars == <<m_head, m_tail, m_slots, pc, value, tailSeen, cpc, out, headSeen, delivered>>
producerVars == <<m_head, pc, value, tailSeen>>
consumerVars == <<m_tail, cpc, out, headSeen, delivered>>

Indices == 0 .. Capacity - 1

\* (i + 1) & m_mask: the mask of a power of two wraps the last index to 0.
increment(i) == IF i + 1 = Capacity THEN 0 ELSE i + 1

\* Number of steps from index a forward to index b, and the index k steps
\* after a.
Distance(a, b) == IF a <= b THEN b - a ELSE b + Capacity - a
IndexAfter(a, k) == IF a + k < Capacity THEN a + k ELSE a + k - Capacity

\* What a load of an index can return: the values it took from the one seen
\* last to the current one.
LoadRange(seen, current) == {IndexAfter(seen, k) : k \in 0 .. Distance(seen, current)}

Init ==
  /\ m_head = 0 /\ m_tail = 0
  /\ m_slots = [i \in Indices |-> NoValue]
  /\ pc = "idle" /\ value = NoValue /\ tailSeen = 0
  /\ cpc = "idle" /\ out = NoValue /\ headSeen = 0
  /\ delivered = NoValue

-----------------------------------------------------------------------------
(* tryPush *)

\* One slot stays empty, so that full and empty differ.
Full(t) == increment(m_head) = t

PushCheck(v) ==
  /\ pc = "idle"
  /\ \E t \in LoadRange(tailSeen, m_tail) :
       /\ tailSeen' = t
       /\ IF Full(t)
          THEN UNCHANGED <<pc, value>>
          ELSE pc' = "write" /\ value' = v
  /\ UNCHANGED <<m_head, m_slots, consumerVars>>

PushWrite ==
  /\ pc = "write"
  /\ m_slots' = [m_slots EXCEPT ![m_head] = value]
  /\ pc' = "publish"
  /\ UNCHANGED <<m_head, value, tailSeen, consumerVars>>

PushPublish ==
  /\ pc = "publish"
  /\ m_head' = increment(m_head)
  /\ pc' = "idle"
  /\ UNCHANGED <<m_slots, value, tailSeen, consumerVars>>

-----------------------------------------------------------------------------
(* tryPop, and empty() as the consumer calls it *)

PopCheckAt_mutCached(h) ==
  /\ cpc = "idle"
  /\ IF m_tail = headSeen THEN UNCHANGED cpc ELSE cpc' = "read"
  /\ UNCHANGED <<m_tail, out, headSeen, delivered, m_slots, producerVars>>

PopCheckAt_mutNoEmptyTest(h) ==
  /\ cpc = "idle"
  /\ headSeen' = h
  /\ cpc' = "read"
  /\ UNCHANGED <<m_tail, out, delivered, m_slots, producerVars>>

PopCheckAt(h) ==
  /\ cpc = "idle"
  /\ headSeen' = h
  /\ IF m_tail = h THEN UNCHANGED cpc ELSE cpc' = "read"
  /\ UNCHANGED <<m_tail, out, delivered, m_slots, producerVars>>

PopCheck == \E h \in LoadRange(headSeen, m_head) : PopCheckAt(h)

PopRead ==
  /\ cpc = "read"
  /\ out' = m_slots[m_tail]
  /\ cpc' = "advance"
  /\ UNCHANGED <<m_tail, headSeen, delivered, m_slots, producerVars>>

PopAdvance_mutSkip ==
  /\ cpc = "advance"
  /\ m_tail' = headSeen
  /\ delivered' = out
  /\ cpc' = "idle"
  /\ UNCHANGED <<out, headSeen, m_slots, producerVars>>

PopAdvance ==
  /\ cpc = "advance"
  /\ m_tail' = increment(m_tail)
  /\ delivered' = out
  /\ cpc' = "idle"
  /\ UNCHANGED <<out, headSeen, m_slots, producerVars>>

CheckEmpty ==
  /\ cpc = "idle"
  /\ headSeen' \in LoadRange(headSeen, m_head)
  /\ UNCHANGED <<m_tail, cpc, out, delivered, m_slots, producerVars>>

-----------------------------------------------------------------------------
Next ==
  \/ \E v \in Values : PushCheck(v)
  \/ PushWrite
  \/ PushPublish
  \/ PopCheck
  \/ PopRead
  \/ PopAdvance
  \/ CheckEmpty

Spec == Init /\ [][Next]_vars

\* A consumer that polls (the worker loops) finishes each call and reads a
\* stored index after finitely many polls.
FairSpec ==
  /\ Spec
  /\ WF_vars(PopCheckAt(m_head))
  /\ WF_vars(PopRead \/ PopAdvance)

-----------------------------------------------------------------------------
(* Properties *)

\* Values published and not yet taken, oldest first.
Contents ==
  [k \in 1 .. Distance(m_tail, m_head) |-> m_slots[IndexAfter(m_tail, k - 1)]]

\* Indices stay inside the ring, whatever they wrapped (m_head, m_tail).
TypeOK ==
  /\ m_head \in Indices /\ m_tail \in Indices
  /\ m_slots \in [Indices -> Values \cup {NoValue}]
  /\ pc \in {"idle", "write", "publish"}
  /\ value \in Values \cup {NoValue}
  /\ tailSeen \in Indices
  /\ cpc \in {"idle", "read", "advance"}
  /\ out \in Values \cup {NoValue}
  /\ headSeen \in Indices
  /\ delivered \in Values \cup {NoValue}

\* The plain accesses to m_slots never race: while the producer is about to
\* write a slot, the consumer is not about to read it.
SlotExclusive == ~(pc = "write" /\ cpc = "read" /\ m_head = m_tail)

\* The ring is a bounded FIFO queue although either thread may act on an old
\* value of the other's index: no value lost, duplicated or reordered, never
\* more than capacity() of them.
Fifo == INSTANCE BoundedFifo WITH queue <- Contents, Bound <- Capacity - 1
IsBoundedFifo == Fifo!Spec

\* Whatever is published is eventually taken by a consumer that keeps polling
\* (workerLoop, DurabilityPipeline::run): it cannot miss a store for ever.
PublishedIsTaken ==
  \A i \in Indices : (m_tail = i /\ m_head # i) ~> m_tail # i
=============================================================================
