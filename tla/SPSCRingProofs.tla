--------------------------- MODULE SPSCRingProofs ---------------------------
(***************************************************************************)
(* The ring is a bounded FIFO queue, for every capacity of at least two    *)
(* slots and every set of values.                                          *)
(***************************************************************************)
EXTENDS SPSCRing, SequenceTheorems, TLAPS

\* Around the ring the indices come in the order tailSeen, m_tail, headSeen,
\* m_head, within less than one turn: an old index of the other thread is
\* always a safe one.
Ordered ==
  /\ Distance(tailSeen, m_tail) <= Distance(tailSeen, m_head)
  /\ Distance(m_tail, headSeen) <= Distance(m_tail, m_head)

\* What a thread inside a call has established.
InCall ==
  /\ pc # "idle" => ~Full(tailSeen) /\ value \in Values
  /\ pc = "publish" => m_slots[m_head] = value
  /\ cpc # "idle" => m_tail # headSeen
  /\ cpc = "advance" => out = m_slots[m_tail]

IInv == TypeOK /\ Ordered /\ InCall

-----------------------------------------------------------------------------
\* What a load of the other thread's index (acquire load in tryPush, tryPop
\* and empty) can return lies between the index seen last and the current one.
LEMMA LoadBetween ==
  ASSUME NEW a \in Indices, NEW b \in Indices, NEW x \in LoadRange(a, b)
  PROVE  x \in Indices /\ Distance(a, x) + Distance(x, b) = Distance(a, b)
<1>1. PICK k \in 0 .. Distance(a, b) : x = IndexAfter(a, k)
  BY Zenon DEF LoadRange
<1> QED
  BY <1>1, CapacityAssumption DEF Indices, Distance, IndexAfter

\* The constructor establishes the invariant.
LEMMA InitIInv == Init => IInv
BY CapacityAssumption DEF Init, IInv, TypeOK, Ordered, InCall, Indices, Distance

\* Every step of either thread keeps the invariant.
LEMMA NextIInv ==
  ASSUME IInv, [Next]_vars
  PROVE  IInv'
<1> USE CapacityAssumption DEF IInv, TypeOK, Indices, producerVars, consumerVars
<1>1. ASSUME NEW v \in Values, PushCheck(v)
      PROVE  IInv'
  <2>1. PICK t \in LoadRange(tailSeen, m_tail) :
          /\ tailSeen' = t
          /\ IF Full(t) THEN UNCHANGED <<pc, value>> ELSE pc' = "write" /\ value' = v
    BY <1>1, Zenon DEF PushCheck
  <2>2. t \in Indices /\ Distance(tailSeen, t) + Distance(t, m_tail) = Distance(tailSeen, m_tail)
    BY LoadBetween, Zenon
  <2>3. pc = "idle" /\ UNCHANGED <<m_head, m_slots, m_tail, cpc, out, headSeen, delivered>>
    BY <1>1, Zenon DEF PushCheck
  <2>4. TypeOK'
    BY <2>1, <2>2, <2>3, Zenon
  <2>5. Ordered'
    BY <2>1, <2>2, <2>3 DEF Ordered, Distance
  <2>6. InCall'
    BY <2>1, <2>3, Zenon DEF InCall, Full, increment
  <2> QED
    BY <2>4, <2>5, <2>6, Zenon
<1>2. CASE PushWrite
  <2>1. TypeOK'
    BY <1>2, Zenon DEF PushWrite
  <2>2. Ordered'
    BY <1>2, Zenon DEF PushWrite, Ordered, Distance
  <2>3. cpc = "advance" => m_head # m_tail
    BY DEF Ordered, InCall, Distance
  <2>4. InCall'
    BY <1>2, <2>3, Zenon DEF PushWrite, InCall, Full, increment
  <2> QED
    BY <2>1, <2>2, <2>4, Zenon
<1>3. CASE PushPublish
  <2>1. TypeOK'
    BY <1>3 DEF PushPublish, increment
  <2>2. Ordered'
    BY <1>3 DEF PushPublish, Ordered, InCall, Distance, Full, increment
  <2>3. InCall'
    BY <1>3, Zenon DEF PushPublish, InCall, Full, increment
  <2> QED
    BY <2>1, <2>2, <2>3, Zenon
<1>4. ASSUME NEW h \in LoadRange(headSeen, m_head), headSeen' = h, cpc = "idle",
             cpc' = "idle" \/ (cpc' = "read" /\ m_tail # h),
             UNCHANGED <<m_tail, out, delivered, m_slots, producerVars>>
      PROVE  IInv'
  <2>1. h \in Indices /\ Distance(headSeen, h) + Distance(h, m_head) = Distance(headSeen, m_head)
    BY LoadBetween, Zenon
  <2>2. TypeOK'
    BY <1>4, <2>1, Zenon
  <2>3. Ordered'
    BY <1>4, <2>1 DEF Ordered, Distance
  <2>4. InCall'
    BY <1>4, Zenon DEF InCall, Full, increment
  <2> QED
    BY <2>2, <2>3, <2>4, Zenon
<1>5. CASE PopCheck
  BY <1>4, <1>5, Zenon DEF PopCheck, PopCheckAt
<1>6. CASE CheckEmpty
  BY <1>4, <1>6, Zenon DEF CheckEmpty
<1>7. CASE PopRead
  BY <1>7, Zenon DEF PopRead, Ordered, InCall, Distance, Full, increment
<1>8. CASE PopAdvance
  <2>1. TypeOK'
    BY <1>8 DEF PopAdvance, increment
  <2>2. Ordered'
    BY <1>8 DEF PopAdvance, Ordered, InCall, Distance, increment
  <2>3. InCall'
    BY <1>8, Zenon DEF PopAdvance, InCall, Full, increment
  <2> QED
    BY <2>1, <2>2, <2>3, Zenon
<1>9. CASE UNCHANGED vars
  BY <1>9, ZenonT(30) DEF vars, Ordered, InCall, Distance, Full, increment
<1> QED
  BY <1>1, <1>2, <1>3, <1>5, <1>6, <1>7, <1>8, <1>9, Zenon DEF Next

\* The invariant holds in every reachable state.
LEMMA AlwaysIInv == Spec => []IInv
BY InitIInv, NextIInv, PTL DEF Spec

\* Indices stay inside m_slots for ever, however often they wrap.
THEOREM RingTypes == Spec => []TypeOK
<1>1. IInv => TypeOK
  BY Zenon DEF IInv
<1> QED
  BY <1>1, AlwaysIInv, PTL

\* The plain accesses of tryPush and tryPop to a slot are never concurrent.
THEOREM RingExclusive == Spec => []SlotExclusive
<1>1. IInv => SlotExclusive
  BY CapacityAssumption DEF IInv, TypeOK, Ordered, InCall, SlotExclusive, Distance, Indices
<1> QED
  BY <1>1, AlwaysIInv, PTL
-----------------------------------------------------------------------------
\* The published values form a sequence of at most capacity() elements.
LEMMA ContentsSeq ==
  ASSUME IInv
  PROVE  /\ Contents \in Seq(Values \cup {NoValue})
         /\ Len(Contents) = Distance(m_tail, m_head)
         /\ Len(Contents) \in 0 .. Capacity - 1
<1>1. Distance(m_tail, m_head) \in 0 .. Capacity - 1
  BY CapacityAssumption DEF IInv, TypeOK, Distance, Indices
<1>2. ASSUME NEW k \in 1 .. Distance(m_tail, m_head)
      PROVE  m_slots[IndexAfter(m_tail, k - 1)] \in Values \cup {NoValue}
  BY <1>1, CapacityAssumption DEF IInv, TypeOK, IndexAfter, Indices
<1> QED
  BY <1>1, <1>2 DEF Contents

\* The release store of tryPush appends the value to the queue, which had room.
LEMMA PublishAppends ==
  ASSUME IInv, PushPublish
  PROVE  /\ Contents' = Append(Contents, value)
         /\ Len(Contents) < Capacity - 1
<1> DEFINE n == Distance(m_tail, m_head)
<1>1. n \in Nat /\ n < Capacity - 1 /\ Distance(m_tail, m_head') = n + 1 /\ m_tail' = m_tail
  BY CapacityAssumption DEF IInv, TypeOK, Ordered, InCall, PushPublish, consumerVars,
                            Distance, Indices, Full, increment
<1>2. IndexAfter(m_tail, n) = m_head
  BY CapacityAssumption DEF IInv, TypeOK, Distance, Indices, IndexAfter
<1>3. m_slots' = m_slots /\ m_slots[m_head] = value
  BY Zenon DEF PushPublish, IInv, InCall
<1>4. Contents' = [k \in 1 .. n + 1 |-> m_slots[IndexAfter(m_tail, k - 1)]]
  BY <1>1, <1>3, Zenon DEF Contents, Distance, IndexAfter
<1>5. Contents \in Seq(Values \cup {NoValue}) /\ Len(Contents) = n
  BY ContentsSeq, Zenon
<1> DEFINE S == Values \cup {NoValue}
<1>6. /\ Append(Contents, value) \in Seq(S) /\ Len(Append(Contents, value)) = n + 1
      /\ \A k \in 1 .. n + 1 : Append(Contents, value)[k] = IF k = n + 1 THEN value ELSE Contents[k]
  <2>1. value \in S
    BY Zenon DEF IInv, TypeOK
  <2> HIDE DEF n, S
  <2> QED
    BY <1>1, <1>5, <2>1, AppendProperties DEF S
<1> HIDE DEF n
<1>7. \A k \in 1 .. n : Contents[k] = m_slots[IndexAfter(m_tail, k - 1)]
  BY Zenon DEF Contents, n
<1>8. \A k \in 1 .. n + 1 : m_slots[IndexAfter(m_tail, k - 1)] =
                              IF k = n + 1 THEN value ELSE Contents[k]
  <2> TAKE k \in 1 .. n + 1
  <2>1. CASE k = n + 1
    BY <1>1, <1>2, <1>3, <2>1
  <2>2. CASE k # n + 1
    BY <1>1, <1>7, <2>2
  <2> QED
    BY <2>1, <2>2, Zenon
<1>9. Contents' \in Seq(S) /\ Len(Contents') = n + 1
  <2>1. \A k \in 1 .. n + 1 : m_slots[IndexAfter(m_tail, k - 1)] \in S
    <3> TAKE k \in 1 .. n + 1
    <3>1. Append(Contents, value)[k] \in S
      <4> HIDE DEF S
      <4> QED
        BY <1>6, ElementOfSeq, Zenon
    <3> QED
      BY <1>6, <1>8, <3>1, Zenon
  <2> HIDE DEF S
  <2> QED
    BY <1>1, <1>4, <2>1
<1>10. \A k \in 1 .. n + 1 : Contents'[k] = Append(Contents, value)[k]
  BY <1>4, <1>6, <1>8, Zenon
<1> HIDE DEF S
<1>11. Contents' = Append(Contents, value)
  BY <1>6, <1>9, <1>10, SeqEqual, Zenon
<1> QED
  BY <1>1, <1>5, <1>11, Zenon

\* The release store of tryPop removes the oldest value, the one it returns.
LEMMA AdvanceRemoves ==
  ASSUME IInv, PopAdvance
  PROVE  /\ Contents # <<>>
         /\ delivered' = Head(Contents)
         /\ Contents' = Tail(Contents)
<1> DEFINE n == Distance(m_tail, m_head)
<1>1. /\ n \in Nat /\ n > 0 /\ Distance(m_tail', m_head) = n - 1
      /\ m_head' = m_head /\ m_slots' = m_slots
  BY CapacityAssumption DEF IInv, TypeOK, Ordered, InCall, PopAdvance, producerVars,
                            Distance, Indices, increment
<1>2. \A k \in 1 .. n - 1 : IndexAfter(m_tail', k - 1) = IndexAfter(m_tail, k)
  BY CapacityAssumption DEF IInv, TypeOK, PopAdvance, Distance, Indices, IndexAfter, increment
<1>3. IndexAfter(m_tail, 0) = m_tail
  BY CapacityAssumption DEF IInv, TypeOK, Indices, IndexAfter
<1>4. Contents \in Seq(Values \cup {NoValue}) /\ Len(Contents) = n
  BY ContentsSeq, Zenon
<1>5. Contents' = [k \in 1 .. n - 1 |-> m_slots[IndexAfter(m_tail', k - 1)]]
  BY <1>1, Zenon DEF Contents, Distance, IndexAfter
<1>6. delivered' = m_slots[m_tail]
  BY Zenon DEF PopAdvance, IInv, InCall
<1> HIDE DEF n
<1>7. \A k \in 1 .. n : Contents[k] = m_slots[IndexAfter(m_tail, k - 1)]
  BY Zenon DEF Contents, n
<1>8. Contents # <<>> /\ Head(Contents) = Contents[1]
  BY <1>1, <1>4
<1> DEFINE S == Values \cup {NoValue}
<1> HIDE DEF S
<1>9. /\ Tail(Contents) \in Seq(S) /\ Len(Tail(Contents)) = n - 1
      /\ \A k \in 1 .. n - 1 : Tail(Contents)[k] = Contents[k + 1]
  <2>1. Contents \in Seq(S)
    BY <1>4, Zenon DEF S
  <2> QED
    BY <1>4, <1>8, <2>1, HeadTailProperties, Zenon
<1>10. \A k \in 1 .. n - 1 : Contents[k + 1] = m_slots[IndexAfter(m_tail', k - 1)]
  BY <1>1, <1>2, <1>7
<1>11. Contents' \in Seq(S) /\ Len(Contents') = n - 1
  <2>1. \A k \in 1 .. n - 1 : m_slots[IndexAfter(m_tail', k - 1)] \in S
    BY <1>1, <1>4, <1>10, ElementOfSeq DEF S
  <2> QED
    BY <1>1, <1>5, <2>1
<1>12. \A k \in 1 .. n - 1 : Contents'[k] = Tail(Contents)[k]
  BY <1>5, <1>9, <1>10, Zenon
<1>13. Contents' = Tail(Contents)
  BY <1>9, <1>11, <1>12, SeqEqual, Zenon
<1> QED
  BY <1>1, <1>3, <1>6, <1>7, <1>8, <1>13

\* A write of tryPush to a slot does not touch a published value.
LEMMA WriteInvisible ==
  ASSUME IInv, PushWrite
  PROVE  Contents' = Contents
<1>1. m_tail' = m_tail /\ m_head' = m_head
  BY Zenon DEF PushWrite, consumerVars
<1>2. \A k \in 1 .. Distance(m_tail, m_head) :
        m_slots'[IndexAfter(m_tail, k - 1)] = m_slots[IndexAfter(m_tail, k - 1)]
  BY CapacityAssumption DEF IInv, TypeOK, PushWrite, Distance, Indices, IndexAfter
<1>3. Contents' = [k \in 1 .. Distance(m_tail, m_head) |-> m_slots'[IndexAfter(m_tail, k - 1)]]
  BY <1>1, Zenon DEF Contents, Distance, IndexAfter
<1> QED
  BY <1>2, <1>3, Zenon DEF Contents

\* Every step of the ring is a push, a pop or a stuttering step of the queue.
LEMMA StepSimulation ==
  ASSUME IInv, [Next]_vars
  PROVE  [Fifo!Next]_(Fifo!fifoVars)
<1> USE DEF Fifo!fifoVars
<1>1. CASE PushPublish
  <2>1. value \in Values /\ delivered' = delivered
    BY <1>1, Zenon DEF PushPublish, IInv, InCall, consumerVars
  <2>2. Fifo!Push(value)
    BY <1>1, <2>1, PublishAppends, Zenon DEF Fifo!Push
  <2> QED
    BY <2>1, <2>2, Zenon DEF Fifo!Next
<1>2. CASE PopAdvance
  BY <1>2, AdvanceRemoves, Zenon DEF Fifo!Next, Fifo!Pop
<1>3. CASE PushWrite
  BY <1>3, WriteInvisible, Zenon DEF PushWrite, consumerVars
<1>4. ASSUME UNCHANGED <<m_head, m_tail, m_slots, delivered>>
      PROVE  UNCHANGED <<Contents, delivered>>
  BY <1>4, Zenon DEF Contents, Distance, IndexAfter
<1>5. ASSUME NEW v \in Values, PushCheck(v)
      PROVE  UNCHANGED <<m_head, m_tail, m_slots, delivered>>
  BY <1>5, Zenon DEF PushCheck, consumerVars
<1>6. CASE PopCheck \/ PopRead \/ CheckEmpty \/ UNCHANGED vars
  BY <1>4, <1>6, Zenon DEF PopCheck, PopCheckAt, PopRead, CheckEmpty, vars, producerVars
<1> QED
  BY <1>1, <1>2, <1>3, <1>4, <1>5, <1>6, Zenon DEF Next

\* Refinement: tryPush and tryPop implement a bounded FIFO queue with
\* m_capacity - 1 places, whatever the interleaving of the two threads and
\* however late each sees the other's index.
THEOREM RingIsFifo == Spec => IsBoundedFifo
<1>1. Init => Fifo!Init
  <2> SUFFICES ASSUME Init
               PROVE  Fifo!Init
    BY Zenon
  <2>1. Distance(m_tail, m_head) = 0
    BY DEF Init, Distance
  <2>2. Contents = <<>>
    BY <2>1 DEF Contents
  <2> QED
    BY <2>2, Zenon DEF Init, Fifo!Init
<1> QED
  BY <1>1, AlwaysIInv, StepSimulation, PTL DEF Spec, IsBoundedFifo, Fifo!Spec
=============================================================================
