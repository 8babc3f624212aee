-------------------------- MODULE RecoveryProofs --------------------------
(***************************************************************************)
(* What was acknowledged survives every crash and every loss of power, for *)
(* every number of fills and failures, every ring, batch size and journal  *)
(* capacity.  Journal and store stay in order and in step, as far as the   *)
(* failures allow, and a report that is ok is right.                       *)
(***************************************************************************)
EXTENDS Recovery, SequenceTheorems, WellFoundedInduction, TLAPS

\* The journal image counts a record of the fill.
Holds(j, fill) == \E i \in 1 .. j.count : j.records[i] = fill

Types ==
  /\ jmap \in Journal(Nat) /\ jdisk \in Journal(Nat)
  /\ produced \in Nat /\ ring \in Seq(Nat)
  /\ batch \in Seq(Nat) /\ next \in Nat

\* The mapping is what was synced, and appended records: a write-back of any
\* of its pages changes nothing that the last msync covered.
Extends ==
  /\ jdisk.count <= jmap.count
  /\ \A i \in 1 .. jdisk.count : jmap.records[i] = jdisk.records[i]

\* A journal with records has a valid header, and one that the worker appends
\* to; only a file that was empty is initialised.
Headers ==
  /\ jmap.count > 0 => jmap.header = "valid"
  /\ wpc = "header" /\ newFile => jmap.count = 0
  /\ wpc = "capacity" => jmap.count = 0
  /\ wpc \in {"load", "loop", "pop", "append", "count", "flush", "truncate", "write", "ack"}
       => jmap.header = "valid"

\* How far flushBatch has come at every place of the worker.
Progress ==
  /\ ~m_running => wpc = "none"
  /\ wpc \notin {"append", "count", "flush", "truncate", "write", "ack", "unwind"} => next = 0
  /\ wpc \in {"append", "count"} => next < Len(batch)
  /\ wpc = "count" => jmap.count < JournalCapacity /\ jmap.records[jmap.count + 1] = batch[next + 1]
  /\ wpc = "flush" => next = Len(batch)
  /\ wpc \in {"append", "count", "flush"} => \A k \in 1 .. next : Holds(jmap, batch[k])
  /\ wpc \in {"truncate", "write", "ack"} => \A k \in 1 .. Len(batch) : Holds(jdisk, batch[k])

Acked == \A f \in acked : Holds(jdisk, f)

IInv == Types /\ Extends /\ Headers /\ Progress /\ Acked

-----------------------------------------------------------------------------
\* A ring, a batch, a store and a journal without entries are within their
\* bounds, whatever these are (the state of a new object and of a new file).
LEMMA EmptySizes ==
  /\ <<>> \in Seq(Fills) /\ Len(<<>>) = 0 /\ 0 \in 0 .. Len(<<>>)
  /\ 0 \in 0 .. MaxFills /\ 0 \in 0 .. JournalCapacity /\ Len(<<>>) <= RingCapacity
  /\ \A i \in 1 .. 0 : FALSE
<1>1. <<>> \in Seq(Fills) /\ Len(<<>>) = 0 /\ 0 \in 0 .. 0
  OBVIOUS
<1>2. 0 \in 0 .. MaxFills /\ 0 <= RingCapacity
  BY PipelineAssumption
<1>3. 0 \in 0 .. JournalCapacity
  BY JournalAssumption
<1>4. \A i \in 1 .. 0 : FALSE
  OBVIOUS
<1> QED
  BY <1>1, <1>2, <1>3, <1>4, Zenon

\* The store of a record behind the counted ones of an image that is not full
\* leaves those alone (append).
LEMMA StoreRecordFacts ==
  ASSUME NEW j \in Journal(Nat), j.count < JournalCapacity, NEW f \in Nat
  PROVE  /\ storeRecord(j, f) \in Journal(Nat)
         /\ storeRecord(j, f).header = j.header /\ storeRecord(j, f).count = j.count
         /\ storeRecord(j, f).records[j.count + 1] = f
         /\ \A i \in 1 .. j.count : storeRecord(j, f).records[i] = j.records[i]
<1> DEFINE r == [j.records EXCEPT ![j.count + 1] = f]
<1>1. /\ j.count \in Nat /\ j.count + 1 \in RecordIndices
      /\ j.records \in [RecordIndices -> Nat \cup {0}]
      /\ \A i \in 1 .. j.count : i \in RecordIndices /\ i # j.count + 1
  BY JournalAssumption DEF Journal, RecordIndices
<1>2. /\ r \in [RecordIndices -> Nat \cup {0}] /\ r[j.count + 1] = f
      /\ \A i \in 1 .. j.count : r[i] = j.records[i]
  BY <1>1
<1> HIDE DEF r
<1>3. storeRecord(j, f) = [j EXCEPT !.records = r]
  BY DEF storeRecord, r
<1> QED
  BY <1>2, <1>3, Zenon DEF Journal

\* The store of the new count leaves every record as it is (append).
LEMMA StoreCountFacts ==
  ASSUME NEW j \in Journal(Nat), j.count < JournalCapacity
  PROVE  /\ storeCount(j) \in Journal(Nat) /\ storeCount(j).header = j.header
         /\ storeCount(j).count = j.count + 1 /\ storeCount(j).records = j.records
<1>1. j.count + 1 \in 0 .. JournalCapacity
  BY JournalAssumption DEF Journal
<1> QED
  BY <1>1 DEF storeCount, Journal

\* What a loss of power leaves of a mapping that extends the synced image.
LEMMA WrittenBackFacts ==
  ASSUME NEW d \in Journal(Nat), NEW m \in Journal(Nat), d.count <= m.count,
         \A i \in 1 .. d.count : m.records[i] = d.records[i],
         NEW w \in WrittenBack(d, m)
  PROVE  /\ w \in Journal(Nat)
         /\ w.count > 0 => w.header = "valid"
         /\ d.count <= w.count
         /\ \A i \in 1 .. d.count : w.records[i] = d.records[i]
<1>1. PICK h \in HeadersSince(d, m), newer \in SUBSET RecordIndices :
        w = [header |-> h[1], count |-> h[2],
             records |-> [i \in RecordIndices |-> IF i \in newer THEN m.records[i]
                                                                 ELSE d.records[i]]]
  BY DEF WrittenBack
<1>2. /\ h[1] \in {"none", "zeroed", "partial", "valid"} /\ h[2] \in d.count .. m.count
      /\ h[1] = "valid" \/ h[2] = 0
  BY DEF HeadersSince
<1>3. /\ w.header = h[1] /\ w.count = h[2]
      /\ w.records = [i \in RecordIndices |-> IF i \in newer THEN m.records[i]
                                                             ELSE d.records[i]]
  BY <1>1, Zenon
<1>4. /\ d.count \in 0 .. JournalCapacity /\ m.count \in 0 .. JournalCapacity
      /\ d.records \in [RecordIndices -> Nat \cup {0}]
      /\ m.records \in [RecordIndices -> Nat \cup {0}]
  BY DEF Journal
<1>5. w.records \in [RecordIndices -> Nat \cup {0}]
  BY <1>3, <1>4, SMTT(30)
<1>6. w \in Journal(Nat)
  BY <1>1, <1>2, <1>4, <1>5, <1>3, JournalAssumption, SMTT(30) DEF Journal
<1>7. \A i \in 1 .. d.count : w.records[i] = d.records[i]
  BY <1>3, <1>4, JournalAssumption DEF RecordIndices
<1> QED
  BY <1>2, <1>3, <1>4, <1>6, <1>7, JournalAssumption, SMTT(30)

\* A fresh pipeline over missing files satisfies the invariant.
LEMMA InitIInv == Init => IInv
BY JournalAssumption DEF Init, PipeInit, IInv, Types, Extends, Headers, Progress, Acked, Holds,
   EmptyJournal, Journal, RecordIndices

\* A step that leaves the journal, its worker and the acknowledged fills alone.
LEMMA Frame ==
  ASSUME IInv, Types',
         UNCHANGED <<jmap, jdisk, m_running, wpc, newFile, batch, next, acked>>
  PROVE  IInv'
BY ZenonT(60) DEF IInv, Extends, Headers, Progress, Acked, Holds

\* An msync (flush, the end of run, close) loses nothing that was synced before.
LEMMA SyncKeeps ==
  ASSUME IInv, NEW f, Holds(jdisk, f)
  PROVE  Holds(jmap, f)
BY DEF IInv, Types, Extends, Holds, Journal

\* The owner (start, tryPublish, stop, join, a new pipeline object) touches
\* neither the journal nor what the worker has of it.
LEMMA OwnerIInv ==
  ASSUME IInv, ownerStep
  PROVE  IInv'
<1> USE DEF fileVars, workerVars, flagVars
<1>1. CASE start
  BY <1>1, ZenonT(30) DEF start, IInv, Types, Extends, Headers, Progress, Acked, Holds
<1>2. CASE tryPublish
  BY <1>2, Frame, ZenonT(30) DEF tryPublish, IInv, Types
<1>3. CASE tryPush
  <2>1. produced' \in Nat /\ ring' \in Seq(Nat)
    <3>1. CASE Len(ring) < RingCapacity
      <4>1. produced' = produced + 1 /\ ring' = Append(ring, produced')
        BY <1>3, <3>1, Zenon DEF tryPush
      <4>2. produced' \in Nat
        BY <4>1 DEF IInv, Types
      <4> QED
        BY <4>1, <4>2 DEF IInv, Types
    <3>2. CASE ~(Len(ring) < RingCapacity)
      BY <1>3, <3>2, Zenon DEF tryPush, IInv, Types
    <3> QED
      BY <3>1, <3>2
  <2> QED
    BY <1>3, <2>1, Frame, Zenon DEF tryPush, IInv, Types
<1>4. CASE stop
  BY <1>4, Frame, Zenon DEF stop, IInv, Types
<1>5. CASE join
  BY <1>5, ZenonT(30) DEF join, IInv, Types, Extends, Headers, Progress, Acked, Holds
<1>6. CASE recreate
  BY <1>6 DEF recreate, NewObject, IInv, Types, Extends, Headers, Progress, Acked, Holds
<1> QED
  BY <1>1, <1>2, <1>3, <1>4, <1>5, <1>6, ZenonT(30) DEF ownerStep

-----------------------------------------------------------------------------
\* Opening the journal (FillJournal's constructor) and loading the store: only
\* a file without records is initialised.
LEMMA OpenIInv ==
  ASSUME IInv,
         openJournal \/ initializeOrValidateHeader \/ initializeCapacity \/ loadStore
  PROVE  IInv'
<1> USE DEF fileVars, ownerVars, workerVars, flagVars
<1>1. CASE openJournal
  <2>1. /\ wpc = "open" /\ wpc' = "header" /\ jmap' = openMapping(jmap)
        /\ newFile' = (jmap.header = "none")
        /\ UNCHANGED <<jdisk, m_running, batch, next, acked, produced, ring>>
    BY <1>1, Zenon DEF openJournal
  <2>2. /\ jmap' \in Journal(Nat) /\ jmap'.count = jmap.count /\ jmap'.records = jmap.records
        /\ jmap.header # "none" => jmap' = jmap
    <3>1. CASE jmap.header = "none"
      <4>1. jmap' = [jmap EXCEPT !.header = "zeroed"]
        BY <2>1, <3>1 DEF openMapping
      <4> QED
        BY <3>1, <4>1, Zenon DEF IInv, Types, Journal
    <3>2. CASE jmap.header # "none"
      BY <2>1, <3>2, Zenon DEF openMapping, IInv, Types
    <3> QED
      BY <3>1, <3>2, Zenon
  <2>3. Types' /\ Extends' /\ Acked'
    BY <2>1, <2>2, Zenon DEF IInv, Types, Extends, Acked, Holds
  <2>4. Headers'
    <3>1. newFile' => jmap.header = "none"
      BY <2>1, Zenon
    <3>2. jmap.header # "valid" => jmap.count = 0
      BY DEF IInv, Types, Headers, Journal
    <3> QED
      BY <2>1, <2>2, <3>1, <3>2, Zenon DEF IInv, Headers
  <2>5. Progress'
    BY <2>1, Zenon DEF IInv, Progress
  <2> QED
    BY <2>3, <2>4, <2>5, Zenon DEF IInv
<1>2. CASE initializeOrValidateHeader
  <2>1. CASE newFile
    <3>1. /\ wpc = "header" /\ wpc' = "capacity" /\ jmap' = initHeader
          /\ UNCHANGED <<jdisk, m_running, batch, next, acked, produced, ring, newFile>>
      BY <1>2, <2>1, Zenon DEF initializeOrValidateHeader
    <3>2. jmap' \in Journal(Nat) /\ jmap'.count = 0
      BY <3>1, JournalAssumption, SMTT(30) DEF initHeader, EmptyJournal, Journal, RecordIndices
    <3>3. jdisk.count = 0
      BY <2>1, <3>1 DEF IInv, Types, Extends, Headers, Journal
    <3> QED
      BY <3>1, <3>2, <3>3 DEF IInv, Types, Extends, Headers, Progress, Acked, Holds
  <2>2. CASE ~newFile
    <3>1. /\ wpc = "header" /\ wpc' \in {"unwind", "load"}
          /\ wpc' = "load" => jmap.header = "valid"
          /\ UNCHANGED <<jmap, jdisk, m_running, batch, next, acked, produced, ring, newFile>>
      BY <1>2, <2>2, Zenon DEF initializeOrValidateHeader, HeaderInvalid
    <3> QED
      BY <3>1, ZenonT(30) DEF IInv, Types, Extends, Headers, Progress, Acked, Holds
  <2> QED
    BY <2>1, <2>2
<1>3. CASE initializeCapacity
  <2>1. /\ wpc = "capacity" /\ wpc' = "load" /\ jmap' = storeCapacity(jmap)
        /\ UNCHANGED <<jdisk, m_running, batch, next, acked, produced, ring, newFile>>
    BY <1>3, Zenon DEF initializeCapacity
  <2>2. /\ jmap' \in Journal(Nat) /\ jmap'.header = "valid"
        /\ jmap'.count = jmap.count /\ jmap'.records = jmap.records
    BY <2>1, Zenon DEF storeCapacity, IInv, Types, Journal
  <2> QED
    BY <2>1, <2>2, ZenonT(60) DEF IInv, Types, Extends, Headers, Progress, Acked, Holds
<1>4. CASE loadStore
  BY <1>4, ZenonT(60) DEF loadStore, IInv, Types, Extends, Headers, Progress, Acked, Holds
<1> QED
  BY <1>1, <1>2, <1>3, <1>4, ZenonT(30)

\* The loop of run: a batch that is to be flushed is not empty, and none of it
\* is appended yet.
LEMMA LoopIInv ==
  ASSUME IInv, loopTest \/ tryPop \/ popNothing
  PROVE  IInv'
<1> USE DEF fileVars, ownerVars, workerVars, flagVars
<1>1. CASE loopTest
  BY <1>1, SMTT(30) DEF loopTest, IInv, Types, Extends, Headers, Progress, Acked, Holds
<1>2. CASE tryPop
  <2>1. /\ wpc = "pop" /\ ring # <<>> /\ wpc' \in {"append", "loop"}
        /\ batch' = Append(batch, Head(ring)) /\ ring' = Tail(ring)
        /\ UNCHANGED <<jmap, jdisk, m_running, next, acked, produced, newFile>>
    BY <1>2, Zenon DEF tryPop
  <2>2. batch' \in Seq(Nat) /\ ring' \in Seq(Nat) /\ Len(batch') > 0
    BY <2>1 DEF IInv, Types
  <2>3. next = 0 /\ jmap.header = "valid"
    BY <2>1, Zenon DEF IInv, Headers, Progress
  <2> QED
    BY <2>1, <2>2, <2>3, SMTT(30) DEF IInv, Types, Extends, Headers, Progress, Acked, Holds
<1>3. CASE popNothing
  BY <1>3, SMTT(30) DEF popNothing, IInv, Types, Extends, Headers, Progress, Acked, Holds
<1> QED
  BY <1>1, <1>2, <1>3, ZenonT(30)

-----------------------------------------------------------------------------
\* appendBatch: append stores a record behind the counted ones and then counts
\* it, and the msync makes the batch durable before anything acknowledges it.
LEMMA AppendIInv ==
  ASSUME IInv, append \/ appendCount \/ flush
  PROVE  IInv'
<1> USE DEF fileVars, ownerVars, workerVars, flagVars
<1>1. CASE append
  <2>1. CASE Full(jmap)
    BY <1>1, <2>1, ZenonT(30) DEF append, IInv, Types, Extends, Headers, Progress, Acked, Holds
  <2>2. CASE ~Full(jmap)
    <3>1. /\ wpc = "append" /\ wpc' = "count" /\ jmap' = storeRecord(jmap, batch[next + 1])
          /\ UNCHANGED <<jdisk, m_running, batch, next, acked, produced, ring, newFile>>
      BY <1>1, <2>2, Zenon DEF append
    <3>2. jmap.count + 1 \in RecordIndices /\ jmap.count \in Nat /\ jmap.count < JournalCapacity
      BY <2>2, JournalAssumption, SMTT(30) DEF Full, RecordIndices, IInv, Types, Journal
    <3>3. next < Len(batch) /\ batch[next + 1] \in Nat
      BY <3>1, SMTT(30) DEF IInv, Types, Progress
    <3>4. /\ jmap' \in Journal(Nat) /\ jmap'.header = jmap.header /\ jmap'.count = jmap.count
          /\ jmap'.records[jmap.count + 1] = batch[next + 1]
          /\ \A i \in 1 .. jmap.count : jmap'.records[i] = jmap.records[i]
      BY <3>1, <3>2, <3>3, StoreRecordFacts, ZenonT(60) DEF IInv, Types
    <3>5. Extends'
      BY <3>1, <3>2, <3>4, SMTT(30) DEF IInv, Types, Extends, Journal
    <3>6. \A k \in 1 .. next : Holds(jmap', batch[k])
      BY <3>1, <3>4 DEF IInv, Progress, Holds
    <3> QED
      BY <3>1, <3>2, <3>3, <3>4, <3>5, <3>6, ZenonT(60) DEF IInv, Types, Headers, Progress, Acked, Holds
  <2> QED
    BY <2>1, <2>2
<1>2. CASE appendCount
  <2>1. /\ wpc = "count" /\ jmap' = storeCount(jmap) /\ next' = next + 1
        /\ wpc' = IF next' = Len(batch) THEN "flush" ELSE "append"
        /\ UNCHANGED <<jdisk, m_running, batch, acked, produced, ring, newFile>>
    BY <1>2, Zenon DEF appendCount
  <2>2. /\ jmap.count \in Nat /\ jmap.count < JournalCapacity
        /\ next < Len(batch) /\ jmap.records[jmap.count + 1] = batch[next + 1]
    BY <2>1 DEF IInv, Types, Progress, Journal
  <2>3. /\ jmap' \in Journal(Nat) /\ jmap'.header = jmap.header
        /\ jmap'.count = jmap.count + 1 /\ jmap'.records = jmap.records
    BY <2>1, <2>2, StoreCountFacts, Zenon DEF IInv, Types
  <2>4. Extends'
    BY <2>1, <2>2, <2>3 DEF IInv, Types, Extends, Journal
  <2>5. \A k \in 1 .. next + 1 : Holds(jmap', batch[k])
    <3> SUFFICES ASSUME NEW k \in 1 .. next + 1 PROVE Holds(jmap', batch[k])
      OBVIOUS
    <3>1. CASE k = next + 1
      BY <2>2, <2>3, <3>1, SMTT(30) DEF Holds
    <3>2. CASE k # next + 1
      <4>1. Holds(jmap, batch[k])
        BY <2>1, <3>2 DEF IInv, Types, Progress
      <4> QED
        BY <2>2, <2>3, <4>1, SMTT(30) DEF Holds
    <3> QED
      BY <3>1, <3>2, Zenon
  <2>6. Progress'
    BY <2>1, <2>2, <2>5, SMTT(30) DEF IInv, Types, Progress
  <2> QED
    BY <2>1, <2>2, <2>3, <2>4, <2>6 DEF IInv, Types, Headers, Acked, Holds
<1>3. CASE flush
  <2>1. /\ wpc = "flush" /\ wpc' = "truncate" /\ jdisk' = jmap
        /\ UNCHANGED <<jmap, m_running, batch, next, acked, produced, ring, newFile>>
    BY <1>3, Zenon DEF flush
  <2>2. Acked'
    BY <2>1, SyncKeeps, Zenon DEF IInv, Acked
  <2> QED
    BY <2>1, <2>2, SMTT(30) DEF IInv, Types, Extends, Headers, Progress, Holds, Journal
<1> QED
  BY <1>1, <1>2, <1>3, Zenon

\* The rest of flushBatch, the end of run and its error exits: a batch is
\* acknowledged once all of it was synced.
LEMMA EndIInv ==
  ASSUME IInv,
         \/ storeTruncate \/ storeWrite \/ storeCloseFails \/ acknowledge
         \/ finish \/ ioError \/ unwind \/ catch
  PROVE  IInv'
<1> USE DEF fileVars, ownerVars, workerVars, flagVars
<1>1. CASE storeTruncate
  BY <1>1, ZenonT(60) DEF storeTruncate, IInv, Types, Extends, Headers, Progress, Acked, Holds
<1>2. CASE storeWrite \/ storeCloseFails
  <2>1. /\ wpc = "write" /\ wpc' \in {"write", "ack"}
        /\ UNCHANGED <<jmap, jdisk, m_running, batch, next, acked, produced, ring, newFile>>
    BY <1>2, Zenon DEF storeWrite, storeCloseFails
  <2> QED
    BY <2>1, ZenonT(60) DEF IInv, Types, Extends, Headers, Progress, Acked, Holds
<1>3. CASE acknowledge
  <2>1. /\ wpc = "ack" /\ wpc' \in {"final", "loop"} /\ batch' = <<>> /\ next' = 0
        /\ acked' = acked \cup {batch[i] : i \in 1 .. Len(batch)}
        /\ UNCHANGED <<jmap, jdisk, m_running, produced, ring, newFile>>
    BY <1>3, Zenon DEF acknowledge
  <2>2. Acked'
    BY <2>1, Zenon DEF IInv, Progress, Acked
  <2> QED
    BY <2>1, <2>2 DEF IInv, Types, Extends, Headers, Progress
<1>4. CASE finish
  <2>1. /\ wpc = "final" /\ wpc' = "exited" /\ jdisk' = jmap
        /\ UNCHANGED <<jmap, m_running, batch, next, acked, produced, ring, newFile>>
    BY <1>4, Zenon DEF finish
  <2>2. Acked'
    BY <2>1, SyncKeeps, Zenon DEF IInv, Acked
  <2> QED
    BY <2>1, <2>2 DEF IInv, Types, Extends, Headers, Progress, Journal
<1>5. CASE ioError
  BY <1>5, ZenonT(30) DEF ioError, IInv, Types, Extends, Headers, Progress, Acked, Holds
<1>6. CASE unwind
  <2>1. /\ wpc = "unwind" /\ wpc' = "catch" /\ jdisk' \in {jdisk, jmap}
        /\ batch' = <<>> /\ next' = 0
        /\ UNCHANGED <<jmap, m_running, acked, produced, ring, newFile>>
    BY <1>6, Zenon DEF unwind
  <2>2. Acked'
    BY <2>1, SyncKeeps, Zenon DEF IInv, Acked
  <2>3. Types' /\ Extends'
    BY <2>1 DEF IInv, Types, Extends, Journal
  <2> QED
    BY <2>1, <2>2, <2>3, Zenon DEF IInv, Headers, Progress
<1>7. CASE catch
  BY <1>7, ZenonT(30) DEF catch, IInv, Types, Extends, Headers, Progress, Acked, Holds
<1> QED
  BY <1>1, <1>2, <1>3, <1>4, <1>5, <1>6, <1>7, ZenonT(30)

-----------------------------------------------------------------------------
\* A crash keeps the mapping, a power failure a mix of its pages with what was
\* synced: neither takes a synced record away.
LEMMA FailureIInv ==
  ASSUME IInv, crash \/ powerFailure
  PROVE  IInv'
<1>1. /\ UNCHANGED <<produced, acked>>
      /\ wpc' = "none" /\ ring' = <<>> /\ batch' = <<>> /\ next' = 0
  BY Zenon DEF crash, powerFailure, NewObject
<1>2. CASE crash
  <2>1. UNCHANGED <<jmap, jdisk>>
    BY <1>2 DEF crash, fileVars
  <2> QED
    BY <1>1, <2>1 DEF IInv, Types, Extends, Headers, Progress, Acked, Holds
<1>3. CASE powerFailure
  <2>1. jmap' \in WrittenBack(jdisk, jmap) /\ jdisk' = jmap'
    BY <1>3, Zenon DEF powerFailure
  <2>2. /\ jmap' \in Journal(Nat)
        /\ jmap'.count > 0 => jmap'.header = "valid"
        /\ jdisk.count <= jmap'.count
        /\ \A i \in 1 .. jdisk.count : jmap'.records[i] = jdisk.records[i]
    BY <2>1, WrittenBackFacts, Zenon DEF IInv, Types, Extends
  <2>3. Acked'
    <3> SUFFICES ASSUME NEW f \in acked PROVE Holds(jdisk', f)
      BY <1>1 DEF Acked
    <3>1. PICK i \in 1 .. jdisk.count : jdisk.records[i] = f
      BY DEF IInv, Acked, Holds
    <3>2. i \in 1 .. jmap'.count
      BY <2>2, <3>1 DEF IInv, Types, Journal
    <3> QED
      BY <2>1, <2>2, <3>1, <3>2, ZenonT(30) DEF Holds
  <2> QED
    BY <1>1, <2>1, <2>2, <2>3 DEF IInv, Types, Extends, Headers, Progress, Journal
<1> QED
  BY <1>2, <1>3

\* Every step of pipeline, rebuild and failures keeps the invariant.
LEMMA NextIInv ==
  ASSUME IInv, [Next]_vars
  PROVE  IInv'
<1>1. CASE pipeline
  BY <1>1, OwnerIInv, OpenIInv, LoopIInv, AppendIInv, EndIInv, ZenonT(30) DEF pipeline, workerStep
<1>2. CASE rebuildStoreFromJournal \/ rebuildTruncate \/ rebuildWrite \/ rebuildFails
  <2>1. UNCHANGED <<jmap, jdisk, m_running, wpc, newFile, batch, next, acked, produced, ring>>
    BY <1>2, Zenon DEF rebuildStoreFromJournal, rebuildTruncate, rebuildWrite, rebuildFails,
       pipeVars, fileVars, ownerVars, workerVars
  <2> QED
    BY <2>1, Frame, Zenon DEF IInv, Types
<1>3. CASE crash \/ powerFailure
  BY <1>3, FailureIInv
<1>4. CASE UNCHANGED vars
  BY <1>4, Frame, Zenon DEF vars, pipeVars, fileVars, ownerVars, workerVars, IInv, Types
<1> QED
  BY <1>1, <1>2, <1>3, <1>4, Zenon DEF Next

\* No acknowledged fill is ever lost, whatever fails and however often
\* (flushBatch, FillJournal::appendBatch).
THEOREM AckedSurvive == Spec => []AckedDurable
<1>1. IInv => AckedDurable
  BY SMTT(30) DEF IInv, Types, Extends, Acked, Holds, AckedDurable, Journal
<1> QED
  BY <1>1, InitIInv, NextIInv, PTL, Zenon DEF Spec

-----------------------------------------------------------------------------
(* stop() loses nothing *)

In(fill, seq) == \E k \in 1 .. Len(seq) : seq[k] = fill

\* An accepted fill is counted or on its way, unless an error took its batch.
NotLost ==
  \/ m_error \/ wpc \in {"unwind", "catch"}
  \/ \A f \in accepted : f \in acked \/ In(f, ring) \/ In(f, batch)

\* The worker leaves its loop for good with an empty ring, and nothing is
\* pushed any more.
Drained ==
  /\ m_stop => m_error \/ opc # "push"
  /\ wpc = "pop" => ~ended
  /\ wpc \in {"append", "count", "flush", "truncate", "write", "ack"} /\ ended
       => m_error \/ (m_stop /\ ring = <<>>)
  /\ wpc = "final" => m_error \/ (m_stop /\ ring = <<>> /\ batch = <<>>)
  /\ wpc = "exited" \/ (wpc = "none" /\ started)
       => m_error \/ (m_stop /\ ring = <<>> /\ batch = <<>>)

\* A step of the worker after its loop test that neither touches the fills nor
\* ends the pipeline.
LEMMA QuietStep ==
  ASSUME NotLost, Drained,
         UNCHANGED <<opc, m_stop, m_error, ended, started, accepted, ring, batch, acked>>,
         \/ wpc' \in {"open", "header", "capacity", "load", "loop", "unwind", "catch"}
         \/ /\ wpc \in {"append", "count", "flush", "truncate", "write", "ack"}
            /\ wpc' \in {"append", "count", "flush", "truncate", "write", "ack"}
         \/ wpc' = wpc,
         wpc \notin {"unwind", "catch"} \/ wpc' \in {"unwind", "catch"}
  PROVE  NotLost' /\ Drained'
BY Zenon DEF NotLost, Drained, In

\* The owner: stop sets the flag outside of a tryPublish, so nothing follows it
\* into the ring.
LEMMA OwnerPending ==
  ASSUME IInv, NotLost, Drained, ownerStep
  PROVE  NotLost' /\ Drained'
<1> USE DEF fileVars, workerVars, flagVars
<1>1. CASE start
  <2>1. wpc = "none"
    BY <1>1, Zenon DEF start, IInv, Progress
  <2> QED
    BY <1>1, <2>1, Zenon DEF start, NotLost, Drained, In
<1>2. CASE tryPublish
  BY <1>2, Zenon DEF tryPublish, NotLost, Drained, In
<1>3. CASE tryPush
  <2>1. CASE Len(ring) < RingCapacity
    <3>1. /\ opc = "push" /\ opc' = "run" /\ ring' = Append(ring, produced')
          /\ accepted' = accepted \cup {produced'}
          /\ UNCHANGED <<batch, m_stop, m_error, ended, started, wpc, acked>>
      BY <1>3, <2>1, Zenon DEF tryPush
    <3>2. ring \in Seq(Nat) /\ produced' \in Nat
      BY <1>3, <2>1, OwnerIInv, Zenon DEF IInv, Types, ownerStep
    <3>3. \A f \in accepted' : f \in accepted \/ In(f, ring')
      BY <3>1, <3>2 DEF In
    <3>4. \A f : In(f, ring) => In(f, ring')
      BY <3>1, <3>2 DEF In
    <3>5. NotLost'
      BY <3>1, <3>3, <3>4, Zenon DEF NotLost
    <3>6. Drained'
      BY <3>1, Zenon DEF Drained
    <3> QED
      BY <3>5, <3>6
  <2>2. CASE ~(Len(ring) < RingCapacity)
    BY <1>3, <2>2, Zenon DEF tryPush, NotLost, Drained, In
  <2> QED
    BY <2>1, <2>2
<1>4. CASE stop
  BY <1>4, Zenon DEF stop, NotLost, Drained, In
<1>5. CASE join
  BY <1>5, Zenon DEF join, NotLost, Drained, In
<1>6. CASE recreate
  BY <1>6, Zenon DEF recreate, NewObject, NotLost, Drained
<1> QED
  BY <1>1, <1>2, <1>3, <1>4, <1>5, <1>6, ZenonT(30) DEF ownerStep

\* The worker: a popped fill is in the batch, a batch is counted or the pipeline
\* reports an error.
LEMMA WorkerPending ==
  ASSUME IInv, NotLost, Drained, workerStep
  PROVE  NotLost' /\ Drained'
<1> USE DEF fileVars, workerVars, ownerVars, flagVars
<1>1. CASE \/ openJournal \/ initializeOrValidateHeader \/ initializeCapacity \/ loadStore
           \/ append \/ appendCount \/ flush \/ storeTruncate \/ storeWrite \/ storeCloseFails
           \/ ioError
  <2>1. UNCHANGED <<opc, m_stop, m_error, ended, started, accepted, ring, batch, acked>>
    BY <1>1, Zenon DEF openJournal, initializeOrValidateHeader, initializeCapacity, loadStore, append,
       appendCount, flush, storeTruncate, storeWrite, storeCloseFails, ioError
  <2>2. /\ wpc \notin {"unwind", "catch"}
        /\ \/ wpc' \in {"open", "header", "capacity", "load", "loop", "unwind", "catch"}
           \/ /\ wpc \in {"append", "count", "flush", "truncate", "write", "ack"}
              /\ wpc' \in {"append", "count", "flush", "truncate", "write", "ack"}
    BY <1>1, Zenon DEF openJournal, initializeOrValidateHeader, initializeCapacity, loadStore, append,
       appendCount, flush, storeTruncate, storeWrite, storeCloseFails, ioError
  <2> QED
    BY <2>1, <2>2, QuietStep, Zenon
<1>2. CASE loopTest
  <2>1. /\ wpc = "loop" /\ ended' = (m_stop /\ ring = <<>>)
        /\ wpc' = IF ~(m_stop /\ ring = <<>>) THEN "pop"
                  ELSE IF batch # <<>> THEN "append" ELSE "final"
        /\ UNCHANGED <<opc, m_stop, m_error, started, accepted, ring, batch, acked>>
    BY <1>2, Zenon DEF loopTest, Leave
  <2>2. CASE m_stop /\ ring = <<>>
    BY <2>1, <2>2, Zenon DEF NotLost, Drained, In
  <2>3. CASE ~(m_stop /\ ring = <<>>)
    BY <2>1, <2>3, Zenon DEF NotLost, Drained, In
  <2> QED
    BY <2>2, <2>3
<1>3. CASE tryPop
  <2>1. /\ wpc = "pop" /\ ring # <<>> /\ wpc' \in {"append", "loop"}
        /\ batch' = Append(batch, Head(ring)) /\ ring' = Tail(ring)
        /\ UNCHANGED <<opc, m_stop, m_error, ended, started, accepted, acked>>
    BY <1>3, Zenon DEF tryPop
  <2>2. ring \in Seq(Nat) /\ batch \in Seq(Nat)
    BY DEF IInv, Types
  <2>3. \A f : In(f, batch) => In(f, batch')
    BY <2>1, <2>2, SMTT(30) DEF In
  <2>4. ASSUME NEW f, In(f, ring) PROVE In(f, ring') \/ In(f, batch')
    <3>1. PICK l \in 1 .. Len(ring) : ring[l] = f
      BY <2>4 DEF In
    <3>2. CASE l = 1
      <4>1. Len(batch') = Len(batch) + 1 /\ batch'[Len(batch) + 1] = f
        BY <2>1, <2>2, <3>1, <3>2, SMTT(30)
      <4> QED
        BY <2>2, <4>1, SMTT(30) DEF In
    <3>3. CASE l # 1
      <4>1. l - 1 \in 1 .. Len(ring') /\ ring'[l - 1] = f
        BY <2>1, <2>2, <3>1, <3>3, SMTT(30)
      <4> QED
        BY <4>1 DEF In
    <3> QED
      BY <3>2, <3>3, Zenon
  <2>5. NotLost'
    BY <2>1, <2>3, <2>4, Zenon DEF NotLost
  <2>6. Drained'
    BY <2>1, Zenon DEF Drained
  <2> QED
    BY <2>5, <2>6
<1>4. CASE popNothing
  BY <1>4, Zenon DEF popNothing, NotLost, Drained, In
<1>5. CASE acknowledge
  <2>1. /\ wpc = "ack" /\ wpc' = (IF ended THEN "final" ELSE "loop") /\ batch' = <<>>
        /\ acked' = acked \cup {batch[i] : i \in 1 .. Len(batch)}
        /\ UNCHANGED <<opc, m_stop, m_error, ended, started, accepted, ring>>
    BY <1>5, Zenon DEF acknowledge
  <2>2. \A f : f \in acked \/ In(f, batch) => f \in acked'
    BY <2>1 DEF In
  <2>3. NotLost'
    BY <2>1, <2>2, Zenon DEF NotLost
  <2>4. Drained'
    BY <2>1, Zenon DEF Drained
  <2> QED
    BY <2>3, <2>4
<1>6. CASE finish \/ unwind \/ catch
  BY <1>6 DEF finish, unwind, catch, NotLost, Drained, In
<1> QED
  BY <1>1, <1>2, <1>3, <1>4, <1>5, <1>6, ZenonT(30) DEF workerStep

\* When stop() of a started pipeline has returned without an error, every fill
\* that tryPublish accepted was counted as persisted, through any number of
\* restarts and failures before it (stop, run).
THEOREM StopIsClean == Spec => []StopLosesNothing
<1>1. Init => NotLost /\ Drained
  BY DEF Init, PipeInit, NotLost, Drained
<1>2. NotLost /\ Drained => StopLosesNothing
  BY DEF NotLost, Drained, In, StopLosesNothing
<1>3. ASSUME IInv, NotLost, Drained, [Next]_vars PROVE NotLost' /\ Drained'
  <2>1. CASE pipeline
    BY <1>3, <2>1, OwnerPending, WorkerPending, Zenon DEF pipeline
  <2>2. CASE rebuildStoreFromJournal \/ rebuildTruncate \/ rebuildWrite \/ rebuildFails \/ UNCHANGED vars
    <3>1. UNCHANGED <<opc, m_stop, m_error, ended, started, accepted, ring, batch, acked, wpc>>
      BY <2>2, Zenon DEF rebuildStoreFromJournal, rebuildTruncate, rebuildWrite, rebuildFails,
         vars, pipeVars, ownerVars, workerVars, flagVars
    <3> QED
      BY <1>3, <3>1, QuietStep, Zenon
  <2>3. CASE crash \/ powerFailure
    BY <2>3, Zenon DEF crash, powerFailure, NewObject, NotLost, Drained
  <2> QED
    BY <1>3, <2>1, <2>2, <2>3, ZenonT(30) DEF Next
<1>4. IInv /\ NotLost /\ Drained /\ [Next]_vars => NotLost' /\ Drained'
  BY <1>3
<1> QED
  BY <1>1, <1>2, <1>4, InitIInv, NextIInv, PTL, ZenonT(30) DEF Spec

-----------------------------------------------------------------------------
(* The order of the journal, while only processes fail *)

\* Fills are increasing in the first c records r of the journal, then in what
\* the batch b has left to append after its first n, then in the ring q, and
\* none is newer than the last one published, p.
InOrder(r, c, b, n, q, p) ==
  /\ \A i, j \in 1 .. c : i < j => r[i] < r[j]
  /\ \A i \in 1 .. c : r[i] <= p
  /\ \A k, l \in 1 .. Len(b) : k < l => b[k] < b[l]
  /\ \A k \in 1 .. Len(b) : b[k] <= p
  /\ \A k, l \in 1 .. Len(q) : k < l => q[k] < q[l]
  /\ \A l \in 1 .. Len(q) : q[l] <= p
  /\ \A k \in 1 .. Len(b), l \in 1 .. Len(q) : b[k] < q[l]
  /\ \A i \in 1 .. c, l \in 1 .. Len(q) : r[i] < q[l]
  /\ \A i \in 1 .. c, k \in n + 1 .. Len(b) : r[i] < b[k]

Ordered == InOrder(jmap.records, jmap.count, batch, next, ring, produced)

\* A fill at the end of a sequence of fills.
LEMMA AppendFacts ==
  \A s \in Seq(Nat), x \in Nat :
    /\ Len(Append(s, x)) = Len(s) + 1 /\ Append(s, x)[Len(s) + 1] = x
    /\ \A i \in 1 .. Len(s) : Append(s, x)[i] = s[i]
  BY SMTT(30)

\* The empty and the whole front of a sequence of fills.
LEMMA FrontFacts == \A s \in Seq(Nat) : SubSeq(s, 1, 0) = <<>> /\ SubSeq(s, 1, Len(s)) = s
  BY SMTT(30)

\* The fill behind the first n.
LEMMA NextElement == \A s \in Seq(Nat), n \in Nat : n < Len(s) => s[n + 1] \in Nat
  BY SMTT(30)

\* One sequence of fills behind another.
LEMMA ConcatFacts ==
  \A s, t \in Seq(Nat) :
    /\ s \o t \in Seq(Nat) /\ Len(s \o t) = Len(s) + Len(t)
    /\ \A i \in 1 .. Len(s) + Len(t) : (s \o t)[i] = IF i <= Len(s) THEN s[i] ELSE t[i - Len(s)]
  BY SMTT(30)

\* A journal that is not full has room.
LEMMA BelowCapacity == \A n \in Nat : ~(n >= JournalCapacity) => n < JournalCapacity
  BY JournalAssumption, SMTT(30)

\* The front of a sequence of fills.
LEMMA HeadFacts == \A s \in Seq(Nat) : s # <<>> => Head(s) = s[1] /\ Head(s) \in Nat /\ Len(s) > 0
  BY SMTT(30)

\* A number up to p is less than the next one.
LEMMA NextNumber == \A x, y \in Nat : x <= y => x < y + 1 /\ x <= y + 1
  BY SMT

\* A published fill is newer than all others (tryPublish).
LEMMA PushInOrder ==
  ASSUME NEW r, NEW c \in Nat, NEW b \in Seq(Nat), NEW n \in Nat, NEW q \in Seq(Nat), NEW p \in Nat,
         \A i \in 1 .. c : r[i] \in Nat,
         InOrder(r, c, b, n, q, p)
  PROVE  InOrder(r, c, b, n, Append(q, p + 1), p + 1)
<1> DEFINE m == Len(q)
           q1 == Append(q, p + 1)
<1>1. /\ m \in Nat /\ Len(q1) = m + 1 /\ q1[m + 1] = p + 1
      /\ \A l \in 1 .. m : q1[l] = q[l] /\ q[l] \in Nat
      /\ \A k \in 1 .. Len(b) : b[k] \in Nat
  <2>1. p + 1 \in Nat
    OBVIOUS
  <2>2. m \in Nat /\ \A l \in 1 .. m : q[l] \in Nat
    BY LenProperties, ElementOfSeq, Zenon
  <2>3. \A k \in 1 .. Len(b) : b[k] \in Nat
    BY ElementOfSeq, Zenon
  <2>4. Len(q1) = m + 1 /\ q1[m + 1] = p + 1 /\ \A l \in 1 .. m : q1[l] = q[l]
    BY <2>1, AppendFacts, Zenon
  <2> QED
    BY <2>2, <2>3, <2>4, Zenon
<1> HIDE DEF q1
<1>2. \A l \in 1 .. m + 1 : l = m + 1 \/ l \in 1 .. m
  BY <1>1, SMTT(30)
<1>3. /\ \A i \in 1 .. c : r[i] < p + 1
      /\ \A k \in 1 .. Len(b) : b[k] < p + 1
      /\ \A l \in 1 .. m : q[l] < p + 1
  BY <1>1, NextNumber, Zenon DEF InOrder
<1>4. \A k, l \in 1 .. Len(q1) : k < l => q1[k] < q1[l]
  <2> SUFFICES ASSUME NEW k \in 1 .. m + 1, NEW l \in 1 .. m + 1, k < l PROVE q1[k] < q1[l]
    BY <1>1, Zenon
  <2>1. k \in 1 .. m
    BY <1>1
  <2> QED
    BY <1>1, <1>2, <1>3, <2>1, Zenon DEF InOrder
<1>5. /\ \A l \in 1 .. Len(q1) : q1[l] <= p + 1
      /\ \A k \in 1 .. Len(b), l \in 1 .. Len(q1) : b[k] < q1[l]
      /\ \A i \in 1 .. c, l \in 1 .. Len(q1) : r[i] < q1[l]
  <2> SUFFICES ASSUME NEW l \in 1 .. Len(q1)
               PROVE  /\ q1[l] <= p + 1
                      /\ \A k \in 1 .. Len(b) : b[k] < q1[l]
                      /\ \A i \in 1 .. c : r[i] < q1[l]
    BY Zenon
  <2>1. CASE l = m + 1
    BY <1>1, <1>3, <2>1, SMTT(30)
  <2>2. CASE l \in 1 .. m
    <3>1. /\ \A k \in 1 .. Len(b) : b[k] < q[l]
          /\ \A i \in 1 .. c : r[i] < q[l]
      BY <2>2, Zenon DEF InOrder
    <3>2. q1[l] = q[l] /\ q[l] <= p + 1
      BY <1>1, <2>2, NextNumber, Zenon DEF InOrder
    <3> QED
      BY <3>1, <3>2, Zenon
  <2> QED
    BY <1>1, <1>2, <2>1, <2>2, ZenonT(30)
<1>6. /\ \A i \in 1 .. c : r[i] <= p + 1
      /\ \A k \in 1 .. Len(b) : b[k] <= p + 1
  BY <1>1, NextNumber, Zenon DEF InOrder
<1> QED
  BY <1>4, <1>5, <1>6, Zenon DEF InOrder, q1

\* A popped fill moves from the front of the ring to the end of a batch of
\* which nothing is appended yet (tryPop).
LEMMA PopInOrder ==
  ASSUME NEW r, NEW c \in Nat, NEW b \in Seq(Nat), NEW q \in Seq(Nat), NEW p \in Nat,
         q # <<>>, InOrder(r, c, b, 0, q, p)
  PROVE  InOrder(r, c, Append(b, Head(q)), 0, Tail(q), p)
<1> DEFINE m == Len(b)
           b1 == Append(b, Head(q))
           q1 == Tail(q)
<1>1. /\ m \in Nat /\ Len(b1) = m + 1 /\ b1[m + 1] = q[1] /\ \A k \in 1 .. m : b1[k] = b[k]
      /\ Len(q) \in Nat /\ Len(q) > 0 /\ Len(q1) = Len(q) - 1
      /\ \A l \in 1 .. Len(q1) : q1[l] = q[l + 1]
  <2>1. Head(q) = q[1] /\ Head(q) \in Nat
    BY HeadFacts, Zenon
  <2>2. Len(q1) = Len(q) - 1 /\ \A l \in 1 .. Len(q1) : q1[l] = q[l + 1]
    BY HeadTailProperties, Zenon
  <2>3. Len(b1) = m + 1 /\ b1[m + 1] = Head(q) /\ \A k \in 1 .. m : b1[k] = b[k]
    BY <2>1, AppendFacts, Zenon
  <2>4. m \in Nat /\ Len(q) \in Nat
    BY LenProperties, Zenon
  <2>5. Len(q) > 0
    BY HeadFacts, Zenon
  <2> QED
    BY <2>1, <2>2, <2>3, <2>4, <2>5, Zenon
<1> HIDE DEF b1, q1
<1>2. /\ \A k \in 1 .. Len(b1) : k = m + 1 \/ k \in 1 .. m
      /\ \A l \in 1 .. Len(q1) : l + 1 \in 1 .. Len(q) /\ 1 < l + 1
      /\ 1 \in 1 .. Len(q)
  <2> DEFINE u == Len(q)
  <2>1. m \in Nat /\ u \in Nat /\ u > 0 /\ Len(b1) = m + 1 /\ Len(q1) = u - 1
    BY <1>1, Zenon
  <2> HIDE DEF m, u
  <2>2. \A k \in 1 .. m + 1 : k = m + 1 \/ k \in 1 .. m
    BY <2>1, SMTT(30)
  <2>3. 1 \in 1 .. u /\ \A l \in 1 .. u - 1 : l + 1 \in 1 .. u /\ 1 < l + 1
    BY <2>1, SMTT(30)
  <2> QED
    BY <2>1, <2>2, <2>3, Zenon DEF u
<1>3. \A k, l \in 1 .. Len(b1) : k < l => b1[k] < b1[l]
  <2> SUFFICES ASSUME NEW k \in 1 .. Len(b1), NEW l \in 1 .. Len(b1), k < l PROVE b1[k] < b1[l]
    OBVIOUS
  <2>1. k \in 1 .. m
    BY <1>1
  <2> QED
    BY <1>1, <1>2, <2>1, ZenonT(60) DEF InOrder
<1>4. \A k, l \in 1 .. Len(q1) : k < l => q1[k] < q1[l]
  <2> SUFFICES ASSUME NEW k \in 1 .. Len(q1), NEW l \in 1 .. Len(q1), k < l PROVE q1[k] < q1[l]
    OBVIOUS
  <2>1. k + 1 \in 1 .. Len(q) /\ l + 1 \in 1 .. Len(q) /\ k + 1 < l + 1
    BY <1>2
  <2>2. q[k + 1] < q[l + 1]
    BY <2>1, Zenon DEF InOrder
  <2> QED
    BY <1>1, <2>2, Zenon
<1>5. /\ \A k \in 1 .. Len(b1) : b1[k] <= p
      /\ \A i \in 1 .. c, k \in 1 .. Len(b1) : r[i] < b1[k]
  <2> SUFFICES ASSUME NEW k \in 1 .. Len(b1)
               PROVE  b1[k] <= p /\ \A i \in 1 .. c : r[i] < b1[k]
    BY Zenon
  <2>1. CASE k = m + 1
    <3>1. q[1] <= p /\ \A i \in 1 .. c : r[i] < q[1]
      BY <1>2, Zenon DEF InOrder
    <3> QED
      BY <1>1, <2>1, <3>1, Zenon
  <2>2. CASE k \in 1 .. m
    <3>1. b[k] <= p /\ \A i \in 1 .. c : r[i] < b[k]
      BY <2>2 DEF InOrder
    <3> QED
      BY <1>1, <2>2, <3>1, Zenon
  <2> QED
    BY <1>2, <2>1, <2>2, Zenon
<1>6. /\ \A l \in 1 .. Len(q1) : q1[l] <= p
      /\ \A i \in 1 .. c, l \in 1 .. Len(q1) : r[i] < q1[l]
  BY <1>1, <1>2, Zenon DEF InOrder
<1>7. \A k \in 1 .. Len(b1), l \in 1 .. Len(q1) : b1[k] < q1[l]
  <2> SUFFICES ASSUME NEW k \in 1 .. Len(b1), NEW l \in 1 .. Len(q1) PROVE b1[k] < q1[l]
    BY Zenon
  <2>1. l + 1 \in 1 .. Len(q) /\ 1 < l + 1 /\ 1 \in 1 .. Len(q) /\ q1[l] = q[l + 1]
    BY <1>1, <1>2, Zenon
  <2>2. CASE k = m + 1
    <3>1. q[1] < q[l + 1]
      BY <2>1, Zenon DEF InOrder
    <3> QED
      BY <1>1, <2>1, <2>2, <3>1, Zenon
  <2>3. CASE k \in 1 .. m
    <3>1. b[k] < q[l + 1]
      BY <2>1, <2>3, Zenon DEF InOrder
    <3> QED
      BY <1>1, <2>1, <2>3, <3>1, Zenon
  <2> QED
    BY <1>2, <2>2, <2>3, Zenon
<1>8. /\ \A i, j \in 1 .. c : i < j => r[i] < r[j]
      /\ \A i \in 1 .. c : r[i] <= p
  BY Zenon DEF InOrder
<1>9. 0 + 1 = 1
  OBVIOUS
<1> QED
  BY <1>3, <1>4, <1>5, <1>6, <1>7, <1>8, <1>9, ZenonT(30) DEF InOrder, b1, q1

\* The next fill of the batch is counted behind older ones (append).
LEMMA CountInOrder ==
  ASSUME NEW r, NEW c \in Nat, NEW b \in Seq(Nat), NEW n \in Nat, NEW q \in Seq(Nat), NEW p \in Nat,
         n < Len(b), r[c + 1] = b[n + 1], InOrder(r, c, b, n, q, p)
  PROVE  InOrder(r, c + 1, b, n + 1, q, p)
<1>1. /\ \A i \in 1 .. c + 1 : i = c + 1 \/ i \in 1 .. c
      /\ n + 1 \in 1 .. Len(b) /\ n + 1 \in n + 1 .. Len(b)
      /\ \A k \in (n + 1) + 1 .. Len(b) :
           k \in 1 .. Len(b) /\ k \in n + 1 .. Len(b) /\ n + 1 < k
  <2> DEFINE m == Len(b)
  <2>1. m \in Nat /\ n < m
    BY LenProperties, Zenon
  <2> HIDE DEF m
  <2>2. \A i \in 1 .. c + 1 : i = c + 1 \/ i \in 1 .. c
    BY SMTT(30)
  <2>3. n + 1 \in 1 .. m /\ n + 1 \in n + 1 .. m
    BY <2>1, SMTT(30)
  <2>4. \A k \in (n + 1) + 1 .. m : k \in 1 .. m /\ k \in n + 1 .. m /\ n + 1 < k
    BY <2>1, SMTT(30)
  <2> QED
    BY <2>2, <2>3, <2>4, Zenon DEF m
<1>2. \A i, j \in 1 .. c + 1 : i < j => r[i] < r[j]
  <2> SUFFICES ASSUME NEW i \in 1 .. c + 1, NEW j \in 1 .. c + 1, i < j PROVE r[i] < r[j]
    OBVIOUS
  <2>1. i \in 1 .. c
    OBVIOUS
  <2> QED
    BY <1>1, <2>1, Zenon DEF InOrder
<1>3. /\ \A i \in 1 .. c + 1 : r[i] <= p
      /\ \A i \in 1 .. c + 1, l \in 1 .. Len(q) : r[i] < q[l]
  BY <1>1, Zenon DEF InOrder
<1>4. \A i \in 1 .. c + 1, k \in (n + 1) + 1 .. Len(b) : r[i] < b[k]
  BY <1>1, Zenon DEF InOrder
<1> QED
  BY <1>2, <1>3, <1>4, Zenon DEF InOrder

\* Records beyond the counted ones do not matter; batch, ring and journal may
\* lose all they have.
LEMMA LessInOrder ==
  ASSUME NEW r, NEW c \in Nat, NEW b, NEW n, NEW q, NEW p, InOrder(r, c, b, n, q, p)
  PROVE  /\ InOrder(r, c, <<>>, 0, q, p) /\ InOrder(r, c, <<>>, 0, <<>>, p)
         /\ \A r1 : InOrder(r1, 0, b, n, q, p)
         /\ \A r1 : (\A i \in 1 .. c : r1[i] = r[i]) => InOrder(r1, c, b, n, q, p)
<1>1. Len(<<>>) = 0 /\ \A i : i \notin 1 .. 0 /\ i \notin 0 + 1 .. 0
  OBVIOUS
<1>2. InOrder(r, c, <<>>, 0, q, p) /\ InOrder(r, c, <<>>, 0, <<>>, p)
  BY <1>1, Zenon DEF InOrder
<1>3. ASSUME NEW r1 PROVE InOrder(r1, 0, b, n, q, p)
  BY <1>1, Zenon DEF InOrder
<1>4. ASSUME NEW r1, \A i \in 1 .. c : r1[i] = r[i] PROVE InOrder(r1, c, b, n, q, p)
  BY <1>4, Zenon DEF InOrder
<1> QED
  BY <1>2, <1>3, <1>4, Zenon

\* Every step but a loss of power keeps the order.
LEMMA NextOrdered ==
  ASSUME IInv, Ordered, ~PowerFailures, [Next]_vars
  PROVE  Ordered'
<1> USE DEF fileVars, workerVars, ownerVars, flagVars
<1>1. /\ jmap \in Journal(Nat) /\ jmap.count \in Nat /\ produced \in Nat
      /\ ring \in Seq(Nat) /\ batch \in Seq(Nat) /\ next \in Nat
      /\ \A i \in 1 .. jmap.count : jmap.records[i] \in Nat
  BY JournalAssumption DEF IInv, Types, Journal, RecordIndices
<1>2. CASE UNCHANGED <<jmap, produced, batch, next, ring>>
  BY <1>2 DEF Ordered
<1>3. CASE tryPush
  <2>1. CASE Len(ring) < RingCapacity
    <3>1. /\ produced' = produced + 1 /\ ring' = Append(ring, produced')
          /\ UNCHANGED <<jmap, batch, next>>
      BY <1>3, <2>1, Zenon DEF tryPush
    <3> QED
      BY <1>1, <3>1, PushInOrder, Zenon DEF Ordered
  <2>2. CASE ~(Len(ring) < RingCapacity)
    BY <1>2, <1>3, <2>2, Zenon DEF tryPush
  <2> QED
    BY <2>1, <2>2, Zenon
<1>4. CASE tryPop
  <2>1. /\ wpc = "pop" /\ ring # <<>>
        /\ batch' = Append(batch, Head(ring)) /\ ring' = Tail(ring)
        /\ UNCHANGED <<jmap, next, produced>>
    BY <1>4, Zenon DEF tryPop
  <2>2. next = 0
    BY <2>1, Zenon DEF IInv, Progress
  <2> QED
    BY <1>1, <2>1, <2>2, PopInOrder, ZenonT(30) DEF Ordered
<1>5. CASE append
  <2>1. CASE Full(jmap)
    BY <1>2, <1>5, <2>1, Zenon DEF append
  <2>2. CASE ~Full(jmap)
    <3>1. /\ wpc = "append" /\ jmap' = storeRecord(jmap, batch[next + 1])
          /\ UNCHANGED <<batch, next, produced, ring>>
      BY <1>5, <2>2, Zenon DEF append
    <3>2. jmap.count < JournalCapacity /\ batch[next + 1] \in Nat
      BY <1>1, <2>2, <3>1, JournalAssumption, SMTT(30) DEF Full, IInv, Progress
    <3>3. /\ jmap'.count = jmap.count
          /\ \A i \in 1 .. jmap.count : jmap'.records[i] = jmap.records[i]
      BY <1>1, <3>1, <3>2, StoreRecordFacts, ZenonT(30)
    <3> QED
      BY <1>1, <3>1, <3>3, LessInOrder, ZenonT(60) DEF Ordered
  <2> QED
    BY <2>1, <2>2, Zenon
<1>6. CASE appendCount
  <2>1. /\ wpc = "count" /\ jmap' = storeCount(jmap) /\ next' = next + 1
        /\ UNCHANGED <<batch, produced, ring>>
    BY <1>6, Zenon DEF appendCount
  <2>2. /\ jmap.count < JournalCapacity /\ next < Len(batch)
        /\ jmap.records[jmap.count + 1] = batch[next + 1]
    BY <2>1, Zenon DEF IInv, Progress
  <2>3. jmap'.count = jmap.count + 1 /\ jmap'.records = jmap.records
    BY <1>1, <2>1, <2>2, StoreCountFacts, ZenonT(30)
  <2> QED
    BY <1>1, <2>1, <2>2, <2>3, CountInOrder, ZenonT(60) DEF Ordered
<1>7. CASE acknowledge \/ unwind
  <2>1. batch' = <<>> /\ next' = 0 /\ UNCHANGED <<jmap, produced, ring>>
    BY <1>7, Zenon DEF acknowledge, unwind
  <2> QED
    BY <1>1, <2>1, LessInOrder, Zenon DEF Ordered
<1>8. CASE recreate \/ crash
  <2>1. batch' = <<>> /\ next' = 0 /\ ring' = <<>> /\ UNCHANGED <<jmap, produced>>
    BY <1>8, Zenon DEF recreate, crash, NewObject
  <2> QED
    BY <1>1, <2>1, LessInOrder, Zenon DEF Ordered
<1>9. CASE openJournal \/ initializeCapacity
  <2>1. /\ UNCHANGED <<produced, batch, next, ring>>
        /\ jmap' \in {openMapping(jmap), storeCapacity(jmap)}
    BY <1>9, Zenon DEF openJournal, initializeCapacity
  <2>2. jmap'.count = jmap.count /\ jmap'.records = jmap.records
    BY <1>1, <2>1, Zenon DEF openMapping, storeCapacity, Journal
  <2> QED
    BY <2>1, <2>2, Zenon DEF Ordered
<1>10. CASE initializeOrValidateHeader
  <2>1. UNCHANGED <<produced, batch, next, ring>> /\ jmap' \in {initHeader, jmap}
    BY <1>10, Zenon DEF initializeOrValidateHeader
  <2>2. CASE jmap' = initHeader
    <3>1. jmap'.count = 0
      BY <2>2 DEF initHeader, EmptyJournal
    <3> QED
      BY <1>1, <2>1, <3>1, LessInOrder, Zenon DEF Ordered
  <2> QED
    BY <1>2, <2>1, <2>2, Zenon
<1>11. CASE start \/ tryPublish \/ stop \/ join
  BY <1>2, <1>11, Zenon DEF start, tryPublish, stop, join
<1>12. CASE \/ loadStore \/ loopTest \/ popNothing \/ flush \/ storeTruncate \/ storeWrite
            \/ storeCloseFails \/ finish \/ ioError \/ catch
  BY <1>2, <1>12, Zenon DEF loadStore, loopTest, popNothing, flush, storeTruncate, storeWrite,
     storeCloseFails, finish, ioError, catch
<1>13. CASE rebuildStoreFromJournal \/ rebuildTruncate \/ rebuildWrite \/ rebuildFails \/ UNCHANGED vars
  BY <1>2, <1>13, Zenon DEF rebuildStoreFromJournal, rebuildTruncate, rebuildWrite, rebuildFails,
     vars, pipeVars
<1> QED
  BY <1>3, <1>4, <1>5, <1>6, <1>7, <1>8, <1>9, <1>10, <1>11, <1>12, <1>13, ZenonT(60)
     DEF Next, pipeline, ownerStep, workerStep, powerFailure

\* The journal never repeats or reorders a fill, through any number of errors,
\* stops, restarts and crashes (run, append).
THEOREM JournalInOrder ==
  ASSUME ~PowerFailures
  PROVE  Spec => []JournalOrdered
<1>1. Init => Ordered
  BY DEF Init, PipeInit, Ordered, InOrder, EmptyJournal
<1>2. Ordered => JournalOrdered
  BY Zenon DEF Ordered, InOrder, JournalOrdered
<1>3. IInv /\ Ordered /\ [Next]_vars => Ordered'
  BY NextOrdered, SMTT(30)
<1> QED
  BY <1>1, <1>2, <1>3, InitIInv, NextIInv, PTL, ZenonT(30) DEF Spec

-----------------------------------------------------------------------------
(* The store never runs ahead of the journal, while only processes fail *)

AllHeld(j, trades) == trades \in Seq(Nat) /\ \A k \in 1 .. Len(trades) : Holds(j, trades[k])

\* What the store file, the worker's copy and a rebuild hold is in the journal.
Stored == AllHeld(jmap, sfile.trades) /\ AllHeld(jmap, m_trades) /\ AllHeld(jmap, fills)

\* The counted records as a sequence (replay).
LEMMA ReplayFacts ==
  ASSUME NEW j \in Journal(Nat)
  PROVE  /\ replay(j) \in Seq(Nat) /\ Len(replay(j)) = j.count
         /\ \A i \in 1 .. j.count : replay(j)[i] = j.records[i]
<1>1. j.records \in [1 .. JournalCapacity -> Nat] /\ j.count \in 0 .. JournalCapacity
  <2>1. Nat \cup {0} = Nat
    OBVIOUS
  <2> QED
    BY <2>1 DEF Journal, RecordIndices
<1>2. j.records \in Seq(Nat) /\ Len(j.records) = JournalCapacity
  BY <1>1, JournalAssumption, SMTT(30)
<1> QED
  BY <1>1, <1>2, JournalAssumption, SMTT(30) DEF replay

\* A journaled fill stays journaled, whatever step but a loss of power is taken.
LEMMA HeldStays ==
  ASSUME IInv, ~PowerFailures, [Next]_vars, NEW f, Holds(jmap, f)
  PROVE  Holds(jmap', f)
<1> USE DEF fileVars, workerVars, ownerVars, flagVars
<1>1. CASE UNCHANGED jmap
  BY <1>1, SMTT(30)
<1>2. CASE openJournal \/ initializeCapacity
  <2>1. jmap' \in {openMapping(jmap), storeCapacity(jmap)}
    BY <1>2, Zenon DEF openJournal, initializeCapacity
  <2>2. jmap'.count = jmap.count /\ jmap'.records = jmap.records
    BY <2>1, ZenonT(30) DEF openMapping, storeCapacity, IInv, Types, Journal
  <2> QED
    BY <2>2 DEF Holds
<1>3. CASE initializeOrValidateHeader
  <2>1. CASE newFile
    BY <1>3, <2>1, SMTT(30) DEF initializeOrValidateHeader, IInv, Headers, Holds
  <2>2. CASE ~newFile
    BY <1>1, <1>3, <2>2, Zenon DEF initializeOrValidateHeader
  <2> QED
    BY <2>1, <2>2, ZenonT(60)
<1>4. CASE append
  <2>1. CASE Full(jmap)
    BY <1>1, <1>4, <2>1, Zenon DEF append
  <2>2. CASE ~Full(jmap)
    <3>1. wpc = "append" /\ jmap' = storeRecord(jmap, batch[next + 1])
      BY <1>4, <2>2, ZenonT(60) DEF append
    <3>2. jmap.count < JournalCapacity /\ jmap \in Journal(Nat)
      BY <2>2, JournalAssumption, SMTT(30) DEF Full, IInv, Types, Journal
    <3>3. batch[next + 1] \in Nat
      BY <3>1, SMTT(30) DEF IInv, Types, Progress
    <3>4. /\ jmap'.count = jmap.count
          /\ \A i \in 1 .. jmap.count : jmap'.records[i] = jmap.records[i]
      BY <3>1, <3>2, <3>3, StoreRecordFacts, ZenonT(60)
    <3> QED
      BY <3>4 DEF Holds
  <2> QED
    BY <2>1, <2>2, Zenon
<1>5. CASE appendCount
  <2>1. /\ jmap' = storeCount(jmap) /\ jmap \in Journal(Nat)
        /\ jmap.count < JournalCapacity /\ jmap.count \in Nat
    BY <1>5 DEF appendCount, IInv, Types, Progress, Journal
  <2>2. jmap'.count = jmap.count + 1 /\ jmap'.records = jmap.records
    BY <2>1, StoreCountFacts, Zenon
  <2> QED
    BY <2>1, <2>2, SMTT(30) DEF Holds
<1>6. CASE ownerStep \/ crash
  BY <1>1, <1>6, ZenonT(60) DEF ownerStep, start, tryPublish, tryPush, stop, join, recreate, crash
<1>7. CASE \/ loadStore \/ loopTest \/ tryPop \/ popNothing \/ flush \/ storeTruncate \/ storeWrite
           \/ storeCloseFails \/ acknowledge \/ finish \/ ioError \/ unwind \/ catch
  BY <1>1, <1>7, Zenon DEF loadStore, loopTest, tryPop, popNothing, flush, storeTruncate, storeWrite,
     storeCloseFails, acknowledge, finish, ioError, unwind, catch
<1>8. CASE rebuildStoreFromJournal \/ rebuildTruncate \/ rebuildWrite \/ rebuildFails \/ UNCHANGED vars
  BY <1>1, <1>8, ZenonT(60) DEF rebuildStoreFromJournal, rebuildTruncate, rebuildWrite, rebuildFails,
     vars, pipeVars
<1> QED
  BY <1>2, <1>3, <1>4, <1>5, <1>6, <1>7, <1>8, ZenonT(30) DEF Next, pipeline, workerStep, powerFailure

\* Parts of journaled sequences, and two of them in a row, are journaled.
LEMMA HeldParts ==
  ASSUME NEW j, NEW s, NEW t, AllHeld(j, s), AllHeld(j, t)
  PROVE  /\ AllHeld(j, <<>>) /\ AllHeld(j, s \o t)
         /\ \A n \in 0 .. Len(s) : AllHeld(j, SubSeq(s, 1, n))
<1>1. s \in Seq(Nat) /\ t \in Seq(Nat)
  BY SMTT(30) DEF AllHeld
<1>2. AllHeld(j, <<>>)
  BY DEF AllHeld
<1>3. AllHeld(j, s \o t)
  <2>1. s \o t \in Seq(Nat) /\ Len(s \o t) = Len(s) + Len(t)
    BY <1>1, SMTT(30)
  <2> SUFFICES ASSUME NEW k \in 1 .. Len(s \o t) PROVE Holds(j, (s \o t)[k])
    BY <2>1, SMTT(30) DEF AllHeld
  <2>2. CASE k <= Len(s)
    <3>1. (s \o t)[k] = s[k] /\ k \in 1 .. Len(s)
      BY <1>1, <2>1, <2>2, SMTT(30)
    <3> QED
      BY <3>1, SMTT(30) DEF AllHeld
  <2>3. CASE k > Len(s)
    <3>1. (s \o t)[k] = t[k - Len(s)] /\ k - Len(s) \in 1 .. Len(t)
      BY <1>1, <2>1, <2>3, SMTT(30)
    <3> QED
      BY <3>1, SMTT(30) DEF AllHeld
  <2> QED
    BY <1>1, <2>1, <2>2, <2>3, SMTT(30)
<1>4. ASSUME NEW n \in 0 .. Len(s) PROVE AllHeld(j, SubSeq(s, 1, n))
  <2>1. /\ SubSeq(s, 1, n) \in Seq(Nat) /\ Len(SubSeq(s, 1, n)) = n
        /\ \A k \in 1 .. n : SubSeq(s, 1, n)[k] = s[k] /\ k \in 1 .. Len(s)
    BY <1>1, SMTT(30)
  <2> QED
    BY <2>1, Zenon DEF AllHeld
<1> QED
  BY <1>2, <1>3, <1>4, ZenonT(60)

\* The steps that write the store file or the worker's copy of it: a batch is
\* stored once it is synced.
LEMMA WriteStored ==
  ASSUME IInv, Stored, storeWrite \/ storeCloseFails
  PROVE  AllHeld(jmap', sfile'.trades) /\ AllHeld(jmap', m_trades')
<1> USE DEF fileVars, workerVars, ownerVars, flagVars
<1> DEFINE all == m_trades \o batch
<1>1. wpc = "write" /\ UNCHANGED <<jmap, jdisk, batch>>
  BY Zenon DEF storeWrite, storeCloseFails
<1>2. AllHeld(jmap, batch)
  BY <1>1, SyncKeeps, Zenon DEF IInv, Types, Progress, AllHeld
<1>3. AllHeld(jmap, all)
  BY <1>2, HeldParts, ZenonT(60) DEF Stored
<1>4. all \in Seq(Nat) /\ Len(sfile.trades) \in Nat
  BY <1>3 DEF Stored, AllHeld
<1> HIDE DEF all
<1>5. CASE storeWrite
  <2>1. PICK n \in Len(sfile.trades) .. Len(all) :
          sfile' = written(all, n) /\ m_trades' \in {all, m_trades}
    BY <1>5, ZenonT(60) DEF storeWrite, staged, all
  <2>2. n \in 0 .. Len(all) /\ sfile'.trades = SubSeq(all, 1, n)
    BY <1>4, <2>1 DEF written
  <2>3. AllHeld(jmap, SubSeq(all, 1, n))
    BY <1>3, <2>2, HeldParts, Zenon
  <2>4. AllHeld(jmap, m_trades')
    BY <1>3, <2>1, Zenon DEF Stored
  <2> QED
    BY <1>1, <2>2, <2>3, <2>4, Zenon
<1>6. CASE storeCloseFails
  <2>1. m_trades' = all /\ sfile' = sfile
    BY <1>6, Zenon DEF storeCloseFails, staged, all
  <2> QED
    BY <1>1, <1>3, <2>1, Zenon DEF Stored
<1> QED
  BY <1>5, <1>6, Zenon

\* Every step but a loss of power keeps the store behind the journal; a rebuild
\* copies the journal.
LEMMA NextStored ==
  ASSUME IInv, Stored, ~PowerFailures, [Next]_vars
  PROVE  Stored'
<1> USE DEF fileVars, workerVars, ownerVars, flagVars
<1>1. ASSUME NEW trades, AllHeld(jmap, trades) PROVE AllHeld(jmap', trades)
  BY <1>1, HeldStays, Zenon DEF AllHeld
<1>2. /\ AllHeld(jmap', <<>>) /\ AllHeld(jmap', sfile.trades)
      /\ AllHeld(jmap', m_trades) /\ AllHeld(jmap', fills)
  BY <1>1, HeldParts, Zenon DEF Stored
<1>3. CASE pipeline
  <2>1. fills' = fills
    BY <1>3 DEF pipeline, rebuildVars
  <2>2. CASE storeWrite \/ storeCloseFails
    BY <1>2, <2>1, <2>2, WriteStored, Zenon DEF Stored
  <2>3. CASE ownerStep
    <3>1. sfile' = sfile /\ m_trades' \in {m_trades, <<>>}
      BY <2>3, Zenon DEF ownerStep, start, tryPublish, tryPush, stop, join, recreate, NewObject
    <3> QED
      BY <1>2, <2>1, <3>1, Zenon DEF Stored
  <2>4. CASE openJournal \/ initializeOrValidateHeader \/ initializeCapacity \/ loadStore
    <3>1. sfile' = sfile /\ m_trades' \in {m_trades, sfile.trades}
      BY <2>4, Zenon DEF openJournal, initializeOrValidateHeader, initializeCapacity, loadStore
    <3> QED
      BY <1>2, <2>1, <3>1, Zenon DEF Stored
  <2>5. CASE \/ loopTest \/ tryPop \/ popNothing \/ append \/ appendCount \/ flush
             \/ acknowledge \/ finish \/ ioError \/ unwind \/ catch
    <3>1. sfile' = sfile /\ m_trades' \in {m_trades, <<>>}
      BY <2>5, Zenon DEF loopTest, tryPop, popNothing, append, appendCount, flush, acknowledge,
         finish, ioError, unwind, catch
    <3> QED
      BY <1>2, <2>1, <3>1, Zenon DEF Stored
  <2>6. CASE storeTruncate
    <3>1. sfile'.trades = <<>> /\ m_trades' = m_trades
      BY <2>6, Zenon DEF storeTruncate, truncated, EmptyStore
    <3> QED
      BY <1>2, <2>1, <3>1, ZenonT(30) DEF Stored
  <2> QED
    BY <1>3, <2>2, <2>3, <2>4, <2>5, <2>6, ZenonT(30) DEF pipeline, workerStep
<1>4. CASE rebuildStoreFromJournal
  <2>1. UNCHANGED <<jmap, sfile, m_trades>> /\ fills' \in {fills, replay(jmap)}
    BY <1>4, Zenon DEF rebuildStoreFromJournal, pipeVars
  <2>2. jmap \in Journal(Nat)
    BY DEF IInv, Types
  <2>3. AllHeld(jmap, replay(jmap))
    BY <2>2, ReplayFacts, Zenon DEF AllHeld, Holds
  <2> QED
    BY <1>2, <2>1, <2>3, Zenon DEF Stored
<1>5. CASE rebuildTruncate \/ rebuildFails \/ crash \/ UNCHANGED vars
  <2>1. /\ sfile'.trades \in {sfile.trades, <<>>}
        /\ m_trades' \in {m_trades, <<>>} /\ fills' \in {fills, <<>>}
    <3>1. CASE rebuildTruncate
      BY <3>1, Zenon DEF rebuildTruncate, truncated, EmptyStore
    <3>2. CASE rebuildFails
      BY <3>2, Zenon DEF rebuildFails, pipeVars
    <3>3. CASE crash
      BY <3>3, Zenon DEF crash, NewObject
    <3>4. CASE UNCHANGED vars
      BY <3>4, Zenon DEF vars, pipeVars, rebuildVars
    <3> QED
      BY <1>5, <3>1, <3>2, <3>3, <3>4, ZenonT(30)
  <2> QED
    BY <1>2, <2>1, Zenon DEF Stored
<1>6. CASE rebuildWrite
  <2>1. PICK n \in Len(sfile.trades) .. Len(fills) :
          sfile' = written(fills, n) /\ fills' \in {fills, <<>>}
    BY <1>6, Zenon DEF rebuildWrite
  <2>2. m_trades' = m_trades /\ jmap' = jmap
    BY <1>6, Zenon DEF rebuildWrite
  <2>3. n \in 0 .. Len(fills) /\ sfile'.trades = SubSeq(fills, 1, n)
    <3>1. Len(sfile.trades) \in Nat
      BY DEF Stored, AllHeld
    <3> QED
      BY <2>1, <3>1, SMTT(30) DEF written
  <2>4. AllHeld(jmap', SubSeq(fills, 1, n))
    BY <1>2, <2>3, HeldParts, Zenon
  <2> QED
    BY <1>2, <2>1, <2>2, <2>3, <2>4, ZenonT(30) DEF Stored
<1> QED
  BY <1>3, <1>4, <1>5, <1>6, Zenon DEF Next, powerFailure

\* The store holds nothing that the journal does not, through any number of
\* errors, stops, restarts, crashes and rebuilds (flushBatch, insertBatch,
\* rebuildStoreFromJournal).
THEOREM StoreBehindJournal ==
  ASSUME ~PowerFailures
  PROVE  Spec => []JournalFirst
<1>1. Init => Stored
  BY SMTT(30) DEF Init, PipeInit, Stored, AllHeld, EmptyStore
<1>2. IInv /\ Stored => JournalFirst
  <2> SUFFICES ASSUME IInv, Stored, NEW x \in Range(sfile.trades)
               PROVE  x \in Range(Journaled)
    BY SMTT(30) DEF JournalFirst
  <2>1. sfile.trades \in Seq(Nat) /\ jmap \in Journal(Nat)
    BY DEF IInv, Types, Stored, AllHeld
  <2>2. PICK k \in 1 .. Len(sfile.trades) : x = sfile.trades[k]
    BY <2>1 DEF Range
  <2>3. PICK i \in 1 .. jmap.count : jmap.records[i] = x
    BY <2>2, Zenon DEF Stored, AllHeld, Holds
  <2>4. Journaled \in Seq(Nat) /\ Len(Journaled) = jmap.count /\ Journaled[i] = x
    BY <2>1, <2>3, ReplayFacts, Zenon DEF Journaled, replay
  <2> QED
    BY <2>3, <2>4, SMTT(30) DEF Range
<1>3. IInv /\ Stored /\ [Next]_vars => Stored'
  BY NextStored
<1> QED
  BY <1>1, <1>2, <1>3, InitIInv, NextIInv, PTL, Zenon DEF Spec
-----------------------------------------------------------------------------
(* The store is a projection of the journal until something fails *)

\* Places of the worker at which no batch is on its way into the files.
Quiet == {"none", "open", "header", "capacity", "load", "loop", "pop", "final", "exited"}

\* A rebuild works on the journal as it is, and, until an error or a crash,
\* the file (t) holds the journal (j) between batches, the worker's copy (m)
\* is what the journal held before the batch (b), of which n are appended.
InStep(place, j, t, m, b, n) ==
  /\ place \notin {"unwind", "catch"}
  /\ place \in Quiet \cup {"ack"} => t = j
  /\ place \in {"loop", "pop", "ack"} => m = j
  /\ place \in {"append", "count", "flush", "truncate", "write"} => m \in Seq(Nat)
  /\ place \in {"append", "count", "flush"} => j = m \o SubSeq(b, 1, n)
  /\ place \in {"truncate", "write"} => j = m \o b

Projected ==
  /\ rpc \in {"idle", "truncate", "write"}
  /\ rpc # "idle" => wpc = "none" /\ fills = Journaled
  /\ projected => rpc # "write" /\ InStep(wpc, Journaled, sfile.trades, m_trades, batch, next)

\* The counted records, while the worker opens the file and appends.
LEMMA JournaledFacts ==
  ASSUME IInv
  PROVE  /\ Journaled \in Seq(Nat) /\ Len(Journaled) = jmap.count
         /\ \A i \in 1 .. jmap.count : Journaled[i] = jmap.records[i]
BY ReplayFacts, Zenon DEF IInv, Types, Journaled, replay

\* The fill that is appended next is one of the batch.
LEMMA BatchFill ==
  ASSUME IInv, wpc \in {"append", "count"}
  PROVE  next \in Nat /\ next < Len(batch) /\ batch[next + 1] \in Nat
<1>1. batch \in Seq(Nat) /\ next \in Nat /\ next < Len(batch)
  BY Zenon DEF IInv, Types, Progress
<1> QED
  BY <1>1

\* Counting the next record appends it (append).
LEMMA JournaledCount ==
  ASSUME IInv, IInv', wpc = "count", jmap' = storeCount(jmap)
  PROVE  Journaled' = Append(Journaled, batch[next + 1])
<1> DEFINE c == jmap.count
           r == jmap.records
           x == batch[next + 1]
           j == replay(jmap)
           k == replay(jmap')
<1>1. /\ jmap \in Journal(Nat) /\ jmap' \in Journal(Nat) /\ c < JournalCapacity /\ r[c + 1] = x
  BY Zenon DEF IInv, Types, Progress
<1>0. c \in Nat
  BY <1>1 DEF Journal
<1>7. x \in Nat
  BY BatchFill, Zenon
<1>2. jmap'.count = c + 1 /\ jmap'.records = r
  BY <1>1, StoreCountFacts, Zenon
<1>3. j \in Seq(Nat) /\ Len(j) = c /\ \A i \in 1 .. c : j[i] = r[i]
  BY <1>1, ReplayFacts, Zenon
<1>4. k \in Seq(Nat) /\ Len(k) = c + 1 /\ \A i \in 1 .. c + 1 : k[i] = r[i]
  <2>1. /\ k \in Seq(Nat) /\ Len(k) = jmap'.count
        /\ \A i \in 1 .. jmap'.count : k[i] = jmap'.records[i]
    BY <1>1, ReplayFacts, Zenon
  <2> QED
    BY <1>2, <2>1, Zenon
<1> HIDE DEF c, r, x, j, k
<1>5. /\ Append(j, x) \in Seq(Nat) /\ Len(Append(j, x)) = c + 1
      /\ \A i \in 1 .. c + 1 : Append(j, x)[i] = r[i]
  BY <1>0, <1>1, <1>3, <1>7, AppendProperties, SMTT(30)
<1>6. k = Append(j, x)
  BY <1>4, <1>5, SeqEqual, Zenon
<1> QED
  BY <1>6, ZenonT(30) DEF j, k, x, Journaled, replay

\* The counted records are those from before when neither they nor their number
\* change.
LEMMA JournaledSame ==
  ASSUME IInv, IInv', jmap'.count = jmap.count,
         \A i \in 1 .. jmap.count : jmap'.records[i] = jmap.records[i]
  PROVE  Journaled' = Journaled
<1> DEFINE j == replay(jmap)
           k == replay(jmap')
<1>1. jmap \in Journal(Nat) /\ jmap' \in Journal(Nat)
  BY DEF IInv, Types
<1>2. j \in Seq(Nat) /\ Len(j) = jmap.count /\ \A i \in 1 .. jmap.count : j[i] = jmap.records[i]
  BY <1>1, ReplayFacts, Zenon
<1>3. /\ k \in Seq(Nat) /\ Len(k) = jmap'.count
      /\ \A i \in 1 .. jmap'.count : k[i] = jmap'.records[i]
  BY <1>1, ReplayFacts, Zenon
<1> HIDE DEF j, k
<1>4. k = j
  BY <1>2, <1>3, SeqEqual, ZenonT(60)
<1> QED
  BY <1>4, ZenonT(30) DEF j, k, Journaled, replay

\* Appending to what was appended.
LEMMA ConcatRegroups ==
  ASSUME NEW s \in Seq(Nat), NEW t \in Seq(Nat), NEW u \in Seq(Nat)
  PROVE  (s \o t) \o u = s \o (t \o u)
<1> DEFINE st == s \o t
           tu == t \o u
           l == st \o u
           r == s \o tu
           a == Len(s)
           b == Len(t)
           c == Len(u)
<1>1. a \in Nat /\ b \in Nat /\ c \in Nat
  OBVIOUS
<1>2. st \in Seq(Nat) /\ Len(st) = a + b
      /\ \A i \in 1 .. a + b : st[i] = IF i <= a THEN s[i] ELSE t[i - a]
  BY ConcatFacts, Zenon
<1>3. tu \in Seq(Nat) /\ Len(tu) = b + c
      /\ \A i \in 1 .. b + c : tu[i] = IF i <= b THEN t[i] ELSE u[i - b]
  BY ConcatFacts, Zenon
<1> HIDE DEF st, tu
<1>4. l \in Seq(Nat) /\ Len(l) = (a + b) + c
      /\ \A i \in 1 .. (a + b) + c : l[i] = IF i <= a + b THEN st[i] ELSE u[i - (a + b)]
  <2>1. l \in Seq(Nat) /\ Len(l) = Len(st) + c
        /\ \A i \in 1 .. Len(st) + c : l[i] = IF i <= Len(st) THEN st[i] ELSE u[i - Len(st)]
    BY <1>2, ConcatFacts, Zenon
  <2> HIDE DEF l, a, b, c
  <2> QED
    BY <1>2, <2>1, Zenon
<1>5. r \in Seq(Nat) /\ Len(r) = a + (b + c)
      /\ \A i \in 1 .. a + (b + c) : r[i] = IF i <= a THEN s[i] ELSE tu[i - a]
  <2>1. r \in Seq(Nat) /\ Len(r) = a + Len(tu)
        /\ \A i \in 1 .. a + Len(tu) : r[i] = IF i <= a THEN s[i] ELSE tu[i - a]
    BY <1>3, ConcatFacts, Zenon
  <2> HIDE DEF r, a, b, c
  <2> QED
    BY <1>3, <2>1, Zenon
<1> HIDE DEF l, r, a, b, c
<1>6. (a + b) + c = a + (b + c)
  BY <1>1
<1>7. ASSUME NEW i \in 1 .. Len(l) PROVE l[i] = r[i]
  <2>1. i \in 1 .. (a + b) + c /\ i \in 1 .. a + (b + c)
    BY <1>4, <1>6, Zenon
  <2>2. CASE i <= a
    <3>1. i <= a + b /\ i \in 1 .. a + b
      BY <1>1, <2>1, <2>2, SMTT(30)
    <3> QED
      BY <1>2, <1>4, <1>5, <2>1, <2>2, <3>1, ZenonT(60)
  <2>3. CASE ~(i <= a) /\ i <= a + b
    <3>1. i \in 1 .. a + b /\ i - a \in 1 .. b + c /\ i - a <= b
      BY <1>1, <2>1, <2>3, SMTT(30)
    <3> QED
      BY <1>2, <1>3, <1>4, <1>5, <2>1, <2>3, <3>1, ZenonT(60)
  <2>4. CASE ~(i <= a) /\ ~(i <= a + b)
    <3>1. i - a \in 1 .. b + c /\ ~(i - a <= b) /\ (i - a) - b = i - (a + b)
      BY <1>1, <2>1, <2>4, SMTT(30)
    <3> QED
      BY <1>3, <1>4, <1>5, <2>1, <2>4, <3>1, ZenonT(60)
  <2>5. i <= a => i <= a + b
    BY <1>1, <2>1, SMTT(30)
  <2> QED
    BY <2>2, <2>3, <2>4, <2>5, Zenon
<1>8. Len(l) = Len(r)
  BY <1>4, <1>5, <1>6, Zenon
<1>9. l = r
  BY <1>4, <1>5, <1>7, <1>8, SeqEqual, ZenonT(60)
<1> QED
  BY <1>9, Zenon DEF l, r, st, tu

\* One more fill of the batch behind the journal from before it.
LEMMA AppendedBatch ==
  ASSUME NEW m \in Seq(Nat), NEW b \in Seq(Nat), NEW n \in Nat, n < Len(b)
  PROVE  Append(m \o SubSeq(b, 1, n), b[n + 1]) = m \o SubSeq(b, 1, n + 1)
<1> DEFINE c == SubSeq(b, 1, n)
           x == b[n + 1]
<1>1. c \in Seq(Nat) /\ x \in Nat /\ <<x>> \in Seq(Nat)
  BY SMTT(30)
<1>2. SubSeq(b, 1, n + 1) = c \o <<x>>
  <2>1. 1 \in 1 .. Len(b) /\ n + 1 \in 1 .. Len(b) /\ (n + 1) - 1 = n
    OBVIOUS
  <2>2. SubSeq(b, 1, n + 1) = SubSeq(b, 1, (n + 1) - 1) \o <<b[n + 1]>>
    BY <2>1, SubSeqRecursiveSecond, Zenon
  <2> QED
    BY <2>1, <2>2, Zenon
<1> HIDE DEF c, x
<1>3. m \o c \in Seq(Nat)
  BY <1>1, ConcatProperties, Zenon
<1>4. Append(m \o c, x) = (m \o c) \o <<x>>
  BY <1>1, <1>3, AppendIsConcat, Zenon
<1>5. (m \o c) \o <<x>> = m \o (c \o <<x>>)
  BY <1>1, ConcatRegroups, ZenonT(60)
<1>6. Append(m \o c, x) = m \o SubSeq(b, 1, n + 1)
  BY <1>2, <1>4, <1>5, Zenon
<1> QED
  BY <1>6, ZenonT(30) DEF c, x

\* The worker keeps the store in step, but for errors.
LEMMA WorkerInStep ==
  ASSUME IInv, IInv', workerStep, wpc' # "unwind", ~storeCloseFails,
         InStep(wpc, Journaled, sfile.trades, m_trades, batch, next)
  PROVE  InStep(wpc, Journaled, sfile.trades, m_trades, batch, next)'
<1> USE DEF fileVars, workerVars, ownerVars, flagVars
<1>1. /\ Journaled \in Seq(Nat) /\ batch \in Seq(Nat) /\ next \in Nat
      /\ jmap \in Journal(Nat) /\ jmap.count \in Nat
  BY JournaledFacts, SMTT(30) DEF IInv, Types, Journal
<1>2. jmap' = jmap => Journaled' = Journaled
  BY DEF Journaled
<1>3. CASE openJournal \/ initializeCapacity
  <2>1. /\ jmap' \in {openMapping(jmap), storeCapacity(jmap)}
        /\ wpc \in Quiet /\ wpc' \in {"header", "load"} /\ sfile' = sfile
    BY <1>3, Zenon DEF openJournal, initializeCapacity, Quiet
  <2>2. jmap'.count = jmap.count /\ jmap'.records = jmap.records
    BY <1>1, <2>1, ZenonT(60) DEF openMapping, storeCapacity, Journal
  <2>3. Journaled' = Journaled
    BY <2>2, JournaledSame, ZenonT(60)
  <2> QED
    BY <2>1, <2>3, Zenon DEF InStep, Quiet
<1>4. CASE initializeOrValidateHeader
  <2>1. wpc = "header" /\ wpc' \in {"capacity", "load"} /\ sfile' = sfile
    BY <1>4, Zenon DEF initializeOrValidateHeader
  <2>2. Journaled' = Journaled
    <3>1. CASE newFile
      <4>1. jmap.count = 0 /\ jmap'.count = 0
        BY <1>4, <2>1, <3>1, ZenonT(60) DEF initializeOrValidateHeader, initHeader, EmptyJournal, IInv, Headers
      <4> QED
        BY <4>1, JournaledSame, SMTT(30)
    <3>2. CASE ~newFile
      BY <1>2, <1>4, <3>2, Zenon DEF initializeOrValidateHeader
    <3> QED
      BY <3>1, <3>2, ZenonT(60)
  <2> QED
    BY <2>1, <2>2, ZenonT(60) DEF InStep, Quiet
<1>5. CASE loadStore
  <2>1. wpc = "load" /\ wpc' = "loop" /\ m_trades' = sfile.trades /\ UNCHANGED <<jmap, sfile>>
    BY <1>5, Zenon DEF loadStore
  <2> QED
    BY <1>2, <2>1, Zenon DEF InStep, Quiet
<1>6. CASE loopTest \/ tryPop \/ popNothing
  <2>1. /\ wpc \in {"loop", "pop"} /\ wpc' \in {"loop", "pop", "append", "final"}
        /\ UNCHANGED <<jmap, sfile, m_trades, next>>
    BY <1>6, ZenonT(60) DEF loopTest, tryPop, popNothing
  <2>3. next' = 0 /\ SubSeq(batch', 1, 0) = <<>>
    <3>1. next = 0
      BY <2>1, ZenonT(60) DEF IInv, Progress
    <3>2. batch' \in Seq(Nat)
      BY ZenonT(60) DEF IInv, Types
    <3> QED
      BY <2>1, <3>1, <3>2, FrontFacts, ZenonT(60)
  <2>4. Journaled \o <<>> = Journaled
    BY <1>1, ConcatEmptySeq, Zenon
  <2>2. next' = 0 /\ SubSeq(batch', 1, 0) = <<>> /\ Journaled \o <<>> = Journaled
    BY <2>3, <2>4, Zenon
  <2>5. sfile.trades = Journaled /\ m_trades = Journaled /\ m_trades \in Seq(Nat)
    BY <1>1, <2>1, Zenon DEF InStep, Quiet
  <2>6. Journaled' = Journaled /\ sfile'.trades = Journaled /\ m_trades' = Journaled
    BY <1>2, <2>1, <2>5, Zenon
  <2> QED
    BY <1>1, <2>1, <2>2, <2>6, Zenon DEF InStep, Quiet
<1>7. CASE append
  <2>1. /\ wpc = "append" /\ wpc' = "count" /\ jmap' = storeRecord(jmap, batch[next + 1])
        /\ ~Full(jmap) /\ UNCHANGED <<batch, next, m_trades>>
    BY <1>7, ZenonT(60) DEF append
  <2>2. jmap.count < JournalCapacity /\ batch[next + 1] \in Nat
    <3>1. next < Len(batch)
      BY <2>1, ZenonT(60) DEF IInv, Progress
    <3>2. ~(jmap.count >= JournalCapacity)
      BY <2>1, Zenon DEF Full
    <3> QED
      BY <1>1, <3>1, <3>2, NextElement, BelowCapacity, ZenonT(60)
  <2>3. Journaled' = Journaled
    BY <1>1, <2>1, <2>2, StoreRecordFacts, JournaledSame, ZenonT(60)
  <2> QED
    BY <2>1, <2>3, ZenonT(30) DEF InStep, Quiet
<1>8. CASE appendCount
  <2>1. /\ wpc = "count" /\ jmap' = storeCount(jmap) /\ next' = next + 1
        /\ wpc' \in {"flush", "append"} /\ UNCHANGED <<batch, m_trades>>
    BY <1>8, Zenon DEF appendCount
  <2>2. next < Len(batch)
    BY <2>1, Zenon DEF IInv, Progress
  <2>3. Journaled' = Append(Journaled, batch[next + 1])
    BY <2>1, JournaledCount, Zenon
  <2>4. m_trades \in Seq(Nat) /\ Journaled = m_trades \o SubSeq(batch, 1, next)
    BY <2>1, ZenonT(30) DEF InStep
  <2>5. Journaled' = m_trades \o SubSeq(batch, 1, next + 1)
    BY <1>1, <2>2, <2>3, <2>4, AppendedBatch, ZenonT(60)
  <2> QED
    BY <2>1, <2>5, Zenon DEF InStep, Quiet
<1>9. CASE flush
  <2>1. wpc = "flush" /\ wpc' = "truncate" /\ UNCHANGED <<jmap, batch, m_trades>>
    BY <1>9, ZenonT(60) DEF flush
  <2>2. next = Len(batch) /\ SubSeq(batch, 1, Len(batch)) = batch
    <3>1. next = Len(batch)
      BY <2>1, ZenonT(60) DEF IInv, Progress
    <3> QED
      BY <1>1, <3>1, FrontFacts, ZenonT(60)
  <2> QED
    BY <1>2, <2>1, <2>2, Zenon DEF InStep, Quiet
<1>10. CASE storeTruncate
  <2>1. wpc = "truncate" /\ wpc' = "write" /\ UNCHANGED <<jmap, batch, m_trades>>
    BY <1>10, Zenon DEF storeTruncate
  <2> QED
    BY <1>2, <2>1, Zenon DEF InStep, Quiet
<1>11. CASE storeWrite
  <2> DEFINE all == m_trades \o batch
  <2>1. wpc = "write" /\ UNCHANGED <<jmap, batch>> /\ Journaled = all
    BY <1>11, Zenon DEF storeWrite, InStep
  <2>2. PICK n \in Len(sfile.trades) .. Len(all) :
          /\ sfile' = written(all, n)
          /\ IF n = Len(all) THEN m_trades' = all /\ wpc' = "ack"
                             ELSE UNCHANGED <<m_trades, wpc>>
    BY <1>11, Zenon DEF storeWrite, staged
  <2>3. sfile'.trades = SubSeq(all, 1, n) /\ SubSeq(all, 1, Len(all)) = all
    <3>1. all \in Seq(Nat)
      BY <1>1, <2>1, ZenonT(60)
    <3> HIDE DEF all
    <3>2. SubSeq(all, 1, Len(all)) = all
      BY <3>1, FrontFacts, Zenon
    <3>3. sfile'.trades = SubSeq(all, 1, n)
      BY <2>2, ZenonT(60) DEF written
    <3> QED
      BY <3>2, <3>3, Zenon
  <2> HIDE DEF all
  <2>4. CASE n = Len(all)
    BY <1>2, <2>1, <2>2, <2>3, <2>4, ZenonT(60) DEF InStep, Quiet
  <2>5. CASE n # Len(all)
    BY <1>2, <2>1, <2>2, <2>5, ZenonT(30) DEF InStep, Quiet, all
  <2> QED
    BY <2>4, <2>5, Zenon
<1>12. CASE acknowledge \/ finish
  <2>1. /\ wpc \in {"ack", "final"} /\ wpc' \in {"loop", "final", "exited"}
        /\ wpc' = "loop" => wpc = "ack" /\ m_trades' = m_trades
        /\ UNCHANGED <<jmap, sfile>>
    BY <1>12, Zenon DEF acknowledge, finish
  <2> QED
    BY <1>2, <2>1, Zenon DEF InStep, Quiet
<1>13. wpc \notin {"unwind", "catch"}
  BY Zenon DEF InStep
<1> QED
  BY <1>3, <1>4, <1>5, <1>6, <1>7, <1>8, <1>9, <1>10, <1>11, <1>12, <1>13, ZenonT(30)
     DEF workerStep, ioError, unwind, catch

\* The owner starts and stops the worker between batches.
LEMMA OwnerInStep ==
  ASSUME IInv, ownerStep, InStep(wpc, Journaled, sfile.trades, m_trades, batch, next)
  PROVE  InStep(wpc, Journaled, sfile.trades, m_trades, batch, next)'
<1> USE DEF fileVars, workerVars, ownerVars, flagVars
<1>1. UNCHANGED <<jmap, sfile>> /\ Journaled' = Journaled
  BY Zenon DEF ownerStep, start, tryPublish, tryPush, stop, join, recreate, Journaled
<1>2. CASE start
  <2>1. wpc = "none" /\ wpc' = "open"
    BY <1>2, Zenon DEF start, IInv, Progress
  <2> QED
    BY <1>1, <2>1, Zenon DEF InStep, Quiet
<1>3. CASE tryPublish \/ tryPush \/ stop
  <2>1. UNCHANGED <<wpc, m_trades, batch, next>>
    BY <1>3, Zenon DEF tryPublish, tryPush, stop
  <2> QED
    BY <1>1, <2>1, ZenonT(30) DEF InStep
<1>4. CASE join \/ recreate
  <2>1. wpc \in {"none", "exited"} /\ wpc' = "none"
    BY <1>4, Zenon DEF join, recreate, NewObject
  <2> QED
    BY <1>1, <2>1, Zenon DEF InStep, Quiet
<1> QED
  BY <1>2, <1>3, <1>4, Zenon DEF ownerStep

\* Every step keeps the store in step or ends `projected', and a rebuild that
\* completes brings both together again (replaceAll).
LEMMA NextProjected ==
  ASSUME IInv, IInv', Projected, [Next]_vars
  PROVE  Projected'
<1> USE DEF fileVars, workerVars, ownerVars, flagVars
<1>1. CASE pipeline
  <2>1. /\ rpc = "idle" /\ rpc' = "idle" /\ (ownerStep \/ workerStep)
        /\ projected' => projected /\ wpc' # "unwind" /\ ~storeCloseFails
    BY <1>1, ZenonT(30) DEF pipeline, rebuildVars
  <2> QED
    BY <2>1, OwnerInStep, WorkerInStep, Zenon DEF Projected
<1>2. CASE rebuildStoreFromJournal
  <2>1. /\ wpc = "none" /\ UNCHANGED <<jmap, sfile, wpc, m_trades, batch, next, projected>>
        /\ \/ UNCHANGED <<rpc, fills>>
           \/ rpc = "idle" /\ rpc' = "truncate" /\ fills' = replay(jmap)
    BY <1>2, Zenon DEF rebuildStoreFromJournal, pipeVars
  <2>2. Journaled' = Journaled /\ Journaled = replay(jmap)
    BY <2>1, Zenon DEF Journaled, replay
  <2> QED
    BY <2>1, <2>2, Zenon DEF Projected
<1>3. CASE rebuildTruncate
  <2>1. rpc = "truncate" /\ rpc' = "write" /\ ~projected' /\ UNCHANGED <<jmap, wpc, fills>>
    BY <1>3, Zenon DEF rebuildTruncate
  <2> QED
    BY <2>1, Zenon DEF Projected, Journaled
<1>4. CASE rebuildWrite
  <2>1. /\ rpc = "write" /\ wpc = "none" /\ fills = Journaled /\ ~projected
        /\ UNCHANGED <<jmap, wpc>>
    BY <1>4, Zenon DEF rebuildWrite, Projected
  <2>2. PICK n \in Len(sfile.trades) .. Len(fills) :
          /\ sfile' = written(fills, n)
          /\ IF n = Len(fills) THEN rpc' = "idle" ELSE UNCHANGED <<rpc, fills, projected>>
    BY <1>4, Zenon DEF rebuildWrite
  <2>3. Journaled' = Journaled /\ Journaled \in Seq(Nat)
    BY <2>1, JournaledFacts, Zenon DEF Journaled
  <2>4. CASE n = Len(fills)
    <3>1. sfile'.trades = Journaled
      BY <2>1, <2>2, <2>3, <2>4, SMTT(30) DEF written
    <3> QED
      BY <2>1, <2>2, <2>3, <2>4, <3>1, Zenon DEF Projected, InStep, Quiet
  <2>5. CASE n # Len(fills)
    BY <2>1, <2>2, <2>3, <2>5, Zenon DEF Projected
  <2> QED
    BY <2>4, <2>5, Zenon
<1>5. CASE rebuildFails \/ crash \/ powerFailure
  <2>1. rpc' = "idle" /\ ~projected'
    BY <1>5, Zenon DEF rebuildFails, crash, powerFailure
  <2> QED
    BY <2>1, Zenon DEF Projected
<1>6. CASE UNCHANGED vars
  BY <1>6, Zenon DEF vars, pipeVars, rebuildVars, Projected, Journaled
<1> QED
  BY <1>1, <1>2, <1>3, <1>4, <1>5, <1>6, ZenonT(30) DEF Next

\* Store and journal agree between batches, from a fresh pair or a completed
\* rebuild until the next error, crash or loss of power (insertBatch,
\* replaceAll).
THEOREM StoreIsProjection == Spec => []Projection
<1>1. Init => Projected
  BY DEF Init, PipeInit, Projected, InStep, Quiet, Journaled, EmptyJournal, EmptyStore
<1>2. Projected => Projection
  BY Zenon DEF Projected, InStep, Quiet, Projection
<1>3. IInv /\ IInv' /\ Projected /\ [Next]_vars => Projected'
  BY NextProjected
<1> QED
  BY <1>1, <1>2, <1>3, InitIInv, NextIInv, PTL, Zenon DEF Spec
-----------------------------------------------------------------------------
(* A report that is ok, while only processes fail *)

\* Fills in the order of publication, none twice.
Increasing(s) == s \in Seq(Nat) /\ \A i, j \in 1 .. Len(s) : i < j => s[i] < s[j]

\* Trades that are older than all of a batch.
Older(trades, b) == \A i \in 1 .. Len(trades), k \in 1 .. Len(b) : trades[i] < b[k]

\* What the store file, the worker's copy and a rebuild hold is in the order
\* of publication, and the copy is older than the batch, until it takes it in.
StoreOrder ==
  /\ Increasing(sfile.trades) /\ Increasing(m_trades) /\ Increasing(fills)
  /\ wpc \in {"none", "open", "header", "capacity", "load", "final", "catch", "exited"} => batch = <<>>
  /\ wpc # "ack" => Older(m_trades, batch)

\* A non-empty set of naturals has a least element.
LEMMA LeastOf ==
  ASSUME NEW T, T \subseteq Nat, T # {}
  PROVE  \E x \in T : \A y \in T : x <= y
<1>1. PICK x \in T : \A y \in T : ~(<<y, x>> \in OpToRel(<, Nat))
  BY WFMin, NatLessThanWellFounded, Zenon
<1>2. ASSUME NEW y \in T PROVE x <= y
  <2>1. x \in Nat /\ y \in Nat
    OBVIOUS
  <2>2. y < x => <<y, x>> \in OpToRel(<, Nat)
    BY <2>1 DEF OpToRel
  <2>3. ~(y < x)
    BY <1>1, <2>2, Zenon
  <2> QED
    BY <2>1, <2>3
<1> QED
  BY <1>2

\* The i-th of increasing positive numbers is at least i.
LEMMA AtLeastIndex ==
  ASSUME NEW s, Increasing(s), \A i \in 1 .. Len(s) : s[i] >= 1
  PROVE  \A i \in 1 .. Len(s) : s[i] >= i
<1>1. s \in Seq(Nat) /\ Len(s) \in Nat /\ \A i \in 1 .. Len(s) : s[i] \in Nat
  BY DEF Increasing
<1> DEFINE T == {i \in 1 .. Len(s) : ~(s[i] >= i)}
<1> SUFFICES ASSUME T # {} PROVE FALSE
  OBVIOUS
<1>2. PICK i \in T : \A j \in T : i <= j
  <2>1. T \subseteq Nat
    BY <1>1
  <2> HIDE DEF T
  <2> QED
    BY <2>1, LeastOf, ZenonT(30)
<1>3. i \in 1 .. Len(s) /\ s[i] < i /\ s[i] >= 1 /\ s[i] \in Nat
  BY <1>1, <1>2, SMTT(30)
<1>4. i - 1 \in 1 .. Len(s) /\ i - 1 < i
  BY <1>1, <1>3, SMTT(30)
<1>5. i - 1 \notin T
  BY <1>2, <1>4
<1>6. s[i - 1] >= i - 1 /\ s[i - 1] < s[i] /\ s[i - 1] \in Nat
  BY <1>1, <1>3, <1>4, <1>5, Zenon DEF Increasing
<1> QED
  BY <1>3, <1>4, <1>6, SMTT(30)

\* Increasing numbers from 1 to p are no more than p, and when they are p,
\* they are all of them.
LEMMA Pigeonhole ==
  ASSUME NEW s, Increasing(s), NEW p \in Nat, \A i \in 1 .. Len(s) : s[i] >= 1 /\ s[i] <= p
  PROVE  /\ Len(s) <= p
         /\ Len(s) = p => \A i \in 1 .. p : s[i] = i
<1>1. s \in Seq(Nat) /\ Len(s) \in Nat /\ \A i \in 1 .. Len(s) : s[i] \in Nat
  BY DEF Increasing
<1>2. \A i \in 1 .. Len(s) : s[i] >= i
  BY AtLeastIndex, Zenon
<1>3. Len(s) <= p
  <2> SUFFICES ASSUME Len(s) > p PROVE FALSE
    BY <1>1
  <2>1. Len(s) \in 1 .. Len(s)
    BY <1>1
  <2>2. s[Len(s)] >= Len(s) /\ s[Len(s)] <= p /\ s[Len(s)] \in Nat
    BY <1>1, <1>2, <2>1, ZenonT(60)
  <2> QED
    BY <1>1, <2>2, SMTT(30)
<1>4. ASSUME Len(s) = p, NEW m \in 1 .. p, s[m] # m PROVE FALSE
  <2> DEFINE T == {k \in 0 .. p - 1 : s[p - k] # p - k}
  <2>1. p - m \in 0 .. p - 1 /\ p - (p - m) = m
    BY <1>4
  <2>0. s[p - (p - m)] # p - (p - m)
    BY <1>4, <2>1, Zenon
  <2>2. T # {} /\ T \subseteq Nat
    <3>1. p - m \in T
      BY <2>0, <2>1, Zenon
    <3>2. T \subseteq Nat
      OBVIOUS
    <3> QED
      BY <3>1, <3>2, ZenonT(30)
  <2>3. PICK k \in T : \A j \in T : k <= j
    <3> HIDE DEF T
    <3> QED
      BY <2>2, LeastOf, ZenonT(30)
  <2>4. k \in 0 .. p - 1 /\ s[p - k] # p - k /\ p - k \in 1 .. Len(s)
    BY <1>4, <2>3, SMTT(30)
  <2>5. s[p - k] > p - k /\ s[p - k] <= p /\ s[p - k] \in Nat
    BY <1>1, <1>2, <2>4, SMTT(30)
  <2>6. k - 1 \in 0 .. p - 1 /\ p - (k - 1) = (p - k) + 1 /\ (p - k) + 1 \in 1 .. Len(s)
    BY <1>4, <2>4, <2>5, SMTT(30)
  <2>7. k - 1 \notin T
    <3>1. ~(k <= k - 1)
      BY <2>4, SMTT(30)
    <3> HIDE DEF T
    <3> QED
      BY <2>3, <3>1, ZenonT(60)
  <2>8. s[(p - k) + 1] = (p - k) + 1
    BY <2>6, <2>7, Zenon
  <2>9. s[p - k] < s[(p - k) + 1]
    BY <2>4, <2>6, SMTT(30) DEF Increasing
  <2> QED
    BY <2>4, <2>5, <2>8, <2>9, SMTT(30)
<1> QED
  BY <1>3, <1>4, Zenon

\* Parts of increasing sequences, and an older one before a newer, are increasing.
LEMMA IncreasingParts ==
  ASSUME NEW s, NEW t, Increasing(s), Increasing(t),
         Older(s, t)
  PROVE  /\ Increasing(s \o t)
         /\ \A n \in 0 .. Len(s) : Increasing(SubSeq(s, 1, n))
<1>1. s \in Seq(Nat) /\ t \in Seq(Nat) /\ Len(s) \in Nat /\ Len(t) \in Nat
  BY SMTT(30) DEF Increasing
<1> DEFINE a == s \o t
<1>2. /\ a \in Seq(Nat) /\ Len(a) = Len(s) + Len(t)
      /\ \A i \in 1 .. Len(s) : a[i] = s[i]
      /\ \A i \in Len(s) + 1 .. Len(a) : a[i] = t[i - Len(s)]
  BY <1>1
<1> HIDE DEF a
<1>6. Len(s) \in Nat /\ Len(t) \in Nat /\ Len(a) = Len(s) + Len(t)
  BY <1>1, <1>2, Zenon
<1>3. ASSUME NEW i \in 1 .. Len(a), NEW j \in 1 .. Len(a), i < j PROVE a[i] < a[j]
  <2>1. CASE j <= Len(s)
    <3>1. i \in 1 .. Len(s) /\ j \in 1 .. Len(s)
      BY <1>6, <1>3, <2>1, SMTT(30)
    <3> QED
      BY <1>2, <1>3, <3>1, ZenonT(60) DEF Increasing
  <2>2. CASE i <= Len(s) /\ j > Len(s)
    <3>1. /\ i \in 1 .. Len(s) /\ j \in Len(s) + 1 .. Len(a) /\ j - Len(s) \in 1 .. Len(t)
      BY <1>6, <1>3, <2>2, SMTT(30)
    <3> QED
      BY <1>2, <3>1, ZenonT(60) DEF Older
  <2>3. CASE i > Len(s)
    <3>1. /\ i \in Len(s) + 1 .. Len(a) /\ j \in Len(s) + 1 .. Len(a)
          /\ i - Len(s) \in 1 .. Len(t) /\ j - Len(s) \in 1 .. Len(t) /\ i - Len(s) < j - Len(s)
      BY <1>6, <1>3, <2>3, SMTT(30)
    <3>2. t[i - Len(s)] < t[j - Len(s)]
      BY <3>1, ZenonT(30) DEF Increasing
    <3> QED
      BY <1>2, <3>1, <3>2, ZenonT(60)
  <2>4. j <= Len(s) \/ (i <= Len(s) /\ j > Len(s)) \/ i > Len(s)
    <3> DEFINE l == Len(s)
    <3>1. l \in Nat /\ i \in Int /\ j \in Int
      BY <1>1, SMTT(30)
    <3> HIDE DEF l
    <3>2. j <= l \/ (i <= l /\ j > l) \/ i > l
      BY <3>1, SMTT(30)
    <3> QED
      BY <3>2, ZenonT(60) DEF l
  <2> QED
    BY <2>1, <2>2, <2>3, <2>4, ZenonT(60)
<1>4. ASSUME NEW n \in 0 .. Len(s) PROVE Increasing(SubSeq(s, 1, n))
  <2> DEFINE q == SubSeq(s, 1, n)
  <2>1. q \in Seq(Nat) /\ Len(q) = n /\ \A k \in 1 .. n : q[k] = s[k] /\ k \in 1 .. Len(s)
    BY <1>1, SMTT(30)
  <2> HIDE DEF q
  <2>2. Increasing(q)
    BY <2>1, ZenonT(30) DEF Increasing
  <2> QED
    BY <2>2, SMTT(30) DEF q
<1>5. Increasing(a)
  BY <1>2, <1>3, ZenonT(60) DEF Increasing
<1> QED
  BY <1>4, <1>5, Zenon DEF a

\* A popped fill is newer than what the store holds (tryPop).
LEMMA PopNewer ==
  ASSUME IInv, Ordered, Stored, StoreOrder, tryPop
  PROVE  Older(m_trades, batch')
<1>1. /\ wpc = "pop" /\ ring # <<>> /\ batch' = Append(batch, Head(ring))
      /\ batch \in Seq(Nat) /\ ring \in Seq(Nat) /\ jmap.count \in Nat
  BY DEF tryPop, IInv, Types, Journal
<1>2. 1 \in 1 .. Len(ring) /\ Head(ring) = ring[1]
  BY <1>1, SMTT(30)
<1>3. ASSUME NEW i \in 1 .. Len(m_trades) PROVE m_trades[i] < ring[1]
  <2>1. PICK c \in 1 .. jmap.count : jmap.records[c] = m_trades[i]
    BY <1>3, Zenon DEF Stored, AllHeld, Holds
  <2>2. jmap.records[c] < ring[1]
    BY <1>2, <2>1, ZenonT(60) DEF Ordered, InOrder
  <2> QED
    BY <2>1, <2>2, ZenonT(60)
<1> SUFFICES ASSUME NEW i \in 1 .. Len(m_trades), NEW k \in 1 .. Len(batch')
             PROVE  m_trades[i] < batch'[k]
  BY DEF Older
<1>4. CASE k \in 1 .. Len(batch)
  <2>1. batch'[k] = batch[k]
    BY <1>1, <1>4, SMTT(30)
  <2>2. m_trades[i] < batch[k]
    BY <1>1, <1>4, Zenon DEF StoreOrder, Older
  <2> QED
    BY <2>1, <2>2, ZenonT(60)
<1>5. CASE k = Len(batch) + 1
  <2>1. batch'[k] = ring[1]
    BY <1>1, <1>2, <1>5, SMTT(30)
  <2> QED
    BY <1>3, <2>1, ZenonT(60)
<1> QED
  BY <1>1, <1>4, <1>5, SMTT(30)

\* Writing the staged trades keeps their order (insertBatch).
LEMMA WriteOrder ==
  ASSUME IInv, Ordered, StoreOrder, storeWrite \/ storeCloseFails, fills' = fills
  PROVE  StoreOrder'
<1> USE DEF fileVars, workerVars, ownerVars, flagVars
<1> DEFINE all == m_trades \o batch
<1>1. /\ wpc = "write" /\ batch' = batch /\ wpc' \in {"write", "ack"}
      /\ Increasing(sfile.trades) /\ Increasing(m_trades) /\ Older(m_trades, batch)
  BY Zenon DEF storeWrite, storeCloseFails, StoreOrder
<1>2. Increasing(batch)
  BY Zenon DEF IInv, Types, Ordered, InOrder, Increasing
<1>3. Increasing(all)
  BY <1>1, <1>2, IncreasingParts, ZenonT(60)
<1>4. all \in Seq(Nat) /\ Len(sfile.trades) \in Nat /\ Len(all) \in Nat /\ <<>> \in Seq(Nat)
  BY <1>1, <1>3, SMTT(30) DEF Increasing
<1> HIDE DEF all
<1>5. CASE storeWrite
  <2>1. PICK n \in Len(sfile.trades) .. Len(all) :
          /\ sfile' = written(all, n)
          /\ (m_trades' = all /\ wpc' = "ack") \/ UNCHANGED <<m_trades, wpc>>
    BY <1>5, ZenonT(60) DEF storeWrite, staged, all
  <2>2. n \in 0 .. Len(all) /\ sfile'.trades = SubSeq(all, 1, n)
    BY <1>4, <2>1, SMTT(30) DEF written
  <2>3. Increasing(SubSeq(all, 1, n))
    <3>1. Increasing(<<>>) /\ Older(all, <<>>)
      BY DEF Increasing, Older
    <3> QED
      BY <1>3, <2>2, <3>1, IncreasingParts, ZenonT(60)
  <2> QED
    BY <1>1, <1>3, <2>1, <2>2, <2>3, ZenonT(60) DEF StoreOrder
<1>6. CASE storeCloseFails
  <2>1. m_trades' = all /\ sfile' = sfile /\ wpc' = "ack"
    BY <1>6, Zenon DEF storeCloseFails, staged, all
  <2> QED
    BY <1>1, <1>3, <2>1, ZenonT(60) DEF StoreOrder
<1> QED
  BY <1>5, <1>6, ZenonT(60)

\* Every step but a loss of power keeps the order of what is stored.
LEMMA NextStoreOrder ==
  ASSUME IInv, Ordered, Stored, StoreOrder, ~PowerFailures, [Next]_vars
  PROVE  StoreOrder'
<1> USE DEF fileVars, workerVars, ownerVars, flagVars
<1>1. /\ Increasing(<<>>) /\ \A m, b : Older(<<>>, b) /\ Older(m, <<>>)
  BY DEF Increasing, Older
<1>2. Increasing(sfile.trades) /\ Increasing(m_trades) /\ Increasing(fills)
  BY DEF StoreOrder
<1>3. CASE pipeline
  <2>1. fills' = fills
    BY <1>3, Zenon DEF pipeline, rebuildVars
  <2>2. CASE storeWrite \/ storeCloseFails
    BY <2>1, <2>2, WriteOrder, Zenon
  <2>3. CASE start \/ tryPublish \/ tryPush \/ stop \/ join
    <3>1. /\ UNCHANGED <<sfile, m_trades, batch>>
          /\ \/ wpc' = wpc
             \/ wpc \in {"none", "exited"} /\ wpc' \in {"none", "open"}
      <4>1. CASE start
        BY <4>1, Zenon DEF start, IInv, Progress
      <4>2. CASE tryPublish \/ tryPush \/ stop \/ join
        BY <4>2, Zenon DEF tryPublish, tryPush, stop, join
      <4> QED
        BY <2>3, <4>1, <4>2, Zenon
    <3> QED
      BY <2>1, <3>1, Zenon DEF StoreOrder
  <2>4. CASE recreate
    <3>1. sfile' = sfile /\ m_trades' = <<>> /\ batch' = <<>>
      BY <2>4, Zenon DEF recreate, NewObject
    <3> QED
      BY <1>1, <1>2, <2>1, <3>1, ZenonT(60) DEF StoreOrder
  <2>5. CASE openJournal \/ initializeOrValidateHeader \/ initializeCapacity
    <3>1. /\ UNCHANGED <<sfile, m_trades, batch>> /\ wpc \in {"open", "header", "capacity"}
      BY <2>5, Zenon DEF openJournal, initializeOrValidateHeader, initializeCapacity
    <3> QED
      BY <1>1, <2>1, <3>1, ZenonT(30) DEF StoreOrder
  <2>6. CASE loadStore
    <3>1. sfile' = sfile /\ batch' = batch /\ m_trades' \in {m_trades, sfile.trades} /\ wpc = "load"
      BY <2>6, Zenon DEF loadStore
    <3> QED
      BY <1>1, <1>2, <2>1, <3>1, ZenonT(30) DEF StoreOrder
  <2>7. CASE loopTest
    <3>1. /\ UNCHANGED <<sfile, m_trades, batch>> /\ wpc = "loop"
          /\ wpc' \in {"pop", "append", "final"}
          /\ wpc' = "final" => batch = <<>>
      BY <2>7, Zenon DEF loopTest
    <3> QED
      BY <2>1, <3>1, Zenon DEF StoreOrder
  <2>8. CASE popNothing \/ append \/ appendCount \/ flush
    <3>1. /\ UNCHANGED <<sfile, m_trades, batch>>
          /\ wpc \in {"pop", "append", "count", "flush"}
          /\ wpc' \in {"append", "loop", "count", "flush", "truncate", "unwind"}
      BY <2>8, Zenon DEF popNothing, append, appendCount, flush
    <3> QED
      BY <2>1, <3>1, Zenon DEF StoreOrder
  <2>9. CASE tryPop
    <3>1. /\ UNCHANGED <<sfile, m_trades>> /\ wpc' \in {"append", "loop"}
      BY <2>9, Zenon DEF tryPop
    <3>2. Older(m_trades, batch')
      BY <2>9, PopNewer, Zenon
    <3> QED
      BY <1>2, <2>1, <3>1, <3>2, ZenonT(60) DEF StoreOrder
  <2>10. CASE acknowledge \/ unwind
    <3>1. sfile' = sfile /\ batch' = <<>> /\ m_trades' \in {m_trades, <<>>}
      BY <2>10, Zenon DEF acknowledge, unwind
    <3> QED
      BY <1>1, <1>2, <2>1, <3>1, ZenonT(30) DEF StoreOrder
  <2>11. CASE finish
    <3>1. UNCHANGED <<sfile, batch>> /\ m_trades' = <<>> /\ wpc = "final" /\ wpc' = "exited"
      BY <2>11, Zenon DEF finish
    <3> QED
      BY <1>1, <1>2, <2>1, <3>1, ZenonT(30) DEF StoreOrder
  <2>12. CASE ioError \/ catch
    <3>1. /\ UNCHANGED <<sfile, m_trades, batch>> /\ wpc # "ack"
          /\ wpc' = "unwind" \/ (wpc = "catch" /\ wpc' = "exited")
      BY <2>12, Zenon DEF ioError, catch
    <3> QED
      BY <2>1, <3>1, Zenon DEF StoreOrder
  <2>13. CASE storeTruncate
    <3>1. /\ sfile'.trades = <<>> /\ UNCHANGED <<m_trades, batch>> /\ wpc = "truncate" /\ wpc' = "write"
      BY <2>13, Zenon DEF storeTruncate, truncated, EmptyStore
    <3> QED
      BY <1>1, <1>2, <2>1, <3>1, ZenonT(60) DEF StoreOrder
  <2> QED
    BY <1>3, <2>2, <2>3, <2>4, <2>5, <2>6, <2>7, <2>8, <2>9, <2>10, <2>11, <2>12, <2>13, ZenonT(30)
       DEF pipeline, ownerStep, workerStep
<1>4. CASE rebuildStoreFromJournal
  <2>1. UNCHANGED <<sfile, m_trades, batch, wpc>> /\ fills' \in {fills, replay(jmap)}
    BY <1>4, Zenon DEF rebuildStoreFromJournal, pipeVars
  <2>2. jmap \in Journal(Nat)
    BY DEF IInv, Types
  <2>3. Increasing(replay(jmap))
    BY <2>2, ReplayFacts, ZenonT(60) DEF Ordered, InOrder, Increasing
  <2> QED
    BY <1>2, <2>1, <2>3, ZenonT(30) DEF StoreOrder
<1>5. CASE rebuildTruncate \/ rebuildFails \/ UNCHANGED vars
  <2>1. /\ sfile'.trades \in {sfile.trades, <<>>} /\ fills' \in {fills, <<>>}
        /\ UNCHANGED <<m_trades, batch, wpc>>
    <3>1. CASE rebuildTruncate
      BY <3>1, Zenon DEF rebuildTruncate, truncated, EmptyStore
    <3>2. CASE rebuildFails
      BY <3>2, Zenon DEF rebuildFails, pipeVars
    <3>3. CASE UNCHANGED vars
      BY <3>3, Zenon DEF vars, pipeVars, rebuildVars
    <3> QED
      BY <1>5, <3>1, <3>2, <3>3, ZenonT(30)
  <2> QED
    BY <1>1, <1>2, <2>1, ZenonT(30) DEF StoreOrder
<1>6. CASE crash
  <2>1. sfile' = sfile /\ m_trades' = <<>> /\ batch' = <<>> /\ fills' = <<>>
    BY <1>6, Zenon DEF crash, NewObject
  <2> QED
    BY <1>1, <1>2, <2>1, ZenonT(60) DEF StoreOrder
<1>7. CASE rebuildWrite
  <2>1. PICK n \in Len(sfile.trades) .. Len(fills) :
          sfile' = written(fills, n) /\ fills' \in {fills, <<>>}
    BY <1>7, Zenon DEF rebuildWrite
  <2>2. UNCHANGED <<m_trades, batch, wpc>>
    BY <1>7, ZenonT(60) DEF rebuildWrite
  <2>3. n \in 0 .. Len(fills) /\ sfile'.trades = SubSeq(fills, 1, n)
    <3>1. Len(sfile.trades) \in Nat
      BY <1>2 DEF Increasing
    <3> QED
      BY <2>1, <3>1, SMTT(30) DEF written
  <2>4. Increasing(SubSeq(fills, 1, n))
    BY <1>1, <1>2, <2>3, IncreasingParts, ZenonT(30)
  <2> QED
    BY <1>1, <1>2, <2>1, <2>2, <2>3, <2>4, ZenonT(30) DEF StoreOrder
<1> QED
  BY <1>3, <1>4, <1>5, <1>6, <1>7, ZenonT(30) DEF Next, powerFailure

\* A report that is ok means that the store holds exactly the fills of the
\* replay, in order, although reconcile compares the journal record by record
\* and of the store only the count and the average: the store never runs ahead
\* of the journal nor out of its order, through any number of errors, stops,
\* restarts, crashes and rebuilds.
THEOREM ReportIsSound ==
  ASSUME ~PowerFailures
  PROVE  Spec => []ReconcileSound
<1>1. Init => Ordered /\ Stored /\ StoreOrder
  BY DEF Init, PipeInit, Ordered, InOrder, EmptyJournal, Stored, AllHeld, StoreOrder, Increasing,
     Older, EmptyStore
<1>2. ASSUME IInv, Ordered, Stored, StoreOrder, ok PROVE sfile.trades = replayFills
  <2> DEFINE s == sfile.trades
             j == replay(jmap)
  <2>1. /\ jmap \in Journal(Nat) /\ produced \in Nat /\ Increasing(s) /\ s \in Seq(Nat)
        /\ j = replayFills /\ Len(s) = produced
    BY <1>2, ZenonT(30) DEF IInv, Types, StoreOrder, Increasing, ok, reconcile, sameFills
  <2>2. replayFills \in Seq(Nat) /\ Len(replayFills) = produced
        /\ \A i \in 1 .. produced : replayFills[i] = i
    BY <2>1 DEF replayFills
  <2>3. j \in Seq(Nat) /\ Len(j) = jmap.count /\ \A i \in 1 .. jmap.count : j[i] = jmap.records[i]
    BY <2>1, ReplayFacts, Zenon
  <2> HIDE DEF s, j
  <2>4. jmap.count = produced /\ \A i \in 1 .. jmap.count : jmap.records[i] = i
    BY <2>1, <2>2, <2>3, ZenonT(60)
  <2>5. \A k \in 1 .. Len(s) : s[k] >= 1 /\ s[k] <= produced
    <3> SUFFICES ASSUME NEW k \in 1 .. Len(s) PROVE s[k] >= 1 /\ s[k] <= produced
      OBVIOUS
    <3>1. PICK i \in 1 .. jmap.count : jmap.records[i] = s[k]
      BY <1>2, ZenonT(30) DEF Stored, AllHeld, Holds, s
    <3> QED
      BY <2>1, <2>4, <3>1, SMTT(30)
  <2>6. \A i \in 1 .. produced : s[i] = i
    BY <2>1, <2>5, Pigeonhole, ZenonT(30)
  <2>7. s = replayFills
    BY <2>1, <2>2, <2>6, SeqEqual, SMTT(30)
  <2> QED
    BY <2>7 DEF s
<1>3. IInv /\ Ordered /\ Stored /\ StoreOrder => ReconcileSound
  BY <1>2 DEF ReconcileSound
<1>4. IInv /\ Ordered /\ Stored /\ StoreOrder /\ [Next]_vars => Ordered' /\ Stored' /\ StoreOrder'
  BY NextOrdered, NextStored, NextStoreOrder, ZenonT(30)
<1> QED
  BY <1>1, <1>3, <1>4, InitIInv, NextIInv, PTL, ZenonT(30) DEF Spec
-----------------------------------------------------------------------------
(* The types of the pipeline, while only processes fail *)

Places == {"none", "open", "header", "capacity", "load", "loop", "pop", "append", "count", "flush",
           "truncate", "write", "ack", "final", "unwind", "catch", "exited"}

Control ==
  /\ opc \in {"run", "push", "join"} /\ wpc \in Places
  /\ m_stop \in BOOLEAN /\ m_running \in BOOLEAN /\ m_error \in BOOLEAN
  /\ newFile \in BOOLEAN /\ sawStop \in BOOLEAN /\ ended \in BOOLEAN /\ started \in BOOLEAN

\* The counted records of a journal, and the trades of a store, are fills.
JournalOf(j) == j \in Journal(Fills) /\ \A i \in 1 .. j.count : j.records[i] \in Fills
StoreOf(file) == file \in [count : 0 .. MaxFills, trades : Seq(Fills)]

\* What is published, on its way, stored and acknowledged.
Content ==
  /\ JournalOf(jmap) /\ jdisk \in Journal(Fills) /\ StoreOf(sfile)
  /\ ring \in Seq(Fills) /\ Len(ring) <= RingCapacity
  /\ batch \in Seq(Fills) /\ next \in 0 .. Len(batch)
  /\ m_trades \in Seq(Fills) /\ fills \in Seq(Fills)
  /\ produced \in 0 .. MaxFills /\ accepted \subseteq Fills /\ acked \subseteq Fills
  /\ opc = "push" => produced < MaxFills

\* A new journal and a new store hold no fills.
LEMMA EmptyFiles == JournalOf(EmptyJournal) /\ StoreOf(EmptyStore)
<1>1. EmptyJournal \in Journal(Fills)
  BY EmptySizes, Zenon DEF EmptyJournal, Journal
<1>2. EmptyJournal.count = 0
  BY Zenon DEF EmptyJournal
<1>3. StoreOf(EmptyStore)
  BY EmptySizes, Zenon DEF StoreOf, EmptyStore
<1> QED
  BY <1>1, <1>2, <1>3, EmptySizes, Zenon DEF JournalOf

\* The stores to the mapping keep fills in the journal (append).
LEMMA JournalOfFills ==
  ASSUME NEW j, JournalOf(j)
  PROVE  /\ JournalOf(openMapping(j)) /\ JournalOf(storeCapacity(j)) /\ JournalOf(initHeader)
         /\ \A f \in Fills : j.count < JournalCapacity => JournalOf(storeRecord(j, f))
         /\ j.count < JournalCapacity /\ j.records[j.count + 1] \in Fills => JournalOf(storeCount(j))
<1>1. j.records \in [RecordIndices -> Fills \cup {0}] /\ j.count \in 0 .. JournalCapacity /\ j.count \in Nat
  BY JournalAssumption, SMTT(30) DEF JournalOf, Journal
<1>2. JournalOf(openMapping(j)) /\ JournalOf(storeCapacity(j))
  BY DEF JournalOf, Journal, openMapping, storeCapacity
<1>3. JournalOf(initHeader)
  BY JournalAssumption DEF JournalOf, Journal, initHeader, EmptyJournal
<1>4. ASSUME NEW f \in Fills, j.count < JournalCapacity PROVE JournalOf(storeRecord(j, f))
  <2> DEFINE r == [j.records EXCEPT ![j.count + 1] = f]
  <2>1. j.count + 1 \in RecordIndices /\ \A i \in 1 .. j.count : i \in RecordIndices /\ i # j.count + 1
    BY <1>1, <1>4, JournalAssumption, SMTT(30) DEF RecordIndices
  <2>2. r \in [RecordIndices -> Fills \cup {0}] /\ \A i \in 1 .. j.count : r[i] = j.records[i]
    BY <1>1, <2>1, Zenon
  <2> HIDE DEF r
  <2>3. storeRecord(j, f) = [j EXCEPT !.records = r]
    BY DEF storeRecord, r
  <2> QED
    BY <2>2, <2>3, ZenonT(60) DEF JournalOf, Journal
<1>5. ASSUME j.count < JournalCapacity, j.records[j.count + 1] \in Fills PROVE JournalOf(storeCount(j))
  <2>1. j.count + 1 \in 0 .. JournalCapacity
    BY <1>1, <1>5, JournalAssumption, SMTT(30)
  <2>2. storeCount(j).records = j.records /\ storeCount(j).count = j.count + 1
        /\ storeCount(j) \in Journal(Fills)
    BY <2>1, ZenonT(60) DEF JournalOf, Journal, storeCount
  <2>3. \A i \in 1 .. j.count + 1 : i = j.count + 1 \/ i \in 1 .. j.count
    BY <1>1, SMTT(30)
  <2> QED
    BY <1>5, <2>2, <2>3, ZenonT(60) DEF JournalOf
<1> QED
  BY <1>2, <1>3, <1>4, <1>5, ZenonT(60)

\* Fills in the order of publication are no more than there are fills.
LEMMA FillsFit ==
  ASSUME NEW s \in Seq(Fills), Increasing(s)
  PROVE  Len(s) \in 0 .. MaxFills
<1>1. \A i \in 1 .. Len(s) : s[i] >= 1 /\ s[i] <= MaxFills
  <2>1. \A i \in 1 .. Len(s) : s[i] \in Fills
    OBVIOUS
  <2> QED
    BY <2>1, PipelineAssumption, SMTT(30) DEF Fills
<1>2. Len(s) <= MaxFills
  BY <1>1, Pigeonhole, PipelineAssumption, Zenon
<1> QED
  BY <1>2, PipelineAssumption, SMTT(30)

\* A part of such fills makes a store file.
LEMMA WrittenFits ==
  ASSUME NEW s \in Seq(Fills), Increasing(s), NEW n \in 0 .. Len(s)
  PROVE  StoreOf(written(s, n))
<1>1. Len(s) \in 0 .. MaxFills
  BY FillsFit, Zenon
<1>2. SubSeq(s, 1, n) \in Seq(Fills)
  OBVIOUS
<1> QED
  BY <1>1, <1>2, Zenon DEF StoreOf, written

\* The owner keeps the types.
LEMMA OwnerContent ==
  ASSUME Content, ownerStep, UNCHANGED rebuildVars
  PROVE  Content'
<1> USE DEF fileVars, workerVars, ownerVars, flagVars, rebuildVars
<1>1. CASE start \/ stop \/ join
  BY <1>1, ZenonT(60) DEF start, stop, join, Content
<1>2. CASE tryPublish
  BY <1>2, Zenon DEF tryPublish, Content
<1>3. CASE tryPush
  <2>1. CASE Len(ring) < RingCapacity
    <3>1. /\ opc = "push" /\ opc' = "run" /\ produced' = produced + 1
          /\ accepted' = accepted \cup {produced'} /\ ring' = Append(ring, produced')
          /\ UNCHANGED <<fileVars, workerVars, acked, fills>>
      BY <1>3, <2>1, ZenonT(60) DEF tryPush
    <3>2. /\ produced' \in 0 .. MaxFills /\ produced' \in Fills
      BY <3>1, PipelineAssumption, SMTT(30) DEF Content, Fills
    <3>3. ring' \in Seq(Fills) /\ Len(ring') <= RingCapacity
      BY <2>1, <3>1, <3>2, PipelineAssumption, SMTT(30) DEF Content
    <3> QED
      BY <3>1, <3>2, <3>3, ZenonT(30) DEF Content
  <2>2. CASE ~(Len(ring) < RingCapacity)
    BY <1>3, <2>2, ZenonT(30) DEF tryPush, Content
  <2> QED
    BY <2>1, <2>2, Zenon
<1>4. CASE recreate
  BY <1>4, EmptySizes, ZenonT(30) DEF recreate, NewObject, Content
<1> QED
  BY <1>1, <1>2, <1>3, <1>4, ZenonT(30) DEF ownerStep

\* The staged trades are fills in the order of publication (insertBatch).
LEMMA StagedFits ==
  ASSUME IInv, Ordered, StoreOrder, Content, wpc = "write"
  PROVE  staged(m_trades, batch) \in Seq(Fills) /\ Increasing(staged(m_trades, batch))
<1>1. Increasing(m_trades) /\ Older(m_trades, batch)
  BY DEF StoreOrder
<1>2. Increasing(batch)
  BY Zenon DEF IInv, Types, Ordered, InOrder, Increasing
<1>3. m_trades \in Seq(Fills) /\ batch \in Seq(Fills)
  BY DEF Content
<1>4. m_trades \o batch \in Seq(Fills)
  BY <1>3
<1>5. Increasing(m_trades \o batch)
  BY <1>1, <1>2, IncreasingParts, ZenonT(60)
<1> QED
  BY <1>4, <1>5, ZenonT(60) DEF staged

\* So does the worker.
LEMMA WorkerContent ==
  ASSUME IInv, Ordered, StoreOrder, Content, workerStep, UNCHANGED rebuildVars
  PROVE  Content'
<1> USE DEF fileVars, workerVars, ownerVars, flagVars, rebuildVars
<1>0. <<>> \in Seq(Fills) /\ 0 \in 0 .. Len(<<>>)
  BY EmptySizes, Zenon
<1>1. CASE openJournal \/ initializeOrValidateHeader \/ initializeCapacity
  <2>1. /\ jmap' \in {jmap, openMapping(jmap), storeCapacity(jmap), initHeader}
        /\ UNCHANGED <<jdisk, sfile, ring, batch, next, m_trades, fills, produced, accepted, acked, opc>>
    BY <1>1, ZenonT(30) DEF openJournal, initializeOrValidateHeader, initializeCapacity
  <2>2. JournalOf(jmap')
    BY <2>1, JournalOfFills, ZenonT(30) DEF Content
  <2> QED
    BY <2>1, <2>2, ZenonT(30) DEF Content
<1>2. CASE loadStore
  <2>1. /\ m_trades' \in {m_trades, sfile.trades}
        /\ UNCHANGED <<jmap, jdisk, sfile, ring, batch, next, fills, produced, accepted, acked, opc>>
    BY <1>2, ZenonT(60) DEF loadStore
  <2>2. sfile.trades \in Seq(Fills)
    BY DEF Content, StoreOf
  <2> QED
    BY <2>1, <2>2, ZenonT(30) DEF Content
<1>3. CASE loopTest \/ popNothing \/ ioError \/ catch
  <2>1. UNCHANGED <<jmap, jdisk, sfile, ring, batch, next, m_trades, fills, produced, accepted, acked, opc>>
    BY <1>3, ZenonT(60) DEF loopTest, popNothing, ioError, catch
  <2> QED
    BY <2>1, Zenon DEF Content
<1>4. CASE tryPop
  <2>1. /\ ring # <<>> /\ batch' = Append(batch, Head(ring)) /\ ring' = Tail(ring)
        /\ UNCHANGED <<jmap, jdisk, sfile, next, m_trades, fills, produced, accepted, acked, opc>>
    BY <1>4, ZenonT(60) DEF tryPop
  <2>2. ring \in Seq(Fills) /\ batch \in Seq(Fills) /\ next \in 0 .. Len(batch) /\ Len(ring) <= RingCapacity
    BY SMTT(30) DEF Content
  <2>3. ring' \in Seq(Fills) /\ Len(ring') <= RingCapacity
    BY <2>1, <2>2, PipelineAssumption, SMTT(30)
  <2>4. batch' \in Seq(Fills) /\ next' \in 0 .. Len(batch')
    BY <2>1, <2>2, SMTT(30)
  <2> QED
    BY <2>1, <2>3, <2>4, ZenonT(30) DEF Content
<1>5. CASE append
  <2>1. CASE Full(jmap)
    BY <1>5, <2>1, ZenonT(60) DEF append, Content
  <2>2. CASE ~Full(jmap)
    <3>1. /\ wpc = "append" /\ jmap' = storeRecord(jmap, batch[next + 1])
          /\ UNCHANGED <<jdisk, sfile, ring, batch, next, m_trades, fills, produced, accepted, acked, opc>>
      BY <1>5, <2>2, ZenonT(60) DEF append
    <3>2. jmap.count < JournalCapacity
      BY <2>2, JournalAssumption, SMTT(30) DEF Full, IInv, Types, Journal
    <3>3. batch[next + 1] \in Fills
      <4>1. next < Len(batch) /\ batch \in Seq(Fills) /\ next \in Nat
        BY <3>1, ZenonT(60) DEF IInv, Types, Progress, Content
      <4> QED
        BY <4>1, SMTT(30)
    <3>4. JournalOf(jmap')
      BY <3>1, <3>2, <3>3, JournalOfFills, ZenonT(30) DEF Content
    <3> QED
      BY <3>1, <3>4, ZenonT(60) DEF Content
  <2> QED
    BY <2>1, <2>2, ZenonT(60)
<1>6. CASE appendCount
  <2>1. /\ wpc = "count" /\ jmap' = storeCount(jmap) /\ next' = next + 1
        /\ UNCHANGED <<jdisk, sfile, ring, batch, m_trades, fills, produced, accepted, acked, opc>>
    BY <1>6, Zenon DEF appendCount
  <2>2. /\ next < Len(batch) /\ batch \in Seq(Fills) /\ next \in Nat
        /\ jmap.count < JournalCapacity /\ jmap.records[jmap.count + 1] = batch[next + 1]
    BY <2>1, ZenonT(60) DEF IInv, Types, Progress, Content
  <2>3. batch[next + 1] \in Fills /\ next + 1 \in 0 .. Len(batch)
    BY <2>2, SMTT(30)
  <2>4. JournalOf(jmap')
    BY <2>1, <2>2, <2>3, JournalOfFills, ZenonT(60) DEF Content
  <2> QED
    BY <2>1, <2>3, <2>4, ZenonT(30) DEF Content
<1>7. CASE flush \/ finish
  <2>1. /\ jdisk' = jmap /\ m_trades' \in {m_trades, <<>>}
        /\ UNCHANGED <<jmap, sfile, ring, batch, next, fills, produced, accepted, acked, opc>>
    BY <1>7, Zenon DEF flush, finish
  <2> QED
    BY <1>0, <2>1, ZenonT(30) DEF Content, JournalOf
<1>8. CASE storeTruncate
  <2>1. /\ sfile' = EmptyStore
        /\ UNCHANGED <<jmap, jdisk, ring, batch, next, m_trades, fills, produced, accepted, acked, opc>>
    BY <1>8, Zenon DEF storeTruncate, truncated
  <2>2. StoreOf(EmptyStore)
    BY EmptyFiles, Zenon
  <2> QED
    BY <2>1, <2>2, ZenonT(60) DEF Content
<1>9. CASE storeWrite
  <2> DEFINE all == staged(m_trades, batch)
  <2>1. wpc = "write"
    BY <1>9, ZenonT(60) DEF storeWrite
  <2>2. all \in Seq(Fills) /\ Increasing(all)
    BY <2>1, StagedFits, ZenonT(60)
  <2> HIDE DEF all
  <2>3. PICK n \in Len(sfile.trades) .. Len(all) :
          /\ sfile' = written(all, n) /\ m_trades' \in {all, m_trades}
          /\ UNCHANGED <<jmap, jdisk, ring, batch, next, fills, produced, accepted, acked, opc>>
    BY <1>9, ZenonT(60) DEF storeWrite, all
  <2>4. n \in 0 .. Len(all)
    <3>1. Len(sfile.trades) \in Nat
      BY DEF Content, StoreOf
    <3> QED
      BY <2>3, <3>1, SMTT(30)
  <2>5. StoreOf(sfile')
    BY <2>2, <2>3, <2>4, WrittenFits, ZenonT(30)
  <2> QED
    BY <2>2, <2>3, <2>5, ZenonT(60) DEF Content
<1>10. CASE storeCloseFails
  <2>1. /\ wpc = "write" /\ m_trades' = staged(m_trades, batch)
        /\ UNCHANGED <<jmap, jdisk, sfile, ring, batch, next, fills, produced, accepted, acked, opc>>
    BY <1>10, Zenon DEF storeCloseFails
  <2>2. staged(m_trades, batch) \in Seq(Fills)
    BY <2>1, StagedFits, ZenonT(60)
  <2> QED
    BY <2>1, <2>2, ZenonT(30) DEF Content
<1>11. CASE acknowledge
  <2>1. /\ acked' = acked \cup {batch[i] : i \in 1 .. Len(batch)} /\ batch' = <<>> /\ next' = 0
        /\ UNCHANGED <<jmap, jdisk, sfile, ring, m_trades, fills, produced, accepted, opc>>
    BY <1>11, ZenonT(60) DEF acknowledge
  <2>2. acked' \subseteq Fills
    <3>1. batch \in Seq(Fills) /\ acked \subseteq Fills
      BY Zenon DEF Content
    <3>2. \A i \in 1 .. Len(batch) : batch[i] \in Fills
      BY <3>1
    <3> QED
      BY <2>1, <3>1, <3>2, ZenonT(30)
  <2> QED
    BY <1>0, <2>1, <2>2, ZenonT(30) DEF Content
<1>12. CASE unwind
  <2>1. /\ jdisk' \in {jdisk, jmap} /\ batch' = <<>> /\ next' = 0 /\ m_trades' = <<>>
        /\ UNCHANGED <<jmap, sfile, ring, fills, produced, accepted, acked, opc>>
    BY <1>12, Zenon DEF unwind
  <2> QED
    BY <1>0, <2>1, ZenonT(30) DEF Content, JournalOf
<1> QED
  BY <1>1, <1>2, <1>3, <1>4, <1>5, <1>6, <1>7, <1>8, <1>9, <1>10, <1>11, <1>12, ZenonT(30) DEF workerStep

\* Every step keeps the types of what controls the threads.
LEMMA NextControl ==
  ASSUME Control, [Next]_vars
  PROVE  Control'
<1> USE DEF fileVars, workerVars, ownerVars, flagVars, Control
<1>1. CASE ownerStep
  <2>1. CASE start \/ tryPublish \/ tryPush
    BY <2>1, ZenonT(60) DEF start, tryPublish, tryPush, Places
  <2>2. CASE stop \/ join \/ recreate
    BY <2>2, ZenonT(60) DEF stop, join, recreate, NewObject, Places
  <2> QED
    BY <1>1, <2>1, <2>2, ZenonT(30) DEF ownerStep
<1>2. CASE openJournal \/ initializeOrValidateHeader \/ initializeCapacity \/ loadStore
  <2>1. CASE openJournal
    <3>1. (jmap.header = "none") \in BOOLEAN
      OBVIOUS
    <3> QED
      BY <2>1, <3>1, ZenonT(60) DEF openJournal, Places
  <2>2. CASE initializeOrValidateHeader
    BY <2>2, ZenonT(30) DEF initializeOrValidateHeader, Places
  <2>3. CASE initializeCapacity \/ loadStore
    <3>1. CASE initializeCapacity
      BY <3>1, ZenonT(60) DEF initializeCapacity, Places
    <3>2. CASE loadStore
      BY <3>2, ZenonT(60) DEF loadStore, Places
    <3> QED
      BY <2>3, <3>1, <3>2, Zenon
  <2> QED
    BY <1>2, <2>1, <2>2, <2>3, ZenonT(30)
<1>3. CASE loopTest
  <2>1. Leave \in BOOLEAN
    BY DEF Leave
  <2> QED
    BY <1>3, <2>1, ZenonT(30) DEF loopTest, Places
<1>4. CASE tryPop \/ popNothing \/ append \/ appendCount \/ flush
  <2>1. CASE tryPop \/ popNothing
    <3>1. CASE tryPop
      BY <3>1, ZenonT(60) DEF tryPop, Places
    <3>2. CASE popNothing
      BY <3>2, ZenonT(60) DEF popNothing, Places
    <3> QED
      BY <2>1, <3>1, <3>2, Zenon
  <2>2. CASE append
    BY <2>2, ZenonT(60) DEF append, Places
  <2>3. CASE appendCount \/ flush
    BY <2>3, ZenonT(60) DEF appendCount, flush, Places
  <2> QED
    BY <1>4, <2>1, <2>2, <2>3, Zenon
<1>5. CASE storeTruncate \/ storeWrite \/ storeCloseFails \/ acknowledge \/ finish
  <2>1. CASE storeTruncate \/ storeCloseFails
    BY <2>1, ZenonT(60) DEF storeTruncate, storeCloseFails, Places
  <2>2. CASE storeWrite
    BY <2>2, ZenonT(60) DEF storeWrite, Places
  <2>3. CASE acknowledge \/ finish
    BY <2>3, ZenonT(60) DEF acknowledge, finish, Places
  <2> QED
    BY <1>5, <2>1, <2>2, <2>3, ZenonT(60)
<1>6. CASE ioError \/ unwind \/ catch
  BY <1>6, ZenonT(60) DEF ioError, unwind, catch, Places
<1>7. CASE rebuildStoreFromJournal \/ rebuildTruncate \/ rebuildWrite \/ rebuildFails \/ UNCHANGED vars
  <2>1. UNCHANGED <<opc, wpc, m_stop, m_running, m_error, newFile, sawStop, ended, started>>
    BY <1>7, ZenonT(60) DEF rebuildStoreFromJournal, rebuildTruncate, rebuildWrite, rebuildFails,
       vars, pipeVars
  <2> QED
    BY <2>1, ZenonT(60)
<1>8. CASE crash \/ powerFailure
  BY <1>8, ZenonT(30) DEF crash, powerFailure, NewObject, Places
<1> QED
  BY <1>1, <1>2, <1>3, <1>4, <1>5, <1>6, <1>7, <1>8, ZenonT(30) DEF Next, pipeline, workerStep

\* Every step but a loss of power keeps the types of what is stored.
LEMMA NextContent ==
  ASSUME IInv, Ordered, StoreOrder, Content, ~PowerFailures, [Next]_vars
  PROVE  Content'
<1> USE DEF fileVars, workerVars, ownerVars, flagVars
<1>0. <<>> \in Seq(Fills) /\ 0 \in 0 .. Len(<<>>)
  BY EmptySizes, Zenon
<1>1. CASE pipeline
  <2>1. UNCHANGED rebuildVars
    BY <1>1, Zenon DEF pipeline, rebuildVars
  <2> QED
    BY <1>1, <2>1, OwnerContent, WorkerContent, ZenonT(30) DEF pipeline
<1>2. CASE rebuildStoreFromJournal
  <2>1. /\ fills' \in {fills, replay(jmap)}
        /\ UNCHANGED <<jmap, jdisk, sfile, ring, batch, next, m_trades, produced, accepted, acked, opc>>
    BY <1>2, Zenon DEF rebuildStoreFromJournal, pipeVars
  <2>2. replay(jmap) \in Seq(Fills)
    <3> DEFINE r == replay(jmap)
    <3>1. r \in Seq(Nat) /\ Len(r) = jmap.count /\ \A i \in 1 .. jmap.count : r[i] = jmap.records[i]
      BY ReplayFacts, ZenonT(60) DEF IInv, Types
    <3>2. \A i \in 1 .. jmap.count : jmap.records[i] \in Fills
      BY Zenon DEF Content, JournalOf
    <3> HIDE DEF r
    <3>4. jmap.count \in Nat /\ r \in [1 .. jmap.count -> Nat]
      BY <3>1, LenProperties, Zenon
    <3>5. r \in [1 .. jmap.count -> Fills]
      BY <3>1, <3>2, <3>4, ZenonT(30)
    <3>3. r \in Seq(Fills)
      BY <3>4, <3>5, SMTT(30)
    <3> QED
      BY <3>3, Zenon DEF r
  <2> QED
    BY <2>1, <2>2, ZenonT(30) DEF Content
<1>3. CASE rebuildTruncate \/ rebuildFails \/ UNCHANGED vars
  <2>1. /\ sfile' \in {sfile, EmptyStore} /\ fills' \in {fills, <<>>}
        /\ UNCHANGED <<jmap, jdisk, ring, batch, next, m_trades, produced, accepted, acked, opc>>
    BY <1>3, ZenonT(30) DEF rebuildTruncate, rebuildFails, vars, pipeVars, rebuildVars, truncated
  <2>2. StoreOf(EmptyStore)
    BY EmptyFiles, Zenon
  <2> QED
    BY <1>0, <2>1, <2>2, ZenonT(30) DEF Content
<1>4. CASE rebuildWrite
  <2>1. PICK n \in Len(sfile.trades) .. Len(fills) :
          /\ sfile' = written(fills, n) /\ fills' \in {fills, <<>>}
          /\ UNCHANGED <<jmap, jdisk, ring, batch, next, m_trades, produced, accepted, acked, opc>>
    BY <1>4, Zenon DEF rebuildWrite
  <2>2. n \in 0 .. Len(fills)
    <3>1. Len(sfile.trades) \in Nat
      BY DEF Content, StoreOf
    <3> QED
      BY <2>1, <3>1, SMTT(30)
  <2>3. StoreOf(sfile')
    BY <2>1, <2>2, WrittenFits, ZenonT(60) DEF Content, StoreOrder
  <2> QED
    BY <1>0, <2>1, <2>3, ZenonT(30) DEF Content
<1>5. CASE crash
  <2>1. /\ ring' = <<>> /\ batch' = <<>> /\ next' = 0 /\ m_trades' = <<>> /\ fills' = <<>>
        /\ accepted' = {} /\ opc' = "run"
        /\ UNCHANGED <<jmap, jdisk, sfile, produced, acked>>
    BY <1>5, Zenon DEF crash, NewObject
  <2> QED
    BY <2>1, EmptySizes, Zenon DEF Content
<1> QED
  BY <1>1, <1>2, <1>3, <1>4, <1>5, ZenonT(30) DEF Next, powerFailure

\* The fields of the pipeline and of its files have their types: the journal is
\* never counted beyond its capacity (append), and the store never counts more
\* trades than there were fills, through any number of errors, stops, restarts,
\* crashes and rebuilds.
THEOREM PipelineTypes ==
  ASSUME ~PowerFailures
  PROVE  Spec => []TypeOK
<1>1. Init => Ordered /\ Stored /\ StoreOrder
  BY DEF Init, PipeInit, Ordered, InOrder, EmptyJournal, Stored, AllHeld, StoreOrder, Increasing,
     Older, EmptyStore
<1>2. Init => Control /\ Content
  <2>1. EmptyJournal \in Journal(Fills)
    BY EmptyFiles, ZenonT(60) DEF JournalOf
  <2>2. Init => Content
    BY <2>1, EmptyFiles, EmptySizes, ZenonT(60) DEF Init, PipeInit, Content
  <2>3. Init => Control
    BY ZenonT(30) DEF Init, PipeInit, Control, Places
  <2> QED
    BY <2>2, <2>3, ZenonT(60)
<1>3. Control /\ Content => TypeOK
  BY Zenon DEF Control, Content, JournalOf, StoreOf, Places, TypeOK
<1>4. /\ IInv /\ Ordered /\ Stored /\ StoreOrder /\ Control /\ Content /\ [Next]_vars
      => Ordered' /\ Stored' /\ StoreOrder' /\ Control' /\ Content'
  BY NextOrdered, NextStored, NextStoreOrder, NextControl, NextContent, ZenonT(30)
<1> QED
  BY <1>1, <1>2, <1>3, <1>4, InitIInv, NextIInv, PTL, ZenonT(30) DEF Spec
=============================================================================
