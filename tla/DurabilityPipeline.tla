------------------------- MODULE DurabilityPipeline -------------------------
(***************************************************************************)
(* The durability lane (journal/DurabilityPipeline.h): the owner publishes *)
(* fills into the ring and stops the pipeline; the worker thread pops them,*)
(* collects batches and writes every batch to the journal, then to the     *)
(* trade store.                                                            *)
(*                                                                         *)
(* The ring is the bounded FIFO queue that SPSCRing implements; a pop may  *)
(* miss a value that was just pushed, unless the worker has read m_stop,   *)
(* which the owner sets after its last push.  The owner is one thread (the *)
(* ring has a single producer).  Fills are numbered in the order in which  *)
(* they are published.  jmap is the mapped journal file as every process   *)
(* on the machine sees it, jdisk what a loss of power leaves of it at      *)
(* least (the image of the last msync); sfile is the file of the store.    *)
(***************************************************************************)
EXTENDS FillJournal, TradeStore, FiniteSets

CONSTANTS
  MaxFills,       \* bound: fills are 1 .. MaxFills
  RingCapacity,   \* capacity() of the ring
  BatchSize       \* m_batchSize

ASSUME PipelineAssumption == MaxFills \in Nat /\ RingCapacity \in Nat

VARIABLES
  jmap, jdisk, sfile,
  opc,        \* the owner: "run", "push" (inside tryPublish), "join" (in stop)
  ring, m_stop, m_running, m_error,
  wpc,        \* the worker: "none" without a thread, else its place in run()
  newFile,    \* m_newFile
  sawStop,    \* whether the loop test read m_stop as true
  ended,      \* whether the loop has ended
  batch, next,    \* the batch, and how many of its fills are appended
  m_trades,   \* the trades of the worker's TradeStore
  produced,   \* number of fills accepted by tryPublish, ever
  accepted,   \* fills accepted by this pipeline object
  started,    \* whether this pipeline object was ever started
  acked       \* fills counted in m_persisted, ever

fileVars == <<jmap, jdisk, sfile>>
ownerVars == <<opc, m_running, started, produced, accepted>>
workerVars == <<newFile, sawStop, ended, batch, next, m_trades>>
flagVars == <<m_stop, m_error>>
pipeVars == <<fileVars, ownerVars, workerVars, flagVars, ring, wpc, acked>>

Fills == 1 .. MaxFills

PipeInit ==
  /\ jmap = EmptyJournal /\ jdisk = EmptyJournal /\ sfile = EmptyStore
  /\ opc = "run" /\ ring = <<>> /\ m_stop = FALSE /\ m_running = FALSE /\ m_error = FALSE
  /\ wpc = "none" /\ newFile = FALSE /\ sawStop = FALSE /\ ended = FALSE
  /\ batch = <<>> /\ next = 0 /\ m_trades = <<>>
  /\ produced = 0 /\ accepted = {} /\ started = FALSE /\ acked = {}

\* The memory of a pipeline object that was just constructed.
NewObject ==
  /\ opc' = "run" /\ ring' = <<>> /\ m_stop' = FALSE /\ m_running' = FALSE /\ m_error' = FALSE
  /\ wpc' = "none" /\ newFile' = FALSE /\ sawStop' = FALSE /\ ended' = FALSE
  /\ batch' = <<>> /\ next' = 0 /\ m_trades' = <<>>
  /\ accepted' = {} /\ started' = FALSE

-----------------------------------------------------------------------------
(* The owner *)

start ==
  /\ opc = "run" /\ ~m_running
  /\ m_running' = TRUE /\ started' = TRUE
  /\ wpc' = "open"
  /\ UNCHANGED <<fileVars, workerVars, flagVars, opc, produced, accepted, ring, acked>>

\* tryPublish: the test of m_stop, then the push.
tryPublish ==
  /\ opc = "run" /\ produced < MaxFills
  /\ ~m_stop
  /\ opc' = "push"
  /\ UNCHANGED <<fileVars, workerVars, flagVars, m_running, started, produced, accepted,
                 ring, wpc, acked>>

tryPush ==
  /\ opc = "push"
  /\ opc' = "run"
  /\ IF Len(ring) < RingCapacity
     THEN /\ produced' = produced + 1
          /\ accepted' = accepted \cup {produced'}
          /\ ring' = Append(ring, produced')
     ELSE UNCHANGED <<produced, accepted, ring>>
  /\ UNCHANGED <<fileVars, workerVars, flagVars, m_running, started, wpc, acked>>

stop_mutNoFlag ==
  /\ opc = "run"
  /\ opc' = "join"
  /\ UNCHANGED <<fileVars, workerVars, flagVars, m_running, started, produced, accepted,
                 ring, wpc, acked>>

stop ==
  /\ opc = "run"
  /\ m_stop' = TRUE
  /\ opc' = "join"
  /\ UNCHANGED <<fileVars, workerVars, m_running, started, produced, accepted,
                 m_error, ring, wpc, acked>>

join ==
  /\ opc = "join" /\ wpc \in {"none", "exited"}
  /\ wpc' = "none" /\ m_running' = FALSE
  /\ opc' = "run"
  /\ UNCHANGED <<fileVars, workerVars, flagVars, started, produced, accepted, ring, acked>>

\* The stopped pipeline is destroyed and another one is made.
recreate ==
  /\ opc = "run" /\ wpc = "none" /\ m_stop
  /\ NewObject
  /\ UNCHANGED <<fileVars, produced, acked>>

-----------------------------------------------------------------------------
(* The worker: opening the files *)

openJournal ==
  /\ wpc = "open"
  /\ newFile' = (jmap.header = "none")
  /\ jmap' = openMapping(jmap)
  /\ wpc' = "header"
  /\ UNCHANGED <<jdisk, sfile, ownerVars, flagVars, sawStop, ended, batch, next, m_trades, ring, acked>>

initializeOrValidateHeader ==
  /\ wpc = "header"
  /\ jmap' = IF newFile THEN initHeader ELSE jmap
  /\ wpc' = IF newFile THEN "capacity" ELSE IF HeaderInvalid(jmap) THEN "unwind" ELSE "load"
  /\ UNCHANGED <<jdisk, sfile, ownerVars, flagVars, workerVars, ring, acked>>

initializeCapacity ==
  /\ wpc = "capacity"
  /\ jmap' = storeCapacity(jmap)
  /\ wpc' = "load"
  /\ UNCHANGED <<jdisk, sfile, ownerVars, flagVars, workerVars, ring, acked>>

loadStore ==
  /\ wpc = "load"
  /\ IF LoadThrows(sfile)
     THEN wpc' = "unwind" /\ UNCHANGED m_trades
     ELSE wpc' = "loop" /\ m_trades' = sfile.trades
  /\ UNCHANGED <<fileVars, ownerVars, flagVars, newFile, sawStop, ended, batch, next, ring, acked>>

-----------------------------------------------------------------------------
(* The worker: the loop of run *)

Leave_mutIgnoreRing == m_stop

\* The loop ends once m_stop is set and the ring is empty.
Leave == m_stop /\ ring = <<>>

loopTest ==
  /\ wpc = "loop"
  /\ sawStop' = m_stop /\ ended' = Leave
  /\ wpc' = IF ~Leave THEN "pop" ELSE IF batch # <<>> THEN "append" ELSE "final"
  /\ UNCHANGED <<fileVars, ownerVars, flagVars, newFile, batch, next, m_trades, ring, acked>>

tryPop ==
  /\ wpc = "pop" /\ ring # <<>>
  /\ batch' = Append(batch, Head(ring))
  /\ ring' = Tail(ring)
  /\ wpc' = IF Len(batch') >= BatchSize THEN "append" ELSE "loop"
  /\ UNCHANGED <<fileVars, ownerVars, flagVars, newFile, sawStop, ended, next, m_trades, acked>>

popNothing ==
  /\ wpc = "pop" /\ (ring = <<>> \/ ~sawStop)
  /\ wpc' = IF batch # <<>> THEN "append" ELSE "loop"
  /\ UNCHANGED <<fileVars, ownerVars, flagVars, workerVars, ring, acked>>

-----------------------------------------------------------------------------
(* The worker: flushBatch *)

append_mutDropsWhenFull ==
  /\ wpc = "append"
  /\ IF Full(jmap)
     THEN wpc' = "flush" /\ UNCHANGED jmap
     ELSE wpc' = "count" /\ jmap' = storeRecord(jmap, batch[next + 1])
  /\ UNCHANGED <<jdisk, sfile, ownerVars, flagVars, workerVars, ring, acked>>

append ==
  /\ wpc = "append"
  /\ IF Full(jmap)
     THEN wpc' = "unwind" /\ UNCHANGED jmap
     ELSE wpc' = "count" /\ jmap' = storeRecord(jmap, batch[next + 1])
  /\ UNCHANGED <<jdisk, sfile, ownerVars, flagVars, workerVars, ring, acked>>

appendCount ==
  /\ wpc = "count"
  /\ jmap' = storeCount(jmap)
  /\ next' = next + 1
  /\ wpc' = IF next' = Len(batch) THEN "flush" ELSE "append"
  /\ UNCHANGED <<jdisk, sfile, ownerVars, flagVars, newFile, sawStop, ended, batch, m_trades, ring, acked>>

flush_mutNoSync ==
  /\ wpc = "flush"
  /\ wpc' = "truncate"
  /\ UNCHANGED <<fileVars, ownerVars, flagVars, workerVars, ring, acked>>

\* The msync of appendBatch.
flush ==
  /\ wpc = "flush"
  /\ jdisk' = jmap
  /\ wpc' = "truncate"
  /\ UNCHANGED <<jmap, sfile, ownerVars, flagVars, workerVars, ring, acked>>

storeTruncate ==
  /\ wpc = "truncate"
  /\ sfile' = truncated
  /\ wpc' = "write"
  /\ UNCHANGED <<jmap, jdisk, ownerVars, flagVars, workerVars, ring, acked>>

\* writeAll gets more of the staged trades into the file, in the end all.
storeWrite ==
  /\ wpc = "write"
  /\ LET all == staged(m_trades, batch)
     IN \E n \in Len(sfile.trades) .. Len(all) :
          /\ sfile' = written(all, n)
          /\ IF n = Len(all)
             THEN m_trades' = all /\ wpc' = "ack"
             ELSE sfile' # sfile /\ UNCHANGED <<m_trades, wpc>>
  /\ UNCHANGED <<jmap, jdisk, ownerVars, flagVars, newFile, sawStop, ended, batch, next, ring, acked>>

\* The stream flushes its buffer when it is destroyed, after the last test of
\* its state: a failure there goes unnoticed.
storeCloseFails ==
  /\ wpc = "write"
  /\ m_trades' = staged(m_trades, batch)
  /\ wpc' = "ack"
  /\ UNCHANGED <<fileVars, ownerVars, flagVars, newFile, sawStop, ended, batch, next, ring, acked>>

acknowledge_mutKeepsBatch ==
  /\ wpc = "ack"
  /\ acked' = acked \cup {batch[i] : i \in 1 .. Len(batch)}
  /\ next' = 0
  /\ wpc' = IF ended THEN "final" ELSE "loop"
  /\ UNCHANGED <<fileVars, ownerVars, flagVars, newFile, sawStop, ended, batch, m_trades, ring>>

acknowledge_mutDropsCount ==
  /\ wpc = "ack"
  /\ batch' = <<>> /\ next' = 0
  /\ wpc' = IF ended THEN "final" ELSE "loop"
  /\ UNCHANGED <<fileVars, ownerVars, flagVars, newFile, sawStop, ended, m_trades, ring, acked>>

\* m_persisted grows by the size of the batch, batch.clear().
acknowledge ==
  /\ wpc = "ack"
  /\ acked' = acked \cup {batch[i] : i \in 1 .. Len(batch)}
  /\ batch' = <<>> /\ next' = 0
  /\ wpc' = IF ended THEN "final" ELSE "loop"
  /\ UNCHANGED <<fileVars, ownerVars, flagVars, newFile, sawStop, ended, m_trades, ring>>

\* The last msync, and the destructors.
finish ==
  /\ wpc = "final"
  /\ jdisk' = jmap
  /\ m_trades' = <<>>
  /\ wpc' = "exited"
  /\ UNCHANGED <<jmap, sfile, ownerVars, flagVars, newFile, sawStop, ended, batch, next, ring, acked>>

-----------------------------------------------------------------------------
(* The worker: exceptions *)

\* A system call fails: opening, mapping or syncing the journal, opening or
\* writing the store.
ioError ==
  /\ wpc \in {"open", "header", "flush", "final", "truncate", "write"}
  /\ wpc' = "unwind"
  /\ UNCHANGED <<fileVars, ownerVars, flagVars, workerVars, ring, acked>>

\* The journal is closed (its msync may fail), the batch is gone, then the
\* handler records the error and stops the pipeline.
unwind ==
  /\ wpc = "unwind"
  /\ jdisk' \in {jdisk, jmap}
  /\ batch' = <<>> /\ next' = 0 /\ m_trades' = <<>>
  /\ wpc' = "catch"
  /\ UNCHANGED <<jmap, sfile, ownerVars, flagVars, newFile, sawStop, ended, ring, acked>>

catch ==
  /\ wpc = "catch"
  /\ m_error' = TRUE /\ m_stop' = TRUE
  /\ wpc' = "exited"
  /\ UNCHANGED <<fileVars, ownerVars, workerVars, ring, acked>>

-----------------------------------------------------------------------------
workerStep ==
  \/ openJournal \/ initializeOrValidateHeader \/ initializeCapacity \/ loadStore
  \/ loopTest \/ tryPop \/ popNothing
  \/ append \/ appendCount \/ flush \/ storeTruncate \/ storeWrite \/ storeCloseFails
  \/ acknowledge \/ finish
  \/ ioError \/ unwind \/ catch

ownerStep == start \/ tryPublish \/ tryPush \/ stop \/ join \/ recreate

\* Sequence of the journaled fills.
Journaled == SubSeq(jmap.records, 1, jmap.count)

\* The fields of the pipeline and its files have their types; in particular
\* the count of a journal never exceeds its capacity (append).
TypeOK ==
  /\ jmap \in Journal(Fills) /\ jdisk \in Journal(Fills)
  /\ sfile \in [count : 0 .. MaxFills, trades : Seq(Fills)]
  /\ opc \in {"run", "push", "join"}
  /\ ring \in Seq(Fills) /\ Len(ring) <= RingCapacity
  /\ m_stop \in BOOLEAN /\ m_running \in BOOLEAN /\ m_error \in BOOLEAN
  /\ wpc \in {"none", "open", "header", "capacity", "load", "loop", "pop", "append", "count", "flush",
              "truncate", "write", "ack", "final", "unwind", "catch", "exited"}
  /\ newFile \in BOOLEAN /\ sawStop \in BOOLEAN /\ ended \in BOOLEAN
  /\ batch \in Seq(Fills) /\ next \in 0 .. Len(batch)
  /\ m_trades \in Seq(Fills)
  /\ produced \in 0 .. MaxFills /\ accepted \subseteq Fills /\ started \in BOOLEAN
  /\ acked \subseteq Fills
=============================================================================
