------------------------------ MODULE Recovery ------------------------------
(***************************************************************************)
(* The durability lane with failures around it: the process is killed at   *)
(* any moment, the machine loses power, and RecoveryReconciler             *)
(* (replay/RecoveryReconciler.h) rebuilds the store from the journal or    *)
(* compares both with a replay of the feed.  The rebuild runs while no     *)
(* pipeline is running, in the thread that owns the pipeline.              *)
(***************************************************************************)
EXTENDS DurabilityPipeline, Functions

CONSTANTS
  MaxFailures,   \* bound: crashes and power failures
  PowerFailures  \* whether the machine may lose power

VARIABLES
  rpc,           \* rebuildStoreFromJournal: "idle", "truncate" or "write"
  fills,         \* the fills it read from the journal
  rebuildThrew,  \* whether it failed although the journal could be replayed
  projected,     \* the store was in step with the journal and nothing failed since
  failures       \* crashes and power failures so far

rebuildVars == <<rpc, fills, rebuildThrew>>
vars == <<pipeVars, rebuildVars, projected, failures>>

Init ==
  /\ PipeInit
  /\ rpc = "idle" /\ fills = <<>> /\ rebuildThrew = FALSE
  /\ projected = TRUE
  /\ failures = 0

pipeline ==
  /\ rpc = "idle"
  /\ ownerStep \/ workerStep
  /\ projected' = (projected /\ wpc' # "unwind" /\ ~storeCloseFails)
  /\ UNCHANGED <<rebuildVars, failures>>

-----------------------------------------------------------------------------
(* rebuildStoreFromJournal *)

\* replay of the journal, then the constructor of TradeStore.
rebuildStoreFromJournal ==
  /\ rpc = "idle" /\ opc = "run" /\ wpc = "none"
  /\ ~ReplayThrows(jmap)
  /\ IF LoadThrows(sfile)
     THEN rebuildThrew' = TRUE /\ UNCHANGED <<rpc, fills>>
     ELSE fills' = replay(jmap) /\ rpc' = "truncate" /\ UNCHANGED rebuildThrew
  /\ UNCHANGED <<pipeVars, projected, failures>>

rebuildTruncate ==
  /\ rpc = "truncate"
  /\ sfile' = truncated
  /\ rpc' = "write"
  /\ projected' = FALSE
  /\ UNCHANGED <<jmap, jdisk, ownerVars, workerVars, flagVars, ring, wpc, acked,
                 fills, rebuildThrew, failures>>

rebuildWrite ==
  /\ rpc = "write"
  /\ \E n \in Len(sfile.trades) .. Len(fills) :
       /\ sfile' = written(fills, n)
       /\ IF n = Len(fills)
          THEN rpc' = "idle" /\ fills' = <<>> /\ projected' = TRUE
          ELSE sfile' # sfile /\ UNCHANGED <<rpc, fills, projected>>
  /\ UNCHANGED <<jmap, jdisk, ownerVars, workerVars, flagVars, ring, wpc, acked,
                 rebuildThrew, failures>>

\* writeAll throws, or its close fails unnoticed.
rebuildFails ==
  /\ rpc \in {"truncate", "write"}
  /\ rpc' = "idle" /\ fills' = <<>> /\ projected' = FALSE
  /\ UNCHANGED <<pipeVars, rebuildThrew, failures>>

-----------------------------------------------------------------------------
(* Failures *)

\* The process ends: mapped and written data is with the operating system.
crash ==
  /\ failures < MaxFailures
  /\ failures' = failures + 1
  /\ NewObject
  /\ rpc' = "idle" /\ fills' = <<>> /\ projected' = FALSE
  /\ UNCHANGED <<fileVars, produced, acked, rebuildThrew>>

\* The journal is what was written back; the store was never synced, any
\* part of its last rewrite may be there.
powerFailure ==
  /\ PowerFailures
  /\ failures < MaxFailures
  /\ failures' = failures + 1
  /\ NewObject
  /\ jmap' \in WrittenBack(jdisk, jmap)
  /\ jdisk' = jmap'
  /\ \E count \in 0 .. sfile.count, n \in 0 .. Len(sfile.trades) :
       /\ n <= count
       /\ sfile' = [count |-> count, trades |-> SubSeq(sfile.trades, 1, n)]
  /\ rpc' = "idle" /\ fills' = <<>> /\ projected' = FALSE
  /\ UNCHANGED <<produced, acked, rebuildThrew>>

-----------------------------------------------------------------------------
(* reconcile *)

\* The fills of a replay of the feed: all that were produced, in order.
replayFills == [i \in 1 .. produced |-> i]

sameFills == replay(jmap) = replayFills

\* Fills of one price: the average tells an empty store from the others.
vwap(trades) == IF trades = <<>> THEN 0 ELSE 1

reconcile_mutNoCount ==
  [journalMatches |-> sameFills,
   storeCountMatches |-> TRUE,
   storeVwapMatches |-> vwap(sfile.trades) = vwap(replayFills)]

\* The report, when neither the journal nor the store makes it throw.
reconcile ==
  [journalMatches |-> sameFills,
   storeCountMatches |-> Len(sfile.trades) = produced,
   storeVwapMatches |-> vwap(sfile.trades) = vwap(replayFills)]

ok ==
  /\ ~ReplayThrows(jmap) /\ ~LoadThrows(sfile)
  /\ reconcile.journalMatches /\ reconcile.storeCountMatches /\ reconcile.storeVwapMatches

-----------------------------------------------------------------------------
Next ==
  \/ pipeline
  \/ rebuildStoreFromJournal \/ rebuildTruncate \/ rebuildWrite \/ rebuildFails
  \/ crash \/ powerFailure

Spec == Init /\ [][Next]_vars

\* The worker is scheduled, join returns once the worker has exited, and a
\* value that stays in the ring is seen in the end.
FairSpec ==
  /\ Spec
  /\ WF_vars(workerStep /\ pipeline)
  /\ SF_vars(tryPop /\ pipeline)
  /\ WF_vars(join /\ pipeline)

-----------------------------------------------------------------------------
(* Properties *)

\* Every trade the store file holds is a counted record of the journal: the
\* worker stores a batch only after appendBatch, whatever fails and wherever
\* the process is killed (flushBatch).
JournalFirst == Range(sfile.trades) \subseteq Range(Journaled)

\* The journal holds the fills in the order of publication, none twice: no
\* restart, error or crash makes a pipeline append a fill again (run, append).
JournalOrdered ==
  \A i, j \in 1 .. jmap.count : i < j => jmap.records[i] < jmap.records[j]

\* A fill that m_persisted counts is in the journal and stays there when the
\* process is killed or the power fails: appendBatch syncs before flushBatch
\* acknowledges, so a journal file whose header a failure cut short, and that
\* every later constructor refuses, holds nothing acknowledged.
AckedDurable ==
  \A f \in acked : \E i \in 1 .. jdisk.count : /\ jdisk.records[i] = f
                                               /\ i <= jmap.count
                                               /\ jmap.records[i] = f

\* Once store and journal agreed (a fresh pair, or a completed rebuild), they
\* agree between batches for as long as no error and no crash intervenes
\* (insertBatch, replaceAll).
Projection ==
  projected /\ wpc \in {"none", "load", "loop", "pop", "final", "exited"}
    => sfile.trades = Journaled

\* When stop() of a started pipeline has returned and error() is empty, every
\* fill that tryPublish accepted was counted as persisted (stop, run).
StopLosesNothing ==
  started /\ opc = "run" /\ m_stop /\ wpc = "none" /\ ~m_error => accepted \subseteq acked

\* A report that is ok() means the store holds exactly the fills of the replay,
\* in order, although it only compares counts and averages (reconcile).
ReconcileSound == ok => sfile.trades = replayFills

\* stop() returns: the worker drains the ring or fails (stop, run).
StopReturns == (opc = "join") ~> (opc # "join")

\* A fill accepted by a started pipeline is persisted, unless an error ends
\* the worker or the pipeline object is lost in a failure (run).
AcceptedIsPersisted ==
  \A f \in Fills : (started /\ f \in accepted) ~> (f \in acked \/ m_error \/ f \notin accepted)

\* "The journal is treated as the source of truth for rebuilding the read-side
\* store after a store failure" (README.md): a rebuild from a journal that can
\* be replayed is not refused.
RebuildNotRefused == ~rebuildThrew

InsertBatch == wpc \in {"truncate", "write"}

\* "Store batches either commit as a unit or do not appear" (docs/DESIGN.md):
\* when insertBatch is over, by success, error or crash, the file holds the
\* trades from before it, or those and the batch.
BatchAtomic ==
  [][InsertBatch /\ ~InsertBatch'
       => sfile' \in {written(t, Len(t)) : t \in {m_trades, staged(m_trades, batch)}}]_vars
=============================================================================
