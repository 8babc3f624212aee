------------------------------ MODULE ReadSide ------------------------------
(***************************************************************************)
(* The read side of the store (store/TradeStore.h): the pool that lends    *)
(* connections to readers, and the SQLite stores with connections of their *)
(* own.  The two share no state of the program; part says which of them a  *)
(* behaviour is about and never changes.                                   *)
(***************************************************************************)
EXTENDS ConnectionPool

CONSTANTS Stores, NoStore, Batches, CacheCapacity, MaxVersions

VARIABLES tables, lock, txn, todo, spc, m_lru, active, snapshot, lastRead, part

ASSUME StoresAssumption ==
  /\ NoStore \notin Stores
  /\ CacheCapacity \in Nat /\ CacheCapacity >= 2
  /\ Batches \subseteq Seq(UNION {Range(fills) : fills \in Batches})

Store == INSTANCE SQLiteStore

storeVars == <<tables, lock, txn, todo, spc, m_lru, active, snapshot, lastRead>>

ReadInit == Init /\ Store!Init /\ part \in {"pool", "store"}

ReadNext ==
  \/ part = "pool" /\ Next /\ UNCHANGED <<storeVars, part>>
  \/ part = "store" /\ Store!Next /\ UNCHANGED <<vars, part>>

ReadSpec == ReadInit /\ [][ReadNext]_<<vars, storeVars, part>>

-----------------------------------------------------------------------------
(* The properties of SQLiteStore *)

\* NoTransactionLeaks of SQLiteStore (Transaction).
NoTransactionLeaks == part = "store" => Store!NoTransactionLeaks

\* BatchesWhole of SQLiteStore (insertBatch, replaceAll).
BatchesWhole == part = "store" => Store!BatchesWhole

\* ReportOfOneVersion of SQLiteStore (StatementCache, tradeCount, vwap).
ReportOfOneVersion == Store!ReportOfOneVersion
=============================================================================
