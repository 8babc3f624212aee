---------------------------- MODULE SQLiteStore ----------------------------
(***************************************************************************)
(* The SQLite backend of the trade store (store/TradeStore.h under         *)
(* CHRONOBOOK_USE_DYNAMIC_SQLITE): several TradeStore objects on one       *)
(* database, each with its connection m_writer and its StatementCache.     *)
(*                                                                         *)
(* SQLite itself, in WAL mode, is external: one connection at a time holds *)
(* the write lock; a connection reads from the version it saw when the     *)
(* first of its active statements was stepped, and BEGIN IMMEDIATE is      *)
(* refused to a connection whose version is not the last one.  A statement *)
(* is active from its first row to its reset, finalize or end: tradeCount  *)
(* and vwap take one row and leave theirs active.                          *)
(***************************************************************************)
EXTENDS Integers, Sequences, Functions

CONSTANTS
  Stores, NoStore,
  Batches,        \* the vectors of fills that are inserted
  CacheCapacity,  \* m_capacity of a StatementCache
  MaxVersions     \* bound: versions of the database

VARIABLES
  tables,      \* the committed versions of the table trades, oldest first
  lock,        \* the store whose connection holds the write lock
  txn,         \* the table inside the transaction of every store
  todo,        \* fills its insert loop has not come to
  spc,         \* every store: "idle" or its place in insertBatch or replaceAll
  m_lru,       \* statements of its cache, the last used first
  active,      \* those of them that are active
  snapshot,    \* the version its connection reads while one is
  lastRead     \* its last query since it last wrote, and the version it saw

vars == <<tables, lock, txn, todo, spc, m_lru, active, snapshot, lastRead>>
writeVars == <<tables, lock, txn, todo, spc>>
readVars == <<m_lru, active, snapshot, lastRead>>

\* Queries that stop after one row, and those that run to the end.
OneRow == {"count", "vwap"}
Statements == OneRow \cup {"timeline", "insert"}

NoRead == [query |-> "none", version |-> 0]

Init ==
  /\ tables = <<<<>>>>
  /\ lock = NoStore
  /\ txn = [s \in Stores |-> <<>>] /\ todo = [s \in Stores |-> <<>>]
  /\ spc = [s \in Stores |-> "idle"]
  /\ m_lru = [s \in Stores |-> <<>>] /\ active = [s \in Stores |-> {}]
  /\ snapshot = [s \in Stores |-> 0] /\ lastRead = [s \in Stores |-> NoRead]

-----------------------------------------------------------------------------
(* StatementCache::get *)

\* sql goes to the front: the entries before a hit move back by one, or all but
\* the last of a full cache, which goes, or all.
Cached(lru, sql) ==
  LET hits == {k \in DOMAIN lru : lru[k] = sql}
      place == IF hits # {} THEN CHOOSE k \in hits : TRUE
               ELSE IF Len(lru) = CacheCapacity THEN Len(lru) ELSE Len(lru) + 1
  IN [k \in DOMAIN lru \cup {place} |->
        IF k = 1 THEN sql ELSE IF k <= place THEN lru[k - 1] ELSE lru[k]]

\* A hit is reset, an entry that goes is finalized: neither is active any more.
StillActive(s, sql) == (active[s] \cap Range(Cached(m_lru[s], sql))) \ {sql}

get(s, sql) == m_lru' = [m_lru EXCEPT ![s] = Cached(@, sql)]

-----------------------------------------------------------------------------
(* tradeCount, vwap, timeline *)

\* The version a connection reads when its statements `others' are active.
VersionFor(s, others) == IF others = {} THEN Len(tables) ELSE snapshot[s]

query_mutResets(s, sql) ==
  /\ spc[s] = "idle"
  /\ get(s, sql)
  /\ LET others == StillActive(s, sql)
         version == VersionFor(s, others)
     IN /\ active' = [active EXCEPT ![s] = others]
        /\ snapshot' = [snapshot EXCEPT ![s] = IF others = {} THEN 0 ELSE version]
        /\ lastRead' = [lastRead EXCEPT ![s] = [query |-> sql, version |-> version]]
  /\ UNCHANGED writeVars

query(s, sql) ==
  /\ spc[s] = "idle"
  /\ get(s, sql)
  /\ LET others == StillActive(s, sql)
         version == VersionFor(s, others)
         now == IF sql \in OneRow THEN others \cup {sql} ELSE others
     IN /\ active' = [active EXCEPT ![s] = now]
        /\ snapshot' = [snapshot EXCEPT ![s] = IF now = {} THEN 0 ELSE version]
        /\ lastRead' = [lastRead EXCEPT ![s] = [query |-> sql, version |-> version]]
  /\ UNCHANGED writeVars

-----------------------------------------------------------------------------
(* insertBatch, replaceAll *)

\* Transaction(conn): BEGIN IMMEDIATE; refused, it throws and nothing changes.
begin(s, fills, place) ==
  /\ spc[s] = "idle" /\ Len(tables) < MaxVersions
  /\ lock = NoStore
  /\ active[s] # {} => snapshot[s] = Len(tables)
  /\ lock' = s
  /\ txn' = [txn EXCEPT ![s] = tables[Len(tables)]]
  /\ todo' = [todo EXCEPT ![s] = fills]
  /\ spc' = [spc EXCEPT ![s] = place]
  /\ UNCHANGED <<tables, readVars>>

deleteAll(s) ==
  /\ spc[s] = "delete"
  /\ txn' = [txn EXCEPT ![s] = <<>>]
  /\ spc' = [spc EXCEPT ![s] = "prepare"]
  /\ UNCHANGED <<tables, lock, todo, readVars>>

prepareInsert(s) ==
  /\ spc[s] = "prepare"
  /\ get(s, "insert")
  /\ LET others == StillActive(s, "insert")
     IN /\ active' = [active EXCEPT ![s] = others]
        /\ snapshot' = [snapshot EXCEPT ![s] = IF others = {} THEN 0 ELSE @]
  /\ lastRead' = [lastRead EXCEPT ![s] = NoRead]
  /\ spc' = [spc EXCEPT ![s] = "insert"]
  /\ UNCHANGED <<tables, lock, txn, todo>>

insertRow_mutIgnoresError(s) ==
  /\ spc[s] = "insert" /\ todo[s] # <<>>
  /\ txn' \in {txn, [txn EXCEPT ![s] = Append(@, Head(todo[s]))]}
  /\ todo' = [todo EXCEPT ![s] = Tail(@)]
  /\ UNCHANGED <<tables, lock, spc, readVars>>

\* One turn of the loop: reset, bind, stepDone.
insertRow(s) ==
  /\ spc[s] = "insert" /\ todo[s] # <<>>
  /\ txn' = [txn EXCEPT ![s] = Append(@, Head(todo[s]))]
  /\ todo' = [todo EXCEPT ![s] = Tail(@)]
  /\ UNCHANGED <<tables, lock, spc, readVars>>

\* Reads that are still active go on in the version just committed.
commit(s) ==
  /\ spc[s] = "insert" /\ todo[s] = <<>>
  /\ tables' = Append(tables, txn[s])
  /\ lock' = NoStore
  /\ txn' = [txn EXCEPT ![s] = <<>>]
  /\ spc' = [spc EXCEPT ![s] = "idle"]
  /\ snapshot' = [snapshot EXCEPT ![s] = IF active[s] = {} THEN 0 ELSE Len(tables')]
  /\ UNCHANGED <<todo, m_lru, active, lastRead>>

rollback_mutInactive(s) ==
  /\ spc[s] \in {"delete", "prepare", "insert"}
  /\ spc' = [spc EXCEPT ![s] = "idle"]
  /\ IF todo[s] = <<>>
     THEN UNCHANGED <<lock, txn, todo>>
     ELSE /\ lock' = NoStore
          /\ txn' = [txn EXCEPT ![s] = <<>>] /\ todo' = [todo EXCEPT ![s] = <<>>]
  /\ UNCHANGED <<tables, readVars>>

\* A statement or the COMMIT fails, or failBeforeCommit throws: the destructor
\* of the transaction, still active, rolls back.
rollback(s) ==
  /\ spc[s] \in {"delete", "prepare", "insert"}
  /\ spc' = [spc EXCEPT ![s] = "idle"]
  /\ lock' = NoStore
  /\ txn' = [txn EXCEPT ![s] = <<>>] /\ todo' = [todo EXCEPT ![s] = <<>>]
  /\ UNCHANGED <<tables, readVars>>

-----------------------------------------------------------------------------
(* Objects that end *)

\* ~TradeStore between operations, or the process of the store is killed in the
\* middle of one; another store is opened in its place.
reopen(s) ==
  /\ lock' = IF lock = s THEN NoStore ELSE lock
  /\ txn' = [txn EXCEPT ![s] = <<>>] /\ todo' = [todo EXCEPT ![s] = <<>>]
  /\ spc' = [spc EXCEPT ![s] = "idle"]
  /\ m_lru' = [m_lru EXCEPT ![s] = <<>>] /\ active' = [active EXCEPT ![s] = {}]
  /\ snapshot' = [snapshot EXCEPT ![s] = 0] /\ lastRead' = [lastRead EXCEPT ![s] = NoRead]
  /\ UNCHANGED tables

storeStep(s) ==
  \/ \E sql \in Statements \ {"insert"} : query(s, sql)
  \/ \E fills \in Batches : begin(s, fills, "prepare") \/ begin(s, fills, "delete")
  \/ deleteAll(s) \/ prepareInsert(s) \/ insertRow(s) \/ commit(s) \/ rollback(s)
  \/ reopen(s)

Next == \E s \in Stores : storeStep(s)

-----------------------------------------------------------------------------
(* Properties *)

\* "A transaction rolls back if commit is not reached" (docs/DESIGN.md): outside
\* insertBatch and replaceAll a store holds no lock and has no row pending, so
\* that the other stores can write (Transaction).
NoTransactionLeaks ==
  \A s \in Stores : spc[s] = "idle" => lock # s /\ txn[s] = <<>>

\* "Store batches either commit as a unit or do not appear" (docs/DESIGN.md):
\* every version of the table is the one before it and a whole batch, or a
\* whole batch alone; no writer overwrites what another one committed
\* (insertBatch, replaceAll).
BatchesWhole ==
  \A v \in 1 .. Len(tables) - 1 :
    \E fills \in Batches : tables[v + 1] \in {tables[v] \o fills, fills}

\* tradeCount() followed by vwap(), as in reconcile and trade_query, describes
\* one version of the table although another store commits in between: the
\* statement that tradeCount leaves active holds the snapshot (StatementCache,
\* tradeCount, vwap).
ReportOfOneVersion ==
  [][\A s \in Stores :
       (lastRead[s].query = "count" /\ lastRead'[s].query = "vwap")
         => lastRead'[s].version = lastRead[s].version]_vars
=============================================================================
