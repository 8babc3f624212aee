---------------------------- MODULE ReadAnswers ----------------------------
(***************************************************************************)
(* ReadSide with what its SQLite stores answer to queries on the versions  *)
(* of the table that they commit.                                          *)
(***************************************************************************)
EXTENDS ReadSide

CONSTANTS TsWord, IntWord, SumWord

Queries == INSTANCE SQLiteQueries

\* BackendsAgree of SQLiteQueries (timeline, vwap, indexRange, bindInt,
\* bindInt64).
BackendsAgree == Queries!BackendsAgree

\* TimelineIsComplete of SQLiteQueries (timeline).
TimelineIsComplete == Queries!TimelineIsComplete
=============================================================================
