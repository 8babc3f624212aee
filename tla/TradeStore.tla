----------------------------- MODULE TradeStore -----------------------------
(***************************************************************************)
(* The default, flat-file trade store (store/TradeStore.h) as operators on *)
(* its file: the count it starts with and the trades that follow.  A file  *)
(* that is missing, or too short for the count, loads like an empty one.   *)
(***************************************************************************)
EXTENDS Integers, Sequences

EmptyStore == [count |-> 0, trades |-> <<>>]

\* load() throws "truncated trade store" unless all counted trades are there.
LoadThrows(file) == Len(file.trades) < file.count

staged_mutBatchOnly(trades, fills) == fills

\* insertBatch rewrites the whole file with the staged vector.
staged(trades, fills) == trades \o fills

\* The file while writeAll is at work: ios::trunc empties it, then the count
\* and the first n trades reach it.
truncated == EmptyStore
written(fills, n) == [count |-> Len(fills), trades |-> SubSeq(fills, 1, n)]
=============================================================================
