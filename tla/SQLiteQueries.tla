--------------------------- MODULE SQLiteQueries ---------------------------
(***************************************************************************)
(* What the queries of the SQLite backend compute (store/TradeStore.h      *)
(* under CHRONOBOOK_USE_DYNAMIC_SQLITE), next to the ones of the flat-file *)
(* backend in TradeQueries.                                                *)
(***************************************************************************)
EXTENDS Integers, Sequences, SequencesExt, FiniteSets

CONSTANTS
  Batches,     \* the vectors of fills that are inserted
  TsWord,      \* 2^64, the timestamps
  IntWord,     \* 2^32, the prices and quantities
  SumWord      \* 2^64, what SUM adds up in

VARIABLE tables    \* the committed versions of the table trades, oldest first

Flat == INSTANCE TradeQueries

\* The value of an unsigned word as a signed integer of the same width, which
\* bindInt64 and the callers of bindInt cast to.
Signed(value, word) == IF 2 * value >= word THEN value - word ELSE value

\* The row that insertBatch and replaceAll bind for a fill.
Row(fill) == [fill EXCEPT !.price = Signed(@, IntWord), !.qty = Signed(@, IntWord),
                          !.timestamp = Signed(@, TsWord)]

TsBetween(fill, beginTs, endTs) ==
  /\ Signed(beginTs, TsWord) <= Row(fill).timestamp
  /\ Row(fill).timestamp <= Signed(endTs, TsWord)

\* ... WHERE symbol=? AND ts BETWEEN ? AND ? ORDER BY ts,id
sql_timeline(table, symbol, beginTs, endTs) ==
  LET ids == {i \in DOMAIN table :
                table[i].symbolPacked = symbol /\ TsBetween(table[i], beginTs, endTs)}
      Ts(i) == Row(table[i]).timestamp
      order == SetToSortSeq(ids, LAMBDA i, j : Ts(i) < Ts(j) \/ (Ts(i) = Ts(j) /\ i < j))
  IN [k \in 1 .. Len(order) |-> table[order[k]]]

\* A sum that leaves the signed word fails the step, and stepRow throws.
SumFailed == <<>>

AddRow(sums, row) ==
  LET next == <<sums[1] + row.price * row.qty, sums[2] + row.qty>>
      Fits(sum) == -SumWord <= 2 * sum /\ 2 * sum < SumWord
  IN IF sums # SumFailed /\ Fits(next[1]) /\ Fits(next[2]) THEN next ELSE SumFailed

\* SUM(price * qty) and SUM(qty), of which vwap is the quotient.
sql_vwap(table, beginTs, endTs) ==
  FoldLeft(LAMBDA sums, f : IF TsBetween(f, beginTs, endTs) THEN AddRow(sums, Row(f)) ELSE sums,
           <<0, 0>>, table)

-----------------------------------------------------------------------------
(* Properties *)

Symbols == UNION {{fills[i].symbolPacked : i \in DOMAIN fills} : fills \in Batches}

InTimeOrder(table) ==
  \A i, j \in DOMAIN table : i < j => table[i].timestamp <= table[j].timestamp

Of(table, symbol) == SelectSeq(table, LAMBDA f : f.symbolPacked = symbol)

\* Every price and quantity from beginTs to endTs is below 2^31, and their
\* sums are below 2^63.
WithinWords(fills, beginTs, endTs) ==
  LET sums == Flat!vwapSums(fills, beginTs, endTs)
  IN /\ \A i \in DOMAIN fills :
          Flat!InRange(fills[i], beginTs, endTs) =>
            2 * fills[i].price < IntWord /\ 2 * fills[i].qty < IntWord
     /\ 2 * sums[1] < SumWord /\ 2 * sums[2] < SumWord

\* vwap of the rows of a table and of the same trades in the flat file.
SameVwap(rows, trades, beginTs, endTs) ==
  WithinWords(trades, beginTs, endTs) =>
    sql_vwap(rows, beginTs, endTs) = Flat!vwapSums(trades, beginTs, endTs)

\* The answers of the two backends on one table, wherever the flat-file store
\* cut its batches when it indexed them.
SameAnswers(table) ==
  LET none == [symbol \in Symbols |-> <<>>]
      Index(n) == Flat!indexRange(table, Flat!indexRange(table, none, 0, n), n, Len(table))
      bySymbol == Index(0)
  IN /\ \A n \in 1 .. Len(table) : Index(n) = bySymbol
     /\ \A b, e \in {ts \in 0 .. TsWord - 1 : 2 * ts < TsWord} :
          /\ SameVwap(table, table, b, e)
          /\ \A symbol \in Symbols :
               /\ SameVwap(Of(table, symbol), Flat!tradesOf(table, bySymbol, symbol), b, e)
               /\ InTimeOrder(table) => sql_timeline(table, symbol, b, e) =
                                          Flat!timeline(table, bySymbol, symbol, b, e)

\* After every commit the two backends answer alike, over all trades and by
\* symbol, for bounds below 2^63: timeline when the fills are stored in the
\* order of time, and the sums of vwap when the prices and quantities between
\* the bounds are below 2^31 and the sums below 2^63 (timeline, vwap,
\* indexRange, bindInt, bindInt64).
BackendsAgree == [][tables' # tables => SameAnswers(Last(tables'))]_tables

\* "auto aaTimeline = store.timeline(0xAAAA); CHECK(aaTimeline.size() == 1 ..."
\* (tests/test_all.cpp): with the default bounds, 0 and UINT64_MAX, timeline
\* returns every trade of the symbol.
TimelineIsComplete ==
  \A symbol \in Symbols :
    Len(sql_timeline(Last(tables), symbol, 0, TsWord - 1)) = Len(Of(Last(tables), symbol))
=============================================================================
