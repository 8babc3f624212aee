---------------------------- MODULE TradeQueries ----------------------------
(***************************************************************************)
(* The queries of the flat-file trade store (store/TradeStore.h), on the   *)
(* trades it holds and its index of them by symbol: m_trades, m_bySymbol.  *)
(***************************************************************************)
EXTENDS Integers, SequencesExt

indexRange_mutOffByOne(trades, bySymbol, first, last) ==
  [symbol \in DOMAIN bySymbol |->
     bySymbol[symbol] \o SetToSortSeq({i \in first + 2 .. last : trades[i].symbolPacked = symbol}, <)]

\* indexRange: appends the positions after `first', up to `last'.
indexRange(trades, bySymbol, first, last) ==
  [symbol \in DOMAIN bySymbol |->
     bySymbol[symbol] \o SetToSortSeq({i \in first + 1 .. last : trades[i].symbolPacked = symbol}, <)]

InRange(fill, beginTs, endTs) == beginTs <= fill.timestamp /\ fill.timestamp <= endTs

\* What timeline and vwap of a symbol go through.
tradesOf(trades, bySymbol, symbol) ==
  [k \in DOMAIN bySymbol[symbol] |-> trades[bySymbol[symbol][k]]]

timeline(trades, bySymbol, symbol, beginTs, endTs) ==
  SelectSeq(tradesOf(trades, bySymbol, symbol), LAMBDA f : InRange(f, beginTs, endTs))

\* The two sums of which vwap, over all trades or those of a symbol, is the
\* quotient.
vwapSums(trades, beginTs, endTs) ==
  FoldLeft(LAMBDA sum, f :
             IF InRange(f, beginTs, endTs)
             THEN <<sum[1] + f.price * f.qty, sum[2] + f.qty>> ELSE sum,
           <<0, 0>>, trades)
=============================================================================
