----------------------------- MODULE MCReadSide -----------------------------
(* Instance of ReadAnswers for TLC: three readers that compete for one     *)
(* connection; two stores, two symbols, a price and a quantity of 2^31 or  *)
(* more, a timestamp of 2^63 or more, and, when the second batch is stored *)
(* twice, smaller fills whose sum is 2^63 or more.                         *)
EXTENDS ReadAnswers, TLC

CONSTANTS t1, t2, t3, c1, w1, w2

MCThreads == {t1, t2, t3}
MCConnections == {c1}
MCStores == {w1, w2}
ReaderSymmetry == Permutations(MCThreads)

Fill(symbol, ts, price, qty) ==
  [symbolPacked |-> symbol, timestamp |-> ts, price |-> price, qty |-> qty]

MCBatches == {<<Fill("A", 1, 1, 2), Fill("B", 5, 3, 1)>>,
              <<Fill("A", 2, 3, 3), Fill("A", 3, 5, 1)>>,
              <<Fill("B", 1, 1, 6)>>}
=============================================================================
