-------------------------- MODULE ReferenceMatcher --------------------------
(***************************************************************************)
(* The oracle of the differential tests (matching/ReferenceMatcher.h): one *)
(* unsorted vector of resting orders, scanned for every trade.  Operators  *)
(* take the vector m_book and return the new vector with the fills made.   *)
(***************************************************************************)
EXTENDS Integers, Sequences, SequencesExt

remaining(o) == IF o.filledQty >= o.qty THEN 0 ELSE o.qty - o.filledQty

betterPriceTime_mutNewest(side, a, b) ==
  IF a.price # b.price
  THEN IF side = "BUY" THEN a.price < b.price ELSE a.price > b.price
  ELSE a.sequence > b.sequence

betterPriceTime(side, a, b) ==
  IF a.price # b.price
  THEN IF side = "BUY" THEN a.price < b.price ELSE a.price > b.price
  ELSE a.sequence < b.sequence

\* Indices the scan does not skip.
Candidates(book, o, type) ==
  {i \in DOMAIN book :
     /\ book[i].side # o.side
     /\ remaining(book[i]) # 0
     /\ \/ type = "MARKET"
        \/ IF o.side = "BUY" THEN book[i].price <= o.price
                             ELSE book[i].price >= o.price}

\* The scan keeps the first candidate no other one is better than; 0 is end().
bestOpposite(book, o, type) ==
  LET C == Candidates(book, o, type)
      B == {i \in C : \A j \in C : ~betterPriceTime(o.side, book[j], book[i])}
  IN IF C = {} THEN 0 ELSE Min(B)

FillRecord(o, r, qty) ==
  [buyOrderId  |-> IF o.side = "BUY" THEN o.orderId ELSE r.orderId,
   sellOrderId |-> IF o.side = "BUY" THEN r.orderId ELSE o.orderId,
   price |-> r.price, qty |-> qty]

\* A turn of the loop of match: a trade with the best opposite order, if the
\* order is open and there is one.
matchTurn(m, type) ==
  LET o == m.order
      b == bestOpposite(m.book, o, type)
      q == Min({remaining(o), remaining(m.book[b])})
      r == [m.book[b] EXCEPT !.filledQty = @ + q]
  IN IF remaining(o) = 0 \/ b = 0
     THEN m
     ELSE [book |-> IF remaining(r) = 0 THEN RemoveAt(m.book, b) ELSE [m.book EXCEPT ![b] = r],
           order |-> [o EXCEPT !.filledQty = @ + q],
           fills |-> Append(m.fills, FillRecord(o, r, q))]

\* A turn fills the order or removes a resting one: the loop has ended after
\* as many turns as there are resting orders.
match(book, o, type) ==
  FoldLeft(LAMBDA m, resting : matchTurn(m, type), [book |-> book, order |-> o, fills |-> <<>>], book)

add(book, msg) ==
  LET o == [orderId |-> msg.orderId, price |-> msg.price, qty |-> msg.qty,
            filledQty |-> 0, side |-> msg.side, sequence |-> msg.sequence]
      m == match(book, o, msg.orderType)
  IN [book |-> IF remaining(m.order) > 0 /\ msg.orderType = "LIMIT"
               THEN Append(m.book, m.order) ELSE m.book,
      fills |-> m.fills]

\* Position of the first order with that id, 0 if there is none.
FindOrder(book, id) == SelectInSeq(book, LAMBDA o : o.orderId = id)

apply(book, msg) ==
  LET i == FindOrder(book, msg.orderId)
  IN CASE msg.msgType = "ADD" -> add(book, msg)
       [] msg.msgType = "CANCEL" ->
            [book |-> IF i = 0 THEN book ELSE RemoveAt(book, i), fills |-> <<>>]
       [] msg.msgType = "MODIFY" ->
            IF i = 0
            THEN [book |-> book, fills |-> <<>>]
            ELSE add(RemoveAt(book, i),
                     [msg EXCEPT !.side = book[i].side, !.orderType = "LIMIT"])
=============================================================================
