--------------------------- MODULE ShardedProofs ---------------------------
(***************************************************************************)
(* What ShardedEngine promises, for every number of shards, every set of   *)
(* symbols and every capacity: each shard computes what one thread would.  *)
(* The one-threaded run is ahead of a shard by exactly the messages in the *)
(* ring of that shard: applying them to the shard's books would give the   *)
(* books of the one-threaded run.  No ring is left without a worker, and   *)
(* stop() leaves no message behind.                                        *)
(***************************************************************************)
EXTENDS ShardedEngine, SequenceTheorems, WellFoundedInduction, TLAPS

\* The books after a message for shard i: what applyMessage does to the map of
\* engines of the shard and RunSerially to the books of the one-threaded run.
Step(i, books, msg) ==
  IF Refused(i, books, msg)
  THEN books
  ELSE [books EXCEPT ![msg.symbolPacked] = apply(books[msg.symbolPacked], msg).book]

\* The books of the symbols of shard i.
View(i, books) == [s \in Symbols |-> IF ShardOf[s] = i THEN books[s] ELSE <<>>]

Put(books, key, book) == [s \in Symbols |-> IF s = key THEN book ELSE books[s]]

Books(books) == books = [s \in Symbols |-> books[s]]

\* The books passed through when the messages of a queue are applied in order.
Path(i, queue, path) ==
  \A k \in 1 .. Len(queue) : path[k] = Step(i, path[k - 1], queue[k])

Leads(i, queue, from, to) ==
  \E path : Path(i, queue, path) /\ path[0] = from /\ path[Len(queue)] = to

Owns(i, key) == key \in Symbols /\ ShardOf[key] = i

MessageOf(i, msg) == Owns(i, msg.symbolPacked)

\* A CANCEL has quantity 0.
Quantities == AddQuantities \cup ModifyQuantities \cup {0}

\* The messages that route gives to shard i.
MessagesOf(i) ==
  [msgType : {"ADD", "CANCEL", "MODIFY"}, orderId : Nat, symbolPacked : {s \in Symbols : ShardOf[s] = i},
   side : {"BUY", "SELL"}, orderType : {"LIMIT"}, price : {1}, qty : Quantities, sequence : Nat]

-----------------------------------------------------------------------------
(* The operators of the model *)

\* The slots that a shard's pool gives are the ones of its own symbols (InUse).
LEMMA InUseView ==
  ASSUME NEW i, NEW books
  PROVE  InUse(i, View(i, books)) = InUse(i, books)
<1> DEFINE f == [s \in Symbols |-> IF ShardOf[s] = i THEN Len(View(i, books)[s]) ELSE 0]
           g == [s \in Symbols |-> IF ShardOf[s] = i THEN Len(books[s]) ELSE 0]
<1>1. \A s \in Symbols : ShardOf[s] = i => View(i, books)[s] = books[s]
  BY SMT DEF View
<1>2. f = g
  BY <1>1, Zenon
<1>3. InUse(i, View(i, books)) = Total(f) /\ InUse(i, books) = Total(g)
  BY Zenon DEF InUse
<1> QED
  BY <1>2, <1>3, Zenon

\* A message is refused for want of a slot alike in the books of the shard and
\* in the books of all symbols (applyMessage).
LEMMA RefusedView ==
  ASSUME NEW i, NEW books, NEW msg
  PROVE  Refused(i, View(i, books), msg) <=> Refused(i, books, msg)
BY InUseView, Zenon DEF Refused

\* A new book for one symbol changes no other (getEngine).
LEMMA PutIs ==
  ASSUME NEW books, NEW key \in Symbols, NEW book, Books(books)
  PROVE  [books EXCEPT ![key] = book] = Put(books, key, book)
<1>1. DOMAIN books = Symbols
  BY SMTT(30) DEF Books
<1> QED
  BY <1>1, SMTT(30) DEF Books, Put

\* A message that is not refused gives its symbol the book the engine returns
\* (applyMessage).
LEMMA StepIs ==
  ASSUME NEW i, NEW books, NEW msg, Books(books), msg.symbolPacked \in Symbols,
         ~Refused(i, books, msg)
  PROVE  Step(i, books, msg)
           = Put(books, msg.symbolPacked, apply(books[msg.symbolPacked], msg).book)
<1> DEFINE key == msg.symbolPacked
           book == apply(books[key], msg).book
<1>1. Step(i, books, msg) = [books EXCEPT ![key] = book]
  BY Zenon DEF Step
<1>2. [books EXCEPT ![key] = book] = Put(books, key, book)
  <2>1. key \in Symbols
    BY Zenon
  <2> HIDE DEF key, book
  <2> QED
    BY <2>1, PutIs, ZenonT(60)
<1> QED
  BY <1>1, <1>2, ZenonT(60)

\* The new book of a symbol of the shard is in the shard's books (getEngine).
LEMMA ViewPut ==
  ASSUME NEW i, NEW books, NEW key, NEW book, Owns(i, key)
  PROVE  View(i, Put(books, key, book)) = Put(View(i, books), key, book)
<1>1. \A s \in Symbols : View(i, Put(books, key, book))[s] = Put(View(i, books), key, book)[s]
  BY SMT DEF View, Put, Owns
<1> QED
  BY <1>1, SMTT(30) DEF View, Put

\* The new book of a symbol of another shard is not (shardIndex).
LEMMA ViewPutOther ==
  ASSUME NEW i, NEW books, NEW key \in Symbols, NEW book, ShardOf[key] # i
  PROVE  View(i, Put(books, key, book)) = View(i, books)
<1>1. \A s \in Symbols : View(i, Put(books, key, book))[s] = View(i, books)[s]
  BY SMTT(30) DEF View, Put
<1> QED
  BY <1>1, SMTT(30) DEF View, Put

\* Both are maps from symbols to books.
LEMMA ViewBooks ==
  ASSUME NEW i, NEW books
  PROVE  Books(View(i, books))
BY SMT DEF Books, View

\* A message for shard i changes the books of the shard as it changes the ones
\* of the one-threaded run (applyMessage, getEngine).
LEMMA StepView ==
  ASSUME NEW i, NEW books, NEW msg, Books(books), MessageOf(i, msg)
  PROVE  View(i, Step(i, books, msg)) = Step(i, View(i, books), msg)
<1> DEFINE key == msg.symbolPacked
           book == apply(books[key], msg).book
<1>0. key \in Symbols /\ ShardOf[key] = i /\ Owns(i, key)
  BY Zenon DEF MessageOf, Owns
<1>1. CASE Refused(i, books, msg)
  BY <1>1, RefusedView, ZenonT(60) DEF Step
<1>2. CASE ~Refused(i, books, msg)
  <2>1. View(i, books)[key] = books[key]
    BY <1>0, Zenon DEF View
  <2>2. Step(i, books, msg) = Put(books, key, book)
    BY <1>0, <1>2, StepIs, ZenonT(60)
  <2>3. ~Refused(i, View(i, books), msg)
    BY <1>2, RefusedView, Zenon
  <2>4. Step(i, View(i, books), msg)
          = Put(View(i, books), key, apply(View(i, books)[key], msg).book)
    BY <1>0, <2>3, StepIs, ViewBooks, ZenonT(60)
  <2>5. View(i, Put(books, key, book)) = Put(View(i, books), key, book)
    <3> HIDE DEF key, book
    <3> QED
      BY <1>0, ViewPut, SMTT(30)
  <2> QED
    BY <2>1, <2>2, <2>4, <2>5, ZenonT(60)
<1> QED
  BY <1>1, <1>2, ZenonT(60)

\* A message for another shard leaves the books of this one (route, shardIndex).
LEMMA StepOther ==
  ASSUME NEW i, NEW j, NEW books, NEW msg, Books(books), MessageOf(j, msg), i # j
  PROVE  View(i, Step(j, books, msg)) = View(i, books)
<1> DEFINE key == msg.symbolPacked
           book == apply(books[key], msg).book
<1>0. key \in Symbols /\ ShardOf[key] # i
  BY Zenon DEF MessageOf, Owns
<1>1. CASE Refused(j, books, msg)
  BY <1>1, Zenon DEF Step
<1>2. CASE ~Refused(j, books, msg)
  <2>1. Step(j, books, msg) = Put(books, key, book)
    BY <1>0, <1>2, StepIs, ZenonT(60)
  <2>2. View(i, Put(books, key, book)) = View(i, books)
    <3> HIDE DEF key, book
    <3> QED
      BY <1>0, ViewPutOther, Zenon
  <2> QED
    BY <2>1, <2>2, Zenon
<1> QED
  BY <1>1, <1>2, Zenon

\* A message keeps the set of symbols that have books (getEngine).
LEMMA StepBooks ==
  ASSUME NEW i, NEW books, NEW msg, Books(books), msg.symbolPacked \in Symbols
  PROVE  Books(Step(i, books, msg))
<1>1. \A key, book : Books(Put(books, key, book))
  BY SMT DEF Books, Put
<1>2. CASE Refused(i, books, msg)
  BY <1>2, Zenon DEF Step
<1>3. CASE ~Refused(i, books, msg)
  BY <1>1, <1>3, StepIs, ZenonT(60)
<1> QED
  BY <1>2, <1>3, Zenon

-----------------------------------------------------------------------------
(* The messages between the one-threaded run and a shard *)

\* A sequence grows by one element at its end (SPSCRing::push).
LEMMA QueueAppend ==
  ASSUME NEW i, NEW q \in Seq(MessagesOf(i)), NEW msg \in MessagesOf(i)
  PROVE  /\ Append(q, msg) \in Seq(MessagesOf(i))
         /\ Len(Append(q, msg)) = Len(q) + 1 /\ Len(q) \in Nat
         /\ \A k \in 1 .. Len(q) : Append(q, msg)[k] = q[k]
         /\ Append(q, msg)[Len(q) + 1] = msg
BY SMT

\* A sequence loses its first element (SPSCRing::pop).
LEMMA QueueTail ==
  ASSUME NEW i, NEW q \in Seq(MessagesOf(i)), q # <<>>
  PROVE  /\ Tail(q) \in Seq(MessagesOf(i)) /\ Head(q) \in MessagesOf(i)
         /\ Len(q) \in Nat /\ Len(q) > 0 /\ Len(Tail(q)) = Len(q) - 1
         /\ Head(q) = q[1]
         /\ \A k \in 1 .. Len(Tail(q)) : Tail(q)[k] = q[k + 1]
BY SMT

\* With nothing in the ring the shard has the books of the one-threaded run.
LEMMA LeadsNowhere ==
  ASSUME NEW i, NEW from, NEW to
  PROVE  Leads(i, <<>>, from, to) <=> from = to
<1>1. Len(<<>>) = 0
  BY SMT
<1>2. ASSUME Leads(i, <<>>, from, to) PROVE from = to
  BY <1>1, <1>2, Zenon DEF Leads
<1>3. ASSUME from = to PROVE Leads(i, <<>>, from, to)
  <2> DEFINE path == [k \in {0} |-> from]
  <2>1. path[0] = from
    BY Zenon
  <2>2. Path(i, <<>>, path)
    BY <1>1, SMTT(30) DEF Path
  <2> QED
    BY <1>1, <1>3, <2>1, <2>2, ZenonT(60) DEF Leads
<1> QED
  BY <1>2, <1>3, Zenon

\* A routed message takes the one-threaded run one step further ahead (route,
\* RunSerially).
LEMMA LeadsAppend ==
  ASSUME NEW i, NEW q \in Seq(MessagesOf(i)), NEW msg \in MessagesOf(i), NEW from, NEW to,
         Leads(i, q, from, to)
  PROVE  Leads(i, Append(q, msg), from, Step(i, to, msg))
<1> DEFINE n == Len(q)
           q1 == Append(q, msg)
<1>1. PICK path : Path(i, q, path) /\ path[0] = from /\ path[n] = to
  BY Zenon DEF Leads
<1> DEFINE new == [k \in 0 .. n + 1 |-> IF k = n + 1 THEN Step(i, to, msg) ELSE path[k]]
<1>2. /\ n \in Nat /\ Len(q1) = n + 1 /\ q1[n + 1] = msg
      /\ \A k \in 1 .. n : q1[k] = q[k]
  BY QueueAppend, SMTT(30)
<1> HIDE DEF n, q1
<1>3. \A k \in 0 .. n : new[k] = path[k]
  BY <1>2, SMTT(30)
<1>4. new[n + 1] = Step(i, to, msg)
  BY <1>2, SMTT(30)
<1> HIDE DEF new
<1>5. ASSUME NEW k \in 1 .. Len(q1) PROVE new[k] = Step(i, new[k - 1], q1[k])
  <2>1. CASE k = n + 1
    <3>1. k - 1 = n /\ n \in 0 .. n
      BY <1>2, <2>1, SMTT(30)
    <3> QED
      BY <1>1, <1>2, <1>3, <1>4, <2>1, <3>1, ZenonT(60)
  <2>2. CASE k # n + 1
    <3>1. k \in 1 .. n /\ k \in 0 .. n /\ k - 1 \in 0 .. n
      BY <1>2, <2>2, SMTT(30)
    <3>2. path[k] = Step(i, path[k - 1], q[k])
      BY <1>1, <3>1, ZenonT(60) DEF Path, n
    <3> QED
      BY <1>2, <1>3, <3>1, <3>2, ZenonT(60)
  <2> QED
    BY <2>1, <2>2, ZenonT(60)
<1>6. Path(i, q1, new)
  BY <1>5, Zenon DEF Path
<1>7. new[0] = from
  <2>1. 0 \in 0 .. n
    BY <1>2, SMTT(30)
  <2> QED
    BY <1>1, <1>3, <2>1, ZenonT(60)
<1> QED
  BY <1>2, <1>4, <1>6, <1>7, ZenonT(60) DEF Leads, q1

\* A message that the worker applies brings the shard one step closer
\* (workerLoop, applyMessage).
LEMMA LeadsTail ==
  ASSUME NEW i, NEW q \in Seq(MessagesOf(i)), q # <<>>, NEW from, NEW to,
         Leads(i, q, from, to)
  PROVE  Leads(i, Tail(q), Step(i, from, Head(q)), to)
<1> DEFINE n == Len(q)
           q1 == Tail(q)
<1>1. PICK path : Path(i, q, path) /\ path[0] = from /\ path[n] = to
  BY Zenon DEF Leads
<1> DEFINE new == [k \in 0 .. n - 1 |-> path[k + 1]]
<1>2. /\ n \in Nat /\ n > 0 /\ Len(q1) = n - 1 /\ Head(q) = q[1]
      /\ \A k \in 1 .. Len(q1) : q1[k] = q[k + 1]
  BY QueueTail, Zenon
<1>8. \A k \in 1 .. n : path[k] = Step(i, path[k - 1], q[k])
  BY <1>1, Zenon DEF Path
<1> HIDE DEF n, q1
<1>3. \A k \in 0 .. n - 1 : new[k] = path[k + 1]
  BY Zenon
<1> HIDE DEF new
<1>4. new[0] = Step(i, from, Head(q))
  <2>1. 0 \in 0 .. n - 1 /\ 1 \in 1 .. n /\ 0 + 1 = 1 /\ 1 - 1 = 0
    BY <1>2, SMTT(30)
  <2> QED
    BY <1>1, <1>2, <1>8, <1>3, <2>1, ZenonT(60)
<1>5. new[n - 1] = to
  <2>1. n - 1 \in 0 .. n - 1 /\ (n - 1) + 1 = n
    BY <1>2, SMTT(30)
  <2> QED
    BY <1>1, <1>3, <2>1, ZenonT(60)
<1>6. ASSUME NEW k \in 1 .. Len(q1) PROVE new[k] = Step(i, new[k - 1], q1[k])
  <2>1. /\ k \in 0 .. n - 1 /\ k - 1 \in 0 .. n - 1 /\ k + 1 \in 1 .. n
        /\ (k - 1) + 1 = k /\ (k + 1) - 1 = k
    BY <1>2, SMTT(30)
  <2>2. new[k] = path[k + 1] /\ new[k - 1] = path[k]
    BY <1>3, <2>1, ZenonT(60)
  <2>3. path[k + 1] = Step(i, path[k], q[k + 1])
    BY <1>8, <2>1, ZenonT(60)
  <2>4. q1[k] = q[k + 1]
    BY <1>2, Zenon
  <2> QED
    BY <2>2, <2>3, <2>4, ZenonT(60)
<1>7. Path(i, q1, new)
  BY <1>6, Zenon DEF Path
<1> QED
  BY <1>2, <1>4, <1>5, <1>7, ZenonT(60) DEF Leads, q1

-----------------------------------------------------------------------------
(* A shard follows the one-threaded run *)

\* A shard with those books and that ring will have the books of the
\* one-threaded run for its symbols when the ring is drained.
Follows(i, books, queue, all) ==
  /\ Books(books) /\ queue \in Seq(MessagesOf(i))
  /\ Leads(i, queue, View(i, books), View(i, all))

\* A message of a shard carries one of its symbols (shardIndex).
LEMMA MessageFits ==
  ASSUME NEW i, NEW msg \in MessagesOf(i)
  PROVE  /\ MessageOf(i, msg) /\ msg.symbolPacked \in Symbols
         /\ ShardOf[msg.symbolPacked] = i
<1>1. msg.symbolPacked \in {s \in Symbols : ShardOf[s] = i}
  BY SMT DEF MessagesOf
<1> QED
  BY <1>1, Zenon DEF MessageOf, Owns

\* All start with empty books and an empty ring (start).
LEMMA FollowsInit ==
  ASSUME NEW i
  PROVE  LET none == [s \in Symbols |-> <<>>]
         IN Books(none) /\ Follows(i, none, <<>>, none)
<1> DEFINE none == [s \in Symbols |-> <<>>]
<1>1. Books(none)
  BY SMTT(30) DEF Books
<1>2. <<>> \in Seq(MessagesOf(i))
  BY SMTT(30)
<1>3. Leads(i, <<>>, View(i, none), View(i, none))
  BY LeadsNowhere, ZenonT(60)
<1> QED
  BY <1>1, <1>2, <1>3, ZenonT(60) DEF Follows

\* The shard of a routed message keeps following (route).
LEMMA FollowsRoute ==
  ASSUME NEW i, NEW books, NEW queue, NEW all, Books(all), Follows(i, books, queue, all),
         NEW msg \in MessagesOf(i)
  PROVE  Follows(i, books, Append(queue, msg), Step(i, all, msg))
<1>1. MessageOf(i, msg)
  BY MessageFits, Zenon
<1>2. /\ queue \in Seq(MessagesOf(i)) /\ Books(books)
      /\ Leads(i, queue, View(i, books), View(i, all))
  BY Zenon DEF Follows
<1>3. Leads(i, Append(queue, msg), View(i, books), Step(i, View(i, all), msg))
  BY <1>2, LeadsAppend, ZenonT(60)
<1>4. View(i, Step(i, all, msg)) = Step(i, View(i, all), msg)
  BY <1>1, StepView, SMTT(30)
<1>5. Append(queue, msg) \in Seq(MessagesOf(i))
  BY <1>2, QueueAppend, Zenon
<1> QED
  BY <1>2, <1>3, <1>4, <1>5, ZenonT(60) DEF Follows

\* So do the other shards (route).
LEMMA FollowsOther ==
  ASSUME NEW i, NEW j, NEW books, NEW queue, NEW all, Books(all),
         Follows(i, books, queue, all), NEW msg \in MessagesOf(j), i # j
  PROVE  Follows(i, books, queue, Step(j, all, msg))
<1>1. MessageOf(j, msg)
  BY MessageFits, Zenon
<1>2. View(i, Step(j, all, msg)) = View(i, all)
  BY <1>1, StepOther, SMTT(30)
<1> QED
  BY <1>2, Zenon DEF Follows

\* And the shard whose worker applies the next message (workerLoop).
LEMMA FollowsPop ==
  ASSUME NEW i, NEW books, NEW queue, NEW all, Follows(i, books, queue, all), queue # <<>>
  PROVE  Follows(i, Step(i, books, Head(queue)), Tail(queue), all)
<1>1. /\ queue \in Seq(MessagesOf(i)) /\ Books(books)
      /\ Leads(i, queue, View(i, books), View(i, all))
  BY Zenon DEF Follows
<1>2. Tail(queue) \in Seq(MessagesOf(i)) /\ Head(queue) \in MessagesOf(i)
  BY <1>1, QueueTail, Zenon
<1>3. MessageOf(i, Head(queue)) /\ Head(queue).symbolPacked \in Symbols
  BY <1>2, MessageFits, Zenon
<1>4. Leads(i, Tail(queue), Step(i, View(i, books), Head(queue)), View(i, all))
  BY <1>1, LeadsTail, ZenonT(60)
<1>5. View(i, Step(i, books, Head(queue))) = Step(i, View(i, books), Head(queue))
  BY <1>1, <1>3, StepView, SMTT(30)
<1>6. Books(Step(i, books, Head(queue)))
  BY <1>1, <1>3, StepBooks, ZenonT(60)
<1> QED
  BY <1>2, <1>4, <1>5, <1>6, ZenonT(60) DEF Follows

-----------------------------------------------------------------------------
(* The inductive invariant *)

\* g differs from f in the value v that it has for shard j.
Replaced(f, g, j, v) ==
  /\ g = [i \in Shards |-> g[i]] /\ g[j] = v
  /\ \A i \in Shards : i # j => g[i] = f[i]

\* An assignment to one shard's element leaves those of the others.
LEMMA ReplacedExcept ==
  ASSUME NEW f, f = [i \in Shards |-> f[i]], NEW j \in Shards, NEW v
  PROVE  Replaced(f, [f EXCEPT ![j] = v], j, v)
<1>1. DOMAIN f = Shards
  BY SMT
<1> HIDE DEF Shards
<1> QED
  BY <1>1, SMTT(30) DEF Replaced

\* The one-threaded run is ahead of each shard by the messages in its ring.
Ahead ==
  /\ engines = [i \in Shards |-> engines[i]] /\ inbox = [i \in Shards |-> inbox[i]]
  /\ Books(serial)
  /\ \A i \in Shards : Follows(i, engines[i], inbox[i], serial)

\* Every id that was given out has the symbol of its order.
Ids == sequence \in Nat /\ symbolOf \in Seq(Symbols) /\ Len(symbolOf) = sequence

\* A routed message, put in the ring of its symbol's shard and applied by the
\* one-threaded run to the same symbol's book.
LEMMA RouteAhead ==
  ASSUME Ahead, NEW j \in Shards, NEW msg \in MessagesOf(j), route(msg),
         RunSerially(msg, msg.symbolPacked)
  PROVE  Ahead'
<1>1. msg.symbolPacked \in Symbols /\ ShardOf[msg.symbolPacked] = j
  BY MessageFits, Zenon
<1>2. engines' = engines
  BY Zenon DEF route, shardVars
<1>3. inbox' = [inbox EXCEPT ![j] = Append(inbox[j], msg)]
  BY <1>1, Zenon DEF route
<1>4. serial' = Step(j, serial, msg)
  BY <1>1, ZenonT(60) DEF RunSerially, Step
<1>5. Replaced(inbox, inbox', j, Append(inbox[j], msg))
  BY <1>3, ReplacedExcept, Zenon DEF Ahead
<1>6. /\ inbox' = [i \in Shards |-> inbox'[i]]
      /\ inbox'[j] = Append(inbox[j], msg)
      /\ \A i \in Shards : i # j => inbox'[i] = inbox[i]
  BY <1>5, Zenon DEF Replaced
<1>7. Books(serial')
  BY <1>1, <1>4, StepBooks, ZenonT(60) DEF Ahead
<1>8. Follows(j, engines[j], inbox'[j], serial')
  <2>1. Books(serial) /\ Follows(j, engines[j], inbox[j], serial)
    BY Zenon DEF Ahead
  <2>2. Follows(j, engines[j], Append(inbox[j], msg), Step(j, serial, msg))
    BY <2>1, FollowsRoute, ZenonT(60)
  <2> QED
    BY <1>4, <1>6, <2>2, ZenonT(60)
<1>9. ASSUME NEW i \in Shards, i # j PROVE Follows(i, engines[i], inbox'[i], serial')
  BY <1>4, <1>6, <1>9, FollowsOther, ZenonT(60) DEF Ahead
<1> QED
  BY <1>2, <1>6, <1>7, <1>8, <1>9, ZenonT(60) DEF Ahead

\* The worker of shard i applies the message at the head of its ring.
LEMMA PopAhead ==
  ASSUME Ahead, NEW i \in Shards, popMessage(i)
  PROVE  Ahead'
<1> DEFINE msg == Head(inbox[i])
<1>1. /\ inbox[i] # <<>> /\ applyMessage(i, msg) /\ serial' = serial
      /\ inbox' = [inbox EXCEPT ![i] = Tail(inbox[i])]
  BY Zenon DEF popMessage, gatewayVars
<1>2. Replaced(inbox, inbox', i, Tail(inbox[i]))
  BY <1>1, ReplacedExcept, ZenonT(60) DEF Ahead
<1>3. /\ inbox' = [k \in Shards |-> inbox'[k]]
      /\ inbox'[i] = Tail(inbox[i])
      /\ \A k \in Shards : k # i => inbox'[k] = inbox[k]
  BY <1>2, ZenonT(60) DEF Replaced
<1>4. /\ engines' = [k \in Shards |-> engines'[k]]
      /\ engines'[i] = Step(i, engines[i], msg)
      /\ \A k \in Shards : k # i => engines'[k] = engines[k]
  <2> DEFINE key == msg.symbolPacked
             book == apply(engines[i][key], msg).book
  <2>1. CASE Refused(i, engines[i], msg)
    BY <1>1, <2>1, Zenon DEF applyMessage, Step, Ahead
  <2>2. CASE ~Refused(i, engines[i], msg)
    <3>1. engines' = [engines EXCEPT ![i] = [engines[i] EXCEPT ![key] = book]]
      BY <1>1, <2>2, Zenon DEF applyMessage, engineKey
    <3>2. Step(i, engines[i], msg) = [engines[i] EXCEPT ![key] = book]
      BY <2>2, Zenon DEF Step
    <3> HIDE DEF key, book
    <3>3. Replaced(engines, engines', i, [engines[i] EXCEPT ![key] = book])
      BY <3>1, ReplacedExcept, Zenon DEF Ahead
    <3> QED
      BY <3>2, <3>3, Zenon DEF Replaced
  <2> QED
    BY <2>1, <2>2, ZenonT(60)
<1>5. Follows(i, engines'[i], inbox'[i], serial)
  <2>1. Follows(i, engines[i], inbox[i], serial) /\ inbox[i] # <<>>
    BY <1>1, Zenon DEF Ahead
  <2>2. Follows(i, Step(i, engines[i], msg), Tail(inbox[i]), serial)
    BY <2>1, FollowsPop, ZenonT(60)
  <2> QED
    BY <1>3, <1>4, <2>2, ZenonT(60)
<1> QED
  BY <1>1, <1>3, <1>4, <1>5, ZenonT(60) DEF Ahead

\* With its symbol 0 or the one of its ADD, a message fits the ring it is put in.
LEMMA RoutedMessage ==
  ASSUME NEW msgType \in {"ADD", "CANCEL", "MODIFY"}, NEW id \in Nat, NEW symbol \in Symbols,
         NEW side \in {"BUY", "SELL"}, NEW qty \in Quantities, sequence \in Nat
  PROVE  /\ Message(msgType, id, symbol, side, qty) \in MessagesOf(ShardOf[symbol])
         /\ Message(msgType, id, symbol, side, qty).symbolPacked = symbol
         /\ ShardOf[symbol] \in Shards
<1>1. ShardOf[symbol] \in Shards
  BY ShardsAssumption, Zenon
<1>2. symbol \in {s \in Symbols : ShardOf[s] = ShardOf[symbol]}
  BY Zenon
<1>3. sequence + 1 \in Nat
  BY SMTT(30)
<1>4. Message(msgType, id, symbol, side, qty).symbolPacked = symbol
  BY SMT DEF Message
<1>5. Message(msgType, id, symbol, side, qty) \in MessagesOf(ShardOf[symbol])
  <2> DEFINE T == {s \in Symbols : ShardOf[s] = ShardOf[symbol]}
  <2>1. symbol \in T
    BY <1>2, Zenon
  <2> HIDE DEF T
  <2>2. Message(msgType, id, symbol, side, qty)
          \in [msgType : {"ADD", "CANCEL", "MODIFY"}, orderId : Nat, symbolPacked : T,
               side : {"BUY", "SELL"}, orderType : {"LIMIT"}, price : {1}, qty : Quantities,
               sequence : Nat]
    BY <1>3, <2>1, SMTT(30) DEF Message
  <2> QED
    BY <2>2, Zenon DEF MessagesOf, T
<1> QED
  BY <1>1, <1>4, <1>5, ZenonT(60)

\* makeAdd: the order's own symbol.
LEMMA AddAhead ==
  ASSUME Ahead, Ids, NEW symbol \in Symbols, NEW side \in {"BUY", "SELL"}, NEW qty \in AddQuantities,
         routeAdd(symbol, side, qty)
  PROVE  Ahead' /\ Ids'
<1> DEFINE msg == Message("ADD", sequence + 1, symbol, side, qty)
<1>1. /\ route(msg) /\ RunSerially(msg, symbol) /\ sequence' = sequence + 1
      /\ symbolOf' = Append(symbolOf, symbol)
  BY Zenon DEF routeAdd, NextSequence
<1>2. sequence \in Nat /\ sequence + 1 \in Nat
  BY SMT DEF Ids
<1>qty. qty \in Quantities /\ "ADD" \in {"ADD", "CANCEL", "MODIFY"}
  BY Zenon DEF Quantities
<1>3. /\ msg \in MessagesOf(ShardOf[symbol]) /\ msg.symbolPacked = symbol
      /\ ShardOf[symbol] \in Shards
  BY <1>2, <1>qty, RoutedMessage, ZenonT(60)
<1> HIDE DEF msg
<1>4. RunSerially(msg, msg.symbolPacked)
  BY <1>1, <1>3, Zenon
<1>5. Ahead'
  BY <1>1, <1>3, <1>4, RouteAhead, ZenonT(60)
<1>6. Ids'
  BY <1>1, SMTT(30) DEF Ids
<1> QED
  BY <1>5, <1>6, ZenonT(60)

\* makeCancel, makeModify with the symbol that assignSymbols copies.
LEMMA ChangeAhead ==
  ASSUME Ahead, Ids, AssignSymbols, NEW msgType \in {"CANCEL", "MODIFY"},
         NEW id \in 1 .. sequence, NEW qty \in Quantities, routeChange(msgType, id, qty)
  PROVE  Ahead' /\ Ids'
<1> DEFINE symbol == symbolOf[id]
           msg == Message(msgType, id, symbol, "BUY", qty)
<1>1. /\ route(msg) /\ RunSerially(msg, symbol) /\ sequence' = sequence + 1
      /\ symbolOf' = Append(symbolOf, 0)
  BY Zenon DEF routeChange, NextSequence
<1>2. sequence \in Nat /\ id \in Nat /\ symbol \in Symbols
  BY SMTT(30) DEF Ids
<1>3. msgType \in {"ADD", "CANCEL", "MODIFY"} /\ "BUY" \in {"BUY", "SELL"}
  BY Zenon
<1> HIDE DEF symbol
<1>4. /\ msg \in MessagesOf(ShardOf[symbol]) /\ msg.symbolPacked = symbol
      /\ ShardOf[symbol] \in Shards
  BY <1>2, <1>3, RoutedMessage, ZenonT(60)
<1> HIDE DEF msg
<1>5. RunSerially(msg, msg.symbolPacked)
  BY <1>1, <1>4, ZenonT(60)
<1>6. Ahead'
  BY <1>1, <1>4, <1>5, RouteAhead, ZenonT(60)
<1>7. Ids'
  BY <1>1, ShardsAssumption, SMTT(30) DEF Ids
<1> QED
  BY <1>6, <1>7, ZenonT(60)

\* The steps of the engine, with one kind of change for CANCEL and MODIFY.
LEMMA NextIs ==
  ASSUME Next
  PROVE  \/ start \/ stop \/ join
         \/ \E symbol \in Symbols, side \in {"BUY", "SELL"}, qty \in AddQuantities :
              routeAdd(symbol, side, qty)
         \/ \E msgType \in {"CANCEL", "MODIFY"}, id \in 1 .. sequence, qty \in Quantities :
              routeChange(msgType, id, qty)
         \/ \E i \in Shards : workerLoop(i)
<1>1. 0 \in Quantities /\ ModifyQuantities \subseteq Quantities
  BY Zenon DEF Quantities
<1>2. "CANCEL" \in {"CANCEL", "MODIFY"} /\ "MODIFY" \in {"CANCEL", "MODIFY"}
  BY Zenon
<1>3. ASSUME NEW id \in 1 .. sequence, routeChange("CANCEL", id, 0)
      PROVE  \E msgType \in {"CANCEL", "MODIFY"}, j \in 1 .. sequence, qty \in Quantities :
               routeChange(msgType, j, qty)
  BY <1>1, <1>2, <1>3, ZenonT(60)
<1>4. ASSUME NEW id \in 1 .. sequence, NEW q \in ModifyQuantities, routeChange("MODIFY", id, q)
      PROVE  \E msgType \in {"CANCEL", "MODIFY"}, j \in 1 .. sequence, qty \in Quantities :
               routeChange(msgType, j, qty)
  BY <1>1, <1>2, <1>4, ZenonT(60)
<1> QED
  BY <1>3, <1>4, ZenonT(60) DEF Next

\* What is not routed or applied changes neither the rings nor the books.
LEMMA IdleAhead ==
  ASSUME Ahead, Ids, UNCHANGED <<engines, inbox, serial, sequence, symbolOf>>
  PROVE  Ahead' /\ Ids'
BY Zenon DEF Ahead, Ids

\* Every step keeps the one-threaded run ahead by what is in the rings.
LEMMA StepAhead ==
  ASSUME AssignSymbols, Ahead, Ids, [Next]_vars
  PROVE  Ahead' /\ Ids'
<1>1. CASE start \/ stop \/ join \/ UNCHANGED vars
  <2>1. UNCHANGED <<engines, inbox, serial, sequence, symbolOf>>
    BY <1>1, ZenonT(60) DEF start, stop, join, vars, gatewayVars, shardVars
  <2> QED
    BY <2>1, IdleAhead, ZenonT(60)
<1>2. ASSUME NEW symbol \in Symbols, NEW side \in {"BUY", "SELL"}, NEW qty \in AddQuantities,
             routeAdd(symbol, side, qty)
      PROVE  Ahead' /\ Ids'
  BY <1>2, AddAhead, ZenonT(60)
<1>3. ASSUME NEW msgType \in {"CANCEL", "MODIFY"}, NEW id \in 1 .. sequence,
             NEW qty \in Quantities, routeChange(msgType, id, qty)
      PROVE  Ahead' /\ Ids'
  BY <1>3, ChangeAhead, ZenonT(60)
<1>4. ASSUME NEW i \in Shards, workerLoop(i)
      PROVE  Ahead' /\ Ids'
  <2>1. CASE popMessage(i)
    <3>1. Ids'
      BY <2>1, ZenonT(60) DEF popMessage, gatewayVars, Ids
    <3> QED
      BY <2>1, <3>1, PopAhead, ZenonT(60)
  <2>2. CASE loopTest(i) \/ popNothing(i)
    <3>1. UNCHANGED <<engines, inbox, serial, sequence, symbolOf>>
      BY <2>2, Zenon DEF loopTest, popNothing, gatewayVars, shardVars
    <3> QED
      BY <3>1, IdleAhead, Zenon
  <2> QED
    BY <1>4, <2>1, <2>2, ZenonT(60) DEF workerLoop
<1> QED
  BY <1>1, <1>2, <1>3, <1>4, NextIs, ZenonT(60)

\* The constructor: no engines, empty rings, nothing routed.
LEMMA InitAhead == Init => Ahead /\ Ids
<1> SUFFICES ASSUME Init PROVE Ahead /\ Ids
  BY Zenon
<1> DEFINE none == [s \in Symbols |-> <<>>]
<1>1. /\ inbox = [i \in Shards |-> <<>>] /\ engines = [i \in Shards |-> none]
      /\ serial = none /\ sequence = 0 /\ symbolOf = <<>>
  BY Zenon DEF Init
<1>2. Books(none) /\ \A i : Follows(i, none, <<>>, none)
  BY FollowsInit, ZenonT(60)
<1> HIDE DEF none
<1>3. \A i \in Shards : inbox[i] = <<>> /\ engines[i] = none
  BY <1>1, ZenonT(60)
<1>4. inbox = [i \in Shards |-> inbox[i]] /\ engines = [i \in Shards |-> engines[i]]
  BY <1>1, <1>3, ZenonT(60)
<1>5. Ahead
  BY <1>1, <1>2, <1>3, <1>4, ZenonT(60) DEF Ahead
<1>6. Ids
  BY <1>1, SMTT(30) DEF Ids
<1> QED
  BY <1>5, <1>6, ZenonT(60)

-----------------------------------------------------------------------------
(* Theorems *)

\* With symbols assigned to CANCEL and MODIFY, a shard whose ring is drained
\* has the books of the one-threaded run, whatever the interleaving of the
\* workers, the restarts, the capacities and the refused ADDs (route,
\* workerLoop, getEngine, applyMessage).
THEOREM ShardsAreSerial ==
  ASSUME AssignSymbols
  PROVE  Spec => []BooksAreSerial
<1>1. Init => Ahead /\ Ids
  BY InitAhead, Zenon
<1>2. Ahead /\ Ids /\ [Next]_vars => Ahead' /\ Ids'
  BY StepAhead, Zenon
<1>3. Ahead => BooksAreSerial
  <2> SUFFICES ASSUME Ahead, NEW i \in Shards, inbox[i] = <<>>, NEW s \in Symbols, ShardOf[s] = i
               PROVE  engines[i][s] = serial[s]
    BY Zenon DEF BooksAreSerial
  <2>1. Leads(i, <<>>, View(i, engines[i]), View(i, serial))
    BY Zenon DEF Ahead, Follows
  <2>2. View(i, engines[i]) = View(i, serial)
    BY <2>1, LeadsNowhere, ZenonT(60)
  <2>3. View(i, engines[i])[s] = engines[i][s] /\ View(i, serial)[s] = serial[s]
    BY Zenon DEF View
  <2> QED
    BY <2>2, <2>3, ZenonT(60)
<1> QED
  BY <1>1, <1>2, <1>3, PTL DEF Spec

\* Between start() and stop() no flag is set and every worker is in its loop.
Served ==
  /\ wpc = [i \in Shards |-> wpc[i]]
  /\ m_running /\ gpc = "run" =>
       \A i \in Shards : stopFlag[i] = FALSE /\ wpc[i] \in {"loop", "pop"}

\* The constructor starts no worker.
LEMMA InitServed == Init => Served
BY Zenon DEF Init, Served

\* Every step keeps the flags down and the workers in their loops until stop().
LEMMA StepServed ==
  ASSUME Served, [Next]_vars
  PROVE  Served'
<1>1. CASE start
  BY <1>1, Zenon DEF start, Served
<1>2. CASE stop
  <2>1. gpc' # "run" /\ wpc' = wpc
    BY <1>2, ZenonT(60) DEF stop, workerVars
  <2> QED
    BY <2>1, ZenonT(60) DEF Served
<1>3. CASE join
  BY <1>3, Zenon DEF join, Served
<1>4. CASE UNCHANGED <<m_running, gpc, wpc, stopFlag>>
  BY <1>4, Zenon DEF Served
<1>5. ASSUME NEW symbol \in Symbols, NEW side \in {"BUY", "SELL"}, NEW qty \in AddQuantities,
             routeAdd(symbol, side, qty)
      PROVE  UNCHANGED <<m_running, gpc, wpc, stopFlag>>
  BY <1>5, Zenon DEF routeAdd, route, workerVars
<1>6. ASSUME NEW msgType \in {"CANCEL", "MODIFY"}, NEW id \in 1 .. sequence,
             NEW qty \in Quantities, routeChange(msgType, id, qty)
      PROVE  UNCHANGED <<m_running, gpc, wpc, stopFlag>>
  BY <1>6, Zenon DEF routeChange, route, workerVars
<1>7. UNCHANGED vars => UNCHANGED <<m_running, gpc, wpc, stopFlag>>
  BY Zenon DEF vars, gatewayVars, workerVars
<1>8. ASSUME NEW i \in Shards, workerLoop(i)
      PROVE  Served'
  <2>1. /\ m_running' = m_running /\ gpc' = gpc /\ stopFlag' = stopFlag
        /\ \E place : wpc' = [wpc EXCEPT ![i] = place]
    BY <1>8, Zenon DEF workerLoop, loopTest, popMessage, popNothing, gatewayVars
  <2>2. PICK place : wpc' = [wpc EXCEPT ![i] = place]
    BY <2>1, ZenonT(60)
  <2>3. Replaced(wpc, wpc', i, place)
    BY <2>2, ReplacedExcept, Zenon DEF Served
  <2>4. wpc' = [k \in Shards |-> wpc'[k]] /\ wpc'[i] = place
        /\ \A k \in Shards : k # i => wpc'[k] = wpc[k]
    BY <2>3, Zenon DEF Replaced
  <2>5. CASE ~(m_running /\ gpc = "run")
    BY <2>1, <2>4, <2>5, ZenonT(60) DEF Served
  <2>6. CASE m_running /\ gpc = "run"
    <3>1. stopFlag[i] = FALSE /\ wpc[i] \in {"loop", "pop"}
      BY <2>6, Zenon DEF Served
    <3>2. wpc'[i] \in {"loop", "pop"}
      <4>1. CASE loopTest(i)
        BY <3>1, <4>1, SMTT(30) DEF loopTest, Served
      <4>2. CASE popMessage(i)
        BY <3>1, <4>2, SMTT(30) DEF popMessage, Served
      <4>3. CASE popNothing(i)
        BY <3>1, <4>3, SMTT(30) DEF popNothing, Served
      <4> QED
        BY <1>8, <4>1, <4>2, <4>3, ZenonT(60) DEF workerLoop
    <3> QED
      BY <2>1, <2>4, <2>6, <3>2, ZenonT(60) DEF Served
  <2> QED
    BY <2>5, <2>6, Zenon
<1> QED
  BY <1>1, <1>2, <1>3, <1>4, <1>5, <1>6, <1>7, <1>8, NextIs, ZenonT(60)

\* From start() to stop() every ring has a worker in its loop, also after
\* restarts: start() clears the flags that the last stop() set, before the
\* threads test them (start, stop, workerLoop).
THEOREM ShardsServed == Spec => []RingsAreServed
<1>1. Served => RingsAreServed
  BY Zenon DEF Served, RingsAreServed
<1> QED
  BY InitServed, StepServed, <1>1, PTL DEF Spec

-----------------------------------------------------------------------------
(* stop() drains the rings *)

\* x is the sum of w over the shards, through its partial sums.
SumsTo(w, x) ==
  \E acc \in [0 .. NumShards -> Int] :
    /\ acc[0] = 0 /\ acc[NumShards] = x
    /\ \A i \in Shards : w[i] \in Int /\ acc[i] = acc[i - 1] + w[i]

\* A non-empty set of naturals has a least element.
LEMMA LeastOf ==
  ASSUME NEW T, T \subseteq Nat, T # {}
  PROVE  \E x \in T : \A y \in T : x <= y
<1>1. PICK x \in T : \A y \in T : ~(<<y, x>> \in OpToRel(<, Nat))
  BY WFMin, NatLessThanWellFounded, ZenonT(60)
<1>2. ASSUME NEW y \in T PROVE x <= y
  <2>1. x \in Nat /\ y \in Nat
    BY Zenon
  <2>2. y < x => <<y, x>> \in OpToRel(<, Nat)
    BY <2>1, Zenon DEF OpToRel
  <2>3. ~(y < x)
    BY <1>1, <2>2, Zenon
  <2> QED
    BY <2>1, <2>3, SMTT(30)
<1> QED
  BY <1>2, ZenonT(60)

\* The loop of totalProcessed computes the sum: partial sums are unique.
LEMMA TotalIs ==
  ASSUME NEW x, SumsTo(processed, x)
  PROVE  totalProcessed = x
<1>1. PICK acc \in [0 .. NumShards -> Int] :
        /\ acc[0] = 0 /\ acc[NumShards] = x
        /\ \A i \in Shards : processed[i] \in Int /\ acc[i] = acc[i - 1] + processed[i]
  BY Zenon DEF SumsTo
<1> DEFINE f == CHOOSE g : g = [i \in 0 .. NumShards |-> IF i = 0 THEN 0 ELSE g[i - 1] + processed[i]]
<1>2. acc = [i \in 0 .. NumShards |-> IF i = 0 THEN 0 ELSE acc[i - 1] + processed[i]]
  BY <1>1, ShardsAssumption, SMTT(30) DEF Shards
<1>3. f = [i \in 0 .. NumShards |-> IF i = 0 THEN 0 ELSE f[i - 1] + processed[i]]
  BY <1>2, Zenon
<1>4. totalProcessed = f[NumShards]
  BY Zenon DEF totalProcessed
<1> HIDE DEF f
<1>5. f[0] = 0 /\ \A i \in Shards : f[i] = f[i - 1] + processed[i]
  <2>1. 0 \in 0 .. NumShards /\ \A i \in Shards : i \in 0 .. NumShards /\ i # 0
    BY ShardsAssumption, SMTT(30) DEF Shards
  <2>2. \A i \in 0 .. NumShards : f[i] = IF i = 0 THEN 0 ELSE f[i - 1] + processed[i]
    BY <1>3, ZenonT(60)
  <2> QED
    BY <2>1, <2>2, ZenonT(60)
<1> DEFINE T == {i \in 0 .. NumShards : f[i] # acc[i]}
<1>6. T = {}
  <2> SUFFICES ASSUME T # {} PROVE FALSE
    BY Zenon
  <2>1. T \subseteq Nat
    BY SMT
  <2>2. PICK i \in T : \A j \in T : i <= j
    BY <2>1, LeastOf, ZenonT(60)
  <2>a. i # 0 /\ i \in 0 .. NumShards
    BY <1>1, <1>5, <2>2, ZenonT(60)
  <2>3. i # 0 /\ i \in Shards /\ i - 1 \in 0 .. NumShards
    BY <2>a, ShardsAssumption, SMTT(30) DEF Shards
  <2>4. f[i - 1] = acc[i - 1]
    BY <2>2, <2>3, SMTT(30)
  <2> QED
    BY <1>1, <1>5, <2>2, <2>3, <2>4, ZenonT(30)
<1>7. NumShards \in 0 .. NumShards
  BY ShardsAssumption, SMTT(30)
<1> QED
  BY <1>1, <1>4, <1>6, <1>7, ZenonT(60)

\* The sum depends on the values only.
LEMMA SumSame ==
  ASSUME NEW w, NEW v, NEW x, SumsTo(w, x), \A i \in Shards : v[i] = w[i]
  PROVE  SumsTo(v, x)
BY Zenon DEF SumsTo

\* One of the values grows by one.
LEMMA SumGrows ==
  ASSUME NEW w, NEW v, NEW x \in Int, SumsTo(w, x), NEW k \in Shards, v[k] = w[k] + 1,
         \A i \in Shards : i # k => v[i] = w[i]
  PROVE  SumsTo(v, x + 1)
<1>1. PICK acc \in [0 .. NumShards -> Int] :
        /\ acc[0] = 0 /\ acc[NumShards] = x
        /\ \A i \in Shards : w[i] \in Int /\ acc[i] = acc[i - 1] + w[i]
  BY Zenon DEF SumsTo
<1> DEFINE a == [i \in 0 .. NumShards |-> IF i < k THEN acc[i] ELSE acc[i] + 1]
<1>a. 0 < k /\ ~(NumShards < k) /\ 0 \in 0 .. NumShards /\ NumShards \in 0 .. NumShards
  BY ShardsAssumption, SMTT(30) DEF Shards
<1>b. a \in [0 .. NumShards -> Int]
  BY <1>1, SMTT(30)
<1>c. a[0] = acc[0] /\ a[NumShards] = acc[NumShards] + 1
  BY <1>a, SMTT(30)
<1>2. a \in [0 .. NumShards -> Int] /\ a[0] = 0 /\ a[NumShards] = x + 1
  BY <1>1, <1>b, <1>c, ZenonT(60)
<1>3. ASSUME NEW i \in Shards PROVE v[i] \in Int /\ a[i] = a[i - 1] + v[i]
  <2>1. /\ i \in 0 .. NumShards /\ i - 1 \in 0 .. NumShards /\ k \in Int
    BY ShardsAssumption, SMTT(30) DEF Shards
  <2>2. /\ acc[i] \in Int /\ acc[i - 1] \in Int
        /\ w[i] \in Int /\ acc[i] = acc[i - 1] + w[i]
    BY <1>1, <2>1, SMTT(30)
  <2>3. CASE i < k
    BY <2>1, <2>2, <2>3, SMTT(30)
  <2>4. CASE i = k
    BY <2>1, <2>2, <2>4, SMTT(30)
  <2>5. CASE i > k
    BY <2>1, <2>2, <2>5, SMTT(30)
  <2> QED
    BY <2>1, <2>3, <2>4, <2>5, SMTT(30)
<1> HIDE DEF a
<1> QED
  BY <1>2, <1>3, Zenon DEF SumsTo

\* What was routed to every shard, applied or still in its ring.
Taken(p, q) == [i \in Shards |-> p[i] + Len(q[i])]

\* The shards have taken every message that was routed.
AllTaken ==
  /\ inbox = [i \in Shards |-> inbox[i]] /\ processed = [i \in Shards |-> processed[i]]
  /\ \A i \in Shards : inbox[i] \in Seq(MessagesOf(i)) /\ processed[i] \in Nat
  /\ SumsTo(Taken(processed, inbox), sequence)

\* One message more in the ring of one shard.
LEMMA RouteTaken ==
  ASSUME AllTaken, sequence \in Nat, sequence' = sequence + 1,
         NEW j \in Shards, NEW msg \in MessagesOf(j), route(msg)
  PROVE  AllTaken'
<1>1. msg.symbolPacked \in Symbols /\ ShardOf[msg.symbolPacked] = j
  BY MessageFits, Zenon
<1>2. inbox' = [inbox EXCEPT ![j] = Append(inbox[j], msg)] /\ processed' = processed
  BY <1>1, Zenon DEF route, shardVars
<1>3. Replaced(inbox, inbox', j, Append(inbox[j], msg))
  BY <1>2, ReplacedExcept, ZenonT(60) DEF AllTaken
<1>4. /\ inbox' = [i \in Shards |-> inbox'[i]]
      /\ inbox'[j] = Append(inbox[j], msg)
      /\ \A i \in Shards : i # j => inbox'[i] = inbox[i]
  BY <1>3, ZenonT(60) DEF Replaced
<1>5. inbox[j] \in Seq(MessagesOf(j)) /\ processed[j] \in Nat
  BY Zenon DEF AllTaken
<1>6. /\ inbox'[j] \in Seq(MessagesOf(j)) /\ Len(inbox'[j]) = Len(inbox[j]) + 1
      /\ Len(inbox[j]) \in Nat
  <2>1. /\ Append(inbox[j], msg) \in Seq(MessagesOf(j)) /\ Len(inbox[j]) \in Nat
        /\ Len(Append(inbox[j], msg)) = Len(inbox[j]) + 1
    BY <1>5, QueueAppend, ZenonT(60)
  <2> QED
    BY <1>4, <2>1, ZenonT(60)
<1> DEFINE w == Taken(processed, inbox)
           v == Taken(processed', inbox')
<1>7. v[j] = w[j] + 1
  <2>1. v[j] = processed[j] + Len(inbox'[j]) /\ w[j] = processed[j] + Len(inbox[j])
    BY <1>2, Zenon DEF Taken
  <2> DEFINE a == processed[j]
             b == Len(inbox[j])
             b1 == Len(inbox'[j])
  <2>2. a \in Nat /\ b \in Nat /\ b1 = b + 1
    BY <1>5, <1>6, Zenon
  <2>3. v[j] = a + b1 /\ w[j] = a + b
    BY <2>1, Zenon
  <2> HIDE DEF v, w, a, b, b1
  <2>4. a + b1 = (a + b) + 1
    BY <2>2, SMTT(30)
  <2> QED
    BY <2>3, <2>4, Zenon
<1>8. \A i \in Shards : i # j => v[i] = w[i]
  BY <1>2, <1>4, Zenon DEF Taken
<1>9. SumsTo(v, sequence + 1)
  <2>1. SumsTo(w, sequence) /\ sequence \in Int
    BY SMT DEF AllTaken
  <2> HIDE DEF v, w
  <2> QED
    BY <1>7, <1>8, <2>1, SumGrows, ZenonT(60)
<1> QED
  BY <1>2, <1>4, <1>6, <1>9, ZenonT(60) DEF AllTaken

\* A message applied is still one that the shard has taken.
LEMMA PopTaken ==
  ASSUME AllTaken, NEW j \in Shards, popMessage(j)
  PROVE  AllTaken'
<1>1. /\ inbox[j] # <<>> /\ sequence' = sequence
      /\ inbox' = [inbox EXCEPT ![j] = Tail(inbox[j])]
      /\ processed' = [processed EXCEPT ![j] = processed[j] + 1]
  BY Zenon DEF popMessage, gatewayVars
<1>2. Replaced(inbox, inbox', j, Tail(inbox[j]))
  BY <1>1, ReplacedExcept, ZenonT(60) DEF AllTaken
<1>3. /\ inbox' = [i \in Shards |-> inbox'[i]] /\ inbox'[j] = Tail(inbox[j])
      /\ \A i \in Shards : i # j => inbox'[i] = inbox[i]
  BY <1>2, ZenonT(60) DEF Replaced
<1>4. Replaced(processed, processed', j, processed[j] + 1)
  BY <1>1, ReplacedExcept, ZenonT(60) DEF AllTaken
<1>5. /\ processed' = [i \in Shards |-> processed'[i]] /\ processed'[j] = processed[j] + 1
      /\ \A i \in Shards : i # j => processed'[i] = processed[i]
  BY <1>4, Zenon DEF Replaced
<1>6. inbox[j] \in Seq(MessagesOf(j)) /\ processed[j] \in Nat
  BY Zenon DEF AllTaken
<1>7. /\ inbox'[j] \in Seq(MessagesOf(j)) /\ Len(inbox'[j]) = Len(inbox[j]) - 1
      /\ Len(inbox[j]) \in Nat
  BY <1>1, <1>3, <1>6, QueueTail, ZenonT(60)
<1>8. processed'[j] \in Nat /\ processed'[j] + Len(inbox'[j]) = processed[j] + Len(inbox[j])
  <2> DEFINE a == processed[j]  a1 == processed'[j]  b == Len(inbox[j])  b1 == Len(inbox'[j])
  <2>a. processed'[j] = processed[j] + 1
    BY <1>5, ZenonT(60)
  <2>1. a \in Nat /\ b \in Nat /\ a1 = a + 1 /\ b1 = b - 1
    BY <1>6, <1>7, <2>a, SMTT(30)
  <2> HIDE DEF a, a1, b, b1
  <2>2. a1 \in Nat /\ a1 + b1 = a + b
    BY <2>1, SMTT(30)
  <2> QED
    BY <2>2, ZenonT(60) DEF a, a1, b, b1
<1>9. \A i \in Shards : Taken(processed', inbox')[i] = Taken(processed, inbox)[i]
  BY <1>3, <1>5, <1>8, ZenonT(60) DEF Taken
<1> DEFINE w == Taken(processed, inbox)
           v == Taken(processed', inbox')
<1>10. SumsTo(v, sequence')
  <2>1. SumsTo(w, sequence) /\ \A i \in Shards : v[i] = w[i]
    BY <1>9, ZenonT(60) DEF AllTaken
  <2> HIDE DEF v, w
  <2> QED
    BY <1>1, <2>1, SumSame, ZenonT(60)
<1> QED
  BY <1>3, <1>5, <1>7, <1>8, <1>10, ZenonT(60) DEF AllTaken

\* Every message that is routed goes into the ring of a shard.
LEMMA StepTaken ==
  ASSUME AllTaken, Ids, [Next]_vars
  PROVE  AllTaken' /\ Ids'
<1>1. CASE UNCHANGED <<inbox, processed, sequence, symbolOf>>
  BY <1>1, ZenonT(60) DEF AllTaken, Ids
<1>2. start \/ stop \/ join \/ UNCHANGED vars => UNCHANGED <<inbox, processed, sequence, symbolOf>>
  BY Zenon DEF start, stop, join, vars, gatewayVars, shardVars
<1>3. ASSUME NEW symbol \in Symbols, NEW side \in {"BUY", "SELL"}, NEW qty \in AddQuantities,
             routeAdd(symbol, side, qty)
      PROVE  AllTaken' /\ Ids'
  <2> DEFINE msg == Message("ADD", sequence + 1, symbol, side, qty)
  <2>1. route(msg) /\ sequence' = sequence + 1 /\ symbolOf' = Append(symbolOf, symbol)
    BY <1>3, ZenonT(60) DEF routeAdd, NextSequence
  <2>2. sequence \in Nat /\ sequence + 1 \in Nat
    BY SMTT(30) DEF Ids
  <2>qty. qty \in Quantities /\ "ADD" \in {"ADD", "CANCEL", "MODIFY"}
    BY <1>3, Zenon DEF Quantities
  <2>3. msg \in MessagesOf(ShardOf[symbol]) /\ ShardOf[symbol] \in Shards
    BY <2>2, <2>qty, RoutedMessage, ZenonT(60)
  <2> HIDE DEF msg
  <2>4. AllTaken'
    BY <2>1, <2>2, <2>3, RouteTaken, ZenonT(60)
  <2>5. Ids'
    BY <2>1, SMTT(30) DEF Ids
  <2> QED
    BY <2>4, <2>5, ZenonT(60)
<1>4. ASSUME NEW msgType \in {"CANCEL", "MODIFY"}, NEW id \in 1 .. sequence,
             NEW qty \in Quantities, routeChange(msgType, id, qty)
      PROVE  AllTaken' /\ Ids'
  <2> DEFINE symbol == IF AssignSymbols THEN symbolOf[id] ELSE 0
             msg == Message(msgType, id, symbol, "BUY", qty)
  <2>1. route(msg) /\ sequence' = sequence + 1 /\ symbolOf' = Append(symbolOf, 0)
    BY <1>4, Zenon DEF routeChange, NextSequence
  <2>2. sequence \in Nat /\ id \in Nat /\ symbolOf[id] \in Symbols /\ 0 \in Symbols
    BY ShardsAssumption, SMTT(30) DEF Ids
  <2>3. symbol \in Symbols
    BY <2>2, Zenon
  <2>4. msgType \in {"ADD", "CANCEL", "MODIFY"} /\ "BUY" \in {"BUY", "SELL"}
    BY Zenon
  <2> HIDE DEF symbol
  <2>5. msg \in MessagesOf(ShardOf[symbol]) /\ ShardOf[symbol] \in Shards
    BY <2>2, <2>3, <2>4, RoutedMessage, ZenonT(60)
  <2> HIDE DEF msg
  <2>6. AllTaken'
    BY <2>1, <2>2, <2>5, RouteTaken, ZenonT(60)
  <2>7. Ids'
    BY <2>1, <2>2, SMTT(30) DEF Ids
  <2> QED
    BY <2>6, <2>7, ZenonT(60)
<1>5. ASSUME NEW i \in Shards, workerLoop(i)
      PROVE  AllTaken' /\ Ids'
  <2>1. CASE popMessage(i)
    <3>1. Ids'
      BY <2>1, ZenonT(60) DEF popMessage, gatewayVars, Ids
    <3> QED
      BY <2>1, <3>1, PopTaken, ZenonT(60)
  <2>2. CASE loopTest(i) \/ popNothing(i)
    <3>1. UNCHANGED <<inbox, processed, sequence, symbolOf>>
      BY <2>2, Zenon DEF loopTest, popNothing, gatewayVars, shardVars
    <3> QED
      BY <1>1, <3>1, ZenonT(60)
  <2> QED
    BY <1>5, <2>1, <2>2, ZenonT(60) DEF workerLoop
<1> QED
  BY <1>1, <1>2, <1>3, <1>4, <1>5, NextIs, ZenonT(60)

\* A worker leaves its loops only inside stop(), with an empty ring into which
\* nothing is routed any more.
Exits ==
  /\ gpc \in {"run", "join"}
  /\ gpc = "run" /\ ~m_running => \A i \in Shards : wpc[i] = "none"
  /\ \A i \in Shards : wpc[i] \in {"drain", "exited"} => gpc = "join"
  /\ \A i \in Shards : wpc[i] = "exited" => inbox[i] = <<>>

\* A step of the worker of shard i, seen by the others.
LEMMA WorkerMoves ==
  ASSUME Served, NEW i \in Shards, workerLoop(i)
  PROVE  /\ \A k \in Shards : k # i => wpc'[k] = wpc[k]
         /\ m_running' = m_running /\ gpc' = gpc
<1>1. /\ m_running' = m_running /\ gpc' = gpc
      /\ \E place : wpc' = [wpc EXCEPT ![i] = place]
  BY Zenon DEF workerLoop, loopTest, popMessage, popNothing, gatewayVars
<1>2. PICK place : wpc' = [wpc EXCEPT ![i] = place]
  BY <1>1, ZenonT(60)
<1>3. Replaced(wpc, wpc', i, place)
  BY <1>2, ReplacedExcept, ZenonT(60) DEF Served
<1> QED
  BY <1>1, <1>3, ZenonT(60) DEF Replaced

\* Where a step of the worker of shard i takes it.
LEMMA WorkerGoes ==
  ASSUME Served, Exits, AllTaken, NEW i \in Shards, workerLoop(i)
  PROVE  /\ wpc[i] \in {"loop", "pop", "drain"}
         /\ wpc'[i] \in {"drain", "exited"} => gpc = "join"
         /\ wpc'[i] = "exited" => inbox'[i] = <<>>
         /\ \A k \in Shards : k # i => inbox'[k] = inbox[k]
<1>1. wpc[i] = "loop" => (stopFlag[i] => gpc = "join")
  BY Zenon DEF Served, Exits
<1>2. CASE loopTest(i)
  <2> DEFINE place == IF stopFlag[i] /\ inbox[i] = <<>> THEN "drain" ELSE "pop"
  <2>1. wpc[i] = "loop" /\ wpc' = [wpc EXCEPT ![i] = place] /\ inbox' = inbox
    BY <1>2, ZenonT(60) DEF loopTest
  <2>2. Replaced(wpc, wpc', i, place)
    BY <2>1, ReplacedExcept, ZenonT(60) DEF Served
  <2>3. wpc'[i] = place
    BY <2>2, ZenonT(60) DEF Replaced
  <2>4. wpc[i] = "loop" /\ inbox' = inbox
    BY <2>1, ZenonT(60)
  <2>5. wpc'[i] = "pop" \/ (wpc'[i] = "drain" /\ stopFlag[i])
    BY <2>3, ZenonT(60)
  <2> QED
    BY <1>1, <2>4, <2>5, ZenonT(60)
<1>3. CASE popMessage(i)
  <2> DEFINE place == IF wpc[i] = "pop" THEN "loop" ELSE "drain"
  <2>1. /\ wpc[i] \in {"pop", "drain"} /\ wpc' = [wpc EXCEPT ![i] = place]
        /\ inbox' = [inbox EXCEPT ![i] = Tail(inbox[i])]
    BY <1>3, ZenonT(60) DEF popMessage
  <2>2. Replaced(wpc, wpc', i, place)
    BY <2>1, ReplacedExcept, ZenonT(60) DEF Served
  <2>3. wpc'[i] = place
    BY <2>2, ZenonT(60) DEF Replaced
  <2>4. Replaced(inbox, inbox', i, Tail(inbox[i]))
    BY <2>1, ReplacedExcept, ZenonT(60) DEF AllTaken
  <2>5. \A k \in Shards : k # i => inbox'[k] = inbox[k]
    BY <2>4, ZenonT(60) DEF Replaced
  <2>6. wpc[i] \in {"pop", "drain"}
    BY <2>1, ZenonT(60)
  <2>7. wpc'[i] = "loop" \/ (wpc'[i] = "drain" /\ wpc[i] = "drain")
    BY <2>3, <2>6, ZenonT(60)
  <2>8. wpc[i] = "drain" => gpc = "join"
    BY ZenonT(60) DEF Exits
  <2> QED
    BY <2>5, <2>6, <2>7, <2>8, ZenonT(60)
<1>4. CASE popNothing(i)
  <2> DEFINE place == IF wpc[i] = "pop" THEN "loop" ELSE "exited"
  <2>1. /\ wpc[i] = "pop" \/ (wpc[i] = "drain" /\ inbox[i] = <<>>)
        /\ wpc' = [wpc EXCEPT ![i] = place] /\ inbox' = inbox
    BY <1>4, ZenonT(60) DEF popNothing
  <2>2. Replaced(wpc, wpc', i, place)
    BY <2>1, ReplacedExcept, ZenonT(60) DEF Served
  <2>3. wpc'[i] = place
    BY <2>2, ZenonT(60) DEF Replaced
  <2>4. inbox' = inbox /\ (wpc[i] = "pop" \/ (wpc[i] = "drain" /\ inbox[i] = <<>>))
    BY <2>1, ZenonT(60)
  <2>5. wpc'[i] = "loop" \/ (wpc'[i] = "exited" /\ wpc[i] = "drain")
    BY <2>3, <2>4, ZenonT(60)
  <2>6. wpc[i] = "drain" => gpc = "join"
    BY Zenon DEF Exits
  <2> QED
    BY <2>4, <2>5, <2>6, ZenonT(60)
<1> QED
  BY <1>2, <1>3, <1>4, ZenonT(60) DEF workerLoop

\* Every step keeps what Exits says.
LEMMA StepExits ==
  ASSUME Served, Exits, AllTaken, [Next]_vars
  PROVE  Exits'
<1>1. CASE start
  <2>1. m_running' = TRUE /\ gpc' = gpc /\ gpc = "run" /\ wpc' = [i \in Shards |-> "loop"]
    BY <1>1, ZenonT(60) DEF start
  <2> QED
    BY <2>1, ZenonT(60) DEF Exits
<1>2. CASE stop
  <2>1. gpc' = "join" /\ wpc' = wpc /\ inbox' = inbox
    BY <1>2, ZenonT(60) DEF stop, workerVars
  <2> QED
    BY <2>1, ZenonT(60) DEF Exits
<1>3. CASE join
  <2>1. gpc' = "run" /\ wpc' = [i \in Shards |-> "none"]
    BY <1>3, ZenonT(60) DEF join
  <2> QED
    BY <2>1, ZenonT(60) DEF Exits
<1>4. ASSUME NEW msg, route(msg) PROVE Exits'
  <2>1. gpc = "run" /\ m_running' = m_running /\ gpc' = gpc /\ wpc' = wpc
    BY <1>4, ZenonT(60) DEF route, workerVars
  <2>2. \A i \in Shards : wpc[i] \notin {"drain", "exited"}
    BY <2>1, ZenonT(60) DEF Exits
  <2> QED
    BY <2>1, <2>2, ZenonT(60) DEF Exits
<1>5. ASSUME NEW i \in Shards, workerLoop(i) PROVE Exits'
  <2>1. /\ \A k \in Shards : k # i => wpc'[k] = wpc[k] /\ inbox'[k] = inbox[k]
        /\ m_running' = m_running /\ gpc' = gpc
        /\ wpc[i] \in {"loop", "pop", "drain"}
        /\ wpc'[i] \in {"drain", "exited"} => gpc = "join"
        /\ wpc'[i] = "exited" => inbox'[i] = <<>>
    BY <1>5, WorkerMoves, WorkerGoes, ZenonT(60)
  <2>2. ~(gpc = "run" /\ ~m_running)
    BY <2>1, ZenonT(60) DEF Exits
  <2> QED
    BY <2>1, <2>2, ZenonT(60) DEF Exits
<1>6. CASE UNCHANGED vars
  <2>1. m_running' = m_running /\ gpc' = gpc /\ wpc' = wpc /\ inbox' = inbox
    BY <1>6, ZenonT(60) DEF vars, gatewayVars, workerVars
  <2> QED
    BY <2>1, ZenonT(60) DEF Exits
<1> QED
  BY <1>1, <1>2, <1>3, <1>4, <1>5, <1>6, ZenonT(60) DEF Next, routeAdd, routeChange

\* stop() drains: when it returns, the loop of totalProcessed gives the number
\* of messages that were routed, for every number of shards, whatever the
\* workers had left in the rings when stop() was called, and through restarts
\* (stop, workerLoop, totalProcessed).
THEOREM StopsDrained == Spec => StopDrains
<1> DEFINE Inv == Served /\ Exits /\ AllTaken /\ Ids
<1>1. Init => Inv
  <2> SUFFICES ASSUME Init PROVE Inv
    BY Zenon
  <2>1. /\ \A i \in Shards : inbox[i] = <<>> /\ processed[i] = 0 /\ wpc[i] = "none"
        /\ gpc = "run" /\ sequence = 0
    BY ZenonT(60) DEF Init
  <2>2. inbox = [i \in Shards |-> inbox[i]] /\ processed = [i \in Shards |-> processed[i]]
    BY Zenon DEF Init
  <2>3. <<>> \in Seq({}) /\ Len(<<>>) = 0 /\ 0 \in Nat /\ 0 + 0 = 0 /\ \A S : <<>> \in Seq(S)
    BY SMTT(30)
  <2>4. \A i \in Shards : Taken(processed, inbox)[i] = 0
    BY <2>1, <2>3, SMTT(30) DEF Taken
  <2>5. SumsTo([i \in Shards |-> 0], 0)
    <3> DEFINE acc == [i \in 0 .. NumShards |-> 0]
    <3>1. acc \in [0 .. NumShards -> Int] /\ acc[0] = 0 /\ acc[NumShards] = 0
      BY ShardsAssumption, SMTT(30)
    <3>2. \A i \in Shards : [k \in Shards |-> 0][i] \in Int /\ acc[i] = acc[i - 1] + [k \in Shards |-> 0][i]
      BY ShardsAssumption, SMTT(30) DEF Shards
    <3> HIDE DEF acc
    <3> QED
      BY <3>1, <3>2, ZenonT(60) DEF SumsTo
  <2>6. SumsTo(Taken(processed, inbox), sequence)
    <3> DEFINE w == [i \in Shards |-> 0]
               v == Taken(processed, inbox)
    <3>1. SumsTo(w, 0) /\ \A i \in Shards : v[i] = w[i]
      BY <2>4, <2>5, ZenonT(60)
    <3> HIDE DEF w, v
    <3>2. SumsTo(v, 0)
      BY <3>1, SumSame, ZenonT(60)
    <3> QED
      BY <2>1, <3>2, ZenonT(60) DEF v
  <2>7. AllTaken
    BY <2>1, <2>2, <2>3, <2>6, ZenonT(60) DEF AllTaken
  <2>8. Exits
    BY <2>1, ZenonT(60) DEF Exits
  <2> QED
    BY <2>7, <2>8, InitAhead, InitServed, ZenonT(60)
<1>2. Inv /\ [Next]_vars => Inv'
  BY StepServed, StepExits, StepTaken, ZenonT(60)
<1>3. Inv /\ [Next]_vars => [gpc = "join" /\ gpc' = "run" => totalProcessed = sequence]_vars
  <2> SUFFICES ASSUME Inv, Next, gpc = "join", gpc' = "run"
               PROVE  totalProcessed = sequence
    BY ZenonT(60)
  <2>1. "join" # "run"
    BY ZenonT(60)
  <2>2. join
    BY <2>1, ZenonT(60) DEF Next, start, stop, routeAdd, routeChange, route, workerLoop, loopTest,
       popMessage, popNothing, gatewayVars
  <2>3. \A i \in Shards : inbox[i] = <<>>
    BY <2>2, ZenonT(60) DEF join, Exits
  <2>4. Len(<<>>) = 0 /\ \A i \in Shards : processed[i] + 0 = processed[i]
    BY SMTT(30) DEF AllTaken
  <2>5. \A i \in Shards : processed[i] = Taken(processed, inbox)[i]
    BY <2>3, <2>4, ZenonT(60) DEF Taken
  <2> DEFINE w == Taken(processed, inbox)
  <2>6. SumsTo(w, sequence) /\ \A i \in Shards : processed[i] = w[i]
    BY <2>5, ZenonT(60) DEF AllTaken
  <2> HIDE DEF w
  <2>7. SumsTo(processed, sequence)
    BY <2>6, SumSame, ZenonT(60)
  <2> QED
    BY <2>7, TotalIs, ZenonT(60)
<1> HIDE DEF Inv
<1> QED
  BY <1>1, <1>2, <1>3, PTL DEF Spec, StopDrains
=============================================================================
