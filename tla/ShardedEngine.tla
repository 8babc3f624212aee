--------------------------- MODULE ShardedEngine ---------------------------
(***************************************************************************)
(* Symbol-partitioned matching (matching/ShardedEngine.h): the gateway     *)
(* thread routes messages by symbol into the rings of the shards, whose    *)
(* workers apply them to one engine per symbol.  An engine is the book of  *)
(* ReferenceMatcher, to which the runs of Replay show MatchingEngine       *)
(* equivalent; the ids of a feed are distinct, as those of FeedGenerator.  *)
(* A ring is the bounded queue that SPSCRing implements, and a pop may     *)
(* miss a value that was just pushed unless the worker has read stopFlag.  *)
(* serial is what one thread that applies every message to the book of its *)
(* order's symbol would compute, with the pool of the symbol's shard.  For *)
(* a feed with assigned symbols that is the loop of runBaseline            *)
(* (bench/sharded_throughput.cpp), which picks the book by the symbol of   *)
(* the message; without them the message may name another book.            *)
(***************************************************************************)
EXTENDS Integers, Sequences, SequencesExt, ReferenceMatcher

CONSTANTS
  NumShards,
  Symbols,         \* symbolPacked of the orders; 0 is the unset symbol
  ShardOf,         \* shardIndex: the shard of every symbol
  RingCapacity, PoolCapacity,
  AddQuantities,   \* bound: quantities of ADDs and of MODIFYs; 0 makes a
  ModifyQuantities,\* message invalid
  MaxMessages,     \* bound: messages of a feed
  AssignSymbols    \* whether CANCEL and MODIFY were given the symbol of their
                   \* ADD (assignSymbols of the benchmark) or have symbol 0

VARIABLES
  m_running,
  gpc,        \* the gateway: "run" or "join" (inside stop)
  inbox, engines, fills, processed, stopFlag,
  wpc,        \* the workers: "none" without a thread, else the place in workerLoop
  sawStop,    \* whether the loop test read stopFlag as true
  sequence,   \* messages routed so far, and their sequence numbers
  symbolOf,   \* symbol of every order id
  serial, serialFills

gatewayVars == <<m_running, gpc, sequence, symbolOf, serial, serialFills>>
workerVars == <<wpc, sawStop>>
shardVars == <<engines, fills, processed>>
vars == <<gatewayVars, workerVars, shardVars, inbox, stopFlag>>

Shards == 1 .. NumShards

ASSUME ShardsAssumption ==
  NumShards \in Nat /\ 0 \in Symbols /\ ShardOf \in [Symbols -> Shards]

Init ==
  /\ m_running = FALSE /\ gpc = "run"
  /\ inbox = [i \in Shards |-> <<>>]
  /\ engines = [i \in Shards |-> [s \in Symbols |-> <<>>]]
  /\ fills = [i \in Shards |-> <<>>] /\ processed = [i \in Shards |-> 0]
  /\ stopFlag = [i \in Shards |-> FALSE]
  /\ wpc = [i \in Shards |-> "none"] /\ sawStop = [i \in Shards |-> FALSE]
  /\ sequence = 0 /\ symbolOf = <<>>
  /\ serial = [s \in Symbols |-> <<>>] /\ serialFills = <<>>

\* The fills of a message, stamped with its sequence number.
Stamped(msg, made) == [k \in DOMAIN made |-> [trade |-> made[k], timestamp |-> msg.sequence]]

-----------------------------------------------------------------------------
(* The gateway *)

start_mutKeepsFlag ==
  /\ gpc = "run" /\ ~m_running
  /\ m_running' = TRUE
  /\ wpc' = [i \in Shards |-> "loop"]
  /\ UNCHANGED <<gpc, sequence, symbolOf, serial, serialFills, sawStop, shardVars, inbox, stopFlag>>

start ==
  /\ gpc = "run" /\ ~m_running
  /\ m_running' = TRUE
  /\ stopFlag' = [i \in Shards |-> FALSE]
  /\ wpc' = [i \in Shards |-> "loop"]
  /\ UNCHANGED <<gpc, sequence, symbolOf, serial, serialFills, sawStop, shardVars, inbox>>

stop ==
  /\ gpc = "run" /\ m_running
  /\ stopFlag' = [i \in Shards |-> TRUE]
  /\ gpc' = "join"
  /\ UNCHANGED <<m_running, sequence, symbolOf, serial, serialFills, workerVars, shardVars, inbox>>

join_mutNoWait ==
  /\ gpc = "join"
  /\ wpc' = [i \in Shards |-> "none"] /\ m_running' = FALSE
  /\ gpc' = "run"
  /\ UNCHANGED <<sequence, symbolOf, serial, serialFills, sawStop, shardVars, inbox, stopFlag>>

join ==
  /\ gpc = "join" /\ \A i \in Shards : wpc[i] = "exited"
  /\ wpc' = [i \in Shards |-> "none"] /\ m_running' = FALSE
  /\ gpc' = "run"
  /\ UNCHANGED <<sequence, symbolOf, serial, serialFills, sawStop, shardVars, inbox, stopFlag>>

\* A push that a full ring refuses changes nothing and the gateway tries again.
route(msg) ==
  /\ gpc = "run"
  /\ Len(inbox[ShardOf[msg.symbolPacked]]) < RingCapacity
  /\ inbox' = [inbox EXCEPT ![ShardOf[msg.symbolPacked]] = Append(@, msg)]
  /\ UNCHANGED <<m_running, gpc, workerVars, shardVars, stopFlag>>

Total(f) == FoldFunction(+, 0, f)

\* What isValidFeedMessage asks of the fields in which the messages differ.
isValidFeedMessage(msg) == msg.msgType = "CANCEL" \/ msg.qty # 0

\* Slots of the pool of shard i that the orders of `books' take.
InUse(i, books) ==
  Total([s \in Symbols |-> IF ShardOf[s] = i THEN Len(books[s]) ELSE 0])

\* The early returns: an invalid message, and an ADD that finds no slot.
Refused(i, books, msg) ==
  \/ ~isValidFeedMessage(msg)
  \/ msg.msgType = "ADD" /\ InUse(i, books) = PoolCapacity

\* The one-threaded run applies the message to the order's own book: the one
\* of msg.symbolPacked when AssignSymbols holds.
RunSerially(msg, symbol) ==
  LET r == apply(serial[symbol], msg)
  IN IF Refused(ShardOf[symbol], serial, msg)
     THEN UNCHANGED <<serial, serialFills>>
     ELSE /\ serial' = [serial EXCEPT ![symbol] = r.book]
          /\ serialFills' = serialFills \o Stamped(msg, r.fills)

NextSequence == sequence < MaxMessages /\ sequence' = sequence + 1

Message(msgType, id, symbol, side, qty) ==
  [msgType |-> msgType, orderId |-> id, symbolPacked |-> symbol, side |-> side,
   orderType |-> "LIMIT", price |-> 1, qty |-> qty, sequence |-> sequence + 1]

\* makeAdd: the ids of a feed are distinct.
routeAdd(symbol, side, qty) ==
  LET msg == Message("ADD", sequence + 1, symbol, side, qty)
  IN /\ NextSequence
     /\ symbolOf' = Append(symbolOf, symbol)
     /\ route(msg)
     /\ RunSerially(msg, symbol)

\* makeCancel, makeModify leave symbolPacked 0; assignSymbols copies the one
\* of the ADD.
routeChange(msgType, id, qty) ==
  LET msg == Message(msgType, id, IF AssignSymbols THEN symbolOf[id] ELSE 0, "BUY", qty)
  IN /\ NextSequence
     /\ symbolOf' = Append(symbolOf, 0)
     /\ route(msg)
     /\ RunSerially(msg, symbolOf[id])

-----------------------------------------------------------------------------
(* The workers *)

engineKey_mutOnePerShard(symbol) == 0

\* getEngine: the engine of a symbol in the map of the shard.
engineKey(symbol) == symbol

applyMessage(i, msg) ==
  LET key == engineKey(msg.symbolPacked)
      r == apply(engines[i][key], msg)
  IN IF Refused(i, engines[i], msg)
     THEN UNCHANGED <<engines, fills>>
     ELSE /\ engines' = [engines EXCEPT ![i][key] = r.book]
          /\ fills' = [fills EXCEPT ![i] = @ \o Stamped(msg, r.fills)]

loopTest(i) ==
  /\ wpc[i] = "loop"
  /\ sawStop' = [sawStop EXCEPT ![i] = stopFlag[i]]
  /\ wpc' = [wpc EXCEPT ![i] = IF stopFlag[i] /\ inbox[i] = <<>> THEN "drain" ELSE "pop"]
  /\ UNCHANGED <<gatewayVars, shardVars, inbox, stopFlag>>

popMessage(i) ==
  /\ wpc[i] \in {"pop", "drain"} /\ inbox[i] # <<>>
  /\ applyMessage(i, Head(inbox[i]))
  /\ inbox' = [inbox EXCEPT ![i] = Tail(@)]
  /\ processed' = [processed EXCEPT ![i] = @ + 1]
  /\ wpc' = [wpc EXCEPT ![i] = IF @ = "pop" THEN "loop" ELSE "drain"]
  /\ UNCHANGED <<gatewayVars, sawStop, stopFlag>>

popNothing(i) ==
  /\ \/ wpc[i] = "pop" /\ (inbox[i] = <<>> \/ ~sawStop[i])
     \/ wpc[i] = "drain" /\ inbox[i] = <<>>
  /\ wpc' = [wpc EXCEPT ![i] = IF @ = "pop" THEN "loop" ELSE "exited"]
  /\ UNCHANGED <<gatewayVars, sawStop, shardVars, inbox, stopFlag>>

workerLoop(i) == loopTest(i) \/ popMessage(i) \/ popNothing(i)

-----------------------------------------------------------------------------
totalProcessed ==
  LET total[i \in 0 .. NumShards] == IF i = 0 THEN 0 ELSE total[i - 1] + processed[i]
  IN total[NumShards]

collectAllFills_mutUnsorted == FlattenSeq(fills)

\* The fills of all shards, stably sorted by timestamp.
collectAllFills ==
  LET all == FlattenSeq(fills)
      order == SetToSortSeq(DOMAIN all,
                 LAMBDA j, k : \/ all[j].timestamp < all[k].timestamp
                               \/ all[j].timestamp = all[k].timestamp /\ j < k)
  IN [k \in DOMAIN all |-> all[order[k]]]

-----------------------------------------------------------------------------
Next ==
  \/ start \/ stop \/ join
  \/ \E symbol \in Symbols, side \in {"BUY", "SELL"}, qty \in AddQuantities :
       routeAdd(symbol, side, qty)
  \/ \E id \in 1 .. sequence : routeChange("CANCEL", id, 0)
  \/ \E id \in 1 .. sequence, qty \in ModifyQuantities : routeChange("MODIFY", id, qty)
  \/ \E i \in Shards : workerLoop(i)

Spec == Init /\ [][Next]_vars

-----------------------------------------------------------------------------
(* Properties *)

\* A shard with an empty inbox holds, for each of its symbols, the book that
\* one thread would have: interleaving, restarts and neighbours on the shard
\* do not show, not even in which ADDs an exhausted pool refuses (route,
\* workerLoop, getEngine, applyMessage).
BooksAreSerial ==
  \A i \in Shards : inbox[i] = <<>> =>
    \A s \in Symbols : ShardOf[s] = i => engines[i][s] = serial[s]

\* When the rings are empty, collectAllFills() is the fill sequence of the
\* one-threaded run, in its order (collectAllFills).
CollectIsSerial ==
  (\A i \in Shards : inbox[i] = <<>>) => collectAllFills = serialFills

\* stop() "drains remaining messages": when it returns totalProcessed() is the
\* number of routed messages (stop, workerLoop).
StopDrains == [][gpc = "join" /\ gpc' = "run" => totalProcessed = sequence]_vars

\* From start() to stop() every ring has a worker in its loop, also after a
\* restart that finds the flags of the last stop (start, workerLoop).
RingsAreServed ==
  m_running /\ gpc = "run" => \A i \in Shards : wpc[i] \in {"loop", "pop"}
=============================================================================
