------------------------------- MODULE Replay -------------------------------
(***************************************************************************)
(* ReplayEngine (src/ReplayEngine.cpp) in NORMAL mode over the engine and  *)
(* the reference matcher of Differential: the counters of ReplayStats that *)
(* depend on what a message meets, and the trackers sampled after every    *)
(* message (analytics/*.h).  A step of Differential that ends a message is *)
(* taken together with the tail of applyMessage and the sampling.  The     *)
(* floating-point means of RunningStats are left out: a tracker keeps its  *)
(* last sample.                                                            *)
(***************************************************************************)
EXTENDS Differential, SequencesExt

CONSTANTS
  Window     \* window of the FillRateTracker

ASSUME WindowAssumption == Window \in Nat \ {0}

VARIABLES
  msgType,    \* type of the message in the match loop, or "none"
  stats,      \* ReplayStats
  fillRate,   \* FillRateTracker
  sampled,    \* last samples of SpreadTracker, QueueDepthTracker, ImbalanceTracker
  ledger      \* what the reference makes of the same messages

replayVars == <<diffVars, msgType, stats, fillRate, sampled, ledger>>

-----------------------------------------------------------------------------
(* Messages *)

isValidFeedMessage(m) ==
  /\ m.msgType \in {"ADD", "CANCEL", "MODIFY"}
  /\ m.orderId # 0
  /\ m.msgType = "ADD" => /\ m.side \in Sides /\ m.orderType \in OrderTypes
                          /\ m.qty # 0
                          /\ m.orderType = "MARKET" \/ m.price # 0
  /\ m.msgType = "MODIFY" => m.price # 0 /\ m.qty # 0

\* Types of the messages that a feed may hold and that are not valid.
InvalidTypes ==
  LET M == [msgType : {"ADD", "CANCEL", "MODIFY", "other"}, orderId : {0, 1},
            side : Sides \cup {"other"}, orderType : OrderTypes \cup {"other"},
            price : {0, 1}, qty : {0, 1}]
  IN {m.msgType : m \in {n \in M : ~isValidFeedMessage(n)}}

-----------------------------------------------------------------------------
(* Analytics *)

NewFillRate ==
  [ring |-> [i \in 0 .. Window - 1 |-> 0], head |-> 0, count |-> 0,
   windowFilled |-> 0, totalOrders |-> 0, totalFilled |-> 0]

\* The outcome of one order replaces the oldest one in the ring.
onOrder(fr, filled) ==
  LET v == IF filled THEN 1 ELSE 0
  IN [ring |-> [fr.ring EXCEPT ![fr.head] = v], head |-> (fr.head + 1) % Window,
      count |-> IF fr.count < Window THEN fr.count + 1 ELSE fr.count,
      windowFilled |-> fr.windowFilled - fr.ring[fr.head] + v,
      totalOrders |-> fr.totalOrders + 1, totalFilled |-> fr.totalFilled + v]

getSpread(lvs) ==
  LET bid == getBestBid(lvs)
      ask == getBestAsk(lvs)
  IN IF bid > 0 /\ ask > 0 /\ ask >= bid THEN ask - bid ELSE 0

getBestQty(lvs, side) ==
  LET best == IF side = "BUY" THEN getBestBid(lvs) ELSE getBestAsk(lvs)
  IN IF best = 0 THEN 0 ELSE lvs[side][best].totalQty

NoSample == [spread |-> 0, depth |-> <<0, 0>>, imbalance |-> <<0, 1>>]

\* The three update(book).  A one-sided book gives no spread, an empty one no
\* imbalance: these keep their last value.  The imbalance is a quotient.
spread_update(last, lvs) ==
  IF getBestBid(lvs) # 0 /\ getBestAsk(lvs) # 0 THEN getSpread(lvs) ELSE last

queueDepth_update(lvs) == <<getBestQty(lvs, "BUY"), getBestQty(lvs, "SELL")>>

imbalance_update(last, lvs) ==
  LET b == getBestQty(lvs, "BUY")
      a == getBestQty(lvs, "SELL")
  IN IF b + a = 0 THEN last ELSE <<b - a, b + a>>

-----------------------------------------------------------------------------
(* The replay loop *)

Volume(fills) == FoldSeq(LAMBDA f, v : f.qty + v, 0, fills)

NewStats == [cancelMisses |-> 0, invalidMessages |-> 0, droppedAdds |-> 0,
             fills |-> 0, matchedVolume |-> 0]

\* The tail of applyMessage, once the engine's fills are drained.
CountFills(st) ==
  [st EXCEPT !.fills = @ + Len(drained'), !.matchedVolume = @ + Volume(drained')]

\* What run does after a message that made n fills.
Sample(type, n) ==
  /\ msgType' = "none"
  /\ sampled' = [spread |-> spread_update(sampled.spread, levels'),
                 depth |-> queueDepth_update(levels'),
                 imbalance |-> imbalance_update(sampled.imbalance, levels')]
  /\ fillRate' = IF type = "ADD" THEN onOrder(fillRate, n > 0) ELSE fillRate

\* A message counted in st stays in the match loop or ends.
Proceed(type, st) ==
  IF incoming' = NoSlot
  THEN stats' = CountFills(st) /\ Sample(type, Len(drained'))
  ELSE stats' = st /\ msgType' = type /\ UNCHANGED <<sampled, fillRate>>

CountMiss(id) ==
  IF containsOrder(orderMap, id) THEN stats ELSE [stats EXCEPT !.cancelMisses = @ + 1]

\* The reference's account of a message with its fills refFills'.
Record(type, id, fills) ==
  ledger' = [misses |-> IF type # "ADD" /\ Ref!FindOrder(refBook, id) = 0
                        THEN ledger.misses + 1 ELSE ledger.misses,
             fills |-> ledger.fills + Len(fills),
             volume |-> ledger.volume + Volume(fills),
             outcomes |-> IF type = "ADD" THEN Append(ledger.outcomes, fills # <<>>)
                                          ELSE ledger.outcomes]

ReplayInit ==
  /\ DiffInit
  /\ msgType = "none"
  /\ stats = NewStats
  /\ fillRate = NewFillRate
  /\ sampled = NoSample
  /\ ledger = [misses |-> 0, fills |-> 0, volume |-> 0, outcomes |-> <<>>]

ReplayAdd(id, side, type, price, qty) ==
  /\ DiffAdd(id, side, type, price, qty)
  /\ Proceed("ADD", stats)
  /\ Record("ADD", id, refFills')

\* A dropped ADD is an order without a fill to the fill rate.
ReplayDrop ==
  /\ DiffDrop
  /\ stats' = [stats EXCEPT !.droppedAdds = @ + 1]
  /\ Sample("ADD", 0)
  /\ ledger' = [ledger EXCEPT !.outcomes = Append(@, FALSE)]

ReplayInvalid_mutStale(type) ==
  /\ incoming = NoSlot
  /\ NextSequence
  /\ UNCHANGED <<vars, refBook, refFills>>
  /\ stats' = CountFills([stats EXCEPT !.invalidMessages = @ + 1])
  /\ Sample(type, 0)
  /\ ledger' = [ledger EXCEPT !.outcomes = IF type = "ADD" THEN Append(@, FALSE) ELSE @]

\* So is an invalid ADD.
ReplayInvalid(type) ==
  /\ incoming = NoSlot
  /\ NextSequence
  /\ UNCHANGED <<vars, refBook, refFills>>
  /\ stats' = [stats EXCEPT !.invalidMessages = @ + 1]
  /\ Sample(type, 0)
  /\ ledger' = [ledger EXCEPT !.outcomes = IF type = "ADD" THEN Append(@, FALSE) ELSE @]

ReplayCancel(id) ==
  /\ DiffCancel(id)
  /\ Proceed("CANCEL", CountMiss(id))
  /\ Record("CANCEL", id, refFills')

ReplayModify(id, price, qty) ==
  /\ DiffModify(id, price, qty)
  /\ Proceed("MODIFY", CountMiss(id))
  /\ Record("MODIFY", id, refFills')

ReplayMatch ==
  /\ DiffMatch
  /\ Proceed(msgType, stats)
  /\ UNCHANGED ledger

\* A feed is finite: after its last message the engine stays idle.
FeedDone ==
  /\ incoming = NoSlot
  /\ sequence = MaxSequence
  /\ UNCHANGED replayVars

ReplayNext ==
  \/ \E id \in Ids, side \in Sides, type \in OrderTypes,
        price \in 0 .. MaxPrice, qty \in Qtys : ReplayAdd(id, side, type, price, qty)
  \/ ReplayDrop
  \/ \E type \in InvalidTypes : ReplayInvalid(type)
  \/ \E id \in Ids : ReplayCancel(id)
  \/ \E id \in Ids, price \in Prices, qty \in Qtys : ReplayModify(id, price, qty)
  \/ ReplayMatch
  \/ FeedDone

ReplaySpec == ReplayInit /\ [][ReplayNext]_replayVars

-----------------------------------------------------------------------------
(* Properties *)

\* The counters of a replay are those of the reference run: every fill and
\* its volume counted once, although m_fillScratch outlives its message and
\* a dropped or invalid message returns before the drain; cancelMisses counts
\* the CANCELs and MODIFYs of ids that do not rest in the reference's book.
StatsMatchReference ==
  incoming = NoSlot =>
    <<stats.fills, stats.matchedVolume, stats.cancelMisses>> =
      <<ledger.fills, ledger.volume, ledger.misses>>

\* windowRate() is over the last Window ADDs and cumulativeRate() over all: the
\* ring of FillRateTracker, its head and its running sum agree with the
\* outcomes of the reference through every wrap-around.
FillRateIsRecent ==
  incoming = NoSlot =>
    LET all == ledger.outcomes
        recent == SubSeq(all, Len(all) - fillRate.count + 1, Len(all))
        Filled(seq) == Len(SelectSeq(seq, LAMBDA filled : filled))
    IN /\ fillRate.count = Min({Window, Len(all)})
       /\ fillRate.windowFilled = Filled(recent)
       /\ <<fillRate.totalOrders, fillRate.totalFilled>> = <<Len(all), Filled(all)>>

\* What the trackers sample off the cached level totals is the top of the
\* reference's book: best quantities and, when the book is two-sided, spread
\* (positive: a locked book would report 0, the value for "undefined") and
\* imbalance.  Of a one-sided book ImbalanceTracker's comment calls the
\* imbalance undefined, and nothing is said of it here.
TrackersMatchReference ==
  LET prices(side) == {refBook[i].price : i \in {j \in DOMAIN refBook : refBook[j].side = side}}
      best(side) == IF prices(side) = {} THEN 0
                    ELSE IF side = "BUY" THEN Max(prices(side)) ELSE Min(prices(side))
      qty(side) == FoldSeq(LAMBDA o, q : q + Ref!remaining(o), 0,
                           SelectSeq(refBook, LAMBDA o : o.side = side /\ o.price = best(side)))
      b == qty("BUY")
      a == qty("SELL")
  IN incoming = NoSlot =>
       /\ sampled.depth = <<b, a>>
       /\ b > 0 /\ a > 0 =>
            /\ sampled.spread = best("SELL") - best("BUY") /\ sampled.spread > 0
            /\ sampled.imbalance = <<b - a, b + a>>

\* What a replay reports is what the reference run gives: StatsMatchReference,
\* FillRateIsRecent and TrackersMatchReference (applyMessage, run).
ReportIsReference == StatsMatchReference /\ FillRateIsRecent /\ TrackersMatchReference
=============================================================================
