---------------------------- MODULE Differential ----------------------------
(***************************************************************************)
(* The differential test of the repository as a composition: MatchingEngine*)
(* and ReferenceMatcher process the same feed, message by message.  The    *)
(* reference applies a message in the step in which the engine takes it;   *)
(* their fills are compared whenever the engine is idle.  The feeds of the *)
(* tests have no ADD of a resting id and fit into the pool; here both may  *)
(* happen.  The reference, which would rest a second order of that id and  *)
(* has no pool, is not given an ADD that the engine refuses: a refused ADD *)
(* is to be as if it had not been in the feed.                             *)
(***************************************************************************)
EXTENDS MatchingEngine

CONSTANTS
  MaxSequence     \* bound: messages of a feed

VARIABLES refBook, refFills, sequence

Ref == INSTANCE ReferenceMatcher

diffVars == <<vars, refBook, refFills, sequence>>

DiffInit ==
  /\ Init
  /\ refBook = <<>>
  /\ refFills = <<>>
  /\ sequence = 0

\* FeedMessage with the fields the two matchers read.
Message(msgType, id, side, type, price, qty) ==
  [msgType |-> msgType, orderId |-> id, side |-> side, orderType |-> type,
   price |-> price, qty |-> qty, sequence |-> sequence']

RefApplies(msg) ==
  LET r == Ref!apply(refBook, msg)
  IN refBook' = r.book /\ refFills' = r.fills

NextSequence == sequence < MaxSequence /\ sequence' = sequence + 1

DiffAdd(id, side, type, price, qty) ==
  /\ NextSequence
  /\ AddOrder(id, side, type, price, qty)
  /\ IF containsOrder(orderMap, id)
     THEN refFills' = <<>> /\ UNCHANGED refBook
     ELSE RefApplies(Message("ADD", id, side, type, price, qty))

\* The pool is exhausted.  m_fillScratch keeps the fills of an earlier message.
DiffDrop ==
  /\ NextSequence
  /\ DropAdd
  /\ UNCHANGED <<refBook, refFills>>

DiffCancel(id) ==
  /\ NextSequence
  /\ CancelOrder(id)
  /\ RefApplies(Message("CANCEL", id, "BUY", "LIMIT", 0, 0))

DiffModify(id, price, qty) ==
  /\ NextSequence
  /\ ModifyOrder(id, price, qty)
  /\ RefApplies(Message("MODIFY", id, "BUY", "LIMIT", price, qty))

DiffMatch ==
  /\ MatchStep \/ FinishMatch
  /\ UNCHANGED <<refBook, refFills, sequence>>

-----------------------------------------------------------------------------
(* Properties *)

\* The engine emits the same fill sequence as the reference matcher
\* (docs/DESIGN.md, Correctness Story): after every message both produced the
\* same trades, in the same order.  An ADD that the engine refuses (the id is
\* resting, the pool is exhausted) trades nothing, then or later.
SameFills == incoming = NoSlot => drained = refFills

\* The two books hold the same orders with the same quantities filled, and
\* every level queues them in the order of the reference's sequence numbers.
SameBook ==
  incoming = NoSlot =>
    LET Pos(s) == Ref!FindOrder(refBook, slab[s].orderId)
    IN /\ Len(refBook) = Cardinality(Resting)
       /\ \A s \in Resting :
            LET r == refBook[Pos(s)]
            IN /\ Pos(s) # 0
               /\ <<r.side, r.price, r.qty, r.filledQty>> =
                    <<slab[s].side, slab[s].price, slab[s].qty, slab[s].filledQty>>
       /\ \A side \in Sides : \A p \in Present(levels, side) :
            LET q == levels[side][p].queue
            IN \A i, j \in DOMAIN q : i < j =>
                 refBook[Pos(q[i])].sequence < refBook[Pos(q[j])].sequence

\* The engine trades and rests as the reference matcher does: SameFills and
\* SameBook (MatchingEngine, ReferenceMatcher).
SameAsReference == SameFills /\ SameBook
=============================================================================
