---------------------------- MODULE BoundedFifo ----------------------------
(***************************************************************************)
(* What the ring buffer promises the two threads that share it: a queue of *)
(* bounded length that hands every value over once, in order.  A push or a *)
(* pop that returns false is a stuttering step.                            *)
(***************************************************************************)
EXTENDS Integers, Sequences

CONSTANTS Values, Bound, NoValue

VARIABLES
  queue,      \* values pushed and not yet popped
  delivered   \* the value the last successful pop returned

fifoVars == <<queue, delivered>>

Init == queue = <<>> /\ delivered = NoValue

Push(v) ==
  /\ Len(queue) < Bound
  /\ queue' = Append(queue, v)
  /\ UNCHANGED delivered

Pop ==
  /\ queue # <<>>
  /\ delivered' = Head(queue)
  /\ queue' = Tail(queue)

Next == (\E v \in Values : Push(v)) \/ Pop

Spec == Init /\ [][Next]_fifoVars
=============================================================================
