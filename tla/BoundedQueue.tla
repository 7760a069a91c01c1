---------------------------- MODULE BoundedQueue ----------------------------
(***************************************************************************)
(* What a queue of the thread pool promises, without the ring: elements    *)
(* leave in the order they came, none is lost or duplicated, and an        *)
(* element that does not fit is refused and changes nothing.               *)
(***************************************************************************)
EXTENDS Integers, Sequences

CONSTANTS
  Items,     \* what may be queued
  Capacity   \* the most elements the queue holds

VARIABLE queue

Init == queue = <<>>

Put(x) ==
  /\ Len(queue) < Capacity
  /\ queue' = Append(queue, x)

Take ==
  /\ queue # <<>>
  /\ queue' = Tail(queue)

Next == (\E x \in Items : Put(x)) \/ Take

Spec == Init /\ [][Next]_queue
=============================================================================
