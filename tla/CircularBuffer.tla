--------------------------- MODULE CircularBuffer ---------------------------
(***************************************************************************)
(* ThreadSafeCircularBuffer: the ring behind each queue of the thread      *)
(* pool, as a record of its slots and its two indices.  One slot is always *)
(* free, so that head = tail means empty.  Each method holds the ring's    *)
(* own mutex from beginning to end and is part of one step of its caller.  *)
(***************************************************************************)
EXTENDS Integers, Sequences

CONSTANT SIZE      \* THREAD_POOL_WORKLOAD_QUEUE_LENGTH

ASSUME SizeAssumption == SIZE \in Nat \ {0}

Indices == 0 .. SIZE

Ring(Items) == [buffer : [Indices -> Items], head : Indices, tail : Indices]

EmptyRing(nothing) ==
  [buffer |-> [i \in Indices |-> nothing], head |-> 0, tail |-> 0]

\* Mutant of IncrementIterator: wraps one slot late.
IncrementIteratorLate(it) == IF it + 1 > SIZE + 1 THEN 0 ELSE it + 1

IncrementIterator(it) == IF it + 1 >= SIZE + 1 THEN 0 ELSE it + 1

RingEmpty(ring) == ring.head = ring.tail

RingFull(ring) == IncrementIterator(ring.head) = ring.tail

\* incrementHead moves the tail on when the head meets it: the oldest element
\* would be lost.
IncrementHead(ring) ==
  LET head == IncrementIterator(ring.head)
  IN  [ring EXCEPT !.head = head,
                   !.tail = IF head = @ THEN IncrementIterator(@) ELSE @]

\* Mutant of MoveElementIntoBuffer: the head moves before the element is stored.
MoveElementAfter(ring, elem) ==
  LET moved == IncrementHead(ring)
  IN  [moved EXCEPT !.buffer[moved.head] = elem]

\* What moveElementIntoBuffer leaves when the ring is not full.
MoveElementIntoBuffer(ring, elem) ==
  IncrementHead([ring EXCEPT !.buffer[ring.head] = elem])

\* The element moveFirstInto takes from a ring that is not empty, and what it
\* leaves: the slot keeps a moved-from element, which nobody reads.
FirstOfRing(ring) == ring.buffer[ring.tail]

MoveFirstInto(ring, nothing) ==
  [ring EXCEPT !.buffer[ring.tail] = nothing, !.tail = IncrementIterator(@)]

-----------------------------------------------------------------------------
\* What is in the ring, oldest first: the queue it stands for.
Count(ring) ==
  IF ring.head >= ring.tail THEN ring.head - ring.tail
  ELSE SIZE + 1 - ring.tail + ring.head

Slot(ring, k) ==
  IF ring.tail + k >= SIZE + 1 THEN ring.tail + k - (SIZE + 1) ELSE ring.tail + k

Contents(ring) == [k \in 1 .. Count(ring) |-> ring.buffer[Slot(ring, k - 1)]]
=============================================================================
