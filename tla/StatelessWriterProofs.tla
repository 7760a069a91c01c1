-------------------------- MODULE StatelessWriterProofs --------------------------
(***************************************************************************)
(* Theorems about the thread pool, for any length of the rings, any        *)
(* elements and any number of threads (one for each queue where it is      *)
(* said): the rings are queues, nobody sleeps on work and nobody sleeps    *)
(* past a stop.  And about the best-effort writer the pool pushes, for any *)
(* packets and bounds: the writer uses the pool as ThreadPool says it may  *)
(* be used, so what holds of the pool holds here, and nothing is sent      *)
(* again.                                                                  *)
(***************************************************************************)
EXTENDS StatelessWriter, SequenceTheorems, FiniteSetTheorems, NaturalsInduction, TLAPS

-----------------------------------------------------------------------------
(* The ring.                                                               *)

LEMMA RingType ==
  ASSUME NEW Items, NEW ring \in Ring(Items)
  PROVE  /\ SIZE \in Nat \ {0}
         /\ ring.head \in 0 .. SIZE /\ ring.tail \in 0 .. SIZE
         /\ ring.buffer \in [0 .. SIZE -> Items]
  BY SizeAssumption DEF Ring, Indices

LEMMA IncrementType ==
  ASSUME NEW it \in 0 .. SIZE
  PROVE  /\ IncrementIterator(it) \in 0 .. SIZE
         /\ IncrementIterator(it) = IF it = SIZE THEN 0 ELSE it + 1
  BY SizeAssumption DEF IncrementIterator

\* Where the elements of a ring lie, counted from the oldest; the slot after the
\* newest is that of the head.
LEMMA Positions ==
  ASSUME NEW Items, NEW ring \in Ring(Items)
  PROVE  /\ Count(ring) \in 0 .. SIZE
         /\ RingEmpty(ring) <=> Count(ring) = 0
         /\ RingFull(ring) <=> Count(ring) = SIZE
         /\ Slot(ring, Count(ring)) = ring.head
         /\ Slot(ring, 0) = ring.tail
         /\ \A k \in 0 .. Count(ring) - 1 :
              Slot(ring, k) \in 0 .. SIZE /\ Slot(ring, k) # ring.head
<1>1. /\ SIZE \in Nat \ {0} /\ ring.head \in 0 .. SIZE /\ ring.tail \in 0 .. SIZE
      /\ IncrementIterator(ring.head) = IF ring.head = SIZE THEN 0 ELSE ring.head + 1
  BY RingType, IncrementType
<1> QED BY <1>1 DEF Count, Slot, RingEmpty, RingFull

\* How many elements there are when the head or the tail has moved on.
Distance(head, tail) == IF head >= tail THEN head - tail ELSE SIZE + 1 - tail + head

LEMMA Distances ==
  ASSUME NEW head \in 0 .. SIZE, NEW tail \in 0 .. SIZE
  PROVE  /\ Distance(head, tail) < SIZE =>
              Distance(IncrementIterator(head), tail) = Distance(head, tail) + 1
         /\ Distance(head, tail) > 0 =>
              Distance(head, IncrementIterator(tail)) = Distance(head, tail) - 1
<1>1. SIZE \in Nat \ {0}
  BY SizeAssumption
<1> QED BY <1>1, IncrementType DEF Distance

LEMMA CountIsDistance == \A ring : Count(ring) = Distance(ring.head, ring.tail)
  BY DEF Count, Distance

\* What moveElementIntoBuffer changes of a ring with room.
LEMMA PutEffect ==
  ASSUME NEW Items, NEW ring \in Ring(Items), ~RingFull(ring), NEW x \in Items
  PROVE  LET new == MoveElementIntoBuffer(ring, x)
         IN  /\ new \in Ring(Items)
             /\ new.head = IncrementIterator(ring.head)
             /\ new.tail = ring.tail
             /\ new.buffer = [ring.buffer EXCEPT ![ring.head] = x]
<1> DEFINE filled == [ring EXCEPT !.buffer[ring.head] = x]
           buffer == [ring.buffer EXCEPT ![ring.head] = x]
           rec == [buffer |-> buffer, head |-> IncrementIterator(ring.head),
                   tail |-> ring.tail]
<1>1. /\ ring.head \in 0 .. SIZE /\ ring.tail \in 0 .. SIZE
      /\ ring.buffer \in [0 .. SIZE -> Items]
      /\ IncrementIterator(ring.head) \in 0 .. SIZE
  BY RingType, IncrementType
<1>2. ring = [buffer |-> ring.buffer, head |-> ring.head, tail |-> ring.tail]
  BY DEF Ring
<1>3. filled = [buffer |-> buffer, head |-> ring.head, tail |-> ring.tail]
  BY <1>2
<1>4. buffer \in [0 .. SIZE -> Items]
  BY <1>1
<1>5. IncrementIterator(ring.head) # ring.tail
  BY DEF RingFull
<1> HIDE DEF buffer, filled
<1> DEFINE new == IncrementHead(filled)
<1>6. DOMAIN filled = {"buffer", "head", "tail"}
  BY <1>3
<1>7. filled.head = ring.head /\ filled.tail = ring.tail /\ filled.buffer = buffer
  BY <1>3
<1>8. DOMAIN new = {"buffer", "head", "tail"}
  BY <1>6 DEF IncrementHead
<1>9. new.head = IncrementIterator(ring.head)
  BY <1>6, <1>7 DEF IncrementHead
<1>10. new.tail = ring.tail
  BY <1>5, <1>6, <1>7 DEF IncrementHead
<1>11. new.buffer = buffer
  BY <1>6, <1>7 DEF IncrementHead
<1>12. new = rec
  <2>1. DOMAIN rec = {"buffer", "head", "tail"}
    OBVIOUS
  <2>2. \A field \in {"buffer", "head", "tail"} : new[field] = rec[field]
    <3> HIDE DEF new
    <3> QED BY <1>9, <1>10, <1>11
  <2> QED BY <1>8, <2>1, <2>2 DEF IncrementHead
<1>13. MoveElementIntoBuffer(ring, x) = rec
  BY <1>12 DEF MoveElementIntoBuffer, filled
<1>14. rec \in Ring(Items)
  BY <1>1, <1>4 DEF Ring, Indices
<1> QED BY <1>13, <1>14 DEF buffer

\* What moveFirstInto changes of a ring that is not empty.
LEMMA TakeEffect ==
  ASSUME NEW Items, NEW ring \in Ring(Items), NEW nothing \in Items
  PROVE  LET new == MoveFirstInto(ring, nothing)
         IN  /\ new \in Ring(Items)
             /\ new.head = ring.head
             /\ new.tail = IncrementIterator(ring.tail)
             /\ new.buffer = [ring.buffer EXCEPT ![ring.tail] = nothing]
<1> DEFINE buffer == [ring.buffer EXCEPT ![ring.tail] = nothing]
           rec == [buffer |-> buffer, head |-> ring.head,
                   tail |-> IncrementIterator(ring.tail)]
<1>1. /\ ring.head \in 0 .. SIZE /\ ring.tail \in 0 .. SIZE
      /\ ring.buffer \in [0 .. SIZE -> Items]
      /\ IncrementIterator(ring.tail) \in 0 .. SIZE
  BY RingType, IncrementType
<1>2. ring = [buffer |-> ring.buffer, head |-> ring.head, tail |-> ring.tail]
  BY DEF Ring
<1> DEFINE new == MoveFirstInto(ring, nothing)
<1>3. DOMAIN ring = {"buffer", "head", "tail"}
  BY DEF Ring
<1>4. DOMAIN new = {"buffer", "head", "tail"}
  BY <1>3 DEF MoveFirstInto
<1>5. new.head = ring.head
  BY <1>3 DEF MoveFirstInto
<1>6. new.tail = IncrementIterator(ring.tail)
  BY <1>3 DEF MoveFirstInto
<1>7. new.buffer = buffer
  BY <1>3 DEF MoveFirstInto
<1>8. new = rec
  <2>1. DOMAIN rec = {"buffer", "head", "tail"}
    OBVIOUS
  <2>2. \A field \in {"buffer", "head", "tail"} : new[field] = rec[field]
    <3> HIDE DEF new, buffer
    <3> QED BY <1>5, <1>6, <1>7
  <2> QED BY <1>4, <2>1, <2>2 DEF MoveFirstInto
<1>9. rec \in Ring(Items)
  BY <1>1 DEF Ring, Indices
<1> QED BY <1>8, <1>9

\* A ring with room takes an element behind all it holds.
LEMMA PutContents ==
  ASSUME NEW Items, NEW ring \in Ring(Items), ~RingFull(ring), NEW x \in Items
  PROVE  /\ Contents(ring) \in Seq(Items) /\ Len(Contents(ring)) < SIZE
         /\ Contents(MoveElementIntoBuffer(ring, x)) = Append(Contents(ring), x)
<1> DEFINE new == MoveElementIntoBuffer(ring, x)
<1>1. /\ new \in Ring(Items) /\ new.head = IncrementIterator(ring.head)
      /\ new.tail = ring.tail /\ new.buffer = [ring.buffer EXCEPT ![ring.head] = x]
  BY PutEffect
<1> HIDE DEF new
<1>2. /\ SIZE \in Nat \ {0} /\ ring.head \in 0 .. SIZE /\ ring.tail \in 0 .. SIZE
      /\ ring.buffer \in [0 .. SIZE -> Items]
      /\ new.head = IF ring.head = SIZE THEN 0 ELSE ring.head + 1
  BY <1>1, RingType, IncrementType
<1>3. /\ Count(ring) \in 0 .. SIZE - 1 /\ Slot(ring, Count(ring)) = ring.head
      /\ \A k \in 0 .. Count(ring) - 1 :
           Slot(ring, k) \in 0 .. SIZE /\ Slot(ring, k) # ring.head
  BY <1>2, Positions
<1>4. Count(new) = Count(ring) + 1
  <2>1. Distance(ring.head, ring.tail) < SIZE
    BY <1>2, <1>3, CountIsDistance
  <2>2. Distance(IncrementIterator(ring.head), ring.tail)
          = Distance(ring.head, ring.tail) + 1
    BY <1>2, <2>1, Distances
  <2> QED BY <1>1, <2>2, CountIsDistance
<1>5. \A k : Slot(new, k) = Slot(ring, k)
  BY <1>1 DEF Slot
<1>6. \A k \in 1 .. Count(ring) : ring.buffer[Slot(ring, k - 1)] \in Items
  <2> SUFFICES ASSUME NEW k \in 1 .. Count(ring)
               PROVE  ring.buffer[Slot(ring, k - 1)] \in Items
    OBVIOUS
  <2>1. k - 1 \in 0 .. Count(ring) - 1
    BY <1>3
  <2> QED BY <1>2, <1>3, <2>1
<1>7. /\ Contents(ring) \in Seq(Items) /\ Len(Contents(ring)) = Count(ring)
      /\ \A k \in 1 .. Count(ring) : Contents(ring)[k] = ring.buffer[Slot(ring, k - 1)]
  BY <1>3, <1>6 DEF Contents
<1>8. /\ Append(Contents(ring), x) \in Seq(Items)
      /\ Len(Append(Contents(ring), x)) = Count(ring) + 1
      /\ \A k \in 1 .. Count(ring) :
           Append(Contents(ring), x)[k] = ring.buffer[Slot(ring, k - 1)]
      /\ Append(Contents(ring), x)[Count(ring) + 1] = x
  BY <1>3, <1>7, AppendProperties
<1>9. \A k \in 1 .. Count(ring) + 1 :
        new.buffer[Slot(new, k - 1)] = Append(Contents(ring), x)[k]
  <2> SUFFICES ASSUME NEW k \in 1 .. Count(ring) + 1
               PROVE  new.buffer[Slot(new, k - 1)] = Append(Contents(ring), x)[k]
    OBVIOUS
  <2>1. CASE k = Count(ring) + 1
    <3>1. k - 1 = Count(ring)
      BY <1>3, <2>1
    <3>2. Slot(new, k - 1) = ring.head
      BY <1>3, <1>5, <3>1
    <3> QED BY <1>1, <1>2, <1>8, <2>1, <3>2
  <2>2. CASE k \in 1 .. Count(ring)
    <3>1. k - 1 \in 0 .. Count(ring) - 1
      BY <1>3, <2>2
    <3>2. new.buffer[Slot(ring, k - 1)] = ring.buffer[Slot(ring, k - 1)]
      BY <1>1, <1>2, <1>3, <3>1
    <3> QED BY <1>5, <1>8, <2>2, <3>2
  <2>3. k = Count(ring) + 1 \/ k \in 1 .. Count(ring)
    BY <1>3
  <2> QED BY <2>1, <2>2, <2>3
<1>10. Contents(new) = [k \in 1 .. Count(ring) + 1 |-> Append(Contents(ring), x)[k]]
  BY <1>4, <1>9 DEF Contents
<1>11. Append(Contents(ring), x)
         = [k \in 1 .. Count(ring) + 1 |-> Append(Contents(ring), x)[k]]
  BY <1>8, LenProperties
<1>12. Contents(new) = Append(Contents(ring), x)
  BY <1>10, <1>11, Zenon
<1> QED BY <1>2, <1>3, <1>7, <1>12 DEF new

\* A ring gives up its oldest element.
LEMMA TakeContents ==
  ASSUME NEW Items, NEW ring \in Ring(Items), ~RingEmpty(ring), NEW nothing \in Items
  PROVE  /\ Contents(ring) \in Seq(Items) /\ Contents(ring) # <<>>
         /\ FirstOfRing(ring) = Head(Contents(ring))
         /\ Contents(MoveFirstInto(ring, nothing)) = Tail(Contents(ring))
<1> DEFINE new == MoveFirstInto(ring, nothing)
<1>1. /\ new \in Ring(Items) /\ new.head = ring.head
      /\ new.tail = IncrementIterator(ring.tail)
      /\ new.buffer = [ring.buffer EXCEPT ![ring.tail] = nothing]
  BY TakeEffect
<1> HIDE DEF new
<1>2. /\ SIZE \in Nat \ {0} /\ ring.head \in 0 .. SIZE /\ ring.tail \in 0 .. SIZE
      /\ ring.buffer \in [0 .. SIZE -> Items]
      /\ new.tail = IF ring.tail = SIZE THEN 0 ELSE ring.tail + 1
  BY <1>1, RingType, IncrementType
<1>3. /\ Count(ring) \in 1 .. SIZE /\ Slot(ring, 0) = ring.tail
      /\ \A k \in 0 .. Count(ring) - 1 : Slot(ring, k) \in 0 .. SIZE
  BY <1>2, Positions
<1>4. Count(new) = Count(ring) - 1
  <2>1. Distance(ring.head, ring.tail) > 0
    BY <1>3, CountIsDistance
  <2>2. Distance(ring.head, IncrementIterator(ring.tail))
          = Distance(ring.head, ring.tail) - 1
    BY <1>2, <2>1, Distances
  <2> QED BY <1>1, <2>2, CountIsDistance
<1>5. \A k \in 0 .. Count(ring) - 2 :
        Slot(new, k) = Slot(ring, k + 1) /\ Slot(ring, k + 1) # ring.tail
  BY <1>1, <1>2, <1>3 DEF Slot
<1>6. \A k \in 1 .. Count(ring) : ring.buffer[Slot(ring, k - 1)] \in Items
  <2> SUFFICES ASSUME NEW k \in 1 .. Count(ring)
               PROVE  ring.buffer[Slot(ring, k - 1)] \in Items
    OBVIOUS
  <2>1. k - 1 \in 0 .. Count(ring) - 1
    BY <1>3
  <2> QED BY <1>2, <1>3, <2>1
<1>7. /\ Contents(ring) \in Seq(Items) /\ Len(Contents(ring)) = Count(ring)
      /\ \A k \in 1 .. Count(ring) : Contents(ring)[k] = ring.buffer[Slot(ring, k - 1)]
  BY <1>3, <1>6 DEF Contents
<1>8. Contents(ring) # <<>>
  BY <1>3, <1>7, EmptySeq
<1>9. /\ Tail(Contents(ring)) \in Seq(Items) /\ Len(Tail(Contents(ring))) = Count(ring) - 1
      /\ \A k \in 1 .. Count(ring) - 1 : Tail(Contents(ring))[k] = Contents(ring)[k + 1]
  BY <1>7, <1>8, HeadTailProperties
<1>10. \A k \in 1 .. Count(ring) - 1 :
         new.buffer[Slot(new, k - 1)] = Tail(Contents(ring))[k]
  <2> SUFFICES ASSUME NEW k \in 1 .. Count(ring) - 1
               PROVE  new.buffer[Slot(new, k - 1)] = Tail(Contents(ring))[k]
    OBVIOUS
  <2>1. k - 1 \in 0 .. Count(ring) - 2 /\ k - 1 + 1 = k /\ k \in 0 .. Count(ring) - 1
        /\ k + 1 \in 1 .. Count(ring) /\ k + 1 - 1 = k
    BY <1>3
  <2>2. Slot(new, k - 1) = Slot(ring, k) /\ Slot(ring, k) # ring.tail
    BY <1>5, <2>1
  <2>3. new.buffer[Slot(new, k - 1)] = ring.buffer[Slot(ring, k)]
    BY <1>1, <1>2, <1>3, <2>1, <2>2
  <2>4. Contents(ring)[k + 1] = ring.buffer[Slot(ring, k)]
    BY <1>7, <2>1
  <2> QED BY <1>9, <2>3, <2>4
<1>11. Contents(new) = [k \in 1 .. Count(ring) - 1 |-> Tail(Contents(ring))[k]]
  BY <1>4, <1>10 DEF Contents
<1>12. Tail(Contents(ring)) = [k \in 1 .. Count(ring) - 1 |-> Tail(Contents(ring))[k]]
  BY <1>9, LenProperties
<1>13. Contents(new) = Tail(Contents(ring))
  BY <1>11, <1>12, Zenon
<1>14. FirstOfRing(ring) = Head(Contents(ring))
  <2>1. Head(Contents(ring)) = Contents(ring)[1]
    BY <1>7, <1>8
  <2>2. Contents(ring)[1] = ring.buffer[Slot(ring, 0)]
    <3>1. 1 \in 1 .. Count(ring) /\ 1 - 1 = 0
      BY <1>3
    <3> QED BY <1>7, <3>1
  <2> QED BY <1>3, <2>1, <2>2 DEF FirstOfRing
<1> QED BY <1>7, <1>8, <1>13, <1>14 DEF new

-----------------------------------------------------------------------------
(* Type correctness.                                                       *)

Elems == Workloads \cup Packets \cup {Nothing}

Labels == {"unborn", "test", "take", "work", "wait", "ended"}

LEMMA ThreadMoves ==
  ASSUME PoolTypeOK, NEW t \in Threads, NEW label, GoTo(t, label)
  PROVE  At(t, label)' /\ \A u \in Threads \ {t} : thread'[u] = thread[u]
  BY DEF GoTo, At, PoolTypeOK

LEMMA QueueOfType == \A t : QueueOf(t) \in Queues
  BY DEF QueueOf, Queues

LEMMA InitPoolTypeOK == InitPool => PoolTypeOK
<1> SUFFICES ASSUME InitPool PROVE PoolTypeOK
  OBVIOUS
<1>1. EmptyRing(Nothing) \in Ring(Elems)
  BY SizeAssumption DEF EmptyRing, Ring, Indices, Elems
<1> QED BY <1>1 DEF InitPool, PoolTypeOK, Elems

\* What the first half of a producer's call does.
LEMMA EnqueueEffect ==
  ASSUME PoolTypeOK, NEW q \in Queues, NEW x \in Elems, Enqueue(q, x)
  PROVE  /\ ~RingFull(queue[q]) /\ queue[q] \in Ring(Elems)
         /\ queue' \in [Queues -> Ring(Elems)]
         /\ queue'[q] = MoveElementIntoBuffer(queue[q], x)
         /\ \A p \in Queues \ {q} : queue'[p] = queue[p]
         /\ unsignalled' \in [Queues -> Nat]
         /\ unsignalled'[q] > 0
         /\ \A p \in Queues \ {q} : unsignalled'[p] = unsignalled[p]
<1>1. queue[q] \in Ring(Elems) /\ ~RingFull(queue[q])
  BY DEF PoolTypeOK, Enqueue, Elems
<1>2. MoveElementIntoBuffer(queue[q], x) \in Ring(Elems)
  BY <1>1, PutEffect
<1>3. queue' = [queue EXCEPT ![q] = MoveElementIntoBuffer(queue[q], x)]
  BY DEF Enqueue
<1>4. unsignalled' = [unsignalled EXCEPT ![q] = unsignalled[q] + 1]
  BY DEF Enqueue
<1>5. queue \in [Queues -> Ring(Elems)] /\ unsignalled \in [Queues -> Nat]
  BY DEF PoolTypeOK, Elems
<1> QED BY <1>1, <1>2, <1>3, <1>4, <1>5

\* What a thread finds in its queue, and what it leaves.
LEMMA TakeFirstEffect ==
  ASSUME PoolTypeOK, NEW t \in Threads, TakeFirst(t)
  PROVE  LET q == QueueOf(t)
         IN  /\ queue[q] \in Ring(Elems) /\ ~RingEmpty(queue[q])
             /\ queue' \in [Queues -> Ring(Elems)]
             /\ queue'[q] = MoveFirstInto(queue[q], Nothing)
             /\ \A p \in Queues \ {q} : queue'[p] = queue[p]
             /\ thread' = [thread EXCEPT ![t] =
                             [at |-> "work", item |-> FirstOfRing(queue[q])]]
             /\ FirstOfRing(queue[q]) \in Elems
<1> DEFINE q == QueueOf(t)
<1>1. q \in Queues /\ Nothing \in Elems
  BY QueueOfType DEF Elems
<1>2. queue \in [Queues -> Ring(Elems)]
  BY DEF PoolTypeOK, Elems
<1>3. MoveFirstInto(queue[q], Nothing) \in Ring(Elems)
  BY <1>1, <1>2, TakeEffect
<1>4. queue' = [queue EXCEPT ![q] = MoveFirstInto(queue[q], Nothing)]
  BY DEF TakeFirst
<1>5. FirstOfRing(queue[q]) \in Elems
  BY <1>1, <1>2, RingType DEF FirstOfRing
<1> QED BY <1>1, <1>2, <1>3, <1>4, <1>5 DEF TakeFirst

LEMMA PoolNextTypeOK ==
  ASSUME PoolTypeOK, [PoolNext]_pool_vars
  PROVE  PoolTypeOK'
<1>1. CASE StartThreads
  BY <1>1 DEF StartThreads, PoolTypeOK
<1>2. CASE StopThreads
  <2>1. Cardinality(WriterThreads) \in Nat /\ Cardinality(ReaderThreads) \in Nat
    BY PoolAssumption, FS_CardinalityType
  <2>2. [out |-> Cardinality(WriterThreads), in |-> Cardinality(ReaderThreads)]
          \in [Queues -> Nat]
    BY <2>1 DEF Queues
  <2>3. toStop' \in [Queues -> Nat] /\ running' \in BOOLEAN
    BY <1>2, <2>2 DEF StopThreads
  <2> QED BY <1>2, <2>3 DEF StopThreads, PoolTypeOK
<1>3. ASSUME NEW q \in Queues, SignalStop(q) \/ Signal(q)
      PROVE  PoolTypeOK'
  <2>1. sem' \in [Queues -> {0, 1}]
    BY <1>3 DEF SignalStop, Signal, PoolTypeOK
  <2>2. toStop' \in [Queues -> Nat]
    <3>1. toStop[q] > 0 => toStop[q] - 1 \in Nat
      BY DEF PoolTypeOK
    <3> QED BY <1>3, <3>1 DEF SignalStop, Signal, PoolTypeOK
  <2>3. unsignalled' \in [Queues -> Nat]
    <3>1. unsignalled[q] > 0 => unsignalled[q] - 1 \in Nat
      BY DEF PoolTypeOK
    <3> QED BY <1>3, <3>1 DEF SignalStop, Signal, PoolTypeOK
  <2> QED BY <1>3, <2>1, <2>2, <2>3 DEF SignalStop, Signal, PoolTypeOK
<1>4. ASSUME NEW w \in Workloads, AddWorkload(w)
      PROVE  PoolTypeOK'
  <2>1. CASE Enqueue("out", w)
    <3>1. queue' \in [Queues -> Ring(Elems)] /\ unsignalled' \in [Queues -> Nat]
      BY <2>1, EnqueueEffect DEF Elems, Queues
    <3> QED BY <1>4, <3>1 DEF AddWorkload, PoolTypeOK, Elems
  <2> QED BY <1>4, <2>1 DEF AddWorkload, PoolTypeOK
<1>5. ASSUME NEW p \in Packets, ReadCallback(p)
      PROVE  PoolTypeOK'
  <2>1. rxStats' \in [received : Nat, dropped : Nat]
    BY <1>5 DEF ReadCallback, PoolTypeOK
  <2>2. CASE Enqueue("in", p)
    <3>1. queue' \in [Queues -> Ring(Elems)] /\ unsignalled' \in [Queues -> Nat]
      BY <2>2, EnqueueEffect DEF Elems, Queues
    <3> QED BY <1>5, <2>1, <3>1 DEF ReadCallback, PoolTypeOK, Elems
  <2>3. CASE UNCHANGED <<queue, unsignalled>>
    BY <1>5, <2>1, <2>3 DEF ReadCallback, PoolTypeOK
  <2> QED BY <1>5, <2>2, <2>3 DEF ReadCallback
<1>6. ASSUME NEW t \in Threads, TakeFirst(t)
      PROVE  PoolTypeOK'
  <2>1. queue' \in [Queues -> Ring(Elems)]
    BY <1>6, TakeFirstEffect
  <2>2. thread' \in [Threads -> [at : Labels, item : Elems]]
    <3>1. [at |-> "work", item |-> FirstOfRing(queue[QueueOf(t)])] \in [at : Labels, item : Elems]
      BY <1>6, TakeFirstEffect DEF Labels
    <3> QED BY <1>6, <3>1, TakeFirstEffect DEF PoolTypeOK, Elems, Labels
  <2> QED BY <1>6, <2>1, <2>2 DEF TakeFirst, PoolTypeOK, Elems, Labels
<1>7. ASSUME NEW t \in Threads, TestRunning(t) \/ FindEmpty(t) \/ WakeUp(t) \/ EndWork(t)
      PROVE  PoolTypeOK'
  <2>1. \E label \in Labels : GoTo(t, label)
    BY <1>7 DEF TestRunning, FindEmpty, WakeUp, EndWork, Labels
  <2>2. thread' \in [Threads -> [at : Labels, item : Elems]]
    BY <2>1 DEF GoTo, PoolTypeOK, Labels, Elems
  <2>3. sem' \in [Queues -> {0, 1}]
    BY <1>7 DEF TestRunning, FindEmpty, WakeUp, EndWork, PoolTypeOK
  <2> QED BY <1>7, <2>2, <2>3
          DEF TestRunning, FindEmpty, WakeUp, EndWork, PoolTypeOK, Labels, Elems
<1>8. CASE UNCHANGED pool_vars
  BY <1>8 DEF pool_vars, PoolTypeOK
<1> QED BY <1>1, <1>2, <1>3, <1>4, <1>5, <1>6, <1>7, <1>8
        DEF PoolNext, NextPool, DoWork

\* Whoever fills the queues and however the threads work, the rings, the
\* semaphores and the threads stay what they are.
THEOREM PoolTypeCorrect == PoolSpec => []PoolTypeOK
  BY InitPoolTypeOK, PoolNextTypeOK, PTL DEF PoolSpec

-----------------------------------------------------------------------------
(* The rings are queues.                                                   *)

\* A step of the pool leaves a queue alone, puts one element behind it or takes
\* its first.
QueueStep(q, Items) ==
  \/ Contents(queue'[q]) = Contents(queue[q])
  \/ /\ Len(Contents(queue[q])) < SIZE
     /\ \E x \in Items : Contents(queue'[q]) = Append(Contents(queue[q]), x)
  \/ /\ Contents(queue[q]) # <<>>
     /\ Contents(queue'[q]) = Tail(Contents(queue[q]))

LEMMA EnqueueSteps ==
  ASSUME PoolTypeOK, NEW q \in Queues, NEW Items, NEW x \in Items, Items \subseteq Elems,
         Enqueue(q, x)
  PROVE  QueueStep(q, Items) /\ \A p \in Queues \ {q} : queue'[p] = queue[p]
<1>1. /\ ~RingFull(queue[q]) /\ queue[q] \in Ring(Elems) /\ x \in Elems
      /\ queue'[q] = MoveElementIntoBuffer(queue[q], x)
      /\ \A p \in Queues \ {q} : queue'[p] = queue[p]
  BY EnqueueEffect
<1>2. /\ Len(Contents(queue[q])) < SIZE
      /\ Contents(queue'[q]) = Append(Contents(queue[q]), x)
  BY <1>1, PutContents
<1> QED BY <1>1, <1>2 DEF QueueStep

LEMMA QueuesStep ==
  ASSUME PoolTypeOK, [PoolNext]_pool_vars
  PROVE  QueueStep("out", Workloads) /\ QueueStep("in", Packets)
<1>1. CASE queue' = queue
  BY <1>1 DEF QueueStep
<1>2. ASSUME NEW w \in Workloads, AddWorkload(w)
      PROVE  QueueStep("out", Workloads) /\ QueueStep("in", Packets)
  <2>1. CASE Enqueue("out", w)
    <3>1. QueueStep("out", Workloads) /\ queue'["in"] = queue["in"]
      BY <2>1, EnqueueSteps DEF Elems, Queues
    <3> QED BY <3>1 DEF QueueStep
  <2> QED BY <1>1, <1>2, <2>1 DEF AddWorkload
<1>3. ASSUME NEW p \in Packets, ReadCallback(p)
      PROVE  QueueStep("out", Workloads) /\ QueueStep("in", Packets)
  <2>1. CASE Enqueue("in", p)
    <3>1. QueueStep("in", Packets) /\ queue'["out"] = queue["out"]
      BY <2>1, EnqueueSteps DEF Elems, Queues
    <3> QED BY <3>1 DEF QueueStep
  <2> QED BY <1>1, <1>3, <2>1 DEF ReadCallback
<1>4. ASSUME NEW t \in Threads, TakeFirst(t)
      PROVE  QueueStep("out", Workloads) /\ QueueStep("in", Packets)
  <2> DEFINE q == QueueOf(t)
  <2>1. /\ queue[q] \in Ring(Elems) /\ ~RingEmpty(queue[q])
        /\ queue'[q] = MoveFirstInto(queue[q], Nothing)
        /\ \A p \in Queues \ {q} : queue'[p] = queue[p]
        /\ q \in Queues
    BY <1>4, TakeFirstEffect, QueueOfType
  <2>2. /\ Contents(queue[q]) # <<>>
        /\ Contents(queue'[q]) = Tail(Contents(queue[q]))
    BY <2>1, TakeContents DEF Elems
  <2> HIDE DEF q
  <2> QED BY <2>1, <2>2 DEF QueueStep, Queues
<1> QED BY <1>1, <1>2, <1>3, <1>4
        DEF PoolNext, NextPool, StartThreads, StopThreads, SignalStop, Signal, DoWork,
            TestRunning, FindEmpty, WakeUp, EndWork, pool_vars

-----------------------------------------------------------------------------
(* A thread works on what was put into its queue.                          *)

OwnItems ==
  /\ \A q \in Queues : Contents(queue[q]) \in Seq(Elements(q))
  /\ \A t \in Threads : At(t, "work") => thread[t].item \in Elements(QueueOf(t))

LEMMA QueueStepItems ==
  ASSUME NEW q, NEW Items, Contents(queue[q]) \in Seq(Items), QueueStep(q, Items)
  PROVE  Contents(queue'[q]) \in Seq(Items)
<1>1. CASE Contents(queue'[q]) = Contents(queue[q])
  BY <1>1
<1>2. ASSUME NEW x \in Items, Contents(queue'[q]) = Append(Contents(queue[q]), x)
      PROVE  Contents(queue'[q]) \in Seq(Items)
  BY <1>2, AppendProperties
<1>3. CASE Contents(queue[q]) # <<>> /\ Contents(queue'[q]) = Tail(Contents(queue[q]))
  BY <1>3, HeadTailProperties
<1> QED BY <1>1, <1>2, <1>3 DEF QueueStep

LEMMA NextKeepsItems ==
  ASSUME PoolTypeOK, OwnItems, [PoolNext]_pool_vars
  PROVE  OwnItems'
<1>1. \A q \in Queues : Contents(queue'[q]) \in Seq(Elements(q))
  BY QueuesStep, QueueStepItems DEF OwnItems, Queues, Elements
<1>2. ASSUME NEW t \in Threads, At(t, "work")'
      PROVE  thread'[t].item \in Elements(QueueOf(t))
  <2>1. CASE thread'[t] = thread[t]
    BY <1>2, <2>1 DEF OwnItems, At
  <2>2. CASE StartThreads
    BY <1>2, <2>2 DEF StartThreads, At
  <2>3. ASSUME NEW u \in Threads, NEW label \in {"test", "take", "wait", "ended"},
               GoTo(u, label)
        PROVE  thread'[t] = thread[t]
    BY <1>2, <2>3, ThreadMoves DEF At
  <2>4. ASSUME NEW u \in Threads, TakeFirst(u)
        PROVE  thread'[t] = thread[t] \/ thread'[t].item \in Elements(QueueOf(t))
    <3> DEFINE q == QueueOf(u)
    <3>1. /\ q \in Queues /\ queue[q] \in Ring(Elems) /\ ~RingEmpty(queue[q])
          /\ thread' = [thread EXCEPT ![u] =
                           [at |-> "work", item |-> FirstOfRing(queue[q])]]
      BY <2>4, TakeFirstEffect, QueueOfType
    <3>2. /\ Contents(queue[q]) # <<>>
          /\ FirstOfRing(queue[q]) = Head(Contents(queue[q]))
      BY <3>1, TakeContents DEF Elems
    <3>3. FirstOfRing(queue[q]) \in Elements(q)
      BY <3>1, <3>2, HeadTailProperties DEF OwnItems
    <3> QED BY <3>1, <3>3 DEF PoolTypeOK
  <2> QED BY <2>1, <2>2, <2>3, <2>4
          DEF PoolNext, NextPool, StopThreads, SignalStop, Signal, AddWorkload,
              ReadCallback, DoWork, TestRunning, FindEmpty, WakeUp, EndWork, pool_vars
<1> QED BY <1>1, <1>2 DEF OwnItems, At

\* A writer thread never gets hold of a packet, nor a reader thread of a writer, nor
\* either of the moved-from element a taken slot keeps.
THEOREM WorksOnItsOwn == PoolSpec => []OwnItems
<1>1. InitPool => OwnItems
  <2>1. Contents(EmptyRing(Nothing)) = <<>>
    BY DEF Contents, Count, EmptyRing
  <2> QED BY <2>1 DEF InitPool, OwnItems, At
<1> QED BY <1>1, InitPoolTypeOK, PoolNextTypeOK, NextKeepsItems, PTL DEF PoolSpec

-----------------------------------------------------------------------------
(* Nobody sleeps on work.                                                  *)

WokenUp(q) ==
  ~RingEmpty(queue[q]) =>
    \/ sem[q] > 0 \/ unsignalled[q] > 0
    \/ \E t \in Threads : QueueOf(t) = q /\ Awake(t)

\* The strengthening: it holds before the threads are started as well, when what
\* is queued early leaves its signal up.
SleepInv ==
  running \/ (\A t \in Threads : At(t, "unborn")) => \A q \in Queues : WokenUp(q)

LEMMA EnqueueWakes ==
  ASSUME PoolTypeOK, NEW p \in Queues, NEW x \in Elems, Enqueue(p, x),
         sem' = sem, thread' = thread, \A q \in Queues : WokenUp(q)
  PROVE  \A q \in Queues : WokenUp(q)'
<1> SUFFICES ASSUME NEW q \in Queues PROVE WokenUp(q)'
  OBVIOUS
<1>1. unsignalled'[p] > 0 /\ \A r \in Queues \ {p} :
        queue'[r] = queue[r] /\ unsignalled'[r] = unsignalled[r]
  BY EnqueueEffect
<1>2. CASE q = p
  BY <1>1, <1>2 DEF WokenUp
<1>3. CASE q # p
  BY <1>1, <1>3 DEF WokenUp, Awake, At
<1> QED BY <1>2, <1>3

LEMMA NextKeepsAwake ==
  ASSUME PoolTypeOK, SleepInv, [PoolNext]_pool_vars
  PROVE  SleepInv'
<1> DEFINE Due == running \/ \A t \in Threads : At(t, "unborn")
<1> SUFFICES ASSUME Due', NEW q \in Queues
             PROVE  WokenUp(q)'
  BY DEF SleepInv
<1>1. Due => \A p \in Queues : WokenUp(p)
  BY DEF SleepInv
<1>2. sem \in [Queues -> {0, 1}] /\ unsignalled \in [Queues -> Nat]
  BY DEF PoolTypeOK
<1>3. CASE StartThreads
  <2>1. WokenUp(q) /\ \A t \in Threads : ~Awake(t)
    BY <1>1, <1>3 DEF StartThreads, Awake, At
  <2> QED BY <1>2, <1>3, <2>1 DEF StartThreads, WokenUp, Awake, At
<1>4. CASE StopThreads
  BY <1>1, <1>4 DEF StopThreads, WokenUp, Awake, At
<1>5. ASSUME NEW p \in Queues, SignalStop(p) \/ Signal(p)
      PROVE  WokenUp(q)'
  <2>1. /\ running' = running /\ thread' = thread /\ queue' = queue
        /\ sem' = [sem EXCEPT ![p] = 1]
        /\ \A r \in Queues \ {p} : unsignalled'[r] = unsignalled[r]
    BY <1>2, <1>5 DEF SignalStop, Signal
  <2>2. WokenUp(q)
    BY <1>1, <2>1 DEF At
  <2>3. CASE q = p
    BY <1>2, <2>1, <2>3 DEF WokenUp
  <2>4. CASE q # p
    BY <1>2, <2>1, <2>2, <2>4 DEF WokenUp, Awake, At
  <2> QED BY <2>3, <2>4
<1>6. ASSUME NEW w \in Workloads, AddWorkload(w)
      PROVE  WokenUp(q)'
  <2>1. running' = running /\ thread' = thread /\ sem' = sem
    BY <1>6 DEF AddWorkload
  <2>2. \A p \in Queues : WokenUp(p)
    BY <1>1, <2>1 DEF At
  <2>3. CASE Enqueue("out", w)
    BY <2>1, <2>2, <2>3, EnqueueWakes DEF Queues, Elems
  <2>4. CASE UNCHANGED <<queue, unsignalled>>
    BY <2>1, <2>2, <2>4 DEF WokenUp, Awake, At
  <2> QED BY <1>6, <2>3, <2>4 DEF AddWorkload
<1>7. ASSUME NEW x \in Packets, ReadCallback(x)
      PROVE  WokenUp(q)'
  <2>1. running' = running /\ thread' = thread /\ sem' = sem
    BY <1>7 DEF ReadCallback
  <2>2. \A p \in Queues : WokenUp(p)
    BY <1>1, <2>1 DEF At
  <2>3. CASE Enqueue("in", x)
    BY <2>1, <2>2, <2>3, EnqueueWakes DEF Queues, Elems
  <2>4. CASE UNCHANGED <<queue, unsignalled>>
    BY <2>1, <2>2, <2>4 DEF WokenUp, Awake, At
  <2> QED BY <1>7, <2>3, <2>4 DEF ReadCallback
<1>8. ASSUME NEW t \in Threads, ~At(t, "unborn"), running' = running,
             thread'[t].at # "unborn"
      PROVE  running /\ running' /\ WokenUp(q)
  BY <1>1, <1>8 DEF At
<1>9. ASSUME NEW t \in Threads, TakeFirst(t)
      PROVE  WokenUp(q)'
  <2>1. /\ \A p \in Queues \ {QueueOf(t)} : queue'[p] = queue[p]
        /\ thread'[t].at = "work" /\ \A u \in Threads \ {t} : thread'[u] = thread[u]
        /\ sem' = sem /\ unsignalled' = unsignalled /\ running' = running
    BY <1>9, TakeFirstEffect DEF TakeFirst, PoolTypeOK
  <2>2. WokenUp(q) /\ Awake(t)'
    BY <1>8, <1>9, <2>1 DEF TakeFirst, Awake, At
  <2>3. CASE q = QueueOf(t)
    BY <2>2, <2>3 DEF WokenUp
  <2>4. CASE q # QueueOf(t)
    BY <2>1, <2>2, <2>4 DEF WokenUp, Awake, At
  <2> QED BY <2>3, <2>4
<1>10. ASSUME NEW t \in Threads, FindEmpty(t)
       PROVE  WokenUp(q)'
  <2>1. /\ RingEmpty(queue[QueueOf(t)]) /\ queue' = queue /\ GoTo(t, "wait")
        /\ sem' = sem /\ unsignalled' = unsignalled /\ running' = running
    BY <1>10 DEF FindEmpty
  <2>2. /\ At(t, "wait")' /\ \A u \in Threads \ {t} : thread'[u] = thread[u]
    BY <2>1, ThreadMoves
  <2>3. WokenUp(q)
    BY <1>8, <1>10, <2>1, <2>2 DEF FindEmpty, At
  <2>4. CASE q = QueueOf(t)
    BY <2>1, <2>4 DEF WokenUp
  <2>5. CASE q # QueueOf(t)
    BY <2>1, <2>2, <2>3, <2>5 DEF WokenUp, Awake, At
  <2> QED BY <2>4, <2>5
<1>11. ASSUME NEW t \in Threads, WakeUp(t) \/ EndWork(t) \/ TestRunning(t)
       PROVE  WokenUp(q)'
  <2>1. /\ queue' = queue /\ unsignalled' = unsignalled /\ running' = running
        /\ \A p \in Queues \ {QueueOf(t)} : sem'[p] = sem[p]
        /\ \E label \in {"test", "take", "ended"} :
             GoTo(t, label) /\ (running => label # "ended")
        /\ ~At(t, "unborn")
    BY <1>2, <1>11 DEF WakeUp, EndWork, TestRunning, At
  <2>2. PICK label \in {"test", "take", "ended"} :
          GoTo(t, label) /\ (running => label # "ended")
    BY <2>1
  <2>3. At(t, label)' /\ \A u \in Threads \ {t} : thread'[u] = thread[u]
    BY <2>2, ThreadMoves
  <2>4. running /\ WokenUp(q)
    BY <1>8, <2>1, <2>2, <2>3 DEF At
  <2>5. Awake(t)'
    BY <2>2, <2>3, <2>4 DEF Awake, At
  <2>6. CASE q = QueueOf(t)
    BY <2>5, <2>6 DEF WokenUp
  <2>7. CASE q # QueueOf(t)
    BY <2>1, <2>3, <2>4, <2>7 DEF WokenUp, Awake, At
  <2> QED BY <2>6, <2>7
<1>12. CASE UNCHANGED pool_vars
  BY <1>1, <1>12 DEF pool_vars, WokenUp, Awake, At
<1> QED BY <1>3, <1>4, <1>5, <1>6, <1>7, <1>9, <1>10, <1>11, <1>12
        DEF PoolNext, NextPool, DoWork

\* For any number of threads and producers: while the pool runs, an element never
\* waits for a thread that nobody will wake.
THEOREM NobodySleepsOnWork == PoolSpec => []NoSleepOnWork
<1>1. InitPool => SleepInv
  <2>1. RingEmpty(EmptyRing(Nothing))
    BY DEF RingEmpty, EmptyRing
  <2> QED BY <2>1 DEF InitPool, SleepInv, WokenUp
<1>2. SleepInv => NoSleepOnWork
  BY DEF SleepInv, NoSleepOnWork, WokenUp
<1> QED BY <1>1, <1>2, InitPoolTypeOK, PoolNextTypeOK, NextKeepsAwake, PTL DEF PoolSpec

-----------------------------------------------------------------------------
(* Nobody sleeps past a stop.                                              *)

\* The strengthening: a thread that is about to look into its queue may go to
\* sleep, so its signal has to be there or still to come already.
StopInv ==
  ~running => \A t \in Threads :
    At(t, "wait") \/ At(t, "take") => sem[QueueOf(t)] > 0 \/ toStop[QueueOf(t)] > 0

LEMMA SomeThreadEach ==
  \A t \in Threads :
    IF t \in WriterThreads THEN Cardinality(WriterThreads) > 0
                          ELSE Cardinality(ReaderThreads) > 0
<1>1. \A S : IsFiniteSet(S) => Cardinality(S) \in Nat /\ (Cardinality(S) = 0 <=> S = {})
  BY FS_CardinalityType, FS_EmptySet
<1>2. /\ Cardinality(WriterThreads) \in Nat
      /\ Cardinality(WriterThreads) = 0 <=> WriterThreads = {}
      /\ Cardinality(ReaderThreads) \in Nat
      /\ Cardinality(ReaderThreads) = 0 <=> ReaderThreads = {}
  BY <1>1, PoolAssumption
<1> QED BY <1>2 DEF Threads

LEMMA NextStops ==
  ASSUME PoolTypeOK, OneThreadEach, StopInv, [PoolNext]_pool_vars
  PROVE  StopInv'
<1> SUFFICES ASSUME ~running', NEW t \in Threads, At(t, "wait")' \/ At(t, "take")'
             PROVE  sem'[QueueOf(t)] > 0 \/ toStop'[QueueOf(t)] > 0
  BY DEF StopInv, QueueOf
<1> DEFINE q == QueueOf(t)
<1>1. q \in Queues
  BY QueueOfType
<1>2. sem \in [Queues -> {0, 1}] /\ toStop \in [Queues -> Nat]
  BY DEF PoolTypeOK
<1>3. CASE StartThreads
  BY <1>3 DEF StartThreads
<1>4. CASE StopThreads
  BY <1>4, SomeThreadEach DEF StopThreads, QueueOf
<1>5. ASSUME NEW p \in Queues, SignalStop(p) \/ Signal(p)
      PROVE  sem'[q] > 0 \/ toStop'[q] > 0
  <2>1. /\ running' = running /\ thread' = thread /\ sem' = [sem EXCEPT ![p] = 1]
        /\ \A r \in Queues \ {p} : toStop'[r] = toStop[r]
    BY <1>2, <1>5 DEF SignalStop, Signal
  <2>2. sem[q] > 0 \/ toStop[q] > 0
    BY <2>1 DEF StopInv, At
  <2>3. CASE q = p
    BY <1>1, <1>2, <2>1, <2>3
  <2>4. CASE q # p
    BY <1>1, <1>2, <2>1, <2>2, <2>4
  <2> QED BY <2>3, <2>4
<1>6. ASSUME \/ \E w \in Workloads : AddWorkload(w)
             \/ \E p \in Packets : ReadCallback(p)
             \/ UNCHANGED pool_vars
      PROVE  sem'[q] > 0 \/ toStop'[q] > 0
  BY <1>6 DEF AddWorkload, ReadCallback, pool_vars, StopInv, At
<1>7. ASSUME NEW u \in Threads, DoWork(u) \/ EndWork(u)
      PROVE  sem'[q] > 0 \/ toStop'[q] > 0
  <2>1. toStop' = toStop /\ ~running
    BY <1>7 DEF DoWork, TestRunning, TakeFirst, FindEmpty, WakeUp, EndWork
  <2>2. CASE u = t
    <3>1. CASE FindEmpty(u)
      BY <2>1, <2>2, <3>1 DEF FindEmpty, StopInv
    <3>2. CASE TakeFirst(u)
      BY <2>2, <3>2 DEF TakeFirst, PoolTypeOK, At
    <3>3. CASE WakeUp(u) \/ EndWork(u) \/ TestRunning(u)
      <4>1. GoTo(u, "test") \/ GoTo(u, "ended")
        BY <2>1, <3>3 DEF WakeUp, EndWork, TestRunning
      <4>2. At(u, "test")' \/ At(u, "ended")'
        BY <4>1, ThreadMoves
      <4> QED BY <2>2, <4>2 DEF At
    <3> QED BY <1>7, <3>1, <3>2, <3>3 DEF DoWork
  <2>3. CASE u # t
    <3>1. QueueOf(u) # q /\ QueueOf(u) \in Queues
      BY <2>3, QueueOfType DEF OneThreadEach
    <3>2. thread'[t] = thread[t]
      <4>1. CASE TakeFirst(u)
        BY <2>3, <4>1 DEF TakeFirst, PoolTypeOK
      <4>2. CASE ~TakeFirst(u)
        <5>1. \E label \in Labels : GoTo(u, label)
          BY <1>7, <4>2 DEF DoWork, TestRunning, FindEmpty, WakeUp, EndWork, Labels
        <5> QED BY <2>3, <5>1, ThreadMoves
      <4> QED BY <4>1, <4>2
    <3>3. sem'[q] = sem[q]
      BY <1>1, <1>2, <1>7, <3>1
         DEF DoWork, TestRunning, TakeFirst, FindEmpty, WakeUp, EndWork
    <3>4. sem[q] > 0 \/ toStop[q] > 0
      BY <2>1, <3>2 DEF StopInv, At
    <3> QED BY <2>1, <3>3, <3>4
  <2> QED BY <2>2, <2>3
<1> QED BY <1>3, <1>4, <1>5, <1>6, <1>7 DEF PoolNext, NextPool

\* When each queue has one thread at most, no thread of a stopped pool sleeps on,
\* although stopThreads clears the flag before it signals.
THEOREM NobodySleepsPastStop == PoolSpec => [](OneThreadEach => NoSleepPastStop)
<1>1. InitPool => (OneThreadEach => StopInv)
  BY DEF InitPool, StopInv, At
<1>2. PoolTypeOK /\ (OneThreadEach => StopInv) /\ [PoolNext]_pool_vars
        => (OneThreadEach => StopInv)'
  <2>1. OneThreadEach' = OneThreadEach
    BY DEF OneThreadEach, Threads, QueueOf
  <2> QED BY <2>1, NextStops
<1>3. (OneThreadEach => StopInv) => (OneThreadEach => NoSleepPastStop)
  BY DEF StopInv, NoSleepPastStop
<1> QED BY <1>1, <1>2, <1>3, InitPoolTypeOK, PoolNextTypeOK, PTL DEF PoolSpec

-----------------------------------------------------------------------------
(* The writer is one of the pool's producers.                              *)

LEMMA RoleNeverChanges == [Next]_vars => role' = role
  BY DEF Next, vars, others, history_vars, NewChange, SetAllChangesToUnsent, Progress,
         StartPush, TestProxy, SendNext, GiveUp, ReadNext, WriteNext, Receive, kept,
         MatchKnownReader, MatchNewReader, RemoveReaderOfParticipant, Disregard

LEMMA NextIsPoolNext ==
  ASSUME role \in Roles, [Next]_vars
  PROVE  [PoolNext]_pool_vars
<1>1. CASE NextPool \/ StopThreads
  BY <1>1 DEF PoolNext
<1>2. CASE \E p \in Traffic[role] : ReadCallback(p)
  <2>1. Traffic[role] \subseteq Packets
    BY StatelessAssumption
  <2> QED BY <1>2, <2>1 DEF PoolNext
<1>3. CASE NewChange \/ SetAllChangesToUnsent
  <2>1. AddWorkload(Writer)
    BY <1>3 DEF NewChange, SetAllChangesToUnsent
  <2> QED BY <2>1, StatelessAssumption DEF PoolNext
<1>4. CASE \E t \in Threads : Progress(t) \/ Receive(t)
  <2>1. PICK t \in Threads : Progress(t) \/ Receive(t)
    BY <1>4
  <2>2. EndWork(t) \/ UNCHANGED pool_vars
    BY <2>1 DEF Progress, StartPush, TestProxy, SendNext, GiveUp, ReadNext, WriteNext,
                Receive, MatchNewReader, Disregard
  <2> QED BY <2>2 DEF PoolNext
<1>5. CASE MatchKnownReader \/ RemoveReaderOfParticipant
  BY <1>5 DEF MatchKnownReader, RemoveReaderOfParticipant
<1>6. CASE UNCHANGED vars
  BY <1>6 DEF vars
<1> QED BY <1>1, <1>2, <1>3, <1>4, <1>5, <1>6 DEF Next

\* Every behaviour of the writer is one of the pool among producers that fill its
\* queues and end its work at any time.
THEOREM UsesThePool == Spec => PoolSpec
<1>1. Init => InitPool /\ role \in Roles
  BY DEF Init
<1>2. role \in Roles /\ [Next]_vars => (role \in Roles)' /\ [PoolNext]_pool_vars
  BY RoleNeverChanges, NextIsPoolNext
<1> QED BY <1>1, <1>2, PTL DEF Spec, PoolSpec

\* The pool's rings, semaphores and threads stay what they are under the writer.
THEOREM PoolStaysTyped == Spec => []PoolTypeOK
  BY UsesThePool, PoolTypeCorrect, PTL

\* A queued publication and a received packet never wait for a thread that nobody
\* will wake.
THEOREM WorkIsSeen == Spec => []NoSleepOnWork
  BY UsesThePool, NobodySleepsOnWork, PTL

\* With the one thread config.h gives each queue, stopThreads reaches them all.
THEOREM StopIsSeen == Spec => []NoSleepPastStop
<1>1. OneThreadEach
  BY StatelessAssumption
<1> QED BY <1>1, UsesThePool, NobodySleepsPastStop, PTL

-----------------------------------------------------------------------------
(* The rings implement BoundedQueue.                                       *)

LEMMA InitQueues == InitPool => \A q \in Queues : Contents(queue[q]) = <<>>
<1>1. Contents(EmptyRing(Nothing)) = <<>>
  BY DEF Contents, Count, EmptyRing
<1> QED BY <1>1 DEF InitPool

LEMMA QueueStepImplements ==
  ASSUME QueueStep("out", Workloads), QueueStep("in", Packets)
  PROVE  /\ [Out!Next]_(Contents(queue["out"]))
         /\ [In!Next]_(Contents(queue["in"]))
<1>1. [Out!Next]_(Contents(queue["out"]))
  BY DEF QueueStep, Out!Next, Out!Put, Out!Take
<1>2. [In!Next]_(Contents(queue["in"]))
  BY DEF QueueStep, In!Next, In!Put, In!Take
<1> QED BY <1>1, <1>2

\* Whatever producers and threads do, workloads and packets leave their rings in
\* the order they came, each once, and one that does not fit changes nothing.
THEOREM RingsAreQueues == Spec => QueuesAreFifo
<1>1. InitPool => Out!Init /\ In!Init
  BY InitQueues DEF Out!Init, In!Init, Queues
<1>2. PoolTypeOK /\ [PoolNext]_pool_vars
        => /\ [Out!Next]_(Contents(queue["out"]))
           /\ [In!Next]_(Contents(queue["in"]))
  BY QueuesStep, QueueStepImplements
<1> QED BY <1>1, <1>2, UsesThePool, PoolTypeCorrect, PTL
        DEF PoolSpec, QueuesAreFifo, Out!Spec, In!Spec

-----------------------------------------------------------------------------
(* Nothing is sent again.                                                  *)

\* What the history and the progress of the writer thread are.
SendTypeOK ==
  /\ role \in Roles
  /\ first \in Nat \ {0} /\ lastUsed \in Nat /\ first <= lastUsed + 1
  /\ lastUsed - first + 1 <= HistorySize
  /\ next \in Nat \ {0} /\ pushed \in Nat
  /\ push = [at |-> push.at, todo |-> push.todo, old |-> push.old]
  /\ push.at \in {"idle", "loop", "send", "read", "write"} /\ push.old \in Nat

\* The strengthening: while a push goes on and next is still what was sent last,
\* the history holds it, so that a push given up has next past what it sent.
SendInv ==
  /\ SendTypeOK
  /\ NothingSentAgain
  /\ role = "user" /\ push.at \in {"loop", "send"} /\ next = pushed => next \in Held

LEMMA InitSendInv == Init => SendInv
  BY StatelessAssumption DEF Init, SendInv, SendTypeOK, NothingSentAgain, Idle, Held

LEMMA NewChangeKeepsSendInv ==
  ASSUME SendInv, NewChange
  PROVE  SendInv'
<1>1. /\ role' = role /\ push' = push /\ pushed' = pushed
      /\ lastUsed' = lastUsed + 1
      /\ first' = (IF lastUsed - first + 1 = HistorySize THEN first + 1 ELSE first)
      /\ next' = (IF lastUsed - first + 1 = HistorySize /\ next < first + 1
                  THEN first + 1 ELSE next)
  BY DEF NewChange, Full, NextAfterDrop
<1>2. HistorySize \in Nat \ {0}
  BY StatelessAssumption
<1>3. SendTypeOK'
  BY <1>1, <1>2 DEF SendInv, SendTypeOK
<1>4. next' >= next /\ (next' = next /\ next \in Held => next' \in Held')
  BY <1>1, <1>2 DEF SendInv, SendTypeOK, Held
<1> QED BY <1>1, <1>3, <1>4 DEF SendInv, SendTypeOK, NothingSentAgain

LEMMA ProgressKeepsSendInv ==
  ASSUME SendInv, NEW t \in Threads, Progress(t)
  PROVE  SendInv'
<1>1. /\ role' = role /\ first' = first /\ lastUsed' = lastUsed
  BY DEF Progress, StartPush, TestProxy, SendNext, GiveUp, ReadNext, WriteNext, history_vars
<1> USE DEF SendInv, SendTypeOK, NothingSentAgain
<1>2. CASE StartPush(t)
  <2>1. /\ push.at = "idle" /\ next' = next /\ pushed' = pushed
        /\ push'.at \in {"read", "loop"} /\ push'.old = push.old
        /\ push' = [at |-> push'.at, todo |-> push'.todo, old |-> push'.old]
    BY <1>2 DEF StartPush, history_vars
  <2> QED BY <1>1, <2>1 DEF Held
<1>3. CASE TestProxy(t)
  <2>1. /\ push.at = "loop" /\ next' = next /\ pushed' = pushed
        /\ push'.at \in {"loop", "send", "read"} /\ push'.old = push.old
        /\ push' = [at |-> push'.at, todo |-> push'.todo, old |-> push'.old]
    BY <1>3 DEF TestProxy, AfterTurn, history_vars
  <2> QED BY <1>1, <2>1 DEF Held
<1>4. CASE SendNext(t)
  <2>1. /\ push.at = "send" /\ next' = next /\ pushed' = next /\ next \in Held
        /\ push'.at \in {"loop", "read"} /\ push'.old = push.old
        /\ push' = [at |-> push'.at, todo |-> push'.todo, old |-> push'.old]
    BY <1>4 DEF SendNext, AfterTurn, history_vars
  <2> QED BY <1>1, <2>1 DEF Held
<1>7. CASE GiveUp(t)
  <2>1. /\ push.at = "send" /\ next' = next /\ pushed' = pushed /\ push' = Idle
        /\ next \notin Held
    BY <1>7 DEF GiveUp, history_vars
  <2> QED BY <1>1, <2>1 DEF Idle, Held
<1>5. CASE ReadNext(t)
  BY <1>1, <1>5 DEF ReadNext, history_vars, Held
<1>6. CASE WriteNext(t)
  BY <1>1, <1>6 DEF WriteNext, Idle, Held
<1> QED BY <1>2, <1>3, <1>4, <1>5, <1>6, <1>7 DEF Progress

LEMMA NextKeepsSendInv ==
  ASSUME SendInv, [Next]_vars
  PROVE  SendInv'
<1>1. CASE NewChange
  BY <1>1, NewChangeKeepsSendInv
<1>2. CASE \E t \in Threads : Progress(t)
  BY <1>2, ProgressKeepsSendInv
<1>3. CASE SetAllChangesToUnsent
  <2>1. /\ role = "announcer" /\ next' = first
        /\ UNCHANGED <<role, first, lastUsed, push, pushed>>
    BY <1>3 DEF SetAllChangesToUnsent
  <2> QED BY <2>1 DEF Held, SendInv, SendTypeOK, NothingSentAgain
<1>4. CASE UNCHANGED <<history_vars, push, pushed>>
  BY <1>4 DEF history_vars, SendInv, SendTypeOK, NothingSentAgain, Held
<1>5. CASE \E t \in Threads : Receive(t)
  BY <1>4, <1>5 DEF Receive, MatchNewReader, Disregard, kept
<1>6. CASE MatchKnownReader \/ RemoveReaderOfParticipant
  BY <1>4, <1>6 DEF MatchKnownReader, RemoveReaderOfParticipant, kept
<1> QED BY <1>1, <1>2, <1>3, <1>4, <1>5, <1>6 DEF Next, others, kept, vars

\* Nothing a user publishes is sent for two workloads, or out of order, although
\* newChange moves next forward while a push works and the push writes back a next
\* it has read before.
THEOREM SendsNothingAgain == Spec => []NothingSentAgain
  BY InitSendInv, NextKeepsSendInv, PTL DEF Spec, SendInv

-----------------------------------------------------------------------------
(* The writer stays what it is.                                            *)

PushOK ==
  /\ used \in SUBSET Slots
  /\ push \in [at : {"idle", "loop", "send", "read", "write"},
               todo : SUBSET Slots, old : Nat]
  /\ push.at \in {"loop", "send"} <=> push.todo # {}

LEMMA FirstOfIn ==
  ASSUME NEW S \in SUBSET Slots, S # {}
  PROVE  FirstOf(S) \in S
<1>1. S \subseteq Nat
  BY DEF Slots
<1>2. PICK i \in S : \A j \in S : <<j, i>> \notin OpToRel(<, Nat)
  BY <1>1, NatLessThanWellFounded, WFMin
<1>3. ASSUME NEW j \in S PROVE i <= j
  <2>1. ~ j < i
    BY <1>1, <1>2 DEF OpToRel
  <2> QED BY <1>1, <2>1
<1> QED BY <1>3 DEF FirstOf

LEMMA NextKeepsPush ==
  ASSUME SendInv, PushOK, [Next]_vars
  PROVE  PushOK'
<1>1. CASE UNCHANGED <<used, push>>
  BY <1>1 DEF PushOK
<1>2. ASSUME NEW t \in Threads, Progress(t)
      PROVE  PushOK'
  <2>1. CASE StartPush(t)
    BY <2>1 DEF StartPush, PushOK
  <2>2. CASE TestProxy(t)
    BY <2>2 DEF TestProxy, AfterTurn, NextSlots, PushOK
  <2>3. CASE SendNext(t)
    BY <2>3 DEF SendNext, AfterTurn, NextSlots, PushOK
  <2>4. CASE GiveUp(t) \/ WriteNext(t)
    BY <2>4 DEF GiveUp, WriteNext, Idle, PushOK
  <2>5. CASE ReadNext(t)
    BY <2>5 DEF ReadNext, PushOK, SendInv, SendTypeOK
  <2> QED BY <1>2, <2>1, <2>2, <2>3, <2>4, <2>5 DEF Progress
<1>3. AddNewMatchedReader => used' \in SUBSET Slots
  <2>1. CASE Free = {}
    BY <2>1 DEF AddNewMatchedReader, PushOK
  <2>2. CASE Free # {}
    <3>1. FirstOf(Free) \in Free
      BY <2>2, FirstOfIn DEF Free
    <3> QED BY <2>2, <3>1 DEF AddNewMatchedReader, PushOK, Free
  <2> QED BY <2>1, <2>2
<1>4. CASE \E t \in Threads : Receive(t)
  BY <1>1, <1>3, <1>4 DEF Receive, MatchNewReader, Disregard, kept, PushOK
<1>5. CASE MatchKnownReader
  BY <1>3, <1>5 DEF MatchKnownReader, kept, PushOK
<1>6. CASE RemoveReaderOfParticipant
  BY <1>6 DEF RemoveReaderOfParticipant, kept, PushOK
<1> QED BY <1>1, <1>2, <1>4, <1>5, <1>6
        DEF Next, others, kept, vars, NewChange, SetAllChangesToUnsent

LEMMA InitPushOK == Init => PushOK
  BY StatelessAssumption DEF Init, PushOK, Idle, Slots

\* The writer's history, its pool of proxies and the progress of the writer thread stay
\* what they are, for every order of publications, pushes, matches and removals.
THEOREM WriterTypeCorrect == Spec => []TypeOK
<1>1. PoolTypeOK /\ SendInv /\ PushOK => TypeOK
  BY DEF SendInv, SendTypeOK, PushOK, TypeOK
<1> QED BY <1>1, PoolStaysTyped, InitSendInv, NextKeepsSendInv, InitPushOK, NextKeepsPush,
          PTL DEF Spec

=============================================================================
