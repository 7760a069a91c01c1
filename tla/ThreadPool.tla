----------------------------- MODULE ThreadPool -----------------------------
(***************************************************************************)
(* ThreadPool: two bounded queues, each with a semaphore and the threads   *)
(* that empty it.  Writers put themselves into the outgoing queue once per *)
(* publication and a writer thread calls their progress; lwIP's thread     *)
(* puts every UDP packet into the incoming queue and a reader thread hands *)
(* it to the Domain.  What a thread does with its element is left to the   *)
(* modules that extend this one: it ends with EndWork.                     *)
(*                                                                         *)
(* A semaphore of the lwIP port on ESP-IDF is binary (external): signalling *)
(* one that is already up leaves it up.                                    *)
(***************************************************************************)
EXTENDS CircularBuffer, FiniteSets

CONSTANTS
  WriterThreads,   \* m_writers
  ReaderThreads,   \* m_readers
  Workloads,       \* writers that may be queued
  Packets,         \* UDP packets that may arrive
  Nothing,         \* the element of a slot, or of a thread, that has none
  MaxPackets       \* bound: packets that arrive

ASSUME PoolAssumption ==
  /\ WriterThreads \cap ReaderThreads = {}
  /\ IsFiniteSet(WriterThreads) /\ IsFiniteSet(ReaderThreads)
  /\ Nothing \notin Workloads \cup Packets
  /\ MaxPackets \in Nat

VARIABLES
  running,      \* m_running
  queue,        \* m_queueOutgoing and m_queueIncoming
  sem,          \* m_writerNotificationSem and m_readerNotificationSem
  unsignalled,  \* elements queued whose signal has not been given yet
  thread,       \* where each thread stands, and the element it works on
  toStop,       \* signals stopThreads has still to give
  rxStats       \* m_rxStats

pool_vars == <<running, queue, sem, unsignalled, thread, toStop, rxStats>>

-----------------------------------------------------------------------------
Queues == {"out", "in"}

Threads == WriterThreads \cup ReaderThreads

QueueOf(t) == IF t \in WriterThreads THEN "out" ELSE "in"

\* config.h gives each queue one thread.  With two, the second signal of a stop
\* may find the binary semaphore still up, and one of the two sleeps on.
OneThreadEach == \A t, u \in Threads : QueueOf(t) = QueueOf(u) => t = u

Elements(q) == IF q = "out" THEN Workloads ELSE Packets

InitPool ==
  /\ running = FALSE
  /\ queue = [q \in Queues |-> EmptyRing(Nothing)]
  /\ sem = [q \in Queues |-> 0]
  /\ unsignalled = [q \in Queues |-> 0]
  /\ thread = [t \in Threads |-> [at |-> "unborn", item |-> Nothing]]
  /\ toStop = [q \in Queues |-> 0]
  /\ rxStats = [received |-> 0, dropped |-> 0]

-----------------------------------------------------------------------------
(* Starting and stopping.                                                  *)

StartThreads ==
  /\ \A t \in Threads : thread[t].at = "unborn"
  /\ running' = TRUE
  /\ thread' = [t \in Threads |-> [at |-> "test", item |-> Nothing]]
  /\ UNCHANGED <<queue, sem, unsignalled, toStop, rxStats>>

\* Mutant of StopThreads: only the writer threads are signalled.
StopThreadsOneQueue ==
  /\ running
  /\ running' = FALSE
  /\ toStop' = [out |-> Cardinality(WriterThreads), in |-> 0]
  /\ UNCHANGED <<queue, sem, unsignalled, thread, rxStats>>

\* stopThreads clears the flag and then signals once for each thread, first the
\* writer threads, then the reader threads.
StopThreads ==
  /\ running
  /\ running' = FALSE
  /\ toStop' = [out |-> Cardinality(WriterThreads), in |-> Cardinality(ReaderThreads)]
  /\ UNCHANGED <<queue, sem, unsignalled, thread, rxStats>>

SignalStop(q) ==
  /\ toStop[q] > 0
  /\ q = "in" => toStop["out"] = 0
  /\ toStop' = [toStop EXCEPT ![q] = @ - 1]
  /\ sem' = [sem EXCEPT ![q] = 1]
  /\ UNCHANGED <<running, queue, unsignalled, thread, rxStats>>

-----------------------------------------------------------------------------
(* Filling the queues.                                                     *)

\* Mutant of Enqueue: the signal is left out.
EnqueueSilently(q, x) ==
  /\ ~RingFull(queue[q])
  /\ queue' = [queue EXCEPT ![q] = MoveElementIntoBuffer(@, x)]
  /\ UNCHANGED unsignalled

\* The first half of addWorkload and addNewPacket, when there is room.
Enqueue(q, x) ==
  /\ ~RingFull(queue[q])
  /\ queue' = [queue EXCEPT ![q] = MoveElementIntoBuffer(@, x)]
  /\ unsignalled' = [unsignalled EXCEPT ![q] = @ + 1]

\* addWorkload up to its signal; the writers do not look at its result.
AddWorkload(w) ==
  /\ \/ Enqueue("out", w)
     \/ RingFull(queue["out"]) /\ UNCHANGED <<queue, unsignalled>>
  /\ UNCHANGED <<running, sem, thread, toStop, rxStats>>

\* readCallback: a chained packet is copied into one buffer, queued and
\* counted; a packet that does not fit is dropped and counted.  One thread, that
\* of lwIP, calls it.
ReadCallback(p) ==
  /\ unsignalled["in"] = 0
  /\ rxStats.received + rxStats.dropped < MaxPackets
  /\ \/ /\ Enqueue("in", p)
        /\ rxStats' = [rxStats EXCEPT !.received = @ + 1]
     \/ /\ RingFull(queue["in"])
        /\ rxStats' = [rxStats EXCEPT !.dropped = @ + 1]
        /\ UNCHANGED <<queue, unsignalled>>
  /\ UNCHANGED <<running, sem, thread, toStop>>

\* The second half: the signal, after the ring's lock was given up.
Signal(q) ==
  /\ unsignalled[q] > 0
  /\ unsignalled' = [unsignalled EXCEPT ![q] = @ - 1]
  /\ sem' = [sem EXCEPT ![q] = 1]
  /\ UNCHANGED <<running, queue, thread, toStop, rxStats>>

-----------------------------------------------------------------------------
(* doWriterWork and doReaderWork: the loops of the threads.                *)

At(t, label) == thread[t].at = label

GoTo(t, label) == thread' = [thread EXCEPT ![t] = [at |-> label, item |-> Nothing]]

TestRunning(t) ==
  /\ At(t, "test")
  /\ GoTo(t, IF running THEN "take" ELSE "ended")
  /\ UNCHANGED <<running, queue, sem, unsignalled, toStop, rxStats>>

TakeFirst(t) ==
  /\ At(t, "take")
  /\ ~RingEmpty(queue[QueueOf(t)])
  /\ thread' = [thread EXCEPT ![t] =
                  [at |-> "work", item |-> FirstOfRing(queue[QueueOf(t)])]]
  /\ queue' = [queue EXCEPT ![QueueOf(t)] = MoveFirstInto(@, Nothing)]
  /\ UNCHANGED <<running, sem, unsignalled, toStop, rxStats>>

FindEmpty(t) ==
  /\ At(t, "take")
  /\ RingEmpty(queue[QueueOf(t)])
  /\ GoTo(t, "wait")
  /\ UNCHANGED <<running, queue, sem, unsignalled, toStop, rxStats>>

\* Mutant of WakeUp: the flag is not tested again.
WakeUpUntested(t) ==
  /\ At(t, "wait")
  /\ sem[QueueOf(t)] > 0
  /\ sem' = [sem EXCEPT ![QueueOf(t)] = 0]
  /\ GoTo(t, "take")
  /\ UNCHANGED <<running, queue, unsignalled, toStop, rxStats>>

WakeUp(t) ==
  /\ At(t, "wait")
  /\ sem[QueueOf(t)] > 0
  /\ sem' = [sem EXCEPT ![QueueOf(t)] = 0]
  /\ GoTo(t, "test")
  /\ UNCHANGED <<running, queue, unsignalled, toStop, rxStats>>

EndWork(t) ==
  /\ At(t, "work")
  /\ GoTo(t, "test")
  /\ UNCHANGED <<running, queue, sem, unsignalled, toStop, rxStats>>

DoWork(t) == TestRunning(t) \/ TakeFirst(t) \/ FindEmpty(t) \/ WakeUp(t)

-----------------------------------------------------------------------------
\* What the pool does of itself, once started.
NextPool ==
  \/ StartThreads
  \/ \E q \in Queues : SignalStop(q) \/ Signal(q)
  \/ \E t \in Threads : DoWork(t)

\* The pool among components that fill its queues and end its work at any time.
PoolNext ==
  \/ NextPool \/ StopThreads
  \/ \E w \in Workloads : AddWorkload(w)
  \/ \E p \in Packets : ReadCallback(p)
  \/ \E t \in Threads : EndWork(t)

PoolSpec == InitPool /\ [][PoolNext]_pool_vars

-----------------------------------------------------------------------------
(* Properties.                                                             *)

PoolTypeOK ==
  /\ running \in BOOLEAN
  /\ queue \in [Queues -> Ring(Workloads \cup Packets \cup {Nothing})]
  /\ sem \in [Queues -> {0, 1}]
  /\ unsignalled \in [Queues -> Nat]
  /\ thread \in [Threads ->
       [at : {"unborn", "test", "take", "work", "wait", "ended"},
        item : Workloads \cup Packets \cup {Nothing}]]
  /\ toStop \in [Queues -> Nat]
  /\ rxStats \in [received : Nat, dropped : Nat]

\* No thread sleeps on work: while one waits and its queue is not empty, a
\* signal is up or still to be given, or another thread is on its way to the
\* queue, however the test for an empty ring, the wait and the signals of
\* several producers interleave.  The one signal a binary semaphore keeps is
\* enough for all elements.
Awake(t) == \/ At(t, "test") \/ At(t, "take") \/ At(t, "work")

NoSleepOnWork ==
  running => \A q \in Queues :
    ~RingEmpty(queue[q]) =>
      \/ sem[q] > 0 \/ unsignalled[q] > 0
      \/ \E t \in Threads : QueueOf(t) = q /\ Awake(t)

\* A stopped pool lets no thread sleep on: each one that waits has a signal up
\* or still to come, although stopThreads clears the flag before the threads
\* that have just tested it go to sleep.
NoSleepPastStop ==
  \A t \in Threads :
    ~running /\ At(t, "wait") => sem[QueueOf(t)] > 0 \/ toStop[QueueOf(t)] > 0
=============================================================================
