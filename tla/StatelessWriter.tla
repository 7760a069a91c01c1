-------------------------- MODULE StatelessWriter --------------------------
(***************************************************************************)
(* StatelessWriterT, the best-effort writer, pushed by the thread pool.  A  *)
(* user writer publishes from the application thread, which also matches   *)
(* it with the readers known before; the writer that announces the         *)
(* participant has one reader and one change, which the SPDP thread makes  *)
(* unsent again and again.  The reader thread handles one packet after the *)
(* other and so matches remote readers; the SPDP thread removes those of a *)
(* participant whose lease has run out.                                    *)
(*                                                                         *)
(* A best-effort writer does not enforce unicast: of its proxies some send *)
(* for others.  SendOptions models which, and the walks over the proxies   *)
(* that decide it; here a push finds any proxy of a user's writer either   *)
(* way, and a match and a removal are what they do to the pool of proxies. *)
(* What arrives is what was sent: loss on the network only takes away.     *)
(***************************************************************************)
EXTENDS ThreadPool

CONSTANTS
  Roles,        \* what the writer is for: "user", "announcer" or both
  Traffic,      \* bound: the packets that arrive in each role
  Stopped,      \* bound: the roles in which the pool is stopped
  Writer,       \* the writer, as a workload
  HistorySize,  \* HISTORY_SIZE_STATELESS
  ProxySlots,   \* NUM_READER_PROXIES_PER_WRITER
  MaxSN         \* bound: changes published

ASSUME StatelessAssumption ==
  /\ Writer \in Workloads
  /\ OneThreadEach
  /\ \A r \in Roles : Traffic[r] \subseteq Packets
  /\ HistorySize \in Nat \ {0} /\ ProxySlots \in Nat \ {0} /\ MaxSN \in Nat

VARIABLES
  role,      \* one of Roles
  first,     \* the oldest change held
  lastUsed,  \* the newest sequence number given out
  next,      \* m_nextSequenceNumberToSend
  used,      \* m_proxies: the slots in use, the pool's bitmap
  push,      \* the progress of the writer thread
  pushed     \* the change sent last; 0 for none

history_vars == <<role, first, lastUsed, next>>

vars == <<pool_vars, history_vars, used, push, pushed>>

-----------------------------------------------------------------------------
SN == 1 .. MaxSN

Held == first .. lastUsed

Idle == [at |-> "idle", todo |-> {}, old |-> 0]

Slots == 1 .. ProxySlots

FirstOf(S) == CHOOSE i \in S : \A j \in S : i <= j

NextSlots(S) == IF used = {} THEN {} ELSE S \ {FirstOf(S)}

Free == Slots \ used

\* m_mutex is free: the last publication has given its signal.
Unlocked == unsignalled["out"] = 0

-----------------------------------------------------------------------------
(* newChange, newChangeCallback and setAllChangesToUnsent, under m_mutex,  *)
(* which is held until addWorkload has given its signal.                   *)

\* A full history drops its oldest change; next moves past it.
Full == lastUsed - first + 1 = HistorySize

NextAfterDrop == IF Full /\ next < first + 1 THEN first + 1 ELSE next

NewChange ==
  /\ Unlocked
  /\ lastUsed < IF role = "user" THEN MaxSN ELSE 1
  /\ lastUsed' = lastUsed + 1
  /\ first' = IF Full THEN first + 1 ELSE first
  /\ next' = NextAfterDrop
  /\ AddWorkload(Writer)
  /\ UNCHANGED <<role, used, push, pushed>>

\* Mutant of SetAllChangesToUnsent: no workload is added.
SetAllUnsentQuietly ==
  /\ Unlocked
  /\ role = "announcer" /\ lastUsed > 0
  /\ next' = first
  /\ UNCHANGED <<pool_vars, role, first, lastUsed, used, push, pushed>>

SetAllChangesToUnsent ==
  /\ Unlocked
  /\ role = "announcer" /\ lastUsed > 0
  /\ next' = first
  /\ AddWorkload(Writer)
  /\ UNCHANGED <<role, first, lastUsed, used, push, pushed>>

-----------------------------------------------------------------------------
Init ==
  /\ InitPool
  /\ role \in Roles
  /\ first = 1 /\ lastUsed = 0 /\ next = 1
  /\ used = IF role = "user" THEN {} ELSE {1}
  /\ push = Idle
  /\ pushed = 0

-----------------------------------------------------------------------------
(* The proxies: matches and removals.                                      *)

kept == <<history_vars, push, pushed>>

\* addNewMatchedReader, without the lock; a full pool takes no more.
AddNewMatchedReader ==
  \/ Free # {} /\ used' = used \cup {FirstOf(Free)}
  \/ Free = {} /\ UNCHANGED used

\* The application thread, with a reader known before.
MatchKnownReader ==
  /\ role = "user"
  /\ AddNewMatchedReader
  /\ UNCHANGED <<pool_vars, kept>>

\* The reader thread, with the reader a packet brings.
MatchNewReader(t) ==
  /\ t \in ReaderThreads
  /\ At(t, "work") /\ thread[t].item.kind = "match"
  /\ role = "user"
  /\ AddNewMatchedReader
  /\ EndWork(t)
  /\ UNCHANGED kept

\* Nothing discovery brings concerns the announcer: its one reader is the
\* multicast address every participant listens to.
Disregard(t) ==
  /\ t \in ReaderThreads
  /\ role = "announcer"
  /\ EndWork(t)
  /\ UNCHANGED <<kept, used>>

\* The SPDP thread, when a lease has run out: some of the proxies go.
RemoveReaderOfParticipant ==
  /\ role = "user" /\ Unlocked
  /\ \E S \in SUBSET used \ {{}} : used' = used \ S
  /\ UNCHANGED <<pool_vars, kept>>

-----------------------------------------------------------------------------
(* The writer thread: progress.                                            *)

Pushing(t) == t \in WriterThreads /\ At(t, "work")

\* The loop's iterator takes a copy of the bitmap.
StartPush(t) ==
  /\ Pushing(t) /\ push.at = "idle"
  /\ push' = [push EXCEPT !.at = IF used = {} THEN "read" ELSE "loop", !.todo = used]
  /\ UNCHANGED <<pool_vars, history_vars, used, pushed>>

AfterTurn ==
  [push EXCEPT !.todo = NextSlots(@),
               !.at = IF NextSlots(push.todo) = {} THEN "read" ELSE "loop"]

\* A proxy somebody else sends for is passed over, as only a user's may be; its
\* flags are read without the lock.
TestProxy(t) ==
  /\ Pushing(t) /\ push.at = "loop"
  /\ \/ push' = [push EXCEPT !.at = "send"]
     \/ role = "user" /\ push' = AfterTurn
  /\ UNCHANGED <<pool_vars, history_vars, used, pushed>>

\* Next is read anew for each proxy, under the lock.
SendNext(t) ==
  /\ Pushing(t) /\ push.at = "send" /\ Unlocked
  /\ next \in Held
  /\ pushed' = next
  /\ push' = AfterTurn
  /\ UNCHANGED <<pool_vars, history_vars, used>>

\* A change not held ends progress; next stays.
GiveUp(t) ==
  /\ Pushing(t) /\ push.at = "send" /\ Unlocked
  /\ next \notin Held
  /\ push' = Idle
  /\ EndWork(t)
  /\ UNCHANGED <<history_vars, used, pushed>>

\* ++m_nextSequenceNumberToSend without the lock: a read, then a write.
ReadNext(t) ==
  /\ Pushing(t) /\ push.at = "read"
  /\ push' = [push EXCEPT !.at = "write", !.old = next]
  /\ UNCHANGED <<pool_vars, history_vars, used, pushed>>

\* Mutant of WriteNext: written back as it was read.
WriteNextUnmoved(t) ==
  /\ Pushing(t) /\ push.at = "write"
  /\ next' = push.old
  /\ push' = Idle
  /\ EndWork(t)
  /\ UNCHANGED <<role, first, lastUsed, used, pushed>>

WriteNext(t) ==
  /\ Pushing(t) /\ push.at = "write"
  /\ next' = push.old + 1
  /\ push' = Idle
  /\ EndWork(t)
  /\ UNCHANGED <<role, first, lastUsed, used, pushed>>

-----------------------------------------------------------------------------
others == <<kept, used>>

Progress(t) ==
  \/ StartPush(t) \/ TestProxy(t) \/ SendNext(t) \/ GiveUp(t)
  \/ ReadNext(t) \/ WriteNext(t)

Receive(t) == MatchNewReader(t) \/ Disregard(t)

Next ==
  \/ NextPool /\ UNCHANGED others
  \/ role \in Stopped /\ StopThreads /\ UNCHANGED others
  \/ \E p \in Traffic[role] : ReadCallback(p) /\ UNCHANGED others
  \/ NewChange
  \/ SetAllChangesToUnsent
  \/ \E t \in Threads : Progress(t) \/ Receive(t)
  \/ MatchKnownReader
  \/ RemoveReaderOfParticipant

Spec == Init /\ [][Next]_vars

\* The threads of the pool and the producers run on, and the SPDP thread goes
\* round its loop for ever.
FairSpec ==
  /\ Spec
  /\ \A q \in Queues :
       /\ WF_vars(SignalStop(q) /\ UNCHANGED others)
       /\ WF_vars(Signal(q) /\ UNCHANGED others)
  /\ \A t \in WriterThreads : WF_vars((DoWork(t) /\ UNCHANGED others) \/ Progress(t))
  /\ \A t \in ReaderThreads : WF_vars((DoWork(t) /\ UNCHANGED others) \/ Receive(t))
  /\ WF_vars(SetAllChangesToUnsent)

-----------------------------------------------------------------------------
(* Properties.                                                             *)

TypeOK ==
  /\ PoolTypeOK
  /\ role \in Roles
  /\ first \in Nat \ {0} /\ lastUsed \in Nat /\ first <= lastUsed + 1
  /\ lastUsed - first + 1 <= HistorySize
  /\ next \in Nat \ {0}
  /\ used \subseteq Slots
  /\ push \in [at : {"idle", "loop", "send", "read", "write"},
               todo : SUBSET Slots, old : Nat]
  /\ push.at \in {"loop", "send"} <=> push.todo # {}
  /\ pushed \in Nat

\* The rings keep what a queue promises.
Out == INSTANCE BoundedQueue
  WITH queue <- Contents(queue["out"]), Items <- Workloads, Capacity <- SIZE

In == INSTANCE BoundedQueue
  WITH queue <- Contents(queue["in"]), Items <- Packets, Capacity <- SIZE

QueuesAreFifo == Out!Spec /\ In!Spec

\* Nothing a user publishes is sent for two workloads, or out of order: when one
\* workload is done next is past everything sent, although newChange moves next
\* forward while progress works and progress writes back a next it has read
\* before.
NothingSentAgain ==
  role = "user" =>
    /\ push.at = "idle" => next > pushed
    /\ push.at \in {"loop", "send", "read"} => next >= pushed
    /\ push.at = "write" => push.old >= pushed

\* The participant stays announced: as long as the pool runs, the announcement
\* is sent again and again, although the SPDP thread makes it unsent while an
\* earlier push has still to write next back, and the queue may turn its
\* workload away.
StaysAnnounced ==
  <>[](running /\ role = "announcer" /\ lastUsed > 0)
    => []<><<\E t \in WriterThreads : SendNext(t)>>_vars

\* stopThreads ends every thread.
StopEndsThreads ==
  ~running /\ (\E t \in Threads : ~At(t, "unborn"))
    ~> \A t \in Threads : At(t, "ended")
=============================================================================
