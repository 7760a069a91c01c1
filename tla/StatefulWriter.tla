--------------------------- MODULE StatefulWriter ---------------------------
(***************************************************************************)
(* StatefulWriterT, the reliable writer.  Four threads share it:           *)
(*   - the application publishes (newChange, newChangeCallback);           *)
(*   - the writer thread of the pool takes one workload per publication    *)
(*     and pushes the change numbered next (progress);                     *)
(*   - the reader thread answers ACKNACKs;                                 *)
(*   - the heartbeat thread announces what is held.                        *)
(* Readers are matched by the reader thread, or by an application thread   *)
(* that creates an endpoint; the SPDP thread removes them.                 *)
(*                                                                         *)
(* The history is the abstract one of HistorySpec, which the ring of       *)
(* HistoryCache implements: a sequence of changes, the newest numbered     *)
(* lastUsed.  What each critical section of m_mutex does is one step; what *)
(* is done between two sections, or outside of them, is a step of its own. *)
(* The writer enforces unicast, as every reliable user writer does.        *)
(***************************************************************************)
EXTENDS Integers, Sequences, FiniteSets

CONSTANTS
  Readers,       \* remote readers, by GUID
  NoReader,      \* the GUID in a slot that was never set
  Participants,  \* the sets of readers that belong to one participant
  Configs,       \* the QoS settings a writer may be created with
  Kinds,         \* the samples published: "plain", "fragmented" or both
  SIZE,          \* HISTORY_SIZE_STATEFUL
  ProxySlots,    \* NUM_READER_PROXIES_PER_WRITER
  QueueLength,   \* THREAD_POOL_WORKLOAD_QUEUE_LENGTH
  FragSize,      \* bytes of a sample too large for one packet; others have 1
  MaxSN,         \* bound: changes a run accepts
  MaxRejects,    \* bound: publications a run rejects
  MaxCount,      \* bound: the count of an ACKNACK
  MaxBits,       \* bound: the length of an ACKNACK's set
  MaxHB          \* bound: heartbeat rounds

Limit == Nat                         \* 0 is "unlimited" in every setting

QoS == [keepAll : BOOLEAN, depth : Limit, maxSamples : Limit, maxBytes : Limit,
        lifespan : BOOLEAN, transientLocal : BOOLEAN]

ASSUME WriterAssumption ==
  /\ Configs \subseteq QoS
  /\ Kinds \subseteq {"plain", "fragmented"}
  /\ Participants \subseteq SUBSET Readers
  /\ SIZE \in Nat \ {0}
  /\ ProxySlots \in Nat \ {0}
  /\ QueueLength \in Nat \ {0}
  /\ FragSize \in Nat \ {0}
  /\ MaxSN \in Nat /\ MaxRejects \in Nat /\ MaxCount \in Nat
  /\ MaxBits \in Nat /\ MaxHB \in Nat

VARIABLES
  qos,         \* the settings; fixed when the writer is created
  history,     \* m_history: the kind of each change held, oldest first
  lastUsed,    \* the newest sequence number given out
  next,        \* m_nextSequenceNumberToSend
  aged,        \* the changes up to this one are older than the lifespan
  rejects,     \* m_resourceRejectCount
  drops,       \* m_lifespanDropCount
  queued,      \* this writer's workloads in the thread pool
  lost,        \* this writer's workloads the full queue turned away
  proxies,     \* m_proxies: what each slot of the pool was last set to
  used,        \* the slots in use, the pool's bitmap
  worker,      \* where the writer thread stands in progress
  todo,        \* the slots progress has still to visit
  old,         \* the value ++m_nextSequenceNumberToSend has read
  joining,     \* matched readers that have still to be sent the history
  replier,     \* where the reader thread stands, and for which slot
  asked,       \* sequence numbers the reader thread has still to send
  hbTodo,      \* the slots the heartbeat round has still to visit
  hbCount,     \* m_hbCount
  matchedAt,   \* lastUsed when each reader was matched
  sent,        \* the changes sent to each reader with their payload
  announced    \* heartbeats sent

history_vars == <<history, lastUsed, next, aged, rejects, drops>>
pool_vars    == <<queued, lost>>
proxy_vars   == <<proxies, used, matchedAt, joining>>
worker_vars  == <<worker, todo, old>>
replier_vars == <<replier, asked>>
hb_vars      == <<hbTodo, hbCount, announced>>

vars == <<qos, history_vars, pool_vars, proxy_vars, worker_vars, replier_vars,
          hb_vars, sent>>

-----------------------------------------------------------------------------
(* The history.                                                            *)

SN == 1 .. MaxSN

Bytes(kind) == IF kind = "fragmented" THEN FragSize ELSE 1

\* getTotalDataBytes
TotalDataBytes(h) ==
  Cardinality({i \in DOMAIN h : h[i] = "plain"})
    + FragSize * Cardinality({i \in DOMAIN h : h[i] = "fragmented"})

First == lastUsed - Len(history) + 1

Held == First .. lastUsed

KindOf(sn) == history[sn - First + 1]

Expired(sn) == qos.lifespan /\ sn <= aged

-----------------------------------------------------------------------------
(* The proxy pool.                                                         *)

Slots == 1 .. ProxySlots

FirstOf(S) == CHOOSE i \in S : \A j \in S : i <= j

SlotsOf(r) == {i \in used : proxies[i].reader = r}

Matched(r) == SlotsOf(r) # {}

Free == Slots \ used

\* ++ of a loop's iterator at the first of the slots S: it goes by the copy of the
\* bitmap taken when the loop began, but ends at once when the pool is empty.
NextSlots(S) == IF used = {} THEN {} ELSE S \ {FirstOf(S)}

NoTask == [at |-> "idle", slot |-> 0, beyond |-> 0]    \* of the reader thread

-----------------------------------------------------------------------------
Init ==
  /\ qos \in Configs
  /\ history = <<>>
  /\ lastUsed = 0
  /\ next = 1
  /\ aged = 0
  /\ rejects = 0
  /\ drops = 0
  /\ queued = 0
  /\ lost = 0
  /\ proxies = [i \in Slots |-> [reader |-> NoReader, ackNackCount |-> 0]]
  /\ used = {}
  /\ worker = "idle"
  /\ todo = {}
  /\ old = 0
  /\ joining = {}
  /\ replier = NoTask
  /\ asked = {}
  /\ hbTodo = {}
  /\ hbCount = 1
  /\ matchedAt = [r \in Readers |-> 0]
  /\ sent = [r \in Readers |-> {}]
  /\ announced = {}

-----------------------------------------------------------------------------
(* The application thread: newChange and newChangeCallback.  The whole     *)
(* handler runs under m_mutex.                                             *)

\* How many changes the KEEP_LAST loop drops to make room for one more.
Excess ==
  IF ~qos.keepAll /\ qos.depth > 0 /\ Len(history) >= qos.depth
  THEN Len(history) - qos.depth + 1
  ELSE 0

\* What the loop leaves, and where it moves next to: past what was dropped,
\* unless nothing is left.
Trimmed == SubSeq(history, Excess + 1, Len(history))

\* Mutant of NextAfterTrim: moves next also when nothing is left.
NextPastDropped ==
  IF Excess > 0 /\ next < First + Excess THEN First + Excess ELSE next

NextAfterTrim ==
  IF Excess > 0 /\ Trimmed # <<>> /\ next < First + Excess
  THEN First + Excess
  ELSE next

\* Mutants of Rejected: one change more than the limit; a full KEEP_ALL history
\* is overwritten.
RejectedLate(kind) ==
  \/ qos.maxSamples > 0 /\ Len(Trimmed) > qos.maxSamples
  \/ qos.maxBytes > 0 /\ TotalDataBytes(Trimmed) + Bytes(kind) > qos.maxBytes
  \/ qos.keepAll /\ Len(Trimmed) = SIZE

RejectedByLimits(kind) ==
  \/ qos.maxSamples > 0 /\ Len(Trimmed) >= qos.maxSamples
  \/ qos.maxBytes > 0 /\ TotalDataBytes(Trimmed) + Bytes(kind) > qos.maxBytes

\* The tests that make newChange return nullptr.
Rejected(kind) ==
  \/ qos.maxSamples > 0 /\ Len(Trimmed) >= qos.maxSamples
  \/ qos.maxBytes > 0 /\ TotalDataBytes(Trimmed) + Bytes(kind) > qos.maxBytes
  \/ qos.keepAll /\ Len(Trimmed) = SIZE

\* Mutant of AddWorkload: the queue is never full.
AddWorkloadUnbounded == queued' = queued + 1 /\ UNCHANGED lost

\* ThreadPool::addWorkload, whose result newChange does not look at.  The queue is
\* shared with the other writers of the pool, so it may be full at any time.
AddWorkload ==
  \/ queued < QueueLength /\ queued' = queued + 1 /\ UNCHANGED lost
  \/ lost' = lost + 1 /\ UNCHANGED queued

RejectChange(kind) ==
  /\ Rejected(kind)
  /\ rejects < MaxRejects
  /\ rejects' = rejects + 1
  /\ history' = Trimmed
  /\ next' = NextAfterTrim
  /\ UNCHANGED <<lastUsed, queued, lost>>

\* A full history makes room by overwriting its oldest change.
AcceptChange(kind) ==
  /\ ~Rejected(kind)
  /\ lastUsed < MaxSN
  /\ lastUsed' = lastUsed + 1
  /\ LET full == Len(Trimmed) = SIZE
     IN  /\ history' = Append(IF full THEN Tail(Trimmed) ELSE Trimmed, kind)
         /\ next' = IF full /\ next < First + 1 THEN First + 1 ELSE NextAfterTrim
  /\ AddWorkload
  /\ UNCHANGED rejects

NewChange(kind) ==
  /\ RejectChange(kind) \/ AcceptChange(kind)
  /\ UNCHANGED <<qos, aged, drops, proxy_vars, worker_vars, replier_vars,
                 hb_vars, sent>>

\* Time passes: changes exceed the lifespan in the order of their timestamps.
Age ==
  /\ qos.lifespan
  /\ aged < lastUsed
  /\ aged' = aged + 1
  /\ UNCHANGED <<qos, history, lastUsed, next, rejects, drops, pool_vars,
                 proxy_vars, worker_vars, replier_vars, hb_vars, sent>>

-----------------------------------------------------------------------------
(* The writer thread: progress.                                            *)

\* sendData and the history's part of it: every change held goes out whole,
\* in one packet or in fragments; a change not held is not sent.
SendData(r, sn) ==
  sent' = [sent EXCEPT ![r] = IF sn \in Held THEN @ \cup {sn} ELSE @]

\* doWriterWork takes a workload out of the queue.
TakeWorkload ==
  /\ worker = "idle"
  /\ queued > 0
  /\ queued' = queued - 1
  /\ worker' = "check"
  /\ UNCHANGED <<qos, history_vars, lost, proxy_vars, todo, old, replier_vars,
                 hb_vars, sent>>

\* Mutant of CheckLifespan: the expired change stays the next one.
CheckLifespanStays ==
  /\ worker = "check"
  /\ \/ /\ next \in Held /\ Expired(next)
        /\ drops' = drops + 1
        /\ worker' = "idle"
     \/ /\ ~(next \in Held /\ Expired(next))
        /\ worker' = "start"
        /\ UNCHANGED drops
  /\ UNCHANGED <<qos, history, lastUsed, next, aged, rejects, pool_vars, proxy_vars,
                 todo, old, replier_vars, hb_vars, sent>>

\* The lifespan check, under the lock: an expired change uses the workload up.
CheckLifespan ==
  /\ worker = "check"
  /\ \/ /\ next \in Held /\ Expired(next)
        /\ drops' = drops + 1
        /\ next' = next + 1
        /\ worker' = "idle"
     \/ /\ ~(next \in Held /\ Expired(next))
        /\ worker' = "start"
        /\ UNCHANGED <<drops, next>>
  /\ UNCHANGED <<qos, history, lastUsed, aged, rejects, pool_vars, proxy_vars,
                 todo, old, replier_vars, hb_vars, sent>>

\* Mutant of StartPush: the loop ends after its first proxy.
StartPushToOne ==
  /\ worker = "start"
  /\ todo' = IF used = {} THEN {} ELSE {FirstOf(used)}
  /\ worker' = IF used = {} THEN "read" ELSE "push"
  /\ UNCHANGED <<qos, history_vars, pool_vars, proxy_vars, old, replier_vars,
                 hb_vars, sent>>

\* The loop's iterator takes a copy of the bitmap.  With no reader matched the
\* change is multicast, which reaches no proxy.
StartPush ==
  /\ worker = "start"
  /\ todo' = used
  /\ worker' = IF used = {} THEN "read" ELSE "push"
  /\ UNCHANGED <<qos, history_vars, pool_vars, proxy_vars, old, replier_vars,
                 hb_vars, sent>>

\* One turn of the loop: next is read anew for each proxy.
Push ==
  /\ worker = "push"
  /\ SendData(proxies[FirstOf(todo)].reader, next)
  /\ todo' = NextSlots(todo)
  /\ worker' = IF NextSlots(todo) = {} THEN "read" ELSE "push"
  /\ UNCHANGED <<qos, history_vars, pool_vars, proxy_vars, old, replier_vars,
                 hb_vars>>

\* ++m_nextSequenceNumberToSend without the lock: a read, then a write.
ReadNext ==
  /\ worker = "read"
  /\ old' = next
  /\ worker' = "write"
  /\ UNCHANGED <<qos, history_vars, pool_vars, proxy_vars, todo, replier_vars,
                 hb_vars, sent>>

WriteNext ==
  /\ worker = "write"
  /\ next' = old + 1
  /\ old' = 0
  /\ worker' = "idle"
  /\ UNCHANGED <<qos, history, lastUsed, aged, rejects, drops, pool_vars,
                 proxy_vars, todo, replier_vars, hb_vars, sent>>

-----------------------------------------------------------------------------
(* Matching.                                                               *)

\* Mutant of AddNewMatchedReader: heartbeats are counted anew from the match.
AddNewMatchedReaderRecounts(r) ==
  /\ Free # {}
  /\ proxies' = [proxies EXCEPT ![FirstOf(Free)] = [reader |-> r, ackNackCount |-> 0]]
  /\ used' = used \cup {FirstOf(Free)}
  /\ joining' = IF qos.transientLocal THEN joining \cup {r} ELSE joining
  /\ matchedAt' = [matchedAt EXCEPT ![r] = IF Matched(r) THEN @ ELSE lastUsed]
  /\ hbCount' = 1
  /\ UNCHANGED <<qos, history_vars, pool_vars, worker_vars, replier_vars, hbTodo,
                 announced, sent>>

\* addNewMatchedReader adds the proxy without the lock and without looking
\* for one the reader already has ...
AddNewMatchedReader(r) ==
  /\ Free # {}
  /\ proxies' = [proxies EXCEPT ![FirstOf(Free)] = [reader |-> r, ackNackCount |-> 0]]
  /\ used' = used \cup {FirstOf(Free)}
  /\ joining' = IF qos.transientLocal THEN joining \cup {r} ELSE joining
  /\ matchedAt' = [matchedAt EXCEPT ![r] = IF Matched(r) THEN @ ELSE lastUsed]
  /\ UNCHANGED <<qos, history_vars, pool_vars, worker_vars, replier_vars, hb_vars,
                 sent>>

\* Mutant of Replay: the loop stops before the newest change.
ReplayButNewest(r) ==
  /\ r \in joining
  /\ LET whole == {sn \in Held \ {lastUsed} : KindOf(sn) = "plain"}
     IN  sent' = [sent EXCEPT ![r] = @ \cup whole]
  /\ joining' = joining \ {r}
  /\ UNCHANGED <<qos, history_vars, pool_vars, proxies, used, matchedAt, worker_vars,
                 replier_vars, hb_vars>>

\* ... and then, under the lock, sends it the history.  A fragmented change goes
\* out as a DATA without payload, which does not count as sent.  (Nor does the
\* DATA of an empty history: the loop runs once, from UNKNOWN to UNKNOWN, and
\* sends what the slot at the ring's tail was left with.)
Replay(r) ==
  /\ r \in joining
  /\ LET whole == {sn \in Held : KindOf(sn) = "plain"}
     IN  sent' = [sent EXCEPT ![r] = @ \cup whole]
  /\ joining' = joining \ {r}
  /\ UNCHANGED <<qos, history_vars, pool_vars, proxies, used, matchedAt, worker_vars,
                 replier_vars, hb_vars>>

-----------------------------------------------------------------------------
(* The reader thread: ACKNACKs, one after the other.                       *)

\* onNewAckNack: the first proxy of the reader answers; a count not above the
\* last one is ignored.
OnNewAckNack(r, base, bits, count) ==
  /\ replier.at = "idle"
  /\ Matched(r)
  /\ LET slot == FirstOf(SlotsOf(r))
     IN  /\ proxies[slot].ackNackCount < count
         /\ proxies' = [proxies EXCEPT ![slot].ackNackCount = count]
         /\ replier' = [at |-> "bits", slot |-> slot, beyond |-> base + Len(bits)]
  /\ asked' = {base + i - 1 : i \in {j \in DOMAIN bits : bits[j]}}
  /\ UNCHANGED <<qos, history_vars, pool_vars, used, matchedAt, joining, worker_vars,
                 hb_vars, sent>>

\* One sendData of the loops, each under the lock.
Answer ==
  /\ replier.at \in {"bits", "tail"}
  /\ asked # {}
  /\ SendData(proxies[replier.slot].reader, FirstOf(asked))
  /\ asked' = asked \ {FirstOf(asked)}
  /\ UNCHANGED <<qos, history_vars, pool_vars, proxy_vars, worker_vars,
                 replier, hb_vars>>

\* Mutant of AnswerBeyond: the number after the set is left out.
AnswerBeyondNext ==
  /\ replier.at = "bits"
  /\ asked = {}
  /\ asked' = IF history = <<>> THEN {} ELSE replier.beyond + 1 .. lastUsed
  /\ replier' = [replier EXCEPT !.at = "tail"]
  /\ UNCHANGED <<qos, history_vars, pool_vars, proxy_vars, worker_vars,
                 hb_vars, sent>>

\* After the numbers asked for come all from the end of the set to the newest.
AnswerBeyond ==
  /\ replier.at = "bits"
  /\ asked = {}
  /\ asked' = IF history = <<>> THEN {} ELSE replier.beyond .. lastUsed
  /\ replier' = [replier EXCEPT !.at = "tail"]
  /\ UNCHANGED <<qos, history_vars, pool_vars, proxy_vars, worker_vars,
                 hb_vars, sent>>

EndAnswer ==
  /\ replier.at = "tail"
  /\ asked = {}
  /\ replier' = NoTask
  /\ UNCHANGED <<qos, history_vars, pool_vars, proxy_vars, worker_vars,
                 asked, hb_vars, sent>>

\* removeReader and removeReaderOfParticipant clear bits of the bitmap; the
\* slots keep their contents, which a running loop still reads.
RemoveReaders(S) ==
  /\ \E r \in S : Matched(r)
  /\ used' = {i \in used : proxies[i].reader \notin S}
  /\ UNCHANGED <<qos, history_vars, pool_vars, proxies, matchedAt, joining,
                 worker_vars, replier_vars, hb_vars, sent>>

RemoveReader(r) == RemoveReaders({r})

RemoveReaderOfParticipant(P) == RemoveReaders(P)

-----------------------------------------------------------------------------
(* The heartbeat thread: sendHeartBeat.                                    *)

StartRound ==
  /\ hbTodo = {}
  /\ used # {}
  /\ hbCount <= MaxHB
  /\ hbTodo' = used
  /\ UNCHANGED <<qos, history_vars, pool_vars, proxy_vars, worker_vars,
                 replier_vars, hbCount, announced, sent>>

\* One turn of the loop.  An empty history ends the round without counting it.
Announce ==
  /\ hbTodo # {}
  /\ \/ /\ history = <<>>
        /\ hbTodo' = {}
        /\ UNCHANGED <<hbCount, announced>>
     \/ /\ history # <<>>
        /\ announced' = announced \cup
             {[reader |-> proxies[FirstOf(hbTodo)].reader, firstSN |-> First,
               lastSN |-> lastUsed, count |-> hbCount]}
        /\ hbTodo' = NextSlots(hbTodo)
        /\ hbCount' = IF NextSlots(hbTodo) = {} THEN hbCount + 1 ELSE hbCount
  /\ UNCHANGED <<qos, history_vars, pool_vars, proxy_vars, worker_vars,
                 replier_vars, sent>>

-----------------------------------------------------------------------------
Application == \E kind \in Kinds : NewChange(kind)

WriterThread == TakeWorkload \/ CheckLifespan \/ StartPush \/ Push \/ ReadNext \/ WriteNext

\* An ACKNACK as any participant may send it: from the preemptive one with
\* base 0 to one that has everything.
ReceiveAckNack ==
  \E r \in Readers, base \in 0 .. lastUsed + 1, count \in 1 .. MaxCount,
     n \in 0 .. MaxBits : \E bits \in [1 .. n -> BOOLEAN] :
       OnNewAckNack(r, base, bits, count)

Matching == \E r \in Readers : AddNewMatchedReader(r) \/ Replay(r)

ReaderThread ==
  \/ ReceiveAckNack
  \/ Answer
  \/ AnswerBeyond
  \/ EndAnswer

Removal ==
  \/ \E r \in Readers : RemoveReader(r)
  \/ \E P \in Participants : RemoveReaderOfParticipant(P)

HeartbeatThread == StartRound \/ Announce

Next ==
  \/ Application \/ Age
  \/ WriterThread \/ ReaderThread \/ HeartbeatThread
  \/ Matching \/ Removal

Spec == Init /\ [][Next]_vars

\* The loops of the writer thread and of the reader thread never stop while
\* there is work for them.
FairSpec ==
  /\ Spec
  /\ WF_vars(WriterThread)
  /\ WF_vars(Answer \/ AnswerBeyond \/ EndAnswer)

-----------------------------------------------------------------------------
(* Properties.                                                             *)

TypeOK ==
  /\ qos \in Configs
  /\ history \in Seq(Kinds) /\ Len(history) <= SIZE
  /\ lastUsed \in Nat /\ Len(history) <= lastUsed
  /\ next \in Nat \ {0}
  /\ aged \in 0 .. lastUsed
  /\ rejects \in Nat /\ drops \in Nat /\ lost \in Nat
  /\ queued \in 0 .. QueueLength
  /\ proxies \in [Slots -> [reader : Readers \cup {NoReader}, ackNackCount : Nat]]
  /\ used \subseteq Slots /\ todo \subseteq Slots /\ hbTodo \subseteq Slots
  /\ worker \in {"idle", "check", "start", "push", "read", "write"}
  /\ (worker = "push") <=> (todo # {})
  /\ old \in Nat
  /\ joining \subseteq Readers
  /\ replier \in [at : {"idle", "bits", "tail"}, slot : 0 .. ProxySlots,
                  beyond : Nat]
  /\ asked \subseteq Nat
  /\ hbCount \in Nat \ {0}
  /\ matchedAt \in [Readers -> Nat]
  /\ sent \in [Readers -> SUBSET Nat]

\* A publication never overtakes next: every workload in the queue or in
\* progress moves next by one, and together with those the full queue turned
\* away they bring it past the newest change.  However the unlocked increment
\* of progress interleaves with the KEEP_LAST branch of newChange, which moves
\* next too, no accepted change is left without its turn.
Due == IF worker = "write" THEN old + 1
       ELSE IF worker = "idle" THEN next ELSE next + 1

PushNeverLags == Due + queued + lost > lastUsed

\* With KEEP_ALL, and with a depth of one, newChange never moves next, and the
\* workloads match the changes one to one.
NeverMovesNext == qos.keepAll \/ qos.depth = 1

PushInStep == NeverMovesNext => Due + queued + lost = lastUsed + 1

\* "Normal path: send to all matched readers": when the writer thread has
\* nothing left to do, each reader has been sent every change still held that
\* was published after it was matched, but for those the lifespan cut off.  With a
\* depth above one, or the default of overwriting, this is not so.
Quiet == worker = "idle" /\ queued = 0 /\ lost = 0

SentToAll ==
  Quiet => \A r \in Readers : Matched(r) =>
             \A sn \in Held : \/ sn <= matchedAt[r]
                             \/ sn \in sent[r]
                             \/ Expired(sn)

\* It is so when only the workloads move next, over removals, repeated matches and
\* slots used again while the loop of progress walks a copy of the bitmap.
EveryoneServed == NeverMovesNext => SentToAll

\* The same for a TRANSIENT_LOCAL writer, with the changes published before
\* the match: adding the proxy and sending it the history are two steps, and
\* no change falls between them.
LateJoinersServed ==
  NeverMovesNext /\ qos.transientLocal /\ Quiet =>
    \A r \in Readers : Matched(r) /\ r \notin joining =>
      \A sn \in Held : sn \in sent[r] \/ Expired(sn) \/ KindOf(sn) = "fragmented"

\* Every limit of the QoS holds at every moment, also between the dropping and
\* the rejecting of newChange.
LimitsRespected ==
  /\ qos.maxSamples > 0 => Len(history) <= qos.maxSamples
  /\ qos.maxBytes > 0 => TotalDataBytes(history) <= qos.maxBytes
  /\ ~qos.keepAll /\ qos.depth > 0 => Len(history) <= qos.depth

\* A KEEP_ALL writer never forgets a change.
KeepAllKeeps ==
  [][qos.keepAll => SubSeq(history', 1, Len(history)) = history]_vars

\* A reader may ignore every heartbeat whose count is below the highest it has
\* seen: whoever the two went to, and whoever was matched in between, the later
\* count never announces an older window.  (Of two heartbeats with one count
\* either may be the newer: a round that meets an empty history, or that visits
\* two slots of one reader, sends the same count twice.)
StaleHeartbeatsSafe ==
  \A a, b \in announced :
    a.count < b.count => a.firstSN <= b.firstSN /\ a.lastSN <= b.lastSN

\* Every change published for a matched reader is sent to it in the end, unless
\* it is overwritten, expires or loses its workload, or the reader goes away.
PushedEventually ==
  \A r \in Readers, sn \in SN :
    Matched(r) /\ sn \in Held /\ sn > matchedAt[r]
      ~> \/ sn \in sent[r]
         \/ ~Matched(r) \/ sn \notin Held \/ Expired(sn) \/ lost > 0

\* An ACKNACK is answered with every change it asks for and every newer one,
\* although the lock is given up between the packets.
AnsweredEventually ==
  \A r \in Readers, sn \in SN :
    (/\ replier.at = "bits" /\ proxies[replier.slot].reader = r
     /\ sn \in Held /\ (sn \in asked \/ sn >= replier.beyond))
      ~> sn \in sent[r] \/ sn \notin Held

=============================================================================
