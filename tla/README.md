# A TLA+ verification of mROS2-QoS

mROS2-QoS runs ROS 2 nodes on an ESP32: a small C++ API (`src/mros2`) over embeddedRTPS,
a DDS/RTPS stack for lwIP (`src/mros2/embeddedRTPS`), with QoS policies added to it. This
directory models how its guarantees are made or lost: the reliable writer and reader with
their history, the thread pool and the best-effort writer it drives, discovery, the
packets on the wire, and the serialisation of messages. Paths below
are relative to `src/mros2/embeddedRTPS/` unless they start with `src/`.

## 1. Inventory

Five kinds of threads meet in one process: the application's (it publishes, creates
endpoints, and registers callbacks), the pool's writer thread and reader thread (one of
each, `ThreadPool.cpp`), one heartbeat thread per reliable writer, and the SPDP thread.
They share the endpoints, each with a mutex that some operations take and some do not.

| Component | State | Operations | What makes it correct |
| --- | --- | --- | --- |
| `SimpleHistoryCache` | ring of SIZE+1 slots, head, tail, last number | addChange, removeUntilIncl, dropOldest, getChangeBySN | the live slots are a window of consecutive numbers; lookup is exact |
| `StatefulWriterT` | history, next number to send, proxies, heartbeat count, QoS limits, clocks | newChange(Callback), progress, onNewAckNack, addNewMatchedReader, removeReader(OfParticipant), sendHeartBeat | every accepted change is pushed to the matched readers, limits hold, ACKNACKs are answered |
| `StatefulReaderT` | proxies with the next expected number, one pending slot, callback, counters | newChange, onNewHeartbeat, addNewMatchedWriter, removeWriter(OfParticipant), registerCallback | in order, at most once, nothing lost that the writer still has |
| `MemoryPool` | slots, bitmap, element count | add, remove, find, iteration over a copied bitmap | one owner per slot; iteration survives removal |
| `ThreadPool`, `ThreadSafeCircularBuffer` | two bounded queues, two semaphores, running flag | addWorkload, addNewPacket, doWriterWork, doReaderWork, stopThreads | no lost wakeup, no overwriting, stop ends every thread |
| `StatelessWriter`, `StatelessReader` | history of two changes, proxies, callback | newChange, progress; newChange | a best-effort change goes out at most once per turn; whoever is not sent to is sent for by a multicast |
| `Participant` | readers, writers, remote participants with lease times, writer-to-reader map | add/remove of all of them, refresh, lease check, routing of DATA | a dead participant leaves nothing behind; DATA reaches its reader |
| `SPDPAgent`, `SEDPAgent` | built-in endpoints, unmatched remote endpoints | handlers of the discovery topics, tryMatchUnmatchedEndpoints, addReader, addWriter | compatible endpoints are matched once, in whatever order they appear |
| `Domain`, `MessageReceiver` | participants, endpoint arrays, ports | create, completeInit, dispatch of submessages | |
| `TopicData`, `ParticipantProxyData`, `MessageFactory`, `MessageTypes` | none of their own | parsing and emitting | round trips; lease arithmetic |
| mros2 API (`src/mros2/src/mros2.cpp`) | global `pub_ptr`, `part_ptr`, subscriber table, two buffers | init, create_node, create_publisher, publish, create_subscription | a sample is read as it was published; no match is missed |
| QoS profile (`src/mros2/include/mros2/qos.h`) | none | validation_error, is_compatible, durations | what was asked for is what a peer learns |
| Generated messages (`src/mros2/mros2_msgs`, `mros2_header_generator`) | counters of a message sent in fragments | copyToBuf, copyFromBuf, copyToFragBuf, sizes | both directions agree, in the layout of ROS 2 |
| `PBufWrapper`, `UdpDriver` | chain of pbufs and its free space | reserve, append, sendPacket | no byte goes out unwritten |
| cmsis-esp32, platform, Micro-CDR, the step7 application | | | I/O, third party or demonstration: not modelled |

How they interact. `publish` calls the writer's `newChange`, which stores the change and
queues one workload; the writer thread takes it and calls `progress`, which pushes the
change numbered `m_nextSequenceNumberToSend` to each proxy. A packet is queued by the
lwIP callback, and the reader thread dispatches its submessages: DATA and HEARTBEAT to
readers, ACKNACK to writers. Discovery is itself a set of endpoints whose callbacks, on
the reader thread, add proxies to user endpoints; creating a user endpoint tries the
same matches on the application's thread; the SPDP thread removes the proxies of a
participant whose lease has run out.

What is hard about it: the push pointer is moved by two threads, once without the lock;
several loops walk a copy of a bitmap; the send options of a best-effort writer and the
table of writers and readers are changed by threads that do not lock each other out; packets are lost, repeated and reordered;
a slot count, a ring and a queue all have small limits; matching may come before or after
the first data, on any of three threads; a lock is held while another is taken; sizes
are announced in one place and padded in four others; a message is serialised long after
it was published; the result of a failed call is often not looked at. `PROJECT.json` lists
each of these under "hazards" at the line where it bites, with the properties for it.

## 2. Modules

| Module | Models | State and actions |
| --- | --- | --- |
| `HistorySpec` | what a history promises | `first`, `lastUsed`, `window`; Add, Forget |
| `HistoryCache` | `SimpleHistoryCache.h` | `buffer`, `head`, `tail`, `lastUsed` are the members; AddChange, RemoveUntilIncl, DropOldest; the const methods are operators |
| `HistoryCacheProofs` | | theorems about it, and that it implements `HistorySpec` |
| `StatefulWriter` | `StatefulWriter.tpp`/`.h` | see below |
| `MCStatefulWriter` | | QoS settings and symmetry for TLC |
| `StatefulWriterProofs` | | theorems about it: the push and the limits, then delivery and heartbeats |
| `StatefulReader` | `StatefulReader.tpp`, `WriterProxy.h` | see below |
| `MCStatefulReader` | | symmetry for TLC |
| `StatefulReaderProofs` | | theorems about it |
| `BoundedQueue` | what a bounded queue promises | `queue`; Put, Take |
| `CircularBuffer` | `ThreadSafeCircularBuffer.h`/`.tpp` | a record of slots, head and tail; its methods are operators |
| `ThreadPool` | `ThreadPool.cpp` | see below |
| `StatelessWriter`, `MCStatelessWriter` | `StatelessWriter.tpp` on the pool: publications, pushes, the pool of proxies | see below |
| `StatelessWriterProofs` | | theorems about the pool among any producers (`PoolSpec`), and about the writer, which uses it so |
| `SendOptions`, `MCSendOptions` | `StatelessWriter.tpp`: `addNewMatchedReader`, `removeReaderOfParticipant`, `resetSendOptions`, `manageSendOptions` | the flags of the proxies, pair by pair and store by store |
| `SendOptionsProofs` | | theorems about it |
| `Participant` | `Participant.cpp`, proxies of the endpoints, matching by topic | operators and the shared state of discovery |
| `SEDPAgent` | `SEDPAgent.cpp` | one action per critical section of the handlers and of `tryMatchUnmatchedEndpoints` |
| `SPDPAgent` | `SPDPAgent.cpp`, the lease check | the handling of a participant and its removal, endpoint by endpoint |
| `Discovery`, `MCDiscovery` | `Domain.cpp` and `mros2.cpp`: creation | composes the three above with the application's thread |
| `DiscoveryProofs` | | lemmas about the operators of `Participant`, theorems about the composition |
| `Routing`, `MCRouting` | `Participant.cpp`: the table of writers and readers, `getReaderByWriterId`; of matching what decides who changes the table | one field of one entry, or the count, in a step |
| `Packets` | `PBufWrapper`, `MessageFactory.h`, `MessageTypes` | operators over sequences of bytes |
| `Parameters` | `TopicData.cpp`, `ParticipantProxyData.cpp`, locators | writers and readers of parameter lists |
| `Endpoints` | `qos.h`, `Domain::createWriter`, `createReader` | from a QoS profile to what is announced |
| `Wire`, `MCWire` | ports, `Domain::receiveCallback`, `MessageReceiver.cpp` | Send, ReceiveCallback, ProcessHeader, ProcessSubmessage |
| `WireProofs` | | theorems about it, from the bytes of a buffer to what the endpoints are handed |
| `Serialisation` | `header_template.tpl`, `msg_def_generator.py` | copyToBuf and copyFromBuf as operators over members |
| `MessageClasses` | `src/mros2/mros2_msgs` | every class as its members; sizes, fragments and counters |
| `Publishing`, `MCPublishing` | `Publisher::publish`, `callback_handler`, `sendData` | Publish, SendData, SendFragment, Deliver |
| `PublishingProofs` | | theorems about it, from one member to the payload and its fragments |

Each module that models code also defines mutants: a handler with one plausible bug, named and
commented as such and used by nothing else. A property is in the project only if such a
bug makes TLC report it.

### HistoryCache

A sequence number of the code is a pair (high, low) with `low` an unsigned 32-bit word.
The module has it as one integer `high * LowRange + low`; the subtraction in
`getChangeBySN` is done on the low words only, modulo `LowRange`, as in the code. A run
takes `LowRange = 4`, so that the word wraps twice in nine changes; the proofs take any
`LowRange > SIZE`.

### StatefulWriter

The history is the abstract one (a sequence of changes whose newest is `lastUsed`), which
is what the ring was shown to implement. What one critical section of `m_mutex` does is
one action; what happens between two of them, or outside any, is an action of its own:

- `NewChange`: one step, under the lock; trimming for KEEP_LAST, the two limits, the
  full ring (reject for KEEP_ALL, overwrite otherwise), the workload. A rejection keeps
  the trimming, as the code does.
- `TakeWorkload`, `CheckLifespan`, `StartPush`, `Push` (one per proxy), `ReadNext`,
  `WriteNext`: `progress`. The pointer is read anew for each proxy, and its increment
  is a read and a write because it is made without the lock.
- `AddNewMatchedReader`, `Replay`: the proxy is added without the lock, and then, for
  TRANSIENT_LOCAL, the history is sent under it. Either thread that matches may do this.
- `OnNewAckNack`, `Answer` (one per packet), `AnswerBeyond`, `EndAnswer`: ACKNACKs, the
  lock given up between packets.
- `StartRound`, `Announce` (one per proxy): a heartbeat round.
- `RemoveReader`, `RemoveReaderOfParticipant`: clear bits; a running loop keeps its copy
  and still reads the old contents of the slot.
- `Age`: time passes for the lifespan, in the order of the timestamps.

The queue of workloads is shared by all writers of the pool. So a workload may be turned
away at any time, not only when this writer has filled the queue, and it is then counted
in `lost`; `newChange` does not look at the result. A reliable user writer enforces unicast
(`create_publisher` in `src/mros2/src/mros2.cpp` asks for it), so the multicast choice,
which only the built-in SEDP writers make, is not modelled; with no reader matched the
change is multicast, which reaches no proxy. ACKNACKs are the
environment's, with any base up to one past the newest, any bits, any count.

`matchedAt`, `sent`, `announced`, `lost` and `rejects` record what the properties are
about. `QoS`: 0 is "unlimited" for depth, samples and bytes.

### StatefulReader

Every handler but `registerCallback` is one critical section, so one action.
`registerCallback` stores its two members without the lock: two actions. The network is
an environment that may present any DATA of any writer and any heartbeat at any time, any
number of times, which covers loss, duplication, delay and reordering. A heartbeat announces any first and last number;
the last one decides only what the ACKNACK asks for (`AckNack`), and nothing the reader keeps. The callback is
part of the step that delivers. `since`, `unmatched`, `gone` and `delivered` are records
for the properties.

### ThreadPool and StatelessWriter

A thread tests the flag, takes the first element or finds the ring empty, waits, works:
each is a step. Putting an element into the ring and giving its signal are two steps,
because another thread may run in between. The semaphore is binary, as the port to
ESP-IDF makes it. `StatelessWriter` gives the threads their work: `progress`, proxy by
proxy and with its unlocked increment as a read and a write, for the writer thread; matches and
removals, as packets, for the reader thread. Which of the proxies a push sends to is the matter of
`SendOptions`; here a push finds each proxy of a user's writer either way. A writer is in one of two roles: a user's,
which publishes, or the announcer's, whose one change the SPDP thread makes unsent again
and again. Each ring is shown to implement `BoundedQueue`.

### SendOptions

A match (`addNewMatchedReader`, on the application or the reader thread) works out who sends
for whom without `m_mutex`; a removal (on the SPDP thread) resets and works it out again
under it, which keeps out pushes and publications but no match. Each of them is a walk
(`walk`): which proxy has its turn, which pairs are left to test, whether a partner was found.
A step tests one pair or stores the flags of one proxy. The two loops run over copies of
the bitmap (`todo`, `pairs`), which a removal does not clear. `crossed` records that two walks
overlapped since the last removal that began alone.

### Discovery

Three threads: the reader thread (`rx`) handles announcements and DATA of the SEDP readers, the
application (`app`) creates the node and its endpoints, the SPDP thread (`spdp`) removes
participants whose lease ran out. A lease may run out at any time; announcements arrive in any order the
reliable readers hand them on. `sedp` is the mutex of SEDPAgent; that of the participants is taken when
`spdp` is not idle. A pool of proxies is a bag of GUIDs. What matching adds to the table of writers and
readers, and removal takes from it, is in `Routing`. Places where the code does not
come back are places of a thread: `fault` (a null pointer dereferenced), `spin` and `halt`
(endless loops).

### Routing

DATA that names no reader goes to one that knows the writer, or to the one the table of
writers and readers has for it, or to the first without any writer. The application and the reader
thread add to that table, the SPDP thread closes its gaps, the reader thread looks up in it, and
no lock is its own: what keeps two of them apart is only the lock of the SEDP agent, which an add on
the application's thread and one from an announcement hold, and neither an add from
`tryMatchDiscoveredEndpoints` nor compaction nor the look-up does. So every step is the
reading or storing of one field of one entry or of the count; the increment of the count is two. The
search for a place tests one entry in a step. A step that would write behind the end of the table ends the
behaviour (`PastTheEnd`): the count itself stands there, and what the program does next is not
defined. `torn` records that two threads changed the table at the same time, `disturbed`
that a gap was closed, or an entry used before filled in anew, under the look-up under way.

### Wire

A packet is the sequence of its bytes, those never written being `Unwritten`. `Send` composes it with
the operators of `Packets`, `ReceiveCallback` chooses the participants, the receiver
walks over the bytes by the lengths they announce and hands each endpoint a record of what it
read. The participants of `todo` are taken in the order of their ids (`Current`), as the loop of
`receiveCallback` does. `nextPos` has the sixteen bits of `DataSize_t` (`DataSizes`) and may come round
to 0 behind a submessage of a wild length; the header is nevertheless read once, so
"header not read yet" is a value of its own (`BeforeHeader`). What was composed stays beside the bytes, for the properties to compare. Announcements are
written by `Parameters` from what `Endpoints` made of a QoS profile, or composed in
another order and with foreign parameters, as other implementations do.

### Publishing

A byte is a triple: member, element, byte of the element; so that two layouts are equal just
when every byte means the same. Lengths are values, contents are not. `Publish` chooses between
the buffer and the deferred serialiser as the code does; a deferred change is serialised
by any later `SendData`, fragment by fragment, with the counters that stay in the message
object. The application may change or renew an object once no change refers to it.

## 3. Runs

| Run | Checks | Bounds, and why they are enough |
| --- | --- | --- |
| `history_ring` | WindowConsecutive, LookupExact, ImplementsHistory | 3 changes in 4 slots, 9 numbers: head and tail pass every slot more than twice, the low word wraps twice |
| `writer` | TypeOK, PushInStep, EveryoneServed, LateJoinersServed, PushNeverLags, LimitsRespected, StaleHeartbeatsSafe, KeepAllKeeps | 2 changes held, 2 workloads queued, 3 changes, so that history and queue run full; either two readers of one participant in 2 slots, which leave and return while a loop visits them, under the settings the push keeps in step with; or one reader, two heartbeat rounds, every combination of four histories with sample and byte limits, and fragmented samples of 2 bytes against a limit of 3 (`CONSTRAINT Focus`: the two together would not fit a run) |
| `writer_live` | PushedEventually, AnsweredEventually | one reader that may leave and return; ACKNACKs of length 0 and 1; two changes, which is one more than depth 1 holds |
| `writer_overshoot` | SentToAll is violated | KEEP_LAST(2) and the default, four changes |
| `reader` | TypeOK, InOrderOnce, NeverAsksAgain, NothingRefusedUnseen, EarlyDataNotRepeated | two writers of one participant in two slots, so a second proxy of one writer keeps the other out; two changes and two heartbeats each, three DATA received |
| `reader_gap` | NothingSkipped is violated | one writer, three changes |
| `besteffort` | TypeOK, NoSleepOnWork, NoSleepPastStop, NothingSentAgain; QueuesAreFifo, StaysAnnounced, StopEndsThreads | proxies that come and go by packet and by removal; rings of two; a history of one, so that changes are dropped while pushed; two packets; one thread per queue, as configured |
| `send_options` | EveryoneCovered | four remote readers, two of one participant, three with one multicast address and one with none, on two hosts and of two entities; three slots, so that the pool runs full; matches on the reader thread, one after the other, and removals that cross them or do not |
| `routing` | TableIsAMap, OnlyItsTopic | two subscribers on two topics, three writers of two participants, a table of two entries (`MaxMappings`) so that it runs full, one proxy a subscriber so that the table and the last resort are asked, one writer put aside (`MaxUnmatched`); states behind two adds at once are not followed (`CONSTRAINT NotTorn`), since nothing is claimed of them |
| `discovery` | TypeOK, NobodyWaitsForAPartner, NoMatchMissed, SomebodyGoesOn | one remote participant with two writers and a reader, two local writers and a reader, one slot in every pool so that each runs full, unmatched lists of two; participants come back as often as they like |
| `messages` | RoundTrip, Aligned, InsideBuffer, FragmentsMakeTheSample | all 21 classes shipped and all generated ones of three members from eleven kinds; lengths that meet every residue and lie around both buffers; two publications, each sent twice |
| `wire` | NoGap, RightParticipant, Understood, AnnouncedIsUnderstood | two participants, ten ways to a port (both multicasts, both kinds of unicast port, of participants that exist and do not), every shape of packet, every profile that validates, names around the limit; two packets, so that one meets what the other left behind |

Bounds named in the modules: `MaxSN`, `MaxRejects`, `MaxCount`, `MaxBits`, `MaxHB`
(writer), `MaxSN`, `MaxHB`, `MaxReceived` (reader), `MaxSN` (ring), `MaxSN`, `MaxPackets`, `Stopped`, `Traffic`
(best effort), `MaxPublished`, `MaxSends` (messages), `MaxPackets` (wire). Because they stop a
run, deadlock is not checked; `routing` stops where the program would write behind the table; in `discovery`, which has no such bound, the application
may halt for good, and `SomebodyGoesOn` takes the place of the deadlock check. Symmetry over readers and writers is used only in runs
without liveness; the constants that name a participant are the full set, so it is sound.

What they show.

- **The push.** With KEEP_ALL and with depth 1, `newChange` never moves the pointer, and
  pointer, queued and lost workloads match the publications exactly (`PushInStep`). Then a
  writer thread with nothing left to do has served every matched reader. With KEEP_ALL the
  lifespan's drop takes a workload's turn, and this is accounted for.
- **The overshoot.** With any depth above 1, or the default of overwriting, the same is
  false. `newChange` moves the pointer past a change it drops, whose workload is still
  queued, and that workload then moves it once more. The newest changes are passed over
  and pushed to nobody; only a later ACKNACK can repair it. The application in
  `src/workspace/step7_full_qos` runs with KEEP_LAST(5). What remains true under all
  settings is `PushNeverLags`: the pointer may be too far on, never too far back.
- **Limits.** They hold at every moment, and KEEP_ALL forgets nothing.
- **Heartbeats.** A round cut short by an empty history is not counted, so two
  heartbeats may have the same count and different windows; still none with a higher count
  announces an older window (`StaleHeartbeatsSafe`), which is what lets a reader ignore old ones.
- **The reader.** Delivery is in order and at most once from match to match, and ACKNACKs
  never ask for what was delivered. Early data is not expected again after the match, but only as long as
  the one pending slot, which all writers share, still knows of it (`EarlyDataNotRepeated`): early data of another writer, or an
  older change of the same, overwrites it (`StatefulReader.tpp:116`), and then the comment above it, "addNewMatchedWriter()
  advances its expected sequence number", is not kept; the run reports it when the premise `Pending` is left out. And
  reliable delivery does not hold across a gap (the first change above the expected one moves the proxy
  past the gap, and the missing ones are refused when they arrive).
- **The pool.** No wakeup is lost although the test and the wait are apart and the
  semaphore keeps one signal only: whoever takes an element tests again before it waits.
- **Best effort.** Nothing is sent
  twice, but changes may be skipped: with no reader matched, `progress` moves the pointer
  for each workload while `newChange` has moved it past dropped changes, so that it
  ends up beyond the newest, and later publications are not sent (`StatelessWriter.tpp:186, 364`).
- **Who sends for whom.** A match or a removal that no other crosses leaves every matched reader sent to
  directly or named by a multicast, in whatever order they come, repeated matches included
  (`EveryoneCovered`). It is so at every moment of a match but between its two stores for a pair, line 115
  and line 118: a push that falls there finds a reader silenced for whom nobody sends yet. If a match and a removal cross,
  a matched reader may stay silent after both have ended (the run reports it when `~crossed` is left out): the removal takes
  the sender away between the test that chose it and the stores that silence its partner. The next
  removal that nothing crosses resets the flags and so repairs it, even if more than two walks had crossed; a match does not.
- **Routing.** While no two threads change the table at once it is a map from writers to
  readers of their topic, across adds, repeated adds, compactions and a full table
  (`TableIsAMap`). Two adds at once may both pass the test of line 193 on the last free entry,
  and the second writes behind the table; or they may take the same entry. A look-up that
  meets no compaction and no refilling finds a reader of the writer's topic (`OnlyItsTopic`), also
  when the application is just appending an entry never used before. Otherwise it may pair
  the writer of one with the reader of another, and DATA goes to a subscriber of another topic (`RightTopic`, which the run reports violated when
  it is checked instead of `OnlyItsTopic`), although `Participant.h:81` calls the look-up thread safe as long as no reader is removed.
- **Discovery.** Nobody is put aside and forgotten: whoever waits, when all threads are at rest,
  though a local endpoint suits it was tried and turned away by a full pool (`turnedAway`
  records it), and then waits on even when a removal makes room. What does not hold and is not claimed: that
  all local endpoints of a topic are matched (only the first is), or that two endpoints are treated alike
  whoever comes first (`onNewPublisher` and `onNewSubscriber` compare reliability and durability,
  `tryMatchUnmatchedEndpoints` does not, and what they refuse is not what `is_compatible` of `qos.h` refuses). An
  announcement and a removal may cross: `refreshRemoteParticipantLiveliness` then dereferences
  null, which the run reaches (`fault`). A participant may be removed the moment it
  is added, since it keeps the time stamp of the buffer it was read into; with the
  list of participants full the reader thread never returns (`spin`, not reached in this instance).
- **Messages.** `RoundTrip` and `Aligned` hold for objects whose nested members are fresh: the
  counters of the members of Twist and Pose are never reset, and the second publication
  of one object misplaces the second member. `InsideBuffer` names the classes it holds for:
  Header writes four bytes more than it counts, Image through the buffer four for each byte,
  and a generated class counts 0. `FragmentsMakeTheSample` assumes that an image's names fit the first
  fragment (`ShortNames`); otherwise the last fragment is padded by its own length. A Header too long for
  the buffer would be cut by a stub that never returns nothing; the run's Headers fit.
- **Packets.** `Understood` excepts two shapes (`Intelligible`): behind a DATA_FRAG, whose announced
  length is 0, this receiver takes the payload for submessages; and a DATA for any reader from a
  writer nobody knows goes to the SPDP reader. `AnnouncedIsUnderstood` excepts names of exactly the
  maximal length (`NamesKept`: they overwrite or run into the member behind) and
  durations that are no whole milliseconds (`InMs`). `isMulticastAddress` tests the last byte
  of an address, so the standard group 239.255.0.1 is not recognised and a foreign
  unicast address may be; only unicast locators are claimed. The liveliness lease is never announced.

**Fairness.** `FairSpec` of `StatefulWriter`: weak fairness of the writer thread: `doWriterWork` takes the
next workload as long as there is one, and no step of `progress` waits for another
thread for ever. Weak fairness of the answering steps of the reader thread, which runs
`onNewAckNack` to its end. Nothing is assumed of the application, of the network, of
matching or of heartbeats. `PushedEventually` excuses a lost workload: then the pointer
stays behind and the newest change waits for the next publication.
`FairSpec` of `StatelessWriter`: weak fairness of each pool thread (a FreeRTOS task
that is ready runs), of the signal that follows an element put into a ring and of those of
`stopThreads` (the next statement of the same thread), and of `setAllChangesToUnsent`,
which the endless loop of the SPDP thread calls. Nothing is assumed of publications, packets, matches
or stopping. `StaysAnnounced` is claimed for runs in which the pool is not stopped for good.

## 4. Proofs

All theorems hold for every value of the constants that satisfies the named assumptions.
The bounds of the runs are among those constants, and may be any numbers.

| Assumption | What it asks, and why the code grants it |
| --- | --- |
| `CacheAssumption`, `SizeAssumption` | sizes are positive; the range of a low word exceeds the ring's size (32 bits against a template argument) |
| `WriterAssumption`, `ReaderAssumption` | positive sizes, QoS records, bounds are numbers; `NoWriter`, the unknown GUID, is no writer |
| `PoolAssumption` | finitely many threads, each of one queue; the empty element is no element |
| `StatelessAssumption` | one thread for each queue, as `config.h` has it; the packets of each role are packets of the pool; sizes are positive |
| `OptionsAssumption` | addresses and entity ids are numbers; who matches is the application or the reader thread |
| `ParticipantAssumption`, `EndpointAssumption` | endpoint GUIDs differ from the built-in ones and each has one owner; no two topics in use have the same hash (unmatched endpoints are kept by hash, and the names are not compared again) |
| `SEDPAssumption`, `SPDPAssumption`, `CreationsAssumption` | sizes of lists; announcements are of remote endpoints, creations of local ones |
| `PacketsAssumption` | a byte never written is none of the 256 values |
| `WireAssumption` | up to 64 participants, so that an id survives the signed byte it is computed in (`config.h` allows one); prefixes differ; the built-in readers exist; a destination is one of the four kinds of port |
| `CompositionsAssumption` | the fields of a submessage have their widths (`WellFormed`), numbers longer than theirs are cut as the code cuts them; a packet ends in a submessage that carries something, since INFO_TS and INFO_DST are only ever put in front of one; it is shorter than 65536 bytes, as datagrams are |
| `PublishingAssumption` | a class is read with the members it is written with, as the generator emits both from one list; nested members have names of their own and are one level deep; a value gives each member the lengths its kind has |

What each module proves, and along which invariant:

- **`HistoryCacheProofs`** (`TypeCorrect`, `WindowIsConsecutive`, `LookupIsExact`,
  `RingImplementsHistory`). The inductive invariant is `TypeOK /\ WindowConsecutive`: how many
  slots are live and which number each holds, so that adding and removing are arithmetic on
  positions. `LookupExact` follows with `WrappedDifference`: the difference of two low
  words is the difference of the numbers if that is less than `LowRange`. The refinement is
  a step simulation (`AddRefines`, `RemoveRefines`).
- **`StatefulWriterProofs`** (`TypeCorrect`, `NeverLags`, `InStep`, `StaysWithinLimits`,
  `ForgetsNothing`). `PushNeverLags` is inductive with the types: `Due` is where the pointer
  will stand after the turn in progress, and every step that raises `lastUsed` raises
  `queued + lost` with it. The half-done increment is why `Due` reads `old` between
  `ReadNext` and `WriteNext`: what `newChange` may add to the pointer in between is overwritten,
  and the invariant does not count on it. `PushInStep` needs `old = next` there, which holds
  because `NextAfterTrim` leaves the pointer alone under the two settings. The limits need
  lemmas about the bytes of a history: dropping from its front takes bytes away, appending adds
  those of one change (`DroppedBytes`, `AppendBytes`). `KeepAllKeeps` is an action property: no step of a
  KEEP_ALL writer drops anything.
  Then `ServesEveryone`, `ServesLateJoiners` and `StaleIsSafe`: `EveryoneServed` speaks of an idle writer only; `DeliveryInv` says at every step which changes
  the push has reached and, for the change being pushed, which proxies still wait for
  their turn (`ServedInv`), what a replay has left out (`ReplayedInv`), that the increment in
  progress is not stale (`OldIsNext`) and that nobody is matched at a later change than the newest
  (`MatchedBefore`). With `PushInStep` an idle writer has reached everything. Both
  claim something under `NeverMovesNext` only, KEEP_ALL or depth 1; the run `writer_overshoot` shows why. `StaleHeartbeatsSafe` needs `AnnouncedInv`: the window
  of every announced heartbeat, and of the round in progress, lies behind the present one.
- **`StatefulReaderProofs`** (`TypeCorrect`, `DeliveredInOrderOnce`, `AsksForNothingTwice`,
  `NothingLostUnseen`, `NothingEarlyRepeated`). `OrderInv` ties what was delivered since the match to what the first
  slot of the writer expects, and survives a second proxy of the same writer in a later slot,
  which `addNewMatchedWriter` permits. `NothingRefusedUnseen` is about a removal as well, after
  which such a slot becomes the first: `SeenInv` states the bound for every slot and for the
  pending number. `EarlyInv` says the same of what early data the pending slot still knows of.
- **`StatelessWriterProofs`**, the pool (`PoolTypeCorrect`, `WorksOnItsOwn`, `NobodySleepsOnWork`, `NobodySleepsPastStop`), for
  any number of threads and producers. `SleepInv` also covers the time before the threads are
  started, when an early signal must stay up. `StopInv` covers a thread about to look into its
  queue as well as one asleep. With two threads for one queue `NoSleepPastStop` is false (the
  second signal finds the semaphore up and is lost), hence `OneThreadEach` in the theorem.
  `QueuesStep` shows that the ring of head and tail is a queue; `WorksOnItsOwn` follows.
- **`StatelessWriterProofs`**, the writer (`UsesThePool`, `RingsAreQueues`, `SendsNothingAgain`,
  `WriterTypeCorrect`). The first is a refinement, through which the theorems about the pool
  hold of the writer. `SendInv` adds to `NothingSentAgain` that a pointer still at
  the change sent last is held, so that a push given up has passed what it sent.
- **`SendOptionsProofs`** (`TypeCorrect`, `EveryoneIsCovered`), for any readers, hosts, groups and
  entities and any number of slots. `SentFor` says whose multicast a silent proxy relies on: one of the same group on another
  host, under an entity id it answers to, or the walk that has just silenced it is about to make
  one. `WalkOK` says where a walk that nobody crosses stands: what a removal has reset already, and that the
  proxy whose turn it is has no partner among those tested unless one was found; this is why giving
  up its multicast at the end of its turn leaves nobody uncovered. While walks cross only `TypeOK` and `OneWay`
  are kept, and that is all a removal that begins alone needs.
- **`DiscoveryProofs`** (`DiscoveryCorrect`, `TypeCorrect`, `EveryMatchIsHeard`,
  `EveryoneIsTried`). Its lemmas about `Participant` give a bag's cardinality after an addition or
  removal (its recursive sum is shown to be a function first), and show that the searches by topic
  return the first endpoint that passes. `DiscoveryInv` places each of the three threads (what it may hold at
  each point), bounds every list and pool, and says that searches by topic find a user's endpoint, never a built-in one.
  `MatchesHeard` follows a match from the proxy's addition to the callback or to the count made
  when the callback is set. `EveryoneSeenTo` with `ListsLocked` says of everybody put aside
  that it was tried, that a thread on its way holds it in what is left to try, or that its
  participant is just being removed; the lock is needed because the two lists are
  looked at and added to in different steps.
- **`WireProofs`** (`NothingUnwritten`, `ReachesTheAddressed`, `UnderstoodAsMeant`), for any packets
  within `CompositionsAssumption`. The argument goes from one buffer outwards: `Packed` says that the free
  space lies at the end and all in front of it is written, `Grown` what an append adds, and one
  lemma per submessage (`AddGrows`) that the factory reserves just what its serialiser
  writes, or leaves space that chaining a payload takes back. `ComposeTable` puts the fold over the
  submessages into a table, row by row, and `ComposedWritten` says where each submessage stands in the
  packet. `NoGap` follows with `PacketRight` (the packet under way is one of the compositions).
  `RightParticipant` needs the invariant `Routing`: whoever is addressed has processed the packet or still
  waits for it, and the arithmetic of ports, with its signed bytes, leads back to
  the participant a port was computed for (`OwnPorts`, `RoutedRight`). `Understood` needs
  `Understanding`: the position of the receiver is where the next submessage stands (`Reading`), and
  what was handed on so far is what the submessages before it mean. That is true
  for an `Intelligible` packet only; for the others, which the same invariant must survive, the first
  attempt at the proof found that the model took `nextPos = 0` for "header not read" and could have
  read the header again, which `processMessage` never does. `BeforeHeader` is the correction.
- **`PublishingProofs`** (`ReadAsPublished`, `BufferSuffices`, `FragmentsAreTheSample`), for classes of any members in any order. Each kind of
  member is one case of `FlatAgrees`: the bytes `copyToBuf` writes for it at a counter, gaps
  included, are read back by `copyFromBuf` at the same counter as the same contents, and both
  counters end alike. The loops over characters, elements and members become tables of rows
  (`Folds`, `Made`), and `SoFar` is what holds after each member: what was written,
  which nested counters are still 0, and that reading it gives the members so far. The
  invariant `PublishingInv` adds what makes the two ends meet across steps: an object that no stored
  change refers to has its counters at 0, and one that is referred to is too long for the buffer, so
  that `publish` does not touch its counters. `BufferSuffices` counts what each member of the
  classes in `InsideBuffer` writes, gaps included, against `calcTotalSize`. `FragmentsAreTheSample` is for
  strings of any length and images of any size. `LaidOut` gives the place of each of the nine
  steps of an image in the sample, `OnTheWay` says that the counters kept in the message (bytes, step, how
  far an array has come) name the byte the next fragment begins with, and `Cutting` follows the nine
  steps of one call through a table of rows: what was cut so far lies in the sample from that
  byte on. `OnlyData` is the part that needs `ShortNames`: every fragment but the last is full to the
  byte, so that its length is a multiple of 4 and the zeros behind the last fall where `memAlign`
  puts them. `FragmentsInv` joins the calls to rounds: what a round has made is the header and the first
  bytes of the sample (`Stage`), and the counters are 0 when none is under way. It assumes
  `OnlyStringsAndImagesGrow`, which the run evaluates: no message of another class outgrows the buffer. A
  Header with a `frame_id` of more than 88 bytes does, and its `copyToFragBuf` is a stub (`header.hpp:96`) with
  which the loop of `sendData` would not end.

Only model-checked:

- Liveness (`PushedEventually`, `AnsweredEventually`, `StaysAnnounced`, `StopEndsThreads`) and
  `SomebodyGoesOn`, which uses ENABLED: beyond this prover.
- `AnnouncedIsUnderstood` of `Wire`: parameter lists from `Endpoints` and `Parameters`, read by
  `TopicData` and `ParticipantProxyData`. The lists, foreign ones among them, are values the run
  composes; a proof would need an assumption on `Compositions` that says of each list
  how it was made, which is most of what there is to prove.
- `Aligned` is true of the classes and values of the run, not of all
  that `PublishingAssumption` admits: a nested member counts its gaps from its own beginning, so
  that it aligns only behind a multiple of its widest number (as in Twist and Pose). Nor is a fragment
  always within its buffer: an image with long names of unlucky lengths may write past the end of
  one, padding being unchecked there.
- `Routing`: its claims hold only while nothing crosses, and are small enough for the run to exhaust.
- The two claims that are violated (`writer_overshoot`, `reader_gap`).

## 5. Not modelled, and what is left

Worth proving next: that a parameter list written by `Parameters` is read back whatever parameters
stand between those it knows, with the name limits of `NamesKept`.

Not modelled, and why:

- Deadlines and the liveliness query: millisecond clocks that feed counters and a query
  the application may read, and nothing else. Leases and lifespans run out at any time.
- One writer and one reader in one model with the network between them. Each is
  checked against an environment that does whatever the other, or a foreign implementation, might.
- `MemoryPool::add` and `remove`, and the appending of an endpoint to its list
  (`Participant::addWriter`, `addReader`), are one step each, although none of them is locked
  against readers of the bitmap or the list.
- The rest of what is merged: in `SendOptions` the two flags of one proxy are stored in one step, a `partner` is
  tested with the flag read beside it; in `Routing` the test of a loop and the comparison of
  its entry are one step, an announcement is locked and its reader found in one, the stores of line 194 come
  in the order they are written in, and of the QoS of an endpoint nothing is asked (that is in
  `Discovery`). `Routing` says nothing of what follows a write behind the table.
- Where pushes of a best-effort writer go: `StatelessWriter` has a push reach every proxy, `SendOptions` says who
  is sent for; a push between the stores of a match is not followed further.
- Names far longer than the limit: `TopicData.cpp:99, 104` copies the announced length unchecked into
  an array of 40 bytes. `Parameters` knows what a name around that limit does, and no more.
- Bounded arrays of strings in a generated class: the generator knows a string's size only as -1
  (`msg_def_generator.py:25`), and emits no usable code for them. It has no size for `byte` either, so that
  a definition with one is not generated at all.
  failing allocation of packets; reference counts of pbufs; big-endian parameter lists;
  packets cut short; inline QoS, which the receiver takes for payload.
- `readerExists`, `writerExists` and `is_compatible`, which nothing in the library calls; several publishers over the global
  `pub_ptr`; arrays of nested messages, whose reading half the template leaves unfinished; `printRxStats`, logging.
- cmsis-esp32 (declarations of ARM and thin wrappers), Wi-Fi and sockets, configurations of other boards, Micro-CDR and lwIP
  (third party), the step7 application (a demonstration), Python scripts.

Assumed: a change's payload in `StatefulWriter` is fixed when it is published (`Publishing`
has what happens to it), a message is neither changed nor destroyed while a change
refers to it, and milliseconds do not run backwards for the lifespan.
