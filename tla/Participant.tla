---------------------------- MODULE Participant ----------------------------
(***************************************************************************)
(* Participant: the local endpoints of the device in the order they were   *)
(* added, the remote participants it has found, and the proxies of remote  *)
(* endpoints every local endpoint holds.  The table of writers and readers *)
(* is in Routing.                                                          *)
(*                                                                         *)
(* A remote endpoint is its GUID: a member of RemoteWriters or             *)
(* RemoteReaders, or the pair of a participant's prefix and the name of    *)
(* one of its built-in endpoints.  A pool of proxies is the bag of the     *)
(* GUIDs it holds: nothing here depends on the slots.                      *)
(***************************************************************************)
EXTENDS Naturals, Sequences, FiniteSets, Bags

CONSTANTS
  Participants,    \* the remote participants, by GUID prefix
  ZeroPrefix,      \* the prefix {0, ..., 0} of registerSedpBuiltinEndpoints
  RemoteWriters,   \* the user endpoints of the remote participants
  RemoteReaders,
  Owner,           \* the participant of a remote user endpoint
  LocalWriters,    \* the user endpoints of the device
  LocalReaders,
  NoEndpoint,      \* nullptr
  Topic,           \* the topic, name and type, of a user endpoint
  Hash,            \* hashCharArray of a topic
  Reliable,        \* the user endpoints with reliabilityKind RELIABLE
  TransientLocal,  \* the user endpoints with durabilityKind TRANSIENT_LOCAL
  ProxySlots,      \* NUM_WRITER_PROXIES_PER_READER, NUM_READER_PROXIES_PER_WRITER
  MaxRemotes       \* SPDP_MAX_NUMBER_FOUND_PARTICIPANTS

UserGuids == RemoteWriters \cup RemoteReaders

UserEndpoints == UserGuids \cup LocalWriters \cup LocalReaders

(* The hash stands for the topic in the lists of unmatched endpoints: two  *)
(* topics in use with one hash would be taken for the same.                *)
ASSUME ParticipantAssumption ==
  /\ ZeroPrefix \notin Participants
  /\ Owner \in [UserGuids -> Participants]
  /\ NoEndpoint \notin UserEndpoints
  /\ DOMAIN Topic = UserEndpoints
  /\ \A a, b \in UserEndpoints : Hash[Topic[a]] = Hash[Topic[b]] => Topic[a] = Topic[b]
  /\ Reliable \subseteq UserEndpoints /\ TransientLocal \subseteq UserEndpoints
  /\ ProxySlots \in Nat \ {0} /\ MaxRemotes \in Nat \ {0}

VARIABLES
  writers,   \* m_writers
  readers,   \* m_readers
  proxies,   \* the pool of proxies of each local endpoint
  remotes,   \* m_remoteParticipants
  fresh,     \* isAlive of each of them: its time stamp is within the lease
  turnedAway \* history, for a property: user endpoints and whom their full pools
             \* have refused

participant_vars == <<writers, readers, proxies, remotes, fresh, turnedAway>>

-----------------------------------------------------------------------------
(* The built-in endpoints, local and remote.                               *)

BuiltInWriters == <<"spdpWriter", "sedpPubWriter", "sedpSubWriter">>

BuiltInReaders == <<"spdpReader", "sedpPubReader", "sedpSubReader">>

RemoteBuiltIns == {"pubWriter", "subWriter", "pubReader", "subReader"}

SeqRange(s) == {s[i] : i \in DOMAIN s}

Local == SeqRange(BuiltInWriters) \cup SeqRange(BuiltInReaders)
           \cup LocalWriters \cup LocalReaders

(* An entity is one thing: a writer or a reader, of the user or built in.  *)
ASSUME EndpointAssumption ==
  /\ RemoteWriters \cap RemoteReaders = {} /\ LocalWriters \cap LocalReaders = {}
  /\ (SeqRange(BuiltInWriters) \cup SeqRange(BuiltInReaders)) \cap UserEndpoints = {}
  /\ UserGuids \cap ((Participants \cup {ZeroPrefix}) \X RemoteBuiltIns) = {}

Guids == UserGuids \cup ((Participants \cup {ZeroPrefix}) \X RemoteBuiltIns)

Prefix(guid) == IF guid \in UserGuids THEN Owner[guid] ELSE guid[1]

-----------------------------------------------------------------------------
(* The pools of proxies.                                                   *)

\* knowWriterId and knowReaderId.
Knows(e, guid) == BagIn(guid, proxies[e])

NumMatched(e) == BagCardinality(proxies[e])

\* Mutant of WithProxy: the pool does not stop at its end.
WithProxyUnbounded(pool, guid) == pool (+) SetToBag({guid})

\* What addNewMatchedReader and addNewMatchedWriter leave in a pool.  Nobody
\* looks for a proxy of that GUID first; a full pool refuses without notice.
WithProxy(pool, guid) ==
  IF BagCardinality(pool) < ProxySlots THEN pool (+) SetToBag({guid}) ELSE pool

AddProxy(e, guid) ==
  /\ proxies' = [proxies EXCEPT ![e] = WithProxy(@, guid)]
  /\ turnedAway' = IF e \in UserEndpoints /\ NumMatched(e) >= ProxySlots
                   THEN turnedAway \cup {<<e, guid>>} ELSE turnedAway

\* removeReaderOfParticipant and removeWriterOfParticipant.
RemoveProxiesOf(e, p) ==
  proxies' = [proxies EXCEPT ![e] =
                [g \in {h \in BagToSet(@) : Prefix(h) # p} |-> @[g]]]

-----------------------------------------------------------------------------
(* The first endpoint that passes a test, in the order of the array.       *)

FirstOf(endpoints, Test(_)) ==
  LET passing == {i \in DOMAIN endpoints : Test(endpoints[i])}
  IN IF passing = {} THEN NoEndpoint
     ELSE endpoints[CHOOSE i \in passing : \A j \in passing : i <= j]

\* The built-in endpoints have the empty topic, which no remote one has.
SameTopic(e, guid) == e \in UserEndpoints /\ Topic[e] = Topic[guid]

SameHash(e, guid) == e \in UserEndpoints /\ Hash[Topic[e]] = Hash[Topic[guid]]

WriterSuits(w, guid) == guid \notin Reliable \/ w \in Reliable

ReaderSuits(r, guid) == guid \in Reliable \/ r \notin Reliable

GetMatchingWriter(guid) ==
  FirstOf(writers, LAMBDA w : SameTopic(w, guid) /\ WriterSuits(w, guid))

GetMatchingReader(guid) ==
  FirstOf(readers, LAMBDA r : SameTopic(r, guid) /\ ReaderSuits(r, guid))

GetMatchingWriterByHash(guid) ==
  FirstOf(writers, LAMBDA w : SameHash(w, guid) /\ WriterSuits(w, guid))

GetMatchingReaderByHash(guid) ==
  FirstOf(readers, LAMBDA r : SameHash(r, guid) /\ ReaderSuits(r, guid))

-----------------------------------------------------------------------------
(* The remote participants.                                                *)

\* addNewRemoteParticipant: the pool has a free slot.
RoomForRemote == Cardinality(remotes) < MaxRemotes

\* onAliveSignal of a participant in the pool.
Refresh(p) == fresh' = [fresh EXCEPT ![p] = TRUE]

ParticipantInit ==
  /\ writers = <<>>
  /\ readers = <<>>
  /\ proxies = [e \in Local |-> EmptyBag]
  /\ remotes = {}
  /\ fresh = [p \in Participants |-> FALSE]
  /\ turnedAway = {}

ParticipantTypeOK ==
  /\ SeqRange(writers) \subseteq Local
  /\ SeqRange(readers) \subseteq Local
  /\ \A e \in Local : /\ BagToSet(proxies[e]) \subseteq Guids
                      /\ BagCardinality(proxies[e]) <= ProxySlots
  /\ remotes \subseteq Participants /\ Cardinality(remotes) <= MaxRemotes
  /\ fresh \in [Participants -> BOOLEAN]
  /\ turnedAway \subseteq (LocalWriters \cup LocalReaders) \X UserGuids
=============================================================================
