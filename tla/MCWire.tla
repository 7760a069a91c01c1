------------------------------- MODULE MCWire ------------------------------
(***************************************************************************)
(* Two participants on the device, two peers, and one packet of each shape *)
(* the writers and readers of this code and of other implementations send. *)
(***************************************************************************)
EXTENDS Wire

PrefixOf(n) == [i \in 1 .. 12 |-> IF i = 12 THEN n ELSE i]

OwnPrefix == [p \in 0 .. 1 |-> PrefixOf(p)]
PeerA == PrefixOf(7)
PeerB == PrefixOf(9)

UserReader == <<0, 0, 1, 4>>
OtherReader == <<0, 0, 2, 4>>
UserWriter == <<0, 0, 3, 3>>
PeerWriter == <<0, 0, 9, 3>>
PeerReader == <<0, 0, 8, 4>>
SEDPPubWriter == <<0, 0, 3, 194>>
SPDPWriter == <<0, 1, 0, 194>>

BuiltInReaders == {SPDP_READER, SEDP_PUB_READER, SEDP_SUB_READER}

OwnReaders == [p \in 0 .. 1 |-> BuiltInReaders \cup (IF p = 0 THEN {UserReader} ELSE {OtherReader})]
OwnWriters == [p \in 0 .. 1 |-> {SEDPPubWriter} \cup (IF p = 0 THEN {UserWriter} ELSE {})]
KnownWriters ==
  [p \in 0 .. 1 |-> IF p = 0 THEN [g \in {PeerA \o PeerWriter} |-> UserReader] ELSE <<>>]

Group == <<239, 255, 1, 2>>
OwnGroups == [p \in 0 .. 1 |-> IF p = 1 THEN {Group} ELSE {}]

Device == <<192, 168, 11, 3>>
Near == <<192, 168, 11, 20>>
Far == <<10, 0, 0, 5>>

----------------------------------------------------------------------------

Sample == PL_CDR_LE \o <<7, 0, 0, 0>>

Data(reader, writer, n, payload) ==
  [kind |-> DATA, reader |-> reader, writer |-> writer, sn |-> LE(0, 4) \o LE(n, 4),
   payload |-> payload]

DataFrag(reader, writer, payload) ==
  [kind |-> DATA_FRAG, reader |-> reader, writer |-> writer, sn |-> LE(0, 4) \o LE(1, 4),
   payload |-> payload, number |-> 1, sampleSize |-> 96]

Heartbeat(reader, writer) ==
  [kind |-> HEARTBEAT, reader |-> reader, writer |-> writer, firstSN |-> LE(0, 4) \o LE(1, 4),
   lastSN |-> LE(0, 4) \o LE(2, 4), count |-> LE(3, 4)]

AckNack(reader, writer, numBits) ==
  [kind |-> ACKNACK, reader |-> reader, writer |-> writer, base |-> LE(0, 4) \o LE(2, 4),
   numBits |-> numBits, count |-> LE(5, 4)]

InfoTS == [kind |-> INFO_TS]
InfoDST(prefix) == [kind |-> INFO_DST, prefix |-> prefix]

Asked(kind, peer, address, topicName, typeName, qos) ==
  [kind |-> kind, guid |-> peer \o (IF kind = "writer" THEN PeerWriter ELSE PeerReader),
   locator |-> FullLengthLocator(address, 7413), topicName |-> topicName,
   typeName |-> typeName, qos |-> qos]

Created(a) ==
  IF a.kind = "writer" THEN CreatePublisher(a.guid, a.locator, a.topicName, a.typeName, a.qos)
  ELSE CreateSubscription(a.guid, a.locator, a.topicName, a.typeName, a.qos)

Profiles ==
  {QoSProfile, OfDepth(3), OfDepth(0), SensorData, BestEffort, ParametersProfile,
   [QoSProfile EXCEPT !.deadline = FromMs(1500), !.lifespan = Duration(0, 20000000)],
   [QoSProfile EXCEPT !.deadline = Duration(0, 500000), !.lifespan = FromSec(3), !.lease = FromSec(2)],
   [QoSProfile EXCEPT !.history = KEEP_ALL, !.depth = 0, !.max_samples = 9],
   [QoSProfile EXCEPT !.max_samples = 9], [QoSProfile EXCEPT !.deadline = Duration(1, 1000000000)],
   [QoSProfile EXCEPT !.liveliness = MANUAL_BY_TOPIC]}

Letters(n) == [i \in 1 .. n |-> 96 + i]

\* A parameter other implementations add, of a length that is no multiple of four.
Foreign == Parameter(32769, <<1, 2, 3, 4, 5>>) \o Zeros(3)

\* An announcement of endpoint a with these parameters.
Announce(a, parameters, n) ==
  [kind |-> DATA, reader |-> IF a.kind = "writer" THEN SEDP_PUB_READER ELSE SEDP_SUB_READER,
   writer |-> SEDPPubWriter, sn |-> LE(0, 4) \o LE(n, 4), payload |-> List(parameters),
   asked |-> a]

Own(a, n) == Announce(a, TopicParameters(Created(a)[1]), n)

PeerParticipant(prefix, address, seconds) ==
  [guid |-> prefix \o BUILD_IN_PARTICIPANT, lease |-> LE(seconds, 4) \o Zeros(4),
   endpoints |-> OwnBuiltIns, defaultUnicast |-> FullLengthLocator(address, 7413),
   metaUnicast |-> FullLengthLocator(address, 7412),
   metaMulticast |-> FullLengthLocator(<<239, 255, 0, 1>>, 7400)]

AnnounceParticipant(a, parameters) ==
  [kind |-> DATA, reader |-> SPDP_READER, writer |-> SPDPWriter, sn |-> LE(0, 4) \o LE(1, 4),
   payload |-> List(parameters), participant |-> a]

A == PeerParticipant(PeerA, Near, 100)
B == PeerParticipant(PeerB, Far, 20)
OneOfUs == PeerParticipant(OwnPrefix[1], Device, 100)

\* Endpoints of peer A: every profile that is accepted, names around the limit.
AskedOfA ==
  {Asked(kind, PeerA, Near, Letters(2), Letters(3), qos) : kind \in {"writer", "reader"}, qos \in Profiles}
    \cup {Asked("writer", PeerA, Near, Letters(i), Letters(j), QoSProfile) :
             i \in {1, 4, 5, 6}, j \in {5, 8, 9}}

T == Asked("writer", PeerA, Near, Letters(3), Letters(2), QoSProfile)
U == Asked("reader", PeerB, Far, Letters(1), Letters(2), OfDepth(3))

\* Peer B gives its reader a group.
InGroup(a) ==
  CreateReader(a.guid, a.locator, RT \o a.topicName, a.typeName, a.qos, Group, PB + D2)

FromA(subs) == [prefix |-> PeerA, subs |-> subs]
FromB(subs) == [prefix |-> PeerB, subs |-> subs]

Shapes ==
  {FromA(<<InfoTS, Data(UserReader, PeerWriter, 1, Sample)>>),
   FromA(<<InfoTS, Data(ENTITYID_UNKNOWN, PeerWriter, 2, Sample)>>),
   FromB(<<InfoTS, Data(ENTITYID_UNKNOWN, PeerWriter, 3, Sample)>>),
   FromA(<<InfoTS, DataFrag(UserReader, PeerWriter, Sample)>>),
   FromA(<<Data(OtherReader, PeerWriter, 4, <<>>), Heartbeat(UserReader, PeerWriter)>>),
   FromB(<<Heartbeat(OtherReader, PeerWriter)>>),
   FromB(<<AckNack(PeerReader, UserWriter, 0)>>),
   FromA(<<AckNack(PeerReader, UserWriter, 1), AckNack(PeerReader, SEDPPubWriter, 40)>>),
   FromA(<<InfoDST(OwnPrefix[0]), InfoTS, Data(UserReader, PeerWriter, 5, Sample),
           Heartbeat(UserReader, PeerWriter), AckNack(PeerReader, UserWriter, 31)>>),
   FromB(<<Data(UserReader, PeerWriter, 6, Sample)>>),
   [prefix |-> OwnPrefix[0], subs |-> <<InfoTS, AnnounceParticipant(
      [OneOfUs EXCEPT !.guid = OwnPrefix[0] \o BUILD_IN_PARTICIPANT],
      ParticipantParameters([OneOfUs EXCEPT !.guid = OwnPrefix[0] \o BUILD_IN_PARTICIPANT]))>>],
   FromA(<<InfoTS, AnnounceParticipant(A, ParticipantParameters(A))>>),
   FromB(<<AnnounceParticipant(B, Reverse(ParticipantParameters(B)))>>),
   FromB(<<InfoTS, AnnounceParticipant(B, <<Parameter(PID.USER_DATA, <<1, 2, 3>>) \o <<0>>,
             Parameter(PID.INLINE_QOS, <<1, 0, 0, 0>>)>> \o ParticipantParameters(B))>>),
   FromB(<<InfoTS, Announce(U, TopicParameters(InGroup(U)), 1)>>),
   FromB(<<Announce(U, <<Foreign>> \o Reverse(TopicParameters(InGroup(U))), 2), Own(T, 3)>>)}
    \cup {FromA(<<InfoTS, Own(a, 1)>>) : a \in {x \in AskedOfA : Created(x) # <<>>}}

Ways ==
  {[kind |-> "metaMulticast", id |-> 0, address |-> <<239, 255, 0, 1>>],
   [kind |-> "userMulticast", id |-> 0, address |-> Group]}
    \cup {[kind |-> k, id |-> i, address |-> Device] : k \in {"builtIn", "user"}, i \in {0, 1, 2, 63}}
=============================================================================
