----------------------------- MODULE Endpoints -----------------------------
(***************************************************************************)
(* From the QoS profile an application asks for to the TopicData of the    *)
(* endpoint it gets: qos.h, Node::create_publisher, create_subscription    *)
(* and Domain::createWriter, createReader.  A duration is a record of sec  *)
(* and nanosec, or infinite; sec stays below 2000000, so that its          *)
(* milliseconds fit the 32 bits of uint32_t.                               *)
(***************************************************************************)
EXTENDS Parameters

CONSTANT MaxNameLength     \* MAX_TOPICNAME_LENGTH and MAX_TYPENAME_LENGTH

ASSUME EndpointsAssumption == MaxNameLength \in Nat \ {0}

BEST_EFFORT == 1
RELIABLE == 2
VOLATILE == 0
TRANSIENT_LOCAL == 1
KEEP_LAST == 0
KEEP_ALL == 1
AUTOMATIC == 0
MANUAL_BY_TOPIC == 1

----------------------------------------------------------------------------
(* Duration. *)

Duration(sec, nanosec) == [sec |-> sec, nanosec |-> nanosec]

Infinite == [sec |-> -1, nanosec |-> -1]

FromMs(ms) == Duration(ms \div 1000, (ms % 1000) * 1000000)

FromSec(s) == Duration(s, 0)

DurationValid(d) == d = Infinite \/ (d.sec >= 0 /\ d.nanosec < 1000000000)

\* deadline_ms, lifespan_ms, liveliness_lease_ms: 0 is none.
Ms(d) ==
  IF d = Infinite \/ ~DurationValid(d) THEN 0 ELSE d.sec * 1000 + (d.nanosec \div 1000000)

----------------------------------------------------------------------------
(* QoSProfile and QoSPolicy. *)

QoSProfile ==
  [reliability |-> RELIABLE, durability |-> VOLATILE, history |-> KEEP_LAST, depth |-> 10,
   deadline |-> Infinite, lifespan |-> Infinite, lease |-> Infinite,
   liveliness |-> AUTOMATIC, max_samples |-> 0, max_bytes |-> 0]

\* QoSProfile(int history_depth).
OfDepth(depth) ==
  [QoSProfile EXCEPT !.reliability = BEST_EFFORT, !.durability = TRANSIENT_LOCAL, !.depth = depth]

SensorData == [QoSProfile EXCEPT !.reliability = BEST_EFFORT, !.depth = 5]

BestEffort == [QoSProfile EXCEPT !.reliability = BEST_EFFORT]

ParametersProfile == [QoSProfile EXCEPT !.depth = 100]

Validate(qos) ==
  /\ qos.history = KEEP_LAST => qos.depth # 0
  /\ qos.history \in {KEEP_LAST, KEEP_ALL}
  /\ qos.depth <= 100
  /\ DurationValid(qos.deadline) /\ DurationValid(qos.lifespan) /\ DurationValid(qos.lease)
  /\ qos.liveliness = AUTOMATIC
  /\ qos.max_samples > 0 /\ qos.history = KEEP_LAST => qos.max_samples >= qos.depth

----------------------------------------------------------------------------
(* Domain. *)

\* Mutant of DurationField: the milliseconds of the second are dropped.
DurationFieldWhole(ms) == IF ms > 0 THEN LE(ms \div 1000, 4) \o LE(0, 4) ELSE INFINITE

DurationField(ms) ==
  IF ms > 0 THEN LE(ms \div 1000, 4) \o LE((ms % 1000) * 1000000, 4) ELSE INFINITE

\* strcpy into two arrays that lie one behind the other, before reliabilityKind:
\* the \0 of a type name that fills its array empties the topic name, and a
\* topic name that fills its own runs on into the first byte of reliabilityKind.
StoredTopicName(topicName, typeName, reliability) ==
  IF Len(typeName) = MaxNameLength THEN <<>>
  ELSE IF Len(topicName) = MaxNameLength THEN Append(topicName, reliability) ELSE topicName

NamesFit(topicName, typeName) ==
  Len(topicName) <= MaxNameLength /\ Len(typeName) <= MaxNameLength

Attributes(guid, locator, topicName, typeName, qos) ==
  [DefaultTopic EXCEPT
     !.guid = guid, !.unicast = locator, !.typeName = typeName,
     !.topicName = StoredTopicName(topicName, typeName, qos.reliability),
     !.reliability = LE(qos.reliability, 4), !.durability = LE(qos.durability, 4),
     !.history = LE(qos.history, 4) \o LE(qos.depth, 4),
     !.deadline = DurationField(Ms(qos.deadline)),
     !.lifespan = DurationField(Ms(qos.lifespan))]

\* The attributes createWriter leaves; maxBytes is not announced.
CreateWriter(guid, locator, topicName, typeName, qos) ==
  [Attributes(guid, locator, topicName, typeName, qos) EXCEPT
     !.maxSamples = LE(qos.max_samples, 4)]

\* mcast is the address of a group, or <<0, 0, 0, 0>>.
CreateReader(guid, locator, topicName, typeName, qos, mcast, mcastPort) ==
  [Attributes(guid, locator, topicName, typeName, qos) EXCEPT
     !.multicast = IF mcast[1] \in 224 .. 239 THEN FullLengthLocator(mcast, mcastPort) ELSE @]

----------------------------------------------------------------------------
(* Node: what is created, or <<>> where the call never returns. *)

RT == <<114, 116, 47>>

CreatePublisher(guid, locator, topicName, typeName, qos) ==
  IF Validate(qos) /\ NamesFit(RT \o topicName, typeName)
  THEN <<CreateWriter(guid, locator, RT \o topicName, typeName, qos)>> ELSE <<>>

CreateSubscription(guid, locator, topicName, typeName, qos) ==
  IF Validate(qos) /\ NamesFit(RT \o topicName, typeName)
  THEN <<CreateReader(guid, locator, RT \o topicName, typeName, qos, <<0, 0, 0, 0>>, 0)>>
  ELSE <<>>
=============================================================================
