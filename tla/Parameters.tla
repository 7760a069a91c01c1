---------------------------- MODULE Parameters -----------------------------
(***************************************************************************)
(* The parameter lists of discovery: TopicData::serializeIntoUcdrBuffer    *)
(* and readFromUcdrBuffer, SPDPAgent::addParticipantParameters and         *)
(* ParticipantProxyData::readFromUcdrBuffer.  32-bit values are tuples of  *)
(* bytes; lists are PL_CDR_LE.                                             *)
(***************************************************************************)
EXTENDS Packets, SequencesExt

CONSTANTS
  IP_ADDRESS,     \* of the device, four bytes; its netmask is 255.255.255.0
  MaxLocators     \* SPDP_MAX_NUM_LOCATORS

ASSUME ParametersAssumption ==
  IP_ADDRESS \in [1 .. 4 -> 0 .. 255] /\ MaxLocators \in Nat \ {0}

----------------------------------------------------------------------------
(* Locators. *)

FullLengthLocator(address, port) ==
  LE(1, 4) \o LE(port, 4) \o [i \in 1 .. 12 |-> 0] \o address

LOCATOR_INVALID == [i \in 1 .. 8 |-> IF i <= 4 THEN 255 ELSE 0] \o [i \in 1 .. 16 |-> 0]

IsUDPv4(locator) == SubSeq(locator, 1, 4) = LE(1, 4)

AddressOf(locator) == SubSeq(locator, 21, 24)

\* LocatorIPv4 leaves the first twelve bytes of the address out.
LocatorIPv4(locator) ==
  [kind |-> SubSeq(locator, 1, 4), address |-> AddressOf(locator),
   port |-> SubSeq(locator, 5, 8)]

IsSameSubnet(address) == SubSeq(address, 1, 3) = SubSeq(IP_ADDRESS, 1, 3)

\* addr is in network order: its highest bits are those of the last byte.
IsMulticastAddress(address) == address[4] \div 16 = 14

----------------------------------------------------------------------------
(* Writing. *)

PID == [PAD |-> 0, SENTINEL |-> 1, LEASE |-> 2, TOPIC_NAME |-> 5, TYPE_NAME |-> 7,
        PROTOCOL_VERSION |-> 21, VENDORID |-> 22, RELIABILITY |-> 26, LIVELINESS |-> 27,
        DURABILITY |-> 29, DEADLINE |-> 35, LIFESPAN |-> 43, USER_DATA |-> 44,
        UNICAST_LOCATOR |-> 47, MULTICAST_LOCATOR |-> 48, DEFAULT_UNICAST |-> 49,
        METATRAFFIC_UNICAST |-> 50, METATRAFFIC_MULTICAST |-> 51, HISTORY |-> 64,
        RESOURCE_LIMITS |-> 65, INLINE_QOS |-> 67, DEFAULT_MULTICAST |-> 72,
        PARTICIPANT_GUID |-> 80, BUILTIN_ENDPOINTS |-> 88, PROPERTY_LIST |-> 89,
        ENDPOINT_GUID |-> 90, ENTITY_NAME |-> 98, KEY_HASH |-> 112]

PL_CDR_LE == <<0, 3, 0, 0>>

Parameter(pid, body) == LE(pid, 2) \o LE(Len(body), 2) \o body

Sentinel == Parameter(PID.SENTINEL, <<>>)

Zeros(n) == [i \in 1 .. n |-> 0]

Padded(n) == (4 - (n % 4)) % 4

\* A name goes out with its \0, after its length and padded to four bytes.
StringParameter(pid, name) ==
  Parameter(pid, LE(Len(name) + 1, 4) \o name \o Zeros(1 + Padded(Len(name) + 1)))

MulticastParameter(topic) ==
  IF IsUDPv4(topic.multicast)
  THEN <<Parameter(PID.MULTICAST_LOCATOR, topic.multicast)>> ELSE <<>>

TopicParameters(topic) ==
  <<Parameter(PID.UNICAST_LOCATOR, topic.unicast)>> \o MulticastParameter(topic) \o
  <<StringParameter(PID.TOPIC_NAME, topic.topicName),
    StringParameter(PID.TYPE_NAME, topic.typeName),
    Parameter(PID.KEY_HASH, topic.guid), Parameter(PID.ENDPOINT_GUID, topic.guid),
    Parameter(PID.RELIABILITY, topic.reliability \o Zeros(8)),
    Parameter(PID.DURABILITY, topic.durability), Parameter(PID.DEADLINE, topic.deadline),
    Parameter(PID.LIFESPAN, topic.lifespan),
    Parameter(PID.LIVELINESS, Zeros(4) \o topic.liveliness),
    Parameter(PID.HISTORY, topic.history),
    Parameter(PID.RESOURCE_LIMITS, topic.maxSamples \o [i \in 1 .. 8 |-> 255])>>

\* The six built-in endpoints of discovery.
OwnBuiltIns == LE(63, 4)

BUILD_IN_PARTICIPANT == <<0, 0, 1, 193>>

ParticipantParameters(announced) ==
  <<Parameter(PID.PROTOCOL_VERSION, PROTOCOLVERSION \o Zeros(2)),
    Parameter(PID.VENDORID, VENDOR_ID \o Zeros(2)),
    Parameter(PID.DEFAULT_UNICAST, announced.defaultUnicast),
    Parameter(PID.METATRAFFIC_UNICAST, announced.metaUnicast),
    Parameter(PID.METATRAFFIC_MULTICAST, announced.metaMulticast),
    Parameter(PID.LEASE, announced.lease), Parameter(PID.PARTICIPANT_GUID, announced.guid),
    Parameter(PID.BUILTIN_ENDPOINTS, announced.endpoints)>>

List(parameters) == PL_CDR_LE \o FlattenSeq(parameters) \o Sentinel

----------------------------------------------------------------------------
(* Reading: one parameter after the other from position "at"; a parameter   *)
(* takes what it needs, whatever length it announces, and the next begins   *)
(* at a multiple of four.                                                   *)

Cursor(at, into) == [at |-> at, into |-> into, ended |-> FALSE, ok |-> FALSE]

\* Mutant of Step: only the announced length counts.
StepUnaligned(c, used, into) == [c EXCEPT !.at = @ + 4 + used, !.into = into]

Step(c, used, into) ==
  LET end == c.at + 4 + used IN [c EXCEPT !.at = end + Padded(end), !.into = into]

End(c, ok) == [c EXCEPT !.ended = TRUE, !.ok = ok]

\* A field of a parameter: its name, its place in the body, and how much is read.
Field(name, from, width, used) == [name |-> name, from |-> from, width |-> width, used |-> used]

Store(c, data, field) ==
  Step(c, field.used, [c.into EXCEPT ![field.name] = Slice(data, c.at + 4 + field.from, field.width)])

TopicField(pid) ==
  CASE pid = PID.ENDPOINT_GUID -> Field("guid", 0, 16, 16)
    [] pid = PID.RELIABILITY -> Field("reliability", 0, 4, 12)
    [] pid = PID.DURABILITY -> Field("durability", 0, 4, 4)
    [] pid = PID.HISTORY -> Field("history", 0, 8, 8)
    [] pid = PID.RESOURCE_LIMITS -> Field("maxSamples", 0, 4, 12)
    [] pid = PID.DEADLINE -> Field("deadline", 0, 8, 8)
    [] pid = PID.LIFESPAN -> Field("lifespan", 0, 8, 8)
    [] pid = PID.LIVELINESS -> Field("liveliness", 4, 8, 12)
    [] pid = PID.MULTICAST_LOCATOR -> Field("multicast", 0, 24, 24)
    [] OTHER -> Field("none", 0, 0, 0)

StoreName(c, data, name) ==
  LET length == Number32(data, c.at + 4)
      chars == Slice(data, c.at + 8, length)
  IN  Step(c, 4 + length, [c.into EXCEPT ![name] = SelectSeq(chars, LAMBDA x : x # 0)])

ReadTopicParameter(c, data) ==
  LET pid == Number16(data, c.at)
      length == Number16(data, c.at + 2)
      locator == Slice(data, c.at + 4, 24)
  IN  CASE Len(data) - c.at < 4 -> End(c, Len(data) = c.at)
        [] Len(data) - c.at >= 4 /\ Len(data) - (c.at + 4) < length -> End(c, FALSE)
        [] OTHER ->
           CASE pid = PID.SENTINEL -> End(c, TRUE)
             [] pid = PID.TOPIC_NAME -> StoreName(c, data, "topicName")
             [] pid = PID.TYPE_NAME -> StoreName(c, data, "typeName")
             [] pid = PID.UNICAST_LOCATOR ->
                Step(c, 24, IF IsUDPv4(locator) /\ IsSameSubnet(AddressOf(locator))
                            THEN [c.into EXCEPT !.unicast = locator] ELSE c.into)
             [] TopicField(pid).name # "none" -> Store(c, data, TopicField(pid))
             [] OTHER -> Step(c, length, c.into)

\* The value of a TopicData before anything is read.
INFINITE == <<255, 255, 255, 127, 255, 255, 255, 255>>

DefaultTopic ==
  [guid |-> Zeros(16), topicName |-> <<>>, typeName |-> <<>>, reliability |-> LE(1, 4),
   durability |-> LE(0, 4), unicast |-> FullLengthLocator(<<192, 168, 0, 42>>, 7411),
   multicast |-> LOCATOR_INVALID, deadline |-> INFINITE, lifespan |-> INFINITE,
   liveliness |-> INFINITE, history |-> Zeros(8), maxSamples |-> Zeros(4)]

\* A parameter takes at least four bytes.
ReadAll(ReadParameter(_, _), start, data) ==
  FoldLeft(LAMBDA c, i : IF c.ended THEN c ELSE ReadParameter(c, data), start,
           [i \in 1 .. (Len(data) \div 4) + 1 |-> i])

\* SEDPAgent reads the encapsulation as a parameter nobody knows, of length 0.
ReadTopic(data) == ReadAll(ReadTopicParameter, Cursor(0, DefaultTopic), data)

----------------------------------------------------------------------------

\* A new ParticipantProxyData; reset leaves what it does not name as it was.
NewProxyData ==
  [guid |-> Zeros(16), version |-> PROTOCOLVERSION, vendor |-> <<0, 0>>,
   inlineQos |-> <<0>>, lease |-> LE(100, 4) \o Zeros(4), endpoints |-> Zeros(4),
   defaultUnicast |-> <<>>, metaUnicast |-> <<>>, metaMulticast |-> <<>>,
   defaultMulticast |-> <<>>]

Reset(proxy) ==
  [proxy EXCEPT !.guid = Zeros(16), !.inlineQos = <<0>>, !.defaultUnicast = <<>>,
                !.metaUnicast = <<>>, !.metaMulticast = <<>>, !.defaultMulticast = <<>>]

ProxyField(pid) ==
  CASE pid = PID.PROTOCOL_VERSION -> Field("version", 0, 2, 2)
    [] pid = PID.VENDORID -> Field("vendor", 0, 2, 2)
    [] pid = PID.INLINE_QOS -> Field("inlineQos", 0, 1, 1)
    [] pid = PID.LEASE -> Field("lease", 0, 8, 8)
    [] pid = PID.BUILTIN_ENDPOINTS -> Field("endpoints", 0, 4, 4)
    [] OTHER -> Field("none", 0, 0, 0)

LocatorList(pid) ==
  CASE pid = PID.METATRAFFIC_MULTICAST -> "metaMulticast"
    [] pid = PID.METATRAFFIC_UNICAST -> "metaUnicast"
    [] pid = PID.DEFAULT_UNICAST -> "defaultUnicast"
    [] pid = PID.DEFAULT_MULTICAST -> "defaultMulticast"
    [] OTHER -> "none"

\* readLocatorIntoList: into the first slot that is not valid.
ReadLocatorIntoList(c, data, list) ==
  LET locator == Slice(data, c.at + 4, 24)
      wanted == IsSameSubnet(AddressOf(locator)) \/ IsMulticastAddress(AddressOf(locator))
  IN  Step(c, 24, IF wanted /\ Len(c.into[list]) < MaxLocators
                  THEN [c.into EXCEPT ![list] = Append(@, LocatorIPv4(locator))] ELSE c.into)

ReadProxyParameter(c, data, known) ==
  LET pid == Number16(data, c.at)
      length == Number16(data, c.at + 2)
      guid == Slice(data, c.at + 4, 16)
  IN  CASE Len(data) - c.at < 4 -> End(c, TRUE)
        [] Len(data) - c.at >= 4 /\ Len(data) - (c.at + 4) < length -> End(c, FALSE)
        [] OTHER ->
           CASE pid = PID.SENTINEL -> End(c, TRUE)
             [] pid = PID.PARTICIPANT_GUID /\ SubSeq(guid, 1, 12) \in known ->
                End([c EXCEPT !.into.guid = guid], TRUE)
             [] pid = PID.PARTICIPANT_GUID -> Step(c, 16, [c.into EXCEPT !.guid = guid])
             [] pid = PID.PROTOCOL_VERSION /\ data[c.at + 5] < PROTOCOLVERSION[1] ->
                End([c EXCEPT !.into.version[1] = data[c.at + 5]], FALSE)
             [] LocatorList(pid) # "none" -> ReadLocatorIntoList(c, data, LocatorList(pid))
             [] pid = PID.KEY_HASH -> Step(c, 0, c.into)
             [] pid \in {PID.ENTITY_NAME, PID.PROPERTY_LIST, PID.USER_DATA, PID.PAD} ->
                Step(c, length, c.into)
             [] ProxyField(pid).name # "none" /\ ~(pid = PID.PROTOCOL_VERSION
                  /\ data[c.at + 5] < PROTOCOLVERSION[1]) -> Store(c, data, ProxyField(pid))
             [] OTHER -> End(c, FALSE)

\* configureEndianessAndOptions passes the encapsulation.
ReadProxy(proxy, data, known) ==
  ReadAll(LAMBDA c, d : ReadProxyParameter(c, d, known), Cursor(4, Reset(proxy)), data)
=============================================================================
