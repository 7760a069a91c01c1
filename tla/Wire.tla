------------------------------- MODULE Wire --------------------------------
(***************************************************************************)
(* The way of a packet: its submessages are composed in a PBufWrapper, it  *)
(* arrives at a port of the device, Domain::receiveCallback chooses the    *)
(* participants it is for, and the MessageReceiver of each walks through   *)
(* the submessages and hands on what they carry.  The reader thread does   *)
(* one packet at a time.                                                   *)
(***************************************************************************)
EXTENDS Endpoints, FiniteSets

CONSTANTS
  NumParticipants,   \* m_nextParticipantId: ids 0, 1, ...
  Prefix,            \* m_guidPrefix of each participant, by its id
  Readers,           \* the entity ids of each participant's readers
  Writers,           \* the entity ids of each participant's writers
  Matched,           \* for each participant, the reader that knows a writer's GUID
  Groups,            \* for each participant, the multicast addresses of its readers
  Compositions,      \* what is sent: [prefix, subs]
  Destinations,      \* where to: [kind, id, address]
  MaxPackets         \* packets sent

Participants == 0 .. NumParticipants - 1

SPDP_READER == <<0, 1, 0, 199>>
SEDP_PUB_READER == <<0, 0, 3, 199>>
SEDP_SUB_READER == <<0, 0, 4, 199>>
ENTITYID_UNKNOWN == <<0, 0, 0, 0>>
GUIDPREFIX_UNKNOWN == Zeros(12)

ASSUME WireAssumption ==
  /\ NumParticipants \in 1 .. 64
  /\ \A p, q \in Participants : Prefix[p] = Prefix[q] => p = q
  /\ \A p \in Participants : {SPDP_READER, SEDP_PUB_READER, SEDP_SUB_READER} \subseteq Readers[p]
  /\ \A p \in Participants : \A g \in DOMAIN Matched[p] : Matched[p][g] \in Readers[p]
  /\ \A to \in Destinations :
       to.id \in Nat /\ to.kind \in {"metaMulticast", "userMulticast", "builtIn", "user"}
  /\ MaxPackets \in Nat

VARIABLES
  stage,       \* "idle", "sent", or "routed"
  packet,      \* the packet under way
  packets,     \* how many were sent
  todo,        \* the participants receiveCallback has yet to give it to
  pos,         \* nextPos of the first of them, or BeforeHeader
  source,      \* sourceGuidPrefix
  processed,   \* the participants whose processHeader let it pass
  handed,      \* what each participant's endpoints were handed
  proxy,       \* m_proxyDataBuffer of each SPDPAgent
  known        \* the prefixes of each participant's m_remoteParticipants

vars == <<stage, packet, packets, todo, pos, source, processed, handed, proxy, known>>

\* DataSize_t has sixteen bits.
DataSizes == 65536

NoPacket == [subs |-> <<>>]

\* processMessage has not read the header; nextPos itself may come round to 0.
BeforeHeader == -1

Init ==
  /\ stage = "idle" /\ packet = NoPacket /\ packets = 0
  /\ todo = {} /\ pos = BeforeHeader /\ source = GUIDPREFIX_UNKNOWN
  /\ processed = {}
  /\ handed = [p \in Participants |-> <<>>]
  /\ proxy = [p \in Participants |-> NewProxyData]
  /\ known = [p \in Participants |-> {}]

----------------------------------------------------------------------------
(* udpUtils: the ports of DOMAIN_ID 0. *)

PB == 7400
PG == 2
D0 == 0
D1 == 10
D2 == 1
D3 == 11

GetBuiltInUnicastPort(id) == PB + D1 + PG * id

GetUserUnicastPort(id) == PB + D3 + PG * id

IsUserPort(port) == port % 2 = 1

IsMetaMultiCastPort(port) == port - PB = D0

\* Mutant of IsUserMultiCastPort: up to D3, as in isMultiCastPort.
IsUserMultiCastPortToD3(port) == port - PB >= D2 /\ port - PB < D3

IsUserMultiCastPort(port) == port - PB >= D2 /\ port - PB < D1

PARTICIPANT_ID_INVALID == -1

\* ParticipantId_t has eight bits and a sign.
Int8(n) == ((n + 128) % 256) - 128

\* The quotient is rounded towards 0.
Half(n) == IF n >= 0 THEN n \div PG ELSE -((-n) \div PG)

GetParticipantIdFromUnicastPort(port, isUserPort) ==
  LET offset == IF isUserPort THEN D3 ELSE D1
      id == Half(Int8(Int8(port - PB) - offset))
  IN  IF id * PG + PB + offset = port THEN id ELSE PARTICIPANT_ID_INVALID

\* registerPort and the constructor of Domain.
Ports ==
  {PB + D0, PB + D2} \cup {GetBuiltInUnicastPort(p) : p \in Participants}
                     \cup {GetUserUnicastPort(p) : p \in Participants}

PortOf(to) ==
  CASE to.kind = "metaMulticast" -> PB + D0
    [] to.kind = "userMulticast" -> PB + D2
    [] to.kind = "builtIn" -> GetBuiltInUnicastPort(to.id)
    [] to.kind = "user" -> GetUserUnicastPort(to.id)

----------------------------------------------------------------------------
(* Composing and sending. *)

Compose(prefix, subs) ==
  FoldLeft(AddSubmessage, AddHeader(NoBuffer, prefix), subs)

\* What is sent ends with a submessage that carries something, and is a datagram.
ASSUME CompositionsAssumption ==
  \A c \in Compositions :
    /\ c.prefix \in Octets(12)
    /\ c.subs \in Seq(Range(c.subs)) /\ c.subs # <<>>
    /\ \A i \in DOMAIN c.subs : WellFormed(c.subs[i])
    /\ Last(c.subs).kind \notin {INFO_DST, INFO_TS}
    /\ Len(Compose(c.prefix, c.subs).bytes) < DataSizes

Send(c, to) ==
  /\ stage = "idle" /\ packets < MaxPackets
  /\ LET b == Compose(c.prefix, c.subs)
     IN  packet' = [prefix |-> c.prefix, subs |-> c.subs, to |-> to,
                    bytes |-> b.bytes, free |-> b.free]
  /\ stage' = "sent" /\ packets' = packets + 1
  /\ processed' = {} /\ handed' = [p \in Participants |-> <<>>]
  /\ UNCHANGED <<todo, pos, source, proxy, known>>

\* Nothing of the device is bound to that port.
NotForUs ==
  /\ stage = "sent" /\ PortOf(packet.to) \notin Ports
  /\ stage' = "idle" /\ packet' = NoPacket
  /\ UNCHANGED <<packets, todo, pos, source, processed, handed, proxy, known>>

----------------------------------------------------------------------------
(* Domain::receiveCallback. *)

\* hasReaderWithMulticastLocator.
HasReaderWithMulticastLocator(p, address) == address \in Groups[p]

Recipients(port, address) ==
  LET id == GetParticipantIdFromUnicastPort(port, IsUserPort(port))
  IN  IF IsMetaMultiCastPort(port) THEN Participants
      ELSE IF IsUserMultiCastPort(port)
      THEN {p \in Participants : HasReaderWithMulticastLocator(p, address)}
      ELSE {id} \cap Participants

ReceiveCallback ==
  /\ stage = "sent" /\ PortOf(packet.to) \in Ports
  /\ todo' = Recipients(PortOf(packet.to), packet.to.address)
  /\ stage' = "routed" /\ pos' = BeforeHeader
  /\ UNCHANGED <<packet, packets, source, processed, handed, proxy, known>>

----------------------------------------------------------------------------
(* MessageReceiver::processMessage of the first participant in todo. *)

Current == CHOOSE p \in todo : \A q \in todo : p <= q

Processing == stage = "routed" /\ todo # {}

Return == todo' = todo \ {Current} /\ pos' = BeforeHeader

\* resetState and processHeader.
ProcessHeader ==
  /\ Processing /\ pos = BeforeHeader
  /\ LET h == DeserializeHeader(packet.bytes, 0)
         passes == /\ h.ok /\ h.guidPrefix # Prefix[Current]
                   /\ h.protocolName = RTPS /\ h.version[1] = PROTOCOLVERSION[1]
     IN  IF passes
         THEN /\ source' = h.guidPrefix /\ pos' = HeaderSize
              /\ processed' = processed \cup {Current}
              /\ UNCHANGED todo
         ELSE source' = GUIDPREFIX_UNKNOWN /\ Return /\ UNCHANGED processed
  /\ UNCHANGED <<stage, packet, packets, handed, proxy, known>>

\* An endpoint is handed a message; discovery reads a parameter list in it.
HandOn(message, list) ==
  handed' = [handed EXCEPT ![Current] = Append(@, [message |-> message, list |-> list])]

NoList == [ok |-> FALSE]

DataFor(reader, guid, sn, data) ==
  [kind |-> DATA, reader |-> reader, guid |-> guid, sn |-> sn, data |-> data]

\* m_inputBuffer of the SPDPAgent, m_buffer of the SEDPAgent.
SPDPBuffer == 400
SEDPBuffer == 600

\* copyInto fails: the reader has taken the change, but nobody reads the list.
LeaveUnread(message) == HandOn(message, NoList) /\ UNCHANGED <<proxy, known>>

\* handleSPDPPackage and processProxyData, as far as the list goes.
LearnParticipant(msg, data) ==
  LET c == ReadProxy(proxy[Current], data, known[Current])
      prefix == SubSeq(c.into.guid, 1, 12)
      message == DataFor(SPDP_READER, source \o msg.writer, msg.sn, data)
  IN  \/ Len(data) > SPDPBuffer /\ LeaveUnread(message)
      \/ /\ Len(data) <= SPDPBuffer
         /\ proxy' = [proxy EXCEPT ![Current] = c.into]
         /\ known' = IF c.ok /\ prefix # Prefix[Current]
                     THEN [known EXCEPT ![Current] = @ \cup {prefix}] ELSE known
         /\ HandOn(message, [ok |-> c.ok, learned |-> c.into,
                             first |-> prefix \notin known[Current]])

\* onNewPublisher and onNewSubscriber, as far as the list goes.
LearnTopic(msg, reader, data) ==
  LET c == ReadTopic(data)
      message == DataFor(reader, source \o msg.writer, msg.sn, data)
  IN  \/ Len(data) > SEDPBuffer /\ LeaveUnread(message)
      \/ /\ Len(data) <= SEDPBuffer
         /\ HandOn(message, [ok |-> c.ok, learned |-> c.into])
         /\ UNCHANGED <<proxy, known>>

\* Of the readers that know no writer the SPDP reader is the first.
GetReaderByWriterId(guid) ==
  IF guid \in DOMAIN Matched[Current] THEN Matched[Current][guid] ELSE SPDP_READER

HandNothing == UNCHANGED <<handed, proxy, known>>

ProcessDataSubmessage(header) ==
  LET msg == DeserializeData(packet.bytes, pos)
      reader == IF msg.reader = ENTITYID_UNKNOWN THEN GetReaderByWriterId(source \o msg.writer)
                ELSE msg.reader
      size == (header.octets - DataSize + SubmessageHeaderSize) % DataSizes
      data == Slice(packet.bytes, pos + DataSize, size)
  IN  CASE ~msg.ok \/ (msg.ok /\ reader \notin Readers[Current]) -> HandNothing
        [] OTHER ->
           CASE reader = SPDP_READER -> LearnParticipant(msg, data)
             [] reader \in {SEDP_PUB_READER, SEDP_SUB_READER} -> LearnTopic(msg, reader, data)
             [] OTHER -> /\ HandOn(DataFor(reader, source \o msg.writer, msg.sn, data), NoList)
                         /\ UNCHANGED <<proxy, known>>

HeartbeatFor(reader, guid, msg) ==
  [kind |-> HEARTBEAT, reader |-> reader, guid |-> guid,
   firstSN |-> msg.firstSN, lastSN |-> msg.lastSN, count |-> msg.count]

ProcessHeartbeatSubmessage ==
  LET msg == DeserializeHeartbeat(packet.bytes, pos)
  IN  IF msg.ok /\ msg.reader \in Readers[Current]
      THEN /\ HandOn(HeartbeatFor(msg.reader, source \o msg.writer, msg), NoList)
           /\ UNCHANGED <<proxy, known>>
      ELSE HandNothing

AckNackFor(writer, guid, msg) ==
  [kind |-> ACKNACK, writer |-> writer, guid |-> guid, base |-> msg.base,
   numBits |-> msg.numBits, count |-> msg.count]

ProcessAckNackSubmessage ==
  LET msg == DeserializeAckNack(packet.bytes, pos)
  IN  IF msg.ok /\ msg.writer \in Writers[Current]
      THEN /\ HandOn(AckNackFor(msg.writer, source \o msg.reader, msg), NoList)
           /\ UNCHANGED <<proxy, known>>
      ELSE HandNothing

\* One round of the loop of processMessage.
ProcessSubmessage ==
  /\ Processing /\ pos # BeforeHeader /\ pos < Len(packet.bytes)
  /\ LET header == DeserializeSubmessageHeader(packet.bytes, pos)
     IN  IF ~header.ok THEN Return /\ HandNothing
         ELSE /\ CASE header.submessageId = DATA -> ProcessDataSubmessage(header)
                   [] header.submessageId = HEARTBEAT -> ProcessHeartbeatSubmessage
                   [] header.submessageId = ACKNACK -> ProcessAckNackSubmessage
                   [] OTHER -> HandNothing
              /\ pos' = (pos + header.octets + SubmessageHeaderSize) % DataSizes
              /\ UNCHANGED todo
  /\ UNCHANGED <<stage, packet, packets, source, processed>>

EndOfMessage ==
  /\ Processing /\ pos # BeforeHeader /\ pos >= Len(packet.bytes)
  /\ Return
  /\ UNCHANGED <<stage, packet, packets, source, processed, handed, proxy, known>>

\* The reader thread turns to the next packet.
Done == stage = "routed" /\ todo = {}

NextPacket ==
  /\ Done
  /\ stage' = "idle" /\ packet' = NoPacket
  /\ UNCHANGED <<packets, todo, pos, source, processed, handed, proxy, known>>

\* removeRemoteParticipant of one whose lease is over.
Forget(p) ==
  /\ stage = "idle" /\ packets < MaxPackets
  /\ \E prefix \in known[p] : known' = [known EXCEPT ![p] = @ \ {prefix}]
  /\ UNCHANGED <<stage, packet, packets, todo, pos, source, processed, handed, proxy>>

Next ==
  \/ \E c \in Compositions, to \in Destinations : Send(c, to)
  \/ NotForUs \/ ReceiveCallback
  \/ ProcessHeader \/ ProcessSubmessage \/ EndOfMessage \/ NextPacket
  \/ \E p \in Participants : Forget(p)

Spec == Init /\ [][Next]_vars

----------------------------------------------------------------------------
(* Properties. *)

(* No byte of a packet goes out unwritten: where a payload is chained to    *)
(* the submessage before it (PBufWrapper::append(PBufWrapper &&)) nothing   *)
(* of the space the serialisers reserved is left, nor behind the last       *)
(* submessage.                                                              *)
NoGap ==
  stage # "idle" => /\ packet.free = 0
                    /\ \A i \in DOMAIN packet.bytes : packet.bytes[i] # Unwritten

\* The participants a packet is meant for.
Addressed(to) ==
  CASE to.kind = "metaMulticast" -> Participants
    [] to.kind = "userMulticast" -> {p \in Participants : to.address \in Groups[p]}
    [] OTHER -> {to.id} \cap Participants

(* A packet is processed by exactly the participants it was addressed to,   *)
(* built-in or user traffic, unicast or multicast, and never by the one     *)
(* that sent it (Domain::receiveCallback, udpUtils, processHeader).         *)
RightParticipant ==
  /\ stage = "routed" => processed \subseteq Addressed(packet.to)
  /\ Done => processed = {p \in Addressed(packet.to) : Prefix[p] # packet.prefix}

\* What a submessage means to participant p: a message for one of its endpoints,
\* or nothing.
Meant(p, prefix, m) ==
  LET guid == prefix \o m.writer
      reader == IF m.reader = ENTITYID_UNKNOWN THEN Matched[p][guid] ELSE m.reader
  IN  CASE m.kind = DATA ->
           IF /\ m.reader = ENTITYID_UNKNOWN => guid \in DOMAIN Matched[p]
              /\ reader \in Readers[p]
           THEN <<DataFor(reader, guid, m.sn, m.payload)>> ELSE <<>>
        [] m.kind = HEARTBEAT ->
           IF m.reader \in Readers[p] THEN <<HeartbeatFor(m.reader, guid, m)>> ELSE <<>>
        [] m.kind = ACKNACK ->
           IF m.writer \in Writers[p] THEN <<AckNackFor(m.writer, prefix \o m.reader, m)>>
           ELSE <<>>
        [] OTHER -> <<>>

MeantBy(p, prefix, subs) ==
  FoldLeft(LAMBDA messages, m : messages \o Meant(p, prefix, m), <<>>, subs)

Messages(p) == [i \in DOMAIN handed[p] |-> handed[p][i].message]

\* A DATA for any reader of its writer, whose writer nobody knows yet, goes to
\* the SPDP reader; behind a DATA_FRAG, which announces no length, the receiver
\* takes the payload for submessages.
Intelligible(p) ==
  \A i \in DOMAIN packet.subs :
    LET m == packet.subs[i]
    IN  /\ m.kind # DATA_FRAG
        /\ m.kind = DATA /\ m.reader = ENTITYID_UNKNOWN
             => packet.prefix \o m.writer \in DOMAIN Matched[p]

(* What was composed is what is understood: the endpoints of a participant  *)
(* are handed every submessage that is for them, in the order of the        *)
(* packet, with the sender's GUID, the numbers and the bytes it was         *)
(* composed of, and nothing else, whatever submessages stand before it and  *)
(* whichever of them the participant has no endpoint for.                   *)
Understood ==
  Done => \A p \in processed :
    Intelligible(p) => Messages(p) = MeantBy(p, packet.prefix, packet.subs)

\* A locator is usable in the subnet of the device only.
Usable(locator) == IsUDPv4(locator) /\ IsSameSubnet(AddressOf(locator))

\* The writers and readers count milliseconds.
InMs(d) == d = Infinite \/ (Ms(d) > 0 /\ d.nanosec % 1000000 = 0)

SaysDuration(field, d) ==
  InMs(d) => field = IF d = Infinite THEN INFINITE ELSE LE(d.sec, 4) \o LE(d.nanosec, 4)

\* A name as long as its array is not stored as it was.
NamesKept(a) == Len(RT \o a.topicName) < MaxNameLength /\ Len(a.typeName) < MaxNameLength

TopicUnderstood(a, learned) ==
  /\ learned.guid = a.guid
  /\ NamesKept(a) => learned.topicName = RT \o a.topicName /\ learned.typeName = a.typeName
  /\ learned.reliability = LE(a.qos.reliability, 4)
  /\ learned.durability = LE(a.qos.durability, 4)
  /\ learned.history = LE(a.qos.history, 4) \o LE(a.qos.depth, 4)
  /\ SaysDuration(learned.deadline, a.qos.deadline)
  /\ SaysDuration(learned.lifespan, a.qos.lifespan)
  /\ a.kind = "writer" => learned.maxSamples = LE(a.qos.max_samples, 4)
  /\ Usable(a.locator) => learned.unicast = a.locator

ListOf(locator) == IF Usable(locator) THEN <<LocatorIPv4(locator)>> ELSE <<>>

ParticipantUnderstood(a, learned) ==
  /\ learned.guid = a.guid /\ learned.lease = a.lease /\ learned.endpoints = a.endpoints
  /\ learned.defaultUnicast = ListOf(a.defaultUnicast)
  /\ learned.metaUnicast = ListOf(a.metaUnicast)

(* What an application asked for is what the discovery of a peer learns:    *)
(* the reliability, durability, history, deadline, lifespan and sample      *)
(* limit of the QoS profile, the names, the GUID and a usable locator of an *)
(* endpoint, and the lease, built-in endpoints and usable unicast locators  *)
(* of a participant not yet known, also from a peer that orders the         *)
(* parameters its own way or adds ones this code skips, and whatever the    *)
(* list read before left behind.                                            *)
AnnouncedIsUnderstood ==
  Done => \A p \in processed : \A i \in DOMAIN handed[p] : \A j \in DOMAIN packet.subs :
    LET h == handed[p][i].message
        list == handed[p][i].list
        m == packet.subs[j]
    IN  m.kind = DATA /\ h.kind = DATA /\ h.sn = m.sn /\ h.reader = m.reader =>
          /\ "asked" \in DOMAIN m => list.ok /\ TopicUnderstood(m.asked, list.learned)
          /\ "participant" \in DOMAIN m =>
               /\ list.ok /\ list.learned.guid = m.participant.guid
               /\ list.first => ParticipantUnderstood(m.participant, list.learned)
=============================================================================
