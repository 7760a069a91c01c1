------------------------------ MODULE Packets ------------------------------
(***************************************************************************)
(* RTPS packets as bytes: PBufWrapper, the buffer they are composed in;    *)
(* MessageFactory and serializeMessage, which write submessages into it;   *)
(* deserializeMessage, which reads them.  Sequence numbers, counts and ids *)
(* are tuples of bytes; the sizes the parser computes with are numbers.    *)
(***************************************************************************)
EXTENDS Integers, Sequences

CONSTANT Unwritten     \* a byte of a pbuf that nothing has written

Byte == 0 .. 255

Octets(n) == [1 .. n -> Byte]

ASSUME PacketsAssumption == Unwritten \notin Byte

----------------------------------------------------------------------------
(* Little-endian numbers. *)

LE(n, width) == [i \in 1 .. width |-> (n \div (256 ^ (i - 1))) % 256]

\* n bytes from position "at" (0 is the first).
Slice(data, at, n) == SubSeq(data, at + 1, at + n)

Number16(data, at) == data[at + 1] + 256 * data[at + 2]

Number32(data, at) == Number16(data, at) + 65536 * Number16(data, at + 2)

----------------------------------------------------------------------------
(* PBufWrapper: the chain of pbufs as one sequence of bytes, and the space  *)
(* m_freeSpace at its end.  Allocation succeeds.                            *)

NoBuffer == [bytes |-> <<>>, free |-> 0]

IsValid(b) == b.bytes # <<>>

SpaceUsed(b) == Len(b.bytes) - b.free

\* Mutant of Reserve: the free space is not taken into account.
ReserveAnew(b, length) ==
  [bytes |-> b.bytes \o [i \in 1 .. length |-> Unwritten], free |-> b.free + length]

\* reserve, increaseSizeBy: another pbuf for what the free space does not hold.
Reserve(b, length) ==
  LET additional == length - b.free
  IN  IF additional <= 0 THEN b
      ELSE [bytes |-> b.bytes \o [i \in 1 .. additional |-> Unwritten],
            free |-> b.free + additional]

\* append(data, length): into the free space, or not at all.
Append8(b, data) ==
  LET at == SpaceUsed(b)
  IN  IF Len(data) > b.free THEN b
      ELSE [bytes |-> [i \in DOMAIN b.bytes |->
                         IF i - at \in DOMAIN data THEN data[i - at] ELSE b.bytes[i]],
            free |-> b.free - Len(data)]

\* append(PBufWrapper &&): the other chain is hung behind this one, whose free
\* space is lost.
Chain(b, other) ==
  IF ~IsValid(b) THEN other ELSE [bytes |-> b.bytes \o other.bytes, free |-> other.free]

\* A buffer allocated for some data and filled with it.
Filled(data) == Append8(Reserve(NoBuffer, Len(data)), data)

----------------------------------------------------------------------------
(* Sizes and codes of submessages. *)

HeaderSize == 20
SubmessageHeaderSize == 4
InfoDSTSize == 16
DataSize == 24
DataFragSize == 36
HeartbeatSize == 32

\* getRawSizeWithoutSNSet.
AckNackSizeWithoutSet == 16

BitMapSize(numBits) == IF numBits # 0 THEN 4 * ((numBits \div 32) + 1) ELSE 0

\* getRawSize of a SubmessageAckNack: base, numBits and the bitmap.
AckNackSize(numBits) == AckNackSizeWithoutSet + 8 + 4 + BitMapSize(numBits)

ACKNACK == 6
HEARTBEAT == 7
INFO_TS == 9
INFO_DST == 14
DATA == 21
DATA_FRAG == 22

\* The first bytes of a submessage do not count in octetsToNextHeader.
numBytesUntilEndOfLength == 4

RTPS == <<82, 84, 80, 83>>
PROTOCOLVERSION == <<2, 2>>
VENDOR_ID == <<13, 37>>

----------------------------------------------------------------------------
(* MessageFactory. *)

\* serializeMessage of a SubmessageHeader reserves the size of a whole Header.
\* Flag 1 is FLAG_LITTLE_ENDIAN, 4 FLAG_DATA_PAYLOAD.
SerializeSubmessageHeader(b, kind, flags, octets) ==
  Append8(Reserve(b, HeaderSize), <<kind, flags>> \o LE(octets, 2))

AddHeader(b, prefix) ==
  Append8(Reserve(b, HeaderSize), RTPS \o PROTOCOLVERSION \o VENDOR_ID \o prefix)

AddInfoDST(b, dst) ==
  Append8(SerializeSubmessageHeader(Reserve(b, InfoDSTSize), INFO_DST, 1, 12), dst)

\* The time is not told apart.
AddTimeStamp(b) ==
  Append8(Reserve(SerializeSubmessageHeader(b, INFO_TS, 1, 8), 8), [i \in 1 .. 8 |-> 1])

\* Mutant of AddData: the length counts the whole submessage.
AddDataWhole(b, m) ==
  LET filledPayload == Filled(m.payload)
      octets == DataSize + SpaceUsed(filledPayload)
      flags == IF IsValid(filledPayload) THEN 5 ELSE 1
      head == SerializeSubmessageHeader(Reserve(b, DataSize), DATA, flags, octets)
      msg == Append8(head, LE(0, 2) \o LE(16, 2) \o m.reader \o m.writer \o m.sn)
  IN  IF IsValid(filledPayload) THEN Chain(msg, filledPayload) ELSE msg

AddData(b, m) ==
  LET filledPayload == Filled(m.payload)
      octets == DataSize + SpaceUsed(filledPayload) - numBytesUntilEndOfLength
      flags == IF IsValid(filledPayload) THEN 5 ELSE 1
      head == SerializeSubmessageHeader(Reserve(b, DataSize), DATA, flags, octets)
      msg == Append8(head, LE(0, 2) \o LE(16, 2) \o m.reader \o m.writer \o m.sn)
  IN  IF IsValid(filledPayload) THEN Chain(msg, filledPayload) ELSE msg

\* octetsToNextHeader is 0: the submessage reaches to the end of the packet.
AddDataFrag(b, m) ==
  LET head == SerializeSubmessageHeader(Reserve(b, DataFragSize), DATA_FRAG, 1, 0)
      msg == Append8(head, LE(0, 2) \o LE(28, 2) \o m.reader \o m.writer \o m.sn
                             \o LE(m.number, 4) \o LE(1, 2) \o LE(Len(m.payload), 2)
                             \o LE(m.sampleSize, 4))
  IN  Chain(msg, Filled(m.payload))

AddHeartbeat(b, m) ==
  Append8(SerializeSubmessageHeader(Reserve(b, HeartbeatSize), HEARTBEAT, 1,
                                    HeartbeatSize - numBytesUntilEndOfLength),
          m.reader \o m.writer \o m.firstSN \o m.lastSN \o m.count)

\* The bitmap is one word; a second one is whatever lies behind it.
AddAckNack(b, m) ==
  LET size == AckNackSize(m.numBits)
      head == SerializeSubmessageHeader(Reserve(b, size), ACKNACK, 1,
                                        size - numBytesUntilEndOfLength)
      set == Append8(head, m.reader \o m.writer \o m.base \o LE(m.numBits, 4))
      map == IF m.numBits # 0
             THEN Append8(set, [i \in 1 .. BitMapSize(m.numBits) |-> 128]) ELSE set
  IN  Append8(map, m.count)

AddSubmessage(b, m) ==
  CASE m.kind = INFO_DST -> AddInfoDST(b, m.prefix)
    [] m.kind = INFO_TS -> AddTimeStamp(b)
    [] m.kind = DATA -> AddData(b, m)
    [] m.kind = DATA_FRAG -> AddDataFrag(b, m)
    [] m.kind = HEARTBEAT -> AddHeartbeat(b, m)
    [] m.kind = ACKNACK -> AddAckNack(b, m)

\* What the factory is given to write.
WellFormed(m) ==
  /\ m.kind \in {INFO_DST, INFO_TS, DATA, DATA_FRAG, HEARTBEAT, ACKNACK}
  /\ m.kind = INFO_DST => m.prefix \in Octets(12)
  /\ m.kind \in {DATA, DATA_FRAG, HEARTBEAT, ACKNACK} =>
       m.reader \in Octets(4) /\ m.writer \in Octets(4)
  /\ m.kind \in {DATA, DATA_FRAG} => m.sn \in Octets(8) /\ m.payload \in Seq(Byte)
  /\ m.kind = DATA_FRAG => m.number \in Nat /\ m.sampleSize \in Nat
  /\ m.kind = HEARTBEAT =>
       m.firstSN \in Octets(8) /\ m.lastSN \in Octets(8) /\ m.count \in Octets(4)
  /\ m.kind = ACKNACK => m.base \in Octets(8) /\ m.numBits \in Nat /\ m.count \in Octets(4)

----------------------------------------------------------------------------
(* deserializeMessage: what is read at position "at" of a packet, or Fails. *)

Fails == [ok |-> FALSE]

Remaining(data, at) == Len(data) - at

DeserializeHeader(data, at) ==
  IF Remaining(data, at) < HeaderSize THEN Fails
  ELSE [ok |-> TRUE, protocolName |-> Slice(data, at, 4), version |-> Slice(data, at + 4, 2),
        vendorId |-> Slice(data, at + 6, 2), guidPrefix |-> Slice(data, at + 8, 12)]

DeserializeSubmessageHeader(data, at) ==
  IF Remaining(data, at) < SubmessageHeaderSize THEN Fails
  ELSE [ok |-> TRUE, submessageId |-> data[at + 1], octets |-> Number16(data, at + 2)]

DeserializeData(data, at) ==
  LET header == DeserializeSubmessageHeader(data, at)
  IN  IF ~header.ok THEN Fails
      ELSE IF Remaining(data, at) < SubmessageHeaderSize + header.octets THEN Fails
      ELSE [ok |-> TRUE, reader |-> Slice(data, at + 8, 4), writer |-> Slice(data, at + 12, 4),
            sn |-> Slice(data, at + 16, 8)]

DeserializeHeartbeat(data, at) ==
  IF Remaining(data, at) < HeartbeatSize THEN Fails
  ELSE [ok |-> TRUE, reader |-> Slice(data, at + 4, 4), writer |-> Slice(data, at + 8, 4),
        firstSN |-> Slice(data, at + 12, 8), lastSN |-> Slice(data, at + 20, 8),
        count |-> Slice(data, at + 28, 4)]

\* Only the first word of the bitmap is kept.
DeserializeAckNack(data, at) ==
  IF Remaining(data, at) < AckNackSizeWithoutSet THEN Fails
  ELSE LET numBits == Number32(data, at + 20)
       IN  IF Remaining(data, at) < AckNackSize(numBits) THEN Fails
           ELSE [ok |-> TRUE, reader |-> Slice(data, at + 4, 4),
                 writer |-> Slice(data, at + 8, 4), base |-> Slice(data, at + 12, 8),
                 numBits |-> numBits,
                 count |-> Slice(data, at + 24 + BitMapSize(numBits), 4)]
=============================================================================
