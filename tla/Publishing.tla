---------------------------- MODULE Publishing ----------------------------
(***************************************************************************)
(* Publisher::publish and Subscriber::callback_handler over a message      *)
(* object that the application keeps and publishes again.  A message whose *)
(* announced size fits the global buffer is serialised at once; a larger   *)
(* one is stored as a serialiser that refers to the object, and each       *)
(* sendData calls it until it returns nothing, one DATA_FRAG a call.       *)
(***************************************************************************)
EXTENDS MessageClasses

CONSTANTS
  Classes,         \* the message classes in use
  Values(_),       \* the values an object of a class may take
  MaxPublished,    \* publications of the object
  MaxSends         \* rounds of sendData over a fragmented change

\* An object holding "value" has something for the member to write.  A bounded array
\* of strings, whose elements the generator gives the size -1, is none.
Filled(f, value) ==
  /\ f.kind \in {"primitive", "bounded", "array"} => f.size \in {1, 2, 4, 8}
  /\ f.bound \in Nat
  /\ f.kind \in {"primitive", "bounded", "array", "strings", "string", "header"}
  /\ f.kind \in {"array", "string", "header"} => value[f.name] \in Nat
  /\ f.kind = "strings" => value[f.name] \in Seq(Nat)

\* A class lists its members, the same in both directions; nested members are
\* told apart by their names and have no nested members of their own.
ASSUME PublishingAssumption ==
  \A c \in Classes :
    /\ c.writes \in Seq(Range(c.writes)) /\ c.reads = c.writes
    /\ c.pads \in BOOLEAN /\ c.raw \in Nat
    /\ \A i, j \in DOMAIN c.writes :
         c.writes[i].kind = "custom" /\ c.writes[i].name = c.writes[j].name => i = j
    /\ \A v \in Values(c), f \in Range(c.writes) :
         IF f.kind = "custom"
         THEN f.of \in Seq(Range(f.of)) /\ \A g \in Range(f.of) : Filled(g, v)
         ELSE Filled(f, v)

VARIABLES
  class, value,    \* the object: its class, the lengths of its members,
  msg, nested,     \* its counters and the cntPub of its nested members
  history,         \* the changes newChange and newChangeCallback stored
  sending,         \* the change sendData is cutting into fragments, or 0
  sends,           \* how many rounds began
  sent,            \* the fragments of the last round
  got              \* what callback_handler read last

vars == <<class, value, msg, nested, history, sending, sends, sent, got>>

\* sizeof(buf) and sizeof(frag_buf).
BufSize == 100
FragSize == 64

CDR == Element("encapsulation", 0, 4)

NestedNames(c) == {f.name : f \in {g \in Range(c.writes) : g.kind = "custom"}}

AllZero(c) == [name \in NestedNames(c) |-> 0]

Nothing == [change |-> 0, read |-> <<>>]

Init ==
  /\ class \in Classes
  /\ value \in Values(class)
  /\ msg = ZeroCounters
  /\ nested = AllZero(class)
  /\ history = <<>>
  /\ sending = 0 /\ sends = 0 /\ sent = <<>>
  /\ got = Nothing

\* The serialisers that are stored refer to the object.
Referred == \E i \in DOMAIN history : history[i].serialised

----------------------------------------------------------------------------
(* The application. *)

\* The application fills its object with another value, as long as no stored
\* change would read it later.
Refill ==
  /\ ~Referred
  /\ value' \in Values(class) \ {value}
  /\ UNCHANGED <<class, msg, nested, history, sending, sends, sent, got>>

\* The application takes a new object of the class.
Renew ==
  /\ ~Referred
  /\ nested # AllZero(class)
  /\ nested' = AllZero(class)
  /\ msg' = ZeroCounters
  /\ UNCHANGED <<class, value, history, sending, sends, sent, got>>

Change(serialised, payload) ==
  [serialised |-> serialised, payload |-> payload, value |-> value,
   fresh |-> nested = AllZero(class)]

\* publish, the message being too large for the buffer: newChangeCallback.
PublishSerialiser ==
  /\ BufSize < CalcTotalSize(class, value)
  /\ history' = Append(history, Change(TRUE, <<>>))
  /\ UNCHANGED <<msg, nested>>

\* publish through the buffer: copyToBuf, memAlign, then newChange copies as much
\* as getTotalSize counted, which takes the counter back to 0.
PublishBuffer ==
  LET copied == CopyToBuf(class.writes, value, msg.cntPub, nested)
      end == IF class.pads THEN MemAlign(copied) ELSE copied
  IN  /\ CalcTotalSize(class, value) <= BufSize
      /\ history' = Append(history, Change(FALSE, Peek(CDR \o end.out, 0, end.cnt + 4)))
      /\ msg' = [msg EXCEPT !.cntPub = 0]
      /\ nested' = end.nested

\* The writer's mutex keeps publications and rounds of fragments apart.
Publish ==
  /\ Len(history) < MaxPublished
  /\ sending = 0
  /\ PublishSerialiser \/ PublishBuffer
  /\ UNCHANGED <<class, value, sending, sends, sent, got>>

----------------------------------------------------------------------------
(* The writer's threads: the push, a repair or a replay. *)

SendData(i) ==
  /\ sending = 0
  /\ sends < MaxSends
  /\ history[i].serialised
  /\ sending' = i
  /\ sends' = sends + 1
  /\ sent' = <<>>
  /\ UNCHANGED <<class, value, msg, nested, history, got>>

\* The function publish stores: the CDR header goes in front of the first
\* fragment, zeros behind the last; the call after that resets the object.
Serialise ==
  LET offset == IF msg.cntPub = 0 THEN 4 ELSE 0
      fragment == CopyToFragBuf(class, msg, value, FragSize - offset)
      length == fragment.length + offset
      bytes == Peek(SubSeq(CDR, 1, offset) \o fragment.bytes, 0, length)
  IN  IF fragment.done /\ fragment.length = 0
      THEN [bytes |-> bytes, msg |-> ResetCount(class, fragment.msg)]
      ELSE [bytes |-> IF fragment.done THEN bytes \o Zeros(Gap(length, 4)) ELSE bytes,
            msg |-> fragment.msg]

\* One turn of the loop of sendData, which an empty fragment ends.
SendFragment ==
  LET next == Serialise
  IN  /\ sending # 0
      /\ msg' = next.msg
      /\ IF next.bytes = <<>> THEN sending' = 0 /\ UNCHANGED sent
         ELSE sent' = Append(sent, next.bytes) /\ UNCHANGED sending
      /\ UNCHANGED <<class, value, nested, history, sends, got>>

----------------------------------------------------------------------------
(* The subscriber. *)

\* callback_handler reads a DATA into a message it has just constructed.
Deliver(i) ==
  /\ ~history[i].serialised
  /\ got' = [change |-> i,
             read |-> CopyFromBuf(class.reads, SubSeq(history[i].payload, 5,
                                                      Len(history[i].payload)))]
  /\ UNCHANGED <<class, value, msg, nested, history, sending, sends, sent>>

Next ==
  \/ Refill \/ Renew \/ Publish \/ SendFragment
  \/ \E i \in DOMAIN history : SendData(i) \/ Deliver(i)

Spec == Init /\ [][Next]_vars

----------------------------------------------------------------------------
(* Properties. *)

\* Whatever the members of a class and their order, what callback_handler reads
\* is what publish was given, also when the object is published again: both
\* directions compute the same padding (header_template.tpl:111, :346).  Objects
\* whose nested members have been serialised before are left out: Twist and Pose
\* misplace their second member (nothing resets the inner cntPub).
RoundTrip ==
  LET change == history[got.change]
  IN  got # Nothing /\ change.fresh => got.read = Contents(class.writes, change.value)

\* Every number in a published payload lies on a multiple of its own size behind
\* the CDR header, as ROS 2 expects, whatever stands in front of it: the rule for
\* two-byte members aligns to words and takes two bytes back.
Aligned ==
  \A i \in DOMAIN history : \A p \in DOMAIN history[i].payload :
    LET byte == history[i].payload[p]
    IN  history[i].fresh /\ byte[3] = 1 =>
          /\ byte[1] = "size" => (p - 5) % 4 = 0
          /\ \A f \in Range(class.writes) :
               f.name = byte[1] /\ f.kind \in {"primitive", "bounded", "array"} =>
                 (p - 5) % f.size = 0

\* A message that publish sends through buf fits it: calcTotalSize, which chooses
\* the path, is never below what copyToBuf writes.  True of the classes that
\* announce their size exactly or cannot grow; Header (4 short), Image (one byte
\* counted for the four it writes) and generated classes (0) are not among them.
InsideBuffer ==
  class \in FixedClasses \cup {StringClass} =>
    \A i \in DOMAIN history : history[i].fresh => Len(history[i].payload) <= BufSize

\* All members of an image but its data fit the first fragment.
ShortNames ==
  class = Image => ImageRawSize(value) - value["data"] <= FragSize - Len(CDR)

\* No other message outgrows the buffer: a Header with a frame_id so long that it does
\* has the copyToFragBuf of the template, which makes no fragments.
OnlyStringsAndImagesGrow ==
  \A c \in Classes \ {StringClass, Image} : \A v \in Values(c) : CalcTotalSize(c, v) <= BufSize

\* The fragments of every round, a repeated one included, put together are the
\* message as ROS 2 lays it out, as long as newChangeCallback was told, and the
\* round leaves the object ready for the next.  With longer names a fragment of
\* an image may end in the middle of a word, and then publish, which pads the
\* last fragment by its own length, leaves the sample short.
FragmentsMakeTheSample ==
  LET copied == CopyToBuf(Layout(class), value, 0, AllZero(class))
      whole == CDR \o MemAlign(copied).out
      joined == FlattenSeq(sent)
  IN  /\ sending = 0 => msg = ZeroCounters
      /\ sends > 0 /\ ShortNames =>
           /\ IsPrefix(joined, whole)
           /\ sending = 0 => joined = whole /\ Len(joined) = CalcTotalSize(class, value)
=============================================================================
