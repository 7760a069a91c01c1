--------------------------- MODULE MessageClasses ---------------------------
(***************************************************************************)
(* The message classes the repository ships, written by hand (std_msgs,    *)
(* Image) or generated from the template (geometry_msgs), and any other    *)
(* class the generator can make.  A class gives the members copyToBuf      *)
(* writes and copyFromBuf reads, whether memAlign pads, and how            *)
(* copyToFragBuf cuts a message into fragments.                            *)
(***************************************************************************)
EXTENDS Serialisation

\* The members in both directions; memAlign pads unless the class is a bare
\* primitive, and what calcRawTotalSize returns when it is a constant.
Class(name, members, pads, raw) ==
  [name |-> name, writes |-> members, reads |-> members, pads |-> pads, raw |-> raw]

\* The constant classes state their size and need no padding of their own.
Bare(name, type) == Class(name, << Plain(type, "data") >>, FALSE, msgSizes[type])

Int8    == Bare("Int8", "int8")
Int16   == Bare("Int16", "int16")
Int32   == Bare("Int32", "int32")
Int64   == Bare("Int64", "int64")
UInt8   == Bare("UInt8", "uint8")
UInt16  == Bare("UInt16", "uint16")
UInt32  == Bare("UInt32", "uint32")
UInt64  == Bare("UInt64", "uint64")
Float32 == Bare("Float32", "float32")
Float64 == Bare("Float64", "float64")
Char    == Bare("Char", "int8")
Byte    == Bare("Byte", "uint8")
Bool    == Bare("Bool", "bool")

BareClasses ==
  {Int8, Int16, Int32, Int64, UInt8, UInt16, UInt32, UInt64, Float32, Float64,
   Char, Byte, Bool}

\* String and Header state a size that depends on their value: see CalcRawTotalSize.
StringClass == Class("String", << Plain("string", "data") >>, TRUE, 0)

HeaderClass == Class("Header", << Plain("header", "frame_id") >>, TRUE, 0)

\* A class from the template, whose calcRawTotalSize is left at 0.
Generated(name, members) == Class(name, members, TRUE, 0)

Vector3 ==
  Generated("Vector3", << Plain("float64", "x"), Plain("float64", "y"), Plain("float64", "z") >>)

Point ==
  Generated("Point", << Plain("float64", "x"), Plain("float64", "y"), Plain("float64", "z") >>)

Quaternion ==
  Generated("Quaternion", << Plain("float64", "x"), Plain("float64", "y"),
                             Plain("float64", "z"), Plain("float64", "w") >>)

Twist ==
  Generated("Twist", << Nested(Vector3.writes, "linear"), Nested(Vector3.writes, "angular") >>)

Pose ==
  Generated("Pose", << Nested(Point.writes, "position"), Nested(Quaternion.writes, "orientation") >>)

NestingClasses == {Twist, Pose}

FixedClasses == BareClasses \cup {Vector3, Point, Quaternion} \cup NestingClasses

----------------------------------------------------------------------------
(* Image. *)

\* The members of an image with pixels of "data" taking that many bytes each.
ImageMembers(data) ==
  << Plain("header", "frame_id"), Plain("uint32", "height"), Plain("uint32", "width"),
     Plain("string", "encoding"), Plain("uint8", "is_bigendian"), Plain("uint32", "step"),
     MsgDef(data, TRUE, 0, "data") >>

\* copyToBuf writes four bytes for every byte of data.
ImageToBuf == ImageMembers("uint32")

\* copyFromBuf takes four bytes for every byte and keeps the first.
ImageFromBuf ==
  << Plain("header", "frame_id"), Plain("uint32", "height"), Plain("uint32", "width"),
     Plain("string", "encoding"), Plain("uint8", "is_bigendian"), Plain("uint32", "step"),
     MsgDef("uint32", TRUE, 0, "data") >>

Image ==
  [name |-> "Image", writes |-> ImageToBuf, reads |-> ImageFromBuf, pads |-> TRUE, raw |-> 0]

\* The layout ROS 2 gives the class: an image has one byte per byte of data.
Layout(class) == IF class = Image THEN ImageMembers("uint8") ELSE class.writes

----------------------------------------------------------------------------
(* The sizes a message announces before it is serialised. *)

Padded(n) == n + Gap(n, 4)

ImageRawSize(value) ==
  4 + 4 + (4 + Padded(value["frame_id"])) + 4 + 4
    + (4 + Padded(value["encoding"] + 1)) + 4 + 4 + value["data"]

\* Mutant of CalcRawTotalSize: the size of a string forgets its length word.
CalcRawTotalSizeBare(class, value) ==
  CASE class = StringClass -> value["data"]
    [] class = HeaderClass -> 4 + 4 + value["frame_id"]
    [] class = Image -> ImageRawSize(value)
    [] OTHER -> class.raw

\* Header forgets the length word of its frame_id.
CalcRawTotalSize(class, value) ==
  CASE class = StringClass -> 4 + value["data"]
    [] class = HeaderClass -> 4 + 4 + value["frame_id"]
    [] class = Image -> ImageRawSize(value)
    [] OTHER -> class.raw

\* With the CDR header, padded.
CalcTotalSize(class, value) == Padded(4 + CalcRawTotalSize(class, value))

----------------------------------------------------------------------------
(* copyToFragBuf.  The counters of a message are cntPub, idxSerialized and  *)
(* the cntPub_ of each array; a cursor adds the room of the fragment, the   *)
(* bytes written and whether a member ran out of it.                        *)

ZeroCounters == [cntPub |-> 0, idx |-> 0, parts |-> [frame_id |-> 0, encoding |-> 0, data |-> 0]]

\* Stands for the value of the unsigned subtraction when a fragment is overrun.
Huge == 100000

Room(c) == IF Len(c.out) <= c.size THEN c.size - Len(c.out) ELSE Huge

Emit(c, bytes) == [c EXCEPT !.msg.cntPub = @ + Len(bytes), !.out = @ \o bytes]

RanOut(c) == [c EXCEPT !.out_of_room = TRUE]

\* copyPrimToFragBufLocal: only the value is compared with the room, not its padding.
CopyPrimToFragBufLocal(c, f) ==
  IF Room(c) < f.size THEN RanOut(c)
  ELSE [Emit(c, Zeros(Gap(c.msg.cntPub, f.size)) \o Element(f.name, 1, f.size))
          EXCEPT !.msg.idx = @ + 1]

\* n bytes of a member behind the first "from".
Piece(name, from, n) == [k \in 1 .. n |-> <<name, from + k, 1>>]

\* copyArrayToFragBufLocal: the size first, then as many bytes as fit.
CopyArrayToFragBufLocal(c, name, length) ==
  LET begun == c.msg.parts[name] >= 4
      sized == IF begun THEN c ELSE [Emit(c, Count(length)) EXCEPT !.msg.parts[name] = @ + 4]
      from == sized.msg.parts[name] - 4
      n == Min({length - from, Room(sized)})
      copied == [Emit(sized, Piece(name, from, n)) EXCEPT !.msg.parts[name] = @ + n]
  IN  IF ~begun /\ Room(c) < 4 THEN RanOut(c)
      ELSE IF from + n >= length THEN [copied EXCEPT !.msg.idx = @ + 1]
      ELSE RanOut(copied)

\* The members in the order of idxSerialized; the header is three of them.
ImageSteps ==
  << Plain("int32", "sec"), Plain("uint32", "nanosec"), MsgDef("uint8", TRUE, 0, "frame_id"),
     Plain("uint32", "height"), Plain("uint32", "width"), MsgDef("uint8", TRUE, 0, "encoding"),
     Plain("uint8", "is_bigendian"), Plain("uint32", "step"), MsgDef("uint8", TRUE, 0, "data") >>

FragmentCursor(msg, size) == [msg |-> msg, size |-> size, out |-> <<>>, out_of_room |-> FALSE]

\* A fragment as the caller sees it: whether the message is complete, the length
\* returned, the bytes written and the counters left behind.
Fragment(done, length, c) == [done |-> done, length |-> length, bytes |-> c.out, msg |-> c.msg]

\* A fragment that no member ran out of is said to be as long as what was left
\* of the message, or as the buffer.
ImageToFragBuf(msg, value, size) ==
  LET total == ImageRawSize(value)
      partSize == Min({total - msg.cntPub, size})
      Step(c, i) ==
        LET f == ImageSteps[i]
        IN  IF c.out_of_room \/ i <= c.msg.idx THEN c
            ELSE IF f.kind = "array" THEN CopyArrayToFragBufLocal(c, f.name, value[f.name])
            ELSE CopyPrimToFragBufLocal(c, f)
      end == FoldLeft(Step, FragmentCursor(msg, size), [i \in 1 .. 9 |-> i])
  IN  IF end.out_of_room THEN Fragment(FALSE, Len(end.out), end)
      ELSE Fragment(end.msg.cntPub >= total, partSize, end)

\* A string counts its length word and its characters in cntPub itself.
StringToFragBuf(msg, value, size) ==
  LET start == FragmentCursor(msg, size)
      sized == IF msg.cntPub < 4 THEN Emit(start, Count(value["data"])) ELSE start
      from == sized.msg.cntPub - 4
      end == Emit(sized, Piece("data", from, Min({value["data"] - from, Room(sized)})))
  IN  IF msg.cntPub < 4 /\ size < 4 THEN Fragment(FALSE, 0, start)
      ELSE Fragment(end.msg.cntPub - 4 >= value["data"], Len(end.out), end)

\* Every other class leaves copyToFragBuf undone.
CopyToFragBuf(class, msg, value, size) ==
  CASE class = StringClass -> StringToFragBuf(msg, value, size)
    [] class = Image -> ImageToFragBuf(msg, value, size)
    [] OTHER -> Fragment(FALSE, 0, FragmentCursor(msg, size))

\* Mutant of ResetCount: the counter of the data stays where it was.
ResetCountPartly(class, msg) == [ZeroCounters EXCEPT !.parts["data"] = msg.parts["data"]]

ResetCount(class, msg) ==
  IF class = Image THEN ZeroCounters ELSE [msg EXCEPT !.cntPub = 0, !.idx = 0]
=============================================================================
