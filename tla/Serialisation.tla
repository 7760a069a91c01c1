--------------------------- MODULE Serialisation ---------------------------
(***************************************************************************)
(* What a message class generated from header_template.tpl does with a     *)
(* buffer: copyToBuf writes the members one after the other, copyFromBuf   *)
(* reads them back.  A byte is the triple of the member it belongs to, the *)
(* element of that member and the byte of that element; the bytes of an    *)
(* array or string size carry the size.  A class is the sequence of its    *)
(* members, and the value of a member is its length (a sequence of lengths *)
(* for an array of strings), the contents being named by the bytes.        *)
(***************************************************************************)
EXTENDS Integers, Sequences, SequencesExt

----------------------------------------------------------------------------
(* Members, as msg_def_generator.py describes them to the template. *)

\* Size of each ROS 2 type that the generator knows: of a byte it knows the C++ type
\* and no size, of a string and a header that they have none.
msgSizes ==
  [bool |-> 1, int8 |-> 1, uint8 |-> 1, int16 |-> 2, uint16 |-> 2, int32 |-> 4,
   uint32 |-> 4, float32 |-> 4, int64 |-> 8, uint64 |-> 8, float64 |-> 8,
   string |-> -1, header |-> -1]

\* msgDefGenerator: "type[bound] name", "type[] name" or "type name".
MsgDef(type, isArray, bound, name) ==
  [name |-> name, size |-> msgSizes[type], bound |-> bound,
   kind |-> CASE bound > 0 -> "bounded"
              [] isArray /\ bound = 0 -> IF type = "string" THEN "strings" ELSE "array"
              [] ~isArray -> IF type \in {"string", "header"} THEN type ELSE "primitive"]

Plain(type, name) == MsgDef(type, FALSE, 0, name)

\* A member of another generated class, whose own members are "of".
Nested(of, name) == [name |-> name, kind |-> "custom", of |-> of]

----------------------------------------------------------------------------
(* Bytes. *)

Element(name, i, size) == [b \in 1 .. size |-> <<name, i, b>>]

Elements(name, n, size) ==
  [k \in 1 .. n * size |-> <<name, 1 + (k - 1) \div size, 1 + ((k - 1) % size)>>]

\* The four bytes of a size written with memcpy.
Count(n) == Element("size", n, 4)

Zeros(n) == [k \in 1 .. n |-> <<"zero", 0, 0>>]

\* What a pointer that jumps leaves behind: whatever the buffer held.
Leftover(n) == [k \in 1 .. n |-> <<"leftover", 0, 0>>]

\* n bytes of the buffer from "at", which may lie beyond it.
Peek(buffer, at, n) ==
  [k \in 1 .. n |-> IF at + k \in DOMAIN buffer THEN buffer[at + k]
                    ELSE <<"leftover", 0, 0>>]

\* The size that four bytes hold; bytes of anything else make no size of the model.
SizeAt(buffer, at) ==
  LET bytes == Peek(buffer, at, 4)
  IN  IF bytes = Count(bytes[1][2]) THEN bytes[1][2] ELSE 0

----------------------------------------------------------------------------
(* copyToBuf.  The cursor holds cntPub, the bytes written so far and the    *)
(* cntPub of each nested member.                                            *)

Put(c, bytes) == [c EXCEPT !.cnt = @ + Len(bytes), !.out = @ \o bytes]

\* Bytes up to the next multiple of size.
Gap(cnt, size) == IF cnt % size > 0 THEN size - (cnt % size) ELSE 0

\* Mutant of HalfGap: the last byte of a word is not skipped.
HalfGapShort(cnt) ==
  IF cnt % 4 > 0 /\ 2 <= 4 - (cnt % 4) THEN 4 - (cnt % 4) - 2 ELSE 0

\* Two-byte members are fitted into the second half of a word.
HalfGap(cnt) ==
  IF cnt % 4 > 0 /\ 2 <= 4 - (cnt % 4) THEN 4 - (cnt % 4) - 2 ELSE Gap(cnt, 4)

MemberGap(cnt, size) ==
  CASE size = 2 -> HalfGap(cnt) [] size \in {4, 8} -> Gap(cnt, size) [] size = 1 -> 0

Align(c, size) == Put(c, Zeros(Gap(c.cnt, size)))

PutPrimitive(c, f) == Put(Put(c, Zeros(MemberGap(c.cnt, f.size))), Element(f.name, 1, f.size))

PutBoundedArray(c, f) ==
  Put(Put(c, Zeros(MemberGap(c.cnt, f.size))), Elements(f.name, f.bound, f.size))

PutArray(c, f, n) ==
  LET sized == Put(Align(c, 4), Count(n))
  IN  Put(IF f.size = 8 THEN Align(sized, 8) ELSE sized, Elements(f.name, n, f.size))

PutStrings(c, f, lengths) ==
  LET PutOne(d, i) == Put(Put(Align(d, 4), Count(lengths[i])), Element(f.name, i, lengths[i]))
  IN  FoldLeft(PutOne, Put(Align(c, 4), Count(Len(lengths))), [i \in DOMAIN lengths |-> i])

PutString(c, f, n) == Put(Put(Align(c, 4), Count(n)), Elements(f.name, n, 1))

PutHeader(c, n) ==
  Put(Align(c, 4), Element("sec", 1, 4) \o Element("nanosec", 1, 4) \o Count(n)
                     \o Elements("frame_id", n, 1))

PutFlat(c, f, value) ==
  CASE f.kind = "primitive" -> PutPrimitive(c, f)
    [] f.kind = "bounded" -> PutBoundedArray(c, f)
    [] f.kind = "array" -> PutArray(c, f, value[f.name])
    [] f.kind = "strings" -> PutStrings(c, f, value[f.name])
    [] f.kind = "string" -> PutString(c, f, value[f.name])
    [] f.kind = "header" -> PutHeader(c, value[f.name])

\* A nested member counts on from its own cntPub, which nothing takes back to 0,
\* and returns it: counter and pointer of the outer message move on by that.
PutNested(c, f, value) ==
  LET inner == FoldLeft(LAMBDA d, g : PutFlat(d, g, value),
                        [cnt |-> c.nested[f.name], out |-> <<>>], f.of)
      tmpPub == inner.cnt
  IN  [c EXCEPT !.cnt = @ + tmpPub,
                !.out = @ \o inner.out \o Leftover(tmpPub - Len(inner.out)),
                !.nested[f.name] = inner.cnt]

CopyToBuf(fields, value, cntPub, nested) ==
  FoldLeft(LAMBDA c, f : IF f.kind = "custom" THEN PutNested(c, f, value)
                         ELSE PutFlat(c, f, value),
           [cnt |-> cntPub, out |-> <<>>, nested |-> nested], fields)

\* memAlign: zeros behind the last member, up to a multiple of four.
MemAlign(c) == Align(c, 4)

----------------------------------------------------------------------------
(* copyFromBuf.  The cursor holds cntSub, the pointer, the buffer and, for  *)
(* each member, what was read into it.                                      *)

Skip(r, n) == [r EXCEPT !.cnt = @ + n, !.at = @ + n]

\* Moves n bytes on, having read "got".
Store(r, n, got) == [Skip(r, n) EXCEPT !.got = Append(@, got)]

GetPrimitive(r, f) ==
  LET s == Skip(r, MemberGap(r.cnt, f.size))
  IN  Store(s, f.size, Peek(s.buffer, s.at, f.size))

GetBoundedArray(r, f) ==
  LET s == Skip(r, MemberGap(r.cnt, f.size))
  IN  Store(s, f.bound * f.size, Peek(s.buffer, s.at, f.bound * f.size))

\* Mutant of GetArray: the elements are taken right behind the size.
GetArrayPacked(r, f) ==
  LET s == Skip(r, Gap(r.cnt, 4))
      n == SizeAt(s.buffer, s.at)
  IN  Store(Skip(s, 4), n * f.size, Peek(s.buffer, s.at + 4, n * f.size))

GetArray(r, f) ==
  LET s == Skip(r, Gap(r.cnt, 4))
      n == SizeAt(s.buffer, s.at)
      e == Skip(s, 4)
      t == IF f.size = 8 THEN Skip(e, Gap(e.cnt, 8)) ELSE e
  IN  Store(t, n * f.size, Peek(t.buffer, t.at, n * f.size))

GetStrings(r, f) ==
  LET s == Skip(r, Gap(r.cnt, 4))
      GetOne(d, i) ==
        LET e == Skip(d, Gap(d.cnt, 4))
            m == SizeAt(e.buffer, e.at)
        IN  Store(Skip(e, 4), m, Peek(e.buffer, e.at + 4, m))
  IN  FoldLeft(GetOne, Skip(s, 4), [i \in 1 .. SizeAt(s.buffer, s.at) |-> i])

GetString(r, f) ==
  LET s == Skip(r, Gap(r.cnt, 4))
      n == SizeAt(s.buffer, s.at)
  IN  Store(Skip(s, 4), n, Peek(s.buffer, s.at + 4, n))

GetHeader(r) ==
  LET s == Skip(r, Gap(r.cnt, 4))
      n == SizeAt(s.buffer, s.at + 8)
  IN  Store(Skip(s, 12), n, Peek(s.buffer, s.at, 8) \o Peek(s.buffer, s.at + 12, n))

GetFlat(r, f) ==
  CASE f.kind = "primitive" -> GetPrimitive(r, f)
    [] f.kind = "bounded" -> GetBoundedArray(r, f)
    [] f.kind = "array" -> GetArray(r, f)
    [] f.kind = "strings" -> GetStrings(r, f)
    [] f.kind = "string" -> GetString(r, f)
    [] f.kind = "header" -> GetHeader(r)

\* The nested members of a message that was just constructed count from 0.
GetNested(r, f) ==
  LET inner == FoldLeft(GetFlat, [r EXCEPT !.cnt = 0], f.of)
  IN  [inner EXCEPT !.cnt = r.cnt + @, !.at = r.at + inner.cnt]

CopyFromBuf(fields, buffer) ==
  FoldLeft(LAMBDA r, f : IF f.kind = "custom" THEN GetNested(r, f) ELSE GetFlat(r, f),
           [cnt |-> 0, at |-> 0, buffer |-> buffer, got |-> <<>>], fields).got

----------------------------------------------------------------------------
(* Reference: the contents of a value, member by member, whatever its layout. *)

ContentsOf(f, value) ==
  CASE f.kind = "primitive" -> << Element(f.name, 1, f.size) >>
    [] f.kind = "bounded" -> << Elements(f.name, f.bound, f.size) >>
    [] f.kind = "array" -> << Elements(f.name, value[f.name], f.size) >>
    [] f.kind = "strings" -> [i \in DOMAIN value[f.name] |-> Element(f.name, i, value[f.name][i])]
    [] f.kind = "string" -> << Elements(f.name, value[f.name], 1) >>
    [] f.kind = "header" -> << Element("sec", 1, 4) \o Element("nanosec", 1, 4)
                                 \o Elements("frame_id", value[f.name], 1) >>

FlatContents(fields, value) ==
  FoldLeft(LAMBDA s, f : s \o ContentsOf(f, value), <<>>, fields)

Contents(fields, value) ==
  FoldLeft(LAMBDA s, f : s \o IF f.kind = "custom" THEN FlatContents(f.of, value)
                              ELSE ContentsOf(f, value), <<>>, fields)
=============================================================================
