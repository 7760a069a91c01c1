----------------------------- MODULE WireProofs -----------------------------
(***************************************************************************)
(* Theorems about Wire: what is composed has no gap, reaches the           *)
(* participants it is addressed to and is understood there as it was       *)
(* meant.  The lemmas go from the bytes of one buffer to the submessages   *)
(* of a packet, and from there to the steps of the receiver.               *)
(***************************************************************************)
EXTENDS Wire, SequenceTheorems, NaturalsInduction, WellFoundedInduction, TLAPS

Cell == Byte \cup {Unwritten}

Buffers == [bytes : Seq(Cell), free : Nat]

\* The free space lies at the end, and all in front of it is written.
Packed(b) ==
  /\ b \in Buffers
  /\ b.free <= Len(b.bytes)
  /\ \A i \in 1 .. SpaceUsed(b) : b.bytes[i] \in Byte

\* The bytes of s stand in "bytes" behind the first "at".
Holds(bytes, at, s) ==
  /\ at + Len(s) <= Len(bytes)
  /\ \A i \in 1 .. Len(s) : bytes[at + i] = s[i]

\* Buffer c is b with s written behind what b had, and with so much space left.
Grown(b, s, c, left) ==
  /\ Packed(c)
  /\ c.free = left
  /\ SpaceUsed(c) = SpaceUsed(b) + Len(s)
  /\ \A i \in 1 .. SpaceUsed(b) : c.bytes[i] = b.bytes[i]
  /\ Holds(c.bytes, SpaceUsed(b), s)

Larger(m, n) == IF m >= n THEN m ELSE n

-----------------------------------------------------------------------------
(* One buffer. *)

LEMMA PackedFacts ==
  ASSUME NEW b, Packed(b)
  PROVE  /\ b.bytes \in Seq(Cell) /\ b.free \in Nat /\ Len(b.bytes) \in Nat
         /\ SpaceUsed(b) \in Nat /\ Len(b.bytes) = SpaceUsed(b) + b.free
         /\ b = [bytes |-> b.bytes, free |-> b.free]
<1>1. b \in Buffers /\ b.free <= Len(b.bytes)
  BY DEF Packed
<1>2. b.bytes \in Seq(Cell) /\ b.free \in Nat /\ b = [bytes |-> b.bytes, free |-> b.free]
  BY <1>1 DEF Buffers
<1>3. Len(b.bytes) \in Nat
  BY <1>2
<1> QED BY <1>1, <1>2, <1>3 DEF SpaceUsed

LEMMA ReserveGrows ==
  ASSUME NEW b, Packed(b), NEW n \in Nat
  PROVE  Grown(b, <<>>, Reserve(b, n), Larger(b.free, n))
<1>1. PICK used \in Nat : used = SpaceUsed(b)
  BY PackedFacts
<1>2. /\ b.bytes \in Seq(Cell) /\ b.free \in Nat /\ Len(b.bytes) = used + b.free
      /\ \A i \in 1 .. used : b.bytes[i] \in Byte
  BY <1>1, PackedFacts DEF Packed
<1>3. CASE n <= b.free
  <2>1. Reserve(b, n) = b /\ Larger(b.free, n) = b.free
    BY <1>2, <1>3 DEF Reserve, Larger
  <2> QED BY <1>1, <1>2, <2>1 DEF Grown, Holds
<1>4. CASE n > b.free
  <2> DEFINE k == n - b.free
             more == [i \in 1 .. k |-> Unwritten]
             c == Reserve(b, n)
  <2>1. k \in Nat /\ more \in Seq(Cell) /\ Len(more) = k
    BY <1>2, <1>4 DEF Cell
  <2>2. b.free + k = n /\ ~(k <= 0) /\ Larger(b.free, n) = n
    BY <1>2, <1>4 DEF Larger
  <2> HIDE DEF k
  <2>7. c = [bytes |-> b.bytes \o more, free |-> n]
    BY <2>2 DEF Reserve, k
  <2> HIDE DEF more, c
  <2>8. c.bytes = b.bytes \o more /\ c.free = n
    BY <2>7
  <2>3. /\ c.bytes \in Seq(Cell) /\ Len(c.bytes) = used + b.free + k
        /\ \A i \in 1 .. used : c.bytes[i] = b.bytes[i]
    <3>1. /\ b.bytes \o more \in Seq(Cell)
          /\ Len(b.bytes \o more) = Len(b.bytes) + k
          /\ \A i \in 1 .. Len(b.bytes) + k :
               (b.bytes \o more)[i] = IF i <= Len(b.bytes) THEN b.bytes[i]
                                      ELSE more[i - Len(b.bytes)]
      BY <1>2, <2>1, ConcatProperties
    <3> QED BY <1>1, <1>2, <2>1, <2>8, <3>1
  <2>4. c \in Buffers /\ c.free = n /\ SpaceUsed(c) = used
    <3>1. Len(c.bytes) = used + n /\ Len(c.bytes) - n = used
      BY <1>1, <1>2, <2>1, <2>2, <2>3
    <3>2. c.bytes \in Seq(Cell) /\ n \in Nat
      BY <2>3
    <3> QED BY <2>7, <2>8, <3>1, <3>2 DEF Buffers, SpaceUsed
  <2>5. Packed(c)
    <3>1. n <= Len(c.bytes)
      BY <1>2, <2>1, <2>2, <2>3
    <3>2. \A i \in 1 .. used : c.bytes[i] \in Byte
      BY <1>2, <2>3
    <3> QED BY <2>4, <3>1, <3>2 DEF Packed
  <2>6. Holds(c.bytes, used, <<>>)
    BY <1>2, <2>3, <2>1 DEF Holds
  <2>9. Grown(b, <<>>, c, Larger(b.free, n))
    BY <1>1, <2>2, <2>3, <2>4, <2>5, <2>6 DEF Grown
  <2> QED BY <2>9 DEF c
<1> QED BY <1>2, <1>3, <1>4

LEMMA AppendGrows ==
  ASSUME NEW b, Packed(b), NEW s \in Seq(Byte), Len(s) <= b.free
  PROVE  Grown(b, s, Append8(b, s), b.free - Len(s))
<1>1. PICK used \in Nat : used = SpaceUsed(b)
  BY PackedFacts
<1>2. /\ b.bytes \in Seq(Cell) /\ b.free \in Nat /\ Len(b.bytes) = used + b.free
      /\ \A i \in 1 .. used : b.bytes[i] \in Byte
  BY <1>1, PackedFacts DEF Packed
<1>3. PICK k \in Nat : k = Len(s) /\ DOMAIN s = 1 .. k /\ \A i \in 1 .. k : s[i] \in Byte
  OBVIOUS
<1> DEFINE total == used + b.free
           bytes == [i \in 1 .. total |-> IF i - used \in 1 .. k THEN s[i - used] ELSE b.bytes[i]]
           c == Append8(b, s)
<1>4. DOMAIN b.bytes = 1 .. total /\ \A i \in 1 .. total : b.bytes[i] \in Cell
  BY <1>2
<1>5. c = [bytes |-> bytes, free |-> b.free - k]
  BY <1>1, <1>2, <1>3, <1>4 DEF Append8
<1>6. /\ bytes \in Seq(Cell) /\ Len(bytes) = total
      /\ \A i \in 1 .. used : bytes[i] = b.bytes[i]
      /\ \A i \in 1 .. k : used + i \in 1 .. total /\ bytes[used + i] = s[i]
  <2>1. \A i \in 1 .. total : bytes[i] \in Cell
    BY <1>3, <1>4 DEF Cell
  <2>2. total \in Nat
    BY <1>2
  <2>3. \A i \in 1 .. used : bytes[i] = b.bytes[i]
    BY <1>2
  <2>4. \A i \in 1 .. k : used + i \in 1 .. total /\ bytes[used + i] = s[i]
    BY <1>2, <1>3
  <2>5. bytes \in [1 .. total -> Cell]
    BY <2>1
  <2> HIDE DEF bytes, total
  <2> QED BY <2>2, <2>3, <2>4, <2>5
<1> HIDE DEF bytes, c
<1>7. c.bytes = bytes /\ c.free = b.free - k /\ c \in Buffers /\ SpaceUsed(c) = used + k
  <2>1. c.bytes = bytes /\ c.free = b.free - k
    BY <1>5
  <2>2. b.free - k \in Nat
    BY <1>2, <1>3
  <2>3. c \in Buffers
    BY <1>5, <1>6, <2>2 DEF Buffers
  <2>4. SpaceUsed(c) = Len(bytes) - (b.free - k)
    BY <2>1 DEF SpaceUsed
  <2>5. used \in Nat /\ b.free \in Nat /\ k \in Nat /\ Len(bytes) = used + b.free
    BY <1>2, <1>3, <1>6
  <2> QED BY <2>1, <2>3, <2>4, <2>5
<1>8. \A i \in 1 .. used + k : bytes[i] \in Byte
  <2> SUFFICES ASSUME NEW i \in 1 .. used + k PROVE bytes[i] \in Byte
    OBVIOUS
  <2>1. CASE i <= used
    BY <1>2, <1>6, <2>1
  <2>2. CASE i > used
    <3>1. i - used \in 1 .. k /\ used + (i - used) = i
      BY <2>2
    <3> QED BY <1>3, <1>6, <3>1
  <2> QED BY <2>1, <2>2
<1>9. Packed(c)
  BY <1>2, <1>3, <1>6, <1>7, <1>8 DEF Packed
<1>10. Holds(c.bytes, used, s)
  BY <1>2, <1>3, <1>6, <1>7 DEF Holds
<1> QED BY <1>1, <1>3, <1>6, <1>7, <1>9, <1>10 DEF Grown, c

LEMMA HoldsBoth ==
  ASSUME NEW bytes, NEW at \in Nat, NEW s \in Seq(Byte), NEW t \in Seq(Byte)
  PROVE  Holds(bytes, at, s \o t) <=> Holds(bytes, at, s) /\ Holds(bytes, at + Len(s), t)
<1>1. PICK m \in Nat, n \in Nat : m = Len(s) /\ n = Len(t)
  OBVIOUS
<1>2. /\ s \o t \in Seq(Byte) /\ Len(s \o t) = m + n
      /\ \A i \in 1 .. m : (s \o t)[i] = s[i]
      /\ \A i \in 1 .. n : (s \o t)[m + i] = t[i]
  BY <1>1, ConcatProperties
<1> SUFFICES ASSUME Len(bytes) \in Int
             PROVE  Holds(bytes, at, s \o t) <=> Holds(bytes, at, s) /\ Holds(bytes, at + m, t)
  BY <1>1
<1>3. ASSUME Holds(bytes, at, s \o t)
      PROVE  Holds(bytes, at, s) /\ Holds(bytes, at + m, t)
  <2>1. ASSUME NEW i \in 1 .. n PROVE bytes[at + m + i] = t[i]
    <3>1. m + i \in 1 .. m + n /\ at + (m + i) = at + m + i
      BY <1>1
    <3> QED BY <1>2, <1>3, <3>1 DEF Holds
  <2> QED BY <1>1, <1>2, <1>3, <2>1 DEF Holds
<1>4. ASSUME Holds(bytes, at, s), Holds(bytes, at + m, t)
      PROVE  Holds(bytes, at, s \o t)
  <2>1. ASSUME NEW i \in 1 .. m + n PROVE bytes[at + i] = (s \o t)[i]
    <3>1. CASE i <= m
      <4>1. i \in 1 .. m
        BY <3>1
      <4> QED BY <1>1, <1>2, <1>4, <4>1 DEF Holds
    <3>2. CASE i > m
      <4> DEFINE j == i - m
      <4>1. j \in 1 .. n /\ m + j = i /\ at + m + j = at + i
        BY <3>2
      <4> HIDE DEF j
      <4>2. bytes[at + m + j] = t[j] /\ (s \o t)[m + j] = t[j]
        BY <1>1, <1>2, <1>4, <4>1 DEF Holds
      <4> QED BY <4>1, <4>2
    <3> QED BY <1>1, <3>1, <3>2
  <2> QED BY <1>1, <1>2, <1>4, <2>1 DEF Holds
<1> QED BY <1>3, <1>4
LEMMA GrownThen ==
  ASSUME NEW b, Packed(b), NEW s \in Seq(Byte), NEW c, NEW m, Grown(b, s, c, m),
         NEW t \in Seq(Byte), NEW d, NEW n, Grown(c, t, d, n)
  PROVE  Grown(b, s \o t, d, n)
<1>1. PICK u \in Nat, k \in Nat : u = SpaceUsed(b) /\ k = Len(s)
  BY PackedFacts
<1>2. /\ SpaceUsed(c) = u + k /\ Packed(d) /\ d.free = n
      /\ SpaceUsed(d) = u + k + Len(t)
      /\ \A i \in 1 .. u : c.bytes[i] = b.bytes[i]
      /\ \A i \in 1 .. u + k : d.bytes[i] = c.bytes[i]
      /\ Holds(c.bytes, u, s) /\ Holds(d.bytes, u + k, t)
  BY <1>1 DEF Grown
<1>3. s \o t \in Seq(Byte) /\ Len(s \o t) = k + Len(t) /\ Len(t) \in Nat
  BY <1>1, ConcatProperties
<1>4. Len(d.bytes) \in Nat /\ d.free \in Nat /\ Len(d.bytes) = u + k + Len(t) + d.free
  BY <1>2, PackedFacts
<1>5. Holds(d.bytes, u, s)
  <2>1. ASSUME NEW i \in 1 .. k PROVE d.bytes[u + i] = s[i]
    <3>1. u + i \in 1 .. u + k
      BY <1>1
    <3>2. d.bytes[u + i] = c.bytes[u + i]
      BY <1>2, <3>1
    <3>3. c.bytes[u + i] = s[i]
      BY <1>1, <1>2 DEF Holds
    <3> QED BY <3>2, <3>3
  <2>2. u + k <= Len(d.bytes)
    BY <1>1, <1>3, <1>4
  <2> QED BY <1>1, <2>1, <2>2 DEF Holds
<1>6. Holds(d.bytes, u, s \o t)
  BY <1>1, <1>2, <1>5, HoldsBoth
<1>7. \A i \in 1 .. u : d.bytes[i] = b.bytes[i]
  BY <1>1, <1>2
<1>8. SpaceUsed(d) = u + Len(s \o t)
  BY <1>1, <1>2, <1>3
<1> QED BY <1>1, <1>2, <1>6, <1>7, <1>8 DEF Grown

\* Space that is reserved first is not seen afterwards.
LEMMA GrownBehindSpace ==
  ASSUME NEW b, Packed(b), NEW c, NEW m, Grown(b, <<>>, c, m),
         NEW t \in Seq(Byte), NEW d, NEW n, Grown(c, t, d, n)
  PROVE  Grown(b, t, d, n)
<1>1. <<>> \in Seq(Byte) /\ <<>> \o t = t
  BY ConcatEmptySeq
<1>2. Grown(b, <<>> \o t, d, n)
  BY <1>1, GrownThen
<1> QED BY <1>1, <1>2

LEMMA GrownFree ==
  ASSUME NEW b, NEW s, NEW c, NEW m, Grown(b, s, c, m)
  PROVE  Packed(c) /\ c.free = m
BY DEF Grown

\* What is appended after some reservations.
LEMMA WriteGrows ==
  ASSUME NEW b, Packed(b), NEW n \in Nat, NEW s \in Seq(Byte), Len(s) <= Larger(b.free, n)
  PROVE  Grown(b, s, Append8(Reserve(b, n), s), Larger(b.free, n) - Len(s))
<1>1. Grown(b, <<>>, Reserve(b, n), Larger(b.free, n))
  BY ReserveGrows
<1>2. Packed(Reserve(b, n)) /\ Reserve(b, n).free = Larger(b.free, n)
  BY <1>1, GrownFree
<1>3. Grown(Reserve(b, n), s, Append8(Reserve(b, n), s), Larger(b.free, n) - Len(s))
  BY <1>2, AppendGrows
<1> QED BY <1>1, <1>3, GrownBehindSpace

LEMMA EmptyPacked == Packed(NoBuffer) /\ SpaceUsed(NoBuffer) = 0
<1>1. <<>> \in Seq(Cell) /\ Len(<<>>) = 0
  OBVIOUS
<1> QED BY <1>1 DEF Packed, NoBuffer, Buffers, SpaceUsed

\* A payload in a buffer of its own fills it.
LEMMA FilledFacts ==
  ASSUME NEW s \in Seq(Byte)
  PROVE  /\ Packed(Filled(s)) /\ Filled(s).free = 0 /\ Filled(s).bytes = s
         /\ SpaceUsed(Filled(s)) = Len(s)
<1> DEFINE f == Filled(s)
<1>1. NoBuffer.free = 0 /\ Len(s) \in Nat /\ Larger(0, Len(s)) = Len(s)
  BY DEF NoBuffer, Larger
<1>2. Grown(NoBuffer, s, f, Len(s) - Len(s))
  BY <1>1, EmptyPacked, WriteGrows DEF Filled
<1> HIDE DEF f
<1>3. Packed(f) /\ f.free = 0 /\ SpaceUsed(f) = Len(s) /\ Holds(f.bytes, 0, s)
  BY <1>1, <1>2, EmptyPacked DEF Grown
<1>4. f.bytes \in Seq(Cell) /\ Len(f.bytes) = Len(s)
  BY <1>1, <1>3, PackedFacts
<1>5. \A i \in 1 .. Len(s) : f.bytes[i] = s[i]
  BY <1>1, <1>3 DEF Holds
<1>6. f.bytes = s
  BY <1>4, <1>5, SeqEqual
<1> QED BY <1>3, <1>6 DEF f

LEMMA ChainGrows ==
  ASSUME NEW b, Packed(b), b.free = 0, IsValid(b), NEW s \in Seq(Byte)
  PROVE  Grown(b, s, Chain(b, Filled(s)), 0)
<1> DEFINE c == Chain(b, Filled(s))
<1>1. PICK u \in Nat, k \in Nat : u = SpaceUsed(b) /\ k = Len(s)
  BY PackedFacts
<1>2. b.bytes \in Seq(Cell) /\ Len(b.bytes) = u /\ \A i \in 1 .. u : b.bytes[i] \in Byte
  BY <1>1, PackedFacts DEF Packed
<1>3. s \in Seq(Cell) /\ Len(s) = k /\ \A i \in 1 .. k : s[i] \in Byte
  BY <1>1 DEF Cell
<1>4. c = [bytes |-> b.bytes \o s, free |-> 0]
  BY FilledFacts DEF Chain
<1> HIDE DEF c
<1>5. c.bytes = b.bytes \o s /\ c.free = 0
  BY <1>4
<1>6. /\ b.bytes \o s \in Seq(Cell)
      /\ Len(b.bytes \o s) = Len(b.bytes) + Len(s)
      /\ \A i \in 1 .. Len(b.bytes) + Len(s) :
           (b.bytes \o s)[i] = IF i <= Len(b.bytes) THEN b.bytes[i] ELSE s[i - Len(b.bytes)]
  BY <1>2, <1>3, ConcatProperties
<1>7. /\ c.bytes \in Seq(Cell) /\ Len(c.bytes) = u + k /\ SpaceUsed(c) = u + k
      /\ \A i \in 1 .. u + k : c.bytes[i] = IF i <= u THEN b.bytes[i] ELSE s[i - u]
  BY <1>1, <1>2, <1>3, <1>5, <1>6 DEF SpaceUsed
<1>8. Holds(c.bytes, u, s)
  <2>1. ASSUME NEW i \in 1 .. k PROVE c.bytes[u + i] = s[i]
    <3>1. u + i \in 1 .. u + k /\ ~(u + i <= u) /\ u + i - u = i
      BY <1>1
    <3> QED BY <1>7, <3>1
  <2> QED BY <1>1, <1>3, <1>7, <2>1 DEF Holds
<1>9. ASSUME NEW i \in 1 .. u PROVE c.bytes[i] = b.bytes[i]
  <2>1. i \in 1 .. u + k /\ i <= u
    BY <1>1
  <2> QED BY <1>7, <2>1
<1>10. \A i \in 1 .. u + k : c.bytes[i] \in Byte
  <2> TAKE i \in 1 .. u + k
  <2>1. CASE i <= u
    <3>1. i \in 1 .. u
      BY <1>1, <2>1
    <3> QED BY <1>2, <1>9, <3>1
  <2>2. CASE i > u
    <3>1. i - u \in 1 .. k
      BY <1>1, <2>2
    <3> QED BY <1>3, <1>7, <2>2, <3>1
  <2> QED BY <1>1, <2>1, <2>2
<1>11. Packed(c)
  BY <1>1, <1>4, <1>5, <1>7, <1>10 DEF Packed, Buffers
<1> QED BY <1>1, <1>3, <1>5, <1>7, <1>8, <1>9, <1>11 DEF Grown, c
-----------------------------------------------------------------------------
(* Numbers in bytes. *)

LEMMA OctetsAreBytes ==
  ASSUME NEW n \in Nat, NEW s \in Octets(n)
  PROVE  s \in Seq(Byte) /\ Len(s) = n
BY DEF Octets

LEMMA Powers == 256 ^ 0 = 1 /\ 256 ^ 1 = 256 /\ 256 ^ 2 = 65536 /\ 256 ^ 3 = 16777216
BY SMT

LEMMA LE2 ==
  ASSUME NEW n \in Nat
  PROVE  /\ LE(n, 2) \in Seq(Byte) /\ Len(LE(n, 2)) = 2
         /\ LE(n, 2)[1] = n % 256 /\ LE(n, 2)[2] = (n \div 256) % 256
<1>1. /\ (n \div (256 ^ (1 - 1))) % 256 = n % 256
      /\ (n \div (256 ^ (2 - 1))) % 256 = (n \div 256) % 256
  <2>1. 1 - 1 = 0 /\ 2 - 1 = 1
    OBVIOUS
  <2> QED BY <2>1, Powers
<1>2. n % 256 \in Byte /\ (n \div 256) % 256 \in Byte
  BY DEF Byte
<1>3. LE(n, 2)[1] = n % 256 /\ LE(n, 2)[2] = (n \div 256) % 256
  BY <1>1 DEF LE
<1>4. LE(n, 2) = [i \in 1 .. 2 |-> LE(n, 2)[i]]
  BY DEF LE
<1>5. \A i \in 1 .. 2 : LE(n, 2)[i] \in Byte
  BY <1>2, <1>3
<1>6. LE(n, 2) \in Octets(2)
  <2> HIDE DEF LE
  <2> QED BY <1>4, <1>5, SMT DEF Octets
<1> QED BY <1>3, <1>6, OctetsAreBytes

LEMMA LE4 ==
  ASSUME NEW n \in Nat
  PROVE  /\ LE(n, 4) \in Seq(Byte) /\ Len(LE(n, 4)) = 4
         /\ LE(n, 4)[1] = n % 256 /\ LE(n, 4)[2] = (n \div 256) % 256
         /\ LE(n, 4)[3] = (n \div 65536) % 256 /\ LE(n, 4)[4] = (n \div 16777216) % 256
<1>1. /\ (n \div (256 ^ (1 - 1))) % 256 = n % 256
      /\ (n \div (256 ^ (2 - 1))) % 256 = (n \div 256) % 256
      /\ (n \div (256 ^ (3 - 1))) % 256 = (n \div 65536) % 256
      /\ (n \div (256 ^ (4 - 1))) % 256 = (n \div 16777216) % 256
  <2>1. 1 - 1 = 0 /\ 2 - 1 = 1 /\ 3 - 1 = 2 /\ 4 - 1 = 3
    OBVIOUS
  <2> QED BY <2>1, Powers, SMT
<1>2. /\ n % 256 \in Byte /\ (n \div 256) % 256 \in Byte
      /\ (n \div 65536) % 256 \in Byte /\ (n \div 16777216) % 256 \in Byte
  BY SMT DEF Byte
<1>3. /\ LE(n, 4)[1] = n % 256 /\ LE(n, 4)[2] = (n \div 256) % 256
      /\ LE(n, 4)[3] = (n \div 65536) % 256 /\ LE(n, 4)[4] = (n \div 16777216) % 256
  BY <1>1, SMT DEF LE
<1>4. LE(n, 4) = [i \in 1 .. 4 |-> LE(n, 4)[i]]
  BY DEF LE
<1>5. \A i \in 1 .. 4 : LE(n, 4)[i] \in Byte
  BY <1>2, <1>3, SMT
<1>6. LE(n, 4) \in Octets(4)
  <2> HIDE DEF LE
  <2> QED BY <1>4, <1>5, SMT DEF Octets
<1>7. LE(n, 4) \in Seq(Byte) /\ Len(LE(n, 4)) = 4
  BY <1>6, OctetsAreBytes
<1> HIDE DEF LE
<1> QED BY <1>3, <1>7, SMT

LEMMA Two == \A x \in Byte, y \in Byte : <<x, y>> \in Seq(Byte) /\ Len(<<x, y>>) = 2
OBVIOUS

\* Numbers that fit their bytes; defined so that the provers do not write them out.
Short(n) == n \in Nat /\ n < 65536

Long(n) == n \in Nat /\ n \div 65536 < 65536

LEMMA ShortSum == \A n : Short(n) => (n % 256) + (256 * ((n \div 256) % 256)) = n
BY SMT DEF Short

LEMMA LongSum ==
  \A n : Long(n) =>
    ((n % 256) + (256 * ((n \div 256) % 256)))
      + (65536 * (((n \div 65536) % 256) + (256 * ((n \div 16777216) % 256)))) = n
BY SMT DEF Long

\* A number of 16 or 32 bits that stands in the packet is read as it was.
LEMMA Number16Reads ==
  ASSUME NEW n, Short(n), NEW bytes, NEW at \in Nat, Holds(bytes, at, LE(n, 2))
  PROVE  Number16(bytes, at) = n
<1>1. n \in Nat
  BY DEF Short
<1>2. bytes[at + 1] = LE(n, 2)[1] /\ bytes[at + 2] = LE(n, 2)[2]
  <2>1. Len(LE(n, 2)) = 2
    BY <1>1, LE2
  <2> QED BY <2>1 DEF Holds
<1>3. bytes[at + 1] = n % 256 /\ bytes[at + 2] = (n \div 256) % 256
  BY <1>1, <1>2, LE2
<1>4. Number16(bytes, at) = (n % 256) + (256 * ((n \div 256) % 256))
  BY <1>3 DEF Number16
<1> QED BY <1>4, ShortSum

LEMMA Number32Reads ==
  ASSUME NEW n, Long(n), NEW bytes, NEW at \in Nat, Holds(bytes, at, LE(n, 4))
  PROVE  Number32(bytes, at) = n
<1>1. n \in Nat
  BY DEF Long
<1>2. /\ bytes[at + 1] = LE(n, 4)[1] /\ bytes[at + 2] = LE(n, 4)[2]
      /\ bytes[at + 3] = LE(n, 4)[3] /\ bytes[at + 4] = LE(n, 4)[4]
  <2>1. Len(LE(n, 4)) = 4
    BY <1>1, LE4
  <2> QED BY <2>1 DEF Holds
<1>3. at + 2 + 1 = at + 3 /\ at + 2 + 2 = at + 4
  OBVIOUS
<1>4. /\ Number16(bytes, at) = (n % 256) + (256 * ((n \div 256) % 256))
      /\ Number16(bytes, at + 2)
           = ((n \div 65536) % 256) + (256 * ((n \div 16777216) % 256))
  <2>1. /\ LE(n, 4)[1] = n % 256 /\ LE(n, 4)[2] = (n \div 256) % 256
        /\ LE(n, 4)[3] = (n \div 65536) % 256 /\ LE(n, 4)[4] = (n \div 16777216) % 256
    BY <1>1, LE4, SMT
  <2> QED BY <1>2, <1>3, <2>1, SMT DEF Number16
<1>5. Number32(bytes, at)
        = ((n % 256) + (256 * ((n \div 256) % 256)))
            + (65536 * (((n \div 65536) % 256) + (256 * ((n \div 16777216) % 256))))
  BY <1>4, SMT DEF Number32
<1> QED BY <1>5, LongSum, SMT

\* A part of the packet is cut out as it was written.
LEMMA SliceReads ==
  ASSUME NEW bytes \in Seq(Cell), NEW at \in Nat, NEW s \in Seq(Byte), Holds(bytes, at, s)
  PROVE  Slice(bytes, at, Len(s)) = s
<1>1. PICK n \in Nat : n = Len(s)
  OBVIOUS
<1>2. at + n <= Len(bytes) /\ \A i \in 1 .. n : bytes[at + i] = s[i]
  BY <1>1 DEF Holds
<1>3. Slice(bytes, at, n) = [i \in 1 .. n |-> bytes[at + i]]
  <2>1. SubSeq(bytes, at + 1, at + n) = [i \in 1 .. at + n - (at + 1) + 1 |-> bytes[i + (at + 1) - 1]]
    <3>1. at + 1 \in Nat /\ at + n \in Nat
      BY <1>1
    <3> QED BY <3>1, SMTT(30)
  <2>2. at + n - (at + 1) + 1 = n /\ \A i \in 1 .. n : i + (at + 1) - 1 = at + i
    BY <1>1
  <2> QED BY <2>1, <2>2 DEF Slice
<1>4. [i \in 1 .. n |-> bytes[at + i]] = [i \in 1 .. n |-> s[i]]
  BY <1>2
<1>5. s = [i \in 1 .. n |-> s[i]]
  BY <1>1
<1> QED BY <1>1, <1>3, <1>4, <1>5
-----------------------------------------------------------------------------
(* What each submessage writes: its header, then its body. *)

SubHead(kind, flags, octets) == <<kind, flags>> \o LE(octets, 2)

DataFields(m) == LE(0, 2) \o LE(16, 2) \o m.reader \o m.writer \o m.sn

FragFields(m) ==
  LE(0, 2) \o LE(28, 2) \o m.reader \o m.writer \o m.sn
    \o LE(m.number, 4) \o LE(1, 2) \o LE(Len(m.payload), 2) \o LE(m.sampleSize, 4)

HeartbeatFields(m) == m.reader \o m.writer \o m.firstSN \o m.lastSN \o m.count

SetFields(m) == m.reader \o m.writer \o m.base \o LE(m.numBits, 4)

BitMap(m) == [i \in 1 .. BitMapSize(m.numBits) |-> 128]

Stamp == [i \in 1 .. 8 |-> 1]

LEMMA OctetsConcat ==
  ASSUME NEW m \in Nat, NEW n \in Nat, NEW s \in Octets(m), NEW t \in Octets(n)
  PROVE  s \o t \in Octets(m + n)
<1>1. s \in Seq(Byte) /\ Len(s) = m /\ t \in Seq(Byte) /\ Len(t) = n
  BY OctetsAreBytes
<1>2. s \o t \in Seq(Byte) /\ Len(s \o t) = m + n
  BY <1>1, ConcatProperties
<1> DEFINE u == s \o t
<1> HIDE DEF u
<1>3. u \in Seq(Byte) /\ Len(u) = m + n
  BY <1>2 DEF u
<1>4. u \in Octets(m + n)
  BY <1>3 DEF Octets
<1> QED BY <1>4 DEF u

LEMMA BytesAssociative ==
  ASSUME NEW s \in Seq(Byte), NEW t \in Seq(Byte), NEW u \in Seq(Byte)
  PROVE  s \o (t \o u) = s \o t \o u
BY ConcatAssociative, SMTT(20)

LEMMA BytesAreOctets ==
  ASSUME NEW n \in Nat, NEW s \in Seq(Byte), Len(s) = n
  PROVE  s \in Octets(n)
BY DEF Octets

LEMMA NumberOctets ==
  ASSUME NEW n \in Nat
  PROVE  LE(n, 2) \in Octets(2) /\ LE(n, 4) \in Octets(4)
<1>1. LE(n, 2) \in Seq(Byte) /\ Len(LE(n, 2)) = 2
  BY LE2
<1>2. LE(n, 4) \in Seq(Byte) /\ Len(LE(n, 4)) = 4
  BY LE4, SMT
<1>3. 2 \in Nat /\ 4 \in Nat
  OBVIOUS
<1> QED BY <1>1, <1>2, <1>3, BytesAreOctets, Zenon

LEMMA Kinds ==
  /\ DATA \in Byte /\ DATA_FRAG \in Byte /\ HEARTBEAT \in Byte /\ ACKNACK \in Byte
  /\ INFO_TS \in Byte /\ INFO_DST \in Byte /\ 1 \in Byte /\ 5 \in Byte
BY DEF DATA, DATA_FRAG, HEARTBEAT, ACKNACK, INFO_TS, INFO_DST, Byte

LEMMA SubHeadOctets ==
  ASSUME NEW kind \in Byte, NEW flags \in Byte, NEW octets \in Nat
  PROVE  SubHead(kind, flags, octets) \in Octets(4)
<1>1. <<kind, flags>> \in Octets(2)
  <2>1. <<kind, flags>> \in Seq(Byte) /\ Len(<<kind, flags>>) = 2
    BY Two
  <2> QED BY <2>1 DEF Octets
<1>2. LE(octets, 2) \in Octets(2) /\ 2 \in Nat
  BY NumberOctets
<1>3. <<kind, flags>> \o LE(octets, 2) \in Octets(2 + 2)
  BY <1>1, <1>2, OctetsConcat, Zenon
<1>4. 2 + 2 = 4
  OBVIOUS
<1> QED BY <1>3, <1>4, Zenon DEF SubHead

LEMMA DataFieldsOctets ==
  ASSUME NEW m, WellFormed(m), m.kind = DATA
  PROVE  DataFields(m) \in Octets(20)
<1>1. m.reader \in Octets(4) /\ m.writer \in Octets(4) /\ m.sn \in Octets(8)
  BY DEF WellFormed
<1>2. LE(0, 2) \in Octets(2) /\ LE(16, 2) \in Octets(2)
  BY NumberOctets
<1>3. LE(0, 2) \o LE(16, 2) \in Octets(2 + 2)
  <2>1. 2 \in Nat
    OBVIOUS
  <2> QED BY <1>2, <2>1, OctetsConcat, Zenon
<1>4. LE(0, 2) \o LE(16, 2) \o m.reader \in Octets(2 + 2 + 4)
  <2>1. 2 + 2 \in Nat /\ 4 \in Nat
    OBVIOUS
  <2> QED BY <1>1, <1>3, <2>1, OctetsConcat, Zenon
<1>5. LE(0, 2) \o LE(16, 2) \o m.reader \o m.writer \in Octets(2 + 2 + 4 + 4)
  <2>1. 2 + 2 + 4 \in Nat /\ 4 \in Nat
    OBVIOUS
  <2> QED BY <1>1, <1>4, <2>1, OctetsConcat, Zenon
<1>6. DataFields(m) \in Octets(2 + 2 + 4 + 4 + 8)
  <2>1. 2 + 2 + 4 + 4 \in Nat /\ 8 \in Nat
    OBVIOUS
  <2> QED BY <1>1, <1>5, <2>1, OctetsConcat, Zenon DEF DataFields
<1>7. 2 + 2 + 4 + 4 + 8 = 20
  OBVIOUS
<1> QED BY <1>6, <1>7, Zenon

LEMMA FragFieldsOctets ==
  ASSUME NEW m, WellFormed(m), m.kind = DATA_FRAG
  PROVE  FragFields(m) \in Octets(32)
<1>1. /\ m.reader \in Octets(4) /\ m.writer \in Octets(4) /\ m.sn \in Octets(8)
      /\ m.number \in Nat /\ m.sampleSize \in Nat /\ Len(m.payload) \in Nat
  BY DEF WellFormed
<1>2. LE(0, 2) \in Octets(2) /\ LE(28, 2) \in Octets(2) /\ LE(1, 2) \in Octets(2)
  BY NumberOctets
<1>3. /\ LE(m.number, 4) \in Octets(4) /\ LE(Len(m.payload), 2) \in Octets(2)
      /\ LE(m.sampleSize, 4) \in Octets(4)
  BY <1>1, NumberOctets, Zenon
<1>4. LE(0, 2) \o LE(28, 2) \in Octets(2 + 2)
  <2>1. 2 \in Nat /\ 2 \in Nat
    OBVIOUS
  <2> QED BY <1>1, <1>2, <1>3, <2>1, OctetsConcat, Zenon
<1>5. LE(0, 2) \o LE(28, 2) \o m.reader \in Octets(2 + 2 + 4)
  <2>1. 2 + 2 \in Nat /\ 4 \in Nat
    OBVIOUS
  <2> QED BY <1>1, <1>2, <1>3, <1>4, <2>1, OctetsConcat, Zenon
<1>6. LE(0, 2) \o LE(28, 2) \o m.reader \o m.writer \in Octets(2 + 2 + 4 + 4)
  <2>1. 2 + 2 + 4 \in Nat /\ 4 \in Nat
    OBVIOUS
  <2> QED BY <1>1, <1>2, <1>3, <1>5, <2>1, OctetsConcat, Zenon
<1>7. LE(0, 2) \o LE(28, 2) \o m.reader \o m.writer \o m.sn \in Octets(2 + 2 + 4 + 4 + 8)
  <2>1. 2 + 2 + 4 + 4 \in Nat /\ 8 \in Nat
    OBVIOUS
  <2> QED BY <1>1, <1>2, <1>3, <1>6, <2>1, OctetsConcat, Zenon
<1>8. LE(0, 2) \o LE(28, 2) \o m.reader \o m.writer \o m.sn \o LE(m.number, 4)
        \in Octets(2 + 2 + 4 + 4 + 8 + 4)
  <2>1. 2 + 2 + 4 + 4 + 8 \in Nat /\ 4 \in Nat
    OBVIOUS
  <2> QED BY <1>1, <1>2, <1>3, <1>7, <2>1, OctetsConcat, Zenon
<1>9. LE(0, 2) \o LE(28, 2) \o m.reader \o m.writer \o m.sn \o LE(m.number, 4)
        \o LE(1, 2) \in Octets(2 + 2 + 4 + 4 + 8 + 4 + 2)
  <2>1. 2 + 2 + 4 + 4 + 8 + 4 \in Nat /\ 2 \in Nat
    OBVIOUS
  <2> QED BY <1>1, <1>2, <1>3, <1>8, <2>1, OctetsConcat, Zenon
<1>10. LE(0, 2) \o LE(28, 2) \o m.reader \o m.writer \o m.sn
        \o LE(m.number, 4) \o LE(1, 2) \o LE(Len(m.payload), 2) \in Octets(2 + 2 + 4 + 4 + 8 + 4 + 2 + 2)
  <2>1. 2 + 2 + 4 + 4 + 8 + 4 + 2 \in Nat /\ 2 \in Nat
    OBVIOUS
  <2> QED BY <1>1, <1>2, <1>3, <1>9, <2>1, OctetsConcat, Zenon
<1>11. FragFields(m) \in Octets(2 + 2 + 4 + 4 + 8 + 4 + 2 + 2 + 4)
  <2>1. 2 + 2 + 4 + 4 + 8 + 4 + 2 + 2 \in Nat /\ 4 \in Nat
    OBVIOUS
  <2> QED BY <1>1, <1>2, <1>3, <1>10, <2>1, OctetsConcat, Zenon DEF FragFields
<1>12. 2 + 2 + 4 + 4 + 8 + 4 + 2 + 2 + 4 = 32
  OBVIOUS
<1> QED BY <1>11, <1>12, Zenon

LEMMA HeartbeatFieldsOctets ==
  ASSUME NEW m, WellFormed(m), m.kind = HEARTBEAT
  PROVE  HeartbeatFields(m) \in Octets(28)
<1>1. /\ m.reader \in Octets(4) /\ m.writer \in Octets(4)
      /\ m.firstSN \in Octets(8) /\ m.lastSN \in Octets(8) /\ m.count \in Octets(4)
  BY DEF WellFormed
<1>2. m.reader \o m.writer \in Octets(4 + 4)
  <2>1. 4 \in Nat /\ 4 \in Nat
    OBVIOUS
  <2> QED BY <1>1, <2>1, OctetsConcat, Zenon
<1>3. m.reader \o m.writer \o m.firstSN \in Octets(4 + 4 + 8)
  <2>1. 4 + 4 \in Nat /\ 8 \in Nat
    OBVIOUS
  <2> QED BY <1>1, <1>2, <2>1, OctetsConcat, Zenon
<1>4. m.reader \o m.writer \o m.firstSN \o m.lastSN \in Octets(4 + 4 + 8 + 8)
  <2>1. 4 + 4 + 8 \in Nat /\ 8 \in Nat
    OBVIOUS
  <2> QED BY <1>1, <1>3, <2>1, OctetsConcat, Zenon
<1>5. HeartbeatFields(m) \in Octets(4 + 4 + 8 + 8 + 4)
  <2>1. 4 + 4 + 8 + 8 \in Nat /\ 4 \in Nat
    OBVIOUS
  <2> QED BY <1>1, <1>4, <2>1, OctetsConcat, Zenon DEF HeartbeatFields
<1>6. 4 + 4 + 8 + 8 + 4 = 28
  OBVIOUS
<1> QED BY <1>5, <1>6, Zenon

LEMMA SetFieldsOctets ==
  ASSUME NEW m, WellFormed(m), m.kind = ACKNACK
  PROVE  SetFields(m) \in Octets(20)
<1>1. /\ m.reader \in Octets(4) /\ m.writer \in Octets(4) /\ m.base \in Octets(8)
      /\ m.numBits \in Nat
  BY DEF WellFormed
<1>2. LE(m.numBits, 4) \in Octets(4)
  BY <1>1, NumberOctets, Zenon
<1>3. m.reader \o m.writer \in Octets(4 + 4)
  <2>1. 4 \in Nat /\ 4 \in Nat
    OBVIOUS
  <2> QED BY <1>1, <1>2, <2>1, OctetsConcat, Zenon
<1>4. m.reader \o m.writer \o m.base \in Octets(4 + 4 + 8)
  <2>1. 4 + 4 \in Nat /\ 8 \in Nat
    OBVIOUS
  <2> QED BY <1>1, <1>2, <1>3, <2>1, OctetsConcat, Zenon
<1>5. SetFields(m) \in Octets(4 + 4 + 8 + 4)
  <2>1. 4 + 4 + 8 \in Nat /\ 4 \in Nat
    OBVIOUS
  <2> QED BY <1>1, <1>2, <1>4, <2>1, OctetsConcat, Zenon DEF SetFields
<1>6. 4 + 4 + 8 + 4 = 20
  OBVIOUS
<1> QED BY <1>5, <1>6, Zenon

LEMMA BitMapOctets ==
  ASSUME NEW m, WellFormed(m), m.kind = ACKNACK
  PROVE  BitMapSize(m.numBits) \in Nat /\ BitMap(m) \in Octets(BitMapSize(m.numBits))
<1>1. BitMapSize(m.numBits) \in Nat
  <2>1. m.numBits \in Nat
    BY DEF WellFormed
  <2> QED BY <2>1 DEF BitMapSize
<1>2. 128 \in Byte
  BY DEF Byte
<1> QED BY <1>1, <1>2, Zenon DEF BitMap, Octets

-----------------------------------------------------------------------------
(* What the factory does to the buffer. *)

LEMMA HeadGrows ==
  ASSUME NEW b, Packed(b), NEW kind \in Byte, NEW flags \in Byte, NEW octets \in Nat
  PROVE  Grown(b, SubHead(kind, flags, octets),
               SerializeSubmessageHeader(b, kind, flags, octets), Larger(b.free, 20) - 4)
<1>1. /\ SubHead(kind, flags, octets) \in Seq(Byte)
      /\ Len(SubHead(kind, flags, octets)) = 4
  <2>1. 4 \in Nat
    OBVIOUS
  <2> QED BY <2>1, SubHeadOctets, OctetsAreBytes, Zenon
<1>2. b.free \in Nat
  BY PackedFacts
<1> DEFINE head == SubHead(kind, flags, octets)
<1>3. SerializeSubmessageHeader(b, kind, flags, octets) = Append8(Reserve(b, 20), head)
  BY DEF SerializeSubmessageHeader, SubHead, HeaderSize
<1> HIDE DEF head
<1>4. head \in Seq(Byte) /\ Len(head) = 4
  BY <1>1 DEF head
<1>5. 20 \in Nat /\ Len(head) <= Larger(b.free, 20)
  BY <1>2, <1>4 DEF Larger
<1>6. Grown(b, head, Append8(Reserve(b, 20), head), Larger(b.free, 20) - Len(head))
  BY <1>4, <1>5, WriteGrows
<1> QED BY <1>3, <1>4, <1>6, Zenon DEF head

\* The same behind a reservation of enough space.
LEMMA SpacedHeadGrows ==
  ASSUME NEW b, Packed(b), b.free <= 8, NEW n \in Nat, n >= 8,
         NEW kind \in Byte, NEW flags \in Byte, NEW octets \in Nat
  PROVE  Grown(b, SubHead(kind, flags, octets),
               SerializeSubmessageHeader(Reserve(b, n), kind, flags, octets), Larger(n, 20) - 4)
<1> DEFINE head == SubHead(kind, flags, octets)
           c == Reserve(b, n)
           d == SerializeSubmessageHeader(c, kind, flags, octets)
<1>1. Grown(b, <<>>, c, Larger(b.free, n))
  BY ReserveGrows
<1>2. Larger(b.free, n) = n
  <2>1. b.free \in Nat
    BY PackedFacts
  <2> QED BY <2>1 DEF Larger
<1>3. Packed(c) /\ c.free = n
  BY <1>1, <1>2, GrownFree
<1>4. head \in Seq(Byte)
  <2>1. 4 \in Nat
    OBVIOUS
  <2> QED BY <2>1, SubHeadOctets, OctetsAreBytes, Zenon
<1>5. Grown(c, head, d, Larger(c.free, 20) - 4)
  BY <1>3, HeadGrows
<1> HIDE DEF head, c, d
<1>6. Grown(b, head, d, Larger(n, 20) - 4)
  BY <1>1, <1>3, <1>4, <1>5, GrownBehindSpace
<1> QED BY <1>6 DEF head, c, d

\* A body of n bytes is written behind what was written.
LEMMA BodyGrows ==
  ASSUME NEW b, Packed(b), NEW s \in Seq(Byte), NEW c, NEW m \in Nat, Grown(b, s, c, m),
         NEW n \in Nat, n <= m, NEW t \in Octets(n)
  PROVE  Grown(b, s \o t, Append8(c, t), m - n) /\ s \o t \in Seq(Byte)
<1>1. t \in Seq(Byte) /\ Len(t) = n
  BY OctetsAreBytes
<1>2. Packed(c) /\ c.free = m
  BY GrownFree
<1>3. Grown(c, t, Append8(c, t), m - n)
  BY <1>1, <1>2, AppendGrows
<1>4. Grown(b, s \o t, Append8(c, t), m - n)
  BY <1>1, <1>3, GrownThen
<1> QED BY <1>1, <1>4, ConcatProperties

FlagsOf(m) == IF m.kind = DATA /\ m.payload # <<>> THEN 5 ELSE 1

OctetsOf(m) ==
  CASE m.kind = INFO_DST -> 12
    [] m.kind = INFO_TS -> 8
    [] m.kind = DATA -> 20 + Len(m.payload)
    [] m.kind = DATA_FRAG -> 0
    [] m.kind = HEARTBEAT -> 28
    [] m.kind = ACKNACK -> 24 + BitMapSize(m.numBits)

BodyOf(m) ==
  CASE m.kind = INFO_DST -> m.prefix
    [] m.kind = INFO_TS -> Stamp
    [] m.kind = DATA -> DataFields(m) \o m.payload
    [] m.kind = DATA_FRAG -> FragFields(m) \o m.payload
    [] m.kind = HEARTBEAT -> HeartbeatFields(m)
    [] m.kind = ACKNACK -> SetFields(m) \o BitMap(m) \o m.count

HeadOf(m) == SubHead(m.kind, FlagsOf(m), OctetsOf(m))

\* The space a submessage leaves behind it.
Spare(m) ==
  CASE m.kind = INFO_DST -> 4
    [] m.kind = INFO_TS -> 8
    [] OTHER -> 0

\* How long a submessage is.
LengthOf(m) == 4 + IF m.kind = DATA_FRAG THEN 32 + Len(m.payload) ELSE OctetsOf(m)

LEMMA KindsDiffer ==
  /\ INFO_DST # INFO_TS /\ INFO_DST # DATA /\ INFO_DST # DATA_FRAG /\ INFO_DST # HEARTBEAT
  /\ INFO_DST # ACKNACK /\ INFO_TS # DATA /\ INFO_TS # DATA_FRAG /\ INFO_TS # HEARTBEAT
  /\ INFO_TS # ACKNACK /\ DATA # DATA_FRAG /\ DATA # HEARTBEAT /\ DATA # ACKNACK
  /\ DATA_FRAG # HEARTBEAT /\ DATA_FRAG # ACKNACK /\ HEARTBEAT # ACKNACK
BY DEF DATA, DATA_FRAG, HEARTBEAT, ACKNACK, INFO_TS, INFO_DST

LEMMA HeadOfOctets ==
  ASSUME NEW m, WellFormed(m)
  PROVE  /\ OctetsOf(m) \in Nat /\ m.kind \in Byte /\ FlagsOf(m) \in Byte
         /\ HeadOf(m) \in Octets(4)
<1>1. OctetsOf(m) \in Nat
  <2>1. \/ m.kind = INFO_DST \/ m.kind = INFO_TS \/ m.kind = DATA
        \/ m.kind = DATA_FRAG \/ m.kind = HEARTBEAT \/ m.kind = ACKNACK
    BY DEF WellFormed
  <2>2. m.kind = DATA => Len(m.payload) \in Nat
    BY DEF WellFormed
  <2>3. m.kind = ACKNACK => BitMapSize(m.numBits) \in Nat
    BY BitMapOctets
  <2> QED BY <2>1, <2>2, <2>3, KindsDiffer DEF OctetsOf
<1>2. m.kind \in Byte /\ FlagsOf(m) \in Byte
  BY Kinds DEF WellFormed, FlagsOf
<1> QED BY <1>1, <1>2, SubHeadOctets DEF HeadOf

AddedRight(b, m) ==
  /\ Grown(b, HeadOf(m) \o BodyOf(m), AddSubmessage(b, m), Spare(m))
  /\ BodyOf(m) \in Octets(LengthOf(m) - 4) /\ LengthOf(m) - 4 \in Nat

LEMMA InfoDstGrows ==
  ASSUME NEW b, Packed(b), b.free <= 8, NEW m, WellFormed(m), m.kind = INFO_DST
  PROVE  AddedRight(b, m)
<1>1. m.prefix \in Octets(12)
  BY DEF WellFormed
<1>2. /\ BodyOf(m) = m.prefix /\ OctetsOf(m) = 12 /\ LengthOf(m) - 4 = 12
      /\ FlagsOf(m) = 1 /\ Spare(m) = 4
  BY KindsDiffer DEF BodyOf, OctetsOf, LengthOf, FlagsOf, Spare
<1> DEFINE c == SerializeSubmessageHeader(Reserve(b, 16), INFO_DST, 1, 12)
<1>3. AddSubmessage(b, m) = Append8(c, m.prefix)
  BY KindsDiffer DEF AddSubmessage, AddInfoDST, InfoDSTSize
<1>4. HeadOf(m) \in Seq(Byte)
  BY HeadOfOctets, OctetsAreBytes
<1>5. HeadOf(m) = SubHead(INFO_DST, 1, 12)
  BY <1>2 DEF HeadOf
<1>6. Grown(b, HeadOf(m), c, 16)
  <2>1. 16 \in Nat /\ 16 >= 8 /\ Larger(16, 20) - 4 = 16 /\ 12 \in Nat
    BY DEF Larger
  <2> QED BY <1>5, <2>1, Kinds, SpacedHeadGrows
<1> HIDE DEF c
<1>7. Grown(b, HeadOf(m) \o m.prefix, Append8(c, m.prefix), 16 - 12)
  BY <1>1, <1>4, <1>6, BodyGrows
<1>8. 16 - 12 = 4 /\ 12 \in Nat
  OBVIOUS
<1> QED BY <1>1, <1>2, <1>3, <1>7, <1>8, Zenon DEF AddedRight

LEMMA InfoTsGrows ==
  ASSUME NEW b, Packed(b), b.free <= 8, NEW m, WellFormed(m), m.kind = INFO_TS
  PROVE  AddedRight(b, m)
<1>1. Stamp \in Octets(8)
  BY DEF Stamp, Octets, Byte
<1>2. /\ BodyOf(m) = Stamp /\ OctetsOf(m) = 8 /\ LengthOf(m) - 4 = 8
      /\ FlagsOf(m) = 1 /\ Spare(m) = 8
  BY KindsDiffer DEF BodyOf, OctetsOf, LengthOf, FlagsOf, Spare
<1> DEFINE c == SerializeSubmessageHeader(b, INFO_TS, 1, 8)
           d == Reserve(c, 8)
<1>3. AddSubmessage(b, m) = Append8(d, Stamp)
  BY KindsDiffer DEF AddSubmessage, AddTimeStamp, Stamp
<1>4. HeadOf(m) \in Seq(Byte) /\ HeadOf(m) \o <<>> = HeadOf(m)
  BY HeadOfOctets, OctetsAreBytes, ConcatEmptySeq
<1>5. HeadOf(m) = SubHead(INFO_TS, 1, 8)
  BY <1>2 DEF HeadOf
<1>6. Grown(b, HeadOf(m), c, 16)
  <2>1. Larger(b.free, 20) - 4 = 16
    BY PackedFacts DEF Larger
  <2>2. 8 \in Nat
    OBVIOUS
  <2> QED BY <1>5, <2>1, <2>2, Kinds, HeadGrows
<1> HIDE DEF c
<1>7. Grown(c, <<>>, d, 16)
  <2>1. Packed(c) /\ c.free = 16
    BY <1>6, GrownFree
  <2>2. Larger(16, 8) = 16 /\ 8 \in Nat
    BY DEF Larger
  <2> QED BY <2>1, <2>2, ReserveGrows
<1> HIDE DEF d
<1>8. Grown(b, HeadOf(m), d, 16)
  <2>1. <<>> \in Seq(Byte)
    OBVIOUS
  <2>2. Grown(b, HeadOf(m) \o <<>>, d, 16)
    BY <1>4, <1>6, <1>7, <2>1, GrownThen
  <2> QED BY <1>4, <2>2
<1>9. 8 \in Nat /\ 16 \in Nat /\ 8 <= 16 /\ 16 - 8 = 8
  OBVIOUS
<1>10. Grown(b, HeadOf(m) \o Stamp, Append8(d, Stamp), 16 - 8)
  BY <1>1, <1>4, <1>8, <1>9, BodyGrows
<1> QED BY <1>1, <1>2, <1>3, <1>9, <1>10, Zenon DEF AddedRight

LEMMA HeartbeatGrows ==
  ASSUME NEW b, Packed(b), b.free <= 8, NEW m, WellFormed(m), m.kind = HEARTBEAT
  PROVE  AddedRight(b, m)
<1>1. HeartbeatFields(m) \in Octets(28)
  BY HeartbeatFieldsOctets
<1>2. /\ BodyOf(m) = HeartbeatFields(m) /\ OctetsOf(m) = 28 /\ LengthOf(m) - 4 = 28
      /\ FlagsOf(m) = 1 /\ Spare(m) = 0
  BY KindsDiffer DEF BodyOf, OctetsOf, LengthOf, FlagsOf, Spare
<1> DEFINE c == SerializeSubmessageHeader(Reserve(b, 32), HEARTBEAT, 1, 28)
<1>3. AddSubmessage(b, m) = Append8(c, HeartbeatFields(m))
  <2>1. HeartbeatSize - numBytesUntilEndOfLength = 28 /\ HeartbeatSize = 32
    BY DEF HeartbeatSize, numBytesUntilEndOfLength
  <2> QED BY <2>1, KindsDiffer, Zenon DEF AddSubmessage, AddHeartbeat, HeartbeatFields
<1>4. HeadOf(m) \in Seq(Byte)
  BY HeadOfOctets, OctetsAreBytes
<1>5. HeadOf(m) = SubHead(HEARTBEAT, 1, 28)
  BY <1>2 DEF HeadOf
<1>6. Grown(b, HeadOf(m), c, 28)
  <2>1. 32 \in Nat /\ 32 >= 8 /\ Larger(32, 20) - 4 = 28 /\ 28 \in Nat
    BY DEF Larger
  <2> QED BY <1>5, <2>1, Kinds, SpacedHeadGrows
<1> HIDE DEF c
<1>7. 28 \in Nat /\ 28 <= 28 /\ 28 - 28 = 0
  OBVIOUS
<1>8. Grown(b, HeadOf(m) \o HeartbeatFields(m), Append8(c, HeartbeatFields(m)), 28 - 28)
  BY <1>1, <1>4, <1>6, <1>7, BodyGrows
<1> QED BY <1>1, <1>2, <1>3, <1>7, <1>8, Zenon DEF AddedRight

\* A payload in a buffer of its own is hung behind the fields.
LEMMA PayloadGrows ==
  ASSUME NEW b, Packed(b), NEW s \in Seq(Byte), NEW c, Grown(b, s, c, 0), IsValid(c),
         NEW t \in Seq(Byte)
  PROVE  Grown(b, s \o t, Chain(c, Filled(t)), 0)
<1>1. Packed(c) /\ c.free = 0
  BY GrownFree
<1>2. Grown(c, t, Chain(c, Filled(t)), 0)
  BY <1>1, ChainGrows
<1> QED BY <1>2, GrownThen

\* A buffer something was written into is valid.
LEMMA GrownValid ==
  ASSUME NEW b, Packed(b), NEW s \in Seq(Byte), NEW c, NEW m, Grown(b, s, c, m), s # <<>>
  PROVE  IsValid(c)
<1>1. PICK u \in Nat, k \in Nat : u = SpaceUsed(b) /\ k = Len(s)
  BY PackedFacts
<1>2. k > 0
  BY <1>1, EmptySeq
<1>3. Packed(c) /\ SpaceUsed(c) = u + k
  BY <1>1 DEF Grown
<1>4. Len(c.bytes) = u + k + c.free /\ c.free \in Nat
  BY <1>3, PackedFacts
<1>5. Len(c.bytes) # 0
  BY <1>1, <1>2, <1>4
<1> QED BY <1>5 DEF IsValid

LEMMA DataGrows ==
  ASSUME NEW b, Packed(b), b.free <= 8, NEW m, WellFormed(m), m.kind = DATA
  PROVE  AddedRight(b, m)
<1>1. DataFields(m) \in Octets(20) /\ m.payload \in Seq(Byte)
  BY DataFieldsOctets DEF WellFormed
<1>2. PICK k \in Nat : k = Len(m.payload)
  BY <1>1
<1>3. /\ BodyOf(m) = DataFields(m) \o m.payload /\ OctetsOf(m) = 20 + k
      /\ LengthOf(m) - 4 = 20 + k /\ Spare(m) = 0
  BY <1>2, KindsDiffer DEF BodyOf, OctetsOf, LengthOf, Spare
<1>4. /\ SpaceUsed(Filled(m.payload)) = k /\ Filled(m.payload).bytes = m.payload
      /\ IsValid(Filled(m.payload)) <=> m.payload # <<>>
  BY <1>1, <1>2, FilledFacts DEF IsValid
<1>5. DataSize = 24 /\ DataSize + k - numBytesUntilEndOfLength = 20 + k
  BY <1>2 DEF DataSize, numBytesUntilEndOfLength
<1>6. FlagsOf(m) = IF IsValid(Filled(m.payload)) THEN 5 ELSE 1
  BY <1>4 DEF FlagsOf
<1> DEFINE c == SerializeSubmessageHeader(Reserve(b, 24), DATA, FlagsOf(m), 20 + k)
           d == Append8(c, DataFields(m))
<1>7. AddSubmessage(b, m) = IF m.payload # <<>> THEN Chain(d, Filled(m.payload)) ELSE d
  <2>1. AddSubmessage(b, m) = AddData(b, m)
    BY KindsDiffer DEF AddSubmessage
  <2> QED BY <1>4, <1>5, <1>6, <2>1, Zenon DEF AddData, DataFields
<1>8. HeadOf(m) \in Seq(Byte) /\ FlagsOf(m) \in Byte
  BY HeadOfOctets, OctetsAreBytes
<1>9. HeadOf(m) = SubHead(DATA, FlagsOf(m), 20 + k)
  BY <1>3 DEF HeadOf
<1>10. Grown(b, HeadOf(m), c, 20)
  <2>1. 24 \in Nat /\ 24 >= 8 /\ Larger(24, 20) - 4 = 20 /\ 20 + k \in Nat
    BY DEF Larger
  <2> QED BY <1>8, <1>9, <2>1, Kinds, SpacedHeadGrows
<1> HIDE DEF c
<1>11. Grown(b, HeadOf(m) \o DataFields(m), d, 0) /\ HeadOf(m) \o DataFields(m) \in Seq(Byte)
  <2>1. 20 \in Nat /\ 20 <= 20 /\ 20 - 20 = 0
    OBVIOUS
  <2> QED BY <1>1, <1>8, <1>10, <2>1, BodyGrows
<1> HIDE DEF d
<1> DEFINE h == HeadOf(m)  f == DataFields(m)
<1>12. f \in Seq(Byte) /\ Len(f) = 20
  <2>1. 20 \in Nat
    OBVIOUS
  <2> QED BY <1>1, <2>1, OctetsAreBytes, Zenon
<1>13. h \o (f \o m.payload) = h \o f \o m.payload
  <2> HIDE DEF h, f
  <2>1. h \in Seq(Byte) /\ f \in Seq(Byte) /\ m.payload \in Seq(Byte)
    BY <1>1, <1>8, <1>12 DEF h
  <2> QED BY <2>1, BytesAssociative, Zenon
<1>14. f \o m.payload \in Octets(20 + k)
  <2>1. m.payload \in Octets(k) /\ 20 \in Nat
    BY <1>1, <1>2, BytesAreOctets
  <2> QED BY <1>1, <2>1, OctetsConcat, Zenon
<1>15. Grown(b, h \o (f \o m.payload), AddSubmessage(b, m), 0)
  <2>1. CASE m.payload # <<>>
    <3>1. h \o f # <<>>
      <4>1. 4 \in Nat /\ 20 \in Nat /\ 4 + 20 \in Nat /\ 4 + 20 # 0
        OBVIOUS
      <4>2. h \o f \in Octets(4 + 20)
        BY <1>1, <4>1, HeadOfOctets, OctetsConcat, Zenon
      <4>3. Len(h \o f) = 4 + 20
        BY <4>1, <4>2, OctetsAreBytes, Zenon
      <4> QED BY <4>1, <4>3, EmptySeq, Zenon
    <3>2. IsValid(d)
      BY <1>11, <3>1, GrownValid
    <3>3. Grown(b, h \o f \o m.payload, Chain(d, Filled(m.payload)), 0)
      BY <1>1, <1>11, <3>2, PayloadGrows
    <3> QED BY <1>7, <1>13, <2>1, <3>3, Zenon
  <2>2. CASE m.payload = <<>>
    <3>1. f \o m.payload = f
      BY <1>12, <2>2, ConcatEmptySeq
    <3> QED BY <1>7, <1>11, <2>2, <3>1, Zenon
  <2> QED BY <2>1, <2>2
<1>16. 20 + k \in Nat
  OBVIOUS
<1> QED BY <1>3, <1>14, <1>15, <1>16, Zenon DEF AddedRight

LEMMA NotEmpty ==
  ASSUME NEW n \in Nat, NEW s \in Octets(n), n # 0
  PROVE  s # <<>>
<1>1. Len(s) = n
  BY OctetsAreBytes
<1>2. Len(<<>>) = 0
  OBVIOUS
<1> QED BY <1>1, <1>2

LEMMA DataFragGrows ==
  ASSUME NEW b, Packed(b), b.free <= 8, NEW m, WellFormed(m), m.kind = DATA_FRAG
  PROVE  AddedRight(b, m)
<1>1. FragFields(m) \in Octets(32) /\ m.payload \in Seq(Byte)
  BY FragFieldsOctets DEF WellFormed
<1>2. PICK k \in Nat : k = Len(m.payload)
  BY <1>1
<1>3. /\ BodyOf(m) = FragFields(m) \o m.payload /\ OctetsOf(m) = 0 /\ FlagsOf(m) = 1
      /\ LengthOf(m) - 4 = 32 + k /\ Spare(m) = 0
  BY <1>2, KindsDiffer DEF BodyOf, OctetsOf, LengthOf, Spare, FlagsOf
<1> DEFINE c == SerializeSubmessageHeader(Reserve(b, 36), DATA_FRAG, 1, 0)
           d == Append8(c, FragFields(m))
<1>4. AddSubmessage(b, m) = Chain(d, Filled(m.payload))
  <2>1. AddSubmessage(b, m) = AddDataFrag(b, m)
    BY KindsDiffer DEF AddSubmessage
  <2> QED BY <2>1, Zenon DEF AddDataFrag, DataFragSize, FragFields
<1>5. HeadOf(m) \in Seq(Byte) /\ HeadOf(m) \in Octets(4)
  BY HeadOfOctets, OctetsAreBytes
<1>6. HeadOf(m) = SubHead(DATA_FRAG, 1, 0)
  BY <1>3 DEF HeadOf
<1>7. Grown(b, HeadOf(m), c, 32)
  <2>1. 36 \in Nat /\ 36 >= 8 /\ Larger(36, 20) - 4 = 32 /\ 0 \in Nat
    BY DEF Larger
  <2> QED BY <1>6, <2>1, Kinds, SpacedHeadGrows
<1> HIDE DEF c
<1>8. Grown(b, HeadOf(m) \o FragFields(m), d, 0) /\ HeadOf(m) \o FragFields(m) \in Seq(Byte)
  <2>1. 32 \in Nat /\ 32 <= 32 /\ 32 - 32 = 0
    OBVIOUS
  <2> QED BY <1>1, <1>5, <1>7, <2>1, BodyGrows
<1> HIDE DEF d
<1> DEFINE h == HeadOf(m)  f == FragFields(m)
<1>9. f \in Seq(Byte)
  <2>1. 32 \in Nat
    OBVIOUS
  <2> QED BY <1>1, <2>1, OctetsAreBytes, Zenon
<1>10. h \o (f \o m.payload) = h \o f \o m.payload
  <2> HIDE DEF h, f
  <2>1. h \in Seq(Byte) /\ f \in Seq(Byte) /\ m.payload \in Seq(Byte)
    BY <1>1, <1>5, <1>9 DEF h
  <2> QED BY <2>1, BytesAssociative, Zenon
<1>11. f \o m.payload \in Octets(32 + k)
  <2>1. m.payload \in Octets(k) /\ 32 \in Nat
    BY <1>1, <1>2, BytesAreOctets
  <2> QED BY <1>1, <2>1, OctetsConcat, Zenon
<1>12. IsValid(d)
  <2>1. 4 \in Nat /\ 32 \in Nat /\ 4 + 32 \in Nat /\ 4 + 32 # 0
    OBVIOUS
  <2>2. h \o f # <<>>
    BY <1>1, <1>5, <2>1, OctetsConcat, NotEmpty, Zenon
  <2> QED BY <1>8, <2>2, GrownValid
<1>13. Grown(b, h \o f \o m.payload, Chain(d, Filled(m.payload)), 0)
  BY <1>1, <1>8, <1>12, PayloadGrows
<1>14. 32 + k \in Nat
  OBVIOUS
<1> QED BY <1>3, <1>4, <1>10, <1>11, <1>13, <1>14, Zenon DEF AddedRight

LEMMA AckNackGrows ==
  ASSUME NEW b, Packed(b), b.free <= 8, NEW m, WellFormed(m), m.kind = ACKNACK
  PROVE  AddedRight(b, m)
<1> DEFINE s == SetFields(m)
           map == BitMap(m)
           h == HeadOf(m)
<1>1. s \in Octets(20) /\ m.count \in Octets(4)
  BY SetFieldsOctets DEF WellFormed
<1>2. PICK k \in Nat : k = BitMapSize(m.numBits) /\ map \in Octets(k)
  BY BitMapOctets
<1>3. /\ BodyOf(m) = s \o map \o m.count /\ OctetsOf(m) = 24 + k /\ FlagsOf(m) = 1
      /\ LengthOf(m) - 4 = 24 + k /\ Spare(m) = 0
  <2>1. BodyOf(m) = s \o map \o m.count
    BY KindsDiffer, Zenon DEF BodyOf
  <2>2. OctetsOf(m) = 24 + k /\ FlagsOf(m) = 1 /\ Spare(m) = 0 /\ m.kind # DATA_FRAG
    BY <1>2, KindsDiffer DEF OctetsOf, Spare, FlagsOf
  <2>3. LengthOf(m) - 4 = 24 + k
    BY <2>2 DEF LengthOf
  <2> QED BY <2>1, <2>2, <2>3
<1>4. AckNackSize(m.numBits) = 28 + k /\ AckNackSize(m.numBits) - numBytesUntilEndOfLength = 24 + k
  BY <1>2 DEF AckNackSize, AckNackSizeWithoutSet, numBytesUntilEndOfLength
<1> DEFINE c == SerializeSubmessageHeader(Reserve(b, 28 + k), ACKNACK, 1, 24 + k)
           set == Append8(c, s)
           all == IF m.numBits # 0 THEN Append8(set, map) ELSE set
<1>5. AddSubmessage(b, m) = Append8(all, m.count)
  <2>1. AddSubmessage(b, m) = AddAckNack(b, m)
    BY KindsDiffer DEF AddSubmessage
  <2> QED BY <1>4, <2>1, Zenon DEF AddAckNack, SetFields, BitMap
<1>6. h \in Seq(Byte) /\ h \in Octets(4)
  BY HeadOfOctets, OctetsAreBytes
<1>7. h = SubHead(ACKNACK, 1, 24 + k)
  BY <1>3 DEF HeadOf
<1>8. Grown(b, h, c, 24 + k)
  <2>1. 28 + k \in Nat /\ 28 + k >= 8 /\ Larger(28 + k, 20) - 4 = 24 + k /\ 24 + k \in Nat
    BY DEF Larger
  <2> QED BY <1>7, <2>1, Kinds, SpacedHeadGrows
<1> HIDE DEF c, h, s, map
<1>9. Grown(b, h \o s, set, 4 + k) /\ h \o s \in Seq(Byte)
  <2>1. 20 \in Nat /\ 24 + k \in Nat /\ 20 <= 24 + k /\ 24 + k - 20 = 4 + k
    OBVIOUS
  <2> QED BY <1>1, <1>6, <1>8, <2>1, BodyGrows
<1> HIDE DEF set
<1>10. Grown(b, h \o s \o map, all, 4) /\ h \o s \o map \in Seq(Byte)
  <2>1. 4 + k \in Nat /\ k <= 4 + k /\ 4 + k - k = 4
    OBVIOUS
  <2>2. Grown(b, h \o s \o map, Append8(set, map), 4) /\ h \o s \o map \in Seq(Byte)
    <3> DEFINE u == h \o s  w == 4 + k
    <3>1. u \in Seq(Byte) /\ Grown(b, u, set, w) /\ w \in Nat /\ k <= w /\ w - k = 4
      BY <1>9, <2>1
    <3> HIDE DEF u, w
    <3>2. Grown(b, u \o map, Append8(set, map), w - k) /\ u \o map \in Seq(Byte)
      BY <1>2, <3>1, BodyGrows
    <3>3. Grown(b, u \o map, Append8(set, map), 4) /\ u \o map \in Seq(Byte)
      BY <3>1, <3>2, Zenon
    <3> QED BY <3>3 DEF u
  <2>3. ASSUME m.numBits = 0
        PROVE  Grown(b, h \o s \o map, set, 4)
    <3>1. k = 0
      BY <1>2, <2>3 DEF BitMapSize
    <3>2. map = <<>>
      BY <1>2, <3>1 DEF Octets
    <3>3. h \o s \o map = h \o s
      BY <1>9, <3>2, ConcatEmptySeq
    <3>4. 4 + k = 4
      BY <3>1
    <3> QED BY <1>9, <3>3, <3>4, Zenon
  <2> QED BY <2>2, <2>3
<1> HIDE DEF all
<1>11. Grown(b, h \o s \o map \o m.count, Append8(all, m.count), 0)
  <2>1. 4 \in Nat /\ 4 <= 4 /\ 4 - 4 = 0
    OBVIOUS
  <2> QED BY <1>1, <1>10, <2>1, BodyGrows
<1>12. s \in Seq(Byte) /\ map \in Seq(Byte) /\ m.count \in Seq(Byte) /\ s \o map \in Seq(Byte)
       /\ s \o map \in Octets(20 + k)
  <2>1. 20 \in Nat /\ 4 \in Nat /\ 20 + k \in Nat
    OBVIOUS
  <2>2. s \o map \in Octets(20 + k)
    BY <1>1, <1>2, <2>1, OctetsConcat, Zenon
  <2> QED BY <1>1, <1>2, <2>1, <2>2, OctetsAreBytes, Zenon
<1>13. h \o (s \o map \o m.count) = h \o s \o map \o m.count
  <2>1. h \o (s \o map \o m.count) = h \o (s \o map) \o m.count
    BY <1>6, <1>12, BytesAssociative, Zenon
  <2>2. h \o (s \o map) = h \o s \o map
    BY <1>6, <1>12, BytesAssociative, Zenon
  <2> QED BY <2>1, <2>2, Zenon
<1>14. s \o map \o m.count \in Octets(24 + k) /\ 24 + k \in Nat
  <2>1. 20 + k \in Nat /\ 4 \in Nat /\ 20 + k + 4 = 24 + k /\ 24 + k \in Nat
    OBVIOUS
  <2>2. s \o map \o m.count \in Octets(20 + k + 4)
    BY <1>1, <1>12, <2>1, OctetsConcat, Zenon
  <2> QED BY <2>1, <2>2, Zenon
<1> QED BY <1>3, <1>5, <1>11, <1>13, <1>14, Zenon DEF AddedRight, h, s, map

LEMMA AddGrows ==
  ASSUME NEW b, Packed(b), b.free <= 8, NEW m, WellFormed(m)
  PROVE  AddedRight(b, m)
<1>1. \/ m.kind = INFO_DST \/ m.kind = INFO_TS \/ m.kind = DATA
      \/ m.kind = DATA_FRAG \/ m.kind = HEARTBEAT \/ m.kind = ACKNACK
  BY DEF WellFormed
<1> QED BY <1>1, InfoDstGrows, InfoTsGrows, DataGrows, DataFragGrows, HeartbeatGrows, AckNackGrows

\* The header of a packet.
HeaderOf(prefix) == RTPS \o PROTOCOLVERSION \o VENDOR_ID \o prefix

LEMMA HeaderOctets ==
  ASSUME NEW prefix \in Octets(12)
  PROVE  HeaderOf(prefix) \in Octets(20)
<1>1. RTPS \in Octets(4) /\ PROTOCOLVERSION \in Octets(2) /\ VENDOR_ID \in Octets(2)
  <2>1. RTPS \in Seq(Byte) /\ Len(RTPS) = 4
    BY DEF RTPS, Byte
  <2>2. PROTOCOLVERSION \in Seq(Byte) /\ Len(PROTOCOLVERSION) = 2
    BY DEF PROTOCOLVERSION, Byte
  <2>3. VENDOR_ID \in Seq(Byte) /\ Len(VENDOR_ID) = 2
    BY DEF VENDOR_ID, Byte
  <2>4. 2 \in Nat /\ 4 \in Nat
    OBVIOUS
  <2> QED BY <2>1, <2>2, <2>3, <2>4, BytesAreOctets, Zenon
<1>2. 4 \in Nat /\ 2 \in Nat /\ 12 \in Nat /\ 4 + 2 \in Nat /\ 4 + 2 + 2 \in Nat /\ 4 + 2 + 2 + 12 = 20
  OBVIOUS
<1>3. RTPS \o PROTOCOLVERSION \in Octets(4 + 2)
  BY <1>1, <1>2, OctetsConcat, Zenon
<1>4. RTPS \o PROTOCOLVERSION \o VENDOR_ID \in Octets(4 + 2 + 2)
  BY <1>1, <1>2, <1>3, OctetsConcat, Zenon
<1>5. HeaderOf(prefix) \in Octets(4 + 2 + 2 + 12)
  BY <1>2, <1>4, OctetsConcat, Zenon DEF HeaderOf
<1> QED BY <1>2, <1>5, Zenon

LEMMA HeaderGrows ==
  ASSUME NEW prefix \in Octets(12)
  PROVE  Grown(NoBuffer, HeaderOf(prefix), AddHeader(NoBuffer, prefix), 0)
<1>1. 20 \in Nat /\ HeaderOf(prefix) \in Octets(20)
  BY HeaderOctets
<1>2. HeaderOf(prefix) \in Seq(Byte) /\ Len(HeaderOf(prefix)) = 20
  BY <1>1, OctetsAreBytes, Zenon
<1>3. Larger(NoBuffer.free, 20) = 20 /\ 20 <= 20 /\ 20 - 20 = 0
  BY DEF NoBuffer, Larger
<1>4. AddHeader(NoBuffer, prefix) = Append8(Reserve(NoBuffer, 20), HeaderOf(prefix))
  BY Zenon DEF AddHeader, HeaderOf, HeaderSize
<1> QED BY <1>1, <1>2, <1>3, <1>4, EmptyPacked, WriteGrows

-----------------------------------------------------------------------------
(* Folds over a sequence, step by step. *)

LEMMA LeastOf ==
  ASSUME NEW T, T \subseteq Nat, T # {}
  PROVE  \E n \in T : \A m \in T : n <= m
<1>1. PICK n \in T : \A m \in T : <<m, n>> \notin OpToRel(<, Nat)
  BY NatLessThanWellFounded, WFMin
<1>2. ASSUME NEW m \in T PROVE n <= m
  <2>1. ~ m < n
    BY <1>1 DEF OpToRel
  <2> QED BY <2>1
<1> QED BY <1>2

LEMMA NatSetInduction ==
  ASSUME NEW T, 0 \in T, \A n \in Nat : n \in T => n + 1 \in T
  PROVE  Nat \subseteq T
<1> SUFFICES ASSUME NEW k \in Nat, k \notin T PROVE FALSE
  OBVIOUS
<1> DEFINE Rest == {n \in Nat : n \notin T}
<1>1. PICK n \in Rest : \A m \in Rest : n <= m
  <2>1. Rest \subseteq Nat /\ Rest # {}
    OBVIOUS
  <2> QED BY <2>1, LeastOf
<1>2. n \in Nat /\ n # 0 /\ n \notin T
  OBVIOUS
<1>3. n - 1 \in Nat /\ n - 1 \notin Rest
  BY <1>1, <1>2
<1> QED BY <1>2, <1>3

LEMMA IntervalMax ==
  ASSUME NEW k \in Nat, k # 0
  PROVE  Max(1 .. k) = k /\ (1 .. k) \ {k} = 1 .. k - 1 /\ 1 .. k # {}
<1>1. \A x \in 1 .. k : (\A y \in 1 .. k : x >= y) => x = k
  OBVIOUS
<1>2. k \in 1 .. k /\ \A y \in 1 .. k : k >= y
  OBVIOUS
<1>3. (1 .. k) \ {k} = 1 .. k - 1
  OBVIOUS
<1> QED BY <1>1, <1>2, <1>3 DEF Max

\* A set with k in it and nothing larger.
LEMMA TopMax ==
  ASSUME NEW k \in Nat, NEW T \in SUBSET (1 .. k), k \in T
  PROVE  Max(T) = k /\ T \ {k} \in SUBSET (1 .. k - 1)
<1>1. \A x \in T : (\A y \in T : x >= y) => x = k
  OBVIOUS
<1>2. \A y \in T : k >= y
  OBVIOUS
<1>3. T \ {k} \in SUBSET (1 .. k - 1)
  OBVIOUS
<1> QED BY <1>1, <1>2, <1>3 DEF Max

\* What a fold is worked out from: a value for every set of the first places.
Folds(n, V, base, steps, it) ==
  /\ it = [T \in SUBSET (1 .. n) |-> it[T]]
  /\ it[{}] = base
  /\ \A T \in SUBSET (1 .. n) :
       /\ it[T] \in V
       /\ T # {} => Max(T) \in 1 .. n /\ it[T] = steps[Max(T)][it[T \ {Max(T)}]]

LEMMA FoldGoesOn ==
  ASSUME NEW n \in Nat, NEW V, NEW base, NEW steps, NEW it, Folds(n, V, base, steps, it),
         \A x \in V : steps[n + 1][x] \in V
  PROVE  \E more : Folds(n + 1, V, base, steps, more)
<1> DEFINE m == n + 1
           more == [T \in SUBSET (1 .. m) |->
                      IF m \in T THEN steps[m][it[T \ {m}]] ELSE it[T]]
<1>1. m \in Nat /\ m - 1 = n /\ m \notin 1 .. n /\ 1 .. n \subseteq 1 .. m
  OBVIOUS
<1> HIDE DEF m
<1>2. more = [T \in SUBSET (1 .. m) |-> more[T]]
  OBVIOUS
<1>3. \A T \in SUBSET (1 .. n) : T \in SUBSET (1 .. m) /\ more[T] = it[T] /\ it[T] \in V
  <2> TAKE T \in SUBSET (1 .. n)
  <2>1. T \in SUBSET (1 .. m) /\ m \notin T
    BY <1>1
  <2> QED BY <2>1 DEF Folds
<1>4. ASSUME NEW T \in SUBSET (1 .. m), m \in T
      PROVE  more[T] \in V /\ Max(T) \in 1 .. m /\ more[T] = steps[Max(T)][more[T \ {Max(T)}]]
  <2>1. Max(T) = m /\ T \ {m} \in SUBSET (1 .. n)
    BY <1>1, <1>4, TopMax
  <2>2. more[T] = steps[m][it[T \ {m}]]
    BY <1>4
  <2>3. it[T \ {m}] \in V /\ more[T \ {m}] = it[T \ {m}]
    BY <1>3, <2>1
  <2> HIDE DEF more
  <2>4. m \in 1 .. m
    BY <1>4
  <2>5. steps[m][it[T \ {m}]] \in V
    BY <2>3 DEF m
  <2> QED BY <2>1, <2>2, <2>3, <2>4, <2>5, Zenon
<1>5. ASSUME NEW T \in SUBSET (1 .. m), m \notin T, T # {}
      PROVE  more[T] \in V /\ Max(T) \in 1 .. m /\ more[T] = steps[Max(T)][more[T \ {Max(T)}]]
  <2>1. T \in SUBSET (1 .. n)
    BY <1>1, <1>5 DEF m
  <2>2. T \ {Max(T)} \in SUBSET (1 .. n)
    BY <2>1
  <2>3. more[T] = it[T] /\ it[T] \in V /\ more[T \ {Max(T)}] = it[T \ {Max(T)}]
    BY <1>3, <2>1, <2>2
  <2>4. Max(T) \in 1 .. n /\ it[T] = steps[Max(T)][it[T \ {Max(T)}]]
    BY <1>5, <2>1 DEF Folds
  <2> HIDE DEF more
  <2> QED BY <1>1, <2>3, <2>4
<1>6. more[{}] = base /\ more[{}] \in V
  <2>1. {} \in SUBSET (1 .. n)
    OBVIOUS
  <2> HIDE DEF more
  <2> QED BY <1>3, <2>1 DEF Folds
<1> HIDE DEF more
<1>7. Folds(m, V, base, steps, more)
  BY <1>2, <1>4, <1>5, <1>6 DEF Folds
<1> QED BY <1>7 DEF m

LEMMA Folded ==
  ASSUME NEW n \in Nat, NEW V, NEW base \in V, NEW steps,
         \A k \in 1 .. n : \A x \in V : steps[k][x] \in V
  PROVE  \E it : Folds(n, V, base, steps, it)
<1> DEFINE T == {k \in Nat : k <= n => \E it : Folds(k, V, base, steps, it)}
<1>1. 0 \in T
  <2> DEFINE first_it == [S \in SUBSET (1 .. 0) |-> base]
  <2>1. SUBSET (1 .. 0) = {{}}
    OBVIOUS
  <2>2. first_it[{}] = base /\ first_it = [S \in SUBSET (1 .. 0) |-> first_it[S]]
    BY <2>1
  <2> HIDE DEF first_it
  <2>3. Folds(0, V, base, steps, first_it)
    BY <2>1, <2>2 DEF Folds
  <2> QED BY <2>3
<1>2. ASSUME NEW k \in Nat, k \in T
      PROVE  k + 1 \in T
  <2> SUFFICES ASSUME k + 1 <= n PROVE \E it : Folds(k + 1, V, base, steps, it)
    OBVIOUS
  <2>1. PICK it : Folds(k, V, base, steps, it)
    BY <1>2
  <2>2. k + 1 \in 1 .. n
    OBVIOUS
  <2>3. \A x \in V : steps[k + 1][x] \in V
    BY <2>2
  <2> QED BY <2>1, <2>3, FoldGoesOn
<1>3. Nat \subseteq T
  <2> HIDE DEF T
  <2> QED BY <1>1, <1>2, NatSetInduction
<1> QED BY <1>3

-----------------------------------------------------------------------------
(* A packet: its header, then one submessage after the other. *)

Writable == {b \in Buffers : Packed(b) /\ b.free <= 8}

ComposeStep(prefix, subs, it) ==
  [T \in SUBSET DOMAIN subs |->
     IF T = {} THEN AddHeader(NoBuffer, prefix)
               ELSE AddSubmessage(it[T \ {Max(T)}], subs[Max(T)])]

ComposeFold(prefix, subs) == CHOOSE it : it = ComposeStep(prefix, subs, it)

LEMMA ComposeIsFold ==
  \A prefix, subs : Compose(prefix, subs) = ComposeFold(prefix, subs)[DOMAIN subs]
BY DEF Compose, FoldLeft, MapThenFoldSet, ComposeFold, ComposeStep

LEMMA AddWritable ==
  ASSUME NEW b \in Writable, NEW m, WellFormed(m)
  PROVE  AddedRight(b, m) /\ AddSubmessage(b, m) \in Writable
<1>1. Packed(b) /\ b.free <= 8
  BY DEF Writable
<1>2. AddedRight(b, m)
  BY <1>1, AddGrows
<1>3. Packed(AddSubmessage(b, m)) /\ AddSubmessage(b, m).free = Spare(m)
  BY <1>2, GrownFree DEF AddedRight
<1>4. Spare(m) <= 8
  BY DEF Spare
<1> QED BY <1>2, <1>3, <1>4 DEF Writable, Packed

LEMMA HeaderWritable ==
  ASSUME NEW prefix \in Octets(12)
  PROVE  AddHeader(NoBuffer, prefix) \in Writable
<1>1. Packed(AddHeader(NoBuffer, prefix)) /\ AddHeader(NoBuffer, prefix).free = 0
  BY HeaderGrows, GrownFree
<1>2. AddHeader(NoBuffer, prefix) \in Buffers
  BY <1>1 DEF Packed
<1> QED BY <1>1, <1>2 DEF Writable

\* The buffer after each submessage.
ComposedBy(prefix, subs, n, c) ==
  /\ c[0] = AddHeader(NoBuffer, prefix)
  /\ \A k \in 0 .. n : c[k] \in Writable
  /\ \A k \in 1 .. n : AddedRight(c[k - 1], subs[k]) /\ c[k] = AddSubmessage(c[k - 1], subs[k])
  /\ c[n] = Compose(prefix, subs)

LEMMA ComposeTable ==
  ASSUME NEW prefix \in Octets(12), NEW n \in Nat, NEW subs, DOMAIN subs = 1 .. n,
         \A i \in 1 .. n : WellFormed(subs[i])
  PROVE  \E c : ComposedBy(prefix, subs, n, c)
<1> DEFINE base == AddHeader(NoBuffer, prefix)
           steps == [k \in 1 .. n |-> [b \in Writable |-> AddSubmessage(b, subs[k])]]
           it == ComposeFold(prefix, subs)
           c == [k \in 0 .. n |-> it[1 .. k]]
<1>1. base \in Writable
  BY HeaderWritable
<1> HIDE DEF base
<1>2. \A k \in 1 .. n : \A b \in Writable :
        steps[k][b] = AddSubmessage(b, subs[k]) /\ steps[k][b] \in Writable
  BY AddWritable
<1> HIDE DEF steps
<1>3. it = ComposeStep(prefix, subs, it)
  <2>1. PICK table : Folds(n, Writable, base, steps, table)
    BY <1>1, <1>2, Folded
  <2>2. table = [T \in SUBSET (1 .. n) |-> table[T]]
    BY <2>1 DEF Folds
  <2>3. ASSUME NEW T \in SUBSET (1 .. n), T # {}
        PROVE  table[T] = AddSubmessage(table[T \ {Max(T)}], subs[Max(T)])
    <3>1. Max(T) \in 1 .. n /\ table[T] = steps[Max(T)][table[T \ {Max(T)}]]
      BY <2>1, <2>3 DEF Folds
    <3>2. T \ {Max(T)} \in SUBSET (1 .. n)
      OBVIOUS
    <3>3. table[T \ {Max(T)}] \in Writable
      BY <2>1, <3>2 DEF Folds
    <3> QED BY <1>2, <3>1, <3>3
  <2>4. table[{}] = base
    BY <2>1 DEF Folds
  <2> DEFINE Val(T) == IF T = {} THEN base ELSE AddSubmessage(table[T \ {Max(T)}], subs[Max(T)])
  <2>5. table = ComposeStep(prefix, subs, table)
    <3>1. \A T \in SUBSET (1 .. n) : table[T] = Val(T)
      BY <2>3, <2>4
    <3>2. ComposeStep(prefix, subs, table) = [T \in SUBSET (1 .. n) |-> Val(T)]
      <4>1. ComposeStep(prefix, subs, table) = [T \in SUBSET DOMAIN subs |-> Val(T)]
        BY DEF ComposeStep, base
      <4> HIDE DEF Val
      <4> QED BY <4>1
    <3> HIDE DEF Val
    <3>3. [T \in SUBSET (1 .. n) |-> table[T]] = [T \in SUBSET (1 .. n) |-> Val(T)]
      BY <3>1
    <3> QED BY <2>2, <3>2, <3>3, Zenon
  <2> QED BY <2>5 DEF ComposeFold
<1>4. it[{}] = base
  <2>1. {} \in SUBSET DOMAIN subs
    OBVIOUS
  <2> QED BY <1>3, <2>1, Zenon DEF ComposeStep, base
<1>5. ASSUME NEW k \in 1 .. n
      PROVE  it[1 .. k] = AddSubmessage(it[1 .. k - 1], subs[k])
  <2>1. Max(1 .. k) = k /\ (1 .. k) \ {k} = 1 .. k - 1 /\ 1 .. k # {}
    <3>1. k \in Nat /\ k # 0
      OBVIOUS
    <3> QED BY <3>1, IntervalMax, Zenon
  <2>2. 1 .. k \in SUBSET DOMAIN subs
    OBVIOUS
  <2>3. it[1 .. k] = AddSubmessage(it[(1 .. k) \ {Max(1 .. k)}], subs[Max(1 .. k)])
    BY <1>3, <2>1, <2>2, Zenon DEF ComposeStep
  <2> QED BY <2>1, <2>3, Zenon
<1> HIDE DEF it
<1>6. c[0] = base
  <2>1. 1 .. 0 = {} /\ 0 \in 0 .. n
    OBVIOUS
  <2> QED BY <1>4, <2>1
<1>7. c[n] = Compose(prefix, subs)
  <2>1. n \in 0 .. n
    OBVIOUS
  <2>2. Compose(prefix, subs) = it[1 .. n]
    BY ComposeIsFold DEF it
  <2> QED BY <2>1, <2>2
<1>8. \A k \in 1 .. n : c[k] = AddSubmessage(c[k - 1], subs[k])
  <2> TAKE k \in 1 .. n
  <2>1. k \in 0 .. n /\ k - 1 \in 0 .. n
    OBVIOUS
  <2> QED BY <1>5, <2>1
<1> HIDE DEF c
<1>9. Nat \subseteq {k \in Nat : k <= n => c[k] \in Writable}
  <2> DEFINE T == {k \in Nat : k <= n => c[k] \in Writable}
  <2>1. 0 \in T
    BY <1>1, <1>6
  <2>2. ASSUME NEW k \in Nat, k \in T PROVE k + 1 \in T
    <3>1. CASE k + 1 <= n
      <4>1. k + 1 \in 1 .. n /\ k + 1 - 1 = k /\ c[k] \in Writable
        BY <2>2, <3>1
      <4>2. AddSubmessage(c[k], subs[k + 1]) \in Writable
        BY <4>1, AddWritable
      <4>3. c[k + 1] = AddSubmessage(c[k], subs[k + 1])
        BY <1>8, <4>1
      <4> QED BY <4>2, <4>3
    <3> QED BY <3>1
  <2> HIDE DEF T
  <2>3. Nat \subseteq T
    BY <2>1, <2>2, NatSetInduction
  <2> QED BY <2>3 DEF T
<1>10. \A k \in 0 .. n : c[k] \in Writable
  BY <1>9
<1>11. \A k \in 1 .. n : AddedRight(c[k - 1], subs[k])
  <2> TAKE k \in 1 .. n
  <2>1. c[k - 1] \in Writable
    BY <1>10
  <2> QED BY <2>1, AddWritable
<1>12. ComposedBy(prefix, subs, n, c)
  BY <1>6, <1>7, <1>8, <1>10, <1>11, Zenon DEF ComposedBy, base
<1> QED BY <1>12

\* Nothing of what b had was changed in c.
Continues(b, c) ==
  /\ Packed(b) /\ Packed(c)
  /\ SpaceUsed(b) <= SpaceUsed(c)
  /\ \A i \in 1 .. SpaceUsed(b) : c.bytes[i] = b.bytes[i]

LEMMA ContinuesThen ==
  ASSUME NEW b, NEW c, NEW d, Continues(b, c), Continues(c, d)
  PROVE  Continues(b, d)
<1>1. SpaceUsed(b) \in Nat /\ SpaceUsed(c) \in Nat /\ SpaceUsed(d) \in Nat
  BY PackedFacts DEF Continues
<1>2. \A i \in 1 .. SpaceUsed(b) : i \in 1 .. SpaceUsed(c)
  BY <1>1 DEF Continues
<1> QED BY <1>1, <1>2 DEF Continues

LEMMA AddContinues ==
  ASSUME NEW b, Packed(b), NEW m, WellFormed(m), AddedRight(b, m)
  PROVE  /\ Continues(b, AddSubmessage(b, m))
         /\ SpaceUsed(AddSubmessage(b, m)) = SpaceUsed(b) + LengthOf(m)
         /\ LengthOf(m) \in Nat
         /\ HeadOf(m) \in Seq(Byte) /\ Len(HeadOf(m)) = 4
         /\ BodyOf(m) \in Seq(Byte) /\ Len(BodyOf(m)) = LengthOf(m) - 4
         /\ Holds(AddSubmessage(b, m).bytes, SpaceUsed(b), HeadOf(m) \o BodyOf(m))
         /\ AddSubmessage(b, m).free = Spare(m)
<1> DEFINE d == AddSubmessage(b, m)
           k == LengthOf(m) - 4
<1>1. k \in Nat /\ BodyOf(m) \in Octets(k) /\ Grown(b, HeadOf(m) \o BodyOf(m), d, Spare(m))
  BY DEF AddedRight
<1>2. LengthOf(m) = 4 + k /\ LengthOf(m) \in Nat
  <2>1. LengthOf(m) \in Int
    <3>1. OctetsOf(m) \in Nat
      BY HeadOfOctets
    <3>2. m.kind = DATA_FRAG => Len(m.payload) \in Nat
      BY DEF WellFormed
    <3> QED BY <3>1, <3>2 DEF LengthOf
  <2> QED BY <1>1, <2>1
<1> HIDE DEF d, k
<1>3. HeadOf(m) \in Octets(4) /\ 4 \in Nat /\ 4 + k \in Nat
  BY <1>1, HeadOfOctets
<1>4. HeadOf(m) \o BodyOf(m) \in Octets(4 + k)
  BY <1>1, <1>3, OctetsConcat, Zenon
<1>5. Len(HeadOf(m) \o BodyOf(m)) = 4 + k
  BY <1>3, <1>4, OctetsAreBytes, Zenon
<1>6. /\ HeadOf(m) \in Seq(Byte) /\ Len(HeadOf(m)) = 4
      /\ BodyOf(m) \in Seq(Byte) /\ Len(BodyOf(m)) = k
  BY <1>1, <1>3, OctetsAreBytes, Zenon
<1>7. SpaceUsed(b) \in Nat
  BY PackedFacts
<1> DEFINE s == HeadOf(m) \o BodyOf(m)
<1> HIDE DEF s
<1>8. Grown(b, s, d, Spare(m)) /\ Len(s) = 4 + k
  BY <1>1, <1>5 DEF s
<1>9. /\ Continues(b, d) /\ SpaceUsed(d) = SpaceUsed(b) + LengthOf(m)
      /\ Holds(d.bytes, SpaceUsed(b), s) /\ d.free = Spare(m)
  BY <1>1, <1>2, <1>7, <1>8 DEF Grown, Continues
<1> QED BY <1>2, <1>6, <1>9, Zenon DEF d, k, s

\* What stands in b stands in every continuation.
LEMMA StillHolds ==
  ASSUME NEW b, NEW c, Continues(b, c), NEW at \in Nat, NEW s \in Seq(Byte),
         Holds(b.bytes, at, s), at + Len(s) <= SpaceUsed(b)
  PROVE  Holds(c.bytes, at, s)
<1>1. PICK k \in Nat : k = Len(s)
  OBVIOUS
<1>2. /\ SpaceUsed(b) \in Nat /\ SpaceUsed(c) \in Nat /\ Len(c.bytes) \in Nat
      /\ SpaceUsed(c) <= Len(c.bytes) /\ SpaceUsed(b) <= SpaceUsed(c)
  BY PackedFacts DEF Continues
<1>3. ASSUME NEW i \in 1 .. k
      PROVE  c.bytes[at + i] = s[i]
  <2>1. at + i \in 1 .. SpaceUsed(b)
    BY <1>1, <1>2
  <2>2. c.bytes[at + i] = b.bytes[at + i]
    BY <2>1 DEF Continues
  <2>3. b.bytes[at + i] = s[i]
    BY <1>1 DEF Holds
  <2> QED BY <2>2, <2>3
<1> QED BY <1>1, <1>2, <1>3 DEF Holds

\* A packet as it lies in the buffer: where each submessage ends, and its bytes.
Written(prefix, subs, n, bytes, at) ==
  /\ bytes \in Seq(Cell) /\ at \in [0 .. n -> Nat]
  /\ \A i \in 1 .. Len(bytes) : bytes[i] \in Byte
  /\ at[0] = 20 /\ at[n] = Len(bytes)
  /\ \A k \in 0 .. n : at[k] <= Len(bytes)
  /\ Holds(bytes, 0, HeaderOf(prefix))
  /\ \A k \in 1 .. n : /\ at[k] = at[k - 1] + LengthOf(subs[k])
                       /\ Holds(bytes, at[k - 1], HeadOf(subs[k]))
                       /\ Holds(bytes, at[k - 1] + 4, BodyOf(subs[k]))

LEMMA ComposedWritten ==
  ASSUME NEW prefix \in Octets(12), NEW n \in Nat, NEW subs, DOMAIN subs = 1 .. n,
         \A i \in 1 .. n : WellFormed(subs[i]), n = 0 \/ subs[n].kind \notin {INFO_DST, INFO_TS}
  PROVE  /\ Compose(prefix, subs).free = 0
         /\ \E at : Written(prefix, subs, n, Compose(prefix, subs).bytes, at)
<1>1. PICK c : ComposedBy(prefix, subs, n, c)
  BY ComposeTable
<1> DEFINE b == c[n]
           at == [k \in 0 .. n |-> SpaceUsed(c[k])]
<1>2. \A k \in 0 .. n : c[k] \in Writable /\ Packed(c[k])
  BY <1>1 DEF ComposedBy, Writable
<1>3. ASSUME NEW k \in 1 .. n
      PROVE  /\ k \in 0 .. n /\ k - 1 \in 0 .. n
             /\ Packed(c[k - 1]) /\ WellFormed(subs[k]) /\ AddedRight(c[k - 1], subs[k])
             /\ c[k] = AddSubmessage(c[k - 1], subs[k])
  <2>1. k \in 0 .. n /\ k - 1 \in 0 .. n
    OBVIOUS
  <2> QED BY <1>1, <1>2, <2>1 DEF ComposedBy
<1>4. \A k \in 1 .. n : Continues(c[k - 1], c[k])
  BY <1>3, AddContinues
<1>5. \A k \in 0 .. n : Continues(c[k], b)
  <2> DEFINE T == {d \in Nat : d <= n => Continues(c[n - d], b)}
  <2>1. 0 \in T
    <3>1. n - 0 = n /\ n \in 0 .. n
      OBVIOUS
    <3>2. Packed(b) /\ SpaceUsed(b) \in Nat
      BY <1>2, <3>1, PackedFacts
    <3>3. Continues(b, b)
      BY <3>2 DEF Continues
    <3> QED BY <3>1, <3>3
  <2>2. ASSUME NEW d \in Nat, d \in T PROVE d + 1 \in T
    <3> SUFFICES ASSUME d + 1 <= n PROVE Continues(c[n - (d + 1)], b)
      OBVIOUS
    <3>1. n - d \in 1 .. n /\ n - d - 1 = n - (d + 1) /\ d <= n
      OBVIOUS
    <3>2. Continues(c[n - d - 1], c[n - d])
      BY <1>4, <3>1
    <3>3. Continues(c[n - d], b)
      BY <2>2, <3>1
    <3> HIDE DEF b
    <3> QED BY <3>1, <3>2, <3>3, ContinuesThen
  <2> HIDE DEF T
  <2>3. Nat \subseteq T
    BY <2>1, <2>2, NatSetInduction
  <2>4. ASSUME NEW k \in 0 .. n PROVE Continues(c[k], b)
    <3>1. n - k \in Nat /\ n - k <= n /\ n - (n - k) = k
      OBVIOUS
    <3>2. n - k \in T
      BY <2>3, <3>1
    <3> QED BY <3>1, <3>2 DEF T
  <2> QED BY <2>4
<1>6. b = Compose(prefix, subs) /\ Packed(b) /\ n \in 0 .. n
  <2>1. n \in 0 .. n
    OBVIOUS
  <2> QED BY <1>1, <1>2, <2>1 DEF ComposedBy
<1>7. /\ HeaderOf(prefix) \in Seq(Byte) /\ Len(HeaderOf(prefix)) = 20
      /\ Grown(NoBuffer, HeaderOf(prefix), c[0], 0) /\ 0 \in 0 .. n
  <2>1. 20 \in Nat /\ 0 \in 0 .. n
    OBVIOUS
  <2>2. HeaderOf(prefix) \in Seq(Byte) /\ Len(HeaderOf(prefix)) = 20
    BY <2>1, HeaderOctets, OctetsAreBytes, Zenon
  <2> QED BY <1>1, <2>1, <2>2, HeaderGrows DEF ComposedBy
<1>8. SpaceUsed(c[0]) = 20 /\ c[0].free = 0 /\ Holds(c[0].bytes, 0, HeaderOf(prefix))
  BY <1>7, EmptyPacked DEF Grown
<1>9. b.free = 0
  <2>1. CASE n = 0
    BY <1>8, <2>1
  <2>2. CASE n # 0
    <3>1. n \in 1 .. n
      BY <2>2
    <3>2. b.free = Spare(subs[n])
      BY <1>3, <3>1, AddContinues
    <3> QED BY <2>2, <3>2 DEF Spare
  <2> QED BY <2>1, <2>2
<1>10. /\ b.bytes \in Seq(Cell) /\ Len(b.bytes) = SpaceUsed(b) /\ SpaceUsed(b) \in Nat
       /\ \A i \in 1 .. SpaceUsed(b) : b.bytes[i] \in Byte
  BY <1>6, <1>9, PackedFacts DEF Packed
<1>11. at \in [0 .. n -> Nat] /\ \A k \in 0 .. n : at[k] = SpaceUsed(c[k])
  <2>1. \A k \in 0 .. n : SpaceUsed(c[k]) \in Nat
    BY <1>2, PackedFacts
  <2> QED BY <2>1
<1> HIDE DEF at, b
<1>12. \A k \in 0 .. n : at[k] <= Len(b.bytes)
  BY <1>5, <1>10, <1>11 DEF Continues
<1>13. at[0] = 20 /\ at[n] = Len(b.bytes)
  BY <1>6, <1>7, <1>8, <1>10, <1>11 DEF b
<1>14. Holds(b.bytes, 0, HeaderOf(prefix))
  <2>1. Continues(c[0], b) /\ 0 + Len(HeaderOf(prefix)) <= SpaceUsed(c[0]) /\ 0 \in Nat
    BY <1>5, <1>7, <1>8
  <2> QED BY <1>7, <1>8, <2>1, StillHolds
<1>15. ASSUME NEW k \in 1 .. n
       PROVE  /\ at[k] = at[k - 1] + LengthOf(subs[k])
              /\ Holds(b.bytes, at[k - 1], HeadOf(subs[k]))
              /\ Holds(b.bytes, at[k - 1] + 4, BodyOf(subs[k]))
  <2> DEFINE m == subs[k]
             h == HeadOf(m)
             y == BodyOf(m)
  <2>1. /\ SpaceUsed(c[k]) = SpaceUsed(c[k - 1]) + LengthOf(m) /\ LengthOf(m) \in Nat
        /\ h \in Seq(Byte) /\ Len(h) = 4 /\ y \in Seq(Byte) /\ Len(y) = LengthOf(m) - 4
        /\ Holds(c[k].bytes, SpaceUsed(c[k - 1]), h \o y)
    BY <1>3, AddContinues
  <2>2. at[k - 1] = SpaceUsed(c[k - 1]) /\ at[k] = SpaceUsed(c[k]) /\ at[k - 1] \in Nat
    BY <1>3, <1>11
  <2>3. Continues(c[k], b)
    BY <1>3, <1>5
  <2> HIDE DEF m, h, y
  <2>4. Holds(c[k].bytes, at[k - 1], h) /\ Holds(c[k].bytes, at[k - 1] + 4, y)
    <3> DEFINE bytes == c[k].bytes  u == at[k - 1]
    <3>1. Holds(bytes, u, h \o y) /\ u \in Nat /\ h \in Seq(Byte) /\ y \in Seq(Byte)
      BY <2>1, <2>2, Zenon
    <3> HIDE DEF bytes, u
    <3>2. Holds(bytes, u, h) /\ Holds(bytes, u + Len(h), y)
      BY <3>1, HoldsBoth, Zenon
    <3>3. Holds(bytes, u + 4, y)
      BY <2>1, <3>2, Zenon
    <3> QED BY <3>2, <3>3 DEF bytes, u
  <2>5. Holds(b.bytes, at[k - 1], h)
    <3>1. at[k - 1] + Len(h) <= SpaceUsed(c[k])
      <4>1. Len(y) \in Nat
        BY <2>1
      <4> QED BY <2>1, <2>2, <4>1
    <3> QED BY <2>1, <2>2, <2>3, <2>4, <3>1, StillHolds
  <2>6. Holds(b.bytes, at[k - 1] + 4, y)
    <3>1. at[k - 1] + 4 + Len(y) <= SpaceUsed(c[k]) /\ at[k - 1] + 4 \in Nat
      BY <2>1, <2>2
    <3> QED BY <2>1, <2>3, <2>4, <3>1, StillHolds
  <2>7. at[k] = at[k - 1] + LengthOf(m)
    BY <2>1, <2>2
  <2> QED BY <2>5, <2>6, <2>7 DEF m, h, y
<1>16. Written(prefix, subs, n, b.bytes, at)
  BY <1>10, <1>11, <1>12, <1>13, <1>14, <1>15 DEF Written
<1> QED BY <1>6, <1>9, <1>16

-----------------------------------------------------------------------------
(* Ports and participants. *)

\* A signed byte that overflows twice is right again.
LEMMA WrapsBack ==
  ASSUME NEW n \in 0 .. 255, NEW o \in Nat, n - o \in 0 .. 127
  PROVE  Int8(Int8(n) - o) = n - o
BY SMT DEF Int8

LEMMA OwnPorts ==
  ASSUME NEW id \in 0 .. 63
  PROVE  /\ GetParticipantIdFromUnicastPort(GetBuiltInUnicastPort(id), FALSE) = id
         /\ GetParticipantIdFromUnicastPort(GetUserUnicastPort(id), TRUE) = id
<1>1. Half(2 * id) = id
  BY SMT DEF Half, PG
<1>2. Int8(Int8(10 + (2 * id)) - 10) = 2 * id
  <2> DEFINE n == 10 + (2 * id)
  <2>1. n \in 0 .. 255 /\ 10 \in Nat /\ n - 10 = 2 * id /\ n - 10 \in 0 .. 127
    OBVIOUS
  <2> HIDE DEF n
  <2>2. Int8(Int8(n) - 10) = n - 10
    BY <2>1, WrapsBack
  <2>3. Int8(Int8(n) - 10) = 2 * id
    BY <2>1, <2>2, Zenon
  <2> QED BY <2>3 DEF n
<1>3. Int8(Int8(11 + (2 * id)) - 11) = 2 * id
  <2> DEFINE n == 11 + (2 * id)
  <2>1. n \in 0 .. 255 /\ 11 \in Nat /\ n - 11 = 2 * id /\ n - 11 \in 0 .. 127
    OBVIOUS
  <2> HIDE DEF n
  <2>2. Int8(Int8(n) - 11) = n - 11
    BY <2>1, WrapsBack
  <2>3. Int8(Int8(n) - 11) = 2 * id
    BY <2>1, <2>2, Zenon
  <2> QED BY <2>3 DEF n
<1>4. GetParticipantIdFromUnicastPort(GetBuiltInUnicastPort(id), FALSE) = id
  <2>1. GetBuiltInUnicastPort(id) - PB = 10 + (2 * id)
    BY SMT DEF GetBuiltInUnicastPort, PB, D1, PG
  <2>2. (id * PG) + PB + D1 = GetBuiltInUnicastPort(id)
    BY SMT DEF GetBuiltInUnicastPort, PB, D1, PG
  <2>3. Half(Int8(Int8(GetBuiltInUnicastPort(id) - PB) - D1)) = id
    BY <1>1, <1>2, <2>1, Zenon DEF D1
  <2> HIDE DEF GetBuiltInUnicastPort, PB, D1, PG
  <2> QED BY <2>2, <2>3, Zenon DEF GetParticipantIdFromUnicastPort
<1>5. GetParticipantIdFromUnicastPort(GetUserUnicastPort(id), TRUE) = id
  <2>1. GetUserUnicastPort(id) - PB = 11 + (2 * id)
    BY SMT DEF GetUserUnicastPort, PB, D3, PG
  <2>2. (id * PG) + PB + D3 = GetUserUnicastPort(id)
    BY SMT DEF GetUserUnicastPort, PB, D3, PG
  <2>3. Half(Int8(Int8(GetUserUnicastPort(id) - PB) - D3)) = id
    BY <1>1, <1>3, <2>1, Zenon DEF D3
  <2> QED BY <2>2, <2>3, Zenon DEF GetParticipantIdFromUnicastPort
<1> QED BY <1>4, <1>5, Zenon

\* Where a packet arrives is where it was sent.
LEMMA RoutedRight ==
  ASSUME NEW to \in Destinations, PortOf(to) \in Ports
  PROVE  /\ Recipients(PortOf(to), to.address) = Addressed(to)
         /\ Addressed(to) \subseteq Participants
<1>1. /\ to.id \in Nat /\ to.kind \in {"metaMulticast", "userMulticast", "builtIn", "user"}
      /\ NumParticipants \in 1 .. 64 /\ Participants \subseteq 0 .. 63
  BY WireAssumption DEF Participants
<1>2. CASE to.kind = "metaMulticast"
  <2>1. PortOf(to) = 7400 /\ IsMetaMultiCastPort(7400)
    BY <1>2, SMT DEF PortOf, PB, D0, IsMetaMultiCastPort
  <2> QED BY <1>2, <2>1 DEF Recipients, Addressed
<1>3. CASE to.kind = "userMulticast"
  <2>1. PortOf(to) = 7401 /\ ~IsMetaMultiCastPort(7401) /\ IsUserMultiCastPort(7401)
    BY <1>3, SMT DEF PortOf, PB, D0, D1, D2, IsMetaMultiCastPort, IsUserMultiCastPort
  <2> QED BY <1>3, <2>1
          DEF Recipients, Addressed, HasReaderWithMulticastLocator
<1>4. ASSUME NEW n, n = 7410 + (2 * to.id) \/ n = 7411 + (2 * to.id)
      PROVE  ~IsMetaMultiCastPort(n) /\ ~IsUserMultiCastPort(n)
  BY <1>1, <1>4, SMT DEF PB, D0, D1, D2, IsMetaMultiCastPort, IsUserMultiCastPort
<1>5. \A n \in Ports : \/ n = 7400 \/ n = 7401 \/ \E p \in Participants : n = 7410 + (2 * p)
                       \/ \E p \in Participants : n = 7411 + (2 * p)
  <2>1. PB + D0 = 7400 /\ PB + D2 = 7401
    BY SMT DEF PB, D0, D2
  <2>2. \A p \in Participants : /\ GetBuiltInUnicastPort(p) = 7410 + (2 * p)
                                /\ GetUserUnicastPort(p) = 7411 + (2 * p)
    BY <1>1, SMT DEF GetBuiltInUnicastPort, GetUserUnicastPort, PB, D1, D3, PG
  <2> QED BY <2>1, <2>2 DEF Ports
<1>6. CASE to.kind = "builtIn"
  <2>1. PortOf(to) = 7410 + (2 * to.id)
    BY <1>1, <1>6, SMT DEF PortOf, GetBuiltInUnicastPort, PB, D1, PG
  <2>2. to.id \in Participants
    <3>1. \A p \in 0 .. 63 : 7410 + (2 * to.id) = 7410 + (2 * p) => p = to.id
      BY <1>1, SMT
    <3>2. \A p \in 0 .. 63 : 7410 + (2 * to.id) # 7411 + (2 * p)
      BY <1>1, SMT
    <3>3. 7410 + (2 * to.id) # 7400 /\ 7410 + (2 * to.id) # 7401
      BY <1>1, SMT
    <3> QED BY <1>1, <1>5, <2>1, <3>1, <3>2, <3>3
  <2>3. IsUserPort(PortOf(to)) = FALSE
    BY <1>1, <2>1, SMT DEF IsUserPort
  <2>4. GetParticipantIdFromUnicastPort(PortOf(to), IsUserPort(PortOf(to))) = to.id
    <3>1. to.id \in 0 .. 63
      BY <1>1, <2>2
    <3>2. PortOf(to) = GetBuiltInUnicastPort(to.id)
      BY <1>6, Zenon DEF PortOf
    <3> QED BY <2>3, <3>1, <3>2, OwnPorts, Zenon
  <2> QED BY <1>4, <1>6, <2>1, <2>4 DEF Recipients, Addressed
<1>7. CASE to.kind = "user"
  <2>1. PortOf(to) = 7411 + (2 * to.id)
    BY <1>1, <1>7, SMT DEF PortOf, GetUserUnicastPort, PB, D3, PG
  <2>2. to.id \in Participants
    <3>1. \A p \in 0 .. 63 : 7411 + (2 * to.id) = 7411 + (2 * p) => p = to.id
      BY <1>1, SMT
    <3>2. \A p \in 0 .. 63 : 7411 + (2 * to.id) # 7410 + (2 * p)
      BY <1>1, SMT
    <3>3. 7411 + (2 * to.id) # 7400 /\ 7411 + (2 * to.id) # 7401
      BY <1>1, SMT
    <3> QED BY <1>1, <1>5, <2>1, <3>1, <3>2, <3>3
  <2>3. IsUserPort(PortOf(to)) = TRUE
    BY <1>1, <2>1, SMT DEF IsUserPort
  <2>4. GetParticipantIdFromUnicastPort(PortOf(to), IsUserPort(PortOf(to))) = to.id
    <3>1. to.id \in 0 .. 63
      BY <1>1, <2>2
    <3>2. PortOf(to) = GetUserUnicastPort(to.id)
      BY <1>7, Zenon DEF PortOf
    <3> QED BY <2>3, <3>1, <3>2, OwnPorts, Zenon
  <2> QED BY <1>4, <1>7, <2>1, <2>4 DEF Recipients, Addressed
<1> QED BY <1>1, <1>2, <1>3, <1>6, <1>7

-----------------------------------------------------------------------------
(* What the receiver reads of the header. *)

\* Lengths of what is held, without the numbers the definitions are made of.
LEMMA HeldHeader ==
  ASSUME NEW prefix \in Octets(12), NEW bytes \in Seq(Cell),
         Holds(bytes, 0, HeaderOf(prefix))
  PROVE  /\ Len(bytes) >= 20
         /\ Slice(bytes, 0, 4) = RTPS /\ Slice(bytes, 4, 2) = PROTOCOLVERSION
         /\ Slice(bytes, 8, 12) = prefix
<1> DEFINE a == RTPS \o PROTOCOLVERSION
           b == a \o VENDOR_ID
<1>1. /\ RTPS \in Octets(4) /\ PROTOCOLVERSION \in Octets(2) /\ VENDOR_ID \in Octets(2)
  <2>1. RTPS \in Seq(Byte) /\ Len(RTPS) = 4
    BY DEF RTPS, Byte
  <2>2. PROTOCOLVERSION \in Seq(Byte) /\ Len(PROTOCOLVERSION) = 2
    BY DEF PROTOCOLVERSION, Byte
  <2>3. VENDOR_ID \in Seq(Byte) /\ Len(VENDOR_ID) = 2
    BY DEF VENDOR_ID, Byte
  <2>4. 2 \in Nat /\ 4 \in Nat
    OBVIOUS
  <2> QED BY <2>1, <2>2, <2>3, <2>4, BytesAreOctets, Zenon
<1>2. 2 \in Nat /\ 4 \in Nat /\ 12 \in Nat /\ 4 + 2 \in Nat /\ 4 + 2 + 2 \in Nat
  OBVIOUS
<1>3. a \in Octets(4 + 2) /\ b \in Octets(4 + 2 + 2)
  BY <1>1, <1>2, OctetsConcat, Zenon
<1>4. /\ a \in Seq(Byte) /\ Len(a) = 4 + 2 /\ b \in Seq(Byte) /\ Len(b) = 4 + 2 + 2
      /\ RTPS \in Seq(Byte) /\ Len(RTPS) = 4
      /\ PROTOCOLVERSION \in Seq(Byte) /\ Len(PROTOCOLVERSION) = 2
      /\ VENDOR_ID \in Seq(Byte) /\ prefix \in Seq(Byte) /\ Len(prefix) = 12
  BY <1>1, <1>2, <1>3, OctetsAreBytes, Zenon
<1>5. Holds(bytes, 0, b) /\ Holds(bytes, 8, prefix)
  <2> HIDE DEF b
  <2>1. Holds(bytes, 0, b \o prefix)
    BY Zenon DEF HeaderOf, b
  <2>2. 0 \in Nat /\ 0 + (4 + 2 + 2) = 8
    OBVIOUS
  <2>3. Holds(bytes, 0, b) /\ Holds(bytes, 0 + Len(b), prefix)
    BY <1>4, <2>1, <2>2, HoldsBoth, Zenon
  <2>4. 0 + Len(b) = 8
    BY <1>4, <2>2
  <2> QED BY <2>3, <2>4, Zenon
<1>6. Holds(bytes, 0, a)
  <2> HIDE DEF a
  <2>1. 0 \in Nat
    OBVIOUS
  <2> QED BY <1>4, <1>5, <2>1, HoldsBoth, Zenon DEF b
<1>7. Holds(bytes, 0, RTPS) /\ Holds(bytes, 4, PROTOCOLVERSION)
  <2>1. 0 \in Nat /\ 0 + 4 = 4
    OBVIOUS
  <2>2. Holds(bytes, 0, RTPS) /\ Holds(bytes, 0 + Len(RTPS), PROTOCOLVERSION)
    BY <1>4, <1>6, <2>1, HoldsBoth, Zenon DEF a
  <2>3. 0 + Len(RTPS) = 4
    BY <1>4, <2>1, Zenon
  <2> QED BY <2>2, <2>3, Zenon
<1> HIDE DEF a, b
<1>8. Len(bytes) >= 20
  <2>1. 8 + Len(prefix) <= Len(bytes) /\ Len(prefix) = 12
    BY <1>4, <1>5, Zenon DEF Holds
  <2> QED BY <2>1
<1>9. 0 \in Nat /\ 4 \in Nat /\ 8 \in Nat
  OBVIOUS
<1>10. /\ Slice(bytes, 0, Len(RTPS)) = RTPS
       /\ Slice(bytes, 4, Len(PROTOCOLVERSION)) = PROTOCOLVERSION
       /\ Slice(bytes, 8, Len(prefix)) = prefix
  BY <1>4, <1>5, <1>7, <1>9, SliceReads, Zenon
<1> QED BY <1>4, <1>8, <1>10, Zenon

-----------------------------------------------------------------------------
(* The packet under way. *)

PacketIs(c, to) ==
  /\ packet.prefix = c.prefix /\ packet.subs = c.subs /\ packet.to = to
  /\ packet.bytes = Compose(c.prefix, c.subs).bytes
  /\ packet.free = Compose(c.prefix, c.subs).free

PacketRight == stage # "idle" => \E c \in Compositions, to \in Destinations : PacketIs(c, to)

\* What the assumption on the compositions says of one.
LEMMA CompositionFacts ==
  ASSUME NEW c \in Compositions
  PROVE  /\ c.prefix \in Octets(12)
         /\ \E n \in Nat : DOMAIN c.subs = 1 .. n /\ n = Len(c.subs) /\ n # 0
         /\ \A i \in DOMAIN c.subs : WellFormed(c.subs[i])
         /\ Last(c.subs).kind \notin {INFO_DST, INFO_TS}
         /\ Len(Compose(c.prefix, c.subs).bytes) < DataSizes
<1>1. /\ c.prefix \in Octets(12) /\ c.subs \in Seq(Range(c.subs)) /\ c.subs # <<>>
      /\ \A i \in DOMAIN c.subs : WellFormed(c.subs[i])
      /\ Last(c.subs).kind \notin {INFO_DST, INFO_TS}
      /\ Len(Compose(c.prefix, c.subs).bytes) < DataSizes
  BY CompositionsAssumption, Zenon
<1>2. Len(c.subs) \in Nat /\ DOMAIN c.subs = 1 .. Len(c.subs)
  BY <1>1
<1>3. Len(c.subs) # 0
  BY <1>1, EmptySeq
<1> QED BY <1>1, <1>2, <1>3

LEMMA PacketWritten ==
  ASSUME PacketRight, stage # "idle"
  PROVE  /\ packet.free = 0 /\ packet.to \in Destinations
         /\ packet.prefix \in Octets(12) /\ Len(packet.bytes) < DataSizes
         /\ \E n \in Nat : \E at :
              /\ DOMAIN packet.subs = 1 .. n /\ n # 0
              /\ \A i \in 1 .. n : WellFormed(packet.subs[i])
              /\ Written(packet.prefix, packet.subs, n, packet.bytes, at)
<1>1. PICK c \in Compositions, to \in Destinations : PacketIs(c, to)
  BY DEF PacketRight
<1>2. PICK n \in Nat : DOMAIN c.subs = 1 .. n /\ n = Len(c.subs) /\ n # 0
  BY CompositionFacts
<1>3. c.prefix \in Octets(12) /\ \A i \in 1 .. n : WellFormed(c.subs[i])
  BY <1>2, CompositionFacts
<1>4. c.subs[n].kind \notin {INFO_DST, INFO_TS}
  BY <1>2, CompositionFacts DEF Last
<1>5. /\ Compose(c.prefix, c.subs).free = 0
      /\ \E at : Written(c.prefix, c.subs, n, Compose(c.prefix, c.subs).bytes, at)
  BY <1>2, <1>3, <1>4, ComposedWritten
<1>6. /\ packet.prefix = c.prefix /\ packet.subs = c.subs /\ packet.to = to
      /\ packet.bytes = Compose(c.prefix, c.subs).bytes
      /\ packet.free = Compose(c.prefix, c.subs).free
  BY <1>1 DEF PacketIs
<1>7. Len(packet.bytes) < DataSizes
  BY <1>6, CompositionFacts, Zenon
<1> QED BY <1>2, <1>3, <1>5, <1>6, <1>7, Zenon

LEMMA PacketRightInit == Init => PacketRight
BY DEF Init, PacketRight

LEMMA PacketRightStep ==
  ASSUME PacketRight, [Next]_vars
  PROVE  PacketRight'
<1>1. CASE UNCHANGED vars
  BY <1>1 DEF PacketRight, PacketIs, vars
<1>2. ASSUME NEW c \in Compositions, NEW to \in Destinations, Send(c, to)
      PROVE  PacketRight'
  <2>1. packet' = [prefix |-> c.prefix, subs |-> c.subs, to |-> to,
                   bytes |-> Compose(c.prefix, c.subs).bytes,
                   free |-> Compose(c.prefix, c.subs).free]
    BY <1>2, Zenon DEF Send
  <2> QED BY <2>1 DEF PacketRight, PacketIs
<1>3. CASE NotForUs \/ NextPacket
  BY <1>3 DEF NotForUs, NextPacket, PacketRight
<1>4. CASE ReceiveCallback \/ ProcessHeader \/ ProcessSubmessage \/ EndOfMessage
           \/ \E p \in Participants : Forget(p)
  <2>1. ReceiveCallback => packet' = packet /\ stage # "idle"
    BY DEF ReceiveCallback
  <2>2. ProcessHeader => packet' = packet /\ stage # "idle"
    BY Zenon DEF ProcessHeader, Processing
  <2>3. ProcessSubmessage => packet' = packet /\ stage # "idle"
    BY Zenon DEF ProcessSubmessage, Processing
  <2>4. EndOfMessage => packet' = packet /\ stage # "idle"
    BY DEF EndOfMessage, Processing
  <2>5. \A p : Forget(p) => packet' = packet /\ stage' = stage
    BY DEF Forget
  <2>6. packet' = packet /\ (stage # "idle" \/ stage' = stage)
    BY <1>4, <2>1, <2>2, <2>3, <2>4, <2>5
  <2> QED BY <2>6 DEF PacketRight, PacketIs
<1> QED BY <1>1, <1>2, <1>3, <1>4 DEF Next

(* No byte of a packet goes out unwritten, whatever is composed of         *)
(* whichever submessages (MessageFactory, PBufWrapper).                    *)
THEOREM NothingUnwritten == Spec => []NoGap
<1>1. PacketRight => NoGap
  <2> SUFFICES ASSUME PacketRight, stage # "idle"
               PROVE  /\ packet.free = 0
                      /\ \A i \in DOMAIN packet.bytes : packet.bytes[i] # Unwritten
    BY DEF NoGap
  <2>1a. PICK n \in Nat : \E at : Written(packet.prefix, packet.subs, n, packet.bytes, at)
    BY PacketWritten
  <2>1. PICK at : Written(packet.prefix, packet.subs, n, packet.bytes, at)
    BY <2>1a
  <2>2. /\ packet.bytes \in Seq(Cell)
        /\ \A i \in 1 .. Len(packet.bytes) : packet.bytes[i] \in Byte
    BY <2>1 DEF Written
  <2>3. \A i \in DOMAIN packet.bytes : packet.bytes[i] \in Byte
    BY <2>2
  <2> QED BY <2>3, PacketWritten, PacketsAssumption
<1> QED BY <1>1, PacketRightInit, PacketRightStep, PTL DEF Spec

-----------------------------------------------------------------------------
(* Who is given the packet. *)

\* The participants that have not read the header yet.
Waiting == IF pos = BeforeHeader THEN todo ELSE todo \ {Current}

Routing ==
  /\ stage \in {"idle", "sent", "routed"}
  /\ stage # "routed" => todo = {} /\ pos = BeforeHeader
  /\ stage = "sent" => processed = {}
  /\ stage = "routed" =>
       /\ PortOf(packet.to) \in Ports
       /\ todo \subseteq Addressed(packet.to)
       /\ processed = {p \in Addressed(packet.to) \ Waiting : Prefix[p] # packet.prefix}
       /\ pos = BeforeHeader \/ (/\ pos \in Nat /\ todo # {} /\ source = packet.prefix
                                 /\ Prefix[Current] # packet.prefix)

\* The first participant is one of those in todo.
LEMMA CurrentFacts ==
  ASSUME todo \subseteq Participants, todo # {}
  PROVE  Current \in todo
<1>1. todo \subseteq Nat
  BY DEF Participants
<1>2. \E p \in todo : \A q \in todo : p <= q
  BY <1>1, LeastOf
<1> QED BY <1>2 DEF Current

LEMMA ProcessingFacts ==
  ASSUME Routing, PacketRight, Processing
  PROVE  /\ stage = "routed" /\ stage # "idle" /\ Current \in todo
         /\ Addressed(packet.to) \subseteq Participants /\ todo \subseteq Participants
         /\ PortOf(packet.to) \in Ports
         /\ todo \subseteq Addressed(packet.to)
         /\ processed = {p \in Addressed(packet.to) \ Waiting : Prefix[p] # packet.prefix}
         /\ pos # BeforeHeader => /\ pos \in Nat /\ source = packet.prefix
                                  /\ Prefix[Current] # packet.prefix
<1>1. stage = "routed" /\ todo # {} /\ stage # "idle"
  BY DEF Processing
<1>2. packet.to \in Destinations
  BY <1>1, PacketWritten
<1>3. /\ PortOf(packet.to) \in Ports
      /\ todo \subseteq Addressed(packet.to)
      /\ processed = {p \in Addressed(packet.to) \ Waiting : Prefix[p] # packet.prefix}
      /\ pos # BeforeHeader => /\ pos \in Nat /\ source = packet.prefix
                               /\ Prefix[Current] # packet.prefix
  BY <1>1 DEF Routing
<1>4. Addressed(packet.to) \subseteq Participants
  BY <1>2, <1>3, RoutedRight
<1>5. todo \subseteq Participants
  BY <1>3, <1>4
<1> QED BY <1>1, <1>3, <1>4, <1>5, CurrentFacts

\* The header says what it was composed of.
LEMMA HeaderRead ==
  ASSUME PacketRight, stage # "idle"
  PROVE  LET h == DeserializeHeader(packet.bytes, 0)
         IN  /\ h.ok /\ h.guidPrefix = packet.prefix /\ h.protocolName = RTPS
             /\ h.version[1] = PROTOCOLVERSION[1]
<1>1a. PICK n \in Nat : \E at : Written(packet.prefix, packet.subs, n, packet.bytes, at)
  BY PacketWritten
<1>1. PICK at : Written(packet.prefix, packet.subs, n, packet.bytes, at)
  BY <1>1a
<1>2. packet.prefix \in Octets(12) /\ packet.bytes \in Seq(Cell)
      /\ Holds(packet.bytes, 0, HeaderOf(packet.prefix))
  BY <1>1, PacketWritten DEF Written
<1>3. /\ Len(packet.bytes) >= 20
      /\ Slice(packet.bytes, 0, 4) = RTPS /\ Slice(packet.bytes, 4, 2) = PROTOCOLVERSION
      /\ Slice(packet.bytes, 8, 12) = packet.prefix
  BY <1>2, HeldHeader
<1>4. ~(Remaining(packet.bytes, 0) < HeaderSize)
  <2>1. Len(packet.bytes) \in Nat
    BY <1>2
  <2> QED BY <1>3, <2>1 DEF Remaining, HeaderSize
<1>5. 0 + 4 = 4 /\ 0 + 8 = 8
  OBVIOUS
<1>6. DeserializeHeader(packet.bytes, 0) =
        [ok |-> TRUE, protocolName |-> RTPS, version |-> PROTOCOLVERSION,
         vendorId |-> Slice(packet.bytes, 0 + 6, 2), guidPrefix |-> packet.prefix]
  BY <1>3, <1>4, <1>5, Zenon DEF DeserializeHeader
<1> QED BY <1>6

\* What a step of the receiver may do to the rest, told without its cases.
LEMMA HeaderStep ==
  ASSUME Routing, PacketRight, ProcessHeader
  PROVE  /\ Processing /\ pos = BeforeHeader
         /\ UNCHANGED <<stage, packet, packets, handed, proxy, known>>
         /\ \/ /\ Prefix[Current] # packet.prefix /\ source' = packet.prefix
               /\ pos' = 20 /\ processed' = processed \cup {Current} /\ todo' = todo
            \/ /\ Prefix[Current] = packet.prefix /\ processed' = processed
               /\ todo' = todo \ {Current} /\ pos' = BeforeHeader
<1>1. Processing /\ pos = BeforeHeader
  BY Zenon DEF ProcessHeader
<1>2. stage # "idle"
  BY <1>1, ProcessingFacts
<1> DEFINE h == DeserializeHeader(packet.bytes, 0)
<1>3. /\ h.ok /\ h.guidPrefix = packet.prefix /\ h.protocolName = RTPS
      /\ h.version[1] = PROTOCOLVERSION[1]
  BY <1>2, HeaderRead
<1>4. /\ IF /\ h.ok /\ h.guidPrefix # Prefix[Current]
            /\ h.protocolName = RTPS /\ h.version[1] = PROTOCOLVERSION[1]
         THEN /\ source' = h.guidPrefix /\ pos' = HeaderSize
              /\ processed' = processed \cup {Current}
              /\ UNCHANGED todo
         ELSE source' = GUIDPREFIX_UNKNOWN /\ Return /\ UNCHANGED processed
      /\ UNCHANGED <<stage, packet, packets, handed, proxy, known>>
  BY Zenon DEF ProcessHeader
<1> HIDE DEF h
<1>5. CASE Prefix[Current] # packet.prefix
  BY <1>1, <1>3, <1>4, <1>5 DEF HeaderSize
<1>6. CASE Prefix[Current] = packet.prefix
  BY <1>1, <1>3, <1>4, <1>6 DEF Return
<1> QED BY <1>5, <1>6

LEMMA OctetsRead ==
  ASSUME PacketRight, stage # "idle", pos \in Nat,
         DeserializeSubmessageHeader(packet.bytes, pos).ok
  PROVE  DeserializeSubmessageHeader(packet.bytes, pos).octets \in Nat
<1> DEFINE bytes == packet.bytes
<1>1a. PICK n \in Nat : \E at : Written(packet.prefix, packet.subs, n, bytes, at)
  BY PacketWritten
<1>1. PICK at : Written(packet.prefix, packet.subs, n, bytes, at)
  BY <1>1a
<1>2. bytes \in Seq(Cell) /\ \A i \in 1 .. Len(bytes) : bytes[i] \in Byte
  BY <1>1 DEF Written
<1> HIDE DEF bytes
<1>3. Len(bytes) \in Nat
  BY <1>2
<1>4. ~(Remaining(bytes, pos) < SubmessageHeaderSize)
  BY DEF DeserializeSubmessageHeader, Fails, bytes
<1>5. pos + 2 + 1 \in 1 .. Len(bytes) /\ pos + 2 + 2 \in 1 .. Len(bytes)
  BY <1>3, <1>4 DEF Remaining, SubmessageHeaderSize
<1>6. bytes[pos + 2 + 1] \in Nat /\ bytes[pos + 2 + 2] \in Nat
  <2>1. \A x \in Byte : x \in Nat
    BY DEF Byte
  <2>2. bytes[pos + 2 + 1] \in Byte /\ bytes[pos + 2 + 2] \in Byte
    BY <1>2, <1>5, Zenon
  <2> QED BY <2>1, <2>2, Zenon
<1>7. Number16(bytes, pos + 2) \in Nat
  BY <1>6 DEF Number16
<1>8. DeserializeSubmessageHeader(bytes, pos).octets = Number16(bytes, pos + 2)
  BY <1>4 DEF DeserializeSubmessageHeader
<1> QED BY <1>7, <1>8 DEF bytes

LEMMA SubmessageStep ==
  ASSUME Routing, PacketRight, ProcessSubmessage
  PROVE  /\ Processing /\ pos # BeforeHeader /\ pos < Len(packet.bytes)
         /\ UNCHANGED <<stage, packet, packets, source, processed>>
         /\ \/ /\ todo' = todo \ {Current} /\ pos' = BeforeHeader
               /\ ~DeserializeSubmessageHeader(packet.bytes, pos).ok
            \/ todo' = todo /\ pos' \in Nat
<1>1. Processing /\ pos # BeforeHeader /\ pos < Len(packet.bytes)
  BY Zenon DEF ProcessSubmessage
<1> DEFINE h == DeserializeSubmessageHeader(packet.bytes, pos)
<1>2. /\ IF ~h.ok THEN Return
         ELSE /\ pos' = (pos + h.octets + SubmessageHeaderSize) % DataSizes
              /\ UNCHANGED todo
      /\ UNCHANGED <<stage, packet, packets, source, processed>>
  BY Zenon DEF ProcessSubmessage
<1>3. CASE ~h.ok
  <2>1. todo' = todo \ {Current} /\ pos' = BeforeHeader
    BY <1>2, <1>3, Zenon DEF Return
  <2> QED BY <1>1, <1>2, <1>3, <2>1, Zenon
<1>4. CASE h.ok
  <2>1. pos \in Nat /\ stage # "idle"
    BY <1>1, ProcessingFacts
  <2>2. h.octets \in Nat
    BY <1>4, <2>1, OctetsRead
  <2>3. pos' = (pos + h.octets + SubmessageHeaderSize) % DataSizes /\ todo' = todo
    BY <1>2, <1>4, Zenon
  <2> HIDE DEF h
  <2>4. pos' \in Nat
    BY <2>1, <2>2, <2>3, SMT DEF SubmessageHeaderSize, DataSizes
  <2> QED BY <1>1, <1>2, <2>3, <2>4, Zenon
<1> QED BY <1>3, <1>4, Zenon

LEMMA RoutingInit == Init => Routing
BY DEF Init, Routing

\* The one processed first is done with.
LEMMA OneDone ==
  ASSUME Routing, PacketRight, Processing, pos # BeforeHeader,
         stage' = stage, packet' = packet, processed' = processed,
         todo' = todo \ {Current}, pos' = BeforeHeader
  PROVE  Routing'
<1>1. Waiting' = Waiting
  BY DEF Waiting
<1>2. /\ stage = "routed" /\ PortOf(packet.to) \in Ports /\ todo \subseteq Addressed(packet.to)
      /\ processed = {p \in Addressed(packet.to) \ Waiting : Prefix[p] # packet.prefix}
  BY ProcessingFacts
<1>3. todo' \subseteq Addressed(packet.to)
  BY <1>2
<1>4. processed' = {p \in Addressed(packet'.to) \ Waiting' : Prefix[p] # packet'.prefix}
  BY <1>1, <1>2, Zenon
<1>5. stage' = "routed" /\ PortOf(packet'.to) \in Ports /\ todo' \subseteq Addressed(packet'.to)
  BY <1>2, <1>3
<1> QED BY <1>4, <1>5 DEF Routing

LEMMA RoutingStep ==
  ASSUME Routing, PacketRight, [Next]_vars
  PROVE  Routing'
<1>1. CASE UNCHANGED vars
  BY <1>1 DEF Routing, Waiting, Current, vars
<1>2. ASSUME NEW c \in Compositions, NEW to \in Destinations, Send(c, to)
      PROVE  Routing'
  <2>1. stage = "idle" /\ stage' = "sent" /\ processed' = {} /\ todo' = todo /\ pos' = pos
    BY <1>2, Zenon DEF Send
  <2> QED BY <2>1 DEF Routing
<1>3. CASE NotForUs
  BY <1>3 DEF NotForUs, Routing
<1>4. CASE ReceiveCallback
  <2>1. /\ stage = "sent" /\ PortOf(packet.to) \in Ports /\ stage' = "routed"
        /\ todo' = Recipients(PortOf(packet.to), packet.to.address) /\ pos' = BeforeHeader
        /\ packet' = packet /\ processed' = processed
    BY <1>4 DEF ReceiveCallback
  <2>2. packet.to \in Destinations
    BY <2>1, PacketWritten
  <2>3. todo' = Addressed(packet.to)
    BY <2>1, <2>2, RoutedRight
  <2>4. processed = {}
    BY <2>1 DEF Routing
  <2>5. Waiting' = todo'
    BY <2>1 DEF Waiting
  <2>6. processed' = {p \in Addressed(packet'.to) \ Waiting' : Prefix[p] # packet'.prefix}
    BY <2>1, <2>3, <2>4, <2>5
  <2>7. stage' = "routed" /\ PortOf(packet'.to) \in Ports /\ todo' \subseteq Addressed(packet'.to)
    BY <2>1, <2>3
  <2> QED BY <2>1, <2>6, <2>7 DEF Routing
<1>5. CASE ProcessHeader
  <2>1. /\ Processing /\ pos = BeforeHeader /\ stage' = stage /\ packet' = packet
        /\ \/ /\ Prefix[Current] # packet.prefix /\ source' = packet.prefix
              /\ pos' = 20 /\ processed' = processed \cup {Current} /\ todo' = todo
           \/ /\ Prefix[Current] = packet.prefix /\ processed' = processed
              /\ todo' = todo \ {Current} /\ pos' = BeforeHeader
    BY <1>5, HeaderStep
  <2>2. /\ stage = "routed" /\ PortOf(packet.to) \in Ports /\ todo \subseteq Addressed(packet.to)
        /\ Current \in todo
        /\ processed = {p \in Addressed(packet.to) \ todo : Prefix[p] # packet.prefix}
    BY <2>1, ProcessingFacts DEF Waiting
  <2> DEFINE all == Addressed(packet.to)
             Other(p) == Prefix[p] # packet.prefix
  <2>3. CASE Prefix[Current] # packet.prefix /\ todo' = todo
    <3>1. source' = packet.prefix /\ pos' = 20 /\ processed' = processed \cup {Current}
      <4>1. todo \ {Current} # todo
        BY <2>2
      <4> QED BY <2>1, <2>3, <4>1
    <3>2. pos' # BeforeHeader /\ pos' \in Nat /\ Current' = Current
      BY <2>3, <3>1 DEF BeforeHeader, Current
    <3>3. Waiting' = todo \ {Current}
      BY <2>3, <3>2 DEF Waiting
    <3>4. processed' = {p \in all \ (todo \ {Current}) : Other(p)}
      <4>1. Current \in all /\ Other(Current)
        BY <2>2, <2>3
      <4>2. processed' = {p \in all \ todo : Other(p)} \cup {Current}
        BY <2>2, <3>1
      <4> HIDE DEF all, Other
      <4> QED BY <2>2, <4>1, <4>2
    <3>5. processed' = {p \in Addressed(packet'.to) \ Waiting' : Prefix[p] # packet'.prefix}
      BY <2>1, <3>3, <3>4, Zenon
    <3>6. /\ stage' = "routed" /\ PortOf(packet'.to) \in Ports
          /\ todo' \subseteq Addressed(packet'.to) /\ todo' # {}
          /\ source' = packet'.prefix /\ Prefix[Current'] # packet'.prefix
      BY <2>1, <2>2, <2>3, <3>1, <3>2
    <3> QED BY <3>2, <3>5, <3>6 DEF Routing
  <2>4. CASE Prefix[Current] = packet.prefix
    <3>1. processed' = processed /\ todo' = todo \ {Current} /\ pos' = BeforeHeader
      BY <2>1, <2>4
    <3>2. Waiting' = todo \ {Current}
      BY <3>1 DEF Waiting
    <3>3. processed' = {p \in all \ (todo \ {Current}) : Other(p)}
      <4>1. ~Other(Current)
        BY <2>4
      <4>2. processed' = {p \in all \ todo : Other(p)}
        BY <2>2, <3>1
      <4> HIDE DEF all, Other
      <4> QED BY <4>1, <4>2
    <3>4. processed' = {p \in Addressed(packet'.to) \ Waiting' : Prefix[p] # packet'.prefix}
      BY <2>1, <3>2, <3>3, Zenon
    <3>5. /\ stage' = "routed" /\ PortOf(packet'.to) \in Ports
          /\ todo' \subseteq Addressed(packet'.to)
      BY <2>1, <2>2, <3>1
    <3> QED BY <3>1, <3>4, <3>5 DEF Routing
  <2> QED BY <2>1, <2>3, <2>4
<1>6. CASE ProcessSubmessage
  <2>1. /\ Processing /\ pos # BeforeHeader
        /\ stage' = stage /\ packet' = packet /\ source' = source /\ processed' = processed
        /\ \/ todo' = todo \ {Current} /\ pos' = BeforeHeader
           \/ todo' = todo /\ pos' \in Nat
    BY <1>6, SubmessageStep
  <2>2. CASE todo' = todo \ {Current} /\ pos' = BeforeHeader
    BY <2>1, <2>2, OneDone
  <2>3. CASE todo' = todo /\ pos' \in Nat
    <3>1. Current' = Current /\ pos' # BeforeHeader
      BY <2>3 DEF Current, BeforeHeader
    <3>2. Waiting' = Waiting
      BY <2>1, <2>3, <3>1 DEF Waiting
    <3>3. /\ stage = "routed" /\ PortOf(packet.to) \in Ports
          /\ todo \subseteq Addressed(packet.to) /\ todo # {}
          /\ processed = {p \in Addressed(packet.to) \ Waiting : Prefix[p] # packet.prefix}
          /\ source = packet.prefix /\ Prefix[Current] # packet.prefix
      BY <2>1, ProcessingFacts
    <3>4. processed' = {p \in Addressed(packet'.to) \ Waiting' : Prefix[p] # packet'.prefix}
      BY <2>1, <3>2, <3>3, Zenon
    <3>5. /\ stage' = "routed" /\ PortOf(packet'.to) \in Ports
          /\ todo' \subseteq Addressed(packet'.to) /\ todo' # {}
          /\ source' = packet'.prefix /\ Prefix[Current'] # packet'.prefix
      BY <2>1, <2>3, <3>1, <3>3
    <3> QED BY <2>3, <3>4, <3>5 DEF Routing
  <2> QED BY <2>1, <2>2, <2>3
<1>7. CASE EndOfMessage
  <2>1. /\ Processing /\ pos # BeforeHeader /\ todo' = todo \ {Current} /\ pos' = BeforeHeader
        /\ stage' = stage /\ packet' = packet /\ processed' = processed
    BY <1>7 DEF EndOfMessage, Return
  <2> QED BY <2>1, OneDone
<1>8. CASE NextPacket
  <2>1. stage = "routed" /\ todo = {} /\ stage' = "idle" /\ todo' = todo /\ pos' = pos
    BY <1>8 DEF NextPacket, Done
  <2>2. pos = BeforeHeader
    BY <2>1 DEF Routing
  <2> QED BY <2>1, <2>2 DEF Routing
<1>9. CASE \E p \in Participants : Forget(p)
  <2>1. stage = "idle" /\ stage' = "idle" /\ todo' = todo /\ pos' = pos
    BY <1>9 DEF Forget
  <2> QED BY <2>1 DEF Routing
<1> QED BY <1>1, <1>2, <1>3, <1>4, <1>5, <1>6, <1>7, <1>8, <1>9 DEF Next

WireInv == PacketRight /\ Routing

LEMMA WireInvInvariant == Spec => []WireInv
<1>1. Init => WireInv
  BY PacketRightInit, RoutingInit DEF WireInv
<1>2. WireInv /\ [Next]_vars => WireInv'
  BY PacketRightStep, RoutingStep DEF WireInv
<1> QED BY <1>1, <1>2, PTL DEF Spec

(* A packet is processed by exactly the participants it was addressed to,  *)
(* and never by the one that sent it, for up to 64 participants and any    *)
(* destination (Domain::receiveCallback, udpUtils, processHeader).         *)
THEOREM ReachesTheAddressed == Spec => []RightParticipant
<1>1. WireInv => RightParticipant
  <2> SUFFICES ASSUME PacketRight, Routing PROVE RightParticipant
    BY DEF WireInv
  <2>1. ASSUME stage = "routed" PROVE processed \subseteq Addressed(packet.to)
    BY <2>1 DEF Routing
  <2>2. ASSUME Done PROVE processed = {p \in Addressed(packet.to) : Prefix[p] # packet.prefix}
    <3>1. stage = "routed" /\ todo = {}
      BY <2>2 DEF Done
    <3>2. Waiting = {}
      BY <3>1 DEF Waiting, Routing
    <3>3. Addressed(packet.to) \ Waiting = Addressed(packet.to)
      BY <3>2
    <3> QED BY <3>1, <3>3, Zenon DEF Routing
  <2> QED BY <2>1, <2>2 DEF RightParticipant
<1> QED BY <1>1, WireInvInvariant, PTL

-----------------------------------------------------------------------------
(* What the receiver reads of a submessage. *)

\* The last of several fields.
LEMMA FieldRead ==
  ASSUME NEW bytes \in Seq(Cell), NEW at \in Nat, NEW i \in Nat, NEW j \in Nat,
         NEW s \in Octets(i), NEW t \in Octets(j), Holds(bytes, at, s \o t)
  PROVE  /\ Holds(bytes, at, s)
         /\ Holds(bytes, at + i, t) /\ Slice(bytes, at + i, j) = t
<1>1. s \in Seq(Byte) /\ Len(s) = i /\ t \in Seq(Byte) /\ Len(t) = j
  BY OctetsAreBytes
<1>2. Holds(bytes, at, s) /\ Holds(bytes, at + Len(s), t)
  BY <1>1, HoldsBoth, Zenon
<1>3. Holds(bytes, at, s) /\ Holds(bytes, at + i, t) /\ at + i \in Nat
  BY <1>1, <1>2
<1>4. Slice(bytes, at + i, Len(t)) = t
  BY <1>1, <1>3, SliceReads, Zenon
<1> QED BY <1>1, <1>3, <1>4, Zenon

\* The first of several fields.
LEMMA FirstRead ==
  ASSUME NEW bytes \in Seq(Cell), NEW at \in Nat, NEW j \in Nat,
         NEW t \in Octets(j), Holds(bytes, at, t)
  PROVE  Slice(bytes, at, j) = t
<1>1. t \in Seq(Byte) /\ Len(t) = j
  BY OctetsAreBytes
<1>2. Slice(bytes, at, Len(t)) = t
  BY <1>1, SliceReads, Zenon
<1> QED BY <1>1, <1>2, Zenon

LEMMA DataFieldsRead ==
  ASSUME NEW m, WellFormed(m), m.kind = DATA,
         NEW bytes \in Seq(Cell), NEW at \in Nat, Holds(bytes, at, DataFields(m))
  PROVE  /\ Slice(bytes, at + 4, 4) = m.reader /\ Slice(bytes, at + 8, 4) = m.writer
         /\ Slice(bytes, at + 12, 8) = m.sn
<1>1. m.reader \in Octets(4) /\ m.writer \in Octets(4) /\ m.sn \in Octets(8)
  BY DEF WellFormed
<1>2. LE(0, 2) \in Octets(2) /\ LE(16, 2) \in Octets(2)
  BY NumberOctets
<1>3. /\ 2 \in Nat /\ 4 \in Nat /\ 8 \in Nat /\ 12 \in Nat /\ 20 \in Nat
      /\ 2 + 2 = 4 /\ 4 + 4 = 8 /\ 8 + 4 = 12 /\ 12 + 8 = 20
  OBVIOUS
<1> DEFINE b == LE(0, 2) \o LE(16, 2)
           c == b \o m.reader
           d == c \o m.writer
<1>4. b \in Octets(4)
  BY <1>1, <1>2, <1>3, OctetsConcat, Zenon
<1> HIDE DEF b
<1>5. c \in Octets(8)
  BY <1>1, <1>2, <1>4, <1>3, OctetsConcat, Zenon
<1> HIDE DEF c
<1>6. d \in Octets(12)
  BY <1>1, <1>2, <1>5, <1>3, OctetsConcat, Zenon
<1> HIDE DEF d
<1>7. /\ Holds(bytes, at, d) /\ Holds(bytes, at + 12, m.sn)
      /\ Slice(bytes, at + 12, 8) = m.sn
  <2>1. Holds(bytes, at, d \o m.sn)
    BY Zenon DEF DataFields, b, c, d
  <2> QED BY <1>1, <1>2, <1>6, <1>3, <2>1, FieldRead
<1>8. /\ Holds(bytes, at, c) /\ Holds(bytes, at + 8, m.writer)
      /\ Slice(bytes, at + 8, 4) = m.writer
  <2>1. Holds(bytes, at, c \o m.writer)
    BY <1>7, Zenon DEF d
  <2> QED BY <1>1, <1>2, <1>5, <1>3, <2>1, FieldRead
<1>9. /\ Holds(bytes, at, b) /\ Holds(bytes, at + 4, m.reader)
      /\ Slice(bytes, at + 4, 4) = m.reader
  <2>1. Holds(bytes, at, b \o m.reader)
    BY <1>8, Zenon DEF c
  <2> QED BY <1>1, <1>2, <1>4, <1>3, <2>1, FieldRead
<1>10. /\ Holds(bytes, at, LE(0, 2)) /\ Holds(bytes, at + 2, LE(16, 2))
      /\ Slice(bytes, at + 2, 2) = LE(16, 2)
  <2>1. Holds(bytes, at, LE(0, 2) \o LE(16, 2))
    BY <1>9, Zenon DEF b
  <2> QED BY <1>1, <1>2, <1>3, <2>1, FieldRead
<1>11. Slice(bytes, at, 2) = LE(0, 2)
  BY <1>1, <1>2, <1>3, <1>10, FirstRead, Zenon
<1> QED BY <1>7, <1>8, <1>9, <1>10, <1>11, Zenon

LEMMA HeartbeatFieldsRead ==
  ASSUME NEW m, WellFormed(m), m.kind = HEARTBEAT,
         NEW bytes \in Seq(Cell), NEW at \in Nat, Holds(bytes, at, HeartbeatFields(m))
  PROVE  /\ Slice(bytes, at, 4) = m.reader /\ Slice(bytes, at + 4, 4) = m.writer
         /\ Slice(bytes, at + 8, 8) = m.firstSN /\ Slice(bytes, at + 16, 8) = m.lastSN
         /\ Slice(bytes, at + 24, 4) = m.count
<1>1. /\ m.reader \in Octets(4) /\ m.writer \in Octets(4)
      /\ m.firstSN \in Octets(8) /\ m.lastSN \in Octets(8) /\ m.count \in Octets(4)
  BY DEF WellFormed
<1>2. /\ 4 \in Nat /\ 8 \in Nat /\ 16 \in Nat /\ 24 \in Nat /\ 28 \in Nat
      /\ 4 + 4 = 8 /\ 8 + 8 = 16 /\ 16 + 8 = 24 /\ 24 + 4 = 28
  OBVIOUS
<1> DEFINE b == m.reader \o m.writer
           c == b \o m.firstSN
           d == c \o m.lastSN
<1>3. b \in Octets(8)
  BY <1>1, <1>2, OctetsConcat, Zenon
<1> HIDE DEF b
<1>4. c \in Octets(16)
  BY <1>1, <1>3, <1>2, OctetsConcat, Zenon
<1> HIDE DEF c
<1>5. d \in Octets(24)
  BY <1>1, <1>4, <1>2, OctetsConcat, Zenon
<1> HIDE DEF d
<1>6. /\ Holds(bytes, at, d) /\ Holds(bytes, at + 24, m.count)
      /\ Slice(bytes, at + 24, 4) = m.count
  <2>1. Holds(bytes, at, d \o m.count)
    BY Zenon DEF HeartbeatFields, b, c, d
  <2> QED BY <1>1, <1>5, <1>2, <2>1, FieldRead
<1>7. /\ Holds(bytes, at, c) /\ Holds(bytes, at + 16, m.lastSN)
      /\ Slice(bytes, at + 16, 8) = m.lastSN
  <2>1. Holds(bytes, at, c \o m.lastSN)
    BY <1>6, Zenon DEF d
  <2> QED BY <1>1, <1>4, <1>2, <2>1, FieldRead
<1>8. /\ Holds(bytes, at, b) /\ Holds(bytes, at + 8, m.firstSN)
      /\ Slice(bytes, at + 8, 8) = m.firstSN
  <2>1. Holds(bytes, at, b \o m.firstSN)
    BY <1>7, Zenon DEF c
  <2> QED BY <1>1, <1>3, <1>2, <2>1, FieldRead
<1>9. /\ Holds(bytes, at, m.reader) /\ Holds(bytes, at + 4, m.writer)
      /\ Slice(bytes, at + 4, 4) = m.writer
  <2>1. Holds(bytes, at, m.reader \o m.writer)
    BY <1>8, Zenon DEF b
  <2> QED BY <1>1, <1>2, <2>1, FieldRead
<1>10. Slice(bytes, at, 4) = m.reader
  BY <1>1, <1>2, <1>9, FirstRead, Zenon
<1> QED BY <1>6, <1>7, <1>8, <1>9, <1>10, Zenon

LEMMA SetFieldsRead ==
  ASSUME NEW m, WellFormed(m), m.kind = ACKNACK,
         NEW bytes \in Seq(Cell), NEW at \in Nat, Holds(bytes, at, SetFields(m))
  PROVE  /\ Slice(bytes, at, 4) = m.reader /\ Slice(bytes, at + 4, 4) = m.writer
         /\ Slice(bytes, at + 8, 8) = m.base
         /\ Holds(bytes, at + 16, LE(m.numBits, 4))
<1>1. /\ m.reader \in Octets(4) /\ m.writer \in Octets(4) /\ m.base \in Octets(8)
      /\ m.numBits \in Nat
  BY DEF WellFormed
<1>2. LE(m.numBits, 4) \in Octets(4)
  BY <1>1, NumberOctets, Zenon
<1>3. /\ 4 \in Nat /\ 8 \in Nat /\ 16 \in Nat /\ 20 \in Nat
      /\ 4 + 4 = 8 /\ 8 + 8 = 16 /\ 16 + 4 = 20
  OBVIOUS
<1> DEFINE b == m.reader \o m.writer
           c == b \o m.base
<1>4. b \in Octets(8)
  BY <1>1, <1>2, <1>3, OctetsConcat, Zenon
<1> HIDE DEF b
<1>5. c \in Octets(16)
  BY <1>1, <1>2, <1>4, <1>3, OctetsConcat, Zenon
<1> HIDE DEF c
<1>6. /\ Holds(bytes, at, c) /\ Holds(bytes, at + 16, LE(m.numBits, 4))
      /\ Slice(bytes, at + 16, 4) = LE(m.numBits, 4)
  <2>1. Holds(bytes, at, c \o LE(m.numBits, 4))
    BY Zenon DEF SetFields, b, c
  <2> QED BY <1>1, <1>2, <1>5, <1>3, <2>1, FieldRead
<1>7. /\ Holds(bytes, at, b) /\ Holds(bytes, at + 8, m.base)
      /\ Slice(bytes, at + 8, 8) = m.base
  <2>1. Holds(bytes, at, b \o m.base)
    BY <1>6, Zenon DEF c
  <2> QED BY <1>1, <1>2, <1>4, <1>3, <2>1, FieldRead
<1>8. /\ Holds(bytes, at, m.reader) /\ Holds(bytes, at + 4, m.writer)
      /\ Slice(bytes, at + 4, 4) = m.writer
  <2>1. Holds(bytes, at, m.reader \o m.writer)
    BY <1>7, Zenon DEF b
  <2> QED BY <1>1, <1>2, <1>3, <2>1, FieldRead
<1>9. Slice(bytes, at, 4) = m.reader
  BY <1>1, <1>2, <1>3, <1>8, FirstRead, Zenon
<1> QED BY <1>6, <1>7, <1>8, <1>9, Zenon

\* Submessage m stands in the packet behind the first "at" bytes.
StandsAt(bytes, at, m) ==
  /\ bytes \in Seq(Cell) /\ at \in Nat /\ Len(bytes) < DataSizes
  /\ WellFormed(m) /\ m.kind # DATA_FRAG
  /\ Holds(bytes, at, HeadOf(m)) /\ Holds(bytes, at + 4, BodyOf(m))
  /\ at + LengthOf(m) <= Len(bytes)

LEMMA StandsFacts ==
  ASSUME NEW bytes, NEW at, NEW m, StandsAt(bytes, at, m)
  PROVE  /\ bytes \in Seq(Cell) /\ at \in Nat /\ at + 4 \in Nat /\ Len(bytes) \in Nat
         /\ OctetsOf(m) \in Nat /\ LengthOf(m) = 4 + OctetsOf(m)
         /\ at + 4 + OctetsOf(m) <= Len(bytes)
         /\ Short(OctetsOf(m)) /\ Short(at + 4 + OctetsOf(m))
<1>1. /\ bytes \in Seq(Cell) /\ at \in Nat /\ Len(bytes) < DataSizes /\ WellFormed(m)
      /\ m.kind # DATA_FRAG /\ at + LengthOf(m) <= Len(bytes)
  BY DEF StandsAt
<1>2. OctetsOf(m) \in Nat /\ LengthOf(m) = 4 + OctetsOf(m)
  BY <1>1, HeadOfOctets DEF LengthOf
<1>3. Len(bytes) \in Nat
  BY <1>1
<1>4. Short(OctetsOf(m)) /\ Short(at + 4 + OctetsOf(m))
  BY <1>1, <1>2, <1>3, SMT DEF Short, DataSizes
<1> QED BY <1>1, <1>2, <1>3, <1>4

LEMMA HeadRead ==
  ASSUME NEW bytes, NEW at, NEW m, StandsAt(bytes, at, m)
  PROVE  LET h == DeserializeSubmessageHeader(bytes, at)
         IN  h.ok /\ h.submessageId = m.kind /\ h.octets = OctetsOf(m)
<1>1. /\ bytes \in Seq(Cell) /\ at \in Nat /\ Len(bytes) \in Nat
      /\ OctetsOf(m) \in Nat /\ at + 4 + OctetsOf(m) <= Len(bytes) /\ Short(OctetsOf(m))
  BY StandsFacts
<1>2. Holds(bytes, at, HeadOf(m)) /\ WellFormed(m)
  BY DEF StandsAt
<1> DEFINE first == <<m.kind, FlagsOf(m)>>
           number == LE(OctetsOf(m), 2)
<1>3. first \in Seq(Byte) /\ Len(first) = 2 /\ first[1] = m.kind
  BY <1>2, HeadOfOctets, Two
<1>4. number \in Seq(Byte) /\ Len(number) = 2
  BY <1>1, LE2
<1>5. Holds(bytes, at, first \o number)
  BY <1>2, Zenon DEF HeadOf, SubHead
<1> HIDE DEF first, number
<1>6. Holds(bytes, at, first) /\ Holds(bytes, at + Len(first), number)
  BY <1>1, <1>3, <1>4, <1>5, HoldsBoth, Zenon
<1>7. bytes[at + 1] = m.kind
  BY <1>3, <1>6 DEF Holds
<1>8. Number16(bytes, at + 2) = OctetsOf(m)
  <2>1. Holds(bytes, at + 2, LE(OctetsOf(m), 2)) /\ at + 2 \in Nat
    BY <1>1, <1>3, <1>6 DEF number
  <2> QED BY <1>1, <2>1, Number16Reads
<1>9. ~(Remaining(bytes, at) < SubmessageHeaderSize)
  BY <1>1 DEF Remaining, SubmessageHeaderSize
<1>10. DeserializeSubmessageHeader(bytes, at)
         = [ok |-> TRUE, submessageId |-> m.kind, octets |-> OctetsOf(m)]
  BY <1>7, <1>8, <1>9, Zenon DEF DeserializeSubmessageHeader
<1> QED BY <1>10

LEMMA DataRead ==
  ASSUME NEW bytes, NEW at, NEW m, StandsAt(bytes, at, m), m.kind = DATA
  PROVE  LET msg == DeserializeData(bytes, at)
         IN  /\ msg.ok /\ msg.reader = m.reader /\ msg.writer = m.writer /\ msg.sn = m.sn
             /\ Slice(bytes, at + DataSize,
                      (OctetsOf(m) - DataSize + SubmessageHeaderSize) % DataSizes) = m.payload
<1>1. /\ bytes \in Seq(Cell) /\ at \in Nat /\ at + 4 \in Nat /\ Len(bytes) \in Nat
      /\ at + 4 + OctetsOf(m) <= Len(bytes) /\ Short(OctetsOf(m))
  BY StandsFacts
<1>2. WellFormed(m) /\ Holds(bytes, at + 4, BodyOf(m))
  BY DEF StandsAt
<1>3. PICK k \in Nat : k = Len(m.payload) /\ m.payload \in Octets(k) /\ m.payload \in Seq(Byte)
  <2>1. m.payload \in Seq(Byte)
    BY <1>2 DEF WellFormed
  <2> QED BY <2>1, BytesAreOctets
<1>4. OctetsOf(m) = 20 + k
  BY <1>3, KindsDiffer DEF OctetsOf
<1>5. Holds(bytes, at + 4, DataFields(m) \o m.payload)
  BY <1>2, KindsDiffer, Zenon DEF BodyOf
<1> DEFINE p == at + 4  f == DataFields(m)
<1>6. f \in Octets(20) /\ 20 \in Nat /\ p \in Nat
  BY <1>1, <1>2, DataFieldsOctets
<1>7. Holds(bytes, p, f) /\ Slice(bytes, p + 20, k) = m.payload
  <2>1. Holds(bytes, p, f \o m.payload)
    BY <1>5
  <2> HIDE DEF p, f
  <2> QED BY <1>1, <1>3, <1>6, <2>1, FieldRead
<1>8. /\ Slice(bytes, p + 4, 4) = m.reader /\ Slice(bytes, p + 8, 4) = m.writer
      /\ Slice(bytes, p + 12, 8) = m.sn
  <2> HIDE DEF p
  <2> QED BY <1>1, <1>2, <1>6, <1>7, DataFieldsRead DEF f
<1>9. p + 4 = at + 8 /\ p + 8 = at + 12 /\ p + 12 = at + 16 /\ p + 20 = at + 24
  BY <1>1
<1> HIDE DEF p, f
<1>10. DeserializeSubmessageHeader(bytes, at).ok
       /\ DeserializeSubmessageHeader(bytes, at).octets = OctetsOf(m)
  BY HeadRead
<1>11. ~(Remaining(bytes, at) < SubmessageHeaderSize + OctetsOf(m))
  <2>1. OctetsOf(m) \in Nat
    BY StandsFacts
  <2> DEFINE l == Len(bytes)  o == OctetsOf(m)
  <2>2. l \in Nat /\ o \in Nat /\ at \in Nat /\ at + 4 + o <= l
    BY <1>1, <2>1
  <2> HIDE DEF l, o
  <2>3. ~(l - at < 4 + o)
    BY <2>2
  <2> QED BY <2>3 DEF Remaining, SubmessageHeaderSize, l, o
<1>12. DeserializeData(bytes, at)
         = [ok |-> TRUE, reader |-> m.reader, writer |-> m.writer, sn |-> m.sn]
  BY <1>8, <1>9, <1>10, <1>11, Zenon DEF DeserializeData
<1>13. (OctetsOf(m) - DataSize + SubmessageHeaderSize) % DataSizes = k /\ DataSize = 24
  <2> DEFINE o == OctetsOf(m)
  <2>1. o = 20 + k /\ o \in Nat /\ k \in Nat /\ o <= 65535
    BY <1>1, <1>3, <1>4 DEF Short
  <2> HIDE DEF o
  <2>2. (o - 24 + 4) % 65536 = k
    BY <2>1, SMT
  <2> QED BY <2>2, SMT DEF DataSize, SubmessageHeaderSize, DataSizes, o
<1>14. Slice(bytes, at + DataSize,
             (OctetsOf(m) - DataSize + SubmessageHeaderSize) % DataSizes) = m.payload
  BY <1>7, <1>9, <1>13, Zenon
<1> QED BY <1>12, <1>14

LEMMA HeartbeatRead ==
  ASSUME NEW bytes, NEW at, NEW m, StandsAt(bytes, at, m), m.kind = HEARTBEAT
  PROVE  LET msg == DeserializeHeartbeat(bytes, at)
         IN  /\ msg.ok /\ msg.reader = m.reader /\ msg.writer = m.writer
             /\ msg.firstSN = m.firstSN /\ msg.lastSN = m.lastSN /\ msg.count = m.count
<1>1. /\ bytes \in Seq(Cell) /\ at \in Nat /\ at + 4 \in Nat /\ Len(bytes) \in Nat
      /\ at + 4 + OctetsOf(m) <= Len(bytes)
  BY StandsFacts
<1>2. WellFormed(m) /\ Holds(bytes, at + 4, HeartbeatFields(m)) /\ OctetsOf(m) = 28
  BY KindsDiffer DEF StandsAt, BodyOf, OctetsOf
<1> DEFINE p == at + 4
<1>3. /\ Slice(bytes, p, 4) = m.reader /\ Slice(bytes, p + 4, 4) = m.writer
      /\ Slice(bytes, p + 8, 8) = m.firstSN /\ Slice(bytes, p + 16, 8) = m.lastSN
      /\ Slice(bytes, p + 24, 4) = m.count
  <2> HIDE DEF p
  <2> QED BY <1>1, <1>2, HeartbeatFieldsRead DEF p
<1>4. p + 4 = at + 8 /\ p + 8 = at + 12 /\ p + 16 = at + 20 /\ p + 24 = at + 28
  BY <1>1
<1>5. ~(Remaining(bytes, at) < HeartbeatSize)
  BY <1>1, <1>2 DEF Remaining, HeartbeatSize
<1>6. DeserializeHeartbeat(bytes, at)
        = [ok |-> TRUE, reader |-> m.reader, writer |-> m.writer, firstSN |-> m.firstSN,
           lastSN |-> m.lastSN, count |-> m.count]
  <2>1. Slice(bytes, at + 4, 4) = m.reader
    BY <1>3
  <2> HIDE DEF p
  <2> QED BY <1>3, <1>4, <1>5, <2>1, Zenon DEF DeserializeHeartbeat
<1> QED BY <1>6

LEMMA AckNackRead ==
  ASSUME NEW bytes, NEW at, NEW m, StandsAt(bytes, at, m), m.kind = ACKNACK
  PROVE  LET msg == DeserializeAckNack(bytes, at)
         IN  /\ msg.ok /\ msg.reader = m.reader /\ msg.writer = m.writer
             /\ msg.base = m.base /\ msg.numBits = m.numBits /\ msg.count = m.count
<1>1. /\ bytes \in Seq(Cell) /\ at \in Nat /\ at + 4 \in Nat /\ Len(bytes) \in Nat
      /\ at + 4 + OctetsOf(m) <= Len(bytes) /\ Short(OctetsOf(m))
  BY StandsFacts
<1>2. WellFormed(m) /\ Holds(bytes, at + 4, SetFields(m) \o BitMap(m) \o m.count)
  <2>1. WellFormed(m) /\ Holds(bytes, at + 4, BodyOf(m))
    BY DEF StandsAt
  <2> QED BY <2>1, KindsDiffer, Zenon DEF BodyOf
<1>3. PICK k \in Nat : k = BitMapSize(m.numBits) /\ BitMap(m) \in Octets(k)
  BY <1>2, BitMapOctets
<1>4. OctetsOf(m) = 24 + k /\ m.numBits \in Nat
  BY <1>2, <1>3, KindsDiffer DEF OctetsOf, WellFormed
<1> DEFINE p == at + 4  s == SetFields(m)  map == BitMap(m)
<1>5. s \in Octets(20) /\ m.count \in Octets(4) /\ 4 \in Nat /\ 20 \in Nat /\ 20 + k \in Nat /\ p \in Nat
  BY <1>1, <1>2, SetFieldsOctets DEF WellFormed
<1>6. s \o map \in Octets(20 + k)
  BY <1>3, <1>5, OctetsConcat, Zenon
<1> HIDE DEF p, s, map
<1>7. Holds(bytes, p, s \o map) /\ Slice(bytes, p + (20 + k), 4) = m.count
  <2> DEFINE t == s \o map  l == 20 + k
  <2>1. t \in Octets(l) /\ l \in Nat /\ Holds(bytes, p, t \o m.count)
    BY <1>2, <1>5, <1>6, Zenon DEF p, s, map
  <2> HIDE DEF t, l
  <2>2. Holds(bytes, p, t) /\ Slice(bytes, p + l, 4) = m.count
    BY <1>1, <1>5, <2>1, FieldRead
  <2> QED BY <2>2 DEF t, l
<1>8. Holds(bytes, p, s)
  BY <1>1, <1>3, <1>5, <1>7, FieldRead DEF map
<1>9. /\ Slice(bytes, p, 4) = m.reader /\ Slice(bytes, p + 4, 4) = m.writer
      /\ Slice(bytes, p + 8, 8) = m.base /\ Holds(bytes, p + 16, LE(m.numBits, 4))
  BY <1>1, <1>2, <1>5, <1>8, SetFieldsRead DEF s
<1>10. /\ p = at + 4 /\ p + 4 = at + 8 /\ p + 8 = at + 12 /\ p + 16 = at + 20
       /\ p + (20 + k) = at + 24 + k
  BY <1>1 DEF p
<1>11. Number32(bytes, at + 20) = m.numBits
  <2>1. Long(m.numBits)
    <3>1. m.numBits # 0 => k = 4 * ((m.numBits \div 32) + 1)
      BY <1>3 DEF BitMapSize
    <3> QED BY <1>1, <1>3, <1>4, <3>1, SMT DEF Long, Short
  <2>2. at + 20 \in Nat /\ Holds(bytes, at + 20, LE(m.numBits, 4))
    BY <1>1, <1>9, <1>10
  <2> QED BY <2>1, <2>2, Number32Reads
<1>12. AckNackSize(m.numBits) = 28 + k
  BY <1>3 DEF AckNackSize, AckNackSizeWithoutSet
<1>13. /\ ~(Remaining(bytes, at) < AckNackSizeWithoutSet)
       /\ ~(Remaining(bytes, at) < AckNackSize(m.numBits))
  BY <1>1, <1>4, <1>12 DEF Remaining, AckNackSizeWithoutSet
<1>14. DeserializeAckNack(bytes, at)
         = [ok |-> TRUE, reader |-> m.reader, writer |-> m.writer, base |-> m.base,
            numBits |-> m.numBits, count |-> m.count]
  BY <1>3, <1>7, <1>9, <1>10, <1>11, <1>13, Zenon DEF DeserializeAckNack
<1> QED BY <1>14

-----------------------------------------------------------------------------
(* What the receiver hands on of a submessage. *)

\* A message for the participant that reads the packet, or nothing.
HandsOn(x, l) ==
  handed' = [handed EXCEPT ![Current] = Append(@, [message |-> x, list |-> l])]

HandsRight(m) ==
  \/ Meant(Current, packet.prefix, m) = <<>> /\ handed' = handed
  \/ \E x, l : Meant(Current, packet.prefix, m) = <<x>> /\ HandsOn(x, l)

LEMMA MeantOf ==
  ASSUME NEW p, NEW prefix, NEW m
  PROVE  LET guid == prefix \o m.writer
             reader == IF m.reader = ENTITYID_UNKNOWN THEN Matched[p][guid] ELSE m.reader
         IN  /\ m.kind = DATA => Meant(p, prefix, m) =
                  IF /\ m.reader = ENTITYID_UNKNOWN => guid \in DOMAIN Matched[p]
                     /\ reader \in Readers[p]
                  THEN <<DataFor(reader, guid, m.sn, m.payload)>> ELSE <<>>
             /\ m.kind = HEARTBEAT => Meant(p, prefix, m) =
                  IF m.reader \in Readers[p] THEN <<HeartbeatFor(m.reader, guid, m)>> ELSE <<>>
             /\ m.kind = ACKNACK => Meant(p, prefix, m) =
                  IF m.writer \in Writers[p] THEN <<AckNackFor(m.writer, prefix \o m.reader, m)>>
                  ELSE <<>>
BY KindsDiffer DEF Meant

LEMMA DataHands ==
  ASSUME Current \in Participants, source = packet.prefix,
         NEW m, StandsAt(packet.bytes, pos, m), m.kind = DATA,
         m.reader = ENTITYID_UNKNOWN => packet.prefix \o m.writer \in DOMAIN Matched[Current],
         ProcessDataSubmessage(DeserializeSubmessageHeader(packet.bytes, pos))
  PROVE  HandsRight(m)
<1> DEFINE header == DeserializeSubmessageHeader(packet.bytes, pos)
           msg == DeserializeData(packet.bytes, pos)
           guid == packet.prefix \o m.writer
           given == IF msg.reader = ENTITYID_UNKNOWN
                    THEN GetReaderByWriterId(source \o msg.writer) ELSE msg.reader
           size == (header.octets - DataSize + SubmessageHeaderSize) % DataSizes
           data == Slice(packet.bytes, pos + DataSize, size)
           reader == IF m.reader = ENTITYID_UNKNOWN THEN Matched[Current][guid] ELSE m.reader
<1>1. header.octets = OctetsOf(m)
  BY HeadRead, Zenon
<1>2. /\ msg.ok /\ msg.reader = m.reader /\ msg.writer = m.writer /\ msg.sn = m.sn
      /\ Slice(packet.bytes, pos + DataSize,
               (OctetsOf(m) - DataSize + SubmessageHeaderSize) % DataSizes) = m.payload
  BY DataRead
<1>3. data = m.payload
  BY <1>1, <1>2, Zenon
<1>4. (CASE ~msg.ok \/ (msg.ok /\ given \notin Readers[Current]) -> HandNothing
        [] OTHER ->
           CASE given = SPDP_READER -> LearnParticipant(msg, data)
             [] given \in {SEDP_PUB_READER, SEDP_SUB_READER} -> LearnTopic(msg, given, data)
             [] OTHER -> /\ HandOn(DataFor(given, source \o msg.writer, msg.sn, data), NoList)
                         /\ UNCHANGED <<proxy, known>>)
  BY Zenon DEF ProcessDataSubmessage
<1> HIDE DEF msg, data
<1>5. given = reader
  BY <1>2 DEF GetReaderByWriterId
<1> HIDE DEF given, reader
<1>6. CASE reader \notin Readers[Current]
  <2>1. handed' = handed
    BY <1>4, <1>5, <1>6 DEF HandNothing
  <2>2. Meant(Current, packet.prefix, m) = <<>>
    BY <1>6, MeantOf, Zenon DEF reader
  <2> QED BY <2>1, <2>2 DEF HandsRight
<1>7. CASE reader \in Readers[Current]
  <2> DEFINE x == DataFor(reader, guid, m.sn, m.payload)
  <2>1. \E l : HandOn(x, l)
    <3> DEFINE b1 == LearnParticipant(msg, data)
               b2 == LearnTopic(msg, reader, data)
               b3 == HandOn(DataFor(reader, source \o msg.writer, msg.sn, data), NoList)
    <3> HIDE DEF b1, b2, b3
    <3>0. \/ reader = SPDP_READER /\ b1
          \/ reader \in {SEDP_PUB_READER, SEDP_SUB_READER} /\ b2
          \/ b3
      <4>1. msg.ok /\ ~(~msg.ok \/ (msg.ok /\ given \notin Readers[Current]))
        BY <1>2, <1>5, <1>7, Zenon
      <4>2. (CASE given = SPDP_READER -> LearnParticipant(msg, data)
             [] given \in {SEDP_PUB_READER, SEDP_SUB_READER} -> LearnTopic(msg, given, data)
             [] OTHER -> /\ HandOn(DataFor(given, source \o msg.writer, msg.sn, data), NoList)
                         /\ UNCHANGED <<proxy, known>>)
        BY <1>4, <4>1, Zenon
      <4> QED BY <1>5, <4>2, Zenon DEF b1, b2, b3
    <3>4. DataFor(reader, source \o msg.writer, msg.sn, data) = x
      BY <1>2, <1>3, Zenon
    <3>5. b1 => \E l : HandOn(DataFor(SPDP_READER, source \o msg.writer, msg.sn, data), l)
      BY Zenon DEF LearnParticipant, LeaveUnread, b1
    <3>6. b2 => \E l : HandOn(DataFor(reader, source \o msg.writer, msg.sn, data), l)
      BY Zenon DEF LearnTopic, LeaveUnread, b2
    <3>7. b3 => \E l : HandOn(DataFor(reader, source \o msg.writer, msg.sn, data), l)
      BY Zenon DEF b3
    <3> HIDE DEF x
    <3> QED BY <3>0, <3>4, <3>5, <3>6, <3>7, Zenon
  <2>2. Meant(Current, packet.prefix, m) = <<x>>
    BY <1>7, MeantOf, Zenon DEF reader
  <2> HIDE DEF x
  <2> QED BY <2>1, <2>2, Zenon DEF HandsRight, HandsOn, HandOn
<1> QED BY <1>6, <1>7

LEMMA HeartbeatHands ==
  ASSUME source = packet.prefix,
         NEW m, StandsAt(packet.bytes, pos, m), m.kind = HEARTBEAT,
         ProcessHeartbeatSubmessage
  PROVE  HandsRight(m)
<1> DEFINE msg == DeserializeHeartbeat(packet.bytes, pos)
           x == HeartbeatFor(m.reader, packet.prefix \o m.writer, m)
<1>1. /\ msg.ok /\ msg.reader = m.reader /\ msg.writer = m.writer
      /\ msg.firstSN = m.firstSN /\ msg.lastSN = m.lastSN /\ msg.count = m.count
  BY HeartbeatRead
<1>2. IF msg.ok /\ msg.reader \in Readers[Current]
      THEN HandOn(HeartbeatFor(msg.reader, source \o msg.writer, msg), NoList)
      ELSE HandNothing
  BY Zenon DEF ProcessHeartbeatSubmessage
<1> HIDE DEF msg
<1>3. HeartbeatFor(msg.reader, source \o msg.writer, msg) = x
  BY <1>1, Zenon DEF HeartbeatFor
<1>5. CASE m.reader \in Readers[Current]
  <2>1. Meant(Current, packet.prefix, m) = <<x>>
    BY <1>5, MeantOf, Zenon
  <2>2. HandOn(x, NoList)
    BY <1>1, <1>2, <1>3, <1>5, Zenon
  <2> HIDE DEF x
  <2> QED BY <2>1, <2>2, Zenon DEF HandsRight, HandsOn, HandOn
<1>6. CASE m.reader \notin Readers[Current]
  <2>1. Meant(Current, packet.prefix, m) = <<>>
    BY <1>6, MeantOf, Zenon
  <2>2. handed' = handed
    BY <1>1, <1>2, <1>6 DEF HandNothing
  <2> QED BY <2>1, <2>2 DEF HandsRight
<1> QED BY <1>5, <1>6

LEMMA AckNackHands ==
  ASSUME source = packet.prefix,
         NEW m, StandsAt(packet.bytes, pos, m), m.kind = ACKNACK,
         ProcessAckNackSubmessage
  PROVE  HandsRight(m)
<1> DEFINE msg == DeserializeAckNack(packet.bytes, pos)
           x == AckNackFor(m.writer, packet.prefix \o m.reader, m)
<1>1. /\ msg.ok /\ msg.reader = m.reader /\ msg.writer = m.writer
      /\ msg.base = m.base /\ msg.numBits = m.numBits /\ msg.count = m.count
  BY AckNackRead
<1>2. IF msg.ok /\ msg.writer \in Writers[Current]
      THEN HandOn(AckNackFor(msg.writer, source \o msg.reader, msg), NoList)
      ELSE HandNothing
  BY Zenon DEF ProcessAckNackSubmessage
<1> HIDE DEF msg
<1>3. AckNackFor(msg.writer, source \o msg.reader, msg) = x
  BY <1>1, Zenon DEF AckNackFor
<1>5. CASE m.writer \in Writers[Current]
  <2>1. Meant(Current, packet.prefix, m) = <<x>>
    BY <1>5, MeantOf, Zenon
  <2>2. HandOn(x, NoList)
    BY <1>1, <1>2, <1>3, <1>5, Zenon
  <2> HIDE DEF x
  <2> QED BY <2>1, <2>2, Zenon DEF HandsRight, HandsOn, HandOn
<1>6. CASE m.writer \notin Writers[Current]
  <2>1. Meant(Current, packet.prefix, m) = <<>>
    BY <1>6, MeantOf, Zenon
  <2>2. handed' = handed
    BY <1>1, <1>2, <1>6 DEF HandNothing
  <2> QED BY <2>1, <2>2 DEF HandsRight
<1> QED BY <1>5, <1>6

\* The receiver reads the submessage that stands where it is, hands on what it
\* means and goes on to where the next one stands.
LEMMA SubmessageRead ==
  ASSUME Current \in Participants, source = packet.prefix, pos \in Nat, ProcessSubmessage,
         NEW m, StandsAt(packet.bytes, pos, m),
         m.kind = DATA /\ m.reader = ENTITYID_UNKNOWN
           => packet.prefix \o m.writer \in DOMAIN Matched[Current]
  PROVE  pos' = pos + LengthOf(m) /\ todo' = todo /\ HandsRight(m)
<1> DEFINE header == DeserializeSubmessageHeader(packet.bytes, pos)
<1>1. header.ok /\ header.submessageId = m.kind /\ header.octets = OctetsOf(m)
  BY HeadRead, Zenon
<1>2. IF ~header.ok THEN Return /\ HandNothing
      ELSE /\ CASE header.submessageId = DATA -> ProcessDataSubmessage(header)
                [] header.submessageId = HEARTBEAT -> ProcessHeartbeatSubmessage
                [] header.submessageId = ACKNACK -> ProcessAckNackSubmessage
                [] OTHER -> HandNothing
           /\ pos' = (pos + header.octets + SubmessageHeaderSize) % DataSizes
           /\ UNCHANGED todo
  BY Zenon DEF ProcessSubmessage
<1> HIDE DEF header
<1>3. /\ CASE m.kind = DATA -> ProcessDataSubmessage(header)
           [] m.kind = HEARTBEAT -> ProcessHeartbeatSubmessage
           [] m.kind = ACKNACK -> ProcessAckNackSubmessage
           [] OTHER -> HandNothing
      /\ pos' = (pos + OctetsOf(m) + SubmessageHeaderSize) % DataSizes
      /\ todo' = todo
  BY <1>1, <1>2, Zenon
<1>4. pos' = pos + LengthOf(m)
  <2> DEFINE o == OctetsOf(m)
  <2>1. o \in Nat /\ LengthOf(m) = 4 + o /\ pos + 4 + o \in Nat /\ pos + 4 + o < 65536
    BY StandsFacts DEF Short
  <2> HIDE DEF o
  <2>2. (pos + o + 4) % 65536 = pos + (4 + o)
    BY <2>1, SMT
  <2> QED BY <1>3, <2>1, <2>2, SMT DEF o, SubmessageHeaderSize, DataSizes
<1>5. ASSUME m.kind = DATA PROVE HandsRight(m)
  <2>1. ProcessDataSubmessage(header)
    BY <1>3, <1>5, KindsDiffer
  <2> QED BY <1>5, <2>1, DataHands, Zenon DEF header
<1>6. ASSUME m.kind = HEARTBEAT PROVE HandsRight(m)
  <2>1. ProcessHeartbeatSubmessage
    BY <1>3, <1>6, KindsDiffer
  <2> QED BY <1>6, <2>1, HeartbeatHands, Zenon
<1>7. ASSUME m.kind = ACKNACK PROVE HandsRight(m)
  <2>1. ProcessAckNackSubmessage
    BY <1>3, <1>7, KindsDiffer
  <2> QED BY <1>7, <2>1, AckNackHands, Zenon
<1>8. ASSUME m.kind \notin {DATA, HEARTBEAT, ACKNACK} PROVE HandsRight(m)
  <2>1. handed' = handed
    BY <1>3, <1>8 DEF HandNothing
  <2>2. Meant(Current, packet.prefix, m) = <<>>
    BY <1>8 DEF Meant
  <2> QED BY <2>1, <2>2 DEF HandsRight
<1>9. HandsRight(m)
  BY <1>5, <1>6, <1>7, <1>8
<1> QED BY <1>3, <1>4, <1>9

-----------------------------------------------------------------------------
(* What a participant should have been handed after each submessage. *)

LEMMA MeantIsOneAtMost ==
  ASSUME NEW p, NEW prefix, NEW m
  PROVE  Meant(p, prefix, m) = <<>> \/ \E x : Meant(p, prefix, m) = <<x>>
<1>1. CASE m.kind \in {DATA, HEARTBEAT, ACKNACK}
  BY <1>1, MeantOf, Zenon
<1>2. CASE m.kind \notin {DATA, HEARTBEAT, ACKNACK}
  BY <1>2 DEF Meant
<1> QED BY <1>1, <1>2

MeantStep(p, prefix, subs, it) ==
  [T \in SUBSET DOMAIN subs |->
     IF T = {} THEN <<>> ELSE it[T \ {Max(T)}] \o Meant(p, prefix, subs[Max(T)])]

MeantFold(p, prefix, subs) == CHOOSE it : it = MeantStep(p, prefix, subs, it)

LEMMA MeantIsFold ==
  \A p, prefix, subs : MeantBy(p, prefix, subs) = MeantFold(p, prefix, subs)[DOMAIN subs]
BY DEF MeantBy, FoldLeft, MapThenFoldSet, MeantFold, MeantStep

MeantTable(p, prefix, subs, n, mt) ==
  /\ mt[0] = <<>>
  /\ \A k \in 1 .. n : mt[k] = mt[k - 1] \o Meant(p, prefix, subs[k])
  /\ mt[n] = MeantBy(p, prefix, subs)
  /\ \E S : \A k \in 0 .. n : mt[k] \in Seq(S)

LEMMA MeantTabled ==
  ASSUME NEW p, NEW prefix, NEW n \in Nat, NEW subs, DOMAIN subs = 1 .. n
  PROVE  \E mt : MeantTable(p, prefix, subs, n, mt)
<1> DEFINE M == {Meant(p, prefix, subs[k])[1] : k \in 1 .. n}
           V == Seq(M)
           steps == [k \in 1 .. n |-> [s \in V |-> s \o Meant(p, prefix, subs[k])]]
           it == MeantFold(p, prefix, subs)
           mt == [k \in 0 .. n |-> it[1 .. k]]
<1>1. \A k \in 1 .. n : Meant(p, prefix, subs[k]) \in V
  <2> TAKE k \in 1 .. n
  <2> DEFINE w == Meant(p, prefix, subs[k])
  <2>1. w = <<>> \/ \E x : w = <<x>>
    BY MeantIsOneAtMost
  <2>2. w[1] \in M
    OBVIOUS
  <2> HIDE DEF M, w
  <2>3. ASSUME NEW x, w = <<x>> PROVE w \in Seq(M)
    <3>1. x \in M
      BY <2>2, <2>3
    <3>2. <<x>> \in Seq(M)
      BY <3>1
    <3> QED BY <2>3, <3>2, Zenon
  <2>4. <<>> \in Seq(M)
    OBVIOUS
  <2>5. w \in Seq(M)
    BY <2>1, <2>3, <2>4, Zenon
  <2> QED BY <2>5 DEF w
<1>2. <<>> \in V
  OBVIOUS
<1>3. \A s, t \in V : s \o t \in V
  <2> HIDE DEF M
  <2> QED OBVIOUS
<1> HIDE DEF V, M
<1>4. \A k \in 1 .. n : \A s \in V :
        steps[k][s] = s \o Meant(p, prefix, subs[k]) /\ steps[k][s] \in V
  BY <1>1, <1>3
<1> HIDE DEF steps
<1>5. PICK table : Folds(n, V, <<>>, steps, table)
  BY <1>2, <1>4, Folded
<1>6. table = MeantStep(p, prefix, subs, table)
  <2>1. table = [T \in SUBSET (1 .. n) |-> table[T]]
    BY <1>5 DEF Folds
  <2>2. ASSUME NEW T \in SUBSET (1 .. n), T # {}
        PROVE  table[T] = table[T \ {Max(T)}] \o Meant(p, prefix, subs[Max(T)])
    <3>1. Max(T) \in 1 .. n /\ table[T] = steps[Max(T)][table[T \ {Max(T)}]]
      BY <1>5, <2>2 DEF Folds
    <3>2. T \ {Max(T)} \in SUBSET (1 .. n)
      OBVIOUS
    <3>3. table[T \ {Max(T)}] \in V
      BY <1>5, <3>2 DEF Folds
    <3> QED BY <1>4, <3>1, <3>3
  <2>3. table[{}] = <<>>
    BY <1>5 DEF Folds
  <2> DEFINE Val(T) == IF T = {} THEN <<>>
                       ELSE table[T \ {Max(T)}] \o Meant(p, prefix, subs[Max(T)])
  <2>4. \A T \in SUBSET (1 .. n) : table[T] = Val(T)
    BY <2>2, <2>3
  <2>5. MeantStep(p, prefix, subs, table) = [T \in SUBSET (1 .. n) |-> Val(T)]
    <3>1. MeantStep(p, prefix, subs, table) = [T \in SUBSET DOMAIN subs |-> Val(T)]
      BY DEF MeantStep
    <3> HIDE DEF Val
    <3> QED BY <3>1
  <2> HIDE DEF Val
  <2>6. [T \in SUBSET (1 .. n) |-> table[T]] = [T \in SUBSET (1 .. n) |-> Val(T)]
    BY <2>4
  <2> QED BY <2>1, <2>5, <2>6, Zenon
<1>7. it = MeantStep(p, prefix, subs, it)
  BY <1>6 DEF MeantFold
<1>8. it[{}] = <<>>
  <2>1. {} \in SUBSET DOMAIN subs
    OBVIOUS
  <2> QED BY <1>7, <2>1, Zenon DEF MeantStep
<1>9. ASSUME NEW k \in 1 .. n
      PROVE  it[1 .. k] = it[1 .. k - 1] \o Meant(p, prefix, subs[k])
  <2>1. Max(1 .. k) = k /\ (1 .. k) \ {k} = 1 .. k - 1 /\ 1 .. k # {}
    <3>1. k \in Nat /\ k # 0
      OBVIOUS
    <3> QED BY <3>1, IntervalMax, Zenon
  <2>2. 1 .. k \in SUBSET DOMAIN subs
    OBVIOUS
  <2>3. it[1 .. k] = it[(1 .. k) \ {Max(1 .. k)}] \o Meant(p, prefix, subs[Max(1 .. k)])
    BY <1>7, <2>1, <2>2, Zenon DEF MeantStep
  <2> QED BY <2>1, <2>3, Zenon
<1> HIDE DEF it
<1>10. mt[0] = <<>>
  <2>1. 1 .. 0 = {} /\ 0 \in 0 .. n
    OBVIOUS
  <2> QED BY <1>8, <2>1
<1>11. mt[n] = MeantBy(p, prefix, subs)
  <2>1. n \in 0 .. n
    OBVIOUS
  <2>2. MeantBy(p, prefix, subs) = it[1 .. n]
    BY MeantIsFold DEF it
  <2> QED BY <2>1, <2>2
<1>12. \A k \in 1 .. n : mt[k] = mt[k - 1] \o Meant(p, prefix, subs[k])
  <2> TAKE k \in 1 .. n
  <2>1. k \in 0 .. n /\ k - 1 \in 0 .. n
    OBVIOUS
  <2> QED BY <1>9, <2>1
<1> HIDE DEF mt
<1>13. \A k \in 0 .. n : mt[k] \in V
  <2> DEFINE T == {k \in Nat : k <= n => mt[k] \in V}
  <2>1. 0 \in T
    BY <1>2, <1>10
  <2>2. ASSUME NEW k \in Nat, k \in T PROVE k + 1 \in T
    <3>1. CASE k + 1 <= n
      <4>1. k + 1 \in 1 .. n /\ k + 1 - 1 = k /\ mt[k] \in V
        BY <2>2, <3>1
      <4>2. mt[k + 1] = mt[k] \o Meant(p, prefix, subs[k + 1])
        <5>1. PICK j \in 1 .. n : j = k + 1 /\ j - 1 = k
          BY <4>1
        <5>2. mt[j] = mt[j - 1] \o Meant(p, prefix, subs[j])
          BY <1>12
        <5> QED BY <5>1, <5>2, Zenon
      <4>3. Meant(p, prefix, subs[k + 1]) \in V
        BY <1>1, <4>1
      <4>4. mt[k + 1] \in V
        BY <1>3, <4>1, <4>2, <4>3, Zenon
      <4> QED BY <4>4
    <3> QED BY <3>1
  <2> HIDE DEF T
  <2>3. Nat \subseteq T
    BY <2>1, <2>2, NatSetInduction
  <2> QED BY <2>3 DEF T
<1>14. MeantTable(p, prefix, subs, n, mt)
  BY <1>10, <1>11, <1>12, <1>13, Zenon DEF MeantTable, V
<1> QED BY <1>14

-----------------------------------------------------------------------------
(* What the endpoints have been handed so far. *)

\* The participant has been handed what the submessages it has read mean.
Reading(p) ==
  \E n \in Nat : \E at, mt :
    /\ DOMAIN packet.subs = 1 .. n
    /\ Written(packet.prefix, packet.subs, n, packet.bytes, at)
    /\ MeantTable(p, packet.prefix, packet.subs, n, mt)
    /\ \E k \in 0 .. n : pos = at[k] /\ Messages(p) = mt[k]

Answered(p) == Messages(p) = MeantBy(p, packet.prefix, packet.subs)

Handing ==
  /\ handed = [p \in Participants |-> handed[p]]
  /\ \A p \in Participants : \E S : handed[p] \in Seq(S)

Understanding ==
  /\ Handing
  /\ stage = "sent" => \A p \in Participants : handed[p] = <<>>
  /\ stage = "routed" =>
       /\ \A p \in Waiting : handed[p] = <<>>
       /\ \A p \in processed : Intelligible(p) =>
            IF pos # BeforeHeader /\ p = Current THEN Reading(p) ELSE Answered(p)

LEMMA MessageAppended ==
  ASSUME NEW S, NEW h \in Seq(S), NEW r
  PROVE  /\ \E R : Append(h, r) \in Seq(R)
         /\ [i \in DOMAIN Append(h, r) |-> Append(h, r)[i].message]
              = [i \in DOMAIN h |-> h[i].message] \o <<r.message>>
<1> DEFINE R == S \cup {r}
           g == Append(h, r)
           M == {h[i].message : i \in DOMAIN h}
           t == [i \in DOMAIN h |-> h[i].message]
           u == [i \in DOMAIN g |-> g[i].message]
           x == r.message
<1>1. PICK n \in Nat : n = Len(h) /\ DOMAIN h = 1 .. n
  OBVIOUS
<1>2. h \in Seq(R) /\ r \in R
  OBVIOUS
<1>3. g \in Seq(R) /\ DOMAIN g = 1 .. n + 1 /\ g[n + 1] = r /\ \A i \in 1 .. n : g[i] = h[i]
  <2> HIDE DEF R
  <2> QED BY <1>1, <1>2
<1>4. t \in Seq(M) /\ Len(t) = n /\ \A i \in 1 .. n : t[i] = h[i].message
  <2>1. t \in [1 .. n -> M]
    BY <1>1
  <2> HIDE DEF t, M
  <2>2. t \in Seq(M) /\ Len(t) = n
    BY <2>1, SeqDef
  <2> QED BY <1>1, <2>2 DEF t
<1> HIDE DEF t, M, x, g
<1>5. DOMAIN u = 1 .. n + 1 /\ u[n + 1] = x /\ \A i \in 1 .. n : u[i] = t[i]
  BY <1>1, <1>3, <1>4 DEF x
<1>6. u = [i \in 1 .. n + 1 |-> u[i]]
  BY <1>5
<1> HIDE DEF u
<1>7. t \o <<x>> = [i \in 1 .. n + 1 |-> IF i <= n THEN t[i] ELSE x]
  BY <1>4
<1>8. \A i \in 1 .. n + 1 : u[i] = IF i <= n THEN t[i] ELSE x
  <2> TAKE i \in 1 .. n + 1
  <2>1. CASE i <= n
    BY <1>5, <2>1
  <2>2. CASE ~(i <= n)
    <3>1. i = n + 1
      BY <2>2
    <3> QED BY <1>5, <2>2, <3>1
  <2> QED BY <2>1, <2>2
<1>9. u = t \o <<x>>
  BY <1>6, <1>7, <1>8
<1> QED BY <1>3, <1>9 DEF t, u, x, g

\* What a participant is handed is its own, and the others' stays as it was.
LEMMA HandedOn ==
  ASSUME Handing, Current \in Participants,
         handed' = handed \/ \E x, l : HandsOn(x, l)
  PROVE  Handing' /\ \A p \in Participants \ {Current} : handed'[p] = handed[p]
<1>1. CASE handed' = handed
  BY <1>1 DEF Handing
<1>2. ASSUME NEW x, NEW l, HandsOn(x, l)
      PROVE  Handing' /\ \A p \in Participants \ {Current} : handed'[p] = handed[p]
  <2> DEFINE r == [message |-> x, list |-> l]
  <2>1. handed' = [handed EXCEPT ![Current] = Append(@, r)]
    BY <1>2 DEF HandsOn
  <2> HIDE DEF r
  <2>2. handed = [p \in Participants |-> handed[p]]
    BY DEF Handing
  <2>3. handed' = [p \in Participants |-> handed'[p]]
    BY <2>1, <2>2
  <2>4. handed'[Current] = Append(handed[Current], r)
    BY <2>1, <2>2
  <2>5. \A p \in Participants \ {Current} : handed'[p] = handed[p]
    BY <2>1, <2>2
  <2>6. \E S : handed'[Current] \in Seq(S)
    <3>1. PICK S : handed[Current] \in Seq(S)
      BY DEF Handing
    <3> DEFINE h == handed[Current]
    <3>2. h \in Seq(S)
      BY <3>1
    <3> HIDE DEF h
    <3>3. \E R : Append(h, r) \in Seq(R)
      BY <3>2, MessageAppended
    <3> QED BY <2>4, <3>3, Zenon DEF h
  <2>7. \A p \in Participants : \E S : handed'[p] \in Seq(S)
    <3> TAKE p \in Participants
    <3>1. CASE p = Current
      BY <2>6, <3>1
    <3>2. CASE p # Current
      <4>1. PICK S : handed[p] \in Seq(S)
        BY DEF Handing
      <4>2. handed'[p] = handed[p]
        BY <2>5, <3>2
      <4> QED BY <4>1, <4>2
    <3> QED BY <3>1, <3>2
  <2> QED BY <2>3, <2>5, <2>7 DEF Handing
<1> QED BY <1>1, <1>2

LEMMA HandsAny ==
  ASSUME ProcessSubmessage
  PROVE  handed' = handed \/ \E x, l : HandsOn(x, l)
<1> DEFINE header == DeserializeSubmessageHeader(packet.bytes, pos)
           Some == handed' = handed \/ \E x, l : HandsOn(x, l)
<1>1. \/ HandNothing \/ ProcessDataSubmessage(header)
      \/ ProcessHeartbeatSubmessage \/ ProcessAckNackSubmessage
  <2>1. IF ~header.ok THEN Return /\ HandNothing
        ELSE CASE header.submessageId = DATA -> ProcessDataSubmessage(header)
               [] header.submessageId = HEARTBEAT -> ProcessHeartbeatSubmessage
               [] header.submessageId = ACKNACK -> ProcessAckNackSubmessage
               [] OTHER -> HandNothing
    BY Zenon DEF ProcessSubmessage
  <2> QED BY <2>1, KindsDiffer
<1> HIDE DEF header
<1>2. HandNothing => Some
  BY DEF HandNothing
<1>3. \A x, l : HandOn(x, l) => Some
  BY Zenon DEF HandOn, HandsOn
<1> HIDE DEF Some
<1>4. \A msg, data : LearnParticipant(msg, data) => Some
  BY <1>3, Zenon DEF LearnParticipant, LeaveUnread
<1>5. \A msg, reader, data : LearnTopic(msg, reader, data) => Some
  BY <1>3, Zenon DEF LearnTopic, LeaveUnread
<1>6. ProcessDataSubmessage(header) => Some
  BY <1>2, <1>3, <1>4, <1>5, Zenon DEF ProcessDataSubmessage
<1>7. ProcessHeartbeatSubmessage => Some
  BY <1>2, <1>3, Zenon DEF ProcessHeartbeatSubmessage
<1>8. ProcessAckNackSubmessage => Some
  BY <1>2, <1>3, Zenon DEF ProcessAckNackSubmessage
<1> QED BY <1>1, <1>2, <1>6, <1>7, <1>8 DEF Some

\* Each submessage of a packet without DATA_FRAG stands behind the one before it.
LEMMA StandsThere ==
  ASSUME PacketRight, stage # "idle", NEW p, Intelligible(p),
         NEW n \in Nat, DOMAIN packet.subs = 1 .. n, NEW at,
         Written(packet.prefix, packet.subs, n, packet.bytes, at), NEW k \in 0 .. n, k # n
  PROVE  LET m == packet.subs[k + 1]
         IN  /\ StandsAt(packet.bytes, at[k], m)
             /\ at[k + 1] = at[k] + LengthOf(m) /\ at[k] < at[k + 1] /\ at[k + 1] <= Len(packet.bytes)
             /\ m.kind = DATA /\ m.reader = ENTITYID_UNKNOWN
                  => packet.prefix \o m.writer \in DOMAIN Matched[p]
<1>1. PICK j \in 1 .. n : j = k + 1 /\ j - 1 = k
  OBVIOUS
<1> DEFINE m == packet.subs[j]
<1>2. WellFormed(m) /\ Len(packet.bytes) < DataSizes
  BY PacketWritten
<1>3. /\ m.kind # DATA_FRAG
      /\ m.kind = DATA /\ m.reader = ENTITYID_UNKNOWN
           => packet.prefix \o m.writer \in DOMAIN Matched[p]
  BY Zenon DEF Intelligible
<1>4. /\ packet.bytes \in Seq(Cell) /\ at \in [0 .. n -> Nat] /\ at[j] <= Len(packet.bytes)
      /\ at[j] = at[j - 1] + LengthOf(m)
      /\ Holds(packet.bytes, at[j - 1], HeadOf(m)) /\ Holds(packet.bytes, at[j - 1] + 4, BodyOf(m))
  <2>1. j \in 0 .. n
    OBVIOUS
  <2> QED BY <2>1, Zenon DEF Written
<1>5. at[k] \in Nat
  BY <1>4
<1> HIDE DEF m
<1>6. StandsAt(packet.bytes, at[k], m)
  BY <1>1, <1>2, <1>3, <1>4, <1>5, Zenon DEF StandsAt
<1>7. LengthOf(m) \in Nat /\ LengthOf(m) > 0
  BY <1>6, StandsFacts
<1>8. at[k] < at[j]
  BY <1>1, <1>4, <1>5, <1>7
<1> QED BY <1>1, <1>3, <1>4, <1>6, <1>8, Zenon DEF m

LEMMA MessagesAfter ==
  ASSUME Handing, Current \in Participants, NEW x, NEW l, HandsOn(x, l), Current' = Current
  PROVE  Messages(Current)' = Messages(Current) \o <<x>>
<1> DEFINE c == Current  h == handed[c]  r == [message |-> x, list |-> l]
<1>1. PICK S : h \in Seq(S)
  BY DEF Handing
<1>2. handed'[c] = Append(h, r)
  <2>1. handed = [p \in Participants |-> handed[p]]
    BY DEF Handing
  <2>2. handed' = [handed EXCEPT ![c] = Append(@, r)]
    BY Zenon DEF HandsOn
  <2> HIDE DEF c, r
  <2>3. c \in Participants
    BY DEF c
  <2> QED BY <2>1, <2>2, <2>3
<1>3. r.message = x
  OBVIOUS
<1>4. /\ Messages(c)' = [i \in DOMAIN handed'[c] |-> handed'[c][i].message]
      /\ Messages(c) = [i \in DOMAIN h |-> h[i].message]
  BY Zenon DEF Messages
<1> HIDE DEF h, r, c
<1>5. [i \in DOMAIN Append(h, r) |-> Append(h, r)[i].message]
        = [i \in DOMAIN h |-> h[i].message] \o <<r.message>>
  BY <1>1, MessageAppended, Zenon
<1>6. Messages(c)' = Messages(c) \o <<x>>
  BY <1>2, <1>3, <1>4, <1>5, Zenon
<1> QED BY <1>6 DEF c

\* One more submessage read.
LEMMA ReadingGoesOn ==
  ASSUME Routing, PacketRight, Handing, ProcessSubmessage,
         Intelligible(Current), Reading(Current)
  PROVE  todo' = todo /\ Reading(Current)'
<1>1. /\ Processing /\ pos # BeforeHeader /\ pos < Len(packet.bytes)
      /\ packet' = packet
  BY SubmessageStep
<1>2. /\ stage # "idle" /\ Current \in Participants /\ pos \in Nat /\ source = packet.prefix
  BY <1>1, ProcessingFacts
<1>3a. PICK n \in Nat : \E at, mt :
        /\ DOMAIN packet.subs = 1 .. n
        /\ Written(packet.prefix, packet.subs, n, packet.bytes, at)
        /\ MeantTable(Current, packet.prefix, packet.subs, n, mt)
        /\ \E k \in 0 .. n : pos = at[k] /\ Messages(Current) = mt[k]
  BY Zenon DEF Reading
<1>3. PICK at, mt :
        /\ DOMAIN packet.subs = 1 .. n
        /\ Written(packet.prefix, packet.subs, n, packet.bytes, at)
        /\ MeantTable(Current, packet.prefix, packet.subs, n, mt)
        /\ \E k \in 0 .. n : pos = at[k] /\ Messages(Current) = mt[k]
  BY <1>3a
<1>4. PICK k \in 0 .. n : pos = at[k] /\ Messages(Current) = mt[k]
  BY <1>3
<1>5. k # n
  <2>1. at[n] = Len(packet.bytes) /\ at[n] \in Nat
    <3>1. n \in 0 .. n
      OBVIOUS
    <3> QED BY <1>3, <3>1 DEF Written
  <2> QED BY <1>1, <1>4, <2>1
<1> DEFINE m == packet.subs[k + 1]
<1>6. /\ StandsAt(packet.bytes, pos, m) /\ at[k + 1] = pos + LengthOf(m)
      /\ m.kind = DATA /\ m.reader = ENTITYID_UNKNOWN
           => packet.prefix \o m.writer \in DOMAIN Matched[Current]
  BY <1>2, <1>3, <1>4, <1>5, StandsThere, Zenon
<1> HIDE DEF m
<1>7. pos' = pos + LengthOf(m) /\ todo' = todo /\ HandsRight(m)
  BY <1>2, <1>6, SubmessageRead, Zenon
<1>8. Current' = Current
  BY <1>7 DEF Current
<1>9. mt[k + 1] = mt[k] \o Meant(Current, packet.prefix, m) /\ k + 1 \in 0 .. n
  <2>1. PICK j \in 1 .. n : j = k + 1 /\ j - 1 = k /\ j \in 0 .. n
    BY <1>5
  <2>2. mt[j] = mt[j - 1] \o Meant(Current, packet.prefix, packet.subs[j])
    BY <1>3, Zenon DEF MeantTable
  <2> QED BY <2>1, <2>2, Zenon DEF m
<1>10. Messages(Current)' = mt[k + 1]
  <2>1. CASE Meant(Current, packet.prefix, m) = <<>> /\ handed' = handed
    <3>1. PICK S : mt[k] \in Seq(S)
      BY <1>3, Zenon DEF MeantTable
    <3>2. mt[k] \o <<>> = mt[k]
      BY <3>1
    <3>3. Messages(Current)' = Messages(Current)
      BY <1>8, <2>1, Zenon DEF Messages
    <3> QED BY <1>4, <1>9, <2>1, <3>2, <3>3, Zenon
  <2>2. ASSUME NEW x, NEW l, Meant(Current, packet.prefix, m) = <<x>>, HandsOn(x, l)
        PROVE  Messages(Current)' = mt[k + 1]
    <3>1. Messages(Current)' = Messages(Current) \o <<x>>
      BY <1>2, <1>8, <2>2, MessagesAfter
    <3> QED BY <1>4, <1>9, <2>2, <3>1, Zenon
  <2> QED BY <1>7, <2>1, <2>2, Zenon DEF HandsRight
<1>11. pos' = at[k + 1]
  BY <1>6, <1>7, Zenon
<1>12. Reading(Current)'
  BY <1>1, <1>3, <1>8, <1>9, <1>10, <1>11, Zenon DEF Reading
<1> QED BY <1>7, <1>12

\* The whole packet read.
LEMMA ReadingIsOver ==
  ASSUME Routing, PacketRight, EndOfMessage, Intelligible(Current), Reading(Current)
  PROVE  Answered(Current)
<1>1. Processing /\ pos >= Len(packet.bytes)
  BY DEF EndOfMessage
<1>2. stage # "idle"
  BY <1>1, ProcessingFacts
<1>3a. PICK n \in Nat : \E at, mt :
        /\ DOMAIN packet.subs = 1 .. n
        /\ Written(packet.prefix, packet.subs, n, packet.bytes, at)
        /\ MeantTable(Current, packet.prefix, packet.subs, n, mt)
        /\ \E k \in 0 .. n : pos = at[k] /\ Messages(Current) = mt[k]
  BY Zenon DEF Reading
<1>3. PICK at, mt :
        /\ DOMAIN packet.subs = 1 .. n
        /\ Written(packet.prefix, packet.subs, n, packet.bytes, at)
        /\ MeantTable(Current, packet.prefix, packet.subs, n, mt)
        /\ \E k \in 0 .. n : pos = at[k] /\ Messages(Current) = mt[k]
  BY <1>3a
<1>4. PICK k \in 0 .. n : pos = at[k] /\ Messages(Current) = mt[k]
  BY <1>3
<1>5. k = n
  <2> SUFFICES ASSUME k # n PROVE FALSE
    OBVIOUS
  <2>1. at[k] < at[k + 1] /\ at[k + 1] <= Len(packet.bytes)
    BY <1>2, <1>3, StandsThere, Zenon
  <2>2. at[k] \in Nat /\ at[k + 1] \in Nat /\ Len(packet.bytes) \in Nat
    <3>1. k + 1 \in 0 .. n
      OBVIOUS
    <3> QED BY <1>3, <3>1 DEF Written
  <2> QED BY <1>1, <1>4, <2>1, <2>2
<1> QED BY <1>3, <1>4, <1>5, Zenon DEF MeantTable, Answered

LEMMA UnderstandingInit == Init => Understanding
<1> SUFFICES ASSUME Init PROVE Understanding
  OBVIOUS
<1>1. handed = [p \in Participants |-> <<>>] /\ stage = "idle"
  BY DEF Init
<1>2. \A p \in Participants : handed[p] \in Seq({})
  BY <1>1
<1>3. Handing
  BY <1>1, <1>2 DEF Handing
<1> QED BY <1>1, <1>3 DEF Understanding

\* Neither what was handed on nor the packet changes.
LEMMA SameAnswers ==
  ASSUME packet' = packet, NEW p, handed'[p] = handed[p]
  PROVE  /\ Messages(p)' = Messages(p)
         /\ Intelligible(p)' = Intelligible(p) /\ Answered(p)' = Answered(p)
<1>1. Messages(p)' = Messages(p)
  BY Zenon DEF Messages
<1>2. Intelligible(p)' = Intelligible(p)
  BY Zenon DEF Intelligible
<1> QED BY <1>1, <1>2, Zenon DEF Answered

LEMMA UnderstandingHeader ==
  ASSUME Understanding, Routing, PacketRight, ProcessHeader
  PROVE  Understanding'
<1>1. /\ Processing /\ pos = BeforeHeader
      /\ stage' = stage /\ packet' = packet /\ handed' = handed
      /\ \/ /\ pos' = 20 /\ processed' = processed \cup {Current} /\ todo' = todo
         \/ /\ processed' = processed /\ todo' = todo \ {Current} /\ pos' = BeforeHeader
  BY HeaderStep
<1>2. /\ stage = "routed" /\ stage # "idle" /\ Current \in todo /\ todo \subseteq Participants
  BY <1>1, ProcessingFacts
<1>3. \A p \in todo : handed[p] = <<>>
  BY <1>1, <1>2, Zenon DEF Understanding, Waiting
<1>4. \A p \in processed : Intelligible(p) => Answered(p)
  BY <1>1, <1>2, Zenon DEF Understanding
<1>5. \A p : /\ Intelligible(p)' = Intelligible(p) /\ Answered(p)' = Answered(p)
  BY <1>1, SameAnswers
<1>6. Handing'
  BY <1>1 DEF Understanding, Handing
<1>7. stage' = "routed"
  BY <1>1, <1>2
<1>8. Waiting' \subseteq todo
  BY <1>1 DEF Waiting
<1>9. \A p \in Waiting' : handed'[p] = <<>>
  BY <1>1, <1>3, <1>8
<1>10. ASSUME NEW p \in processed', Intelligible(p)'
       PROVE  IF pos' # BeforeHeader /\ p = Current' THEN Reading(p)' ELSE Answered(p)'
  <2>1. Intelligible(p)
    BY <1>5, <1>10
  <2>2. CASE pos' = BeforeHeader \/ p # Current'
    <3>1. p \in processed
      <4>1. pos' = 20 => Current' = Current /\ pos' # BeforeHeader
        BY <1>1 DEF Current, BeforeHeader
      <4> QED BY <1>1, <2>2, <4>1
    <3> QED BY <1>4, <1>5, <2>1, <2>2, <3>1
  <2>3. CASE pos' # BeforeHeader /\ p = Current'
    <3>1. pos' = 20 /\ todo' = todo
      BY <1>1, <2>3
    <3>2. Current' = Current
      BY <3>1 DEF Current
    <3>3a. PICK n \in Nat : \E at :
            /\ DOMAIN packet.subs = 1 .. n
            /\ Written(packet.prefix, packet.subs, n, packet.bytes, at)
      BY <1>2, PacketWritten
    <3>3. PICK at :
            /\ DOMAIN packet.subs = 1 .. n
            /\ Written(packet.prefix, packet.subs, n, packet.bytes, at)
      BY <3>3a
    <3>4. PICK mt : MeantTable(p, packet.prefix, packet.subs, n, mt)
      BY <3>3, MeantTabled
    <3>5. at[0] = 20 /\ mt[0] = <<>> /\ 0 \in 0 .. n
      BY <3>3, <3>4 DEF Written, MeantTable
    <3>6. Messages(p)' = <<>>
      <4>1. handed'[p] = <<>>
        BY <1>1, <1>2, <1>3, <2>3, <3>2
      <4> QED BY <4>1 DEF Messages
    <3>7. Reading(p)'
      BY <1>1, <3>1, <3>3, <3>4, <3>5, <3>6, Zenon DEF Reading
    <3> QED BY <2>3, <3>7
  <2> QED BY <2>2, <2>3
<1> QED BY <1>6, <1>7, <1>9, <1>10, Zenon DEF Understanding

LEMMA UnderstandingSubmessage ==
  ASSUME Understanding, Routing, PacketRight, ProcessSubmessage
  PROVE  Understanding'
<1>1. /\ Processing /\ pos # BeforeHeader /\ pos < Len(packet.bytes)
      /\ stage' = stage /\ packet' = packet /\ processed' = processed
      /\ \/ todo' = todo \ {Current} /\ pos' = BeforeHeader
         \/ todo' = todo /\ pos' \in Nat
  BY SubmessageStep
<1>2. /\ stage = "routed" /\ stage # "idle" /\ Current \in todo
      /\ todo \subseteq Participants /\ Current \in Participants
      /\ processed \subseteq Participants
  BY <1>1, ProcessingFacts
<1>3. Handing' /\ \A p \in Participants \ {Current} : handed'[p] = handed[p]
  BY <1>2, HandsAny, HandedOn DEF Understanding
<1>4. Waiting' = todo \ {Current} /\ Waiting = todo \ {Current}
  <2>1. pos' \in Nat => pos' # BeforeHeader
    BY DEF BeforeHeader
  <2>2. todo' = todo => Current' = Current
    BY DEF Current
  <2>3. todo \ {Current} # todo
    BY <1>2
  <2> QED BY <1>1, <2>1, <2>2, <2>3 DEF Waiting
<1>5. \A p \in Waiting' : handed'[p] = <<>>
  <2>1. \A p \in Waiting : handed[p] = <<>>
    BY <1>2, Zenon DEF Understanding
  <2> QED BY <1>2, <1>3, <1>4, <2>1
<1>6. ASSUME NEW p \in processed', Intelligible(p)'
      PROVE  IF pos' # BeforeHeader /\ p = Current' THEN Reading(p)' ELSE Answered(p)'
  <2>1. p \in processed /\ p \in Participants
    BY <1>1, <1>2
  <2>2. Intelligible(p)
    BY <1>1, <1>6, Zenon DEF Intelligible
  <2>3. CASE p # Current
    <3>1. Answered(p)
      BY <1>1, <1>2, <2>1, <2>2, <2>3, Zenon DEF Understanding
    <3>2. handed'[p] = handed[p]
      BY <1>3, <2>1, <2>3
    <3>3. Answered(p)'
      BY <1>1, <3>1, <3>2, SameAnswers
    <3>4. ~(pos' # BeforeHeader /\ p = Current')
      <4>1. pos' # BeforeHeader => Current' = Current
        BY <1>1 DEF Current
      <4> QED BY <2>3, <4>1
    <3> QED BY <3>3, <3>4
  <2>4. CASE p = Current
    <3>1. Reading(Current) /\ Intelligible(Current)
      BY <1>1, <1>2, <2>1, <2>2, <2>4, Zenon DEF Understanding
    <3>2. todo' = todo /\ Reading(Current)'
      BY <3>1, ReadingGoesOn DEF Understanding
    <3>3. Current' = Current /\ pos' # BeforeHeader
      <4>1. todo' # todo \ {Current}
        BY <1>2, <3>2
      <4> QED BY <1>1, <3>2, <4>1 DEF Current, BeforeHeader
    <3> QED BY <2>4, <3>2, <3>3, Zenon DEF Reading
  <2> QED BY <2>3, <2>4
<1> QED BY <1>1, <1>2, <1>3, <1>5, <1>6, Zenon DEF Understanding

LEMMA UnderstandingEnd ==
  ASSUME Understanding, Routing, PacketRight, EndOfMessage
  PROVE  Understanding'
<1>1. /\ Processing /\ pos # BeforeHeader /\ todo' = todo \ {Current} /\ pos' = BeforeHeader
      /\ stage' = stage /\ packet' = packet /\ processed' = processed /\ handed' = handed
  BY DEF EndOfMessage, Return
<1>2. stage = "routed"
  BY <1>1, ProcessingFacts
<1>3. Waiting' = Waiting
  BY <1>1 DEF Waiting
<1>4. Handing' /\ \A p \in Waiting' : handed'[p] = <<>>
  BY <1>1, <1>2, <1>3 DEF Understanding, Handing
<1>5. ASSUME NEW p \in processed', Intelligible(p)'
      PROVE  Answered(p)'
  <2>1. Intelligible(p) /\ p \in processed
    BY <1>1, <1>5, SameAnswers
  <2>2. Answered(p)
    <3>1. IF p = Current THEN Reading(p) ELSE Answered(p)
      BY <1>1, <1>2, <2>1, Zenon DEF Understanding
    <3> QED BY <2>1, <3>1, ReadingIsOver
  <2> QED BY <1>1, <2>2, SameAnswers
<1> QED BY <1>1, <1>2, <1>4, <1>5, Zenon DEF Understanding

LEMMA UnderstandingStep ==
  ASSUME Understanding, Routing, PacketRight, [Next]_vars
  PROVE  Understanding'
<1>1. CASE UNCHANGED vars
  <2>1. /\ stage' = stage /\ packet' = packet /\ handed' = handed /\ todo' = todo
        /\ pos' = pos /\ processed' = processed
    BY <1>1 DEF vars
  <2>2. Handing' /\ Waiting' = Waiting /\ Current' = Current
    BY <2>1 DEF Understanding, Handing, Waiting, Current
  <2>3. \A p : /\ Intelligible(p)' = Intelligible(p) /\ Answered(p)' = Answered(p)
               /\ Reading(p)' = Reading(p)
    <3>1. \A p : Messages(p)' = Messages(p)
      BY <2>1, SameAnswers
    <3> QED BY <2>1, <3>1, SameAnswers, Zenon DEF Reading
  <2> QED BY <2>1, <2>2, <2>3 DEF Understanding
<1>2. ASSUME NEW c \in Compositions, NEW to \in Destinations, Send(c, to)
      PROVE  Understanding'
  <2>1. stage' = "sent" /\ handed' = [p \in Participants |-> <<>>]
    BY <1>2, Zenon DEF Send
  <2>2. \A p \in Participants : handed'[p] = <<>> /\ handed'[p] \in Seq({})
    BY <2>1
  <2>3. Handing'
    BY <2>1, <2>2 DEF Handing
  <2> QED BY <2>1, <2>2, <2>3 DEF Understanding
<1>3. CASE NotForUs \/ NextPacket \/ \E p \in Participants : Forget(p)
  <2>1. stage' = "idle" /\ handed' = handed
    BY <1>3 DEF NotForUs, NextPacket, Forget
  <2> QED BY <2>1 DEF Understanding, Handing
<1>4. CASE ReceiveCallback
  <2>1. /\ stage = "sent" /\ stage' = "routed" /\ pos' = BeforeHeader
        /\ packet' = packet /\ processed' = processed /\ handed' = handed
        /\ PortOf(packet.to) \in Ports
        /\ todo' = Recipients(PortOf(packet.to), packet.to.address)
    BY <1>4 DEF ReceiveCallback
  <2>2. packet.to \in Destinations
    BY <2>1, PacketWritten
  <2>3. todo' \subseteq Participants
    BY <2>1, <2>2, RoutedRight
  <2>4. processed' = {}
    BY <2>1 DEF Routing
  <2>5. Handing' /\ \A p \in Participants : handed'[p] = <<>>
    BY <2>1 DEF Understanding, Handing
  <2>6. Waiting' \subseteq Participants
    BY <2>1, <2>3 DEF Waiting
  <2> QED BY <2>1, <2>4, <2>5, <2>6 DEF Understanding
<1>5. CASE ProcessHeader
  BY <1>5, UnderstandingHeader
<1>6. CASE ProcessSubmessage
  BY <1>6, UnderstandingSubmessage
<1>7. CASE EndOfMessage
  BY <1>7, UnderstandingEnd
<1> QED BY <1>1, <1>2, <1>3, <1>4, <1>5, <1>6, <1>7 DEF Next

(* The endpoints of a participant are handed every submessage that is for  *)
(* them, in the order of the packet, with the sender's GUID, the numbers   *)
(* and the bytes it was composed of, and nothing else, for every packet    *)
(* that is a datagram (MessageFactory, serializeMessage,                   *)
(* deserializeMessage, MessageReceiver).                                   *)
THEOREM UnderstoodAsMeant == Spec => []Understood
<1>1. Init => WireInv /\ Understanding
  BY PacketRightInit, RoutingInit, UnderstandingInit DEF WireInv
<1>2. WireInv /\ Understanding /\ [Next]_vars => (WireInv /\ Understanding)'
  BY PacketRightStep, RoutingStep, UnderstandingStep DEF WireInv
<1>3. WireInv /\ Understanding => Understood
  <2> SUFFICES ASSUME Routing, Understanding, Done, NEW p \in processed, Intelligible(p)
               PROVE  Messages(p) = MeantBy(p, packet.prefix, packet.subs)
    BY Zenon DEF WireInv, Understood
  <2>1. stage = "routed" /\ pos = BeforeHeader
    BY DEF Done, Routing
  <2>2. Answered(p)
    BY <2>1, Zenon DEF Understanding
  <2> QED BY <2>2, Zenon DEF Answered
<1> QED BY <1>1, <1>2, <1>3, PTL DEF Spec
=============================================================================
