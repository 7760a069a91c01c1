-------------------------- MODULE PublishingProofs --------------------------
(***************************************************************************)
(* Theorems about Publishing: whatever members a message class has, in     *)
(* whatever order and with whatever values, copyFromBuf reads what         *)
(* copyToBuf wrote, what publish sends through its buffer fits it, and     *)
(* the fragments of a message too long for it are what copyToBuf writes.   *)
(***************************************************************************)
EXTENDS Publishing, SequenceTheorems, NaturalsInduction, WellFoundedInduction, TLAPS

MemberNames(f) == IF f.kind = "custom" THEN {g.name : g \in Range(f.of)} ELSE {f.name}

\* Whatever a byte may belong to.
Names ==
  {"encapsulation", "size", "zero", "leftover", "sec", "nanosec", "frame_id"}
    \cup UNION {UNION {MemberNames(f) : f \in Range(c.writes)} : c \in Classes}

Octet == Names \X Nat \X Nat

Octets == Seq(Octet)

-----------------------------------------------------------------------------
(* The cursors. *)

\* A cursor of copyToBuf, with or without the counters of nested members.
Writer(c) ==
  /\ c = [x \in DOMAIN c |-> c[x]]
  /\ "cnt" \in DOMAIN c /\ "out" \in DOMAIN c
  /\ c.cnt \in Nat /\ c.out \in Octets

Readers == [cnt : Nat, at : Nat, buffer : Octets, got : Seq(Octets)]

\* A reader moves n bytes on, having read these members.
Take(r, n, s) == [cnt |-> r.cnt + n, at |-> r.at + n, buffer |-> r.buffer, got |-> r.got \o s]

LEMMA PutPut ==
  ASSUME NEW c, Writer(c), NEW s \in Octets, NEW t \in Octets
  PROVE  /\ Writer(Put(c, s)) /\ Put(c, s).cnt = c.cnt + Len(s) /\ Put(c, s).out = c.out \o s
         /\ Put(Put(c, s), t) = Put(c, s \o t)
         /\ s \o t \in Octets /\ Len(s \o t) = Len(s) + Len(t)
<1>1. /\ s \in Seq(Octet) /\ t \in Seq(Octet) /\ c.out \in Seq(Octet) /\ c.cnt \in Nat
      /\ c = [x \in DOMAIN c |-> c[x]] /\ "cnt" \in DOMAIN c /\ "out" \in DOMAIN c
  BY DEF Writer, Octets
<1> HIDE DEF Octet
<1>2. /\ Len(s) \in Nat /\ Len(t) \in Nat /\ Len(s \o t) = Len(s) + Len(t)
      /\ c.out \o s \in Seq(Octet) /\ s \o t \in Seq(Octet)
  BY <1>1
<1>3. (c.out \o s) \o t = c.out \o (s \o t)
  BY <1>1, ConcatAssociative, SMTT(20)
<1> DEFINE d == Put(c, s)
<1>4. /\ d = [x \in DOMAIN c |-> IF x = "out" THEN c.out \o s
                                 ELSE IF x = "cnt" THEN c.cnt + Len(s) ELSE c[x]]
  BY <1>1 DEF Put
<1>5. d.cnt = c.cnt + Len(s) /\ d.out = c.out \o s /\ DOMAIN d = DOMAIN c
  BY <1>1, <1>4
<1>6. Writer(d)
  <2>1. d = [x \in DOMAIN d |-> d[x]]
    BY <1>4
  <2> HIDE DEF d
  <2> QED BY <1>1, <1>2, <1>5, <2>1 DEF Writer, Octets
<1> DEFINE e == Put(d, t)
           g == Put(c, s \o t)
<1>7. g = [x \in DOMAIN c |-> IF x = "out" THEN c.out \o (s \o t)
                              ELSE IF x = "cnt" THEN c.cnt + Len(s \o t) ELSE c[x]]
  BY <1>1 DEF Put
<1>8. \A x \in DOMAIN c : x # "out" /\ x # "cnt" => d[x] = c[x]
  BY <1>4
<1> HIDE DEF d
<1>9. e = [x \in DOMAIN c |-> IF x = "out" THEN (c.out \o s) \o t
                              ELSE IF x = "cnt" THEN (c.cnt + Len(s)) + Len(t) ELSE c[x]]
  <2>1. e = [x \in DOMAIN d |-> IF x = "out" THEN d.out \o t
                                ELSE IF x = "cnt" THEN d.cnt + Len(t) ELSE d[x]]
    BY <1>6 DEF Put, Writer
  <2> QED BY <1>5, <1>8, <2>1
<1>10. (c.cnt + Len(s)) + Len(t) = c.cnt + Len(s \o t)
  BY <1>1, <1>2
<1>11. e = g
  BY <1>3, <1>7, <1>9, <1>10, Zenon
<1> QED BY <1>2, <1>5, <1>6, <1>11 DEF d, Octets

LEMMA PutNothing ==
  ASSUME NEW c, Writer(c)
  PROVE  Put(c, <<>>) = c
<1>1. c.out \o <<>> = c.out /\ c.cnt + Len(<<>>) = c.cnt
  BY DEF Writer, Octets
<1> QED BY <1>1 DEF Writer, Put

LEMMA Sums ==
  ASSUME NEW i \in Nat, NEW j \in Nat
  PROVE  \A a \in Nat : (a + i) + j = a + (i + j) /\ a + i \in Nat
OBVIOUS

LEMMA Joins ==
  ASSUME NEW S, NEW s \in Seq(S), NEW t \in Seq(S)
  PROVE  /\ s \o t \in Seq(S) /\ Len(s \o t) = Len(s) + Len(t)
         /\ \A q \in Seq(S) : (q \o s) \o t = q \o (s \o t) /\ q \o s \in Seq(S)
BY ConcatAssociative, SMTT(20)

LEMMA JoinsEmpty ==
  ASSUME NEW S, NEW s \in Seq(S)
  PROVE  s \o <<>> = s /\ <<>> \o s = s /\ <<>> \in Seq(S)
OBVIOUS

LEMMA ReaderFields ==
  ASSUME NEW r \in Readers
  PROVE  /\ r.cnt \in Nat /\ r.at \in Nat /\ r.buffer \in Octets /\ r.got \in Seq(Octets)
         /\ r = [cnt |-> r.cnt, at |-> r.at, buffer |-> r.buffer, got |-> r.got]
BY DEF Readers

LEMMA TakeTake ==
  ASSUME NEW r \in Readers, NEW i \in Nat, NEW j \in Nat,
         NEW s \in Seq(Octets), NEW t \in Seq(Octets)
  PROVE  /\ Take(r, i, s) \in Readers
         /\ Take(r, i, s).cnt = r.cnt + i /\ Take(r, i, s).at = r.at + i
         /\ Take(r, i, s).buffer = r.buffer
         /\ Take(Take(r, i, s), j, t) = Take(r, i + j, s \o t)
         /\ s \o t \in Seq(Octets)
<1>1. r.cnt \in Nat /\ r.at \in Nat /\ r.buffer \in Octets /\ r.got \in Seq(Octets)
  BY ReaderFields
<1>2. /\ (r.got \o s) \o t = r.got \o (s \o t) /\ s \o t \in Seq(Octets)
      /\ r.got \o s \in Seq(Octets)
  <2>1. /\ s \o t \in Seq(Octets)
        /\ \A q \in Seq(Octets) : (q \o s) \o t = q \o (s \o t) /\ q \o s \in Seq(Octets)
    BY Joins
  <2> QED BY <1>1, <2>1, Zenon
<1>3. /\ (r.cnt + i) + j = r.cnt + (i + j) /\ (r.at + i) + j = r.at + (i + j)
      /\ r.cnt + i \in Nat /\ r.at + i \in Nat
  BY <1>1, Sums, Zenon
<1>4. Take(Take(r, i, s), j, t) = [cnt |-> (r.cnt + i) + j, at |-> (r.at + i) + j,
                                   buffer |-> r.buffer, got |-> (r.got \o s) \o t]
  BY DEF Take
<1>5. Take(Take(r, i, s), j, t) = Take(r, i + j, s \o t)
  BY <1>2, <1>3, <1>4, Zenon DEF Take
<1>6. Take(r, i, s) \in Readers
  BY <1>1, <1>2, <1>3 DEF Readers, Take
<1> QED BY <1>2, <1>5, <1>6 DEF Take

LEMMA TakeKeeps ==
  ASSUME NEW r \in Readers, NEW i \in Nat, NEW s \in Seq(Octets)
  PROVE  /\ Take(r, i, s) \in Readers
         /\ Take(r, i, s).cnt = r.cnt + i /\ Take(r, i, s).at = r.at + i
         /\ Take(r, i, s).buffer = r.buffer
<1>1. 0 \in Nat /\ <<>> \in Seq(Octets)
  OBVIOUS
<1> QED BY <1>1, TakeTake, Zenon

LEMMA TakeNothing ==
  ASSUME NEW r \in Readers, NEW i \in Nat, NEW j \in Nat
  PROVE  Take(Take(r, i, <<>>), j, <<>>) = Take(r, i + j, <<>>)
<1>0. <<>> \in Seq(Octets)
  OBVIOUS
<1>e. <<>> \o <<>> = <<>>
  OBVIOUS
<1>1. <<>> \in Seq(Octets) /\ <<>> \o <<>> = <<>>
  BY <1>0, <1>e, Zenon
<1>2. \A s, t \in Seq(Octets) : Take(Take(r, i, s), j, t) = Take(r, i + j, s \o t)
  BY TakeTake
<1> QED BY <1>1, <1>2, Zenon

LEMMA SkipIsTake ==
  ASSUME NEW r \in Readers, NEW n \in Nat
  PROVE  Skip(r, n) = Take(r, n, <<>>)
<1>1. r = [cnt |-> r.cnt, at |-> r.at, buffer |-> r.buffer, got |-> r.got]
      /\ r.got \in Seq(Octets)
  BY ReaderFields
<1>2. r.got \o <<>> = r.got
  BY <1>1, JoinsEmpty
<1> DEFINE e == Skip(r, n)
<1>3. DOMAIN r = {"cnt", "at", "buffer", "got"} /\ r = [x \in DOMAIN r |-> r[x]]
  BY <1>1
<1>4. e = [x \in DOMAIN r |-> IF x = "at" THEN r.at + n
                              ELSE IF x = "cnt" THEN r.cnt + n ELSE r[x]]
  BY <1>3 DEF Skip
<1>5. /\ DOMAIN e = {"cnt", "at", "buffer", "got"} /\ e = [x \in DOMAIN e |-> e[x]]
      /\ e.cnt = r.cnt + n /\ e.at = r.at + n /\ e.buffer = r.buffer /\ e.got = r.got
  BY <1>3, <1>4
<1> DEFINE g == Take(r, n, <<>>)
<1>6. /\ DOMAIN g = {"cnt", "at", "buffer", "got"} /\ g = [x \in DOMAIN g |-> g[x]]
      /\ g.cnt = r.cnt + n /\ g.at = r.at + n /\ g.buffer = r.buffer /\ g.got = r.got
  BY <1>2 DEF Take
<1> HIDE DEF e, g
<1>7. e = g
  BY <1>5, <1>6
<1> QED BY <1>7 DEF e, g

LEMMA StoreIsTake ==
  ASSUME NEW r \in Readers, NEW n \in Nat, NEW w \in Octets
  PROVE  Store(r, n, w) = Take(r, n, <<w>>) /\ <<w>> \in Seq(Octets)
<1>1. r.got \in Seq(Octets)
  BY ReaderFields
<1>2. \A q \in Seq(Octets) : q \o <<>> = q /\ Append(q, w) = q \o <<w>> /\ <<w>> \in Seq(Octets)
  <2> HIDE DEF Octets
  <2> QED OBVIOUS
<1>3. \A a, b, c, d : [ [cnt |-> a, at |-> b, buffer |-> c, got |-> d]
                          EXCEPT !.got = Append(@, w) ]
                      = [cnt |-> a, at |-> b, buffer |-> c, got |-> Append(d, w)]
  BY SMTT(30)
<1>4. Skip(r, n) = [cnt |-> r.cnt + n, at |-> r.at + n, buffer |-> r.buffer, got |-> r.got]
  BY <1>1, <1>2, SkipIsTake DEF Take
<1>5. Store(r, n, w) = [cnt |-> r.cnt + n, at |-> r.at + n, buffer |-> r.buffer,
                        got |-> Append(r.got, w)]
  BY <1>3, <1>4 DEF Store
<1> QED BY <1>1, <1>2, <1>5 DEF Take

-----------------------------------------------------------------------------
(* Bytes. *)

LEMMA Written ==
  ASSUME NEW name \in Names, NEW i \in Nat, NEW size \in Nat
  PROVE  Element(name, i, size) \in Octets /\ Len(Element(name, i, size)) = size
<1> DEFINE w == Element(name, i, size)
<1>1. w = [b \in 1 .. size |-> <<name, i, b>>]
  BY DEF Element
<1>2. \A b \in 1 .. size : <<name, i, b>> \in Octet
  <2>1. \A b \in 1 .. size : b \in Nat
    OBVIOUS
  <2> QED BY <2>1, Zenon DEF Octet
<1> HIDE DEF w, Octet
<1>3. w \in [1 .. size -> Octet]
  BY <1>1, <1>2
<1>4. w \in Seq(Octet) /\ Len(w) = size
  BY <1>3
<1> QED BY <1>4 DEF w, Octets

LEMMA WrittenZeros ==
  ASSUME NEW n \in Nat
  PROVE  Zeros(n) \in Octets /\ Len(Zeros(n)) = n
<1> DEFINE w == Zeros(n)
<1>1. w = [b \in 1 .. n |-> <<"zero", 0, 0>>]
  BY DEF Zeros
<1>2. <<"zero", 0, 0>> \in Octet
  <2>1. "zero" \in Names /\ 0 \in Nat
    BY DEF Names
  <2> QED BY <2>1, Zenon DEF Octet
<1> HIDE DEF w, Octet
<1>3. w \in [1 .. n -> Octet]
  BY <1>1, <1>2
<1>4. w \in Seq(Octet) /\ Len(w) = n
  BY <1>3
<1> QED BY <1>4 DEF w, Octets

Sizes == {1, 2, 4, 8}

LEMMA WrittenMany ==
  ASSUME NEW name \in Names, NEW n \in Nat, NEW size \in Sizes
  PROVE  /\ Elements(name, n, size) \in Octets
         /\ n * size \in Nat /\ Len(Elements(name, n, size)) = n * size
<1> DEFINE w == Elements(name, n, size)
           m == n * size
<1>1. w = [k \in 1 .. m |-> <<name, 1 + (k - 1) \div size, 1 + ((k - 1) % size)>>]
  BY DEF Elements
<1>2. m \in Nat
  BY DEF Sizes
<1> HIDE DEF m
<1>3. \A k \in 1 .. m : 1 + (k - 1) \div size \in Nat /\ 1 + ((k - 1) % size) \in Nat
  BY <1>2, SMTT(20) DEF Sizes
<1>4. \A k \in 1 .. m : <<name, 1 + (k - 1) \div size, 1 + ((k - 1) % size)>> \in Octet
  BY <1>3, Zenon DEF Octet
<1> HIDE DEF w, Octet
<1>5. w \in [1 .. m -> Octet]
  BY <1>1, <1>4
<1>6. w \in Seq(Octet) /\ Len(w) = m
  BY <1>2, <1>5
<1> QED BY <1>2, <1>6 DEF w, m, Octets

LEMMA WrittenCount ==
  ASSUME NEW n \in Nat
  PROVE  Count(n) \in Octets /\ Len(Count(n)) = 4 /\ Count(n)[1][2] = n
<1>1. Count(n) \in Octets /\ Len(Count(n)) = 4
  <2>1. "size" \in Names /\ 4 \in Nat
    BY DEF Names
  <2> QED BY <2>1, Written, Zenon DEF Count
<1>2. Count(n)[1] = <<"size", n, 1>>
  BY DEF Count, Element
<1> QED BY <1>1, <1>2

-----------------------------------------------------------------------------
(* What stands in a buffer. *)

Holds(buffer, at, w) ==
  \A k \in 1 .. Len(w) : at + k \in DOMAIN buffer /\ buffer[at + k] = w[k]

LEMMA PeekHeld ==
  ASSUME NEW buffer, NEW at \in Nat, NEW w \in Octets, Holds(buffer, at, w)
  PROVE  Peek(buffer, at, Len(w)) = w
<1> HIDE DEF Octet
<1>1. w \in Seq(Octet)
  BY DEF Octets
<1>2. w = [k \in 1 .. Len(w) |-> w[k]]
  BY <1>1
<1>3. Peek(buffer, at, Len(w)) = [k \in 1 .. Len(w) |-> w[k]]
  BY DEF Peek, Holds
<1> QED BY <1>2, <1>3

LEMMA HoldsBoth ==
  ASSUME NEW buffer, NEW at \in Nat, NEW s \in Octets, NEW t \in Octets,
         Holds(buffer, at, s \o t)
  PROVE  Holds(buffer, at, s) /\ Holds(buffer, at + Len(s), t)
<1> HIDE DEF Octet
<1>1. s \in Seq(Octet) /\ t \in Seq(Octet)
  BY DEF Octets
<1> DEFINE u == s \o t
           i == Len(s)
           j == Len(t)
<1>2. i \in Nat /\ j \in Nat /\ Len(u) = i + j
  BY <1>1
<1>3. \A k \in 1 .. i : k \in 1 .. Len(u) /\ u[k] = s[k]
  BY <1>1
<1>4. \A k \in 1 .. j : i + k \in 1 .. Len(u) /\ u[i + k] = t[k] /\ (at + i) + k = at + (i + k)
  BY <1>1
<1>5. \A k \in 1 .. Len(u) : at + k \in DOMAIN buffer /\ buffer[at + k] = u[k]
  BY Zenon DEF Holds, u
<1> HIDE DEF u, i, j
<1>6. \A k \in 1 .. i : at + k \in DOMAIN buffer /\ buffer[at + k] = s[k]
  BY <1>3, <1>5
<1>7. \A k \in 1 .. j : (at + i) + k \in DOMAIN buffer /\ buffer[(at + i) + k] = t[k]
  <2> TAKE k \in 1 .. j
  <2>1. i + k \in 1 .. Len(u) /\ u[i + k] = t[k] /\ (at + i) + k = at + (i + k)
    BY <1>4
  <2>2. at + (i + k) \in DOMAIN buffer /\ buffer[at + (i + k)] = u[i + k]
    BY <1>5, <2>1, Zenon
  <2> QED BY <2>1, <2>2, Zenon
<1> QED BY <1>6, <1>7, Zenon DEF Holds, i, j

LEMMA SizeHeld ==
  ASSUME NEW buffer, NEW at \in Nat, NEW n \in Nat, Holds(buffer, at, Count(n))
  PROVE  SizeAt(buffer, at) = n
<1>1. Peek(buffer, at, 4) = Count(n)
  BY PeekHeld, WrittenCount
<1> QED BY <1>1, WrittenCount DEF SizeAt

LEMMA GapFacts ==
  ASSUME NEW cnt \in Nat
  PROVE  /\ \A size \in Sizes : Gap(cnt, size) \in Nat
         /\ \A size \in Sizes : MemberGap(cnt, size) \in Nat
<1>1. \A size \in Sizes : Gap(cnt, size) \in Nat
  BY SMTT(20) DEF Gap, Sizes
<1>2. HalfGap(cnt) \in Nat
  BY SMTT(20) DEF HalfGap, Gap
<1>3. \A size \in Sizes : MemberGap(cnt, size) \in Nat
  BY <1>1, <1>2 DEF MemberGap, Sizes
<1> QED BY <1>1, <1>3

-----------------------------------------------------------------------------
(* One member, written and read back. *)

\* A member without members of its own, which an object holding "v" can have.
Fits(f, v) ==
  /\ f.name \in Names /\ f.bound \in Nat
  /\ f.kind \in {"primitive", "bounded", "array"} => f.size \in Sizes
  /\ f.kind \in {"primitive", "bounded", "array", "strings", "string", "header"}
  /\ f.kind \in {"array", "string", "header"} => v[f.name] \in Nat
  /\ f.kind = "strings" => v[f.name] \in Seq(Nat)

\* From the counter cnt on the member is written as w, and w read as the member.
Agrees(f, v, cnt, w) ==
  /\ w \in Octets
  /\ \A c : Writer(c) /\ c.cnt = cnt => PutFlat(c, f, v) = Put(c, w)
  /\ \A r \in Readers : r.cnt = cnt /\ Holds(r.buffer, r.at, w) =>
       GetFlat(r, f) = Take(r, Len(w), ContentsOf(f, v))

\* A reader that has taken p, and x out of it, stands before t.
Onward(r, p, t, x, q) ==
  /\ Holds(r.buffer, r.at, p)
  /\ q \in Readers /\ q.cnt = r.cnt + Len(p) /\ q.buffer = r.buffer
  /\ Holds(q.buffer, q.at, t)
  /\ \A y \in Seq(Octets) :
       Take(q, Len(t), y) = Take(r, Len(p \o t), x \o y) /\ x \o y \in Seq(Octets)

LEMMA TakeOn ==
  ASSUME NEW r \in Readers, NEW p \in Octets, NEW t \in Octets, NEW x \in Seq(Octets),
         Holds(r.buffer, r.at, p \o t), NEW q, q = Take(r, Len(p), x)
  PROVE  Onward(r, p, t, x, q)
<1>1. /\ r.cnt \in Nat /\ r.at \in Nat /\ Len(p) \in Nat /\ Len(t) \in Nat
      /\ Len(p \o t) = Len(p) + Len(t)
  BY ReaderFields, Joins, PutPut DEF Octets
<1>2. Holds(r.buffer, r.at, p) /\ Holds(r.buffer, r.at + Len(p), t)
  BY <1>1, HoldsBoth
<1>3. /\ q \in Readers /\ q.cnt = r.cnt + Len(p)
      /\ q.at = r.at + Len(p) /\ q.buffer = r.buffer
  BY <1>1, TakeTake, ZenonT(40)
<1>4. \A y \in Seq(Octets) :
        /\ Take(q, Len(t), y) = Take(r, Len(p) + Len(t), x \o y)
        /\ x \o y \in Seq(Octets)
  BY <1>1, TakeTake
<1> QED BY <1>1, <1>2, <1>3, <1>4, Zenon DEF Onward

LEMMA ReadHere ==
  ASSUME NEW r \in Readers, NEW e \in Octets, NEW n, n = Len(e), Holds(r.buffer, r.at, e)
  PROVE  /\ Store(r, n, Peek(r.buffer, r.at, n)) = Take(r, n, <<e>>)
         /\ <<e>> \in Seq(Octets)
<1>1. Len(e) \in Nat /\ r.at \in Nat
  BY ReaderFields DEF Octets
<1>2. Peek(r.buffer, r.at, n) = e
  BY <1>1, PeekHeld
<1> QED BY <1>1, <1>2, StoreIsTake

LEMMA SkipOver ==
  ASSUME NEW r \in Readers, NEW z \in Octets, NEW n, n = Len(z)
  PROVE  Skip(r, n) = Take(r, Len(z), <<>>) /\ <<>> \in Seq(Octets)
<1>1. Len(z) \in Nat
  BY DEF Octets
<1> QED BY <1>1, SkipIsTake

\* A gap and the member behind it.
LEMMA SpacedAgrees ==
  ASSUME NEW cnt \in Nat, NEW g \in Nat, NEW e \in Octets, NEW n, n = Len(e)
  PROVE  /\ Zeros(g) \o e \in Octets
         /\ \A c : Writer(c) /\ c.cnt = cnt =>
              Put(Put(c, Zeros(g)), e) = Put(c, Zeros(g) \o e)
         /\ \A r \in Readers : Holds(r.buffer, r.at, Zeros(g) \o e) =>
              Store(Skip(r, g), n, Peek(Skip(r, g).buffer, Skip(r, g).at, n))
                = Take(r, Len(Zeros(g) \o e), <<e>>)
<1> DEFINE z == Zeros(g)
<1>1. z \in Octets /\ Len(z) = g
  BY WrittenZeros
<1> HIDE DEF z
<1>2. z \o e \in Octets
  BY <1>1, Joins DEF Octets
<1>3. ASSUME NEW c, Writer(c), c.cnt = cnt
      PROVE  Put(Put(c, z), e) = Put(c, z \o e)
  BY <1>1, <1>3, PutPut
<1>4. ASSUME NEW r \in Readers, Holds(r.buffer, r.at, z \o e)
      PROVE  Store(Skip(r, g), n, Peek(Skip(r, g).buffer, Skip(r, g).at, n))
               = Take(r, Len(z \o e), <<e>>)
  <2>1. Skip(r, g) = Take(r, Len(z), <<>>) /\ <<>> \in Seq(Octets)
    BY <1>1, SkipOver
  <2> DEFINE q == Take(r, Len(z), <<>>)
  <2>q. q = Take(r, Len(z), <<>>)
    OBVIOUS
  <2> HIDE DEF q
  <2>2. /\ q \in Readers /\ Holds(q.buffer, q.at, e)
        /\ \A y \in Seq(Octets) : Take(q, Len(e), y) = Take(r, Len(z \o e), <<>> \o y)
    <3>1. Onward(r, z, e, <<>>, q)
      BY <1>1, <1>4, <2>1, <2>q, TakeOn
    <3> QED BY <3>1, Zenon DEF Onward
  <2>3. Store(q, n, Peek(q.buffer, q.at, n)) = Take(q, n, <<e>>) /\ <<e>> \in Seq(Octets)
    BY <2>2, ReadHere
  <2>4. <<>> \o <<e>> = <<e>>
    BY <2>3, JoinsEmpty
  <2> QED BY <2>1, <2>2, <2>3, <2>4, Zenon DEF q
<1> QED BY <1>2, <1>3, <1>4, Zenon DEF z

LEMMA PrimitiveAgrees ==
  ASSUME NEW f, NEW v, Fits(f, v), f.kind = "primitive", NEW cnt \in Nat
  PROVE  /\ \E w : Agrees(f, v, cnt, w)
         /\ ContentsOf(f, v) \in Seq(Octets)
<1> DEFINE g == MemberGap(cnt, f.size)
           e == Element(f.name, 1, f.size)
           w == Zeros(g) \o e
<1>0. f.size \in Sizes /\ f.name \in Names
  BY DEF Fits
<1>1. g \in Nat /\ f.size \in Nat /\ f.name \in Names
  <2>1. f.size \in Nat
    BY <1>0 DEF Sizes
  <2> QED BY <1>0, <2>1, GapFacts, Zenon
<1>2. e \in Octets /\ Len(e) = f.size
  BY <1>1, Written
<1>3. ContentsOf(f, v) = <<e>> /\ <<e>> \in Seq(Octets)
  BY <1>2 DEF ContentsOf
<1> HIDE DEF g, e
<1>4. /\ w \in Octets
      /\ \A c : Writer(c) /\ c.cnt = cnt => Put(Put(c, Zeros(g)), e) = Put(c, w)
      /\ \A r \in Readers : Holds(r.buffer, r.at, w) =>
           Store(Skip(r, g), f.size, Peek(Skip(r, g).buffer, Skip(r, g).at, f.size))
             = Take(r, Len(w), <<e>>)
  BY <1>1, <1>2, SpacedAgrees
<1> HIDE DEF w
<1>5. \A c : Writer(c) /\ c.cnt = cnt => PutFlat(c, f, v) = Put(c, w)
  BY <1>4 DEF PutFlat, PutPrimitive, g, e
<1>6. \A r \in Readers : r.cnt = cnt /\ Holds(r.buffer, r.at, w) =>
        GetFlat(r, f) = Take(r, Len(w), <<e>>)
  BY <1>4 DEF GetFlat, GetPrimitive, g
<1> QED BY <1>3, <1>4, <1>5, <1>6 DEF Agrees

LEMMA BoundedAgrees ==
  ASSUME NEW f, NEW v, Fits(f, v), f.kind = "bounded", NEW cnt \in Nat
  PROVE  /\ \E w : Agrees(f, v, cnt, w)
         /\ ContentsOf(f, v) \in Seq(Octets)
<1> DEFINE g == MemberGap(cnt, f.size)
           e == Elements(f.name, f.bound, f.size)
           w == Zeros(g) \o e
<1>1. g \in Nat /\ f.size \in Sizes /\ f.name \in Names /\ f.bound \in Nat
  BY GapFacts DEF Fits
<1>2. e \in Octets /\ Len(e) = f.bound * f.size
  BY <1>1, WrittenMany
<1>3. ContentsOf(f, v) = <<e>> /\ <<e>> \in Seq(Octets)
  BY <1>2 DEF ContentsOf
<1> HIDE DEF g, e
<1>4. /\ w \in Octets
      /\ \A c : Writer(c) /\ c.cnt = cnt => Put(Put(c, Zeros(g)), e) = Put(c, w)
      /\ \A r \in Readers : Holds(r.buffer, r.at, w) =>
           Store(Skip(r, g), f.bound * f.size,
                 Peek(Skip(r, g).buffer, Skip(r, g).at, f.bound * f.size))
             = Take(r, Len(w), <<e>>)
  BY <1>1, <1>2, SpacedAgrees
<1> HIDE DEF w
<1>5. \A c : Writer(c) /\ c.cnt = cnt => PutFlat(c, f, v) = Put(c, w)
  BY <1>4 DEF PutFlat, PutBoundedArray, g, e
<1>6. \A r \in Readers : r.cnt = cnt /\ Holds(r.buffer, r.at, w) =>
        GetFlat(r, f) = Take(r, Len(w), <<e>>)
  BY <1>4 DEF GetFlat, GetBoundedArray, g
<1> QED BY <1>3, <1>4, <1>5, <1>6 DEF Agrees

\* A size behind the gap up to the next word.
Counted(cnt, n, z) ==
  /\ z \in Octets /\ Len(z) = Gap(cnt, 4) /\ Gap(cnt, 4) \in Nat
  /\ z \o Count(n) \in Octets /\ Len(z \o Count(n)) = Len(z) + 4
  /\ \A c : Writer(c) /\ c.cnt = cnt =>
       /\ Put(Align(c, 4), Count(n)) = Put(c, z \o Count(n))
       /\ Writer(Put(c, z \o Count(n)))
       /\ Put(c, z \o Count(n)).cnt = cnt + Len(z \o Count(n))

LEMMA CountedWritten ==
  ASSUME NEW cnt \in Nat, NEW n \in Nat, NEW z, z = Zeros(Gap(cnt, 4))
  PROVE  Counted(cnt, n, z)
<1>1. Gap(cnt, 4) \in Nat
  BY GapFacts DEF Sizes
<1>2. z \in Octets /\ Len(z) = Gap(cnt, 4)
  BY <1>1, WrittenZeros
<1>3. Count(n) \in Octets /\ Len(Count(n)) = 4
  BY WrittenCount
<1>4. z \o Count(n) \in Octets /\ Len(z \o Count(n)) = Len(z) + 4
  BY <1>2, <1>3, Joins DEF Octets
<1>5. ASSUME NEW c, Writer(c), c.cnt = cnt
      PROVE  /\ Put(Align(c, 4), Count(n)) = Put(c, z \o Count(n))
             /\ Writer(Put(c, z \o Count(n)))
             /\ Put(c, z \o Count(n)).cnt = cnt + Len(z \o Count(n))
  <2>1. Align(c, 4) = Put(c, z)
    BY <1>5, Zenon DEF Align
  <2>2. Put(Put(c, z), Count(n)) = Put(c, z \o Count(n))
    BY <1>2, <1>3, <1>5, PutPut
  <2>3. Writer(Put(c, z \o Count(n))) /\ Put(c, z \o Count(n)).cnt = c.cnt + Len(z \o Count(n))
    BY <1>4, <1>5, PutPut
  <2> QED BY <1>5, <2>1, <2>2, <2>3
<1> QED BY <1>1, <1>2, <1>4, <1>5, Zenon DEF Counted

\* The size has been read and q stands before what follows it.
SizeRead(r, n, e, z, s, q) ==
  /\ SizeAt(s.buffer, s.at) = n
  /\ s \in Readers /\ q.at = s.at + 4 /\ q.buffer = s.buffer
  /\ q = Take(r, Len(z \o Count(n)), <<>>)
  /\ Onward(r, z \o Count(n), e, <<>>, q)

LEMMA CountedRead ==
  ASSUME NEW r \in Readers, NEW n \in Nat, NEW e \in Octets,
         NEW z, z = Zeros(Gap(r.cnt, 4)),
         Holds(r.buffer, r.at, (z \o Count(n)) \o e),
         NEW s, s = Skip(r, Gap(r.cnt, 4)), NEW q, q = Skip(s, 4)
  PROVE  SizeRead(r, n, e, z, s, q)
<1> DEFINE p == z \o Count(n)
<1>1. r.cnt \in Nat /\ <<>> \in Seq(Octets) /\ <<>> \o <<>> = <<>>
  BY ReaderFields
<1>2. /\ z \in Octets /\ Len(z) = Gap(r.cnt, 4) /\ p \in Octets /\ Len(p) = Len(z) + 4
      /\ Gap(r.cnt, 4) \in Nat
  <2>1. Counted(r.cnt, n, z)
    BY <1>1, CountedWritten
  <2> QED BY <2>1, Zenon DEF Counted
<1>3. Count(n) \in Octets /\ Len(Count(n)) = 4
  BY WrittenCount
<1>4. q = Take(r, Len(p), <<>>) /\ Onward(r, p, e, <<>>, q)
  <2>1. s = Take(r, Len(z), <<>>)
    BY <1>2, SkipOver
  <2>2. s \in Readers
    BY <1>1, <1>2, <2>1, TakeKeeps
  <2>3. q = Take(s, 4, <<>>)
    BY <2>2, SkipIsTake
  <2>4. Take(Take(r, Len(z), <<>>), 4, <<>>) = Take(r, Len(z) + 4, <<>>)
    <3>1. Len(z) \in Nat /\ 4 \in Nat
      BY <1>2
    <3> QED BY <3>1, TakeNothing
  <2> HIDE DEF p
  <2>5. q = Take(r, Len(p), <<>>)
    BY <1>1, <1>2, <2>1, <2>3, <2>4, Zenon
  <2>6. Holds(r.buffer, r.at, p \o e)
    BY DEF p
  <2> QED BY <1>1, <1>2, <2>5, <2>6, TakeOn
<1>5. /\ s \in Readers /\ Holds(s.buffer, s.at, Count(n))
  <2>1. s = Take(r, Len(z), <<>>)
    BY <1>2, SkipOver
  <2>2. Holds(r.buffer, r.at, p)
    BY <1>4, Zenon DEF Onward
  <2>3. Onward(r, z, Count(n), <<>>, s)
    BY <1>1, <1>2, <1>3, <2>1, <2>2, TakeOn
  <2> QED BY <2>3, Zenon DEF Onward
<1>6. SizeAt(s.buffer, s.at) = n
  BY <1>5, SizeHeld, ReaderFields
<1>7. q.at = s.at + 4 /\ q.buffer = s.buffer
  <2>1. q = Take(s, 4, <<>>)
    BY <1>5, SkipIsTake
  <2> QED BY <2>1 DEF Take
<1> QED BY <1>4, <1>5, <1>6, <1>7, Zenon DEF p, SizeRead

\* A size and as many bytes behind it.
SizedWord(cnt, e) == (Zeros(Gap(cnt, 4)) \o Count(Len(e))) \o e

GetSized(r) ==
  LET s == Skip(r, Gap(r.cnt, 4))
      n == SizeAt(s.buffer, s.at)
  IN  Store(Skip(s, 4), n, Peek(s.buffer, s.at + 4, n))

Sized(cnt, n, e, w) ==
  /\ w \in Octets
  /\ \A c : Writer(c) /\ c.cnt = cnt => Put(Put(Align(c, 4), Count(n)), e) = Put(c, w)
  /\ \A r \in Readers : r.cnt = cnt /\ Holds(r.buffer, r.at, w) =>
       GetSized(r) = Take(r, Len(w), <<e>>)

LEMMA SizedAgrees ==
  ASSUME NEW cnt \in Nat, NEW e \in Octets, NEW n, n = Len(e), NEW w, w = SizedWord(cnt, e)
  PROVE  Sized(cnt, n, e, w)
<1> DEFINE z == Zeros(Gap(cnt, 4))
           p == z \o Count(n)
<1>1. n \in Nat /\ <<e>> \in Seq(Octets)
  <2>1. n \in Nat
    BY DEF Octets
  <2>2. <<e>> \in Seq(Octets)
    OBVIOUS
  <2> QED BY <2>1, <2>2
<1>z. z = Zeros(Gap(cnt, 4)) /\ w = p \o e
  BY Zenon DEF SizedWord
<1> HIDE DEF z
<1>2. /\ p \in Octets
      /\ \A c : Writer(c) /\ c.cnt = cnt =>
           Put(Align(c, 4), Count(n)) = Put(c, p)
  <2>1. Counted(cnt, n, z)
    BY <1>1, <1>z, CountedWritten
  <2> QED BY <2>1, Zenon DEF Counted
<1> HIDE DEF p
<1>3. w \in Octets
  BY <1>2, <1>z, Joins DEF Octets
<1>4. ASSUME NEW c, Writer(c), c.cnt = cnt
      PROVE  Put(Put(Align(c, 4), Count(n)), e) = Put(c, w)
  <2>1. Put(Put(c, p), e) = Put(c, w)
    BY <1>2, <1>z, <1>4, PutPut
  <2> QED BY <1>2, <1>4, <2>1, Zenon
<1>5. ASSUME NEW r \in Readers, r.cnt = cnt, Holds(r.buffer, r.at, w)
      PROVE  GetSized(r) = Take(r, Len(w), <<e>>)
  <2> DEFINE s == Skip(r, Gap(r.cnt, 4))
             q == Skip(s, 4)
  <2>1. z = Zeros(Gap(r.cnt, 4)) /\ Holds(r.buffer, r.at, (z \o Count(n)) \o e)
    BY <1>z, <1>5, Zenon DEF p
  <2>2. /\ SizeAt(s.buffer, s.at) = n
        /\ q.at = s.at + 4 /\ q.buffer = s.buffer
        /\ Onward(r, z \o Count(n), e, <<>>, q)
    <3>1. SizeRead(r, n, e, z, s, q)
      BY <1>1, <2>1, CountedRead
    <3> QED BY <3>1, Zenon DEF SizeRead
  <2> HIDE DEF s, q
  <2>3. /\ q \in Readers /\ Holds(q.buffer, q.at, e)
        /\ \A y \in Seq(Octets) : Take(q, Len(e), y) = Take(r, Len(w), <<>> \o y)
    BY <1>z, <2>2, Zenon DEF Onward, p
  <2>4. Store(q, n, Peek(q.buffer, q.at, n)) = Take(q, n, <<e>>)
    BY <2>3, ReadHere
  <2>5. GetSized(r) = Store(q, n, Peek(q.buffer, q.at, n))
    BY <2>2, Zenon DEF GetSized, s, q
  <2>6. <<>> \o <<e>> = <<e>>
    BY <1>1, JoinsEmpty
  <2> QED BY <1>1, <2>3, <2>4, <2>5, <2>6, Zenon
<1> QED BY <1>3, <1>4, <1>5, Zenon DEF Sized

LEMMA StringAgrees ==
  ASSUME NEW f, NEW v, Fits(f, v), f.kind = "string", NEW cnt \in Nat
  PROVE  /\ \E w : Agrees(f, v, cnt, w)
         /\ ContentsOf(f, v) \in Seq(Octets)
<1> DEFINE n == v[f.name]
           e == Elements(f.name, n, 1)
           w == SizedWord(cnt, e)
<1>1. n \in Nat /\ f.name \in Names /\ 1 \in Sizes
  BY DEF Fits, Sizes
<1>2. e \in Octets /\ Len(e) = n
  <2>1. n * 1 = n
    BY <1>1
  <2> QED BY <1>1, <2>1, WrittenMany, Zenon
<1>3. ContentsOf(f, v) = <<e>> /\ <<e>> \in Seq(Octets)
  BY <1>2 DEF ContentsOf
<1>4. \A c : PutFlat(c, f, v) = Put(Put(Align(c, 4), Count(n)), e)
  BY DEF PutFlat, PutString
<1>5. \A r : GetFlat(r, f) = GetSized(r)
  BY DEF GetFlat, GetString, GetSized
<1> HIDE DEF e, n
<1>6. /\ w \in Octets
      /\ \A c : Writer(c) /\ c.cnt = cnt =>
           Put(Put(Align(c, 4), Count(n)), e) = Put(c, w)
      /\ \A r \in Readers : r.cnt = cnt /\ Holds(r.buffer, r.at, w) =>
           GetSized(r) = Take(r, Len(w), <<e>>)
  <2>1. Sized(cnt, n, e, w)
    BY <1>2, SizedAgrees
  <2> QED BY <2>1, Zenon DEF Sized
<1> HIDE DEF w
<1> QED BY <1>3, <1>4, <1>5, <1>6, Zenon DEF Agrees

LEMMA SkipNothing ==
  ASSUME NEW r \in Readers
  PROVE  Skip(r, 0) = r
<1>1. Skip(r, 0) = Take(r, 0, <<>>)
  BY SkipIsTake
<1>2. /\ r = [cnt |-> r.cnt, at |-> r.at, buffer |-> r.buffer, got |-> r.got]
      /\ r.cnt + 0 = r.cnt /\ r.at + 0 = r.at /\ r.got \in Seq(Octets)
  BY ReaderFields
<1>3. r.got \o <<>> = r.got
  BY <1>2, JoinsEmpty
<1> QED BY <1>1, <1>2, <1>3, Zenon DEF Take

LEMMA ZerosNothing == Zeros(0) = <<>>
BY DEF Zeros

LEMMA ArrayAgrees ==
  ASSUME NEW f, NEW v, Fits(f, v), f.kind = "array", NEW cnt \in Nat
  PROVE  /\ \E w : Agrees(f, v, cnt, w)
         /\ ContentsOf(f, v) \in Seq(Octets)
<1> DEFINE n == v[f.name]
           m == n * f.size
           e == Elements(f.name, n, f.size)
           z == Zeros(Gap(cnt, 4))
           p == z \o Count(n)
           now == cnt + Len(p)
           g == IF f.size = 8 THEN Gap(now, 8) ELSE 0
           b == Zeros(g) \o e
           w == p \o b
<1>1. n \in Nat /\ f.name \in Names /\ f.size \in Sizes
  BY DEF Fits
<1>2. e \in Octets /\ Len(e) = m /\ m \in Nat
  BY <1>1, WrittenMany
<1>3. ContentsOf(f, v) = <<e>> /\ <<e>> \in Seq(Octets)
  BY <1>2 DEF ContentsOf
<1>4. \A c : PutFlat(c, f, v) = PutArray(c, f, n)
  BY DEF PutFlat
<1>5. \A r : GetFlat(r, f) = GetArray(r, f)
  BY DEF GetFlat
<1>z. z = Zeros(Gap(cnt, 4))
  OBVIOUS
<1> HIDE DEF e, n, z
<1>6. /\ p \in Octets /\ Len(p) \in Nat
      /\ \A c : Writer(c) /\ c.cnt = cnt =>
           Put(Align(c, 4), Count(n)) = Put(c, p) /\ Writer(Put(c, p)) /\ Put(c, p).cnt = now
  <2>1. p \in Octets => Len(p) \in Nat
    BY DEF Octets
  <2> HIDE DEF now
  <2>2. Counted(cnt, n, z)
    BY <1>1, <1>z, CountedWritten
  <2> QED BY <2>1, <2>2, Zenon DEF Counted, now
<1> HIDE DEF p
<1>7. now \in Nat
  BY <1>6
<1> HIDE DEF now
<1>8. g \in Nat
  BY <1>7, GapFacts DEF Sizes
<1> HIDE DEF g
<1>9. /\ b \in Octets
      /\ \A c : Writer(c) /\ c.cnt = now => Put(Put(c, Zeros(g)), e) = Put(c, b)
      /\ \A r \in Readers : Holds(r.buffer, r.at, b) =>
           Store(Skip(r, g), m, Peek(Skip(r, g).buffer, Skip(r, g).at, m))
             = Take(r, Len(b), <<e>>)
  BY <1>2, <1>7, <1>8, SpacedAgrees
<1> HIDE DEF b, m
<1>10. w \in Octets
  BY <1>6, <1>9, Joins DEF Octets
<1>11. ASSUME NEW c, Writer(c), c.cnt = cnt
       PROVE  PutFlat(c, f, v) = Put(c, w)
  <2> DEFINE d == Put(c, p)
  <2>1. Put(Align(c, 4), Count(n)) = d /\ Writer(d) /\ d.cnt = now
    BY <1>6, <1>11, Zenon
  <2>2. Put(d, b) = Put(c, w)
    BY <1>6, <1>9, <1>11, PutPut
  <2> HIDE DEF d, w
  <2>3. (IF f.size = 8 THEN Align(d, 8) ELSE d) = Put(d, Zeros(g))
    <3>1. CASE f.size = 8
      BY <2>1, <3>1, Zenon DEF Align, g
    <3>2. CASE f.size # 8
      <4>1. g = 0
        BY <3>2 DEF g
      <4> QED BY <2>1, <3>2, <4>1, PutNothing, ZerosNothing
    <3> QED BY <3>1, <3>2
  <2>4. PutFlat(c, f, v) = Put(IF f.size = 8 THEN Align(d, 8) ELSE d, e)
    BY <1>4, <2>1, Zenon DEF PutArray, e
  <2> QED BY <1>9, <2>1, <2>2, <2>3, <2>4, Zenon
<1>12. ASSUME NEW r \in Readers, r.cnt = cnt, Holds(r.buffer, r.at, w)
       PROVE  GetFlat(r, f) = Take(r, Len(w), <<e>>)
  <2> DEFINE s == Skip(r, Gap(r.cnt, 4))
             q == Skip(s, 4)
  <2>1. z = Zeros(Gap(r.cnt, 4)) /\ Holds(r.buffer, r.at, (z \o Count(n)) \o b)
    BY <1>z, <1>12, Zenon DEF p
  <2>2. /\ SizeAt(s.buffer, s.at) = n
        /\ Onward(r, z \o Count(n), b, <<>>, q)
    <3>1. SizeRead(r, n, b, z, s, q)
      BY <1>1, <1>9, <2>1, CountedRead
    <3> QED BY <3>1, Zenon DEF SizeRead
  <2> HIDE DEF s, q
  <2>3. /\ q \in Readers /\ Holds(q.buffer, q.at, b) /\ q.cnt = r.cnt + Len(p)
        /\ \A y \in Seq(Octets) : Take(q, Len(b), y) = Take(r, Len(w), <<>> \o y)
    BY <2>2, Zenon DEF Onward, p
  <2>4. q.cnt = now
    BY <1>12, <2>3 DEF now
  <2>5. (IF f.size = 8 THEN Skip(q, Gap(q.cnt, 8)) ELSE q) = Skip(q, g)
    <3>1. CASE f.size = 8
      BY <2>4, <3>1, Zenon DEF g
    <3>2. CASE f.size # 8
      <4>1. g = 0
        BY <3>2 DEF g
      <4> QED BY <2>3, <3>2, <4>1, SkipNothing
    <3> QED BY <3>1, <3>2
  <2> DEFINE t == Skip(q, g)
  <2>6. GetFlat(r, f) = Store(t, m, Peek(t.buffer, t.at, m))
    <3> HIDE DEF t
    <3> QED BY <1>5, <2>2, <2>5, Zenon DEF GetArray, s, q, t, m
  <2>7. GetFlat(r, f) = Take(q, Len(b), <<e>>)
    BY <1>9, <2>3, <2>6, Zenon
  <2>8. <<>> \o <<e>> = <<e>>
    BY <1>3, JoinsEmpty
  <2> QED BY <1>3, <2>3, <2>7, <2>8, Zenon
<1> QED BY <1>3, <1>10, <1>11, <1>12, Zenon DEF Agrees

LEMMA HeaderAgrees ==
  ASSUME NEW f, NEW v, Fits(f, v), f.kind = "header", NEW cnt \in Nat
  PROVE  /\ \E w : Agrees(f, v, cnt, w)
         /\ ContentsOf(f, v) \in Seq(Octets)
<1> DEFINE n == v[f.name]
           e == Elements("frame_id", n, 1)
           h == Element("sec", 1, 4) \o Element("nanosec", 1, 4)
           b == (h \o Count(n)) \o e
           z == Zeros(Gap(cnt, 4))
           w == z \o b
<1>1. n \in Nat /\ "frame_id" \in Names /\ "sec" \in Names /\ "nanosec" \in Names /\ 1 \in Sizes
  BY DEF Fits, Sizes, Names
<1>2. e \in Octets /\ Len(e) = n
  <2>1. n * 1 = n
    BY <1>1
  <2> QED BY <1>1, <2>1, WrittenMany, Zenon
<1>3. h \in Octets /\ Len(h) = 8
  <2> DEFINE x == Element("sec", 1, 4)
             y == Element("nanosec", 1, 4)
  <2>0. 1 \in Nat /\ 4 \in Nat
    OBVIOUS
  <2>1. x \in Octets /\ Len(x) = 4 /\ y \in Octets /\ Len(y) = 4
    BY <1>1, <2>0, Written, Zenon
  <2> HIDE DEF x, y
  <2>2. x \o y \in Octets /\ Len(x \o y) = Len(x) + Len(y)
    BY <2>1, Joins DEF Octets
  <2>3. x \o y \in Octets /\ Len(x \o y) = 8
    BY <2>1, <2>2
  <2> QED BY <2>3 DEF x, y
<1>4. \A c : PutFlat(c, f, v) = PutHeader(c, n)
  BY DEF PutFlat
<1>5. \A r : GetFlat(r, f) = GetHeader(r)
  BY DEF GetFlat
<1>6. ContentsOf(f, v) = <<h \o e>>
  BY DEF ContentsOf
<1>z. z = Zeros(Gap(cnt, 4)) /\ z \in Octets /\ Len(z) = Gap(cnt, 4)
  <2>1. Counted(cnt, n, z)
    BY <1>1, CountedWritten
  <2> QED BY <2>1, Zenon DEF Counted
<1> HIDE DEF e, n, h, z
<1>7. h \o e \in Octets /\ Len(h \o e) = 8 + n /\ <<h \o e>> \in Seq(Octets)
  <2>1. h \o e \in Octets /\ Len(h \o e) = Len(h) + Len(e)
    BY <1>2, <1>3, Joins DEF Octets
  <2> QED BY <1>2, <1>3, <2>1
<1>8. Count(n) \in Octets /\ Len(Count(n)) = 4
  BY <1>1, WrittenCount
<1>9. h \o Count(n) \in Octets /\ Len(h \o Count(n)) = 12
  <2>1. h \o Count(n) \in Octets /\ Len(h \o Count(n)) = Len(h) + Len(Count(n))
    BY <1>3, <1>8, Joins DEF Octets
  <2> QED BY <1>3, <1>8, <2>1
<1>10. b \in Octets /\ Len(b) = 12 + n
  <2>1. b \in Octets /\ Len(b) = Len(h \o Count(n)) + Len(e)
    BY <1>2, <1>9, Joins DEF Octets
  <2> QED BY <1>2, <1>9, <2>1
<1>b. b = (h \o Count(n)) \o e
  OBVIOUS
<1> HIDE DEF b
<1>11. w \in Octets
  BY <1>z, <1>10, Joins DEF Octets
<1>12. ASSUME NEW c, Writer(c), c.cnt = cnt
       PROVE  PutFlat(c, f, v) = Put(c, w)
  <2>1. Put(Put(c, z), b) = Put(c, w)
    BY <1>z, <1>10, <1>12, PutPut
  <2>2. PutFlat(c, f, v) = Put(Put(c, z), b)
    BY <1>4, <1>z, <1>12, Zenon DEF PutHeader, Align, b, h, e
  <2> QED BY <2>1, <2>2, Zenon
<1>13. ASSUME NEW r \in Readers, r.cnt = cnt, Holds(r.buffer, r.at, w)
       PROVE  GetFlat(r, f) = Take(r, Len(w), <<h \o e>>)
  <2> DEFINE s == Skip(r, Gap(r.cnt, 4))
  <2>1. s = Take(r, Len(z), <<>>) /\ <<>> \in Seq(Octets)
    BY <1>z, <1>13, SkipOver
  <2> HIDE DEF s
  <2>2. Onward(r, z, b, <<>>, s)
    BY <1>z, <1>10, <1>13, <2>1, TakeOn
  <2>3. /\ s \in Readers /\ Holds(s.buffer, s.at, (h \o Count(n)) \o e)
        /\ \A y \in Seq(Octets) : Take(s, Len(b), y) = Take(r, Len(w), <<>> \o y)
    BY <1>b, <2>2, Zenon DEF Onward
  <2>4. s.at \in Nat
    BY <2>3, ReaderFields
  <2>5. Holds(s.buffer, s.at, h \o Count(n)) /\ Holds(s.buffer, s.at + 12, e)
    <3> DEFINE x == h \o Count(n)
    <3>1. x \in Octets /\ Len(x) = 12 /\ Holds(s.buffer, s.at, x \o e)
      BY <1>9, <2>3
    <3> HIDE DEF x
    <3>2. Holds(s.buffer, s.at, x) /\ Holds(s.buffer, s.at + Len(x), e)
      BY <1>2, <2>4, <3>1, HoldsBoth
    <3> QED BY <3>1, <3>2, Zenon DEF x
  <2>6. Holds(s.buffer, s.at, h) /\ Holds(s.buffer, s.at + 8, Count(n))
    <3> DEFINE x == Count(n)
    <3>1. x \in Octets /\ Holds(s.buffer, s.at, h \o x)
      BY <1>8, <2>5
    <3> HIDE DEF x
    <3>2. Holds(s.buffer, s.at, h) /\ Holds(s.buffer, s.at + Len(h), x)
      BY <1>3, <2>4, <3>1, HoldsBoth
    <3> QED BY <1>3, <3>2, Zenon DEF x
  <2>7. s.at + 8 \in Nat /\ s.at + 12 \in Nat
    BY <2>4
  <2>8. SizeAt(s.buffer, s.at + 8) = n
    BY <1>1, <2>6, <2>7, SizeHeld
  <2>9. Peek(s.buffer, s.at, 8) = h
    BY <1>3, <2>4, <2>6, PeekHeld
  <2>10. Peek(s.buffer, s.at + 12, n) = e
    BY <1>2, <2>5, <2>7, PeekHeld
  <2>11. GetFlat(r, f) = Store(Skip(s, 12), n, h \o e)
    BY <1>5, <2>8, <2>9, <2>10, Zenon DEF GetHeader, s
  <2>12. Skip(s, 12) = Take(s, 12, <<>>) /\ Skip(s, 12) \in Readers
    <3>1. 12 \in Nat
      OBVIOUS
    <3>2. Skip(s, 12) = Take(s, 12, <<>>)
      BY <2>3, <3>1, SkipIsTake
    <3> QED BY <2>1, <2>3, <3>1, <3>2, TakeKeeps, Zenon
  <2>13. Store(Skip(s, 12), n, h \o e) = Take(Skip(s, 12), n, <<h \o e>>)
    BY <1>1, <1>7, <2>12, StoreIsTake
  <2>14. Take(Take(s, 12, <<>>), n, <<h \o e>>) = Take(s, 12 + n, <<>> \o <<h \o e>>)
    <3>1. \A i, j \in Nat, x, y \in Seq(Octets) :
            Take(Take(s, i, x), j, y) = Take(s, i + j, x \o y)
      BY <2>3, TakeTake
    <3>2. 12 \in Nat
      OBVIOUS
    <3> QED BY <1>1, <1>7, <2>1, <3>1, <3>2, Zenon
  <2>15. <<>> \o <<h \o e>> = <<h \o e>>
    BY <1>7, JoinsEmpty
  <2> QED BY <1>7, <1>10, <2>3, <2>11, <2>12, <2>13, <2>14, <2>15, Zenon
<1> QED BY <1>6, <1>7, <1>11, <1>12, <1>13, Zenon DEF Agrees

-----------------------------------------------------------------------------
(* Folds over a sequence, step by step. *)

LEMMA LeastOf ==
  ASSUME NEW T, T \subseteq Nat, T # {}
  PROVE  \E n \in T : \A m \in T : n <= m
<1>1. PICK n \in T : \A m \in T : <<m, n>> \notin OpToRel(<, Nat)
  BY NatLessThanWellFounded, WFMin
<1>2. ASSUME NEW m \in T PROVE n <= m
  <2>1. ~ m < n
    BY <1>1 DEF OpToRel
  <2> QED BY <2>1
<1> QED BY <1>2

LEMMA NatSetInduction ==
  ASSUME NEW T, 0 \in T, \A n \in Nat : n \in T => n + 1 \in T
  PROVE  Nat \subseteq T
<1> SUFFICES ASSUME NEW k \in Nat, k \notin T PROVE FALSE
  OBVIOUS
<1> DEFINE Rest == {n \in Nat : n \notin T}
<1>1. PICK n \in Rest : \A m \in Rest : n <= m
  <2>1. Rest \subseteq Nat /\ Rest # {}
    OBVIOUS
  <2> QED BY <2>1, LeastOf
<1>2. n \in Nat /\ n # 0 /\ n \notin T
  OBVIOUS
<1>3. n - 1 \in Nat /\ n - 1 \notin Rest
  BY <1>1, <1>2
<1> QED BY <1>2, <1>3

LEMMA IntervalMax ==
  ASSUME NEW k \in Nat, k # 0
  PROVE  Max(1 .. k) = k /\ (1 .. k) \ {k} = 1 .. k - 1 /\ 1 .. k # {}
<1>1. \A x \in 1 .. k : (\A y \in 1 .. k : x >= y) => x = k
  OBVIOUS
<1>2. k \in 1 .. k /\ \A y \in 1 .. k : k >= y
  OBVIOUS
<1>3. (1 .. k) \ {k} = 1 .. k - 1
  OBVIOUS
<1> QED BY <1>1, <1>2, <1>3 DEF Max

\* A set with k in it and nothing larger.
LEMMA TopMax ==
  ASSUME NEW k \in Nat, NEW T \in SUBSET (1 .. k), k \in T
  PROVE  Max(T) = k /\ T \ {k} \in SUBSET (1 .. k - 1)
<1>1. \A x \in T : (\A y \in T : x >= y) => x = k
  OBVIOUS
<1>2. \A y \in T : k >= y
  OBVIOUS
<1>3. T \ {k} \in SUBSET (1 .. k - 1)
  OBVIOUS
<1> QED BY <1>1, <1>2, <1>3 DEF Max

\* What a fold is worked out from: a value for every set of the first places.
Folds(n, V, base, steps, it) ==
  /\ it = [T \in SUBSET (1 .. n) |-> it[T]]
  /\ it[{}] = base
  /\ \A T \in SUBSET (1 .. n) :
       /\ it[T] \in V
       /\ T # {} => Max(T) \in 1 .. n /\ it[T] = steps[Max(T)][it[T \ {Max(T)}]]

LEMMA FoldGoesOn ==
  ASSUME NEW n \in Nat, NEW V, NEW base, NEW steps, NEW it, Folds(n, V, base, steps, it),
         \A x \in V : steps[n + 1][x] \in V
  PROVE  \E more : Folds(n + 1, V, base, steps, more)
<1> DEFINE m == n + 1
           more == [T \in SUBSET (1 .. m) |->
                      IF m \in T THEN steps[m][it[T \ {m}]] ELSE it[T]]
<1>1. m \in Nat /\ m - 1 = n /\ m \notin 1 .. n /\ 1 .. n \subseteq 1 .. m
  OBVIOUS
<1> HIDE DEF m
<1>2. more = [T \in SUBSET (1 .. m) |-> more[T]]
  OBVIOUS
<1>3. \A T \in SUBSET (1 .. n) : T \in SUBSET (1 .. m) /\ more[T] = it[T] /\ it[T] \in V
  <2> TAKE T \in SUBSET (1 .. n)
  <2>1. T \in SUBSET (1 .. m) /\ m \notin T
    BY <1>1
  <2> QED BY <2>1 DEF Folds
<1>4. ASSUME NEW T \in SUBSET (1 .. m), m \in T
      PROVE  more[T] \in V /\ Max(T) \in 1 .. m /\ more[T] = steps[Max(T)][more[T \ {Max(T)}]]
  <2>1. Max(T) = m /\ T \ {m} \in SUBSET (1 .. n)
    BY <1>1, <1>4, TopMax
  <2>2. more[T] = steps[m][it[T \ {m}]]
    BY <1>4
  <2>3. it[T \ {m}] \in V /\ more[T \ {m}] = it[T \ {m}]
    BY <1>3, <2>1
  <2> HIDE DEF more
  <2>4. m \in 1 .. m
    BY <1>4
  <2>5. steps[m][it[T \ {m}]] \in V
    BY <2>3 DEF m
  <2> QED BY <2>1, <2>2, <2>3, <2>4, <2>5, Zenon
<1>5. ASSUME NEW T \in SUBSET (1 .. m), m \notin T, T # {}
      PROVE  more[T] \in V /\ Max(T) \in 1 .. m /\ more[T] = steps[Max(T)][more[T \ {Max(T)}]]
  <2>1. T \in SUBSET (1 .. n)
    BY <1>1, <1>5 DEF m
  <2>2. T \ {Max(T)} \in SUBSET (1 .. n)
    BY <2>1
  <2>3. more[T] = it[T] /\ it[T] \in V /\ more[T \ {Max(T)}] = it[T \ {Max(T)}]
    BY <1>3, <2>1, <2>2
  <2>4. Max(T) \in 1 .. n /\ it[T] = steps[Max(T)][it[T \ {Max(T)}]]
    BY <1>5, <2>1 DEF Folds
  <2> HIDE DEF more
  <2> QED BY <1>1, <2>3, <2>4
<1>6. more[{}] = base /\ more[{}] \in V
  <2>1. {} \in SUBSET (1 .. n)
    OBVIOUS
  <2> HIDE DEF more
  <2> QED BY <1>3, <2>1 DEF Folds
<1> HIDE DEF more
<1>7. Folds(m, V, base, steps, more)
  BY <1>2, <1>4, <1>5, <1>6 DEF Folds
<1> QED BY <1>7 DEF m

LEMMA Folded ==
  ASSUME NEW n \in Nat, NEW V, NEW base \in V, NEW steps,
         \A k \in 1 .. n : \A x \in V : steps[k][x] \in V
  PROVE  \E it : Folds(n, V, base, steps, it)
<1> DEFINE T == {k \in Nat : k <= n => \E it : Folds(k, V, base, steps, it)}
<1>1. 0 \in T
  <2> DEFINE first_it == [S \in SUBSET (1 .. 0) |-> base]
  <2>1. SUBSET (1 .. 0) = {{}}
    OBVIOUS
  <2>2. first_it[{}] = base /\ first_it = [S \in SUBSET (1 .. 0) |-> first_it[S]]
    BY <2>1
  <2> HIDE DEF first_it
  <2>3. Folds(0, V, base, steps, first_it)
    BY <2>1, <2>2 DEF Folds
  <2> QED BY <2>3
<1>2. ASSUME NEW k \in Nat, k \in T
      PROVE  k + 1 \in T
  <2> SUFFICES ASSUME k + 1 <= n PROVE \E it : Folds(k + 1, V, base, steps, it)
    OBVIOUS
  <2>1. PICK it : Folds(k, V, base, steps, it)
    BY <1>2
  <2>2. k + 1 \in 1 .. n
    OBVIOUS
  <2>3. \A x \in V : steps[k + 1][x] \in V
    BY <2>2
  <2> QED BY <2>1, <2>3, FoldGoesOn
<1>3. Nat \subseteq T
  <2> HIDE DEF T
  <2> QED BY <1>1, <1>2, NatSetInduction
<1> QED BY <1>3

\* The place a fold over n elements takes after k of them.
LEMMA FoldPlaces ==
  ASSUME NEW n \in Nat
  PROVE  /\ 1 .. 0 \in SUBSET (1 .. n) /\ 1 .. 0 = {}
         /\ \A k \in 1 .. n :
              /\ k \in Nat /\ k - 1 \in 0 .. n /\ 1 .. k \in SUBSET (1 .. n) /\ 1 .. k # {}
              /\ Max(1 .. k) = k /\ (1 .. k) \ {k} = 1 .. k - 1
<1>1. ASSUME NEW k \in 1 .. n
      PROVE  /\ k \in Nat /\ k - 1 \in 0 .. n /\ 1 .. k \in SUBSET (1 .. n) /\ 1 .. k # {}
             /\ Max(1 .. k) = k /\ (1 .. k) \ {k} = 1 .. k - 1
  <2>1. k \in Nat /\ k # 0 /\ k - 1 \in 0 .. n /\ 1 .. k \in SUBSET (1 .. n)
    OBVIOUS
  <2> QED BY <2>1, IntervalMax
<1> QED BY <1>1

-----------------------------------------------------------------------------
(* Reading stays reading, whatever stands in the buffer. *)

LEMMA PeekOctets ==
  ASSUME NEW buffer \in Octets, NEW at \in Nat, NEW n \in Nat
  PROVE  Peek(buffer, at, n) \in Octets /\ Len(Peek(buffer, at, n)) = n
<1> DEFINE w == Peek(buffer, at, n)
<1>1. w = [k \in 1 .. n |-> IF at + k \in DOMAIN buffer THEN buffer[at + k]
                            ELSE <<"leftover", 0, 0>>]
  BY DEF Peek
<1>2. <<"leftover", 0, 0>> \in Octet
  <2>1. "leftover" \in Names /\ 0 \in Nat
    BY DEF Names
  <2> QED BY <2>1, Zenon DEF Octet
<1> HIDE DEF w, Octet
<1>3. buffer \in Seq(Octet)
  BY DEF Octets
<1>4. \A j \in DOMAIN buffer : buffer[j] \in Octet
  BY <1>3
<1>5. w \in [1 .. n -> Octet]
  BY <1>1, <1>2, <1>4
<1>6. w \in Seq(Octet) /\ Len(w) = n
  BY <1>5
<1> QED BY <1>6 DEF w, Octets

LEMMA SizeAtNat ==
  ASSUME NEW buffer \in Octets, NEW at \in Nat
  PROVE  SizeAt(buffer, at) \in Nat
<1> DEFINE w == Peek(buffer, at, 4)
<1>1. w \in Octets /\ Len(w) = 4
  <2>1. 4 \in Nat
    OBVIOUS
  <2> QED BY <2>1, PeekOctets, Zenon
<1> HIDE DEF w
<1>2. w[1] \in Octet
  <2> HIDE DEF Octet
  <2>1. w \in Seq(Octet) /\ Len(w) = 4
    BY <1>1 DEF Octets
  <2> QED BY <2>1
<1>3. w[1][2] \in Nat
  BY <1>2 DEF Octet
<1> QED BY <1>3 DEF SizeAt, w

LEMMA SkipKeeps ==
  ASSUME NEW r \in Readers, NEW n \in Nat
  PROVE  Skip(r, n) \in Readers
<1>1. <<>> \in Seq(Octets)
  OBVIOUS
<1> QED BY <1>1, SkipIsTake, TakeKeeps

LEMMA StorePeeked ==
  ASSUME NEW r \in Readers, NEW n \in Nat, NEW m \in Nat, NEW at \in Nat
  PROVE  Store(r, n, Peek(r.buffer, at, m)) \in Readers
<1>1. Peek(r.buffer, at, m) \in Octets
  BY PeekOctets, ReaderFields
<1> QED BY <1>1, StoreIsTake, TakeKeeps

LEMMA GetSizedKeeps ==
  ASSUME NEW r \in Readers
  PROVE  GetSized(r) \in Readers
<1> DEFINE s == Skip(r, Gap(r.cnt, 4))
           n == SizeAt(s.buffer, s.at)
           q == Skip(s, 4)
<1>1. s \in Readers
  BY ReaderFields, GapFacts, SkipKeeps DEF Sizes
<1> HIDE DEF s
<1>2. n \in Nat
  BY <1>1, ReaderFields, SizeAtNat
<1>3. q \in Readers /\ q.buffer = s.buffer /\ s.at + 4 \in Nat
  <2>1. q \in Readers
    BY <1>1, SkipKeeps
  <2>2. q = Take(s, 4, <<>>)
    BY <1>1, SkipIsTake
  <2> HIDE DEF q
  <2>3. q.buffer = s.buffer
    BY <2>2 DEF Take
  <2>4. s.at \in Nat
    BY <1>1, ReaderFields
  <2> QED BY <2>1, <2>3, <2>4
<1> HIDE DEF n, q
<1>4. Store(q, n, Peek(q.buffer, s.at + 4, n)) \in Readers
  BY <1>2, <1>3, StorePeeked
<1> QED BY <1>3, <1>4, Zenon DEF GetSized, s, n, q

-----------------------------------------------------------------------------
(* An array of strings. *)

Places(n) == [i \in 1 .. n |-> i]

GetStringsStep(s, n, it) ==
  [T \in SUBSET DOMAIN Places(n) |->
     IF T = {} THEN Skip(s, 4) ELSE GetSized(it[T \ {Max(T)}])]

GetStringsFold(s, n) == CHOOSE it : it = GetStringsStep(s, n, it)

LEMMA GetStringsIsFold ==
  ASSUME NEW r, NEW f, NEW s, s = Skip(r, Gap(r.cnt, 4)), NEW n, n = SizeAt(s.buffer, s.at)
  PROVE  GetStrings(r, f) = GetStringsFold(s, n)[DOMAIN Places(n)]
BY DEF GetStrings, FoldLeft, MapThenFoldSet, GetStringsFold, GetStringsStep, GetSized, Places

\* The string after string readers of an array.
LEMMA GetStringsRows ==
  ASSUME NEW s \in Readers, NEW n \in Nat
  PROVE  \E rows : /\ rows[0] = Skip(s, 4)
                   /\ \A k \in 1 .. n : rows[k] = GetSized(rows[k - 1])
                   /\ \A k \in 0 .. n : rows[k] \in Readers
                   /\ rows[n] = GetStringsFold(s, n)[DOMAIN Places(n)]
<1> DEFINE steps == [k \in 1 .. n |-> [x \in Readers |-> GetSized(x)]]
           start == Skip(s, 4)
           t == GetStringsFold(s, n)
           rows == [k \in 0 .. n |-> t[1 .. k]]
<1>1. start \in Readers
  <2>1. 4 \in Nat
    OBVIOUS
  <2> QED BY <2>1, SkipKeeps, Zenon
<1>2. DOMAIN Places(n) = 1 .. n
  BY DEF Places
<1>3. \E it : it = GetStringsStep(s, n, it)
  <2>1. \A k \in 1 .. n : \A x \in Readers : steps[k][x] = GetSized(x) /\ steps[k][x] \in Readers
    BY GetSizedKeeps
  <2> HIDE DEF steps, start
  <2>2. PICK it : Folds(n, Readers, start, steps, it)
    BY <1>1, <2>1, Folded
  <2>3. \A T \in SUBSET (1 .. n) : T # {} =>
          T \ {Max(T)} \in SUBSET (1 .. n) /\ it[T] = GetSized(it[T \ {Max(T)}])
    <3> TAKE T \in SUBSET (1 .. n)
    <3> HAVE T # {}
    <3>1. T \ {Max(T)} \in SUBSET (1 .. n)
      OBVIOUS
    <3>2. Max(T) \in 1 .. n /\ it[T] = steps[Max(T)][it[T \ {Max(T)}]]
          /\ it[T \ {Max(T)}] \in Readers
      BY <2>2, <3>1, Zenon DEF Folds
    <3> QED BY <2>1, <3>1, <3>2, Zenon
  <2>4. it = [T \in SUBSET (1 .. n) |-> it[T]] /\ it[{}] = start
    BY <2>2, Zenon DEF Folds
  <2>5. it = GetStringsStep(s, n, it)
    BY <1>2, <2>3, <2>4, Zenon DEF GetStringsStep, start
  <2> QED BY <2>5
<1>4. t = [T \in SUBSET (1 .. n) |-> IF T = {} THEN start ELSE GetSized(t[T \ {Max(T)}])]
  BY <1>2, <1>3, Zenon DEF GetStringsFold, GetStringsStep
<1> HIDE DEF t, start
<1>5. rows[0] = start
  BY <1>4, FoldPlaces
<1>6. ASSUME NEW k \in 1 .. n
      PROVE  rows[k] = GetSized(rows[k - 1])
  <2>1. /\ 1 .. k \in SUBSET (1 .. n) /\ 1 .. k # {}
        /\ Max(1 .. k) = k /\ (1 .. k) \ {k} = 1 .. k - 1 /\ k - 1 \in 0 .. n /\ k \in 0 .. n
    BY FoldPlaces
  <2>2. t[1 .. k] = GetSized(t[1 .. k - 1])
    BY <1>4, <2>1, Zenon
  <2> QED BY <2>1, <2>2
<1> HIDE DEF rows
<1>7. \A k \in 0 .. n : rows[k] \in Readers
  <2> DEFINE I == {k \in Nat : k <= n => rows[k] \in Readers}
  <2>1. 0 \in I
    BY <1>1, <1>5
  <2>2. ASSUME NEW k \in Nat, k \in I
        PROVE  k + 1 \in I
    <3> SUFFICES ASSUME k + 1 <= n PROVE rows[k + 1] \in Readers
      OBVIOUS
    <3>1. k + 1 \in 1 .. n /\ (k + 1) - 1 = k /\ rows[k] \in Readers
      BY <2>2
    <3> QED BY <1>6, <3>1, GetSizedKeeps
  <2>3. Nat \subseteq I
    <3> HIDE DEF I
    <3> QED BY <2>1, <2>2, NatSetInduction
  <2> QED BY <2>3
<1>8. rows[n] = t[DOMAIN Places(n)]
  BY <1>2 DEF rows
<1> QED BY <1>5, <1>6, <1>7, <1>8, Zenon DEF t, start

StringPut(f, lengths, d, i) ==
  Put(Put(Align(d, 4), Count(lengths[i])), Element(f.name, i, lengths[i]))

PutStringsStep(c, f, lengths, it) ==
  [T \in SUBSET DOMAIN [i \in DOMAIN lengths |-> i] |->
     IF T = {} THEN Put(Align(c, 4), Count(Len(lengths)))
     ELSE StringPut(f, lengths, it[T \ {Max(T)}], [i \in DOMAIN lengths |-> i][Max(T)])]

PutStringsFold(c, f, lengths) == CHOOSE it : it = PutStringsStep(c, f, lengths, it)

LEMMA PutStringsIsFold ==
  ASSUME NEW c, NEW f, NEW lengths
  PROVE  PutStrings(c, f, lengths)
           = PutStringsFold(c, f, lengths)[DOMAIN [i \in DOMAIN lengths |-> i]]
BY DEF PutStrings, FoldLeft, MapThenFoldSet, PutStringsFold, PutStringsStep, StringPut

\* What a writer may have become.
After(c) == {Put(c, w) : w \in Octets}

LEMMA AfterPut ==
  ASSUME NEW c, Writer(c), NEW d \in After(c), NEW w \in Octets
  PROVE  Writer(d) /\ d.cnt \in Nat /\ Put(d, w) \in After(c)
<1>1. PICK u \in Octets : d = Put(c, u)
  BY DEF After
<1>2. Writer(d) /\ Put(d, w) = Put(c, u \o w) /\ u \o w \in Octets
  BY <1>1, PutPut
<1> QED BY <1>2 DEF After, Writer

LEMMA StringPutWord ==
  ASSUME NEW f, f.name \in Names, NEW lengths \in Seq(Nat), NEW i \in 1 .. Len(lengths),
         NEW cnt \in Nat, NEW e, e = Element(f.name, i, lengths[i])
  PROVE  /\ e \in Octets /\ Len(e) = lengths[i] /\ SizedWord(cnt, e) \in Octets
         /\ \A d : Writer(d) /\ d.cnt = cnt =>
              StringPut(f, lengths, d, i) = Put(d, SizedWord(cnt, e))
<1>1. i \in Nat /\ lengths[i] \in Nat
  OBVIOUS
<1>2. e \in Octets /\ Len(e) = lengths[i]
  BY <1>1, Written
<1> DEFINE w == SizedWord(cnt, e)
<1>w. w = SizedWord(cnt, e)
  OBVIOUS
<1> HIDE DEF w
<1>3. Sized(cnt, lengths[i], e, w)
  BY <1>2, <1>w, SizedAgrees
<1> QED BY <1>2, <1>3, Zenon DEF w, StringPut, Sized

\* The string after string writers of an array.
PutRows(c, f, lengths, rows) ==
  /\ rows[0] = Put(Align(c, 4), Count(Len(lengths)))
  /\ \A k \in 1 .. Len(lengths) : rows[k] = StringPut(f, lengths, rows[k - 1], k)

LEMMA PutStringsRows ==
  ASSUME NEW c, Writer(c), NEW f, f.name \in Names, NEW lengths \in Seq(Nat),
         NEW n, n = Len(lengths)
  PROVE  \E rows : PutRows(c, f, lengths, rows) /\ rows[n] = PutStrings(c, f, lengths)
<1> DEFINE V == After(c)
           steps == [k \in 1 .. n |-> [x \in V |-> StringPut(f, lengths, x, k)]]
           start == Put(Align(c, 4), Count(n))
           t == PutStringsFold(c, f, lengths)
           rows == [k \in 0 .. n |-> t[1 .. k]]
<1>0. n \in Nat /\ DOMAIN lengths = 1 .. n
      /\ DOMAIN [i \in DOMAIN lengths |-> i] = 1 .. n
      /\ \A k \in 1 .. n : [i \in DOMAIN lengths |-> i][k] = k
  OBVIOUS
<1>1. start \in V
  <2> DEFINE z == Zeros(Gap(c.cnt, 4))
  <2>1. c.cnt \in Nat /\ z = Zeros(Gap(c.cnt, 4))
    BY DEF Writer
  <2> HIDE DEF z
  <2>2. Counted(c.cnt, n, z)
    BY <1>0, <2>1, CountedWritten
  <2>3. start = Put(c, z \o Count(n)) /\ z \o Count(n) \in Octets
    BY <2>2, Zenon DEF Counted
  <2> QED BY <2>3 DEF After
<1>2. \A k \in 1 .. n : \A x \in V : StringPut(f, lengths, x, k) \in V
  <2> TAKE k \in 1 .. n
  <2> TAKE x \in V
  <2> HIDE DEF V
  <2> DEFINE e == Element(f.name, k, lengths[k])
             w == SizedWord(x.cnt, e)
  <2>0. e = Element(f.name, k, lengths[k])
    OBVIOUS
  <2> HIDE DEF e
  <2>1. Writer(x) /\ x.cnt \in Nat /\ \A u \in Octets : Put(x, u) \in V
    <3>1. <<>> \in Octets
      BY DEF Octets
    <3> QED BY <3>1, AfterPut DEF V
  <2>2. w \in Octets /\ StringPut(f, lengths, x, k) = Put(x, w)
    BY <2>0, <2>1, StringPutWord
  <2> QED BY <2>1, <2>2, Zenon
<1> HIDE DEF V
<1>3. \E it : it = PutStringsStep(c, f, lengths, it)
  <2>1. \A k \in 1 .. n : \A x \in V :
          steps[k][x] = StringPut(f, lengths, x, k) /\ steps[k][x] \in V
    BY <1>2
  <2> HIDE DEF steps, start
  <2>2. PICK it : Folds(n, V, start, steps, it)
    BY <1>0, <1>1, <2>1, Folded
  <2>3. \A T \in SUBSET (1 .. n) : T # {} =>
          T \ {Max(T)} \in SUBSET (1 .. n)
          /\ it[T] = StringPut(f, lengths, it[T \ {Max(T)}], [i \in DOMAIN lengths |-> i][Max(T)])
    <3> TAKE T \in SUBSET (1 .. n)
    <3> HAVE T # {}
    <3>1. T \ {Max(T)} \in SUBSET (1 .. n)
      OBVIOUS
    <3>2. Max(T) \in 1 .. n /\ it[T] = steps[Max(T)][it[T \ {Max(T)}]]
          /\ it[T \ {Max(T)}] \in V
      BY <2>2, <3>1, Zenon DEF Folds
    <3>3. [i \in DOMAIN lengths |-> i][Max(T)] = Max(T)
      BY <1>0, <3>2
    <3> QED BY <2>1, <3>1, <3>2, <3>3, Zenon
  <2>4. it = [T \in SUBSET (1 .. n) |-> it[T]] /\ it[{}] = start
    BY <2>2, Zenon DEF Folds
  <2>5. it = PutStringsStep(c, f, lengths, it)
    BY <1>0, <2>3, <2>4, Zenon DEF PutStringsStep, start
  <2> QED BY <2>5
<1>4. t = [T \in SUBSET (1 .. n) |->
             IF T = {} THEN start
             ELSE StringPut(f, lengths, t[T \ {Max(T)}], [i \in DOMAIN lengths |-> i][Max(T)])]
  BY <1>0, <1>3, Zenon DEF PutStringsFold, PutStringsStep
<1> HIDE DEF t, start
<1>5. rows[0] = start
  BY <1>0, <1>4, FoldPlaces
<1>6. ASSUME NEW k \in 1 .. n
      PROVE  rows[k] = StringPut(f, lengths, rows[k - 1], k)
  <2>1. /\ 1 .. k \in SUBSET (1 .. n) /\ 1 .. k # {}
        /\ Max(1 .. k) = k /\ (1 .. k) \ {k} = 1 .. k - 1 /\ k - 1 \in 0 .. n /\ k \in 0 .. n
    BY <1>0, FoldPlaces
  <2>2. t[1 .. k] = StringPut(f, lengths, t[1 .. k - 1], [i \in DOMAIN lengths |-> i][k])
    BY <1>4, <2>1, Zenon
  <2>3. [i \in DOMAIN lengths |-> i][k] = k
    BY <1>0
  <2> QED BY <2>1, <2>2, <2>3
<1>8. rows[n] = t[DOMAIN [i \in DOMAIN lengths |-> i]]
  BY <1>0 DEF rows
<1> HIDE DEF rows
<1>9. PutRows(c, f, lengths, rows)
  BY <1>0, <1>5, <1>6, Zenon DEF PutRows, start
<1> QED BY <1>8, <1>9, PutStringsIsFold, Zenon DEF t

GetRows(s, n, rows) ==
  /\ rows[0] = Skip(s, 4)
  /\ \A k \in 1 .. n : rows[k] = GetSized(rows[k - 1])

\* The first k strings of an array.
FirstStrings(f, lengths, k) == [i \in 1 .. k |-> Element(f.name, i, lengths[i])]

LEMMA FirstStringsFacts ==
  ASSUME NEW f, f.name \in Names, NEW lengths \in Seq(Nat)
  PROVE  /\ FirstStrings(f, lengths, 0) = <<>>
         /\ \A k \in 0 .. Len(lengths) : FirstStrings(f, lengths, k) \in Seq(Octets)
         /\ \A k \in 0 .. Len(lengths) - 1 :
              FirstStrings(f, lengths, k + 1)
                = FirstStrings(f, lengths, k) \o << Element(f.name, k + 1, lengths[k + 1]) >>
<1>1. FirstStrings(f, lengths, 0) = <<>>
  BY DEF FirstStrings
<1>2. \A i \in 1 .. Len(lengths) : Element(f.name, i, lengths[i]) \in Octets
  BY Written
<1> DEFINE E(i) == Element(f.name, i, lengths[i])
<1>3. \A k \in 0 .. Len(lengths) : FirstStrings(f, lengths, k) \in Seq(Octets)
  <2> TAKE k \in 0 .. Len(lengths)
  <2>1. \A i \in 1 .. k : E(i) \in Octets
    BY <1>2
  <2>2. FirstStrings(f, lengths, k) = [i \in 1 .. k |-> E(i)]
    BY DEF FirstStrings
  <2> HIDE DEF E, Octets
  <2>3. FirstStrings(f, lengths, k) \in [1 .. k -> Octets]
    BY <2>1, <2>2
  <2> QED BY <2>3
<1>4. ASSUME NEW k \in 0 .. Len(lengths) - 1
      PROVE  FirstStrings(f, lengths, k + 1)
               = FirstStrings(f, lengths, k) \o << Element(f.name, k + 1, lengths[k + 1]) >>
  <2>1. /\ FirstStrings(f, lengths, k) = [i \in 1 .. k |-> E(i)]
        /\ FirstStrings(f, lengths, k + 1) = [i \in 1 .. k + 1 |-> E(i)]
    BY DEF FirstStrings
  <2> HIDE DEF E
  <2>2. k \in Nat
    OBVIOUS
  <2>3. [i \in 1 .. k + 1 |-> E(i)] = [i \in 1 .. k |-> E(i)] \o << E(k + 1) >>
    BY <2>2
  <2> QED BY <2>1, <2>3, Zenon DEF E
<1> QED BY <1>1, <1>3, <1>4, Zenon

StringsSoFar(f, lengths, cnt, w0, k, w) ==
  /\ w \in Octets
  /\ \A c, rows : Writer(c) /\ c.cnt = cnt /\ PutRows(c, f, lengths, rows) => rows[k] = Put(c, w)
  /\ \A r \in Readers : \A rows :
       r.cnt = cnt /\ Holds(r.buffer, r.at, w) =>
         /\ Holds(r.buffer, r.at, w0)
         /\ GetRows(Skip(r, Gap(r.cnt, 4)), Len(lengths), rows) =>
              rows[k] = Take(r, Len(w), FirstStrings(f, lengths, k))

LEMMA StringsBegin ==
  ASSUME NEW f, f.name \in Names, NEW lengths \in Seq(Nat), NEW cnt \in Nat,
         NEW z, z = Zeros(Gap(cnt, 4)), NEW w0, w0 = z \o Count(Len(lengths))
  PROVE  StringsSoFar(f, lengths, cnt, w0, 0, w0)
<1> DEFINE n == Len(lengths)
<1>1. n \in Nat
  OBVIOUS
<1>n. w0 = z \o Count(n)
  OBVIOUS
<1> HIDE DEF n
<1>2. Counted(cnt, n, z)
  BY <1>1, CountedWritten
<1>3. /\ w0 \in Octets
      /\ \A c : Writer(c) /\ c.cnt = cnt => Put(Align(c, 4), Count(n)) = Put(c, w0)
  BY <1>2, <1>n, Zenon DEF Counted
<1>4. ASSUME NEW c, NEW rows, Writer(c), c.cnt = cnt, PutRows(c, f, lengths, rows)
      PROVE  rows[0] = Put(c, w0)
  BY <1>3, <1>4, Zenon DEF PutRows, n
<1>5. ASSUME NEW r \in Readers, NEW rows, r.cnt = cnt, Holds(r.buffer, r.at, w0),
             GetRows(Skip(r, Gap(r.cnt, 4)), Len(lengths), rows)
      PROVE  rows[0] = Take(r, Len(w0), FirstStrings(f, lengths, 0))
  <2> DEFINE s == Skip(r, Gap(r.cnt, 4))
             q == Skip(s, 4)
  <2>1. w0 \o <<>> = w0 /\ <<>> \in Octets
    BY <1>3 DEF Octets
  <2>2. z = Zeros(Gap(r.cnt, 4)) /\ Holds(r.buffer, r.at, (z \o Count(n)) \o <<>>)
    BY <1>n, <1>5, <2>1, Zenon
  <2>3. q = Take(r, Len(w0), <<>>)
    <3>1. SizeRead(r, n, <<>>, z, s, q)
      BY <1>1, <2>1, <2>2, CountedRead
    <3> QED BY <1>n, <3>1, Zenon DEF SizeRead
  <2>4. rows[0] = q
    BY <1>5, Zenon DEF GetRows
  <2> QED BY <2>3, <2>4, FirstStringsFacts
<1> QED BY <1>3, <1>4, <1>5, Zenon DEF StringsSoFar

LEMMA StringsGoOn ==
  ASSUME NEW f, f.name \in Names, NEW lengths \in Seq(Nat), NEW cnt \in Nat, NEW w0,
         NEW k \in 1 .. Len(lengths), NEW w, StringsSoFar(f, lengths, cnt, w0, k - 1, w)
  PROVE  \E v : StringsSoFar(f, lengths, cnt, w0, k, v)
<1> DEFINE now == cnt + Len(w)
           e == Element(f.name, k, lengths[k])
           u == SizedWord(now, e)
           v == w \o u
<1>1. /\ w \in Octets /\ now \in Nat
  <2>1. w \in Octets
    BY Zenon DEF StringsSoFar
  <2> QED BY <2>1 DEF Octets
<1>e. e = Element(f.name, k, lengths[k])
  OBVIOUS
<1> HIDE DEF e
<1>n. now = cnt + Len(w)
  OBVIOUS
<1> HIDE DEF now
<1>2. /\ e \in Octets /\ Len(e) = lengths[k] /\ u \in Octets
      /\ \A d : Writer(d) /\ d.cnt = now => StringPut(f, lengths, d, k) = Put(d, u)
  BY <1>1, <1>e, StringPutWord
<1>3. Sized(now, lengths[k], e, u)
  BY <1>1, <1>2, SizedAgrees
<1> HIDE DEF u
<1>4. v \in Octets
  BY <1>1, <1>2, Joins DEF Octets
<1>5. ASSUME NEW c, NEW rows, Writer(c), c.cnt = cnt, PutRows(c, f, lengths, rows)
      PROVE  rows[k] = Put(c, v)
  <2>1. rows[k - 1] = Put(c, w) /\ rows[k] = StringPut(f, lengths, rows[k - 1], k)
    BY <1>5, Zenon DEF StringsSoFar, PutRows
  <2>2. Put(Put(c, w), u) = Put(c, v)
    BY <1>1, <1>2, <1>5, PutPut
  <2>3. Writer(Put(c, w)) /\ Put(c, w).cnt = c.cnt + Len(w)
    BY <1>1, <1>5, PutPut
  <2> QED BY <1>2, <1>5, <1>n, <2>1, <2>2, <2>3, Zenon
<1> DEFINE x == FirstStrings(f, lengths, k - 1)
<1>6. x \in Seq(Octets) /\ FirstStrings(f, lengths, k) = x \o <<e>> /\ <<e>> \in Seq(Octets)
  <2>1. PICK j \in 0 .. Len(lengths) - 1 : j = k - 1 /\ j + 1 = k /\ j \in 0 .. Len(lengths)
    OBVIOUS
  <2>2. /\ FirstStrings(f, lengths, j) \in Seq(Octets)
        /\ FirstStrings(f, lengths, j + 1)
             = FirstStrings(f, lengths, j) \o << Element(f.name, j + 1, lengths[j + 1]) >>
    BY <2>1, FirstStringsFacts
  <2>3. <<e>> \in Seq(Octets)
    BY <1>2
  <2> QED BY <1>e, <2>1, <2>2, <2>3
<1> HIDE DEF x
<1>7. ASSUME NEW r \in Readers, NEW rows, r.cnt = cnt, Holds(r.buffer, r.at, v)
      PROVE  /\ Holds(r.buffer, r.at, w0)
             /\ GetRows(Skip(r, Gap(r.cnt, 4)), Len(lengths), rows) =>
                  rows[k] = Take(r, Len(v), FirstStrings(f, lengths, k))
  <2> DEFINE q == Take(r, Len(w), x)
  <2>q. q = Take(r, Len(w), x)
    OBVIOUS
  <2> HIDE DEF q
  <2>1. Onward(r, w, u, x, q)
    BY <1>1, <1>2, <1>6, <1>7, <2>q, TakeOn
  <2>2. /\ Holds(r.buffer, r.at, w) /\ q \in Readers /\ q.cnt = now
        /\ Holds(q.buffer, q.at, u)
        /\ \A y \in Seq(Octets) : Take(q, Len(u), y) = Take(r, Len(v), x \o y)
    BY <1>7, <1>n, <2>1, Zenon DEF Onward
  <2>3. Holds(r.buffer, r.at, w0)
    BY <1>7, <2>2, Zenon DEF StringsSoFar
  <2>4. ASSUME GetRows(Skip(r, Gap(r.cnt, 4)), Len(lengths), rows)
        PROVE  rows[k] = Take(r, Len(v), FirstStrings(f, lengths, k))
    <3>1. rows[k - 1] = q /\ rows[k] = GetSized(rows[k - 1])
      BY <1>7, <2>2, <2>4, <2>q, Zenon DEF StringsSoFar, GetRows, x
    <3>2. GetSized(q) = Take(q, Len(u), <<e>>)
      BY <1>3, <2>2, Zenon DEF Sized
    <3> QED BY <1>6, <2>2, <3>1, <3>2, Zenon
  <2> QED BY <2>3, <2>4, Zenon
<1>8. StringsSoFar(f, lengths, cnt, w0, k, v)
  BY <1>4, <1>5, <1>7, Zenon DEF StringsSoFar
<1> QED BY <1>8

LEMMA StringsAgree ==
  ASSUME NEW f, NEW v, Fits(f, v), f.kind = "strings", NEW cnt \in Nat
  PROVE  /\ \E w : Agrees(f, v, cnt, w)
         /\ ContentsOf(f, v) \in Seq(Octets)
<1> DEFINE lengths == v[f.name]
           n == Len(lengths)
           z == Zeros(Gap(cnt, 4))
           w0 == z \o Count(n)
<1>1. lengths \in Seq(Nat) /\ f.name \in Names /\ n \in Nat /\ DOMAIN lengths = 1 .. n
  BY DEF Fits
<1>2. \A c : PutFlat(c, f, v) = PutStrings(c, f, lengths)
  BY DEF PutFlat
<1>3. \A r : GetFlat(r, f) = GetStrings(r, f)
  BY DEF GetFlat
<1>4. ContentsOf(f, v) = [i \in DOMAIN lengths |-> Element(f.name, i, lengths[i])]
  BY DEF ContentsOf
<1> HIDE DEF lengths
<1>5. ContentsOf(f, v) = FirstStrings(f, lengths, n) /\ FirstStrings(f, lengths, n) \in Seq(Octets)
  <2>1. n \in 0 .. Len(lengths)
    BY <1>1
  <2> QED BY <1>1, <1>4, <2>1, FirstStringsFacts, Zenon DEF FirstStrings
<1>z. z = Zeros(Gap(cnt, 4)) /\ w0 = z \o Count(Len(lengths))
  OBVIOUS
<1> HIDE DEF z, w0
<1>6. \A k \in 0 .. n : \E w : StringsSoFar(f, lengths, cnt, w0, k, w)
  <2> DEFINE I == {k \in Nat : k <= n => \E w : StringsSoFar(f, lengths, cnt, w0, k, w)}
  <2>1. 0 \in I
    BY <1>1, <1>z, StringsBegin
  <2>2. ASSUME NEW k \in Nat, k \in I
        PROVE  k + 1 \in I
    <3> SUFFICES ASSUME k + 1 <= n PROVE \E w : StringsSoFar(f, lengths, cnt, w0, k + 1, w)
      OBVIOUS
    <3>1. k + 1 \in 1 .. n /\ (k + 1) - 1 = k
      BY <1>1
    <3>2. PICK w : StringsSoFar(f, lengths, cnt, w0, k, w)
      BY <1>1, <2>2
    <3> DEFINE m == k + 1
    <3>3. m \in 1 .. n /\ StringsSoFar(f, lengths, cnt, w0, m - 1, w)
      BY <3>1, <3>2
    <3> HIDE DEF m
    <3>4. \E u : StringsSoFar(f, lengths, cnt, w0, m, u)
      BY <1>1, <3>3, StringsGoOn
    <3> QED BY <3>4 DEF m
  <2>3. Nat \subseteq I
    <3> HIDE DEF I
    <3> QED BY <2>1, <2>2, NatSetInduction
  <2> QED BY <1>1, <2>3
<1>7. PICK w : StringsSoFar(f, lengths, cnt, w0, n, w)
  <2>1. n \in 0 .. n
    BY <1>1
  <2> QED BY <1>6, <2>1, Zenon
<1>8. ASSUME NEW c, Writer(c), c.cnt = cnt
      PROVE  PutFlat(c, f, v) = Put(c, w)
  <2>1. PICK rows : PutRows(c, f, lengths, rows) /\ rows[n] = PutStrings(c, f, lengths)
    BY <1>1, <1>8, PutStringsRows
  <2>2. rows[n] = Put(c, w)
    BY <1>7, <1>8, <2>1, Zenon DEF StringsSoFar
  <2> QED BY <1>2, <2>1, <2>2, Zenon
<1>9. ASSUME NEW r \in Readers, r.cnt = cnt, Holds(r.buffer, r.at, w)
      PROVE  GetFlat(r, f) = Take(r, Len(w), ContentsOf(f, v))
  <2> DEFINE s == Skip(r, Gap(r.cnt, 4))
             q == Skip(s, 4)
  <2>1. Holds(r.buffer, r.at, w0) /\ z = Zeros(Gap(r.cnt, 4))
    BY <1>7, <1>9, <1>z, Zenon DEF StringsSoFar
  <2>2. n = SizeAt(s.buffer, s.at) /\ s \in Readers
    <3>1. Counted(cnt, n, z)
      BY <1>1, <1>z, CountedWritten
    <3>2. w0 \in Octets
      BY <1>z, <3>1, Zenon DEF Counted
    <3>3. w0 \o <<>> = w0 /\ <<>> \in Octets
      BY <3>2 DEF Octets
    <3>4. Holds(r.buffer, r.at, (z \o Count(n)) \o <<>>)
      BY <1>z, <2>1, <3>3, Zenon
    <3>5. SizeRead(r, n, <<>>, z, s, q)
      BY <1>1, <2>1, <3>3, <3>4, CountedRead
    <3> QED BY <3>5, Zenon DEF SizeRead
  <2> HIDE DEF s, n
  <2>3. s = Skip(r, Gap(r.cnt, 4))
    BY DEF s
  <2>4. PICK rows : /\ rows[0] = Skip(s, 4)
                    /\ \A k \in 1 .. n : rows[k] = GetSized(rows[k - 1])
                    /\ rows[n] = GetStringsFold(s, n)[DOMAIN Places(n)]
    BY <1>1, <2>2, GetStringsRows
  <2>5. GetRows(Skip(r, Gap(r.cnt, 4)), Len(lengths), rows)
    BY <2>3, <2>4, Zenon DEF GetRows, n
  <2>6. rows[n] = Take(r, Len(w), FirstStrings(f, lengths, n))
    BY <1>7, <1>9, <2>5, Zenon DEF StringsSoFar
  <2>7. GetFlat(r, f) = rows[n]
    <3>1. GetStrings(r, f) = GetStringsFold(s, n)[DOMAIN Places(n)]
      BY <2>2, <2>3, GetStringsIsFold
    <3> QED BY <1>3, <2>4, <3>1, Zenon
  <2> QED BY <1>5, <2>6, <2>7, Zenon
<1>10. w \in Octets
  BY <1>7, Zenon DEF StringsSoFar
<1> QED BY <1>5, <1>8, <1>9, <1>10, Zenon DEF Agrees

\* Every member without members of its own is read as it was written.
LEMMA FlatAgrees ==
  ASSUME NEW f, NEW v, Fits(f, v), NEW cnt \in Nat
  PROVE  /\ \E w : Agrees(f, v, cnt, w)
         /\ ContentsOf(f, v) \in Seq(Octets)
<1>1. f.kind \in {"primitive", "bounded", "array", "strings", "string", "header"}
  BY DEF Fits
<1> QED BY <1>1, PrimitiveAgrees, BoundedAgrees, ArrayAgrees, StringsAgree, StringAgrees,
           HeaderAgrees

-----------------------------------------------------------------------------
(* A list of members without members of their own. *)

\* "it" folds the n steps from base on and stays in V.
Made(n, V, base, steps, it) ==
  /\ it = [T \in SUBSET (1 .. n) |-> it[T]] /\ it[{}] = base
  /\ \A T \in SUBSET (1 .. n) : T # {} =>
       /\ Max(T) \in 1 .. n /\ it[T \ {Max(T)}] \in V
       /\ it[T] = steps[Max(T)][it[T \ {Max(T)}]]

LEMMA FoldMade ==
  ASSUME NEW n \in Nat, NEW V, NEW base \in V, NEW steps,
         \A k \in 1 .. n : \A x \in V : steps[k][x] \in V
  PROVE  \E it : Made(n, V, base, steps, it)
<1>1. PICK it : Folds(n, V, base, steps, it)
  BY Folded
<1>2. ASSUME NEW T \in SUBSET (1 .. n), T # {}
      PROVE  /\ Max(T) \in 1 .. n /\ it[T \ {Max(T)}] \in V
             /\ it[T] = steps[Max(T)][it[T \ {Max(T)}]]
  <2>1. T \ {Max(T)} \in SUBSET (1 .. n)
    OBVIOUS
  <2> QED BY <1>1, <1>2, <2>1, Zenon DEF Folds
<1>3. it = [T \in SUBSET (1 .. n) |-> it[T]] /\ it[{}] = base
  BY <1>1, Zenon DEF Folds
<1> QED BY <1>2, <1>3, Zenon DEF Made

LEMMA GetKeeps ==
  ASSUME NEW f, NEW v, Fits(f, v), NEW r \in Readers
  PROVE  GetFlat(r, f) \in Readers
<1>1. /\ f.kind \in {"primitive", "bounded", "array", "strings", "string", "header"}
      /\ f.kind \in {"primitive", "bounded", "array"} => f.size \in Sizes /\ f.size \in Nat
      /\ f.bound \in Nat
      /\ r.cnt \in Nat
  BY ReaderFields DEF Fits, Sizes
<1> DEFINE s == Skip(r, Gap(r.cnt, 4))
           n == SizeAt(s.buffer, s.at)
           q == Skip(s, 4)
<1>2. s \in Readers
  BY <1>1, GapFacts, SkipKeeps DEF Sizes
<1>3. s.at \in Nat /\ s.buffer \in Octets
  BY <1>2, ReaderFields
<1> HIDE DEF s
<1>4. n \in Nat /\ q \in Readers
  <2>1. 4 \in Nat
    OBVIOUS
  <2>2. q \in Readers
    BY <1>2, <2>1, SkipKeeps, Zenon
  <2> QED BY <1>3, <2>2, SizeAtNat
<1> HIDE DEF n, q
<1>5. ASSUME f.kind = "primitive" PROVE GetFlat(r, f) \in Readers
  <2> DEFINE t == Skip(r, MemberGap(r.cnt, f.size))
  <2>0. f.size \in Sizes /\ f.size \in Nat
    BY <1>1, <1>5
  <2>1. t \in Readers
    BY <1>1, <2>0, GapFacts, SkipKeeps
  <2> HIDE DEF t
  <2>2. Store(t, f.size, Peek(t.buffer, t.at, f.size)) \in Readers
    BY <1>1, <2>0, <2>1, ReaderFields, StorePeeked
  <2> QED BY <1>5, <2>2 DEF GetFlat, GetPrimitive, t
<1>6. ASSUME f.kind = "bounded" PROVE GetFlat(r, f) \in Readers
  <2> DEFINE t == Skip(r, MemberGap(r.cnt, f.size))
             m == f.bound * f.size
  <2>0. f.size \in Sizes /\ f.size \in Nat
    BY <1>1, <1>6
  <2>1. t \in Readers
    BY <1>1, <2>0, GapFacts, SkipKeeps
  <2>2. m \in Nat
    BY <1>1, <2>0
  <2> HIDE DEF t, m
  <2>3. Store(t, m, Peek(t.buffer, t.at, m)) \in Readers
    BY <2>1, <2>2, ReaderFields, StorePeeked
  <2> QED BY <1>6, <2>3 DEF GetFlat, GetBoundedArray, t, m
<1>7. ASSUME f.kind = "array" PROVE GetFlat(r, f) \in Readers
  <2> DEFINE t == IF f.size = 8 THEN Skip(q, Gap(q.cnt, 8)) ELSE q
             m == n * f.size
  <2>1. t \in Readers
    <3>1. Skip(q, Gap(q.cnt, 8)) \in Readers
      BY <1>4, ReaderFields, GapFacts, SkipKeeps DEF Sizes
    <3> QED BY <1>4, <3>1
  <2>2. m \in Nat
    BY <1>1, <1>4, <1>7
  <2> HIDE DEF t, m
  <2>3. Store(t, m, Peek(t.buffer, t.at, m)) \in Readers
    BY <2>1, <2>2, ReaderFields, StorePeeked
  <2> QED BY <1>7, <2>3 DEF GetFlat, GetArray, s, n, q, t, m
<1>8. ASSUME f.kind = "strings" PROVE GetFlat(r, f) \in Readers
  <2>1. PICK rows : /\ \A k \in 0 .. n : rows[k] \in Readers
                    /\ rows[n] = GetStringsFold(s, n)[DOMAIN Places(n)]
    BY <1>2, <1>4, GetStringsRows
  <2>2. GetStrings(r, f) = rows[n]
    BY <2>1, GetStringsIsFold DEF s, n
  <2>3. n \in 0 .. n
    BY <1>4
  <2> QED BY <1>8, <2>1, <2>2, <2>3 DEF GetFlat
<1>9. ASSUME f.kind = "string" PROVE GetFlat(r, f) \in Readers
  BY <1>9, GetSizedKeeps DEF GetFlat, GetString, GetSized
<1>10. ASSUME f.kind = "header" PROVE GetFlat(r, f) \in Readers
  <2> DEFINE m == SizeAt(s.buffer, s.at + 8)
             t == Skip(s, 12)
             e == Peek(s.buffer, s.at, 8) \o Peek(s.buffer, s.at + 12, m)
  <2>1. s.at + 8 \in Nat /\ s.at + 12 \in Nat /\ 8 \in Nat /\ 12 \in Nat
    BY <1>3
  <2>2. m \in Nat
    BY <1>3, <2>1, SizeAtNat
  <2>3. t \in Readers
    BY <1>2, <2>1, SkipKeeps
  <2> HIDE DEF m, t
  <2>4. e \in Octets
    <3> DEFINE x == Peek(s.buffer, s.at, 8)
               y == Peek(s.buffer, s.at + 12, m)
    <3>1. x \in Octets /\ y \in Octets
      BY <1>3, <2>1, <2>2, PeekOctets
    <3> HIDE DEF x, y
    <3>2. x \o y \in Octets
      BY <3>1, Joins DEF Octets
    <3> QED BY <3>2 DEF x, y
  <2> HIDE DEF e
  <2>5. Store(t, m, e) \in Readers
    BY <2>2, <2>3, <2>4, StoreIsTake, TakeKeeps
  <2> QED BY <1>10, <2>5 DEF GetFlat, GetHeader, s, m, t, e
<1> QED BY <1>1, <1>5, <1>6, <1>7, <1>8, <1>9, <1>10

\* fs lists n members that an object holding "v" can have.
Flats(fs, v, n) ==
  n \in Nat /\ DOMAIN fs = 1 .. n /\ \A i \in 1 .. n : Fits(fs[i], v)

PutFlatsStep(c, fs, v, it) ==
  [T \in SUBSET DOMAIN fs |-> IF T = {} THEN c ELSE PutFlat(it[T \ {Max(T)}], fs[Max(T)], v)]

PutFlats(c, fs, v) == (CHOOSE it : it = PutFlatsStep(c, fs, v, it))[DOMAIN fs]

PutFlatRows(c, fs, v, n, rows) ==
  rows[0] = c /\ \A k \in 1 .. n : rows[k] = PutFlat(rows[k - 1], fs[k], v)

LEMMA PutFlatsRows ==
  ASSUME NEW c, Writer(c), NEW fs, NEW v, NEW n, Flats(fs, v, n)
  PROVE  \E rows : PutFlatRows(c, fs, v, n, rows) /\ rows[n] = PutFlats(c, fs, v)
<1> DEFINE V == After(c)
           steps == [k \in 1 .. n |-> [x \in V |-> PutFlat(x, fs[k], v)]]
           t == CHOOSE it : it = PutFlatsStep(c, fs, v, it)
           rows == [k \in 0 .. n |-> t[1 .. k]]
<1>0. n \in Nat /\ DOMAIN fs = 1 .. n
  BY Zenon DEF Flats
<1>1. c \in V
  <2>1. <<>> \in Octets
    BY DEF Octets
  <2> QED BY <2>1, PutNothing DEF After
<1>2. \A k \in 1 .. n : \A x \in V : PutFlat(x, fs[k], v) \in V
  <2> TAKE k \in 1 .. n
  <2> TAKE x \in V
  <2> HIDE DEF V
  <2>1. Writer(x) /\ x.cnt \in Nat /\ \A u \in Octets : Put(x, u) \in V
    <3>1. <<>> \in Octets
      BY DEF Octets
    <3> QED BY <3>1, AfterPut DEF V
  <2>2. Fits(fs[k], v)
    BY Zenon DEF Flats
  <2>3. PICK w : Agrees(fs[k], v, x.cnt, w)
    BY <2>1, <2>2, FlatAgrees
  <2> QED BY <2>1, <2>3, Zenon DEF Agrees
<1> HIDE DEF V
<1>3. \E it : it = PutFlatsStep(c, fs, v, it)
  <2>1. \A k \in 1 .. n : \A x \in V : steps[k][x] = PutFlat(x, fs[k], v) /\ steps[k][x] \in V
    BY <1>2
  <2> HIDE DEF steps
  <2>2. PICK it : Made(n, V, c, steps, it)
    BY <1>0, <1>1, <2>1, FoldMade
  <2>3. it = PutFlatsStep(c, fs, v, it)
    BY <1>0, <2>1, <2>2, Zenon DEF PutFlatsStep, Made
  <2> QED BY <2>3
<1>4. t = [T \in SUBSET (1 .. n) |-> IF T = {} THEN c ELSE PutFlat(t[T \ {Max(T)}], fs[Max(T)], v)]
  BY <1>0, <1>3, Zenon DEF PutFlatsStep
<1>8. rows[n] = PutFlats(c, fs, v)
  BY <1>0 DEF PutFlats
<1> HIDE DEF t
<1>5. rows[0] = c
  BY <1>0, <1>4, FoldPlaces
<1>6. ASSUME NEW k \in 1 .. n
      PROVE  rows[k] = PutFlat(rows[k - 1], fs[k], v)
  <2>1. /\ 1 .. k \in SUBSET (1 .. n) /\ 1 .. k # {}
        /\ Max(1 .. k) = k /\ (1 .. k) \ {k} = 1 .. k - 1 /\ k - 1 \in 0 .. n /\ k \in 0 .. n
    BY <1>0, FoldPlaces
  <2>2. t[1 .. k] = PutFlat(t[1 .. k - 1], fs[k], v)
    BY <1>4, <2>1, Zenon
  <2> QED BY <2>1, <2>2
<1> HIDE DEF rows
<1> QED BY <1>5, <1>6, <1>8, Zenon DEF PutFlatRows

GetFlatsStep(r, fs, it) ==
  [T \in SUBSET DOMAIN fs |-> IF T = {} THEN r ELSE GetFlat(it[T \ {Max(T)}], fs[Max(T)])]

GetFlats(r, fs) == (CHOOSE it : it = GetFlatsStep(r, fs, it))[DOMAIN fs]

GetFlatRows(r, fs, n, rows) ==
  rows[0] = r /\ \A k \in 1 .. n : rows[k] = GetFlat(rows[k - 1], fs[k])

LEMMA GetFlatsRows ==
  ASSUME NEW r \in Readers, NEW fs, NEW v, NEW n, Flats(fs, v, n)
  PROVE  \E rows : /\ GetFlatRows(r, fs, n, rows) /\ rows[n] = GetFlats(r, fs)
                   /\ rows[n] \in Readers
<1> DEFINE V == Readers
           steps == [k \in 1 .. n |-> [x \in V |-> GetFlat(x, fs[k])]]
           t == CHOOSE it : it = GetFlatsStep(r, fs, it)
           rows == [k \in 0 .. n |-> t[1 .. k]]
<1>0. n \in Nat /\ DOMAIN fs = 1 .. n
  BY Zenon DEF Flats
<1>1. r \in V
  OBVIOUS
<1>2. \A k \in 1 .. n : \A x \in V : GetFlat(x, fs[k]) \in V
  <2>1. \A k \in 1 .. n : Fits(fs[k], v)
    BY Zenon DEF Flats
  <2> QED BY <2>1, GetKeeps
<1> HIDE DEF V
<1>3. \E it : it = GetFlatsStep(r, fs, it)
  <2>1. \A k \in 1 .. n : \A x \in V : steps[k][x] = GetFlat(x, fs[k]) /\ steps[k][x] \in V
    BY <1>2
  <2> HIDE DEF steps
  <2>2. PICK it : Made(n, V, r, steps, it)
    BY <1>0, <1>1, <2>1, FoldMade
  <2>3. it = GetFlatsStep(r, fs, it)
    BY <1>0, <2>1, <2>2, Zenon DEF GetFlatsStep, Made
  <2> QED BY <2>3
<1>4. t = [T \in SUBSET (1 .. n) |-> IF T = {} THEN r ELSE GetFlat(t[T \ {Max(T)}], fs[Max(T)])]
  BY <1>0, <1>3, Zenon DEF GetFlatsStep
<1>8. rows[n] = GetFlats(r, fs)
  BY <1>0 DEF GetFlats
<1> HIDE DEF t
<1>5. rows[0] = r
  BY <1>0, <1>4, FoldPlaces
<1>6. ASSUME NEW k \in 1 .. n
      PROVE  rows[k] = GetFlat(rows[k - 1], fs[k])
  <2>1. /\ 1 .. k \in SUBSET (1 .. n) /\ 1 .. k # {}
        /\ Max(1 .. k) = k /\ (1 .. k) \ {k} = 1 .. k - 1 /\ k - 1 \in 0 .. n /\ k \in 0 .. n
    BY <1>0, FoldPlaces
  <2>2. t[1 .. k] = GetFlat(t[1 .. k - 1], fs[k])
    BY <1>4, <2>1, Zenon
  <2> QED BY <2>1, <2>2
<1> HIDE DEF rows
<1>7. rows[n] \in V
  <2> DEFINE I == {k \in Nat : k <= n => rows[k] \in V}
  <2>1. 0 \in I
    BY <1>1, <1>5
  <2>2. ASSUME NEW k \in Nat, k \in I
        PROVE  k + 1 \in I
    <3> SUFFICES ASSUME k + 1 <= n PROVE rows[k + 1] \in V
      OBVIOUS
    <3>1. k + 1 \in 1 .. n /\ (k + 1) - 1 = k /\ rows[k] \in V
      BY <1>0, <2>2
    <3> QED BY <1>2, <1>6, <3>1
  <2>3. Nat \subseteq I
    <3> HIDE DEF I
    <3> QED BY <2>1, <2>2, NatSetInduction
  <2> QED BY <1>0, <2>3
<1> QED BY <1>5, <1>6, <1>7, <1>8, Zenon DEF GetFlatRows, V

FlatContentsStep(fs, v, it) ==
  [T \in SUBSET DOMAIN fs |->
     IF T = {} THEN <<>> ELSE it[T \ {Max(T)}] \o ContentsOf(fs[Max(T)], v)]

LEMMA FlatContentsIsFold ==
  ASSUME NEW fs, NEW v
  PROVE  FlatContents(fs, v) = (CHOOSE it : it = FlatContentsStep(fs, v, it))[DOMAIN fs]
BY DEF FlatContents, FoldLeft, MapThenFoldSet, FlatContentsStep

ContentsRows(fs, v, n, rows) ==
  /\ rows[0] = <<>> /\ \A k \in 0 .. n : rows[k] \in Seq(Octets)
  /\ \A k \in 1 .. n : rows[k] = rows[k - 1] \o ContentsOf(fs[k], v)

LEMMA FlatContentsRows ==
  ASSUME NEW fs, NEW v, NEW n, Flats(fs, v, n)
  PROVE  \E rows : ContentsRows(fs, v, n, rows) /\ rows[n] = FlatContents(fs, v)
<1> DEFINE V == Seq(Octets)
           steps == [k \in 1 .. n |-> [x \in V |-> x \o ContentsOf(fs[k], v)]]
           t == CHOOSE it : it = FlatContentsStep(fs, v, it)
           rows == [k \in 0 .. n |-> t[1 .. k]]
<1>0. n \in Nat /\ DOMAIN fs = 1 .. n
  BY Zenon DEF Flats
<1>1. <<>> \in V
  OBVIOUS
<1>2. \A k \in 1 .. n : \A x \in V : x \o ContentsOf(fs[k], v) \in V
  <2>1. \A k \in 1 .. n : Fits(fs[k], v)
    BY Zenon DEF Flats
  <2>2. \A k \in 1 .. n : ContentsOf(fs[k], v) \in V
    <3>1. 0 \in Nat
      OBVIOUS
    <3> QED BY <2>1, <3>1, FlatAgrees
  <2>3. \A x, y \in V : x \o y \in V
    BY Joins
  <2> HIDE DEF V
  <2> QED BY <2>2, <2>3, Zenon
<1> HIDE DEF V
<1>3. \E it : it = FlatContentsStep(fs, v, it)
  <2>1. \A k \in 1 .. n : \A x \in V :
          steps[k][x] = x \o ContentsOf(fs[k], v) /\ steps[k][x] \in V
    BY <1>2
  <2> HIDE DEF steps
  <2>2. PICK it : Made(n, V, <<>>, steps, it)
    BY <1>0, <1>1, <2>1, FoldMade
  <2>3. it = FlatContentsStep(fs, v, it)
    BY <1>0, <2>1, <2>2, Zenon DEF FlatContentsStep, Made
  <2> QED BY <2>3
<1>4. t = [T \in SUBSET (1 .. n) |->
             IF T = {} THEN <<>> ELSE t[T \ {Max(T)}] \o ContentsOf(fs[Max(T)], v)]
  BY <1>0, <1>3, Zenon DEF FlatContentsStep
<1>8. rows[n] = FlatContents(fs, v)
  BY <1>0, FlatContentsIsFold
<1> HIDE DEF t
<1>5. rows[0] = <<>>
  BY <1>0, <1>4, FoldPlaces
<1>6. ASSUME NEW k \in 1 .. n
      PROVE  rows[k] = rows[k - 1] \o ContentsOf(fs[k], v)
  <2>1. /\ 1 .. k \in SUBSET (1 .. n) /\ 1 .. k # {}
        /\ Max(1 .. k) = k /\ (1 .. k) \ {k} = 1 .. k - 1 /\ k - 1 \in 0 .. n /\ k \in 0 .. n
    BY <1>0, FoldPlaces
  <2>2. t[1 .. k] = t[1 .. k - 1] \o ContentsOf(fs[k], v)
    BY <1>4, <2>1, Zenon
  <2> QED BY <2>1, <2>2
<1> HIDE DEF rows
<1>7. \A k \in 0 .. n : rows[k] \in V
  <2> DEFINE I == {k \in Nat : k <= n => rows[k] \in V}
  <2>1. 0 \in I
    BY <1>1, <1>5
  <2>2. ASSUME NEW k \in Nat, k \in I
        PROVE  k + 1 \in I
    <3> SUFFICES ASSUME k + 1 <= n PROVE rows[k + 1] \in V
      OBVIOUS
    <3>1. k + 1 \in 1 .. n /\ (k + 1) - 1 = k /\ rows[k] \in V
      BY <1>0, <2>2
    <3> QED BY <1>2, <1>6, <3>1
  <2>3. Nat \subseteq I
    <3> HIDE DEF I
    <3> QED BY <2>1, <2>2, NatSetInduction
  <2> QED BY <1>0, <2>3
<1> QED BY <1>5, <1>6, <1>7, <1>8, Zenon DEF ContentsRows, V

LEMMA TakeNone ==
  ASSUME NEW r \in Readers
  PROVE  Take(r, 0, <<>>) = r
<1>1. Skip(r, 0) = Take(r, 0, <<>>)
  BY SkipIsTake
<1> QED BY <1>1, SkipNothing

FlatsSoFar(fs, v, n, cnt, k, w) ==
  /\ w \in Octets
  /\ \A c, rows : Writer(c) /\ c.cnt = cnt /\ PutFlatRows(c, fs, v, n, rows) =>
       rows[k] = Put(c, w)
  /\ \A r \in Readers : \A rows, said :
       /\ r.cnt = cnt /\ Holds(r.buffer, r.at, w)
       /\ GetFlatRows(r, fs, n, rows) /\ ContentsRows(fs, v, n, said)
       => rows[k] = Take(r, Len(w), said[k])

LEMMA FlatsBegin ==
  ASSUME NEW fs, NEW v, NEW n, NEW cnt
  PROVE  FlatsSoFar(fs, v, n, cnt, 0, <<>>)
<1>1. <<>> \in Octets /\ Len(<<>>) = 0
  BY DEF Octets
<1>2. ASSUME NEW c, NEW rows, Writer(c), PutFlatRows(c, fs, v, n, rows)
      PROVE  rows[0] = Put(c, <<>>)
  BY <1>2, PutNothing DEF PutFlatRows
<1>3. ASSUME NEW r \in Readers, NEW rows, NEW said, GetFlatRows(r, fs, n, rows),
             ContentsRows(fs, v, n, said)
      PROVE  rows[0] = Take(r, Len(<<>>), said[0])
  <2>1. rows[0] = r /\ said[0] = <<>>
    BY <1>3, Zenon DEF GetFlatRows, ContentsRows
  <2> QED BY <1>1, <2>1, TakeNone
<1> QED BY <1>1, <1>2, <1>3, Zenon DEF FlatsSoFar

LEMMA FlatsGoOn ==
  ASSUME NEW fs, NEW v, NEW n, Flats(fs, v, n), NEW cnt \in Nat, NEW k \in 1 .. n,
         NEW w, FlatsSoFar(fs, v, n, cnt, k - 1, w)
  PROVE  \E x : FlatsSoFar(fs, v, n, cnt, k, x)
<1> DEFINE now == cnt + Len(w)
           said_k == ContentsOf(fs[k], v)
<1>1. w \in Octets /\ now \in Nat
  <2>1. w \in Octets
    BY Zenon DEF FlatsSoFar
  <2> QED BY <2>1 DEF Octets
<1>n. now = cnt + Len(w)
  OBVIOUS
<1> HIDE DEF now
<1>2. Fits(fs[k], v)
  BY Zenon DEF Flats
<1>3. PICK u : Agrees(fs[k], v, now, u)
  BY <1>1, <1>2, FlatAgrees
<1>4. said_k \in Seq(Octets)
  BY <1>1, <1>2, FlatAgrees
<1> HIDE DEF said_k
<1> DEFINE x == w \o u
<1>5. u \in Octets /\ x \in Octets
  <2>1. u \in Octets
    BY <1>3, Zenon DEF Agrees
  <2> QED BY <1>1, <2>1, Joins DEF Octets
<1>6. ASSUME NEW c, NEW rows, Writer(c), c.cnt = cnt, PutFlatRows(c, fs, v, n, rows)
      PROVE  rows[k] = Put(c, x)
  <2>1. rows[k - 1] = Put(c, w) /\ rows[k] = PutFlat(rows[k - 1], fs[k], v)
    BY <1>6, Zenon DEF FlatsSoFar, PutFlatRows
  <2>2. Put(Put(c, w), u) = Put(c, x)
    BY <1>1, <1>5, <1>6, PutPut
  <2>3. Writer(Put(c, w)) /\ Put(c, w).cnt = c.cnt + Len(w)
    BY <1>1, <1>6, PutPut
  <2>4. PutFlat(Put(c, w), fs[k], v) = Put(Put(c, w), u)
    BY <1>3, <1>6, <1>n, <2>3, Zenon DEF Agrees
  <2> QED BY <2>1, <2>2, <2>4, Zenon
<1>7. ASSUME NEW r \in Readers, NEW rows, NEW said, r.cnt = cnt, Holds(r.buffer, r.at, x),
             GetFlatRows(r, fs, n, rows), ContentsRows(fs, v, n, said)
      PROVE  rows[k] = Take(r, Len(x), said[k])
  <2> DEFINE j == k - 1
             q == Take(r, Len(w), said[j])
  <2>j. j \in 0 .. n /\ j = k - 1
    BY Zenon, FoldPlaces DEF Flats
  <2>q. q = Take(r, Len(w), said[j])
    OBVIOUS
  <2> HIDE DEF j, q
  <2>1. said[j] \in Seq(Octets) /\ said[k] = said[j] \o said_k
    BY <1>7, <2>j, Zenon DEF ContentsRows, said_k
  <2>2. Onward(r, w, u, said[j], q)
    BY <1>1, <1>5, <1>7, <2>1, <2>q, TakeOn
  <2>3. /\ Holds(r.buffer, r.at, w) /\ q \in Readers /\ q.cnt = now
        /\ Holds(q.buffer, q.at, u)
        /\ \A y \in Seq(Octets) : Take(q, Len(u), y) = Take(r, Len(x), said[j] \o y)
    BY <1>7, <1>n, <2>2, Zenon DEF Onward
  <2>4. rows[j] = q /\ rows[k] = GetFlat(rows[j], fs[k])
    BY <1>7, <2>3, <2>j, <2>q, ZenonT(40) DEF FlatsSoFar, GetFlatRows
  <2>5. GetFlat(q, fs[k]) = Take(q, Len(u), said_k)
    BY <1>3, <2>3, Zenon DEF Agrees, said_k
  <2> QED BY <1>4, <2>1, <2>3, <2>4, <2>5, Zenon
<1>8. FlatsSoFar(fs, v, n, cnt, k, x)
  BY <1>5, <1>6, <1>7, Zenon DEF FlatsSoFar
<1> QED BY <1>8

\* From the counter cnt on the members are written as w, and w read as the members.
AllAgree(fs, v, cnt, w) ==
  /\ w \in Octets
  /\ \A c : Writer(c) /\ c.cnt = cnt => PutFlats(c, fs, v) = Put(c, w)
  /\ \A r \in Readers : r.cnt = cnt /\ Holds(r.buffer, r.at, w) =>
       GetFlats(r, fs) = Take(r, Len(w), FlatContents(fs, v))

LEMMA FlatsAgree ==
  ASSUME NEW fs, NEW v, NEW n, Flats(fs, v, n), NEW cnt \in Nat
  PROVE  (\E w : AllAgree(fs, v, cnt, w)) /\ FlatContents(fs, v) \in Seq(Octets)
<1>0. n \in Nat /\ n \in 0 .. n
  <2>1. n \in Nat
    BY Zenon DEF Flats
  <2> QED BY <2>1
<1>1. \A k \in 0 .. n : \E w : FlatsSoFar(fs, v, n, cnt, k, w)
  <2> DEFINE I == {k \in Nat : k <= n => \E w : FlatsSoFar(fs, v, n, cnt, k, w)}
  <2>1. 0 \in I
    BY FlatsBegin
  <2>2. ASSUME NEW k \in Nat, k \in I
        PROVE  k + 1 \in I
    <3> SUFFICES ASSUME k + 1 <= n PROVE \E w : FlatsSoFar(fs, v, n, cnt, k + 1, w)
      OBVIOUS
    <3>2. PICK w : FlatsSoFar(fs, v, n, cnt, k, w)
      BY <1>0, <2>2
    <3> DEFINE m == k + 1
    <3>3. m \in 1 .. n /\ FlatsSoFar(fs, v, n, cnt, m - 1, w)
      <4>1. m \in 1 .. n /\ m - 1 = k
        BY <1>0
      <4> QED BY <3>2, <4>1, Zenon
    <3> HIDE DEF m
    <3>4. \E u : FlatsSoFar(fs, v, n, cnt, m, u)
      BY <3>3, FlatsGoOn
    <3> QED BY <3>4 DEF m
  <2>3. Nat \subseteq I
    <3> HIDE DEF I
    <3> QED BY <2>1, <2>2, NatSetInduction
  <2> QED BY <1>0, <2>3
<1>2. PICK w : FlatsSoFar(fs, v, n, cnt, n, w)
  BY <1>0, <1>1, Zenon
<1>3. PICK said : ContentsRows(fs, v, n, said) /\ said[n] = FlatContents(fs, v)
  BY FlatContentsRows
<1>4. FlatContents(fs, v) \in Seq(Octets)
  BY <1>0, <1>3, Zenon DEF ContentsRows
<1>5. ASSUME NEW c, Writer(c), c.cnt = cnt
      PROVE  PutFlats(c, fs, v) = Put(c, w)
  <2>1. PICK rows : PutFlatRows(c, fs, v, n, rows) /\ rows[n] = PutFlats(c, fs, v)
    BY <1>5, PutFlatsRows
  <2> QED BY <1>2, <1>5, <2>1, Zenon DEF FlatsSoFar
<1>6. ASSUME NEW r \in Readers, r.cnt = cnt, Holds(r.buffer, r.at, w)
      PROVE  GetFlats(r, fs) = Take(r, Len(w), FlatContents(fs, v))
  <2>1. PICK rows : GetFlatRows(r, fs, n, rows) /\ rows[n] = GetFlats(r, fs)
    BY GetFlatsRows
  <2> QED BY <1>2, <1>3, <1>6, <2>1, Zenon DEF FlatsSoFar
<1>7. w \in Octets
  BY <1>2, Zenon DEF FlatsSoFar
<1>8. AllAgree(fs, v, cnt, w)
  BY <1>5, <1>6, <1>7, Zenon DEF AllAgree
<1> QED BY <1>4, <1>8

-----------------------------------------------------------------------------
(* A member of another generated class. *)

LEMMA WrittenLeftover ==
  ASSUME NEW n \in Nat
  PROVE  Leftover(n) \in Octets /\ Len(Leftover(n)) = n
<1> DEFINE w == Leftover(n)
<1>1. w = [b \in 1 .. n |-> <<"leftover", 0, 0>>]
  BY DEF Leftover
<1>2. <<"leftover", 0, 0>> \in Octet
  <2>1. "leftover" \in Names /\ 0 \in Nat
    BY DEF Names
  <2> QED BY <2>1, Zenon DEF Octet
<1> HIDE DEF w, Octet
<1>3. w \in [1 .. n -> Octet]
  BY <1>1, <1>2
<1>4. w \in Seq(Octet) /\ Len(w) = n
  BY <1>3
<1> QED BY <1>4 DEF w, Octets

\* The cursors of copyToBuf, with a counter for each nested member.
Cursors(N) == [cnt : Nat, out : Octets, nested : [N -> Nat]]

LEMMA CursorWrites ==
  ASSUME NEW N, NEW c \in Cursors(N)
  PROVE  Writer(c) /\ c.cnt \in Nat /\ c.out \in Octets /\ c.nested \in [N -> Nat]
<1>1. c = [x \in DOMAIN c |-> c[x]] /\ DOMAIN c = {"cnt", "out", "nested"}
      /\ c.cnt \in Nat /\ c.out \in Octets /\ c.nested \in [N -> Nat]
  BY DEF Cursors
<1> QED BY <1>1 DEF Writer

LEMMA CursorPut ==
  ASSUME NEW N, NEW c \in Cursors(N), NEW w \in Octets
  PROVE  /\ Put(c, w) \in Cursors(N) /\ Put(c, w).cnt = c.cnt + Len(w)
         /\ Put(c, w).out = c.out \o w /\ Put(c, w).nested = c.nested
<1> DEFINE d == Put(c, w)
<1>1. c = [x \in DOMAIN c |-> c[x]] /\ DOMAIN c = {"cnt", "out", "nested"}
      /\ c.cnt \in Nat /\ c.out \in Octets /\ c.nested \in [N -> Nat]
  BY DEF Cursors
<1>2. Writer(c)
  BY <1>1 DEF Writer
<1>3. Writer(d) /\ d.cnt = c.cnt + Len(w) /\ d.out = c.out \o w
  BY <1>2, PutPut
<1>4. d = [x \in DOMAIN c |-> IF x = "out" THEN c.out \o w
                              ELSE IF x = "cnt" THEN c.cnt + Len(w) ELSE c[x]]
  BY <1>1 DEF Put
<1>5. DOMAIN d = {"cnt", "out", "nested"} /\ d.nested = c.nested
  BY <1>1, <1>4
<1> HIDE DEF d
<1>6. d.cnt \in Nat /\ d.out \in Octets /\ d = [x \in DOMAIN d |-> d[x]]
  BY <1>3, Zenon DEF Writer
<1>7. d \in Cursors(N)
  BY <1>1, <1>5, <1>6 DEF Cursors
<1> QED BY <1>3, <1>5, <1>7 DEF d

\* The outer cursor behind a nested member that left its own cursor at "inner".
Behind(c, f, inner) ==
  [c EXCEPT !.cnt = @ + inner.cnt,
            !.out = @ \o inner.out \o Leftover(inner.cnt - Len(inner.out)),
            !.nested[f.name] = inner.cnt]

LEMMA NestedIsFold ==
  ASSUME NEW c, NEW f, NEW v, NEW inner,
         inner = PutFlats([cnt |-> c.nested[f.name], out |-> <<>>], f.of, v)
  PROVE  PutNested(c, f, v) = Behind(c, f, inner)
BY DEF PutNested, FoldLeft, MapThenFoldSet, PutFlats, PutFlatsStep, Behind

LEMMA NestedWritten ==
  ASSUME NEW N, NEW c \in Cursors(N), NEW f, f.name \in N, NEW v, NEW w,
         AllAgree(f.of, v, c.nested[f.name], w), NEW d, d = PutNested(c, f, v)
  PROVE  /\ d \in Cursors(N)
         /\ \A x \in N : x # f.name => d.nested[x] = c.nested[x]
         /\ c.nested[f.name] = 0 => d.cnt = c.cnt + Len(w) /\ d.out = c.out \o w
<1> DEFINE m == c.nested[f.name]
           start == [cnt |-> m, out |-> <<>>]
           inner == PutFlats(start, f.of, v)
<1>1. c = [x \in DOMAIN c |-> c[x]] /\ DOMAIN c = {"cnt", "out", "nested"}
      /\ c.cnt \in Nat /\ c.out \in Octets /\ c.nested \in [N -> Nat]
  BY DEF Cursors
<1>2. m \in Nat /\ w \in Octets /\ Len(w) \in Nat
  <2>1. w \in Octets
    BY Zenon DEF AllAgree
  <2> QED BY <1>1, <2>1 DEF Octets
<1>3. Writer(start) /\ start.cnt = m /\ start.out = <<>>
  <2>1. start = [x \in DOMAIN start |-> start[x]] /\ DOMAIN start = {"cnt", "out"}
        /\ start.cnt = m /\ start.out = <<>> /\ <<>> \in Octets
    BY DEF Octets
  <2> HIDE DEF start
  <2> QED BY <1>2, <2>1 DEF Writer
<1>i. inner = PutFlats([cnt |-> c.nested[f.name], out |-> <<>>], f.of, v)
  OBVIOUS
<1> HIDE DEF m, start
<1>4. inner = Put(start, w)
  BY <1>3, Zenon DEF AllAgree, m
<1> HIDE DEF inner
<1>5. inner.cnt = m + Len(w) /\ inner.out = w
  <2>1. inner.cnt = start.cnt + Len(w) /\ inner.out = start.out \o w
    BY <1>2, <1>3, <1>4, PutPut
  <2>2. <<>> \o w = w
    BY <1>2, JoinsEmpty DEF Octets
  <2> QED BY <1>3, <2>1, <2>2
<1> DEFINE out == (c.out \o w) \o Leftover(inner.cnt - Len(inner.out))
           now == [c.nested EXCEPT ![f.name] = inner.cnt]
<1>6. d = Behind(c, f, inner)
  BY <1>i, NestedIsFold
<1>7. d = [x \in DOMAIN c |-> IF x = "nested" THEN now
                              ELSE IF x = "out" THEN out
                              ELSE IF x = "cnt" THEN c.cnt + inner.cnt ELSE c[x]]
  BY <1>1, <1>5, <1>6 DEF Behind
<1>8. inner.cnt - Len(inner.out) = m
  BY <1>2, <1>5
<1>9. out \in Octets
  <2>1. c.out \o w \in Octets
    BY <1>1, <1>2, Joins DEF Octets
  <2>2. Leftover(m) \in Octets
    BY <1>2, WrittenLeftover
  <2>3. (c.out \o w) \o Leftover(m) \in Octets
    BY <2>1, <2>2, Joins DEF Octets
  <2> QED BY <1>8, <2>3
<1>10. now \in [N -> Nat] /\ \A x \in N : x # f.name => now[x] = c.nested[x]
  BY <1>1, <1>2, <1>5
<1>11. c.cnt + inner.cnt \in Nat
  BY <1>1, <1>2, <1>5
<1>12. m = 0 => out = c.out \o w /\ c.cnt + inner.cnt = c.cnt + Len(w)
  <2> SUFFICES ASSUME m = 0 PROVE out = c.out \o w /\ inner.cnt = Len(w)
    BY <1>1, <1>2
  <2>1. inner.cnt = Len(w)
    BY <1>2, <1>5
  <2>2. Leftover(0) = <<>>
    BY DEF Leftover
  <2>3. c.out \o w \in Octets
    BY <1>1, <1>2, Joins DEF Octets
  <2>4. (c.out \o w) \o <<>> = c.out \o w
    BY <2>3, JoinsEmpty DEF Octets
  <2> QED BY <1>8, <2>1, <2>2, <2>4
<1> HIDE DEF out, now
<1>13. DOMAIN d = {"cnt", "out", "nested"} /\ d = [x \in DOMAIN d |-> d[x]]
       /\ d.cnt = c.cnt + inner.cnt /\ d.out = out /\ d.nested = now
  BY <1>1, <1>7
<1>14. d \in Cursors(N)
  BY <1>9, <1>10, <1>11, <1>13 DEF Cursors
<1> QED BY <1>10, <1>12, <1>13, <1>14 DEF m

LEMMA Recounted ==
  ASSUME NEW r \in Readers, NEW a \in Nat, NEW b \in Nat
  PROVE  /\ [r EXCEPT !.cnt = a, !.at = b]
              = [cnt |-> a, at |-> b, buffer |-> r.buffer, got |-> r.got]
         /\ [r EXCEPT !.cnt = a] = [cnt |-> a, at |-> r.at, buffer |-> r.buffer, got |-> r.got]
         /\ [r EXCEPT !.cnt = a, !.at = b] \in Readers /\ [r EXCEPT !.cnt = a] \in Readers
<1>1. /\ r = [cnt |-> r.cnt, at |-> r.at, buffer |-> r.buffer, got |-> r.got]
      /\ r.at \in Nat /\ r.buffer \in Octets /\ r.got \in Seq(Octets)
  BY ReaderFields
<1>2. DOMAIN r = {"cnt", "at", "buffer", "got"} /\ r = [x \in DOMAIN r |-> r[x]]
  BY <1>1
<1> DEFINE e == [r EXCEPT !.cnt = a, !.at = b]
           h == [r EXCEPT !.cnt = a]
           g == [cnt |-> a, at |-> b, buffer |-> r.buffer, got |-> r.got]
           k == [cnt |-> a, at |-> r.at, buffer |-> r.buffer, got |-> r.got]
<1>3. e = [x \in DOMAIN r |-> IF x = "at" THEN b ELSE IF x = "cnt" THEN a ELSE r[x]]
  BY <1>2
<1>4. h = [x \in DOMAIN r |-> IF x = "cnt" THEN a ELSE r[x]]
  BY <1>2
<1>5. g \in Readers /\ k \in Readers
  BY <1>1 DEF Readers
<1>6. /\ DOMAIN g = {"cnt", "at", "buffer", "got"} /\ g = [x \in DOMAIN g |-> g[x]]
      /\ g.cnt = a /\ g.at = b /\ g.buffer = r.buffer /\ g.got = r.got
      /\ DOMAIN k = {"cnt", "at", "buffer", "got"} /\ k = [x \in DOMAIN k |-> k[x]]
      /\ k.cnt = a /\ k.at = r.at /\ k.buffer = r.buffer /\ k.got = r.got
  OBVIOUS
<1> HIDE DEF e, h, g, k
<1>7. e = g
  BY <1>2, <1>3, <1>6
<1>8. h = k
  BY <1>2, <1>4, <1>6
<1> QED BY <1>5, <1>7, <1>8 DEF e, h, g, k

NestedBehind(r, inner) == [inner EXCEPT !.cnt = r.cnt + @, !.at = r.at + inner.cnt]

LEMMA GetNestedIsFold ==
  ASSUME NEW r, NEW f, NEW inner, inner = GetFlats([r EXCEPT !.cnt = 0], f.of)
  PROVE  GetNested(r, f) = NestedBehind(r, inner)
BY DEF GetNested, FoldLeft, MapThenFoldSet, GetFlats, GetFlatsStep, NestedBehind

LEMMA NestedKeeps ==
  ASSUME NEW f, NEW v, NEW n, Flats(f.of, v, n), NEW r \in Readers
  PROVE  GetNested(r, f) \in Readers
<1> DEFINE start == [r EXCEPT !.cnt = 0]
           inner == GetFlats(start, f.of)
<1>1. start \in Readers
  BY ReaderFields, Recounted
<1>i. inner = GetFlats([r EXCEPT !.cnt = 0], f.of)
  OBVIOUS
<1> HIDE DEF start
<1>2. inner \in Readers
  BY <1>1, GetFlatsRows
<1> HIDE DEF inner
<1>3. GetNested(r, f) = NestedBehind(r, inner)
  BY <1>i, GetNestedIsFold
<1>4. r.cnt + inner.cnt \in Nat /\ r.at + inner.cnt \in Nat
  <2>1. r.cnt \in Nat /\ r.at \in Nat /\ inner.cnt \in Nat
    BY <1>2, ReaderFields
  <2> QED BY <2>1
<1>5. [inner EXCEPT !.cnt = r.cnt + inner.cnt, !.at = r.at + inner.cnt] \in Readers
  <2> DEFINE a == r.cnt + inner.cnt
             b == r.at + inner.cnt
  <2>1. a \in Nat /\ b \in Nat
    BY <1>4
  <2> HIDE DEF a, b
  <2>2. [inner EXCEPT !.cnt = a, !.at = b] \in Readers
    BY <1>2, <2>1, Recounted
  <2> QED BY <2>2 DEF a, b
<1> QED BY <1>3, <1>5 DEF NestedBehind

LEMMA NestedRead ==
  ASSUME NEW f, NEW v, NEW w, AllAgree(f.of, v, 0, w), FlatContents(f.of, v) \in Seq(Octets),
         NEW r \in Readers, Holds(r.buffer, r.at, w)
  PROVE  GetNested(r, f) = Take(r, Len(w), FlatContents(f.of, v))
<1> DEFINE start == [r EXCEPT !.cnt = 0]
           inner == GetFlats(start, f.of)
           said == FlatContents(f.of, v)
<1>1. /\ start = [cnt |-> 0, at |-> r.at, buffer |-> r.buffer, got |-> r.got]
      /\ start \in Readers
  BY ReaderFields, Recounted
<1>i. inner = GetFlats([r EXCEPT !.cnt = 0], f.of)
  OBVIOUS
<1> HIDE DEF start, said
<1>2. /\ start.cnt = 0 /\ start.at = r.at /\ start.buffer = r.buffer /\ start.got = r.got
      /\ r.cnt \in Nat /\ r.at \in Nat
  BY <1>1, ReaderFields
<1>3. Len(w) \in Nat /\ said \in Seq(Octets)
  <2>1. w \in Octets
    BY Zenon DEF AllAgree
  <2> QED BY <2>1 DEF Octets, said
<1>4. inner = Take(start, Len(w), said)
  BY <1>1, <1>2, Zenon DEF AllAgree, said
<1> HIDE DEF inner
<1>5. inner \in Readers
  BY <1>1, <1>3, <1>4, TakeKeeps
<1>6. inner.cnt = Len(w) /\ inner.buffer = r.buffer /\ inner.got = r.got \o said
  BY <1>2, <1>3, <1>4 DEF Take
<1>7. GetNested(r, f) = NestedBehind(r, inner)
  BY <1>i, GetNestedIsFold
<1>8. r.cnt + inner.cnt \in Nat /\ r.at + inner.cnt \in Nat
  BY <1>2, <1>3, <1>6
<1>9. NestedBehind(r, inner) = [cnt |-> r.cnt + inner.cnt, at |-> r.at + inner.cnt,
                                buffer |-> inner.buffer, got |-> inner.got]
  BY <1>5, <1>8, Recounted DEF NestedBehind
<1> QED BY <1>6, <1>7, <1>9, Zenon DEF Take, said

-----------------------------------------------------------------------------
(* The members of a class. *)

PutMember(c, f, v) == IF f.kind = "custom" THEN PutNested(c, f, v) ELSE PutFlat(c, f, v)

GetMember(r, f) == IF f.kind = "custom" THEN GetNested(r, f) ELSE GetFlat(r, f)

SaidOf(f, v) == IF f.kind = "custom" THEN FlatContents(f.of, v) ELSE ContentsOf(f, v)

Suits(f, v, N) ==
  IF f.kind = "custom" THEN f.name \in N /\ \E m : Flats(f.of, v, m) ELSE Fits(f, v)

\* The n members fs of a class whose nested members have the names N.
Members(fs, v, n, N) ==
  /\ n \in Nat /\ DOMAIN fs = 1 .. n /\ \A i \in 1 .. n : Suits(fs[i], v, N)
  /\ \A i, j \in 1 .. n : fs[i].kind = "custom" /\ fs[i].name = fs[j].name => i = j

LEMMA SaidOfContents ==
  ASSUME NEW f, NEW v, NEW N, Suits(f, v, N)
  PROVE  SaidOf(f, v) \in Seq(Octets)
<1>1. 0 \in Nat
  OBVIOUS
<1>2. ASSUME f.kind = "custom" PROVE SaidOf(f, v) \in Seq(Octets)
  <2>1. PICK m : Flats(f.of, v, m)
    BY <1>2, Zenon DEF Suits
  <2>2. FlatContents(f.of, v) \in Seq(Octets)
    BY <1>1, <2>1, FlatsAgree
  <2> QED BY <1>2, <2>2 DEF SaidOf
<1>3. ASSUME f.kind # "custom" PROVE SaidOf(f, v) \in Seq(Octets)
  <2>1. Fits(f, v)
    BY <1>3, Zenon DEF Suits
  <2>2. ContentsOf(f, v) \in Seq(Octets)
    BY <1>1, <2>1, FlatAgrees
  <2> QED BY <1>3, <2>2 DEF SaidOf
<1> QED BY <1>2, <1>3

\* A member behind what was written before, written and read back.
MemberAgrees(f, v, N, c, d, w) ==
  /\ w \in Octets /\ d = PutMember(c, f, v) /\ d \in Cursors(N)
  /\ \A x \in N : (f.kind = "custom" /\ x = f.name) \/ d.nested[x] = c.nested[x]
  /\ (f.kind = "custom" => c.nested[f.name] = 0) =>
       /\ d.cnt = c.cnt + Len(w) /\ d.out = c.out \o w
       /\ \A r \in Readers : r.cnt = c.cnt /\ Holds(r.buffer, r.at, w) =>
            GetMember(r, f) = Take(r, Len(w), SaidOf(f, v))

LEMMA MemberWritten ==
  ASSUME NEW N, NEW f, NEW v, Suits(f, v, N), NEW c \in Cursors(N)
  PROVE  \E w : MemberAgrees(f, v, N, c, PutMember(c, f, v), w)
<1> DEFINE d == PutMember(c, f, v)
<1>1. c.cnt \in Nat /\ c.nested \in [N -> Nat] /\ Writer(c)
  BY CursorWrites
<1>2. ASSUME f.kind = "custom" PROVE \E w : MemberAgrees(f, v, N, c, d, w)
  <2>1. PICK m : Flats(f.of, v, m)
    BY <1>2, Zenon DEF Suits
  <2>2. f.name \in N /\ c.nested[f.name] \in Nat
    BY <1>1, <1>2 DEF Suits
  <2>3. PICK w : AllAgree(f.of, v, c.nested[f.name], w)
    BY <2>1, <2>2, FlatsAgree
  <2>d. d = PutNested(c, f, v)
    BY <1>2 DEF PutMember
  <2> HIDE DEF d
  <2>4. /\ d \in Cursors(N)
        /\ \A x \in N : x # f.name => d.nested[x] = c.nested[x]
        /\ c.nested[f.name] = 0 => d.cnt = c.cnt + Len(w) /\ d.out = c.out \o w
    BY <2>2, <2>3, <2>d, NestedWritten
  <2>5. w \in Octets
    BY <2>3, Zenon DEF AllAgree
  <2>6. ASSUME c.nested[f.name] = 0, NEW r \in Readers, Holds(r.buffer, r.at, w)
        PROVE  GetMember(r, f) = Take(r, Len(w), SaidOf(f, v))
    <3>1. FlatContents(f.of, v) \in Seq(Octets)
      BY <2>1, <2>2, FlatsAgree
    <3>2. AllAgree(f.of, v, 0, w)
      BY <2>3, <2>6
    <3>3. GetNested(r, f) = Take(r, Len(w), FlatContents(f.of, v))
      BY <2>6, <3>1, <3>2, NestedRead
    <3> QED BY <1>2, <3>3 DEF GetMember, SaidOf
  <2>7. d = PutMember(c, f, v)
    BY DEF d
  <2>8. MemberAgrees(f, v, N, c, d, w)
    BY <1>2, <2>4, <2>5, <2>6, <2>7, Zenon DEF MemberAgrees
  <2> QED BY <2>8
<1>3. ASSUME f.kind # "custom" PROVE \E w : MemberAgrees(f, v, N, c, d, w)
  <2>1. Fits(f, v)
    BY <1>3, Zenon DEF Suits
  <2>2. PICK w : Agrees(f, v, c.cnt, w)
    BY <1>1, <2>1, FlatAgrees
  <2>3. w \in Octets /\ d = Put(c, w)
    BY <1>1, <1>3, <2>2, Zenon DEF Agrees, PutMember
  <2>4. /\ d \in Cursors(N) /\ d.cnt = c.cnt + Len(w)
        /\ d.out = c.out \o w /\ d.nested = c.nested
    BY <2>3, CursorPut
  <2>5. \A r \in Readers : r.cnt = c.cnt /\ Holds(r.buffer, r.at, w) =>
          GetMember(r, f) = Take(r, Len(w), SaidOf(f, v))
    BY <1>3, <2>2, Zenon DEF Agrees, GetMember, SaidOf
  <2>6. d = PutMember(c, f, v)
    OBVIOUS
  <2> HIDE DEF d
  <2>7. MemberAgrees(f, v, N, c, d, w)
    BY <1>3, <2>3, <2>4, <2>5, <2>6, Zenon DEF MemberAgrees
  <2> QED BY <2>7
<1> QED BY <1>2, <1>3

LEMMA GetMemberKeeps ==
  ASSUME NEW N, NEW f, NEW v, Suits(f, v, N), NEW r \in Readers
  PROVE  GetMember(r, f) \in Readers
<1>1. ASSUME f.kind = "custom" PROVE GetMember(r, f) \in Readers
  <2>1. PICK m : Flats(f.of, v, m)
    BY <1>1, Zenon DEF Suits
  <2>2. GetNested(r, f) \in Readers
    BY <2>1, NestedKeeps
  <2> QED BY <1>1, <2>2 DEF GetMember
<1>2. ASSUME f.kind # "custom" PROVE GetMember(r, f) \in Readers
  BY <1>2, GetKeeps DEF Suits, GetMember
<1> QED BY <1>1, <1>2

PutMembersStep(c, fs, v, it) ==
  [T \in SUBSET DOMAIN fs |-> IF T = {} THEN c ELSE PutMember(it[T \ {Max(T)}], fs[Max(T)], v)]

Start(cnt, counts) == [cnt |-> cnt, out |-> <<>>, nested |-> counts]

LEMMA CopyToBufIsFold ==
  ASSUME NEW fs, NEW v, NEW cnt, NEW counts, NEW c, c = Start(cnt, counts)
  PROVE  CopyToBuf(fs, v, cnt, counts)
           = (CHOOSE it : it = PutMembersStep(c, fs, v, it))[DOMAIN fs]
BY DEF CopyToBuf, FoldLeft, MapThenFoldSet, PutMembersStep, PutMember, Start

PutMemberRows(c, fs, v, n, rows) ==
  rows[0] = c /\ \A k \in 1 .. n : rows[k] = PutMember(rows[k - 1], fs[k], v)

LEMMA CopyToBufRows ==
  ASSUME NEW N, NEW fs, NEW v, NEW n, Members(fs, v, n, N), NEW cnt, NEW counts,
         NEW c \in Cursors(N), c = Start(cnt, counts)
  PROVE  \E rows : PutMemberRows(c, fs, v, n, rows) /\ rows[n] = CopyToBuf(fs, v, cnt, counts)
<1> DEFINE V == Cursors(N)
           steps == [k \in 1 .. n |-> [x \in V |-> PutMember(x, fs[k], v)]]
           t == CHOOSE it : it = PutMembersStep(c, fs, v, it)
           rows == [k \in 0 .. n |-> t[1 .. k]]
<1>0. n \in Nat /\ DOMAIN fs = 1 .. n
  BY Zenon DEF Members
<1>m. \A k \in 1 .. n : Suits(fs[k], v, N)
  BY Zenon DEF Members
<1>1. c \in V
  OBVIOUS
<1>2. \A k \in 1 .. n : \A x \in V : PutMember(x, fs[k], v) \in V
  <2> TAKE k \in 1 .. n
  <2> TAKE x \in V
  <2>1. \E w : MemberAgrees(fs[k], v, N, x, PutMember(x, fs[k], v), w)
    BY <1>m, MemberWritten
  <2> QED BY <2>1, Zenon DEF MemberAgrees
<1> HIDE DEF V
<1>3. \E it : it = PutMembersStep(c, fs, v, it)
  <2>1. \A k \in 1 .. n : \A x \in V :
          steps[k][x] = PutMember(x, fs[k], v) /\ steps[k][x] \in V
    BY <1>2
  <2> HIDE DEF steps
  <2>2. PICK it : Made(n, V, c, steps, it)
    BY <1>0, <1>1, <2>1, FoldMade
  <2>3. it = PutMembersStep(c, fs, v, it)
    BY <1>0, <2>1, <2>2, Zenon DEF PutMembersStep, Made
  <2> QED BY <2>3
<1>4. t = [T \in SUBSET (1 .. n) |->
             IF T = {} THEN c ELSE PutMember(t[T \ {Max(T)}], fs[Max(T)], v)]
  BY <1>0, <1>3, Zenon DEF PutMembersStep
<1>8. rows[n] = CopyToBuf(fs, v, cnt, counts)
  BY <1>0, CopyToBufIsFold
<1> HIDE DEF t
<1>5. rows[0] = c
  BY <1>0, <1>4, FoldPlaces
<1>6. ASSUME NEW k \in 1 .. n
      PROVE  rows[k] = PutMember(rows[k - 1], fs[k], v)
  <2>1. /\ 1 .. k \in SUBSET (1 .. n) /\ 1 .. k # {}
        /\ Max(1 .. k) = k /\ (1 .. k) \ {k} = 1 .. k - 1 /\ k - 1 \in 0 .. n /\ k \in 0 .. n
    BY <1>0, FoldPlaces
  <2>2. t[1 .. k] = PutMember(t[1 .. k - 1], fs[k], v)
    BY <1>4, <2>1, Zenon
  <2> QED BY <2>1, <2>2
<1> HIDE DEF rows
<1> QED BY <1>5, <1>6, <1>8, Zenon DEF PutMemberRows

GetMembersStep(r, fs, it) ==
  [T \in SUBSET DOMAIN fs |-> IF T = {} THEN r ELSE GetMember(it[T \ {Max(T)}], fs[Max(T)])]

AtStart(buffer) == [cnt |-> 0, at |-> 0, buffer |-> buffer, got |-> <<>>]

GetMembers(r, fs) == (CHOOSE it : it = GetMembersStep(r, fs, it))[DOMAIN fs]

LEMMA CopyFromBufIsFold ==
  ASSUME NEW fs, NEW buffer, NEW r, r = AtStart(buffer)
  PROVE  CopyFromBuf(fs, buffer) = GetMembers(r, fs).got
BY DEF CopyFromBuf, FoldLeft, MapThenFoldSet, GetMembers, GetMembersStep, GetMember, AtStart

GetMemberRows(r, fs, n, rows) ==
  rows[0] = r /\ \A k \in 1 .. n : rows[k] = GetMember(rows[k - 1], fs[k])

LEMMA GetMembersRows ==
  ASSUME NEW N, NEW fs, NEW v, NEW n, Members(fs, v, n, N), NEW r \in Readers
  PROVE  \E rows : GetMemberRows(r, fs, n, rows) /\ rows[n] = GetMembers(r, fs)
<1> DEFINE V == Readers
           steps == [k \in 1 .. n |-> [x \in V |-> GetMember(x, fs[k])]]
           t == CHOOSE it : it = GetMembersStep(r, fs, it)
           rows == [k \in 0 .. n |-> t[1 .. k]]
<1>0. n \in Nat /\ DOMAIN fs = 1 .. n
  BY Zenon DEF Members
<1>m. \A k \in 1 .. n : Suits(fs[k], v, N)
  BY Zenon DEF Members
<1>1. r \in V
  OBVIOUS
<1>2. \A k \in 1 .. n : \A x \in V : GetMember(x, fs[k]) \in V
  BY <1>m, GetMemberKeeps
<1> HIDE DEF V
<1>3. \E it : it = GetMembersStep(r, fs, it)
  <2>1. \A k \in 1 .. n : \A x \in V :
          steps[k][x] = GetMember(x, fs[k]) /\ steps[k][x] \in V
    BY <1>2
  <2> HIDE DEF steps
  <2>2. PICK it : Made(n, V, r, steps, it)
    BY <1>0, <1>1, <2>1, FoldMade
  <2>3. it = GetMembersStep(r, fs, it)
    BY <1>0, <2>1, <2>2, Zenon DEF GetMembersStep, Made
  <2> QED BY <2>3
<1>4. t = [T \in SUBSET (1 .. n) |->
             IF T = {} THEN r ELSE GetMember(t[T \ {Max(T)}], fs[Max(T)])]
  BY <1>0, <1>3, Zenon DEF GetMembersStep
<1>8. rows[n] = GetMembers(r, fs)
  BY <1>0, SMT DEF GetMembers
<1> HIDE DEF t
<1>5. rows[0] = r
  BY <1>0, <1>4, FoldPlaces
<1>6. ASSUME NEW k \in 1 .. n
      PROVE  rows[k] = GetMember(rows[k - 1], fs[k])
  <2>1. /\ 1 .. k \in SUBSET (1 .. n) /\ 1 .. k # {}
        /\ Max(1 .. k) = k /\ (1 .. k) \ {k} = 1 .. k - 1 /\ k - 1 \in 0 .. n /\ k \in 0 .. n
    BY <1>0, FoldPlaces
  <2>2. t[1 .. k] = GetMember(t[1 .. k - 1], fs[k])
    BY <1>4, <2>1, Zenon
  <2> QED BY <2>1, <2>2
<1> HIDE DEF rows
<1> QED BY <1>5, <1>6, <1>8, Zenon DEF GetMemberRows

ContentsStep(fs, v, it) ==
  [T \in SUBSET DOMAIN fs |-> IF T = {} THEN <<>> ELSE it[T \ {Max(T)}] \o SaidOf(fs[Max(T)], v)]

LEMMA ContentsIsFold ==
  ASSUME NEW fs, NEW v
  PROVE  Contents(fs, v) = (CHOOSE it : it = ContentsStep(fs, v, it))[DOMAIN fs]
BY DEF Contents, FoldLeft, MapThenFoldSet, ContentsStep, SaidOf

SaidRows(fs, v, n, rows) ==
  /\ rows[0] = <<>> /\ \A k \in 0 .. n : rows[k] \in Seq(Octets)
  /\ \A k \in 1 .. n : rows[k] = rows[k - 1] \o SaidOf(fs[k], v)

LEMMA SaidInRows ==
  ASSUME NEW N, NEW fs, NEW v, NEW n, Members(fs, v, n, N)
  PROVE  \E rows : SaidRows(fs, v, n, rows) /\ rows[n] = Contents(fs, v)
<1> DEFINE V == Seq(Octets)
           steps == [k \in 1 .. n |-> [x \in V |-> x \o SaidOf(fs[k], v)]]
           t == CHOOSE it : it = ContentsStep(fs, v, it)
           rows == [k \in 0 .. n |-> t[1 .. k]]
<1>0. n \in Nat /\ DOMAIN fs = 1 .. n
  BY Zenon DEF Members
<1>m. \A k \in 1 .. n : Suits(fs[k], v, N)
  BY Zenon DEF Members
<1>1. <<>> \in V
  OBVIOUS
<1>2. \A k \in 1 .. n : \A x \in V : x \o SaidOf(fs[k], v) \in V
  <2>1. \A k \in 1 .. n : SaidOf(fs[k], v) \in V
    BY <1>m, SaidOfContents
  <2>2. \A x, y \in V : x \o y \in V
    BY Joins
  <2> HIDE DEF V
  <2> QED BY <2>1, <2>2, Zenon
<1> HIDE DEF V
<1>3. \E it : it = ContentsStep(fs, v, it)
  <2>1. \A k \in 1 .. n : \A x \in V :
          steps[k][x] = x \o SaidOf(fs[k], v) /\ steps[k][x] \in V
    BY <1>2
  <2> HIDE DEF steps
  <2>2. PICK it : Made(n, V, <<>>, steps, it)
    BY <1>0, <1>1, <2>1, FoldMade
  <2>3. it = ContentsStep(fs, v, it)
    BY <1>0, <2>1, <2>2, Zenon DEF ContentsStep, Made
  <2> QED BY <2>3
<1>4. t = [T \in SUBSET (1 .. n) |->
             IF T = {} THEN <<>> ELSE t[T \ {Max(T)}] \o SaidOf(fs[Max(T)], v)]
  BY <1>0, <1>3, Zenon DEF ContentsStep
<1>8. rows[n] = Contents(fs, v)
  BY <1>0, ContentsIsFold
<1> HIDE DEF t
<1>5. rows[0] = <<>>
  BY <1>0, <1>4, FoldPlaces
<1>6. ASSUME NEW k \in 1 .. n
      PROVE  rows[k] = rows[k - 1] \o SaidOf(fs[k], v)
  <2>1. /\ 1 .. k \in SUBSET (1 .. n) /\ 1 .. k # {}
        /\ Max(1 .. k) = k /\ (1 .. k) \ {k} = 1 .. k - 1 /\ k - 1 \in 0 .. n /\ k \in 0 .. n
    BY <1>0, FoldPlaces
  <2>2. t[1 .. k] = t[1 .. k - 1] \o SaidOf(fs[k], v)
    BY <1>4, <2>1, Zenon
  <2> QED BY <2>1, <2>2
<1> HIDE DEF rows
<1>7. \A k \in 0 .. n : rows[k] \in V
  <2> DEFINE I == {k \in Nat : k <= n => rows[k] \in V}
  <2>1. 0 \in I
    BY <1>1, <1>5
  <2>2. ASSUME NEW k \in Nat, k \in I
        PROVE  k + 1 \in I
    <3> SUFFICES ASSUME k + 1 <= n PROVE rows[k + 1] \in V
      OBVIOUS
    <3>1. k + 1 \in 1 .. n /\ (k + 1) - 1 = k /\ rows[k] \in V
      BY <1>0, <2>2
    <3> QED BY <1>2, <1>6, <3>1
  <2>3. Nat \subseteq I
    <3> HIDE DEF I
    <3> QED BY <2>1, <2>2, NatSetInduction
  <2> QED BY <1>0, <2>3
<1> QED BY <1>5, <1>6, <1>7, <1>8, Zenon DEF SaidRows, V

\* After k members copyToBuf has written w, the nested members to come still count
\* from 0, and copyFromBuf reads w as these k members.
SoFar(fs, v, n, N, rows, k, w) ==
  /\ w \in Octets
  /\ rows[k] \in Cursors(N) /\ rows[k].cnt = Len(w) /\ rows[k].out = w
  /\ \A i \in 1 .. n : i > k /\ fs[i].kind = "custom" => rows[k].nested[fs[i].name] = 0
  /\ \A r \in Readers : \A read, said :
       /\ r.cnt = 0 /\ Holds(r.buffer, r.at, w)
       /\ GetMemberRows(r, fs, n, read) /\ SaidRows(fs, v, n, said)
       => read[k] = Take(r, Len(w), said[k])

LEMMA MembersBegin ==
  ASSUME NEW N, NEW fs, NEW v, NEW n, Members(fs, v, n, N),
         NEW counts, counts \in [N -> Nat], \A x \in N : counts[x] = 0,
         NEW rows, rows[0] = Start(0, counts)
  PROVE  SoFar(fs, v, n, N, rows, 0, <<>>)
<1>1. <<>> \in Octets /\ Len(<<>>) = 0
  BY DEF Octets
<1>2. rows[0] \in Cursors(N) /\ rows[0].cnt = 0 /\ rows[0].out = <<>> /\ rows[0].nested = counts
  BY <1>1 DEF Start, Cursors
<1>3. ASSUME NEW r \in Readers, NEW read, NEW said, GetMemberRows(r, fs, n, read),
             SaidRows(fs, v, n, said)
      PROVE  read[0] = Take(r, Len(<<>>), said[0])
  <2>1. read[0] = r /\ said[0] = <<>>
    BY <1>3, Zenon DEF GetMemberRows, SaidRows
  <2> QED BY <1>1, <2>1, TakeNone
<1>4. \A i \in 1 .. n : i > 0 /\ fs[i].kind = "custom" => rows[0].nested[fs[i].name] = 0
  <2>1. \A i \in 1 .. n : fs[i].kind = "custom" => fs[i].name \in N
    BY Zenon DEF Members, Suits
  <2> QED BY <1>2, <2>1, Zenon
<1> QED BY <1>1, <1>2, <1>3, <1>4, Zenon DEF SoFar

LEMMA MembersGoOn ==
  ASSUME NEW N, NEW fs, NEW v, NEW n, Members(fs, v, n, N), NEW c, NEW rows,
         PutMemberRows(c, fs, v, n, rows), NEW k \in 1 .. n,
         NEW w, SoFar(fs, v, n, N, rows, k - 1, w)
  PROVE  \E x : SoFar(fs, v, n, N, rows, k, x)
<1> DEFINE j == k - 1
           f == fs[k]
           b == rows[j]
           d == PutMember(b, f, v)
           said_k == SaidOf(f, v)
<1>0. /\ n \in Nat /\ j \in 0 .. n /\ k \in Nat /\ \A i \in 1 .. n : i > k => i > j
      /\ k > j
  <2>1. n \in Nat
    BY Zenon DEF Members
  <2> QED BY <2>1
<1>1. SoFar(fs, v, n, N, rows, j, w) /\ Suits(f, v, N)
  BY Zenon DEF Members
<1>j. j = k - 1
  OBVIOUS
<1>f. f = fs[k] /\ b = rows[j] /\ d = PutMember(b, f, v) /\ said_k = SaidOf(f, v)
  OBVIOUS
<1> HIDE DEF j
<1>2. rows[k] = d
  BY <1>f, <1>j, Zenon DEF PutMemberRows
<1> HIDE DEF f, b, d, said_k
<1>3. w \in Octets /\ b \in Cursors(N) /\ b.cnt = Len(w) /\ b.out = w
  BY <1>1, <1>f, Zenon DEF SoFar
<1>4. f.kind = "custom" => f.name \in N /\ b.nested[f.name] = 0
  BY <1>0, <1>1, <1>f, Zenon DEF SoFar, Suits
<1>5. \E u : MemberAgrees(f, v, N, b, PutMember(b, f, v), u)
  BY <1>1, <1>3, MemberWritten
<1>6. PICK u : MemberAgrees(f, v, N, b, d, u)
  BY <1>5, <1>f, Zenon
<1>7. /\ u \in Octets /\ d \in Cursors(N)
      /\ \A y \in N : (f.kind = "custom" /\ y = f.name) \/ d.nested[y] = b.nested[y]
      /\ d.cnt = Len(w) + Len(u) /\ d.out = w \o u
      /\ \A r \in Readers : r.cnt = Len(w) /\ Holds(r.buffer, r.at, u) =>
           GetMember(r, f) = Take(r, Len(u), said_k)
  BY <1>3, <1>4, <1>6, <1>f, Zenon DEF MemberAgrees
<1>8. said_k \in Seq(Octets)
  BY <1>1, <1>f, SaidOfContents
<1> DEFINE x == w \o u
<1>9. x \in Octets /\ Len(x) = Len(w) + Len(u) /\ Len(w) \in Nat
  BY <1>3, <1>7, Joins DEF Octets
<1>10. ASSUME NEW i \in 1 .. n, i > k, fs[i].kind = "custom"
       PROVE  d.nested[fs[i].name] = 0
  <2>1. fs[i].name \in N /\ b.nested[fs[i].name] = 0
    <3>1. Suits(fs[i], v, N)
      BY Zenon DEF Members
    <3>2. i > j
      BY <1>0, <1>10
    <3> QED BY <1>1, <1>10, <1>f, <3>1, <3>2, Zenon DEF Suits, SoFar
  <2>2. f.kind = "custom" => fs[i].name # f.name
    <3>1. i # k
      BY <1>10
    <3> QED BY <1>10, <1>f, <3>1, Zenon DEF Members
  <2> QED BY <1>7, <2>1, <2>2
<1>11. ASSUME NEW r \in Readers, NEW read, NEW said, r.cnt = 0, Holds(r.buffer, r.at, x),
             GetMemberRows(r, fs, n, read), SaidRows(fs, v, n, said)
       PROVE  read[k] = Take(r, Len(x), said[k])
  <2> DEFINE q == Take(r, Len(w), said[j])
  <2>q. q = Take(r, Len(w), said[j])
    OBVIOUS
  <2> HIDE DEF q
  <2>1. said[j] \in Seq(Octets) /\ said[k] = said[j] \o said_k
    BY <1>0, <1>11, <1>f, <1>j, Zenon DEF SaidRows
  <2>2. Onward(r, w, u, said[j], q)
    BY <1>3, <1>7, <1>11, <2>1, <2>q, TakeOn
  <2>3. /\ Holds(r.buffer, r.at, w) /\ q \in Readers /\ q.cnt = r.cnt + Len(w)
        /\ Holds(q.buffer, q.at, u)
        /\ \A y \in Seq(Octets) : Take(q, Len(u), y) = Take(r, Len(x), said[j] \o y)
    BY <2>2, Zenon DEF Onward
  <2>4. read[j] = q /\ read[k] = GetMember(read[j], f)
    <3>1. r.cnt = 0 /\ Holds(r.buffer, r.at, w) /\ GetMemberRows(r, fs, n, read)
          /\ SaidRows(fs, v, n, said) => read[j] = Take(r, Len(w), said[j])
      BY <1>1, Zenon DEF SoFar
    <3>2. read[k] = GetMember(read[j], f)
      BY <1>11, <1>f, <1>j, Zenon DEF GetMemberRows
    <3> QED BY <1>11, <2>3, <2>q, <3>1, <3>2, Zenon
  <2>5. q.cnt = Len(w)
    BY <1>9, <1>11, <2>3
  <2>6. GetMember(q, f) = Take(q, Len(u), said_k)
    BY <1>7, <2>3, <2>5, Zenon
  <2> QED BY <1>8, <2>1, <2>3, <2>4, <2>6, Zenon
<1>12. SoFar(fs, v, n, N, rows, k, x)
  BY <1>2, <1>7, <1>9, <1>10, <1>11, Zenon DEF SoFar
<1> QED BY <1>12

\* After each member of a fresh object: what was written so far reads back so far.
LEMMA RowsSoFar ==
  ASSUME NEW N, NEW fs, NEW v, NEW n, Members(fs, v, n, N),
         NEW counts, counts \in [N -> Nat], \A x \in N : counts[x] = 0
  PROVE  \E rows :
           /\ PutMemberRows(Start(0, counts), fs, v, n, rows)
           /\ rows[n] = CopyToBuf(fs, v, 0, counts)
           /\ \A k \in 0 .. n : \E w : SoFar(fs, v, n, N, rows, k, w)
<1> DEFINE c == Start(0, counts)
<1>c. c = Start(0, counts) /\ c \in Cursors(N)
  BY DEF Start, Cursors, Octets
<1> HIDE DEF c
<1>0. n \in Nat /\ n \in 0 .. n
  <2>1. n \in Nat
    BY Zenon DEF Members
  <2> QED BY <2>1
<1>1. PICK rows : PutMemberRows(c, fs, v, n, rows) /\ rows[n] = CopyToBuf(fs, v, 0, counts)
  <2>1. 0 \in Nat
    OBVIOUS
  <2> QED BY <1>c, <2>1, CopyToBufRows
<1>2. rows[0] = Start(0, counts)
  BY <1>1, <1>c, Zenon DEF PutMemberRows
<1>3. \A k \in 0 .. n : \E w : SoFar(fs, v, n, N, rows, k, w)
  <2> DEFINE I == {k \in Nat : k <= n => \E w : SoFar(fs, v, n, N, rows, k, w)}
  <2>1. 0 \in I
    <3>1. SoFar(fs, v, n, N, rows, 0, <<>>)
      BY <1>2, MembersBegin
    <3> QED BY <3>1
  <2>2. ASSUME NEW k \in Nat, k \in I
        PROVE  k + 1 \in I
    <3> SUFFICES ASSUME k + 1 <= n PROVE \E w : SoFar(fs, v, n, N, rows, k + 1, w)
      OBVIOUS
    <3>2. PICK w : SoFar(fs, v, n, N, rows, k, w)
      BY <1>0, <2>2
    <3> DEFINE m == k + 1
    <3>3. m \in 1 .. n /\ SoFar(fs, v, n, N, rows, m - 1, w)
      <4>1. m \in 1 .. n /\ m - 1 = k
        BY <1>0
      <4> QED BY <3>2, <4>1, Zenon
    <3> HIDE DEF m
    <3>4. \E u : SoFar(fs, v, n, N, rows, m, u)
      BY <1>1, <3>3, MembersGoOn
    <3> QED BY <3>4 DEF m
  <2>3. Nat \subseteq I
    <3> HIDE DEF I
    <3> QED BY <2>1, <2>2, NatSetInduction
  <2> QED BY <1>0, <2>3
<1> QED BY <1>1, <1>3, <1>c, Zenon

\* What copyToBuf writes for a message fresh from its constructor is w, and
\* copyFromBuf makes the message of any buffer that begins with w.
ReadsBack(fs, v, counts, w) ==
  /\ w \in Octets
  /\ CopyToBuf(fs, v, 0, counts).cnt = Len(w) /\ CopyToBuf(fs, v, 0, counts).out = w
  /\ \A buffer \in Octets : Holds(buffer, 0, w) => CopyFromBuf(fs, buffer) = Contents(fs, v)

LEMMA MembersReadBack ==
  ASSUME NEW N, NEW fs, NEW v, NEW n, Members(fs, v, n, N),
         NEW counts, counts \in [N -> Nat], \A x \in N : counts[x] = 0
  PROVE  /\ CopyToBuf(fs, v, 0, counts) \in Cursors(N)
         /\ \E w : ReadsBack(fs, v, counts, w)
<1>0. n \in Nat /\ n \in 0 .. n
  <2>1. n \in Nat
    BY Zenon DEF Members
  <2> QED BY <2>1
<1>1. PICK rows :
        /\ rows[n] = CopyToBuf(fs, v, 0, counts)
        /\ \A k \in 0 .. n : \E w : SoFar(fs, v, n, N, rows, k, w)
  BY RowsSoFar, Zenon
<1>3. \A k \in 0 .. n : \E w : SoFar(fs, v, n, N, rows, k, w)
  BY <1>1, Zenon
<1>4. PICK w : SoFar(fs, v, n, N, rows, n, w)
  BY <1>0, <1>3, Zenon
<1>5. PICK said : SaidRows(fs, v, n, said) /\ said[n] = Contents(fs, v)
  BY SaidInRows
<1>6. said[n] \in Seq(Octets)
  BY <1>0, <1>5, Zenon DEF SaidRows
<1>7. w \in Octets /\ rows[n] \in Cursors(N) /\ rows[n].cnt = Len(w) /\ rows[n].out = w
  BY <1>4, Zenon DEF SoFar
<1>8. ASSUME NEW buffer \in Octets, Holds(buffer, 0, w)
      PROVE  CopyFromBuf(fs, buffer) = Contents(fs, v)
  <2> DEFINE r == AtStart(buffer)
  <2>1. /\ r = AtStart(buffer) /\ r \in Readers /\ r.cnt = 0 /\ r.at = 0
        /\ r.buffer = buffer /\ r.got = <<>>
    BY DEF AtStart, Readers
  <2> HIDE DEF r
  <2>2. PICK read : GetMemberRows(r, fs, n, read) /\ read[n] = GetMembers(r, fs)
    BY <2>1, GetMembersRows
  <2>3. read[n] = Take(r, Len(w), said[n])
    <3>1. Holds(r.buffer, r.at, w)
      BY <1>8, <2>1, Zenon
    <3> QED BY <1>4, <1>5, <2>1, <2>2, <3>1, Zenon DEF SoFar
  <2>4. read[n].got = r.got \o said[n]
    <3>1. Take(r, Len(w), said[n]).got = r.got \o said[n]
      BY DEF Take
    <3> QED BY <2>3, <3>1, Zenon
  <2>5. <<>> \o said[n] = said[n]
    BY <1>6, JoinsEmpty
  <2>6. CopyFromBuf(fs, buffer) = GetMembers(r, fs).got
    BY <2>1, CopyFromBufIsFold
  <2> QED BY <1>5, <2>1, <2>2, <2>4, <2>5, <2>6, Zenon
<1>9. ReadsBack(fs, v, counts, w)
  BY <1>1, <1>7, <1>8, Zenon DEF ReadsBack
<1> QED BY <1>1, <1>7, <1>9, Zenon

-----------------------------------------------------------------------------
(* The classes in use. *)

LEMMA ListedMembers ==
  ASSUME NEW fs, fs \in Seq(Range(fs))
  PROVE  /\ Len(fs) \in Nat /\ DOMAIN fs = 1 .. Len(fs)
         /\ \A i \in 1 .. Len(fs) : fs[i] \in Range(fs)
<1>1. Len(fs) \in Nat /\ DOMAIN fs = 1 .. Len(fs)
  <2> DEFINE S == Range(fs)
  <2>1. fs \in Seq(S)
    OBVIOUS
  <2> HIDE DEF S
  <2> QED BY <2>1
<1> QED BY <1>1 DEF Range

LEMMA FilledFits ==
  ASSUME NEW c \in Classes, NEW f \in Range(c.writes), NEW g, g.name \in MemberNames(f),
         NEW v, Filled(g, v)
  PROVE  Fits(g, v)
<1>1. g.name \in UNION {MemberNames(h) : h \in Range(c.writes)}
  OBVIOUS
<1>2. g.name \in Names
  BY <1>1 DEF Names
<1> QED BY <1>2, Zenon DEF Filled, Fits, Sizes

LEMMA ClassMembers ==
  ASSUME NEW c \in Classes, NEW v \in Values(c)
  PROVE  Members(c.writes, v, Len(c.writes), NestedNames(c))
<1> DEFINE fs == c.writes
           n == Len(fs)
           N == NestedNames(c)
<1>1. /\ fs \in Seq(Range(fs))
      /\ \A i, j \in DOMAIN fs : fs[i].kind = "custom" /\ fs[i].name = fs[j].name => i = j
      /\ \A f \in Range(fs) :
           IF f.kind = "custom"
           THEN f.of \in Seq(Range(f.of)) /\ \A g \in Range(f.of) : Filled(g, v)
           ELSE Filled(f, v)
  BY PublishingAssumption, Zenon
<1>2. n \in Nat /\ DOMAIN fs = 1 .. n /\ \A i \in 1 .. n : fs[i] \in Range(fs)
  BY <1>1, ListedMembers
<1>3. ASSUME NEW f \in Range(fs), f.kind # "custom"
      PROVE  Suits(f, v, N)
  <2>1. Filled(f, v)
    BY <1>1, <1>3, Zenon
  <2>2. f.name \in MemberNames(f)
    BY <1>3 DEF MemberNames
  <2>3. Fits(f, v)
    BY <2>1, <2>2, FilledFits
  <2> QED BY <1>3, <2>3 DEF Suits
<1>4. ASSUME NEW f \in Range(fs), f.kind = "custom"
      PROVE  Suits(f, v, N)
  <2> DEFINE gs == f.of
             m == Len(gs)
  <2>1. gs \in Seq(Range(gs)) /\ \A g \in Range(gs) : Filled(g, v)
    BY <1>1, <1>4, Zenon
  <2>2. m \in Nat /\ DOMAIN gs = 1 .. m /\ \A i \in 1 .. m : gs[i] \in Range(gs)
    BY <2>1, ListedMembers
  <2>3. \A g \in Range(gs) : g.name \in MemberNames(f)
    BY <1>4 DEF MemberNames
  <2>4. \A g \in Range(gs) : Fits(g, v)
    BY <2>1, <2>3, FilledFits
  <2>5. Flats(gs, v, m)
    BY <2>2, <2>4, Zenon DEF Flats
  <2>6. f.name \in N
    BY <1>4 DEF NestedNames
  <2> QED BY <1>4, <2>5, <2>6, Zenon DEF Suits
<1>5. \A i \in 1 .. n : Suits(fs[i], v, N)
  BY <1>2, <1>3, <1>4, Zenon
<1> HIDE DEF N, fs
<1>6. Members(fs, v, n, N)
  BY <1>1, <1>2, <1>5, Zenon DEF Members
<1> QED BY <1>6 DEF fs, N

\* A class with just one member of a kind that has a length.
LEMMA LengthOf ==
  ASSUME NEW c \in Classes, NEW v \in Values(c), NEW i \in DOMAIN c.writes,
         c.writes[i].kind \in {"array", "string", "header"}
  PROVE  v[c.writes[i].name] \in Nat
<1> DEFINE f == c.writes[i]
<1>1. f \in Range(c.writes)
  BY DEF Range
<1>2. f.kind # "custom"
  OBVIOUS
<1> HIDE DEF f
<1>3. Filled(f, v)
  BY <1>1, <1>2, PublishingAssumption, Zenon
<1> QED BY <1>3 DEF Filled, f

LEMMA OneMember ==
  ASSUME NEW x
  PROVE  1 \in DOMAIN <<x>> /\ <<x>>[1] = x
OBVIOUS

LEMMA PlainKind ==
  /\ Plain("string", "data").kind = "string" /\ Plain("string", "data").name = "data"
  /\ Plain("header", "frame_id").kind = "header"
  /\ Plain("header", "frame_id").name = "frame_id"
  /\ Plain("string", "encoding").kind = "string"
  /\ Plain("string", "encoding").name = "encoding"
  /\ MsgDef("uint32", TRUE, 0, "data").name = "data"
  /\ MsgDef("uint32", TRUE, 0, "data").kind = "array"
BY DEF Plain, MsgDef

LEMMA ClassesDiffer ==
  StringClass # HeaderClass /\ StringClass # Image /\ HeaderClass # Image
<1>1. StringClass.name = "String" /\ HeaderClass.name = "Header" /\ Image.name = "Image"
  BY DEF StringClass, HeaderClass, Image, Class
<1>2. "String" # "Header" /\ "String" # "Image" /\ "Header" # "Image"
  OBVIOUS
<1> HIDE DEF StringClass, HeaderClass, Image
<1> QED BY <1>1, <1>2

LEMMA PaddedNat ==
  ASSUME NEW n \in Nat
  PROVE  Padded(n) \in Nat /\ n <= Padded(n)
<1>1. Gap(n, 4) \in Nat
  BY GapFacts DEF Sizes
<1> QED BY <1>1 DEF Padded

\* The announced size is a number.
LEMMA TotalSizeNat ==
  ASSUME NEW c \in Classes, NEW v \in Values(c)
  PROVE  CalcTotalSize(c, v) \in Nat
<1>1. CASE c = StringClass
  <2>1. c.writes = << Plain("string", "data") >>
    BY <1>1 DEF StringClass, Class
  <2>2. v["data"] \in Nat
    <3>1. 1 \in DOMAIN c.writes /\ c.writes[1] = Plain("string", "data")
      BY <2>1, OneMember
    <3>2. c.writes[1].kind = "string" /\ c.writes[1].name = "data"
      BY <3>1, PlainKind, Zenon
    <3> QED BY <3>1, <3>2, LengthOf
  <2>3. CalcRawTotalSize(c, v) = 4 + v["data"]
    BY <1>1, ClassesDiffer, Zenon DEF CalcRawTotalSize
  <2> QED BY <2>2, <2>3, PaddedNat DEF CalcTotalSize
<1>2. CASE c # StringClass /\ c = HeaderClass
  <2>1. c.writes = << Plain("header", "frame_id") >>
    BY <1>2 DEF HeaderClass, Class
  <2>2. v["frame_id"] \in Nat
    <3>1. 1 \in DOMAIN c.writes /\ c.writes[1] = Plain("header", "frame_id")
      BY <2>1, OneMember
    <3>2. c.writes[1].kind = "header" /\ c.writes[1].name = "frame_id"
      BY <3>1, PlainKind, Zenon
    <3> QED BY <3>1, <3>2, LengthOf
  <2>3. CalcRawTotalSize(c, v) = 4 + 4 + v["frame_id"]
    BY <1>2, ClassesDiffer, Zenon DEF CalcRawTotalSize
  <2> QED BY <2>2, <2>3, PaddedNat DEF CalcTotalSize
<1>3. CASE c # StringClass /\ c # HeaderClass /\ c = Image
  <2>1. c.writes = ImageMembers("uint32")
    BY <1>3 DEF Image, ImageToBuf
  <2>2. /\ DOMAIN c.writes = 1 .. 7 /\ c.writes[1] = Plain("header", "frame_id")
        /\ c.writes[4] = Plain("string", "encoding")
        /\ c.writes[7] = MsgDef("uint32", TRUE, 0, "data")
    BY <2>1 DEF ImageMembers
  <2>3. v["frame_id"] \in Nat /\ v["encoding"] \in Nat /\ v["data"] \in Nat
    <3>1. 1 \in DOMAIN c.writes /\ 4 \in DOMAIN c.writes /\ 7 \in DOMAIN c.writes
      BY <2>2
    <3>2. /\ c.writes[1].kind = "header" /\ c.writes[1].name = "frame_id"
          /\ c.writes[4].kind = "string" /\ c.writes[4].name = "encoding"
          /\ c.writes[7].kind = "array" /\ c.writes[7].name = "data"
      BY <2>2, PlainKind, Zenon
    <3> QED BY <3>1, <3>2, LengthOf
  <2>4. CalcRawTotalSize(c, v) = ImageRawSize(v)
    BY <1>3, ClassesDiffer, Zenon DEF CalcRawTotalSize
  <2>5. ImageRawSize(v) \in Nat
    <3>1. Padded(v["frame_id"]) \in Nat /\ Padded(v["encoding"] + 1) \in Nat
      BY <2>3, PaddedNat
    <3> QED BY <2>3, <3>1 DEF ImageRawSize
  <2> QED BY <2>4, <2>5, PaddedNat DEF CalcTotalSize
<1>4. CASE c # StringClass /\ c # HeaderClass /\ c # Image
  <2>1. CalcRawTotalSize(c, v) = c.raw
    BY <1>4, Zenon DEF CalcRawTotalSize
  <2>2. c.raw \in Nat
    BY PublishingAssumption, Zenon
  <2> QED BY <2>1, <2>2, PaddedNat DEF CalcTotalSize
<1> QED BY <1>1, <1>2, <1>3, <1>4

-----------------------------------------------------------------------------
(* The payload of a change. *)

LEMMA Header4 == CDR \in Octets /\ Len(CDR) = 4
<1>1. "encapsulation" \in Names /\ 0 \in Nat /\ 4 \in Nat
  BY DEF Names
<1> QED BY <1>1, Written DEF CDR

LEMMA LengthNat ==
  ASSUME NEW w \in Octets
  PROVE  Len(w) \in Nat
BY DEF Octets

LEMMA PeekAll ==
  ASSUME NEW b \in Octets
  PROVE  Peek(b, 0, Len(b)) = b
<1> HIDE DEF Octet
<1>1. b \in Seq(Octet)
  BY DEF Octets
<1>2. Len(b) \in Nat /\ DOMAIN b = 1 .. Len(b)
  BY <1>1
<1>3. \A k \in 1 .. Len(b) : 0 + k = k
  BY <1>2
<1>4. Holds(b, 0, b)
  BY <1>2, <1>3, Zenon DEF Holds
<1>5. 0 \in Nat
  OBVIOUS
<1> QED BY <1>4, <1>5, PeekHeld

LEMMA BehindTheHeader ==
  ASSUME NEW w \in Octets, NEW h \in Octets, Len(h) = 4
  PROVE  LET p == Peek(h \o w, 0, Len(w) + 4) IN SubSeq(p, 5, Len(p)) = w
<1> DEFINE b == h \o w
           n == Len(w) + 4
<1>1. b \in Octets /\ Len(b) = Len(h) + Len(w) /\ Len(w) \in Nat
  <2>1. b \in Seq(Octet) /\ Len(b) = Len(h) + Len(w)
    BY Joins, Zenon DEF Octets
  <2>2. Len(w) \in Nat
    BY LengthNat
  <2> QED BY <2>1, <2>2, Zenon DEF Octets
<1>2. Len(b) = n /\ n \in Nat
  BY <1>1
<1> HIDE DEF Octet
<1>4. b = h \o w /\ n = Len(w) + 4
  OBVIOUS
<1> HIDE DEF b, n
<1>5. Peek(b, 0, n) = b
  BY <1>1, <1>2, PeekAll
<1>3. \A k \in 1 .. Len(w) : b[k + 4] = w[k]
  <2>1. 0 \in Nat /\ DOMAIN b = 1 .. Len(b) /\ \A k \in 1 .. Len(b) : 0 + k = k
    BY <1>1 DEF Octets
  <2>2. Holds(b, 0, b)
    BY <2>1, Zenon DEF Holds
  <2>3. Holds(b, 0 + Len(h), w)
    BY <1>4, <2>1, <2>2, HoldsBoth
  <2>4. \A k \in 1 .. Len(w) : (0 + Len(h)) + k = k + 4
    BY <1>1
  <2> QED BY <2>3, <2>4, Zenon DEF Holds
<1> DEFINE s == SubSeq(b, 5, n)
<1>6. 5 \in 1 .. Len(b) + 1 /\ n \in 5 - 1 .. Len(b) /\ b \in Seq(Octet) /\ w \in Seq(Octet)
  BY <1>1, <1>2, <1>4 DEF Octets
<1>7. /\ s \in Seq(Octet) /\ Len(s) = Len(w)
      /\ \A i \in 1 .. Len(w) : s[i] = b[i + 4]
  <2>1. /\ s \in Seq(Octet) /\ Len(s) = IF 5 <= n THEN n - 5 + 1 ELSE 0
        /\ \A i \in 1 .. n - 5 + 1 : s[i] = b[5 + i - 1]
    BY <1>1, <1>6, SubSeqProperties
  <2> HIDE DEF s
  <2>2. n - 5 + 1 = Len(w) /\ \A i \in 1 .. Len(w) : 5 + i - 1 = i + 4
    BY <1>1, <1>4
  <2>3. Len(s) = Len(w)
    BY <1>1, <1>4, <2>1
  <2> QED BY <2>1, <2>2, <2>3
<1> HIDE DEF s
<1>8. s = w
  BY <1>1, <1>3, <1>6, <1>7
<1> QED BY <1>2, <1>4, <1>5, <1>8, Zenon DEF s

\* What callback_handler makes of a change.
ReadFrom(change) ==
  CopyFromBuf(class.reads, SubSeq(change.payload, 5, Len(change.payload)))

\* What publish stores of the value v of a fresh object of class c.
PayloadOf(c, v) ==
  LET copied == CopyToBuf(c.writes, v, 0, AllZero(c))
      end == IF c.pads THEN MemAlign(copied) ELSE copied
  IN  Peek(CDR \o end.out, 0, end.cnt + 4)

LEMMA PayloadReadsBack ==
  ASSUME NEW c \in Classes, NEW v \in Values(c), NEW p, p = PayloadOf(c, v)
  PROVE  CopyFromBuf(c.reads, SubSeq(p, 5, Len(p))) = Contents(c.writes, v)
<1> DEFINE N == NestedNames(c)
           counts == AllZero(c)
           copied == CopyToBuf(c.writes, v, 0, counts)
           end == IF c.pads THEN MemAlign(copied) ELSE copied
<1>1. counts \in [N -> Nat] /\ \A x \in N : counts[x] = 0
  BY DEF AllZero
<1>2. Members(c.writes, v, Len(c.writes), N)
  BY ClassMembers
<1>3. p = Peek(CDR \o end.out, 0, end.cnt + 4)
  BY DEF PayloadOf
<1> HIDE DEF N, counts
<1>4. copied \in Cursors(N) /\ \E w : ReadsBack(c.writes, v, counts, w)
  BY <1>1, <1>2, MembersReadBack
<1>5. PICK w : ReadsBack(c.writes, v, counts, w)
  BY <1>4
<1>6. /\ w \in Octets /\ copied.cnt = Len(w) /\ copied.out = w
      /\ \A buffer \in Octets : Holds(buffer, 0, w) =>
           CopyFromBuf(c.writes, buffer) = Contents(c.writes, v)
  BY <1>5, Zenon DEF ReadsBack
<1> HIDE DEF copied
<1>7. \E z \in Octets : end.out = w \o z /\ end.cnt = Len(w \o z)
  <2>1. CASE c.pads
    <3> DEFINE z == Zeros(Gap(copied.cnt, 4))
    <3>1. copied.cnt \in Nat /\ Len(w) \in Nat
      BY <1>6 DEF Octets
    <3>2. 4 \in Sizes
      BY DEF Sizes
    <3>3. Gap(copied.cnt, 4) \in Nat
      BY <3>1, <3>2, GapFacts
    <3>4. z \in Octets
      BY <3>3, WrittenZeros
    <3>5. end = Put(copied, z)
      BY <2>1 DEF MemAlign, Align
    <3> HIDE DEF z, end
    <3>6. end.cnt = copied.cnt + Len(z) /\ end.out = copied.out \o z
      BY <1>4, <3>4, <3>5, CursorPut
    <3>7. Len(w \o z) = Len(w) + Len(z)
      BY <1>6, <3>4, Joins DEF Octets
    <3> QED BY <1>6, <3>4, <3>6, <3>7
  <2>2. CASE ~c.pads
    <3>1. w \o <<>> = w /\ <<>> \in Octets
      BY <1>6, JoinsEmpty DEF Octets
    <3>2. end = copied
      BY <2>2
    <3> QED BY <1>6, <3>1, <3>2
  <2> QED BY <2>1, <2>2
<1> HIDE DEF end
<1>8. PICK z \in Octets : end.out = w \o z /\ end.cnt = Len(w \o z)
  BY <1>7
<1> DEFINE o == w \o z
<1>9. o \in Octets /\ Holds(o, 0, w)
  <2> HIDE DEF Octet
  <2>1. w \in Seq(Octet) /\ z \in Seq(Octet)
    BY <1>6 DEF Octets
  <2>2. o \in Seq(Octet) /\ \A k \in 1 .. Len(w) : 0 + k \in DOMAIN o /\ o[0 + k] = w[k]
    BY <2>1
  <2> QED BY <2>2 DEF Holds, Octets
<1>10. p = Peek(CDR \o o, 0, Len(o) + 4)
  BY <1>3, <1>8, Zenon
<1> HIDE DEF o
<1>11. SubSeq(p, 5, Len(p)) = o
  BY <1>9, <1>10, Header4, BehindTheHeader
<1>12. c.reads = c.writes
  BY PublishingAssumption, Zenon
<1> QED BY <1>6, <1>9, <1>11, <1>12, Zenon

-----------------------------------------------------------------------------
(* What is published. *)

LEMMA SeqOfItsRange ==
  ASSUME NEW S, NEW s \in Seq(S)
  PROVE  s \in Seq(Range(s))
<1> DEFINE m == Len(s)
           R == {s[x] : x \in DOMAIN s}
<1>1. m \in Nat /\ DOMAIN s = 1 .. m
  OBVIOUS
<1>2. s = [i \in 1 .. m |-> s[i]]
  OBVIOUS
<1>3. \A i \in 1 .. m : s[i] \in R
  BY <1>1
<1> HIDE DEF R, m
<1>4. s \in [1 .. m -> R]
  BY <1>2, <1>3
<1>5. s \in Seq(R)
  BY <1>1, <1>4
<1> QED BY <1>5 DEF R, Range

LEMMA OneMore ==
  ASSUME NEW h, h \in Seq(Range(h)), NEW e, NEW g, g = Append(h, e)
  PROVE  /\ g \in Seq(Range(g)) /\ Len(h) \in Nat
         /\ DOMAIN h = 1 .. Len(h) /\ DOMAIN g = 1 .. Len(h) + 1
         /\ \A i \in DOMAIN h : g[i] = h[i]
         /\ \A i \in DOMAIN g : i \in DOMAIN h \/ i = Len(h) + 1
         /\ Len(h) + 1 \in DOMAIN g /\ g[Len(h) + 1] = e
<1> DEFINE S == Range(h) \cup {e}
           n == Len(h)
<1>1. h \in Seq(S)
  <2> DEFINE R == Range(h)
  <2>1. h \in Seq(R) /\ R \subseteq S
    OBVIOUS
  <2> HIDE DEF R, S
  <2> QED BY <2>1
<1>2. e \in S
  OBVIOUS
<1> HIDE DEF S
<1>3. /\ n \in Nat /\ DOMAIN h = 1 .. n /\ g \in Seq(S) /\ Len(g) = n + 1
      /\ DOMAIN g = 1 .. n + 1 /\ g[n + 1] = e /\ \A i \in 1 .. n : g[i] = h[i]
  BY <1>1, <1>2
<1>4. g \in Seq(Range(g))
  BY <1>3, SeqOfItsRange
<1>5. \A i \in 1 .. n + 1 : i \in 1 .. n \/ i = n + 1
  BY <1>3
<1>6. n + 1 \in 1 .. n + 1
  BY <1>3
<1> QED BY <1>3, <1>4, <1>5, <1>6

\* The change reads back as the value it was made of.
Legible(change) == ReadFrom(change) = Contents(class.writes, change.value)

\* As long as nothing stored refers to the object its counters are 0, and a value
\* that is referred to does not fit the buffer, so that publish leaves it alone.
PublishingInv ==
  /\ class \in Classes /\ value \in Values(class)
  /\ history \in Seq(Range(history))
  /\ ~Referred => msg = ZeroCounters
  /\ Referred => BufSize < CalcTotalSize(class, value)
  /\ sending # 0 => Referred
  /\ \A i \in DOMAIN history : history[i].fresh /\ ~history[i].serialised => Legible(history[i])
  /\ got # Nothing =>
       /\ got.change \in DOMAIN history /\ ~history[got.change].serialised
       /\ got.read = ReadFrom(history[got.change])

LEMMA PublishingInit == Init => PublishingInv
<1> SUFFICES ASSUME Init PROVE PublishingInv
  OBVIOUS
<1>1. /\ class \in Classes /\ value \in Values(class) /\ msg = ZeroCounters
      /\ history = <<>> /\ sending = 0 /\ got = Nothing
  BY Zenon DEF Init
<1>2. history \in Seq(Range(history)) /\ DOMAIN history = {}
  BY <1>1
<1>3. ~Referred
  BY <1>2 DEF Referred
<1> QED BY <1>1, <1>2, <1>3, Zenon DEF PublishingInv

LEMMA ReferredOn ==
  ASSUME NEW h, h \in Seq(Range(h)), history = h, NEW e, NEW g, g = Append(h, e), history' = g
  PROVE  Referred' <=> Referred \/ e.serialised
<1>1. /\ DOMAIN h = 1 .. Len(h) /\ DOMAIN g = 1 .. Len(h) + 1 /\ Len(h) \in Nat
      /\ \A i \in DOMAIN h : g[i] = h[i] /\ i \in DOMAIN g
      /\ \A i \in DOMAIN g : i \in DOMAIN h \/ i = Len(h) + 1
      /\ Len(h) + 1 \in DOMAIN g /\ g[Len(h) + 1] = e
  <2>1. DOMAIN h = 1 .. Len(h) /\ DOMAIN g = 1 .. Len(h) + 1 /\ Len(h) \in Nat
    BY OneMore
  <2>2. \A i \in DOMAIN h : i \in DOMAIN g
    BY <2>1
  <2> QED BY <2>1, <2>2, OneMore
<1> QED BY <1>1, Zenon DEF Referred

\* A change is stored with what the object holds.
LEMMA StoreKeeps ==
  ASSUME PublishingInv, NEW e, history' = Append(history, e), class' = class, got' = got,
         e.fresh /\ ~e.serialised => Legible(e)
  PROVE  /\ (history \in Seq(Range(history)))'
         /\ (\A i \in DOMAIN history :
               history[i].fresh /\ ~history[i].serialised => Legible(history[i]))'
         /\ (got # Nothing =>
               /\ got.change \in DOMAIN history /\ ~history[got.change].serialised
               /\ got.read = ReadFrom(history[got.change]))'
<1> DEFINE h == history
           g == Append(h, e)
<1>0. h = history /\ g = history'
  OBVIOUS
<1>1. h \in Seq(Range(h))
  BY Zenon DEF PublishingInv
<1>2. /\ g \in Seq(Range(g)) /\ DOMAIN h = 1 .. Len(h) /\ DOMAIN g = 1 .. Len(h) + 1
      /\ Len(h) \in Nat
      /\ \A i \in DOMAIN h : g[i] = h[i]
      /\ \A i \in DOMAIN g : i \in DOMAIN h \/ i = Len(h) + 1
      /\ g[Len(h) + 1] = e
  BY <1>1, OneMore
<1>3. \A i \in DOMAIN h : i \in DOMAIN g
  BY <1>2
<1> HIDE DEF h, g
<1>4. \A change : ReadFrom(change)' = ReadFrom(change)
  BY DEF ReadFrom
<1>5. (history \in Seq(Range(history)))'
  BY <1>0, <1>2, Zenon
<1>6. ASSUME NEW i \in DOMAIN g, g[i].fresh, ~g[i].serialised
      PROVE  ReadFrom(g[i]) = Contents(class.writes, g[i].value)
  <2>1. CASE i \in DOMAIN h
    BY <1>0, <1>2, <1>6, <2>1, Zenon DEF PublishingInv, Legible
  <2>2. CASE i = Len(h) + 1
    BY <1>2, <1>6, <2>2, Zenon DEF Legible
  <2> QED BY <1>2, <1>6, <2>1, <2>2, Zenon
<1>7. (\A i \in DOMAIN history :
         history[i].fresh /\ ~history[i].serialised => Legible(history[i]))'
  BY <1>0, <1>4, <1>6 DEF Legible
<1>8. got # Nothing =>
        /\ got.change \in DOMAIN g /\ ~g[got.change].serialised
        /\ got.read = ReadFrom(g[got.change])
  <2>1. got # Nothing =>
          /\ got.change \in DOMAIN h /\ ~h[got.change].serialised
          /\ got.read = ReadFrom(h[got.change])
    BY <1>0, Zenon DEF PublishingInv
  <2> QED BY <1>2, <1>3, <2>1, Zenon
<1>9. (got # Nothing =>
         /\ got.change \in DOMAIN history /\ ~history[got.change].serialised
         /\ got.read = ReadFrom(history[got.change]))'
  BY <1>0, <1>4, <1>8 DEF Nothing
<1> QED BY <1>5, <1>7, <1>9

\* The history and what was read stay as they are.
LEMMA NothingStored ==
  ASSUME PublishingInv, history' = history, class' = class, got' = got
  PROVE  /\ (Referred' <=> Referred) /\ (history \in Seq(Range(history)))'
         /\ (\A i \in DOMAIN history :
               history[i].fresh /\ ~history[i].serialised => Legible(history[i]))'
         /\ (got # Nothing =>
               /\ got.change \in DOMAIN history /\ ~history[got.change].serialised
               /\ got.read = ReadFrom(history[got.change]))'
BY DEF PublishingInv, Referred, Legible, ReadFrom, Nothing

LEMMA PublishKeeps ==
  ASSUME PublishingInv, Publish
  PROVE  PublishingInv'
<1>1. /\ sending = 0 /\ class' = class /\ value' = value /\ sending' = sending /\ got' = got
      /\ PublishSerialiser \/ PublishBuffer
  BY Zenon DEF Publish
<1>2. /\ class \in Classes /\ value \in Values(class)
      /\ history \in Seq(Range(history)) /\ (~Referred => msg = ZeroCounters)
      /\ (Referred => BufSize < CalcTotalSize(class, value))
  BY Zenon DEF PublishingInv
<1>3. (class \in Classes /\ value \in Values(class) /\ (sending # 0 => Referred))'
  BY <1>1, <1>2
<1>4. CASE PublishSerialiser
  <2> DEFINE e == Change(TRUE, <<>>)
  <2>1. history' = Append(history, e) /\ msg' = msg /\ BufSize < CalcTotalSize(class, value)
    BY <1>4, Zenon DEF PublishSerialiser
  <2>2. e.serialised
    BY DEF Change
  <2> HIDE DEF e
  <2>3. Referred'
    BY <1>2, <2>1, <2>2, ReferredOn
  <2>4. /\ (history \in Seq(Range(history)))'
        /\ (\A i \in DOMAIN history :
              history[i].fresh /\ ~history[i].serialised => Legible(history[i]))'
        /\ (got # Nothing =>
              /\ got.change \in DOMAIN history /\ ~history[got.change].serialised
              /\ got.read = ReadFrom(history[got.change]))'
    BY <1>1, <2>1, <2>2, StoreKeeps
  <2>5. (Referred => BufSize < CalcTotalSize(class, value))'
    BY <1>1, <2>1 DEF BufSize
  <2> QED BY <1>3, <2>3, <2>4, <2>5, Zenon DEF PublishingInv
<1>5. CASE PublishBuffer
  <2> DEFINE copied == CopyToBuf(class.writes, value, msg.cntPub, nested)
             end == IF class.pads THEN MemAlign(copied) ELSE copied
             p == Peek(CDR \o end.out, 0, end.cnt + 4)
             e == Change(FALSE, p)
  <2>1. /\ CalcTotalSize(class, value) <= BufSize /\ history' = Append(history, e)
        /\ msg' = [msg EXCEPT !.cntPub = 0]
    BY <1>5, Zenon DEF PublishBuffer
  <2>2. ~Referred
    <3>1. CalcTotalSize(class, value) \in Nat
      BY <1>2, TotalSizeNat
    <3> HIDE DEF e
    <3> QED BY <1>2, <2>1, <3>1 DEF BufSize
  <2>3. msg = ZeroCounters /\ msg.cntPub = 0 /\ msg' = ZeroCounters
    <3>1. msg = ZeroCounters
      BY <1>2, <2>2, Zenon
    <3>2. ZeroCounters.cntPub = 0 /\ [ZeroCounters EXCEPT !.cntPub = 0] = ZeroCounters
      BY DEF ZeroCounters
    <3> HIDE DEF e
    <3> QED BY <2>1, <3>1, <3>2, Zenon
  <2>4. /\ e.serialised = FALSE /\ e.payload = p /\ e.value = value
        /\ e.fresh = (nested = AllZero(class))
    <3> HIDE DEF p
    <3> QED BY DEF Change
  <2>5. ASSUME e.fresh PROVE Legible(e)
    <3>1. nested = AllZero(class)
      BY <2>4, <2>5, Zenon
    <3>2. p = PayloadOf(class, value)
      BY <2>3, <3>1, Zenon DEF PayloadOf
    <3> HIDE DEF p, e
    <3>3. CopyFromBuf(class.reads, SubSeq(p, 5, Len(p))) = Contents(class.writes, value)
      BY <1>2, <3>2, PayloadReadsBack
    <3> QED BY <2>4, <3>3, Zenon DEF Legible, ReadFrom
  <2> HIDE DEF e
  <2>6. ~Referred'
    BY <1>2, <2>1, <2>2, <2>4, ReferredOn
  <2>7. /\ (history \in Seq(Range(history)))'
        /\ (\A i \in DOMAIN history :
              history[i].fresh /\ ~history[i].serialised => Legible(history[i]))'
        /\ (got # Nothing =>
              /\ got.change \in DOMAIN history /\ ~history[got.change].serialised
              /\ got.read = ReadFrom(history[got.change]))'
    BY <1>1, <2>1, <2>5, StoreKeeps
  <2>8. (~Referred => msg = ZeroCounters)'
    BY <2>3, Zenon DEF ZeroCounters
  <2> QED BY <1>1, <1>3, <2>6, <2>7, <2>8, Zenon DEF PublishingInv
<1> QED BY <1>1, <1>4, <1>5, Zenon

LEMMA ObjectKeeps ==
  ASSUME PublishingInv, Refill \/ Renew
  PROVE  PublishingInv'
<1>1. /\ ~Referred /\ class' = class /\ history' = history /\ got' = got /\ sending' = sending
      /\ value' \in Values(class) /\ (msg' = msg \/ msg' = ZeroCounters)
  <2>1. CASE Refill
    <3>1. /\ ~Referred /\ value' \in Values(class) \ {value}
          /\ UNCHANGED <<class, msg, nested, history, sending, sends, sent, got>>
      BY <2>1, Zenon DEF Refill
    <3> QED BY <3>1
  <2>2. CASE Renew
    <3>1. /\ ~Referred /\ msg' = ZeroCounters
          /\ UNCHANGED <<class, value, history, sending, sends, sent, got>>
      BY <2>2, Zenon DEF Renew
    <3>2. value \in Values(class)
      BY Zenon DEF PublishingInv
    <3> QED BY <3>1, <3>2
  <2> QED BY <2>1, <2>2
<1>2. /\ class \in Classes /\ (~Referred => msg = ZeroCounters) /\ (sending # 0 => Referred)
  BY Zenon DEF PublishingInv
<1>3. /\ (Referred' <=> Referred) /\ (history \in Seq(Range(history)))'
      /\ (\A i \in DOMAIN history :
            history[i].fresh /\ ~history[i].serialised => Legible(history[i]))'
      /\ (got # Nothing =>
            /\ got.change \in DOMAIN history /\ ~history[got.change].serialised
            /\ got.read = ReadFrom(history[got.change]))'
  BY <1>1, NothingStored
<1>4. (class \in Classes /\ value \in Values(class))'
  BY <1>1, <1>2
<1>5. (~Referred => msg = ZeroCounters)'
  BY <1>1, <1>2 DEF ZeroCounters
<1>6. ~Referred' /\ (sending # 0 => Referred)'
  BY <1>1, <1>2, <1>3
<1> QED BY <1>3, <1>4, <1>5, <1>6, Zenon DEF PublishingInv

LEMMA SendingKeeps ==
  ASSUME PublishingInv, SendFragment \/ \E i \in DOMAIN history : SendData(i)
  PROVE  PublishingInv'
<1>1. /\ class' = class /\ value' = value /\ history' = history /\ got' = got /\ Referred
  <2>1. CASE SendFragment
    <3>1. sending # 0 /\ UNCHANGED <<class, value, nested, history, sends, got>>
      BY <2>1, Zenon DEF SendFragment
    <3>2. sending # 0 => Referred
      BY Zenon DEF PublishingInv
    <3> QED BY <3>1, <3>2
  <2>2. CASE \E i \in DOMAIN history : SendData(i)
    <3>1. PICK i \in DOMAIN history : SendData(i)
      BY <2>2
    <3>2. history[i].serialised /\ UNCHANGED <<class, value, msg, nested, history, got>>
      BY <3>1, Zenon DEF SendData
    <3>3. Referred
      BY <3>2, Zenon DEF Referred
    <3> QED BY <3>2, <3>3
  <2> QED BY <2>1, <2>2
<1>2. /\ class \in Classes /\ value \in Values(class)
      /\ (Referred => BufSize < CalcTotalSize(class, value))
  BY Zenon DEF PublishingInv
<1>3. /\ (Referred' <=> Referred) /\ (history \in Seq(Range(history)))'
      /\ (\A i \in DOMAIN history :
            history[i].fresh /\ ~history[i].serialised => Legible(history[i]))'
      /\ (got # Nothing =>
            /\ got.change \in DOMAIN history /\ ~history[got.change].serialised
            /\ got.read = ReadFrom(history[got.change]))'
  BY <1>1, NothingStored
<1>4. (class \in Classes /\ value \in Values(class))'
  BY <1>1, <1>2
<1>5. (Referred => BufSize < CalcTotalSize(class, value))'
  BY <1>1, <1>2 DEF BufSize
<1>6. Referred'
  BY <1>1, <1>3
<1> QED BY <1>3, <1>4, <1>5, <1>6, Zenon DEF PublishingInv

LEMMA DeliverKeeps ==
  ASSUME PublishingInv, NEW i \in DOMAIN history, Deliver(i)
  PROVE  PublishingInv'
<1>1. /\ ~history[i].serialised
      /\ got' = [change |-> i, read |-> ReadFrom(history[i])]
      /\ class' = class /\ value' = value /\ msg' = msg /\ history' = history
      /\ sending' = sending
  BY Zenon DEF Deliver, ReadFrom
<1>2. got'.change = i /\ got'.read = ReadFrom(history[i])
  BY <1>1
<1>3. (class \in Classes /\ value \in Values(class) /\ history \in Seq(Range(history)))'
  BY <1>1 DEF PublishingInv
<1>4. /\ Referred' <=> Referred
      /\ (~Referred => msg = ZeroCounters)'
      /\ (Referred => BufSize < CalcTotalSize(class, value))'
      /\ (sending # 0 => Referred)'
  <2>1. Referred' <=> Referred
    BY <1>1 DEF Referred
  <2>2. /\ (~Referred => msg = ZeroCounters)
        /\ (Referred => BufSize < CalcTotalSize(class, value))
        /\ (sending # 0 => Referred)
    BY Zenon DEF PublishingInv
  <2>3. (~Referred => msg = ZeroCounters)'
    BY <1>1, <2>1, <2>2 DEF ZeroCounters
  <2>4. (Referred => BufSize < CalcTotalSize(class, value))'
    BY <1>1, <2>1, <2>2 DEF BufSize
  <2> QED BY <1>1, <2>1, <2>2, <2>3, <2>4
<1>5. (\A k \in DOMAIN history :
         history[k].fresh /\ ~history[k].serialised => Legible(history[k]))'
  BY <1>1 DEF PublishingInv, Legible, ReadFrom
<1>6. (/\ got.change \in DOMAIN history /\ ~history[got.change].serialised
       /\ got.read = ReadFrom(history[got.change]))'
  <2>1. \A change : ReadFrom(change)' = ReadFrom(change)
    BY <1>1 DEF ReadFrom
  <2> QED BY <1>1, <1>2, <2>1
<1> QED BY <1>3, <1>4, <1>5, <1>6, Zenon DEF PublishingInv

LEMMA PublishingStep == PublishingInv /\ [Next]_vars => PublishingInv'
<1> SUFFICES ASSUME PublishingInv, [Next]_vars PROVE PublishingInv'
  OBVIOUS
<1>1. CASE Refill \/ Renew
  BY <1>1, ObjectKeeps
<1>2. CASE Publish
  BY <1>2, PublishKeeps
<1>3. CASE SendFragment \/ \E i \in DOMAIN history : SendData(i)
  BY <1>3, SendingKeeps
<1>4. CASE \E i \in DOMAIN history : Deliver(i)
  BY <1>4, DeliverKeeps
<1>5. CASE UNCHANGED vars
  <2>1. /\ class' = class /\ value' = value /\ msg' = msg /\ history' = history
        /\ sending' = sending /\ got' = got
    BY <1>5 DEF vars
  <2>2. /\ (Referred' <=> Referred) /\ (history \in Seq(Range(history)))'
        /\ (\A i \in DOMAIN history :
              history[i].fresh /\ ~history[i].serialised => Legible(history[i]))'
        /\ (got # Nothing =>
              /\ got.change \in DOMAIN history /\ ~history[got.change].serialised
              /\ got.read = ReadFrom(history[got.change]))'
    BY <2>1, NothingStored
  <2>3. /\ class \in Classes /\ value \in Values(class) /\ (~Referred => msg = ZeroCounters)
        /\ (Referred => BufSize < CalcTotalSize(class, value))
        /\ (sending # 0 => Referred)
    BY Zenon DEF PublishingInv
  <2>4. /\ (class \in Classes /\ value \in Values(class))'
        /\ (~Referred => msg = ZeroCounters)'
        /\ (Referred => BufSize < CalcTotalSize(class, value))'
        /\ (sending # 0 => Referred)'
    BY <2>1, <2>2, <2>3 DEF ZeroCounters, BufSize
  <2> QED BY <2>2, <2>4, Zenon DEF PublishingInv
<1> QED BY <1>1, <1>2, <1>3, <1>4, <1>5, Zenon DEF Next

\* Whatever the classes are - any members in any order, of any sizes and lengths, one
\* level of nested members among them - and whatever was published before,
\* callback_handler reads what publish was given: the padding that copyToBuf
\* writes is the padding that copyFromBuf skips (header_template.tpl:111, :346).
THEOREM ReadAsPublished == Spec => []RoundTrip
<1>1. PublishingInv => RoundTrip
  BY Zenon DEF PublishingInv, RoundTrip, Legible
<1> QED BY <1>1, PublishingInit, PublishingStep, PTL DEF Spec

-----------------------------------------------------------------------------
(* How much copyToBuf writes. *)

LEMMA PutCount ==
  ASSUME NEW c, Writer(c), NEW z \in Octets, NEW e \in Octets
  PROVE  Put(Put(c, z), e).cnt = c.cnt + Len(z) + Len(e)
<1>1. /\ Writer(Put(c, z)) /\ Put(c, z).cnt = c.cnt + Len(z)
  BY PutPut
<1>2. Put(Put(c, z), e).cnt = Put(c, z).cnt + Len(e)
  BY <1>1, PutPut
<1> QED BY <1>1, <1>2

LEMMA PrimitiveCount ==
  ASSUME NEW c, Writer(c), NEW f, NEW v, Fits(f, v), f.kind = "primitive"
  PROVE  PutFlat(c, f, v).cnt = c.cnt + MemberGap(c.cnt, f.size) + f.size
<1>1. f.name \in Names /\ f.size \in Sizes /\ f.size \in Nat /\ 1 \in Nat /\ c.cnt \in Nat
  <2>1. f.name \in Names /\ f.size \in Sizes
    BY Zenon DEF Fits
  <2>2. c.cnt \in Nat
    BY Zenon DEF Writer
  <2> QED BY <2>1, <2>2 DEF Sizes
<1>2. MemberGap(c.cnt, f.size) \in Nat
  BY <1>1, GapFacts
<1>3. /\ Zeros(MemberGap(c.cnt, f.size)) \in Octets
      /\ Len(Zeros(MemberGap(c.cnt, f.size))) = MemberGap(c.cnt, f.size)
  BY <1>2, WrittenZeros
<1>4. Element(f.name, 1, f.size) \in Octets /\ Len(Element(f.name, 1, f.size)) = f.size
  BY <1>1, Written
<1>5. PutFlat(c, f, v) = PutPrimitive(c, f)
  BY DEF PutFlat
<1>6. PutPrimitive(c, f).cnt
        = c.cnt + Len(Zeros(MemberGap(c.cnt, f.size))) + Len(Element(f.name, 1, f.size))
  BY <1>3, <1>4, PutCount DEF PutPrimitive
<1> QED BY <1>3, <1>4, <1>5, <1>6

\* A member of eight bytes, and one whose members are all of eight.
Double(f) == f.kind = "primitive" /\ f.size = 8

Doubles(f, s) ==
  IF f.kind = "custom"
  THEN s = 8 * Len(f.of) /\ \A i \in DOMAIN f.of : Double(f.of[i])
  ELSE s = 8 /\ Double(f)

LEMMA DoubleCount ==
  ASSUME NEW c, Writer(c), NEW f, NEW v, Fits(f, v), Double(f), NEW k \in Nat, c.cnt = 8 * k
  PROVE  PutFlat(c, f, v).cnt = 8 * (k + 1)
<1>1. PutFlat(c, f, v).cnt = c.cnt + MemberGap(c.cnt, f.size) + f.size
  BY PrimitiveCount DEF Double
<1>2. f.size = 8
  BY DEF Double
<1>3. (8 * k) % 8 = 0
  OBVIOUS
<1>4. MemberGap(8 * k, 8) = 0
  BY <1>3 DEF MemberGap, Gap
<1> QED BY <1>1, <1>2, <1>4

LEMMA FlatDoubles ==
  ASSUME NEW fs, NEW v, NEW n, Flats(fs, v, n), \A i \in 1 .. n : Double(fs[i]),
         NEW c, Writer(c), c.cnt = 0
  PROVE  PutFlats(c, fs, v).cnt = 8 * n
<1>0. n \in Nat /\ \A i \in 1 .. n : Fits(fs[i], v)
  BY Zenon DEF Flats
<1>1. PICK rows : PutFlatRows(c, fs, v, n, rows) /\ rows[n] = PutFlats(c, fs, v)
  BY PutFlatsRows
<1> DEFINE I == {k \in Nat : k <= n => Writer(rows[k]) /\ rows[k].cnt = 8 * k}
<1>2. 0 \in I
  <2>1. rows[0] = c
    BY <1>1, Zenon DEF PutFlatRows
  <2> QED BY <2>1
<1>3. ASSUME NEW k \in Nat, k \in I
      PROVE  k + 1 \in I
  <2> SUFFICES ASSUME k + 1 <= n PROVE Writer(rows[k + 1]) /\ rows[k + 1].cnt = 8 * (k + 1)
    OBVIOUS
  <2> DEFINE m == k + 1
  <2>1. m \in 1 .. n /\ m - 1 = k /\ Writer(rows[k]) /\ rows[k].cnt = 8 * k
    BY <1>0, <1>3
  <2>m. m = k + 1
    OBVIOUS
  <2> HIDE DEF m
  <2>2. rows[m] = PutFlat(rows[k], fs[m], v)
    BY <1>1, <2>1, Zenon DEF PutFlatRows
  <2>3. Fits(fs[m], v) /\ Double(fs[m]) /\ rows[k].cnt \in Nat
    BY <1>0, <2>1
  <2>4. rows[m].cnt = 8 * (k + 1)
    BY <2>1, <2>2, <2>3, DoubleCount
  <2>5. PICK w : Agrees(fs[m], v, rows[k].cnt, w)
    BY <2>3, FlatAgrees
  <2>6. w \in Octets /\ PutFlat(rows[k], fs[m], v) = Put(rows[k], w)
    BY <2>1, <2>5, Zenon DEF Agrees
  <2>7. Writer(rows[m])
    <3>1. Writer(Put(rows[k], w))
      BY <2>1, <2>6, PutPut
    <3> QED BY <2>2, <2>6, <3>1, Zenon
  <2> QED BY <2>4, <2>7, <2>m, Zenon
<1>4. Nat \subseteq I
  <2> HIDE DEF I
  <2> QED BY <1>2, <1>3, NatSetInduction
<1> QED BY <1>0, <1>1, <1>4

LEMMA MemberDoubles ==
  ASSUME NEW N, NEW f, NEW v, Suits(f, v, N), NEW c \in Cursors(N), NEW s, Doubles(f, s),
         f.kind = "custom" => c.nested[f.name] = 0, NEW k \in Nat, c.cnt = 8 * k
  PROVE  PutMember(c, f, v).cnt = c.cnt + s /\ \E m \in Nat : s = 8 * m
<1>1. Writer(c) /\ c.cnt \in Nat
  BY CursorWrites
<1>2. CASE f.kind # "custom"
  <2>1. Fits(f, v) /\ Double(f) /\ s = 8
    BY <1>2, Zenon DEF Suits, Doubles
  <2>2. PutFlat(c, f, v).cnt = 8 * (k + 1)
    BY <1>1, <2>1, DoubleCount
  <2>3. PutMember(c, f, v) = PutFlat(c, f, v)
    BY <1>2, Zenon DEF PutMember
  <2>4. 8 = 8 * 1 /\ 8 * (k + 1) = 8 * k + 8
    OBVIOUS
  <2> QED BY <2>1, <2>2, <2>3, <2>4
<1>3. CASE f.kind = "custom"
  <2>1. PICK m : Flats(f.of, v, m)
    BY <1>3, Zenon DEF Suits
  <2>2. m \in Nat /\ DOMAIN f.of = 1 .. m
    BY <2>1, Zenon DEF Flats
  <2>3. s = 8 * Len(f.of) /\ \A i \in 1 .. m : Double(f.of[i])
    BY <1>3, <2>2 DEF Doubles
  <2>4. Len(f.of) = m
    BY <2>2, LenProperties
  <2> DEFINE start == [cnt |-> c.nested[f.name], out |-> <<>>]
             inner == PutFlats(start, f.of, v)
  <2>5. start = [cnt |-> 0, out |-> <<>>] /\ Writer(start) /\ start.cnt = 0
    <3>1. start = [cnt |-> 0, out |-> <<>>]
      BY <1>3
    <3> DEFINE z == [cnt |-> 0, out |-> <<>>]
    <3>2. z = [x \in DOMAIN z |-> z[x]] /\ DOMAIN z = {"cnt", "out"} /\ z.cnt = 0 /\ z.out = <<>>
      OBVIOUS
    <3>3. <<>> \in Octets /\ 0 \in Nat
      BY DEF Octets
    <3> HIDE DEF z
    <3>4. Writer(z)
      BY <3>2, <3>3 DEF Writer
    <3> QED BY <3>1, <3>2, <3>4 DEF z
  <2>i. inner = PutFlats([cnt |-> c.nested[f.name], out |-> <<>>], f.of, v)
    OBVIOUS
  <2> HIDE DEF start
  <2>6. inner.cnt = 8 * m
    BY <2>1, <2>3, <2>5, FlatDoubles
  <2> HIDE DEF inner
  <2>7. PutNested(c, f, v) = Behind(c, f, inner)
    BY <2>i, NestedIsFold
  <2>8. Behind(c, f, inner).cnt = c.cnt + inner.cnt
    BY DEF Behind, Cursors
  <2> QED BY <1>3, <2>2, <2>3, <2>4, <2>6, <2>7, <2>8 DEF PutMember
<1> QED BY <1>2, <1>3

\* Members that take at most S times eight bytes each.
LEMMA DoublesUpTo ==
  ASSUME NEW c \in Classes, NEW v \in Values(c), NEW S \in {1, 4},
         \A i \in DOMAIN c.writes : \E s \in {8 * t : t \in 1 .. S} : Doubles(c.writes[i], s)
  PROVE  \E m \in Nat : /\ CopyToBuf(c.writes, v, 0, AllZero(c)).cnt = 8 * m
                        /\ m <= S * Len(c.writes)
<1> DEFINE fs == c.writes
           n == Len(fs)
           N == NestedNames(c)
           counts == AllZero(c)
<1>1. counts \in [N -> Nat] /\ \A x \in N : counts[x] = 0
  BY DEF AllZero
<1>2. Members(fs, v, n, N)
  BY ClassMembers
<1>3. n \in Nat /\ DOMAIN fs = 1 .. n /\ \A i \in 1 .. n : Suits(fs[i], v, N)
  BY <1>2, Zenon DEF Members
<1>d. \A i \in 1 .. n : \E s \in {8 * t : t \in 1 .. S} : Doubles(fs[i], s)
  BY <1>3
<1> HIDE DEF N, counts, fs, n
<1>4. PICK rows :
        /\ PutMemberRows(Start(0, counts), fs, v, n, rows)
        /\ rows[n] = CopyToBuf(fs, v, 0, counts)
        /\ \A k \in 0 .. n : \E w : SoFar(fs, v, n, N, rows, k, w)
  BY <1>1, <1>2, RowsSoFar, Zenon
<1> DEFINE Upto(k) == \E m \in Nat : rows[k].cnt = 8 * m /\ m <= S * k
           I == {k \in Nat : k <= n => Upto(k)}
<1>5. 0 \in I
  <2>1. rows[0] = Start(0, counts)
    BY <1>4, Zenon DEF PutMemberRows
  <2>2. rows[0].cnt = 0
    BY <2>1 DEF Start
  <2>3. 0 \in Nat /\ 0 = 8 * 0 /\ 0 <= S * 0
    OBVIOUS
  <2> QED BY <2>2, <2>3
<1>6. ASSUME NEW k \in Nat, k \in I
      PROVE  k + 1 \in I
  <2> SUFFICES ASSUME k + 1 <= n PROVE Upto(k + 1)
    OBVIOUS
  <2> DEFINE j == k + 1
  <2>1. j \in 1 .. n /\ j - 1 = k /\ j > k /\ k \in 0 .. n /\ Upto(k)
    BY <1>3, <1>6
  <2>j. j = k + 1
    OBVIOUS
  <2> HIDE DEF j, Upto
  <2>2. PICK w : SoFar(fs, v, n, N, rows, k, w)
    BY <1>4, <2>1, Zenon
  <2>3. /\ rows[k] \in Cursors(N)
        /\ fs[j].kind = "custom" => rows[k].nested[fs[j].name] = 0
    BY <2>1, <2>2, Zenon DEF SoFar
  <2>4. rows[j] = PutMember(rows[k], fs[j], v)
    BY <1>4, <2>1, Zenon DEF PutMemberRows
  <2>5. PICK m \in Nat : rows[k].cnt = 8 * m /\ m <= S * k
    BY <2>1 DEF Upto
  <2>6. PICK t \in 1 .. S : Doubles(fs[j], 8 * t)
    BY <1>d, <2>1
  <2>7. Suits(fs[j], v, N)
    BY <1>3, <2>1
  <2>8. PutMember(rows[k], fs[j], v).cnt = rows[k].cnt + 8 * t
    BY <2>3, <2>5, <2>6, <2>7, MemberDoubles
  <2>9. S * (k + 1) = S * k + S /\ t \in Nat /\ t <= S /\ S * k \in Nat /\ S \in Nat
    OBVIOUS
  <2>10. m + t \in Nat /\ rows[j].cnt = 8 * (m + t) /\ m + t <= S * j
    <3> DEFINE q == S * k
    <3>1. q \in Nat /\ m <= q /\ S * (k + 1) = q + S
      BY <2>5, <2>9
    <3> HIDE DEF q
    <3>2. m + t \in Nat /\ m + t <= q + S /\ 8 * (m + t) = 8 * m + 8 * t
      BY <2>9, <3>1
    <3> QED BY <2>4, <2>5, <2>8, <2>j, <3>1, <3>2
  <2>11. Upto(j)
    BY <2>10 DEF Upto
  <2> QED BY <2>11, <2>j
<1>7. Nat \subseteq I
  <2> HIDE DEF I
  <2> QED BY <1>5, <1>6, NatSetInduction
<1>8. Upto(n)
  BY <1>3, <1>7
<1> QED BY <1>4, <1>8 DEF fs, n, counts

\* A class of one primitive member.
LEMMA BareCount ==
  ASSUME NEW c \in Classes, NEW v \in Values(c), NEW f, c.writes = <<f>>,
         f.kind = "primitive"
  PROVE  CopyToBuf(c.writes, v, 0, AllZero(c)).cnt \in 0 .. 8
<1> DEFINE fs == c.writes
           N == NestedNames(c)
           counts == AllZero(c)
<1>1. counts \in [N -> Nat] /\ \A x \in N : counts[x] = 0
  BY DEF AllZero
<1>2. Len(c.writes) = 1
  OBVIOUS
<1>3. Members(fs, v, 1, N)
  BY <1>2, ClassMembers
<1>4. fs[1] = f /\ 1 \in 1 .. 1 /\ 0 \in 0 .. 1 /\ 1 - 1 = 0
  BY OneMember
<1> HIDE DEF N, counts, fs
<1>5. PICK rows :
        /\ PutMemberRows(Start(0, counts), fs, v, 1, rows)
        /\ rows[1] = CopyToBuf(fs, v, 0, counts)
        /\ \A k \in 0 .. 1 : \E w : SoFar(fs, v, 1, N, rows, k, w)
  BY <1>1, <1>3, RowsSoFar, Zenon
<1>6. rows[0] = Start(0, counts) /\ rows[1] = PutMember(rows[0], f, v)
  BY <1>4, <1>5, Zenon DEF PutMemberRows
<1>7. Fits(f, v)
  <2>1. Suits(f, v, N)
    BY <1>3, <1>4, Zenon DEF Members
  <2> QED BY <2>1 DEF Suits
<1>8. Writer(rows[0]) /\ rows[0].cnt = 0
  <2>1. rows[0] \in Cursors(N)
    BY <1>4, <1>5, Zenon DEF SoFar
  <2>2. rows[0].cnt = 0
    BY <1>6 DEF Start
  <2> QED BY <2>1, <2>2, CursorWrites
<1>9. PutFlat(rows[0], f, v).cnt = 0 + MemberGap(0, f.size) + f.size
  BY <1>7, <1>8, PrimitiveCount
<1>10. f.size \in Sizes
  BY <1>7, Zenon DEF Fits
<1>11. MemberGap(0, f.size) = 0
  BY <1>10 DEF MemberGap, HalfGap, Gap, Sizes
<1>12. PutMember(rows[0], f, v) = PutFlat(rows[0], f, v)
  BY DEF PutMember
<1> QED BY <1>5, <1>6, <1>9, <1>10, <1>11, <1>12 DEF Sizes, fs, counts

LEMMA StringCount ==
  ASSUME StringClass \in Classes, NEW v \in Values(StringClass)
  PROVE  /\ v["data"] \in Nat
         /\ CopyToBuf(StringClass.writes, v, 0, AllZero(StringClass)).cnt = 4 + v["data"]
<1> DEFINE c == StringClass
           f == Plain("string", "data")
           fs == c.writes
           N == NestedNames(c)
           counts == AllZero(c)
           k == v["data"]
<1>1. counts \in [N -> Nat] /\ \A x \in N : counts[x] = 0
  BY DEF AllZero
<1>2. fs = <<f>>
  BY DEF StringClass, Class
<1>3. f.kind = "string" /\ f.name = "data"
  BY PlainKind
<1> HIDE DEF c, f
<1>4. Len(fs) = 1 /\ fs[1] = f /\ 1 \in 1 .. 1 /\ 0 \in 0 .. 1 /\ 1 - 1 = 0
  BY <1>2, OneMember
<1>5. Members(fs, v, 1, N)
  BY <1>4, ClassMembers DEF c
<1> HIDE DEF N, counts, fs
<1>6. PICK rows :
        /\ PutMemberRows(Start(0, counts), fs, v, 1, rows)
        /\ rows[1] = CopyToBuf(fs, v, 0, counts)
        /\ \A i \in 0 .. 1 : \E w : SoFar(fs, v, 1, N, rows, i, w)
  BY <1>1, <1>5, RowsSoFar, Zenon
<1>7. rows[0] = Start(0, counts) /\ rows[1] = PutMember(rows[0], f, v)
  BY <1>4, <1>6, Zenon DEF PutMemberRows
<1>8. Fits(f, v)
  <2>1. Suits(f, v, N)
    BY <1>4, <1>5, Zenon DEF Members
  <2> QED BY <1>3, <2>1 DEF Suits
<1>9. Writer(rows[0]) /\ rows[0].cnt = 0
  <2>1. rows[0] \in Cursors(N)
    BY <1>4, <1>6, Zenon DEF SoFar
  <2>2. rows[0].cnt = 0
    BY <1>7 DEF Start
  <2> QED BY <2>1, <2>2, CursorWrites
<1>10. k \in Nat /\ f.name \in Names
  BY <1>3, <1>8 DEF Fits
<1>11. PutMember(rows[0], f, v) = PutString(rows[0], f, k)
  BY <1>3 DEF PutMember, PutFlat
<1> DEFINE z == Zeros(Gap(rows[0].cnt, 4))
           e == Elements(f.name, k, 1)
<1>12. Gap(rows[0].cnt, 4) = 0
  BY <1>9 DEF Gap
<1>13. z \in Octets /\ Len(z) = 0
  BY <1>12, WrittenZeros
<1>14. Count(k) \in Octets /\ Len(Count(k)) = 4
  BY <1>10, WrittenCount
<1>15. e \in Octets /\ Len(e) = k
  <2>1. 1 \in Sizes /\ k * 1 = k
    BY <1>10 DEF Sizes
  <2> QED BY <1>10, <2>1, WrittenMany
<1>16. PutString(rows[0], f, k) = Put(Put(Put(rows[0], z), Count(k)), e)
  BY DEF PutString, Align
<1> HIDE DEF z, e
<1>17. Writer(Put(rows[0], z)) /\ Put(rows[0], z).cnt = 0
  <2>1. Writer(Put(rows[0], z)) /\ Put(rows[0], z).cnt = rows[0].cnt + Len(z)
    BY <1>9, <1>13, PutPut
  <2> QED BY <1>9, <1>13, <2>1
<1>18. Put(Put(Put(rows[0], z), Count(k)), e).cnt = 0 + 4 + k
  BY <1>14, <1>15, <1>17, PutCount
<1> QED BY <1>6, <1>7, <1>10, <1>11, <1>16, <1>18 DEF fs, counts, c

LEMMA PrimitiveKind ==
  ASSUME NEW type, type \notin {"string", "header"}, NEW name
  PROVE  Plain(type, name).kind = "primitive" /\ Plain(type, name).size = msgSizes[type]
BY DEF Plain, MsgDef

LEMMA BareMember ==
  ASSUME NEW c \in BareClasses
  PROVE  \E f : c.writes = <<f>> /\ f.kind = "primitive"
<1>1. \E name, type : type \notin {"string", "header"} /\ c = Bare(name, type)
  BY DEF BareClasses, Int8, Int16, Int32, Int64, UInt8, UInt16, UInt32, UInt64, Float32, Float64,
         Char, Byte, Bool
<1>2. PICK name, type : type \notin {"string", "header"} /\ c = Bare(name, type)
  BY <1>1
<1>3. c.writes = << Plain(type, "data") >>
  BY <1>2 DEF Bare, Class
<1> QED BY <1>2, <1>3, PrimitiveKind

\* A class of n doubles.
AllDouble(fs, n) == DOMAIN fs = 1 .. n /\ Len(fs) = n /\ \A i \in 1 .. n : Double(fs[i])

LEMMA FloatsAreDouble ==
  ASSUME NEW name
  PROVE  Double(Plain("float64", name))
<1>1. "float64" \notin {"string", "header"} /\ msgSizes["float64"] = 8
  BY DEF msgSizes
<1>2. Plain("float64", name).kind = "primitive" /\ Plain("float64", name).size = 8
  BY <1>1, PrimitiveKind
<1> QED BY <1>2 DEF Double

LEMMA ThreeDoubles ==
  ASSUME NEW x, NEW y, NEW z, Double(x), Double(y), Double(z)
  PROVE  AllDouble(<<x, y, z>>, 3)
<1> HIDE DEF Double
<1> DEFINE s == <<x, y, z>>
<1>1. DOMAIN s = 1 .. 3 /\ Len(s) = 3 /\ s[1] = x /\ s[2] = y /\ s[3] = z
  OBVIOUS
<1> HIDE DEF s
<1>2. \A i \in 1 .. 3 : i = 1 \/ i = 2 \/ i = 3
  OBVIOUS
<1>3. \A i \in 1 .. 3 : Double(s[i])
  BY <1>1, <1>2, Zenon
<1> QED BY <1>1, <1>3 DEF AllDouble, s

LEMMA FourDoubles ==
  ASSUME NEW x, NEW y, NEW z, NEW w, Double(x), Double(y), Double(z), Double(w)
  PROVE  AllDouble(<<x, y, z, w>>, 4)
<1> HIDE DEF Double
<1> DEFINE s == <<x, y, z, w>>
<1>1. /\ DOMAIN s = 1 .. 4 /\ Len(s) = 4
      /\ s[1] = x /\ s[2] = y /\ s[3] = z /\ s[4] = w
  OBVIOUS
<1> HIDE DEF s
<1>2. \A i \in 1 .. 4 : i = 1 \/ i = 2 \/ i = 3 \/ i = 4
  OBVIOUS
<1>3. \A i \in 1 .. 4 : Double(s[i])
  BY <1>1, <1>2, Zenon
<1> QED BY <1>1, <1>3 DEF AllDouble, s

LEMMA DoubleClasses ==
  AllDouble(Vector3.writes, 3) /\ AllDouble(Point.writes, 3) /\ AllDouble(Quaternion.writes, 4)
<1> DEFINE D(name) == Plain("float64", name)
<1>1. \A name : Double(D(name))
  BY FloatsAreDouble
<1>2. /\ Vector3.writes = << D("x"), D("y"), D("z") >>
      /\ Point.writes = << D("x"), D("y"), D("z") >>
      /\ Quaternion.writes = << D("x"), D("y"), D("z"), D("w") >>
  BY DEF Vector3, Point, Quaternion, Generated, Class
<1> HIDE DEF D
<1>3. Double(D("x")) /\ Double(D("y")) /\ Double(D("z")) /\ Double(D("w"))
  BY <1>1, Zenon
<1>4. AllDouble(<< D("x"), D("y"), D("z") >>, 3)
  BY <1>3, ThreeDoubles
<1>5. AllDouble(<< D("x"), D("y"), D("z"), D("w") >>, 4)
  BY <1>3, FourDoubles
<1> QED BY <1>2, <1>4, <1>5, Zenon

LEMMA NestedDoubles ==
  ASSUME NEW fs, NEW n, AllDouble(fs, n), NEW name
  PROVE  Doubles(Nested(fs, name), 8 * n)
<1>1. Nested(fs, name).kind = "custom" /\ Nested(fs, name).of = fs
  BY DEF Nested
<1>2. DOMAIN fs = 1 .. n /\ Len(fs) = n /\ \A i \in 1 .. n : Double(fs[i])
  BY Zenon DEF AllDouble
<1> QED BY <1>1, <1>2, Zenon DEF Doubles

\* A class of doubles, or of two nested ones.
LEMMA DoublesCount ==
  ASSUME NEW c \in Classes, NEW v \in Values(c), NEW n \in {3, 4}, AllDouble(c.writes, n)
  PROVE  CopyToBuf(c.writes, v, 0, AllZero(c)).cnt \in 0 .. 92
<1>1. DOMAIN c.writes = 1 .. n /\ Len(c.writes) = n /\ \A i \in 1 .. n : Double(c.writes[i])
  BY Zenon DEF AllDouble
<1>2. \A f : Double(f) => Doubles(f, 8)
  BY DEF Double, Doubles
<1>3. 8 \in {8 * t : t \in 1 .. 1} /\ 1 \in {1, 4}
  BY SMT
<1>4. \A i \in DOMAIN c.writes : \E s \in {8 * t : t \in 1 .. 1} : Doubles(c.writes[i], s)
  BY <1>1, <1>2, <1>3, Zenon
<1>5. \E m \in Nat : /\ CopyToBuf(c.writes, v, 0, AllZero(c)).cnt = 8 * m
                     /\ m <= 1 * Len(c.writes)
  BY <1>3, <1>4, DoublesUpTo
<1> DEFINE x == CopyToBuf(c.writes, v, 0, AllZero(c)).cnt
           l == Len(c.writes)
<1>6. l = 3 \/ l = 4
  BY <1>1
<1>7. PICK m \in Nat : x = 8 * m /\ m <= 1 * l
  BY <1>5
<1> HIDE DEF x, l
<1>8. m <= 4
  BY <1>6, <1>7
<1>9. x \in 0 .. 92
  BY <1>7, <1>8
<1> QED BY <1>9 DEF x

LEMMA NestingCount ==
  ASSUME NEW c \in Classes, NEW v \in Values(c), NEW x, NEW y, c.writes = <<x, y>>,
         NEW a \in {3, 4}, Doubles(x, 8 * a), NEW b \in {3, 4}, Doubles(y, 8 * b)
  PROVE  CopyToBuf(c.writes, v, 0, AllZero(c)).cnt \in 0 .. 92
<1> DEFINE fs == c.writes
<1>1. DOMAIN fs = 1 .. 2 /\ Len(fs) = 2 /\ fs[1] = x /\ fs[2] = y
  OBVIOUS
<1>2. \A i \in 1 .. 2 : i = 1 \/ i = 2
  OBVIOUS
<1>3. 8 * a \in {8 * t : t \in 1 .. 4} /\ 8 * b \in {8 * t : t \in 1 .. 4} /\ 4 \in {1, 4}
  BY SMT
<1> HIDE DEF fs
<1>4. \A i \in DOMAIN fs : \E s \in {8 * t : t \in 1 .. 4} : Doubles(fs[i], s)
  BY <1>1, <1>2, <1>3, Zenon
<1>5. \E m \in Nat : CopyToBuf(fs, v, 0, AllZero(c)).cnt = 8 * m /\ m <= 4 * Len(fs)
  BY <1>3, <1>4, DoublesUpTo DEF fs
<1>6. CopyToBuf(fs, v, 0, AllZero(c)).cnt \in 0 .. 92
  BY <1>1, <1>5
<1> QED BY <1>6 DEF fs

LEMMA FixedCount ==
  ASSUME NEW c \in Classes, NEW v \in Values(c), c \in FixedClasses
  PROVE  CopyToBuf(c.writes, v, 0, AllZero(c)).cnt \in 0 .. 92
<1>1. CASE c \in BareClasses
  <2>1. PICK f : c.writes = <<f>> /\ f.kind = "primitive"
    BY <1>1, BareMember
  <2>2. CopyToBuf(c.writes, v, 0, AllZero(c)).cnt \in 0 .. 8
    BY <2>1, BareCount
  <2> QED BY <2>2
<1>2. CASE c \in {Vector3, Point, Quaternion}
  <2>1. AllDouble(c.writes, 3) \/ AllDouble(c.writes, 4)
    BY <1>2, DoubleClasses, Zenon
  <2>2. 3 \in {3, 4} /\ 4 \in {3, 4}
    OBVIOUS
  <2> QED BY <2>1, <2>2, DoublesCount
<1>3. CASE c = Twist
  <2> DEFINE x == Nested(Vector3.writes, "linear")
             y == Nested(Vector3.writes, "angular")
  <2>1. c.writes = <<x, y>>
    BY <1>3 DEF Twist, Generated, Class
  <2>2. Doubles(x, 8 * 3) /\ Doubles(y, 8 * 3)
    BY DoubleClasses, NestedDoubles
  <2>3. 3 \in {3, 4}
    OBVIOUS
  <2> HIDE DEF x, y
  <2> QED BY <2>1, <2>2, <2>3, NestingCount
<1>4. CASE c = Pose
  <2> DEFINE x == Nested(Point.writes, "position")
             y == Nested(Quaternion.writes, "orientation")
  <2>1. c.writes = <<x, y>>
    BY <1>4 DEF Pose, Generated, Class
  <2>2. Doubles(x, 8 * 3) /\ Doubles(y, 8 * 4)
    BY DoubleClasses, NestedDoubles
  <2>3. 3 \in {3, 4} /\ 4 \in {3, 4}
    OBVIOUS
  <2> HIDE DEF x, y
  <2> QED BY <2>1, <2>2, <2>3, NestingCount
<1> QED BY <1>1, <1>2, <1>3, <1>4, Zenon DEF FixedClasses, NestingClasses

-----------------------------------------------------------------------------
(* What publish sends through buf fits it. *)

LEMMA PeekLength ==
  ASSUME NEW b, NEW n \in Nat
  PROVE  Len(Peek(b, 0, n)) = n
<1> DEFINE p == Peek(b, 0, n)
<1>1. DOMAIN p = 1 .. n
  BY DEF Peek
<1> HIDE DEF p
<1>2. Len(p) = n
  BY <1>1, LenProperties
<1> QED BY <1>2 DEF p

LEMMA GapBounds ==
  ASSUME NEW n \in Nat
  PROVE  /\ Gap(n, 4) \in 0 .. 3 /\ Gap(n + 4, 4) = Gap(n, 4)
         /\ Padded(n + 4) = n + 4 + Gap(n, 4)
<1>1. n % 4 \in 0 .. 3 /\ (n + 4) % 4 = n % 4
  OBVIOUS
<1>2. Gap(n, 4) \in 0 .. 3 /\ Gap(n + 4, 4) = Gap(n, 4)
  BY <1>1 DEF Gap
<1> QED BY <1>2 DEF Padded

LEMMA PayloadFits ==
  ASSUME NEW c \in Classes, NEW v \in Values(c), c \in FixedClasses \cup {StringClass},
         CalcTotalSize(c, v) <= BufSize
  PROVE  Len(PayloadOf(c, v)) <= BufSize
<1> DEFINE N == NestedNames(c)
           counts == AllZero(c)
           copied == CopyToBuf(c.writes, v, 0, counts)
           end == IF c.pads THEN MemAlign(copied) ELSE copied
           k == copied.cnt
<1>1. counts \in [N -> Nat] /\ \A x \in N : counts[x] = 0
  BY DEF AllZero
<1>2. Members(c.writes, v, Len(c.writes), N)
  BY ClassMembers
<1>3. PayloadOf(c, v) = Peek(CDR \o end.out, 0, end.cnt + 4)
  BY DEF PayloadOf
<1>4. k \in Nat /\ k + Gap(k, 4) <= 96
  <2>1. CASE c \in FixedClasses
    <3>1. k \in 0 .. 92
      BY <2>1, FixedCount
    <3> HIDE DEF k
    <3>2. Gap(k, 4) \in 0 .. 3 /\ k \in Nat
      BY <3>1, GapBounds
    <3> QED BY <3>1, <3>2
  <2>2. CASE c = StringClass
    <3> DEFINE m == 4 + v["data"]
    <3>1. v["data"] \in Nat /\ k = m
      BY <2>2, StringCount
    <3>2. CalcRawTotalSize(c, v) = m
      BY <2>2, ClassesDiffer, Zenon DEF CalcRawTotalSize
    <3>3. Padded(4 + m) <= 100
      BY <3>2 DEF CalcTotalSize, BufSize
    <3>4. m \in Nat /\ 4 + m = m + 4
      BY <3>1
    <3> HIDE DEF k, m
    <3>5. Padded(m + 4) = m + 4 + Gap(m, 4) /\ Gap(m, 4) \in 0 .. 3
      BY <3>4, GapBounds
    <3> QED BY <3>1, <3>3, <3>4, <3>5
  <2> QED BY <2>1, <2>2
<1> HIDE DEF N, counts
<1>5. copied \in Cursors(N)
  BY <1>1, <1>2, MembersReadBack
<1>6. end.cnt = k \/ end.cnt = k + Gap(k, 4)
  <2>1. CASE c.pads
    <3> DEFINE z == Zeros(Gap(k, 4))
    <3>1. Gap(k, 4) \in Nat
      BY <1>4, GapBounds
    <3>2. z \in Octets /\ Len(z) = Gap(k, 4)
      BY <3>1, WrittenZeros
    <3>3. end = Put(copied, z)
      BY <2>1 DEF MemAlign, Align
    <3> HIDE DEF end, z, copied
    <3>4. end.cnt = copied.cnt + Len(z)
      BY <1>5, <3>2, <3>3, CursorPut
    <3> QED BY <3>2, <3>4
  <2>2. CASE ~c.pads
    BY <2>2
  <2> QED BY <2>1, <2>2
<1> HIDE DEF end, copied
<1>7. end.cnt + 4 \in Nat /\ end.cnt + 4 <= 100
  <2>1. Gap(k, 4) \in 0 .. 3
    BY <1>4, GapBounds
  <2> HIDE DEF k
  <2> QED BY <1>4, <1>6, <2>1
<1>8. Len(PayloadOf(c, v)) = end.cnt + 4
  BY <1>3, <1>7, PeekLength
<1> QED BY <1>7, <1>8 DEF BufSize

LEMMA PublishFits ==
  ASSUME PublishingInv, InsideBuffer, Publish
  PROVE  InsideBuffer'
<1>1. class' = class /\ (PublishSerialiser \/ PublishBuffer)
  BY Zenon DEF Publish
<1>2. /\ class \in Classes /\ value \in Values(class) /\ history \in Seq(Range(history))
      /\ (~Referred => msg = ZeroCounters)
      /\ (Referred => BufSize < CalcTotalSize(class, value))
  BY Zenon DEF PublishingInv
<1> DEFINE fits == class \in FixedClasses \cup {StringClass}
<1>3. ASSUME NEW e, history' = Append(history, e), fits /\ e.fresh => Len(e.payload) <= BufSize
      PROVE  InsideBuffer'
  <2> DEFINE h == history
             g == Append(h, e)
  <2>0. h = history /\ g = history'
    BY <1>3
  <2>1. /\ \A i \in DOMAIN h : g[i] = h[i]
        /\ \A i \in DOMAIN g : i \in DOMAIN h \/ i = Len(h) + 1
        /\ g[Len(h) + 1] = e
    BY <1>2, OneMore
  <2> HIDE DEF h, g
  <2>2. ASSUME fits, NEW i \in DOMAIN g, g[i].fresh PROVE Len(g[i].payload) <= BufSize
    <3>1. CASE i \in DOMAIN h
      BY <2>0, <2>1, <2>2, <3>1, Zenon DEF InsideBuffer
    <3>2. CASE i = Len(h) + 1
      BY <1>3, <2>1, <2>2, <3>2, Zenon
    <3> QED BY <2>1, <2>2, <3>1, <3>2, Zenon
  <2>3. fits => \A i \in DOMAIN g : g[i].fresh => Len(g[i].payload) <= BufSize
    BY <2>2, Zenon
  <2> QED BY <1>1, <2>0, <2>3 DEF InsideBuffer, BufSize
<1>4. CASE PublishSerialiser
  <2> DEFINE e == Change(TRUE, <<>>)
  <2>1. history' = Append(history, e)
    BY <1>4, Zenon DEF PublishSerialiser
  <2>2. Len(e.payload) <= BufSize
    BY DEF Change, BufSize
  <2> HIDE DEF e, fits
  <2> QED BY <1>3, <2>1, <2>2
<1>5. CASE PublishBuffer
  <2> DEFINE copied == CopyToBuf(class.writes, value, msg.cntPub, nested)
             end == IF class.pads THEN MemAlign(copied) ELSE copied
             p == Peek(CDR \o end.out, 0, end.cnt + 4)
             e == Change(FALSE, p)
  <2>1. CalcTotalSize(class, value) <= BufSize /\ history' = Append(history, e)
    BY <1>5, Zenon DEF PublishBuffer
  <2>2. msg.cntPub = 0
    <3>1. CalcTotalSize(class, value) \in Nat
      BY <1>2, TotalSizeNat
    <3> HIDE DEF e
    <3>2. ~Referred
      BY <1>2, <2>1, <3>1 DEF BufSize
    <3> QED BY <1>2, <3>2 DEF ZeroCounters
  <2>3. e.payload = p /\ e.fresh = (nested = AllZero(class))
    <3> HIDE DEF p
    <3> QED BY DEF Change
  <2>4. ASSUME fits, e.fresh PROVE Len(e.payload) <= BufSize
    <3>1. nested = AllZero(class)
      BY <2>3, <2>4, Zenon
    <3>2. p = PayloadOf(class, value)
      BY <2>2, <3>1, Zenon DEF PayloadOf
    <3> HIDE DEF p, e
    <3>3. Len(PayloadOf(class, value)) <= BufSize
      BY <1>2, <2>1, <2>4, PayloadFits
    <3> QED BY <2>3, <3>2, <3>3, Zenon
  <2> HIDE DEF e, fits
  <2> QED BY <1>3, <2>1, <2>4
<1> QED BY <1>1, <1>4, <1>5

\* The global buffer holds what copyToBuf writes into it, for the classes that announce
\* their size exactly or cannot grow and for every string: publish chooses the
\* buffer by calcTotalSize and copyToBuf has no limit of its own (mros2.cpp:27).
THEOREM BufferSuffices == Spec => []InsideBuffer
<1>1. Init => InsideBuffer
  <2> SUFFICES ASSUME Init PROVE InsideBuffer
    OBVIOUS
  <2>1. history = <<>>
    BY Zenon DEF Init
  <2> QED BY <2>1 DEF InsideBuffer
<1>2. PublishingInv /\ InsideBuffer /\ [Next]_vars => InsideBuffer'
  <2> SUFFICES ASSUME PublishingInv, InsideBuffer, [Next]_vars PROVE InsideBuffer'
    OBVIOUS
  <2>1. CASE Publish
    BY <2>1, PublishFits
  <2>2. CASE ~Publish
    <3>1. class' = class /\ history' = history
      <4>1. CASE Refill
        BY <4>1, Zenon DEF Refill
      <4>2. CASE Renew
        BY <4>2, Zenon DEF Renew
      <4>3. CASE SendFragment
        BY <4>3, Zenon DEF SendFragment
      <4>4. CASE \E i \in DOMAIN history : SendData(i) \/ Deliver(i)
        <5>1. PICK i \in DOMAIN history : SendData(i) \/ Deliver(i)
          BY <4>4
        <5>2. SendData(i) => class' = class /\ history' = history
          BY Zenon DEF SendData
        <5>3. Deliver(i) => class' = class /\ history' = history
          BY Zenon DEF Deliver
        <5> QED BY <5>1, <5>2, <5>3
      <4>5. CASE UNCHANGED vars
        BY <4>5, Zenon DEF vars
      <4> QED BY <2>2, <4>1, <4>2, <4>3, <4>4, <4>5, Zenon DEF Next
    <3> QED BY <3>1 DEF InsideBuffer, BufSize
  <2> QED BY <2>1, <2>2
<1> QED BY <1>1, <1>2, PublishingInit, PublishingStep, PTL DEF Spec

-----------------------------------------------------------------------------
(* Sequences of fragments, put together. *)

\* The definition of FlattenSeq, unfolded: f puts the first pieces of s together.
Joining(s, n, f) ==
  f = [i \in 1 .. n |-> IF i = 1 THEN s[i] ELSE f[i - 1] \o s[i]]

LEMMA JoiningExists ==
  ASSUME NEW s, NEW n \in Nat
  PROVE  \E f : Joining(s, n, f)
<1> DEFINE T == {k \in Nat : \E f : Joining(s, k, f)}
<1>1. 0 \in T
  <2> DEFINE f == [i \in 1 .. 0 |-> {}]
  <2>1. f = [i \in 1 .. 0 |-> IF i = 1 THEN s[i] ELSE f[i - 1] \o s[i]]
    OBVIOUS
  <2> HIDE DEF f
  <2> QED BY <2>1 DEF Joining
<1>2. ASSUME NEW k \in Nat, k \in T PROVE k + 1 \in T
  <2>1. PICK f : Joining(s, k, f)
    BY <1>2
  <2> DEFINE g == [i \in 1 .. k + 1 |-> IF i = 1 THEN s[i]
                                        ELSE IF i = k + 1 THEN f[k] \o s[i] ELSE f[i]]
  <2>2. f = [i \in 1 .. k |-> IF i = 1 THEN s[i] ELSE f[i - 1] \o s[i]]
    BY <2>1 DEF Joining
  <2>3. \A i \in 1 .. k : g[i] = f[i]
    BY <2>2
  <2>4. \A i \in 1 .. k + 1 : i # 1 => i - 1 \in 1 .. k /\ (i # k + 1 => i \in 1 .. k)
    OBVIOUS
  <2>5. \A i \in 1 .. k + 1 : g[i] = IF i = 1 THEN s[i] ELSE g[i - 1] \o s[i]
    <3> TAKE i \in 1 .. k + 1
    <3>1. CASE i = 1
      BY <3>1
    <3>2. CASE i # 1 /\ i = k + 1
      <4>1. g[i] = f[k] \o s[i]
        BY <3>2, Zenon
      <4>2. i - 1 = k /\ k \in 1 .. k
        BY <3>2
      <4> QED BY <2>3, <3>2, <4>1, <4>2
    <3>3. CASE i # 1 /\ i # k + 1
      <4>1. g[i] = f[i] /\ i \in 1 .. k /\ i - 1 \in 1 .. k
        BY <3>3
      <4>2. f[i] = f[i - 1] \o s[i]
        BY <2>2, <3>3, <4>1
      <4> QED BY <2>3, <3>3, <4>1, <4>2
    <3> QED BY <3>1, <3>2, <3>3
  <2>6. g = [i \in 1 .. k + 1 |-> g[i]]
    OBVIOUS
  <2> HIDE DEF g
  <2>7. Joining(s, k + 1, g)
    BY <2>5, <2>6 DEF Joining
  <2> QED BY <2>7
<1>3. Nat \subseteq T
  <2> HIDE DEF T
  <2> QED BY <1>1, <1>2, NatSetInduction
<1> QED BY <1>3

Same(s, t, n) == \A i \in 1 .. n : s[i] = t[i]

\* What is put together of the first k pieces does not depend on those behind.
LEMMA JoiningOnly ==
  ASSUME NEW s, NEW t, NEW n \in Nat, NEW m \in Nat, n <= m,
         NEW f, Joining(s, n, f), NEW g, Joining(t, m, g), Same(s, t, n)
  PROVE  Same(f, g, n)
<1> DEFINE T == {k \in Nat : k \in 1 .. n => f[k] = g[k]}
<1>1. 0 \in T
  OBVIOUS
<1>2. ASSUME NEW k \in Nat, k \in T PROVE k + 1 \in T
  <2> SUFFICES ASSUME k + 1 \in 1 .. n PROVE f[k + 1] = g[k + 1]
    OBVIOUS
  <2>1. f[k + 1] = IF k + 1 = 1 THEN s[k + 1] ELSE f[(k + 1) - 1] \o s[k + 1]
    BY Zenon DEF Joining
  <2>2. k + 1 \in 1 .. m
    OBVIOUS
  <2>3. g[k + 1] = IF k + 1 = 1 THEN t[k + 1] ELSE g[(k + 1) - 1] \o t[k + 1]
    BY <2>2, Zenon DEF Joining
  <2>4. (k + 1) - 1 = k /\ (k + 1 # 1 => k \in 1 .. n)
    OBVIOUS
  <2>5. k + 1 # 1 => f[k] = g[k]
    BY <1>2, <2>4
  <2>6. s[k + 1] = t[k + 1]
    BY DEF Same
  <2> QED BY <2>1, <2>3, <2>4, <2>5, <2>6
<1>3. Nat \subseteq T
  <2> HIDE DEF T
  <2> QED BY <1>1, <1>2, NatSetInduction
<1> QED BY <1>3 DEF Same

LEMMA Flattened ==
  ASSUME NEW s, NEW n \in Nat, n # 0, Len(s) = n
  PROVE  \E f : Joining(s, n, f) /\ FlattenSeq(s) = f[n]
<1> DEFINE f == CHOOSE g : Joining(s, n, g)
<1>1. Joining(s, n, f)
  BY JoiningExists
<1>2. FlattenSeq(s) = f[n]
  BY DEF FlattenSeq, Joining
<1> QED BY <1>1, <1>2

\* One more piece goes to the end.
LEMMA FlattenAppend ==
  ASSUME NEW S, NEW s \in Seq(Seq(S)), NEW x \in Seq(S)
  PROVE  /\ FlattenSeq(Append(s, x)) = FlattenSeq(s) \o x
<1> DEFINE n == Len(s)
           t == Append(s, x)
<1>1. /\ n \in Nat /\ Len(t) = n + 1 /\ t[n + 1] = x /\ (n = 0 => s = <<>>)
      /\ Same(s, t, n)
  <2> DEFINE Q == Seq(S)
  <2>1. s \in Seq(Q) /\ x \in Q
    OBVIOUS
  <2> HIDE DEF Q
  <2> QED BY <2>1 DEF Same
<1> HIDE DEF n, t
<1>2. PICK g : Joining(t, n + 1, g) /\ FlattenSeq(t) = g[n + 1]
  BY <1>1, Flattened
<1>3. g[n + 1] = IF n + 1 = 1 THEN t[n + 1] ELSE g[(n + 1) - 1] \o t[n + 1]
  <2>1. n + 1 \in 1 .. n + 1
    BY <1>1
  <2> QED BY <1>2, <2>1, Zenon DEF Joining
<1>4. (n + 1) - 1 = n /\ (n + 1 = 1 <=> n = 0) /\ n <= n + 1 /\ n + 1 \in Nat
  BY <1>1
<1>5. CASE n = 0
  <2>1. FlattenSeq(s) = <<>>
    BY <1>1, <1>5 DEF FlattenSeq
  <2>2. <<>> \o x = x
    OBVIOUS
  <2> QED BY <1>1, <1>2, <1>3, <1>4, <1>5, <2>1, <2>2 DEF t
<1>6. CASE n # 0
  <2>1. PICK f : Joining(s, n, f) /\ FlattenSeq(s) = f[n]
    BY <1>1, <1>6, Flattened DEF n
  <2>2. Same(f, g, n)
    BY <1>1, <1>2, <1>4, <2>1, JoiningOnly
  <2>3. f[n] = g[n]
    BY <1>1, <1>6, <2>2 DEF Same
  <2> QED BY <1>1, <1>2, <1>3, <1>4, <1>6, <2>1, <2>3 DEF t
<1> QED BY <1>5, <1>6

\* More of a sequence.
LEMMA Extends ==
  ASSUME NEW t \in Octets, NEW p \in 0 .. Len(t), NEW w \in Octets, Holds(t, p, w),
         p + Len(w) <= Len(t)
  PROVE  /\ SubSeq(t, 1, p) \in Octets /\ Len(SubSeq(t, 1, p)) = p
         /\ SubSeq(t, 1, p) \o w = SubSeq(t, 1, p + Len(w))
<1> HIDE DEF Octet
<1>1. t \in Seq(Octet) /\ w \in Seq(Octet) /\ Len(w) \in Nat /\ p \in Nat
  BY DEF Octets
<1> DEFINE q == p + Len(w)
           a == SubSeq(t, 1, p)
           b == SubSeq(t, 1, q)
<1>2. q \in 0 .. Len(t) /\ q \in Nat
  BY <1>1
<1>3. a \in Seq(Octet) /\ Len(a) = p /\ \A i \in 1 .. p : a[i] = t[i]
  BY <1>1
<1>4. b \in Seq(Octet) /\ Len(b) = q /\ \A i \in 1 .. q : b[i] = t[i]
  BY <1>1, <1>2
<1>5. \A i \in 1 .. Len(w) : t[p + i] = w[i]
  BY Zenon DEF Holds
<1> HIDE DEF a, b, q
<1>6. /\ a \o w \in Seq(Octet) /\ Len(a \o w) = q
      /\ \A i \in 1 .. p : (a \o w)[i] = t[i]
      /\ \A i \in p + 1 .. q : (a \o w)[i] = w[i - p]
  BY <1>1, <1>3, SMTT(30) DEF q
<1>7. \A i \in p + 1 .. q : w[i - p] = t[i]
  <2> TAKE i \in p + 1 .. q
  <2>1. i - p \in 1 .. Len(w) /\ p + (i - p) = i
    BY <1>1 DEF q
  <2>2. t[p + (i - p)] = w[i - p]
    BY <1>5, <2>1, Zenon
  <2> QED BY <2>1, <2>2
<1>8. \A i \in 1 .. q : (a \o w)[i] = b[i]
  BY <1>1, <1>2, <1>4, <1>6, <1>7, SMTT(30)
<1>9. a \o w = b
  BY <1>2, <1>4, <1>6, <1>8, SMTT(30)
<1> QED BY <1>3, <1>9 DEF a, b, q, Octets

-----------------------------------------------------------------------------
(* The cursor of copyToFragBuf. *)

At(cnt, idx, parts) == [cntPub |-> cnt, idx |-> idx, parts |-> parts]

Cutter(m, size, out, short) == [msg |-> m, size |-> size, out |-> out, out_of_room |-> short]

\* Where a cursor of copyToFragBuf stands.
Stands(c, cnt, idx, parts, size, out, short) ==
  c = Cutter(At(cnt, idx, parts), size, out, short)

\* Whether a member ran out of room.
Yes == TRUE
No == FALSE

Arrays == {"frame_id", "encoding", "data"}

LEMMA EmitStands ==
  ASSUME NEW c, NEW cnt, NEW idx, NEW parts, NEW size, NEW out, NEW short,
         Stands(c, cnt, idx, parts, size, out, short), NEW w
  PROVE  Stands(Emit(c, w), cnt + Len(w), idx, parts, size, out \o w, short)
<1> DEFINE k == cnt + Len(w)
           o == out \o w
           m == At(cnt, idx, parts)
<1> HIDE DEF k, o
<1>1. [Cutter(m, size, out, short) EXCEPT !.msg.cntPub = k] = Cutter(At(k, idx, parts), size, out, short)
  BY DEF Cutter, At
<1>2. [Cutter(At(k, idx, parts), size, out, short) EXCEPT !.out = o]
        = Cutter(At(k, idx, parts), size, o, short)
  BY DEF Cutter
<1>3. [Cutter(m, size, out, short) EXCEPT !.msg.cntPub = k, !.out = o]
        = [[Cutter(m, size, out, short) EXCEPT !.msg.cntPub = k] EXCEPT !.out = o]
  BY Zenon
<1>4. [Cutter(m, size, out, short) EXCEPT !.msg.cntPub = k, !.out = o]
        = Cutter(At(k, idx, parts), size, o, short)
  BY <1>1, <1>2, <1>3
<1> QED BY <1>4 DEF Emit, Cutter, At, k, o, Stands

LEMMA NextStands ==
  ASSUME NEW c, NEW cnt, NEW idx, NEW parts, NEW size, NEW out, NEW short,
         Stands(c, cnt, idx, parts, size, out, short)
  PROVE  Stands([c EXCEPT !.msg.idx = @ + 1], cnt, idx + 1, parts, size, out, short)
BY DEF Cutter, At, Stands

LEMMA PartStands ==
  ASSUME NEW c, NEW cnt, NEW idx, NEW parts, NEW size, NEW out, NEW short,
         Stands(c, cnt, idx, parts, size, out, short), NEW name, NEW n
  PROVE  Stands([c EXCEPT !.msg.parts[name] = @ + n],
                cnt, idx, [parts EXCEPT ![name] = @ + n], size, out, short)
BY DEF Cutter, At, Stands

LEMMA ShortStands ==
  ASSUME NEW c, NEW cnt, NEW idx, NEW parts, NEW size, NEW out, NEW short,
         Stands(c, cnt, idx, parts, size, out, short)
  PROVE  Stands(RanOut(c), cnt, idx, parts, size, out, Yes)
<1> DEFINE m == At(cnt, idx, parts)
           d == [c EXCEPT !.out_of_room = TRUE]
           e == Cutter(m, size, out, TRUE)
<1>0. c = Cutter(m, size, out, short)
  BY DEF Stands
<1> HIDE DEF m
<1>1. DOMAIN d = {"msg", "size", "out", "out_of_room"} /\ d.msg = m /\ d.size = size /\ d.out = out
  BY <1>0 DEF Cutter
<1>2. d.out_of_room = TRUE
  BY <1>0, Zenon DEF Cutter
<1>3. DOMAIN e = {"msg", "size", "out", "out_of_room"} /\ e.msg = m /\ e.size = size /\ e.out = out
  BY DEF Cutter
<1>4. e.out_of_room = TRUE
  BY Zenon DEF Cutter
<1>5. d = [x \in DOMAIN d |-> d[x]] /\ e = [x \in DOMAIN e |-> e[x]]
  BY <1>0 DEF Cutter
<1> HIDE DEF d, e
<1>6. \A x \in DOMAIN d : d[x] = e[x]
  BY <1>1, <1>2, <1>3, <1>4, Zenon
<1>7. d = e
  BY <1>1, <1>3, <1>5, <1>6, Zenon
<1> QED BY <1>7, Zenon DEF RanOut, d, e, m, Yes, Stands

LEMMA StandsAt ==
  ASSUME NEW c, NEW cnt, NEW idx, NEW parts, NEW size, NEW out, NEW short,
         Stands(c, cnt, idx, parts, size, out, short)
  PROVE  /\ c.msg = At(cnt, idx, parts) /\ c.size = size /\ c.out = out /\ c.out_of_room = short
         /\ c.msg.cntPub = cnt /\ c.msg.idx = idx /\ c.msg.parts = parts
BY DEF Cutter, At, Stands

\* What is left of the fragment: see Room.
Left(size, out) == IF Len(out) <= size THEN size - Len(out) ELSE Huge

LEMMA LeftStands ==
  ASSUME NEW size \in Nat, NEW out \in Octets, NEW c, NEW cnt, NEW idx, NEW parts, NEW short,
         Stands(c, cnt, idx, parts, size, out, short)
  PROVE  Room(c) = Left(size, out) /\ Left(size, out) \in Nat /\ Len(out) \in Nat
<1>1. Len(out) \in Nat
  BY LengthNat
<1>2. Left(size, out) \in Nat
  BY <1>1 DEF Left, Huge
<1>3. c.size = size /\ c.out = out
  BY StandsAt
<1>4. Room(c) = Left(size, out)
  BY <1>3, Zenon DEF Room, Left
<1> QED BY <1>1, <1>2, <1>4

LEMMA CutPrimitive ==
  ASSUME NEW f, f.name \in Names, f.size \in Sizes, NEW size \in Nat,
         NEW cnt \in Nat, NEW idx, NEW parts, NEW out \in Octets,
         NEW c, Stands(c, cnt, idx, parts, size, out, No),
         NEW w, w = Zeros(Gap(cnt, f.size)) \o Element(f.name, 1, f.size),
         NEW d, d = CopyPrimToFragBufLocal(c, f)
  PROVE  /\ w \in Octets /\ Len(w) = Gap(cnt, f.size) + f.size
         /\ IF Left(size, out) < f.size
            THEN Stands(d, cnt, idx, parts, size, out, Yes)
            ELSE Stands(d, cnt + Len(w), idx + 1, parts, size, out \o w, No)
<1> DEFINE n == f.size
           z == Zeros(Gap(cnt, n))
           e == Element(f.name, 1, n)
<1>1. n \in Nat /\ Gap(cnt, n) \in Nat /\ 1 \in Nat
  <2>1. n \in Nat /\ 1 \in Nat
    BY DEF Sizes
  <2>2. Gap(cnt, n) \in Nat
    BY GapFacts
  <2> QED BY <2>1, <2>2
<1>2. z \in Octets /\ Len(z) = Gap(cnt, n)
  BY <1>1, WrittenZeros
<1>3. e \in Octets /\ Len(e) = n
  BY <1>1, Written
<1> HIDE DEF z, e
<1>4. w \in Octets /\ Len(w) = Gap(cnt, n) + n
  <2>1. w = z \o e
    BY DEF z, e
  <2>2. z \o e \in Octets /\ Len(z \o e) = Len(z) + Len(e)
    BY <1>2, <1>3, Joins, Zenon DEF Octets
  <2> QED BY <1>2, <1>3, <2>1, <2>2
<1>5. Room(c) = Left(size, out)
  BY LeftStands
<1>6. c.msg.cntPub = cnt
  BY StandsAt
<1>7. Stands(RanOut(c), cnt, idx, parts, size, out, Yes)
  BY ShortStands
<1>8. Stands([Emit(c, w) EXCEPT !.msg.idx = @ + 1],
             cnt + Len(w), idx + 1, parts, size, out \o w, No)
  <2>1. Stands(Emit(c, w), cnt + Len(w), idx, parts, size, out \o w, No)
    BY EmitStands
  <2> QED BY <2>1, NextStands
<1>9. d = IF Room(c) < n THEN RanOut(c) ELSE [Emit(c, w) EXCEPT !.msg.idx = @ + 1]
  BY <1>6, Zenon DEF CopyPrimToFragBufLocal
<1> QED BY <1>4, <1>5, <1>7, <1>8, <1>9, Zenon

LEMMA MinOf ==
  ASSUME NEW a \in Int, NEW b \in Int
  PROVE  Min({a, b}) = IF a <= b THEN a ELSE b
<1> DEFINE m == IF a <= b THEN a ELSE b
<1>1. m \in {a, b} /\ \A y \in {a, b} : m <= y
  OBVIOUS
<1>2. \A x \in {a, b} : (\A y \in {a, b} : x <= y) => x = m
  OBVIOUS
<1> QED BY <1>1, <1>2 DEF Min

LEMMA HoldsJoin ==
  ASSUME NEW buffer, NEW at \in Nat, NEW s \in Octets, NEW t \in Octets,
         Holds(buffer, at, s), Holds(buffer, at + Len(s), t)
  PROVE  Holds(buffer, at, s \o t)
<1> HIDE DEF Octet
<1>1. s \in Seq(Octet) /\ t \in Seq(Octet)
  BY DEF Octets
<1> DEFINE u == s \o t
           i == Len(s)
           j == Len(t)
<1>2. /\ i \in Nat /\ j \in Nat /\ Len(u) = i + j
      /\ \A k \in 1 .. i : u[k] = s[k]
      /\ \A k \in i + 1 .. i + j : u[k] = t[k - i]
  BY <1>1
<1>3. /\ \A k \in 1 .. i : at + k \in DOMAIN buffer /\ buffer[at + k] = s[k]
      /\ \A k \in 1 .. j : (at + i) + k \in DOMAIN buffer /\ buffer[(at + i) + k] = t[k]
  BY Zenon DEF Holds
<1> HIDE DEF u, i, j
<1>4. ASSUME NEW k \in 1 .. Len(u)
      PROVE  at + k \in DOMAIN buffer /\ buffer[at + k] = u[k]
  <2>1. CASE k \in 1 .. i
    BY <1>2, <1>3, <2>1
  <2>2. CASE k \notin 1 .. i
    <3>1. k \in i + 1 .. i + j /\ k - i \in 1 .. j /\ (at + i) + (k - i) = at + k
      BY <1>2, <2>2
    <3>2. (at + i) + (k - i) \in DOMAIN buffer /\ buffer[(at + i) + (k - i)] = t[k - i]
      BY <1>3, <3>1, Zenon
    <3> QED BY <1>2, <3>1, <3>2
  <2> QED BY <2>1, <2>2
<1> QED BY <1>4 DEF Holds, u

LEMMA PieceWritten ==
  ASSUME NEW name \in Names, NEW from \in Nat, NEW n \in Nat
  PROVE  Piece(name, from, n) \in Octets /\ Len(Piece(name, from, n)) = n
<1> DEFINE w == Piece(name, from, n)
<1>1. w = [b \in 1 .. n |-> <<name, from + b, 1>>]
  BY DEF Piece
<1>2. \A b \in 1 .. n : <<name, from + b, 1>> \in Octet
  <2>1. 1 \in Nat /\ \A b \in 1 .. n : from + b \in Nat
    OBVIOUS
  <2> QED BY <2>1, Zenon DEF Octet
<1> HIDE DEF w, Octet
<1>3. w \in [1 .. n -> Octet]
  BY <1>1, <1>2
<1>4. w \in Seq(Octet) /\ Len(w) = n
  BY <1>3
<1> QED BY <1>4 DEF w, Octets

LEMMA PieceHeld ==
  ASSUME NEW buffer, NEW at \in Nat, NEW name \in Names, NEW length \in Nat,
         Holds(buffer, at, Elements(name, length, 1)),
         NEW from \in Nat, NEW n \in Nat, from + n <= length
  PROVE  Holds(buffer, at + from, Piece(name, from, n))
<1> DEFINE e == Elements(name, length, 1)
           w == Piece(name, from, n)
<1>1. Len(e) = length
  <2>1. 1 \in Sizes /\ length * 1 = length
    BY DEF Sizes
  <2> QED BY <2>1, WrittenMany
<1>2. Len(w) = n
  BY PieceWritten
<1>3. \A k \in 1 .. length : e[k] = <<name, k, 1>>
  <2> TAKE k \in 1 .. length
  <2>1. length * 1 = length /\ (k - 1) \div 1 = k - 1 /\ (k - 1) % 1 = 0
    OBVIOUS
  <2>2. 1 + (k - 1) = k /\ 1 + 0 = 1
    OBVIOUS
  <2> QED BY <2>1, <2>2 DEF Elements
<1>4. \A k \in 1 .. n : w[k] = <<name, from + k, 1>>
  BY DEF Piece
<1>5. \A k \in 1 .. length : at + k \in DOMAIN buffer /\ buffer[at + k] = e[k]
  BY <1>1, Zenon DEF Holds
<1> HIDE DEF e, w
<1>6. ASSUME NEW k \in 1 .. n
      PROVE  (at + from) + k \in DOMAIN buffer /\ buffer[(at + from) + k] = w[k]
  <2>1. from + k \in 1 .. length /\ (at + from) + k = at + (from + k)
    OBVIOUS
  <2>2. /\ at + (from + k) \in DOMAIN buffer
        /\ buffer[at + (from + k)] = <<name, from + k, 1>>
    BY <1>3, <1>5, <2>1
  <2>3. w[k] = <<name, from + k, 1>>
    BY <1>4
  <2> QED BY <2>1, <2>2, <2>3, Zenon
<1> QED BY <1>2, <1>6 DEF Holds, w

\* The length word and the bytes of an array stand in the buffer.
ArrayHeld(buffer, at, name, length) ==
  Holds(buffer, at, Count(length)) /\ Holds(buffer, at + 4, Elements(name, length, 1))

\* An array of which "had" bytes were sent is sent up to its byte "to".
Cut(name, length, had, size, out, to, w) ==
  /\ had + Len(w) = 4 + to
  /\ had = 0 => 4 <= Left(size, out)
  /\ Len(out) <= size => Len(out) + Len(w) <= size /\ (to # length => Len(out) + Len(w) = size)
  /\ \A buffer : \A at \in Nat :
       ArrayHeld(buffer, at, name, length) => Holds(buffer, at + had, w)

Sends(d, name, length, size, cnt, idx, parts, had, out) ==
  \E to \in 0 .. length : \E w \in Octets :
    /\ Cut(name, length, had, size, out, to, w)
    /\ Stands(d, cnt + Len(w), IF to = length THEN idx + 1 ELSE idx,
              [parts EXCEPT ![name] = 4 + to], size, out \o w,
              IF to = length THEN No ELSE Yes)

LEMMA OctetsJoin ==
  ASSUME NEW s \in Octets, NEW t \in Octets
  PROVE  s \o t \in Octets /\ Len(s \o t) = Len(s) + Len(t)
<1>1. s \in Seq(Octet) /\ t \in Seq(Octet)
  BY DEF Octets
<1> HIDE DEF Octet
<1>2. s \o t \in Seq(Octet) /\ Len(s \o t) = Len(s) + Len(t)
  BY <1>1
<1> QED BY <1>2 DEF Octets

LEMMA OctetsAssociate ==
  ASSUME NEW s \in Octets, NEW t \in Octets, NEW u \in Octets
  PROVE  (s \o t) \o u = s \o (t \o u)
<1>1. s \in Seq(Octet) /\ t \in Seq(Octet) /\ u \in Seq(Octet)
  BY DEF Octets
<1> HIDE DEF Octet
<1> QED BY <1>1, ConcatAssociative, SMTT(20)

LEMMA CutArrayBegun ==
  ASSUME NEW name \in Names, NEW length \in Nat, NEW size \in Nat,
         NEW cnt \in Nat, NEW idx, NEW parts, name \in DOMAIN parts,
         NEW had, had = parts[name], had \in 4 .. 4 + length,
         NEW out \in Octets, NEW c, Stands(c, cnt, idx, parts, size, out, No),
         NEW d, d = CopyArrayToFragBufLocal(c, name, length)
  PROVE  Sends(d, name, length, size, cnt, idx, parts, had, out)
<1> DEFINE from == had - 4
           left == Left(size, out)
           n == IF length - from <= left THEN length - from ELSE left
           to == from + n
           w == Piece(name, from, n)
<1>1. left \in Nat /\ Room(c) = left /\ Len(out) \in Nat
  BY LeftStands
<1>2. from \in 0 .. length /\ from \in Nat /\ had \in Nat
  OBVIOUS
<1> HIDE DEF left, from
<1>3. n \in Nat /\ to \in 0 .. length /\ from + n <= length
  BY <1>1, <1>2
<1>4. n = Min({length - from, left})
  <2>1. length - from \in Int /\ left \in Int
    BY <1>1, <1>2
  <2> QED BY <2>1, MinOf
<1> DEFINE copied == [Emit(c, w) EXCEPT !.msg.parts[name] = @ + n]
<1>5. c.msg.parts = parts
  BY StandsAt
<1>6. d = IF from + n >= length THEN [copied EXCEPT !.msg.idx = @ + 1] ELSE RanOut(copied)
  <2>1. c.msg.parts[name] >= 4
    BY <1>5
  <2>2. c.msg.parts[name] - 4 = from
    BY <1>5 DEF from
  <2> DEFINE begun == c.msg.parts[name] >= 4
             sized == IF begun THEN c
                      ELSE [Emit(c, Count(length)) EXCEPT !.msg.parts[name] = @ + 4]
             begin == sized.msg.parts[name] - 4
             m == Min({length - begin, Room(sized)})
             more == [Emit(sized, Piece(name, begin, m)) EXCEPT !.msg.parts[name] = @ + m]
  <2>3. d = IF ~begun /\ Room(c) < 4 THEN RanOut(c)
            ELSE IF begin + m >= length THEN [more EXCEPT !.msg.idx = @ + 1] ELSE RanOut(more)
    BY Zenon DEF CopyArrayToFragBufLocal
  <2>4. sized = c
    BY <2>1
  <2> HIDE DEF sized
  <2>5. begin = from
    BY <2>2, <2>4
  <2> HIDE DEF begin, n
  <2>6. m = n
    BY <1>1, <1>4, <2>4, <2>5
  <2> HIDE DEF m
  <2>7. more = copied
    BY <2>4, <2>5, <2>6
  <2> HIDE DEF more, copied, w, begun
  <2>8. d = IF begin + m >= length THEN [more EXCEPT !.msg.idx = @ + 1] ELSE RanOut(more)
    BY <2>1, <2>3 DEF begun
  <2> QED BY <2>5, <2>6, <2>7, <2>8
<1>7. w \in Octets /\ Len(w) = n
  BY <1>2, <1>3, PieceWritten
<1>8. 4 + to = had + n /\ had + Len(w) = 4 + to /\ (from + n >= length <=> to = length)
  <2> HIDE DEF w, n
  <2> QED BY <1>2, <1>3, <1>7 DEF from
<1>9. Stands(copied, cnt + Len(w), idx, [parts EXCEPT ![name] = 4 + to], size, out \o w, No)
  <2>1. Stands(Emit(c, w), cnt + Len(w), idx, parts, size, out \o w, No)
    BY EmitStands
  <2>2. Stands(copied, cnt + Len(w), idx, [parts EXCEPT ![name] = @ + n], size, out \o w, No)
    BY <2>1, PartStands
  <2>3. [parts EXCEPT ![name] = @ + n] = [parts EXCEPT ![name] = 4 + to]
    BY <1>8
  <2> HIDE DEF copied, w, n, to
  <2> QED BY <2>2, <2>3
<1> HIDE DEF copied
<1>10. Stands(d, cnt + Len(w), IF to = length THEN idx + 1 ELSE idx,
              [parts EXCEPT ![name] = 4 + to], size, out \o w, IF to = length THEN No ELSE Yes)
  <2> HIDE DEF w, n, to
  <2>1. CASE to = length
    <3>1. d = [copied EXCEPT !.msg.idx = @ + 1]
      BY <1>6, <1>8, <2>1
    <3>2. Stands([copied EXCEPT !.msg.idx = @ + 1], cnt + Len(w), idx + 1,
                 [parts EXCEPT ![name] = 4 + to], size, out \o w, No)
      BY <1>9, NextStands
    <3> QED BY <2>1, <3>1, <3>2
  <2>2. CASE to # length
    <3>1. d = RanOut(copied)
      BY <1>6, <1>8, <2>2
    <3>2. Stands(RanOut(copied), cnt + Len(w), idx,
                 [parts EXCEPT ![name] = 4 + to], size, out \o w, Yes)
      BY <1>9, ShortStands
    <3> QED BY <2>2, <3>1, <3>2
  <2> QED BY <2>1, <2>2
<1>11. Cut(name, length, had, size, out, to, w)
  <2>1. had = 0 => 4 <= Left(size, out)
    BY <1>2
  <2>2. Len(out) <= size => Len(out) + Len(w) <= size /\ (to # length => Len(out) + Len(w) = size)
    BY <1>1, <1>2, <1>3, <1>7 DEF left, Left
  <2>3. ASSUME NEW buffer, NEW at \in Nat, ArrayHeld(buffer, at, name, length)
        PROVE  Holds(buffer, at + had, w)
    <3>1. Holds(buffer, at + 4, Elements(name, length, 1)) /\ at + 4 \in Nat
      BY <2>3 DEF ArrayHeld
    <3>2. Holds(buffer, (at + 4) + from, w)
      BY <1>2, <1>3, <3>1, PieceHeld
    <3>3. (at + 4) + from = at + had
      BY <1>2 DEF from
    <3> HIDE DEF w
    <3> QED BY <3>2, <3>3
  <2> HIDE DEF w, n, to
  <2> QED BY <1>8, <2>1, <2>2, <2>3 DEF Cut
<1> HIDE DEF w, n, to
<1> QED BY <1>3, <1>7, <1>10, <1>11, Zenon DEF Sends

\* The length word goes first, and the rest goes as if it had been sent before.
LEMMA CutArrayFresh ==
  ASSUME NEW name \in Names, NEW length \in Nat, NEW size \in Nat,
         NEW cnt \in Nat, NEW idx, NEW parts, parts \in [Arrays -> Nat], name \in Arrays,
         parts[name] = 0, NEW out \in Octets,
         NEW c, Stands(c, cnt, idx, parts, size, out, No), 4 <= Left(size, out),
         NEW d, d = CopyArrayToFragBufLocal(c, name, length)
  PROVE  Sends(d, name, length, size, cnt, idx, parts, 0, out)
<1> DEFINE h == Count(length)
           sized == [Emit(c, h) EXCEPT !.msg.parts[name] = @ + 4]
           p == [parts EXCEPT ![name] = 4]
           o == out \o h
<1>1. h \in Octets /\ Len(h) = 4
  BY WrittenCount
<1>2. Room(c) = Left(size, out) /\ Left(size, out) \in Nat /\ Len(out) \in Nat
  BY LeftStands
<1>3. o \in Octets /\ Len(o) = Len(out) + 4
  <2>1. out \o h \in Octets /\ Len(out \o h) = Len(out) + Len(h)
    BY <1>1, Joins, Zenon DEF Octets
  <2> QED BY <1>1, <2>1
<1> HIDE DEF h
<1>4. Stands(sized, cnt + 4, idx, p, size, o, No)
  <2>1. Stands(Emit(c, h), cnt + Len(h), idx, parts, size, out \o h, No)
    BY EmitStands
  <2>2. Stands(sized, cnt + Len(h), idx, [parts EXCEPT ![name] = @ + 4], size, out \o h, No)
    BY <2>1, PartStands
  <2>3. [parts EXCEPT ![name] = @ + 4] = p
    OBVIOUS
  <2> HIDE DEF sized, p
  <2> QED BY <1>1, <2>2, <2>3
<1>5. d = CopyArrayToFragBufLocal(sized, name, length)
  <2>1. c.msg.parts[name] = 0 /\ sized.msg.parts[name] = 4
    <3>1. c.msg.parts = parts
      BY StandsAt
    <3> HIDE DEF sized
    <3>2. sized.msg.parts = p
      BY <1>4, StandsAt
    <3> HIDE DEF p
    <3>3. p[name] = 4
      BY DEF p
    <3> QED BY <3>1, <3>2, <3>3
  <2> DEFINE Rest(s) ==
               LET begin == s.msg.parts[name] - 4
                   m == Min({length - begin, Room(s)})
                   more == [Emit(s, Piece(name, begin, m)) EXCEPT !.msg.parts[name] = @ + m]
               IN  IF begin + m >= length THEN [more EXCEPT !.msg.idx = @ + 1] ELSE RanOut(more)
             First(s) == IF s.msg.parts[name] >= 4 THEN s
                         ELSE [Emit(s, Count(length)) EXCEPT !.msg.parts[name] = @ + 4]
  <2>2. \A s : CopyArrayToFragBufLocal(s, name, length)
                 = IF ~(s.msg.parts[name] >= 4) /\ Room(s) < 4 THEN RanOut(s)
                   ELSE Rest(First(s))
    BY ZenonT(40) DEF CopyArrayToFragBufLocal
  <2>3. First(c) = sized
    BY <2>1 DEF h
  <2>4. First(sized) = sized
    <3> HIDE DEF sized
    <3> QED BY <2>1
  <2> HIDE DEF Rest, First, sized
  <2>5. CopyArrayToFragBufLocal(c, name, length) = Rest(First(c))
    BY <1>2, <2>1, <2>2
  <2>6. CopyArrayToFragBufLocal(sized, name, length) = Rest(First(sized))
    BY <2>1, <2>2
  <2> QED BY <2>3, <2>4, <2>5, <2>6
<1>6. p \in [Arrays -> Nat] /\ p[name] = 4 /\ name \in DOMAIN p /\ 4 \in 4 .. 4 + length
  OBVIOUS
<1>7. cnt + 4 \in Nat
  OBVIOUS
<1> HIDE DEF sized, o, p
<1>s. Sends(d, name, length, size, cnt + 4, idx, p, 4, o)
  BY <1>3, <1>4, <1>5, <1>6, <1>7, CutArrayBegun
<1>8. PICK to \in 0 .. length, w \in Octets :
        /\ Cut(name, length, 4, size, o, to, w)
        /\ Stands(d, cnt + 4 + Len(w), IF to = length THEN idx + 1 ELSE idx,
                  [p EXCEPT ![name] = 4 + to], size, o \o w, IF to = length THEN No ELSE Yes)
  BY <1>s, Zenon DEF Sends
<1> DEFINE v == h \o w
<1>9. /\ v \in Octets /\ Len(v) = 4 + Len(w) /\ Len(w) \in Nat
      /\ out \o v = o \o w
  <2>1. h \o w \in Octets /\ Len(h \o w) = Len(h) + Len(w)
    BY <1>1, Joins, Zenon DEF Octets
  <2>2. (out \o h) \o w = out \o (h \o w)
    BY <1>1, OctetsAssociate
  <2>4. Len(w) \in Nat
    BY LengthNat
  <2> QED BY <1>1, <2>1, <2>2, <2>4, Zenon DEF o
<1>10. cnt + 4 + Len(w) = cnt + Len(v)
  BY <1>9
<1>11. [p EXCEPT ![name] = 4 + to] = [parts EXCEPT ![name] = 4 + to]
  BY DEF p
<1>12. Stands(d, cnt + Len(v), IF to = length THEN idx + 1 ELSE idx,
              [parts EXCEPT ![name] = 4 + to], size, out \o v, IF to = length THEN No ELSE Yes)
  BY <1>8, <1>9, <1>10, <1>11, Zenon
<1>13. Cut(name, length, 0, size, out, to, v)
  <2>1. 4 + Len(w) = 4 + to /\ Len(o) = Len(out) + 4
        /\ (Len(o) <= size => Len(o) + Len(w) <= size
                              /\ (to # length => Len(o) + Len(w) = size))
    BY <1>3, <1>8, Zenon DEF Cut
  <2>2. 0 + Len(v) = 4 + to
    BY <1>9, <2>1
  <2>3. Len(out) <= size =>
          Len(out) + Len(v) <= size /\ (to # length => Len(out) + Len(v) = size)
    <3>1. Len(out) <= size => Len(out) + 4 <= size
      BY <1>2 DEF Left
    <3> QED BY <1>2, <1>9, <2>1, <3>1
  <2>4. ASSUME NEW buffer, NEW at \in Nat, ArrayHeld(buffer, at, name, length)
        PROVE  Holds(buffer, at + 0, v)
    <3>1. Holds(buffer, at, h)
      BY <2>4, Zenon DEF ArrayHeld, h
    <3>2. Holds(buffer, at + 4, w)
      BY <1>8, <2>4, Zenon DEF Cut
    <3>3. Holds(buffer, at, h \o w)
      BY <1>1, <3>1, <3>2, HoldsJoin
    <3> QED BY <3>3
  <2> HIDE DEF v
  <2> QED BY <2>2, <2>3, <2>4 DEF Cut
<1> HIDE DEF v
<1> QED BY <1>9, <1>12, <1>13, Zenon DEF Sends

\* An array of which nothing or the length word and some bytes were sent.
LEMMA CutArray ==
  ASSUME NEW name \in Names, NEW length \in Nat, NEW size \in Nat,
         NEW cnt \in Nat, NEW idx, NEW parts, parts \in [Arrays -> Nat], name \in Arrays,
         parts[name] \in {0} \cup 4 .. 4 + length, NEW out \in Octets,
         NEW c, Stands(c, cnt, idx, parts, size, out, No),
         NEW d, d = CopyArrayToFragBufLocal(c, name, length)
  PROVE  \/ /\ parts[name] = 0 /\ Left(size, out) < 4
            /\ Stands(d, cnt, idx, parts, size, out, Yes)
         \/ Sends(d, name, length, size, cnt, idx, parts, parts[name], out)
<1>1. CASE parts[name] # 0
  <2>1. name \in DOMAIN parts /\ parts[name] \in 4 .. 4 + length
    BY <1>1
  <2> QED BY <2>1, CutArrayBegun
<1>2. CASE parts[name] = 0 /\ 4 <= Left(size, out)
  <2>1. Sends(d, name, length, size, cnt, idx, parts, 0, out)
    BY <1>2, CutArrayFresh
  <2> QED BY <1>2, <2>1
<1>3. CASE parts[name] = 0 /\ ~(4 <= Left(size, out))
  <2>1. Room(c) = Left(size, out) /\ Left(size, out) \in Nat
    BY LeftStands
  <2>2. c.msg.parts = parts
    BY StandsAt
  <2>3. ~(c.msg.parts[name] >= 4) /\ Room(c) < 4
    BY <1>3, <2>1, <2>2
  <2>4. d = RanOut(c)
    BY <2>3, Zenon DEF CopyArrayToFragBufLocal
  <2>5. Stands(RanOut(c), cnt, idx, parts, size, out, Yes)
    BY ShortStands
  <2> QED BY <1>3, <2>1, <2>4, <2>5
<1> QED BY <1>1, <1>2, <1>3

-----------------------------------------------------------------------------
(* An image as ROS 2 lays it out. *)

\* What has been written, all of it counted.
Has(c, out) == Writer(c) /\ c.out = out /\ c.cnt = Len(out) /\ out \in Octets

LEMMA HasMore ==
  ASSUME NEW c, NEW out, Has(c, out), NEW w \in Octets
  PROVE  Has(Put(c, w), out \o w) /\ Len(out \o w) = Len(out) + Len(w)
<1>1. Writer(c) /\ c.out = out /\ c.cnt = Len(out) /\ out \in Octets
  BY DEF Has
<1>2. Writer(Put(c, w)) /\ Put(c, w).cnt = c.cnt + Len(w) /\ Put(c, w).out = c.out \o w
  BY <1>1, PutPut
<1>3. out \o w \in Octets /\ Len(out \o w) = Len(out) + Len(w)
  BY <1>1, OctetsJoin
<1> QED BY <1>1, <1>2, <1>3, Zenon DEF Has

LEMMA PrimitiveHas ==
  ASSUME NEW f, NEW v, Fits(f, v), f.kind = "primitive", NEW c, NEW out, Has(c, out),
         NEW w, w = Zeros(MemberGap(Len(out), f.size)) \o Element(f.name, 1, f.size)
  PROVE  /\ w \in Octets /\ Has(PutFlat(c, f, v), out \o w)
         /\ Len(out \o w) = Len(out) + MemberGap(Len(out), f.size) + f.size
<1> DEFINE g == MemberGap(Len(out), f.size)
           e == Element(f.name, 1, f.size)
           z == Zeros(g)
<1>1. Writer(c) /\ c.cnt = Len(out) /\ out \in Octets /\ Len(out) \in Nat
  BY LengthNat DEF Has
<1>2. f.size \in Sizes /\ f.name \in Names /\ f.size \in Nat /\ 1 \in Nat
  BY DEF Fits, Sizes
<1>3. g \in Nat
  BY <1>1, <1>2, GapFacts
<1>4. e \in Octets /\ Len(e) = f.size
  BY <1>2, Written
<1>5. z \in Octets /\ Len(z) = g
  BY <1>3, WrittenZeros
<1>6. PutFlat(c, f, v) = Put(Put(c, z), e)
  BY <1>1, Zenon DEF PutFlat, PutPrimitive
<1>7. w = z \o e
  OBVIOUS
<1> HIDE DEF z, e, g
<1>8. w \in Octets /\ Len(w) = g + f.size
  BY <1>4, <1>5, <1>7, OctetsJoin
<1>9. Put(Put(c, z), e) = Put(c, w)
  <2>1. Put(Put(c, z), e) = Put(c, z \o e)
    BY <1>1, <1>4, <1>5, <1>7, PutPut
  <2> QED BY <1>7, <2>1, Zenon
<1>10. Has(Put(c, w), out \o w) /\ Len(out \o w) = Len(out) + Len(w)
  BY <1>8, HasMore
<1>11. Len(out) + (g + f.size) = Len(out) + g + f.size
  BY <1>1, <1>2, <1>3
<1> QED BY <1>6, <1>8, <1>9, <1>10, <1>11 DEF g

LEMMA AlignedHas ==
  ASSUME NEW c, NEW out, Has(c, out), Gap(Len(out), 4) = 0
  PROVE  Align(c, 4) = c
<1>1. Writer(c) /\ c.cnt = Len(out)
  BY DEF Has
<1>2. Put(c, <<>>) = c
  BY <1>1, PutNothing
<1> QED BY <1>1, <1>2, ZerosNothing DEF Align

\* A length word and that many bytes, nothing being needed to align them.
LEMMA CountedHas ==
  ASSUME NEW name \in Names, NEW n \in Nat, NEW c, NEW out, Has(c, out), Gap(Len(out), 4) = 0,
         NEW w, w = Count(n) \o Elements(name, n, 1)
  PROVE  /\ w \in Octets /\ Has(Put(Put(Align(c, 4), Count(n)), Elements(name, n, 1)), out \o w)
         /\ Len(out \o w) = Len(out) + 4 + n
<1> DEFINE e == Elements(name, n, 1)
           h == Count(n)
<1>1. Writer(c) /\ out \in Octets /\ Len(out) \in Nat
  BY LengthNat DEF Has
<1>2. Align(c, 4) = c
  BY AlignedHas
<1>3. h \in Octets /\ Len(h) = 4
  BY WrittenCount
<1>4. e \in Octets /\ Len(e) = n
  <2>1. 1 \in Sizes /\ n * 1 = n
    BY DEF Sizes
  <2> QED BY <2>1, WrittenMany
<1>w. w = h \o e
  OBVIOUS
<1> HIDE DEF e, h
<1>5. w \in Octets /\ Len(w) = 4 + n
  BY <1>3, <1>4, <1>w, OctetsJoin
<1>6. Put(Put(c, h), e) = Put(c, w)
  <2>1. Put(Put(c, h), e) = Put(c, h \o e)
    BY <1>1, <1>3, <1>4, <1>w, PutPut
  <2> QED BY <1>w, <2>1, Zenon
<1>7. Has(Put(c, w), out \o w) /\ Len(out \o w) = Len(out) + Len(w)
  BY <1>5, HasMore
<1>8. Len(out \o w) = Len(out) + 4 + n
  <2>1. Len(out) + (4 + n) = Len(out) + 4 + n
    BY <1>1
  <2> QED BY <1>5, <1>7, <2>1
<1> QED BY <1>2, <1>5, <1>6, <1>7, <1>8 DEF e, h

HeaderBytes(n) ==
  ((Element("sec", 1, 4) \o Element("nanosec", 1, 4)) \o Count(n)) \o Elements("frame_id", n, 1)

LEMMA HeaderHas ==
  ASSUME NEW n \in Nat, NEW c, Has(c, <<>>)
  PROVE  /\ HeaderBytes(n) \in Octets /\ Len(HeaderBytes(n)) = 12 + n
         /\ Has(PutHeader(c, n), HeaderBytes(n))
         /\ \A buffer : Holds(buffer, 0, HeaderBytes(n)) =>
              /\ Holds(buffer, 0, Element("sec", 1, 4))
              /\ Holds(buffer, 4, Element("nanosec", 1, 4))
              /\ ArrayHeld(buffer, 8, "frame_id", n)
<1> DEFINE x == Element("sec", 1, 4)
           y == Element("nanosec", 1, 4)
           h == Count(n)
           e == Elements("frame_id", n, 1)
           w == HeaderBytes(n)
<1>0. /\ 0 \in Nat /\ 1 \in Nat /\ 4 \in Nat /\ 1 \in Sizes
      /\ "sec" \in Names /\ "nanosec" \in Names /\ "frame_id" \in Names
  BY DEF Names, Sizes
<1>1. x \in Octets /\ Len(x) = 4 /\ y \in Octets /\ Len(y) = 4
  BY <1>0, Written, Zenon
<1>2. h \in Octets /\ Len(h) = 4
  BY WrittenCount
<1>3. e \in Octets /\ Len(e) = n
  <2>1. n * 1 = n
    OBVIOUS
  <2> QED BY <1>0, <2>1, WrittenMany, Zenon
<1>w. w = ((x \o y) \o h) \o e
  BY DEF HeaderBytes
<1>p. PutHeader(c, n) = Put(Align(c, 4), w)
  BY DEF PutHeader, HeaderBytes
<1> HIDE DEF x, y, h, e, w
<1> DEFINE a == x \o y
           b == a \o h
<1>4. a \in Octets /\ Len(a) = 8
  <2>1. x \o y \in Octets /\ Len(x \o y) = Len(x) + Len(y)
    BY <1>1, OctetsJoin
  <2> QED BY <1>1, <2>1
<1> HIDE DEF a
<1>5. b \in Octets /\ Len(b) = 12
  <2>1. a \o h \in Octets /\ Len(a \o h) = Len(a) + Len(h)
    BY <1>2, <1>4, OctetsJoin
  <2> QED BY <1>2, <1>4, <2>1
<1> HIDE DEF b
<1>6. w \in Octets /\ Len(w) = 12 + n /\ w = b \o e
  <2>1. w = b \o e
    BY <1>w DEF a, b
  <2>2. b \o e \in Octets /\ Len(b \o e) = Len(b) + Len(e)
    BY <1>3, <1>5, OctetsJoin
  <2> QED BY <1>3, <1>5, <2>1, <2>2
<1>7. Has(Put(c, w), w)
  <2>1. Has(Put(c, w), <<>> \o w)
    BY <1>6, HasMore
  <2>2. <<>> \o w = w
    BY <1>6, JoinsEmpty DEF Octets
  <2> QED BY <2>1, <2>2
<1>8. Align(c, 4) = c
  <2>1. Len(<<>>) = 0 /\ Gap(0, 4) = 0
    BY DEF Gap
  <2> QED BY <2>1, AlignedHas
<1>9. ASSUME NEW buffer, Holds(buffer, 0, w)
      PROVE  Holds(buffer, 0, x) /\ Holds(buffer, 4, y) /\ ArrayHeld(buffer, 8, "frame_id", n)
  <2>1. Holds(buffer, 0, b) /\ Holds(buffer, 0 + 12, e)
    BY <1>0, <1>3, <1>5, <1>6, <1>9, HoldsBoth
  <2>2. Holds(buffer, 0, a) /\ Holds(buffer, 0 + 8, h)
    BY <1>0, <1>2, <1>4, <2>1, HoldsBoth DEF b
  <2>3. Holds(buffer, 0, x) /\ Holds(buffer, 0 + 4, y)
    BY <1>0, <1>1, <2>2, HoldsBoth DEF a
  <2>4. 0 + 12 = 8 + 4 /\ 0 + 8 = 8 /\ 0 + 4 = 4
    OBVIOUS
  <2> QED BY <2>1, <2>2, <2>3, <2>4, Zenon DEF ArrayHeld, h, e
<1> QED BY <1>6, <1>7, <1>8, <1>9, <1>p DEF w, x, y

\* Where the step of copyToFragBuf behind the i-th begins in the message.
Begin(v, i) ==
  LET F == v["frame_id"]
      E == v["encoding"]
  IN  CASE i = 0 -> 0
        [] i = 1 -> 4
        [] i = 2 -> 8
        [] i = 3 -> 12 + F
        [] i = 4 -> 16 + Padded(F)
        [] i = 5 -> 20 + Padded(F)
        [] i = 6 -> 24 + Padded(F) + E
        [] i = 7 -> 25 + Padded(F) + E
        [] i = 8 -> 28 + Padded(F) + Padded(E + 1)
        [] i = 9 -> 32 + Padded(F) + Padded(E + 1) + v["data"]

LEMMA BeginIs ==
  ASSUME NEW v
  PROVE  /\ Begin(v, 0) = 0 /\ Begin(v, 1) = 4 /\ Begin(v, 2) = 8
         /\ Begin(v, 3) = 12 + v["frame_id"]
         /\ Begin(v, 4) = 16 + Padded(v["frame_id"])
         /\ Begin(v, 5) = 20 + Padded(v["frame_id"])
         /\ Begin(v, 6) = 24 + Padded(v["frame_id"]) + v["encoding"]
         /\ Begin(v, 7) = 25 + Padded(v["frame_id"]) + v["encoding"]
         /\ Begin(v, 8) = 28 + Padded(v["frame_id"]) + Padded(v["encoding"] + 1)
         /\ Begin(v, 9) = 32 + Padded(v["frame_id"]) + Padded(v["encoding"] + 1) + v["data"]
BY DEF Begin

\* Adding words changes no gap.
LEMMA GapBehindWords ==
  ASSUME NEW n \in Nat, NEW k \in Nat
  PROVE  Gap(4 * k + n, 4) = Gap(n, 4)
<1>1. (4 * k + n) % 4 = n % 4
  BY SMTT(30)
<1> QED BY <1>1 DEF Gap

LEMMA PaddedWords ==
  ASSUME NEW n \in Nat
  PROVE  \E k \in Nat : Padded(n) = 4 * k
<1> DEFINE k == (n + Gap(n, 4)) \div 4
<1>1. Gap(n, 4) \in 0 .. 3 /\ (n + Gap(n, 4)) % 4 = 0
  BY SMTT(30) DEF Gap
<1>3. \A m \in Nat : m % 4 = 0 => m \div 4 \in Nat /\ m = 4 * (m \div 4)
  BY SMTT(30)
<1>2. k \in Nat /\ n + Gap(n, 4) = 4 * k
  <2>0. \A g \in 0 .. 3 : n + g \in Nat
    OBVIOUS
  <2>1. n + Gap(n, 4) \in Nat
    BY <1>1, <2>0, Zenon
  <2> QED BY <1>1, <1>3, <2>1
<1> QED BY <1>2 DEF Padded

\* Each step begins where the one before it ends.
LEMMA BeginNext ==
  ASSUME NEW v, v["frame_id"] \in Nat, v["encoding"] \in Nat, v["data"] \in Nat
  PROVE  /\ \A i \in 0 .. 9 : Begin(v, i) \in Nat
         /\ \A i \in {0, 1, 3, 4, 7} :
              Begin(v, i + 1) = Begin(v, i) + Gap(Begin(v, i), 4) + 4
         /\ Begin(v, 7) = Begin(v, 6) + 1 /\ Gap(Begin(v, 6), 1) = 0
         /\ Begin(v, 3) = Begin(v, 2) + 4 + v["frame_id"]
         /\ Begin(v, 6) = Begin(v, 5) + 4 + v["encoding"]
         /\ Begin(v, 9) = Begin(v, 8) + 4 + v["data"]
         /\ Gap(Begin(v, 5), 4) = 0 /\ Gap(Begin(v, 8), 4) = 0
<1> DEFINE F == v["frame_id"]
           E == v["encoding"]
           D == v["data"]
<1>0. /\ Begin(v, 0) = 0 /\ Begin(v, 1) = 4 /\ Begin(v, 2) = 8 /\ Begin(v, 3) = 12 + F
      /\ Begin(v, 4) = 16 + Padded(F) /\ Begin(v, 5) = 20 + Padded(F)
      /\ Begin(v, 6) = 24 + Padded(F) + E /\ Begin(v, 7) = 25 + Padded(F) + E
      /\ Begin(v, 8) = 28 + Padded(F) + Padded(E + 1)
      /\ Begin(v, 9) = 32 + Padded(F) + Padded(E + 1) + D
  BY BeginIs
<1>n. F \in Nat /\ E \in Nat /\ E + 1 \in Nat /\ D \in Nat
  OBVIOUS
<1> HIDE DEF F, E, D
<1>1. PICK p \in Nat : Padded(F) = 4 * p
  BY <1>n, PaddedWords
<1>2. PICK q \in Nat : Padded(E + 1) = 4 * q
  BY <1>n, PaddedWords
<1>3. Padded(F) = F + Gap(F, 4) /\ Padded(E + 1) = E + 1 + Gap(E + 1, 4)
  BY DEF Padded
<1>4. Gap(F, 4) \in 0 .. 3 /\ Gap(E + 1, 4) \in 0 .. 3
  BY <1>n, GapBounds
<1>5. Gap(12 + F, 4) = Gap(F, 4)
  <2>1. Gap(4 * 3 + F, 4) = Gap(F, 4) /\ 4 * 3 = 12
    BY <1>n, GapBehindWords
  <2> QED BY <2>1
<1>6. Gap(25 + Padded(F) + E, 4) = Gap(E + 1, 4)
  <2>1. p + 6 \in Nat /\ 4 * (p + 6) + (E + 1) = 25 + Padded(F) + E
    BY <1>n, <1>1
  <2>2. Gap(4 * (p + 6) + (E + 1), 4) = Gap(E + 1, 4)
    BY <1>n, <2>1, GapBehindWords
  <2> QED BY <2>1, <2>2
<1>7. /\ Gap(0, 4) = 0 /\ Gap(4, 4) = 0 /\ Gap(16 + Padded(F), 4) = 0
      /\ Gap(20 + Padded(F), 4) = 0 /\ Gap(28 + Padded(F) + Padded(E + 1), 4) = 0
  <2>1. Gap(0, 4) = 0 /\ Gap(4, 4) = 0
    BY DEF Gap
  <2>2. \A k \in Nat : Gap(4 * k, 4) = 0
    <3> TAKE k \in Nat
    <3>1. Gap(4 * k + 0, 4) = Gap(0, 4)
      BY GapBehindWords
    <3>2. 4 * k + 0 = 4 * k
      OBVIOUS
    <3> QED BY <2>1, <3>1, <3>2
  <2>3. /\ p + 4 \in Nat /\ p + 5 \in Nat /\ p + q + 7 \in Nat
        /\ 16 + Padded(F) = 4 * (p + 4) /\ 20 + Padded(F) = 4 * (p + 5)
        /\ 28 + Padded(F) + Padded(E + 1) = 4 * (p + q + 7)
    BY <1>1, <1>2
  <2> QED BY <2>1, <2>2, <2>3
<1>8. Padded(F) \in Nat /\ Padded(E + 1) \in Nat
  BY <1>1, <1>2
<1>9. \A i \in 0 .. 9 : Begin(v, i) \in Nat
  <2>1. /\ Begin(v, 0) \in Nat /\ Begin(v, 1) \in Nat /\ Begin(v, 2) \in Nat
        /\ Begin(v, 3) \in Nat /\ Begin(v, 4) \in Nat /\ Begin(v, 5) \in Nat
        /\ Begin(v, 6) \in Nat /\ Begin(v, 7) \in Nat /\ Begin(v, 8) \in Nat
        /\ Begin(v, 9) \in Nat
    BY <1>0, <1>n, <1>8
  <2>2. \A i \in 0 .. 9 : i \in {0, 1, 2, 3, 4, 5, 6, 7, 8, 9}
    OBVIOUS
  <2> QED BY <2>1, <2>2
<1>10. \A i \in {0, 1, 3, 4, 7} : Begin(v, i + 1) = Begin(v, i) + Gap(Begin(v, i), 4) + 4
  <2>1. Begin(v, 1) = Begin(v, 0) + Gap(Begin(v, 0), 4) + 4
    BY <1>0, <1>7
  <2>2. Begin(v, 2) = Begin(v, 1) + Gap(Begin(v, 1), 4) + 4
    BY <1>0, <1>7
  <2>3. Begin(v, 4) = Begin(v, 3) + Gap(Begin(v, 3), 4) + 4
    BY <1>0, <1>n, <1>3, <1>4, <1>5
  <2>4. Begin(v, 5) = Begin(v, 4) + Gap(Begin(v, 4), 4) + 4
    BY <1>0, <1>7, <1>8
  <2>5. Begin(v, 8) = Begin(v, 7) + Gap(Begin(v, 7), 4) + 4
    BY <1>0, <1>n, <1>3, <1>4, <1>6, <1>8
  <2>6. 0 + 1 = 1 /\ 1 + 1 = 2 /\ 3 + 1 = 4 /\ 4 + 1 = 5 /\ 7 + 1 = 8
    OBVIOUS
  <2> QED BY <2>1, <2>2, <2>3, <2>4, <2>5, <2>6, Zenon
<1>11. Gap(Begin(v, 6), 1) = 0
  <2>1. Begin(v, 6) \in Nat
    BY <1>0, <1>n, <1>8
  <2>2. \A k \in Nat : k % 1 = 0
    OBVIOUS
  <2> QED BY <2>1, <2>2 DEF Gap
<1>12. /\ Begin(v, 7) = Begin(v, 6) + 1
       /\ Begin(v, 3) = Begin(v, 2) + 4 + F /\ Begin(v, 6) = Begin(v, 5) + 4 + E
       /\ Begin(v, 9) = Begin(v, 8) + 4 + D
       /\ Gap(Begin(v, 5), 4) = 0 /\ Gap(Begin(v, 8), 4) = 0
  BY <1>0, <1>n, <1>7, <1>8
<1> QED BY <1>9, <1>10, <1>11, <1>12 DEF F, E, D

ArrayMember(name) == MsgDef("uint8", TRUE, 0, name)

LEMMA StepMembers ==
  ASSUME NEW name
  PROVE  /\ Plain("int32", name).kind = "primitive" /\ Plain("int32", name).size = 4
         /\ Plain("uint32", name).kind = "primitive" /\ Plain("uint32", name).size = 4
         /\ Plain("uint8", name).kind = "primitive" /\ Plain("uint8", name).size = 1
         /\ Plain("int32", name).name = name /\ Plain("uint32", name).name = name
         /\ Plain("uint8", name).name = name
         /\ ArrayMember(name).kind = "array"
         /\ ArrayMember(name).name = name
BY DEF Plain, MsgDef, msgSizes, ArrayMember

LEMMA StepsListed ==
  /\ ImageSteps[1] = Plain("int32", "sec") /\ ImageSteps[2] = Plain("uint32", "nanosec")
  /\ ImageSteps[3] = ArrayMember("frame_id")
  /\ ImageSteps[4] = Plain("uint32", "height") /\ ImageSteps[5] = Plain("uint32", "width")
  /\ ImageSteps[6] = ArrayMember("encoding")
  /\ ImageSteps[7] = Plain("uint8", "is_bigendian") /\ ImageSteps[8] = Plain("uint32", "step")
  /\ ImageSteps[9] = ArrayMember("data")
<1>1. \A x1, x2, x3, x4, x5, x6, x7, x8, x9, s :
        s = <<x1, x2, x3, x4, x5, x6, x7, x8, x9>> =>
          /\ s[1] = x1 /\ s[2] = x2 /\ s[3] = x3 /\ s[4] = x4 /\ s[5] = x5
          /\ s[6] = x6 /\ s[7] = x7 /\ s[8] = x8 /\ s[9] = x9
  OBVIOUS
<1> QED BY <1>1, Zenon DEF ImageSteps, ArrayMember

LEMMA ImageStepsAre ==
  /\ \A i \in {1, 2, 4, 5, 7, 8} : ImageSteps[i].kind = "primitive"
  /\ \A i \in {1, 2, 4, 5, 8} : ImageSteps[i].size = 4
  /\ ImageSteps[7].size = 1
  /\ \A i \in {3, 6, 9} : ImageSteps[i].kind = "array"
  /\ ImageSteps[1].name = "sec" /\ ImageSteps[2].name = "nanosec"
  /\ ImageSteps[3].name = "frame_id" /\ ImageSteps[4].name = "height"
  /\ ImageSteps[5].name = "width" /\ ImageSteps[6].name = "encoding"
  /\ ImageSteps[7].name = "is_bigendian" /\ ImageSteps[8].name = "step"
  /\ ImageSteps[9].name = "data"
<1>1. /\ ImageSteps[1].name = "sec" /\ ImageSteps[2].name = "nanosec"
      /\ ImageSteps[3].name = "frame_id" /\ ImageSteps[4].name = "height"
      /\ ImageSteps[5].name = "width" /\ ImageSteps[6].name = "encoding"
      /\ ImageSteps[7].name = "is_bigendian" /\ ImageSteps[8].name = "step"
      /\ ImageSteps[9].name = "data"
  BY StepMembers, StepsListed
<1>2. \A i \in {3, 6, 9} : ImageSteps[i].kind = "array"
  BY StepMembers, StepsListed
<1>3. \A i \in {1, 2, 4, 5, 7, 8} : ImageSteps[i].kind = "primitive"
  BY StepMembers, StepsListed
<1>4. (\A i \in {1, 2, 4, 5, 8} : ImageSteps[i].size = 4) /\ ImageSteps[7].size = 1
  BY StepMembers, StepsListed
<1> QED BY <1>1, <1>2, <1>3, <1>4

Pixels(type) == MsgDef(type, TRUE, 0, "data")

LEMMA ListOfSeven ==
  ASSUME NEW x1, NEW x2, NEW x3, NEW x4, NEW x5, NEW x6, NEW x7,
         NEW s, s = <<x1, x2, x3, x4, x5, x6, x7>>
  PROVE  /\ DOMAIN s = 1 .. 7 /\ Len(s) = 7
         /\ s[1] = x1 /\ s[2] = x2 /\ s[3] = x3 /\ s[4] = x4 /\ s[5] = x5 /\ s[6] = x6
         /\ s[7] = x7
OBVIOUS

LEMMA ImageMembersListed ==
  ASSUME NEW type, NEW fs, fs = ImageMembers(type)
  PROVE  /\ DOMAIN fs = 1 .. 7
         /\ fs[1] = Plain("header", "frame_id") /\ fs[2] = Plain("uint32", "height")
         /\ fs[3] = Plain("uint32", "width") /\ fs[4] = Plain("string", "encoding")
         /\ fs[5] = Plain("uint8", "is_bigendian") /\ fs[6] = Plain("uint32", "step")
         /\ fs[7] = Pixels(type)
<1>1. fs = << Plain("header", "frame_id"), Plain("uint32", "height"), Plain("uint32", "width"),
              Plain("string", "encoding"), Plain("uint8", "is_bigendian"),
              Plain("uint32", "step"), Pixels(type) >>
  BY Zenon DEF ImageMembers, Pixels
<1> QED BY <1>1, ListOfSeven

LEMMA ImageMemberKinds ==
  /\ Plain("header", "frame_id").kind = "header" /\ Plain("header", "frame_id").name = "frame_id"
  /\ Plain("string", "encoding").kind = "string" /\ Plain("string", "encoding").name = "encoding"
  /\ \A type : type # "string" => Pixels(type).kind = "array"
  /\ \A type : Pixels(type).name = "data" /\ Pixels(type).bound = 0
  /\ Pixels("uint8").size = 1
<1>1. \A type : Pixels(type).name = "data" /\ Pixels(type).bound = 0
  BY DEF Pixels, MsgDef
<1>2. \A type : type # "string" => Pixels(type).kind = "array"
  BY DEF Pixels, MsgDef
<1>3. Pixels("uint8").size = 1
  BY DEF Pixels, MsgDef, msgSizes
<1> QED BY <1>1, <1>2, <1>3, PlainKind

\* An image as ROS 2 lays it out has members its object can have.
LEMMA ImageSuits ==
  ASSUME Image \in Classes, NEW v \in Values(Image), NEW fs, fs = ImageMembers("uint8"), NEW N
  PROVE  /\ Members(fs, v, 7, N) /\ \A i \in 1 .. 7 : Fits(fs[i], v)
         /\ v["frame_id"] \in Nat /\ v["encoding"] \in Nat /\ v["data"] \in Nat
         /\ \A i \in 1 .. 9 : ImageSteps[i].name \in Names
<1> DEFINE ms == Image.writes
<1>1. ms = ImageMembers("uint32")
  BY DEF Image, ImageToBuf
<1>2. Members(ms, v, Len(ms), NestedNames(Image))
  BY ClassMembers
<1>3. DOMAIN ms = 1 .. 7 /\ DOMAIN fs = 1 .. 7 /\ fs[7] = Pixels("uint8") /\ ms[7] = Pixels("uint32")
      /\ \A i \in 1 .. 6 : fs[i] = ms[i]
  <2>1. /\ DOMAIN ms = 1 .. 7
        /\ ms[1] = Plain("header", "frame_id") /\ ms[2] = Plain("uint32", "height")
        /\ ms[3] = Plain("uint32", "width") /\ ms[4] = Plain("string", "encoding")
        /\ ms[5] = Plain("uint8", "is_bigendian") /\ ms[6] = Plain("uint32", "step")
        /\ ms[7] = Pixels("uint32")
    BY <1>1, ImageMembersListed
  <2>2. /\ DOMAIN fs = 1 .. 7
        /\ fs[1] = Plain("header", "frame_id") /\ fs[2] = Plain("uint32", "height")
        /\ fs[3] = Plain("uint32", "width") /\ fs[4] = Plain("string", "encoding")
        /\ fs[5] = Plain("uint8", "is_bigendian") /\ fs[6] = Plain("uint32", "step")
        /\ fs[7] = Pixels("uint8")
    BY ImageMembersListed
  <2> HIDE DEF ms
  <2>3. \A i \in 1 .. 6 : i \in {1, 2, 3, 4, 5, 6}
    OBVIOUS
  <2>4. fs[1] = ms[1] /\ fs[2] = ms[2] /\ fs[3] = ms[3] /\ fs[4] = ms[4] /\ fs[5] = ms[5]
        /\ fs[6] = ms[6]
    BY <2>1, <2>2
  <2>5. \A i \in {1, 2, 3, 4, 5, 6} : fs[i] = ms[i]
    BY <2>4
  <2> QED BY <2>1, <2>2, <2>3, <2>5
<1>4. \A i \in 1 .. 7 : Suits(ms[i], v, NestedNames(Image))
  <2>1. \A i \in DOMAIN ms : Suits(ms[i], v, NestedNames(Image))
    BY <1>2, Zenon DEF Members
  <2> QED BY <1>3, <2>1
<1> HIDE DEF ms
<1>5. fs[1].kind = "header" /\ fs[4].kind = "string" /\ fs[2].kind = "primitive"
      /\ fs[3].kind = "primitive" /\ fs[5].kind = "primitive" /\ fs[6].kind = "primitive"
      /\ fs[7].kind = "array" /\ ms[7].kind = "array"
  BY <1>3, ImageMembersListed, ImageMemberKinds, StepMembers
<1>6. \A i \in 1 .. 7 : fs[i].kind # "custom" /\ ms[i].kind # "custom"
  <2>1. \A i \in 1 .. 7 : i \in {1, 2, 3, 4, 5, 6, 7}
    OBVIOUS
  <2>2. \A i \in {1, 2, 3, 4, 5, 6, 7} : fs[i].kind # "custom"
    BY <1>5
  <2>3. \A i \in 1 .. 7 : i \in 1 .. 6 \/ i = 7
    OBVIOUS
  <2> QED BY <1>3, <1>5, <2>1, <2>2, <2>3
<1>7. \A i \in 1 .. 7 : Fits(ms[i], v)
  BY <1>4, <1>6, Zenon DEF Suits
<1>8. ms[7].name = "data" /\ fs[7].name = "data" /\ fs[7].size = 1 /\ fs[7].bound = 0
  BY <1>3, ImageMemberKinds
<1>9. Fits(fs[7], v) /\ v["data"] \in Nat
  <2>1. 7 \in 1 .. 7 /\ 1 \in Sizes /\ 0 \in Nat
    BY DEF Sizes
  <2>2. ms[7].name \in Names /\ v[ms[7].name] \in Nat
    BY <1>5, <1>7, <2>1 DEF Fits
  <2> QED BY <1>5, <1>8, <2>1, <2>2 DEF Fits
<1>10. \A i \in 1 .. 7 : Fits(fs[i], v)
  <2>1. \A i \in 1 .. 7 : i \in 1 .. 6 \/ i = 7
    OBVIOUS
  <2> QED BY <1>3, <1>7, <1>9, <2>1
<1>11. Members(fs, v, 7, N)
  <2>1. \A i \in 1 .. 7 : Suits(fs[i], v, N)
    BY <1>6, <1>10, Zenon DEF Suits
  <2>2. 7 \in Nat
    OBVIOUS
  <2> QED BY <1>3, <1>6, <2>1, <2>2, Zenon DEF Members
<1>12. /\ fs[1].name = "frame_id" /\ fs[2].name = "height" /\ fs[3].name = "width"
       /\ fs[4].name = "encoding" /\ fs[5].name = "is_bigendian" /\ fs[6].name = "step"
  BY ImageMembersListed, ImageMemberKinds, StepMembers
<1>13. v["frame_id"] \in Nat /\ v["encoding"] \in Nat
  BY <1>5, <1>10, <1>12, SMTT(30) DEF Fits
<1>14. \A i \in 1 .. 9 : ImageSteps[i].name \in Names
  <2>1. /\ "sec" \in Names /\ "nanosec" \in Names /\ "frame_id" \in Names
    BY DEF Names
  <2>2. \A i \in 1 .. 7 : fs[i].name \in Names
    BY <1>10, Zenon DEF Fits
  <2>3. "height" \in Names /\ "width" \in Names /\ "encoding" \in Names
        /\ "is_bigendian" \in Names /\ "step" \in Names /\ "data" \in Names
    BY <1>8, <1>12, <2>2
  <2>4. \A i \in 1 .. 9 : i \in {1, 2, 3, 4, 5, 6, 7, 8, 9}
    OBVIOUS
  <2>5. \A i \in {1, 2, 3, 4, 5, 6, 7, 8, 9} : ImageSteps[i].name \in Names
    BY <2>1, <2>3, ImageStepsAre
  <2> QED BY <2>4, <2>5
<1> QED BY <1>9, <1>10, <1>11, <1>13, <1>14

\* The i-th step of copyToFragBuf finds its bytes in the message, primitive or array.
SingleHeld(t, v, i) ==
  Holds(t, Begin(v, i - 1), Zeros(Gap(Begin(v, i - 1), ImageSteps[i].size))
                              \o Element(ImageSteps[i].name, 1, ImageSteps[i].size))

ManyHeld(t, v, i) ==
  ArrayHeld(t, Begin(v, i - 1), ImageSteps[i].name, v[ImageSteps[i].name])

\* The bytes of an image, step by step.
LaidOut(t, v) ==
  /\ t \in Octets /\ Len(t) = Begin(v, 9)
  /\ SingleHeld(t, v, 1) /\ SingleHeld(t, v, 2) /\ ManyHeld(t, v, 3)
  /\ SingleHeld(t, v, 4) /\ SingleHeld(t, v, 5) /\ ManyHeld(t, v, 6)
  /\ SingleHeld(t, v, 7) /\ SingleHeld(t, v, 8) /\ ManyHeld(t, v, 9)

LEMMA HoldsItself ==
  ASSUME NEW t \in Octets
  PROVE  Holds(t, 0, t)
<1> HIDE DEF Octet
<1>1. t \in Seq(Octet) /\ DOMAIN t = 1 .. Len(t)
  BY DEF Octets
<1>2. \A k \in 1 .. Len(t) : 0 + k = k
  BY <1>1
<1> QED BY <1>1, <1>2 DEF Holds

LEMMA MemberGaps ==
  ASSUME NEW cnt
  PROVE  MemberGap(cnt, 4) = Gap(cnt, 4) /\ MemberGap(cnt, 1) = 0
BY DEF MemberGap

LEMMA ArrayHas ==
  ASSUME NEW f, f.kind = "array", f.size = 1, NEW v, NEW c
  PROVE  PutFlat(c, f, v) = Put(Put(Align(c, 4), Count(v[f.name])), Elements(f.name, v[f.name], 1))
<1>1. PutFlat(c, f, v) = PutArray(c, f, v[f.name])
  BY Zenon DEF PutFlat
<1>2. f.size # 8
  OBVIOUS
<1> QED BY <1>1, <1>2, Zenon DEF PutArray

LEMMA StringHas ==
  ASSUME NEW f, f.kind = "string", NEW v, NEW c
  PROVE  PutFlat(c, f, v) = Put(Put(Align(c, 4), Count(v[f.name])), Elements(f.name, v[f.name], 1))
BY Zenon DEF PutFlat, PutString

LEMMA HoldsFirst ==
  ASSUME NEW t, NEW s \in Octets, NEW w \in Octets, Holds(t, 0, s \o w)
  PROVE  Holds(t, 0, s) /\ Holds(t, Len(s), w)
<1>1. 0 \in Nat /\ Len(s) \in Nat
  BY LengthNat
<1>2. Holds(t, 0, s) /\ Holds(t, 0 + Len(s), w)
  BY <1>1, HoldsBoth
<1>3. 0 + Len(s) = Len(s)
  BY <1>1
<1> QED BY <1>2, <1>3

LEMMA CountedHeld ==
  ASSUME NEW t, NEW s \in Octets, NEW name \in Names, NEW n \in Nat,
         Holds(t, 0, s \o (Count(n) \o Elements(name, n, 1)))
  PROVE  Holds(t, 0, s) /\ ArrayHeld(t, Len(s), name, n)
<1> DEFINE e == Elements(name, n, 1)
           h == Count(n)
<1>1. h \in Octets /\ Len(h) = 4
  BY WrittenCount
<1>2. e \in Octets
  <2>1. 1 \in Sizes
    BY DEF Sizes
  <2> QED BY <2>1, WrittenMany
<1>s. Holds(t, 0, s \o (h \o e))
  OBVIOUS
<1>q. ArrayHeld(t, Len(s), name, n) <=> Holds(t, Len(s), h) /\ Holds(t, Len(s) + 4, e)
  BY DEF ArrayHeld
<1> HIDE DEF e, h
<1>3. h \o e \in Octets
  BY <1>1, <1>2, OctetsJoin
<1>4. Holds(t, 0, s) /\ Holds(t, Len(s), h \o e)
  BY <1>3, <1>s, HoldsFirst
<1>5. Len(s) \in Nat
  BY LengthNat
<1>6. Holds(t, Len(s), h) /\ Holds(t, Len(s) + Len(h), e)
  BY <1>1, <1>2, <1>4, <1>5, HoldsBoth
<1> QED BY <1>1, <1>4, <1>6, <1>q

\* A member behind what was written.
Grown(c, out, w, length, d, more) ==
  w \in Octets /\ more = out \o w /\ Has(d, more) /\ Len(more) = length

LEMMA SingleGrown ==
  ASSUME NEW f, NEW v, Fits(f, v), f.kind = "primitive", NEW size, f.size = size,
         NEW name, f.name = name, NEW c, NEW out, Has(c, out),
         NEW w, w = Zeros(MemberGap(Len(out), size)) \o Element(name, 1, size),
         NEW d, d = PutFlat(c, f, v), NEW more, more = out \o w
  PROVE  Grown(c, out, w, Len(out) + MemberGap(Len(out), size) + size, d, more)
<1>1. w = Zeros(MemberGap(Len(out), f.size)) \o Element(f.name, 1, f.size)
  OBVIOUS
<1>2. /\ w \in Octets /\ Has(PutFlat(c, f, v), out \o w)
      /\ Len(out \o w) = Len(out) + MemberGap(Len(out), f.size) + f.size
  BY <1>1, PrimitiveHas
<1> QED BY <1>2, Zenon DEF Grown

LEMMA ManyGrown ==
  ASSUME NEW name \in Names, NEW n \in Nat, NEW c, NEW out, Has(c, out), Gap(Len(out), 4) = 0,
         NEW w, w = Count(n) \o Elements(name, n, 1),
         NEW d, d = Put(Put(Align(c, 4), Count(n)), Elements(name, n, 1)),
         NEW more, more = out \o w
  PROVE  Grown(c, out, w, Len(out) + 4 + n, d, more)
<1>2. /\ w \in Octets /\ Has(Put(Put(Align(c, 4), Count(n)), Elements(name, n, 1)), out \o w)
      /\ Len(out \o w) = Len(out) + 4 + n
  BY CountedHas
<1> QED BY <1>2, Zenon DEF Grown

LEMMA ImageLaidOut ==
  ASSUME Image \in Classes, NEW v \in Values(Image),
         NEW t, t = CopyToBuf(ImageMembers("uint8"), v, 0, AllZero(Image)).out
  PROVE  LaidOut(t, v) /\ CopyToBuf(ImageMembers("uint8"), v, 0, AllZero(Image)).cnt = Len(t)
<1> DEFINE fs == ImageMembers("uint8")
           N == NestedNames(Image)
           counts == AllZero(Image)
           start == Start(0, counts)
           F == v["frame_id"]
           E == v["encoding"]
           D == v["data"]
<1>1. Members(fs, v, 7, N) /\ (\A i \in 1 .. 7 : Fits(fs[i], v))
      /\ F \in Nat /\ E \in Nat /\ D \in Nat
      /\ \A i \in 1 .. 9 : ImageSteps[i].name \in Names
  BY ImageSuits
<1>2. start \in Cursors(N) /\ Writer(start) /\ start.cnt = 0 /\ start.out = <<>>
  <2>1. counts \in [N -> Nat] /\ <<>> \in Octets /\ 0 \in Nat
    BY DEF AllZero, Octets
  <2>2. start \in Cursors(N) /\ start.cnt = 0 /\ start.out = <<>>
    <3> HIDE DEF counts, N
    <3> QED BY <2>1 DEF Start, Cursors
  <2> QED BY <2>2, CursorWrites
<1>3. PICK rows : PutMemberRows(start, fs, v, 7, rows) /\ rows[7] = CopyToBuf(fs, v, 0, counts)
  BY <1>1, <1>2, CopyToBufRows
<1>4. \A i \in 1 .. 7 : fs[i].kind # "custom"
  BY <1>1 DEF Fits
<1>5. rows[0] = start /\ \A k \in 1 .. 7 : rows[k] = PutFlat(rows[k - 1], fs[k], v)
  BY <1>3, <1>4, Zenon DEF PutMemberRows, PutMember
<1>6. /\ fs[1].kind = "header" /\ fs[1].name = "frame_id"
      /\ fs[2].kind = "primitive" /\ fs[2].name = "height" /\ fs[2].size = 4
      /\ fs[3].kind = "primitive" /\ fs[3].name = "width" /\ fs[3].size = 4
      /\ fs[4].kind = "string" /\ fs[4].name = "encoding"
      /\ fs[5].kind = "primitive" /\ fs[5].name = "is_bigendian" /\ fs[5].size = 1
      /\ fs[6].kind = "primitive" /\ fs[6].name = "step" /\ fs[6].size = 4
      /\ fs[7].kind = "array" /\ fs[7].name = "data" /\ fs[7].size = 1
  BY ImageMembersListed, ImageMemberKinds, StepMembers
<1>t. t = rows[7].out /\ CopyToBuf(ImageMembers("uint8"), v, 0, AllZero(Image)).cnt = rows[7].cnt
  BY <1>3
<1> HIDE DEF fs, start
<1>7. /\ rows[1] = PutFlat(rows[0], fs[1], v) /\ rows[2] = PutFlat(rows[1], fs[2], v)
      /\ rows[3] = PutFlat(rows[2], fs[3], v) /\ rows[4] = PutFlat(rows[3], fs[4], v)
      /\ rows[5] = PutFlat(rows[4], fs[5], v) /\ rows[6] = PutFlat(rows[5], fs[6], v)
      /\ rows[7] = PutFlat(rows[6], fs[7], v)
  <2>1. /\ 1 \in 1 .. 7 /\ 2 \in 1 .. 7 /\ 3 \in 1 .. 7 /\ 4 \in 1 .. 7 /\ 5 \in 1 .. 7
        /\ 6 \in 1 .. 7 /\ 7 \in 1 .. 7
        /\ 1 - 1 = 0 /\ 2 - 1 = 1 /\ 3 - 1 = 2 /\ 4 - 1 = 3 /\ 5 - 1 = 4 /\ 6 - 1 = 5 /\ 7 - 1 = 6
    OBVIOUS
  <2> QED BY <1>5, <2>1
<1>8. \A i \in {2, 3, 4, 5, 6, 7} : Fits(fs[i], v)
  <2>1. \A i \in {2, 3, 4, 5, 6, 7} : i \in 1 .. 7
    OBVIOUS
  <2> QED BY <1>1, <2>1
<1>9. Has(rows[0], <<>>)
  <2>1. Len(<<>>) = 0 /\ <<>> \in Octets
    BY DEF Octets
  <2> QED BY <1>2, <1>5, <2>1 DEF Has
<1>b. /\ Begin(v, 0) = 0 /\ Begin(v, 1) = 4 /\ Begin(v, 2) = 8 /\ Begin(v, 3) = 12 + F
  BY BeginIs
<1>n. /\ \A i \in 0 .. 9 : Begin(v, i) \in Nat
      /\ \A i \in {0, 1, 3, 4, 7} : Begin(v, i + 1) = Begin(v, i) + Gap(Begin(v, i), 4) + 4
      /\ Begin(v, 7) = Begin(v, 6) + 1 /\ Gap(Begin(v, 6), 1) = 0
      /\ Begin(v, 6) = Begin(v, 5) + 4 + E
      /\ Begin(v, 9) = Begin(v, 8) + 4 + D
      /\ Gap(Begin(v, 5), 4) = 0 /\ Gap(Begin(v, 8), 4) = 0
  BY <1>1, BeginNext
<1>m. /\ Begin(v, 4) = Begin(v, 3) + Gap(Begin(v, 3), 4) + 4
      /\ Begin(v, 5) = Begin(v, 4) + Gap(Begin(v, 4), 4) + 4
      /\ Begin(v, 8) = Begin(v, 7) + Gap(Begin(v, 7), 4) + 4
  <2>1. 3 + 1 = 4 /\ 4 + 1 = 5 /\ 7 + 1 = 8
    OBVIOUS
  <2> QED BY <1>n, <2>1
<1>10. /\ HeaderBytes(F) \in Octets /\ Len(HeaderBytes(F)) = Begin(v, 3)
       /\ Has(rows[1], HeaderBytes(F))
       /\ \A buffer : Holds(buffer, 0, HeaderBytes(F)) =>
              /\ Holds(buffer, 0, Element("sec", 1, 4))
              /\ Holds(buffer, 4, Element("nanosec", 1, 4))
              /\ ArrayHeld(buffer, 8, "frame_id", F)
  <2>1. rows[1] = PutHeader(rows[0], F)
    BY <1>6, <1>7 DEF PutFlat
  <2> QED BY <1>1, <1>9, <1>b, <2>1, HeaderHas
<1> DEFINE o1 == HeaderBytes(F)
           w2 == Zeros(MemberGap(Len(o1), 4)) \o Element("height", 1, 4)
           o2 == o1 \o w2
           w3 == Zeros(MemberGap(Len(o2), 4)) \o Element("width", 1, 4)
           o3 == o2 \o w3
           w4 == Count(E) \o Elements("encoding", E, 1)
           o4 == o3 \o w4
           w5 == Zeros(MemberGap(Len(o4), 1)) \o Element("is_bigendian", 1, 1)
           o5 == o4 \o w5
           w6 == Zeros(MemberGap(Len(o5), 4)) \o Element("step", 1, 4)
           o6 == o5 \o w6
           w7 == Count(D) \o Elements("data", D, 1)
           o7 == o6 \o w7
<1>11. w2 \in Octets /\ Has(rows[2], o2) /\ Len(o2) = Begin(v, 4)
  <2>1. Fits(fs[2], v)
    BY <1>8
  <2>2. Grown(rows[1], o1, w2, Len(o1) + MemberGap(Len(o1), 4) + 4, rows[2], o2)
    BY <1>6, <1>7, <1>10, <2>1, SingleGrown
  <2>g. w2 \in Octets /\ Has(rows[2], o2) /\ Len(o2) = Len(o1) + MemberGap(Len(o1), 4) + 4
    BY <2>2, Zenon DEF Grown
  <2> QED BY <1>10, <1>m, <2>g, MemberGaps, Zenon
<1> HIDE DEF o2
<1>12. w3 \in Octets /\ Has(rows[3], o3) /\ Len(o3) = Begin(v, 5)
  <2>1. Fits(fs[3], v)
    BY <1>8
  <2>2. Grown(rows[2], o2, w3, Len(o2) + MemberGap(Len(o2), 4) + 4, rows[3], o3)
    BY <1>6, <1>7, <1>11, <2>1, SingleGrown
  <2>g. w3 \in Octets /\ Has(rows[3], o3) /\ Len(o3) = Len(o2) + MemberGap(Len(o2), 4) + 4
    BY <2>2, Zenon DEF Grown
  <2> QED BY <1>11, <1>m, <2>g, MemberGaps, Zenon
<1> HIDE DEF o3
<1>13. w4 \in Octets /\ Has(rows[4], o4) /\ Len(o4) = Begin(v, 6)
  <2>1. "encoding" \in Names
    BY <1>1, <1>6, <1>8 DEF Fits
  <2>2. rows[4] = Put(Put(Align(rows[3], 4), Count(E)), Elements("encoding", E, 1))
    BY <1>6, <1>7, StringHas
  <2>3. Gap(Len(o3), 4) = 0
    BY <1>12, <1>n
  <2>4. Grown(rows[3], o3, w4, Len(o3) + 4 + E, rows[4], o4)
    BY <1>1, <1>12, <2>1, <2>2, <2>3, ManyGrown
  <2>g. w4 \in Octets /\ Has(rows[4], o4) /\ Len(o4) = Len(o3) + 4 + E
    BY <2>4, Zenon DEF Grown
  <2> QED BY <1>12, <1>n, <2>g
<1> HIDE DEF o4
<1>14. w5 \in Octets /\ Has(rows[5], o5) /\ Len(o5) = Begin(v, 7)
  <2>1. Fits(fs[5], v)
    BY <1>8
  <2>2. Grown(rows[4], o4, w5, Len(o4) + MemberGap(Len(o4), 1) + 1, rows[5], o5)
    BY <1>6, <1>7, <1>13, <2>1, SingleGrown
  <2>g. w5 \in Octets /\ Has(rows[5], o5) /\ Len(o5) = Len(o4) + MemberGap(Len(o4), 1) + 1
    BY <2>2, Zenon DEF Grown
  <2>3. Begin(v, 6) \in Nat /\ MemberGap(Len(o4), 1) = 0
    BY <1>n, MemberGaps
  <2> QED BY <1>13, <1>n, <2>g, <2>3
<1> HIDE DEF o5
<1>15. w6 \in Octets /\ Has(rows[6], o6) /\ Len(o6) = Begin(v, 8)
  <2>1. Fits(fs[6], v)
    BY <1>8
  <2>2. Grown(rows[5], o5, w6, Len(o5) + MemberGap(Len(o5), 4) + 4, rows[6], o6)
    BY <1>6, <1>7, <1>14, <2>1, SingleGrown
  <2>g. w6 \in Octets /\ Has(rows[6], o6) /\ Len(o6) = Len(o5) + MemberGap(Len(o5), 4) + 4
    BY <2>2, Zenon DEF Grown
  <2> QED BY <1>14, <1>m, <2>g, MemberGaps, Zenon
<1> HIDE DEF o6
<1>16. w7 \in Octets /\ Has(rows[7], o7) /\ Len(o7) = Begin(v, 9)
  <2>1. "data" \in Names
    BY <1>6, <1>8 DEF Fits
  <2>2. rows[7] = Put(Put(Align(rows[6], 4), Count(D)), Elements("data", D, 1))
    BY <1>6, <1>7, ArrayHas
  <2>3. Gap(Len(o6), 4) = 0
    BY <1>15, <1>n
  <2>4. Grown(rows[6], o6, w7, Len(o6) + 4 + D, rows[7], o7)
    BY <1>1, <1>15, <2>1, <2>2, <2>3, ManyGrown
  <2>g. w7 \in Octets /\ Has(rows[7], o7) /\ Len(o7) = Len(o6) + 4 + D
    BY <2>4, Zenon DEF Grown
  <2> QED BY <1>15, <1>n, <2>g
<1>17. /\ o1 \in Octets /\ o2 \in Octets /\ o3 \in Octets /\ o4 \in Octets /\ o5 \in Octets
       /\ o6 \in Octets /\ o7 \in Octets
  BY <1>10, <1>11, <1>12, <1>13, <1>14, <1>15, <1>16 DEF Has
<1>18. t = o7 /\ Holds(t, 0, o7) /\ rows[7].cnt = Len(o7)
  BY <1>t, <1>16, <1>17, HoldsItself DEF Has
<1> HIDE DEF o1, w2, w3, w5, w6
<1>19. Holds(t, 0, o6) /\ ArrayHeld(t, Begin(v, 8), "data", D)
  <2>1. "data" \in Names
    BY <1>6, <1>8 DEF Fits
  <2> QED BY <1>1, <1>15, <1>17, <1>18, <2>1, CountedHeld
<1> HIDE DEF o7, w7
<1>20. Holds(t, 0, o5) /\ Holds(t, Begin(v, 7), w6)
  BY <1>14, <1>15, <1>17, <1>19, HoldsFirst DEF o6
<1>21. Holds(t, 0, o4) /\ Holds(t, Begin(v, 6), w5)
  BY <1>13, <1>14, <1>17, <1>20, HoldsFirst DEF o5
<1>22. Holds(t, 0, o3) /\ ArrayHeld(t, Begin(v, 5), "encoding", E)
  <2>1. "encoding" \in Names
    BY <1>6, <1>8 DEF Fits
  <2> QED BY <1>1, <1>12, <1>17, <1>21, <2>1, CountedHeld DEF o4
<1> HIDE DEF w4
<1>23. Holds(t, 0, o2) /\ Holds(t, Begin(v, 4), w3)
  BY <1>11, <1>12, <1>17, <1>22, HoldsFirst DEF o3
<1>24. Holds(t, 0, o1) /\ Holds(t, Begin(v, 3), w2)
  BY <1>10, <1>11, <1>17, <1>23, HoldsFirst DEF o2, o1
<1>25. /\ Holds(t, 0, Element("sec", 1, 4)) /\ Holds(t, 4, Element("nanosec", 1, 4))
       /\ ArrayHeld(t, 8, "frame_id", F)
  BY <1>10, <1>24 DEF o1
<1>26. /\ w2 = Zeros(Gap(Begin(v, 3), 4)) \o Element("height", 1, 4)
       /\ w3 = Zeros(Gap(Begin(v, 4), 4)) \o Element("width", 1, 4)
       /\ w5 = Zeros(Gap(Begin(v, 6), 1)) \o Element("is_bigendian", 1, 1)
       /\ w6 = Zeros(Gap(Begin(v, 7), 4)) \o Element("step", 1, 4)
  <2>1. w2 = Zeros(Gap(Begin(v, 3), 4)) \o Element("height", 1, 4)
    BY <1>10, MemberGaps, Zenon DEF w2, o1
  <2>2. w3 = Zeros(Gap(Begin(v, 4), 4)) \o Element("width", 1, 4)
    BY <1>11, MemberGaps, Zenon DEF w3
  <2>3. w5 = Zeros(Gap(Begin(v, 6), 1)) \o Element("is_bigendian", 1, 1)
    BY <1>n, MemberGaps, Zenon DEF w5
  <2>4. w6 = Zeros(Gap(Begin(v, 7), 4)) \o Element("step", 1, 4)
    BY <1>14, MemberGaps, Zenon DEF w6
  <2> QED BY <2>1, <2>2, <2>3, <2>4
<1>27. /\ Element("sec", 1, 4) = Zeros(Gap(0, 4)) \o Element("sec", 1, 4)
       /\ Element("nanosec", 1, 4) = Zeros(Gap(4, 4)) \o Element("nanosec", 1, 4)
  <2>1. \A name \in Names : <<>> \o Element(name, 1, 4) = Element(name, 1, 4)
    <3> TAKE name \in Names
    <3>1. Element(name, 1, 4) \in Octets
      BY Written
    <3> QED BY <3>1, JoinsEmpty DEF Octets
  <2>2. Gap(0, 4) = 0 /\ Gap(4, 4) = 0 /\ "sec" \in Names /\ "nanosec" \in Names
    BY DEF Gap, Names
  <2> QED BY <2>1, <2>2, ZerosNothing
<1>28. /\ 1 - 1 = 0 /\ 2 - 1 = 1 /\ 3 - 1 = 2 /\ 4 - 1 = 3 /\ 5 - 1 = 4 /\ 6 - 1 = 5
       /\ 7 - 1 = 6 /\ 8 - 1 = 7 /\ 9 - 1 = 8
  OBVIOUS
<1>29. /\ ImageSteps[1].size = 4 /\ ImageSteps[2].size = 4 /\ ImageSteps[4].size = 4
       /\ ImageSteps[5].size = 4 /\ ImageSteps[7].size = 1 /\ ImageSteps[8].size = 4
  BY ImageStepsAre
<1> HIDE DEF F, E, D
<1>30. SingleHeld(t, v, 1) /\ SingleHeld(t, v, 2) /\ SingleHeld(t, v, 4) /\ SingleHeld(t, v, 5)
       /\ SingleHeld(t, v, 7) /\ SingleHeld(t, v, 8)
  <2>1. SingleHeld(t, v, 1) /\ SingleHeld(t, v, 2)
    BY <1>b, <1>25, <1>27, <1>28, <1>29, ImageStepsAre, Zenon DEF SingleHeld
  <2>2. SingleHeld(t, v, 4) /\ SingleHeld(t, v, 5)
    BY <1>23, <1>24, <1>26, <1>28, <1>29, ImageStepsAre, Zenon DEF SingleHeld
  <2>3. SingleHeld(t, v, 7) /\ SingleHeld(t, v, 8)
    BY <1>20, <1>21, <1>26, <1>28, <1>29, ImageStepsAre, Zenon DEF SingleHeld
  <2> QED BY <2>1, <2>2, <2>3
<1>31. ManyHeld(t, v, 3) /\ ManyHeld(t, v, 6) /\ ManyHeld(t, v, 9)
  BY <1>b, <1>19, <1>22, <1>25, <1>28, ImageStepsAre, Zenon DEF ManyHeld, F, E, D
<1> QED BY <1>t, <1>16, <1>17, <1>18, <1>30, <1>31, Zenon DEF LaidOut

-----------------------------------------------------------------------------
(* copyToFragBuf over the steps of an image. *)

LEMMA WhetherShort ==
  ASSUME NEW c, NEW cnt, NEW idx, NEW parts, NEW size, NEW out
  PROVE  /\ Stands(c, cnt, idx, parts, size, out, No) => ~c.out_of_room
         /\ Stands(c, cnt, idx, parts, size, out, Yes) => c.out_of_room
<1>1. ASSUME Stands(c, cnt, idx, parts, size, out, No) PROVE ~c.out_of_room
  <2>1. c.out_of_room = No
    BY <1>1, StandsAt
  <2> QED BY <2>1, Zenon DEF No
<1>2. ASSUME Stands(c, cnt, idx, parts, size, out, Yes) PROVE c.out_of_room
  <2>1. c.out_of_room = Yes
    BY <1>2, StandsAt
  <2> QED BY <2>1, Zenon DEF Yes
<1> QED BY <1>1, <1>2

\* A member of n bytes is sent whole, or runs out of room.
SendsOne(d, name, n, size, cnt, idx, parts, out) ==
  \E w \in Octets :
    /\ w = Zeros(Gap(cnt, n)) \o Element(name, 1, n) /\ Len(w) = Gap(cnt, n) + n
    /\ IF Left(size, out) < n THEN Stands(d, cnt, idx, parts, size, out, Yes)
       ELSE Stands(d, cnt + Len(w), idx + 1, parts, size, out \o w, No)

LEMMA CutOne ==
  ASSUME NEW f, f.name \in Names, f.size \in Sizes, NEW size \in Nat,
         NEW cnt \in Nat, NEW idx, NEW parts, NEW out \in Octets,
         NEW c, Stands(c, cnt, idx, parts, size, out, No),
         NEW d, d = CopyPrimToFragBufLocal(c, f)
  PROVE  SendsOne(d, f.name, f.size, size, cnt, idx, parts, out)
<1> DEFINE w == Zeros(Gap(cnt, f.size)) \o Element(f.name, 1, f.size)
<1>1. w = Zeros(Gap(cnt, f.size)) \o Element(f.name, 1, f.size)
  OBVIOUS
<1> HIDE DEF w
<1>2. /\ w \in Octets /\ Len(w) = Gap(cnt, f.size) + f.size
      /\ IF Left(size, out) < f.size THEN Stands(d, cnt, idx, parts, size, out, Yes)
         ELSE Stands(d, cnt + Len(w), idx + 1, parts, size, out \o w, No)
  BY <1>1, CutPrimitive
<1> QED BY <1>1, <1>2, Zenon DEF SendsOne

CutStep(v, c, i) ==
  IF c.out_of_room \/ i <= c.msg.idx THEN c
  ELSE IF ImageSteps[i].kind = "array"
       THEN CopyArrayToFragBufLocal(c, ImageSteps[i].name, v[ImageSteps[i].name])
       ELSE CopyPrimToFragBufLocal(c, ImageSteps[i])

\* What the counters of the arrays may be.
PartsOf(v) == {p \in [Arrays -> Nat] : \A name \in Arrays : p[name] \in {0} \cup 4 .. 4 + v[name]}

Cutters(v, size) ==
  {Cutter(At(cnt, idx, parts), size, out, short) :
     cnt \in Nat, idx \in Nat, parts \in PartsOf(v), out \in Octets, short \in {Yes, No}}

LEMMA CuttersStand ==
  ASSUME NEW v, NEW size, NEW c
  PROVE  c \in Cutters(v, size) <=>
           \E cnt, idx \in Nat : \E parts \in PartsOf(v) : \E out \in Octets :
             \E short \in {Yes, No} : Stands(c, cnt, idx, parts, size, out, short)
<1>1. ASSUME c \in Cutters(v, size)
      PROVE  \E cnt, idx \in Nat : \E parts \in PartsOf(v) : \E out \in Octets :
               \E short \in {Yes, No} : Stands(c, cnt, idx, parts, size, out, short)
  <2>1. PICK cnt \in Nat, idx \in Nat, parts \in PartsOf(v), out \in Octets, short \in {Yes, No} :
          c = Cutter(At(cnt, idx, parts), size, out, short)
    BY <1>1 DEF Cutters
  <2> QED BY <2>1, Zenon DEF Stands
<1>2. ASSUME NEW cnt \in Nat, NEW idx \in Nat, NEW parts \in PartsOf(v), NEW out \in Octets,
             NEW short \in {Yes, No}, Stands(c, cnt, idx, parts, size, out, short)
      PROVE  c \in Cutters(v, size)
  <2>1. c = Cutter(At(cnt, idx, parts), size, out, short)
    BY <1>2, Zenon DEF Stands
  <2> QED BY <2>1 DEF Cutters
<1> QED BY <1>1, <1>2, Zenon

\* An object whose members the steps can take.
Image9(v) ==
  /\ v["frame_id"] \in Nat /\ v["encoding"] \in Nat /\ v["data"] \in Nat
  /\ \A i \in 1 .. 9 : ImageSteps[i].name \in Names

SinglePlaces == {1, 2, 4, 5, 7, 8}
ArrayPlaces == {3, 6, 9}

LEMMA StepFacts ==
  ASSUME NEW v, Image9(v)
  PROVE  /\ \A i \in 1 .. 9 : i \in SinglePlaces \/ i \in ArrayPlaces
         /\ \A i \in SinglePlaces : /\ ImageSteps[i].kind # "array" /\ ImageSteps[i].name \in Names
                                    /\ ImageSteps[i].size \in Sizes /\ ImageSteps[i].size \in 1 .. 4
         /\ \A i \in ArrayPlaces : /\ ImageSteps[i].kind = "array" /\ ImageSteps[i].name \in Names
                                   /\ ImageSteps[i].name \in Arrays
                                   /\ v[ImageSteps[i].name] \in Nat
<1>1. \A i \in 1 .. 9 : i \in SinglePlaces \/ i \in ArrayPlaces
  BY DEF SinglePlaces, ArrayPlaces
<1>2. \A i \in SinglePlaces : i \in 1 .. 9 /\ ImageSteps[i].kind = "primitive"
  BY ImageStepsAre DEF SinglePlaces
<1>3. \A i \in SinglePlaces : ImageSteps[i].size \in Sizes /\ ImageSteps[i].size \in 1 .. 4
  BY ImageStepsAre DEF SinglePlaces, Sizes
<1>4. \A i \in ArrayPlaces : i \in 1 .. 9 /\ ImageSteps[i].kind = "array"
  BY ImageStepsAre DEF ArrayPlaces
<1>5. \A i \in ArrayPlaces : ImageSteps[i].name \in Arrays /\ v[ImageSteps[i].name] \in Nat
  BY ImageStepsAre DEF ArrayPlaces, Arrays, Image9
<1> QED BY <1>1, <1>2, <1>3, <1>4, <1>5 DEF Image9

\* The array "name" has been sent up to its byte "to".
SentTo(v, parts, name, to, p) ==
  /\ p \in PartsOf(v) /\ p[name] = 4 + to
  /\ \A other \in Arrays : other # name => p[other] = parts[other]

LEMMA PartsSent ==
  ASSUME NEW v, NEW parts \in PartsOf(v), NEW name \in Arrays, v[name] \in Nat,
         NEW to \in 0 .. v[name]
  PROVE  SentTo(v, parts, name, to, [parts EXCEPT ![name] = 4 + to])
<1> DEFINE p == [parts EXCEPT ![name] = 4 + to]
<1>1. parts \in [Arrays -> Nat] /\ \A n \in Arrays : parts[n] \in {0} \cup 4 .. 4 + v[n]
  BY DEF PartsOf
<1>2. 4 + to \in Nat /\ 4 + to \in 4 .. 4 + v[name]
  OBVIOUS
<1>3. p \in [Arrays -> Nat] /\ p[name] = 4 + to
      /\ \A other \in Arrays : other # name => p[other] = parts[other]
  BY <1>1, <1>2
<1>4. \A n \in Arrays : p[n] \in {0} \cup 4 .. 4 + v[n]
  BY <1>1, <1>2, <1>3
<1> HIDE DEF p
<1>5. p \in PartsOf(v)
  BY <1>3, <1>4 DEF PartsOf
<1>6. SentTo(v, parts, name, to, p)
  BY <1>3, <1>5, Zenon DEF SentTo
<1> QED BY <1>6 DEF p

LEMMA CutStepKeeps ==
  ASSUME NEW v, Image9(v), NEW size \in Nat, NEW c \in Cutters(v, size), NEW i \in 1 .. 9
  PROVE  CutStep(v, c, i) \in Cutters(v, size)
<1>1. PICK cnt, idx \in Nat, parts \in PartsOf(v), out \in Octets, short \in {Yes, No} :
        Stands(c, cnt, idx, parts, size, out, short)
  BY CuttersStand
<1>2. CASE c.out_of_room \/ i <= c.msg.idx
  BY <1>2 DEF CutStep
<1>3. CASE ~(c.out_of_room \/ i <= c.msg.idx)
  <2>1. Stands(c, cnt, idx, parts, size, out, No)
    BY <1>1, <1>3, WhetherShort
  <2>2. CASE i \in SinglePlaces
    <3> DEFINE f == ImageSteps[i]
               d == CopyPrimToFragBufLocal(c, f)
    <3>1. f.name \in Names /\ f.size \in Sizes /\ CutStep(v, c, i) = d
      BY <1>3, <2>2, StepFacts DEF CutStep
    <3>d. d = CopyPrimToFragBufLocal(c, f)
      OBVIOUS
    <3> HIDE DEF d, f
    <3>s. SendsOne(d, f.name, f.size, size, cnt, idx, parts, out)
      BY <2>1, <3>1, <3>d, CutOne
    <3>2. PICK w \in Octets :
            IF Left(size, out) < f.size THEN Stands(d, cnt, idx, parts, size, out, Yes)
            ELSE Stands(d, cnt + Len(w), idx + 1, parts, size, out \o w, No)
      BY <3>s, Zenon DEF SendsOne
    <3>3. out \o w \in Octets /\ cnt + Len(w) \in Nat /\ idx + 1 \in Nat
      <4>1. Len(w) \in Nat
        BY <3>2, LengthNat
      <4> QED BY <3>2, <4>1, OctetsJoin
    <3>4. d \in Cutters(v, size)
      BY <3>2, <3>3, CuttersStand
    <3> QED BY <3>1, <3>4
  <2>3. CASE i \in ArrayPlaces
    <3> DEFINE name == ImageSteps[i].name
               d == CopyArrayToFragBufLocal(c, name, v[name])
    <3>1. name \in Names /\ name \in Arrays /\ v[name] \in Nat /\ CutStep(v, c, i) = d
      BY <1>3, <2>3, StepFacts DEF CutStep
    <3>w. d = CopyArrayToFragBufLocal(c, name, v[name])
      OBVIOUS
    <3> HIDE DEF d, name
    <3>p. parts \in [Arrays -> Nat] /\ parts[name] \in {0} \cup 4 .. 4 + v[name]
      BY <3>1 DEF PartsOf
    <3>2. \/ Stands(d, cnt, idx, parts, size, out, Yes)
          \/ Sends(d, name, v[name], size, cnt, idx, parts, parts[name], out)
      BY <1>1, <2>1, <3>1, <3>w, <3>p, CutArray
    <3>3. CASE Sends(d, name, v[name], size, cnt, idx, parts, parts[name], out)
      <4>1. PICK to \in 0 .. v[name], w \in Octets :
              Stands(d, cnt + Len(w), IF to = v[name] THEN idx + 1 ELSE idx,
                     [parts EXCEPT ![name] = 4 + to], size, out \o w,
                     IF to = v[name] THEN No ELSE Yes)
        BY <3>3, Zenon DEF Sends
      <4>2. out \o w \in Octets /\ cnt + Len(w) \in Nat /\ idx + 1 \in Nat
        <5>1. Len(w) \in Nat
          BY LengthNat
        <5> QED BY <5>1, OctetsJoin
      <4>3. [parts EXCEPT ![name] = 4 + to] \in PartsOf(v)
        BY <3>1, PartsSent DEF SentTo
      <4>4. \/ Stands(d, cnt + Len(w), idx + 1, [parts EXCEPT ![name] = 4 + to], size, out \o w, No)
            \/ Stands(d, cnt + Len(w), idx, [parts EXCEPT ![name] = 4 + to], size, out \o w, Yes)
        BY <4>1, Zenon
      <4>5. d \in Cutters(v, size)
        BY <4>2, <4>3, <4>4, CuttersStand
      <4> QED BY <3>1, <4>5
    <3>4. CASE Stands(d, cnt, idx, parts, size, out, Yes)
      <4>1. d \in Cutters(v, size)
        BY <1>1, <3>4, CuttersStand
      <4> QED BY <3>1, <4>1
    <3> QED BY <3>2, <3>3, <3>4
  <2> QED BY <2>2, <2>3, StepFacts
<1> QED BY <1>2, <1>3

\* Where each step of an image begins and ends.
LEMMA BeginSteps ==
  ASSUME NEW v, Image9(v)
  PROVE  /\ \A i \in 0 .. 9 : Begin(v, i) \in Nat
         /\ \A i \in SinglePlaces :
              Begin(v, i) = Begin(v, i - 1) + (Gap(Begin(v, i - 1), ImageSteps[i].size)
                                                 + ImageSteps[i].size)
         /\ \A i \in ArrayPlaces : Begin(v, i) = Begin(v, i - 1) + (4 + v[ImageSteps[i].name])
         /\ \A i \in 0 .. 8 : Begin(v, i) <= Begin(v, 8)
         /\ Begin(v, 0) = 0 /\ Begin(v, 9) = Begin(v, 8) + (4 + v["data"])
<1>0. v["frame_id"] \in Nat /\ v["encoding"] \in Nat /\ v["data"] \in Nat
  BY DEF Image9
<1>1. /\ \A i \in 0 .. 9 : Begin(v, i) \in Nat
      /\ \A i \in {0, 1, 3, 4, 7} : Begin(v, i + 1) = Begin(v, i) + Gap(Begin(v, i), 4) + 4
      /\ Begin(v, 7) = Begin(v, 6) + 1 /\ Gap(Begin(v, 6), 1) = 0
      /\ Begin(v, 3) = Begin(v, 2) + 4 + v["frame_id"]
      /\ Begin(v, 6) = Begin(v, 5) + 4 + v["encoding"]
      /\ Begin(v, 9) = Begin(v, 8) + 4 + v["data"]
  BY <1>0, BeginNext
<1>2. /\ Begin(v, 0) \in Nat /\ Begin(v, 1) \in Nat /\ Begin(v, 2) \in Nat /\ Begin(v, 3) \in Nat
      /\ Begin(v, 4) \in Nat /\ Begin(v, 5) \in Nat /\ Begin(v, 6) \in Nat /\ Begin(v, 7) \in Nat
      /\ Begin(v, 8) \in Nat
  BY <1>1
<1>3. /\ Begin(v, 1) = Begin(v, 0) + Gap(Begin(v, 0), 4) + 4
      /\ Begin(v, 2) = Begin(v, 1) + Gap(Begin(v, 1), 4) + 4
      /\ Begin(v, 4) = Begin(v, 3) + Gap(Begin(v, 3), 4) + 4
      /\ Begin(v, 5) = Begin(v, 4) + Gap(Begin(v, 4), 4) + 4
      /\ Begin(v, 8) = Begin(v, 7) + Gap(Begin(v, 7), 4) + 4
  <2>1. 0 + 1 = 1 /\ 1 + 1 = 2 /\ 3 + 1 = 4 /\ 4 + 1 = 5 /\ 7 + 1 = 8
    OBVIOUS
  <2> QED BY <1>1, <2>1
<1>4. /\ Gap(Begin(v, 0), 4) \in Nat /\ Gap(Begin(v, 1), 4) \in Nat /\ Gap(Begin(v, 3), 4) \in Nat
      /\ Gap(Begin(v, 4), 4) \in Nat /\ Gap(Begin(v, 7), 4) \in Nat
  <2>1. \A n \in Nat : Gap(n, 4) \in Nat
    BY GapFacts DEF Sizes
  <2> QED BY <1>2, <2>1
<1>5. /\ 1 - 1 = 0 /\ 2 - 1 = 1 /\ 3 - 1 = 2 /\ 4 - 1 = 3 /\ 5 - 1 = 4 /\ 6 - 1 = 5
      /\ 7 - 1 = 6 /\ 8 - 1 = 7 /\ 9 - 1 = 8
  OBVIOUS
<1>6. /\ ImageSteps[1].size = 4 /\ ImageSteps[2].size = 4 /\ ImageSteps[4].size = 4
      /\ ImageSteps[5].size = 4 /\ ImageSteps[7].size = 1 /\ ImageSteps[8].size = 4
  BY ImageStepsAre
<1> DEFINE After1(i, size) == Begin(v, i) = Begin(v, i - 1) + (Gap(Begin(v, i - 1), size) + size)
<1>7. /\ After1(1, 4) /\ After1(2, 4) /\ After1(4, 4) /\ After1(5, 4) /\ After1(8, 4)
  BY <1>2, <1>3, <1>4, <1>5
<1>8. After1(7, 1)
  BY <1>1, <1>2, <1>5
<1>9. \A i \in SinglePlaces : After1(i, ImageSteps[i].size)
  <2> HIDE DEF After1
  <2>1. /\ After1(1, ImageSteps[1].size) /\ After1(2, ImageSteps[2].size)
        /\ After1(4, ImageSteps[4].size) /\ After1(5, ImageSteps[5].size)
        /\ After1(7, ImageSteps[7].size) /\ After1(8, ImageSteps[8].size)
    BY <1>6, <1>7, <1>8
  <2> QED BY <2>1, Zenon DEF SinglePlaces
<1>10. \A i \in ArrayPlaces : Begin(v, i) = Begin(v, i - 1) + (4 + v[ImageSteps[i].name])
  <2>1. /\ ImageSteps[3].name = "frame_id" /\ ImageSteps[6].name = "encoding"
        /\ ImageSteps[9].name = "data"
    BY ImageStepsAre
  <2>2. /\ Begin(v, 3) = Begin(v, 3 - 1) + (4 + v["frame_id"])
        /\ Begin(v, 6) = Begin(v, 6 - 1) + (4 + v["encoding"])
        /\ Begin(v, 9) = Begin(v, 9 - 1) + (4 + v["data"])
    BY <1>0, <1>1, <1>2, <1>5
  <2> QED BY <2>1, <2>2 DEF ArrayPlaces
<1>11. \A i \in 0 .. 8 : Begin(v, i) <= Begin(v, 8)
  <2>1. \A i \in 0 .. 8 : i \in {0, 1, 2, 3, 4, 5, 6, 7, 8}
    OBVIOUS
  <2>2. /\ Begin(v, 0) <= Begin(v, 1) /\ Begin(v, 1) <= Begin(v, 2) /\ Begin(v, 2) <= Begin(v, 3)
        /\ Begin(v, 3) <= Begin(v, 4) /\ Begin(v, 4) <= Begin(v, 5) /\ Begin(v, 5) <= Begin(v, 6)
        /\ Begin(v, 6) <= Begin(v, 7) /\ Begin(v, 7) <= Begin(v, 8)
    BY <1>0, <1>1, <1>2, <1>3, <1>4
  <2>3. /\ Begin(v, 0) <= Begin(v, 8) /\ Begin(v, 1) <= Begin(v, 8) /\ Begin(v, 2) <= Begin(v, 8)
        /\ Begin(v, 3) <= Begin(v, 8) /\ Begin(v, 4) <= Begin(v, 8) /\ Begin(v, 5) <= Begin(v, 8)
        /\ Begin(v, 6) <= Begin(v, 8) /\ Begin(v, 7) <= Begin(v, 8) /\ Begin(v, 8) <= Begin(v, 8)
    BY <1>2, <2>2
  <2> QED BY <2>1, <2>3
<1>12. Begin(v, 0) = 0 /\ Begin(v, 9) = Begin(v, 8) + (4 + v["data"])
  BY <1>0, <1>1, <1>2, BeginIs
<1> QED BY <1>1, <1>9, <1>10, <1>11, <1>12

LEMMA ArrayNames ==
  /\ ImageSteps[9].name = "data"
  /\ \A i, j \in ArrayPlaces : i # j => ImageSteps[i].name # ImageSteps[j].name
<1>1. /\ ImageSteps[3].name = "frame_id" /\ ImageSteps[6].name = "encoding"
      /\ ImageSteps[9].name = "data"
  BY ImageStepsAre
<1> QED BY <1>1 DEF ArrayPlaces

\* How much of step i has been sent; only arrays are sent in parts.
PartAt(parts, i) == IF i \in ArrayPlaces THEN parts[ImageSteps[i].name] ELSE 0

\* Step idx is done, and nothing of the arrays behind the next.
OnTheWay(v, cnt, idx, parts) ==
  /\ cnt = Begin(v, idx) + PartAt(parts, idx + 1)
  /\ \A i \in ArrayPlaces : i > idx + 1 => parts[ImageSteps[i].name] = 0

\* Only the data is left, or room for all that comes before it.
OnlyData(v, b, size, idx, parts) ==
  \/ idx = 9
  \/ idx = 8 /\ parts["data"] >= 4
  \/ b = 0 /\ Begin(v, 8) + 4 <= size /\ PartAt(parts, idx + 1) = 0

\* A cursor behind k steps of a fragment that begins at byte b of the message t;
\* "fine" is 1 if the names fit the first fragment.
Cutting(t, v, b, size, fine, c, k) ==
  \E cnt \in Nat : \E idx \in 0 .. 9 : \E parts \in PartsOf(v) : \E out \in Octets :
    /\ OnTheWay(v, cnt, idx, parts) /\ cnt = b + Len(out) /\ Holds(t, b, out)
    /\ \/ /\ Stands(c, cnt, idx, parts, size, out, No) /\ k <= idx
          /\ fine = 1 => Len(out) <= size /\ OnlyData(v, b, size, idx, parts)
       \/ /\ Stands(c, cnt, idx, parts, size, out, Yes) /\ out # <<>>
          /\ fine = 1 => Len(out) = size /\ idx = 8 /\ parts["data"] >= 4

LEMMA LeftOfNothing ==
  ASSUME NEW size \in Nat, 60 <= size, NEW out \in Octets, NEW n \in 1 .. 4, Left(size, out) < n
  PROVE  out # <<>> /\ (Len(out) <= size => size < Len(out) + 4)
<1>1. Len(out) \in Nat /\ Left(size, out) = IF Len(out) <= size THEN size - Len(out) ELSE Huge
  BY LengthNat DEF Left
<1>2. out = <<>> => Len(out) = 0
  OBVIOUS
<1> QED BY <1>1, <1>2

LEMMA CuttingOne ==
  ASSUME NEW v, Image9(v), NEW t, LaidOut(t, v), NEW b \in Nat, NEW size \in Nat, 60 <= size,
         NEW fine, NEW k \in SinglePlaces, NEW cnt \in Nat, NEW parts \in PartsOf(v),
         NEW out \in Octets, OnTheWay(v, cnt, k - 1, parts), cnt = b + Len(out), Holds(t, b, out),
         fine = 1 => Len(out) <= size /\ OnlyData(v, b, size, k - 1, parts),
         NEW d, SendsOne(d, ImageSteps[k].name, ImageSteps[k].size, size, cnt, k - 1, parts, out)
  PROVE  Cutting(t, v, b, size, fine, d, k)
<1> DEFINE n == ImageSteps[k].size
           name == ImageSteps[k].name
<1>k. k \in 1 .. 8 /\ k # 3 /\ k # 6 /\ k \notin ArrayPlaces /\ (k - 1) + 1 = k /\ k - 1 \in 0 .. 7
  BY DEF SinglePlaces, ArrayPlaces
<1>n. n \in 1 .. 4 /\ n \in Sizes /\ n \in Nat
  BY StepFacts
<1>b. Begin(v, k - 1) \in Nat /\ Begin(v, k) \in Nat /\ Begin(v, 8) \in Nat
  <2>1. k - 1 \in 0 .. 9 /\ k \in 0 .. 9 /\ 8 \in 0 .. 9
    BY <1>k
  <2> QED BY <2>1, BeginSteps, Zenon
<1>g. Gap(Begin(v, k - 1), n) \in Nat
  BY <1>b, <1>n, GapFacts, Zenon
<1>1. cnt = Begin(v, k - 1)
  <2>1. cnt = Begin(v, k - 1) + PartAt(parts, k)
    BY <1>k DEF OnTheWay
  <2>2. PartAt(parts, k) = 0
    BY <1>k DEF PartAt
  <2> QED BY <1>b, <2>1, <2>2
<1>l. Len(out) \in Nat
  BY LengthNat
<1>2. /\ Begin(v, k - 1) \in Nat /\ Begin(v, k) \in Nat /\ Begin(v, 8) \in Nat
      /\ Begin(v, k - 1) <= Begin(v, 8) /\ Begin(v, k) <= Begin(v, 8)
      /\ Begin(v, k) = Begin(v, k - 1) + (Gap(Begin(v, k - 1), n) + n)
  <2>1. k - 1 \in 0 .. 8 /\ k \in 0 .. 8
    BY <1>k
  <2>2. Begin(v, k - 1) <= Begin(v, 8) /\ Begin(v, k) <= Begin(v, 8)
    BY <2>1, BeginSteps, Zenon
  <2>3. Begin(v, k) = Begin(v, k - 1) + (Gap(Begin(v, k - 1), n) + n)
    BY BeginSteps, Zenon
  <2> QED BY <1>b, <2>2, <2>3
<1>3. fine = 1 => b = 0 /\ Begin(v, 8) + 4 <= size /\ Len(out) = Begin(v, k - 1)
  BY <1>1, <1>k, <1>l DEF OnlyData
<1>4. PICK w \in Octets :
        /\ w = Zeros(Gap(cnt, n)) \o Element(name, 1, n) /\ Len(w) = Gap(cnt, n) + n
        /\ IF Left(size, out) < n THEN Stands(d, cnt, k - 1, parts, size, out, Yes)
           ELSE Stands(d, cnt + Len(w), (k - 1) + 1, parts, size, out \o w, No)
  BY Zenon DEF SendsOne
<1>5. Holds(t, b + Len(out), w)
  <2>1. SingleHeld(t, v, k)
    BY DEF LaidOut, SinglePlaces
  <2>2. Holds(t, Begin(v, k - 1), Zeros(Gap(Begin(v, k - 1), n)) \o Element(name, 1, n))
    BY <2>1, Zenon DEF SingleHeld
  <2> QED BY <1>1, <1>4, <2>2
<1> HIDE DEF n, name
<1>6. CASE Left(size, out) < n
  <2>1. Stands(d, cnt, k - 1, parts, size, out, Yes)
    BY <1>4, <1>6
  <2>2. out # <<>> /\ (Len(out) <= size => size < Len(out) + 4)
    BY <1>6, <1>n, LeftOfNothing
  <2>3. fine # 1
    BY <1>2, <1>3, <1>l, <2>2
  <2>4. k - 1 \in 0 .. 9
    BY <1>k
  <2> QED BY <2>1, <2>2, <2>3, <2>4, Zenon DEF Cutting
<1>7. CASE ~(Left(size, out) < n)
  <2>1. Stands(d, cnt + Len(w), k, parts, size, out \o w, No)
    BY <1>4, <1>7, <1>k
  <2>2. out \o w \in Octets /\ Len(out \o w) = Len(out) + Len(w) /\ Len(w) \in Nat
    BY OctetsJoin, LengthNat
  <2>3. cnt + Len(w) = Begin(v, k) /\ cnt + Len(w) \in Nat /\ cnt + Len(w) = b + Len(out \o w)
    BY <1>1, <1>2, <1>4, <1>g, <1>l, <2>2
  <2>4. Holds(t, b, out \o w)
    BY <1>5, HoldsJoin
  <2>5. PartAt(parts, k + 1) = 0
    <3>1. \A i \in ArrayPlaces : i > (k - 1) + 1 => parts[ImageSteps[i].name] = 0
      BY DEF OnTheWay
    <3>2. k + 1 > (k - 1) + 1
      BY <1>k
    <3> QED BY <3>1, <3>2 DEF PartAt
  <2>6. OnTheWay(v, cnt + Len(w), k, parts)
    <3>1. \A i \in ArrayPlaces : i > k + 1 => parts[ImageSteps[i].name] = 0
      <4>1. \A i \in ArrayPlaces : i > k + 1 => i > (k - 1) + 1
        BY <1>k DEF ArrayPlaces
      <4> QED BY <4>1 DEF OnTheWay
    <3>2. cnt + Len(w) = Begin(v, k) + PartAt(parts, k + 1)
      BY <1>2, <2>3, <2>5
    <3> QED BY <3>1, <3>2 DEF OnTheWay
  <2>7. fine = 1 => Len(out \o w) <= size /\ OnlyData(v, b, size, k, parts)
    <3>1. fine = 1 => Len(out \o w) <= size
      BY <1>2, <1>3, <1>l, <2>2, <2>3
    <3> QED BY <1>3, <2>5, <3>1, Zenon DEF OnlyData
  <2>8. k \in 0 .. 9 /\ k <= k
    BY <1>k
  <2> QED BY <2>1, <2>2, <2>3, <2>4, <2>6, <2>7, <2>8, Zenon DEF Cutting
<1> QED BY <1>6, <1>7

LEMMA LengthNothing ==
  ASSUME NEW w \in Octets
  PROVE  Len(w) \in Nat /\ (w = <<>> <=> Len(w) = 0)
<1> HIDE DEF Octet
<1>1. w \in Seq(Octet)
  BY DEF Octets
<1> QED BY <1>1

\* An array of which nothing could be sent.
LEMMA CuttingNone ==
  ASSUME NEW v, Image9(v), NEW t, NEW b \in Nat, NEW size \in Nat, 60 <= size,
         NEW fine, NEW k \in ArrayPlaces, NEW cnt \in Nat, NEW parts \in PartsOf(v),
         NEW out \in Octets, OnTheWay(v, cnt, k - 1, parts), cnt = b + Len(out), Holds(t, b, out),
         fine = 1 => Len(out) <= size /\ OnlyData(v, b, size, k - 1, parts),
         parts[ImageSteps[k].name] = 0, Left(size, out) < 4,
         NEW d, Stands(d, cnt, k - 1, parts, size, out, Yes)
  PROVE  Cutting(t, v, b, size, fine, d, k)
<1>k. k \in 1 .. 9 /\ (k - 1) + 1 = k /\ k - 1 \in 0 .. 8 /\ k - 1 \in 0 .. 9 /\ (k - 1 = 8 => k = 9)
  BY DEF ArrayPlaces
<1>b. Begin(v, k - 1) \in Nat /\ Begin(v, 8) \in Nat /\ Begin(v, k - 1) <= Begin(v, 8)
  <2>1. 8 \in 0 .. 9
    OBVIOUS
  <2> QED BY <1>k, <2>1, BeginSteps, Zenon
<1>l. Len(out) \in Nat
  BY LengthNat
<1>1. cnt = Begin(v, k - 1)
  <2>1. cnt = Begin(v, k - 1) + PartAt(parts, k)
    BY <1>k DEF OnTheWay
  <2>2. PartAt(parts, k) = 0
    BY DEF PartAt
  <2> QED BY <1>b, <2>1, <2>2
<1>2. out # <<>> /\ (Len(out) <= size => size < Len(out) + 4)
  <2>1. 4 \in 1 .. 4
    OBVIOUS
  <2> QED BY <2>1, LeftOfNothing
<1>3. fine # 1
  <2>1. ASSUME fine = 1 PROVE FALSE
    <3>1. k - 1 # 9
      BY <1>k
    <3>2. ~(k - 1 = 8 /\ parts["data"] >= 4)
      <4>1. k - 1 = 8 => parts["data"] = 0
        BY <1>k, ArrayNames
      <4> QED BY <4>1
    <3>3. b = 0 /\ Begin(v, 8) + 4 <= size
      BY <2>1, <3>1, <3>2, Zenon DEF OnlyData
    <3> QED BY <1>1, <1>2, <1>b, <1>l, <2>1, <3>3
  <2> QED BY <2>1
<1> QED BY <1>2, <1>3, <1>k, Zenon DEF Cutting

LEMMA CuttingMany ==
  ASSUME NEW v, Image9(v), NEW t, LaidOut(t, v), NEW b \in Nat, NEW size \in Nat, 60 <= size,
         NEW fine, NEW k \in ArrayPlaces, NEW cnt \in Nat, NEW parts \in PartsOf(v),
         NEW out \in Octets, OnTheWay(v, cnt, k - 1, parts), cnt = b + Len(out), Holds(t, b, out),
         fine = 1 => Len(out) <= size /\ OnlyData(v, b, size, k - 1, parts),
         NEW name, name = ImageSteps[k].name, NEW length, length = v[name],
         NEW d, Sends(d, name, length, size, cnt, k - 1, parts, parts[name], out)
  PROVE  Cutting(t, v, b, size, fine, d, k)
<1>k. /\ k \in 1 .. 9 /\ (k - 1) + 1 = k /\ k - 1 \in 0 .. 8 /\ k - 1 \in 0 .. 9
      /\ (k - 1 = 8 <=> k = 9) /\ k \in 0 .. 9 /\ k <= k /\ k + 1 \notin ArrayPlaces
  BY DEF ArrayPlaces
<1>b. /\ Begin(v, k - 1) \in Nat /\ Begin(v, k) \in Nat /\ Begin(v, 8) \in Nat
      /\ Begin(v, k - 1) <= Begin(v, 8)
      /\ Begin(v, k) = Begin(v, k - 1) + (4 + length)
      /\ (k # 9 => Begin(v, k) <= Begin(v, 8))
  <2>1. 8 \in 0 .. 9 /\ (k # 9 => k \in 0 .. 8)
    BY <1>k
  <2>2. Begin(v, k) = Begin(v, k - 1) + (4 + v[name])
    BY BeginSteps, Zenon
  <2> QED BY <1>k, <2>1, <2>2, BeginSteps, Zenon
<1>n. /\ name \in Arrays /\ length \in Nat /\ (k = 9 => name = "data")
      /\ \A i \in ArrayPlaces : /\ ImageSteps[i].name \in Arrays
                                /\ i # k => ImageSteps[i].name # name
  <2>1. name \in Arrays /\ length \in Nat /\ \A i \in ArrayPlaces : ImageSteps[i].name \in Arrays
    BY StepFacts, Zenon
  <2>2. k = 9 => name = "data"
    BY ArrayNames
  <2>3. \A i \in ArrayPlaces : i # k => ImageSteps[i].name # name
    BY ArrayNames, Zenon
  <2> QED BY <2>1, <2>2, <2>3
<1>l. Len(out) \in Nat /\ (out = <<>> <=> Len(out) = 0)
  BY LengthNothing
<1> DEFINE had == parts[name]
<1>h. had \in Nat
  BY <1>n DEF PartsOf
<1>1. cnt = Begin(v, k - 1) + had
  <2>1. cnt = Begin(v, k - 1) + PartAt(parts, k)
    BY <1>k DEF OnTheWay
  <2> QED BY <2>1 DEF PartAt
<1> HIDE DEF had
<1>2. PICK to \in 0 .. length, w \in Octets :
        /\ Cut(name, length, had, size, out, to, w)
        /\ Stands(d, cnt + Len(w), IF to = length THEN (k - 1) + 1 ELSE k - 1,
                  [parts EXCEPT ![name] = 4 + to], size, out \o w, IF to = length THEN No ELSE Yes)
  BY Zenon DEF Sends, had
<1>3. /\ had + Len(w) = 4 + to
      /\ Len(out) <= size => Len(out) + Len(w) <= size /\ (to # length => Len(out) + Len(w) = size)
      /\ \A buffer : \A at \in Nat :
           ArrayHeld(buffer, at, name, length) => Holds(buffer, at + had, w)
  BY <1>2, Zenon DEF Cut
<1>4. out \o w \in Octets /\ Len(out \o w) = Len(out) + Len(w) /\ Len(w) \in Nat
      /\ (out \o w = <<>> <=> Len(out) + Len(w) = 0)
  BY OctetsJoin, LengthNothing
<1>5. Holds(t, b, out \o w)
  <2>1. ManyHeld(t, v, k)
    BY DEF LaidOut, ArrayPlaces
  <2>2. ArrayHeld(t, Begin(v, k - 1), name, length)
    BY <2>1, Zenon DEF ManyHeld
  <2>3. Holds(t, Begin(v, k - 1) + had, w)
    BY <1>3, <1>b, <2>2, Zenon
  <2>4. Holds(t, b + Len(out), w)
    BY <1>1, <2>3
  <2> QED BY <2>4, HoldsJoin
<1> DEFINE p == [parts EXCEPT ![name] = 4 + to]
           more == out \o w
           now == cnt + Len(w)
<1>p. p = [parts EXCEPT ![name] = 4 + to] /\ to \in 0 .. v[name] /\ v[name] \in Nat
  BY <1>n
<1>m. more \in Octets /\ Len(more) = Len(out) + Len(w) /\ Holds(t, b, more)
      /\ (more = <<>> <=> Len(more) = 0)
  BY <1>4, <1>5
<1>s. Stands(d, now, IF to = length THEN (k - 1) + 1 ELSE k - 1, p, size, more,
             IF to = length THEN No ELSE Yes)
  BY <1>2
<1> HIDE DEF p, more
<1>6. p \in PartsOf(v) /\ p[name] = 4 + to /\ \A other \in Arrays : other # name => p[other] = parts[other]
  <2>1. name \in Arrays /\ v[name] \in Nat /\ to \in 0 .. v[name]
    BY <1>n, <1>p
  <2>2. SentTo(v, parts, name, to, p)
    BY <2>1, PartsSent DEF p
  <2> QED BY <2>2, Zenon DEF SentTo
<1>7. now = Begin(v, k - 1) + (4 + to) /\ now = b + Len(more) /\ now \in Nat
  <2>1. had + Len(w) = 4 + to /\ Len(w) \in Nat /\ to \in Nat
    BY <1>3, <1>4, <1>n
  <2>2. Len(more) = Len(out) + Len(w) /\ Len(out) \in Nat /\ Begin(v, k - 1) \in Nat
    BY <1>b, <1>l, <1>m
  <2> QED BY <1>1, <1>h, <2>1, <2>2, SMTT(30)
<1> HIDE DEF now
<1>8. \A i \in ArrayPlaces : i > k => p[ImageSteps[i].name] = 0
  <2> TAKE i \in ArrayPlaces
  <2> HAVE i > k
  <2>1. i # k /\ i > (k - 1) + 1
    BY <1>k DEF ArrayPlaces
  <2>2. parts[ImageSteps[i].name] = 0
    BY <2>1 DEF OnTheWay
  <2> QED BY <1>6, <1>n, <2>1, <2>2
<1>9. CASE to = length
  <2>1. Stands(d, now, k, p, size, more, No)
    BY <1>9, <1>s, <1>k
  <2>2. PartAt(p, k + 1) = 0
    BY <1>k DEF PartAt
  <2>3. OnTheWay(v, now, k, p)
    <3>1. now = Begin(v, k) + PartAt(p, k + 1)
      BY <1>7, <1>9, <1>b, <2>2
    <3>2. \A i \in ArrayPlaces : i > k + 1 => i > k
      BY <1>k DEF ArrayPlaces
    <3> QED BY <1>8, <3>1, <3>2 DEF OnTheWay
  <2>4. fine = 1 => Len(more) <= size /\ OnlyData(v, b, size, k, p)
    <3>1. fine = 1 => Len(more) <= size
      BY <1>3, <1>m
    <3>2. fine = 1 /\ k # 9 => OnlyData(v, b, size, k, p)
      <4>1. fine = 1 /\ k # 9 => b = 0 /\ Begin(v, 8) + 4 <= size
        BY <1>k DEF OnlyData
      <4> QED BY <2>2, <4>1 DEF OnlyData
    <3>3. k = 9 => OnlyData(v, b, size, k, p)
      BY DEF OnlyData
    <3> QED BY <3>1, <3>2, <3>3
  <2> QED BY <1>6, <1>7, <1>k, <1>m, <2>1, <2>3, <2>4, Zenon DEF Cutting
<1>10. CASE to # length
  <2>1. Stands(d, now, k - 1, p, size, more, Yes)
    BY <1>10, <1>s
  <2>2. OnTheWay(v, now, k - 1, p)
    <3>1. PartAt(p, k) = 4 + to
      BY <1>6 DEF PartAt
    <3> QED BY <1>7, <1>8, <1>k, <3>1 DEF OnTheWay
  <2>3. more # <<>>
    BY <1>3, <1>l, <1>m, <1>10, <1>4
  <2>4. fine = 1 => Len(more) = size /\ k - 1 = 8 /\ p["data"] >= 4
    <3>1. fine = 1 => Len(more) = size
      BY <1>3, <1>m, <1>10
    <3>2. ASSUME fine = 1, k # 9 PROVE FALSE
      <4>1. b = 0 /\ Begin(v, 8) + 4 <= size
        BY <1>k, <3>2 DEF OnlyData
      <4>2. size = Begin(v, k - 1) + (4 + to)
        BY <1>7, <3>1, <3>2, <4>1, <1>m, <1>l, <1>4
      <4>3. Begin(v, k - 1) + (4 + length) <= Begin(v, 8)
        BY <1>b, <3>2
      <4>4. length \in Nat /\ to < length
        BY <1>10, <1>n
      <4>5. Begin(v, k - 1) \in Nat /\ Begin(v, 8) \in Nat /\ to \in Nat
        BY <1>b
      <4> QED BY <4>1, <4>2, <4>3, <4>4, <4>5, SMTT(30)
    <3>3. k = 9 => p["data"] >= 4
      BY <1>6, <1>n
    <3> QED BY <1>k, <3>1, <3>2, <3>3
  <2> QED BY <1>6, <1>7, <1>k, <1>m, <2>1, <2>2, <2>3, <2>4, Zenon DEF Cutting
<1> QED BY <1>9, <1>10

LEMMA CuttingStep ==
  ASSUME NEW v, Image9(v), NEW t, LaidOut(t, v), NEW b \in Nat, NEW size \in Nat, 60 <= size,
         NEW fine, NEW k \in 1 .. 9, NEW c, Cutting(t, v, b, size, fine, c, k - 1)
  PROVE  Cutting(t, v, b, size, fine, CutStep(v, c, k), k)
<1>1. PICK cnt \in Nat, idx \in 0 .. 9, parts \in PartsOf(v), out \in Octets :
        /\ OnTheWay(v, cnt, idx, parts) /\ cnt = b + Len(out) /\ Holds(t, b, out)
        /\ \/ /\ Stands(c, cnt, idx, parts, size, out, No) /\ k - 1 <= idx
              /\ fine = 1 => Len(out) <= size /\ OnlyData(v, b, size, idx, parts)
           \/ /\ Stands(c, cnt, idx, parts, size, out, Yes) /\ out # <<>>
              /\ fine = 1 => Len(out) = size /\ idx = 8 /\ parts["data"] >= 4
  BY Zenon DEF Cutting
<1>2. CASE Stands(c, cnt, idx, parts, size, out, Yes)
  <2>1. c.out_of_room /\ ~Stands(c, cnt, idx, parts, size, out, No)
    BY <1>2, WhetherShort
  <2>2. CutStep(v, c, k) = c
    BY <2>1 DEF CutStep
  <2> QED BY <1>1, <2>1, <2>2, Zenon DEF Cutting
<1>3. CASE Stands(c, cnt, idx, parts, size, out, No)
  <2>1. ~c.out_of_room /\ ~Stands(c, cnt, idx, parts, size, out, Yes) /\ c.msg.idx = idx
    BY <1>3, WhetherShort, StandsAt
  <2>2. k - 1 <= idx /\ (fine = 1 => Len(out) <= size /\ OnlyData(v, b, size, idx, parts))
    BY <1>1, <2>1
  <2>3. CASE k <= idx
    <3>1. CutStep(v, c, k) = c
      BY <2>1, <2>3, Zenon DEF CutStep
    <3> QED BY <1>1, <1>3, <2>2, <2>3, <3>1, Zenon DEF Cutting
  <2>4. CASE ~(k <= idx)
    <3>1. idx = k - 1
      BY <2>2, <2>4
    <3>2. /\ OnTheWay(v, cnt, k - 1, parts) /\ cnt = b + Len(out) /\ Holds(t, b, out)
          /\ fine = 1 => Len(out) <= size /\ OnlyData(v, b, size, k - 1, parts)
          /\ Stands(c, cnt, k - 1, parts, size, out, No)
      BY <1>1, <1>3, <2>2, <3>1, Zenon
    <3>3. CASE k \in SinglePlaces
      <4> DEFINE f == ImageSteps[k]
                 d == CopyPrimToFragBufLocal(c, f)
      <4>1. f.name \in Names /\ f.size \in Sizes /\ CutStep(v, c, k) = d
        BY <2>1, <2>4, <3>3, StepFacts DEF CutStep
      <4>2. d = CopyPrimToFragBufLocal(c, f) /\ f = ImageSteps[k]
        OBVIOUS
      <4> HIDE DEF d, f
      <4>3. SendsOne(d, f.name, f.size, size, cnt, k - 1, parts, out)
        BY <3>2, <4>1, <4>2, CutOne
      <4>4. SendsOne(d, ImageSteps[k].name, ImageSteps[k].size, size, cnt, k - 1, parts, out)
        BY <4>2, <4>3
      <4>5. Cutting(t, v, b, size, fine, d, k)
        BY <3>2, <3>3, <4>4, CuttingOne
      <4> QED BY <4>1, <4>5
    <3>4. CASE k \in ArrayPlaces
      <4> DEFINE name == ImageSteps[k].name
                 length == v[name]
                 d == CopyArrayToFragBufLocal(c, name, length)
      <4>1. name \in Names /\ name \in Arrays /\ length \in Nat /\ CutStep(v, c, k) = d
        BY <2>1, <2>4, <3>4, StepFacts DEF CutStep
      <4>2. d = CopyArrayToFragBufLocal(c, name, length) /\ name = ImageSteps[k].name
            /\ length = v[name]
        OBVIOUS
      <4> HIDE DEF d, name, length
      <4>3. parts \in [Arrays -> Nat] /\ parts[name] \in {0} \cup 4 .. 4 + length
        BY <4>1, <4>2 DEF PartsOf
      <4>4. \/ /\ parts[name] = 0 /\ Left(size, out) < 4
               /\ Stands(d, cnt, k - 1, parts, size, out, Yes)
            \/ Sends(d, name, length, size, cnt, k - 1, parts, parts[name], out)
        BY <3>2, <4>1, <4>2, <4>3, CutArray
      <4>5. CASE parts[name] = 0 /\ Left(size, out) < 4 /\ Stands(d, cnt, k - 1, parts, size, out, Yes)
        <5>1. parts[ImageSteps[k].name] = 0
          BY <4>2, <4>5
        <5>2. Cutting(t, v, b, size, fine, d, k)
          BY <3>2, <3>4, <4>5, <5>1, CuttingNone
        <5> QED BY <4>1, <5>2
      <4>6. CASE Sends(d, name, length, size, cnt, k - 1, parts, parts[name], out)
        <5>1. Cutting(t, v, b, size, fine, d, k)
          BY <3>2, <3>4, <4>2, <4>6, CuttingMany
        <5> QED BY <4>1, <5>1
      <4> QED BY <4>4, <4>5, <4>6
    <3> QED BY <3>3, <3>4, StepFacts
  <2> QED BY <2>3, <2>4
<1> QED BY <1>1, <1>2, <1>3

CutStepsOf(v, c, it) ==
  [T \in SUBSET DOMAIN [i \in 1 .. 9 |-> i] |->
     IF T = {} THEN c ELSE CutStep(v, it[T \ {Max(T)}], [i \in 1 .. 9 |-> i][Max(T)])]

\* Where copyToFragBuf ends.
CutEnd(v, c) == (CHOOSE it : it = CutStepsOf(v, c, it))[DOMAIN [i \in 1 .. 9 |-> i]]

\* What copyToFragBuf returns when it ends there.
Returned(m, v, size, end) ==
  IF end.out_of_room THEN Fragment(FALSE, Len(end.out), end)
  ELSE Fragment(end.msg.cntPub >= ImageRawSize(v), Min({ImageRawSize(v) - m.cntPub, size}), end)

LEMMA ImageIsFold ==
  ASSUME NEW m, NEW v, NEW size
  PROVE  ImageToFragBuf(m, v, size) = Returned(m, v, size, CutEnd(v, FragmentCursor(m, size)))
BY DEF ImageToFragBuf, FoldLeft, MapThenFoldSet, CutStepsOf, CutStep, CutEnd, Returned

CutRows(c, v, rows) ==
  rows[0] = c /\ \A k \in 1 .. 9 : rows[k] = CutStep(v, rows[k - 1], k)

LEMMA CutEndRows ==
  ASSUME NEW v, Image9(v), NEW size \in Nat, NEW c \in Cutters(v, size)
  PROVE  \E rows : CutRows(c, v, rows) /\ rows[9] = CutEnd(v, c)
<1> DEFINE V == Cutters(v, size)
           steps == [k \in 1 .. 9 |-> [x \in V |-> CutStep(v, x, k)]]
           t == CHOOSE it : it = CutStepsOf(v, c, it)
           rows == [k \in 0 .. 9 |-> t[1 .. k]]
<1>0. /\ 9 \in Nat /\ DOMAIN [i \in 1 .. 9 |-> i] = 1 .. 9
      /\ \A k \in 1 .. 9 : [i \in 1 .. 9 |-> i][k] = k
  OBVIOUS
<1>1. c \in V
  OBVIOUS
<1>2. \A k \in 1 .. 9 : \A x \in V : CutStep(v, x, k) \in V
  BY CutStepKeeps
<1> HIDE DEF V
<1>3. \E it : it = CutStepsOf(v, c, it)
  <2>1. \A k \in 1 .. 9 : \A x \in V : steps[k][x] = CutStep(v, x, k) /\ steps[k][x] \in V
    BY <1>2
  <2> HIDE DEF steps
  <2>2. PICK it : Made(9, V, c, steps, it)
    BY <1>0, <1>1, <2>1, FoldMade
  <2>3. it = CutStepsOf(v, c, it)
    <3>1. \A T \in SUBSET (1 .. 9) : T # {} =>
            it[T] = CutStep(v, it[T \ {Max(T)}], [i \in 1 .. 9 |-> i][Max(T)])
      BY <1>0, <2>1, <2>2, Zenon DEF Made
    <3> QED BY <1>0, <2>2, <3>1, Zenon DEF CutStepsOf, Made
  <2> QED BY <2>3
<1>4. t = [T \in SUBSET (1 .. 9) |->
             IF T = {} THEN c ELSE CutStep(v, t[T \ {Max(T)}], [i \in 1 .. 9 |-> i][Max(T)])]
  BY <1>0, <1>3, Zenon DEF CutStepsOf
<1>8. rows[9] = CutEnd(v, c)
  BY <1>0 DEF CutEnd
<1> HIDE DEF t
<1>5. rows[0] = c
  BY <1>0, <1>4, FoldPlaces
<1>6. ASSUME NEW k \in 1 .. 9
      PROVE  rows[k] = CutStep(v, rows[k - 1], k)
  <2>1. /\ 1 .. k \in SUBSET (1 .. 9) /\ 1 .. k # {}
        /\ Max(1 .. k) = k /\ (1 .. k) \ {k} = 1 .. k - 1 /\ k - 1 \in 0 .. 9 /\ k \in 0 .. 9
    <3>1. \A n \in Nat : k \in 1 .. n =>
            /\ 1 .. k \in SUBSET (1 .. n) /\ 1 .. k # {}
            /\ Max(1 .. k) = k /\ (1 .. k) \ {k} = 1 .. k - 1 /\ k - 1 \in 0 .. n /\ k \in 0 .. n
      BY FoldPlaces
    <3> QED BY <1>0, <3>1, Zenon
  <2>2. t[1 .. k] = CutStep(v, t[1 .. k - 1], [i \in 1 .. 9 |-> i][k])
    BY <1>4, <2>1, Zenon
  <2> QED BY <1>0, <2>1, <2>2
<1> HIDE DEF rows
<1> QED BY <1>5, <1>6, <1>8, Zenon DEF CutRows

LEMMA CuttingBegins ==
  ASSUME NEW v, NEW t, NEW b \in Nat, NEW size \in Nat, NEW fine,
         NEW idx \in 0 .. 9, NEW parts \in PartsOf(v), OnTheWay(v, b, idx, parts),
         fine = 1 => OnlyData(v, b, size, idx, parts),
         NEW c, c = FragmentCursor(At(b, idx, parts), size)
  PROVE  Cutting(t, v, b, size, fine, c, 0) /\ c \in Cutters(v, size)
<1> DEFINE none == <<>>
<1>1. none \in Octets /\ Len(none) = 0
  BY DEF Octets
<1>2. Holds(t, b, none)
  BY DEF Holds
<1>3. Stands(c, b, idx, parts, size, none, No)
  BY Zenon DEF Stands, Cutter, FragmentCursor, No
<1> HIDE DEF none
<1>4. b = b + Len(none) /\ (fine = 1 => Len(none) <= size) /\ 0 <= idx
  BY <1>1
<1>5. Cutting(t, v, b, size, fine, c, 0)
  BY <1>1, <1>2, <1>3, <1>4, Zenon DEF Cutting
<1>6. c \in Cutters(v, size)
  <2>1. idx \in Nat
    OBVIOUS
  <2> QED BY <1>1, <1>3, <2>1, CuttersStand
<1> QED BY <1>5, <1>6

\* Where nine steps lead.
LEMMA CuttingEnds ==
  ASSUME NEW v, Image9(v), NEW t, LaidOut(t, v), NEW b \in Nat, NEW size \in Nat, 60 <= size,
         NEW fine, NEW idx \in 0 .. 9, NEW parts \in PartsOf(v), OnTheWay(v, b, idx, parts),
         fine = 1 => OnlyData(v, b, size, idx, parts),
         NEW end, end = CutEnd(v, FragmentCursor(At(b, idx, parts), size))
  PROVE  Cutting(t, v, b, size, fine, end, 9)
<1> DEFINE c == FragmentCursor(At(b, idx, parts), size)
<1>1. Cutting(t, v, b, size, fine, c, 0) /\ c \in Cutters(v, size)
  BY CuttingBegins
<1> HIDE DEF c
<1>2. PICK rows : CutRows(c, v, rows) /\ rows[9] = CutEnd(v, c)
  BY <1>1, CutEndRows
<1> DEFINE P(k) == k \in 0 .. 9 => Cutting(t, v, b, size, fine, rows[k], k)
<1>3. P(0)
  BY <1>1, <1>2 DEF CutRows
<1>4. ASSUME NEW k \in Nat, P(k)
      PROVE  P(k + 1)
  <2>1. CASE k + 1 \in 0 .. 9
    <3>1. k + 1 \in 1 .. 9 /\ k \in 0 .. 9 /\ (k + 1) - 1 = k
      BY <2>1
    <3>2. rows[k + 1] = CutStep(v, rows[(k + 1) - 1], k + 1)
      BY <1>2, <3>1, Zenon DEF CutRows
    <3>3. Cutting(t, v, b, size, fine, rows[(k + 1) - 1], (k + 1) - 1)
      BY <1>4, <3>1
    <3>4. Cutting(t, v, b, size, fine, CutStep(v, rows[(k + 1) - 1], k + 1), k + 1)
      BY <3>1, <3>3, CuttingStep
    <3> QED BY <3>2, <3>4
  <2> QED BY <2>1
<1> DEFINE I == {k \in Nat : P(k)}
<1>5. Nat \subseteq I
  <2> HIDE DEF P
  <2>1. 0 \in I
    BY <1>3
  <2>2. \A k \in Nat : k \in I => k + 1 \in I
    BY <1>4
  <2> HIDE DEF I
  <2> QED BY <2>1, <2>2, NatSetInduction
<1>6. P(9)
  <2> HIDE DEF P
  <2> QED BY <1>5
<1>7. Cutting(t, v, b, size, fine, rows[9], 9)
  BY <1>6 DEF P
<1> QED BY <1>2, <1>7 DEF c

\* A fragment of an image: all the rest of it, or as much as there was room for.
ImagePiece(t, v, b, size, fine, F) ==
  \E idx \in 0 .. 9 : \E parts \in PartsOf(v) : \E out \in Octets :
    /\ F.bytes = out /\ F.msg = At(b + Len(out), idx, parts)
    /\ OnTheWay(v, b + Len(out), idx, parts) /\ Holds(t, b, out)
    /\ IF F.done
       THEN /\ idx = 9 /\ b + Len(out) = Len(t) /\ F.length \in Nat
            /\ fine = 1 => F.length = Len(out)
       ELSE /\ F.length = Len(out) /\ out # <<>>
            /\ fine = 1 => Len(out) = size /\ idx = 8 /\ parts["data"] >= 4

LEMMA FragmentFields ==
  ASSUME NEW done, NEW length, NEW c
  PROVE  /\ Fragment(done, length, c).length = length /\ Fragment(done, length, c).bytes = c.out
         /\ Fragment(done, length, c).msg = c.msg /\ Fragment(done, length, c).done = done
BY Zenon DEF Fragment

LEMMA ImageFragment ==
  ASSUME NEW v, Image9(v), NEW t, LaidOut(t, v), NEW b \in Nat, NEW size \in Nat, 60 <= size,
         NEW fine, NEW idx \in 0 .. 9, NEW parts \in PartsOf(v), OnTheWay(v, b, idx, parts),
         fine = 1 => OnlyData(v, b, size, idx, parts)
  PROVE  ImagePiece(t, v, b, size, fine, ImageToFragBuf(At(b, idx, parts), v, size))
<1> DEFINE m == At(b, idx, parts)
           end == CutEnd(v, FragmentCursor(m, size))
           F == ImageToFragBuf(m, v, size)
           total == ImageRawSize(v)
<1>1. Cutting(t, v, b, size, fine, end, 9)
  BY CuttingEnds
<1>2. F = Returned(m, v, size, end) /\ m.cntPub = b
  BY ImageIsFold DEF At
<1> HIDE DEF end, F, m
<1>3. PICK cnt \in Nat, at \in 0 .. 9, sent1 \in PartsOf(v), out \in Octets :
        /\ OnTheWay(v, cnt, at, sent1) /\ cnt = b + Len(out) /\ Holds(t, b, out)
        /\ \/ /\ Stands(end, cnt, at, sent1, size, out, No) /\ 9 <= at
              /\ fine = 1 => Len(out) <= size /\ OnlyData(v, b, size, at, sent1)
           \/ /\ Stands(end, cnt, at, sent1, size, out, Yes) /\ out # <<>>
              /\ fine = 1 => Len(out) = size /\ at = 8 /\ sent1["data"] >= 4
  BY <1>1, Zenon DEF Cutting
<1>4. Len(out) \in Nat
  BY LengthNat
<1>5. CASE Stands(end, cnt, at, sent1, size, out, Yes)
  <2>1. end.out_of_room /\ ~Stands(end, cnt, at, sent1, size, out, No)
    BY <1>5, WhetherShort
  <2>2. end.msg = At(cnt, at, sent1) /\ end.out = out
    BY <1>5, StandsAt
  <2>3. F = Fragment(FALSE, Len(end.out), end)
    BY <1>2, <2>1, Zenon DEF Returned
  <2>4. F.bytes = out /\ F.length = Len(out) /\ F.msg = At(cnt, at, sent1) /\ ~F.done
    <3>1. F = Fragment(No, Len(end.out), end)
      BY <2>3, Zenon DEF No
    <3>2. F.bytes = end.out /\ F.length = Len(end.out) /\ F.msg = end.msg /\ F.done = No
      BY <3>1, FragmentFields
    <3>3. ~F.done
      BY <3>2, Zenon DEF No
    <3> QED BY <2>2, <3>2, <3>3, Zenon
  <2>5. out # <<>> /\ (fine = 1 => Len(out) = size /\ at = 8 /\ sent1["data"] >= 4)
    BY <1>3, <2>1
  <2> QED BY <1>3, <2>4, <2>5, Zenon DEF ImagePiece, F, m
<1>6. CASE Stands(end, cnt, at, sent1, size, out, No)
  <2>1. ~end.out_of_room /\ ~Stands(end, cnt, at, sent1, size, out, Yes)
    BY <1>6, WhetherShort
  <2>2. end.msg = At(cnt, at, sent1) /\ end.out = out /\ end.msg.cntPub = cnt
    BY <1>6, StandsAt
  <2>3. at = 9 /\ (fine = 1 => Len(out) <= size)
    BY <1>3, <2>1
  <2>4. cnt = Begin(v, 9)
    <3>1. cnt = Begin(v, 9) + PartAt(sent1, 9 + 1)
      BY <1>3, <2>3 DEF OnTheWay
    <3>2. PartAt(sent1, 9 + 1) = 0
      BY DEF PartAt, ArrayPlaces
    <3>3. Begin(v, 9) \in Nat
      BY BeginSteps
    <3> QED BY <3>1, <3>2, <3>3
  <2>5. total = Begin(v, 9) /\ Len(t) = Begin(v, 9)
    <3>1. Begin(v, 9) = 32 + Padded(v["frame_id"]) + Padded(v["encoding"] + 1) + v["data"]
      BY BeginIs
    <3>2. Padded(v["frame_id"]) \in Nat /\ Padded(v["encoding"] + 1) \in Nat /\ v["data"] \in Nat
      <4>1. v["frame_id"] \in Nat /\ v["encoding"] + 1 \in Nat /\ v["data"] \in Nat
        BY DEF Image9
      <4>2. \A n \in Nat : Padded(n) \in Nat
        <5> TAKE n \in Nat
        <5>1. PICK k \in Nat : Padded(n) = 4 * k
          BY PaddedWords
        <5> QED BY <5>1
      <4> QED BY <4>1, <4>2
    <3>3. total = 32 + Padded(v["frame_id"]) + Padded(v["encoding"] + 1) + v["data"]
      BY <3>2 DEF ImageRawSize
    <3> QED BY <3>1, <3>3 DEF LaidOut
  <2> DEFINE length == Min({total - b, size})
             done == end.msg.cntPub >= total
  <2>6. done
    BY <1>3, <2>2, <2>4, <2>5
  <2>7. length \in Nat /\ (fine = 1 => length = Len(out))
    <3>1. total - b = Len(out)
      BY <1>3, <1>4, <2>4, <2>5
    <3>2. Min({total - b, size}) = IF total - b <= size THEN total - b ELSE size
      BY <1>4, <3>1, MinOf
    <3> QED BY <1>4, <2>3, <3>1, <3>2
  <2> HIDE DEF length, done
  <2>8. F = Fragment(done, length, end)
    BY <1>2, <2>1, Zenon DEF Returned, length, done
  <2>9. F.bytes = out /\ F.length = length /\ F.msg = At(cnt, at, sent1) /\ F.done
    <3>1. F.bytes = end.out /\ F.length = length /\ F.msg = end.msg /\ F.done = done
      BY <2>8, FragmentFields
    <3>2. F.done
      BY <2>6, <3>1, Zenon
    <3> QED BY <2>2, <3>1, <3>2, Zenon
  <2>10. b + Len(out) = Len(t)
    BY <1>3, <2>4, <2>5
  <2> QED BY <1>3, <2>3, <2>7, <2>9, <2>10, Zenon DEF ImagePiece, F, m
<1> QED BY <1>3, <1>5, <1>6

-----------------------------------------------------------------------------
(* A string in fragments. *)

LEMMA StringLaidOut ==
  ASSUME StringClass \in Classes, NEW v \in Values(StringClass),
         NEW copied, copied = CopyToBuf(StringClass.writes, v, 0, AllZero(StringClass)),
         NEW n, n = v["data"]
  PROVE  /\ n \in Nat /\ "data" \in Names
         /\ copied.out \in Octets /\ Len(copied.out) = 4 + n /\ copied.cnt = 4 + n
         /\ ArrayHeld(copied.out, 0, "data", n)
<1> DEFINE fs == StringClass.writes
           N == NestedNames(StringClass)
           counts == AllZero(StringClass)
           start == Start(0, counts)
<1>0. fs = <<Plain("string", "data")>> /\ Len(fs) = 1 /\ fs[1] = Plain("string", "data")
  BY DEF StringClass, Class
<1>1. Members(fs, v, 1, N)
  <2>1. Members(fs, v, Len(fs), N)
    BY ClassMembers
  <2> HIDE DEF fs, N
  <2> QED BY <1>0, <2>1
<1>2. start \in Cursors(N) /\ Writer(start) /\ start.cnt = 0 /\ start.out = <<>>
  <2>1. counts \in [N -> Nat] /\ <<>> \in Octets /\ 0 \in Nat
    BY DEF AllZero, Octets
  <2>2. start \in Cursors(N) /\ start.cnt = 0 /\ start.out = <<>>
    <3> HIDE DEF counts, N
    <3> QED BY <2>1 DEF Start, Cursors
  <2> QED BY <2>2, CursorWrites
<1>c. copied = CopyToBuf(fs, v, 0, counts)
  OBVIOUS
<1> HIDE DEF fs, counts
<1>3. PICK rows : PutMemberRows(start, fs, v, 1, rows) /\ rows[1] = copied
  BY <1>1, <1>2, <1>c, CopyToBufRows
<1> HIDE DEF start
<1>4. fs[1].kind = "string" /\ fs[1].name = "data"
  BY <1>0, PlainKind
<1>5. "data" \in Names /\ n \in Nat
  <2>1. 1 \in 1 .. 1
    OBVIOUS
  <2>2. Suits(fs[1], v, N)
    BY <1>1, <2>1, Zenon DEF Members
  <2>3. Fits(fs[1], v)
    BY <1>4, <2>2 DEF Suits
  <2> QED BY <1>4, <2>3 DEF Fits
<1>6. copied = PutFlat(start, fs[1], v)
  <2>1. rows[1] = PutMember(rows[1 - 1], fs[1], v) /\ rows[0] = start
    <3>1. 1 \in 1 .. 1
      OBVIOUS
    <3> QED BY <1>3, <3>1, Zenon DEF PutMemberRows
  <2>2. 1 - 1 = 0 /\ fs[1].kind # "custom"
    BY <1>4
  <2>3. rows[1] = PutMember(start, fs[1], v)
    BY <2>1, <2>2
  <2> QED BY <1>3, <2>2, <2>3, Zenon DEF PutMember
<1>7. copied = Put(Put(Align(start, 4), Count(n)), Elements("data", n, 1))
  BY <1>4, <1>6, StringHas
<1> DEFINE w == Count(n) \o Elements("data", n, 1)
<1>8. Has(start, <<>>) /\ Gap(Len(<<>>), 4) = 0
  <2>1. Len(<<>>) = 0 /\ <<>> \in Octets /\ Gap(0, 4) = 0
    BY DEF Octets, Gap
  <2> QED BY <1>2, <2>1 DEF Has
<1>9. w \in Octets /\ Has(copied, <<>> \o w) /\ Len(<<>> \o w) = Len(<<>>) + 4 + n
  <2> DEFINE none == <<>>
  <2>1. Has(start, none) /\ Gap(Len(none), 4) = 0
    BY <1>8
  <2>2. w = Count(n) \o Elements("data", n, 1)
    OBVIOUS
  <2> DEFINE more == none \o w
  <2>3. more = none \o w
    OBVIOUS
  <2> HIDE DEF none, w, more
  <2>4. Grown(start, none, w, Len(none) + 4 + n, copied, more)
    BY <1>5, <1>7, <2>1, <2>2, <2>3, ManyGrown
  <2>5. w \in Octets /\ Has(copied, more) /\ Len(more) = Len(none) + 4 + n
    BY <2>4, Zenon DEF Grown
  <2> QED BY <2>3, <2>5 DEF none
<1>10. <<>> \o w = w /\ Len(w) = 4 + n
  <2>0. w \in Octets
    BY <1>9
  <2> HIDE DEF w
  <2>1. <<>> \o w = w
    BY <2>0, JoinsEmpty DEF Octets
  <2>2. Len(<<>>) = 0
    OBVIOUS
  <2> QED BY <1>5, <1>9, <2>1, <2>2
<1>11. copied.out = w /\ copied.cnt = 4 + n
  <2> HIDE DEF w
  <2> QED BY <1>9, <1>10 DEF Has
<1>12. ArrayHeld(w, 0, "data", n)
  <2>1. Holds(w, 0, w)
    BY <1>9, HoldsItself
  <2>2. <<>> \in Octets /\ Len(<<>>) = 0
    BY DEF Octets
  <2>3. Holds(w, 0, <<>> \o (Count(n) \o Elements("data", n, 1)))
    BY <1>10, <2>1
  <2> HIDE DEF w
  <2>4. ArrayHeld(w, Len(<<>>), "data", n)
    BY <1>5, <2>2, <2>3, CountedHeld
  <2> QED BY <2>2, <2>4
<1> HIDE DEF w
<1> QED BY <1>5, <1>9, <1>10, <1>11, <1>12

\* A fragment of a string.
StringPiece(t, b, size, idx, parts, F) ==
  \E out \in Octets :
    /\ F.bytes = out /\ F.msg = At(b + Len(out), idx, parts) /\ F.length = Len(out)
    /\ Holds(t, b, out) /\ Len(out) <= size /\ b + Len(out) \in 4 .. Len(t)
    /\ IF F.done THEN b + Len(out) = Len(t) ELSE Len(out) = size /\ b + Len(out) < Len(t)

\* Behind the length word, with "out" sent in this fragment.
StringRest(c, v) ==
  Emit(c, Piece("data", c.msg.cntPub - 4, Min({v["data"] - (c.msg.cntPub - 4), Room(c)})))

LEMMA StringGoesOn ==
  ASSUME "data" \in Names, NEW v, NEW n \in Nat, v["data"] = n,
         NEW t, Len(t) = 4 + n, ArrayHeld(t, 0, "data", n),
         NEW size \in Nat, 60 <= size, NEW b \in Nat, NEW idx, NEW parts,
         NEW out \in Octets, Holds(t, b, out), Len(out) <= 4, NEW cnt, cnt = b + Len(out),
         cnt \in 4 .. Len(t), NEW c, Stands(c, cnt, idx, parts, size, out, No),
         NEW end, end = StringRest(c, v), NEW F,
         F = Fragment(end.msg.cntPub - 4 >= n, Len(end.out), end)
  PROVE  StringPiece(t, b, size, idx, parts, F)
<1> DEFINE from == cnt - 4
           left == Left(size, out)
           m == IF n - from <= left THEN n - from ELSE left
           w == Piece("data", from, m)
<1>1. Room(c) = left /\ left \in Nat /\ Len(out) \in Nat /\ c.msg.cntPub = cnt
  BY LeftStands, StandsAt
<1>2. /\ left = size - Len(out) /\ 0 < left /\ cnt \in Nat /\ from \in Nat /\ from <= n
      /\ m \in Nat /\ from + m <= n
  BY <1>1 DEF Left
<1>3. Min({n - from, Room(c)}) = m
  BY <1>1, <1>2, MinOf
<1>w. w \in Octets /\ Len(w) = m
  BY <1>2, PieceWritten
<1>4. end = Emit(c, w)
  BY <1>1, <1>3 DEF StringRest
<1>5. Holds(t, b + Len(out), w)
  <2>1. Holds(t, 4, Elements("data", n, 1)) /\ 4 \in Nat
    <3>1. Holds(t, 0 + 4, Elements("data", n, 1))
      BY Zenon DEF ArrayHeld
    <3>2. 0 + 4 = 4
      OBVIOUS
    <3> QED BY <3>1, <3>2
  <2>2. Holds(t, 4 + from, w)
    BY <1>2, <2>1, PieceHeld
  <2>3. 4 + from = b + Len(out)
    BY <1>1
  <2> QED BY <2>2, <2>3
<1> HIDE DEF w
<1>6. Stands(end, cnt + Len(w), idx, parts, size, out \o w, No)
  BY <1>4, EmitStands
<1>7. end.msg = At(cnt + Len(w), idx, parts) /\ end.out = out \o w /\ end.msg.cntPub = cnt + Len(w)
  BY <1>6, StandsAt
<1> DEFINE more == out \o w
<1>8. more \in Octets /\ Len(more) = Len(out) + Len(w) /\ Holds(t, b, more)
  BY <1>5, <1>w, OctetsJoin, HoldsJoin
<1>9. end.out = more
  BY <1>7
<1> HIDE DEF more
<1> DEFINE done == end.msg.cntPub - 4 >= n
<1>10. F.done = done /\ F.bytes = end.out /\ F.length = Len(end.out) /\ F.msg = end.msg
  <2> HIDE DEF done
  <2>1. F = Fragment(done, Len(end.out), end)
    BY DEF done
  <2> QED BY <2>1, FragmentFields
<1>11. b + Len(more) = cnt + Len(w) /\ cnt + Len(w) = 4 + (from + m) /\ b + Len(more) \in 4 .. Len(t)
       /\ Len(more) <= size
  <2> HIDE DEF m
  <2>1. m <= left
    BY <1>1, <1>2 DEF m
  <2> QED BY <1>1, <1>2, <1>8, <1>w, <2>1
<1>12. done <=> from + m = n
  <2>1. end.msg.cntPub = cnt + Len(w) /\ cnt + Len(w) = 4 + (from + m)
    BY <1>7, <1>11
  <2>2. m \in Nat /\ from \in Nat /\ from + m <= n
    BY <1>2
  <2> DEFINE all == end.msg.cntPub
  <2>3. all = 4 + (from + m)
    BY <2>1
  <2> HIDE DEF m, from, all
  <2>4. all - 4 >= n <=> from + m = n
    BY <2>2, <2>3
  <2> QED BY <2>4 DEF all
<1> HIDE DEF done
<1>13. IF F.done THEN b + Len(more) = Len(t) ELSE Len(more) = size /\ b + Len(more) < Len(t)
  <2>1. CASE from + m = n
    <3>1. b + Len(more) = Len(t)
      BY <1>11, <2>1
    <3>2. F.done
      BY <1>10, <1>12, <2>1, Zenon
    <3> QED BY <3>1, <3>2, Zenon
  <2>2. CASE from + m # n
    <3>1. m = left
      <4>1. n - from <= left => m = n - from
        BY DEF m
      <4>2. ~(n - from <= left) => m = left
        BY DEF m
      <4>3. from \in Nat
        BY <1>2
      <4> HIDE DEF m, from, left
      <4> QED BY <2>2, <4>1, <4>2, <4>3
    <3>2. Len(more) = size /\ b + Len(more) < Len(t)
      <4>1. left = size - Len(out) /\ from \in Nat /\ m \in Nat /\ from + m <= n
        BY <1>2
      <4>2. Len(more) = Len(out) + m /\ b + Len(more) = 4 + (from + m) /\ Len(out) \in Nat
        BY <1>1, <1>8, <1>11, <1>w
      <4> HIDE DEF m, from, left
      <4> QED BY <2>2, <3>1, <4>1, <4>2
    <3>3. ~F.done
      BY <1>10, <1>12, <2>2, Zenon
    <3> QED BY <3>2, <3>3, Zenon
  <2> QED BY <2>1, <2>2
<1>14. F.bytes = more /\ F.msg = At(b + Len(more), idx, parts) /\ F.length = Len(more)
  BY <1>7, <1>9, <1>10, <1>11
<1> QED BY <1>8, <1>11, <1>13, <1>14, Zenon DEF StringPiece

LEMMA StringIsRest ==
  ASSUME NEW m, NEW v, NEW size, ~(m.cntPub < 4 /\ size < 4)
  PROVE  StringToFragBuf(m, v, size)
           = LET start == FragmentCursor(m, size)
                 end == StringRest(IF m.cntPub < 4 THEN Emit(start, Count(v["data"])) ELSE start, v)
             IN  Fragment(end.msg.cntPub - 4 >= v["data"], Len(end.out), end)
BY Zenon DEF StringToFragBuf, StringRest

LEMMA StringFragment ==
  ASSUME "data" \in Names, NEW v, NEW n \in Nat, v["data"] = n,
         NEW t, Len(t) = 4 + n, ArrayHeld(t, 0, "data", n),
         NEW size \in Nat, 60 <= size, NEW b \in {0} \cup 4 .. Len(t), NEW idx, NEW parts
  PROVE  StringPiece(t, b, size, idx, parts, StringToFragBuf(At(b, idx, parts), v, size))
<1> DEFINE m == At(b, idx, parts)
           start == FragmentCursor(m, size)
           sized == IF m.cntPub < 4 THEN Emit(start, Count(n)) ELSE start
           end == StringRest(sized, v)
           F == StringToFragBuf(m, v, size)
<1>1. m.cntPub = b /\ b \in Nat
  BY DEF At
<1>2. F = Fragment(end.msg.cntPub - 4 >= n, Len(end.out), end)
  <2>1. ~(m.cntPub < 4 /\ size < 4)
    BY <1>1
  <2> HIDE DEF m
  <2> QED BY <2>1, StringIsRest
<1>3. Stands(start, b, idx, parts, size, <<>>, No)
  BY Zenon DEF Stands, Cutter, FragmentCursor, No
<1>4. <<>> \in Octets /\ Len(<<>>) = 0 /\ Holds(t, b, <<>>)
  BY DEF Octets, Holds
<1>e. end = StringRest(sized, v)
  OBVIOUS
<1>s. sized = IF b < 4 THEN Emit(start, Count(n)) ELSE start
  BY <1>1
<1> HIDE DEF start, sized, end, F
<1>5. CASE b = 0
  <2> DEFINE h == Count(n)
  <2>1. h \in Octets /\ Len(h) = 4 /\ Holds(t, b, h)
    BY <1>5, WrittenCount DEF ArrayHeld
  <2>2. sized = Emit(start, h)
    BY <1>5, <1>s
  <2> HIDE DEF h
  <2>3. Stands(sized, b + Len(h), idx, parts, size, <<>> \o h, No)
    BY <1>3, <2>2, EmitStands
  <2>4. <<>> \o h = h
    BY <2>1, JoinsEmpty DEF Octets
  <2>5. Stands(sized, b + Len(h), idx, parts, size, h, No)
    BY <2>3, <2>4
  <2>6. b + Len(h) \in 4 .. Len(t) /\ Len(h) <= 4
    BY <1>5, <2>1
  <2>7. StringPiece(t, b, size, idx, parts, F)
    BY <1>1, <1>2, <1>e, <2>1, <2>5, <2>6, StringGoesOn
  <2> QED BY <2>7 DEF F
<1>6. CASE b # 0
  <2> DEFINE none == <<>>
  <2>1. none \in Octets /\ Len(none) = 0 /\ Holds(t, b, none) /\ sized = start
        /\ Stands(start, b, idx, parts, size, none, No)
    BY <1>3, <1>4, <1>6, <1>s
  <2> HIDE DEF none
  <2>2. b = b + Len(none) /\ b \in 4 .. Len(t) /\ Len(none) <= 4
    BY <1>1, <1>6, <2>1
  <2>3. Stands(sized, b, idx, parts, size, none, No)
    BY <2>1
  <2>4. StringPiece(t, b, size, idx, parts, F)
    BY <1>1, <1>2, <1>e, <2>1, <2>2, <2>3, StringGoesOn
  <2> QED BY <2>4 DEF F
<1> QED BY <1>5, <1>6

-----------------------------------------------------------------------------
(* A fragment of a string or of an image with short names.  Sample is the     *)
(* message as ROS 2 lays it out, without the CDR header and the padding.      *)

Sample(c, v) == CopyToBuf(Layout(c), v, 0, AllZero(c)).out

\* What the fragments of a round make.
Whole(t) == (CDR \o t) \o Zeros(Gap(Len(t), 4))

Fragmented == {StringClass, Image}

NoParts == [frame_id |-> 0, encoding |-> 0, data |-> 0]

\* The bytes of a message, as its fragments take them.
Laid(c, v, t) ==
  /\ t \in Octets /\ 4 <= Len(t)
  /\ c = StringClass => /\ "data" \in Names /\ v["data"] \in Nat /\ Len(t) = 4 + v["data"]
                        /\ ArrayHeld(t, 0, "data", v["data"])
  /\ c = Image => Image9(v) /\ LaidOut(t, v)

\* What has been sent of a message lets the next fragment fill its buffer.
Within(c, v, t, m, size) ==
  /\ c = StringClass => \E b \in {0} \cup 4 .. Len(t) : m = At(b, 0, NoParts)
  /\ c = Image =>
       \E b \in Nat : \E idx \in 0 .. 9 : \E parts \in PartsOf(v) :
         m = At(b, idx, parts) /\ OnTheWay(v, b, idx, parts) /\ OnlyData(v, b, size, idx, parts)

\* A fragment that goes on at byte b of the message.
Cuts(t, b, size, F) ==
  \E out \in Octets :
    /\ F.bytes = out /\ F.length = Len(out) /\ F.msg.cntPub = b + Len(out)
    /\ Holds(t, b, out) /\ b + Len(out) <= Len(t)
    /\ IF F.done THEN b + Len(out) = Len(t) ELSE Len(out) = size

LEMMA StringIsNoImage == StringClass # Image
BY ClassesDiffer

LEMMA ZeroAt ==
  /\ ZeroCounters = At(0, 0, NoParts)
  /\ \A v : Image9(v) => NoParts \in PartsOf(v) /\ OnTheWay(v, 0, 0, NoParts)
<1>1. ZeroCounters = At(0, 0, NoParts)
  BY DEF ZeroCounters, At, NoParts
<1>2. ASSUME NEW v, Image9(v)
      PROVE  NoParts \in PartsOf(v) /\ OnTheWay(v, 0, 0, NoParts)
  <2>1. NoParts \in [Arrays -> Nat] /\ \A name \in Arrays : NoParts[name] = 0
    BY DEF NoParts, Arrays
  <2>2. NoParts \in PartsOf(v)
    BY <2>1 DEF PartsOf
  <2>3. Begin(v, 0) = 0
    BY BeginIs
  <2>4. \A i \in ArrayPlaces : NoParts[ImageSteps[i].name] = 0
    BY <1>2, <2>1, StepFacts
  <2>5. PartAt(NoParts, 0 + 1) = 0
    BY <2>4 DEF PartAt
  <2> QED BY <2>2, <2>3, <2>4, <2>5 DEF OnTheWay
<1> QED BY <1>1, <1>2

LEMMA AtFields ==
  ASSUME NEW b, NEW idx, NEW parts
  PROVE  /\ At(b, idx, parts).cntPub = b
         /\ [At(b, idx, parts) EXCEPT !.cntPub = 0, !.idx = 0] = At(0, 0, parts)
<1>1. /\ [At(b, idx, parts) EXCEPT !.cntPub = 0] = At(0, idx, parts)
      /\ [At(0, idx, parts) EXCEPT !.idx = 0] = At(0, 0, parts)
  BY DEF At
<1>2. [At(b, idx, parts) EXCEPT !.cntPub = 0, !.idx = 0]
        = [[At(b, idx, parts) EXCEPT !.cntPub = 0] EXCEPT !.idx = 0]
  BY Zenon
<1>3. At(b, idx, parts).cntPub = b
  BY DEF At
<1> QED BY <1>1, <1>2, <1>3, Zenon

LEMMA StringCuts ==
  ASSUME NEW v, NEW t, Laid(StringClass, v, t), NEW size \in Nat, 60 <= size, NEW m,
         Within(StringClass, v, t, m, size), NEW F, F = CopyToFragBuf(StringClass, m, v, size)
  PROVE  /\ Cuts(t, m.cntPub, size, F)
         /\ \A other : Within(StringClass, v, t, F.msg, other)
<1>1. PICK b \in {0} \cup 4 .. Len(t) : m = At(b, 0, NoParts)
  BY DEF Within
<1>2. F = StringToFragBuf(At(b, 0, NoParts), v, size)
  <2>1. CopyToFragBuf(StringClass, m, v, size) = StringToFragBuf(m, v, size)
    BY StringIsNoImage, Zenon DEF CopyToFragBuf
  <2> QED BY <1>1, <2>1, Zenon
<1>3. "data" \in Names /\ v["data"] \in Nat /\ Len(t) = 4 + v["data"]
      /\ ArrayHeld(t, 0, "data", v["data"])
  BY Zenon DEF Laid
<1>4. StringPiece(t, b, size, 0, NoParts, StringToFragBuf(At(b, 0, NoParts), v, size))
  BY <1>3, StringFragment
<1>5. PICK out \in Octets :
        /\ F.bytes = out /\ F.msg = At(b + Len(out), 0, NoParts) /\ F.length = Len(out)
        /\ Holds(t, b, out) /\ Len(out) <= size /\ b + Len(out) \in 4 .. Len(t)
        /\ IF F.done THEN b + Len(out) = Len(t) ELSE Len(out) = size /\ b + Len(out) < Len(t)
  BY <1>2, <1>4, Zenon DEF StringPiece
<1>6. m.cntPub = b /\ F.msg.cntPub = b + Len(out)
  <2>1. m = At(b, 0, NoParts) /\ F.msg = At(b + Len(out), 0, NoParts)
    BY <1>1, <1>5
  <2> QED BY <2>1 DEF At
<1>7. Cuts(t, b, size, F)
  <2>1. b + Len(out) <= Len(t)
    BY <1>3, <1>5
  <2> QED BY <1>5, <1>6, <2>1, Zenon DEF Cuts
<1>8. \A other : Within(StringClass, v, t, F.msg, other)
  <2>1. b + Len(out) \in {0} \cup 4 .. Len(t)
    BY <1>5
  <2> QED BY <1>5, <2>1, StringIsNoImage, Zenon DEF Within
<1> QED BY <1>6, <1>7, <1>8

\* No more than the message is sent of it.
LEMMA OnTheWayBounds ==
  ASSUME NEW v, Image9(v), NEW cnt, NEW idx \in {8, 9}, NEW parts \in PartsOf(v),
         OnTheWay(v, cnt, idx, parts)
  PROVE  cnt <= Begin(v, 9)
<1>1. /\ Begin(v, 9) = Begin(v, 8) + (4 + v["data"]) /\ Begin(v, 8) \in Nat /\ Begin(v, 9) \in Nat
      /\ v["data"] \in Nat
  BY BeginSteps DEF Image9
<1>2. cnt = Begin(v, idx) + PartAt(parts, idx + 1)
  BY DEF OnTheWay
<1>3. CASE idx = 9
  <2>1. PartAt(parts, idx + 1) = 0
    BY <1>3 DEF PartAt, ArrayPlaces
  <2> QED BY <1>1, <1>2, <1>3, <2>1
<1>4. CASE idx = 8
  <2>1. PartAt(parts, idx + 1) = parts["data"]
    BY <1>4, ArrayNames DEF PartAt, ArrayPlaces
  <2>2. parts["data"] \in {0} \cup 4 .. 4 + v["data"]
    BY DEF PartsOf, Arrays
  <2> QED BY <1>1, <1>2, <1>4, <2>1, <2>2
<1> QED BY <1>3, <1>4

LEMMA ImageCuts ==
  ASSUME NEW v, NEW t, Laid(Image, v, t), NEW size \in Nat, 60 <= size, NEW m,
         Within(Image, v, t, m, size), NEW F, F = CopyToFragBuf(Image, m, v, size)
  PROVE  /\ Cuts(t, m.cntPub, size, F)
         /\ \A other : Within(Image, v, t, F.msg, other)
<1>1. PICK b \in Nat, at \in 0 .. 9, had \in PartsOf(v) :
        m = At(b, at, had) /\ OnTheWay(v, b, at, had) /\ OnlyData(v, b, size, at, had)
  BY Zenon DEF Within
<1>2. F = ImageToFragBuf(At(b, at, had), v, size)
  BY <1>1, StringIsNoImage, Zenon DEF CopyToFragBuf
<1>3. Image9(v) /\ LaidOut(t, v)
  BY Zenon DEF Laid
<1>4. ImagePiece(t, v, b, size, 1, F)
  BY <1>1, <1>2, <1>3, ImageFragment
<1>5. PICK idx \in 0 .. 9, parts \in PartsOf(v), out \in Octets :
        /\ F.bytes = out /\ F.msg = At(b + Len(out), idx, parts)
        /\ OnTheWay(v, b + Len(out), idx, parts) /\ Holds(t, b, out)
        /\ IF F.done
           THEN /\ idx = 9 /\ b + Len(out) = Len(t) /\ F.length \in Nat
                /\ 1 = 1 => F.length = Len(out)
           ELSE /\ F.length = Len(out) /\ out # <<>>
                /\ 1 = 1 => Len(out) = size /\ idx = 8 /\ parts["data"] >= 4
  BY <1>4, Zenon DEF ImagePiece
<1>6. m.cntPub = b /\ F.msg.cntPub = b + Len(out) /\ b + Len(out) \in Nat
  <2>1. m.cntPub = b /\ F.msg.cntPub = b + Len(out)
    <3>1. m = At(b, at, had) /\ F.msg = At(b + Len(out), idx, parts)
      BY <1>1, <1>5
    <3> QED BY <3>1 DEF At
  <2> QED BY <2>1, LengthNat
<1>7. /\ F.length = Len(out)
      /\ F.done => idx = 9 /\ b + Len(out) = Len(t)
      /\ ~F.done => Len(out) = size /\ idx = 8 /\ parts["data"] >= 4
  BY <1>5
<1>8. b + Len(out) <= Len(t)
  <2>1. idx \in {8, 9}
    BY <1>7
  <2>2. b + Len(out) <= Begin(v, 9)
    BY <1>3, <1>5, <2>1, OnTheWayBounds
  <2> QED BY <1>3, <2>2 DEF LaidOut
<1>9. Cuts(t, b, size, F)
  BY <1>5, <1>6, <1>7, <1>8, Zenon DEF Cuts
<1>10. \A other : Within(Image, v, t, F.msg, other)
  <2>1. \A other : OnlyData(v, b + Len(out), other, idx, parts)
    BY <1>7 DEF OnlyData
  <2> QED BY <1>5, <1>6, <2>1, StringIsNoImage, Zenon DEF Within
<1> QED BY <1>6, <1>9, <1>10

\* What the stored function makes of a fragment.
Turned(c, F, offset) ==
  LET length == F.length + offset
      bytes == Peek(SubSeq(CDR, 1, offset) \o F.bytes, 0, length)
  IN  IF F.done /\ F.length = 0
      THEN [bytes |-> bytes, msg |-> ResetCount(c, F.msg)]
      ELSE [bytes |-> IF F.done THEN bytes \o Zeros(Gap(length, 4)) ELSE bytes, msg |-> F.msg]

LEMMA OctetsRegroup ==
  ASSUME NEW s \in Octets, NEW t \in Octets, NEW u \in Octets
  PROVE  s \o (t \o u) = (s \o t) \o u
<1>1. (s \o t) \o u = s \o (t \o u)
  BY OctetsAssociate
<1> QED BY <1>1

LEMMA ResetsCount ==
  ASSUME NEW c \in Fragmented, NEW v, NEW t, NEW m, NEW size, Within(c, v, t, m, size)
  PROVE  ResetCount(c, m) = ZeroCounters
<1>1. CASE c = Image
  BY <1>1, Zenon DEF ResetCount
<1>2. CASE c = StringClass
  <2>1. PICK b \in {0} \cup 4 .. Len(t) : m = At(b, 0, NoParts)
    BY <1>2 DEF Within
  <2>2. [m EXCEPT !.cntPub = 0, !.idx = 0] = At(0, 0, NoParts)
    BY <2>1, AtFields, Zenon
  <2>3. c # Image
    BY <1>2, StringIsNoImage
  <2> QED BY <2>2, <2>3, ZeroAt, Zenon DEF ResetCount
<1> QED BY <1>1, <1>2 DEF Fragmented

\* Byte b of the message is behind the fragments j; at its end it is padded.
Sending(t, b, j) ==
  /\ b \in 1 .. Len(t)
  /\ \/ b % 4 = 0 /\ j = CDR \o SubSeq(t, 1, b)
     \/ b = Len(t) /\ j = Whole(t)

\* How far a round has come that has made the fragments s.
Stage(c, v, t, m, s) ==
  \/ m = ZeroCounters /\ s = <<>>
  \/ Within(c, v, t, m, 64) /\ Sending(t, m.cntPub, FlattenSeq(s))

LEMMA HeaderParts == SubSeq(CDR, 1, 4) = CDR /\ SubSeq(CDR, 1, 0) = <<>>
<1>1. CDR \in Octets /\ Len(CDR) = 4
  BY Header4
<1> HIDE DEF Octet
<1>2. CDR \in Seq(Octet)
  BY <1>1 DEF Octets
<1> DEFINE h == CDR
<1>3. h \in Seq(Octet) /\ Len(h) = 4
  BY <1>1, <1>2
<1> HIDE DEF h
<1>4. SubSeq(h, 1, 4) = h /\ SubSeq(h, 1, 0) = <<>>
  BY <1>3
<1> QED BY <1>4 DEF h

LEMMA WholeSeq ==
  ASSUME NEW t \in Octets
  PROVE  SubSeq(t, 1, Len(t)) = t /\ SubSeq(t, 1, 0) = <<>>
<1> HIDE DEF Octet
<1>1. t \in Seq(Octet)
  BY DEF Octets
<1> QED BY <1>1

\* The bytes of a fragment, with the header in front or the zeros behind.
TurnsInto(c, F, offset, h, out, n) ==
  /\ h \o out \in Octets /\ Len(h \o out) = Len(out) + offset
  /\ n.bytes = IF F.done /\ Len(out) # 0
               THEN (h \o out) \o Zeros(Gap(Len(out) + offset, 4)) ELSE h \o out
  /\ n.msg = IF F.done /\ Len(out) = 0 THEN ResetCount(c, F.msg) ELSE F.msg

LEMMA TurnedBytes ==
  ASSUME NEW c, NEW F, NEW out \in Octets, F.bytes = out, F.length = Len(out),
         NEW offset \in {0, 4}, NEW h \in Octets, h = SubSeq(CDR, 1, offset), Len(h) = offset
  PROVE  TurnsInto(c, F, offset, h, out, Turned(c, F, offset))
<1> DEFINE n == Turned(c, F, offset)
           w == h \o out
           length == F.length + offset
           bytes == Peek(SubSeq(CDR, 1, offset) \o F.bytes, 0, length)
<1>1. w \in Octets /\ Len(w) = Len(h) + Len(out) /\ Len(out) \in Nat
  BY OctetsJoin, LengthNat
<1>w. w = SubSeq(CDR, 1, offset) \o F.bytes
  OBVIOUS
<1> HIDE DEF w
<1>2. Len(w) = Len(out) + offset /\ length = Len(w)
  BY <1>1
<1>3. bytes = w
  BY <1>1, <1>2, <1>w, PeekAll
<1>4. n = IF F.done /\ F.length = 0
          THEN [bytes |-> bytes, msg |-> ResetCount(c, F.msg)]
          ELSE [bytes |-> IF F.done THEN bytes \o Zeros(Gap(length, 4)) ELSE bytes, msg |-> F.msg]
  BY Zenon DEF Turned
<1> HIDE DEF bytes, length, n
<1>5. ASSUME F.done /\ F.length = 0 PROVE TurnsInto(c, F, offset, h, out, n)
  <2>1. n.bytes = bytes /\ n.msg = ResetCount(c, F.msg)
    BY <1>4, <1>5
  <2> QED BY <1>1, <1>2, <1>3, <1>5, <2>1 DEF w, TurnsInto
<1>6. ASSUME ~(F.done /\ F.length = 0) PROVE TurnsInto(c, F, offset, h, out, n)
  <2>1. n.bytes = (IF F.done THEN bytes \o Zeros(Gap(length, 4)) ELSE bytes) /\ n.msg = F.msg
    BY <1>4, <1>6
  <2>2. F.done => Len(out) # 0
    BY <1>6
  <2> QED BY <1>1, <1>2, <1>3, <1>6, <2>1, <2>2, Zenon DEF w, TurnsInto
<1> QED BY <1>5, <1>6 DEF n

\* The fragments of a message put together.
Follows(t, b, size, offset, j) ==
  /\ t \in Octets /\ 4 <= Len(t) /\ b \in 0 .. Len(t) /\ j \in Octets
  /\ offset = IF b = 0 THEN 4 ELSE 0
  /\ size = 64 - offset
  /\ IF b = 0 THEN j = <<>> ELSE Sending(t, b, j)

LEMMA CutsGrow ==
  ASSUME NEW t, NEW b, NEW size, NEW offset, NEW j, Follows(t, b, size, offset, j),
         NEW F, Cuts(t, b, size, F), NEW c, NEW n, n = Turned(c, F, offset)
  PROVE  /\ n.bytes \in Octets /\ F.msg.cntPub \in Nat
         /\ IF n.bytes = <<>> THEN n.msg = ResetCount(c, F.msg) /\ j = Whole(t)
            ELSE n.msg = F.msg /\ Sending(t, F.msg.cntPub, j \o n.bytes)
<1>a. t \in Octets /\ 4 <= Len(t) /\ b \in 0 .. Len(t) /\ j \in Octets
  BY DEF Follows
<1>c. offset \in {0, 4} /\ size + offset = 64 /\ size \in Nat /\ (offset = 0 <=> b # 0)
  BY DEF Follows
<1>e. (b = 0 => j = <<>>) /\ (b # 0 => Sending(t, b, j))
  BY Zenon DEF Follows
<1>1. PICK w \in Octets :
        /\ F.bytes = w /\ F.length = Len(w) /\ F.msg.cntPub = b + Len(w)
        /\ Holds(t, b, w) /\ b + Len(w) <= Len(t)
        /\ IF F.done THEN b + Len(w) = Len(t) ELSE Len(w) = size
  BY Zenon DEF Cuts
<1> DEFINE h == SubSeq(CDR, 1, offset)
           l == Len(t)
           k == Len(w)
           p == SubSeq(t, 1, b)
           q == SubSeq(t, 1, b + k)
           z == Zeros(Gap(k + offset, 4))
           cdr == CDR
<1>h. h = SubSeq(CDR, 1, offset) /\ h \in Octets /\ Len(h) = offset
      /\ (b = 0 => h = cdr) /\ (b # 0 => h = <<>>) /\ cdr \in Octets /\ Len(cdr) = 4
  <2> DEFINE none == <<>>
  <2>1. none \in Octets /\ Len(none) = 0
    <3> HIDE DEF Octet
    <3>1. none \in Seq(Octet) /\ Len(none) = 0
      OBVIOUS
    <3> QED BY <3>1 DEF Octets
  <2>2. cdr \in Octets /\ Len(cdr) = 4
    BY Header4
  <2>3. SubSeq(CDR, 1, 4) = cdr /\ SubSeq(CDR, 1, 0) = none
    BY HeaderParts
  <2> HIDE DEF none
  <2>4. (b = 0 => offset = 4) /\ (b # 0 => offset = 0)
    BY <1>c
  <2>5. CASE b = 0
    <3>1. h = cdr /\ offset = 4
      BY <2>3, <2>4, <2>5
    <3> HIDE DEF h, cdr
    <3>2. h \in Octets /\ Len(h) = offset
      BY <2>2, <3>1
    <3> QED BY <2>2, <2>5, <3>1, <3>2 DEF h
  <2>6. CASE b # 0
    <3>1. h = none /\ offset = 0
      BY <2>3, <2>4, <2>6
    <3>3. h = <<>>
      BY <3>1 DEF none
    <3> HIDE DEF h, cdr
    <3>2. h \in Octets /\ Len(h) = offset
      BY <2>1, <3>1
    <3> QED BY <2>2, <2>6, <3>3, <3>2 DEF h
  <2> QED BY <2>5, <2>6
<1>H. h \in Octets /\ cdr \in Octets
  BY <1>h
<1>i. h = SubSeq(CDR, 1, offset) /\ Len(h) = offset
  BY <1>h
<1>l. l \in Nat /\ k \in Nat /\ b \in Nat /\ b + k <= l /\ b + k \in Nat
  BY <1>1, <1>a, LengthNat
<1>p. p \in Octets /\ Len(p) = b /\ p \o w = q
  BY <1>1, <1>a, Extends
<1>q. q \in Octets
  BY <1>1, <1>p, OctetsJoin
<1>t. b + k = l => q = t
  BY <1>a, WholeSeq
<1>0. b = 0 => p = <<>>
  BY <1>a, WholeSeq
<1>2. /\ h \o w \in Octets /\ Len(h \o w) = k + offset
      /\ n.bytes = IF F.done /\ k # 0 THEN (h \o w) \o z ELSE h \o w
      /\ n.msg = IF F.done /\ k = 0 THEN ResetCount(c, F.msg) ELSE F.msg
  <2> HIDE DEF h
  <2>1. F.bytes = w /\ F.length = Len(w) /\ offset \in {0, 4}
    BY <1>1, <1>c
  <2>2. TurnsInto(c, F, offset, h, w, Turned(c, F, offset))
    BY <1>H, <1>i, <2>1, TurnedBytes
  <2> QED BY <2>2 DEF TurnsInto
<1>z. z \in Octets
  <2>1. Gap(k + offset, 4) \in Nat
    <3>1. k + offset \in Nat
      BY <1>c, <1>l
    <3>2. Gap(k + offset, 4) \in 0 .. 3
      BY <3>1, GapBounds
    <3> HIDE DEF k
    <3>3. \A x \in 0 .. 3 : x \in Nat
      OBVIOUS
    <3> QED BY <3>2, <3>3
  <2> QED BY <2>1, WrittenZeros
<1>w. Whole(t) = (cdr \o t) \o Zeros(Gap(l, 4))
  BY DEF Whole
<1> HIDE DEF h, p, q, z, cdr, l, k
<1> DEFINE o == h \o w
<1>o. o \in Octets /\ Len(o) = k + offset
  BY <1>2
<1>O. o \in Octets
  BY <1>o
<1>b. n.bytes = IF F.done /\ k # 0 THEN o \o z ELSE o
  BY <1>2
<1>3. \/ b % 4 = 0 /\ j \o o = cdr \o q
      \/ b = l /\ b # 0 /\ k = 0 /\ j = Whole(t)
  <2>1. CASE b = 0
    <3>1. j = <<>> /\ h = cdr /\ p = <<>>
      BY <1>0, <1>e, <1>h, <2>1
    <3>2. <<>> \o w = w /\ <<>> \o o = o
      BY <1>o, JoinsEmpty DEF Octets
    <3>3. q = w /\ j \o o = o
      BY <1>p, <3>1, <3>2
    <3>4. o = cdr \o w
      BY <3>1
    <3>5. b % 4 = 0
      BY <2>1
    <3> QED BY <3>3, <3>4, <3>5
  <2>2. CASE b # 0 /\ b % 4 = 0 /\ j = CDR \o SubSeq(t, 1, b)
    <3>1. h = <<>> /\ j = cdr \o p
      BY <1>h, <2>2 DEF cdr, p
    <3>2. o = w
      BY <3>1, JoinsEmpty DEF Octets
    <3>3. j \o w = cdr \o q
      <4>1. p \in Octets
        BY <1>p
      <4>2. (cdr \o p) \o w = cdr \o (p \o w)
        BY <1>H, <4>1, OctetsAssociate, Zenon
      <4> QED BY <1>p, <3>1, <4>2
    <3> QED BY <2>2, <3>2, <3>3
  <2>3. CASE b # 0 /\ b = Len(t) /\ j = Whole(t)
    <3>1. k = 0
      BY <1>l, <2>3 DEF l
    <3> QED BY <2>3, <3>1 DEF l
  <2> QED BY <1>e, <2>1, <2>2, <2>3 DEF Sending
<1> HIDE DEF o
<1>4. F.msg.cntPub = b + k /\ (IF F.done THEN b + k = l ELSE k = size)
  BY <1>1 DEF k, l
<1>5. CASE k = 0 /\ F.done
  <2>1. b = l /\ b # 0 /\ offset = 0
    BY <1>4, <1>5, <1>a, <1>c, <1>l DEF l
  <2>2. n.bytes = o /\ Len(o) = 0 /\ n.msg = ResetCount(c, F.msg)
    BY <1>2, <1>5, <1>b, <1>o, <2>1
  <2>3. o = <<>>
    BY <1>o, <2>2, LengthNothing
  <2>4. j = Whole(t)
    <3>1. ASSUME b % 4 = 0, j \o o = cdr \o q PROVE j = Whole(t)
      <4>1. Gap(l, 4) = 0
        BY <2>1, <3>1 DEF Gap
      <4>2. Zeros(Gap(l, 4)) = <<>>
        BY <4>1, ZerosNothing
      <4>3. j \o o = j
        BY <1>a, <2>3, JoinsEmpty DEF Octets
      <4>4. q = t
        BY <1>4, <1>5, <1>t
      <4>5. (cdr \o t) \o <<>> = cdr \o t
        <5>1. cdr \o t \in Octets
          BY <1>H, <1>a, OctetsJoin
        <5> QED BY <5>1, JoinsEmpty DEF Octets
      <4> QED BY <1>w, <3>1, <4>2, <4>3, <4>4, <4>5
    <3> QED BY <1>3, <3>1
  <2> QED BY <1>4, <1>l, <1>o, <2>2, <2>3, <2>4
<1>6. CASE ~(k = 0 /\ F.done)
  <2>1. k # 0
    <3>1. size # 0
      BY <1>c
    <3> QED BY <1>4, <1>6, <3>1
  <2>2. b % 4 = 0 /\ j \o o = cdr \o q /\ n.msg = F.msg /\ b + k \in 1 .. l
    <3>1. b % 4 = 0 /\ j \o o = cdr \o q
      BY <1>3, <2>1
    <3>2. n.msg = F.msg
      BY <1>2, <2>1
    <3>3. b + k \in 1 .. l
      BY <1>l, <2>1
    <3> QED BY <3>1, <3>2, <3>3
  <2>3. o # <<>>
    BY <1>c, <1>o, <1>l, <2>1, LengthNothing
  <2>4. CASE F.done
    <3>1. n.bytes = o \o z
      BY <1>b, <2>1, <2>4
    <3>2. n.bytes \in Octets /\ n.bytes # <<>>
      <4>1. o \o z \in Octets /\ Len(o \o z) = Len(o) + Len(z) /\ Len(z) \in Nat
        BY <1>o, <1>z, OctetsJoin, LengthNat
      <4>2. Len(o \o z) # 0
        BY <1>c, <1>o, <1>l, <2>1, <4>1
      <4> QED BY <3>1, <4>1, <4>2, LengthNothing
    <3>3. j \o (o \o z) = (j \o o) \o z
      <4>1. j \in Octets
        BY <1>a
      <4> QED BY <4>1, <1>O, <1>z, OctetsRegroup, Zenon
    <3>4. q = t /\ b + k = l
      BY <1>4, <1>t, <2>4
    <3>5. Gap(k + offset, 4) = Gap(l, 4)
      <4>1. (k + offset) % 4 = l % 4
        <5>1. l = b + k /\ b % 4 = 0 /\ k \in Nat /\ b \in Nat /\ offset \in {0, 4}
          BY <1>c, <1>l, <2>2, <3>4
        <5> QED BY <5>1, SMTT(30)
      <4> QED BY <4>1 DEF Gap
    <3>6. j \o n.bytes = Whole(t)
      BY <1>w, <2>2, <3>1, <3>3, <3>4, <3>5 DEF z
    <3> QED BY <1>4, <1>l, <2>2, <3>2, <3>4, <3>6 DEF Sending, l
  <2>5. CASE ~F.done
    <3>1. n.bytes = o /\ k = size
      BY <1>4, <1>b, <2>5
    <3>2. (b + k) % 4 = 0
      <4>1. k = 64 \/ k = 60
        BY <1>c, <3>1
      <4>2. b % 4 = 0 /\ b \in Nat
        BY <1>l, <2>2
      <4>3. (b + 64) % 4 = 0 /\ (b + 60) % 4 = 0
        BY <4>2, SMTT(30)
      <4> QED BY <4>1, <4>3
    <3>3. j \o n.bytes = CDR \o SubSeq(t, 1, b + k)
      BY <2>2, <3>1 DEF cdr, q
    <3> QED BY <1>4, <1>l, <1>o, <2>2, <2>3, <3>1, <3>2, <3>3 DEF Sending, l
  <2> QED BY <2>4, <2>5
<1> QED BY <1>5, <1>6

\* A message whose fragments fill their buffers.
Ready(c, v, t) ==
  /\ c \in Fragmented /\ Laid(c, v, t)
  /\ c = Image => ImageRawSize(v) - v["data"] <= 60

LEMMA ZeroWithin ==
  ASSUME NEW c, NEW v, NEW t, Ready(c, v, t)
  PROVE  Within(c, v, t, ZeroCounters, 60)
<1>1. CASE c = StringClass
  <2>1. c # Image
    BY <1>1, StringIsNoImage
  <2>2. 0 \in {0} \cup 4 .. Len(t)
    OBVIOUS
  <2> QED BY <1>1, <2>1, <2>2, ZeroAt, Zenon DEF Within
<1>2. CASE c = Image
  <2>1. Image9(v) /\ ImageRawSize(v) - v["data"] <= 60
    BY <1>2, Zenon DEF Ready, Laid
  <2>2. NoParts \in PartsOf(v) /\ OnTheWay(v, 0, 0, NoParts)
    BY <2>1, ZeroAt
  <2>3. OnlyData(v, 0, 60, 0, NoParts)
    <3>1. Begin(v, 8) = 28 + Padded(v["frame_id"]) + Padded(v["encoding"] + 1)
      BY BeginIs
    <3>2. Padded(v["frame_id"]) \in Nat /\ Padded(v["encoding"] + 1) \in Nat /\ v["data"] \in Nat
      <4>1. v["frame_id"] \in Nat /\ v["encoding"] + 1 \in Nat /\ v["data"] \in Nat
        BY <2>1 DEF Image9
      <4> QED BY <4>1, PaddedNat
    <3>3. Begin(v, 8) + 4 <= 60
      BY <2>1, <3>1, <3>2 DEF ImageRawSize
    <3>4. PartAt(NoParts, 0 + 1) = 0
      BY DEF PartAt, ArrayPlaces
    <3> QED BY <3>3, <3>4 DEF OnlyData
  <2>4. c # StringClass
    BY <1>2, StringIsNoImage
  <2>5. 0 \in Nat /\ 0 \in 0 .. 9
    OBVIOUS
  <2> QED BY <2>2, <2>3, <2>4, <2>5, ZeroAt, Zenon DEF Within
<1> QED BY <1>1, <1>2 DEF Ready, Fragmented

LEMMA FragmentCuts ==
  ASSUME NEW c, NEW v, NEW t, Ready(c, v, t), NEW size \in Nat, 60 <= size, NEW m,
         Within(c, v, t, m, size)
  PROVE  /\ Cuts(t, m.cntPub, size, CopyToFragBuf(c, m, v, size))
         /\ \A other : Within(c, v, t, CopyToFragBuf(c, m, v, size).msg, other)
<1>1. CASE c = StringClass
  BY <1>1, StringCuts DEF Ready
<1>2. CASE c = Image
  BY <1>2, ImageCuts DEF Ready
<1> QED BY <1>1, <1>2 DEF Ready, Fragmented

LEMMA FlattenNone == FlattenSeq(<<>>) = <<>>
BY DEF FlattenSeq

LEMMA WholeOctets ==
  ASSUME NEW t \in Octets
  PROVE  Whole(t) \in Octets /\ \A b \in 1 .. Len(t) : CDR \o SubSeq(t, 1, b) \in Octets
<1>1. CDR \in Octets /\ <<>> \in Octets
  BY Header4, JoinsEmpty DEF Octets
<1>2. CDR \o t \in Octets
  BY <1>1, OctetsJoin
<1>3. Gap(Len(t), 4) \in Nat
  <2>1. Gap(Len(t), 4) \in 0 .. 3
    BY LengthNat, GapBounds
  <2> QED BY <2>1
<1>4. Whole(t) \in Octets
  BY <1>2, <1>3, WrittenZeros, OctetsJoin DEF Whole
<1>5. ASSUME NEW b \in 1 .. Len(t) PROVE CDR \o SubSeq(t, 1, b) \in Octets
  <2> HIDE DEF Octet
  <2>1. t \in Seq(Octet) /\ b \in 1 .. Len(t)
    BY DEF Octets
  <2>2. SubSeq(t, 1, b) \in Seq(Octet)
    BY <2>1
  <2>3. SubSeq(t, 1, b) \in Octets
    BY <2>2 DEF Octets
  <2> QED BY <1>1, <2>3, OctetsJoin
<1> QED BY <1>4, <1>5

\* One turn of the loop of sendData.
LEMMA RoundGoesOn ==
  ASSUME NEW c, NEW v, NEW t, Ready(c, v, t), NEW m, NEW s \in Seq(Octets), Stage(c, v, t, m, s),
         NEW offset, offset = IF m.cntPub = 0 THEN 4 ELSE 0,
         NEW n, n = Turned(c, CopyToFragBuf(c, m, v, 64 - offset), offset)
  PROVE  /\ n.bytes \in Octets
         /\ IF n.bytes = <<>> THEN n.msg = ZeroCounters /\ FlattenSeq(s) = Whole(t)
            ELSE Stage(c, v, t, n.msg, Append(s, n.bytes))
<1> DEFINE b == m.cntPub
           size == 64 - offset
           F == CopyToFragBuf(c, m, v, size)
           j == FlattenSeq(s)
<1>1. t \in Octets /\ 4 <= Len(t) /\ Len(t) \in Nat
  BY LengthNat DEF Ready, Laid
<1>2. /\ Within(c, v, t, m, size) /\ b \in 0 .. Len(t) /\ j \in Octets /\ size \in {60, 64}
      /\ IF b = 0 THEN j = <<>> ELSE Sending(t, b, j)
  <2>1. CASE m = ZeroCounters /\ s = <<>>
    <3>1. b = 0
      BY <2>1 DEF ZeroCounters
    <3>2. offset = 4 /\ size = 60
      BY <3>1
    <3>3. j = <<>>
      BY <2>1, FlattenNone
    <3>4. j \in Octets
      BY <3>3, JoinsEmpty DEF Octets
    <3>5. Within(c, v, t, m, size)
      BY <2>1, <3>2, ZeroWithin
    <3> QED BY <1>1, <3>1, <3>2, <3>3, <3>4, <3>5
  <2>2. CASE Within(c, v, t, m, 64) /\ Sending(t, b, j)
    <3>1. b \in 1 .. Len(t)
      BY <2>2 DEF Sending
    <3>2. b # 0 /\ b \in 0 .. Len(t)
      BY <1>1, <3>1
    <3>3. offset = 0 /\ size = 64
      BY <3>2
    <3>4. j \in Octets
      BY <1>1, <2>2, <3>1, WholeOctets DEF Sending
    <3> HIDE DEF b, j
    <3> QED BY <2>2, <3>2, <3>3, <3>4
  <2> QED BY <2>1, <2>2 DEF Stage
<1>3. /\ Cuts(t, b, size, F) /\ \A other : Within(c, v, t, F.msg, other)
  <2>1. size \in Nat /\ 60 <= size
    BY <1>2
  <2>2. Within(c, v, t, m, size)
    BY <1>2
  <2> HIDE DEF size
  <2>3. /\ Cuts(t, m.cntPub, size, CopyToFragBuf(c, m, v, size))
        /\ \A other : Within(c, v, t, CopyToFragBuf(c, m, v, size).msg, other)
    BY <2>1, <2>2, FragmentCuts
  <2> QED BY <2>3
<1>4. Follows(t, b, size, offset, j)
  <2> HIDE DEF j, b
  <2>1. offset = IF b = 0 THEN 4 ELSE 0
    BY DEF b
  <2> QED BY <1>1, <1>2, <2>1 DEF Follows
<1>5. n = Turned(c, F, offset)
  OBVIOUS
<1> HIDE DEF b, size, F, j
<1>6. /\ n.bytes \in Octets /\ F.msg.cntPub \in Nat
      /\ IF n.bytes = <<>> THEN n.msg = ResetCount(c, F.msg) /\ j = Whole(t)
         ELSE n.msg = F.msg /\ Sending(t, F.msg.cntPub, j \o n.bytes)
  BY <1>3, <1>4, <1>5, CutsGrow
<1>7. CASE n.bytes = <<>>
  <2>1. ResetCount(c, F.msg) = ZeroCounters
    <3>1. Within(c, v, t, F.msg, 64) /\ c \in Fragmented
      BY <1>3 DEF Ready
    <3> QED BY <3>1, ResetsCount
  <2> QED BY <1>6, <1>7, <2>1 DEF j
<1>8. CASE n.bytes # <<>>
  <2>1. n.msg = F.msg /\ Sending(t, n.msg.cntPub, j \o n.bytes) /\ Within(c, v, t, n.msg, 64)
    BY <1>3, <1>6, <1>8
  <2>2. FlattenSeq(Append(s, n.bytes)) = j \o n.bytes
    <3>1. s \in Seq(Seq(Octet)) /\ n.bytes \in Seq(Octet)
      BY <1>6 DEF Octets
    <3> QED BY <3>1, FlattenAppend, ZenonT(40) DEF j
  <2> QED BY <1>6, <1>8, <2>1, <2>2 DEF Stage
<1> QED BY <1>7, <1>8

-----------------------------------------------------------------------------
(* The message that is cut into fragments. *)

LEMMA SampleCopied ==
  ASSUME NEW c \in Classes, c \in Fragmented, NEW v \in Values(c)
  PROVE  CopyToBuf(Layout(c), v, 0, AllZero(c)) \in Cursors(NestedNames(c))
<1> DEFINE N == NestedNames(c)
           counts == AllZero(c)
           fs == Layout(c)
<1>1. counts \in [N -> Nat] /\ \A x \in N : counts[x] = 0
  BY DEF AllZero
<1>2. \E n : Members(fs, v, n, N)
  <2>1. CASE c = Image
    <3>1. fs = ImageMembers("uint8")
      BY <2>1, Zenon DEF Layout
    <3>2. Image \in Classes /\ v \in Values(Image)
      BY <2>1
    <3> HIDE DEF fs, N
    <3>3. Members(fs, v, 7, N)
      BY <3>1, <3>2, ImageSuits
    <3> QED BY <3>3
  <2>2. CASE c # Image
    <3>1. fs = c.writes
      BY <2>2, Zenon DEF Layout
    <3>2. Members(c.writes, v, Len(c.writes), N)
      BY ClassMembers
    <3> HIDE DEF fs, N
    <3> QED BY <3>1, <3>2
  <2> QED BY <2>1, <2>2
<1> HIDE DEF fs, N, counts
<1>3. CopyToBuf(fs, v, 0, counts) \in Cursors(N)
  BY <1>1, <1>2, MembersReadBack
<1> QED BY <1>3 DEF fs, N, counts

\* Its bytes, and how many copyToBuf counts.
LEMMA SampleLaid ==
  ASSUME NEW c \in Classes, c \in Fragmented, NEW v \in Values(c),
         NEW t, t = Sample(c, v)
  PROVE  /\ Laid(c, v, t) /\ CopyToBuf(Layout(c), v, 0, AllZero(c)).cnt = Len(t)
         /\ CalcRawTotalSize(c, v) = Len(t)
<1>1. CASE c = StringClass
  <2>1. c # Image
    BY <1>1, StringIsNoImage
  <2>2. Layout(c) = StringClass.writes
    BY <1>1, <2>1, Zenon DEF Layout
  <2> DEFINE copied == CopyToBuf(StringClass.writes, v, 0, AllZero(StringClass))
             n == v["data"]
  <2>3. t = copied.out /\ CopyToBuf(Layout(c), v, 0, AllZero(c)) = copied
    BY <1>1, <2>2, Zenon DEF Sample
  <2>4. StringClass \in Classes /\ v \in Values(StringClass)
    BY <1>1
  <2>5. /\ n \in Nat /\ "data" \in Names
        /\ copied.out \in Octets /\ Len(copied.out) = 4 + n /\ copied.cnt = 4 + n
        /\ ArrayHeld(copied.out, 0, "data", n)
    BY <2>4, StringLaidOut
  <2> HIDE DEF copied
  <2>6. t \in Octets /\ Len(t) = 4 + n /\ copied.cnt = Len(t) /\ ArrayHeld(t, 0, "data", n)
    BY <2>3, <2>5
  <2>7. 4 <= Len(t)
    BY <2>5, <2>6
  <2>8. Laid(c, v, t)
    BY <2>1, <2>5, <2>6, <2>7, Zenon DEF Laid
  <2>9. CalcRawTotalSize(c, v) = 4 + v["data"]
    BY <1>1, ClassesDiffer, Zenon DEF CalcRawTotalSize
  <2> QED BY <2>3, <2>6, <2>8, <2>9
<1>2. CASE c = Image
  <2>1. c # StringClass
    BY <1>2, StringIsNoImage
  <2>2. Layout(c) = ImageMembers("uint8")
    BY <1>2, Zenon DEF Layout
  <2> DEFINE copied == CopyToBuf(ImageMembers("uint8"), v, 0, AllZero(Image))
  <2>3. t = copied.out /\ CopyToBuf(Layout(c), v, 0, AllZero(c)) = copied
    BY <1>2, <2>2, Zenon DEF Sample
  <2>4. Image \in Classes /\ v \in Values(Image)
    BY <1>2
  <2>5. LaidOut(t, v) /\ copied.cnt = Len(t)
    BY <2>3, <2>4, ImageLaidOut
  <2>6. Image9(v)
    BY <2>4, ImageSuits DEF Image9
  <2>7. Len(t) = Begin(v, 9) /\ t \in Octets
    BY <2>5, Zenon DEF LaidOut
  <2>8. Begin(v, 9) = 32 + Padded(v["frame_id"]) + Padded(v["encoding"] + 1) + v["data"]
    BY BeginIs
  <2>9. Padded(v["frame_id"]) \in Nat /\ Padded(v["encoding"] + 1) \in Nat /\ v["data"] \in Nat
    <3>1. v["frame_id"] \in Nat /\ v["encoding"] + 1 \in Nat /\ v["data"] \in Nat
      BY <2>6 DEF Image9
    <3> QED BY <3>1, PaddedNat
  <2>10. ImageRawSize(v) = Len(t) /\ 4 <= Len(t)
    <3> DEFINE P == Padded(v["frame_id"])
               Q == Padded(v["encoding"] + 1)
               D == v["data"]
    <3>1. ImageRawSize(v) = 4 + 4 + (4 + P) + 4 + 4 + (4 + Q) + 4 + 4 + D
      BY DEF ImageRawSize
    <3>2. Len(t) = 32 + P + Q + D /\ P \in Nat /\ Q \in Nat /\ D \in Nat
      BY <2>7, <2>8, <2>9
    <3> HIDE DEF P, Q, D
    <3> QED BY <3>1, <3>2
  <2>11. CalcRawTotalSize(c, v) = ImageRawSize(v)
    BY <1>2, ClassesDiffer, Zenon DEF CalcRawTotalSize
  <2>12. Laid(c, v, t)
    BY <2>1, <2>5, <2>6, <2>7, <2>10, Zenon DEF Laid
  <2> HIDE DEF copied
  <2> QED BY <2>3, <2>5, <2>10, <2>11, <2>12
<1> QED BY <1>1, <1>2 DEF Fragmented

\* The whole sample, with the header and the padding of memAlign.
LEMMA SampleWhole ==
  ASSUME NEW c \in Classes, c \in Fragmented, NEW v \in Values(c),
         NEW t, t = Sample(c, v)
  PROVE  /\ CDR \o MemAlign(CopyToBuf(Layout(c), v, 0, AllZero(c))).out = Whole(t)
         /\ Len(Whole(t)) = CalcTotalSize(c, v) /\ Whole(t) \in Octets
<1> DEFINE N == NestedNames(c)
           copied == CopyToBuf(Layout(c), v, 0, AllZero(c))
           z == Zeros(Gap(Len(t), 4))
<1>1. copied \in Cursors(N) /\ t = copied.out
  BY SampleCopied DEF Sample
<1>2. copied.cnt = Len(t) /\ t \in Octets /\ Len(t) \in Nat /\ CalcRawTotalSize(c, v) = Len(t)
  BY SampleLaid, LengthNat DEF Laid
<1>3. Gap(Len(t), 4) \in Nat /\ Padded(Len(t) + 4) = Len(t) + 4 + Gap(Len(t), 4)
  <2>1. Gap(Len(t), 4) \in 0 .. 3 /\ Padded(Len(t) + 4) = Len(t) + 4 + Gap(Len(t), 4)
    BY <1>2, GapBounds
  <2> QED BY <2>1
<1>4. z \in Octets /\ Len(z) = Gap(Len(t), 4)
  BY <1>3, WrittenZeros
<1> HIDE DEF copied
<1>5. MemAlign(copied) = Put(copied, z)
  BY <1>2 DEF MemAlign, Align
<1> HIDE DEF z
<1>6. MemAlign(copied).out = t \o z
  BY <1>1, <1>4, <1>5, CursorPut
<1> DEFINE cdr == CDR
<1>7. cdr \in Octets /\ Len(cdr) = 4
  BY Header4
<1>8. Whole(t) = (cdr \o t) \o z
  BY DEF Whole, z
<1> HIDE DEF cdr
<1>9. cdr \o (t \o z) = (cdr \o t) \o z
  <2>1. cdr \in Octets /\ t \in Octets /\ z \in Octets
    BY <1>2, <1>4, <1>7
  <2> QED BY <2>1, OctetsRegroup, Zenon
<1>10. cdr \o t \in Octets /\ Len(cdr \o t) = 4 + Len(t)
  BY <1>2, <1>7, OctetsJoin
<1>11. Whole(t) \in Octets /\ Len(Whole(t)) = (4 + Len(t)) + Len(z)
  BY <1>4, <1>8, <1>10, OctetsJoin
<1>12. CalcTotalSize(c, v) = Padded(4 + Len(t))
  BY <1>2 DEF CalcTotalSize
<1>13. 4 + Len(t) = Len(t) + 4
  BY <1>2
<1>14. Len(Whole(t)) = CalcTotalSize(c, v)
  BY <1>2, <1>3, <1>4, <1>11, <1>12, <1>13
<1>15. cdr \o MemAlign(copied).out = Whole(t)
  BY <1>6, <1>8, <1>9
<1> QED BY <1>11, <1>14, <1>15 DEF cdr, copied

-----------------------------------------------------------------------------
(* The rounds of sendData. *)

\* An image between two fragments, with names of any length.
Going(v, m) ==
  \E b \in Nat : \E idx \in 0 .. 9 : \E parts \in PartsOf(v) :
    m = At(b, idx, parts) /\ OnTheWay(v, b, idx, parts)

LEMMA ZeroGoing ==
  ASSUME NEW v, Image9(v)
  PROVE  Going(v, ZeroCounters)
<1>1. NoParts \in PartsOf(v) /\ OnTheWay(v, 0, 0, NoParts) /\ ZeroCounters = At(0, 0, NoParts)
  BY ZeroAt
<1>2. 0 \in Nat /\ 0 \in 0 .. 9
  OBVIOUS
<1> QED BY <1>1, <1>2, Zenon DEF Going

LEMMA PeekSeq ==
  ASSUME NEW b, NEW n \in Nat, NEW k \in Nat, NEW w, w = Peek(b, 0, n) \o Zeros(k), w = <<>>
  PROVE  n = 0
<1> DEFINE p == Peek(b, 0, n)
           z == Zeros(k)
           S == {p[i] : i \in 1 .. n} \cup {z[i] : i \in 1 .. k}
<1>1. p = [i \in 1 .. n |-> p[i]] /\ z = [i \in 1 .. k |-> z[i]]
  BY DEF Peek, Zeros
<1>2. Len(p) = n
  BY PeekLength
<1> HIDE DEF p, z
<1>3. (\A i \in 1 .. n : p[i] \in S) /\ (\A i \in 1 .. k : z[i] \in S)
  OBVIOUS
<1> HIDE DEF S
<1>4. p \in [1 .. n -> S] /\ z \in [1 .. k -> S]
  BY <1>1, <1>3, Zenon
<1>5. p \in Seq(S) /\ z \in Seq(S)
  BY <1>4
<1>6. w = p \o z
  BY DEF p, z
<1>7. Len(w) = Len(p) + Len(z) /\ Len(z) \in Nat /\ Len(p) \in Nat
  BY <1>5, <1>6
<1>8. Len(w) = 0
  OBVIOUS
<1> QED BY <1>2, <1>7, <1>8

\* A turn of the loop, whatever the names of the image.
LEMMA ImageGoesOn ==
  ASSUME NEW v, NEW t, Laid(Image, v, t), NEW m, Going(v, m),
         NEW offset \in {0, 4},
         NEW n, n = Turned(Image, CopyToFragBuf(Image, m, v, 64 - offset), offset)
  PROVE  IF n.bytes = <<>> THEN n.msg = ZeroCounters ELSE Going(v, n.msg)
<1> DEFINE size == 64 - offset
           F == CopyToFragBuf(Image, m, v, size)
           length == F.length + offset
           bytes == Peek(SubSeq(CDR, 1, offset) \o F.bytes, 0, length)
<1>1. Image9(v) /\ LaidOut(t, v)
  BY Zenon DEF Laid
<1>2. PICK b \in Nat, at \in 0 .. 9, had \in PartsOf(v) :
        m = At(b, at, had) /\ OnTheWay(v, b, at, had)
  BY Zenon DEF Going
<1>3. F = ImageToFragBuf(At(b, at, had), v, size)
  BY <1>2, StringIsNoImage, Zenon DEF CopyToFragBuf
<1>4. ImagePiece(t, v, b, size, 0, F)
  <2>1. size \in Nat /\ 60 <= size
    OBVIOUS
  <2>2. 0 = 1 => OnlyData(v, b, size, at, had)
    OBVIOUS
  <2> HIDE DEF size
  <2>3. ImagePiece(t, v, b, size, 0, ImageToFragBuf(At(b, at, had), v, size))
    BY <1>1, <1>2, <2>1, <2>2, ImageFragment
  <2> QED BY <1>3, <2>3
<1>5. PICK idx \in 0 .. 9, parts \in PartsOf(v), out \in Octets :
        /\ F.bytes = out /\ F.msg = At(b + Len(out), idx, parts)
        /\ OnTheWay(v, b + Len(out), idx, parts) /\ Holds(t, b, out)
        /\ IF F.done
           THEN /\ idx = 9 /\ b + Len(out) = Len(t) /\ F.length \in Nat
                /\ 0 = 1 => F.length = Len(out)
           ELSE /\ F.length = Len(out) /\ out # <<>>
                /\ 0 = 1 => Len(out) = size /\ idx = 8 /\ parts["data"] >= 4
  BY <1>4, Zenon DEF ImagePiece
<1>6. Going(v, F.msg)
  <2>1. b + Len(out) \in Nat
    BY <1>2, LengthNat
  <2> QED BY <1>5, <2>1, Zenon DEF Going
<1>7. F.length \in Nat /\ (F.done \/ F.length # 0)
  BY <1>5, LengthNat, LengthNothing
<1>8. n = IF F.done /\ F.length = 0
          THEN [bytes |-> bytes, msg |-> ResetCount(Image, F.msg)]
          ELSE [bytes |-> IF F.done THEN bytes \o Zeros(Gap(length, 4)) ELSE bytes, msg |-> F.msg]
  BY Zenon DEF Turned
<1>9. length \in Nat /\ (length = 0 => F.length = 0) /\ Len(bytes) = length
  <2>1. length \in Nat /\ (length = 0 => F.length = 0)
    BY <1>7
  <2> HIDE DEF length
  <2> QED BY <2>1, PeekLength
<1>10. Gap(length, 4) \in Nat
  <2>1. Gap(length, 4) \in 0 .. 3
    BY <1>9, GapBounds
  <2> QED BY <2>1
<1>11. bytes \o Zeros(Gap(length, 4)) = <<>> => length = 0
  <2> HIDE DEF length
  <2> QED BY <1>9, <1>10, PeekSeq
<1>12. ResetCount(Image, F.msg) = ZeroCounters
  BY Zenon DEF ResetCount
<1>13. Going(v, ZeroCounters)
  BY <1>1, ZeroGoing
<1> HIDE DEF bytes, length, F
<1>14. CASE F.done /\ F.length = 0
  <2>1. n.msg = ZeroCounters
    BY <1>8, <1>12, <1>14
  <2> QED BY <1>13, <2>1
<1>15. CASE ~(F.done /\ F.length = 0)
  <2>1. n.bytes = (IF F.done THEN bytes \o Zeros(Gap(length, 4)) ELSE bytes) /\ n.msg = F.msg
    <3> DEFINE w == IF F.done THEN bytes \o Zeros(Gap(length, 4)) ELSE bytes
    <3>1. n = [bytes |-> w, msg |-> F.msg]
      BY <1>8, <1>15, Zenon
    <3> HIDE DEF w
    <3>2. n.bytes = w /\ n.msg = F.msg
      BY <3>1
    <3> QED BY <3>2 DEF w
  <2>2. F.length # 0
    BY <1>7, <1>15
  <2>3. n.bytes # <<>>
    <3>1. CASE F.done
      BY <1>9, <1>11, <2>1, <2>2, <3>1
    <3>2. CASE ~F.done
      <4>1. bytes = <<>> => Len(bytes) = 0
        OBVIOUS
      <4> QED BY <1>9, <2>1, <2>2, <3>2, <4>1
    <3> QED BY <3>1, <3>2
  <2> QED BY <1>6, <2>1, <2>3
<1> QED BY <1>14, <1>15

ShortFor(c, v) == c = Image => ImageRawSize(v) - v["data"] <= 60

\* What a round has made so far, and all of it when no round is under way.
Gathered(t, c, v, m, sd, s) ==
  /\ s \in Seq(Octets)
  /\ sd = 0 => FlattenSeq(s) = Whole(t)
  /\ sd # 0 => Stage(c, v, t, m, s)

Rounds(c, v, m, sd, n, s) ==
  /\ sd # 0 => n # 0
  /\ sd = 0 => m = ZeroCounters
  /\ sd # 0 /\ c = Image => Going(v, m)
  /\ n # 0 /\ ShortFor(c, v) => Gathered(Sample(c, v), c, v, m, sd, s)

\* The object is cut only while something stored refers to it.
FragmentsInv ==
  /\ sends \in Nat /\ (sends # 0 => Referred)
  /\ Rounds(class, value, msg, sending, sends, sent)

LEMMA SerialiseIs ==
  ASSUME NEW offset, offset = IF msg.cntPub = 0 THEN 4 ELSE 0
  PROVE  Serialise = Turned(class, CopyToFragBuf(class, msg, value, 64 - offset), offset)
BY ZenonT(40) DEF Serialise, Turned, FragSize

LEMMA ClassIsCut ==
  ASSUME OnlyStringsAndImagesGrow, PublishingInv, Referred
  PROVE  class \in Fragmented /\ class \in Classes /\ value \in Values(class)
<1>1. class \in Classes /\ value \in Values(class) /\ BufSize < CalcTotalSize(class, value)
  BY Zenon DEF PublishingInv
<1>2. CalcTotalSize(class, value) \in Nat
  BY <1>1, TotalSizeNat
<1>3. ~(CalcTotalSize(class, value) <= BufSize)
  BY <1>1, <1>2 DEF BufSize
<1> QED BY <1>1, <1>3 DEF OnlyStringsAndImagesGrow, Fragmented

LEMMA RoundBegins ==
  ASSUME NEW c \in Classes, c \in Fragmented, NEW v \in Values(c), NEW i, i # 0, NEW n, n # 0
  PROVE  Rounds(c, v, ZeroCounters, i, n, <<>>)
<1>1. Laid(c, v, Sample(c, v))
  BY SampleLaid
<1>2. ASSUME c = Image PROVE Going(v, ZeroCounters)
  <2>1. Image9(v)
    BY <1>1, <1>2, Zenon DEF Laid
  <2> QED BY <2>1, ZeroGoing
<1>3. Stage(c, v, Sample(c, v), ZeroCounters, <<>>)
  BY Zenon DEF Stage
<1>4. <<>> \in Seq(Octets)
  BY JoinsEmpty
<1>5. Gathered(Sample(c, v), c, v, ZeroCounters, i, <<>>)
  BY <1>3, <1>4, Zenon DEF Gathered
<1> QED BY <1>2, <1>5, Zenon DEF Rounds

\* One turn of the loop: either another fragment, or the round is over.
LEMMA RoundTurns ==
  ASSUME NEW c \in Classes, c \in Fragmented, NEW v \in Values(c), NEW m, NEW sd, sd # 0,
         NEW n, NEW s, Rounds(c, v, m, sd, n, s),
         NEW offset, offset = IF m.cntPub = 0 THEN 4 ELSE 0,
         NEW x, x = Turned(c, CopyToFragBuf(c, m, v, 64 - offset), offset)
  PROVE  IF x.bytes = <<>> THEN Rounds(c, v, x.msg, 0, n, s)
         ELSE Rounds(c, v, x.msg, sd, n, Append(s, x.bytes))
<1> DEFINE t == Sample(c, v)
<1>1. Laid(c, v, t) /\ n # 0 /\ (c = Image => Going(v, m))
      /\ (ShortFor(c, v) => Gathered(t, c, v, m, sd, s))
  <2>1. Laid(c, v, t)
    BY SampleLaid
  <2> QED BY <2>1, Zenon DEF Rounds
<1> HIDE DEF t
<1>2. ASSUME c = Image
      PROVE  IF x.bytes = <<>> THEN x.msg = ZeroCounters ELSE Going(v, x.msg)
  <2>1. Going(v, m) /\ Laid(Image, v, t)
    BY <1>1, <1>2
  <2>2. offset \in {0, 4} /\ x = Turned(Image, CopyToFragBuf(Image, m, v, 64 - offset), offset)
    BY <1>2
  <2> QED BY <2>1, <2>2, ImageGoesOn
<1>3. ASSUME ShortFor(c, v)
      PROVE  /\ x.bytes \in Octets /\ s \in Seq(Octets)
             /\ IF x.bytes = <<>> THEN x.msg = ZeroCounters /\ FlattenSeq(s) = Whole(t)
                ELSE Stage(c, v, t, x.msg, Append(s, x.bytes))
  <2>1. Ready(c, v, t)
    BY <1>1, <1>3, Zenon DEF Ready, ShortFor
  <2>2. s \in Seq(Octets) /\ Stage(c, v, t, m, s)
    BY <1>1, <1>3, Zenon DEF Gathered
  <2> QED BY <2>1, <2>2, RoundGoesOn
<1>4. c # Image => ShortFor(c, v)
  BY Zenon DEF ShortFor
<1>5. CASE x.bytes = <<>>
  <2>1. x.msg = ZeroCounters
    BY <1>2, <1>3, <1>4, <1>5
  <2>2. ShortFor(c, v) => Gathered(t, c, v, x.msg, 0, s)
    BY <1>3, <1>5, Zenon DEF Gathered
  <2> QED BY <1>5, <2>1, <2>2, Zenon DEF Rounds, t
<1>6. CASE x.bytes # <<>>
  <2>1. ShortFor(c, v) => Gathered(t, c, v, x.msg, sd, Append(s, x.bytes))
    <3>1. ASSUME ShortFor(c, v) PROVE Append(s, x.bytes) \in Seq(Octets)
      <4>1. x.bytes \in Octets /\ s \in Seq(Octets)
        BY <1>3, <3>1
      <4> HIDE DEF Octets
      <4> QED BY <4>1
    <3> QED BY <1>3, <1>6, <3>1, Zenon DEF Gathered
  <2>2. c = Image => Going(v, x.msg)
    BY <1>2, <1>6
  <2> QED BY <1>1, <1>6, <2>1, <2>2, Zenon DEF Rounds, t
<1> QED BY <1>5, <1>6

LEMMA PrefixBytes ==
  ASSUME NEW S, NEW h \in Seq(S), NEW t \in Seq(S), NEW z \in Seq(S), NEW b \in 1 .. Len(t),
         NEW a, a = h \o SubSeq(t, 1, b), NEW w, w = (h \o t) \o z
  PROVE  IsPrefix(a, w)
<1> DEFINE p == SubSeq(t, 1, b)
           u == h \o t
<1>1. p \in Seq(S) /\ Len(p) = b /\ \A i \in 1 .. b : p[i] = t[i]
  OBVIOUS
<1>2. u \in Seq(S) /\ Len(u) = Len(h) + Len(t)
      /\ (\A i \in 1 .. Len(u) : u[i] = IF i <= Len(h) THEN h[i] ELSE t[i - Len(h)])
  OBVIOUS
<1>3. Len(h) \in Nat /\ Len(t) \in Nat /\ Len(z) \in Nat /\ b \in Nat /\ b <= Len(t)
  OBVIOUS
<1> HIDE DEF p, u
<1>4. a \in Seq(S) /\ Len(a) = Len(h) + b
      /\ (\A i \in 1 .. Len(a) : a[i] = IF i <= Len(h) THEN h[i] ELSE p[i - Len(h)])
  BY <1>1 DEF p
<1>5. w \in Seq(S) /\ Len(w) = Len(u) + Len(z)
      /\ (\A i \in 1 .. Len(u) : w[i] = u[i])
  BY <1>2 DEF u
<1>6. Len(a) <= Len(u) /\ Len(a) <= Len(w) /\ Len(a) \in Nat
  BY <1>2, <1>3, <1>4, <1>5
<1>7. \A i \in 1 .. Len(a) : a[i] = w[i]
  <2> TAKE i \in 1 .. Len(a)
  <2>1. i \in 1 .. Len(u) /\ (i > Len(h) => i - Len(h) \in 1 .. b)
    BY <1>3, <1>4, <1>6
  <2>2. CASE i <= Len(h)
    BY <1>2, <1>4, <1>5, <2>1, <2>2
  <2>3. CASE i > Len(h)
    <3>1. a[i] = p[i - Len(h)] /\ w[i] = u[i] /\ u[i] = t[i - Len(h)]
      BY <1>2, <1>3, <1>4, <1>5, <2>1, <2>3
    <3> QED BY <1>1, <2>1, <2>3, <3>1
  <2> QED BY <1>3, <2>2, <2>3
<1>8. SubSeq(a, 1, Len(a)) = SubSeq(w, 1, Len(a))
  <2> DEFINE k == Len(a)
             x == SubSeq(a, 1, k)
             y == SubSeq(w, 1, k)
  <2>1. x = [i \in 1 .. k |-> a[i]] /\ y = [i \in 1 .. k |-> w[i]]
    BY <1>4, <1>5, <1>6
  <2> HIDE DEF x, y
  <2>2. x = y
    BY <1>7, <2>1
  <2> QED BY <2>2 DEF x, y
<1> QED BY <1>6, <1>8 DEF IsPrefix

LEMMA ItsOwnPrefix ==
  ASSUME NEW S, NEW w \in Seq(S)
  PROVE  IsPrefix(w, w) /\ IsPrefix(<<>>, w)
<1>1. Len(w) <= Len(w) /\ Len(<<>>) = 0 /\ 0 <= Len(w)
  OBVIOUS
<1>2. SubSeq(<<>>, 1, 0) = <<>> /\ SubSeq(w, 1, 0) = <<>>
  OBVIOUS
<1> QED BY <1>1, <1>2 DEF IsPrefix

LEMMA MadeIsPrefix ==
  ASSUME NEW t \in Octets, NEW c, NEW v, NEW m, NEW sd, NEW s, Gathered(t, c, v, m, sd, s)
  PROVE  IsPrefix(FlattenSeq(s), Whole(t))
<1> DEFINE w == Whole(t)
           cdr == CDR
           z == Zeros(Gap(Len(t), 4))
<1>1. w \in Octets /\ cdr \in Octets /\ z \in Octets /\ w = (cdr \o t) \o z
  <2>1. Gap(Len(t), 4) \in 0 .. 3
    BY LengthNat, GapBounds
  <2>2. \A g \in 0 .. 3 : g \in Nat
    OBVIOUS
  <2>3. z \in Octets
    BY <2>1, <2>2, WrittenZeros
  <2> QED BY <2>3, WholeOctets, Header4 DEF Whole
<1>2. IsPrefix(w, w) /\ IsPrefix(<<>>, w)
  BY <1>1, ItsOwnPrefix DEF Octets
<1> HIDE DEF w, cdr, z
<1>3. CASE sd = 0
  <2>1. FlattenSeq(s) = w
    BY <1>3 DEF Gathered, w
  <2> QED BY <1>2, <2>1 DEF w
<1>4. CASE sd # 0 /\ s = <<>>
  BY <1>2, <1>4, FlattenNone DEF w
<1>5. CASE sd # 0 /\ s # <<>>
  <2>1. Sending(t, m.cntPub, FlattenSeq(s))
    BY <1>5, Zenon DEF Gathered, Stage
  <2>2. CASE FlattenSeq(s) = Whole(t)
    BY <1>2, <2>2 DEF w
  <2>3. CASE FlattenSeq(s) = CDR \o SubSeq(t, 1, m.cntPub)
    <3>1. m.cntPub \in 1 .. Len(t)
      BY <2>1, Zenon DEF Sending
    <3>2. FlattenSeq(s) = cdr \o SubSeq(t, 1, m.cntPub)
      BY <2>3 DEF cdr
    <3>3. IsPrefix(FlattenSeq(s), w)
      BY <1>1, <3>1, <3>2, PrefixBytes DEF Octets
    <3> QED BY <3>3 DEF w
  <2> QED BY <2>1, <2>2, <2>3, Zenon DEF Sending
<1> QED BY <1>3, <1>4, <1>5

LEMMA FragmentsMake ==
  ASSUME OnlyStringsAndImagesGrow, PublishingInv, FragmentsInv
  PROVE  FragmentsMakeTheSample
<1> DEFINE t == Sample(class, value)
           copied == CopyToBuf(Layout(class), value, 0, AllZero(class))
           whole == CDR \o MemAlign(copied).out
           joined == FlattenSeq(sent)
<1>1. /\ sends \in Nat /\ (sends # 0 => Referred) /\ (sending = 0 => msg = ZeroCounters)
      /\ (sends # 0 /\ ShortFor(class, value) => Gathered(t, class, value, msg, sending, sent))
  BY Zenon DEF FragmentsInv, Rounds
<1>2. ASSUME sends > 0, ShortNames
      PROVE  /\ IsPrefix(joined, whole)
             /\ sending = 0 => joined = whole /\ Len(joined) = CalcTotalSize(class, value)
  <2>1. sends # 0
    BY <1>1, <1>2
  <2>2. class \in Fragmented /\ class \in Classes /\ value \in Values(class)
    BY <1>1, <2>1, ClassIsCut
  <2>3. ShortFor(class, value)
    BY <1>2, Header4 DEF ShortNames, ShortFor, FragSize
  <2>4. Gathered(t, class, value, msg, sending, sent)
    BY <1>1, <2>1, <2>3, Zenon
  <2>5. whole = Whole(t) /\ Len(Whole(t)) = CalcTotalSize(class, value)
    BY <2>2, SampleWhole
  <2>6. t \in Octets
    <3>1. Laid(class, value, t)
      BY <2>2, SampleLaid
    <3> QED BY <3>1, Zenon DEF Laid
  <2> HIDE DEF t, whole
  <2>7. IsPrefix(joined, Whole(t))
    BY <2>4, <2>6, MadeIsPrefix
  <2>8. sending = 0 => joined = Whole(t)
    BY <2>4, Zenon DEF Gathered
  <2> QED BY <2>5, <2>7, <2>8
<1> QED BY <1>1, <1>2, Zenon DEF FragmentsMakeTheSample

LEMMA FragmentsInit == Init => FragmentsInv
<1> SUFFICES ASSUME Init PROVE FragmentsInv
  OBVIOUS
<1>1. msg = ZeroCounters /\ sending = 0 /\ sends = 0
  BY Zenon DEF Init
<1>2. sends \in Nat /\ ~(sends # 0) /\ ~(sending # 0)
  BY <1>1
<1> QED BY <1>1, <1>2, Zenon DEF FragmentsInv, Rounds

LEMMA FragmentsStep ==
  OnlyStringsAndImagesGrow /\ PublishingInv /\ FragmentsInv /\ [Next]_vars => FragmentsInv'
<1> SUFFICES ASSUME OnlyStringsAndImagesGrow, PublishingInv, FragmentsInv, [Next]_vars
             PROVE  FragmentsInv'
  OBVIOUS
<1>1. /\ sends \in Nat /\ (sends # 0 => Referred)
      /\ Rounds(class, value, msg, sending, sends, sent)
  BY Zenon DEF FragmentsInv
<1>2. /\ sending = 0 => msg = ZeroCounters
      /\ sending # 0 => sends # 0
  BY <1>1, Zenon DEF Rounds
<1>3. ASSUME ~Referred, sending' = sending, sends' = sends, msg' = ZeroCounters
      PROVE  FragmentsInv'
  <2>1. sends = 0 /\ sending = 0
    BY <1>1, <1>2, <1>3
  <2>2. sends' \in Nat /\ ~(sends' # 0) /\ ~(sending' # 0)
    BY <1>3, <2>1
  <2> QED BY <1>3, <2>2, Zenon DEF FragmentsInv, Rounds
<1>4. CASE Refill
  <2>1. ~Referred /\ sending' = sending /\ sends' = sends /\ msg' = msg
    BY <1>4, Zenon DEF Refill
  <2>2. msg' = ZeroCounters
    BY <1>1, <1>2, <2>1
  <2> QED BY <1>3, <2>1, <2>2
<1>5. CASE Renew
  <2>1. ~Referred /\ sending' = sending /\ sends' = sends /\ msg' = ZeroCounters
    BY <1>5, Zenon DEF Renew
  <2> QED BY <1>3, <2>1
<1>6. CASE Publish
  <2>1. /\ sending = 0 /\ class' = class /\ value' = value /\ sending' = sending
        /\ sends' = sends /\ sent' = sent
    BY <1>6, Zenon DEF Publish
  <2>2. msg' = msg
    <3>1. CASE PublishSerialiser
      BY <3>1, Zenon DEF PublishSerialiser
    <3>2. CASE PublishBuffer
      <4>1. msg = ZeroCounters /\ msg' = [msg EXCEPT !.cntPub = 0]
        BY <1>2, <2>1, <3>2, Zenon DEF PublishBuffer
      <4>2. [ZeroCounters EXCEPT !.cntPub = 0] = ZeroCounters
        BY DEF ZeroCounters
      <4> QED BY <4>1, <4>2, Zenon
    <3> QED BY <1>6, <3>1, <3>2, Zenon DEF Publish
  <2>3. Referred => Referred'
    <3>1. \E e : history' = Append(history, e)
      <4>1. PublishSerialiser \/ PublishBuffer
        BY <1>6, Zenon DEF Publish
      <4> QED BY <4>1, Zenon DEF PublishSerialiser, PublishBuffer
    <3>2. history \in Seq(Range(history))
      BY Zenon DEF PublishingInv
    <3> QED BY <3>1, <3>2, ReferredOn
  <2>4. Rounds(class', value', msg', sending', sends', sent')
    BY <1>1, <2>1, <2>2, Zenon
  <2> QED BY <1>1, <2>1, <2>3, <2>4, Zenon DEF FragmentsInv
<1>7. ASSUME NEW i \in DOMAIN history, SendData(i)
      PROVE  FragmentsInv'
  <2>1. /\ sending = 0 /\ history[i].serialised /\ sending' = i /\ sends' = sends + 1
        /\ sent' = <<>> /\ class' = class /\ value' = value /\ msg' = msg /\ history' = history
    BY <1>7, Zenon DEF SendData
  <2>2. Referred
    BY <2>1, Zenon DEF Referred
  <2>3. Referred'
    BY <2>1, Zenon DEF Referred
  <2>4. i # 0
    <3>1. history \in Seq(Range(history))
      BY Zenon DEF PublishingInv
    <3> DEFINE S == Range(history)
    <3>2. history \in Seq(S)
      BY <3>1
    <3> HIDE DEF S
    <3> QED BY <3>2
  <2>5. sends + 1 \in Nat /\ sends + 1 # 0
    BY <1>1
  <2>6. class \in Fragmented /\ class \in Classes /\ value \in Values(class)
    BY <2>2, ClassIsCut
  <2>7. Rounds(class, value, ZeroCounters, i, sends + 1, <<>>)
    BY <2>4, <2>5, <2>6, RoundBegins
  <2>8. msg' = ZeroCounters
    BY <1>2, <2>1
  <2>9. Rounds(class', value', msg', sending', sends', sent')
    BY <2>1, <2>7, <2>8, Zenon
  <2> QED BY <2>1, <2>3, <2>5, <2>9, Zenon DEF FragmentsInv
<1>8. CASE SendFragment
  <2> DEFINE offset == IF msg.cntPub = 0 THEN 4 ELSE 0
             x == Serialise
  <2>1. /\ sending # 0 /\ msg' = x.msg
        /\ IF x.bytes = <<>> THEN sending' = 0 /\ sent' = sent
           ELSE sent' = Append(sent, x.bytes) /\ sending' = sending
        /\ class' = class /\ value' = value /\ history' = history /\ sends' = sends
    BY <1>8, Zenon DEF SendFragment
  <2>2. Referred
    BY <1>1, <1>2, <2>1
  <2>3. class \in Fragmented /\ class \in Classes /\ value \in Values(class)
    BY <2>2, ClassIsCut
  <2>4. x = Turned(class, CopyToFragBuf(class, msg, value, 64 - offset), offset)
    BY SerialiseIs
  <2> HIDE DEF x
  <2>5. IF x.bytes = <<>> THEN Rounds(class, value, x.msg, 0, sends, sent)
        ELSE Rounds(class, value, x.msg, sending, sends, Append(sent, x.bytes))
    BY <1>1, <2>1, <2>3, <2>4, RoundTurns
  <2>6. Rounds(class', value', msg', sending', sends', sent')
    <3>1. CASE x.bytes = <<>>
      BY <2>1, <2>5, <3>1, Zenon
    <3>2. CASE x.bytes # <<>>
      BY <2>1, <2>5, <3>2, Zenon
    <3> QED BY <3>1, <3>2
  <2>7. Referred'
    BY <2>1, <2>2, Zenon DEF Referred
  <2> QED BY <1>1, <2>1, <2>6, <2>7, Zenon DEF FragmentsInv
<1>9. ASSUME UNCHANGED <<class, value, msg, nested, history, sending, sends, sent>>
      PROVE  FragmentsInv'
  <2>1. /\ class' = class /\ value' = value /\ msg' = msg /\ sending' = sending /\ sends' = sends
        /\ sent' = sent /\ history' = history
    BY <1>9
  <2>2. Rounds(class', value', msg', sending', sends', sent')
    BY <1>1, <2>1, Zenon
  <2>3. Referred => Referred'
    BY <2>1, Zenon DEF Referred
  <2> QED BY <1>1, <2>1, <2>2, <2>3, Zenon DEF FragmentsInv
<1>10. ASSUME NEW i \in DOMAIN history, Deliver(i)
       PROVE  FragmentsInv'
  BY <1>9, <1>10, Zenon DEF Deliver
<1>11. CASE UNCHANGED vars
  <2>1. UNCHANGED <<class, value, msg, nested, history, sending, sends, sent>>
    BY <1>11 DEF vars
  <2> QED BY <1>9, <2>1
<1> QED BY <1>4, <1>5, <1>6, <1>7, <1>8, <1>10, <1>11, Zenon DEF Next

\* A string of any length and an image of any size whose names fit the first fragment
\* are sent as they are laid out: wherever copyToFragBuf stops, at the length of an
\* array, behind it or inside, the counters in the message let the next call go
\* on with the next byte, publish pads the last fragment as memAlign pads the whole, and the
\* round leaves the counters at 0, so that a repair makes the same fragments
\* (mros2.cpp:230, string.hpp, image.hpp:439).  A Header is assumed to fit the buffer.
THEOREM FragmentsAreTheSample ==
  ASSUME OnlyStringsAndImagesGrow
  PROVE  Spec => []FragmentsMakeTheSample
<1>1. PublishingInv /\ FragmentsInv => FragmentsMakeTheSample
  BY FragmentsMake
<1>2. PublishingInv /\ FragmentsInv /\ [Next]_vars => FragmentsInv'
  BY FragmentsStep
<1> QED BY <1>1, <1>2, FragmentsInit, PublishingInit, PublishingStep, PTL DEF Spec
=============================================================================
