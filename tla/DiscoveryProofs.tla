----------------------------- MODULE DiscoveryProofs -----------------------------
(***************************************************************************)
(* Theorems about Discovery, for any endpoints, participants, topics, QoS  *)
(* and sizes of the pools and lists: no match is missed by who waits for   *)
(* one.  The lemmas about the operators of Participant (sizes of pools,    *)
(* the first endpoint that passes) come first.                             *)
(***************************************************************************)
EXTENDS Discovery, FiniteSetTheorems, NaturalsInduction, TLAPS

-----------------------------------------------------------------------------
(* Induction, over a set instead of an operator.                           *)

LEMMA LeastOf ==
  ASSUME NEW T, T \subseteq Nat, T # {}
  PROVE  \E n \in T : \A m \in T : n <= m
<1>1. PICK n \in T : \A m \in T : <<m, n>> \notin OpToRel(<, Nat)
  BY NatLessThanWellFounded, WFMin
<1>2. ASSUME NEW m \in T PROVE n <= m
  <2>1. ~ m < n
    BY <1>1 DEF OpToRel
  <2> QED BY <2>1
<1> QED BY <1>2

LEMMA NatSetInduction ==
  ASSUME NEW T, 0 \in T, \A n \in Nat : n \in T => n + 1 \in T
  PROVE  Nat \subseteq T
<1> SUFFICES ASSUME NEW k \in Nat, k \notin T PROVE FALSE
  OBVIOUS
<1> DEFINE Rest == {n \in Nat : n \notin T}
<1>1. PICK n \in Rest : \A m \in Rest : n <= m
  <2>1. Rest \subseteq Nat /\ Rest # {}
    OBVIOUS
  <2> QED BY <2>1, LeastOf
<1>2. n \in Nat /\ n # 0 /\ n \notin T
  OBVIOUS
<1>3. n - 1 \in Nat /\ n - 1 \notin Rest
  BY <1>1, <1>2
<1> QED BY <1>2, <1>3

\* Of the sets of a family of finite sets one has the least cardinality.
LEMMA SmallestSet ==
  ASSUME NEW F, F # {}, \A S \in F : IsFiniteSet(S)
  PROVE  \E S \in F : \A T \in F : Cardinality(S) <= Cardinality(T)
<1> DEFINE Sizes == {Cardinality(S) : S \in F}
<1>1. Sizes \subseteq Nat /\ Sizes # {}
  BY FS_CardinalityType
<1>2. PICK n \in Sizes : \A m \in Sizes : n <= m
  BY <1>1, LeastOf
<1> QED BY <1>2

-----------------------------------------------------------------------------
(* The number of elements of a bag, BagCardinality, is a sum worked out by *)
(* taking the elements away one after the other.                           *)

PoolOK(B) == IsABag(B) /\ IsFiniteSet(DOMAIN B)

SumStep(B, sums, S) ==
  IF S = {} THEN 0
            ELSE B[CHOOSE e \in S : TRUE] + sums[S \ {CHOOSE e \in S : TRUE}]

Sums(B) == CHOOSE sums : sums = [S \in SUBSET DOMAIN B |-> SumStep(B, sums, S)]

LEMMA CardinalityIsSum == \A B : BagCardinality(B) = Sums(B)[DOMAIN B]
  BY DEF BagCardinality, Sums, SumStep

LEMMA OneLess ==
  ASSUME NEW S, IsFiniteSet(S), NEW x \in S
  PROVE  /\ IsFiniteSet(S \ {x}) /\ Cardinality(S \ {x}) \in Nat
         /\ Cardinality(S) = Cardinality(S \ {x}) + 1
         /\ ~ Cardinality(S) <= Cardinality(S \ {x})
<1>1. Cardinality(S) \in Nat /\ Cardinality(S \ {x}) = Cardinality(S) - 1
  BY FS_CardinalityType, FS_RemoveElement
<1> QED BY <1>1, FS_RemoveElement, FS_CardinalityType

\* A sum is what it is defined as: there is a function of that kind.
LEMMA SumsDefined ==
  ASSUME NEW B, PoolOK(B)
  PROVE  /\ Sums(B) \in [SUBSET DOMAIN B -> Nat]
         /\ \A S \in SUBSET DOMAIN B : Sums(B)[S] = SumStep(B, Sums(B), S)
<1> DEFINE D == DOMAIN B
           Upto(sums, n) == \A S \in SUBSET D :
                              Cardinality(S) <= n => sums[S] = SumStep(B, sums, S)
           T == {n \in Nat : \E sums \in [SUBSET D -> Nat] : Upto(sums, n)}
<1>1. \A S \in SUBSET D : IsFiniteSet(S) /\ Cardinality(S) \in Nat
  BY FS_Subset, FS_CardinalityType DEF PoolOK
<1>2. \A e \in D : B[e] \in Nat
  BY DEF PoolOK, IsABag
<1>3. \A S \in SUBSET D : S # {} =>
        LET e == CHOOSE x \in S : TRUE
        IN  /\ e \in S /\ S \ {e} \in SUBSET D
            /\ Cardinality(S) = Cardinality(S \ {e}) + 1
  BY <1>1, OneLess
<1>4. 0 \in T
  <2> DEFINE none == [S \in SUBSET D |-> 0]
  <2>1. none \in [SUBSET D -> Nat]
    OBVIOUS
  <2>2. \A S \in SUBSET D : Cardinality(S) <= 0 => S = {}
    BY <1>1, FS_EmptySet
  <2>3. Upto(none, 0)
    BY <2>2 DEF SumStep
  <2> QED BY <2>1, <2>3
<1>5. ASSUME NEW n \in Nat, n \in T
      PROVE  n + 1 \in T
  <2>1. PICK sums \in [SUBSET D -> Nat] : Upto(sums, n)
    BY <1>5
  <2> DEFINE more == [S \in SUBSET D |-> IF Cardinality(S) <= n THEN sums[S]
                                                                ELSE SumStep(B, sums, S)]
  <2>2. more \in [SUBSET D -> Nat]
    BY <1>2, <1>3 DEF SumStep
  <2>3. ASSUME NEW S \in SUBSET D, Cardinality(S) <= n + 1
        PROVE  more[S] = SumStep(B, more, S)
    <3>1. SumStep(B, more, S) = SumStep(B, sums, S)
      BY <1>1, <1>3, <2>3 DEF SumStep
    <3> QED BY <2>1, <3>1
  <2>4. Upto(more, n + 1)
    BY <2>3
  <2> HIDE DEF more, Upto
  <2> QED BY <2>2, <2>4
<1>6. Nat \subseteq T
  <2> HIDE DEF T
  <2> QED BY <1>4, <1>5, NatSetInduction
<1>7. PICK sums \in [SUBSET D -> Nat] : Upto(sums, Cardinality(D))
  BY <1>1, <1>6
<1>8. \A S \in SUBSET D : Cardinality(S) <= Cardinality(D)
  BY FS_Subset DEF PoolOK
<1>9. sums = [S \in SUBSET D |-> SumStep(B, sums, S)]
  BY <1>7, <1>8
<1>10. Sums(B) = [S \in SUBSET D |-> SumStep(B, Sums(B), S)]
  BY <1>9 DEF Sums
<1> DEFINE Bad == {S \in SUBSET D : Sums(B)[S] \notin Nat}
<1>11. ASSUME Bad # {} PROVE FALSE
  <2>1. PICK S \in Bad : \A R \in Bad : Cardinality(S) <= Cardinality(R)
    BY <1>1, <1>11, SmallestSet
  <2>2. S # {}
    BY <1>10 DEF SumStep
  <2> DEFINE e == CHOOSE x \in S : TRUE
  <2>3. e \in S /\ S \ {e} \in SUBSET D /\ S \ {e} \notin Bad
    BY <1>1, <1>3, <2>1, <2>2
  <2> QED BY <1>2, <1>10, <2>2, <2>3 DEF SumStep
<1> QED BY <1>10, <1>11

\* The order in which the elements are taken does not matter.
LEMMA SumOfOne ==
  ASSUME NEW B, PoolOK(B), NEW S \in SUBSET DOMAIN B, NEW x \in S
  PROVE  Sums(B)[S] = B[x] + Sums(B)[S \ {x}]
<1> DEFINE D == DOMAIN B
           Bad == {R \in SUBSET D :
                     \E y \in R : Sums(B)[R] # B[y] + Sums(B)[R \ {y}]}
<1>1. /\ \A R \in SUBSET D : Sums(B)[R] \in Nat /\ Sums(B)[R] = SumStep(B, Sums(B), R)
      /\ \A e \in D : B[e] \in Nat
  BY SumsDefined DEF PoolOK, IsABag
<1>2. ASSUME Bad # {} PROVE FALSE
  <2>1. \A R \in SUBSET D : IsFiniteSet(R)
    BY FS_Subset DEF PoolOK
  <2>2. PICK R \in Bad : \A Q \in Bad : Cardinality(R) <= Cardinality(Q)
    BY <1>2, <2>1, SmallestSet
  <2>3. PICK y \in R : Sums(B)[R] # B[y] + Sums(B)[R \ {y}]
    BY <2>2
  <2> DEFINE e == CHOOSE z \in R : TRUE
  <2>4. e \in R /\ Sums(B)[R] = B[e] + Sums(B)[R \ {e}]
    BY <1>1, <2>3 DEF SumStep
  <2> HIDE DEF e
  <2>5. e # y
    BY <2>3, <2>4
  <2>6. \A z \in R : R \ {z} \notin Bad
    <3>1. \A z \in R : ~ Cardinality(R) <= Cardinality(R \ {z})
      BY <2>1, OneLess
    <3> HIDE DEF Bad
    <3> QED BY <2>2, <3>1
  <2>7. /\ Sums(B)[R \ {e}] = B[y] + Sums(B)[(R \ {e}) \ {y}]
        /\ Sums(B)[R \ {y}] = B[e] + Sums(B)[(R \ {y}) \ {e}]
    BY <2>4, <2>5, <2>6
  <2>8. (R \ {e}) \ {y} = (R \ {y}) \ {e} /\ (R \ {e}) \ {y} \in SUBSET D
    OBVIOUS
  <2>9. B[e] \in Nat /\ B[y] \in Nat /\ Sums(B)[(R \ {e}) \ {y}] \in Nat
    BY <1>1, <2>4, <2>8
  <2>10. B[e] + (B[y] + Sums(B)[(R \ {e}) \ {y}]) = B[y] + (B[e] + Sums(B)[(R \ {e}) \ {y}])
    BY <2>9
  <2> QED BY <2>3, <2>4, <2>7, <2>8, <2>10, Zenon
<1> QED BY <1>2

LEMMA SumOfNone == ASSUME NEW B, PoolOK(B) PROVE Sums(B)[{}] = 0
  BY SumsDefined DEF SumStep

\* Two bags with as many of each element of S have as many elements in S.
LEMMA SumsAgree ==
  ASSUME NEW B, PoolOK(B), NEW C, PoolOK(C), NEW S,
         S \subseteq DOMAIN B \cap DOMAIN C, \A x \in S : B[x] = C[x]
  PROVE  Sums(B)[S] = Sums(C)[S]
<1> DEFINE Bad == {R \in SUBSET S : Sums(B)[R] # Sums(C)[R]}
<1>1. ASSUME Bad # {} PROVE FALSE
  <2>1. \A R \in SUBSET S : IsFiniteSet(R)
    BY FS_Subset DEF PoolOK
  <2>2. PICK R \in Bad : \A Q \in Bad : Cardinality(R) <= Cardinality(Q)
    BY <1>1, <2>1, SmallestSet
  <2>3. PICK y : y \in R
    BY <2>2, SumOfNone
  <2>4. /\ Sums(B)[R] = B[y] + Sums(B)[R \ {y}]
        /\ Sums(C)[R] = C[y] + Sums(C)[R \ {y}]
    BY <2>3, SumOfOne
  <2>5. R \ {y} \notin Bad
    BY <2>1, <2>2, <2>3, OneLess
  <2> QED BY <2>3, <2>4, <2>5
<1> QED BY <1>1

\* The more is added up the more there is.
LEMMA SumOfPart ==
  ASSUME NEW B, PoolOK(B), NEW S \in SUBSET DOMAIN B, NEW R \in SUBSET S
  PROVE  Sums(B)[R] <= Sums(B)[S]
<1> DEFINE Bad == {Q \in SUBSET S : R \subseteq Q /\ ~ Sums(B)[R] <= Sums(B)[Q]}
<1>1. \A Q \in SUBSET S : Sums(B)[Q] \in Nat
  BY SumsDefined
<1>2. ASSUME Bad # {} PROVE FALSE
  <2>1. \A Q \in SUBSET S : IsFiniteSet(Q)
    BY FS_Subset DEF PoolOK
  <2>2. PICK Q \in Bad : \A P \in Bad : Cardinality(Q) <= Cardinality(P)
    BY <1>2, <2>1, SmallestSet
  <2>3. PICK y \in Q : y \notin R
    <3>1. Q # R /\ R \subseteq Q
      BY <1>1, <2>2
    <3> QED BY <3>1
  <2>4. Sums(B)[Q] = B[y] + Sums(B)[Q \ {y}] /\ B[y] \in Nat
    BY <2>2, <2>3, SumOfOne DEF PoolOK, IsABag
  <2>5. Q \ {y} \notin Bad
    <3>1. ~ Cardinality(Q) <= Cardinality(Q \ {y})
      BY <2>1, <2>2, OneLess
    <3> HIDE DEF Bad
    <3> QED BY <2>2, <3>1
  <2> QED BY <1>1, <2>2, <2>3, <2>4, <2>5
<1> QED BY <1>2

-----------------------------------------------------------------------------
(* Pools of proxies.                                                       *)

LEMMA SizeOfPool ==
  ASSUME NEW B, PoolOK(B)
  PROVE  /\ BagCardinality(B) \in Nat
         /\ BagCardinality(B) = 0 <=> DOMAIN B = {}
<1>1. BagCardinality(B) = Sums(B)[DOMAIN B] /\ BagCardinality(B) \in Nat
  BY CardinalityIsSum, SumsDefined
<1>2. ASSUME NEW x \in DOMAIN B PROVE Sums(B)[DOMAIN B] > 0
  <2>1. Sums(B)[DOMAIN B] = B[x] + Sums(B)[DOMAIN B \ {x}] /\ B[x] \in Nat /\ B[x] > 0
    BY SumOfOne DEF PoolOK, IsABag
  <2>2. Sums(B)[DOMAIN B \ {x}] \in Nat
    BY SumsDefined
  <2> QED BY <2>1, <2>2
<1>3. DOMAIN B = {} => Sums(B)[DOMAIN B] = 0
  BY SumOfNone
<1>4. CASE DOMAIN B = {}
  BY <1>1, <1>3, <1>4
<1>5. CASE DOMAIN B # {}
  <2>1. PICK x : x \in DOMAIN B
    BY <1>5
  <2> QED BY <1>1, <1>2, <2>1, <1>5
<1> QED BY <1>4, <1>5

LEMMA EmptyPool == PoolOK(EmptyBag) /\ DOMAIN EmptyBag = {} /\ BagCardinality(EmptyBag) = 0
<1>1. PoolOK(EmptyBag) /\ DOMAIN EmptyBag = {}
  BY FS_EmptySet DEF EmptyBag, SetToBag, PoolOK, IsABag
<1> QED BY <1>1, SizeOfPool

LEMMA PoolOfOne ==
  ASSUME NEW g
  PROVE  /\ PoolOK(SetToBag({g})) /\ DOMAIN SetToBag({g}) = {g}
         /\ BagCardinality(SetToBag({g})) = 1
<1> DEFINE B == SetToBag({g})
<1>1. PoolOK(B) /\ DOMAIN B = {g} /\ B[g] = 1
  <2>1. IsFiniteSet({g})
    BY FS_Singleton
  <2>2. B = [e \in {g} |-> 1]
    BY DEF SetToBag
  <2> QED BY <2>1, <2>2 DEF PoolOK, IsABag
<1> HIDE DEF B
<1>2. Sums(B)[{g}] = B[g] + Sums(B)[{g} \ {g}] /\ {g} \ {g} = {}
  BY <1>1, SumOfOne
<1>3. BagCardinality(B) = 1
  BY <1>1, <1>2, SumOfNone, CardinalityIsSum
<1> QED BY <1>1, <1>3 DEF B

\* One proxy more.
LEMMA AddToPool ==
  ASSUME NEW B, PoolOK(B), NEW g
  PROVE  LET C == B (+) SetToBag({g})
         IN  /\ PoolOK(C) /\ DOMAIN C = DOMAIN B \cup {g}
             /\ BagCardinality(C) = BagCardinality(B) + 1
<1> DEFINE C == B (+) SetToBag({g})
           D == DOMAIN B
<1>1. /\ DOMAIN C = D \cup {g}
      /\ C = [e \in D \cup {g} |-> (IF e \in D THEN B[e] ELSE 0) + (IF e = g THEN 1 ELSE 0)]
  BY DEF SetToBag, (+)
<1>2. /\ \A e \in D \ {g} : C[e] = B[e]
      /\ C[g] = (IF g \in D THEN B[g] ELSE 0) + 1
      /\ \A e \in D : B[e] \in Nat /\ B[e] > 0
  BY <1>1 DEF PoolOK, IsABag
<1>3. PoolOK(C)
  <2>1. IsFiniteSet(D \cup {g})
    BY FS_AddElement DEF PoolOK
  <2> HIDE DEF C
  <2>2. \A e \in DOMAIN C : C[e] \in {n \in Nat : n > 0}
    BY <1>1, <1>2
  <2>3. C = [e \in DOMAIN C |-> C[e]]
    BY <1>1
  <2> QED BY <1>1, <2>1, <2>2, <2>3 DEF PoolOK, IsABag
<1> HIDE DEF C
<1>4. Sums(C)[D \cup {g}] = C[g] + Sums(C)[D \ {g}]
  <2>1. (D \cup {g}) \ {g} = D \ {g}
    OBVIOUS
  <2> QED BY <1>1, <1>3, <2>1, SumOfOne
<1>5. Sums(C)[D \ {g}] = Sums(B)[D \ {g}]
  BY <1>1, <1>2, <1>3, SumsAgree
<1>6. Sums(B)[D] = (IF g \in D THEN B[g] ELSE 0) + Sums(B)[D \ {g}]
  <2>1. CASE g \in D
    BY <2>1, SumOfOne
  <2>2. CASE g \notin D
    <3>1. D \ {g} = D /\ Sums(B)[D] \in Nat
      BY <2>2, SumsDefined
    <3> QED BY <2>2, <3>1
  <2> QED BY <2>1, <2>2
<1>7. Sums(B)[D \ {g}] \in Nat
  BY SumsDefined
<1>8. BagCardinality(C) = Sums(C)[D \cup {g}] /\ BagCardinality(B) = Sums(B)[D]
  BY <1>1, CardinalityIsSum
<1>9. BagCardinality(C) = BagCardinality(B) + 1
  BY <1>2, <1>4, <1>5, <1>6, <1>7, <1>8
<1> QED BY <1>1, <1>3, <1>9 DEF C

\* Some of the proxies go.
LEMMA PartOfPool ==
  ASSUME NEW B, PoolOK(B), NEW S \in SUBSET DOMAIN B
  PROVE  LET C == [g \in S |-> B[g]]
         IN  /\ PoolOK(C) /\ DOMAIN C = S
             /\ BagCardinality(C) <= BagCardinality(B)
<1> DEFINE C == [g \in S |-> B[g]]
<1>1. DOMAIN C = S /\ \A g \in S : C[g] = B[g]
  OBVIOUS
<1>2. PoolOK(C)
  BY FS_Subset DEF PoolOK, IsABag
<1> HIDE DEF C
<1>3. Sums(C)[S] = Sums(B)[S]
  BY <1>1, <1>2, SumsAgree
<1>4. Sums(B)[S] <= Sums(B)[DOMAIN B]
  BY SumOfPart
<1>5. BagCardinality(C) <= BagCardinality(B)
  BY <1>1, <1>3, <1>4, CardinalityIsSum
<1> QED BY <1>1, <1>2, <1>5 DEF C

-----------------------------------------------------------------------------
(* The first endpoint that passes a test.                                  *)

LEMMA FirstIndex ==
  ASSUME NEW T, T \subseteq Nat, T # {}
  PROVE  LET i == CHOOSE j \in T : \A k \in T : j <= k
         IN  i \in T /\ \A k \in T : i <= k
  BY LeastOf

LEMMA MatchingWriter ==
  ASSUME NEW S, writers \in Seq(S), NEW guid
  PROVE  LET passing == {e \in SeqRange(writers) : SameTopic(e, guid) /\ WriterSuits(e, guid)}
         IN  IF passing = {} THEN GetMatchingWriter(guid) = NoEndpoint
                             ELSE GetMatchingWriter(guid) \in passing
<1> DEFINE T == {i \in DOMAIN writers : SameTopic(writers[i], guid) /\ WriterSuits(writers[i], guid)}
<1>1. T \subseteq Nat
  OBVIOUS
<1>2. GetMatchingWriter(guid) =
        IF T = {} THEN NoEndpoint ELSE writers[CHOOSE i \in T : \A j \in T : i <= j]
  BY DEF GetMatchingWriter, FirstOf
<1>3. T # {} => (CHOOSE i \in T : \A j \in T : i <= j) \in T
  <2> HIDE DEF T
  <2> QED BY <1>1, FirstIndex
<1> QED BY <1>2, <1>3 DEF SeqRange

LEMMA MatchingReader ==
  ASSUME NEW S, readers \in Seq(S), NEW guid
  PROVE  LET passing == {e \in SeqRange(readers) : SameTopic(e, guid) /\ ReaderSuits(e, guid)}
         IN  IF passing = {} THEN GetMatchingReader(guid) = NoEndpoint
                             ELSE GetMatchingReader(guid) \in passing
<1> DEFINE T == {i \in DOMAIN readers : SameTopic(readers[i], guid) /\ ReaderSuits(readers[i], guid)}
<1>1. T \subseteq Nat
  OBVIOUS
<1>2. GetMatchingReader(guid) =
        IF T = {} THEN NoEndpoint ELSE readers[CHOOSE i \in T : \A j \in T : i <= j]
  BY DEF GetMatchingReader, FirstOf
<1>3. T # {} => (CHOOSE i \in T : \A j \in T : i <= j) \in T
  <2> HIDE DEF T
  <2> QED BY <1>1, FirstIndex
<1> QED BY <1>2, <1>3 DEF SeqRange

LEMMA MatchingWriterByHash ==
  ASSUME NEW S, writers \in Seq(S), NEW guid
  PROVE  LET passing == {e \in SeqRange(writers) : SameHash(e, guid) /\ WriterSuits(e, guid)}
         IN  IF passing = {} THEN GetMatchingWriterByHash(guid) = NoEndpoint
                             ELSE GetMatchingWriterByHash(guid) \in passing
<1> DEFINE T == {i \in DOMAIN writers : SameHash(writers[i], guid) /\ WriterSuits(writers[i], guid)}
<1>1. T \subseteq Nat
  OBVIOUS
<1>2. GetMatchingWriterByHash(guid) =
        IF T = {} THEN NoEndpoint ELSE writers[CHOOSE i \in T : \A j \in T : i <= j]
  BY DEF GetMatchingWriterByHash, FirstOf
<1>3. T # {} => (CHOOSE i \in T : \A j \in T : i <= j) \in T
  <2> HIDE DEF T
  <2> QED BY <1>1, FirstIndex
<1> QED BY <1>2, <1>3 DEF SeqRange

LEMMA MatchingReaderByHash ==
  ASSUME NEW S, readers \in Seq(S), NEW guid
  PROVE  LET passing == {e \in SeqRange(readers) : SameHash(e, guid) /\ ReaderSuits(e, guid)}
         IN  IF passing = {} THEN GetMatchingReaderByHash(guid) = NoEndpoint
                             ELSE GetMatchingReaderByHash(guid) \in passing
<1> DEFINE T == {i \in DOMAIN readers : SameHash(readers[i], guid) /\ ReaderSuits(readers[i], guid)}
<1>1. T \subseteq Nat
  OBVIOUS
<1>2. GetMatchingReaderByHash(guid) =
        IF T = {} THEN NoEndpoint ELSE readers[CHOOSE i \in T : \A j \in T : i <= j]
  BY DEF GetMatchingReaderByHash, FirstOf
<1>3. T # {} => (CHOOSE i \in T : \A j \in T : i <= j) \in T
  <2> HIDE DEF T
  <2> QED BY <1>1, FirstIndex
<1> QED BY <1>2, <1>3 DEF SeqRange

-----------------------------------------------------------------------------
(* The inductive invariant: what each variable is.                         *)

LocalUser == LocalWriters \cup LocalReaders

WriterSet == SeqRange(BuiltInWriters) \cup LocalWriters

ReaderSet == SeqRange(BuiltInReaders) \cup LocalReaders

\* The reader of participant announcements comes first, and never gets a proxy.
EndpointsOK ==
  /\ writers \in Seq(WriterSet) /\ readers \in Seq(ReaderSet)
  /\ readers # <<>> => readers[1] = "spdpReader"
  /\ writers = <<>> <=> readers = <<>>

\* Who may be in the pool of e: a user endpoint is matched on its topic only.
Fits(e, guid) ==
  /\ e \in Local \ {"spdpReader"}
  /\ guid \in Guids
  /\ e \in LocalUser => guid \in UserGuids /\ Topic[e] = Topic[guid]

PoolAt(e, pool) ==
  /\ PoolOK(pool) /\ BagCardinality(pool) <= ProxySlots
  /\ \A guid \in DOMAIN pool : Fits(e, guid)

PoolsOK ==
  /\ DOMAIN proxies = Local
  /\ \A e \in Local : PoolAt(e, proxies[e])
  /\ turnedAway \subseteq LocalUser \X UserGuids

RemotesOK ==
  /\ remotes \subseteq Participants
  /\ IsFiniteSet(remotes) /\ Cardinality(remotes) <= MaxRemotes
  /\ fresh \in [Participants -> BOOLEAN]

ExpectedOK ==
  /\ expected \in [SedpReaders -> [Participants -> Nat]]
  /\ pending \in [SedpReaders -> [who : Participants \cup {NoEndpoint}, next : Nat]]

-----------------------------------------------------------------------------
(* Where the threads may be, and with what.                                *)

IsPlace(pl) == pl = Place(pl.pc, pl.who, pl.e, pl.todo)

Pair(e, endpoints, guids) ==
  \E x \in endpoints, guid \in guids : e = <<x, guid>> /\ Topic[x] = Topic[guid]

TryPcs == {"tryReaders", "addReader", "toldReader",
           "tryWriters", "addWriter", "toldWriter", "tried"}

Trying(pl) ==
  /\ pl.pc \in {"tryReaders", "addReader", "toldReader"} => pl.todo \subseteq RemoteReaders
  /\ pl.pc \in {"addReader", "toldReader"} => Pair(pl.e, LocalWriters, RemoteReaders)
  /\ pl.pc \in {"tryWriters", "addWriter", "toldWriter"} => pl.todo \subseteq RemoteWriters
  /\ pl.pc \in {"addWriter", "toldWriter"} => Pair(pl.e, LocalReaders, RemoteWriters)

AppPlace(pl, n) ==
  /\ IsPlace(pl)
  /\ pl.pc \in TryPcs \cup {"idle", "lock", "callback", "argument", "count", "halt"}
  /\ Trying(pl)
  /\ pl.pc # "idle" => n < Len(Creations) /\ pl.who = Creations[n + 1]

PublisherPcs == {"lockPublisher", "findPublisher", "keepPublisher", "matchPublisher",
                 "tellPublisher"}

SubscriberPcs == {"lockSubscriber", "findSubscriber", "keepSubscriber",
                  "matchSubscriber", "tellSubscriber"}

SpdpPcs == {"process", "refresh", "add", "builtin", "fault", "spin"}

BuiltInPairs ==
  {"sedpPubReader", "sedpSubReader", "sedpPubWriter", "sedpSubWriter"}
    \X (Participants \X RemoteBuiltIns)

RxPlace(pl) ==
  /\ IsPlace(pl)
  /\ pl.pc \in TryPcs \cup PublisherPcs \cup SubscriberPcs \cup SpdpPcs \cup {"idle"}
  /\ Trying(pl)
  /\ pl.pc \in PublisherPcs => pl.who \in RemoteWriters
  /\ pl.pc = "tellPublisher" => pl.e \in LocalReaders /\ Topic[pl.e] = Topic[pl.who]
  /\ pl.pc \in SubscriberPcs => pl.who \in RemoteReaders
  /\ pl.pc \in SpdpPcs => pl.who \in Participants
  /\ pl.pc = "builtin" => pl.todo \in Seq(BuiltInPairs)

RemovalPcs == {"writers", "readers", "unmatched", "pool"}

SpdpPlace(pl) ==
  /\ IsPlace(pl)
  /\ pl.pc \in RemovalPcs \cup {"idle", "check"}
  /\ pl.todo \subseteq Participants
  /\ pl.pc \in RemovalPcs => pl.who \in Participants

ThreadsOK ==
  /\ DOMAIN th = Threads
  /\ AppPlace(th["app"], created)
  /\ RxPlace(th["rx"])
  /\ SpdpPlace(th["spdp"])

DiscoveryInv ==
  /\ EndpointsOK /\ PoolsOK /\ RemotesOK /\ SEDPTypeOK /\ ExpectedOK
  /\ ThreadsOK
  /\ running \in BOOLEAN /\ created \in 0 .. Len(Creations)

-----------------------------------------------------------------------------
(* The matching endpoint.                                                  *)

LEMMA LocalSets ==
  /\ Local = WriterSet \cup ReaderSet
  /\ WriterSet \cap UserEndpoints = LocalWriters
  /\ ReaderSet \cap UserEndpoints = LocalReaders
  /\ Local \cap UserEndpoints = LocalUser
  /\ NoEndpoint \notin LocalUser
  /\ "spdpReader" \in ReaderSet /\ "spdpReader" \notin LocalUser
  /\ LocalUser \subseteq Local
<1>1. "spdpReader" \in SeqRange(BuiltInReaders)
  <2>1. BuiltInReaders[1] = "spdpReader" /\ 1 \in DOMAIN BuiltInReaders
    BY DEF BuiltInReaders
  <2> QED BY <2>1 DEF SeqRange
<1> QED BY <1>1, EndpointAssumption, ParticipantAssumption
        DEF Local, WriterSet, ReaderSet, LocalUser, UserEndpoints

\* What the getMatching operators find is of the topic asked for.
LEMMA FoundWriter ==
  ASSUME EndpointsOK, NEW guid \in UserGuids, NEW w,
         w = GetMatchingWriter(guid) \/ w = GetMatchingWriterByHash(guid), w # NoEndpoint
  PROVE  w \in LocalWriters /\ w \in SeqRange(writers) /\ Topic[w] = Topic[guid]
         /\ WriterSuits(w, guid)
<1>1. writers \in Seq(WriterSet)
  BY DEF EndpointsOK
<1>2. w \in SeqRange(writers) /\ (SameTopic(w, guid) \/ SameHash(w, guid)) /\ WriterSuits(w, guid)
  BY <1>1, MatchingWriter, MatchingWriterByHash
<1>3. w \in WriterSet
  BY <1>1, <1>2 DEF SeqRange
<1> QED BY <1>2, <1>3, LocalSets, ParticipantAssumption DEF SameTopic, SameHash, UserEndpoints

LEMMA FoundReader ==
  ASSUME EndpointsOK, NEW guid \in UserGuids, NEW r,
         r = GetMatchingReader(guid) \/ r = GetMatchingReaderByHash(guid), r # NoEndpoint
  PROVE  r \in LocalReaders /\ r \in SeqRange(readers) /\ Topic[r] = Topic[guid]
         /\ ReaderSuits(r, guid)
<1>1. readers \in Seq(ReaderSet)
  BY DEF EndpointsOK
<1>2. r \in SeqRange(readers) /\ (SameTopic(r, guid) \/ SameHash(r, guid)) /\ ReaderSuits(r, guid)
  BY <1>1, MatchingReader, MatchingReaderByHash
<1>3. r \in ReaderSet
  BY <1>1, <1>2 DEF SeqRange
<1> QED BY <1>2, <1>3, LocalSets, ParticipantAssumption DEF SameTopic, SameHash, UserEndpoints

-----------------------------------------------------------------------------
(* The pools.                                                              *)

LEMMA WithProxyKeeps ==
  ASSUME NEW e, NEW pool, PoolAt(e, pool), NEW guid, Fits(e, guid)
  PROVE  PoolAt(e, WithProxy(pool, guid))
<1> DEFINE more == pool (+) SetToBag({guid})
<1>1. /\ PoolOK(more) /\ DOMAIN more = DOMAIN pool \cup {guid}
      /\ BagCardinality(more) = BagCardinality(pool) + 1
  BY AddToPool DEF PoolAt
<1>2. BagCardinality(pool) \in Nat /\ ProxySlots \in Nat
  BY SizeOfPool, ParticipantAssumption DEF PoolAt
<1> HIDE DEF more
<1>3. BagCardinality(pool) < ProxySlots => PoolAt(e, more)
  BY <1>1, <1>2 DEF PoolAt
<1> QED BY <1>3 DEF WithProxy, more

LEMMA AddProxyKeeps ==
  ASSUME PoolsOK, NEW e, NEW guid, Fits(e, guid), AddProxy(e, guid)
  PROVE  PoolsOK'
<1>1. e \in Local /\ proxies' = [proxies EXCEPT ![e] = WithProxy(proxies[e], guid)]
  BY DEF AddProxy, Fits
<1>2. PoolAt(e, WithProxy(proxies[e], guid))
  BY <1>1, WithProxyKeeps DEF PoolsOK
<1>3. e \in UserEndpoints => e \in LocalUser /\ guid \in UserGuids
  BY <1>1, LocalSets DEF Fits
<1>4. turnedAway' \subseteq LocalUser \X UserGuids
  BY <1>3 DEF AddProxy, PoolsOK
<1> QED BY <1>1, <1>2, <1>4 DEF PoolsOK

LEMMA RemoveProxiesKeeps ==
  ASSUME PoolsOK, NEW e, NEW p, RemoveProxiesOf(e, p), turnedAway' = turnedAway
  PROVE  PoolsOK'
<1> DEFINE left == {guid \in DOMAIN proxies[e] : Prefix(guid) # p}
           pool == [guid \in left |-> proxies[e][guid]]
<1>1. proxies' = [proxies EXCEPT ![e] = pool]
  BY DEF RemoveProxiesOf, BagToSet
<1>2. CASE e \in Local
  <2>1. PoolAt(e, proxies[e])
    BY <1>2 DEF PoolsOK
  <2>2. PoolOK(pool) /\ DOMAIN pool = left /\ BagCardinality(pool) <= BagCardinality(proxies[e])
    BY <2>1, PartOfPool DEF PoolAt
  <2>3. BagCardinality(pool) \in Nat /\ BagCardinality(proxies[e]) \in Nat /\ ProxySlots \in Nat
    BY <2>1, <2>2, SizeOfPool, ParticipantAssumption DEF PoolAt
  <2> HIDE DEF pool
  <2>4. PoolAt(e, pool)
    BY <2>1, <2>2, <2>3 DEF PoolAt
  <2> QED BY <1>1, <1>2, <2>4 DEF PoolsOK
<1>3. CASE e \notin Local
  BY <1>1, <1>3 DEF PoolsOK
<1> QED BY <1>2, <1>3

\* create_node puts the proxies of the participant to come into two pools.
LEMMA CreateNodeKeepsPools ==
  ASSUME PoolsOK, CreateNode
  PROVE  PoolsOK'
<1> DEFINE pub == SetToBag({<<ZeroPrefix, "pubReader">>})
           sub == SetToBag({<<ZeroPrefix, "subReader">>})
<1>1. /\ proxies' = [proxies EXCEPT !["sedpPubWriter"] = pub, !["sedpSubWriter"] = sub]
      /\ turnedAway' = turnedAway
  BY DEF CreateNode, RegisterSedpBuiltinEndpoints
<1>2. /\ PoolOK(pub) /\ DOMAIN pub = {<<ZeroPrefix, "pubReader">>} /\ BagCardinality(pub) = 1
      /\ PoolOK(sub) /\ DOMAIN sub = {<<ZeroPrefix, "subReader">>} /\ BagCardinality(sub) = 1
  BY PoolOfOne
<1>3. /\ {"sedpPubWriter", "sedpSubWriter"} \subseteq Local \ LocalUser
      /\ {<<ZeroPrefix, "pubReader">>, <<ZeroPrefix, "subReader">>} \subseteq Guids
  <2>1. /\ BuiltInWriters[2] = "sedpPubWriter" /\ 2 \in DOMAIN BuiltInWriters
        /\ BuiltInWriters[3] = "sedpSubWriter" /\ 3 \in DOMAIN BuiltInWriters
    BY DEF BuiltInWriters
  <2>2. {"sedpPubWriter", "sedpSubWriter"} \subseteq SeqRange(BuiltInWriters)
    BY <2>1 DEF SeqRange
  <2> QED BY <2>2, EndpointAssumption
          DEF Local, LocalUser, UserEndpoints, Guids, RemoteBuiltIns
<1> HIDE DEF pub, sub
<1>4. PoolAt("sedpPubWriter", pub) /\ PoolAt("sedpSubWriter", sub)
  BY <1>2, <1>3, ParticipantAssumption DEF PoolAt, Fits
<1> QED BY <1>1, <1>3, <1>4 DEF PoolsOK

-----------------------------------------------------------------------------
(* What does not change stays right.                                       *)

LEMMA KeepEndpoints == EndpointsOK /\ UNCHANGED <<writers, readers>> => EndpointsOK'
  BY DEF EndpointsOK

LEMMA KeepPools == PoolsOK /\ UNCHANGED <<proxies, turnedAway>> => PoolsOK'
  BY DEF PoolsOK

LEMMA KeepRemotes == RemotesOK /\ UNCHANGED <<remotes, fresh>> => RemotesOK'
  BY DEF RemotesOK

LEMMA KeepSEDP == SEDPTypeOK /\ UNCHANGED <<unmatched_vars, match_vars, sedp>> => SEDPTypeOK'
  BY DEF SEDPTypeOK, unmatched_vars, match_vars

LEMMA KeepExpected == ExpectedOK /\ UNCHANGED spdp_vars => ExpectedOK'
  BY DEF ExpectedOK, spdp_vars

-----------------------------------------------------------------------------
(* The threads.                                                            *)

LEMMA PlaceFields ==
  \A pc, who, e, todo :
    /\ IsPlace(Place(pc, who, e, todo))
    /\ Place(pc, who, e, todo).pc = pc /\ Place(pc, who, e, todo).who = who
    /\ Place(pc, who, e, todo).e = e /\ Place(pc, who, e, todo).todo = todo
  BY DEF IsPlace, Place

LEMMA ChangedPlace ==
  ASSUME NEW pl, IsPlace(pl)
  PROVE  /\ \A pc : [pl EXCEPT !.pc = pc] = Place(pc, pl.who, pl.e, pl.todo)
         /\ \A todo : [pl EXCEPT !.todo = todo] = Place(pl.pc, pl.who, pl.e, todo)
         /\ \A e : [pl EXCEPT !.e = e] = Place(pl.pc, pl.who, e, pl.todo)
         /\ \A pc, e : [pl EXCEPT !.pc = pc, !.e = e] = Place(pc, pl.who, e, pl.todo)
<1> DEFINE pc0 == pl.pc  who0 == pl.who  e0 == pl.e  todo0 == pl.todo
<1>1. pl = [pc |-> pc0, who |-> who0, e |-> e0, todo |-> todo0]
  BY DEF IsPlace, Place
<1> HIDE DEF pc0, who0, e0, todo0
<1>2. /\ \A pc : [pl EXCEPT !.pc = pc] = Place(pc, who0, e0, todo0)
      /\ \A todo : [pl EXCEPT !.todo = todo] = Place(pc0, who0, e0, todo)
      /\ \A e : [pl EXCEPT !.e = e] = Place(pc0, who0, e, todo0)
      /\ \A pc, e : [pl EXCEPT !.pc = pc, !.e = e] = Place(pc, who0, e, todo0)
  <2>1. \A pc : [pl EXCEPT !.pc = pc] = Place(pc, who0, e0, todo0)
    BY <1>1 DEF Place
  <2>2. \A todo : [pl EXCEPT !.todo = todo] = Place(pc0, who0, e0, todo)
    BY <1>1 DEF Place
  <2>3. \A e : [pl EXCEPT !.e = e] = Place(pc0, who0, e, todo0)
    BY <1>1 DEF Place
  <2>4. ASSUME NEW pc, NEW e
        PROVE  [pl EXCEPT !.pc = pc, !.e = e] = Place(pc, who0, e, todo0)
    <3>1. [pl EXCEPT !.pc = pc, !.e = e] = [[pl EXCEPT !.pc = pc] EXCEPT !.e = e]
      BY <1>1
    <3>2. [pl EXCEPT !.pc = pc] = [pc |-> pc, who |-> who0, e |-> e0, todo |-> todo0]
      BY <1>1
    <3> DEFINE one == [pc |-> pc, who |-> who0, e |-> e0, todo |-> todo0]
    <3>3. [one EXCEPT !.e = e] = [pc |-> pc, who |-> who0, e |-> e, todo |-> todo0]
      OBVIOUS
    <3>4. [pl EXCEPT !.pc = pc, !.e = e] = [one EXCEPT !.e = e]
      BY <3>1, <3>2
    <3> HIDE DEF one
    <3> QED BY <3>3, <3>4 DEF Place
  <2> QED BY <2>1, <2>2, <2>3, <2>4
<1> QED BY <1>2 DEF pc0, who0, e0, todo0

LEMMA GoEffect ==
  ASSUME DOMAIN th = Threads, NEW t \in Threads, NEW pl, Go(t, pl)
  PROVE  DOMAIN th' = Threads /\ th'[t] = pl /\ \A u \in Threads \ {t} : th'[u] = th[u]
BY DEF Go

LEMMA RxMoves ==
  ASSUME ThreadsOK, NEW pl, Go("rx", pl), RxPlace(pl), created' = created
  PROVE  ThreadsOK'
<1>1. DOMAIN th' = Threads /\ th'["rx"] = pl /\ th'["app"] = th["app"] /\ th'["spdp"] = th["spdp"]
  BY GoEffect DEF ThreadsOK, Threads
<1> QED BY <1>1 DEF ThreadsOK

LEMMA AppMoves ==
  ASSUME ThreadsOK, NEW pl, Go("app", pl), AppPlace(pl, created')
  PROVE  ThreadsOK'
<1>1. DOMAIN th' = Threads /\ th'["app"] = pl /\ th'["rx"] = th["rx"] /\ th'["spdp"] = th["spdp"]
  BY GoEffect DEF ThreadsOK, Threads
<1> QED BY <1>1 DEF ThreadsOK

LEMMA SpdpMoves ==
  ASSUME ThreadsOK, NEW pl, Go("spdp", pl), SpdpPlace(pl), created' = created
  PROVE  ThreadsOK'
<1>1. DOMAIN th' = Threads /\ th'["spdp"] = pl /\ th'["app"] = th["app"] /\ th'["rx"] = th["rx"]
  BY GoEffect DEF ThreadsOK, Threads
<1> QED BY <1>1 DEF ThreadsOK

-----------------------------------------------------------------------------
(* tryMatchUnmatchedEndpoints.                                             *)

LEMMA UserFits ==
  ASSUME NEW e \in LocalUser, NEW guid \in UserGuids, Topic[e] = Topic[guid]
  PROVE  Fits(e, guid)
BY LocalSets DEF Fits, Guids

LEMMA TryPlaces ==
  ASSUME ThreadsOK, NEW t \in {"app", "rx"}
  PROVE  t \in Threads /\ IsPlace(th[t]) /\ Trying(th[t])
BY DEF ThreadsOK, AppPlace, RxPlace, Threads

LEMMA TryKeeps ==
  ASSUME DiscoveryInv, NEW t \in {"app", "rx"}, TryMatch(t)
  PROVE  /\ EndpointsOK' /\ PoolsOK' /\ RemotesOK' /\ SEDPTypeOK'
         /\ th[t].pc \in TryPcs
         /\ \E pl : /\ Go(t, pl) /\ IsPlace(pl) /\ pl.pc \in TryPcs /\ Trying(pl)
                    /\ pl.who = th[t].who
<1> USE PlaceFields
<1>1. IsPlace(th[t]) /\ Trying(th[t])
  BY TryPlaces DEF DiscoveryInv
<1>2. CASE TryReaders(t)
  <2>1. /\ At(t, "tryReaders")
        /\ UNCHANGED <<participant_vars, unmatched_vars, match_vars, sedp>>
    BY <1>2 DEF TryReaders
  <2>2. EndpointsOK' /\ PoolsOK' /\ RemotesOK' /\ SEDPTypeOK'
    BY <2>1, KeepEndpoints, KeepPools, KeepRemotes, KeepSEDP
       DEF DiscoveryInv, participant_vars
  <2>3. th[t].pc \in TryPcs
    BY <2>1 DEF At, TryPcs
  <2>4. CASE th[t].todo = {}
    <3> DEFINE pl == Place("tryWriters", th[t].who, NoEndpoint, unmatchedWriters)
    <3>1. Go(t, pl)
      BY <1>2, <2>4 DEF TryReaders
    <3>2. Trying(pl) /\ pl.pc \in TryPcs /\ pl.who = th[t].who /\ IsPlace(pl)
      BY DEF Trying, TryPcs, DiscoveryInv, SEDPTypeOK
    <3> HIDE DEF pl
    <3> QED BY <2>2, <2>3, <3>1, <3>2
  <2>5. CASE th[t].todo # {}
    <3>1. PICK guid \in th[t].todo :
            LET w    == GetMatchingWriterByHash(guid)
                rest == th[t].todo \ {guid}
            IN IF w = NoEndpoint \/ Knows(w, guid)
               THEN Go(t, [th[t] EXCEPT !.todo = rest])
               ELSE Go(t, Place("addReader", th[t].who, <<w, guid>>, rest))
      BY <1>2, <2>5 DEF TryReaders
    <3> DEFINE w == GetMatchingWriterByHash(guid)
               rest == th[t].todo \ {guid}
               pl1 == Place(th[t].pc, th[t].who, th[t].e, rest)
               pl2 == Place("addReader", th[t].who, <<w, guid>>, rest)
    <3>2. guid \in RemoteReaders /\ rest \subseteq RemoteReaders
      BY <1>1, <2>1, <3>1 DEF Trying, At
    <3>3. [th[t] EXCEPT !.todo = rest] = pl1
      BY <1>1, ChangedPlace
    <3>4. Trying(pl1) /\ pl1.pc \in TryPcs /\ pl1.who = th[t].who /\ IsPlace(pl1)
      BY <2>1, <3>2 DEF Trying, TryPcs, At
    <3>5. ASSUME w # NoEndpoint
          PROVE  Trying(pl2) /\ pl2.pc \in TryPcs /\ pl2.who = th[t].who /\ IsPlace(pl2)
      <4>1. w \in LocalWriters /\ Topic[w] = Topic[guid]
        BY <3>2, <3>5, FoundWriter DEF DiscoveryInv, UserGuids
      <4>2. Pair(<<w, guid>>, LocalWriters, RemoteReaders)
        BY <3>2, <4>1 DEF Pair
      <4> QED BY <3>2, <4>2 DEF Trying, TryPcs
    <3>6. Go(t, pl1) \/ (w # NoEndpoint /\ Go(t, pl2))
      BY <3>1, <3>3
    <3> HIDE DEF pl1, pl2, w, rest
    <3> QED BY <2>2, <2>3, <3>4, <3>5, <3>6
  <2> QED BY <2>4, <2>5
<1>3. CASE TryAddReader(t)
  <2>1. /\ At(t, "addReader") /\ AddProxy(th[t].e[1], th[t].e[2])
        /\ Go(t, [th[t] EXCEPT !.pc = "toldReader"])
        /\ UNCHANGED <<writers, readers, remotes, fresh, unmatched_vars, match_vars, sedp>>
    BY <1>3 DEF TryAddReader
  <2> DEFINE pl == Place("toldReader", th[t].who, th[t].e, th[t].todo)
  <2>2. Go(t, pl)
    BY <1>1, <2>1, ChangedPlace
  <2>3. Trying(pl) /\ pl.pc \in TryPcs /\ pl.who = th[t].who /\ IsPlace(pl)
    BY <1>1, <2>1 DEF Trying, TryPcs, At
  <2>4. Pair(th[t].e, LocalWriters, RemoteReaders)
    BY <1>1, <2>1 DEF Trying, At
  <2>5. Fits(th[t].e[1], th[t].e[2])
    BY <2>4, UserFits DEF Pair, LocalUser, UserGuids
  <2>6. PoolsOK'
    BY <2>1, <2>5, AddProxyKeeps DEF DiscoveryInv
  <2>7. EndpointsOK' /\ RemotesOK' /\ SEDPTypeOK'
    BY <2>1, KeepEndpoints, KeepRemotes, KeepSEDP DEF DiscoveryInv
  <2>8. th[t].pc \in TryPcs
    BY <2>1 DEF At, TryPcs
  <2> HIDE DEF pl
  <2> QED BY <2>2, <2>3, <2>6, <2>7, <2>8
<1>4. CASE TryTellSubscriber(t)
  <2>1. /\ At(t, "toldReader") /\ TellSubscriber
        /\ Go(t, [th[t] EXCEPT !.pc = "tryReaders", !.e = NoEndpoint])
        /\ UNCHANGED <<participant_vars, unmatched_vars, onNewSubscriber, onNewPublisher,
                       pubMatched, sedp>>
    BY <1>4 DEF TryTellSubscriber
  <2> DEFINE pl == Place("tryReaders", th[t].who, NoEndpoint, th[t].todo)
  <2>2. Go(t, pl)
    BY <1>1, <2>1, ChangedPlace
  <2>3. Trying(pl) /\ pl.pc \in TryPcs /\ pl.who = th[t].who /\ IsPlace(pl)
    BY <1>1, <2>1 DEF Trying, TryPcs, At
  <2>4. SEDPTypeOK'
    BY <2>1 DEF DiscoveryInv, SEDPTypeOK, TellSubscriber, unmatched_vars
  <2>5. EndpointsOK' /\ PoolsOK' /\ RemotesOK'
    BY <2>1, KeepEndpoints, KeepPools, KeepRemotes DEF DiscoveryInv, participant_vars
  <2>6. th[t].pc \in TryPcs
    BY <2>1 DEF At, TryPcs
  <2> HIDE DEF pl
  <2> QED BY <2>2, <2>3, <2>4, <2>5, <2>6
<1>5. CASE TryWriters(t)
  <2>1. /\ At(t, "tryWriters")
        /\ UNCHANGED <<participant_vars, unmatched_vars, match_vars, sedp>>
    BY <1>5 DEF TryWriters
  <2>2. EndpointsOK' /\ PoolsOK' /\ RemotesOK' /\ SEDPTypeOK'
    BY <2>1, KeepEndpoints, KeepPools, KeepRemotes, KeepSEDP
       DEF DiscoveryInv, participant_vars
  <2>3. th[t].pc \in TryPcs
    BY <2>1 DEF At, TryPcs
  <2>4. CASE th[t].todo = {}
    <3> DEFINE pl == Place("tried", th[t].who, th[t].e, th[t].todo)
    <3>1. Go(t, pl)
      <4>1. Go(t, [th[t] EXCEPT !.pc = "tried"])
        BY <1>5, <2>4 DEF TryWriters
      <4> QED BY <1>1, <4>1, ChangedPlace
    <3>2. Trying(pl) /\ pl.pc \in TryPcs /\ pl.who = th[t].who /\ IsPlace(pl)
      BY DEF Trying, TryPcs
    <3> HIDE DEF pl
    <3> QED BY <2>2, <2>3, <3>1, <3>2
  <2>5. CASE th[t].todo # {}
    <3>1. PICK guid \in th[t].todo :
            LET r    == GetMatchingReaderByHash(guid)
                rest == th[t].todo \ {guid}
            IN IF r = NoEndpoint \/ Knows(r, guid)
               THEN Go(t, [th[t] EXCEPT !.todo = rest])
               ELSE Go(t, Place("addWriter", th[t].who, <<r, guid>>, rest))
      BY <1>5, <2>5 DEF TryWriters
    <3> DEFINE r == GetMatchingReaderByHash(guid)
               rest == th[t].todo \ {guid}
               pl1 == Place(th[t].pc, th[t].who, th[t].e, rest)
               pl2 == Place("addWriter", th[t].who, <<r, guid>>, rest)
    <3>2. guid \in RemoteWriters /\ rest \subseteq RemoteWriters
      BY <1>1, <2>1, <3>1 DEF Trying, At
    <3>3. [th[t] EXCEPT !.todo = rest] = pl1
      BY <1>1, ChangedPlace
    <3>4. Trying(pl1) /\ pl1.pc \in TryPcs /\ pl1.who = th[t].who /\ IsPlace(pl1)
      BY <2>1, <3>2 DEF Trying, TryPcs, At
    <3>5. ASSUME r # NoEndpoint
          PROVE  Trying(pl2) /\ pl2.pc \in TryPcs /\ pl2.who = th[t].who /\ IsPlace(pl2)
      <4>1. r \in LocalReaders /\ Topic[r] = Topic[guid]
        BY <3>2, <3>5, FoundReader DEF DiscoveryInv, UserGuids
      <4>2. Pair(<<r, guid>>, LocalReaders, RemoteWriters)
        BY <3>2, <4>1 DEF Pair
      <4> QED BY <3>2, <4>2 DEF Trying, TryPcs
    <3>6. Go(t, pl1) \/ (r # NoEndpoint /\ Go(t, pl2))
      BY <3>1, <3>3
    <3> HIDE DEF pl1, pl2, r, rest
    <3> QED BY <2>2, <2>3, <3>4, <3>5, <3>6
  <2> QED BY <2>4, <2>5
<1>6. CASE TryAddWriter(t)
  <2>1. /\ At(t, "addWriter") /\ AddProxy(th[t].e[1], th[t].e[2])
        /\ Go(t, [th[t] EXCEPT !.pc = "toldWriter"])
        /\ UNCHANGED <<writers, readers, remotes, fresh, unmatched_vars, match_vars, sedp>>
    BY <1>6 DEF TryAddWriter
  <2> DEFINE pl == Place("toldWriter", th[t].who, th[t].e, th[t].todo)
  <2>2. Go(t, pl)
    BY <1>1, <2>1, ChangedPlace
  <2>3. Trying(pl) /\ pl.pc \in TryPcs /\ pl.who = th[t].who /\ IsPlace(pl)
    BY <1>1, <2>1 DEF Trying, TryPcs, At
  <2>4. Pair(th[t].e, LocalReaders, RemoteWriters)
    BY <1>1, <2>1 DEF Trying, At
  <2>5. Fits(th[t].e[1], th[t].e[2])
    BY <2>4, UserFits DEF Pair, LocalUser, UserGuids
  <2>6. PoolsOK'
    BY <2>1, <2>5, AddProxyKeeps DEF DiscoveryInv
  <2>7. EndpointsOK' /\ RemotesOK' /\ SEDPTypeOK'
    BY <2>1, KeepEndpoints, KeepRemotes, KeepSEDP DEF DiscoveryInv
  <2>8. th[t].pc \in TryPcs
    BY <2>1 DEF At, TryPcs
  <2> HIDE DEF pl
  <2> QED BY <2>2, <2>3, <2>6, <2>7, <2>8
<1>7. CASE TryTellPublisher(t)
  <2>1. /\ At(t, "toldWriter") /\ TellPublisher
        /\ Go(t, [th[t] EXCEPT !.pc = "tryWriters", !.e = NoEndpoint])
        /\ UNCHANGED <<participant_vars, unmatched_vars, onNewSubscriber, onNewPublisher,
                       subMatched, sedp>>
    BY <1>7 DEF TryTellPublisher
  <2> DEFINE pl == Place("tryWriters", th[t].who, NoEndpoint, th[t].todo)
  <2>2. Go(t, pl)
    BY <1>1, <2>1, ChangedPlace
  <2>3. Trying(pl) /\ pl.pc \in TryPcs /\ pl.who = th[t].who /\ IsPlace(pl)
    BY <1>1, <2>1 DEF Trying, TryPcs, At
  <2>4. SEDPTypeOK'
    BY <2>1 DEF DiscoveryInv, SEDPTypeOK, TellPublisher, unmatched_vars
  <2>5. EndpointsOK' /\ PoolsOK' /\ RemotesOK'
    BY <2>1, KeepEndpoints, KeepPools, KeepRemotes DEF DiscoveryInv, participant_vars
  <2>6. th[t].pc \in TryPcs
    BY <2>1 DEF At, TryPcs
  <2> HIDE DEF pl
  <2> QED BY <2>2, <2>3, <2>4, <2>5, <2>6
<1> QED BY <1>2, <1>3, <1>4, <1>5, <1>6, <1>7 DEF TryMatch

-----------------------------------------------------------------------------
(* The announcement of an endpoint.                                        *)

LEMMA RxStep ==
  ASSUME DiscoveryInv, NEW pl, Go("rx", pl), RxPlace(pl),
         EndpointsOK' /\ PoolsOK' /\ RemotesOK' /\ SEDPTypeOK' /\ ExpectedOK',
         UNCHANGED <<running, created>>
  PROVE  DiscoveryInv'
BY RxMoves DEF DiscoveryInv

\* A step of the reader thread that takes or leaves the lock at most.
LEMMA RxOnlyMoves ==
  ASSUME DiscoveryInv, NEW pl, Go("rx", pl), RxPlace(pl),
         UNCHANGED <<participant_vars, unmatched_vars, match_vars, spdp_vars, running, created>>,
         sedp' \in {sedp, Free, "rx"}
  PROVE  DiscoveryInv'
<1>1. EndpointsOK' /\ PoolsOK' /\ RemotesOK' /\ ExpectedOK'
  BY KeepEndpoints, KeepPools, KeepRemotes, KeepExpected
     DEF DiscoveryInv, participant_vars
<1>2. SEDPTypeOK'
  BY DEF DiscoveryInv, SEDPTypeOK, unmatched_vars, match_vars
<1> QED BY <1>1, <1>2, RxStep

LEMMA RxPlaces ==
  ASSUME DiscoveryInv
  PROVE  RxPlace(th["rx"]) /\ IsPlace(th["rx"])
BY DEF DiscoveryInv, ThreadsOK, RxPlace

LEMMA IdlePlace == RxPlace(Idle)
BY PlaceFields DEF RxPlace, Idle, Trying, PublisherPcs, SubscriberPcs, SpdpPcs, TryPcs

LEMMA PublisherPlace ==
  ASSUME NEW pc \in PublisherPcs \ {"tellPublisher"}, NEW who \in RemoteWriters, NEW e, NEW todo
  PROVE  RxPlace(Place(pc, who, e, todo))
BY PlaceFields DEF RxPlace, Trying, PublisherPcs, SubscriberPcs, SpdpPcs, TryPcs

LEMMA SubscriberPlace ==
  ASSUME NEW pc \in SubscriberPcs, NEW who \in RemoteReaders, NEW e, NEW todo
  PROVE  RxPlace(Place(pc, who, e, todo))
BY PlaceFields DEF RxPlace, Trying, PublisherPcs, SubscriberPcs, SpdpPcs, TryPcs

LEMMA PublisherKeeps ==
  ASSUME DiscoveryInv, UNCHANGED <<spdp_vars, running, created>>,
         \/ OnNewPublisherLock \/ OnNewPublisherFind \/ KeepPublisher
         \/ MatchPublisher \/ OnNewPublisherTell
  PROVE  DiscoveryInv'
<1> DEFINE guid == th["rx"].who
<1>1. ASSUME th["rx"].pc \in PublisherPcs PROVE guid \in RemoteWriters
  BY <1>1, RxPlaces DEF RxPlace
<1>2. CASE OnNewPublisherLock
  <2>1. guid \in RemoteWriters
    BY <1>1, <1>2 DEF OnNewPublisherLock, At, PublisherPcs
  <2> DEFINE pl == Place("findPublisher", guid, NoEndpoint, {})
  <2>2. /\ Go("rx", pl) \/ Go("rx", Idle)
        /\ sedp' \in {sedp, Free, "rx"}
        /\ UNCHANGED <<participant_vars, unmatched_vars, match_vars>>
    BY <1>2 DEF OnNewPublisherLock
  <2>3. RxPlace(pl)
    BY <2>1, PublisherPlace DEF PublisherPcs
  <2> HIDE DEF pl
  <2> QED BY <2>2, <2>3, IdlePlace, RxOnlyMoves
<1>3. CASE OnNewPublisherFind
  <2>1. guid \in RemoteWriters
    BY <1>1, <1>3 DEF OnNewPublisherFind, At, PublisherPcs
  <2> DEFINE pl == Place(IF Prefix(guid) \in remotes THEN "matchPublisher" ELSE "keepPublisher",
                         guid, NoEndpoint, {})
  <2>2. Go("rx", pl) /\ UNCHANGED <<participant_vars, unmatched_vars, match_vars, sedp>>
    BY <1>3 DEF OnNewPublisherFind
  <2>3. RxPlace(pl)
    BY <2>1, PublisherPlace DEF PublisherPcs
  <2> HIDE DEF pl
  <2> QED BY <2>2, <2>3, RxOnlyMoves
<1>4. CASE KeepPublisher
  <2>1. guid \in RemoteWriters
    BY <1>1, <1>4 DEF KeepPublisher, At, PublisherPcs
  <2>2. /\ AddUnmatchedRemoteWriter(guid) /\ sedp' = Free /\ Go("rx", Idle)
        /\ UNCHANGED <<participant_vars, unmatchedReaders, match_vars>>
    BY <1>4 DEF KeepPublisher
  <2>3. SEDPTypeOK'
    BY <2>1, <2>2 DEF DiscoveryInv, SEDPTypeOK, AddUnmatchedRemoteWriter, match_vars
  <2>4. EndpointsOK' /\ PoolsOK' /\ RemotesOK' /\ ExpectedOK'
    BY <2>2, KeepEndpoints, KeepPools, KeepRemotes, KeepExpected
       DEF DiscoveryInv, participant_vars
  <2> QED BY <2>2, <2>3, <2>4, IdlePlace, RxStep
<1>5. CASE MatchPublisher
  <2> DEFINE r == GetMatchingReader(guid)
  <2>1. guid \in RemoteWriters
    BY <1>1, <1>5 DEF MatchPublisher, At, PublisherPcs
  <2>2. r # NoEndpoint /\ UNCHANGED <<writers, readers, remotes, fresh,
                                      unmatched_vars, match_vars>>
    BY <1>5 DEF MatchPublisher
  <2>3. r \in LocalReaders /\ Topic[r] = Topic[guid]
    BY <2>1, <2>2, FoundReader DEF DiscoveryInv, UserGuids
  <2>4. EndpointsOK' /\ RemotesOK' /\ ExpectedOK'
    BY <2>2, KeepEndpoints, KeepRemotes, KeepExpected DEF DiscoveryInv
  <2>5. CASE RefusedPublisher(r, guid)
    <3>1. sedp' = Free /\ Go("rx", Idle) /\ UNCHANGED <<proxies, turnedAway>>
      BY <1>5, <2>5 DEF MatchPublisher
    <3>2. PoolsOK' /\ SEDPTypeOK'
      BY <2>2, <3>1, KeepPools DEF DiscoveryInv, SEDPTypeOK, unmatched_vars, match_vars
    <3> QED BY <2>4, <3>1, <3>2, IdlePlace, RxStep
  <2>6. CASE ~ RefusedPublisher(r, guid)
    <3> DEFINE pl == Place("tellPublisher", guid, r, {})
    <3>1. AddProxy(r, guid) /\ Go("rx", pl) /\ UNCHANGED sedp
      BY <1>5, <2>6 DEF MatchPublisher
    <3>2. PoolsOK'
      BY <2>1, <2>3, <3>1, UserFits, AddProxyKeeps DEF DiscoveryInv, LocalUser, UserGuids
    <3>3. SEDPTypeOK'
      BY <2>2, <3>1, KeepSEDP DEF DiscoveryInv
    <3>4. RxPlace(pl)
      BY <2>1, <2>3, PlaceFields
         DEF RxPlace, Trying, PublisherPcs, SubscriberPcs, SpdpPcs, TryPcs
    <3> HIDE DEF pl
    <3> QED BY <2>4, <3>1, <3>2, <3>3, <3>4, RxStep
  <2> QED BY <2>5, <2>6
<1>6. CASE OnNewPublisherTell
  <2>1. /\ TellPublisher /\ sedp' = Free /\ Go("rx", Idle)
        /\ UNCHANGED <<participant_vars, unmatched_vars, onNewSubscriber, onNewPublisher,
                       subMatched>>
    BY <1>6 DEF OnNewPublisherTell
  <2>2. SEDPTypeOK'
    BY <2>1 DEF DiscoveryInv, SEDPTypeOK, TellPublisher, unmatched_vars
  <2>3. EndpointsOK' /\ PoolsOK' /\ RemotesOK' /\ ExpectedOK'
    BY <2>1, KeepEndpoints, KeepPools, KeepRemotes, KeepExpected
    DEF DiscoveryInv, participant_vars
  <2> QED BY <2>1, <2>2, <2>3, IdlePlace, RxStep
<1> QED BY <1>2, <1>3, <1>4, <1>5, <1>6

LEMMA SubscriberKeeps ==
  ASSUME DiscoveryInv, UNCHANGED <<spdp_vars, running, created>>,
         \/ OnNewSubscriberLock \/ OnNewSubscriberFind \/ KeepSubscriber
         \/ MatchSubscriber \/ OnNewSubscriberTell
  PROVE  DiscoveryInv'
<1> DEFINE guid == th["rx"].who
<1>1. ASSUME th["rx"].pc \in SubscriberPcs PROVE guid \in RemoteReaders
  BY <1>1, RxPlaces DEF RxPlace
<1>2. CASE OnNewSubscriberLock
  <2>1. guid \in RemoteReaders
    BY <1>1, <1>2 DEF OnNewSubscriberLock, At, SubscriberPcs
  <2> DEFINE pl == Place("findSubscriber", guid, NoEndpoint, {})
  <2>2. /\ Go("rx", pl) \/ Go("rx", Idle)
        /\ sedp' \in {sedp, Free, "rx"}
        /\ UNCHANGED <<participant_vars, unmatched_vars, match_vars>>
    BY <1>2 DEF OnNewSubscriberLock
  <2>3. RxPlace(pl)
    BY <2>1, SubscriberPlace DEF SubscriberPcs
  <2> HIDE DEF pl
  <2> QED BY <2>2, <2>3, IdlePlace, RxOnlyMoves
<1>3. CASE OnNewSubscriberFind
  <2>1. guid \in RemoteReaders
    BY <1>1, <1>3 DEF OnNewSubscriberFind, At, SubscriberPcs
  <2> DEFINE pl == Place(IF Prefix(guid) \in remotes THEN "matchSubscriber" ELSE "keepSubscriber",
                         guid, NoEndpoint, {})
  <2>2. Go("rx", pl) /\ UNCHANGED <<participant_vars, unmatched_vars, match_vars, sedp>>
    BY <1>3 DEF OnNewSubscriberFind
  <2>3. RxPlace(pl)
    BY <2>1, SubscriberPlace DEF SubscriberPcs
  <2> HIDE DEF pl
  <2> QED BY <2>2, <2>3, RxOnlyMoves
<1>4. CASE KeepSubscriber
  <2>1. guid \in RemoteReaders
    BY <1>1, <1>4 DEF KeepSubscriber, At, SubscriberPcs
  <2>2. /\ AddUnmatchedRemoteReader(guid) /\ sedp' = Free /\ Go("rx", Idle)
        /\ UNCHANGED <<participant_vars, unmatchedWriters, match_vars>>
    BY <1>4 DEF KeepSubscriber
  <2>3. SEDPTypeOK'
    BY <2>1, <2>2 DEF DiscoveryInv, SEDPTypeOK, AddUnmatchedRemoteReader, match_vars
  <2>4. EndpointsOK' /\ PoolsOK' /\ RemotesOK' /\ ExpectedOK'
    BY <2>2, KeepEndpoints, KeepPools, KeepRemotes, KeepExpected
       DEF DiscoveryInv, participant_vars
  <2> QED BY <2>2, <2>3, <2>4, IdlePlace, RxStep
<1>5. CASE MatchSubscriber
  <2> DEFINE w == GetMatchingWriter(guid)
  <2>1. guid \in RemoteReaders
    BY <1>1, <1>5 DEF MatchSubscriber, At, SubscriberPcs
  <2>2. w # NoEndpoint /\ UNCHANGED <<writers, readers, remotes, fresh,
                                      unmatched_vars, match_vars>>
    BY <1>5 DEF MatchSubscriber
  <2>3. w \in LocalWriters /\ Topic[w] = Topic[guid]
    BY <2>1, <2>2, FoundWriter DEF DiscoveryInv, UserGuids
  <2>4. EndpointsOK' /\ RemotesOK' /\ ExpectedOK'
    BY <2>2, KeepEndpoints, KeepRemotes, KeepExpected DEF DiscoveryInv
  <2>5. CASE RefusedSubscriber(w, guid)
    <3>1. sedp' = Free /\ Go("rx", Idle) /\ UNCHANGED <<proxies, turnedAway>>
      BY <1>5, <2>5 DEF MatchSubscriber
    <3>2. PoolsOK' /\ SEDPTypeOK'
      BY <2>2, <3>1, KeepPools DEF DiscoveryInv, SEDPTypeOK, unmatched_vars, match_vars
    <3> QED BY <2>4, <3>1, <3>2, IdlePlace, RxStep
  <2>6. CASE ~ RefusedSubscriber(w, guid)
    <3> DEFINE pl == Place("tellSubscriber", guid, w, {})
    <3>1. AddProxy(w, guid) /\ Go("rx", pl) /\ UNCHANGED sedp
      BY <1>5, <2>6 DEF MatchSubscriber
    <3>2. PoolsOK'
      BY <2>1, <2>3, <3>1, UserFits, AddProxyKeeps DEF DiscoveryInv, LocalUser, UserGuids
    <3>3. SEDPTypeOK'
      BY <2>2, <3>1, KeepSEDP DEF DiscoveryInv
    <3>4. RxPlace(pl)
      BY <2>1, SubscriberPlace DEF SubscriberPcs
    <3> HIDE DEF pl
    <3> QED BY <2>4, <3>1, <3>2, <3>3, <3>4, RxStep
  <2> QED BY <2>5, <2>6
<1>6. CASE OnNewSubscriberTell
  <2>1. /\ TellSubscriber /\ sedp' = Free /\ Go("rx", Idle)
        /\ UNCHANGED <<participant_vars, unmatched_vars, onNewSubscriber, onNewPublisher,
                       pubMatched>>
    BY <1>6 DEF OnNewSubscriberTell
  <2>2. SEDPTypeOK'
    BY <2>1 DEF DiscoveryInv, SEDPTypeOK, TellSubscriber, unmatched_vars
  <2>3. EndpointsOK' /\ PoolsOK' /\ RemotesOK' /\ ExpectedOK'
    BY <2>1, KeepEndpoints, KeepPools, KeepRemotes, KeepExpected
       DEF DiscoveryInv, participant_vars
  <2> QED BY <2>1, <2>2, <2>3, IdlePlace, RxStep
<1> QED BY <1>2, <1>3, <1>4, <1>5, <1>6

-----------------------------------------------------------------------------
(* The announcement of a participant.                                      *)

LEMMA SpdpRxPlace ==
  ASSUME NEW pc \in SpdpPcs \ {"builtin"}, NEW who \in Participants, NEW e, NEW todo
  PROVE  RxPlace(Place(pc, who, e, todo))
BY PlaceFields DEF RxPlace, Trying, PublisherPcs, SubscriberPcs, SpdpPcs, TryPcs

LEMMA BuiltInPlace ==
  ASSUME NEW who \in Participants, NEW e, NEW todo \in Seq(BuiltInPairs)
  PROVE  RxPlace(Place("builtin", who, e, todo))
BY PlaceFields DEF RxPlace, Trying, PublisherPcs, SubscriberPcs, SpdpPcs, TryPcs

LEMMA SpdpWho ==
  ASSUME DiscoveryInv, th["rx"].pc \in SpdpPcs
  PROVE  th["rx"].who \in Participants
BY RxPlaces DEF RxPlace

LEMMA OneExpected ==
  ASSUME NEW f \in [SedpReaders -> [Participants -> Nat]],
         NEW r \in SedpReaders, NEW p, NEW n \in Nat,
         NEW g, g = [f EXCEPT ![r][p] = n]
  PROVE  g \in [SedpReaders -> [Participants -> Nat]]
<1>1. [f[r] EXCEPT ![p] = n] \in [Participants -> Nat]
  OBVIOUS
<1>2. [f EXCEPT ![r][p] = n] = [f EXCEPT ![r] = [f[r] EXCEPT ![p] = n]]
  OBVIOUS
<1> QED BY <1>1, <1>2

LEMMA ReceiveKeeps ==
  ASSUME DiscoveryInv, NEW p \in Participants, NEW sn,
         ReceivePublication(p, sn) \/ ReceiveSubscription(p, sn),
         UNCHANGED <<running, created>>
  PROVE  DiscoveryInv'
<1>1. ASSUME NEW r \in SedpReaders, NEW pc, ReceiveEndpoint(r, p, sn, pc),
             RxPlace(Place(pc, Announced(r, p)[sn], NoEndpoint, {})), sn \in Nat
      PROVE  DiscoveryInv'
  <2> DEFINE pl == Place(pc, Announced(r, p)[sn], NoEndpoint, {})
  <2>1. Go("rx", pl) /\ UNCHANGED <<participant_vars, unmatched_vars, match_vars, sedp>>
    BY <1>1 DEF ReceiveEndpoint
  <2>2. ExpectedOK'
    <3>1. \/ expected' = [expected EXCEPT ![r][p] = sn + 1] /\ UNCHANGED pending
          \/ pending' = [pending EXCEPT ![r] = [who |-> p, next |-> sn + 1]] /\ UNCHANGED expected
      BY <1>1 DEF ReceiveEndpoint
    <3>2. sn + 1 \in Nat
      BY <1>1
    <3> DEFINE next == [who |-> p, next |-> sn + 1]
    <3>3. /\ expected \in [SedpReaders -> [Participants -> Nat]]
          /\ pending \in [SedpReaders -> [who : Participants \cup {NoEndpoint}, next : Nat]]
      BY DEF DiscoveryInv, ExpectedOK
    <3>4. CASE expected' = [expected EXCEPT ![r][p] = sn + 1] /\ UNCHANGED pending
      <4>1. expected' \in [SedpReaders -> [Participants -> Nat]]
        BY <3>2, <3>3, <3>4, OneExpected
      <4> QED BY <3>3, <3>4, <4>1 DEF ExpectedOK
    <3>5. CASE pending' = [pending EXCEPT ![r] = next] /\ UNCHANGED expected
      <4>1. next \in [who : Participants \cup {NoEndpoint}, next : Nat]
        BY <3>2
      <4> HIDE DEF next
      <4>2. pending' \in [SedpReaders -> [who : Participants \cup {NoEndpoint}, next : Nat]]
        BY <3>3, <3>5, <4>1
      <4> QED BY <3>3, <3>5, <4>2 DEF ExpectedOK
    <3> QED BY <3>1, <3>4, <3>5
  <2>3. EndpointsOK' /\ PoolsOK' /\ RemotesOK' /\ SEDPTypeOK'
    BY <2>1, KeepEndpoints, KeepPools, KeepRemotes, KeepSEDP
       DEF DiscoveryInv, participant_vars
  <2> QED BY <1>1, <2>1, <2>2, <2>3, RxStep
<1>2. CASE ReceivePublication(p, sn)
  <2>1. ReceiveEndpoint("sedpPubReader", p, sn, "lockPublisher")
    BY <1>2 DEF ReceivePublication
  <2>2. Announced("sedpPubReader", p) = Publications[p] /\ Publications[p] \in Seq(RemoteWriters)
    BY SPDPAssumption DEF Announced
  <2>3. sn \in DOMAIN Publications[p]
    BY <2>1, <2>2 DEF ReceiveEndpoint
  <2>4. sn \in Nat /\ Publications[p][sn] \in RemoteWriters
    BY <2>2, <2>3
  <2>5. RxPlace(Place("lockPublisher", Publications[p][sn], NoEndpoint, {}))
    BY <2>4, PublisherPlace DEF PublisherPcs
  <2> QED BY <1>1, <2>1, <2>2, <2>4, <2>5 DEF SedpReaders
<1>3. CASE ReceiveSubscription(p, sn)
  <2>1. ReceiveEndpoint("sedpSubReader", p, sn, "lockSubscriber")
    BY <1>3 DEF ReceiveSubscription
  <2>2. Announced("sedpSubReader", p) = Subscriptions[p] /\ Subscriptions[p] \in Seq(RemoteReaders)
    BY SPDPAssumption DEF Announced
  <2>3. sn \in DOMAIN Subscriptions[p]
    BY <2>1, <2>2 DEF ReceiveEndpoint
  <2>4. sn \in Nat /\ Subscriptions[p][sn] \in RemoteReaders
    BY <2>2, <2>3
  <2>5. RxPlace(Place("lockSubscriber", Subscriptions[p][sn], NoEndpoint, {}))
    BY <2>4, SubscriberPlace DEF SubscriberPcs
  <2> QED BY <1>1, <2>1, <2>2, <2>4, <2>5 DEF SedpReaders
<1> QED BY <1>2, <1>3

LEMMA HandlePackageKeeps ==
  ASSUME DiscoveryInv, NEW p \in Participants, HandleSPDPPackage(p),
         UNCHANGED <<running, created>>
  PROVE  DiscoveryInv'
<1> DEFINE pl == Place("process", p, NoEndpoint, IF p \in remotes THEN {} ELSE {"locators"})
<1>1. Go("rx", pl) /\ UNCHANGED <<participant_vars, unmatched_vars, match_vars, sedp, spdp_vars>>
  BY DEF HandleSPDPPackage
<1>2. RxPlace(pl)
  BY SpdpRxPlace DEF SpdpPcs
<1> HIDE DEF pl
<1> QED BY <1>1, <1>2, RxOnlyMoves

LEMMA ProcessKeeps ==
  ASSUME DiscoveryInv, ProcessProxyData, UNCHANGED <<running, created>>
  PROVE  DiscoveryInv'
<1> DEFINE pc == IF th["rx"].who \in remotes THEN "refresh" ELSE "add"
           pl == Place(pc, th["rx"].who, th["rx"].e, th["rx"].todo)
<1>1. At("rx", "process") /\ Go("rx", [th["rx"] EXCEPT !.pc = pc])
      /\ UNCHANGED <<participant_vars, unmatched_vars, match_vars, sedp, spdp_vars>>
  BY DEF ProcessProxyData
<1>2. [th["rx"] EXCEPT !.pc = pc] = pl
  BY RxPlaces, ChangedPlace
<1>3. RxPlace(pl)
  <2>1. th["rx"].who \in Participants
    BY <1>1, SpdpWho DEF At, SpdpPcs
  <2> QED BY <2>1, SpdpRxPlace DEF SpdpPcs
<1> HIDE DEF pl, pc
<1> QED BY <1>1, <1>2, <1>3, RxOnlyMoves

LEMMA RefreshKeeps ==
  ASSUME DiscoveryInv, RefreshRemoteParticipantLiveliness, UNCHANGED <<running, created>>
  PROVE  DiscoveryInv'
<1> DEFINE p  == th["rx"].who
           pl == Place("fault", p, NoEndpoint, {})
<1>1. /\ At("rx", "refresh")
      /\ (Refresh(p) /\ Go("rx", Idle)) \/ (Go("rx", pl) /\ UNCHANGED fresh)
      /\ UNCHANGED <<writers, readers, proxies, remotes, turnedAway,
                     unmatched_vars, match_vars, sedp, spdp_vars>>
  BY DEF RefreshRemoteParticipantLiveliness
<1>2. RxPlace(pl)
  <2>1. p \in Participants
    BY <1>1, SpdpWho DEF At, SpdpPcs
  <2> QED BY <2>1, SpdpRxPlace DEF SpdpPcs
<1>3. RemotesOK'
  BY <1>1 DEF DiscoveryInv, RemotesOK, Refresh
<1>4. EndpointsOK' /\ PoolsOK' /\ SEDPTypeOK' /\ ExpectedOK'
  BY <1>1, KeepEndpoints, KeepPools, KeepSEDP, KeepExpected DEF DiscoveryInv
<1> HIDE DEF pl
<1> QED BY <1>1, <1>2, <1>3, <1>4, IdlePlace, RxStep

LEMMA BuiltInProxiesType ==
  ASSUME NEW p \in Participants, NEW located
  PROVE  BuiltInProxies(p, located) \in Seq(BuiltInPairs)
<1> DEFINE a == <<"sedpPubReader", <<p, "pubWriter">> >>
           b == <<"sedpSubReader", <<p, "subWriter">> >>
           c == <<"sedpPubWriter", <<p, "pubReader">> >>
           d == <<"sedpSubWriter", <<p, "subReader">> >>
           first == IF located /\ p \in SameSubnet THEN <<a, b, c, d>> ELSE <<>>
<1>1. a \in BuiltInPairs /\ b \in BuiltInPairs /\ c \in BuiltInPairs /\ d \in BuiltInPairs
  BY DEF BuiltInPairs, RemoteBuiltIns
<1>2. BuiltInProxies(p, located) = first \o <<d>>
  BY DEF BuiltInProxies
<1> HIDE DEF a, b, c, d
<1>3. first \in Seq(BuiltInPairs) /\ <<d>> \in Seq(BuiltInPairs)
  BY <1>1
<1> HIDE DEF first
<1> QED BY <1>2, <1>3

LEMMA AddRemoteKeeps ==
  ASSUME DiscoveryInv, AddNewRemoteParticipant, UNCHANGED <<running, created>>
  PROVE  DiscoveryInv'
<1> DEFINE p   == th["rx"].who
           pl1 == Place("builtin", p, NoEndpoint, BuiltInProxies(p, "locators" \in th["rx"].todo))
           pl2 == Place("spin", p, NoEndpoint, {})
<1>1. /\ At("rx", "add")
      /\ UNCHANGED <<writers, readers, proxies, turnedAway, unmatched_vars,
                     match_vars, sedp, spdp_vars>>
  BY DEF AddNewRemoteParticipant
<1>2. p \in Participants
  BY <1>1, SpdpWho DEF At, SpdpPcs
<1>3. EndpointsOK' /\ PoolsOK' /\ SEDPTypeOK' /\ ExpectedOK'
  BY <1>1, KeepEndpoints, KeepPools, KeepSEDP, KeepExpected DEF DiscoveryInv
<1>4. CASE RoomForRemote
  <2>1. /\ remotes' = remotes \cup {p} /\ Go("rx", pl1)
        /\ \E alive \in BOOLEAN : fresh' = [fresh EXCEPT ![p] = alive]
    BY <1>4 DEF AddNewRemoteParticipant
  <2>2. IsFiniteSet(remotes') /\ Cardinality(remotes') <= MaxRemotes
    <3>1. IsFiniteSet(remotes) /\ Cardinality(remotes) \in Nat /\ MaxRemotes \in Nat
          /\ Cardinality(remotes) < MaxRemotes
      BY <1>4, FS_CardinalityType, ParticipantAssumption DEF DiscoveryInv, RemotesOK, RoomForRemote
    <3>2. CASE p \in remotes
      <4>1. remotes' = remotes
        BY <2>1, <3>2
      <4> QED BY <3>1, <4>1
    <3>3. CASE p \notin remotes
      <4>1. IsFiniteSet(remotes \cup {p}) /\ Cardinality(remotes \cup {p}) = Cardinality(remotes) + 1
        BY <3>1, <3>3, FS_AddElement
      <4> QED BY <2>1, <3>1, <4>1
    <3> QED BY <3>2, <3>3
  <2>3. RemotesOK'
    BY <1>2, <2>1, <2>2 DEF DiscoveryInv, RemotesOK
  <2>4. RxPlace(pl1)
    BY <1>2, BuiltInProxiesType, BuiltInPlace
  <2> HIDE DEF pl1
  <2> QED BY <1>3, <2>1, <2>3, <2>4, RxStep
<1>5. CASE ~ RoomForRemote
  <2>1. Go("rx", pl2) /\ UNCHANGED <<remotes, fresh>>
    BY <1>5 DEF AddNewRemoteParticipant
  <2>2. RxPlace(pl2)
    BY <1>2, SpdpRxPlace DEF SpdpPcs
  <2>3. RemotesOK'
    BY <2>1, KeepRemotes DEF DiscoveryInv
  <2> HIDE DEF pl2
  <2> QED BY <1>3, <2>1, <2>2, <2>3, RxStep
<1> QED BY <1>4, <1>5

LEMMA BuiltInFits ==
  ASSUME NEW pair \in BuiltInPairs
  PROVE  Fits(pair[1], pair[2]) /\ pair[1] \notin LocalUser
<1>1. PICK p \in Participants, x \in RemoteBuiltIns :
        pair[2] = <<p, x>> /\ pair[1] \in {"sedpPubReader", "sedpSubReader",
                                           "sedpPubWriter", "sedpSubWriter"}
  BY DEF BuiltInPairs
<1>2. pair[2] \in Guids
  BY <1>1 DEF Guids
<1>3. pair[1] \in SeqRange(BuiltInWriters) \cup SeqRange(BuiltInReaders)
  <2>1. /\ BuiltInWriters[2] = "sedpPubWriter" /\ 2 \in DOMAIN BuiltInWriters
        /\ BuiltInWriters[3] = "sedpSubWriter" /\ 3 \in DOMAIN BuiltInWriters
    BY DEF BuiltInWriters
  <2>2. /\ BuiltInReaders[2] = "sedpPubReader" /\ 2 \in DOMAIN BuiltInReaders
        /\ BuiltInReaders[3] = "sedpSubReader" /\ 3 \in DOMAIN BuiltInReaders
    BY DEF BuiltInReaders
  <2> QED BY <1>1, <2>1, <2>2 DEF SeqRange
<1>4. pair[1] \in Local /\ pair[1] \notin LocalUser /\ pair[1] # "spdpReader"
  BY <1>1, <1>3, EndpointAssumption DEF Local, LocalUser, UserEndpoints
<1> QED BY <1>2, <1>4 DEF Fits

LEMMA AddBuiltInKeeps ==
  ASSUME DiscoveryInv, NEW pair \in BuiltInPairs, AddBuiltIn(pair[1], pair[2]),
         UNCHANGED pending
  PROVE  PoolsOK' /\ ExpectedOK'
<1>1. PoolsOK'
  BY BuiltInFits, AddProxyKeeps DEF DiscoveryInv, AddBuiltIn
<1> DEFINE e == pair[1]
           p == Prefix(pair[2])
<1>2. \/ expected' = [expected EXCEPT ![e][p] = FirstExpected(e, p)] /\ e \in SedpReaders
      \/ UNCHANGED expected
  BY DEF AddBuiltIn
<1>3. e \in SedpReaders => FirstExpected(e, p) \in Nat
  BY DEF FirstExpected, DiscoveryInv, ExpectedOK
<1>4. ExpectedOK'
  <2>1. expected' \in [SedpReaders -> [Participants -> Nat]]
    <3> HIDE DEF e, p
    <3>1. expected \in [SedpReaders -> [Participants -> Nat]]
      BY DEF DiscoveryInv, ExpectedOK
    <3>2. CASE expected' = [expected EXCEPT ![e][p] = FirstExpected(e, p)] /\ e \in SedpReaders
      BY <1>3, <3>1, <3>2, OneExpected
    <3> QED BY <1>2, <3>1, <3>2
  <2> QED BY <2>1 DEF DiscoveryInv, ExpectedOK
<1> QED BY <1>1, <1>4

LEMMA AddBuiltInsKeeps ==
  ASSUME DiscoveryInv, AddProxiesForBuiltInEndpoints, UNCHANGED <<running, created>>
  PROVE  DiscoveryInv'
<1> DEFINE todo == th["rx"].todo
<1>1. /\ At("rx", "builtin")
      /\ UNCHANGED <<writers, readers, remotes, fresh,
                     unmatched_vars, match_vars, sedp, pending>>
  BY DEF AddProxiesForBuiltInEndpoints
<1>2. th["rx"].who \in Participants /\ todo \in Seq(BuiltInPairs)
  BY <1>1, RxPlaces, SpdpWho DEF At, SpdpPcs, RxPlace
<1>3. EndpointsOK' /\ RemotesOK' /\ SEDPTypeOK'
  BY <1>1, KeepEndpoints, KeepRemotes, KeepSEDP DEF DiscoveryInv
<1>4. CASE todo = <<>>
  <2> DEFINE pl == Place("tryReaders", th["rx"].who, NoEndpoint, unmatchedReaders)
  <2>1. Go("rx", pl) /\ UNCHANGED <<proxies, turnedAway, expected>>
    BY <1>4 DEF AddProxiesForBuiltInEndpoints
  <2>2. RxPlace(pl)
    BY PlaceFields DEF RxPlace, Trying, PublisherPcs, SubscriberPcs, SpdpPcs, TryPcs,
                       DiscoveryInv, SEDPTypeOK
  <2>3. PoolsOK' /\ ExpectedOK'
    BY <1>1, <2>1, KeepPools DEF DiscoveryInv, ExpectedOK
  <2> HIDE DEF pl
  <2> QED BY <1>3, <2>1, <2>2, <2>3, RxStep
<1>5. CASE todo # <<>>
  <2> DEFINE pl == Place("builtin", th["rx"].who, th["rx"].e, Tail(todo))
  <2>1. AddBuiltIn(Head(todo)[1], Head(todo)[2]) /\ Go("rx", [th["rx"] EXCEPT !.todo = Tail(todo)])
    BY <1>5 DEF AddProxiesForBuiltInEndpoints
  <2>2. Head(todo) \in BuiltInPairs /\ Tail(todo) \in Seq(BuiltInPairs)
    <3> HIDE DEF todo
    <3> QED BY <1>2, <1>5
  <2>3. PoolsOK' /\ ExpectedOK'
    BY <1>1, <2>1, <2>2, AddBuiltInKeeps
  <2>4. Go("rx", pl)
    <3>1. [th["rx"] EXCEPT !.todo = Tail(todo)] = Place(th["rx"].pc, th["rx"].who, th["rx"].e, Tail(todo))
      BY RxPlaces, ChangedPlace
    <3> QED BY <1>1, <2>1, <3>1 DEF At
  <2>5. RxPlace(pl)
    BY <1>2, <2>2, BuiltInPlace
  <2> HIDE DEF pl
  <2> QED BY <1>3, <2>3, <2>4, <2>5, RxStep
<1> QED BY <1>4, <1>5

LEMMA EndProcessKeeps ==
  ASSUME DiscoveryInv, EndProcessProxyData, UNCHANGED <<running, created>>
  PROVE  DiscoveryInv'
BY IdlePlace, RxOnlyMoves DEF EndProcessProxyData

LEMMA TryRxKeeps ==
  ASSUME DiscoveryInv, TryMatch("rx"), UNCHANGED <<spdp_vars, running, created>>
  PROVE  DiscoveryInv'
<1>1. /\ EndpointsOK' /\ PoolsOK' /\ RemotesOK' /\ SEDPTypeOK'
      /\ \E pl : Go("rx", pl) /\ IsPlace(pl) /\ pl.pc \in TryPcs /\ Trying(pl)
  BY TryKeeps
<1>2. PICK pl : Go("rx", pl) /\ IsPlace(pl) /\ pl.pc \in TryPcs /\ Trying(pl)
  BY <1>1
<1>3. RxPlace(pl)
  BY <1>2 DEF RxPlace, PublisherPcs, SubscriberPcs, SpdpPcs, TryPcs
<1>4. ExpectedOK'
  BY KeepExpected DEF DiscoveryInv
<1> QED BY <1>1, <1>2, <1>3, <1>4, RxStep

-----------------------------------------------------------------------------
(* Liveliness, and the removal of a participant.                           *)

LEMMA SpdpStep ==
  ASSUME DiscoveryInv, NEW pl, Go("spdp", pl), SpdpPlace(pl),
         EndpointsOK' /\ PoolsOK' /\ RemotesOK' /\ SEDPTypeOK' /\ ExpectedOK',
         UNCHANGED <<running, created>>
  PROVE  DiscoveryInv'
BY SpdpMoves DEF DiscoveryInv

LEMMA SpdpPlaces ==
  ASSUME DiscoveryInv
  PROVE  SpdpPlace(th["spdp"]) /\ IsPlace(th["spdp"])
BY DEF DiscoveryInv, ThreadsOK, SpdpPlace

LEMMA LivelinessKeeps ==
  ASSUME DiscoveryInv, NEW p \in Participants, AddHeartbeat(p) \/ LeaseRunsOut(p),
         UNCHANGED <<running, created>>
  PROVE  DiscoveryInv'
<1>1. UNCHANGED <<writers, readers, proxies, remotes, turnedAway,
                  unmatched_vars, match_vars, sedp, th, spdp_vars>>
  BY DEF AddHeartbeat, LeaseRunsOut
<1>2. RemotesOK'
  BY <1>1 DEF DiscoveryInv, RemotesOK, AddHeartbeat, LeaseRunsOut, Refresh
<1>3. EndpointsOK' /\ PoolsOK' /\ SEDPTypeOK' /\ ExpectedOK'
  BY <1>1, KeepEndpoints, KeepPools, KeepSEDP, KeepExpected DEF DiscoveryInv
<1> QED BY <1>1, <1>2, <1>3 DEF DiscoveryInv, ThreadsOK

LEMMA CheckKeeps ==
  ASSUME DiscoveryInv, CheckAndResetHeartbeats \/ CheckNext, UNCHANGED <<running, created>>
  PROVE  DiscoveryInv'
<1>1. UNCHANGED <<participant_vars, unmatched_vars, match_vars, sedp, spdp_vars>>
  BY DEF CheckAndResetHeartbeats, CheckNext
<1>2. EndpointsOK' /\ PoolsOK' /\ RemotesOK' /\ SEDPTypeOK' /\ ExpectedOK'
  BY <1>1, KeepEndpoints, KeepPools, KeepRemotes, KeepSEDP, KeepExpected
     DEF DiscoveryInv, participant_vars
<1>3. \E pl : Go("spdp", pl) /\ SpdpPlace(pl)
  <2>1. CASE CheckAndResetHeartbeats
    <3>1. SpdpPlace(Place("check", NoEndpoint, NoEndpoint, remotes))
      BY PlaceFields DEF SpdpPlace, RemovalPcs, DiscoveryInv, RemotesOK
    <3> QED BY <2>1, <3>1 DEF CheckAndResetHeartbeats
  <2>2. CASE CheckNext
    <3> DEFINE todo == th["spdp"].todo
    <3>1. todo \subseteq Participants
      BY SpdpPlaces DEF SpdpPlace
    <3>2. SpdpPlace(Idle)
      BY PlaceFields DEF SpdpPlace, RemovalPcs, Idle
    <3>3. ASSUME NEW p \in todo
          PROVE  /\ SpdpPlace(Place("check", NoEndpoint, NoEndpoint, todo \ {p}))
                 /\ SpdpPlace(Place("writers", p, 1, todo \ {p}))
      BY <3>1, PlaceFields DEF SpdpPlace, RemovalPcs
    <3>4. CASE Go("spdp", Idle)
      BY <3>2, <3>4
    <3>5. CASE \E p \in todo :
                 Go("spdp", IF fresh[p] THEN Place("check", NoEndpoint, NoEndpoint, todo \ {p})
                                        ELSE Place("writers", p, 1, todo \ {p}))
      <4>1. PICK p \in todo :
              \/ Go("spdp", Place("check", NoEndpoint, NoEndpoint, todo \ {p}))
              \/ Go("spdp", Place("writers", p, 1, todo \ {p}))
        BY <3>5
      <4> QED BY <3>3, <4>1
    <3> QED BY <2>2, <3>4, <3>5 DEF CheckNext
  <2> QED BY <2>1, <2>2
<1> QED BY <1>2, <1>3, SpdpStep

LEMMA RemovalPlace ==
  ASSUME NEW pc \in RemovalPcs \cup {"check"}, NEW who \in Participants, NEW e,
         NEW todo \in SUBSET Participants
  PROVE  SpdpPlace(Place(pc, who, e, todo))
BY PlaceFields DEF SpdpPlace, RemovalPcs

LEMMA RemoveFromKeeps ==
  ASSUME DiscoveryInv, NEW pc \in RemovalPcs, NEW endpoints, NEW next \in RemovalPcs,
         RemoveFrom(pc, endpoints, next), UNCHANGED <<running, created>>
  PROVE  DiscoveryInv'
<1> DEFINE p    == th["spdp"].who
           todo == th["spdp"].todo
           i    == th["spdp"].e
           pl1  == Place(pc, p, i + 1, todo)
           pl2  == Place(next, p, 1, todo)
<1>1. /\ At("spdp", pc)
      /\ UNCHANGED <<writers, readers, remotes, fresh, turnedAway,
                     unmatched_vars, match_vars, sedp, pending>>
  BY DEF RemoveFrom
<1>2. p \in Participants /\ todo \in SUBSET Participants
  BY <1>1, SpdpPlaces DEF SpdpPlace, At
<1>3. SpdpPlace(pl1) /\ SpdpPlace(pl2)
  BY <1>2, RemovalPlace
<1>4. EndpointsOK' /\ RemotesOK' /\ SEDPTypeOK'
  BY <1>1, KeepEndpoints, KeepRemotes, KeepSEDP DEF DiscoveryInv
<1>5. CASE i \in DOMAIN endpoints
  <2>1. /\ RemoveProxiesOf(endpoints[i], p)
        /\ expected' = [r \in SedpReaders |->
                          IF r = endpoints[i] THEN [expected[r] EXCEPT ![p] = 1] ELSE expected[r]]
        /\ Go("spdp", [th["spdp"] EXCEPT !.e = i + 1])
    BY <1>5 DEF RemoveFrom
  <2>2. PoolsOK'
    BY <1>1, <2>1, RemoveProxiesKeeps DEF DiscoveryInv
  <2>3. ExpectedOK'
    BY <1>1, <2>1 DEF DiscoveryInv, ExpectedOK
  <2>4. Go("spdp", pl1)
    <3>1. [th["spdp"] EXCEPT !.e = i + 1] = Place(th["spdp"].pc, p, i + 1, todo)
      BY SpdpPlaces, ChangedPlace
    <3> QED BY <1>1, <2>1, <3>1 DEF At
  <2> HIDE DEF pl1
  <2> QED BY <1>3, <1>4, <2>2, <2>3, <2>4, SpdpStep
<1>6. CASE i \notin DOMAIN endpoints
  <2>1. Go("spdp", [th["spdp"] EXCEPT !.pc = next, !.e = 1]) /\ UNCHANGED <<proxies, expected>>
    BY <1>6 DEF RemoveFrom
  <2>2. PoolsOK' /\ ExpectedOK'
    BY <1>1, <2>1, KeepPools DEF DiscoveryInv, ExpectedOK
  <2>3. Go("spdp", pl2)
    <3>1. [th["spdp"] EXCEPT !.pc = next, !.e = 1] = pl2
      BY SpdpPlaces, ChangedPlace
    <3> QED BY <2>1, <3>1
  <2> HIDE DEF pl2
  <2> QED BY <1>3, <1>4, <2>2, <2>3, SpdpStep
<1> QED BY <1>5, <1>6

LEMMA RemovalKeeps ==
  ASSUME DiscoveryInv, Removal, UNCHANGED <<running, created>>
  PROVE  DiscoveryInv'
<1> DEFINE p    == th["spdp"].who
           todo == th["spdp"].todo
           e    == th["spdp"].e
<1>1. ASSUME th["spdp"].pc \in RemovalPcs
      PROVE  p \in Participants /\ todo \in SUBSET Participants
  BY <1>1, SpdpPlaces DEF SpdpPlace
<1>2. CASE RemoveFrom("writers", writers, "readers")
  BY <1>2, RemoveFromKeeps DEF RemovalPcs
<1>3. CASE RemoveFrom("readers", readers, "unmatched")
  BY <1>3, RemoveFromKeeps DEF RemovalPcs
<1>4. CASE RemoveUnmatchedEntities
  <2>1. /\ At("spdp", "unmatched")
        /\ unmatchedReaders' = OthersThan(p, unmatchedReaders)
        /\ unmatchedWriters' = OthersThan(p, unmatchedWriters)
        /\ ForgetTurnedAway(p)
        /\ Go("spdp", [th["spdp"] EXCEPT !.pc = "pool"])
        /\ UNCHANGED <<writers, readers, proxies, remotes, fresh,
                       match_vars, sedp, spdp_vars>>
    BY <1>4 DEF RemoveUnmatchedEntities
  <2>2. PoolsOK'
    BY <2>1 DEF DiscoveryInv, PoolsOK, ForgetTurnedAway
  <2>3. SEDPTypeOK'
    BY <2>1 DEF DiscoveryInv, SEDPTypeOK, OthersThan, match_vars
  <2>4. EndpointsOK' /\ RemotesOK' /\ ExpectedOK'
    BY <2>1, KeepEndpoints, KeepRemotes, KeepExpected DEF DiscoveryInv
  <2>5. Go("spdp", Place("pool", p, e, todo))
    BY <2>1, SpdpPlaces, ChangedPlace
  <2>6. SpdpPlace(Place("pool", p, e, todo))
    BY <1>1, <2>1, RemovalPlace DEF RemovalPcs, At
  <2> QED BY <2>2, <2>3, <2>4, <2>5, <2>6, SpdpStep
<1>5. CASE RemoveRemoteParticipant
  <2>1. /\ At("spdp", "pool") /\ remotes' = remotes \ {p}
        /\ Go("spdp", Place("check", NoEndpoint, NoEndpoint, todo))
        /\ UNCHANGED <<writers, readers, proxies, fresh, turnedAway,
                       unmatched_vars, match_vars, sedp, spdp_vars>>
    BY <1>5 DEF RemoveRemoteParticipant
  <2>2. IsFiniteSet(remotes') /\ Cardinality(remotes') <= MaxRemotes
    <3>1. /\ IsFiniteSet(remotes') /\ Cardinality(remotes') <= Cardinality(remotes)
          /\ Cardinality(remotes') \in Nat /\ Cardinality(remotes) \in Nat
      BY <2>1, FS_Subset, FS_CardinalityType DEF DiscoveryInv, RemotesOK
    <3> QED BY <3>1, ParticipantAssumption DEF DiscoveryInv, RemotesOK
  <2>3. RemotesOK'
    BY <2>1, <2>2 DEF DiscoveryInv, RemotesOK
  <2>4. EndpointsOK' /\ PoolsOK' /\ SEDPTypeOK' /\ ExpectedOK'
    BY <2>1, KeepEndpoints, KeepPools, KeepSEDP, KeepExpected DEF DiscoveryInv
  <2>5. SpdpPlace(Place("check", NoEndpoint, NoEndpoint, todo))
    BY <1>1, <2>1, PlaceFields DEF SpdpPlace, RemovalPcs, At
  <2> QED BY <2>1, <2>3, <2>4, <2>5, SpdpStep
<1> QED BY <1>2, <1>3, <1>4, <1>5 DEF Removal

-----------------------------------------------------------------------------
(* The application.                                                        *)

LEMMA AppStep ==
  ASSUME DiscoveryInv, NEW pl, Go("app", pl), AppPlace(pl, created'),
         EndpointsOK' /\ PoolsOK' /\ RemotesOK' /\ SEDPTypeOK' /\ ExpectedOK',
         running' = running, created' \in 0 .. Len(Creations)
  PROVE  DiscoveryInv'
BY AppMoves DEF DiscoveryInv

LEMMA AppPlaces ==
  ASSUME DiscoveryInv
  PROVE  AppPlace(th["app"], created) /\ IsPlace(th["app"])
BY DEF DiscoveryInv, ThreadsOK, AppPlace

LEMMA AppPlaceOf ==
  ASSUME NEW pc \in {"lock", "tried", "callback", "argument", "count", "halt"},
         NEW e, NEW todo, NEW n \in Nat, n < Len(Creations)
  PROVE  AppPlace(Place(pc, Creations[n + 1], e, todo), n)
BY PlaceFields DEF AppPlace, Trying, TryPcs

LEMMA CreateNodeKeeps ==
  ASSUME DiscoveryInv, CreateNode
  PROVE  DiscoveryInv'
<1>1. /\ writers' = BuiltInWriters /\ readers' = BuiltInReaders
      /\ UNCHANGED <<remotes, fresh, turnedAway, unmatched_vars, match_vars, sedp,
                     th, spdp_vars, running, created>>
  BY DEF CreateNode
<1>2. EndpointsOK'
  <2>1. BuiltInWriters \in Seq(WriterSet) /\ BuiltInWriters # <<>>
    <3>1. BuiltInWriters \in Seq(SeqRange(BuiltInWriters))
      <4>1. BuiltInWriters = <<"spdpWriter", "sedpPubWriter", "sedpSubWriter">>
        BY DEF BuiltInWriters
      <4>2. {"spdpWriter", "sedpPubWriter", "sedpSubWriter"} \subseteq SeqRange(BuiltInWriters)
        <5>1. /\ {1, 2, 3} \subseteq DOMAIN BuiltInWriters
              /\ <<BuiltInWriters[1], BuiltInWriters[2], BuiltInWriters[3]>> = <<"spdpWriter", "sedpPubWriter", "sedpSubWriter">>
          BY DEF BuiltInWriters
        <5> QED BY <5>1 DEF SeqRange
      <4> QED BY <4>1, <4>2
    <3> QED BY <3>1 DEF WriterSet, BuiltInWriters
  <2>2. BuiltInReaders \in Seq(ReaderSet) /\ BuiltInReaders # <<>> /\ BuiltInReaders[1] = "spdpReader"
    <3>1. BuiltInReaders \in Seq(SeqRange(BuiltInReaders))
      <4>1. BuiltInReaders = <<"spdpReader", "sedpPubReader", "sedpSubReader">>
        BY DEF BuiltInReaders
      <4>2. {"spdpReader", "sedpPubReader", "sedpSubReader"} \subseteq SeqRange(BuiltInReaders)
        <5>1. /\ {1, 2, 3} \subseteq DOMAIN BuiltInReaders
              /\ <<BuiltInReaders[1], BuiltInReaders[2], BuiltInReaders[3]>> = <<"spdpReader", "sedpPubReader", "sedpSubReader">>
          BY DEF BuiltInReaders
        <5> QED BY <5>1 DEF SeqRange
      <4> QED BY <4>1, <4>2
    <3> QED BY <3>1 DEF ReaderSet, BuiltInReaders
  <2> QED BY <1>1, <2>1, <2>2 DEF EndpointsOK
<1>3. PoolsOK'
  BY CreateNodeKeepsPools DEF DiscoveryInv
<1>4. RemotesOK' /\ SEDPTypeOK' /\ ExpectedOK'
  BY <1>1, KeepRemotes, KeepSEDP, KeepExpected DEF DiscoveryInv
<1> QED BY <1>1, <1>2, <1>3, <1>4 DEF DiscoveryInv, ThreadsOK

LEMMA CreateKeeps ==
  ASSUME DiscoveryInv, Create
  PROVE  DiscoveryInv'
<1> DEFINE e   == Creations[created + 1]
           pl1 == Place("lock", e, NoEndpoint, {})
           pl2 == Place("halt", e, NoEndpoint, {})
<1>1. /\ writers # <<>> /\ created < Len(Creations)
      /\ UNCHANGED <<proxies, remotes, fresh, turnedAway, unmatched_vars, match_vars,
                     sedp, spdp_vars, running, created>>
  BY DEF Create
<1>2. created \in Nat /\ Len(Creations) \in Nat /\ e \in LocalUser
  BY <1>1, CreationsAssumption DEF DiscoveryInv, LocalUser
<1>3. AppPlace(pl1, created') /\ AppPlace(pl2, created')
  BY <1>1, <1>2, AppPlaceOf
<1>4. PoolsOK' /\ RemotesOK' /\ SEDPTypeOK' /\ ExpectedOK'
  BY <1>1, KeepPools, KeepRemotes, KeepSEDP, KeepExpected DEF DiscoveryInv
<1>5. CASE Cardinality(InUse(e)) < Slots(e)
  <2>1. /\ writers' = IF e \in LocalWriters THEN Append(writers, e) ELSE writers
        /\ readers' = IF e \in LocalReaders THEN Append(readers, e) ELSE readers
        /\ Go("app", pl1)
    BY <1>5 DEF Create
  <2>2. EndpointsOK'
    <3> HIDE DEF e
    <3>1. /\ writers \in Seq(WriterSet) /\ readers \in Seq(ReaderSet)
          /\ readers # <<>> /\ readers[1] = "spdpReader"
      BY <1>1 DEF DiscoveryInv, EndpointsOK
    <3>2. writers' \in Seq(WriterSet) /\ writers' # <<>>
      BY <1>1, <2>1, <3>1 DEF WriterSet
    <3>3. readers' \in Seq(ReaderSet) /\ readers' # <<>> /\ readers'[1] = "spdpReader"
      BY <2>1, <3>1 DEF ReaderSet
    <3> QED BY <3>2, <3>3 DEF EndpointsOK
  <2> HIDE DEF pl1
  <2> QED BY <1>1, <1>3, <1>4, <2>1, <2>2, AppStep DEF DiscoveryInv
<1>6. CASE ~ (Cardinality(InUse(e)) < Slots(e))
  <2>1. Go("app", pl2) /\ UNCHANGED <<writers, readers>>
    BY <1>6 DEF Create
  <2>2. EndpointsOK'
    BY <2>1, KeepEndpoints DEF DiscoveryInv
  <2> HIDE DEF pl2
  <2> QED BY <1>1, <1>3, <1>4, <2>1, <2>2, AppStep DEF DiscoveryInv
<1> QED BY <1>5, <1>6

LEMMA TryAppKeeps ==
  ASSUME DiscoveryInv, TryMatch("app"), UNCHANGED <<spdp_vars, running, created>>
  PROVE  DiscoveryInv'
<1>1. /\ EndpointsOK' /\ PoolsOK' /\ RemotesOK' /\ SEDPTypeOK'
      /\ th["app"].pc \in TryPcs
      /\ \E pl : /\ Go("app", pl) /\ IsPlace(pl) /\ pl.pc \in TryPcs /\ Trying(pl)
                 /\ pl.who = th["app"].who
  BY TryKeeps
<1>2. PICK pl : /\ Go("app", pl) /\ IsPlace(pl) /\ pl.pc \in TryPcs /\ Trying(pl)
                /\ pl.who = th["app"].who
  BY <1>1
<1>3. created < Len(Creations) /\ th["app"].who = Creations[created + 1]
  BY <1>1, AppPlaces DEF AppPlace, TryPcs
<1>4. AppPlace(pl, created')
  BY <1>2, <1>3 DEF AppPlace
<1>5. ExpectedOK'
  BY KeepExpected DEF DiscoveryInv
<1> QED BY <1>1, <1>2, <1>4, <1>5, AppStep DEF DiscoveryInv

\* The steps of a creation after the endpoint is in its array.
LEMMA CreatingKeeps ==
  ASSUME DiscoveryInv,
         LockSEDP \/ Announce \/ StoreFunction \/ StoreArgument \/ CountMatched
  PROVE  DiscoveryInv'
<1>1. UNCHANGED <<participant_vars, unmatched_vars, spdp_vars, running>>
  BY DEF LockSEDP, Announce, StoreFunction, StoreArgument, CountMatched
<1>2. EndpointsOK' /\ PoolsOK' /\ RemotesOK' /\ ExpectedOK'
  BY <1>1, KeepEndpoints, KeepPools, KeepRemotes, KeepExpected
     DEF DiscoveryInv, participant_vars
<1>3. SEDPTypeOK'
  BY <1>1 DEF LockSEDP, Announce, StoreFunction, StoreArgument, CountMatched, StoreCallback,
              DiscoveryInv, SEDPTypeOK, unmatched_vars, match_vars
<1>4. th["app"].pc # "idle"
  BY DEF LockSEDP, Announce, StoreFunction, StoreArgument, CountMatched, At
<1>5. /\ created \in Nat /\ Len(Creations) \in Nat /\ created < Len(Creations)
      /\ th["app"].who = Creations[created + 1]
  BY <1>4, AppPlaces, CreationsAssumption DEF AppPlace, DiscoveryInv
<1> DEFINE who == th["app"].who
           e   == th["app"].e
           todo == th["app"].todo
<1>6. CASE CountMatched
  <2>1. Go("app", Idle) /\ created' = created + 1
    BY <1>6 DEF CountMatched
  <2>2. AppPlace(Idle, created')
    BY PlaceFields DEF AppPlace, Idle, Trying, TryPcs
  <2>3. created' \in 0 .. Len(Creations)
    BY <1>5, <2>1
  <2> QED BY <1>1, <1>2, <1>3, <2>1, <2>2, <2>3, AppStep
<1>7. CASE LockSEDP
  <2> DEFINE pl == Place("tryReaders", who, NoEndpoint, unmatchedReaders)
  <2>1. Go("app", pl) /\ created' = created
    BY <1>7 DEF LockSEDP
  <2>2. AppPlace(pl, created')
    BY <1>5, <2>1, PlaceFields DEF AppPlace, Trying, TryPcs, DiscoveryInv, SEDPTypeOK
  <2> HIDE DEF pl
  <2> QED BY <1>1, <1>2, <1>3, <2>1, <2>2, AppStep DEF DiscoveryInv
<1>8. CASE Announce \/ StoreFunction \/ StoreArgument
  <2>1. PICK pc \in {"callback", "argument", "count"} :
          Go("app", [th["app"] EXCEPT !.pc = pc]) /\ created' = created
    BY <1>8 DEF Announce, StoreFunction, StoreArgument
  <2>2. [th["app"] EXCEPT !.pc = pc] = Place(pc, who, e, todo)
    BY AppPlaces, ChangedPlace
  <2>3. AppPlace(Place(pc, who, e, todo), created')
    BY <1>5, <2>1, AppPlaceOf
  <2> QED BY <1>1, <1>2, <1>3, <2>1, <2>2, <2>3, AppStep DEF DiscoveryInv
<1> QED BY <1>6, <1>7, <1>8

-----------------------------------------------------------------------------
(* The invariant.                                                          *)

LEMMA InitGivesInv == Init => DiscoveryInv
<1> SUFFICES ASSUME Init PROVE DiscoveryInv
  OBVIOUS
<1>1. ParticipantInit /\ SEDPInit /\ SPDPInit /\ running = FALSE /\ created = 0
  BY DEF Init
<1>2. EndpointsOK
  BY <1>1 DEF ParticipantInit, EndpointsOK
<1>3. PoolsOK
  <2>1. /\ PoolOK(EmptyBag) /\ DOMAIN EmptyBag = {} /\ BagCardinality(EmptyBag) = 0
        /\ ProxySlots \in Nat
    BY EmptyPool, ParticipantAssumption
  <2>2. \A e : PoolAt(e, EmptyBag)
    BY <2>1 DEF PoolAt
  <2> QED BY <1>1, <2>2 DEF ParticipantInit, PoolsOK
<1>4. RemotesOK
  <2>1. remotes = {} /\ fresh = [p \in Participants |-> FALSE]
    BY <1>1 DEF ParticipantInit
  <2>2. IsFiniteSet(remotes) /\ Cardinality(remotes) = 0 /\ MaxRemotes \in Nat
    BY <2>1, FS_EmptySet, ParticipantAssumption
  <2> QED BY <2>1, <2>2 DEF RemotesOK
<1>5. SEDPTypeOK
  BY <1>1 DEF SEDPInit, SEDPTypeOK
<1>6. ExpectedOK
  <2> DEFINE none == [who |-> NoEndpoint, next |-> 1]
  <2>1. none \in [who : Participants \cup {NoEndpoint}, next : Nat]
    OBVIOUS
  <2>2. /\ expected = [r \in SedpReaders |-> [p \in Participants |-> 1]]
        /\ pending = [r \in SedpReaders |-> none]
    BY <1>1 DEF SPDPInit
  <2> HIDE DEF none
  <2> QED BY <2>1, <2>2 DEF ExpectedOK
<1>7. ThreadsOK
  <2>1. th = [t \in Threads |-> Idle] /\ created = 0
    BY <1>1 DEF SEDPInit
  <2>2. AppPlace(Idle, created) /\ SpdpPlace(Idle)
    BY PlaceFields DEF AppPlace, SpdpPlace, Idle, Trying, TryPcs, RemovalPcs
  <2> QED BY <2>1, <2>2, IdlePlace DEF ThreadsOK, Threads
<1>8. running \in BOOLEAN /\ created \in 0 .. Len(Creations)
  <2>1. Len(Creations) \in Nat
    BY CreationsAssumption
  <2>2. running \in BOOLEAN
    BY <1>1
  <2>3. created = 0
    BY <1>1
  <2>4. created \in 0 .. Len(Creations)
    BY <2>1, <2>3
  <2> QED BY <2>2, <2>4
<1> QED BY <1>2, <1>3, <1>4, <1>5, <1>6, <1>7, <1>8 DEF DiscoveryInv

LEMMA StutterKeepsInv == DiscoveryInv /\ UNCHANGED vars => DiscoveryInv'
<1> SUFFICES ASSUME DiscoveryInv, UNCHANGED vars PROVE DiscoveryInv'
  OBVIOUS
<1>1. EndpointsOK' /\ PoolsOK' /\ RemotesOK' /\ SEDPTypeOK' /\ ExpectedOK'
  BY KeepEndpoints, KeepPools, KeepRemotes, KeepSEDP, KeepExpected
     DEF DiscoveryInv, vars, participant_vars
<1> QED BY <1>1 DEF DiscoveryInv, ThreadsOK, vars

LEMMA NextKeepsInv ==
  ASSUME DiscoveryInv, Next
  PROVE  DiscoveryInv'
<1>1. CASE CompleteInit
  <2>1. EndpointsOK' /\ PoolsOK' /\ RemotesOK' /\ SEDPTypeOK' /\ ExpectedOK'
    BY <1>1, KeepEndpoints, KeepPools, KeepRemotes, KeepSEDP, KeepExpected
       DEF CompleteInit, DiscoveryInv, participant_vars
  <2> QED BY <1>1, <2>1 DEF CompleteInit, DiscoveryInv, ThreadsOK
<1>2. CASE App
  BY <1>2, CreateNodeKeeps, CreateKeeps, CreatingKeeps, TryAppKeeps DEF App
<1>3. CASE Arrival
  BY <1>3, HandlePackageKeeps, LivelinessKeeps, ReceiveKeeps DEF Arrival
<1>4. CASE Handle
  BY <1>4, PublisherKeeps, SubscriberKeeps, TryRxKeeps, ProcessKeeps, RefreshKeeps,
     AddRemoteKeeps, AddBuiltInsKeeps, EndProcessKeeps DEF Handle, OnAnnouncement
<1>5. CASE Check
  BY <1>5, CheckKeeps DEF Check
<1>6. CASE Remove
  BY <1>6, CheckKeeps, RemovalKeeps DEF Remove
<1>7. CASE Time
  BY <1>7, LivelinessKeeps DEF Time
<1> QED BY <1>1, <1>2, <1>3, <1>4, <1>5, <1>6, <1>7 DEF Next

(***************************************************************************)
(* In every reachable state the endpoints, pools, tables and lists are     *)
(* what they are for, and so is what each thread carries from one critical *)
(* section to the next, in whatever order the handlers of SEDPAgent and    *)
(* SPDPAgent run.                                                          *)
(***************************************************************************)
THEOREM DiscoveryCorrect == Spec => []DiscoveryInv
<1>1. DiscoveryInv /\ [Next]_vars => DiscoveryInv'
  BY NextKeepsInv, StutterKeepsInv
<1> QED BY <1>1, InitGivesInv, PTL DEF Spec

LEMMA InvGivesType == DiscoveryInv => TypeOK
<1> SUFFICES ASSUME DiscoveryInv PROVE TypeOK
  OBVIOUS
<1>1. SeqRange(writers) \subseteq Local /\ SeqRange(readers) \subseteq Local
  BY LocalSets DEF DiscoveryInv, EndpointsOK, SeqRange
<1>2. \A e \in Local : /\ BagToSet(proxies[e]) \subseteq Guids
                       /\ BagCardinality(proxies[e]) <= ProxySlots
  BY DEF DiscoveryInv, PoolsOK, PoolAt, Fits, BagToSet
<1>3. ParticipantTypeOK
  BY <1>1, <1>2 DEF ParticipantTypeOK, DiscoveryInv, RemotesOK, PoolsOK, LocalUser
<1> QED BY <1>3 DEF TypeOK, DiscoveryInv, ExpectedOK

(* Whatever announcements, creations, retries and removals come in what    *)
(* order: no pool of proxies and no list is ever beyond its size, and each *)
(* holds what its slots are for (SEDPAgent, SPDPAgent and Participant).    *)
THEOREM TypeCorrect == Spec => []TypeOK
BY DiscoveryCorrect, InvGivesType, PTL

-----------------------------------------------------------------------------
(* No match is missed.  The inductive invariant: an endpoint whose         *)
(* creation is over has its callback, and if it has a partner the flag is  *)
(* set, or a thread that has just matched somebody is about to call.       *)

Matched(e) == DOMAIN proxies[e] # {}

SubscriberNews == {"toldReader", "tellSubscriber"}

PublisherNews == {"toldWriter", "tellPublisher"}

Telling(pcs) == \E t \in {"app", "rx"} : th[t].pc \in pcs

HasCallback(e) ==
  IF e \in LocalWriters THEN onNewSubscriber = "set" ELSE onNewPublisher = "set"

Heard(e) ==
  Matched(e) => IF e \in LocalWriters THEN subMatched \/ Telling(SubscriberNews)
                                      ELSE pubMatched \/ Telling(PublisherNews)

MatchesHeard ==
  /\ \A i \in 1 .. created : HasCallback(Creations[i]) /\ Heard(Creations[i])
  /\ At("app", "count") => HasCallback(th["app"].who)

LEMMA CreatedUsers ==
  ASSUME DiscoveryInv
  PROVE  \A i \in 1 .. created : Creations[i] \in LocalUser
<1>1. Creations \in Seq(LocalUser) /\ created \in 0 .. Len(Creations)
  BY CreationsAssumption DEF DiscoveryInv, LocalUser
<1> QED BY <1>1

\* A step that matches nobody new, and neither begins nor ends to tell.
LEMMA NothingToTell ==
  ASSUME DiscoveryInv, MatchesHeard,
         th'["app"] = th["app"],
         th["rx"].pc \in SubscriberNews \cup PublisherNews => th'["rx"].pc = th["rx"].pc,
         UNCHANGED <<match_vars, created>>,
         \A e \in LocalUser : DOMAIN proxies[e] = {} => DOMAIN proxies'[e] = {}
  PROVE  MatchesHeard'
<1>1. UNCHANGED <<onNewSubscriber, onNewPublisher, subMatched, pubMatched>> /\ created' = created
  BY DEF match_vars
<1>2. /\ Telling(SubscriberNews) => Telling(SubscriberNews)'
      /\ Telling(PublisherNews) => Telling(PublisherNews)'
  BY DEF Telling
<1>3. ASSUME NEW e \in LocalUser, HasCallback(e), Heard(e) PROVE HasCallback(e)' /\ Heard(e)'
  <2>1. HasCallback(e)'
    BY <1>1, <1>3 DEF HasCallback
  <2>2. Matched(e)' => Matched(e)
    BY DEF Matched
  <2>3. Heard(e)'
    BY <1>1, <1>2, <1>3, <2>2 DEF Heard
  <2> QED BY <2>1, <2>3
<1>4. At("app", "count")' => HasCallback(th["app"].who)'
  BY <1>1 DEF MatchesHeard, At, HasCallback
<1> QED BY <1>1, <1>3, <1>4, CreatedUsers DEF MatchesHeard

\* A step of the application or the reader thread that matches nobody.
LEMMA GoesOn ==
  ASSUME DiscoveryInv, MatchesHeard, NEW t \in {"app", "rx"}, NEW pl, Go(t, pl),
         th[t].pc \notin SubscriberNews \cup PublisherNews,
         t = "app" => pl.pc # "count",
         UNCHANGED <<match_vars, proxies, created>>
  PROVE  MatchesHeard'
<1>1. DOMAIN th = Threads /\ t \in Threads
  BY DEF DiscoveryInv, ThreadsOK, Threads
<1>2. th'[t] = pl /\ \A u \in {"app", "rx"} \ {t} : th'[u] = th[u]
  BY <1>1, GoEffect DEF Threads
<1>3. CASE t = "rx"
  BY <1>2, <1>3, NothingToTell
<1>4. CASE t = "app"
  <2>1. UNCHANGED <<onNewSubscriber, onNewPublisher, subMatched, pubMatched>> /\ created' = created
    BY DEF match_vars
  <2>2. /\ Telling(SubscriberNews) => Telling(SubscriberNews)'
        /\ Telling(PublisherNews) => Telling(PublisherNews)'
    BY <1>2, <1>4 DEF Telling
  <2>3. ASSUME NEW e \in LocalUser, HasCallback(e), Heard(e) PROVE HasCallback(e)' /\ Heard(e)'
    BY <2>1, <2>2, <2>3 DEF HasCallback, Heard, Matched
  <2>4. ~ At("app", "count")'
    BY <1>2, <1>4 DEF At
  <2> QED BY <2>1, <2>3, <2>4, CreatedUsers DEF MatchesHeard
<1> QED BY <1>3, <1>4

\* A match, and the thread that made it is about to tell.
LEMMA NewMatch ==
  ASSUME DiscoveryInv, MatchesHeard, NEW t \in {"app", "rx"}, NEW pl, Go(t, pl),
         th[t].pc \notin SubscriberNews \cup PublisherNews,
         NEW e \in LocalUser, NEW guid, AddProxy(e, guid),
         pl.pc \in IF e \in LocalWriters THEN SubscriberNews ELSE PublisherNews,
         UNCHANGED <<match_vars, created>>
  PROVE  MatchesHeard'
<1>1. DOMAIN th = Threads /\ t \in Threads
  BY DEF DiscoveryInv, ThreadsOK, Threads
<1>2. th'[t] = pl /\ \A u \in {"app", "rx"} \ {t} : th'[u] = th[u]
  BY <1>1, GoEffect DEF Threads
<1>3. UNCHANGED <<onNewSubscriber, onNewPublisher, subMatched, pubMatched>> /\ created' = created
  BY DEF match_vars
<1>4. /\ Telling(SubscriberNews) => Telling(SubscriberNews)'
      /\ Telling(PublisherNews) => Telling(PublisherNews)'
      /\ IF e \in LocalWriters THEN Telling(SubscriberNews)' ELSE Telling(PublisherNews)'
  BY <1>2 DEF Telling
<1>5. ASSUME NEW x \in LocalUser, HasCallback(x), Heard(x) PROVE HasCallback(x)' /\ Heard(x)'
  <2>1. HasCallback(x)'
    BY <1>3, <1>5 DEF HasCallback
  <2>2. CASE x = e
    BY <1>4, <2>1, <2>2 DEF Heard
  <2>3. CASE x # e
    <3>1. Matched(x)' = Matched(x)
      BY <2>3, LocalSets DEF Matched, AddProxy, DiscoveryInv, PoolsOK
    <3> QED BY <1>3, <1>4, <1>5, <2>1, <3>1 DEF Heard
  <2> QED BY <2>1, <2>2, <2>3
<1>6. At("app", "count")' => At("app", "count") /\ th'["app"].who = th["app"].who
  BY <1>2 DEF At, SubscriberNews, PublisherNews
<1>7. At("app", "count")' => HasCallback(th["app"].who)'
  BY <1>3, <1>6 DEF MatchesHeard, HasCallback
<1> QED BY <1>3, <1>5, <1>7, CreatedUsers DEF MatchesHeard

\* The callback is called.
LEMMA Told ==
  ASSUME DiscoveryInv, MatchesHeard, NEW t \in {"app", "rx"}, NEW pl, Go(t, pl),
         pl.pc # "count",
         \/ th[t].pc \in SubscriberNews /\ TellSubscriber /\ UNCHANGED pubMatched
         \/ th[t].pc \in PublisherNews /\ TellPublisher /\ UNCHANGED subMatched,
         UNCHANGED <<onNewSubscriber, onNewPublisher, proxies, created>>
  PROVE  MatchesHeard'
<1>1. DOMAIN th = Threads /\ t \in Threads
  BY DEF DiscoveryInv, ThreadsOK, Threads
<1>2. th'[t] = pl /\ \A u \in {"app", "rx"} \ {t} : th'[u] = th[u]
  BY <1>1, GoEffect DEF Threads
<1>3. ASSUME NEW x \in LocalUser, HasCallback(x), Heard(x) PROVE HasCallback(x)' /\ Heard(x)'
  <2>1. HasCallback(x)'
    BY <1>3 DEF HasCallback
  <2>2. Matched(x)' = Matched(x)
    BY DEF Matched
  <2>3. CASE th[t].pc \in SubscriberNews /\ TellSubscriber /\ UNCHANGED pubMatched
    <3>1. Telling(PublisherNews) => Telling(PublisherNews)'
      BY <1>2, <2>3 DEF Telling, SubscriberNews, PublisherNews
    <3>2. x \in LocalWriters => subMatched'
      BY <1>3, <2>3 DEF HasCallback, TellSubscriber
    <3> QED BY <1>3, <2>1, <2>2, <2>3, <3>1, <3>2 DEF Heard
  <2>4. CASE th[t].pc \in PublisherNews /\ TellPublisher /\ UNCHANGED subMatched
    <3>1. Telling(SubscriberNews) => Telling(SubscriberNews)'
      BY <1>2, <2>4 DEF Telling, SubscriberNews, PublisherNews
    <3>2. x \notin LocalWriters => pubMatched'
      BY <1>3, <2>4 DEF HasCallback, TellPublisher
    <3> QED BY <1>3, <2>1, <2>2, <2>4, <3>1, <3>2 DEF Heard
  <2> QED BY <2>3, <2>4
<1>4. At("app", "count")' => At("app", "count") /\ th'["app"].who = th["app"].who
  BY <1>2 DEF At
<1>5. At("app", "count")' => HasCallback(th["app"].who)'
  BY <1>4 DEF MatchesHeard, HasCallback
<1> QED BY <1>3, <1>5, CreatedUsers DEF MatchesHeard

LEMMA TryHeard ==
  ASSUME DiscoveryInv, MatchesHeard, NEW t \in {"app", "rx"}, TryMatch(t), created' = created
  PROVE  MatchesHeard'
<1>1. PICK pl : Go(t, pl) /\ IsPlace(pl) /\ pl.pc \in TryPcs
  BY TryKeeps
<1>2. pl.pc # "count"
  BY <1>1 DEF TryPcs
<1>3. IsPlace(th[t]) /\ Trying(th[t]) /\ DOMAIN th = Threads /\ t \in Threads
  BY TryPlaces DEF DiscoveryInv, ThreadsOK
<1>4. CASE TryReaders(t) \/ TryWriters(t)
  <2>1. th[t].pc \notin SubscriberNews \cup PublisherNews /\ UNCHANGED <<match_vars, proxies>>
    BY <1>4 DEF TryReaders, TryWriters, At, SubscriberNews, PublisherNews, participant_vars
  <2> QED BY <1>1, <1>2, <2>1, GoesOn
<1>5. CASE TryAddReader(t)
  <2>1. /\ At(t, "addReader") /\ AddProxy(th[t].e[1], th[t].e[2])
        /\ Go(t, [th[t] EXCEPT !.pc = "toldReader"]) /\ UNCHANGED match_vars
    BY <1>5 DEF TryAddReader
  <2>2. th[t].e[1] \in LocalWriters
    BY <1>3, <2>1 DEF Trying, At, Pair
  <2>3. Go(t, Place("toldReader", th[t].who, th[t].e, th[t].todo))
    BY <1>3, <2>1, ChangedPlace
  <2>4. Place("toldReader", th[t].who, th[t].e, th[t].todo).pc = "toldReader"
    BY PlaceFields
  <2> QED BY <2>1, <2>2, <2>3, <2>4, NewMatch DEF At, SubscriberNews, PublisherNews, LocalUser
<1>6. CASE TryAddWriter(t)
  <2>1. /\ At(t, "addWriter") /\ AddProxy(th[t].e[1], th[t].e[2])
        /\ Go(t, [th[t] EXCEPT !.pc = "toldWriter"]) /\ UNCHANGED match_vars
    BY <1>6 DEF TryAddWriter
  <2>2. th[t].e[1] \in LocalReaders /\ th[t].e[1] \notin LocalWriters
    BY <1>3, <2>1, EndpointAssumption DEF Trying, At, Pair
  <2>3. Go(t, Place("toldWriter", th[t].who, th[t].e, th[t].todo))
    BY <1>3, <2>1, ChangedPlace
  <2>4. Place("toldWriter", th[t].who, th[t].e, th[t].todo).pc = "toldWriter"
    BY PlaceFields
  <2> QED BY <2>1, <2>2, <2>3, <2>4, NewMatch DEF At, SubscriberNews, PublisherNews, LocalUser
<1>7. CASE TryTellSubscriber(t)
  <2>1. /\ th[t].pc \in SubscriberNews /\ TellSubscriber
        /\ UNCHANGED <<onNewSubscriber, onNewPublisher, pubMatched, proxies>>
    BY <1>7 DEF TryTellSubscriber, At, SubscriberNews, participant_vars
  <2> QED BY <1>1, <1>2, <2>1, Told
<1>8. CASE TryTellPublisher(t)
  <2>1. /\ th[t].pc \in PublisherNews /\ TellPublisher
        /\ UNCHANGED <<onNewSubscriber, onNewPublisher, subMatched, proxies>>
    BY <1>8 DEF participant_vars, TryTellPublisher, At, PublisherNews
  <2> QED BY <1>1, <1>2, <2>1, Told
<1> QED BY <1>4, <1>5, <1>6, <1>7, <1>8 DEF TryMatch

LEMMA AnnouncementHeard ==
  ASSUME DiscoveryInv, MatchesHeard, OnAnnouncement, created' = created
  PROVE  MatchesHeard'
<1> DEFINE guid == th["rx"].who
<1>1. CASE \/ OnNewPublisherLock \/ OnNewPublisherFind \/ KeepPublisher
           \/ OnNewSubscriberLock \/ OnNewSubscriberFind \/ KeepSubscriber
  <2>1. \E pl : Go("rx", pl)
    BY <1>1 DEF OnNewPublisherLock, OnNewPublisherFind, KeepPublisher,
                OnNewSubscriberLock, OnNewSubscriberFind, KeepSubscriber
  <2>2. /\ th["rx"].pc \notin SubscriberNews \cup PublisherNews
        /\ UNCHANGED <<match_vars, proxies>>
    BY <1>1 DEF OnNewPublisherLock, OnNewPublisherFind, KeepPublisher,
                OnNewSubscriberLock, OnNewSubscriberFind, KeepSubscriber,
                At, SubscriberNews, PublisherNews, participant_vars
  <2> QED BY <2>1, <2>2, GoesOn
<1>2. CASE MatchPublisher
  <2> DEFINE r == GetMatchingReader(guid)
  <2>1. /\ th["rx"].pc = "matchPublisher" /\ r # NoEndpoint /\ UNCHANGED match_vars
        /\ \/ Go("rx", Idle) /\ UNCHANGED proxies
           \/ AddProxy(r, guid) /\ Go("rx", Place("tellPublisher", guid, r, {}))
    BY <1>2 DEF MatchPublisher, At
  <2>2. guid \in UserGuids
    BY <2>1, RxPlaces DEF RxPlace, PublisherPcs, UserGuids
  <2>3. r \in LocalUser /\ r \notin LocalWriters
    BY <2>1, <2>2, FoundReader, EndpointAssumption DEF DiscoveryInv, LocalUser
  <2>4. Place("tellPublisher", guid, r, {}).pc = "tellPublisher"
    BY PlaceFields
  <2>5. th["rx"].pc \notin SubscriberNews \cup PublisherNews
    BY <2>1 DEF SubscriberNews, PublisherNews
  <2> HIDE DEF r
  <2>6. CASE Go("rx", Idle) /\ UNCHANGED proxies
    BY <2>1, <2>5, <2>6, GoesOn
  <2>7. CASE AddProxy(r, guid) /\ Go("rx", Place("tellPublisher", guid, r, {}))
    <3>1. Place("tellPublisher", guid, r, {}).pc \in
            IF r \in LocalWriters THEN SubscriberNews ELSE PublisherNews
      BY <2>3, <2>4 DEF PublisherNews
    <3> QED BY <2>1, <2>3, <2>5, <2>7, <3>1, NewMatch
  <2> QED BY <2>1, <2>6, <2>7
<1>3. CASE MatchSubscriber
  <2> DEFINE w == GetMatchingWriter(guid)
  <2>1. /\ th["rx"].pc = "matchSubscriber" /\ w # NoEndpoint /\ UNCHANGED match_vars
        /\ \/ Go("rx", Idle) /\ UNCHANGED proxies
           \/ AddProxy(w, guid) /\ Go("rx", Place("tellSubscriber", guid, w, {}))
    BY <1>3 DEF MatchSubscriber, At
  <2>2. guid \in UserGuids
    BY <2>1, RxPlaces DEF RxPlace, SubscriberPcs, UserGuids
  <2>3. w \in LocalUser /\ w \in LocalWriters
    BY <2>1, <2>2, FoundWriter DEF DiscoveryInv, LocalUser
  <2>4. Place("tellSubscriber", guid, w, {}).pc = "tellSubscriber"
    BY PlaceFields
  <2>5. th["rx"].pc \notin SubscriberNews \cup PublisherNews
    BY <2>1 DEF SubscriberNews, PublisherNews
  <2> HIDE DEF w
  <2>6. CASE Go("rx", Idle) /\ UNCHANGED proxies
    BY <2>1, <2>5, <2>6, GoesOn
  <2>7. CASE AddProxy(w, guid) /\ Go("rx", Place("tellSubscriber", guid, w, {}))
    <3>1. Place("tellSubscriber", guid, w, {}).pc \in
            IF w \in LocalWriters THEN SubscriberNews ELSE PublisherNews
      BY <2>3, <2>4 DEF SubscriberNews
    <3> QED BY <2>1, <2>3, <2>5, <2>7, <3>1, NewMatch
  <2> QED BY <2>1, <2>6, <2>7
<1>4. Idle.pc # "count"
  BY PlaceFields DEF Idle
<1>5. CASE OnNewPublisherTell
  <2>1. /\ th["rx"].pc \in PublisherNews /\ TellPublisher /\ Go("rx", Idle)
        /\ UNCHANGED <<onNewSubscriber, onNewPublisher, subMatched, proxies>>
    BY <1>5 DEF participant_vars, OnNewPublisherTell, At, PublisherNews
  <2> QED BY <1>4, <2>1, Told
<1>6. CASE OnNewSubscriberTell
  <2>1. /\ th["rx"].pc \in SubscriberNews /\ TellSubscriber /\ Go("rx", Idle)
        /\ UNCHANGED <<onNewSubscriber, onNewPublisher, pubMatched, proxies>>
    BY <1>6 DEF OnNewSubscriberTell, At, SubscriberNews, participant_vars
  <2> QED BY <1>4, <2>1, Told
<1> QED BY <1>1, <1>2, <1>3, <1>5, <1>6 DEF OnAnnouncement

LEMMA SpdpPackageHeard ==
  ASSUME DiscoveryInv, MatchesHeard, created' = created,
         \/ ProcessProxyData \/ RefreshRemoteParticipantLiveliness \/ AddNewRemoteParticipant
         \/ AddProxiesForBuiltInEndpoints \/ EndProcessProxyData
         \/ \E p \in Participants : \/ HandleSPDPPackage(p)
                                    \/ \E sn : ReceivePublication(p, sn)
                                    \/ \E sn : ReceiveSubscription(p, sn)
  PROVE  MatchesHeard'
<1>1. th["rx"].pc \notin SubscriberNews \cup PublisherNews /\ UNCHANGED match_vars
  BY DEF ProcessProxyData, RefreshRemoteParticipantLiveliness, AddNewRemoteParticipant,
         AddProxiesForBuiltInEndpoints, EndProcessProxyData, HandleSPDPPackage,
         ReceivePublication, ReceiveSubscription, ReceiveEndpoint,
         At, SubscriberNews, PublisherNews
<1>2. CASE AddProxiesForBuiltInEndpoints
  <2> DEFINE todo == th["rx"].todo
  <2>1. /\ th["rx"].pc = "builtin" /\ \E pl : Go("rx", pl)
        /\ \/ UNCHANGED proxies
           \/ todo # <<>> /\ AddBuiltIn(Head(todo)[1], Head(todo)[2])
    BY <1>2 DEF AddProxiesForBuiltInEndpoints, At
  <2>2. CASE UNCHANGED proxies
    BY <1>1, <2>1, <2>2, GoesOn
  <2>3. CASE todo # <<>> /\ AddBuiltIn(Head(todo)[1], Head(todo)[2])
    <3>1. todo \in Seq(BuiltInPairs)
      BY <2>1, RxPlaces DEF RxPlace
    <3>2. Head(todo) \in BuiltInPairs
      <4> HIDE DEF todo
      <4> QED BY <2>3, <3>1
    <3> DEFINE b == Head(todo)[1]
    <3>3. b \notin LocalUser
      BY <3>2, BuiltInFits
    <3>4. \A e \in LocalUser : proxies'[e] = proxies[e]
      <4>1. proxies' = [proxies EXCEPT ![b] = WithProxy(proxies[b], Head(todo)[2])]
        BY <2>3 DEF AddBuiltIn, AddProxy
      <4>2. DOMAIN proxies = Local
        BY DEF DiscoveryInv, PoolsOK
      <4> HIDE DEF b
      <4> QED BY <3>3, <4>1, <4>2, LocalSets
    <3>5. th'["app"] = th["app"]
      BY <2>1, GoEffect DEF DiscoveryInv, ThreadsOK, Threads
    <3> QED BY <1>1, <3>4, <3>5, NothingToTell
  <2> QED BY <2>1, <2>2, <2>3
<1>3. CASE ~ AddProxiesForBuiltInEndpoints
  <2>1. UNCHANGED proxies
    BY <1>3 DEF ProcessProxyData, RefreshRemoteParticipantLiveliness, AddNewRemoteParticipant,
                EndProcessProxyData, HandleSPDPPackage,
                ReceivePublication, ReceiveSubscription, ReceiveEndpoint, participant_vars
  <2>2. \E pl : Go("rx", pl)
    BY <1>3 DEF ProcessProxyData, RefreshRemoteParticipantLiveliness, AddNewRemoteParticipant,
                EndProcessProxyData, HandleSPDPPackage,
                ReceivePublication, ReceiveSubscription, ReceiveEndpoint
  <2> QED BY <1>1, <2>1, <2>2, GoesOn
<1> QED BY <1>2, <1>3

\* Nothing that the SPDP thread, the start or the passing of time does is a match.
LEMMA OthersHeard ==
  ASSUME DiscoveryInv, MatchesHeard,
         \/ CompleteInit \/ CheckAndResetHeartbeats \/ CheckNext \/ Removal
         \/ \E p \in Participants : AddHeartbeat(p) \/ LeaseRunsOut(p),
         created' = created
  PROVE  MatchesHeard'
<1>1. DOMAIN th = Threads /\ DOMAIN proxies = Local
  BY DEF DiscoveryInv, ThreadsOK, PoolsOK
<1>2. created' = created /\ UNCHANGED match_vars
  BY DEF CompleteInit, CheckAndResetHeartbeats, CheckNext, Removal, RemoveFrom,
         RemoveUnmatchedEntities, RemoveRemoteParticipant, AddHeartbeat, LeaseRunsOut
<1>3. th'["app"] = th["app"] /\ th'["rx"] = th["rx"]
  <2>1. UNCHANGED th \/ \E pl : Go("spdp", pl)
    BY DEF CompleteInit, CheckAndResetHeartbeats, CheckNext, Removal, RemoveFrom,
           RemoveUnmatchedEntities, RemoveRemoteParticipant,
           AddHeartbeat, LeaseRunsOut
  <2> QED BY <1>1, <2>1, GoEffect DEF Threads
<1>4. \A e \in LocalUser : DOMAIN proxies[e] = {} => DOMAIN proxies'[e] = {}
  <2>1. UNCHANGED proxies \/ \E e, p : RemoveProxiesOf(e, p)
    BY DEF CompleteInit, CheckAndResetHeartbeats, CheckNext, Removal, RemoveFrom,
           RemoveUnmatchedEntities, RemoveRemoteParticipant,
           AddHeartbeat, LeaseRunsOut, participant_vars
  <2>2. CASE UNCHANGED proxies
    BY <2>2
  <2>3. CASE \E e, p : RemoveProxiesOf(e, p)
    <3>1. PICK e, p : RemoveProxiesOf(e, p)
      BY <2>3
    <3>2. proxies' = [proxies EXCEPT ![e] =
                        [g \in {h \in DOMAIN proxies[e] : Prefix(h) # p} |-> proxies[e][g]]]
      BY <3>1 DEF RemoveProxiesOf, BagToSet
    <3> QED BY <1>1, <3>2, LocalSets
  <2> QED BY <2>1, <2>2, <2>3
<1> QED BY <1>2, <1>3, <1>4, NothingToTell

LEMMA CreateHeard ==
  ASSUME DiscoveryInv, MatchesHeard, CreateNode \/ Create \/ LockSEDP \/ Announce
  PROVE  MatchesHeard'
<1>1. CASE CreateNode
  <2>1. /\ proxies' = [proxies EXCEPT
                         !["sedpPubWriter"] = SetToBag({<<ZeroPrefix, "pubReader">>}),
                         !["sedpSubWriter"] = SetToBag({<<ZeroPrefix, "subReader">>})]
        /\ UNCHANGED <<match_vars, th, created>>
    BY <1>1 DEF CreateNode, RegisterSedpBuiltinEndpoints
  <2>2. "sedpPubWriter" \notin LocalUser /\ "sedpSubWriter" \notin LocalUser
    <3>1. /\ BuiltInWriters[2] = "sedpPubWriter" /\ 2 \in DOMAIN BuiltInWriters
          /\ BuiltInWriters[3] = "sedpSubWriter" /\ 3 \in DOMAIN BuiltInWriters
      BY DEF BuiltInWriters
    <3> QED BY <3>1, EndpointAssumption DEF SeqRange, LocalUser, UserEndpoints
  <2>3. \A e \in LocalUser : proxies'[e] = proxies[e]
    BY <2>1, <2>2, LocalSets DEF DiscoveryInv, PoolsOK
  <2> QED BY <2>1, <2>3, NothingToTell
<1>2. CASE Create \/ LockSEDP \/ Announce
  <2>1. /\ th["app"].pc \notin SubscriberNews \cup PublisherNews
        /\ UNCHANGED <<match_vars, proxies, created>>
    BY <1>2 DEF Create, LockSEDP, Announce, At, SubscriberNews, PublisherNews, participant_vars
  <2>2. \E pl : Go("app", pl) /\ pl.pc # "count"
    <3>1. CASE Create
      <4>1. PICK pc \in {"lock", "halt"} :
              Go("app", Place(pc, Creations[created + 1], NoEndpoint, {}))
        BY <3>1 DEF Create
      <4>2. Place(pc, Creations[created + 1], NoEndpoint, {}).pc # "count"
        BY PlaceFields
      <4> QED BY <4>1, <4>2
    <3>2. CASE LockSEDP
      <4>1. Go("app", Place("tryReaders", th["app"].who, NoEndpoint, unmatchedReaders))
        BY <3>2 DEF LockSEDP
      <4>2. Place("tryReaders", th["app"].who, NoEndpoint, unmatchedReaders).pc # "count"
        BY PlaceFields
      <4> QED BY <4>1, <4>2
    <3>3. CASE Announce
      <4> DEFINE pl == Place("callback", th["app"].who, th["app"].e, th["app"].todo)
      <4>1. [th["app"] EXCEPT !.pc = "callback"] = pl
        BY AppPlaces, ChangedPlace
      <4>2. Go("app", pl)
        BY <3>3, <4>1 DEF Announce
      <4>3. pl.pc # "count"
        BY PlaceFields
      <4> HIDE DEF pl
      <4> QED BY <4>2, <4>3
    <3> QED BY <1>2, <3>1, <3>2, <3>3
  <2> QED BY <2>1, <2>2, GoesOn
<1> QED BY <1>1, <1>2

\* The callback is stored in two steps, then what is matched is counted.
LEMMA CallbackHeard ==
  ASSUME DiscoveryInv, MatchesHeard, StoreFunction \/ StoreArgument \/ CountMatched
  PROVE  MatchesHeard'
<1>0. PICK who : who = th["app"].who
  OBVIOUS
<1>1. DOMAIN th = Threads /\ UNCHANGED proxies
  BY DEF DiscoveryInv, ThreadsOK, StoreFunction, StoreArgument, CountMatched, participant_vars
<1>2. th["app"].pc \notin SubscriberNews \cup PublisherNews
  BY DEF StoreFunction, StoreArgument, CountMatched, At, SubscriberNews, PublisherNews
<1>3. PICK pl : Go("app", pl)
  BY DEF StoreFunction, StoreArgument, CountMatched
<1>4. th'["app"] = pl /\ th'["rx"] = th["rx"]
  BY <1>1, <1>3, GoEffect DEF Threads
<1>5. /\ Telling(SubscriberNews) => Telling(SubscriberNews)'
      /\ Telling(PublisherNews) => Telling(PublisherNews)'
  BY <1>2, <1>4 DEF Telling
<1>6. /\ subMatched => subMatched'
      /\ pubMatched => pubMatched'
      /\ onNewSubscriber = "set" => onNewSubscriber' = "set"
      /\ onNewPublisher = "set" => onNewPublisher' = "set"
  <2>1. CASE StoreFunction
    <3>1. UNCHANGED <<subMatched, pubMatched>>
      BY <2>1 DEF StoreFunction
    <3>2. /\ onNewSubscriber = "set" => onNewSubscriber' = "set"
          /\ onNewPublisher = "set" => onNewPublisher' = "set"
      BY <2>1 DEF StoreFunction, StoreCallback
    <3> QED BY <3>1, <3>2
  <2>2. CASE StoreArgument
    <3>1. UNCHANGED <<subMatched, pubMatched>>
      BY <2>2 DEF StoreArgument
    <3>2. /\ onNewSubscriber = "set" => onNewSubscriber' = "set"
          /\ onNewPublisher = "set" => onNewPublisher' = "set"
      BY <2>2 DEF StoreArgument
    <3> QED BY <3>1, <3>2
  <2>3. CASE CountMatched
    <3>1. /\ subMatched => subMatched'
          /\ pubMatched => pubMatched'
      BY <2>3 DEF CountMatched
    <3>2. UNCHANGED <<onNewSubscriber, onNewPublisher>>
      BY <2>3 DEF CountMatched
    <3> QED BY <3>1, <3>2
  <2> QED BY <2>1, <2>2, <2>3
<1>7. ASSUME NEW e \in LocalUser, HasCallback(e) PROVE HasCallback(e)'
  BY <1>6, <1>7 DEF HasCallback
<1>8. ASSUME NEW e \in LocalUser, Heard(e) PROVE Heard(e)'
  <2>1. Matched(e)' = Matched(e)
    BY <1>1 DEF Matched
  <2> QED BY <1>5, <1>6, <1>8, <2>1 DEF Heard
<1>9. CASE StoreFunction \/ StoreArgument
  <2>1. created' = created
    BY <1>9 DEF StoreFunction, StoreArgument
  <2>2. At("app", "count")' => HasCallback(th["app"].who)'
    <3>1. CASE StoreFunction
      <4>1. [th["app"] EXCEPT !.pc = "argument"] = Place("argument", who, th["app"].e, th["app"].todo)
        BY <1>0, AppPlaces, ChangedPlace
      <4>2. th'["app"] = Place("argument", who, th["app"].e, th["app"].todo)
        BY <1>1, <3>1, <4>1, GoEffect DEF StoreFunction, Threads
      <4> QED BY <4>2, PlaceFields DEF At
    <3>2. CASE StoreArgument
      <4>1. [th["app"] EXCEPT !.pc = "count"] = Place("count", who, th["app"].e, th["app"].todo)
        BY <1>0, AppPlaces, ChangedPlace
      <4>2. th'["app"] = Place("count", who, th["app"].e, th["app"].todo)
        BY <1>1, <3>2, <4>1, GoEffect DEF StoreArgument, Threads
      <4>3. th'["app"].who = who
        BY <4>2, PlaceFields
      <4> QED BY <1>0, <3>2, <4>3 DEF StoreArgument, HasCallback
    <3> QED BY <1>9, <3>1, <3>2
  <2> QED BY <1>7, <1>8, <2>1, <2>2, CreatedUsers DEF MatchesHeard
<1>10. CASE CountMatched
  <2>1. /\ At("app", "count") /\ created' = created + 1 /\ Go("app", Idle)
        /\ subMatched' = (subMatched \/ (NumMatched(who) > 0 /\ who \in LocalWriters))
        /\ pubMatched' = (pubMatched \/ (NumMatched(who) > 0 /\ who \in LocalReaders))
    BY <1>0, <1>10 DEF CountMatched
  <2>2. created \in Nat /\ created < Len(Creations) /\ who = Creations[created + 1]
    BY <1>0, <2>1, AppPlaces, CreationsAssumption DEF AppPlace, At, DiscoveryInv
  <2>3. who \in LocalUser
    <3>1. Creations \in Seq(LocalUser)
      BY CreationsAssumption DEF LocalUser
    <3> QED BY <2>2, <3>1
  <2>4. HasCallback(who)' /\ Heard(who)'
    <3>1. HasCallback(who)'
      BY <1>0, <1>7, <2>1, <2>3 DEF MatchesHeard
    <3>2. Matched(who) => NumMatched(who) > 0
      <4>1. PoolOK(proxies[who])
        BY <2>3, LocalSets DEF DiscoveryInv, PoolsOK, PoolAt
      <4>2. NumMatched(who) \in Nat /\ (NumMatched(who) = 0 <=> DOMAIN proxies[who] = {})
        BY <4>1, SizeOfPool DEF NumMatched
      <4> QED BY <4>2 DEF Matched
    <3>3. Matched(who) => IF who \in LocalWriters THEN subMatched' ELSE pubMatched'
      BY <2>1, <2>3, <3>2 DEF LocalUser
    <3>4. DOMAIN proxies'[who] # {} => Matched(who)
      BY <1>1 DEF Matched
    <3>5. Heard(who)'
      <4>1. CASE who \in LocalWriters
        BY <3>3, <3>4, <4>1 DEF Heard, Matched
      <4>2. CASE who \notin LocalWriters
        BY <3>3, <3>4, <4>2 DEF Heard, Matched
      <4> QED BY <4>1, <4>2
    <3> QED BY <3>1, <3>5
  <2>5. ~ At("app", "count")'
    <3>1. th'["app"] = Idle
      BY <1>1, <2>1, GoEffect DEF Threads
    <3> QED BY <3>1, PlaceFields DEF At, Idle
  <2>6. ASSUME NEW i \in 1 .. created' PROVE HasCallback(Creations[i])' /\ Heard(Creations[i])'
    <3>1. CASE i = created + 1
      BY <2>2, <2>4, <3>1
    <3>2. CASE i \in 1 .. created
      BY <1>7, <1>8, <3>2, CreatedUsers DEF MatchesHeard
    <3>3. i = created + 1 \/ i \in 1 .. created
      BY <2>1, <2>2
    <3> QED BY <3>1, <3>2, <3>3
  <2> QED BY <2>5, <2>6 DEF MatchesHeard
<1> QED BY <1>9, <1>10

LEMMA NextKeepsHeard ==
  ASSUME DiscoveryInv, MatchesHeard, Next
  PROVE  MatchesHeard'
<1>1. CASE CompleteInit
  BY <1>1, OthersHeard DEF CompleteInit
<1>2. CASE App
  BY <1>2, CreateHeard, CallbackHeard, TryHeard DEF App
<1>3. CASE Arrival
  BY <1>3, SpdpPackageHeard, OthersHeard DEF Arrival
<1>4. CASE Handle
  BY <1>4, AnnouncementHeard, TryHeard, SpdpPackageHeard DEF Handle
<1>5. CASE Check
  BY <1>5, OthersHeard DEF Check
<1>6. CASE Remove
  BY <1>6, OthersHeard DEF Remove
<1>7. CASE Time
  BY <1>7, OthersHeard DEF Time
<1> QED BY <1>1, <1>2, <1>3, <1>4, <1>5, <1>6, <1>7 DEF Next

LEMMA StutterKeepsHeard == DiscoveryInv /\ MatchesHeard /\ UNCHANGED vars => MatchesHeard'
<1> SUFFICES ASSUME DiscoveryInv, MatchesHeard, UNCHANGED vars PROVE MatchesHeard'
  OBVIOUS
<1>1. UNCHANGED <<match_vars, proxies, th, created>>
  BY DEF vars, participant_vars
<1> QED BY <1>1, NothingToTell

LEMMA HeardGivesNoneMissed == DiscoveryInv /\ MatchesHeard => NoMatchMissed
<1> SUFFICES ASSUME DiscoveryInv, MatchesHeard, At("app", "idle"), At("rx", "idle"),
                    NEW i \in 1 .. created, NumMatched(Creations[i]) > 0
             PROVE  IF Creations[i] \in LocalWriters THEN subMatched ELSE pubMatched
  BY DEF NoMatchMissed
<1>1. PICK e \in LocalUser : e = Creations[i]
  BY CreatedUsers
<1>2. Matched(e)
  <2>1. PoolOK(proxies[e])
    BY LocalSets DEF DiscoveryInv, PoolsOK, PoolAt
  <2>2. NumMatched(e) \in Nat /\ (NumMatched(e) = 0 <=> DOMAIN proxies[e] = {})
    BY <2>1, SizeOfPool DEF NumMatched
  <2>3. NumMatched(e) > 0
    BY <1>1
  <2> QED BY <2>2, <2>3 DEF Matched
<1>3. Heard(e)
  BY <1>1 DEF MatchesHeard
<1>4. ~ Telling(SubscriberNews) /\ ~ Telling(PublisherNews)
  BY DEF Telling, At, SubscriberNews, PublisherNews
<1> QED BY <1>1, <1>2, <1>3, <1>4 DEF Heard

(* Whenever the reader thread matches an endpoint in the course of its     *)
(* creation, before the callback, between its two stores or after them, the *)
(* application learns of it at the latest from the count that ends the      *)
(* creation (create_publisher, create_subscription, the callbacks of        *)
(* SEDPAgent).                                                             *)
THEOREM EveryMatchIsHeard == Spec => []NoMatchMissed
<1>1. Init => MatchesHeard
  BY PlaceFields DEF Init, SEDPInit, MatchesHeard, At, Idle, Threads
<1>2. DiscoveryInv /\ MatchesHeard /\ [Next]_vars => MatchesHeard'
  BY NextKeepsHeard, StutterKeepsHeard
<1> QED BY <1>1, <1>2, DiscoveryCorrect, HeardGivesNoneMissed, PTL DEF Spec

-----------------------------------------------------------------------------
(* Nobody waits who was never tried.  The inductive invariant: for every   *)
(* endpoint put aside that has a partner by now, some thread is still to   *)
(* try it, or its participant is being removed.                            *)

KeepingPcs == {"findPublisher", "keepPublisher", "matchPublisher", "tellPublisher",
               "findSubscriber", "keepSubscriber", "matchSubscriber", "tellSubscriber"}

\* Who handles an announcement or creates an endpoint has the lock while the
\* lists are at stake, and whoever is kept untried is of no known participant.
ListsLocked ==
  /\ th["rx"].pc \in KeepingPcs => sedp = "rx"
  /\ th["app"].pc \in TryPcs => sedp = "app"
  /\ th["rx"].pc \in {"keepPublisher", "keepSubscriber"} => Prefix(th["rx"].who) \notin remotes

AtReaders == {"tryReaders", "addReader", "toldReader"}

AtWriters == {"tryWriters", "addWriter", "toldWriter"}

\* A thread at this place will come to try the endpoint.
WillTry(pl, guid) ==
  \/ pl.pc \in {"lock", "builtin"}
  \/ guid \in RemoteReaders /\ pl.pc \in AtReaders /\ guid \in pl.todo
  \/ guid \in RemoteWriters /\ pl.pc \in AtReaders
  \/ guid \in RemoteWriters /\ pl.pc \in AtWriters /\ guid \in pl.todo
  \/ pl.pc \in {"addReader", "addWriter"} /\ \E e \in Partners(guid) : pl.e = <<e, guid>>

Removing(p) == th["spdp"].pc \in RemovalPcs /\ th["spdp"].who = p

Tried(guid) == \E e \in Partners(guid) : Knows(e, guid) \/ <<e, guid>> \in turnedAway

SeenTo(guid) ==
  Prefix(guid) \in remotes /\ Partners(guid) # {} =>
    \/ Tried(guid)
    \/ WillTry(th["app"], guid) \/ WillTry(th["rx"], guid)
    \/ Removing(Prefix(guid))

Unmatched == unmatchedReaders \cup unmatchedWriters

EveryoneSeenTo == \A guid \in Unmatched : SeenTo(guid)

-----------------------------------------------------------------------------
(* The lock.                                                               *)

LEMMA ThreadChanged ==
  ASSUME DiscoveryInv, NEW t \in Threads
  PROVE  /\ \A pc : [th[t] EXCEPT !.pc = pc] = Place(pc, th[t].who, th[t].e, th[t].todo)
         /\ \A todo : [th[t] EXCEPT !.todo = todo] = Place(th[t].pc, th[t].who, th[t].e, todo)
<1>1. IsPlace(th[t])
  BY RxPlaces, AppPlaces, SpdpPlaces DEF Threads
<1>2. ASSUME NEW x PROVE [th[t] EXCEPT !.pc = x] = Place(x, th[t].who, th[t].e, th[t].todo)
  BY <1>1, ChangedPlace
<1>3. ASSUME NEW x
      PROVE  [th[t] EXCEPT !.todo = x] = Place(th[t].pc, th[t].who, th[t].e, x)
  BY <1>1, ChangedPlace
<1> QED BY <1>2, <1>3

LEMMA RxLocks ==
  ASSUME DiscoveryInv, ListsLocked, NEW pl, Go("rx", pl),
         pl.pc \in KeepingPcs => sedp' = "rx",
         th["app"].pc \in TryPcs => sedp' = "app",
         pl.pc \in {"keepPublisher", "keepSubscriber"} => Prefix(pl.who) \notin remotes'
  PROVE  ListsLocked'
<1>1. th'["rx"] = pl /\ th'["app"] = th["app"]
  BY GoEffect DEF DiscoveryInv, ThreadsOK, Threads
<1> QED BY <1>1 DEF ListsLocked, Prefix

LEMMA AppLocks ==
  ASSUME DiscoveryInv, ListsLocked, NEW pl, Go("app", pl), remotes' = remotes,
         pl.pc \in TryPcs => sedp' = "app",
         th["rx"].pc \in KeepingPcs => sedp' = "rx"
  PROVE  ListsLocked'
<1>1. th'["app"] = pl /\ th'["rx"] = th["rx"]
  BY GoEffect DEF DiscoveryInv, ThreadsOK, Threads
<1> QED BY <1>1 DEF ListsLocked, Prefix

\* A step of the SPDP thread, or of none.
LEMMA OthersLock ==
  ASSUME DiscoveryInv, ListsLocked, UNCHANGED sedp, remotes' \subseteq remotes,
         UNCHANGED th \/ \E pl : Go("spdp", pl)
  PROVE  ListsLocked'
<1>1. th'["app"] = th["app"] /\ th'["rx"] = th["rx"]
  BY GoEffect DEF DiscoveryInv, ThreadsOK, Threads
<1> QED BY <1>1 DEF ListsLocked, Prefix

LEMMA TryLocks ==
  ASSUME DiscoveryInv, ListsLocked, NEW t \in {"app", "rx"}, TryMatch(t)
  PROVE  ListsLocked'
<1>1. th[t].pc \in TryPcs /\ \E pl : Go(t, pl) /\ pl.pc \in TryPcs
  BY TryKeeps
<1>2. UNCHANGED <<sedp, remotes>>
  BY DEF TryMatch, TryReaders, TryAddReader, TryTellSubscriber, TryWriters, TryAddWriter,
         TryTellPublisher, participant_vars
<1>3. TryPcs \cap KeepingPcs = {}
  BY DEF TryPcs, KeepingPcs
<1>4. PICK pl : Go(t, pl) /\ pl.pc \in TryPcs
  BY <1>1
<1>5. CASE t = "rx"
  <2>1. pl.pc \notin {"keepPublisher", "keepSubscriber"}
    BY <1>4 DEF TryPcs
  <2> QED BY <1>2, <1>3, <1>4, <1>5, <2>1, RxLocks DEF ListsLocked
<1>6. CASE t = "app"
  BY <1>1, <1>2, <1>4, <1>6, AppLocks DEF ListsLocked
<1> QED BY <1>5, <1>6

LEMMA AnnouncementLocks ==
  ASSUME DiscoveryInv, ListsLocked, OnAnnouncement
  PROVE  ListsLocked'
<1> USE PlaceFields
<1> DEFINE guid == th["rx"].who
<1>1. Idle.pc = "idle" /\ "idle" \notin KeepingPcs
  BY DEF Idle, KeepingPcs
<1>2. CASE OnNewPublisherLock \/ OnNewSubscriberLock
  <2>1. sedp = Free /\ th["app"].pc \notin TryPcs
    BY <1>2 DEF OnNewPublisherLock, OnNewSubscriberLock, ListsLocked, Free
  <2>2. \/ Go("rx", Idle)
        \/ /\ sedp' = "rx"
           /\ \E pc \in {"findPublisher", "findSubscriber"} :
                Go("rx", Place(pc, guid, NoEndpoint, {}))
    BY <1>2 DEF OnNewPublisherLock, OnNewSubscriberLock
  <2> QED BY <1>1, <2>1, <2>2, RxLocks
<1>3. CASE OnNewPublisherFind \/ OnNewSubscriberFind
  <2>1. sedp = "rx"
    BY <1>3 DEF OnNewPublisherFind, OnNewSubscriberFind, At, ListsLocked, KeepingPcs
  <2>2. UNCHANGED <<sedp, remotes>>
    BY <1>3 DEF OnNewPublisherFind, OnNewSubscriberFind, participant_vars
  <2>3. \E pc : /\ Go("rx", Place(pc, guid, NoEndpoint, {}))
                /\ pc \in {"keepPublisher", "keepSubscriber"} => Prefix(guid) \notin remotes
    <3>1. CASE OnNewPublisherFind
      BY <3>1 DEF OnNewPublisherFind
    <3>2. CASE OnNewSubscriberFind
      BY <3>2 DEF OnNewSubscriberFind
    <3> QED BY <1>3, <3>1, <3>2
  <2>4. PICK pc : /\ Go("rx", Place(pc, guid, NoEndpoint, {}))
                  /\ pc \in {"keepPublisher", "keepSubscriber"} => Prefix(guid) \notin remotes
    BY <2>3
  <2>5. th["app"].pc \notin TryPcs
    BY <2>1 DEF ListsLocked
  <2> QED BY <2>1, <2>2, <2>4, <2>5, RxLocks
<1>4. CASE ~ (OnNewPublisherLock \/ OnNewSubscriberLock \/ OnNewPublisherFind
              \/ OnNewSubscriberFind)
  <2>1. th["rx"].pc \in KeepingPcs
    BY <1>4 DEF OnAnnouncement, KeepPublisher, MatchPublisher, OnNewPublisherTell,
                KeepSubscriber, MatchSubscriber, OnNewSubscriberTell, At, KeepingPcs
  <2>2. sedp = "rx" /\ th["app"].pc \notin TryPcs
    BY <2>1 DEF ListsLocked
  <2>3. \/ Go("rx", Idle)
        \/ /\ UNCHANGED sedp
           /\ \E pc \in {"tellPublisher", "tellSubscriber"} : \E e :
                Go("rx", Place(pc, guid, e, {}))
    BY <1>4 DEF OnAnnouncement, KeepPublisher, MatchPublisher, OnNewPublisherTell,
                KeepSubscriber, MatchSubscriber, OnNewSubscriberTell
  <2> QED BY <1>1, <2>2, <2>3, RxLocks
<1> QED BY <1>2, <1>3, <1>4

LEMMA PackageLocks ==
  ASSUME DiscoveryInv, ListsLocked,
         \/ ProcessProxyData \/ RefreshRemoteParticipantLiveliness \/ AddNewRemoteParticipant
         \/ AddProxiesForBuiltInEndpoints \/ EndProcessProxyData
         \/ \E p \in Participants : \/ HandleSPDPPackage(p)
                                    \/ \E sn : ReceivePublication(p, sn)
                                    \/ \E sn : ReceiveSubscription(p, sn)
  PROVE  ListsLocked'
<1> USE PlaceFields
<1>1. UNCHANGED sedp
  BY DEF ProcessProxyData, RefreshRemoteParticipantLiveliness, AddNewRemoteParticipant,
         AddProxiesForBuiltInEndpoints, EndProcessProxyData, HandleSPDPPackage,
         ReceivePublication, ReceiveSubscription, ReceiveEndpoint
<1>2. \E pl : Go("rx", pl) /\ pl.pc \notin KeepingPcs
  <2> USE DEF KeepingPcs
  <2>1. CASE ProcessProxyData
    <3>1. PICK pc \in {"refresh", "add"} : Go("rx", [th["rx"] EXCEPT !.pc = pc])
      BY <2>1 DEF ProcessProxyData
    <3>2. [th["rx"] EXCEPT !.pc = pc] = Place(pc, th["rx"].who, th["rx"].e, th["rx"].todo)
      BY ThreadChanged DEF Threads
    <3>3. Go("rx", Place(pc, th["rx"].who, th["rx"].e, th["rx"].todo))
      BY <3>1, <3>2
    <3> QED BY <3>3
  <2>2. CASE RefreshRemoteParticipantLiveliness
    <3>1. Idle.pc = "idle"
      BY DEF Idle
    <3>2. Go("rx", Idle) \/ Go("rx", Place("fault", th["rx"].who, NoEndpoint, {}))
      BY <2>2 DEF RefreshRemoteParticipantLiveliness
    <3> QED BY <3>1, <3>2
  <2>3. CASE AddNewRemoteParticipant
    <3>1. \E pc \in {"builtin", "spin"} : \E todo : Go("rx", Place(pc, th["rx"].who, NoEndpoint, todo))
      BY <2>3 DEF AddNewRemoteParticipant
    <3> QED BY <3>1
  <2>4. CASE AddProxiesForBuiltInEndpoints
    <3>1. /\ At("rx", "builtin")
          /\ \/ Go("rx", Place("tryReaders", th["rx"].who, NoEndpoint, unmatchedReaders))
             \/ Go("rx", [th["rx"] EXCEPT !.todo = Tail(th["rx"].todo)])
      BY <2>4 DEF AddProxiesForBuiltInEndpoints
    <3> DEFINE rest == Tail(th["rx"].todo)
    <3>2. [th["rx"] EXCEPT !.todo = rest] = Place(th["rx"].pc, th["rx"].who, th["rx"].e, rest)
      BY ThreadChanged DEF Threads
    <3> HIDE DEF rest
    <3>3. \/ Go("rx", Place("tryReaders", th["rx"].who, NoEndpoint, unmatchedReaders))
          \/ Go("rx", Place("builtin", th["rx"].who, th["rx"].e, rest))
      BY <3>1, <3>2 DEF At, rest
    <3> QED BY <3>3
  <2>5. CASE EndProcessProxyData
    <3>1. Idle.pc = "idle"
      BY DEF Idle
    <3> QED BY <2>5, <3>1 DEF EndProcessProxyData
  <2>6. CASE \E p \in Participants : HandleSPDPPackage(p)
    <3>1. \E p, todo : Go("rx", Place("process", p, NoEndpoint, todo))
      BY <2>6 DEF HandleSPDPPackage
    <3> QED BY <3>1
  <2>7. CASE \E p \in Participants : \E sn : ReceivePublication(p, sn) \/ ReceiveSubscription(p, sn)
    <3>1. \E pc \in {"lockPublisher", "lockSubscriber"} : \E who : Go("rx", Place(pc, who, NoEndpoint, {}))
      BY <2>7 DEF ReceivePublication, ReceiveSubscription, ReceiveEndpoint
    <3> QED BY <3>1
  <2> QED BY <2>1, <2>2, <2>3, <2>4, <2>5, <2>6, <2>7
<1>3. PICK pl : Go("rx", pl) /\ pl.pc \notin KeepingPcs
  BY <1>2
<1>4. pl.pc \notin {"keepPublisher", "keepSubscriber"}
  BY <1>3 DEF KeepingPcs
<1> QED BY <1>1, <1>3, <1>4, RxLocks DEF ListsLocked

LEMMA CreatingLocks ==
  ASSUME DiscoveryInv, ListsLocked,
         \/ CreateNode \/ Create \/ LockSEDP \/ Announce
         \/ StoreFunction \/ StoreArgument \/ CountMatched
  PROVE  ListsLocked'
<1> USE PlaceFields
<1>1. UNCHANGED remotes
  BY DEF CreateNode, Create, LockSEDP, Announce, StoreFunction, StoreArgument, CountMatched,
         participant_vars
<1>2. CASE CreateNode
  BY <1>1, <1>2, OthersLock DEF CreateNode
<1>3. CASE LockSEDP
  <2>1. /\ sedp = Free /\ sedp' = "app"
        /\ Go("app", Place("tryReaders", th["app"].who, NoEndpoint, unmatchedReaders))
    BY <1>3 DEF LockSEDP
  <2>2. th["rx"].pc \notin KeepingPcs
    BY <2>1 DEF ListsLocked, Free
  <2> QED BY <1>1, <2>1, <2>2, AppLocks
<1>4. ASSUME NEW pc, pc \notin TryPcs, NEW who, NEW e, NEW todo,
             Go("app", Place(pc, who, e, todo)),
             th["rx"].pc \in KeepingPcs => sedp' = "rx"
      PROVE  ListsLocked'
  BY <1>1, <1>4, AppLocks
<1>5. CASE Create
  <2>1. UNCHANGED sedp /\ \E pc \in {"lock", "halt"} : \E who : Go("app", Place(pc, who, NoEndpoint, {}))
    BY <1>5 DEF Create
  <2> QED BY <1>4, <2>1 DEF ListsLocked, TryPcs
<1>6. CASE Announce
  <2>1. th["app"].pc = "tried" /\ Go("app", [th["app"] EXCEPT !.pc = "callback"])
    BY <1>6 DEF Announce, At
  <2>2. Go("app", Place("callback", th["app"].who, th["app"].e, th["app"].todo))
    <3>1. [th["app"] EXCEPT !.pc = "callback"]
            = Place("callback", th["app"].who, th["app"].e, th["app"].todo)
      BY ThreadChanged DEF Threads
    <3> QED BY <2>1, <3>1
  <2>3. th["rx"].pc \notin KeepingPcs
    BY <2>1 DEF ListsLocked, TryPcs
  <2> QED BY <1>4, <2>2, <2>3 DEF TryPcs
<1>7. CASE StoreFunction \/ StoreArgument
  <2>1. UNCHANGED sedp /\ \E pc \in {"argument", "count"} : Go("app", [th["app"] EXCEPT !.pc = pc])
    BY <1>7 DEF StoreFunction, StoreArgument
  <2>2. \E pc \in {"argument", "count"} : Go("app", Place(pc, th["app"].who, th["app"].e, th["app"].todo))
    <3>1. \A pc : [th["app"] EXCEPT !.pc = pc]
                   = Place(pc, th["app"].who, th["app"].e, th["app"].todo)
      BY ThreadChanged DEF Threads
    <3> QED BY <2>1, <3>1
  <2> QED BY <1>4, <2>1, <2>2 DEF ListsLocked, TryPcs
<1>8. CASE CountMatched
  <2>1. UNCHANGED sedp /\ Go("app", Place("idle", NoEndpoint, NoEndpoint, {}))
    BY <1>8 DEF CountMatched, Idle
  <2> QED BY <1>4, <2>1 DEF ListsLocked, TryPcs
<1> QED BY <1>2, <1>3, <1>5, <1>6, <1>7, <1>8

LEMMA NextKeepsLocks ==
  ASSUME DiscoveryInv, ListsLocked, [Next]_vars
  PROVE  ListsLocked'
<1>1. CASE CompleteInit
  BY <1>1, OthersLock DEF CompleteInit, participant_vars
<1>2. CASE App
  BY <1>2, CreatingLocks, TryLocks DEF App
<1>3. CASE Arrival
  <2>1. CASE \E p \in Participants : AddHeartbeat(p)
    BY <2>1, OthersLock DEF AddHeartbeat
  <2> QED BY <1>3, <2>1, PackageLocks DEF Arrival
<1>4. CASE Handle
  BY <1>4, AnnouncementLocks, TryLocks, PackageLocks DEF Handle
<1>5. CASE Check
  BY <1>5, OthersLock DEF Check, CheckAndResetHeartbeats, participant_vars
<1>6. CASE Remove
  <2>1. UNCHANGED sedp /\ remotes' \subseteq remotes /\ \E pl : Go("spdp", pl)
    BY <1>6 DEF Remove, CheckNext, Removal, RemoveFrom,
                RemoveUnmatchedEntities, RemoveRemoteParticipant, participant_vars
  <2> QED BY <2>1, OthersLock
<1>7. CASE Time
  BY <1>7, OthersLock DEF Time, LeaseRunsOut
<1>8. CASE UNCHANGED vars
  BY <1>8, OthersLock DEF vars, participant_vars
<1> QED BY <1>1, <1>2, <1>3, <1>4, <1>5, <1>6, <1>7, <1>8 DEF Next
-----------------------------------------------------------------------------
(* Partners, and who knows whom.                                           *)

LEMMA PartnersAreUsers ==
  ASSUME EndpointsOK, NEW guid \in UserGuids
  PROVE  Partners(guid) \subseteq LocalUser
<1>1. SeqRange(writers) \subseteq Local /\ SeqRange(readers) \subseteq Local
  BY LocalSets DEF EndpointsOK, SeqRange
<1>2. Partners(guid) \subseteq Local \cap UserEndpoints
  BY <1>1 DEF Partners, SameTopic
<1> QED BY <1>2, LocalSets

\* A search by topic or by its hash finds a partner when there is one.
LEMMA PartnerWriter ==
  ASSUME EndpointsOK, NEW guid \in RemoteReaders, NEW w,
         w = GetMatchingWriter(guid) \/ w = GetMatchingWriterByHash(guid)
  PROVE  IF w = NoEndpoint THEN Partners(guid) = {} ELSE w \in Partners(guid)
<1> DEFINE byTopic == {e \in SeqRange(writers) : SameTopic(e, guid) /\ WriterSuits(e, guid)}
           byHash == {e \in SeqRange(writers) : SameHash(e, guid) /\ WriterSuits(e, guid)}
<1>1. writers \in Seq(WriterSet) /\ guid \in UserGuids /\ guid \in UserEndpoints
  BY DEF EndpointsOK, UserGuids, UserEndpoints
<1>2. Partners(guid) = byTopic
  BY DEF Partners
<1>3. byHash = byTopic
  <2>1. \A e : SameHash(e, guid) <=> SameTopic(e, guid)
    BY <1>1, ParticipantAssumption DEF SameHash, SameTopic
  <2> QED BY <2>1
<1>4. NoEndpoint \notin byTopic
  BY ParticipantAssumption DEF SameTopic
<1>5. byTopic = {} => w = NoEndpoint
  BY <1>1, <1>3, MatchingWriter, MatchingWriterByHash
<1>6. byTopic # {} => w \in byTopic
  BY <1>1, <1>3, MatchingWriter, MatchingWriterByHash
<1> HIDE DEF byTopic, byHash
<1> QED BY <1>2, <1>4, <1>5, <1>6

LEMMA PartnerReader ==
  ASSUME EndpointsOK, NEW guid \in RemoteWriters, NEW r,
         r = GetMatchingReader(guid) \/ r = GetMatchingReaderByHash(guid)
  PROVE  IF r = NoEndpoint THEN Partners(guid) = {} ELSE r \in Partners(guid)
<1> DEFINE byTopic == {e \in SeqRange(readers) : SameTopic(e, guid) /\ ReaderSuits(e, guid)}
           byHash == {e \in SeqRange(readers) : SameHash(e, guid) /\ ReaderSuits(e, guid)}
<1>1. readers \in Seq(ReaderSet) /\ guid \in UserGuids /\ guid \in UserEndpoints
  BY DEF EndpointsOK, UserGuids, UserEndpoints
<1>2. Partners(guid) = byTopic
  BY EndpointAssumption DEF Partners
<1>3. byHash = byTopic
  <2>1. \A e : SameHash(e, guid) <=> SameTopic(e, guid)
    BY <1>1, ParticipantAssumption DEF SameHash, SameTopic
  <2> QED BY <2>1
<1>4. NoEndpoint \notin byTopic
  BY ParticipantAssumption DEF SameTopic
<1>5. byTopic = {} => r = NoEndpoint
  BY <1>1, <1>3, MatchingReader, MatchingReaderByHash
<1>6. byTopic # {} => r \in byTopic
  BY <1>1, <1>3, MatchingReader, MatchingReaderByHash
<1> HIDE DEF byTopic, byHash
<1> QED BY <1>2, <1>4, <1>5, <1>6

\* What a step leaves of what was tried before.
NobodyDropped ==
  /\ \A e \in LocalUser : \A guid : Knows(e, guid) => Knows(e, guid)'
  /\ turnedAway \subseteq turnedAway'

LEMMA KeptProxies == UNCHANGED <<proxies, turnedAway>> => NobodyDropped
  BY DEF NobodyDropped, Knows

\* Whoever is added to a pool is in it or was turned away, and nobody leaves it.
LEMMA AddedOrTurnedAway ==
  ASSUME PoolsOK, NEW e \in Local, NEW guid, AddProxy(e, guid)
  PROVE  /\ NobodyDropped
         /\ e \in LocalUser => Knows(e, guid)' \/ <<e, guid>> \in turnedAway'
<1> DEFINE pool == proxies[e]
           more == pool (+) SetToBag({guid})
<1>1. /\ PoolOK(pool) /\ BagCardinality(pool) \in Nat /\ ProxySlots \in Nat
      /\ DOMAIN proxies = Local
  BY SizeOfPool, ParticipantAssumption DEF PoolsOK, PoolAt
<1>2. DOMAIN more = DOMAIN pool \cup {guid}
  BY <1>1, AddToPool
<1>3. /\ proxies' = [proxies EXCEPT ![e] = WithProxy(pool, guid)]
      /\ turnedAway \subseteq turnedAway'
      /\ e \in UserEndpoints /\ BagCardinality(pool) >= ProxySlots => <<e, guid>> \in turnedAway'
  BY DEF AddProxy, NumMatched
<1>4. /\ DOMAIN pool \subseteq DOMAIN WithProxy(pool, guid)
      /\ BagCardinality(pool) < ProxySlots => guid \in DOMAIN WithProxy(pool, guid)
  <2> HIDE DEF more
  <2>1. WithProxy(pool, guid) = IF BagCardinality(pool) < ProxySlots THEN more ELSE pool
    BY DEF WithProxy, more
  <2> HIDE DEF pool
  <2> QED BY <1>2, <2>1
<1> DEFINE new == WithProxy(pool, guid)
<1>5. proxies'[e] = new /\ \A x \in Local \ {e} : proxies'[x] = proxies[x]
  <2> HIDE DEF new
  <2>1. proxies' = [proxies EXCEPT ![e] = new]
    BY <1>3 DEF new
  <2> QED BY <1>1, <2>1
<1>6. \A x \in Local : \A g : g \in DOMAIN proxies[x] => g \in DOMAIN proxies'[x]
  <2> HIDE DEF new
  <2> QED BY <1>4, <1>5 DEF new
<1>7. e \in LocalUser => guid \in DOMAIN proxies'[e] \/ <<e, guid>> \in turnedAway'
  <2>1. e \in LocalUser => e \in UserEndpoints
    BY LocalSets
  <2> HIDE DEF new, pool
  <2> QED BY <1>1, <1>3, <1>4, <1>5, <2>1 DEF new
<1> QED BY <1>3, <1>6, <1>7, LocalSets DEF NobodyDropped, Knows, BagIn, BagToSet

LEMMA StaysTried ==
  ASSUME EndpointsOK, NobodyDropped, UNCHANGED <<writers, readers>>,
         NEW guid \in UserGuids, Tried(guid)
  PROVE  Tried(guid)'
<1>1. PICK e \in Partners(guid) : Knows(e, guid) \/ <<e, guid>> \in turnedAway
  BY DEF Tried
<1>2. Partners(guid)' = Partners(guid) /\ e \in LocalUser
  BY PartnersAreUsers DEF Partners
<1>3. Knows(e, guid)' \/ <<e, guid>> \in turnedAway'
  BY <1>1, <1>2 DEF NobodyDropped
<1> QED BY <1>1, <1>2, <1>3 DEF Tried

\* A step of the application or the reader thread that tries what it has to,
\* or still will.
LEMMA ThreadGoesOn ==
  ASSUME DiscoveryInv, EveryoneSeenTo, NEW t \in {"app", "rx"}, NEW pl, Go(t, pl),
         UNCHANGED <<writers, readers, remotes>>, NobodyDropped,
         \A guid \in Unmatched' \ Unmatched : Prefix(guid) \notin remotes \/ Partners(guid) = {},
         \A guid \in Unmatched :
           WillTry(th[t], guid) /\ Partners(guid) # {} => WillTry(pl, guid) \/ Tried(guid)'
  PROVE  EveryoneSeenTo'
<1>1. DOMAIN th = Threads /\ t \in Threads /\ {"app", "rx", "spdp"} = Threads
  BY DEF DiscoveryInv, ThreadsOK, Threads
<1>2. th'[t] = pl /\ \A u \in Threads \ {t} : th'[u] = th[u]
  BY <1>1, GoEffect
<1>3. \A guid : Partners(guid)' = Partners(guid) /\ Prefix(guid)' = Prefix(guid)
  BY DEF Partners, Prefix
<1>4. \A p : Removing(p)' <=> Removing(p)
  BY <1>1, <1>2 DEF Removing
<1>5. SUFFICES ASSUME NEW guid \in Unmatched', Prefix(guid) \in remotes, Partners(guid) # {}
      PROVE  \/ Tried(guid)'
             \/ WillTry(th["app"], guid)' \/ WillTry(th["rx"], guid)'
             \/ Removing(Prefix(guid))
  BY <1>3, <1>4 DEF EveryoneSeenTo, SeenTo
<1>6. guid \in Unmatched
  BY <1>5
<1>7. guid \in UserGuids
  BY <1>6 DEF Unmatched, UserGuids, DiscoveryInv, SEDPTypeOK
<1>8. CASE Tried(guid)
  BY <1>7, <1>8, StaysTried DEF DiscoveryInv
<1>9. ASSUME NEW u \in {"app", "rx"}, WillTry(th[u], guid), u # t PROVE WillTry(th[u], guid)'
  <2>1. th'[u] = th[u] /\ Partners(guid)' = Partners(guid)
    BY <1>1, <1>2, <1>3, <1>9
  <2> QED BY <1>9, <2>1 DEF WillTry
<1>10. WillTry(pl, guid) => WillTry(th[t], guid)'
  <2>1. th'[t] = pl /\ Partners(guid)' = Partners(guid)
    BY <1>2, <1>3
  <2> QED BY <2>1 DEF WillTry
<1>11. \/ Tried(guid) \/ Removing(Prefix(guid))
       \/ \E u \in {"app", "rx"} : WillTry(th[u], guid)
  BY <1>5, <1>6 DEF EveryoneSeenTo, SeenTo
<1>12. ASSUME NEW u \in {"app", "rx"}, WillTry(th[u], guid)
       PROVE  Tried(guid)' \/ \E v \in {"app", "rx"} : WillTry(th[v], guid)'
  BY <1>5, <1>6, <1>9, <1>10, <1>12
<1> QED BY <1>8, <1>11, <1>12
\* The endpoints in question, and the two kinds of them.
LEMMA UnmatchedKinds ==
  ASSUME DiscoveryInv
  PROVE  /\ unmatchedReaders \subseteq RemoteReaders /\ unmatchedWriters \subseteq RemoteWriters
         /\ RemoteReaders \cap RemoteWriters = {}
         /\ \A guid \in Unmatched \cap RemoteReaders : guid \in unmatchedReaders
         /\ \A guid \in Unmatched \cap RemoteWriters : guid \in unmatchedWriters
BY EndpointAssumption DEF DiscoveryInv, SEDPTypeOK, Unmatched

LEMMA TrySeen ==
  ASSUME DiscoveryInv, EveryoneSeenTo, NEW t \in {"app", "rx"}, TryMatch(t)
  PROVE  EveryoneSeenTo'
<1> USE PlaceFields
<1> DEFINE who == th[t].who  todo == th[t].todo  e == th[t].e
<1>1. IsPlace(th[t]) /\ Trying(th[t]) /\ EndpointsOK /\ PoolsOK
  BY TryPlaces DEF DiscoveryInv
<1>2. /\ RemoteReaders \cap RemoteWriters = {}
      /\ \A guid \in Unmatched \cap RemoteWriters : guid \in unmatchedWriters
      /\ Unmatched \subseteq RemoteReaders \cup RemoteWriters
  BY UnmatchedKinds DEF Unmatched
<1>3. ASSUME NEW pl, Go(t, pl), UNCHANGED <<writers, readers, remotes, unmatched_vars>>,
             NobodyDropped,
             \A guid \in Unmatched :
               WillTry(th[t], guid) /\ Partners(guid) # {} => WillTry(pl, guid) \/ Tried(guid)'
      PROVE  EveryoneSeenTo'
  BY <1>3, ThreadGoesOn DEF Unmatched, unmatched_vars
<1>4. ASSUME NEW guid \in UserGuids, NobodyDropped, UNCHANGED <<writers, readers>>,
             NEW x \in Partners(guid), Knows(x, guid)
      PROVE  Tried(guid)'
  BY <1>1, <1>4, StaysTried DEF Tried
<1>5. CASE TryReaders(t)
  <2>1. /\ th[t].pc = "tryReaders" /\ todo \subseteq RemoteReaders
        /\ UNCHANGED <<writers, readers, remotes, unmatched_vars>> /\ NobodyDropped
    BY <1>1, <1>5, KeptProxies DEF TryReaders, At, Trying, participant_vars
  <2>2. CASE todo = {}
    <3>1. Go(t, Place("tryWriters", who, NoEndpoint, unmatchedWriters))
      BY <1>5, <2>2 DEF TryReaders
    <3> DEFINE pl == Place("tryWriters", who, NoEndpoint, unmatchedWriters)
    <3>2. \A guid \in Unmatched : WillTry(th[t], guid) => WillTry(pl, guid)
      BY <1>2, <2>1, <2>2 DEF WillTry, AtReaders, AtWriters
    <3> HIDE DEF pl
    <3> QED BY <1>3, <2>1, <3>1, <3>2 DEF pl
  <2>3. CASE todo # {}
    <3>1. PICK g \in todo :
            LET w    == GetMatchingWriterByHash(g)
                rest == todo \ {g}
            IN IF w = NoEndpoint \/ Knows(w, g)
               THEN Go(t, [th[t] EXCEPT !.todo = rest])
               ELSE Go(t, Place("addReader", who, <<w, g>>, rest))
      BY <1>5, <2>3 DEF TryReaders
    <3> DEFINE w == GetMatchingWriterByHash(g)
               rest == todo \ {g}
               pl1 == Place("tryReaders", who, e, rest)
               pl2 == Place("addReader", who, <<w, g>>, rest)
    <3>2. g \in RemoteReaders /\ g \in UserGuids
      BY <2>1, <3>1 DEF UserGuids
    <3>3. IF w = NoEndpoint THEN Partners(g) = {} ELSE w \in Partners(g)
      BY <1>1, <3>2, PartnerWriter
    <3>4. [th[t] EXCEPT !.todo = rest] = pl1
      <4>1. [th[t] EXCEPT !.todo = rest] = Place(th[t].pc, who, e, rest)
        BY <1>1, ChangedPlace
      <4> QED BY <2>1, <4>1
    <3>5. /\ \A guid \in Unmatched : WillTry(th[t], guid) => guid = g \/ WillTry(pl1, guid)
          /\ \A guid \in Unmatched : WillTry(th[t], guid) => guid = g \/ WillTry(pl2, guid)
      BY <1>2, <2>1 DEF WillTry, AtReaders, AtWriters
    <3>6. w \in Partners(g) => WillTry(pl2, g)
      BY DEF WillTry
    <3> HIDE DEF pl1, pl2
    <3>7. CASE w = NoEndpoint \/ Knows(w, g)
      <4>1. Go(t, pl1)
        BY <3>1, <3>4, <3>7
      <4>2. Partners(g) # {} => Tried(g)'
        BY <1>4, <2>1, <3>2, <3>3, <3>7
      <4> HIDE DEF w, rest, todo, e, who
      <4> QED BY <1>3, <2>1, <3>5, <4>1, <4>2
    <3>8. CASE ~ (w = NoEndpoint \/ Knows(w, g))
      <4>1. Go(t, pl2)
        BY <3>1, <3>8 DEF pl2
      <4> HIDE DEF w, rest, todo, e, who
      <4> QED BY <1>3, <2>1, <3>3, <3>5, <3>6, <3>8, <4>1
    <3> QED BY <3>7, <3>8
  <2> QED BY <2>2, <2>3
<1>6. CASE TryWriters(t)
  <2>1. /\ th[t].pc = "tryWriters" /\ todo \subseteq RemoteWriters
        /\ UNCHANGED <<writers, readers, remotes, unmatched_vars>> /\ NobodyDropped
    BY <1>1, <1>6, KeptProxies DEF TryWriters, At, Trying, participant_vars
  <2>2. CASE todo = {}
    <3>1. Go(t, [th[t] EXCEPT !.pc = "tried"])
      BY <1>6, <2>2 DEF TryWriters
    <3>2. Go(t, Place("tried", who, e, todo))
      BY <1>1, <3>1, ChangedPlace
    <3>3. \A guid : ~ WillTry(th[t], guid)
      BY <2>1, <2>2 DEF WillTry, AtReaders, AtWriters
    <3> QED BY <1>3, <2>1, <3>2, <3>3
  <2>3. CASE todo # {}
    <3>1. PICK g \in todo :
            LET r    == GetMatchingReaderByHash(g)
                rest == todo \ {g}
            IN IF r = NoEndpoint \/ Knows(r, g)
               THEN Go(t, [th[t] EXCEPT !.todo = rest])
               ELSE Go(t, Place("addWriter", who, <<r, g>>, rest))
      BY <1>6, <2>3 DEF TryWriters
    <3> DEFINE r == GetMatchingReaderByHash(g)
               rest == todo \ {g}
               pl1 == Place("tryWriters", who, e, rest)
               pl2 == Place("addWriter", who, <<r, g>>, rest)
    <3>2. g \in RemoteWriters /\ g \in UserGuids
      BY <2>1, <3>1 DEF UserGuids
    <3>3. IF r = NoEndpoint THEN Partners(g) = {} ELSE r \in Partners(g)
      BY <1>1, <3>2, PartnerReader
    <3>4. [th[t] EXCEPT !.todo = rest] = pl1
      <4>1. [th[t] EXCEPT !.todo = rest] = Place(th[t].pc, who, e, rest)
        BY <1>1, ChangedPlace
      <4> QED BY <2>1, <4>1
    <3>5. /\ \A guid \in Unmatched : WillTry(th[t], guid) => guid = g \/ WillTry(pl1, guid)
          /\ \A guid \in Unmatched : WillTry(th[t], guid) => guid = g \/ WillTry(pl2, guid)
      BY <2>1 DEF WillTry, AtReaders, AtWriters
    <3>6. r \in Partners(g) => WillTry(pl2, g)
      BY DEF WillTry
    <3> HIDE DEF pl1, pl2
    <3>7. CASE r = NoEndpoint \/ Knows(r, g)
      <4>1. Go(t, pl1)
        BY <3>1, <3>4, <3>7
      <4>2. Partners(g) # {} => Tried(g)'
        BY <1>4, <2>1, <3>2, <3>3, <3>7
      <4> HIDE DEF r, rest, todo, e, who
      <4> QED BY <1>3, <2>1, <3>5, <4>1, <4>2
    <3>8. CASE ~ (r = NoEndpoint \/ Knows(r, g))
      <4>1. Go(t, pl2)
        BY <3>1, <3>8 DEF pl2
      <4> HIDE DEF r, rest, todo, e, who
      <4> QED BY <1>3, <2>1, <3>3, <3>5, <3>6, <3>8, <4>1
    <3> QED BY <3>7, <3>8
  <2> QED BY <2>2, <2>3
<1>7. CASE TryAddReader(t) \/ TryAddWriter(t)
  <2>1. /\ \/ th[t].pc = "addReader" /\ Go(t, [th[t] EXCEPT !.pc = "toldReader"])
           \/ th[t].pc = "addWriter" /\ Go(t, [th[t] EXCEPT !.pc = "toldWriter"])
        /\ AddProxy(e[1], e[2])
        /\ UNCHANGED <<writers, readers, remotes, unmatched_vars>>
    BY <1>7 DEF TryAddReader, TryAddWriter, At
  <2>2. PICK x \in LocalUser, g \in UserGuids : e = <<x, g>>
    BY <1>1, <2>1 DEF Trying, Pair, LocalUser, UserGuids
  <2>3. NobodyDropped /\ (Knows(x, g)' \/ <<x, g>> \in turnedAway')
    BY <1>1, <2>1, <2>2, LocalSets, AddedOrTurnedAway
  <2>4. x \in Partners(g) => Tried(g)'
    <3>1. Partners(g)' = Partners(g)
      BY <2>1 DEF Partners
    <3> QED BY <2>3, <3>1 DEF Tried
  <2>5. \/ th[t].pc = "addReader" /\ Go(t, Place("toldReader", who, e, todo))
        \/ th[t].pc = "addWriter" /\ Go(t, Place("toldWriter", who, e, todo))
    <3>1. \A pc : [th[t] EXCEPT !.pc = pc] = Place(pc, who, e, todo)
      BY <1>1, ChangedPlace
    <3> QED BY <2>1, <3>1
  <2>6. \A guid \in Unmatched : \A pc : /\ WillTry(th[t], guid)
                                        /\ \/ th[t].pc = "addReader" /\ pc = "toldReader"
                                           \/ th[t].pc = "addWriter" /\ pc = "toldWriter"
          => WillTry(Place(pc, who, e, todo), guid) \/ (guid = g /\ x \in Partners(g))
    BY <2>2 DEF WillTry, AtReaders, AtWriters
  <2>7. CASE th[t].pc = "addReader" /\ Go(t, Place("toldReader", who, e, todo))
    BY <1>3, <2>1, <2>3, <2>4, <2>6, <2>7
  <2>8. CASE th[t].pc = "addWriter" /\ Go(t, Place("toldWriter", who, e, todo))
    BY <1>3, <2>1, <2>3, <2>4, <2>6, <2>8
  <2> QED BY <2>5, <2>7, <2>8
<1>8. CASE TryTellSubscriber(t) \/ TryTellPublisher(t)
  <2>1. /\ \/ /\ th[t].pc = "toldReader"
              /\ Go(t, [th[t] EXCEPT !.pc = "tryReaders", !.e = NoEndpoint])
           \/ /\ th[t].pc = "toldWriter"
              /\ Go(t, [th[t] EXCEPT !.pc = "tryWriters", !.e = NoEndpoint])
        /\ UNCHANGED <<writers, readers, remotes, unmatched_vars>> /\ NobodyDropped
    BY <1>8, KeptProxies DEF TryTellSubscriber, TryTellPublisher, At, participant_vars
  <2>2. \/ th[t].pc = "toldReader" /\ Go(t, Place("tryReaders", who, NoEndpoint, todo))
        \/ th[t].pc = "toldWriter" /\ Go(t, Place("tryWriters", who, NoEndpoint, todo))
    <3>1. /\ [th[t] EXCEPT !.pc = "tryReaders", !.e = NoEndpoint]
                = Place("tryReaders", who, NoEndpoint, todo)
          /\ [th[t] EXCEPT !.pc = "tryWriters", !.e = NoEndpoint]
                = Place("tryWriters", who, NoEndpoint, todo)
      BY <1>1, ChangedPlace
    <3> QED BY <2>1, <3>1
  <2>3. \A guid : \A pc : /\ WillTry(th[t], guid)
                          /\ \/ th[t].pc = "toldReader" /\ pc = "tryReaders"
                             \/ th[t].pc = "toldWriter" /\ pc = "tryWriters"
          => WillTry(Place(pc, who, NoEndpoint, todo), guid)
    BY DEF WillTry, AtReaders, AtWriters
  <2>4. CASE th[t].pc = "toldReader" /\ Go(t, Place("tryReaders", who, NoEndpoint, todo))
    BY <1>3, <2>1, <2>3, <2>4
  <2>5. CASE th[t].pc = "toldWriter" /\ Go(t, Place("tryWriters", who, NoEndpoint, todo))
    BY <1>3, <2>1, <2>3, <2>5
  <2> QED BY <2>2, <2>4, <2>5
<1> QED BY <1>5, <1>6, <1>7, <1>8 DEF TryMatch
\* A step of a thread that was to try nobody.
LEMMA NothingToTry ==
  ASSUME DiscoveryInv, EveryoneSeenTo, NEW t \in {"app", "rx"}, NEW pl, Go(t, pl),
         th[t].pc \notin {"lock", "builtin"} \cup AtReaders \cup AtWriters,
         UNCHANGED <<writers, readers, remotes>>, NobodyDropped,
         \A guid \in Unmatched' \ Unmatched : Prefix(guid) \notin remotes \/ Partners(guid) = {}
  PROVE  EveryoneSeenTo'
<1>1. \A guid : ~ WillTry(th[t], guid)
  BY DEF WillTry, AtReaders, AtWriters
<1> QED BY <1>1, ThreadGoesOn

\* A thread begins to try all who wait.
LEMMA BeginsToTry ==
  ASSUME DiscoveryInv, EveryoneSeenTo, NEW t \in {"app", "rx"}, NEW pl, Go(t, pl),
         pl.pc = "tryReaders", pl.todo = unmatchedReaders,
         UNCHANGED <<participant_vars, unmatched_vars>>
  PROVE  EveryoneSeenTo'
<1>1. UNCHANGED <<writers, readers, remotes>> /\ NobodyDropped /\ Unmatched' = Unmatched
  BY KeptProxies DEF participant_vars, unmatched_vars, Unmatched
<1>2. \A guid \in Unmatched : WillTry(pl, guid)
  BY UnmatchedKinds DEF WillTry, AtReaders, Unmatched
<1> QED BY <1>1, <1>2, ThreadGoesOn

LEMMA AnnouncementSeen ==
  ASSUME DiscoveryInv, ListsLocked, EveryoneSeenTo, OnAnnouncement
  PROVE  EveryoneSeenTo'
<1> DEFINE guid == th["rx"].who
<1>1. /\ th["rx"].pc \in PublisherPcs \cup SubscriberPcs
      /\ th["rx"].pc \in {"keepPublisher", "keepSubscriber"} => Prefix(guid) \notin remotes
  BY DEF OnAnnouncement, OnNewPublisherLock, OnNewPublisherFind, KeepPublisher, MatchPublisher,
         OnNewPublisherTell, OnNewSubscriberLock, OnNewSubscriberFind, KeepSubscriber,
         MatchSubscriber, OnNewSubscriberTell, At, PublisherPcs, SubscriberPcs, ListsLocked
<1>2. th["rx"].pc \notin {"lock", "builtin"} \cup AtReaders \cup AtWriters
  BY <1>1 DEF PublisherPcs, SubscriberPcs, AtReaders, AtWriters
<1>3. UNCHANGED <<writers, readers, remotes>> /\ \E pl : Go("rx", pl)
  BY DEF OnAnnouncement, OnNewPublisherLock, OnNewPublisherFind, KeepPublisher, MatchPublisher,
         OnNewPublisherTell, OnNewSubscriberLock, OnNewSubscriberFind, KeepSubscriber,
         MatchSubscriber, OnNewSubscriberTell, participant_vars
<1>4. /\ th["rx"].pc \in PublisherPcs => guid \in RemoteWriters
      /\ th["rx"].pc \in SubscriberPcs => guid \in RemoteReaders
      /\ EndpointsOK /\ PoolsOK
  BY RxPlaces DEF RxPlace, DiscoveryInv
<1>5. CASE KeepPublisher
  <2>1. /\ AddUnmatchedRemoteWriter(guid)
        /\ UNCHANGED <<proxies, turnedAway, unmatchedReaders>>
        /\ \/ th["rx"].pc = "keepPublisher"
           \/ th["rx"].pc = "matchPublisher" /\ GetMatchingReader(guid) = NoEndpoint
    BY <1>5 DEF KeepPublisher, At, participant_vars
  <2>2. Unmatched' \subseteq Unmatched \cup {guid}
    BY <2>1 DEF AddUnmatchedRemoteWriter, Unmatched
  <2>3. Prefix(guid) \notin remotes \/ Partners(guid) = {}
    BY <1>1, <1>4, <2>1, PartnerReader DEF PublisherPcs
  <2> QED BY <1>2, <1>3, <2>1, <2>2, <2>3, KeptProxies, NothingToTry
<1>6. CASE KeepSubscriber
  <2>1. /\ AddUnmatchedRemoteReader(guid)
        /\ UNCHANGED <<proxies, turnedAway, unmatchedWriters>>
        /\ \/ th["rx"].pc = "keepSubscriber"
           \/ th["rx"].pc = "matchSubscriber" /\ GetMatchingWriter(guid) = NoEndpoint
    BY <1>6 DEF KeepSubscriber, At, participant_vars
  <2>2. Unmatched' \subseteq Unmatched \cup {guid}
    BY <2>1 DEF AddUnmatchedRemoteReader, Unmatched
  <2>3. Prefix(guid) \notin remotes \/ Partners(guid) = {}
    BY <1>1, <1>4, <2>1, PartnerWriter DEF SubscriberPcs
  <2> QED BY <1>2, <1>3, <2>1, <2>2, <2>3, KeptProxies, NothingToTry
<1>7. ASSUME UNCHANGED unmatched_vars, NobodyDropped
      PROVE  EveryoneSeenTo'
  BY <1>2, <1>3, <1>7, NothingToTry DEF Unmatched, unmatched_vars
<1>8. CASE MatchPublisher
  <2> DEFINE r == GetMatchingReader(guid)
  <2>1. /\ th["rx"].pc = "matchPublisher" /\ r # NoEndpoint /\ UNCHANGED unmatched_vars
        /\ UNCHANGED <<proxies, turnedAway>> \/ AddProxy(r, guid)
    BY <1>8 DEF MatchPublisher, At
  <2>2. r \in Local
    BY <1>4, <2>1, FoundReader, LocalSets DEF PublisherPcs, UserGuids, LocalUser
  <2> HIDE DEF r
  <2> QED BY <1>4, <1>7, <2>1, <2>2, KeptProxies, AddedOrTurnedAway
<1>9. CASE MatchSubscriber
  <2> DEFINE w == GetMatchingWriter(guid)
  <2>1. /\ th["rx"].pc = "matchSubscriber" /\ w # NoEndpoint /\ UNCHANGED unmatched_vars
        /\ UNCHANGED <<proxies, turnedAway>> \/ AddProxy(w, guid)
    BY <1>9 DEF MatchSubscriber, At
  <2>2. w \in Local
    BY <1>4, <2>1, FoundWriter, LocalSets DEF SubscriberPcs, UserGuids, LocalUser
  <2> HIDE DEF w
  <2> QED BY <1>4, <1>7, <2>1, <2>2, KeptProxies, AddedOrTurnedAway
<1>10. CASE \/ OnNewPublisherLock \/ OnNewPublisherFind \/ OnNewPublisherTell
            \/ OnNewSubscriberLock \/ OnNewSubscriberFind \/ OnNewSubscriberTell
  <2>1. UNCHANGED <<proxies, turnedAway, unmatched_vars>>
    BY <1>10 DEF OnNewPublisherLock, OnNewPublisherFind, OnNewPublisherTell,
                 OnNewSubscriberLock, OnNewSubscriberFind, OnNewSubscriberTell, participant_vars
  <2> QED BY <1>7, <2>1, KeptProxies
<1> QED BY <1>5, <1>6, <1>8, <1>9, <1>10 DEF OnAnnouncement

LEMMA PackageSeen ==
  ASSUME DiscoveryInv, EveryoneSeenTo,
         \/ ProcessProxyData \/ RefreshRemoteParticipantLiveliness \/ AddNewRemoteParticipant
         \/ AddProxiesForBuiltInEndpoints \/ EndProcessProxyData
         \/ \E p \in Participants : \/ HandleSPDPPackage(p)
                                    \/ \E sn : ReceivePublication(p, sn)
                                    \/ \E sn : ReceiveSubscription(p, sn)
  PROVE  EveryoneSeenTo'
<1> USE PlaceFields
<1>1. CASE AddNewRemoteParticipant
  <2>1. /\ th["rx"].pc = "add"
        /\ UNCHANGED <<writers, readers, proxies, turnedAway, unmatched_vars>>
        /\ \/ \E todo : Go("rx", Place("builtin", th["rx"].who, NoEndpoint, todo))
           \/ /\ Go("rx", Place("spin", th["rx"].who, NoEndpoint, {}))
              /\ UNCHANGED remotes
    BY <1>1 DEF AddNewRemoteParticipant, At
  <2>2. CASE \E todo : Go("rx", Place("builtin", th["rx"].who, NoEndpoint, todo))
    <3>1. th'["rx"].pc = "builtin"
      BY <2>2, GoEffect DEF DiscoveryInv, ThreadsOK, Threads
    <3> QED BY <3>1 DEF EveryoneSeenTo, SeenTo, WillTry
  <2>3. CASE Go("rx", Place("spin", th["rx"].who, NoEndpoint, {})) /\ UNCHANGED remotes
    <3>1. th["rx"].pc \notin {"lock", "builtin"} \cup AtReaders \cup AtWriters
      BY <2>1 DEF AtReaders, AtWriters
    <3> QED BY <2>1, <2>3, <3>1, KeptProxies, NothingToTry DEF Unmatched, unmatched_vars
  <2> QED BY <2>1, <2>2, <2>3
<1>2. CASE AddProxiesForBuiltInEndpoints
  <2> DEFINE todo == th["rx"].todo
  <2>1. /\ th["rx"].pc = "builtin"
        /\ UNCHANGED <<writers, readers, remotes, fresh, unmatched_vars>>
        /\ \/ /\ Go("rx", Place("tryReaders", th["rx"].who, NoEndpoint, unmatchedReaders))
              /\ UNCHANGED <<proxies, turnedAway>>
           \/ /\ todo # <<>> /\ AddBuiltIn(Head(todo)[1], Head(todo)[2])
              /\ Go("rx", [th["rx"] EXCEPT !.todo = Tail(todo)])
    BY <1>2 DEF AddProxiesForBuiltInEndpoints, At
  <2>2. CASE /\ Go("rx", Place("tryReaders", th["rx"].who, NoEndpoint, unmatchedReaders))
             /\ UNCHANGED <<proxies, turnedAway>>
    BY <2>1, <2>2, BeginsToTry DEF participant_vars
  <2>3. CASE /\ todo # <<>> /\ AddBuiltIn(Head(todo)[1], Head(todo)[2])
             /\ Go("rx", [th["rx"] EXCEPT !.todo = Tail(todo)])
    <3>1. todo \in Seq(BuiltInPairs)
      BY <2>1, RxPlaces DEF RxPlace
    <3>2. Head(todo) \in BuiltInPairs
      <4> HIDE DEF todo
      <4> QED BY <2>3, <3>1
    <3>3. Head(todo)[1] \in Local
      BY <3>2, BuiltInFits DEF Fits
    <3>4. AddProxy(Head(todo)[1], Head(todo)[2])
      BY <2>3 DEF AddBuiltIn
    <3>5. NobodyDropped
      BY <3>3, <3>4, AddedOrTurnedAway DEF DiscoveryInv
    <3> DEFINE rest == Tail(todo)
    <3>6. [th["rx"] EXCEPT !.todo = rest] = Place(th["rx"].pc, th["rx"].who, th["rx"].e, rest)
      BY ThreadChanged DEF Threads
    <3> HIDE DEF rest
    <3>7. Go("rx", Place("builtin", th["rx"].who, th["rx"].e, rest))
      BY <2>1, <2>3, <3>6 DEF rest
    <3>8. \A guid : WillTry(Place("builtin", th["rx"].who, th["rx"].e, rest), guid)
      BY DEF WillTry
    <3> QED BY <2>1, <3>5, <3>7, <3>8, ThreadGoesOn DEF Unmatched, unmatched_vars
  <2> QED BY <2>1, <2>2, <2>3
<1>3. CASE ~ (AddNewRemoteParticipant \/ AddProxiesForBuiltInEndpoints)
  <2>1. /\ th["rx"].pc \in {"process", "refresh", "idle", "tried"}
        /\ UNCHANGED <<writers, readers, remotes, proxies, turnedAway, unmatched_vars>>
        /\ \E pl : Go("rx", pl)
    BY <1>3 DEF ProcessProxyData, RefreshRemoteParticipantLiveliness, EndProcessProxyData,
                HandleSPDPPackage, ReceivePublication, ReceiveSubscription, ReceiveEndpoint,
                At, participant_vars
  <2>2. th["rx"].pc \notin {"lock", "builtin"} \cup AtReaders \cup AtWriters
    BY <2>1 DEF AtReaders, AtWriters
  <2> QED BY <2>1, <2>2, KeptProxies, NothingToTry DEF Unmatched, unmatched_vars
<1> QED BY <1>1, <1>2, <1>3
LEMMA CreatingSeen ==
  ASSUME DiscoveryInv, EveryoneSeenTo,
         \/ CreateNode \/ Create \/ LockSEDP \/ Announce
         \/ StoreFunction \/ StoreArgument \/ CountMatched
  PROVE  EveryoneSeenTo'
<1> USE PlaceFields
<1>1. CASE CreateNode
  <2>1. /\ writers' = BuiltInWriters /\ readers' = BuiltInReaders
        /\ UNCHANGED unmatched_vars
    BY <1>1 DEF CreateNode
  <2>2. ASSUME NEW guid PROVE Partners(guid)' = {}
    <3>1. \A e \in SeqRange(BuiltInWriters) \cup SeqRange(BuiltInReaders) : e \notin UserEndpoints
      BY EndpointAssumption
    <3> QED BY <2>1, <3>1 DEF Partners, SameTopic
  <2> QED BY <2>2 DEF EveryoneSeenTo, SeenTo
<1>2. CASE LockSEDP
  <2>1. /\ Go("app", Place("tryReaders", th["app"].who, NoEndpoint, unmatchedReaders))
        /\ UNCHANGED <<participant_vars, unmatched_vars>>
    BY <1>2 DEF LockSEDP
  <2> QED BY <2>1, BeginsToTry
<1>3. ASSUME th["app"].pc \in {"idle", "tried", "callback", "argument", "count"},
             \E pl : Go("app", pl),
             UNCHANGED <<writers, readers, remotes, proxies, turnedAway, unmatched_vars>>
      PROVE  EveryoneSeenTo'
  <2>1. th["app"].pc \notin {"lock", "builtin"} \cup AtReaders \cup AtWriters
    BY <1>3 DEF AtReaders, AtWriters
  <2> QED BY <1>3, <2>1, KeptProxies, NothingToTry DEF Unmatched, unmatched_vars
<1>4. CASE Create
  <2>1. /\ th["app"].pc = "idle" /\ UNCHANGED <<remotes, proxies, turnedAway, unmatched_vars>>
        /\ \/ \E who : Go("app", Place("lock", who, NoEndpoint, {}))
           \/ UNCHANGED <<writers, readers>> /\ \E pl : Go("app", pl)
    BY <1>4 DEF Create, At
  <2>2. CASE \E who : Go("app", Place("lock", who, NoEndpoint, {}))
    <3>1. th'["app"].pc = "lock"
      BY <2>2, GoEffect DEF DiscoveryInv, ThreadsOK, Threads
    <3> QED BY <3>1 DEF EveryoneSeenTo, SeenTo, WillTry
  <2> QED BY <1>3, <2>1, <2>2
<1>5. CASE Announce \/ StoreFunction \/ StoreArgument \/ CountMatched
  BY <1>3, <1>5 DEF Announce, StoreFunction, StoreArgument, CountMatched, At, participant_vars
<1> QED BY <1>1, <1>2, <1>4, <1>5

\* A step of the SPDP thread, or of none.
LEMMA OthersGoOn ==
  ASSUME EveryoneSeenTo, UNCHANGED <<writers, readers>>,
         th'["app"] = th["app"], th'["rx"] = th["rx"],
         remotes' \subseteq remotes, Unmatched' \subseteq Unmatched,
         \A guid \in Unmatched' : Prefix(guid) \in remotes' =>
            /\ Tried(guid) => Tried(guid)' \/ Removing(Prefix(guid))'
            /\ Removing(Prefix(guid)) => Removing(Prefix(guid))'
  PROVE  EveryoneSeenTo'
<1>1. \A guid : Partners(guid)' = Partners(guid) /\ Prefix(guid)' = Prefix(guid)
  BY DEF Partners, Prefix
<1>2. \A guid : /\ WillTry(th["app"], guid)' <=> WillTry(th["app"], guid)
                /\ WillTry(th["rx"], guid)' <=> WillTry(th["rx"], guid)
  BY <1>1 DEF WillTry
<1> SUFFICES ASSUME NEW guid \in Unmatched', Prefix(guid) \in remotes', Partners(guid) # {}
             PROVE  \/ Tried(guid)' \/ Removing(Prefix(guid))'
                    \/ WillTry(th["app"], guid)' \/ WillTry(th["rx"], guid)'
  BY <1>1 DEF EveryoneSeenTo, SeenTo
<1>3. \/ Tried(guid) \/ Removing(Prefix(guid))
      \/ WillTry(th["app"], guid) \/ WillTry(th["rx"], guid)
  BY DEF EveryoneSeenTo, SeenTo
<1> QED BY <1>2, <1>3

\* Removed from one endpoint, the others' proxies stay.
LEMMA RemoveFromSeen ==
  ASSUME DiscoveryInv, EveryoneSeenTo, NEW pc, NEW next, NEW endpoints,
         {pc, next} \subseteq RemovalPcs, RemoveFrom(pc, endpoints, next)
  PROVE  EveryoneSeenTo'
<1> DEFINE p == th["spdp"].who
<1>1. /\ th["spdp"].pc = pc
      /\ \/ UNCHANGED proxies \/ \E e : RemoveProxiesOf(e, p)
      /\ \/ \E i : Go("spdp", [th["spdp"] EXCEPT !.e = i])
         \/ Go("spdp", [th["spdp"] EXCEPT !.pc = next, !.e = 1])
      /\ UNCHANGED <<writers, readers, remotes, turnedAway, unmatched_vars>>
  BY DEF RemoveFrom, At
<1>2. IsPlace(th["spdp"]) /\ DOMAIN th = Threads /\ DOMAIN proxies = Local
  BY SpdpPlaces DEF DiscoveryInv, ThreadsOK, SpdpPlace, PoolsOK
<1>3. \E x \in RemovalPcs : \E i : Go("spdp", Place(x, p, i, th["spdp"].todo))
  <2>1. /\ \A i : [th["spdp"] EXCEPT !.e = i] = Place(pc, p, i, th["spdp"].todo)
        /\ [th["spdp"] EXCEPT !.pc = next, !.e = 1] = Place(next, p, 1, th["spdp"].todo)
    BY <1>1, <1>2, ChangedPlace
  <2> DEFINE at(x, i) == Place(x, p, i, th["spdp"].todo)
  <2>2. CASE \E i : Go("spdp", [th["spdp"] EXCEPT !.e = i])
    <3>1. PICK i : Go("spdp", [th["spdp"] EXCEPT !.e = i])
      BY <2>2
    <3>2. Go("spdp", at(pc, i))
      BY <2>1, <3>1
    <3> HIDE DEF at
    <3> QED BY <3>2 DEF at
  <2>3. CASE Go("spdp", [th["spdp"] EXCEPT !.pc = next, !.e = 1])
    <3>1. Go("spdp", at(next, 1))
      BY <2>1, <2>3
    <3> HIDE DEF at
    <3> QED BY <3>1 DEF at
  <2> QED BY <1>1, <2>2, <2>3
<1>4. /\ th'["app"] = th["app"] /\ th'["rx"] = th["rx"]
      /\ th'["spdp"].pc \in RemovalPcs /\ th'["spdp"].who = p
  BY <1>2, <1>3, GoEffect, PlaceFields DEF Threads
<1>5. \A q : Removing(q)' <=> q = p
  BY <1>4 DEF Removing
<1>6. \A q : Removing(q) <=> q = p
  BY <1>1 DEF Removing
<1>7. ASSUME NEW e \in LocalUser, NEW guid, Knows(e, guid), Prefix(guid) # p
      PROVE  Knows(e, guid)'
  <2>1. CASE UNCHANGED proxies
    BY <1>7, <2>1 DEF Knows
  <2>2. CASE \E x : RemoveProxiesOf(x, p)
    <3>1. PICK x : RemoveProxiesOf(x, p)
      BY <2>2
    <3> DEFINE pool == [g \in {h \in DOMAIN proxies[x] : Prefix(h) # p} |-> proxies[x][g]]
    <3>2. proxies' = [proxies EXCEPT ![x] = pool]
      BY <3>1 DEF RemoveProxiesOf, BagToSet
    <3>3. x = e => guid \in DOMAIN pool
      BY <1>7 DEF Knows, BagIn, BagToSet
    <3> HIDE DEF pool
    <3>4. guid \in DOMAIN proxies'[e]
      BY <1>2, <1>7, <3>2, <3>3, LocalSets DEF Knows, BagIn, BagToSet
    <3> QED BY <3>4 DEF Knows, BagIn, BagToSet
  <2> QED BY <1>1, <2>1, <2>2
<1>8. ASSUME NEW guid \in Unmatched, Tried(guid), Prefix(guid) # p PROVE Tried(guid)'
  <2>1. PICK e \in Partners(guid) : Knows(e, guid) \/ <<e, guid>> \in turnedAway
    BY <1>8 DEF Tried
  <2>2. guid \in UserGuids
    BY UnmatchedKinds DEF Unmatched, UserGuids
  <2>3. e \in LocalUser /\ Partners(guid)' = Partners(guid)
    BY <1>1, <2>2, PartnersAreUsers DEF Partners, DiscoveryInv
  <2> QED BY <1>1, <1>7, <1>8, <2>1, <2>3 DEF Tried
<1>9. Unmatched' = Unmatched
  BY <1>1 DEF Unmatched, unmatched_vars
<1> QED BY <1>1, <1>4, <1>5, <1>6, <1>8, <1>9, OthersGoOn

LEMMA OthersSeen ==
  ASSUME DiscoveryInv, EveryoneSeenTo,
         \/ CompleteInit \/ CheckAndResetHeartbeats \/ CheckNext \/ Removal
         \/ \E p \in Participants : AddHeartbeat(p) \/ LeaseRunsOut(p)
         \/ UNCHANGED vars
  PROVE  EveryoneSeenTo'
<1> USE PlaceFields
<1> DEFINE p == th["spdp"].who
<1>1. IsPlace(th["spdp"]) /\ DOMAIN th = Threads /\ "spdp" \in Threads
  BY SpdpPlaces DEF DiscoveryInv, ThreadsOK, SpdpPlace, Threads
<1>2. ASSUME NEW pl, Go("spdp", pl)
      PROVE  th'["app"] = th["app"] /\ th'["rx"] = th["rx"] /\ th'["spdp"] = pl
  BY <1>1, <1>2, GoEffect DEF Threads
<1>3. ASSUME UNCHANGED <<writers, readers, proxies, turnedAway>>
      PROVE  \A guid : Tried(guid)' <=> Tried(guid)
  BY <1>3 DEF Tried, Partners, Knows
<1>4. CASE CompleteInit \/ (\E q \in Participants : AddHeartbeat(q) \/ LeaseRunsOut(q))
           \/ UNCHANGED vars
  <2>1. UNCHANGED <<writers, readers, proxies, turnedAway, remotes, th, unmatched_vars>>
    BY <1>4 DEF CompleteInit, AddHeartbeat, LeaseRunsOut, vars, participant_vars
  <2> QED BY <1>3, <2>1, OthersGoOn DEF Removing, Unmatched, unmatched_vars
<1>5. CASE CheckAndResetHeartbeats \/ CheckNext
  <2>1. /\ UNCHANGED <<writers, readers, proxies, turnedAway, remotes, unmatched_vars>>
        /\ th["spdp"].pc \in {"idle", "check"} /\ \E pl : Go("spdp", pl)
    BY <1>5 DEF CheckAndResetHeartbeats, CheckNext, At, participant_vars
  <2>2. \A q : ~ Removing(q)
    BY <2>1 DEF Removing, RemovalPcs
  <2> QED BY <1>2, <1>3, <2>1, <2>2, OthersGoOn DEF Unmatched, unmatched_vars
<1>6. CASE RemoveUnmatchedEntities
  <2>1. /\ UNCHANGED <<writers, readers, proxies, remotes>>
        /\ Unmatched' = OthersThan(p, Unmatched)
        /\ turnedAway' = {pair \in turnedAway : Prefix(pair[2]) # p}
        /\ Go("spdp", [th["spdp"] EXCEPT !.pc = "pool"])
    BY <1>6 DEF RemoveUnmatchedEntities, ForgetTurnedAway, Unmatched, OthersThan
  <2>2. Go("spdp", Place("pool", p, th["spdp"].e, th["spdp"].todo))
    BY <1>1, <2>1, ChangedPlace
  <2>3. /\ th'["app"] = th["app"] /\ th'["rx"] = th["rx"]
        /\ th'["spdp"].pc = "pool" /\ th'["spdp"].who = p
    BY <1>2, <2>2
  <2>4. \A q : Removing(q) => Removing(q)'
    BY <2>3 DEF Removing, RemovalPcs
  <2>5. \A guid \in Unmatched' : guid \in Unmatched /\ Prefix(guid) # p
    BY <2>1 DEF OthersThan
  <2>6. ASSUME NEW guid \in Unmatched', Tried(guid) PROVE Tried(guid)'
    <3>1. PICK e \in Partners(guid) : Knows(e, guid) \/ <<e, guid>> \in turnedAway
      BY <2>6 DEF Tried
    <3>2. <<e, guid>> \in turnedAway => <<e, guid>> \in turnedAway'
      BY <2>1, <2>5
    <3>3. Partners(guid)' = Partners(guid) /\ Knows(e, guid)' = Knows(e, guid)
      BY <2>1 DEF Partners, Knows
    <3> QED BY <3>1, <3>2, <3>3 DEF Tried
  <2> QED BY <2>1, <2>3, <2>4, <2>5, <2>6, OthersGoOn
<1>7. CASE RemoveRemoteParticipant
  <2>1. /\ UNCHANGED <<writers, readers, proxies, turnedAway, unmatched_vars>>
        /\ remotes' = remotes \ {p} /\ \E pl : Go("spdp", pl)
    BY <1>7 DEF RemoveRemoteParticipant
  <2>2. \A q \in remotes' : ~ Removing(q)
    BY <2>1 DEF Removing
  <2> QED BY <1>2, <1>3, <2>1, <2>2, OthersGoOn DEF Unmatched, unmatched_vars
<1>8. CASE RemoveFrom("writers", writers, "readers") \/ RemoveFrom("readers", readers, "unmatched")
  <2>1. {"writers", "readers", "unmatched"} \subseteq RemovalPcs
    BY DEF RemovalPcs
  <2>2. CASE RemoveFrom("writers", writers, "readers")
    BY <2>1, <2>2, RemoveFromSeen
  <2>3. CASE RemoveFrom("readers", readers, "unmatched")
    BY <2>1, <2>3, RemoveFromSeen
  <2> QED BY <1>8, <2>2, <2>3
<1> QED BY <1>4, <1>5, <1>6, <1>7, <1>8 DEF Removal

LEMMA NextKeepsSeen ==
  ASSUME DiscoveryInv, ListsLocked, EveryoneSeenTo, [Next]_vars
  PROVE  EveryoneSeenTo'
<1>1. CASE App
  BY <1>1, CreatingSeen, TrySeen DEF App
<1>2. CASE Arrival
  BY <1>2, PackageSeen, OthersSeen DEF Arrival
<1>3. CASE Handle
  BY <1>3, AnnouncementSeen, TrySeen, PackageSeen DEF Handle
<1>4. CASE CompleteInit \/ Check \/ Remove \/ Time \/ UNCHANGED vars
  BY <1>4, OthersSeen DEF Check, Remove, Time
<1> QED BY <1>1, <1>2, <1>3, <1>4 DEF Next

\* When nobody is at work nobody is to try, and nobody is being removed.
LEMMA QuietMeansTried ==
  ASSUME DiscoveryInv, EveryoneSeenTo
  PROVE  NobodyWaitsForAPartner
<1> SUFFICES ASSUME Quiet, NEW guid \in Unmatched, Prefix(guid) \in remotes, Partners(guid) # {}
             PROVE  \E e \in Partners(guid) : Knows(e, guid) \/ <<e, guid>> \in turnedAway
  BY DEF NobodyWaitsForAPartner, Unmatched
<1>1. \A t \in {"app", "rx"} : th[t].pc \in {"idle", "spin", "halt"}
  BY DEF Quiet, Threads
<1>2. \A t \in {"app", "rx"} : ~ WillTry(th[t], guid)
  BY <1>1 DEF WillTry, AtReaders, AtWriters
<1>3. ~ Removing(Prefix(guid))
  BY DEF Quiet, Threads, Removing, RemovalPcs
<1> QED BY <1>2, <1>3 DEF EveryoneSeenTo, SeenTo, Tried

(* Whoever was put aside and suits a local endpoint by now has been tried  *)
(* there, whatever the application, the reader thread and the SPDP thread  *)
(* did in between (SEDPAgent's lists of unmatched endpoints).              *)
THEOREM EveryoneIsTried == Spec => []NobodyWaitsForAPartner
<1>1. Init => ListsLocked /\ EveryoneSeenTo
  <2> SUFFICES ASSUME Init PROVE ListsLocked /\ EveryoneSeenTo
    OBVIOUS
  <2>1. th["app"] = Idle /\ th["rx"] = Idle /\ Idle.pc = "idle" /\ Unmatched = {}
    BY PlaceFields DEF Init, SEDPInit, Threads, Unmatched, Idle
  <2> QED BY <2>1 DEF ListsLocked, KeepingPcs, TryPcs, EveryoneSeenTo
<1>2. DiscoveryInv /\ (ListsLocked /\ EveryoneSeenTo) /\ [Next]_vars
        => (ListsLocked /\ EveryoneSeenTo)'
  BY NextKeepsLocks, NextKeepsSeen
<1>3. DiscoveryInv /\ (ListsLocked /\ EveryoneSeenTo) => NobodyWaitsForAPartner
  BY QuietMeansTried
<1> QED BY <1>1, <1>2, <1>3, DiscoveryCorrect, PTL DEF Spec
=============================================================================
