------------------------- MODULE HistoryCacheProofs -------------------------
(***************************************************************************)
(* The ring of HistoryCache is proved right for every capacity, every      *)
(* payload set and every width of the low word that exceeds the capacity.  *)
(* The inductive invariant is IInv; lookups follow from it with the lemma  *)
(* that the wrapped subtraction of two low words is exact.                 *)
(***************************************************************************)
EXTENDS HistoryCache, TLAPS

-----------------------------------------------------------------------------
(* Arithmetic of the wrapped subtraction.                                  *)

\* Quotient and remainder, as the provers know them.
LEMMA Division ==
  ASSUME NEW L \in Nat, L > 0, NEW a \in Int
  PROVE  /\ a % L \in 0 .. L - 1
         /\ a \div L \in Int
         /\ a = L * (a \div L) + (a % L)
  BY SMTT(30)

\* A value below the modulus is its own remainder.
LEMMA RemainderOfSmall ==
  ASSUME NEW L \in Nat, L > 0, NEW r \in Int, 0 <= r, r < L
  PROVE  r % L = r
  BY SMTT(30)

\* The only multiples of L strictly between -L and 2L.
LEMMA SmallMultiple ==
  ASSUME NEW L \in Nat, L > 0, NEW k \in Int, NEW m \in Int, m = L * k, -L < m, m < 2 * L
  PROVE  k = 0 \/ k = 1
<1>1. CASE k >= 2
  <2>1. L * k >= L * 2  BY <1>1, SMTT(30)
  <2> QED BY <2>1
<1>2. CASE k <= -1
  <2>1. L * k <= L * (-1)  BY <1>2, SMTT(30)
  <2> QED BY <2>1
<1> QED BY <1>1, <1>2

\* A difference that wrapped below zero comes back as itself.
LEMMA RemainderOfNegative ==
  ASSUME NEW L \in Nat, L > 0, NEW r \in Int, 0 <= r, r < L
  PROVE  (r - L) % L = r
<1> DEFINE q == (r - L) \div L
           s == (r - L) % L
<1>1. s \in 0 .. L - 1 /\ q \in Int /\ r - L = L * q + s
  BY Division
<1>2. r - s = L * (q + 1)
  BY <1>1, SMTT(30)
<1>3. q + 1 = 0 \/ q + 1 = 1
  BY <1>1, <1>2, SmallMultiple
<1> QED BY <1>1, <1>2, <1>3

\* Subtracting low words with wrap-around gives the true difference of two
\* sequence numbers that are less than one turn of the low word apart: what
\* getChangeBySN asserts of its cast.
LEMMA WrappedDifference ==
  ASSUME NEW L \in Nat, L > 0, NEW a \in Int, NEW b \in Int, 0 <= a - b, a - b < L
  PROVE  ((a % L) - (b % L)) % L = a - b
<1> DEFINE qa == a \div L
           qb == b \div L
           ra == a % L
           rb == b % L
           d  == a - b
<1>1. ra \in 0 .. L - 1 /\ qa \in Int /\ a = L * qa + ra
  BY Division
<1>2. rb \in 0 .. L - 1 /\ qb \in Int /\ b = L * qb + rb
  BY Division
<1> HIDE DEF qa, qb, ra, rb
<1>3. d - (ra - rb) = L * (qa - qb)
  BY <1>1, <1>2, SMTT(30)
<1>4. qa - qb = 0 \/ qa - qb = 1
  BY <1>1, <1>2, <1>3, SmallMultiple
<1>5. ra - rb = d \/ ra - rb = d - L
  BY <1>1, <1>2, <1>3, <1>4
<1>6. (ra - rb) % L = d
  BY <1>1, <1>2, <1>5, RemainderOfSmall, RemainderOfNegative
<1> QED BY <1>6 DEF ra, rb

-----------------------------------------------------------------------------
(* Walking round the ring.                                                 *)

IInv == TypeOK /\ WindowConsecutive

USE CacheAssumption DEF Slots

LEMMA IncrementType ==
  ASSUME NEW i \in Slots
  PROVE  Increment(i) \in Slots
  BY DEF Increment

\* The positions counted from the tail are slots, different ones for
\* different counts, and the free slot comes after the last change.
LEMMA Positions ==
  ASSUME TypeOK
  PROVE  /\ GetChangeCount \in 0 .. SIZE
         /\ \A k \in 0 .. SIZE : At(k) \in Slots
         /\ \A j, k \in 0 .. SIZE : At(j) = At(k) => j = k
         /\ At(GetChangeCount) = head
         /\ At(0) = tail
         /\ IsEmpty <=> GetChangeCount = 0
  BY DEF TypeOK, GetChangeCount, At, After, IsEmpty

\* The oldest sequence number is First, the newest is lastUsed.
LEMMA Extremes ==
  ASSUME IInv, ~IsEmpty
  PROVE  /\ GetSeqNumMin = First
         /\ GetSeqNumMax = lastUsed
         /\ GetChangeCount \in 1 .. SIZE
         /\ First \in 1 .. lastUsed
<1>1. GetChangeCount \in 1 .. SIZE /\ At(0) = tail
  BY Positions DEF IInv
<1>2. buffer[At(0)].sn = First + 0
  BY <1>1 DEF IInv, WindowConsecutive
<1> QED BY <1>1, <1>2 DEF IInv, TypeOK, WindowConsecutive, GetSeqNumMin, GetSeqNumMax, First

-----------------------------------------------------------------------------
(* The invariant is inductive.                                             *)

LEMMA InitIInv == Init => IInv
  BY DEF Init, IInv, TypeOK, WindowConsecutive, GetChangeCount, Change, DefaultChange, First

\* What addChange does to the ring: with a free slot left the window grows at
\* its end, in a full ring it moves on by one.
LEMMA AddMoves ==
  ASSUME IInv, NEW d \in Data, AddChange(d)
  PROVE  /\ TypeOK'
         /\ lastUsed' = lastUsed + 1
         /\ \/ /\ GetChangeCount < SIZE
               /\ GetChangeCount' = GetChangeCount + 1
               /\ \A k \in 0 .. SIZE : After(tail', k) = At(k)
            \/ /\ GetChangeCount = SIZE
               /\ GetChangeCount' = SIZE
               /\ \A k \in 0 .. SIZE - 1 : After(tail', k) = At(k + 1)
         /\ \A k \in 0 .. GetChangeCount - 1 : buffer'[At(k)] = buffer[At(k)]
         /\ buffer'[At(GetChangeCount)] = [sn |-> lastUsed + 1, data |-> d]
<1> USE DEF IInv
<1>1. TypeOK'
  BY IncrementType DEF TypeOK, AddChange, Change
<1>2. lastUsed' = lastUsed + 1
  BY DEF AddChange
<1> DEFINE Grows == /\ GetChangeCount < SIZE
                     /\ GetChangeCount' = GetChangeCount + 1
                     /\ \A k \in 0 .. SIZE : After(tail', k) = At(k)
           Slides == /\ GetChangeCount = SIZE
                     /\ GetChangeCount' = SIZE
                     /\ \A k \in 0 .. SIZE - 1 : After(tail', k) = At(k + 1)
<1>3. ASSUME Increment(head) = tail PROVE Slides
  BY <1>3 DEF TypeOK, AddChange, Increment, GetChangeCount, At, After
<1>4. ASSUME Increment(head) # tail PROVE Grows
  BY <1>4 DEF TypeOK, AddChange, Increment, GetChangeCount, At, After
<1>5. \A k \in 0 .. GetChangeCount - 1 : buffer'[At(k)] = buffer[At(k)]
  <2> SUFFICES ASSUME NEW k \in 0 .. GetChangeCount - 1
               PROVE  buffer'[At(k)] = buffer[At(k)]
    OBVIOUS
  <2>1. At(k) \in Slots /\ At(k) # head
    BY Positions
  <2> QED BY <2>1 DEF AddChange, TypeOK
<1>6. buffer'[At(GetChangeCount)] = [sn |-> lastUsed + 1, data |-> d]
  BY Positions DEF AddChange, TypeOK
<1> QED BY <1>1, <1>2, <1>3, <1>4, <1>5, <1>6

LEMMA AddKeepsIInv ==
  ASSUME IInv, NEW d \in Data, AddChange(d)
  PROVE  IInv'
<1>1. PICK c \in 0 .. SIZE : c = GetChangeCount
  BY Positions DEF IInv
<1>2. lastUsed \in Nat /\ c <= lastUsed
  BY <1>1 DEF IInv, TypeOK, WindowConsecutive
<1>3. \A k \in 0 .. c - 1 : buffer[At(k)].sn = lastUsed - c + 1 + k
  BY <1>1 DEF IInv, WindowConsecutive, First
<1>4. TypeOK' /\ lastUsed' = lastUsed + 1
  BY AddMoves
<1>5. \A k \in 0 .. c : buffer'[At(k)].sn = lastUsed - c + 1 + k
  <2>1. \A k \in 0 .. c - 1 : buffer'[At(k)] = buffer[At(k)]
    BY <1>1, AddMoves
  <2>2. buffer'[At(c)] = [sn |-> lastUsed + 1, data |-> d]
    BY <1>1, AddMoves, Zenon
  <2>3. buffer'[At(c)].sn = lastUsed + 1
    BY <2>2
  <2> QED BY <1>2, <1>3, <2>1, <2>3
<1>6. \/ /\ c < SIZE
         /\ GetChangeCount' = c + 1
         /\ \A k \in 0 .. SIZE : After(tail', k) = At(k)
      \/ /\ c = SIZE
         /\ GetChangeCount' = c
         /\ \A k \in 0 .. SIZE - 1 : After(tail', k) = At(k + 1)
  BY <1>1, AddMoves
<1>7. WindowConsecutive'
  BY <1>2, <1>4, <1>5, <1>6 DEF WindowConsecutive, First, At
<1> QED BY <1>4, <1>7 DEF IInv

LEMMA RemoveKeepsIInv ==
  ASSUME IInv, NEW sn \in Int, RemoveUntilIncl(sn)
  PROVE  IInv'
<1> USE DEF IInv
<1>1. PICK c \in 0 .. SIZE : c = GetChangeCount
  BY Positions
<1>2. lastUsed \in Nat /\ c <= lastUsed /\ buffer' = buffer /\ lastUsed' = lastUsed
  BY <1>1 DEF TypeOK, WindowConsecutive, RemoveUntilIncl
<1>3. \A k \in 0 .. c - 1 : buffer[At(k)].sn = lastUsed - c + 1 + k
  BY <1>1 DEF WindowConsecutive, First
<1>4. CASE head' = tail /\ tail' = tail
  <2>1. TypeOK' /\ GetChangeCount' = 0
    BY <1>2, <1>4 DEF TypeOK, GetChangeCount
  <2> QED BY <1>2, <2>1 DEF WindowConsecutive, First
<1>5. ASSUME NEW k \in 0 .. c - 1, tail' = At(k), head' = head
      PROVE  IInv'
  <2>1. TypeOK'
    BY <1>1, <1>2, <1>5, Positions DEF TypeOK
  <2>2. GetChangeCount' = c - k
    BY <1>1, <1>5 DEF TypeOK, GetChangeCount, At, After
  <2>3. \A j \in 0 .. c - k - 1 : After(tail', j) = At(k + j)
    BY <1>1, <1>5 DEF TypeOK, At, After
  <2>4. WindowConsecutive'
    BY <1>2, <1>3, <2>2, <2>3 DEF WindowConsecutive, First, At
  <2> QED BY <2>1, <2>4
<1> QED BY <1>1, <1>4, <1>5 DEF RemoveUntilIncl

LEMMA StepKeepsIInv == IInv /\ [Next]_vars => IInv'
<1> SUFFICES ASSUME IInv, [Next]_vars PROVE IInv'
  OBVIOUS
<1>1. ASSUME NEW d \in Data, AddChange(d) PROVE IInv'
  BY <1>1, AddKeepsIInv
<1>2. ASSUME NEW sn \in SN, RemoveUntilIncl(sn) PROVE IInv'
  BY <1>2, RemoveKeepsIInv DEF SN
<1>3. CASE DropOldest
  <2>1. GetSeqNumMin \in Int
    BY DEF IInv, TypeOK, GetSeqNumMin, Change, UNKNOWN
  <2> QED BY <1>3, <2>1, RemoveKeepsIInv DEF DropOldest
<1>4. CASE UNCHANGED vars
  BY <1>4 DEF vars, IInv, TypeOK, WindowConsecutive, First, GetChangeCount, At
<1> QED BY <1>1, <1>2, <1>3, <1>4 DEF Next

\* The head and tail always delimit a window of consecutive sequence numbers
\* ending at the last one used, through overwriting and removing.
THEOREM WindowIsConsecutive == Spec => []WindowConsecutive
  BY InitIInv, StepKeepsIInv, PTL DEF Spec, IInv

\* Head, tail and the slots never leave their ranges.
THEOREM TypeCorrect == Spec => []TypeOK
  BY InitIInv, StepKeepsIInv, PTL DEF Spec, IInv

-----------------------------------------------------------------------------
(* Lookups.                                                                *)

LEMMA LookupInWindow ==
  ASSUME IInv, NEW sn \in First .. lastUsed
  PROVE  /\ GetChangeBySN(sn) = buffer[At(sn - First)]
         /\ GetChangeBySN(sn).sn = sn
         /\ sn - First \in 0 .. GetChangeCount - 1
<1>1. lastUsed \in Nat /\ GetChangeCount \in 0 .. SIZE /\ First \in Int
  BY Positions DEF IInv, TypeOK, First
<1>2. sn \in Int /\ sn - First \in 0 .. GetChangeCount - 1 /\ ~IsEmpty
  BY <1>1, Positions DEF First, IInv
<1>3. GetSeqNumMin = First /\ GetSeqNumMax = lastUsed
  BY <1>2, Extremes
<1>4. ((sn % LowRange) - (First % LowRange)) % LowRange = sn - First
  <2>1. LowRange \in Nat /\ LowRange > 0 /\ 0 <= sn - First /\ sn - First < LowRange
    BY <1>1, <1>2
  <2> QED BY <1>1, <1>2, <2>1, WrappedDifference
<1>5. GetChangeBySN(sn) = buffer[At(sn - First)]
  BY <1>1, <1>2, <1>3, <1>4 DEF GetChangeBySN, Low
<1> QED BY <1>1, <1>2, <1>5 DEF IInv, WindowConsecutive

LEMMA LookupOutside ==
  ASSUME IInv, NEW sn \in Nat, sn \notin First .. lastUsed
  PROVE  GetChangeBySN(sn) = NoChange
<1>1. CASE IsEmpty
  BY <1>1 DEF GetChangeBySN, GetSeqNumMin, GetSeqNumMax, UNKNOWN
<1>2. CASE ~IsEmpty
  <2>1. First \in Int /\ lastUsed \in Int
    BY <1>2, Extremes DEF IInv, TypeOK
  <2> QED BY <1>2, <2>1, Extremes DEF GetChangeBySN
<1> QED BY <1>1, <1>2

\* A lookup finds a change if and only if it is held, and then finds that one,
\* however often the low word of the sequence number has wrapped.
THEOREM LookupIsExact == Spec => []LookupExact
<1>1. IInv => LookupExact
  BY LookupInWindow, LookupOutside DEF LookupExact
<1> QED BY <1>1, InitIInv, StepKeepsIInv, PTL DEF Spec

-----------------------------------------------------------------------------
(* The ring implements the abstract history.                               *)

Window == [sn \in First .. lastUsed |-> GetChangeBySN(sn).data]

\* The window's payloads, read off the slots.
LEMMA WindowPayloads ==
  IInv => Window = [sn \in First .. lastUsed |-> buffer[At(sn - First)].data]
  BY LookupInWindow DEF Window

LEMMA WindowPayloadsNext ==
  (IInv => Window = [sn \in First .. lastUsed |-> buffer[At(sn - First)].data])'
  BY WindowPayloads, PTL

LEMMA InitRefines == Init => History!Init
<1> SUFFICES ASSUME Init PROVE History!Init
  OBVIOUS
<1>1. First = 1 /\ lastUsed = 0
  BY DEF Init, First, GetChangeCount
<1> QED BY <1>1 DEF History!Init

LEMMA AddRefines ==
  ASSUME IInv, NEW d \in Data, AddChange(d)
  PROVE  History!Add(d)
<1>1. IInv'
  BY AddKeepsIInv
<1>2. PICK c \in 0 .. SIZE : c = GetChangeCount
  BY Positions DEF IInv
<1>3. lastUsed \in Nat /\ c <= lastUsed /\ lastUsed' = lastUsed + 1
  BY <1>2 DEF IInv, TypeOK, WindowConsecutive, AddChange
<1>4. \/ /\ c < SIZE
         /\ GetChangeCount' = c + 1
         /\ \A k \in 0 .. SIZE : After(tail', k) = At(k)
      \/ /\ c = SIZE
         /\ GetChangeCount' = c
         /\ \A k \in 0 .. SIZE - 1 : After(tail', k) = At(k + 1)
  BY <1>2, AddMoves
<1>5. First = lastUsed - c + 1
  BY <1>2 DEF First
<1>6. First' = IF c = SIZE THEN First + 1 ELSE First
  BY <1>3, <1>4, <1>5 DEF First
<1>7. ASSUME NEW sn \in First' .. lastUsed + 1
      PROVE  buffer'[After(tail', sn - First')].data =
               IF sn = lastUsed + 1 THEN d ELSE buffer[At(sn - First)].data
  <2>1. After(tail', sn - First') = At(sn - First)
    BY <1>3, <1>4, <1>5, <1>6
  <2>2. CASE sn = lastUsed + 1
    <3>1. sn - First = c
      BY <1>3, <1>5, <2>2
    <3>2. buffer'[At(c)] = [sn |-> lastUsed + 1, data |-> d]
      BY <1>2, AddMoves, Zenon
    <3> QED BY <2>1, <2>2, <3>1, <3>2
  <2>3. CASE sn # lastUsed + 1
    <3>1. sn - First \in 0 .. c - 1
      BY <1>3, <1>5, <1>6, <2>3
    <3>2. buffer'[At(sn - First)] = buffer[At(sn - First)]
      BY <1>2, <3>1, AddMoves
    <3> QED BY <2>1, <2>3, <3>2
  <2> QED BY <2>2, <2>3
<1>9. Window' = [sn \in First' .. lastUsed + 1 |-> buffer'[After(tail', sn - First')].data]
  BY <1>1, <1>3, WindowPayloadsNext DEF At
<1>10. Window = [sn \in First .. lastUsed |-> buffer[At(sn - First)].data]
  BY WindowPayloads
<1>11. \A sn \in First' .. lastUsed + 1 :
         sn # lastUsed + 1 => buffer[At(sn - First)].data = Window[sn]
  BY <1>3, <1>5, <1>6, <1>10
<1>12. Window' = [sn \in First' .. lastUsed + 1 |->
                   IF sn = lastUsed + 1 THEN d ELSE Window[sn]]
  BY <1>7, <1>9, <1>11
<1>13. History!Full <=> c = SIZE
  BY <1>3, <1>5 DEF History!Full
<1> QED BY <1>3, <1>6, <1>12, <1>13 DEF History!Add, Window

LEMMA RemoveRefines ==
  ASSUME IInv, NEW n \in Int, RemoveUntilIncl(n)
  PROVE  [History!Next]_(History!vars)
<1>1. IInv'
  BY RemoveKeepsIInv
<1>2. PICK c \in 0 .. SIZE : c = GetChangeCount
  BY Positions DEF IInv
<1>3. /\ lastUsed \in Nat /\ lastUsed' = lastUsed /\ buffer' = buffer
      /\ First = lastUsed - c + 1
  BY <1>2 DEF IInv, TypeOK, First, RemoveUntilIncl
<1>4. c > 0
  BY <1>2, Positions DEF IInv, RemoveUntilIncl
<1>6. Window' = [sn \in First' .. lastUsed |-> buffer[After(tail', sn - First')].data]
  BY <1>1, <1>3, WindowPayloadsNext DEF At
<1>7. Window = [sn \in First .. lastUsed |-> buffer[At(sn - First)].data]
  BY WindowPayloads
<1>8. ASSUME NEW k \in 1 .. c, First' = First + k,
             \A j \in 0 .. c - k - 1 : After(tail', j) = At(k + j)
      PROVE  History!Next
  <2>1. First' - 1 \in First .. lastUsed
    BY <1>3, <1>8
  <2>2. \A sn \in First' .. lastUsed : After(tail', sn - First') = At(sn - First)
    <3> SUFFICES ASSUME NEW sn \in First' .. lastUsed
                 PROVE  After(tail', sn - First') = At(sn - First)
      OBVIOUS
    <3>1. sn - First' \in 0 .. c - k - 1 /\ k + (sn - First') = sn - First
      BY <1>3, <1>8
    <3> QED BY <1>8, <3>1
  <2>3. Window' = [sn \in First' .. lastUsed |-> Window[sn]]
    BY <1>3, <1>6, <1>7, <1>8, <2>2
  <2>4. First \in Int /\ First' \in Int /\ First' = (First' - 1) + 1
    BY <1>3, <1>8
  <2>5. Window' = [sn \in (First' - 1) + 1 .. lastUsed |-> Window[sn]]
    BY <2>3, <2>4, Zenon
  <2>6. History!Forget(First' - 1)
    BY <1>3, <2>1, <2>4, <2>5 DEF History!Forget, Window
  <2> QED BY <2>1, <2>6 DEF History!Next
<1>9. CASE head' = tail /\ tail' = tail
  <2>1. GetChangeCount' = 0
    BY <1>9 DEF IInv, TypeOK, GetChangeCount
  <2>2. First' = First + c
    BY <1>3, <2>1 DEF First
  <2> QED BY <1>4, <1>8, <2>2
<1>10. ASSUME NEW k \in 0 .. c - 1, tail' = At(k), head' = head
       PROVE  [History!Next]_(History!vars)
  <2>1. GetChangeCount' = c - k
    BY <1>2, <1>10 DEF IInv, TypeOK, GetChangeCount, At, After
  <2>2. First' = First + k
    BY <1>3, <2>1 DEF First
  <2>3. \A j \in 0 .. c - k - 1 : After(tail', j) = At(k + j)
    BY <1>2, <1>10 DEF IInv, TypeOK, At, After
  <2>4. CASE k = 0
    <3>1. First' = First
      BY <1>3, <2>2, <2>4
    <3>2. \A sn \in First .. lastUsed : After(tail', sn - First) = At(sn - First)
      BY <1>3, <2>3, <2>4
    <3>3. Window' = Window
      BY <1>6, <1>7, <3>1, <3>2
    <3> QED BY <1>3, <3>1, <3>3 DEF History!vars, Window
  <2>5. CASE k > 0
    BY <1>8, <2>2, <2>3, <2>5
  <2> QED BY <2>4, <2>5
<1> QED BY <1>2, <1>9, <1>10 DEF RemoveUntilIncl

\* Every behaviour of the ring, seen through First and getChangeBySN, is a
\* behaviour of the abstract history: no change is lost, kept too long or
\* returned under another's number.
THEOREM RingImplementsHistory == Spec => ImplementsHistory
<1>1. Init => History!Init
  BY InitRefines
<1>2. IInv /\ [Next]_vars => [History!Next]_(History!vars)
  <2> SUFFICES ASSUME IInv, [Next]_vars PROVE [History!Next]_(History!vars)
    OBVIOUS
  <2>1. ASSUME NEW d \in Data, AddChange(d) PROVE History!Next
    BY <2>1, AddRefines DEF History!Next
  <2>2. ASSUME NEW sn \in SN, RemoveUntilIncl(sn) PROVE [History!Next]_(History!vars)
    BY <2>2, RemoveRefines DEF SN
  <2>3. CASE DropOldest
    <3>1. GetSeqNumMin \in Int
      BY DEF IInv, TypeOK, GetSeqNumMin, Change, UNKNOWN
    <3> QED BY <2>3, <3>1, RemoveRefines DEF DropOldest
  <2>4. CASE UNCHANGED vars
    BY <2>4 DEF vars, History!vars, First, GetChangeCount, GetChangeBySN, GetSeqNumMin,
                GetSeqNumMax, IsEmpty, At
  <2> QED BY <2>1, <2>2, <2>3, <2>4 DEF Next
<1> QED BY <1>1, <1>2, InitIInv, StepKeepsIInv, PTL DEF Spec, ImplementsHistory, History!Spec
=============================================================================
