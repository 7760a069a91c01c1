------------------------ MODULE StatefulReaderProofs ------------------------
(***************************************************************************)
(* Theorems about StatefulReader, for any number of writers, of proxy      *)
(* slots and of changes: its types, and what it promises between two       *)
(* matches of a writer.  All of it rests on one relation between what was  *)
(* delivered and the expected number of the proxy that stands for the      *)
(* writer, the first of its slots.                                         *)
(***************************************************************************)
EXTENDS StatefulReader, SequenceTheorems, WellFoundedInduction, TLAPS

-----------------------------------------------------------------------------
(* Lemmas about the operators.                                             *)

LEMMA FirstOfProperties ==
  ASSUME NEW S \in SUBSET Nat, S # {}
  PROVE  FirstOf(S) \in S /\ \A j \in S : FirstOf(S) <= j
<1>1. IsWellFoundedOn({ss \in Nat \X Nat : ss[1] < ss[2]}, Nat)
  BY NatLessThanWellFounded DEF OpToRel
<1>2. PICK i \in S : \A j \in S : ~(<<j, i>> \in {ss \in Nat \X Nat : ss[1] < ss[2]})
  BY <1>1, WFMin, Zenon
<1>3. \A j \in S : i <= j
  <2> SUFFICES ASSUME NEW j \in S PROVE ~(j < i)
    OBVIOUS
  <2>1. j \in Nat /\ i \in Nat /\ ~(<<j, i>> \in {ss \in Nat \X Nat : ss[1] < ss[2]})
    BY <1>2
  <2> QED BY <2>1
<1> QED BY <1>3 DEF FirstOf

\* A matched writer's first slot is one of the pool's, in use, and holds it.
LEMMA SlotOfMatched ==
  ASSUME TypeOK, NEW w \in Writers, Matched(w)
  PROVE  SlotOf(w) \in used /\ SlotOf(w) \in Slots /\ proxies[SlotOf(w)].writer = w
<1>1. SlotsOf(w) \in SUBSET Nat /\ SlotsOf(w) # {}
  <2>1. Slots \subseteq Nat
    BY DEF Slots
  <2> QED BY <2>1 DEF TypeOK, SlotsOf, Matched
<1>2. SlotOf(w) \in SlotsOf(w)
  BY <1>1, FirstOfProperties DEF SlotOf
<1> QED BY <1>2 DEF SlotsOf, TypeOK

LEMMA FreeSlot ==
  ASSUME TypeOK, Free # {}
  PROVE  FirstOf(Free) \in Slots /\ FirstOf(Free) \notin used
<1>1. Free \in SUBSET Nat
  BY DEF Free, Slots
<1> QED BY <1>1, FirstOfProperties DEF Free

LEMMA NewProxyType == \A w \in Writers \cup {NoWriter} : NewProxy(w) \in Proxy
  BY DEF NewProxy, Proxy

\* What the handlers set in a proxy leaves its writer alone.
LEMMA MovedProxy ==
  ASSUME NEW p \in Proxy, NEW n \in Int
  PROVE  LET q == [p EXCEPT !.expectedSN = n]
         IN  q \in Proxy /\ q.writer = p.writer /\ q.expectedSN = n
  BY DEF Proxy

Answered(p, c, n) ==
  [p EXCEPT !.hbCount = c, !.expectedSN = n, !.ackNackCount = @ + 1]

LEMMA AnsweredProxy ==
  ASSUME NEW p \in Proxy, NEW c \in Nat, NEW n \in Int
  PROVE  /\ Answered(p, c, n) \in Proxy
         /\ Answered(p, c, n).writer = p.writer
         /\ Answered(p, c, n).expectedSN = n
<1> DEFINE q == [p EXCEPT !.hbCount = c, !.expectedSN = n, !.ackNackCount = @ + 1]
           f == [writer |-> p.writer, expectedSN |-> n,
                 ackNackCount |-> p.ackNackCount + 1, hbCount |-> c]
<1>1. /\ DOMAIN p = {"writer", "expectedSN", "ackNackCount", "hbCount"}
      /\ p.ackNackCount + 1 \in Nat /\ p.writer \in Writers \cup {NoWriter}
  BY DEF Proxy
<1>2. DOMAIN q = DOMAIN p /\ DOMAIN f = DOMAIN p
  BY <1>1
<1>3. q.writer = p.writer
  BY <1>1
<1>4. q.expectedSN = n
  BY <1>1
<1>5. q.hbCount = c
  BY <1>1
<1>6. q.ackNackCount = p.ackNackCount + 1
  BY <1>1
<1>7. \A x \in DOMAIN q : q[x] = f[x]
  <2>1. /\ f.writer = p.writer /\ f.expectedSN = n
        /\ f.hbCount = c /\ f.ackNackCount = p.ackNackCount + 1
    OBVIOUS
  <2> HIDE DEF q, f
  <2> QED BY <1>1, <1>2, <1>3, <1>4, <1>5, <1>6, <2>1
<1>8. q = f
  BY <1>2, <1>7
<1>9. q \in Proxy
  BY <1>1, <1>8 DEF Proxy
<1> QED BY <1>3, <1>4, <1>9 DEF Answered

\* getMissing never moves back, and moves no further than to the oldest change
\* the writer still has.
LEMMA BaseRises ==
  ASSUME NEW expected \in Int, NEW firstSN \in Int
  PROVE  LET base == Base(expected, firstSN)
         IN  /\ base \in Int
             /\ base >= expected /\ base >= firstSN
             /\ base = expected \/ base = firstSN
  BY DEF Base

LEMMA NumbersType == SN \subseteq Nat /\ Announced \subseteq Nat /\ 1 .. MaxHB \subseteq Nat
  BY ReaderAssumption DEF SN, Announced

\* One delivery makes a writer's log longer by one change.
LEMMA DeliverEffect ==
  ASSUME TypeOK, NEW w \in Writers, NEW sn \in SN, Deliver(w, sn)
  PROVE  /\ delivered' \in [Writers -> Seq(Nat)]
         /\ \A v \in Writers \ {w} : delivered'[v] = delivered[v]
         /\ Len(delivered[w]) \in Nat
         /\ Len(delivered'[w]) = Len(delivered[w]) + 1
         /\ \A i \in 1 .. Len(delivered[w]) : delivered'[w][i] = delivered[w][i]
         /\ delivered'[w][Len(delivered[w]) + 1] = sn
<1>1. delivered[w] \in Seq(Nat) /\ sn \in Nat
  BY NumbersType DEF TypeOK
<1>2. delivered'[w] = Append(delivered[w], sn)
  BY DEF Deliver, TypeOK
<1>3. delivered'[w] \in Seq(Nat)
  BY <1>1, <1>2, AppendProperties
<1>4. \A v \in Writers \ {w} : delivered'[v] = delivered[v]
  BY DEF Deliver, TypeOK
<1>5. delivered' \in [Writers -> Seq(Nat)]
  BY <1>1, <1>3, AppendProperties DEF Deliver, TypeOK
<1> QED BY <1>1, <1>2, <1>4, <1>5, AppendProperties, LenProperties

-----------------------------------------------------------------------------
(* Type correctness.                                                       *)

LEMMA InitTypeOK == Init => TypeOK
<1> SUFFICES ASSUME Init PROVE TypeOK
  OBVIOUS
<1>1. proxies \in [Slots -> Proxy]
  BY NewProxyType DEF Init
<1>2. delivered \in [Writers -> Seq(Nat)]
  BY EmptySeq DEF Init
<1>3. -1 \in Int /\ used \subseteq Slots
  BY DEF Init
<1> QED BY <1>1, <1>2, <1>3, Zenon DEF Init, TypeOK, UNKNOWN

LEMMA NewChangeTypeOK ==
  ASSUME TypeOK, NEW w \in Writers, NEW sn \in SN, NewChange(w, sn)
  PROVE  TypeOK'
<1> USE DEF callback_vars, proxy_vars, pending_vars, count_vars, log_vars
<1>1. sn \in Nat
  BY NumbersType
<1>2. received' \in Nat
  BY DEF NewChange, TypeOK
<1>3. CASE DropOld(w, sn)
  BY <1>2, <1>3 DEF NewChange, DropOld, TypeOK
<1>4. CASE AcceptMatched(w, sn)
  <2>1. proxies' \in [Slots -> Proxy]
    <3>1. SlotOf(w) \in Slots
      BY <1>4, SlotOfMatched DEF AcceptMatched
    <3>2. proxies[SlotOf(w)] \in Proxy
      BY <3>1 DEF TypeOK
    <3>3. [proxies[SlotOf(w)] EXCEPT !.expectedSN = sn + 1] \in Proxy
      BY <1>1, <3>2 DEF Proxy
    <3>4. proxies' = [proxies EXCEPT ![SlotOf(w)] =
                        [proxies[SlotOf(w)] EXCEPT !.expectedSN = sn + 1]]
      BY <1>4, Zenon DEF AcceptMatched
    <3> QED BY <3>1, <3>3, <3>4, Zenon DEF TypeOK
  <2>2. delivered' \in [Writers -> Seq(Nat)]
    BY <1>4, DeliverEffect DEF AcceptMatched
  <2> QED BY <1>2, <1>4, <2>1, <2>2 DEF NewChange, AcceptMatched, TypeOK
<1>5. CASE AcceptEarly(w, sn)
  <2>1. delivered' \in [Writers -> Seq(Nat)]
    BY <1>5, DeliverEffect DEF AcceptEarly
  <2>2. /\ pendingGuid' \in Writers \cup {NoWriter} /\ pendingNextSN' \in Int
        /\ early' \in Nat /\ unmatched' \in [Writers -> SUBSET Nat]
    BY <1>1, <1>5 DEF AcceptEarly, TypeOK
  <2> QED BY <1>2, <1>5, <2>1, <2>2 DEF NewChange, AcceptEarly, TypeOK
<1> QED BY <1>3, <1>4, <1>5 DEF NewChange

LEMMA MatchingTypeOK ==
  ASSUME TypeOK, Matching
  PROVE  TypeOK'
<1> USE DEF callback_vars, proxy_vars, pending_vars, count_vars, log_vars
<1>1. ASSUME NEW w \in Writers, AddNewMatchedWriter(w)
      PROVE  TypeOK'
  <2>1. FirstOf(Free) \in Slots
    BY <1>1, FreeSlot DEF AddNewMatchedWriter
  <2>2. NewProxy(w) \in Proxy /\ [NewProxy(w) EXCEPT !.expectedSN = pendingNextSN] \in Proxy
    BY NewProxyType, MovedProxy DEF TypeOK
  <2>3. proxies' \in [Slots -> Proxy]
    BY <1>1, <2>1, <2>2 DEF AddNewMatchedWriter, TypeOK
  <2>4. Len(delivered[w]) \in Nat
    BY LenProperties DEF TypeOK
  <2>5. used' \subseteq Slots /\ since' \in [Writers -> Nat]
    BY <1>1, <2>1, <2>4 DEF AddNewMatchedWriter, TypeOK
  <2> QED BY <1>1, <2>3, <2>5 DEF AddNewMatchedWriter, TypeOK
<1>2. ASSUME NEW S, RemoveWriters(S)
      PROVE  TypeOK'
  BY <1>2 DEF RemoveWriters, TypeOK
<1> QED BY <1>1, <1>2 DEF Matching, RemoveWriter, RemoveWriterOfParticipant

\* What a heartbeat leaves in the first slot of its writer.
LEMMA HeartbeatEffect ==
  ASSUME TypeOK, NEW w \in Writers, NEW firstSN \in Announced,
         NEW count \in 1 .. MaxHB, OnNewHeartbeat(w, firstSN, count)
  PROVE  /\ proxies' \in [Slots -> Proxy]
         /\ \A i \in Slots \ {SlotOf(w)} : proxies'[i] = proxies[i]
         /\ proxies'[SlotOf(w)].writer = w
         /\ LET old == proxies[SlotOf(w)].expectedSN
                new == proxies'[SlotOf(w)].expectedSN
            IN  old \in Int /\ new \in Int /\ new >= old /\ (new = old \/ new = firstSN)
<1> DEFINE slot == SlotOf(w)
           base == Base(proxies[slot].expectedSN, firstSN)
           new == Answered(proxies[slot], count, base)
<1>1. slot \in Slots /\ proxies[slot].writer = w /\ proxies[slot] \in Proxy
  BY SlotOfMatched DEF OnNewHeartbeat, TypeOK
<1>2. firstSN \in Nat /\ count \in Nat
  BY NumbersType
<1>4. base \in Int /\ base >= proxies[slot].expectedSN
        /\ (base = proxies[slot].expectedSN \/ base = firstSN)
  <2>1. proxies[slot].expectedSN \in Int
    BY <1>1 DEF Proxy
  <2> HIDE DEF slot
  <2> QED BY <1>2, <2>1 DEF Base
<1>5. proxies' = [proxies EXCEPT ![slot] = new]
  BY DEF OnNewHeartbeat, Answered
<1>6. new \in Proxy /\ new.writer = w /\ new.expectedSN = base
  <2> HIDE DEF base, slot
  <2>1. new \in Proxy /\ new.writer = proxies[slot].writer /\ new.expectedSN = base
    BY <1>1, <1>2, <1>4, AnsweredProxy
  <2> QED BY <1>1, <2>1, Zenon
<1> HIDE DEF new, base, slot
<1>7. /\ proxies' \in [Slots -> Proxy] /\ proxies'[slot] = new
      /\ \A i \in Slots \ {slot} : proxies'[i] = proxies[i]
  BY <1>1, <1>5, <1>6 DEF TypeOK
<1>8. proxies[slot].expectedSN \in Int
  BY <1>1 DEF Proxy
<1> QED BY <1>4, <1>6, <1>7, <1>8 DEF slot

LEMMA NextTypeOK ==
  ASSUME TypeOK, [Next]_vars
  PROVE  TypeOK'
<1> USE DEF callback_vars, proxy_vars, pending_vars, count_vars, log_vars
<1>1. CASE SetCallback \/ SetCallee
  BY <1>1 DEF SetCallback, SetCallee, TypeOK
<1>2. CASE ReceiveData
  BY <1>2, NewChangeTypeOK DEF ReceiveData
<1>3. ASSUME NEW w \in Writers, NEW firstSN \in Announced,
             NEW count \in 1 .. MaxHB, OnNewHeartbeat(w, firstSN, count)
      PROVE  TypeOK'
  <2>1. proxies' \in [Slots -> Proxy]
    BY <1>3, HeartbeatEffect
  <2>2. gone' \in [Writers -> Nat]
    BY <1>3, NumbersType DEF OnNewHeartbeat, TypeOK
  <2> QED BY <1>3, <2>1, <2>2 DEF OnNewHeartbeat, TypeOK
<1>4. CASE Matching
  BY <1>4, MatchingTypeOK
<1>5. CASE UNCHANGED vars
  BY <1>5 DEF TypeOK, vars
<1> QED BY <1>1, <1>2, <1>3, <1>4, <1>5 DEF Next, ReceiveHeartbeat

\* Whatever the network does and whoever is matched or removed, every slot, number
\* and count stays in its range.
THEOREM TypeCorrect == Spec => []TypeOK
  BY InitTypeOK, NextTypeOK, PTL DEF Spec

-----------------------------------------------------------------------------
(* The order of what is delivered.                                         *)

Expected(w) == proxies[SlotOf(w)].expectedSN

\* The strengthening: everything delivered since the match is below what the
\* proxy expects.
OrderOf(w) ==
  /\ since[w] <= Len(delivered[w])
  /\ Matched(w) =>
       /\ \A i \in since[w] + 1 .. Len(delivered[w]) : delivered[w][i] < Expected(w)
       /\ \A i, j \in since[w] + 1 .. Len(delivered[w]) :
            i < j => delivered[w][i] < delivered[w][j]

OrderInv == \A w \in Writers : OrderOf(w)

\* A writer whose slots stay has the same first slot.
LEMMA SlotsStay ==
  ASSUME NEW w, SlotsOf(w)' = SlotsOf(w)
  PROVE  (Matched(w)' <=> Matched(w)) /\ SlotOf(w)' = SlotOf(w)
  BY DEF Matched, SlotOf, FirstOf

\* What the accepting and the dropping of a change, and a heartbeat, leave of the
\* slots: who is in them.
LEMMA WritersStay ==
  ASSUME TypeOK, used' = used,
         \A i \in Slots : proxies'[i].writer = proxies[i].writer
  PROVE  \A w \in Writers : SlotsOf(w)' = SlotsOf(w)
  BY DEF SlotsOf, TypeOK

LEMMA AcceptEffect ==
  ASSUME TypeOK, NEW w \in Writers, NEW sn \in SN, AcceptMatched(w, sn)
  PROVE  /\ \A i \in Slots : proxies'[i].writer = proxies[i].writer
         /\ \A i \in Slots \ {SlotOf(w)} : proxies'[i] = proxies[i]
         /\ proxies'[SlotOf(w)].expectedSN = sn + 1
         /\ sn \in Nat /\ sn >= Expected(w) /\ Expected(w) \in Int
<1>1. SlotOf(w) \in Slots
  BY SlotOfMatched DEF AcceptMatched
<1>2. proxies[SlotOf(w)] \in Proxy
  BY <1>1 DEF TypeOK
<1>3. sn \in Nat /\ sn + 1 \in Int
  BY NumbersType
<1> DEFINE moved == [proxies[SlotOf(w)] EXCEPT !.expectedSN = sn + 1]
<1>4. moved.writer = proxies[SlotOf(w)].writer /\ moved.expectedSN = sn + 1
  BY <1>2, <1>3, MovedProxy
<1>5. proxies' = [proxies EXCEPT ![SlotOf(w)] = moved]
  BY Zenon DEF AcceptMatched
<1> HIDE DEF moved
<1>6. proxies[SlotOf(w)].expectedSN \in Int
  BY <1>2 DEF Proxy
<1>7. sn >= proxies[SlotOf(w)].expectedSN
  BY DEF AcceptMatched
<1> QED BY <1>1, <1>3, <1>4, <1>5, <1>6, <1>7 DEF TypeOK, Expected

\* A step that leaves a writer's log and slots alone and moves its proxy up, if
\* at all, keeps its order.
LEMMA OrderStays ==
  ASSUME TypeOK, NEW w \in Writers, OrderOf(w), SlotsOf(w)' = SlotsOf(w),
         delivered'[w] = delivered[w], since'[w] = since[w],
         Matched(w) => Expected(w)' \in Int /\ Expected(w)' >= Expected(w)
  PROVE  OrderOf(w)'
<1>1. (Matched(w)' <=> Matched(w))
  BY SlotsStay
<1>2. delivered[w] \in Seq(Nat) /\ since[w] \in Nat
  BY DEF TypeOK
<1>3. Len(delivered[w]) \in Nat
        /\ \A i \in 1 .. Len(delivered[w]) : delivered[w][i] \in Nat
  BY <1>2, LenProperties, ElementOfSeq
<1>4. ASSUME Matched(w)
      PROVE  Expected(w) \in Int
  <2>1. SlotOf(w) \in Slots
    BY <1>4, SlotOfMatched
  <2>2. proxies[SlotOf(w)] \in Proxy
    BY <2>1 DEF TypeOK
  <2> QED BY <2>2 DEF Expected, Proxy
<1>5. ASSUME Matched(w), NEW i \in since[w] + 1 .. Len(delivered[w])
      PROVE  delivered[w][i] < Expected(w)'
  BY <1>2, <1>3, <1>4, <1>5 DEF OrderOf
<1> QED BY <1>1, <1>5 DEF OrderOf

LEMMA NewChangeKeepsOrder ==
  ASSUME TypeOK, OrderInv, NEW w \in Writers, NEW sn \in SN, NewChange(w, sn)
  PROVE  OrderInv'
<1> USE DEF callback_vars, proxy_vars, pending_vars, count_vars, log_vars
<1> SUFFICES ASSUME NEW v \in Writers PROVE OrderOf(v)'
  BY DEF OrderInv
<1>1. OrderOf(v) /\ used' = used /\ since' = since /\ since[v] \in Nat
  BY DEF OrderInv, NewChange, TypeOK
<1>2. Matched(v) => Expected(v) \in Int
  <2>1. Matched(v) => SlotOf(v) \in Slots
    BY SlotOfMatched
  <2>2. Matched(v) => proxies[SlotOf(v)] \in Proxy
    BY <2>1 DEF TypeOK
  <2> QED BY <2>2 DEF Expected, Proxy
<1>3. CASE DropOld(w, sn)
  <2>1. SlotsOf(v)' = SlotsOf(v) /\ delivered' = delivered /\ proxies' = proxies
    BY <1>1, <1>3, WritersStay DEF DropOld
  <2>2. Expected(v)' = Expected(v)
    BY <2>1, SlotsStay DEF Expected
  <2> QED BY <1>1, <1>2, <2>1, <2>2, OrderStays
<1>4. CASE AcceptMatched(w, sn)
  <2>1. SlotsOf(v)' = SlotsOf(v)
    BY <1>1, <1>4, AcceptEffect, WritersStay
  <2>2. (Matched(v)' <=> Matched(v)) /\ SlotOf(v)' = SlotOf(v)
    BY <2>1, SlotsStay
  <2>3. CASE v = w
    <3>1. Expected(v)' = sn + 1
      BY <1>4, <2>2, <2>3, AcceptEffect DEF Expected
    <3>2. sn \in Nat /\ sn >= Expected(v) /\ Expected(v) \in Int /\ Matched(v)
      BY <1>4, <2>3, AcceptEffect DEF AcceptMatched
    <3>3. /\ Len(delivered[v]) \in Nat
          /\ Len(delivered'[v]) = Len(delivered[v]) + 1
          /\ \A i \in 1 .. Len(delivered[v]) : delivered'[v][i] = delivered[v][i]
          /\ delivered'[v][Len(delivered[v]) + 1] = sn
      BY <1>4, <2>3, DeliverEffect DEF AcceptMatched
    <3>4. \A i \in 1 .. Len(delivered[v]) : delivered[v][i] \in Nat
      BY LenProperties, ElementOfSeq DEF TypeOK
    <3>5. ASSUME NEW i \in since[v] + 1 .. Len(delivered[v])
          PROVE  delivered'[v][i] < sn
      <4>1. i \in 1 .. Len(delivered[v])
        BY <1>1, <3>3
      <4>2. delivered[v][i] < Expected(v)
        BY <1>1, <3>2, <3>5 DEF OrderOf
      <4> QED BY <3>2, <3>3, <3>4, <4>1, <4>2
    <3>6. \A i \in since[v] + 1 .. Len(delivered'[v]) : delivered'[v][i] < sn + 1
      <4> SUFFICES ASSUME NEW i \in since[v] + 1 .. Len(delivered'[v])
                   PROVE  delivered'[v][i] < sn + 1
        OBVIOUS
      <4>1. CASE i = Len(delivered[v]) + 1
        BY <3>2, <3>3, <4>1
      <4>2. CASE i \in since[v] + 1 .. Len(delivered[v])
        <5>1. i \in 1 .. Len(delivered[v])
          BY <1>1, <3>3, <4>2
        <5> QED BY <3>2, <3>3, <3>4, <3>5, <4>2, <5>1
      <4> QED BY <1>1, <3>3, <4>1, <4>2
    <3>7. \A i, j \in since[v] + 1 .. Len(delivered'[v]) :
            i < j => delivered'[v][i] < delivered'[v][j]
      <4> SUFFICES ASSUME NEW i \in since[v] + 1 .. Len(delivered'[v]),
                          NEW j \in since[v] + 1 .. Len(delivered'[v]), i < j
                   PROVE  delivered'[v][i] < delivered'[v][j]
        OBVIOUS
      <4>1. i \in since[v] + 1 .. Len(delivered[v])
        BY <1>1, <3>3
      <4>2. CASE j = Len(delivered[v]) + 1
        BY <3>3, <3>5, <4>1, <4>2
      <4>3. CASE j \in since[v] + 1 .. Len(delivered[v])
        BY <1>1, <3>2, <3>3, <4>1, <4>3 DEF OrderOf
      <4> QED BY <1>1, <3>3, <4>2, <4>3
    <3>8. since'[v] <= Len(delivered'[v])
      BY <1>1, <3>3 DEF OrderOf
    <3> QED BY <1>1, <3>1, <3>6, <3>7, <3>8 DEF OrderOf
  <2>4. CASE v # w
    <3>1. delivered'[v] = delivered[v]
      BY <1>4, <2>4, DeliverEffect DEF AcceptMatched
    <3>2. ASSUME Matched(v)
          PROVE  Expected(v)' = Expected(v)
      <4>1. SlotOf(v) \in Slots /\ SlotOf(v) # SlotOf(w)
        BY <1>4, <2>4, <3>2, SlotOfMatched DEF AcceptMatched
      <4> QED BY <1>4, <2>2, <4>1, AcceptEffect DEF Expected
    <3> QED BY <1>1, <1>2, <2>1, <3>1, <3>2, OrderStays
  <2> QED BY <2>3, <2>4
<1>5. CASE AcceptEarly(w, sn)
  <2>1. SlotsOf(v)' = SlotsOf(v) /\ proxies' = proxies
    BY <1>1, <1>5, WritersStay DEF AcceptEarly
  <2>2. Expected(v)' = Expected(v) /\ (Matched(v)' <=> Matched(v))
    BY <2>1, SlotsStay DEF Expected
  <2>3. CASE v = w
    <3>1. ~Matched(v)' /\ Len(delivered[v]) \in Nat
          /\ Len(delivered'[v]) = Len(delivered[v]) + 1
      BY <1>5, <2>2, <2>3, DeliverEffect DEF AcceptEarly
    <3> QED BY <1>1, <3>1 DEF OrderOf
  <2>4. CASE v # w
    <3>1. delivered'[v] = delivered[v]
      BY <1>5, <2>4, DeliverEffect DEF AcceptEarly
    <3> QED BY <1>1, <1>2, <2>1, <2>2, <3>1, OrderStays
  <2> QED BY <2>3, <2>4
<1> QED BY <1>3, <1>4, <1>5 DEF NewChange

LEMMA MatchingKeepsOrder ==
  ASSUME TypeOK, OrderInv, Matching
  PROVE  OrderInv'
<1> USE DEF callback_vars, proxy_vars, pending_vars, count_vars, log_vars
<1> SUFFICES ASSUME NEW v \in Writers PROVE OrderOf(v)'
  BY DEF OrderInv
<1>1. OrderOf(v) /\ since[v] \in Nat /\ Len(delivered[v]) \in Nat
  BY LenProperties DEF OrderInv, TypeOK
<1>2. Matched(v) => SlotOf(v) \in used /\ Expected(v) \in Int
  <2>1. Matched(v) => SlotOf(v) \in Slots /\ SlotOf(v) \in used
    BY SlotOfMatched
  <2>2. Matched(v) => proxies[SlotOf(v)] \in Proxy
    BY <2>1 DEF TypeOK
  <2> QED BY <2>1, <2>2 DEF Expected, Proxy
<1>3. ASSUME NEW w \in Writers, AddNewMatchedWriter(w)
      PROVE  OrderOf(v)'
  <2>1. FirstOf(Free) \in Slots /\ FirstOf(Free) \notin used
    BY <1>3, FreeSlot DEF AddNewMatchedWriter
  <2>2. delivered' = delivered
    BY <1>3 DEF AddNewMatchedWriter
  <2>3. CASE v = w
    <3>1. since'[v] = Len(delivered'[v])
      BY <1>3, <2>2, <2>3 DEF AddNewMatchedWriter, TypeOK
    <3>2. \A i \in since'[v] + 1 .. Len(delivered'[v]) : FALSE
      BY <1>1, <2>2, <3>1
    <3> QED BY <1>1, <2>2, <3>1, <3>2 DEF OrderOf
  <2>4. CASE v # w
    <3>1. /\ \A i \in used : proxies'[i] = proxies[i]
          /\ used' = used \cup {FirstOf(Free)}
      BY <1>3, <2>1 DEF AddNewMatchedWriter, TypeOK
    <3>2. proxies'[FirstOf(Free)].writer = w
      <4>1. \A n : [NewProxy(w) EXCEPT !.expectedSN = n].writer = w /\ NewProxy(w).writer = w
        BY DEF NewProxy
      <4> QED BY <1>3, <2>1, <4>1 DEF AddNewMatchedWriter, TypeOK
    <3>3. SlotsOf(v)' = SlotsOf(v)
      BY <2>4, <3>1, <3>2 DEF SlotsOf
    <3>4. Matched(v) => Expected(v)' = Expected(v)
      BY <1>2, <3>1, <3>3, SlotsStay DEF Expected
    <3>5. since'[v] = since[v]
      BY <1>3, <2>4 DEF AddNewMatchedWriter, TypeOK
    <3> QED BY <1>1, <1>2, <2>2, <3>3, <3>4, <3>5, OrderStays
  <2> QED BY <2>3, <2>4
<1>4. ASSUME NEW S, RemoveWriters(S)
      PROVE  OrderOf(v)'
  <2>1. proxies' = proxies /\ delivered' = delivered /\ since' = since
    BY <1>4 DEF RemoveWriters
  <2>2. CASE v \in S
    <3>1. ~Matched(v)'
      BY <1>4, <2>1, <2>2 DEF RemoveWriters, Matched, SlotsOf
    <3> QED BY <1>1, <2>1, <3>1 DEF OrderOf
  <2>3. CASE v \notin S
    <3>1. SlotsOf(v)' = SlotsOf(v)
      BY <1>4, <2>1, <2>3 DEF RemoveWriters, SlotsOf
    <3>2. Expected(v)' = Expected(v)
      BY <2>1, <3>1, SlotsStay DEF Expected
    <3> QED BY <1>1, <1>2, <2>1, <3>1, <3>2, OrderStays
  <2> QED BY <2>2, <2>3
<1> QED BY <1>3, <1>4 DEF Matching, RemoveWriter, RemoveWriterOfParticipant

LEMMA NextKeepsOrder ==
  ASSUME TypeOK, OrderInv, [Next]_vars
  PROVE  OrderInv'
<1> USE DEF callback_vars, proxy_vars, pending_vars, count_vars, log_vars
<1>1. CASE ReceiveData
  BY <1>1, NewChangeKeepsOrder DEF ReceiveData
<1>2. CASE Matching
  BY <1>2, MatchingKeepsOrder
<1>3. CASE SetCallback \/ SetCallee \/ UNCHANGED vars
  <2>1. UNCHANGED <<proxies, used, delivered, since>>
    BY <1>3 DEF SetCallback, SetCallee, vars
  <2>2. ASSUME NEW w PROVE Matched(w)' = Matched(w) /\ Expected(w)' = Expected(w)
    <3>1. SlotsOf(w)' = SlotsOf(w)
      BY <2>1 DEF SlotsOf
    <3>2. SlotOf(w)' = SlotOf(w)
      BY <3>1 DEF SlotOf
    <3> QED BY <2>1, <3>1, <3>2 DEF Matched, Expected
  <2> QED BY <2>1, <2>2 DEF OrderInv, OrderOf
<1>4. ASSUME NEW w \in Writers, NEW firstSN \in Announced,
             NEW count \in 1 .. MaxHB, OnNewHeartbeat(w, firstSN, count)
      PROVE  OrderInv'
  <2> SUFFICES ASSUME NEW v \in Writers PROVE OrderOf(v)'
    BY DEF OrderInv
  <2>1. /\ OrderOf(v)
        /\ used' = used /\ since' = since /\ delivered' = delivered
    BY <1>4 DEF OrderInv, OnNewHeartbeat
  <2>2. SlotOf(w) \in Slots /\ proxies[SlotOf(w)].writer = w
    BY <1>4, SlotOfMatched DEF OnNewHeartbeat
  <2>3. \A i \in Slots : proxies'[i].writer = proxies[i].writer
    BY <1>4, <2>2, HeartbeatEffect
  <2>4. SlotsOf(v)' = SlotsOf(v)
    BY <2>1, <2>3, WritersStay
  <2>5. ASSUME Matched(v)
        PROVE  Expected(v)' \in Int /\ Expected(v)' >= Expected(v)
    <3>1. SlotOf(v)' = SlotOf(v) /\ SlotOf(v) \in Slots
      BY <2>4, <2>5, SlotsStay, SlotOfMatched
    <3>2. CASE SlotOf(v) = SlotOf(w)
      BY <1>4, <3>1, <3>2, HeartbeatEffect DEF Expected
    <3>3. CASE SlotOf(v) # SlotOf(w)
      <4>1. proxies'[SlotOf(v)] = proxies[SlotOf(v)]
        BY <1>4, <3>1, <3>3, HeartbeatEffect
      <4>2. proxies[SlotOf(v)].expectedSN \in Int
        BY <3>1 DEF TypeOK, Proxy
      <4> QED BY <3>1, <4>1, <4>2 DEF Expected
    <3> QED BY <3>2, <3>3
  <2> QED BY <2>1, <2>4, <2>5, OrderStays
<1> QED BY <1>1, <1>2, <1>3, <1>4 DEF Next, ReceiveHeartbeat

LEMMA InitOrder == Init => OrderInv
<1> SUFFICES ASSUME Init, NEW w \in Writers PROVE OrderOf(w)
  BY DEF OrderInv
<1>1. ~Matched(w) /\ since[w] = 0 /\ Len(delivered[w]) = 0
  BY EmptySeq DEF Init, Matched, SlotsOf
<1> QED BY <1>1 DEF OrderOf

\* In every state what a matched writer's proxy expects is above everything the
\* callback was given of it since the match.
THEOREM OrderCorrect == Spec => []OrderInv
  BY InitTypeOK, NextTypeOK, InitOrder, NextKeepsOrder, PTL DEF Spec

\* From one match to the next the callback is given a writer's changes in the
\* order of their numbers, each at most once, for every network and every
\* interleaving with matches and removals of other writers.
THEOREM DeliveredInOrderOnce == Spec => []InOrderOnce
<1>1. OrderInv => InOrderOnce
  BY DEF OrderInv, OrderOf, InOrderOnce
<1> QED BY <1>1, OrderCorrect, PTL

\* No heartbeat, however old, makes the reader ask again for what it delivered.
THEOREM AsksForNothingTwice == Spec => []NeverAsksAgain
<1>1. TypeOK /\ OrderInv => NeverAsksAgain
  <2> SUFFICES ASSUME TypeOK, OrderInv, NEW w \in Writers, Matched(w), NEW sn \in Recent(w),
                      NEW firstSN \in Announced, NEW lastSN \in Announced
               PROVE  sn < AckNack(w, firstSN, lastSN).set.base
    BY DEF NeverAsksAgain
  <2>1. PICK i \in since[w] + 1 .. Len(delivered[w]) : sn = delivered[w][i]
    BY DEF Recent
  <2>2. sn < Expected(w)
    BY <2>1 DEF OrderInv, OrderOf
  <2>3. sn \in Nat
    <3>1. delivered[w] \in Seq(Nat) /\ since[w] \in Nat
      BY DEF TypeOK
    <3>2. i \in 1 .. Len(delivered[w])
      BY <2>1, <3>1, LenProperties
    <3> QED BY <2>1, <3>1, <3>2, ElementOfSeq
  <2>4. Expected(w) \in Int /\ firstSN \in Int /\ lastSN \in Int
    <3>1. SlotOf(w) \in Slots
      BY SlotOfMatched
    <3>2. proxies[SlotOf(w)] \in Proxy
      BY <3>1 DEF TypeOK
    <3> QED BY <3>2, NumbersType DEF Expected, Proxy
  <2>5. AckNack(w, firstSN, lastSN).set.base = Base(Expected(w), firstSN)
    BY DEF AckNack, GetMissing, Expected
  <2>6. Base(Expected(w), firstSN) \in Int /\ Base(Expected(w), firstSN) >= Expected(w)
    BY <2>4, BaseRises
  <2> QED BY <2>2, <2>3, <2>4, <2>5, <2>6
<1> QED BY <1>1, TypeCorrect, OrderCorrect, PTL

-----------------------------------------------------------------------------
(* What is refused was seen.                                               *)

\* Change n of writer w was delivered, or a newer one, or it is gone.
Seen(w, n) == n < gone[w] \/ \E i \in DOMAIN delivered[w] : n <= delivered[w][i]

\* The strengthening: not only the first slot of a writer but every slot in use,
\* and the pending slot, expects nothing above what was seen.
SeenInv ==
  /\ \A s \in used : \A n \in 1 .. proxies[s].expectedSN - 1 : Seen(proxies[s].writer, n)
  /\ \A s \in used : proxies[s].writer \in Writers
  /\ pendingGuid # NoWriter =>
       \E i \in DOMAIN delivered[pendingGuid] :
         delivered[pendingGuid][i] = pendingNextSN - 1

\* Logs only grow, and what is gone stays gone.
Grows(w) ==
  /\ \A i \in DOMAIN delivered[w] :
       i \in DOMAIN delivered'[w] /\ delivered'[w][i] = delivered[w][i]
  /\ gone'[w] >= gone[w]

LEMMA LogsGrow ==
  ASSUME TypeOK, Next, NEW w \in Writers
  PROVE  Grows(w)
<1> USE DEF callback_vars, proxy_vars, pending_vars, count_vars, log_vars
<1>1. gone[w] \in Nat /\ delivered[w] \in Seq(Nat)
  BY DEF TypeOK
<1>2. CASE SetCallback \/ SetCallee \/ Matching
  <2>1. delivered' = delivered /\ gone' = gone
    BY <1>2 DEF SetCallback, SetCallee, Matching, AddNewMatchedWriter, RemoveWriter,
                RemoveWriterOfParticipant, RemoveWriters
  <2> QED BY <1>1, <2>1 DEF Grows
<1>3. ASSUME NEW v \in Writers, NEW sn \in SN, NewChange(v, sn)
      PROVE  Grows(w)
  <2>1. gone' = gone
    BY <1>3 DEF NewChange
  <2>2. CASE delivered' = delivered
    BY <1>1, <2>1, <2>2 DEF Grows
  <2>3. CASE Deliver(v, sn)
    <3>1. CASE v # w
      <4>1. delivered'[w] = delivered[w]
        BY <2>3, <3>1, DeliverEffect
      <4> QED BY <1>1, <2>1, <4>1 DEF Grows
    <3>2. CASE v = w
      <4>1. /\ Len(delivered[w]) \in Nat /\ delivered'[w] \in Seq(Nat)
            /\ Len(delivered'[w]) = Len(delivered[w]) + 1
            /\ \A i \in 1 .. Len(delivered[w]) : delivered'[w][i] = delivered[w][i]
        BY <2>3, <3>2, DeliverEffect
      <4>2. /\ DOMAIN delivered[w] = 1 .. Len(delivered[w])
            /\ DOMAIN delivered'[w] = 1 .. Len(delivered[w]) + 1
        BY <1>1, <4>1, LenProperties
      <4>3. \A i \in 1 .. Len(delivered[w]) : i \in 1 .. Len(delivered[w]) + 1
        BY <4>1
      <4> QED BY <1>1, <2>1, <4>1, <4>2, <4>3 DEF Grows
    <3> QED BY <3>1, <3>2
  <2> QED BY <1>3, <2>2, <2>3 DEF NewChange, DropOld, AcceptMatched, AcceptEarly
<1>4. ASSUME NEW v \in Writers, NEW firstSN \in Announced,
             NEW count \in 1 .. MaxHB, OnNewHeartbeat(v, firstSN, count)
      PROVE  Grows(w)
  <2>1. delivered' = delivered
    BY <1>4 DEF OnNewHeartbeat
  <2>2. gone' = [gone EXCEPT ![v] = IF firstSN > gone[v] THEN firstSN ELSE gone[v]]
    BY <1>4 DEF OnNewHeartbeat
  <2>3. firstSN \in Nat
    BY NumbersType
  <2>4. gone'[w] >= gone[w]
    BY <1>1, <2>2, <2>3 DEF TypeOK
  <2> QED BY <2>1, <2>4 DEF Grows
<1> QED BY <1>2, <1>3, <1>4 DEF Next, ReceiveData, ReceiveHeartbeat

LEMMA SeenStays ==
  ASSUME TypeOK, TypeOK', NEW w \in Writers, NEW n \in Int, Grows(w), Seen(w, n)
  PROVE  Seen(w, n)'
<1>1. gone[w] \in Nat /\ gone'[w] \in Nat
  BY DEF TypeOK
<1> QED BY <1>1 DEF Grows, Seen

\* The last conjunct of SeenInv stays when the pending slot is left alone.
LEMMA PendingStays ==
  ASSUME TypeOK, Next, SeenInv, UNCHANGED pending_vars, pendingGuid' # NoWriter
  PROVE  \E i \in DOMAIN delivered'[pendingGuid'] :
           delivered'[pendingGuid'][i] = pendingNextSN' - 1
<1>1. pendingGuid' = pendingGuid /\ pendingNextSN' = pendingNextSN
  BY DEF pending_vars
<1>2. pendingGuid \in Writers
  BY <1>1 DEF TypeOK
<1>3. Grows(pendingGuid)
  BY <1>2, LogsGrow
<1> QED BY <1>1, <1>3 DEF Grows, SeenInv

LEMMA NewChangeKeepsSeen ==
  ASSUME TypeOK, TypeOK', Next, SeenInv, NEW w \in Writers, NEW sn \in SN, NewChange(w, sn)
  PROVE  SeenInv'
<1>1. used' = used /\ sn \in Nat /\ used \subseteq Slots
  BY NumbersType DEF NewChange, TypeOK
<1>2. ASSUME NEW s \in used, proxies'[s] = proxies[s], NEW n \in 1 .. proxies[s].expectedSN - 1
      PROVE  Seen(proxies[s].writer, n)'
  <2>1. proxies[s].writer \in Writers /\ Seen(proxies[s].writer, n)
    BY <1>2 DEF SeenInv
  <2>2. \A v \in Writers : Seen(v, n) => Seen(v, n)'
    BY LogsGrow, SeenStays
  <2> QED BY <1>2, <2>1, <2>2
<1>3. CASE DropOld(w, sn)
  <2>1. proxies' = proxies /\ UNCHANGED pending_vars
    BY <1>3 DEF DropOld
  <2>2. \A s \in used' : \A n \in 1 .. proxies'[s].expectedSN - 1 :
          Seen(proxies[s].writer, n)'
    BY <1>1, <1>2, <2>1
  <2> QED BY <1>1, <2>1, <2>2, PendingStays DEF SeenInv, Seen
<1>4. ASSUME Deliver(w, sn)
      PROVE  /\ \E i \in DOMAIN delivered'[w] : delivered'[w][i] = sn
             /\ \A n \in 1 .. sn : Seen(w, n)'
  <2>1. /\ delivered'[w] \in Seq(Nat) /\ Len(delivered'[w]) = Len(delivered[w]) + 1
        /\ Len(delivered[w]) \in Nat /\ delivered'[w][Len(delivered[w]) + 1] = sn
    BY <1>4, DeliverEffect
  <2>2. Len(delivered[w]) + 1 \in DOMAIN delivered'[w]
    BY <2>1, LenProperties
  <2> QED BY <1>1, <2>1, <2>2 DEF Seen
<1>5. CASE AcceptMatched(w, sn)
  <2>1. UNCHANGED pending_vars /\ Deliver(w, sn)
    BY <1>5 DEF AcceptMatched
  <2>2. SlotOf(w) \in used /\ proxies[SlotOf(w)].writer = w
    BY <1>5, SlotOfMatched DEF AcceptMatched
  <2>3. /\ \A i \in Slots : proxies'[i].writer = proxies[i].writer
        /\ \A i \in Slots \ {SlotOf(w)} : proxies'[i] = proxies[i]
        /\ proxies'[SlotOf(w)].expectedSN = sn + 1
    BY <1>5, AcceptEffect
  <2>4. ASSUME NEW s \in used', NEW n \in 1 .. proxies'[s].expectedSN - 1
        PROVE  Seen(proxies[s].writer, n)'
    <3>1. CASE s = SlotOf(w)
      <4>1. n \in 1 .. sn
        BY <1>1, <2>3, <2>4, <3>1
      <4> QED BY <1>4, <2>1, <2>2, <2>3, <3>1, <4>1, SlotOfMatched DEF Seen, TypeOK
    <3>2. CASE s # SlotOf(w)
      BY <1>1, <1>2, <2>3, <2>4, <3>2
    <3> QED BY <3>1, <3>2
  <2> QED BY <1>1, <2>1, <2>3, <2>4, PendingStays DEF SeenInv, Seen
<1>6. CASE AcceptEarly(w, sn)
  <2>1. proxies' = proxies /\ Deliver(w, sn) /\ pendingGuid' = w /\ pendingNextSN' = sn + 1
    BY <1>6 DEF AcceptEarly
  <2>2. \A s \in used' : \A n \in 1 .. proxies'[s].expectedSN - 1 :
          Seen(proxies[s].writer, n)'
    BY <1>1, <1>2, <2>1
  <2>3. sn = pendingNextSN' - 1
    BY <1>1, <2>1
  <2>4. \E i \in DOMAIN delivered'[pendingGuid'] :
          delivered'[pendingGuid'][i] = pendingNextSN' - 1
    BY <1>4, <2>1, <2>3
  <2> QED BY <1>1, <2>1, <2>2, <2>4 DEF SeenInv, Seen
<1> QED BY <1>3, <1>5, <1>6 DEF NewChange

LEMMA MatchingKeepsSeen ==
  ASSUME TypeOK, TypeOK', Next, SeenInv, Matching
  PROVE  SeenInv'
<1>1. delivered' = delivered /\ gone' = gone /\ UNCHANGED pending_vars
  BY DEF Matching, AddNewMatchedWriter, RemoveWriter, RemoveWriterOfParticipant,
         RemoveWriters, log_vars
<1>2. ASSUME NEW w \in Writers, AddNewMatchedWriter(w)
      PROVE  SeenInv'
  <2> DEFINE slot == FirstOf(Free)
  <2>1. /\ slot \in Slots /\ slot \notin used
        /\ used' = used \cup {slot}
        /\ \A s \in used : proxies'[s] = proxies[s]
    BY <1>2, FreeSlot DEF AddNewMatchedWriter, TypeOK
  <2>2. /\ proxies'[slot].writer = w
        /\ \/ proxies'[slot].expectedSN = 1
           \/ pendingGuid = w /\ proxies'[slot].expectedSN = pendingNextSN
    <3>1. \A n : /\ [NewProxy(w) EXCEPT !.expectedSN = n].writer = w
                 /\ [NewProxy(w) EXCEPT !.expectedSN = n].expectedSN = n
                 /\ NewProxy(w).writer = w /\ NewProxy(w).expectedSN = 1
      BY DEF NewProxy
    <3> QED BY <1>2, <2>1, <3>1 DEF AddNewMatchedWriter, TypeOK
  <2>3. ASSUME NEW n \in 1 .. proxies'[slot].expectedSN - 1
        PROVE  Seen(w, n)
    <3>1. CASE proxies'[slot].expectedSN = 1
      BY <3>1
    <3>2. CASE pendingGuid = w /\ proxies'[slot].expectedSN = pendingNextSN
      <4>1. PICK i \in DOMAIN delivered[w] : delivered[w][i] = pendingNextSN - 1
        BY <3>2, ReaderAssumption DEF SeenInv
      <4>2. n <= pendingNextSN - 1
        BY <3>2 DEF TypeOK
      <4> QED BY <4>1, <4>2 DEF Seen
    <3> QED BY <2>2, <3>1, <3>2
  <2> QED BY <1>1, <2>1, <2>2, <2>3 DEF SeenInv, Seen, pending_vars
<1>3. ASSUME NEW S, RemoveWriters(S)
      PROVE  SeenInv'
  <2>1. proxies' = proxies /\ used' \subseteq used
    BY <1>3 DEF RemoveWriters
  <2> QED BY <1>1, <2>1 DEF SeenInv, Seen, pending_vars
<1> QED BY <1>2, <1>3 DEF Matching, RemoveWriter, RemoveWriterOfParticipant

LEMMA HeartbeatKeepsSeen ==
  ASSUME TypeOK, TypeOK', Next, SeenInv, NEW w \in Writers, NEW firstSN \in Announced,
         NEW count \in 1 .. MaxHB,
         OnNewHeartbeat(w, firstSN, count)
  PROVE  SeenInv'
<1>1. /\ used' = used /\ used \subseteq Slots /\ delivered' = delivered
      /\ firstSN \in Nat /\ UNCHANGED pending_vars
  BY NumbersType DEF OnNewHeartbeat, TypeOK
<1>2. SlotOf(w) \in Slots /\ SlotOf(w) \in used /\ proxies[SlotOf(w)].writer = w
  BY SlotOfMatched DEF OnNewHeartbeat
<1>3. /\ \A s \in Slots : proxies'[s].writer = proxies[s].writer
      /\ \A s \in Slots \ {SlotOf(w)} : proxies'[s] = proxies[s]
  BY <1>2, HeartbeatEffect
<1>4. \/ proxies'[SlotOf(w)].expectedSN = proxies[SlotOf(w)].expectedSN
      \/ proxies'[SlotOf(w)].expectedSN = firstSN
  BY HeartbeatEffect
<1>5. gone'[w] >= firstSN /\ gone'[w] \in Nat
  <2>1. gone' = [gone EXCEPT ![w] = IF firstSN > gone[w] THEN firstSN ELSE gone[w]]
    BY DEF OnNewHeartbeat
  <2>2. gone[w] \in Nat /\ gone' \in [Writers -> Nat]
    BY DEF TypeOK
  <2> QED BY <1>1, <2>1, <2>2 DEF TypeOK
<1>6. ASSUME NEW s \in used, NEW n \in 1 .. proxies'[s].expectedSN - 1
      PROVE  Seen(proxies[s].writer, n)'
  <2>1. CASE proxies'[s].expectedSN = proxies[s].expectedSN
    <3>1. proxies[s].writer \in Writers /\ Seen(proxies[s].writer, n)
      BY <1>6, <2>1 DEF SeenInv
    <3>2. \A v \in Writers : Seen(v, n) => Seen(v, n)'
      BY LogsGrow, SeenStays
    <3> QED BY <1>1, <1>3, <3>1, <3>2
  <2>2. CASE s = SlotOf(w) /\ proxies'[s].expectedSN = firstSN
    <3>1. n < gone'[w]
      BY <1>1, <1>5, <1>6, <2>2
    <3> QED BY <1>2, <1>3, <2>2, <3>1 DEF Seen
  <2> QED BY <1>1, <1>3, <1>4, <2>1, <2>2
<1> QED BY <1>1, <1>3, <1>6, PendingStays DEF SeenInv, Seen

LEMMA NextKeepsSeen ==
  ASSUME TypeOK, TypeOK', SeenInv, [Next]_vars
  PROVE  SeenInv'
<1> USE DEF callback_vars, proxy_vars, pending_vars, count_vars, log_vars
<1>1. CASE SetCallback \/ SetCallee \/ UNCHANGED vars
  <2>1. UNCHANGED <<proxies, used, delivered, gone, pendingGuid, pendingNextSN>>
    BY <1>1 DEF SetCallback, SetCallee, vars
  <2> QED BY <2>1 DEF SeenInv, Seen
<1>2. CASE Next
  BY <1>1, <1>2, NewChangeKeepsSeen, MatchingKeepsSeen, HeartbeatKeepsSeen
    DEF Next, ReceiveData, ReceiveHeartbeat
<1> QED BY <1>1, <1>2

LEMMA InitSeen == Init => SeenInv
  BY DEF Init, SeenInv

\* Every number a reader will never take from a matched writer was delivered, or a
\* newer one was, or the writer announced that it dropped it.
THEOREM NothingLostUnseen == Spec => []NothingRefusedUnseen
<1>1. TypeOK /\ SeenInv => NothingRefusedUnseen
  <2> SUFFICES ASSUME TypeOK, SeenInv, NEW w \in Writers, Matched(w),
                      NEW n \in 1 .. proxies[SlotOf(w)].expectedSN - 1
               PROVE  Seen(w, n)
    BY DEF NothingRefusedUnseen, Seen
  <2> QED BY SlotOfMatched DEF SeenInv
<1>2. TypeOK /\ [Next]_vars => TypeOK'
  BY NextTypeOK
<1> QED BY <1>1, <1>2, InitTypeOK, InitSeen, NextKeepsSeen, PTL DEF Spec

-----------------------------------------------------------------------------
(* What was delivered before the match.                                    *)

\* The strengthening: every slot of a writer the pending slot still knows of, not
\* only the first.
EarlyOf(w) ==
  Pending(w) => \A s \in SlotsOf(w) : pendingNextSN <= proxies[s].expectedSN

EarlyInv == \A w \in Writers : EarlyOf(w)

\* A step that leaves the pending slot alone, and moves proxies up only.
LEMMA EarlyRises ==
  ASSUME TypeOK, TypeOK', EarlyInv, UNCHANGED <<pending_vars, unmatched>>,
         \A v \in Writers : SlotsOf(v)' \subseteq SlotsOf(v),
         \A i \in Slots : proxies[i].expectedSN <= proxies'[i].expectedSN
  PROVE  EarlyInv'
<1> SUFFICES ASSUME NEW v \in Writers, Pending(v)', NEW s \in SlotsOf(v)'
             PROVE  pendingNextSN' <= proxies'[s].expectedSN
  BY DEF EarlyInv, EarlyOf
<1>1. Pending(v) /\ pendingNextSN' = pendingNextSN
  BY DEF Pending, pending_vars
<1>2. s \in SlotsOf(v) /\ s \in Slots
  BY DEF SlotsOf, TypeOK
<1>3. pendingNextSN <= proxies[s].expectedSN
  BY <1>1, <1>2 DEF EarlyInv, EarlyOf
<1>4. proxies[s].expectedSN \in Int /\ proxies'[s].expectedSN \in Int /\ pendingNextSN \in Int
  BY <1>2 DEF TypeOK, Proxy
<1> QED BY <1>1, <1>2, <1>3, <1>4

LEMMA NewChangeKeepsEarly ==
  ASSUME TypeOK, TypeOK', EarlyInv, NEW w \in Writers, NEW sn \in SN, NewChange(w, sn)
  PROVE  EarlyInv'
<1> USE DEF callback_vars, proxy_vars, pending_vars, count_vars, log_vars
<1>1. used' = used
  BY DEF NewChange
<1>2. CASE DropOld(w, sn)
  BY <1>1, <1>2 DEF DropOld, EarlyInv, EarlyOf, Pending, SlotsOf
<1>3. CASE AcceptMatched(w, sn)
  <2>1. /\ \A i \in Slots : proxies'[i].writer = proxies[i].writer
        /\ \A i \in Slots \ {SlotOf(w)} : proxies'[i] = proxies[i]
        /\ proxies'[SlotOf(w)].expectedSN = sn + 1
        /\ sn \in Nat /\ sn >= Expected(w) /\ Expected(w) \in Int
    BY <1>3, AcceptEffect
  <2>2. \A v \in Writers : SlotsOf(v)' = SlotsOf(v)
    BY <1>1, <2>1, WritersStay
  <2>3. ASSUME NEW i \in Slots
        PROVE  proxies[i].expectedSN <= proxies'[i].expectedSN
    <3>1. proxies[i].expectedSN \in Int
      BY DEF TypeOK, Proxy
    <3> QED BY <2>1, <3>1 DEF Expected
  <2> QED BY <1>3, <2>2, <2>3, EarlyRises DEF AcceptMatched
<1>4. CASE AcceptEarly(w, sn)
  <2>1. SlotsOf(w)' = {}
    BY <1>1, <1>4 DEF AcceptEarly, Matched, SlotsOf
  <2>2. pendingGuid' = w
    BY <1>4 DEF AcceptEarly
  <2> QED BY <2>1, <2>2 DEF EarlyInv, EarlyOf, Pending
<1> QED BY <1>2, <1>3, <1>4 DEF NewChange

LEMMA MatchingKeepsEarly ==
  ASSUME TypeOK, TypeOK', EarlyInv, Matching
  PROVE  EarlyInv'
<1> USE DEF callback_vars, proxy_vars, pending_vars, count_vars, log_vars
<1>1. ASSUME NEW w \in Writers, AddNewMatchedWriter(w)
      PROVE  EarlyInv'
  <2> DEFINE slot == FirstOf(Free)
  <2>1. slot \in Slots /\ slot \notin used
    BY <1>1, FreeSlot DEF AddNewMatchedWriter
  <2>2. UNCHANGED <<pendingGuid, pendingNextSN, unmatched>> /\ used' = used \cup {slot}
    BY <1>1 DEF AddNewMatchedWriter
  <2>3. \A i \in used : proxies'[i] = proxies[i]
    BY <1>1, <2>1 DEF AddNewMatchedWriter, TypeOK
  <2>4. proxies'[slot].writer = w
    <3>1. \A n : [NewProxy(w) EXCEPT !.expectedSN = n].writer = w /\ NewProxy(w).writer = w
      BY DEF NewProxy
    <3> QED BY <1>1, <2>1, <3>1 DEF AddNewMatchedWriter, TypeOK
  <2>5. ASSUME Pending(w), pendingNextSN \in Nat
        PROVE  pendingNextSN <= proxies'[slot].expectedSN
    <3>1. /\ NewProxy(w).expectedSN = 1
          /\ [NewProxy(w) EXCEPT !.expectedSN = pendingNextSN].expectedSN = pendingNextSN
      BY DEF NewProxy
    <3>2. pendingNextSN # UNKNOWN /\ pendingGuid = w
      BY <2>5 DEF UNKNOWN, Pending
    <3>3. CASE 1 < pendingNextSN
      <4>1. proxies' = [proxies EXCEPT ![slot] =
                          [NewProxy(w) EXCEPT !.expectedSN = pendingNextSN]]
        BY <1>1, <3>1, <3>2, <3>3 DEF AddNewMatchedWriter
      <4> QED BY <2>1, <2>5, <3>1, <4>1 DEF TypeOK
    <3>4. CASE ~(1 < pendingNextSN)
      <4>1. proxies' = [proxies EXCEPT ![slot] = NewProxy(w)]
        BY <1>1, <3>1, <3>4 DEF AddNewMatchedWriter
      <4> QED BY <2>1, <2>5, <3>1, <3>4, <4>1 DEF TypeOK
    <3> QED BY <3>3, <3>4
  <2>6. Pending(w) => pendingNextSN \in Nat
    BY DEF Pending, TypeOK
  <2> HIDE DEF slot
  <2>7. SUFFICES ASSUME NEW v \in Writers, Pending(v)', NEW s \in SlotsOf(v)'
                 PROVE  pendingNextSN' <= proxies'[s].expectedSN
    BY DEF EarlyInv, EarlyOf
  <2>8. Pending(v) /\ s \in used' /\ proxies'[s].writer = v
    BY <2>2, <2>7 DEF Pending, SlotsOf
  <2>9. CASE s = slot
    BY <2>2, <2>4, <2>5, <2>6, <2>8, <2>9
  <2>10. CASE s \in used
    <3>1. s \in SlotsOf(v)
      BY <2>3, <2>8, <2>10 DEF SlotsOf
    <3> QED BY <2>2, <2>3, <2>8, <2>10, <3>1 DEF EarlyInv, EarlyOf
  <2> QED BY <2>2, <2>8, <2>9, <2>10
<1>2. ASSUME NEW S, RemoveWriters(S)
      PROVE  EarlyInv'
  <2>1. proxies' = proxies /\ used' \subseteq used /\ UNCHANGED <<pending_vars, unmatched>>
    BY <1>2 DEF RemoveWriters
  <2>2. \A v \in Writers : SlotsOf(v)' \subseteq SlotsOf(v)
    BY <2>1 DEF SlotsOf
  <2>3. \A i \in Slots : proxies[i].expectedSN <= proxies'[i].expectedSN
    BY <2>1 DEF TypeOK, Proxy
  <2> QED BY <2>1, <2>2, <2>3, EarlyRises
<1> QED BY <1>1, <1>2 DEF Matching, RemoveWriter, RemoveWriterOfParticipant

LEMMA NextKeepsEarly ==
  ASSUME TypeOK, TypeOK', EarlyInv, [Next]_vars
  PROVE  EarlyInv'
<1> USE DEF callback_vars, proxy_vars, pending_vars, count_vars, log_vars
<1>1. CASE SetCallback \/ SetCallee \/ UNCHANGED vars
  <2>1. UNCHANGED <<proxies, used, pendingGuid, pendingNextSN, unmatched>>
    BY <1>1 DEF SetCallback, SetCallee, vars
  <2> QED BY <2>1 DEF EarlyInv, EarlyOf, Pending, SlotsOf
<1>2. ASSUME NEW w \in Writers, NEW firstSN \in Announced,
             NEW count \in 1 .. MaxHB, OnNewHeartbeat(w, firstSN, count)
      PROVE  EarlyInv'
  <2>1. /\ \A i \in Slots \ {SlotOf(w)} : proxies'[i] = proxies[i]
        /\ proxies'[SlotOf(w)].writer = w
        /\ proxies[SlotOf(w)].expectedSN <= proxies'[SlotOf(w)].expectedSN
    BY <1>2, HeartbeatEffect
  <2>2. proxies[SlotOf(w)].writer = w
    BY <1>2, SlotOfMatched DEF OnNewHeartbeat
  <2>3. \A v \in Writers : SlotsOf(v)' = SlotsOf(v)
    <3>1. used' = used /\ \A i \in Slots : proxies'[i].writer = proxies[i].writer
      BY <1>2, <2>1, <2>2 DEF OnNewHeartbeat
    <3> QED BY <3>1, WritersStay
  <2>4. ASSUME NEW i \in Slots
        PROVE  proxies[i].expectedSN <= proxies'[i].expectedSN
    <3>1. proxies[i].expectedSN \in Int
      BY DEF TypeOK, Proxy
    <3>2. CASE i = SlotOf(w)
      BY <2>1, <3>2
    <3>3. CASE i # SlotOf(w)
      BY <2>1, <3>1, <3>3
    <3> QED BY <3>2, <3>3
  <2>5. UNCHANGED <<pending_vars, unmatched>>
    BY <1>2 DEF OnNewHeartbeat
  <2> QED BY <2>3, <2>4, <2>5, EarlyRises
<1>3. CASE Next
  BY <1>1, <1>2, <1>3, NewChangeKeepsEarly, MatchingKeepsEarly
    DEF Next, ReceiveData, ReceiveHeartbeat
<1> QED BY <1>1, <1>3

LEMMA InitEarly == Init => EarlyInv
  BY DEF Init, EarlyInv, EarlyOf, SlotsOf

\* What was delivered of a writer before its match is not expected again after it, as
\* long as the one pending slot still knows of it.
THEOREM NothingEarlyRepeated == Spec => []EarlyDataNotRepeated
<1>1. TypeOK /\ EarlyInv => EarlyDataNotRepeated
  <2> SUFFICES ASSUME TypeOK, EarlyInv, NEW w \in Writers, Pending(w), Matched(w),
                      NEW sn \in unmatched[w]
               PROVE  sn < proxies[SlotOf(w)].expectedSN
    BY DEF EarlyDataNotRepeated
  <2>1. SlotOf(w) \in SlotsOf(w) /\ SlotOf(w) \in Slots
    BY SlotOfMatched DEF SlotsOf
  <2>2. pendingNextSN <= proxies[SlotOf(w)].expectedSN
    BY <2>1 DEF EarlyInv, EarlyOf
  <2>3. sn \in Nat /\ sn < pendingNextSN
    BY DEF Pending, TypeOK
  <2>4. pendingNextSN \in Int /\ proxies[SlotOf(w)].expectedSN \in Int
    BY <2>1 DEF TypeOK, Proxy
  <2> QED BY <2>2, <2>3, <2>4
<1>2. TypeOK /\ [Next]_vars => TypeOK'
  BY NextTypeOK
<1> QED BY <1>1, <1>2, InitTypeOK, InitEarly, NextKeepsEarly, PTL DEF Spec

=============================================================================
