------------------------ MODULE StatefulWriterProofs ------------------------
(***************************************************************************)
(* Theorems about StatefulWriter, for any number of readers, any settings, *)
(* any sizes of history, proxy pool and queue, and any number of changes:  *)
(* its types, and that every change gets a turn with the writer thread;    *)
(* then, with the settings under which newChange never moves next, that    *)
(* every reader is served every change that is held and was published      *)
(* while it was matched, a late joiner the older ones as well, and that    *)
(* what the heartbeats announce never goes back.                           *)
(***************************************************************************)
EXTENDS StatefulWriter, SequenceTheorems, FiniteSetTheorems, WellFoundedInduction, TLAPS

-----------------------------------------------------------------------------
(* Lemmas about the operators.                                             *)

LEMMA FirstOfProperties ==
  ASSUME NEW S \in SUBSET Nat, S # {}
  PROVE  FirstOf(S) \in S /\ \A j \in S : FirstOf(S) <= j
<1>1. IsWellFoundedOn({ss \in Nat \X Nat : ss[1] < ss[2]}, Nat)
  BY NatLessThanWellFounded DEF OpToRel
<1>2. PICK i \in S : \A j \in S : ~(<<j, i>> \in {ss \in Nat \X Nat : ss[1] < ss[2]})
  BY <1>1, WFMin, Zenon
<1>3. \A j \in S : i <= j
  <2> SUFFICES ASSUME NEW j \in S PROVE ~(j < i)
    OBVIOUS
  <2>1. j \in Nat /\ i \in Nat /\ ~(<<j, i>> \in {ss \in Nat \X Nat : ss[1] < ss[2]})
    BY <1>2
  <2> QED BY <2>1
<1> QED BY <1>3 DEF FirstOf

LEMMA LenType == ASSUME TypeOK PROVE Len(history) \in 0 .. SIZE /\ SIZE \in Nat \ {0}
  BY LenProperties, WriterAssumption DEF TypeOK

LEMMA ConfigType == ASSUME TypeOK PROVE qos \in QoS
  BY WriterAssumption DEF TypeOK

LEMMA ExcessType ==
  ASSUME TypeOK
  PROVE  Excess \in 0 .. Len(history)
  BY LenType, ConfigType DEF QoS, Limit, Excess

LEMMA TrimmedType ==
  ASSUME TypeOK
  PROVE  /\ Trimmed \in Seq(Kinds)
         /\ Len(Trimmed) = Len(history) - Excess
<1>1. history \in Seq(Kinds) /\ Len(history) \in Nat
  BY LenType DEF TypeOK
<1>2. Excess \in 0 .. Len(history)
  BY ExcessType
<1>3. CASE Excess = Len(history)
  <2>1. Trimmed = <<>>
    BY <1>1, <1>3, SubSeqEmpty DEF Trimmed
  <2> QED BY <1>1, <1>3, <2>1
<1>4. CASE Excess < Len(history)
  <2>1. \A i \in Excess + 1 .. Len(history) : i \in 1 .. Len(history)
    BY <1>1, <1>2
  <2> QED BY <1>1, <1>2, <1>4, <2>1, SubSeqProperties DEF Trimmed
<1> QED BY <1>1, <1>2, <1>3, <1>4

\* g begins with what is left of the history without its d oldest changes.
Left(d, g) == \A i \in 1 .. Len(history) - d : g[i] = history[i + d]

LEMMA TrimmedIsLeft == ASSUME TypeOK PROVE Left(Excess, Trimmed)
<1>1. history \in Seq(Kinds) /\ Len(history) \in Nat /\ Excess \in 0 .. Len(history)
  BY LenType, ExcessType DEF TypeOK
<1>2. \A i \in Excess + 1 .. Len(history) : history[i] \in Kinds
  <2>1. \A i \in Excess + 1 .. Len(history) : i \in 1 .. Len(history)
    BY <1>1
  <2> QED BY <1>1, <2>1, ElementOfSeq
<1>3. \A i \in 1 .. Len(history) - (Excess + 1) + 1 :
        Trimmed[i] = history[Excess + 1 + i - 1]
  BY <1>1, <1>2, SubSeqProperties DEF Trimmed
<1> QED BY <1>1, <1>3 DEF Left

\* The numbers held are positive.
LEMMA HeldType ==
  ASSUME TypeOK
  PROVE  First \in Nat \ {0} /\ Held \subseteq Nat
  BY LenType DEF TypeOK, First, Held

-----------------------------------------------------------------------------
(* Type correctness: one lemma per thread, one step per action.            *)

LEMMA InitTypeOK == Init => TypeOK
<1> SUFFICES ASSUME Init PROVE TypeOK
  OBVIOUS
<1>1. history \in Seq(Kinds) /\ Len(history) = 0
  BY EmptySeq DEF Init
<1>2. SIZE \in Nat
  BY WriterAssumption
<1> QED BY <1>1, <1>2, WriterAssumption DEF Init, TypeOK, NoTask

\* What newChange leaves in the history and in next when it rejects, and when
\* it accepts.
LEMMA RejectEffect ==
  ASSUME TypeOK, NEW kind \in Kinds, RejectChange(kind)
  PROVE  /\ history' \in Seq(Kinds) /\ Len(history') <= Len(history)
         /\ next' \in Nat \ {0} /\ next' >= next
         /\ lastUsed' = lastUsed /\ queued' = queued /\ lost' = lost
<1>1. Excess \in 0 .. Len(history) /\ Len(history) \in Nat
  BY ExcessType, LenType
<1>2. NextAfterTrim \in Nat \ {0} /\ NextAfterTrim >= next
  BY <1>1, HeldType DEF NextAfterTrim, TypeOK
<1> QED BY <1>1, <1>2, TrimmedType DEF RejectChange

LEMMA AcceptEffect ==
  ASSUME TypeOK, NEW kind \in Kinds, AcceptChange(kind)
  PROVE  /\ history' \in Seq(Kinds)
         /\ Len(history') \in 1 .. SIZE /\ Len(history') <= Len(history) + 1
         /\ next' \in Nat \ {0} /\ next' >= next
         /\ lastUsed' = lastUsed + 1
         /\ queued' \in 0 .. QueueLength /\ lost' \in Nat
         /\ queued' + lost' = queued + lost + 1
<1>1. Excess \in 0 .. Len(history) /\ Len(history) \in 0 .. SIZE /\ SIZE \in Nat \ {0}
  BY ExcessType, LenType
<1>2. Trimmed \in Seq(Kinds) /\ Len(Trimmed) = Len(history) - Excess
  BY TrimmedType
<1>3. /\ history' \in Seq(Kinds)
      /\ Len(history') \in 1 .. SIZE /\ Len(history') <= Len(history) + 1
  <2>1. CASE Len(Trimmed) = SIZE
    <3>1. Trimmed # <<>>
      BY <1>1, <2>1, EmptySeq
    <3>2. Tail(Trimmed) \in Seq(Kinds) /\ Len(Tail(Trimmed)) = Len(Trimmed) - 1
      BY <1>2, <3>1, HeadTailProperties
    <3>3. history' = Append(Tail(Trimmed), kind)
      BY <2>1 DEF AcceptChange
    <3>4. history' \in Seq(Kinds) /\ Len(history') = Len(Tail(Trimmed)) + 1
      BY <3>2, <3>3, AppendProperties
    <3> QED BY <1>1, <1>2, <2>1, <3>2, <3>4
  <2>2. CASE Len(Trimmed) # SIZE
    <3>1. history' = Append(Trimmed, kind)
      BY <2>2 DEF AcceptChange
    <3>2. history' \in Seq(Kinds) /\ Len(history') = Len(Trimmed) + 1
      BY <1>2, <3>1, AppendProperties
    <3> QED BY <1>1, <1>2, <2>2, <3>2
  <2> QED BY <2>1, <2>2
<1>4. next' \in Nat \ {0} /\ next' >= next
  <2>1. NextAfterTrim \in Nat \ {0} /\ NextAfterTrim >= next
    BY <1>1, HeldType DEF NextAfterTrim, TypeOK
  <2> QED BY <2>1, HeldType DEF AcceptChange, TypeOK
<1>5. /\ queued' \in 0 .. QueueLength /\ lost' \in Nat
      /\ queued' + lost' = queued + lost + 1
  <2>1. queued \in 0 .. QueueLength /\ lost \in Nat /\ QueueLength \in Nat
    BY WriterAssumption DEF TypeOK
  <2>2. CASE queued < QueueLength /\ queued' = queued + 1 /\ lost' = lost
    BY <2>1, <2>2
  <2>3. CASE lost' = lost + 1 /\ queued' = queued
    BY <2>1, <2>3
  <2> QED BY <2>2, <2>3 DEF AcceptChange, AddWorkload
<1> QED BY <1>3, <1>4, <1>5 DEF AcceptChange

\* A rejected publication may have dropped changes, the oldest first.
LEMMA RejectShift ==
  ASSUME TypeOK, NEW kind \in Kinds, RejectChange(kind)
  PROVE  /\ Excess \in 0 .. Len(history) /\ Len(history) \in Nat
         /\ Len(history') = Len(history) - Excess /\ Left(Excess, history')
         /\ lastUsed' = lastUsed
  BY ExcessType, LenType, TrimmedType, TrimmedIsLeft DEF RejectChange

\* An accepted one is the newest, after what is left of the others.
LEMMA AcceptShift ==
  ASSUME TypeOK, NEW kind \in Kinds, AcceptChange(kind)
  PROVE  /\ Len(history) \in Nat /\ Excess \in 0 .. Len(history)
         /\ \E d \in Excess .. Len(history) :
              /\ Len(history') = Len(history) - d + 1 /\ Left(d, history')
              /\ history'[Len(history) - d + 1] = kind
              /\ qos.keepAll => d = 0
         /\ lastUsed' = lastUsed + 1
<1>1. /\ Len(history) \in 0 .. SIZE /\ SIZE \in Nat \ {0}
      /\ Excess \in 0 .. Len(history) /\ (qos.keepAll => Excess = 0)
  BY ExcessType, LenType DEF Excess
<1>2. /\ Trimmed \in Seq(Kinds) /\ Len(Trimmed) = Len(history) - Excess
      /\ \A i \in 1 .. Len(history) - Excess : Trimmed[i] = history[i + Excess]
  BY TrimmedType, TrimmedIsLeft DEF Left
<1>3. lastUsed' = lastUsed + 1 /\ Len(history) \in Nat
  BY <1>1 DEF AcceptChange
<1>4. CASE Len(Trimmed) = SIZE
  <2>1. Trimmed # <<>>
    BY <1>1, <1>4, EmptySeq
  <2>2. /\ Tail(Trimmed) \in Seq(Kinds) /\ Len(Tail(Trimmed)) = Len(history) - Excess - 1
        /\ \A i \in 1 .. Len(Tail(Trimmed)) : Tail(Trimmed)[i] = Trimmed[i + 1]
    BY <1>2, <2>1, HeadTailProperties
  <2>3. history' = Append(Tail(Trimmed), kind)
    BY <1>4 DEF AcceptChange
  <2>4. /\ Len(history') = Len(Tail(Trimmed)) + 1
        /\ \A i \in 1 .. Len(Tail(Trimmed)) : history'[i] = Tail(Trimmed)[i]
        /\ history'[Len(Tail(Trimmed)) + 1] = kind
    BY <2>2, <2>3, AppendProperties
  <2>5. Excess + 1 \in Excess .. Len(history)
    BY <1>1, <1>2, <1>4
  <2>6. Left(Excess + 1, history')
    <3> SUFFICES ASSUME NEW i \in 1 .. Len(history) - (Excess + 1)
                 PROVE  history'[i] = history[i + (Excess + 1)]
      BY DEF Left
    <3>1. i \in 1 .. Len(Tail(Trimmed)) /\ i + 1 \in 1 .. Len(history) - Excess
      BY <1>1, <2>2
    <3>2. history'[i] = Trimmed[i + 1]
      BY <2>2, <2>4, <3>1
    <3>3. Trimmed[i + 1] = history[i + 1 + Excess]
      BY <1>2, <3>1
    <3>4. i + 1 + Excess = i + (Excess + 1)
      BY <1>1
    <3> QED BY <3>2, <3>3, <3>4
  <2>7. ~qos.keepAll
    BY <1>4 DEF AcceptChange, Rejected
  <2>8. /\ Len(history') = Len(history) - (Excess + 1) + 1
        /\ history'[Len(history) - (Excess + 1) + 1] = kind
    <3>1. Len(Tail(Trimmed)) + 1 = Len(history) - (Excess + 1) + 1
      BY <1>1, <2>2
    <3> QED BY <2>4, <3>1
  <2> QED BY <1>1, <1>3, <2>5, <2>6, <2>7, <2>8, Zenon
<1>5. CASE Len(Trimmed) # SIZE
  <2>1. history' = Append(Trimmed, kind)
    BY <1>5 DEF AcceptChange
  <2>2. /\ Len(history') = Len(Trimmed) + 1 /\ history'[Len(Trimmed) + 1] = kind
        /\ \A i \in 1 .. Len(Trimmed) : history'[i] = Trimmed[i]
    BY <1>2, <2>1, AppendProperties
  <2>3. Left(Excess, history')
    BY <1>2, <2>2 DEF Left
  <2>4. Excess \in Excess .. Len(history)
    BY <1>1
  <2> QED BY <1>1, <1>2, <1>3, <2>2, <2>3, <2>4, Zenon
<1> QED BY <1>4, <1>5

\* A publication drops numbers from below: what is still held keeps its kind.
LEMMA HeldStays ==
  ASSUME TypeOK, NEW kind \in Kinds, NewChange(kind), NEW sn \in Held', sn <= lastUsed
  PROVE  sn \in Held /\ KindOf(sn)' = KindOf(sn)
<1>1. lastUsed \in Nat /\ Len(history) \in Nat
  BY LenType DEF TypeOK
<1>2. PICK d \in 0 .. Len(history) :
        Left(d, history') /\ lastUsed' - Len(history') = lastUsed - Len(history) + d
  <2>1. CASE RejectChange(kind)
    BY <1>1, <2>1, RejectShift
  <2>2. CASE AcceptChange(kind)
    <3>1. PICK d \in Excess .. Len(history) :
            Len(history') = Len(history) - d + 1 /\ Left(d, history')
      BY <2>2, AcceptShift
    <3>2. Excess \in Nat /\ lastUsed' = lastUsed + 1
      BY <2>2, AcceptShift
    <3> QED BY <1>1, <3>1, <3>2
  <2> QED BY <2>1, <2>2 DEF NewChange
<1>3. sn \in Int /\ First' = First + d /\ First \in Int /\ sn >= First'
  BY <1>1, <1>2 DEF Held, First
<1>4. sn - First' + 1 \in 1 .. Len(history) - d
  BY <1>1, <1>3 DEF First
<1>5. history'[sn - First' + 1] = history[sn - First' + 1 + d]
  BY <1>2, <1>4 DEF Left
<1>6. sn - First' + 1 + d = sn - First + 1
  BY <1>3
<1> QED BY <1>1, <1>3, <1>5, <1>6 DEF Held, KindOf

LEMMA NewChangeTypeOK ==
  ASSUME TypeOK, NEW kind \in Kinds, NewChange(kind)
  PROVE  TypeOK'
<1>0. /\ Len(history) \in 0 .. SIZE /\ SIZE \in Nat \ {0}
      /\ lastUsed \in Nat /\ Len(history) <= lastUsed /\ rejects \in Nat
      /\ queued \in 0 .. QueueLength /\ lost \in Nat
  BY LenType DEF TypeOK
<1>1. /\ history' \in Seq(Kinds) /\ Len(history') \in 0 .. SIZE
      /\ lastUsed' \in Nat /\ Len(history') <= lastUsed' /\ lastUsed <= lastUsed'
      /\ next' \in Nat \ {0} /\ rejects' \in Nat
      /\ queued' \in 0 .. QueueLength /\ lost' \in Nat
  <2>1. CASE RejectChange(kind)
    <3>1. Len(history') \in Nat
      BY <2>1, RejectEffect, LenProperties
    <3> QED BY <1>0, <2>1, <3>1, RejectEffect DEF RejectChange
  <2>2. CASE AcceptChange(kind)
    BY <1>0, <2>2, AcceptEffect DEF AcceptChange
  <2> QED BY <2>1, <2>2 DEF NewChange
<1>2. UNCHANGED <<qos, aged, drops, proxies, used, matchedAt, worker, todo, old,
                  joining, replier, asked, hbTodo, hbCount, sent>>
  BY DEF NewChange, proxy_vars, worker_vars, replier_vars, hb_vars
<1>3. aged' \in 0 .. lastUsed'
  BY <1>1, <1>2 DEF TypeOK
<1>4. Len(history') <= SIZE
  BY <1>0, <1>1
<1>5. /\ qos' \in Configs /\ drops' \in Nat
      /\ proxies' \in [Slots -> [reader : Readers \cup {NoReader}, ackNackCount : Nat]]
      /\ used' \subseteq Slots /\ todo' \subseteq Slots /\ hbTodo' \subseteq Slots
      /\ worker' \in {"idle", "check", "start", "push", "read", "write"}
      /\ (worker' = "push") <=> (todo' # {})
      /\ old' \in Nat
      /\ replier' \in [at : {"idle", "bits", "tail"}, slot : 0 .. ProxySlots,
                       beyond : Nat]
      /\ asked' \subseteq Nat
      /\ hbCount' \in Nat \ {0}
      /\ matchedAt' \in [Readers -> Nat]
      /\ sent' \in [Readers -> SUBSET Nat]
      /\ joining' \subseteq Readers
  BY <1>2 DEF TypeOK
<1> QED BY <1>1, <1>3, <1>4, <1>5 DEF TypeOK

\* A set of slots from which one is taken, and what sendData records.
LEMMA TakeSlot ==
  ASSUME NEW S \in SUBSET Slots, S # {}
  PROVE  FirstOf(S) \in S /\ S \ {FirstOf(S)} \subseteq Slots
<1>1. S \in SUBSET Nat
  BY DEF Slots
<1> QED BY <1>1, FirstOfProperties

LEMMA SendDataType ==
  ASSUME TypeOK, NEW r, NEW sn, SendData(r, sn)
  PROVE  sent' \in [Readers -> SUBSET Nat]
  BY HeldType DEF TypeOK, SendData

LEMMA WriterThreadTypeOK ==
  ASSUME TypeOK, WriterThread
  PROVE  TypeOK'
<1> USE DEF history_vars, pool_vars, proxy_vars, worker_vars, replier_vars, hb_vars
<1>1. CASE TakeWorkload
  BY <1>1, WriterAssumption DEF TakeWorkload, TypeOK
<1>2. CASE CheckLifespan
  BY <1>2 DEF CheckLifespan, TypeOK
<1>3. CASE StartPush
  BY <1>3 DEF StartPush, TypeOK
<1>4. CASE Push
  <2>1. todo \in SUBSET Slots /\ todo # {}
    BY <1>4 DEF Push, TypeOK
  <2>2. NextSlots(todo) \subseteq Slots
    BY <2>1 DEF NextSlots
  <2>3. todo' = NextSlots(todo)
        /\ worker' = IF NextSlots(todo) = {} THEN "read" ELSE "push"
    BY <1>4 DEF Push
  <2>4. todo' \subseteq Slots /\ (worker' = "push" <=> todo' # {})
        /\ worker' \in {"read", "push"}
    BY <2>2, <2>3
  <2>5. sent' \in [Readers -> SUBSET Nat]
    BY <1>4, SendDataType DEF Push
  <2> QED BY <1>4, <2>4, <2>5 DEF Push, TypeOK
<1>5. CASE ReadNext
  BY <1>5 DEF ReadNext, TypeOK
<1>6. CASE WriteNext
  BY <1>6 DEF WriteNext, TypeOK
<1> QED BY <1>1, <1>2, <1>3, <1>4, <1>5, <1>6 DEF WriterThread

LEMMA MatchingTypeOK ==
  ASSUME TypeOK, Matching
  PROVE  TypeOK'
<1> USE DEF history_vars, pool_vars, proxy_vars, worker_vars, replier_vars, hb_vars
<1>1. ASSUME NEW r \in Readers, AddNewMatchedReader(r)
      PROVE  TypeOK'
  <2>1. Free \in SUBSET Slots /\ Free # {}
    BY <1>1 DEF AddNewMatchedReader, Free
  <2>2. FirstOf(Free) \in Slots
    BY <2>1, TakeSlot
  <2>3. proxies' \in [Slots -> [reader : Readers \cup {NoReader}, ackNackCount : Nat]]
    BY <1>1, <2>2 DEF AddNewMatchedReader, TypeOK
  <2>4. /\ matchedAt' \in [Readers -> Nat] /\ used' \subseteq Slots
        /\ joining' \subseteq Readers
    BY <1>1, <2>2 DEF AddNewMatchedReader, TypeOK
  <2> QED BY <1>1, <2>3, <2>4 DEF AddNewMatchedReader, TypeOK
<1>2. ASSUME NEW r \in Readers, Replay(r)
      PROVE  TypeOK'
  <2>1. Held \subseteq Nat
    BY HeldType
  <2>2. sent' \in [Readers -> SUBSET Nat]
    BY <1>2, <2>1 DEF Replay, TypeOK
  <2> QED BY <1>2, <2>2 DEF Replay, TypeOK
<1> QED BY <1>1, <1>2 DEF Matching

LEMMA ReaderThreadTypeOK ==
  ASSUME TypeOK, ReaderThread
  PROVE  TypeOK'
<1> USE DEF history_vars, pool_vars, proxy_vars, worker_vars, replier_vars, hb_vars
<1>1. ASSUME NEW r \in Readers, NEW base \in 0 .. lastUsed + 1, NEW count \in 1 .. MaxCount,
             NEW n \in 0 .. MaxBits, NEW bits \in [1 .. n -> BOOLEAN],
             OnNewAckNack(r, base, bits, count)
      PROVE  TypeOK'
  <2>1. lastUsed \in Nat /\ base \in Nat /\ count \in Nat /\ n \in Nat
    BY WriterAssumption DEF TypeOK
  <2>2. Len(bits) = n /\ DOMAIN bits = 1 .. n
    <3>1. bits \in Seq(BOOLEAN)
      BY <2>1, IsASeq
    <3> QED BY <2>1, <3>1, LenProperties
  <2>3. SlotsOf(r) \in SUBSET Slots /\ SlotsOf(r) # {}
    BY <1>1 DEF OnNewAckNack, Matched, SlotsOf, TypeOK
  <2>4. FirstOf(SlotsOf(r)) \in Slots
    BY <2>3, TakeSlot
  <2>5. proxies' \in [Slots -> [reader : Readers \cup {NoReader}, ackNackCount : Nat]]
    BY <1>1, <2>1, <2>4 DEF OnNewAckNack, TypeOK
  <2>6. replier' \in [at : {"idle", "bits", "tail"}, slot : 0 .. ProxySlots,
                      beyond : Nat]
    BY <1>1, <2>1, <2>2, <2>4, WriterAssumption DEF OnNewAckNack, Slots
  <2>7. asked' \subseteq Nat
    BY <1>1, <2>1, <2>2 DEF OnNewAckNack
  <2> QED BY <1>1, <2>5, <2>6, <2>7 DEF OnNewAckNack, TypeOK
<1>2. CASE Answer
  <2>1. sent' \in [Readers -> SUBSET Nat]
    BY <1>2, SendDataType DEF Answer
  <2> QED BY <1>2, <2>1 DEF Answer, TypeOK
<1>3. CASE AnswerBeyond
  <2>1. asked' \subseteq Nat
    BY <1>3 DEF AnswerBeyond, TypeOK
  <2>2. replier' \in [at : {"idle", "bits", "tail"}, slot : 0 .. ProxySlots,
                      beyond : Nat]
    BY <1>3 DEF AnswerBeyond, TypeOK
  <2> QED BY <1>3, <2>1, <2>2 DEF AnswerBeyond, TypeOK
<1>4. CASE EndAnswer
  BY <1>4, WriterAssumption DEF EndAnswer, TypeOK, NoTask
<1> QED BY <1>1, <1>2, <1>3, <1>4 DEF ReaderThread, ReceiveAckNack

LEMMA OtherStepsTypeOK ==
  ASSUME TypeOK, Age \/ Removal \/ HeartbeatThread
  PROVE  TypeOK'
<1> USE DEF history_vars, pool_vars, proxy_vars, worker_vars, replier_vars, hb_vars
<1>1. CASE Age
  BY <1>1 DEF Age, TypeOK
<1>2. ASSUME NEW S, RemoveReaders(S)
      PROVE  TypeOK'
  BY <1>2 DEF RemoveReaders, TypeOK
<1>3. CASE StartRound
  BY <1>3 DEF StartRound, TypeOK
<1>4. CASE Announce
  <2>1. hbTodo' \subseteq Slots
    BY <1>4 DEF Announce, NextSlots, TypeOK
  <2>2. hbCount' \in Nat \ {0}
    BY <1>4 DEF Announce, TypeOK
  <2> QED BY <1>4, <2>1, <2>2 DEF Announce, TypeOK
<1> QED BY <1>1, <1>2, <1>3, <1>4
        DEF Removal, RemoveReader, RemoveReaderOfParticipant, HeartbeatThread

LEMMA NextTypeOK ==
  ASSUME TypeOK, [Next]_vars
  PROVE  TypeOK'
<1>1. CASE Next
  BY <1>1, NewChangeTypeOK, WriterThreadTypeOK, ReaderThreadTypeOK, MatchingTypeOK,
     OtherStepsTypeOK
     DEF Next, Application
<1>2. CASE UNCHANGED vars
  BY <1>2 DEF TypeOK, vars, history_vars, pool_vars, proxy_vars, worker_vars,
              replier_vars, hb_vars
<1> QED BY <1>1, <1>2

\* Whatever the settings and the interleaving, the history never holds more
\* than SIZE changes, the queue never more than its length, and no slot, number
\* or count leaves its range.
THEOREM TypeCorrect == Spec => []TypeOK
  BY InitTypeOK, NextTypeOK, PTL DEF Spec

-----------------------------------------------------------------------------
(* Every change gets its turn.                                             *)

\* What every step but a publication does to next, Due and the workloads.
LEMMA OtherStepsKeepDue ==
  ASSUME TypeOK, WriterThread \/ ReaderThread \/ Matching \/ Age \/ Removal \/ HeartbeatThread
  PROVE  /\ qos' = qos /\ lastUsed' = lastUsed
         /\ Due' + queued' + lost' = Due + queued + lost
<1> USE DEF history_vars, pool_vars, proxy_vars, worker_vars, replier_vars, hb_vars
<1>1. next \in Nat /\ old \in Nat /\ queued \in Nat /\ lost \in Nat
  BY WriterAssumption DEF TypeOK
<1>2. CASE TakeWorkload
  BY <1>1, <1>2 DEF TakeWorkload, Due
<1>3. CASE CheckLifespan
  BY <1>1, <1>3 DEF CheckLifespan, Due
<1>4. CASE StartPush
  BY <1>1, <1>4 DEF StartPush, Due
<1>5. CASE Push
  <2>1. worker = "push" /\ worker' \in {"push", "read"}
    BY <1>5 DEF Push
  <2> QED BY <1>1, <1>5, <2>1 DEF Push, Due
<1>6. CASE ReadNext
  BY <1>1, <1>6 DEF ReadNext, Due
<1>7. CASE WriteNext
  BY <1>1, <1>7 DEF WriteNext, Due
<1>8. ASSUME UNCHANGED <<qos, lastUsed, next, worker, old, queued, lost>>
      PROVE  qos' = qos /\ lastUsed' = lastUsed
             /\ Due' + queued' + lost' = Due + queued + lost
  BY <1>8 DEF Due
<1>9. CASE ReaderThread \/ Matching
  BY <1>8, <1>9 DEF ReaderThread, Matching, AddNewMatchedReader, Replay, ReceiveAckNack,
                    OnNewAckNack, Answer, AnswerBeyond, EndAnswer
<1>10. CASE Age \/ Removal \/ HeartbeatThread
  BY <1>8, <1>10 DEF Age, Removal, RemoveReader, RemoveReaderOfParticipant,
                     RemoveReaders, HeartbeatThread, StartRound, Announce
<1> QED BY <1>2, <1>3, <1>4, <1>5, <1>6, <1>7, <1>9, <1>10 DEF WriterThread

\* A publication adds a workload, or a lost one, with its change, and moves next
\* up if at all.
LEMMA NewChangeKeepsDue ==
  ASSUME TypeOK, NEW kind \in Kinds, NewChange(kind)
  PROVE  /\ qos' = qos /\ worker' = worker /\ old' = old
         /\ next' \in Nat /\ next' >= next
         /\ queued' \in Nat /\ lost' \in Nat
         /\ lastUsed' - queued' - lost' = lastUsed - queued - lost
<1>1. qos' = qos /\ worker' = worker /\ old' = old
  BY DEF NewChange, worker_vars
<1>2. lastUsed \in Nat /\ queued \in Nat /\ lost \in Nat
  BY WriterAssumption DEF TypeOK
<1>3. CASE RejectChange(kind)
  BY <1>1, <1>2, <1>3, RejectEffect
<1>4. CASE AcceptChange(kind)
  BY <1>1, <1>2, <1>4, AcceptEffect, WriterAssumption
<1> QED BY <1>3, <1>4 DEF NewChange

\* The arithmetic of a publication: turns d, workloads q, lost ones l and the
\* newest change n, before and after.
LEMMA TurnsKeepUp ==
  \A d, d1, q, q1, l, l1, n, n1 \in Nat :
    n1 - q1 - l1 = n - q - l /\ d1 >= d /\ d + q + l > n => d1 + q1 + l1 > n1
  OBVIOUS

Step(d, q, l, n) == d + q + l = n + 1

LEMMA TurnsKeepStep ==
  \A d, q, q1, l, l1, n, n1 \in Nat :
    n1 - q1 - l1 = n - q - l /\ Step(d, q, l, n) => Step(d, q1, l1, n1)
  BY DEF Step

LEMMA OneMore == \A m, n \in Nat : m + 1 \in Nat /\ (n >= m => n + 1 >= m + 1)
  OBVIOUS

LEMMA NextKeepsUp ==
  ASSUME TypeOK, PushNeverLags, [Next]_vars
  PROVE  PushNeverLags'
<1>1. next \in Nat /\ old \in Nat /\ queued \in Nat /\ lost \in Nat /\ lastUsed \in Nat
  BY WriterAssumption DEF TypeOK
<1>2. CASE WriterThread \/ ReaderThread \/ Matching \/ Age \/ Removal \/ HeartbeatThread
  BY <1>1, <1>2, OtherStepsKeepDue DEF PushNeverLags
<1>3. ASSUME NEW kind \in Kinds, NewChange(kind)
      PROVE  PushNeverLags'
  <2>1. /\ worker' = worker /\ old' = old /\ next' \in Nat /\ next' >= next
        /\ queued' \in Nat /\ lost' \in Nat
        /\ lastUsed' - queued' - lost' = lastUsed - queued - lost
    BY <1>3, NewChangeKeepsDue
  <2>2. Due \in Nat /\ Due' \in Nat /\ Due' >= Due
    <3>1. CASE worker = "write"
      BY <1>1, <2>1, <3>1 DEF Due
    <3>2. CASE worker = "idle"
      BY <1>1, <2>1, <3>2 DEF Due
    <3>3. CASE worker # "write" /\ worker # "idle"
      <4>1. Due = next + 1 /\ Due' = next' + 1
        BY <2>1, <3>3, Zenon DEF Due
      <4>2. (next + 1) \in Nat /\ (next' + 1) \in Nat /\ (next' + 1) >= (next + 1)
        BY <1>1, <2>1, OneMore, Zenon
      <4> QED BY <4>1, <4>2, Zenon
    <3> QED BY <3>1, <3>2, <3>3
  <2>3. lastUsed' \in Nat
    <3>1. TypeOK'
      BY <1>3, NextTypeOK
    <3> QED BY <3>1 DEF TypeOK
  <2> QED BY <1>1, <2>1, <2>2, <2>3, TurnsKeepUp, Zenon DEF PushNeverLags
<1>4. CASE UNCHANGED vars
  BY <1>4 DEF PushNeverLags, Due, vars, history_vars, pool_vars, worker_vars
<1> QED BY <1>2, <1>3, <1>4 DEF Next, Application

\* No accepted change is left without its turn, whatever the settings: the
\* unlocked increment of progress, however it interleaves with newChange moving
\* next, never leaves fewer turns than there are changes.
THEOREM NeverLags == Spec => []PushNeverLags
<1>1. Init => PushNeverLags
  BY DEF Init, PushNeverLags, Due
<1> QED BY <1>1, InitTypeOK, NextTypeOK, NextKeepsUp, PTL DEF Spec

\* With KEEP_ALL newChange drops nothing and rejects instead of overwriting;
\* with a depth of one nothing is left when it has dropped: next stays.
LEMMA NextStays ==
  ASSUME TypeOK, NeverMovesNext, NEW kind \in Kinds, NewChange(kind)
  PROVE  next' = next
<1>1. Len(history) \in 0 .. SIZE /\ SIZE \in Nat \ {0} /\ qos \in QoS
  BY LenType, ConfigType
<1>2. Trimmed \in Seq(Kinds) /\ Len(Trimmed) = Len(history) - Excess
  BY TrimmedType
<1>3. CASE qos.keepAll
  <2>1. Excess = 0
    BY <1>3 DEF Excess
  <2>2. NextAfterTrim = next
    BY <2>1 DEF NextAfterTrim
  <2>3. AcceptChange(kind) => Len(Trimmed) # SIZE
    BY <1>3 DEF AcceptChange, Rejected
  <2> QED BY <2>2, <2>3 DEF NewChange, RejectChange, AcceptChange
<1>4. CASE ~qos.keepAll /\ qos.depth = 1
  <2>1. Excess = Len(history)
    BY <1>1, <1>4 DEF Excess
  <2>2. Len(Trimmed) = 0 /\ Trimmed = <<>>
    BY <1>1, <1>2, <2>1, EmptySeq
  <2>3. NextAfterTrim = next
    BY <2>2 DEF NextAfterTrim
  <2> QED BY <1>1, <2>2, <2>3 DEF NewChange, RejectChange, AcceptChange
<1> QED BY <1>3, <1>4 DEF NeverMovesNext

LEMMA NextKeepsInStep ==
  ASSUME TypeOK, PushInStep, [Next]_vars
  PROVE  PushInStep'
<1>1. next \in Nat /\ old \in Nat /\ queued \in Nat /\ lost \in Nat /\ lastUsed \in Nat
  BY WriterAssumption DEF TypeOK
<1>2. CASE WriterThread \/ ReaderThread \/ Matching \/ Age \/ Removal \/ HeartbeatThread
  BY <1>1, <1>2, OtherStepsKeepDue DEF PushInStep, NeverMovesNext
<1>3. ASSUME NEW kind \in Kinds, NewChange(kind)
      PROVE  PushInStep'
  <2>1. CASE NeverMovesNext
    <3>1. next' = next
      BY <1>3, <2>1, NextStays
    <3>2. /\ qos' = qos /\ worker' = worker /\ old' = old
          /\ queued' \in Nat /\ lost' \in Nat
          /\ lastUsed' - queued' - lost' = lastUsed - queued - lost
      BY <1>3, NewChangeKeepsDue
    <3>3. Due \in Nat /\ Due' = Due
      <4>1. Due' = Due
        BY <3>1, <3>2, Zenon DEF Due
      <4>2. Due \in Nat
        BY <1>1 DEF Due
      <4> QED BY <4>1, <4>2
    <3>4. lastUsed' \in Nat
      <4>1. TypeOK'
        BY <1>3, NextTypeOK
      <4> QED BY <4>1 DEF TypeOK
    <3>5. Step(Due, queued, lost, lastUsed)
      BY <2>1, Zenon DEF PushInStep, Step
    <3>6. Step(Due, queued', lost', lastUsed')
      BY <1>1, <3>2, <3>3, <3>4, <3>5, TurnsKeepStep, Zenon
    <3> QED BY <2>1, <3>3, <3>6, Zenon DEF PushInStep, Step
  <2>2. CASE ~NeverMovesNext
    BY <1>3, <2>2, NewChangeKeepsDue DEF PushInStep, NeverMovesNext
  <2> QED BY <2>1, <2>2
<1>4. CASE UNCHANGED vars
  BY <1>4 DEF PushInStep, NeverMovesNext, Due, vars, history_vars, pool_vars, worker_vars
<1> QED BY <1>2, <1>3, <1>4 DEF Next, Application

\* With KEEP_ALL and with a depth of one, each workload belongs to exactly one
\* change: next, the queue and the newest change stay in step for ever.
THEOREM InStep == Spec => []PushInStep
<1>1. Init => PushInStep
  BY DEF Init, PushInStep, Due
<1> QED BY <1>1, InitTypeOK, NextTypeOK, NextKeepsInStep, PTL DEF Spec

\* A writer thread with nothing left to do has passed every change.
COROLLARY QuietIsPast == Spec => [](Quiet => next > lastUsed)
<1>1. TypeOK /\ PushNeverLags => (Quiet => next > lastUsed)
  BY DEF TypeOK, PushNeverLags, Due, Quiet
<1> QED BY <1>1, TypeCorrect, NeverLags, PTL

-----------------------------------------------------------------------------
(* The limits of the QoS.                                                  *)

\* The changes of a history of one kind.
OfKind(h, kind) == {i \in DOMAIN h : h[i] = kind}

LEMMA OfKindFinite ==
  ASSUME NEW h \in Seq(Kinds), NEW kind
  PROVE  IsFiniteSet(OfKind(h, kind)) /\ Cardinality(OfKind(h, kind)) \in Nat
<1>1. DOMAIN h = 1 .. Len(h) /\ Len(h) \in Nat
  BY LenProperties
<1>2. IsFiniteSet(1 .. Len(h))
  BY <1>1, FS_Interval
<1>3. OfKind(h, kind) \in SUBSET (1 .. Len(h))
  BY <1>1 DEF OfKind
<1>4. IsFiniteSet(OfKind(h, kind))
  BY <1>2, <1>3, FS_Subset
<1> QED BY <1>4, FS_CardinalityType

LEMMA TotalType ==
  ASSUME NEW h \in Seq(Kinds)
  PROVE  /\ TotalDataBytes(h) = Cardinality(OfKind(h, "plain"))
                                + FragSize * Cardinality(OfKind(h, "fragmented"))
         /\ TotalDataBytes(h) \in Nat
<1>1. /\ Cardinality(OfKind(h, "plain")) \in Nat
      /\ Cardinality(OfKind(h, "fragmented")) \in Nat
      /\ FragSize \in Nat
  BY OfKindFinite, WriterAssumption
<1>2. \A m, n \in Nat : m + FragSize * n \in Nat
  BY <1>1
<1> QED BY <1>1, <1>2 DEF TotalDataBytes, OfKind

\* Fewer changes of each kind, fewer bytes.
LEMMA FewerBytes ==
  ASSUME NEW f \in Nat, NEW m \in Nat, NEW n \in Nat, NEW m1 \in Nat, NEW n1 \in Nat,
         m <= m1, n <= n1
  PROVE  m + f * n <= m1 + f * n1
<1>1. f * (n1 - n) \in Nat
  <2>1. n1 - n \in Nat
    OBVIOUS
  <2> QED BY <2>1
<1>2. f * n1 = f * n + f * (n1 - n)
  BY SMTT(30)
<1>3. f * n \in Nat /\ f * n1 \in Nat
  OBVIOUS
<1> QED BY <1>1, <1>2, <1>3

\* Dropping the d oldest changes of a history frees bytes.
LEMMA DroppedBytes ==
  ASSUME NEW h \in Seq(Kinds), NEW g \in Seq(Kinds), NEW d \in Nat,
         Len(g) = Len(h) - d, \A i \in 1 .. Len(g) : g[i] = h[i + d]
  PROVE  TotalDataBytes(g) <= TotalDataBytes(h)
<1>1. /\ Len(h) \in Nat /\ Len(g) \in Nat
      /\ DOMAIN h = 1 .. Len(h) /\ DOMAIN g = 1 .. Len(g)
  BY LenProperties
<1>2. ASSUME NEW kind
      PROVE  Cardinality(OfKind(g, kind)) <= Cardinality(OfKind(h, kind))
  <2> DEFINE shift == [i \in OfKind(g, kind) |-> i + d]
  <2>1. \A i \in OfKind(g, kind) : i \in Int /\ i + d \in OfKind(h, kind)
    BY <1>1 DEF OfKind
  <2>2. shift \in Injection(OfKind(g, kind), OfKind(h, kind))
    BY <2>1 DEF Injection, IsInjective
  <2> QED BY <2>2, OfKindFinite, FS_Injection
<1>3. FragSize \in Nat
  BY WriterAssumption
<1> QED BY <1>2, <1>3, OfKindFinite, TotalType, FewerBytes

\* One change more, its bytes more.
LEMMA AppendBytes ==
  ASSUME NEW h \in Seq(Kinds), NEW kind \in Kinds
  PROVE  TotalDataBytes(Append(h, kind)) = TotalDataBytes(h) + Bytes(kind)
<1> DEFINE g == Append(h, kind)
<1>1. /\ g \in Seq(Kinds) /\ Len(h) \in Nat /\ Len(g) = Len(h) + 1
      /\ \A i \in 1 .. Len(h) : g[i] = h[i]
      /\ g[Len(h) + 1] = kind
  BY AppendProperties, LenProperties
<1> HIDE DEF g
<1>2. DOMAIN h = 1 .. Len(h) /\ DOMAIN g = 1 .. Len(h) + 1
  BY <1>1, LenProperties
<1>3. Len(h) + 1 \notin OfKind(h, kind)
  BY <1>1, <1>2 DEF OfKind
<1>4. OfKind(g, kind) = OfKind(h, kind) \cup {Len(h) + 1}
  BY <1>1, <1>2 DEF OfKind
<1>5. \A k : k # kind => OfKind(g, k) = OfKind(h, k)
  BY <1>1, <1>2 DEF OfKind
<1>6. Cardinality(OfKind(g, kind)) = Cardinality(OfKind(h, kind)) + 1
  BY <1>3, <1>4, OfKindFinite, FS_AddElement
<1>7. /\ Cardinality(OfKind(h, "plain")) \in Nat
      /\ Cardinality(OfKind(h, "fragmented")) \in Nat /\ FragSize \in Nat
  BY OfKindFinite, WriterAssumption
<1>8. \A n \in Nat : FragSize * (n + 1) = FragSize * n + FragSize
  BY <1>7, SMTT(30)
<1>9. \A n \in Nat : FragSize * n \in Nat
  BY <1>7
<1>10. /\ TotalDataBytes(g) = Cardinality(OfKind(g, "plain"))
                               + FragSize * Cardinality(OfKind(g, "fragmented"))
       /\ TotalDataBytes(h) = Cardinality(OfKind(h, "plain"))
                               + FragSize * Cardinality(OfKind(h, "fragmented"))
  BY <1>1, TotalType
<1>11. TotalDataBytes(g) = TotalDataBytes(h) + Bytes(kind)
  <2>1. CASE kind = "plain"
    <3>1. Cardinality(OfKind(g, "fragmented")) = Cardinality(OfKind(h, "fragmented"))
      BY <1>5, <2>1
    <3> QED BY <1>6, <1>7, <1>9, <1>10, <2>1, <3>1 DEF Bytes
  <2>2. CASE kind = "fragmented"
    <3>1. Cardinality(OfKind(g, "plain")) = Cardinality(OfKind(h, "plain"))
      BY <1>5, <2>2
    <3> QED BY <1>6, <1>7, <1>8, <1>9, <1>10, <2>2, <3>1 DEF Bytes
  <2> QED BY <2>1, <2>2, WriterAssumption
<1> QED BY <1>11 DEF g

\* What newChange makes room with: what the loop leaves, less the oldest change of
\* a full history.
LEMMA RoomBytes ==
  ASSUME TypeOK
  PROVE  /\ Trimmed \in Seq(Kinds) /\ TotalDataBytes(Trimmed) <= TotalDataBytes(history)
         /\ Trimmed # <<>> => /\ Tail(Trimmed) \in Seq(Kinds)
                              /\ TotalDataBytes(Tail(Trimmed)) <= TotalDataBytes(Trimmed)
<1>1. history \in Seq(Kinds) /\ Len(history) \in Nat /\ Excess \in Nat
  BY LenType, ExcessType DEF TypeOK
<1>2. /\ Trimmed \in Seq(Kinds) /\ Len(Trimmed) = Len(history) - Excess
      /\ \A i \in 1 .. Len(Trimmed) : Trimmed[i] = history[i + Excess]
  BY TrimmedType, TrimmedIsLeft DEF Left
<1>3. ASSUME Trimmed # <<>>
      PROVE  /\ Tail(Trimmed) \in Seq(Kinds) /\ Len(Tail(Trimmed)) = Len(Trimmed) - 1
             /\ \A i \in 1 .. Len(Tail(Trimmed)) : Tail(Trimmed)[i] = Trimmed[i + 1]
  BY <1>2, <1>3, HeadTailProperties
<1> QED BY <1>1, <1>2, <1>3, DroppedBytes

\* The limits are inductive by themselves, with the types.
LEMMA NewChangeKeepsLimits ==
  ASSUME TypeOK, LimitsRespected, NEW kind \in Kinds, NewChange(kind)
  PROVE  LimitsRespected'
<1>1. /\ qos' = qos /\ qos \in QoS
      /\ qos.maxSamples \in Nat /\ qos.maxBytes \in Nat /\ qos.depth \in Nat
  BY ConfigType DEF NewChange, QoS, Limit
<1>2. /\ history \in Seq(Kinds) /\ Len(history) \in Nat /\ Excess \in 0 .. Len(history)
      /\ Trimmed \in Seq(Kinds) /\ Len(Trimmed) = Len(history) - Excess
      /\ TotalDataBytes(history) \in Nat /\ TotalDataBytes(Trimmed) \in Nat
      /\ TotalDataBytes(Trimmed) <= TotalDataBytes(history)
  <2>1. history \in Seq(Kinds) /\ Len(history) \in Nat
    BY LenType DEF TypeOK
  <2>2. Trimmed \in Seq(Kinds) /\ Len(Trimmed) = Len(history) - Excess
    BY TrimmedType
  <2>3. TotalDataBytes(Trimmed) <= TotalDataBytes(history)
    BY RoomBytes
  <2> QED BY <2>1, <2>2, <2>3, ExcessType, TotalType
<1>3. CASE RejectChange(kind)
  <2>1. history' = Trimmed
    BY <1>3 DEF RejectChange
  <2> QED BY <1>1, <1>2, <2>1 DEF LimitsRespected
<1>4. CASE AcceptChange(kind)
  <2>1. /\ qos.maxSamples > 0 => Len(Trimmed) < qos.maxSamples
        /\ qos.maxBytes > 0 => TotalDataBytes(Trimmed) + Bytes(kind) <= qos.maxBytes
    <3>1. Bytes(kind) \in Nat
      BY WriterAssumption DEF Bytes
    <3> QED BY <1>1, <1>2, <1>4, <3>1 DEF AcceptChange, Rejected
  <2>2. ~qos.keepAll /\ qos.depth > 0 => Len(Trimmed) < qos.depth
    BY <1>1, <1>2 DEF Excess
  <2>3. /\ Len(history') <= Len(Trimmed) + 1
        /\ TotalDataBytes(history') \in Nat
        /\ TotalDataBytes(history') <= TotalDataBytes(Trimmed) + Bytes(kind)
        /\ Len(history') \in Nat
    <3> DEFINE room == IF Len(Trimmed) = SIZE THEN Tail(Trimmed) ELSE Trimmed
    <3>1. /\ room \in Seq(Kinds) /\ Len(room) <= Len(Trimmed) /\ Len(room) \in Nat
          /\ TotalDataBytes(room) <= TotalDataBytes(Trimmed)
      <4>1. Len(Trimmed) = SIZE => Trimmed # <<>>
        BY WriterAssumption, EmptySeq
      <4>2. Trimmed # <<>> => Len(Tail(Trimmed)) = Len(Trimmed) - 1
        BY <1>2, HeadTailProperties
      <4>3. room \in Seq(Kinds) /\ TotalDataBytes(room) <= TotalDataBytes(Trimmed)
        BY <1>2, <4>1, RoomBytes
      <4>4. Len(room) <= Len(Trimmed)
        BY <1>2, <4>1, <4>2
      <4> QED BY <4>3, <4>4, LenProperties
    <3>2. history' = Append(room, kind)
      BY <1>4 DEF AcceptChange
    <3> HIDE DEF room
    <3>3. Len(history') = Len(room) + 1 /\ history' \in Seq(Kinds)
      BY <3>1, <3>2, AppendProperties
    <3>4. TotalDataBytes(history') = TotalDataBytes(room) + Bytes(kind)
      BY <3>1, <3>2, AppendBytes
    <3>5. /\ TotalDataBytes(history') \in Nat /\ TotalDataBytes(room) \in Nat
          /\ Bytes(kind) \in Nat
      BY <3>1, <3>3, TotalType, WriterAssumption DEF Bytes
    <3> QED BY <1>2, <3>1, <3>3, <3>4, <3>5
  <2>4. Bytes(kind) \in Nat
    BY WriterAssumption DEF Bytes
  <2> QED BY <1>1, <1>2, <2>1, <2>2, <2>3, <2>4 DEF LimitsRespected
<1> QED BY <1>3, <1>4 DEF NewChange

\* Only a publication touches the history.
LEMMA HistoryStays ==
  ASSUME [Next]_vars, ~Application
  PROVE  history' = history /\ lastUsed' = lastUsed /\ qos' = qos
  BY DEF Next, Age, WriterThread, TakeWorkload, CheckLifespan, StartPush, Push, ReadNext,
         WriteNext, ReaderThread, ReceiveAckNack, OnNewAckNack, Answer, AnswerBeyond,
         EndAnswer, HeartbeatThread, StartRound, Announce, Matching, AddNewMatchedReader,
         Replay, Removal, RemoveReader, RemoveReaderOfParticipant, RemoveReaders, vars,
         history_vars

\* No publication, accepted or rejected, ever takes the history past a limit of
\* the QoS, in samples, in bytes or in depth.
THEOREM StaysWithinLimits == Spec => []LimitsRespected
<1>1. Init => LimitsRespected
  <2> SUFFICES ASSUME Init PROVE LimitsRespected
    OBVIOUS
  <2>1. history \in Seq(Kinds) /\ Len(history) = 0 /\ qos \in QoS
    BY EmptySeq, WriterAssumption DEF Init
  <2>2. \A kind : OfKind(history, kind) = {}
    <3>1. DOMAIN history = {}
      BY <2>1, LenProperties
    <3> QED BY <3>1 DEF OfKind
  <2>3. TotalDataBytes(history) = 0
    <3>1. TotalDataBytes(history) = Cardinality({}) + FragSize * Cardinality({})
      BY <2>1, <2>2, TotalType
    <3>2. FragSize * 0 = 0
      BY WriterAssumption
    <3> QED BY <3>1, <3>2, FS_EmptySet
  <2> QED BY <2>1, <2>3 DEF LimitsRespected, QoS, Limit
<1>2. TypeOK /\ LimitsRespected /\ [Next]_vars => LimitsRespected'
  <2> SUFFICES ASSUME TypeOK, LimitsRespected, [Next]_vars PROVE LimitsRespected'
    OBVIOUS
  <2>1. CASE Application
    BY <2>1, NewChangeKeepsLimits DEF Application
  <2>2. CASE ~Application
    BY <2>2, HistoryStays DEF LimitsRespected
  <2> QED BY <2>1, <2>2
<1> QED BY <1>1, <1>2, TypeCorrect, PTL DEF Spec

\* A KEEP_ALL writer never drops or overwrites a change: each step leaves what it
\* held as the beginning of what it holds.
THEOREM ForgetsNothing == Spec => KeepAllKeeps
<1>1. TypeOK /\ [Next]_vars
        => [qos.keepAll => SubSeq(history', 1, Len(history)) = history]_vars
  <2> SUFFICES ASSUME TypeOK, [Next]_vars, qos.keepAll
               PROVE  SubSeq(history', 1, Len(history)) = history
    OBVIOUS
  <2>1. history \in Seq(Kinds) /\ Len(history) \in Nat
    BY LenProperties DEF TypeOK
  <2>2. SubSeq(history, 1, Len(history)) = history
    BY <2>1, SubSeqFull
  <2>3. ASSUME NEW kind \in Kinds, NewChange(kind)
        PROVE  SubSeq(history', 1, Len(history)) = history
    <3>1. Trimmed = history
      BY <2>2 DEF Trimmed, Excess
    <3>2. CASE RejectChange(kind)
      BY <2>2, <3>1, <3>2 DEF RejectChange
    <3>3. CASE AcceptChange(kind)
      <4>1. history' = Append(history, kind)
        BY <3>1, <3>3 DEF AcceptChange, Rejected
      <4>2. /\ \A i \in 1 .. Len(history) : history'[i] = history[i]
            /\ \A i \in 1 .. Len(history) : history'[i] \in Kinds
        BY <2>1, <4>1, AppendProperties, ElementOfSeq
      <4> DEFINE start == SubSeq(history', 1, Len(history))
      <4>3. /\ start \in Seq(Kinds) /\ Len(start) = Len(history)
            /\ \A i \in 1 .. Len(history) : start[i] = history'[i]
        <5>1. /\ start \in Seq(Kinds)
              /\ Len(start) = IF 1 <= Len(history) THEN Len(history) - 1 + 1 ELSE 0
              /\ \A i \in 1 .. Len(history) - 1 + 1 : start[i] = history'[1 + i - 1]
          BY <2>1, <4>2, SubSeqProperties
        <5> HIDE DEF start
        <5> QED BY <2>1, <5>1
      <4> HIDE DEF start
      <4>4. start = history
        BY <2>1, <4>2, <4>3, SeqEqual
      <4> QED BY <4>4 DEF start
    <3> QED BY <2>3, <3>2, <3>3 DEF NewChange
  <2>4. CASE Application
    BY <2>3, <2>4 DEF Application
  <2>5. CASE ~Application
    BY <2>2, <2>5, HistoryStays
  <2> QED BY <2>4, <2>5
<1> QED BY <1>1, TypeCorrect, PTL DEF Spec, KeepAllKeeps

-----------------------------------------------------------------------------
(* Delivery and heartbeats: the inductive invariant.                       *)

Served(r, sn) == sn <= matchedAt[r] \/ sn \in sent[r] \/ Expired(sn)

\* progress still has a slot of the reader to visit.
Waiting(r) == \E i \in todo \cap used : proxies[i].reader = r

\* The changes progress is done with, or has begun to push.
Reached(sn) == sn < next \/ (sn = next /\ worker \in {"push", "read", "write"})

Done(r, sn) == Served(r, sn) \/ (sn = next /\ worker = "push" /\ Waiting(r))

\* A change that was reached has been sent, but for the one being pushed, which
\* the readers still to be visited are without.
ServedInv ==
  \A r \in Readers : Matched(r) => \A sn \in Held : Reached(sn) => Done(r, sn)

\* What the replay leaves out is fragmented.
ReplayedInv ==
  qos.transientLocal =>
    \A r \in Readers : Matched(r) /\ r \notin joining =>
      \A sn \in Held : sn <= matchedAt[r] =>
        sn \in sent[r] \/ KindOf(sn) = "fragmented"

OldIsNext == worker = "write" => old = next

MatchedBefore == \A r \in Readers : matchedAt[r] <= lastUsed

DeliveryInv ==
  NeverMovesNext => OldIsNext /\ MatchedBefore /\ ServedInv /\ ReplayedInv

-----------------------------------------------------------------------------
(* What keeps a change served and a reader matched.                        *)

LEMMA ServedStays ==
  ASSUME TypeOK, TypeOK', NEW r \in Readers, NEW sn \in Nat, Served(r, sn),
         qos' = qos, aged' >= aged, matchedAt'[r] >= matchedAt[r], sent[r] \subseteq sent'[r]
  PROVE  Served(r, sn)'
<1>1. /\ aged \in Nat /\ aged' \in Nat
      /\ matchedAt[r] \in Nat /\ matchedAt'[r] \in Nat
  BY DEF TypeOK
<1> QED BY <1>1 DEF Served, Expired

LEMMA MatchedSlot ==
  ASSUME NEW r, Matched(r)
  PROVE  \E i \in used : proxies[i].reader = r
  BY DEF Matched, SlotsOf

\* sendData only adds to what was sent.
LEMMA SendDataEffect ==
  ASSUME TypeOK, NEW v, NEW n, SendData(v, n), NEW r \in Readers
  PROVE  /\ sent[r] \subseteq sent'[r]
         /\ r = v /\ n \in Held => n \in sent'[r]
  BY DEF SendData, TypeOK

\* A step that leaves the history, the worker and the matched readers alone.
LEMMA OthersKeepDelivery ==
  ASSUME TypeOK, TypeOK', DeliveryInv,
         UNCHANGED <<qos, history, lastUsed, next, worker, todo, old>>,
         aged' >= aged, matchedAt' = matchedAt,
         \A i \in used' : i \in used /\ proxies'[i].reader = proxies[i].reader,
         \A r \in Readers : Matched(r)' =>
           \A i \in used : proxies[i].reader = r => i \in used',
         \A r \in Readers : sent[r] \subseteq sent'[r],
         joining \subseteq joining'
  PROVE  DeliveryInv'
<1> SUFFICES ASSUME NeverMovesNext PROVE (OldIsNext /\ MatchedBefore /\ ServedInv /\ ReplayedInv)'
  BY DEF DeliveryInv, NeverMovesNext
<1>1. OldIsNext /\ MatchedBefore /\ ServedInv /\ ReplayedInv
  BY DEF DeliveryInv
<1>2. OldIsNext' /\ MatchedBefore'
  BY <1>1 DEF OldIsNext, MatchedBefore
<1>3. Held' = Held /\ Held \subseteq Nat /\ \A sn : KindOf(sn)' = KindOf(sn)
  BY HeldType DEF Held, First, KindOf
<1>4. \A r \in Readers : Matched(r)' => Matched(r)
  BY DEF Matched, SlotsOf
<1>5. ServedInv'
  <2> SUFFICES ASSUME NEW r \in Readers, Matched(r)', NEW sn \in Held, Reached(sn)'
               PROVE  Done(r, sn)'
    BY <1>3 DEF ServedInv
  <2>1. Done(r, sn)
    BY <1>1, <1>4 DEF ServedInv, Reached
  <2>2. CASE Served(r, sn)
    <3>1. sn \in Nat /\ matchedAt'[r] >= matchedAt[r]
      BY <1>3 DEF TypeOK
    <3> QED BY <2>2, <3>1, ServedStays DEF Done
  <2>3. CASE sn = next /\ worker = "push" /\ Waiting(r)
    <3>1. Waiting(r)'
      BY <2>3 DEF Waiting
    <3> QED BY <2>3, <3>1 DEF Done
  <2> QED BY <2>1, <2>2, <2>3 DEF Done
<1>6. ReplayedInv'
  BY <1>1, <1>3, <1>4 DEF ReplayedInv
<1> QED BY <1>2, <1>5, <1>6

-----------------------------------------------------------------------------
(* One lemma per thread.                                                   *)

LEMMA NewChangeKeepsDelivery ==
  ASSUME TypeOK, TypeOK', PushInStep, DeliveryInv, NEW kind \in Kinds, NewChange(kind)
  PROVE  DeliveryInv'
<1>1. UNCHANGED <<qos, aged, proxies, used, matchedAt, joining, worker, todo, old, sent>>
  BY DEF NewChange, proxy_vars, worker_vars
<1> SUFFICES ASSUME NeverMovesNext PROVE (OldIsNext /\ MatchedBefore /\ ServedInv /\ ReplayedInv)'
  BY <1>1 DEF DeliveryInv, NeverMovesNext
<1>2. OldIsNext /\ MatchedBefore /\ ServedInv /\ ReplayedInv
  BY DEF DeliveryInv
<1>3. next' = next
  BY NextStays
<1>4. lastUsed \in Nat /\ lastUsed' \in Nat /\ lastUsed' >= lastUsed
  BY DEF NewChange, RejectChange, AcceptChange, TypeOK
<1>5. OldIsNext' /\ MatchedBefore'
  BY <1>1, <1>2, <1>3, <1>4 DEF OldIsNext, MatchedBefore, TypeOK
<1>6. Due + queued + lost = lastUsed + 1
  BY DEF PushInStep
<1>7. ASSUME NEW sn \in Int, Reached(sn)
      PROVE  sn <= lastUsed
  <2>1. next \in Nat /\ queued \in Nat /\ lost \in Nat /\ old \in Nat
    BY WriterAssumption DEF TypeOK
  <2>2. CASE worker = "idle"
    BY <1>4, <1>6, <1>7, <2>1, <2>2 DEF Due, Reached
  <2>3. CASE worker = "write"
    BY <1>2, <1>4, <1>6, <1>7, <2>1, <2>3 DEF Due, Reached, OldIsNext
  <2>4. CASE worker \notin {"idle", "write"}
    <3>1. next + 1 + queued + lost = lastUsed + 1
      BY <1>6, <2>4 DEF Due
    <3> QED BY <1>4, <1>7, <2>1, <3>1 DEF Reached
  <2> QED BY <2>2, <2>3, <2>4
<1>8. Held' \subseteq Nat
  <2>1. history' \in Seq(Kinds) /\ Len(history') <= lastUsed'
    BY DEF TypeOK
  <2>2. Len(history') \in Nat
    BY <2>1, LenProperties
  <2> QED BY <1>4, <2>1, <2>2 DEF Held, First
<1>9. \A r : Matched(r)' <=> Matched(r)
  BY <1>1 DEF Matched, SlotsOf
<1>10. ServedInv'
  <2> SUFFICES ASSUME NEW r \in Readers, Matched(r)', NEW sn \in Held', Reached(sn)'
               PROVE  Done(r, sn)'
    BY DEF ServedInv
  <2>1. Reached(sn) /\ sn \in Nat
    BY <1>1, <1>3, <1>8 DEF Reached
  <2>2. sn \in Held
    BY <1>7, <2>1, HeldStays
  <2>3. Done(r, sn)
    BY <1>2, <1>9, <2>1, <2>2 DEF ServedInv
  <2> QED BY <1>1, <1>3, <2>3 DEF Done, Served, Expired, Waiting
<1>11. ReplayedInv'
  <2> SUFFICES ASSUME qos.transientLocal, NEW r \in Readers, Matched(r), r \notin joining,
                      NEW sn \in Held', sn <= matchedAt[r]
               PROVE  sn \in sent[r] \/ KindOf(sn)' = "fragmented"
    BY <1>1, <1>9 DEF ReplayedInv
  <2>1. matchedAt[r] <= lastUsed /\ matchedAt[r] \in Nat /\ sn \in Nat
    BY <1>2, <1>8 DEF MatchedBefore, TypeOK
  <2>2. sn \in Held /\ KindOf(sn)' = KindOf(sn)
    BY <1>4, <2>1, HeldStays
  <2> QED BY <1>2, <2>2 DEF ReplayedInv
<1> QED BY <1>5, <1>10, <1>11

LEMMA WriterThreadKeepsDelivery ==
  ASSUME TypeOK, TypeOK', DeliveryInv, WriterThread
  PROVE  DeliveryInv'
<1> USE DEF history_vars, pool_vars, proxy_vars, worker_vars, replier_vars, hb_vars
<1>1. UNCHANGED <<qos, history, lastUsed, aged, proxies, used, matchedAt, joining>>
  BY DEF WriterThread, TakeWorkload, CheckLifespan, StartPush, Push, ReadNext, WriteNext
<1> SUFFICES ASSUME NeverMovesNext PROVE (OldIsNext /\ MatchedBefore /\ ServedInv /\ ReplayedInv)'
  BY <1>1 DEF DeliveryInv, NeverMovesNext
<1>2. OldIsNext /\ MatchedBefore /\ ServedInv /\ ReplayedInv
  BY DEF DeliveryInv
<1>3. /\ Held' = Held /\ Held \subseteq Nat /\ next \in Nat
      /\ \A sn : KindOf(sn)' = KindOf(sn)
  BY <1>1, HeldType DEF Held, First, KindOf, TypeOK
<1>4. \A r : Matched(r)' <=> Matched(r)
  BY <1>1 DEF Matched, SlotsOf
<1>5. \A r \in Readers : sent[r] \subseteq sent'[r]
  BY SendDataEffect
     DEF WriterThread, TakeWorkload, CheckLifespan, StartPush, Push, ReadNext, WriteNext
<1>6. OldIsNext' /\ MatchedBefore' /\ ReplayedInv'
  <2>1. OldIsNext'
    BY DEF WriterThread, TakeWorkload, CheckLifespan, StartPush, Push, ReadNext,
           WriteNext, OldIsNext
  <2>2. MatchedBefore'
    BY <1>1, <1>2 DEF MatchedBefore
  <2>3. ReplayedInv'
    BY <1>1, <1>2, <1>3, <1>4, <1>5 DEF ReplayedInv
  <2> QED BY <2>1, <2>2, <2>3
<1> SUFFICES ASSUME NEW r \in Readers, Matched(r), NEW sn \in Held, Reached(sn)'
             PROVE  Done(r, sn)'
  BY <1>3, <1>4, <1>6 DEF ServedInv
<1>7. /\ sn \in Nat /\ (Reached(sn) => Done(r, sn))
      /\ used # {}
  BY <1>2, <1>3, MatchedSlot DEF ServedInv
<1>8. ASSUME Served(r, sn)
      PROVE  Done(r, sn)'
  <2>1. aged' >= aged /\ matchedAt'[r] >= matchedAt[r]
    BY <1>1 DEF TypeOK
  <2> QED BY <1>1, <1>5, <1>7, <1>8, <2>1, ServedStays DEF Done
<1>9. CASE TakeWorkload
  BY <1>7, <1>8, <1>9 DEF TakeWorkload, Reached, Done
<1>10. CASE CheckLifespan
  <2>1. CASE sn < next
    BY <1>7, <1>8, <1>10, <2>1 DEF CheckLifespan, Reached, Done
  <2>2. CASE ~(sn < next)
    <3>1. next' = next + 1 /\ Expired(next) /\ sn = next
      BY <1>3, <1>7, <1>10, <2>2 DEF CheckLifespan, Reached
    <3> QED BY <1>8, <3>1 DEF Served
  <2> QED BY <2>1, <2>2
<1>11. CASE StartPush
  <2>1. CASE sn < next
    <3>1. Served(r, sn)
      BY <1>3, <1>7, <1>11, <2>1 DEF StartPush, Reached, Done
    <3> QED BY <1>8, <3>1
  <2>2. CASE ~(sn < next)
    <3>1. sn = next' /\ worker' = "push" /\ todo' = used
      BY <1>7, <1>11, <2>2 DEF StartPush, Reached
    <3>2. Waiting(r)'
      BY <1>1, <3>1, MatchedSlot DEF Waiting
    <3> QED BY <3>1, <3>2 DEF Done
  <2> QED BY <2>1, <2>2
<1>12. CASE Push
  <2>1. Reached(sn) /\ next' = next
    BY <1>12 DEF Push, Reached
  <2>2. CASE sn = next /\ Waiting(r)
    <3>1. PICK i \in todo \cap used : proxies[i].reader = r
      BY <2>2 DEF Waiting
    <3>2. todo' = todo \ {FirstOf(todo)}
      BY <1>7, <1>12 DEF Push, NextSlots
    <3>3. CASE i = FirstOf(todo)
      <4>1. sn \in sent'[r]
        BY <1>12, <2>2, <3>1, <3>3, SendDataEffect DEF Push
      <4> QED BY <4>1 DEF Done, Served
    <3>4. CASE i # FirstOf(todo)
      <4>1. i \in todo' /\ todo' # {}
        BY <3>1, <3>2, <3>4
      <4>2. worker' = "push"
        BY <4>1 DEF TypeOK
      <4>3. Waiting(r)'
        BY <1>1, <3>1, <4>1 DEF Waiting
      <4> QED BY <2>1, <2>2, <4>2, <4>3 DEF Done
    <3> QED BY <3>3, <3>4
  <2> QED BY <1>7, <1>8, <2>1, <2>2 DEF Done
<1>13. CASE ReadNext
  BY <1>7, <1>8, <1>13 DEF ReadNext, Reached, Done
<1>14. CASE WriteNext
  <2>1. next' = next + 1 /\ worker = "write" /\ worker' = "idle"
    BY <1>2, <1>14 DEF WriteNext, OldIsNext
  <2>2. Reached(sn)
    BY <1>3, <1>7, <2>1 DEF Reached
  <2> QED BY <1>7, <1>8, <2>1, <2>2 DEF Done
<1> QED BY <1>9, <1>10, <1>11, <1>12, <1>13, <1>14 DEF WriterThread

\* Matching a reader counts everything published before as not due to it.
LEMMA AddReaderKeepsDelivery ==
  ASSUME TypeOK, TypeOK', DeliveryInv, NEW v \in Readers, AddNewMatchedReader(v)
  PROVE  DeliveryInv'
<1> USE DEF history_vars, pool_vars, proxy_vars, worker_vars, replier_vars, hb_vars
<1>1. UNCHANGED <<qos, history, lastUsed, next, aged, worker, todo, old, sent>>
  BY DEF AddNewMatchedReader
<1> SUFFICES ASSUME NeverMovesNext PROVE (OldIsNext /\ MatchedBefore /\ ServedInv /\ ReplayedInv)'
  BY <1>1 DEF DeliveryInv, NeverMovesNext
<1>2. OldIsNext /\ MatchedBefore /\ ServedInv /\ ReplayedInv
  BY DEF DeliveryInv
<1>3. /\ Held' = Held /\ Held \subseteq Nat /\ \A sn \in Held : sn <= lastUsed
      /\ \A sn : KindOf(sn)' = KindOf(sn)
  BY <1>1, HeldType DEF Held, First, KindOf
<1> DEFINE slot == FirstOf(Free)
<1>4. slot \in Slots /\ slot \notin used
  <2>1. Free \in SUBSET Slots /\ Free # {}
    BY DEF AddNewMatchedReader, Free
  <2> QED BY <2>1, TakeSlot DEF Free
<1>5. /\ used' = used \cup {slot}
      /\ proxies'[slot].reader = v
      /\ \A i \in used : proxies'[i] = proxies[i]
  BY <1>4 DEF AddNewMatchedReader, TypeOK
<1> HIDE DEF slot
<1>6. \A r : (Matched(r) => Matched(r)') /\ (r # v => (Matched(r)' => Matched(r)))
  BY <1>5 DEF Matched, SlotsOf
<1>7. /\ \A r \in Readers : r # v => matchedAt'[r] = matchedAt[r]
      /\ matchedAt'[v] = IF Matched(v) THEN matchedAt[v] ELSE lastUsed
      /\ qos.transientLocal => joining' = joining \cup {v}
  BY DEF AddNewMatchedReader, TypeOK
<1>8. OldIsNext' /\ MatchedBefore'
  <2>1. lastUsed \in Nat
    BY DEF TypeOK
  <2>2. MatchedBefore'
    BY <1>1, <1>2, <1>7, <2>1 DEF MatchedBefore
  <2> QED BY <1>1, <1>2, <2>2 DEF OldIsNext
<1>9. ReplayedInv'
  <2> SUFFICES ASSUME qos.transientLocal, NEW r \in Readers, Matched(r)', r \notin joining',
                      NEW sn \in Held, sn <= matchedAt'[r]
               PROVE  sn \in sent[r] \/ KindOf(sn) = "fragmented"
    BY <1>1, <1>3 DEF ReplayedInv
  <2>1. r # v /\ r \notin joining
    BY <1>7
  <2> QED BY <1>2, <1>6, <1>7, <2>1 DEF ReplayedInv
<1>10. ServedInv'
  <2> SUFFICES ASSUME NEW r \in Readers, Matched(r)', NEW sn \in Held, Reached(sn)'
               PROVE  Done(r, sn)'
    BY <1>3 DEF ServedInv
  <2>1. CASE Matched(r)
    <3>1. Done(r, sn)
      BY <1>1, <1>2, <2>1 DEF ServedInv, Reached
    <3>2. matchedAt'[r] = matchedAt[r]
      BY <1>7, <2>1
    <3>3. Waiting(r) => Waiting(r)'
      BY <1>1, <1>5 DEF Waiting
    <3> QED BY <1>1, <3>1, <3>2, <3>3 DEF Done, Served, Expired
  <2>2. CASE ~Matched(r)
    <3>1. r = v /\ matchedAt'[r] = lastUsed
      BY <1>6, <1>7, <2>2
    <3> QED BY <1>3, <3>1 DEF Done, Served
  <2> QED BY <2>1, <2>2
<1> QED BY <1>8, <1>9, <1>10

\* The replay sends everything held that is not fragmented.
LEMMA ReplayKeepsDelivery ==
  ASSUME TypeOK, TypeOK', DeliveryInv, NEW v \in Readers, Replay(v)
  PROVE  DeliveryInv'
<1> USE DEF history_vars, pool_vars, proxy_vars, worker_vars, replier_vars, hb_vars
<1>1. UNCHANGED <<qos, history, lastUsed, next, aged, worker, todo, old, proxies, used,
                  matchedAt>>
  BY DEF Replay
<1>2. /\ \A r \in Readers : sent[r] \subseteq sent'[r]
      /\ \A sn \in Held : KindOf(sn) = "plain" => sn \in sent'[v]
      /\ joining' = joining \ {v}
  BY DEF Replay, TypeOK
<1>3. /\ Held' = Held /\ \A sn : KindOf(sn)' = KindOf(sn)
      /\ \A r : Matched(r)' <=> Matched(r)
  BY <1>1 DEF Held, First, KindOf, Matched, SlotsOf
<1>4. \A sn \in Held : KindOf(sn) \in {"plain", "fragmented"}
  <2> SUFFICES ASSUME NEW sn \in Held PROVE KindOf(sn) \in {"plain", "fragmented"}
    OBVIOUS
  <2>1. lastUsed \in Nat /\ Len(history) \in Nat /\ history \in Seq(Kinds)
    BY LenType DEF TypeOK
  <2>2. sn - First + 1 \in 1 .. Len(history)
    BY <2>1 DEF Held, First
  <2>3. KindOf(sn) \in Kinds
    BY <2>1, <2>2, ElementOfSeq DEF KindOf
  <2> QED BY <2>3, WriterAssumption
<1> SUFFICES ASSUME NeverMovesNext PROVE (OldIsNext /\ MatchedBefore /\ ServedInv /\ ReplayedInv)'
  BY <1>1 DEF DeliveryInv, NeverMovesNext
<1>5. OldIsNext /\ MatchedBefore /\ ServedInv /\ ReplayedInv
  BY DEF DeliveryInv
<1>6. ReplayedInv'
  <2> SUFFICES ASSUME qos.transientLocal, NEW r \in Readers, Matched(r), r \notin joining',
                      NEW sn \in Held, sn <= matchedAt[r]
               PROVE  sn \in sent'[r] \/ KindOf(sn) = "fragmented"
    BY <1>1, <1>3 DEF ReplayedInv
  <2>1. CASE r = v
    BY <1>2, <1>4, <2>1
  <2>2. CASE r # v
    BY <1>2, <1>5, <2>2 DEF ReplayedInv
  <2> QED BY <2>1, <2>2
<1>7. ServedInv'
  BY <1>1, <1>2, <1>3, <1>5 DEF ServedInv, Reached, Done, Served, Expired, Waiting
<1>8. OldIsNext' /\ MatchedBefore'
  BY <1>1, <1>5 DEF OldIsNext, MatchedBefore
<1> QED BY <1>6, <1>7, <1>8

LEMMA NextKeepsDelivery ==
  ASSUME TypeOK, TypeOK', PushInStep, DeliveryInv, [Next]_vars
  PROVE  DeliveryInv'
<1> USE DEF history_vars, pool_vars, proxy_vars, worker_vars, replier_vars, hb_vars
<1>1. CASE Application
  BY <1>1, NewChangeKeepsDelivery DEF Application
<1>2. CASE WriterThread
  BY <1>2, WriterThreadKeepsDelivery
<1>3. CASE Matching
  BY <1>3, AddReaderKeepsDelivery, ReplayKeepsDelivery DEF Matching
<1>4. ASSUME UNCHANGED <<qos, history, lastUsed, next, worker, todo, old, matchedAt, joining>>,
             aged' >= aged, \A r \in Readers : sent[r] \subseteq sent'[r], used' = used,
             \A i \in used : proxies'[i].reader = proxies[i].reader
      PROVE  DeliveryInv'
  BY <1>4, OthersKeepDelivery
<1>5. aged \in Nat
  BY DEF TypeOK
<1>6. CASE Age \/ HeartbeatThread \/ AnswerBeyond \/ EndAnswer \/ UNCHANGED vars
  BY <1>4, <1>5, <1>6 DEF Age, HeartbeatThread, StartRound, Announce, AnswerBeyond,
                          EndAnswer, vars
<1>7. CASE Answer
  BY <1>4, <1>5, <1>7, SendDataEffect DEF Answer
<1>8. CASE ReceiveAckNack
  <2>1. PICK r \in Readers, base \in 0 .. lastUsed + 1, count \in 1 .. MaxCount,
             n \in 0 .. MaxBits : \E bits \in [1 .. n -> BOOLEAN] :
               OnNewAckNack(r, base, bits, count)
    BY <1>8 DEF ReceiveAckNack
  <2>2. proxies' = [proxies EXCEPT ![FirstOf(SlotsOf(r))].ackNackCount = count]
    BY <2>1 DEF OnNewAckNack
  <2>3. \A i \in Slots : proxies'[i].reader = proxies[i].reader
    BY <2>2 DEF TypeOK
  <2>4. UNCHANGED <<qos, history_vars, used, matchedAt, joining, worker_vars, sent>>
    BY <2>1 DEF OnNewAckNack
  <2> QED BY <1>4, <1>5, <2>3, <2>4 DEF TypeOK
<1>9. ASSUME NEW S, RemoveReaders(S)
      PROVE  DeliveryInv'
  <2>1. /\ UNCHANGED <<qos, history_vars, proxies, matchedAt, joining, worker_vars, sent>>
        /\ used' = {i \in used : proxies[i].reader \notin S}
    BY <1>9 DEF RemoveReaders
  <2>2. \A r \in Readers : Matched(r)' =>
          \A i \in used : proxies[i].reader = r => i \in used'
    BY <2>1 DEF Matched, SlotsOf
  <2> QED BY <1>5, <2>1, <2>2, OthersKeepDelivery
<1> QED BY <1>1, <1>2, <1>3, <1>6, <1>7, <1>8, <1>9
        DEF Next, ReaderThread, Removal, RemoveReader, RemoveReaderOfParticipant

LEMMA InitDelivery == Init => DeliveryInv
<1> SUFFICES ASSUME Init PROVE OldIsNext /\ MatchedBefore /\ ServedInv /\ ReplayedInv
  BY DEF DeliveryInv
<1>1. \A r : ~Matched(r)
  BY DEF Init, Matched, SlotsOf
<1> QED BY <1>1 DEF Init, OldIsNext, MatchedBefore, ServedInv, ReplayedInv

-----------------------------------------------------------------------------
(* The theorems.                                                           *)

\* Whatever readers come, go and ask for, in every state of a writer whose next
\* only progress moves, all that progress has passed is served.
THEOREM DeliveryCorrect == Spec => []DeliveryInv
  BY InitTypeOK, NextTypeOK, InStep, InitDelivery, NextKeepsDelivery, PTL DEF Spec

\* With KEEP_ALL, and with a depth of one, a writer that has nothing left to do
\* has sent every change it holds to every reader matched when it was published,
\* unless its lifespan was over.
THEOREM ServesEveryone == Spec => []EveryoneServed
<1>1. TypeOK /\ PushInStep /\ DeliveryInv => EveryoneServed
  <2> SUFFICES ASSUME TypeOK, PushInStep, DeliveryInv, NeverMovesNext, Quiet,
                      NEW r \in Readers, Matched(r), NEW sn \in Held
               PROVE  Served(r, sn)
    BY DEF EveryoneServed, SentToAll, Served
  <2>1. next = lastUsed + 1 /\ worker = "idle" /\ lastUsed \in Nat
    BY DEF Quiet, PushInStep, Due, TypeOK
  <2>2. Reached(sn)
    BY <2>1, HeldType DEF Held, Reached
  <2> QED BY <2>1, <2>2 DEF DeliveryInv, ServedInv, Done
<1> QED BY <1>1, TypeCorrect, InStep, DeliveryCorrect, PTL

\* With TRANSIENT_LOCAL a late joiner has then also been sent every change held
\* from before its match, but for the fragmented ones: none falls between the
\* adding of the proxy, the replay and progress.
THEOREM ServesLateJoiners == Spec => []LateJoinersServed
<1>1. TypeOK /\ DeliveryInv /\ EveryoneServed => LateJoinersServed
  <2> SUFFICES ASSUME TypeOK, DeliveryInv, NeverMovesNext, EveryoneServed,
                      qos.transientLocal, Quiet,
                      NEW r \in Readers, Matched(r), r \notin joining, NEW sn \in Held
               PROVE  sn \in sent[r] \/ Expired(sn) \/ KindOf(sn) = "fragmented"
    BY DEF LateJoinersServed
  <2>1. CASE sn <= matchedAt[r]
    BY <2>1 DEF DeliveryInv, ReplayedInv
  <2>2. CASE ~(sn <= matchedAt[r])
    BY <2>2 DEF EveryoneServed, SentToAll
  <2> QED BY <2>1, <2>2
<1> QED BY <1>1, TypeCorrect, DeliveryCorrect, ServesEveryone, PTL

-----------------------------------------------------------------------------
(* What is announced.                                                      *)

\* Nothing announced is ahead of the count or of the window.
AnnouncedInv ==
  /\ \A a \in announced : /\ a.count \in Nat /\ a.count <= hbCount
                          /\ a.firstSN \in Nat /\ a.firstSN <= First
                          /\ a.lastSN \in Nat /\ a.lastSN <= lastUsed
  /\ StaleHeartbeatsSafe

\* The window only moves up.
LEMMA WindowMovesUp ==
  ASSUME TypeOK, [Next]_vars
  PROVE  First' >= First /\ lastUsed' >= lastUsed
<1>1. lastUsed \in Nat /\ Len(history) \in Nat /\ First \in Nat
  BY LenType, HeldType DEF TypeOK
<1>2. ASSUME NEW kind \in Kinds, NewChange(kind)
      PROVE  First' >= First /\ lastUsed' >= lastUsed
  <2>1. CASE RejectChange(kind)
    BY <1>1, <2>1, RejectShift DEF First
  <2>2. CASE AcceptChange(kind)
    <3>1. PICK d \in Excess .. Len(history) : Len(history') = Len(history) - d + 1
      BY <2>2, AcceptShift
    <3>2. Excess \in Nat /\ lastUsed' = lastUsed + 1
      BY <2>2, AcceptShift
    <3> QED BY <1>1, <3>1, <3>2 DEF First
  <2> QED BY <1>2, <2>1, <2>2 DEF NewChange
<1>3. CASE Application
  BY <1>2, <1>3 DEF Application
<1>4. CASE ~Application
  BY <1>1, <1>4, HistoryStays DEF First
<1> QED BY <1>3, <1>4

LEMMA NextKeepsAnnounced ==
  ASSUME TypeOK, TypeOK', AnnouncedInv, [Next]_vars
  PROVE  AnnouncedInv'
<1>1. /\ First' >= First /\ lastUsed' >= lastUsed
      /\ First \in Nat /\ First' \in Nat /\ lastUsed \in Nat /\ lastUsed' \in Nat
      /\ hbCount \in Nat
  <2>1. Len(history') \in Nat /\ Len(history') <= lastUsed' /\ lastUsed' \in Nat
    BY LenProperties DEF TypeOK
  <2>2. First' \in Nat
    BY <2>1 DEF First
  <2>3. First \in Nat /\ lastUsed \in Nat /\ hbCount \in Nat
    BY HeldType DEF TypeOK
  <2> QED BY <2>1, <2>2, <2>3, WindowMovesUp
<1>2. CASE announced' = announced /\ hbCount' = hbCount
  BY <1>1, <1>2 DEF AnnouncedInv, StaleHeartbeatsSafe
<1>3. CASE Announce /\ history # <<>>
  <2> DEFINE new == [reader |-> proxies[FirstOf(hbTodo)].reader, firstSN |-> First,
                     lastSN |-> lastUsed, count |-> hbCount]
  <2>1. /\ announced' = announced \cup {new}
        /\ hbCount' \in {hbCount, hbCount + 1}
    BY <1>3 DEF Announce
  <2>2. new.count = hbCount /\ new.firstSN = First /\ new.lastSN = lastUsed
    OBVIOUS
  <2> HIDE DEF new
  <2> QED BY <1>1, <2>1, <2>2 DEF AnnouncedInv, StaleHeartbeatsSafe
<1>4. \/ announced' = announced /\ hbCount' = hbCount
      \/ Announce /\ history # <<>>
  BY DEF Next, Application, NewChange, Age, WriterThread, TakeWorkload, CheckLifespan,
     StartPush, Push, ReadNext, WriteNext, ReaderThread, ReceiveAckNack, OnNewAckNack,
     Answer, AnswerBeyond, EndAnswer, HeartbeatThread, StartRound, Announce, Matching,
     AddNewMatchedReader, Replay, Removal, RemoveReader, RemoveReaderOfParticipant,
     RemoveReaders, vars, hb_vars
<1> QED BY <1>2, <1>3, <1>4

\* For any number of readers, slots and rounds, and whatever the history does
\* between two turns of the loop, a later count never announces an older window.
THEOREM StaleIsSafe == Spec => []StaleHeartbeatsSafe
<1>1. Init => AnnouncedInv
  BY DEF Init, AnnouncedInv, StaleHeartbeatsSafe
<1>2. AnnouncedInv => StaleHeartbeatsSafe
  BY DEF AnnouncedInv
<1>3. TypeOK /\ [Next]_vars => TypeOK'
  BY NextTypeOK
<1> QED BY <1>1, <1>2, <1>3, InitTypeOK, NextKeepsAnnounced, PTL DEF Spec
=============================================================================
