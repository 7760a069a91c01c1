---------------------------- MODULE HistoryCache ----------------------------
(***************************************************************************)
(* SimpleHistoryCache: the ring of SIZE + 1 slots in which a writer keeps  *)
(* the changes it may have to send again.  One slot is always free, so     *)
(* that head = tail means empty.  Adding to a full ring drops the oldest   *)
(* change.                                                                 *)
(*                                                                         *)
(* A sequence number is the pair (high, low) of the code read as one       *)
(* integer, high * LowRange + low; LowRange is 2^32 in the code.  The      *)
(* subtraction in getChangeBySN is done on the low words and wraps.        *)
(***************************************************************************)
EXTENDS Integers

CONSTANTS
  Data,      \* payloads
  NoData,    \* the payload of a slot that was never written
  SIZE,      \* HISTORY_SIZE_STATEFUL / HISTORY_SIZE_STATELESS
  LowRange,  \* how many values the low word of a sequence number has
  MaxSN      \* bound: sequence numbers a run gives out

ASSUME CacheAssumption ==
  /\ SIZE \in Nat \ {0}
  /\ LowRange \in Nat /\ LowRange > SIZE
  /\ MaxSN \in Nat
  /\ NoData \notin Data

VARIABLES
  buffer,    \* m_buffer
  head,      \* m_head: the slot the next change goes to
  tail,      \* m_tail: the slot of the oldest change
  lastUsed   \* m_lastUsedSequenceNumber

vars == <<buffer, head, tail, lastUsed>>

-----------------------------------------------------------------------------

Slots == 0 .. SIZE

UNKNOWN == -LowRange             \* SEQUENCENUMBER_UNKNOWN = (-1, 0)

Low(sn) == sn % LowRange

SN == 1 .. MaxSN

Change == [sn : Nat \cup {UNKNOWN}, data : Data \cup {NoData}]

DefaultChange == [sn |-> UNKNOWN, data |-> NoData]

NoChange == [sn |-> UNKNOWN - 1, data |-> NoData]     \* nullptr

-----------------------------------------------------------------------------
(* The const methods.                                                      *)

Increment(it) == IF it + 1 >= SIZE + 1 THEN 0 ELSE it + 1

\* The slot k places after slot i.
After(i, k) == IF i + k >= SIZE + 1 THEN i + k - (SIZE + 1) ELSE i + k

\* The slot of change number k, counted from the oldest.
At(k) == After(tail, k)

IsEmpty == head = tail

IsFull == Increment(head) = tail

GetChangeCount == IF head >= tail THEN head - tail ELSE SIZE + 1 - tail + head

GetSeqNumMin == IF IsEmpty THEN UNKNOWN ELSE buffer[tail].sn

GetSeqNumMax == IF IsEmpty THEN UNKNOWN ELSE lastUsed

\* Mutant of GetChangeBySN: a number older than the oldest change is not
\* turned away.
GetChangeBySNUnchecked(sn) ==
  IF GetSeqNumMax < sn
  THEN NoChange
  ELSE buffer[At((Low(sn) - Low(GetSeqNumMin)) % LowRange)]

GetChangeBySN(sn) ==
  IF sn < GetSeqNumMin \/ GetSeqNumMax < sn
  THEN NoChange
  ELSE buffer[At((Low(sn) - Low(GetSeqNumMin)) % LowRange)]

-----------------------------------------------------------------------------
(* The methods that change the ring.                                       *)

Init ==
  /\ buffer = [i \in Slots |-> DefaultChange]
  /\ head = 0
  /\ tail = 0
  /\ lastUsed = 0

\* Mutants of AddChange: the number is stored before it is incremented; the
\* head runs into the tail without moving it.
AddChangeStaleNumber(d) ==
  /\ lastUsed < MaxSN
  /\ lastUsed' = lastUsed + 1
  /\ buffer' = [buffer EXCEPT ![head] = [sn |-> lastUsed, data |-> d]]
  /\ head' = Increment(head)
  /\ tail' = IF Increment(head) = tail THEN Increment(tail) ELSE tail

AddChangeKeepsTail(d) ==
  /\ lastUsed < MaxSN
  /\ lastUsed' = lastUsed + 1
  /\ buffer' = [buffer EXCEPT ![head] = [sn |-> lastUsed + 1, data |-> d]]
  /\ head' = Increment(head)
  /\ UNCHANGED tail

\* addChange, both overloads: incrementHead drops the oldest change when the
\* head runs into the tail.
AddChange(d) ==
  /\ lastUsed < MaxSN
  /\ lastUsed' = lastUsed + 1
  /\ buffer' = [buffer EXCEPT ![head] = [sn |-> lastUsed + 1, data |-> d]]
  /\ head' = Increment(head)
  /\ tail' = IF Increment(head) = tail THEN Increment(tail) ELSE tail

\* The loop of removeUntilIncl stops at the first change newer than sn.
StopsAt(k, sn) ==
  /\ \A j \in 0 .. k - 1 : buffer[At(j)].sn <= sn
  /\ buffer[At(k)].sn > sn

RemoveUntilIncl(sn) ==
  /\ ~IsEmpty
  /\ \/ /\ GetSeqNumMax <= sn
        /\ head' = tail
        /\ UNCHANGED tail
     \/ /\ GetSeqNumMax > sn
        /\ \E k \in 0 .. GetChangeCount - 1 : StopsAt(k, sn) /\ tail' = At(k)
        /\ UNCHANGED head
  /\ UNCHANGED <<buffer, lastUsed>>

DropOldest == RemoveUntilIncl(GetSeqNumMin)

Next ==
  \/ \E d \in Data : AddChange(d)
  \/ \E sn \in SN : RemoveUntilIncl(sn)
  \/ DropOldest

Spec == Init /\ [][Next]_vars

-----------------------------------------------------------------------------
(* Properties.                                                             *)

First == lastUsed - GetChangeCount + 1

TypeOK ==
  /\ buffer \in [Slots -> Change]
  /\ head \in Slots
  /\ tail \in Slots
  /\ lastUsed \in Nat

\* The live slots hold consecutive sequence numbers that end at the last one
\* given out, whatever mixture of adding, overwriting and removing came
\* before: what getSeqNumMin, getSeqNumMax and the index arithmetic of
\* getChangeBySN rely on without checking it.
WindowConsecutive ==
  /\ GetChangeCount <= SIZE
  /\ GetChangeCount <= lastUsed
  /\ \A k \in 0 .. GetChangeCount - 1 : buffer[At(k)].sn = First + k

\* getChangeBySN finds exactly the changes that are held, and the change it
\* returns is the one asked for.
LookupExact ==
  \A sn \in 0 .. MaxSN + 1 :
    IF sn \in First .. lastUsed
    THEN GetChangeBySN(sn).sn = sn
    ELSE GetChangeBySN(sn) = NoChange

\* The ring implements the abstract history: every change held is found under
\* its sequence number with the payload it was added with.
History == INSTANCE HistorySpec WITH
  first  <- First,
  window <- [sn \in First .. lastUsed |-> GetChangeBySN(sn).data]

ImplementsHistory == History!Spec

=============================================================================
