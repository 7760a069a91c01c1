--------------------------- MODULE StatefulReader ---------------------------
(***************************************************************************)
(* StatefulReaderT, the reliable reader.  The reader thread hands it DATA  *)
(* and HEARTBEAT submessages and the writers discovery has matched; the    *)
(* SPDP thread removes the writers of a participant whose lease ran out;   *)
(* the application registers its callback.  Every handler but             *)
(* registerCallback is one critical section of m_mutex and so one step     *)
(* here.  The callback is called after the lock is released, on the thread *)
(* that received the DATA, with what was read under the lock: it is part   *)
(* of the step.                                                            *)
(*                                                                         *)
(* The network may lose, duplicate, delay and reorder: any change of a     *)
(* writer, and any heartbeat, may arrive at any time, any number of times. *)
(***************************************************************************)
EXTENDS Integers, Sequences, FiniteSets

CONSTANTS
  Writers,       \* remote writers, by GUID
  NoWriter,      \* GUID_UNKNOWN
  Participants,  \* the sets of writers that belong to one participant
  ProxySlots,    \* NUM_WRITER_PROXIES_PER_READER
  MaxSN,         \* bound: changes each writer publishes
  MaxHB,         \* bound: the count of a heartbeat
  MaxReceived    \* bound: DATA submessages received once there is a callback

ASSUME ReaderAssumption ==
  /\ NoWriter \notin Writers
  /\ Participants \subseteq SUBSET Writers
  /\ ProxySlots \in Nat \ {0}
  /\ MaxSN \in Nat /\ MaxHB \in Nat /\ MaxReceived \in Nat

VARIABLES
  callback,       \* m_callback is set
  callee,         \* m_callee is set
  proxies,        \* m_proxies: what each slot of the pool was last set to
  used,           \* the slots in use, the pool's bitmap
  pendingGuid,    \* m_pendingWriterGuid
  pendingNextSN,  \* m_pendingNextSN
  received,       \* m_receivedCount
  dropped,        \* m_outOfOrderDropCount
  early,          \* m_acceptedBeforeMatchCount
  delivered,      \* the changes of each writer the callback was given, in order
  since,          \* how many of them when the writer was last matched
  unmatched,      \* those of them that came while the writer had no proxy
  gone            \* the highest firstSN a heartbeat of the writer announced, or 1

callback_vars == <<callback, callee>>
proxy_vars    == <<proxies, used>>
pending_vars  == <<pendingGuid, pendingNextSN>>
count_vars    == <<received, dropped, early>>
log_vars      == <<delivered, since, unmatched, gone>>

vars == <<callback_vars, proxy_vars, pending_vars, count_vars, log_vars>>

-----------------------------------------------------------------------------
UNKNOWN == -1                 \* SEQUENCENUMBER_UNKNOWN

SN == 1 .. MaxSN

\* The first and last numbers a heartbeat may carry, in any combination: an empty
\* history is announced by a first number above the last.
Announced == 0 .. MaxSN

Slots == 1 .. ProxySlots

Proxy == [writer : Writers \cup {NoWriter}, expectedSN : Int,
          ackNackCount : Nat, hbCount : Nat]

\* Mutant of NewProxy: the heartbeat count is left as it was in memory.
NewProxyUninitialised(w) ==
  [writer |-> w, expectedSN |-> 1, ackNackCount |-> 1, hbCount |-> -1]

\* The constructor WriterProxy(guid, loc).
NewProxy(w) == [writer |-> w, expectedSN |-> 1, ackNackCount |-> 1, hbCount |-> 0]

FirstOf(S) == CHOOSE i \in S : \A j \in S : i <= j

SlotsOf(w) == {i \in used : proxies[i].writer = w}

Matched(w) == SlotsOf(w) # {}

\* The loops over m_proxies stop at the first proxy of the writer.
SlotOf(w) == FirstOf(SlotsOf(w))

Free == Slots \ used

Init ==
  /\ callback = FALSE
  /\ callee = FALSE
  /\ proxies = [i \in Slots |-> NewProxy(NoWriter)]
  /\ used = {}
  /\ pendingGuid = NoWriter
  /\ pendingNextSN = UNKNOWN
  /\ received = 0
  /\ dropped = 0
  /\ early = 0
  /\ delivered = [w \in Writers |-> <<>>]
  /\ since = [w \in Writers |-> 0]
  /\ unmatched = [w \in Writers |-> {}]
  /\ gone = [w \in Writers |-> 1]

-----------------------------------------------------------------------------
(* registerCallback sets the two members without the lock.                 *)

SetCallback ==
  /\ ~callback
  /\ callback' = TRUE
  /\ UNCHANGED <<callee, proxy_vars, pending_vars, count_vars, log_vars>>

SetCallee ==
  /\ callback /\ ~callee
  /\ callee' = TRUE
  /\ UNCHANGED <<callback, proxy_vars, pending_vars, count_vars, log_vars>>

-----------------------------------------------------------------------------
(* newChange.                                                              *)

Deliver(w, sn) == delivered' = [delivered EXCEPT ![w] = Append(@, sn)]

\* Below what the proxy expects: dropped.
DropOld(w, sn) ==
  /\ Matched(w)
  /\ sn < proxies[SlotOf(w)].expectedSN
  /\ dropped' = dropped + 1
  /\ UNCHANGED <<proxies, pending_vars, early, delivered, unmatched>>

\* Mutant of AcceptMatched: the number accepted stays the expected one.
AcceptMatchedStays(w, sn) ==
  /\ Matched(w)
  /\ sn >= proxies[SlotOf(w)].expectedSN
  /\ proxies' = [proxies EXCEPT ![SlotOf(w)].expectedSN = sn]
  /\ Deliver(w, sn)
  /\ UNCHANGED <<pending_vars, dropped, early, unmatched>>

\* What the proxy expects, or any number above it.
AcceptMatched(w, sn) ==
  /\ Matched(w)
  /\ sn >= proxies[SlotOf(w)].expectedSN
  /\ proxies' = [proxies EXCEPT ![SlotOf(w)].expectedSN = sn + 1]
  /\ Deliver(w, sn)
  /\ UNCHANGED <<pending_vars, dropped, early, unmatched>>

\* A writer without a proxy: delivered, and remembered in the one pending slot.
AcceptEarly(w, sn) ==
  /\ ~Matched(w)
  /\ pendingGuid' = w
  /\ pendingNextSN' = sn + 1
  /\ early' = early + 1
  /\ unmatched' = [unmatched EXCEPT ![w] = @ \cup {sn}]
  /\ Deliver(w, sn)
  /\ UNCHANGED <<proxies, dropped>>

\* Without a callback newChange returns before it looks at the proxies.
NewChange(w, sn) ==
  /\ callback
  /\ received < MaxReceived
  /\ received' = received + 1
  /\ DropOld(w, sn) \/ AcceptMatched(w, sn) \/ AcceptEarly(w, sn)
  /\ UNCHANGED <<callback_vars, used, since, gone>>

-----------------------------------------------------------------------------
(* Matching.                                                               *)

\* Mutant of AddNewMatchedWriter: the pending slot is used whoever filled it.
AddNewMatchedWriterAnyPending(w) ==
  /\ Free # {}
  /\ LET slot == FirstOf(Free)
         known == pendingNextSN # UNKNOWN /\ NewProxy(w).expectedSN < pendingNextSN
     IN  /\ proxies' = [proxies EXCEPT ![slot] =
                          IF known
                          THEN [NewProxy(w) EXCEPT !.expectedSN = pendingNextSN]
                          ELSE NewProxy(w)]
         /\ used' = used \cup {slot}
  /\ since' = [since EXCEPT ![w] = Len(delivered[w])]
  /\ UNCHANGED <<callback_vars, pending_vars, count_vars, delivered, unmatched, gone>>

\* Mutant of AddNewMatchedWriter: the pending slot is not looked at.
AddNewMatchedWriterNoPending(w) ==
  /\ Free # {}
  /\ proxies' = [proxies EXCEPT ![FirstOf(Free)] = NewProxy(w)]
  /\ used' = used \cup {FirstOf(Free)}
  /\ since' = [since EXCEPT ![w] = Len(delivered[w])]
  /\ UNCHANGED <<callback_vars, pending_vars, count_vars, delivered, unmatched, gone>>

\* addNewMatchedWriter: the pending slot moves the new proxy past what was
\* delivered before; there is no test for a proxy the writer already has.
AddNewMatchedWriter(w) ==
  /\ Free # {}
  /\ LET slot == FirstOf(Free)
         known == pendingGuid = w /\ pendingNextSN # UNKNOWN
                    /\ NewProxy(w).expectedSN < pendingNextSN
     IN  /\ proxies' = [proxies EXCEPT ![slot] =
                          IF known
                          THEN [NewProxy(w) EXCEPT !.expectedSN = pendingNextSN]
                          ELSE NewProxy(w)]
         /\ used' = used \cup {slot}
  /\ since' = [since EXCEPT ![w] = Len(delivered[w])]
  /\ UNCHANGED <<callback_vars, pending_vars, count_vars, delivered, unmatched, gone>>

RemoveWriters(S) ==
  /\ \E w \in S : Matched(w)
  /\ used' = {i \in used : proxies[i].writer \notin S}
  /\ UNCHANGED <<callback_vars, proxies, pending_vars, count_vars, log_vars>>

RemoveWriter(w) == RemoveWriters({w})

RemoveWriterOfParticipant(P) == RemoveWriters(P)

-----------------------------------------------------------------------------
(* onNewHeartbeat.                                                         *)

\* Mutant of Base: everything the writer still has is asked for.
BaseFromFirst(expected, firstSN) == firstSN

\* The oldest change the writer still has, or a newer one that is expected.
Base(expected, firstSN) == IF expected < firstSN THEN firstSN ELSE expected

\* getMissing: moves the proxy up to Base and asks for the one it then expects, if
\* there is one.
GetMissing(expected, firstSN, lastSN) ==
  LET base == Base(expected, firstSN)
  IN  [base |-> base, bits |-> IF lastSN < base THEN <<>> ELSE <<TRUE>>]

\* The ACKNACK the writer is sent for a heartbeat.
AckNack(w, firstSN, lastSN) ==
  LET proxy == proxies[SlotOf(w)]
  IN  [writer |-> w, count |-> proxy.ackNackCount,
       set |-> GetMissing(proxy.expectedSN, firstSN, lastSN)]

\* A heartbeat of an unmatched writer, or one whose count is not above the
\* highest seen, is ignored.  Its last number decides about the bits of the ACKNACK,
\* which goes to the network, and about nothing the reader keeps.
OnNewHeartbeat(w, firstSN, count) ==
  /\ Matched(w)
  /\ LET proxy == proxies[SlotOf(w)]
     IN  /\ proxy.hbCount < count
         /\ proxies' = [proxies EXCEPT ![SlotOf(w)] =
              [proxy EXCEPT !.hbCount = count,
                            !.expectedSN = Base(@, firstSN),
                            !.ackNackCount = @ + 1]]
  /\ gone' = [gone EXCEPT ![w] = IF firstSN > @ THEN firstSN ELSE @]
  /\ UNCHANGED <<callback_vars, used, pending_vars, count_vars, delivered, since,
                 unmatched>>

-----------------------------------------------------------------------------
ReceiveData == \E w \in Writers, sn \in SN : NewChange(w, sn)

ReceiveHeartbeat ==
  \E w \in Writers, firstSN \in Announced, count \in 1 .. MaxHB :
    OnNewHeartbeat(w, firstSN, count)

Matching ==
  \/ \E w \in Writers : AddNewMatchedWriter(w) \/ RemoveWriter(w)
  \/ \E P \in Participants : RemoveWriterOfParticipant(P)

Next == SetCallback \/ SetCallee \/ ReceiveData \/ ReceiveHeartbeat \/ Matching

Spec == Init /\ [][Next]_vars

-----------------------------------------------------------------------------
(* Properties.                                                             *)

TypeOK ==
  /\ callback \in BOOLEAN /\ callee \in BOOLEAN
  /\ proxies \in [Slots -> Proxy]
  /\ used \subseteq Slots
  /\ pendingGuid \in Writers \cup {NoWriter}
  /\ pendingNextSN \in Int
  /\ received \in Nat /\ dropped \in Nat /\ early \in Nat
  /\ delivered \in [Writers -> Seq(Nat)]
  /\ since \in [Writers -> Nat]
  /\ unmatched \in [Writers -> SUBSET Nat]
  /\ gone \in [Writers -> Nat]

\* The changes of the writer delivered since it was last matched.
Recent(w) == {delivered[w][i] : i \in since[w] + 1 .. Len(delivered[w])}

\* From one match to the next a matched writer's changes reach the callback in
\* the order of their numbers, each at most once, whatever the network
\* duplicates or reorders and whoever else is matched or removed meanwhile.
InOrderOnce ==
  \A w \in Writers : Matched(w) =>
    \A i, j \in since[w] + 1 .. Len(delivered[w]) :
      i < j => delivered[w][i] < delivered[w][j]

\* The ACKNACK that answers a heartbeat starts at the proxy's expected number or
\* above: a reader never asks again for what it has delivered since the match.
NeverAsksAgain ==
  \A w \in Writers : Matched(w) =>
    \A sn \in Recent(w), firstSN, lastSN \in Announced :
      sn < AckNack(w, firstSN, lastSN).set.base

\* A reader refuses a change for good only when that change, or a newer one of
\* the same writer, was delivered, or when the writer announced that it no longer
\* has it: neither another writer's early change nor a stale proxy in the slot
\* moves the expected number.
NothingRefusedUnseen ==
  \A w \in Writers : Matched(w) =>
    \A n \in 1 .. proxies[SlotOf(w)].expectedSN - 1 :
      n < gone[w] \/ \E i \in DOMAIN delivered[w] : n <= delivered[w][i]

\* The pending slot still knows of all that was delivered of the writer unmatched.
Pending(w) ==
  pendingGuid = w /\ unmatched[w] # {} /\ \A sn \in unmatched[w] : sn < pendingNextSN

\* "When the matching writer is later added, addNewMatchedWriter() advances its
\* expected sequence number": no change delivered before the match is expected again
\* after it, whoever else is matched, removed and matched again, as long as neither
\* early data of another writer nor an older change of its own took the one pending
\* slot.  When it was taken the change is expected again (AcceptEarly).
EarlyDataNotRepeated ==
  \A w \in Writers : Pending(w) /\ Matched(w) =>
    \A sn \in unmatched[w] : sn < proxies[SlotOf(w)].expectedSN

\* Reliable delivery: between the first change delivered since the match and
\* the one expected next none is missing, unless the writer has announced that
\* it no longer has it.
NothingSkipped ==
  \A w \in Writers : Matched(w) =>
    \A sn \in Recent(w) :
      \A n \in sn .. proxies[SlotOf(w)].expectedSN - 1 :
        n \in Recent(w) \/ n < gone[w]

=============================================================================
