------------------------------- MODULE Routing -------------------------------
(***************************************************************************)
(* The reader a DATA submessage is given to when it names none: one that   *)
(* knows the writer, or the one in the table of writers and readers        *)
(* (Participant), or the first without any writer.  Three threads meet at  *)
(* the table with no lock of its own: the application ("app") and the      *)
(* reader thread ("rx") add to it when they match a writer, the reader     *)
(* thread looks up in it, the SPDP thread ("spdp") closes its gaps when it *)
(* drops a participant.  A step reads or stores one field of one entry, or *)
(* the count.                                                              *)
(*                                                                         *)
(* Of matching there is what decides who adds to the table, and when; the  *)
(* rest is in Discovery.                                                   *)
(***************************************************************************)
EXTENDS Naturals, Sequences, FiniteSets, Bags

CONSTANTS
  Writers,       \* the user writers of the remote participants, by GUID
  NoWriter,      \* the GUID of an entry never used
  Participants,  \* the sets of writers that belong to one participant
  Creations,     \* the subscribers of the application, in order
  NoReader,      \* nullptr
  Topic,         \* the topic of a writer or subscriber
  ProxySlots,    \* NUM_WRITER_PROXIES_PER_READER
  MaxUnmatched,  \* MAX_NUM_UNMATCHED_REMOTE_WRITERS
  MaxMappings    \* MAX_WRITER_READER_MAPPINGS

Subscribers == {Creations[i] : i \in DOMAIN Creations}

ASSUME RoutingAssumption ==
  /\ Writers \cap Subscribers = {} /\ NoWriter \notin Writers /\ NoReader \notin Subscribers
  /\ Participants \subseteq SUBSET Writers
  /\ DOMAIN Topic = Writers \cup Subscribers
  /\ ProxySlots \in Nat \ {0} /\ MaxUnmatched \in Nat /\ MaxMappings \in Nat

VARIABLES
  created,    \* how many of Creations are in m_readers
  proxies,    \* the pool of proxies of each subscriber
  remotes,    \* m_remoteParticipants
  unmatched,  \* m_unmatchedRemoteWriters
  table,      \* m_writerReaderMappings
  count,      \* m_numWriterReaderMappings
  sedp,       \* the thread that holds the lock of the SEDP agent
  th,         \* where each thread is, and with what
  torn,       \* history: two threads have changed the table at the same time
  disturbed   \* history: the table has been changed under this look-up

vars == <<created, proxies, remotes, unmatched, table, count, sedp, th, torn, disturbed>>

match_vars == <<created, proxies, remotes, unmatched>>

-----------------------------------------------------------------------------
Threads == {"app", "rx", "spdp"}

Place(at, who, todo) ==
  [at |-> at, who |-> who, todo |-> todo, i |-> 1, n |-> 1, reader |-> NoReader]

Idle == Place("idle", NoWriter, {})

At(t, at) == th[t].at = at

Go(t, to) == th' = [th EXCEPT ![t] = to]

GoTo(t, at) == Go(t, [th[t] EXCEPT !.at = at])

Readers == [i \in 1 .. created |-> Creations[i]]

First(readers, Test(_)) ==
  LET passing == {i \in DOMAIN readers : Test(readers[i])}
  IN IF passing = {} THEN NoReader
     ELSE readers[CHOOSE i \in passing : \A j \in passing : i <= j]

\* The first of the topic: later readers do not change it.
GetMatchingReader(w) == First(Readers, LAMBDA r : Topic[r] = Topic[w])

Knows(r, w) == BagIn(w, proxies[r])

Init ==
  /\ created = 0 /\ proxies = [r \in Subscribers |-> EmptyBag]
  /\ remotes = {} /\ unmatched = {}
  /\ table = [i \in 1 .. MaxMappings |-> [writer |-> NoWriter, reader |-> NoReader]]
  /\ count = 0
  /\ sedp = "free" /\ th = [t \in Threads |-> Idle]
  /\ torn = FALSE /\ disturbed = FALSE

-----------------------------------------------------------------------------
(* Who matches.  A subscriber the application creates, and an announcement *)
(* on the reader thread, hold the lock of the SEDP agent; what has waited  *)
(* for a participant is tried on the reader thread without it.             *)

CreateReader ==
  /\ At("app", "idle")
  /\ created < Len(Creations)
  /\ created' = created + 1
  /\ GoTo("app", "lock")
  /\ UNCHANGED <<proxies, remotes, unmatched, table, count, sedp>>

LockSEDP ==
  /\ At("app", "lock") /\ sedp = "free"
  /\ sedp' = "app"
  /\ Go("app", Place("try", NoWriter, unmatched))
  /\ UNCHANGED <<match_vars, table, count>>

\* addNewRemoteParticipant and tryMatchDiscoveredEndpoints.
FindParticipant(p) ==
  /\ At("rx", "idle") /\ At("spdp", "idle")
  /\ p \notin remotes
  /\ remotes' = remotes \cup {p}
  /\ Go("rx", Place("try", NoWriter, unmatched))
  /\ UNCHANGED <<created, proxies, unmatched, table, count, sedp>>

\* onNewPublisher; the SPDP thread holds the lock of the participants throughout.
OnNewPublisher(w) ==
  /\ At("rx", "idle") /\ At("spdp", "idle") /\ sedp = "free"
  /\ IF (\E p \in remotes : w \in p) /\ GetMatchingReader(w) # NoReader
     THEN sedp' = "rx" /\ Go("rx", Place("proxy", w, {})) /\ UNCHANGED unmatched
     ELSE /\ unmatched' = IF Cardinality(unmatched) < MaxUnmatched
                         THEN unmatched \cup {w} ELSE unmatched
          /\ UNCHANGED <<sedp, th>>
  /\ UNCHANGED <<created, proxies, remotes, table, count>>

\* tryMatchUnmatchedEndpoints.
TryMatch(t) ==
  /\ At(t, "try")
  /\ \/ /\ th[t].todo = {}
        /\ Go(t, Idle)
        /\ sedp' = IF sedp = t THEN "free" ELSE sedp
     \/ \E w \in th[t].todo :
          LET r == GetMatchingReader(w)
              rest == th[t].todo \ {w}
          IN /\ Go(t, IF r = NoReader \/ Knows(r, w) THEN Place("try", NoWriter, rest)
                      ELSE Place("proxy", w, rest))
             /\ UNCHANGED sedp
  /\ UNCHANGED <<match_vars, table, count>>

\* A full pool refuses without notice.
AddNewMatchedWriter(t) ==
  LET r == GetMatchingReader(th[t].who)
  IN /\ At(t, "proxy")
     /\ proxies' = IF BagCardinality(proxies[r]) < ProxySlots
                   THEN [proxies EXCEPT ![r] = @ (+) SetToBag({th[t].who})] ELSE proxies
     /\ GoTo(t, "scan")
     /\ UNCHANGED <<created, remotes, unmatched, table, count, sedp>>

-----------------------------------------------------------------------------
(* addWriterToReaderMapping.                                               *)

Store(i, field, value) ==
  table' = [table EXCEPT ![i] = IF field = "writer" THEN [@ EXCEPT !.writer = value]
                                                    ELSE [@ EXCEPT !.reader = value]]

\* Mutant of ScanEntry: the last entry is passed over.
ScanEntryShort(t) ==
  /\ At(t, "scan")
  /\ IF th[t].i >= count THEN Go(t, Place("room", th[t].who, th[t].todo))
     ELSE IF table[th[t].i].writer = th[t].who
     THEN Go(t, [th[t] EXCEPT !.at = "reader", !.n = th[t].i, !.i = 1])
     ELSE Go(t, [th[t] EXCEPT !.i = @ + 1])
  /\ UNCHANGED <<match_vars, table, count, sedp>>

\* Whether the writer is there; if so only its reader is stored.
ScanEntry(t) ==
  /\ At(t, "scan")
  /\ IF th[t].i > count THEN Go(t, Place("room", th[t].who, th[t].todo))
     ELSE IF table[th[t].i].writer = th[t].who
     THEN Go(t, [th[t] EXCEPT !.at = "reader", !.n = th[t].i, !.i = 1])
     ELSE Go(t, [th[t] EXCEPT !.i = @ + 1])
  /\ UNCHANGED <<match_vars, table, count, sedp>>

\* What is left of the call's caller: the announcement ends, the next is tried.
Added(t) ==
  /\ Go(t, IF sedp = "rx" /\ t = "rx" THEN Idle ELSE Place("try", NoWriter, th[t].todo))
  /\ sedp' = IF sedp = "rx" /\ t = "rx" THEN "free" ELSE sedp

TestRoom(t) ==
  /\ At(t, "room")
  /\ \/ count < MaxMappings /\ GoTo(t, "take") /\ UNCHANGED sedp
     \/ count >= MaxMappings /\ Added(t)
  /\ UNCHANGED <<match_vars, table, count>>

\* The count is read, then stored: the increment is no atomic one.
TakeEntry(t) ==
  /\ At(t, "take")
  /\ Go(t, [th[t] EXCEPT !.at = "count", !.n = count + 1])
  /\ UNCHANGED <<match_vars, table, count, sedp>>

StoreCount(t) ==
  /\ At(t, "count")
  /\ count' = th[t].n
  /\ GoTo(t, "writer")
  /\ UNCHANGED <<match_vars, table, sedp>>

StoreWriter(t) ==
  /\ At(t, "writer")
  /\ Store(th[t].n, "writer", th[t].who)
  /\ GoTo(t, "reader")
  /\ UNCHANGED <<match_vars, count, sedp>>

StoreReader(t) ==
  /\ At(t, "reader")
  /\ Store(th[t].n, "reader", GetMatchingReader(th[t].who))
  /\ Added(t)
  /\ UNCHANGED <<match_vars, count>>

AddWriterToReaderMapping(t) ==
  \/ ScanEntry(t) \/ TestRoom(t) \/ TakeEntry(t)
  \/ StoreCount(t) \/ StoreWriter(t) \/ StoreReader(t)

-----------------------------------------------------------------------------
(* removeRemoteParticipant, on the SPDP thread: the proxies of one reader  *)
(* after the other, the table, the unmatched writers, the participant.     *)

RemoveRemoteParticipant(p) ==
  /\ At("spdp", "idle")
  /\ p \in remotes
  /\ Go("spdp", Place("proxies", p, {}))
  /\ UNCHANGED <<match_vars, table, count, sedp>>

RemoveWriterOfParticipant ==
  LET i == th["spdp"].i
      p == th["spdp"].who
  IN /\ At("spdp", "proxies")
     /\ IF i <= created
        THEN /\ proxies' = [proxies EXCEPT ![Creations[i]] =
                              [w \in BagToSet(@) \ p |-> @[w]]]
             /\ Go("spdp", [th["spdp"] EXCEPT !.i = i + 1])
        ELSE Go("spdp", Place("compact", p, {})) /\ UNCHANGED proxies
     /\ UNCHANGED <<created, remotes, unmatched, table, count, sedp>>

\* removeWriterToReaderMappings, entry by entry: i reads, n stores.
CompactEntry ==
  LET i == th["spdp"].i
      n == th["spdp"].n
  IN /\ At("spdp", "compact") /\ i <= count
     /\ IF table[i].writer \in th["spdp"].who
        THEN Go("spdp", [th["spdp"] EXCEPT !.i = i + 1]) /\ UNCHANGED table
        ELSE IF n = i
        THEN Go("spdp", [th["spdp"] EXCEPT !.i = i + 1, !.n = n + 1]) /\ UNCHANGED table
        ELSE Store(n, "writer", table[i].writer) /\ GoTo("spdp", "copy")
     /\ UNCHANGED <<match_vars, count, sedp>>

\* Mutant of CopyReader: the reader stays where it was.
CopyNothing ==
  /\ At("spdp", "copy")
  /\ Go("spdp", [th["spdp"] EXCEPT !.at = "compact", !.i = @ + 1, !.n = @ + 1])
  /\ UNCHANGED <<match_vars, table, count, sedp>>

CopyReader ==
  /\ At("spdp", "copy")
  /\ Store(th["spdp"].n, "reader", table[th["spdp"].i].reader)
  /\ Go("spdp", [th["spdp"] EXCEPT !.at = "compact", !.i = @ + 1, !.n = @ + 1])
  /\ UNCHANGED <<match_vars, count, sedp>>

EndCompaction ==
  /\ At("spdp", "compact") /\ th["spdp"].i > count
  /\ count' = th["spdp"].n - 1
  /\ Go("spdp", Place("unmatched", th["spdp"].who, {}))
  /\ UNCHANGED <<match_vars, table, sedp>>

RemoveUnmatched ==
  /\ At("spdp", "unmatched")
  /\ unmatched' = unmatched \ th["spdp"].who
  /\ GoTo("spdp", "participant")
  /\ UNCHANGED <<created, proxies, remotes, table, count, sedp>>

EndRemoval ==
  /\ At("spdp", "participant")
  /\ remotes' = remotes \ {th["spdp"].who}
  /\ Go("spdp", Idle)
  /\ UNCHANGED <<created, proxies, unmatched, table, count, sedp>>

Removal ==
  \/ RemoveWriterOfParticipant
  \/ CompactEntry \/ CopyReader \/ EndCompaction
  \/ RemoveUnmatched \/ EndRemoval

-----------------------------------------------------------------------------
(* getReaderByWriterId, on the reader thread.                              *)

ReceiveData(w) ==
  /\ At("rx", "idle")
  /\ Go("rx", Place("known", w, {}))
  /\ UNCHANGED <<match_vars, table, count, sedp>>

Give(r) == Go("rx", [Place("given", th["rx"].who, {}) EXCEPT !.reader = r])

\* knowWriterId of one reader after the other.
KnownTo ==
  LET i == th["rx"].i
  IN /\ At("rx", "known")
     /\ IF i > created THEN Go("rx", Place("lookup", th["rx"].who, {}))
        ELSE IF Knows(Creations[i], th["rx"].who) THEN Give(Creations[i])
        ELSE Go("rx", [th["rx"] EXCEPT !.i = i + 1])
     /\ UNCHANGED <<match_vars, table, count, sedp>>

LookUpEntry ==
  LET i == th["rx"].i
  IN /\ At("rx", "lookup")
     /\ IF i > count THEN Go("rx", Place("last", th["rx"].who, {}))
        ELSE IF table[i].writer = th["rx"].who THEN GoTo("rx", "read")
        ELSE Go("rx", [th["rx"] EXCEPT !.i = i + 1])
     /\ UNCHANGED <<match_vars, table, count, sedp>>

ReadReader ==
  LET r == table[th["rx"].i].reader
  IN /\ At("rx", "read")
     /\ IF r = NoReader THEN Go("rx", Place("last", th["rx"].who, {})) ELSE Give(r)
     /\ UNCHANGED <<match_vars, table, count, sedp>>

\* getNumMatchedWriters, as the last resort reads it.
NumMatched(r) == IF r \in Subscribers THEN BagCardinality(proxies[r]) ELSE 0

\* The first reader without a writer; that of SPDP comes before all others and never
\* has one.
LastResort ==
  /\ At("rx", "last")
  /\ Give(First(<<"spdpReader">> \o Readers, LAMBDA r : NumMatched(r) = 0))
  /\ UNCHANGED <<match_vars, table, count, sedp>>

Deliver ==
  /\ At("rx", "given")
  /\ Go("rx", Idle)
  /\ UNCHANGED <<match_vars, table, count, sedp>>

GetReaderByWriterId == KnownTo \/ LookUpEntry \/ ReadReader \/ LastResort

-----------------------------------------------------------------------------
(* History, for the properties.                                            *)

Adding(t) == th[t].at \in {"scan", "room", "take", "count", "writer", "reader"}

Compacting == th["spdp"].at \in {"compact", "copy"}

Overlap ==
  \/ Adding("app") /\ Adding("rx")
  \/ Compacting /\ (Adding("app") \/ Adding("rx"))

LookingUp == th["rx"].at \in {"known", "lookup", "read", "last", "given"}

\* An entry that was used before is being filled in anew.
Refilling(t) ==
  /\ th[t].at \in {"writer", "reader"} /\ th[t].n <= MaxMappings
  /\ table[th[t].n].reader # NoReader

History ==
  /\ torn' = (torn \/ Overlap')
  /\ disturbed' = (LookingUp' /\ (disturbed \/ Compacting' \/ Refilling("app")'))

\* A thread is about to write behind the end of the table, over the count and what
\* follows it: what the program does then is not defined.
PastTheEnd == count > MaxMappings

Next ==
  /\ ~PastTheEnd
  /\ \/ CreateReader \/ LockSEDP
     \/ \E p \in Participants : FindParticipant(p) \/ RemoveRemoteParticipant(p)
     \/ \E w \in Writers : OnNewPublisher(w) \/ ReceiveData(w)
     \/ \E t \in {"app", "rx"} :
          TryMatch(t) \/ AddNewMatchedWriter(t) \/ AddWriterToReaderMapping(t)
     \/ Removal \/ GetReaderByWriterId \/ Deliver
  /\ History

Spec == Init /\ [][Next]_vars

-----------------------------------------------------------------------------
(* Properties.                                                             *)

\* Bound of a run: of a table two threads have changed at once nothing is claimed.
NotTorn == ~torn

\* As long as no two threads change the table at the same time, adds end at its end,
\* and while nobody changes it every writer has one entry, whose reader is one of its
\* topic, whatever was added again or dropped, and moved down, in between
\* (addWriterToReaderMapping, removeWriterToReaderMappings).
TableIsAMap ==
  ~torn =>
    /\ ~PastTheEnd
    /\ ~(Adding("app") \/ Adding("rx") \/ Compacting) =>
         \A i \in 1 .. count :
           /\ table[i].reader = GetMatchingReader(table[i].writer)
           /\ \A j \in 1 .. count : table[i].writer = table[j].writer => i = j

\* DATA that names no reader reaches no subscriber of another topic.
RightTopic ==
  At("rx", "given") /\ th["rx"].reader \in Subscribers =>
    Topic[th["rx"].reader] = Topic[th["rx"].who]

\* It does not while pools fill up, refuse and are emptied, participants go and come
\* back, and the application adds a writer under the look-up: neither through the
\* proxies nor the table nor as a last resort; as long as the table has not been changed
\* by two threads at once and nothing closes a gap, or fills in an entry that was used
\* before, under this look-up (getReaderByWriterId).  Without these see RightTopic.
OnlyItsTopic == ~torn /\ ~disturbed => RightTopic
=============================================================================
