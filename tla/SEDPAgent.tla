----------------------------- MODULE SEDPAgent -----------------------------
(***************************************************************************)
(* SEDPAgent: the remote endpoints announced to the device are matched     *)
(* with the local ones, or kept until a local one appears.                 *)
(*                                                                         *)
(* Three threads meet here.  "rx", the reader thread, brings announcements *)
(* and, when it has found a new participant, tries the kept endpoints      *)
(* again; "app", the application, does so for every endpoint it creates;   *)
(* "spdp" removes what belonged to a participant whose lease ran out.      *)
(* Announcements and creations hold m_mutex of the agent; the reader       *)
(* thread's second try and the removal do not.  A step here is one         *)
(* critical section of another object (the pool of a local endpoint, the   *)
(* list of remote participants) or one pass over the agent's own lists.    *)
(* That a matched writer is also added to the table of the participant     *)
(* changes nothing here; Routing has it, store by store.                   *)
(***************************************************************************)
EXTENDS Participant

VARIABLES
  unmatchedReaders,   \* m_unmatchedRemoteReaders
  unmatchedWriters,   \* m_unmatchedRemoteWriters
  onNewSubscriber,    \* mfp_onNewSubscriberCallback and its argument
  onNewPublisher,     \* mfp_onNewPublisherCallback and its argument
  subMatched,         \* the flags of the application the two callbacks set
  pubMatched,
  sedp,               \* the thread that holds m_mutex
  th                  \* where each thread is, and with what

CONSTANT MaxUnmatched  \* MAX_NUM_UNMATCHED_REMOTE_WRITERS and _READERS

ASSUME SEDPAssumption == MaxUnmatched \in Nat

Threads == {"app", "rx", "spdp"}

unmatched_vars == <<unmatchedReaders, unmatchedWriters>>
match_vars     == <<onNewSubscriber, onNewPublisher, subMatched, pubMatched>>

Free == "free"

At(t, pc) == th[t].pc = pc

\* What a thread goes on with: where, about whom, at which local endpoint,
\* and what is left to do.
Place(pc, who, e, todo) == [pc |-> pc, who |-> who, e |-> e, todo |-> todo]

Idle == Place("idle", NoEndpoint, NoEndpoint, {})

Go(t, place) == th' = [th EXCEPT ![t] = place]

\* checkAndResetHeartbeats holds the participant's m_mutex from end to end;
\* everybody else's use of it is within one step.
ParticipantFree == At("spdp", "idle")

-----------------------------------------------------------------------------
(* The lists of unmatched endpoints.                                       *)

AddUnmatchedRemoteWriter(guid) ==
  unmatchedWriters' = IF Cardinality(unmatchedWriters) < MaxUnmatched
                      THEN unmatchedWriters \cup {guid} ELSE unmatchedWriters

AddUnmatchedRemoteReader(guid) ==
  unmatchedReaders' = IF Cardinality(unmatchedReaders) < MaxUnmatched
                      THEN unmatchedReaders \cup {guid} ELSE unmatchedReaders

-----------------------------------------------------------------------------
(* The callbacks.  Registration stores the function and then its argument; *)
(* a call between the two has no flag to set.                              *)

StoreCallback(callback) == IF callback = "none" THEN "unbound" ELSE callback

TellPublisher == pubMatched' = (pubMatched \/ onNewPublisher = "set")

TellSubscriber == subMatched' = (subMatched \/ onNewSubscriber = "set")

-----------------------------------------------------------------------------
(* onNewPublisher, on the reader thread.                                   *)

RefusedPublisher(r, guid) ==
  \/ r \in Reliable /\ guid \notin Reliable
  \/ r \in TransientLocal /\ guid \notin TransientLocal

OnNewPublisherLock ==
  /\ At("rx", "lockPublisher")
  /\ sedp = Free
  /\ \/ /\ sedp' = "rx"
        /\ Go("rx", Place("findPublisher", th["rx"].who, NoEndpoint, {}))
     \/ \* the announcement does not fit the buffer, or cannot be read
        /\ sedp' = sedp
        /\ Go("rx", Idle)
  /\ UNCHANGED <<participant_vars, unmatched_vars, match_vars>>

OnNewPublisherFind ==
  /\ At("rx", "findPublisher")
  /\ ParticipantFree
  /\ LET guid == th["rx"].who
     IN Go("rx", Place(IF Prefix(guid) \in remotes THEN "matchPublisher" ELSE "keepPublisher",
                       guid, NoEndpoint, {}))
  /\ UNCHANGED <<participant_vars, unmatched_vars, match_vars, sedp>>

KeepPublisher ==
  /\ \/ At("rx", "keepPublisher")
     \/ At("rx", "matchPublisher") /\ GetMatchingReader(th["rx"].who) = NoEndpoint
  /\ AddUnmatchedRemoteWriter(th["rx"].who)
  /\ sedp' = Free
  /\ Go("rx", Idle)
  /\ UNCHANGED <<participant_vars, unmatchedReaders, match_vars>>

MatchPublisher ==
  LET guid == th["rx"].who
      r    == GetMatchingReader(guid)
  IN /\ At("rx", "matchPublisher")
     /\ r # NoEndpoint
     /\ IF RefusedPublisher(r, guid)
        THEN /\ sedp' = Free
             /\ Go("rx", Idle)
             /\ UNCHANGED <<proxies, turnedAway>>
        ELSE /\ AddProxy(r, guid)
             /\ Go("rx", Place("tellPublisher", guid, r, {}))
             /\ UNCHANGED sedp
     /\ UNCHANGED <<writers, readers, remotes, fresh, unmatched_vars, match_vars>>

OnNewPublisherTell ==
  /\ At("rx", "tellPublisher")
  /\ TellPublisher
  /\ sedp' = Free
  /\ Go("rx", Idle)
  /\ UNCHANGED <<participant_vars, unmatched_vars, onNewSubscriber, onNewPublisher, subMatched>>

-----------------------------------------------------------------------------
(* onNewSubscriber, on the reader thread.                                  *)

RefusedSubscriber(w, guid) ==
  \/ w \in Reliable /\ guid \notin Reliable
  \/ w \in TransientLocal /\ guid \notin TransientLocal

OnNewSubscriberLock ==
  /\ At("rx", "lockSubscriber")
  /\ sedp = Free
  /\ \/ /\ sedp' = "rx"
        /\ Go("rx", Place("findSubscriber", th["rx"].who, NoEndpoint, {}))
     \/ /\ sedp' = sedp
        /\ Go("rx", Idle)
  /\ UNCHANGED <<participant_vars, unmatched_vars, match_vars>>

OnNewSubscriberFind ==
  /\ At("rx", "findSubscriber")
  /\ ParticipantFree
  /\ LET guid == th["rx"].who
     IN Go("rx", Place(IF Prefix(guid) \in remotes THEN "matchSubscriber" ELSE "keepSubscriber",
                       guid, NoEndpoint, {}))
  /\ UNCHANGED <<participant_vars, unmatched_vars, match_vars, sedp>>

KeepSubscriber ==
  /\ \/ At("rx", "keepSubscriber")
     \/ At("rx", "matchSubscriber") /\ GetMatchingWriter(th["rx"].who) = NoEndpoint
  /\ AddUnmatchedRemoteReader(th["rx"].who)
  /\ sedp' = Free
  /\ Go("rx", Idle)
  /\ UNCHANGED <<participant_vars, unmatchedWriters, match_vars>>

MatchSubscriber ==
  LET guid == th["rx"].who
      w    == GetMatchingWriter(guid)
  IN /\ At("rx", "matchSubscriber")
     /\ w # NoEndpoint
     /\ IF RefusedSubscriber(w, guid)
        THEN /\ sedp' = Free
             /\ Go("rx", Idle)
             /\ UNCHANGED <<proxies, turnedAway>>
        ELSE /\ AddProxy(w, guid)
             /\ Go("rx", Place("tellSubscriber", guid, w, {}))
             /\ UNCHANGED sedp
     /\ UNCHANGED <<writers, readers, remotes, fresh, unmatched_vars, match_vars>>

OnNewSubscriberTell ==
  /\ At("rx", "tellSubscriber")
  /\ TellSubscriber
  /\ sedp' = Free
  /\ Go("rx", Idle)
  /\ UNCHANGED <<participant_vars, unmatched_vars, onNewSubscriber, onNewPublisher, pubMatched>>

-----------------------------------------------------------------------------
(* tryMatchUnmatchedEndpoints, on thread t: first the readers that were    *)
(* unmatched when the loop began, then the writers.  An endpoint that is   *)
(* matched stays in the list.                                              *)

TryReaders(t) ==
  /\ At(t, "tryReaders")
  /\ IF th[t].todo = {}
     THEN Go(t, Place("tryWriters", th[t].who, NoEndpoint, unmatchedWriters))
     ELSE \E guid \in th[t].todo :
            LET w    == GetMatchingWriterByHash(guid)
                rest == th[t].todo \ {guid}
            IN IF w = NoEndpoint \/ Knows(w, guid)
               THEN Go(t, [th[t] EXCEPT !.todo = rest])
               ELSE Go(t, Place("addReader", th[t].who, <<w, guid>>, rest))
  /\ UNCHANGED <<participant_vars, unmatched_vars, match_vars, sedp>>

TryAddReader(t) ==
  /\ At(t, "addReader")
  /\ AddProxy(th[t].e[1], th[t].e[2])
  /\ Go(t, [th[t] EXCEPT !.pc = "toldReader"])
  /\ UNCHANGED <<writers, readers, remotes, fresh, unmatched_vars, match_vars, sedp>>

TryTellSubscriber(t) ==
  /\ At(t, "toldReader")
  /\ TellSubscriber
  /\ Go(t, [th[t] EXCEPT !.pc = "tryReaders", !.e = NoEndpoint])
  /\ UNCHANGED <<participant_vars, unmatched_vars, onNewSubscriber, onNewPublisher, pubMatched, sedp>>

TryWriters(t) ==
  /\ At(t, "tryWriters")
  /\ IF th[t].todo = {}
     THEN Go(t, [th[t] EXCEPT !.pc = "tried"])
     ELSE \E guid \in th[t].todo :
            LET r    == GetMatchingReaderByHash(guid)
                rest == th[t].todo \ {guid}
            IN IF r = NoEndpoint \/ Knows(r, guid)
               THEN Go(t, [th[t] EXCEPT !.todo = rest])
               ELSE Go(t, Place("addWriter", th[t].who, <<r, guid>>, rest))
  /\ UNCHANGED <<participant_vars, unmatched_vars, match_vars, sedp>>

TryAddWriter(t) ==
  /\ At(t, "addWriter")
  /\ AddProxy(th[t].e[1], th[t].e[2])
  /\ Go(t, [th[t] EXCEPT !.pc = "toldWriter"])
  /\ UNCHANGED <<writers, readers, remotes, fresh, unmatched_vars, match_vars, sedp>>

TryTellPublisher(t) ==
  /\ At(t, "toldWriter")
  /\ TellPublisher
  /\ Go(t, [th[t] EXCEPT !.pc = "tryWriters", !.e = NoEndpoint])
  /\ UNCHANGED <<participant_vars, unmatched_vars, onNewSubscriber, onNewPublisher, subMatched, sedp>>

TryMatch(t) ==
  \/ TryReaders(t) \/ TryAddReader(t) \/ TryTellSubscriber(t)
  \/ TryWriters(t) \/ TryAddWriter(t) \/ TryTellPublisher(t)

-----------------------------------------------------------------------------
OnAnnouncement ==
  \/ OnNewPublisherLock \/ OnNewPublisherFind \/ KeepPublisher
  \/ MatchPublisher \/ OnNewPublisherTell
  \/ OnNewSubscriberLock \/ OnNewSubscriberFind \/ KeepSubscriber
  \/ MatchSubscriber \/ OnNewSubscriberTell

SEDPInit ==
  /\ unmatchedReaders = {} /\ unmatchedWriters = {}
  /\ onNewSubscriber = "none" /\ onNewPublisher = "none"
  /\ subMatched = FALSE /\ pubMatched = FALSE
  /\ sedp = Free
  /\ th = [t \in Threads |-> Idle]

SEDPTypeOK ==
  /\ unmatchedReaders \subseteq RemoteReaders
  /\ unmatchedWriters \subseteq RemoteWriters
  /\ {onNewSubscriber, onNewPublisher} \subseteq {"none", "unbound", "set"}
  /\ {subMatched, pubMatched} \subseteq BOOLEAN
  /\ sedp \in {Free, "app", "rx"}
=============================================================================
