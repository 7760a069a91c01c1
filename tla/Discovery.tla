----------------------------- MODULE Discovery -----------------------------
(***************************************************************************)
(* Discovery: the application creates its node, publishers and             *)
(* subscribers (mros2 over Domain) while the reader thread and the SPDP    *)
(* thread discover the remote endpoints and forget them again.             *)
(***************************************************************************)
EXTENDS SPDPAgent

CONSTANTS
  Creations,      \* the publishers and subscribers created, in order
  StatefulSlots,  \* the stateful and stateless writers and readers of the
  StatelessSlots  \* Domain that are left for the application

ASSUME CreationsAssumption ==
  /\ Creations \in Seq(LocalWriters \cup LocalReaders)
  /\ StatefulSlots \in Nat /\ StatelessSlots \in Nat

VARIABLES
  running,  \* completeInit has started the threads
  created   \* how many of Creations there are

vars == <<participant_vars, unmatched_vars, match_vars, sedp, th, spdp_vars, running, created>>

-----------------------------------------------------------------------------
(* create_node: Domain's createParticipant and createBuiltinWritersAnd-    *)
(* Readers, before any thread runs.                                        *)

RegisterSedpBuiltinEndpoints ==
  proxies' = [proxies EXCEPT
                !["sedpPubWriter"] = SetToBag({<<ZeroPrefix, "pubReader">>}),
                !["sedpSubWriter"] = SetToBag({<<ZeroPrefix, "subReader">>})]

CreateNode ==
  /\ writers = <<>>
  /\ writers' = BuiltInWriters
  /\ readers' = BuiltInReaders
  /\ RegisterSedpBuiltinEndpoints
  /\ UNCHANGED <<remotes, fresh, turnedAway, unmatched_vars, match_vars, sedp,
                 th, spdp_vars,
                 running, created>>

\* The task of mros2_init waits for the node and starts the threads.
CompleteInit ==
  /\ writers # <<>> /\ ~ running
  /\ running' = TRUE
  /\ UNCHANGED <<participant_vars, unmatched_vars, match_vars, sedp, th, spdp_vars, created>>

-----------------------------------------------------------------------------
(* create_publisher and create_subscription, on the application's thread.  *)

Slots(e) == IF e \in Reliable THEN StatefulSlots ELSE StatelessSlots

InUse(e) == {i \in 1 .. created : /\ Creations[i] \in LocalWriters <=> e \in LocalWriters
                                  /\ Creations[i] \in Reliable <=> e \in Reliable}

\* Domain's createWriter and createReader and Participant's addWriter and
\* addReader, up to the lock of the SEDP agent.  Without a slot the
\* application loops for ever.
Create ==
  /\ At("app", "idle")
  /\ writers # <<>>
  /\ created < Len(Creations)
  /\ LET e == Creations[created + 1]
     IN IF Cardinality(InUse(e)) < Slots(e)
        THEN /\ writers' = IF e \in LocalWriters THEN Append(writers, e) ELSE writers
             /\ readers' = IF e \in LocalReaders THEN Append(readers, e) ELSE readers
             /\ Go("app", Place("lock", e, NoEndpoint, {}))
        ELSE /\ Go("app", Place("halt", e, NoEndpoint, {}))
             /\ UNCHANGED <<writers, readers>>
  /\ UNCHANGED <<proxies, remotes, fresh, turnedAway, unmatched_vars, match_vars,
                 sedp, spdp_vars, running, created>>

\* Mutant of LockSEDP: the endpoint is announced without a try for the
\* endpoints that came before it.
LockSEDPOnly ==
  /\ At("app", "lock")
  /\ sedp = Free
  /\ sedp' = "app"
  /\ Go("app", Place("tried", th["app"].who, NoEndpoint, {}))
  /\ UNCHANGED <<participant_vars, unmatched_vars, match_vars, spdp_vars, running, created>>

\* addWriter and addReader of the SEDP agent: the lock and the first loop.
LockSEDP ==
  /\ At("app", "lock")
  /\ sedp = Free
  /\ sedp' = "app"
  /\ Go("app", Place("tryReaders", th["app"].who, NoEndpoint, unmatchedReaders))
  /\ UNCHANGED <<participant_vars, unmatched_vars, match_vars, spdp_vars, running, created>>

\* The announcement is a change of sedpPubWriter or sedpSubWriter.
Announce ==
  /\ At("app", "tried")
  /\ sedp' = Free
  /\ Go("app", [th["app"] EXCEPT !.pc = "callback"])
  /\ UNCHANGED <<participant_vars, unmatched_vars, match_vars, spdp_vars, running, created>>

StoreFunction ==
  /\ At("app", "callback")
  /\ Go("app", [th["app"] EXCEPT !.pc = "argument"])
  /\ IF th["app"].who \in LocalWriters
     THEN onNewSubscriber' = StoreCallback(onNewSubscriber) /\ UNCHANGED onNewPublisher
     ELSE onNewPublisher' = StoreCallback(onNewPublisher) /\ UNCHANGED onNewSubscriber
  /\ UNCHANGED <<participant_vars, unmatched_vars, subMatched, pubMatched, sedp,
                 spdp_vars, running, created>>

StoreArgument ==
  /\ At("app", "argument")
  /\ Go("app", [th["app"] EXCEPT !.pc = "count"])
  /\ IF th["app"].who \in LocalWriters
     THEN onNewSubscriber' = "set" /\ UNCHANGED onNewPublisher
     ELSE onNewPublisher' = "set" /\ UNCHANGED onNewSubscriber
  /\ UNCHANGED <<participant_vars, unmatched_vars, subMatched, pubMatched, sedp,
                 spdp_vars, running, created>>

\* Mutant of CountMatched: what was matched before the callback was there is
\* not looked at.
CountNothing ==
  /\ At("app", "count")
  /\ Go("app", Idle)
  /\ created' = created + 1
  /\ UNCHANGED <<participant_vars, unmatched_vars, match_vars, sedp, spdp_vars, running>>

\* getNumMatchedReader and getNumMatchedWriters, once the callback is there.
CountMatched ==
  /\ At("app", "count")
  /\ LET e == th["app"].who
         matched == NumMatched(e) > 0
     IN /\ subMatched' = (subMatched \/ (matched /\ e \in LocalWriters))
        /\ pubMatched' = (pubMatched \/ (matched /\ e \in LocalReaders))
  /\ Go("app", Idle)
  /\ created' = created + 1
  /\ UNCHANGED <<participant_vars, unmatched_vars, onNewSubscriber, onNewPublisher,
                 sedp, spdp_vars, running>>

-----------------------------------------------------------------------------
Init ==
  /\ ParticipantInit
  /\ SEDPInit
  /\ SPDPInit
  /\ running = FALSE
  /\ created = 0

App ==
  \/ CreateNode \/ Create \/ LockSEDP \/ Announce
  \/ StoreFunction \/ StoreArgument \/ CountMatched
  \/ TryMatch("app") /\ UNCHANGED <<spdp_vars, running, created>>

Arrival ==
  /\ running
  /\ \/ \E p \in Participants : \/ HandleSPDPPackage(p) \/ AddHeartbeat(p)
                                \/ \E sn \in DOMAIN Publications[p] : ReceivePublication(p, sn)
                                \/ \E sn \in DOMAIN Subscriptions[p] : ReceiveSubscription(p, sn)
  /\ UNCHANGED <<running, created>>

Handle ==
  /\ \/ OnAnnouncement /\ UNCHANGED spdp_vars
     \/ TryMatch("rx") /\ UNCHANGED spdp_vars
     \/ ProcessProxyData \/ RefreshRemoteParticipantLiveliness \/ AddNewRemoteParticipant
     \/ AddProxiesForBuiltInEndpoints \/ EndProcessProxyData
  /\ UNCHANGED <<running, created>>

Check ==
  /\ running
  /\ CheckAndResetHeartbeats
  /\ UNCHANGED <<running, created>>

Remove ==
  /\ CheckNext \/ Removal
  /\ UNCHANGED <<running, created>>

Time ==
  /\ \E p \in Participants : LeaseRunsOut(p)
  /\ UNCHANGED <<running, created>>

Next == CompleteInit \/ App \/ Arrival \/ Handle \/ Check \/ Remove \/ Time

Spec == Init /\ [][Next]_vars

-----------------------------------------------------------------------------
TypeOK ==
  /\ ParticipantTypeOK
  /\ SEDPTypeOK
  /\ running \in BOOLEAN
  /\ created \in 0 .. Len(Creations)
  /\ expected \in [SedpReaders -> [Participants -> Nat]]
  /\ pending \in [SedpReaders -> [who : Participants \cup {NoEndpoint}, next : Nat]]

Quiet == \A t \in Threads : th[t].pc \in {"idle", "spin", "halt"}

Partners(guid) ==
  IF guid \in RemoteReaders
  THEN {w \in SeqRange(writers) : SameTopic(w, guid) /\ WriterSuits(w, guid)}
  ELSE {r \in SeqRange(readers) : SameTopic(r, guid) /\ ReaderSuits(r, guid)}

(* An endpoint that was put aside does not wait any longer once a local    *)
(* endpoint suits it, in whatever order announcements, participants and    *)
(* creations came and whatever was removed in between: when nobody is at   *)
(* work, one of them knows it, or has turned it away when its pool was     *)
(* full (tryMatchUnmatchedEndpoints and its two callers).  Who was turned  *)
(* away waits on when another participant's removal makes room.            *)
NobodyWaitsForAPartner ==
  Quiet =>
    \A guid \in unmatchedReaders \cup unmatchedWriters :
      /\ Prefix(guid) \in remotes
      /\ Partners(guid) # {}
      => \E e \in Partners(guid) : Knows(e, guid) \/ <<e, guid>> \in turnedAway

(* publisher_matched and subscriber_matched miss no match, although the    *)
(* callback that sets the flag is registered in two stores while the       *)
(* reader thread matches: once a call has returned and no announcement is  *)
(* being handled, an endpoint that has a partner has its flag set          *)
(* (create_publisher and create_subscription).                             *)
NoMatchMissed ==
  At("app", "idle") /\ At("rx", "idle") =>
    \A i \in 1 .. created :
      NumMatched(Creations[i]) > 0 =>
        IF Creations[i] \in LocalWriters THEN subMatched ELSE pubMatched

(* The reader thread holds the lock of the agent while it waits for that   *)
(* of the participants, the SPDP thread holds that one while it goes       *)
(* through what the agent keeps, the application takes the former: still   *)
(* no thread waits for one that waits for it, so whoever is at work,       *)
(* somebody goes on (the locks of SEDPAgent, Participant and SPDPAgent).   *)
SomebodyGoesOn ==
  Quiet \/ At("rx", "fault") \/ ENABLED (Handle \/ Remove \/ (App /\ ~ At("app", "idle")))
=============================================================================
