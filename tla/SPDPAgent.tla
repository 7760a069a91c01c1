----------------------------- MODULE SPDPAgent -----------------------------
(***************************************************************************)
(* SPDPAgent: remote participants are found on the reader thread and       *)
(* dropped by the SPDP thread when their lease has run out.                *)
(*                                                                         *)
(* Reader thread: the announcement of a participant is read, then looked   *)
(* for in the list of participants (twice: while it is read and after),    *)
(* refreshed or added; each of these takes the lock of the list anew.      *)
(* SPDP thread: checkAndResetHeartbeats holds that lock while it removes   *)
(* the participants that are not alive from one endpoint after the other.  *)
(***************************************************************************)
EXTENDS SEDPAgent

CONSTANTS
  SameSubnet,    \* the participants with a locator in the subnet of the device
  Publications,  \* the writers a participant announces, in order
  Subscriptions  \* the readers a participant announces, in order

VARIABLES
  expected,   \* expectedSN of the proxy of each participant in a SEDP reader
  pending     \* m_pendingWriterGuid and m_pendingNextSN of the SEDP readers

SedpReaders == {"sedpPubReader", "sedpSubReader"}

ASSUME SPDPAssumption ==
  /\ SameSubnet \subseteq Participants
  /\ Publications \in [Participants -> Seq(RemoteWriters)]
  /\ Subscriptions \in [Participants -> Seq(RemoteReaders)]

spdp_vars == <<expected, pending>>

-----------------------------------------------------------------------------
(* The SEDP readers are reliable readers; of them only what decides        *)
(* whether an announcement is handed on is kept here.                      *)

SedpWriterOf(r, p) == <<p, IF r = "sedpPubReader" THEN "pubWriter" ELSE "subWriter">>

Announced(r, p) == IF r = "sedpPubReader" THEN Publications[p] ELSE Subscriptions[p]

\* StatefulReader's addNewMatchedWriter: where a new proxy begins.
FirstExpected(r, p) == IF pending[r].who = p THEN pending[r].next ELSE 1

\* The builtin endpoints of p are added.  A proxy that was there already may
\* come before the new one in the pool, or after it.
AddBuiltIn(e, guid) ==
  LET p == Prefix(guid)
      full == NumMatched(e) >= ProxySlots
  IN /\ AddProxy(e, guid)
     /\ IF e \in SedpReaders /\ ~ full
        THEN \/ expected' = [expected EXCEPT ![e][p] = FirstExpected(e, p)]
             \/ Knows(e, guid) /\ UNCHANGED expected
        ELSE UNCHANGED expected

\* The announcement sn of participant p reaches a SEDP reader: dropped when it
\* is old, else handed to the agent.
ReceiveEndpoint(r, p, sn, pc) ==
  LET known == Knows(r, SedpWriterOf(r, p))
  IN /\ At("rx", "idle")
     /\ sn \in DOMAIN Announced(r, p)
     /\ ~ (known /\ sn < expected[r][p])
     /\ IF known
        THEN expected' = [expected EXCEPT ![r][p] = sn + 1] /\ UNCHANGED pending
        ELSE pending' = [pending EXCEPT ![r] = [who |-> p, next |-> sn + 1]] /\ UNCHANGED expected
     /\ Go("rx", Place(pc, Announced(r, p)[sn], NoEndpoint, {}))
     /\ UNCHANGED <<participant_vars, unmatched_vars, match_vars, sedp>>

ReceivePublication(p, sn) == ReceiveEndpoint("sedpPubReader", p, sn, "lockPublisher")

ReceiveSubscription(p, sn) == ReceiveEndpoint("sedpSubReader", p, sn, "lockSubscriber")

-----------------------------------------------------------------------------
(* handleSPDPPackage, on the reader thread.                                *)

\* readFromUcdrBuffer.  When the participant is known it stops early: what
\* follows its GUID, its locators among it, is not read.
HandleSPDPPackage(p) ==
  /\ At("rx", "idle")
  /\ ParticipantFree
  /\ Go("rx", Place("process", p, NoEndpoint, IF p \in remotes THEN {} ELSE {"locators"}))
  /\ UNCHANGED <<participant_vars, unmatched_vars, match_vars, sedp, spdp_vars>>

ProcessProxyData ==
  /\ At("rx", "process")
  /\ ParticipantFree
  /\ Go("rx", [th["rx"] EXCEPT !.pc = IF th["rx"].who \in remotes THEN "refresh" ELSE "add"])
  /\ UNCHANGED <<participant_vars, unmatched_vars, match_vars, sedp, spdp_vars>>

\* The participant is looked for again and what is found is used unchecked:
\* when it has been removed since, a null pointer.
RefreshRemoteParticipantLiveliness ==
  LET p == th["rx"].who
  IN /\ At("rx", "refresh")
     /\ ParticipantFree
     /\ IF p \in remotes
        THEN Refresh(p) /\ Go("rx", Idle)
        ELSE Go("rx", Place("fault", p, NoEndpoint, {})) /\ UNCHANGED fresh
     /\ UNCHANGED <<writers, readers, proxies, remotes, turnedAway,
                    unmatched_vars, match_vars, sedp, spdp_vars>>

\* addProxiesForBuiltInEndpoints (every participant offers the four builtin
\* endpoints) and then updateSedpEndpointProxies.
BuiltInProxies(p, located) ==
  (IF located /\ p \in SameSubnet
   THEN << <<"sedpPubReader", <<p, "pubWriter">> >>, <<"sedpSubReader", <<p, "subWriter">> >>,
           <<"sedpPubWriter", <<p, "pubReader">> >>, <<"sedpSubWriter", <<p, "subReader">> >> >>
   ELSE <<>>)
  \o << <<"sedpSubWriter", <<p, "subReader">> >> >>

\* A new participant has the time stamp of the buffer it was read into, which
\* was set when the agent was made: once the device has been up for longer
\* than the lease, the participant is not alive from the start.  When the pool
\* is full the thread loops for ever.
AddNewRemoteParticipant ==
  LET p == th["rx"].who
  IN /\ At("rx", "add")
     /\ ParticipantFree
     /\ IF RoomForRemote
        THEN /\ remotes' = remotes \cup {p}
             /\ \E alive \in BOOLEAN : fresh' = [fresh EXCEPT ![p] = alive]
             /\ Go("rx", Place("builtin", p, NoEndpoint,
                               BuiltInProxies(p, "locators" \in th["rx"].todo)))
        ELSE /\ Go("rx", Place("spin", p, NoEndpoint, {}))
             /\ UNCHANGED <<remotes, fresh>>
     /\ UNCHANGED <<writers, readers, proxies, turnedAway, unmatched_vars, match_vars, sedp, spdp_vars>>

\* Mutant of AddProxiesForBuiltInEndpoints: what came before
\* the participant was found is not tried again.
AddProxiesForBuiltInEndpointsOnly ==
  /\ At("rx", "builtin")
  /\ IF th["rx"].todo = <<>>
     THEN /\ Go("rx", Place("tried", th["rx"].who, NoEndpoint, {}))
          /\ UNCHANGED <<proxies, turnedAway, expected>>
     ELSE /\ AddBuiltIn(Head(th["rx"].todo)[1], Head(th["rx"].todo)[2])
          /\ Go("rx", [th["rx"] EXCEPT !.todo = Tail(@)])
  /\ UNCHANGED <<writers, readers, remotes, fresh,
                 unmatched_vars, match_vars, sedp, pending>>

AddProxiesForBuiltInEndpoints ==
  /\ At("rx", "builtin")
  /\ IF th["rx"].todo = <<>>
     THEN /\ Go("rx", Place("tryReaders", th["rx"].who, NoEndpoint, unmatchedReaders))
          /\ UNCHANGED <<proxies, turnedAway, expected>>
     ELSE /\ AddBuiltIn(Head(th["rx"].todo)[1], Head(th["rx"].todo)[2])
          /\ Go("rx", [th["rx"] EXCEPT !.todo = Tail(@)])
  /\ UNCHANGED <<writers, readers, remotes, fresh,
                 unmatched_vars, match_vars, sedp, pending>>

\* tryMatchDiscoveredEndpoints has returned.
EndProcessProxyData ==
  /\ At("rx", "tried")
  /\ Go("rx", Idle)
  /\ UNCHANGED <<participant_vars, unmatched_vars, match_vars, sedp, spdp_vars>>

-----------------------------------------------------------------------------
\* processHeartbeatSubmessage ends with addHeartbeat.
AddHeartbeat(p) ==
  /\ At("rx", "idle")
  /\ ParticipantFree
  /\ p \in remotes
  /\ Refresh(p)
  /\ UNCHANGED <<writers, readers, proxies, remotes, turnedAway,
                 unmatched_vars, match_vars, sedp, th, spdp_vars>>

-----------------------------------------------------------------------------
(* checkAndResetHeartbeats, on the SPDP thread.                            *)

\* A check that finds everybody alive changes nothing.
CheckAndResetHeartbeats ==
  /\ At("spdp", "idle")
  /\ \E p \in remotes : ~ fresh[p]
  /\ Go("spdp", Place("check", NoEndpoint, NoEndpoint, remotes))
  /\ UNCHANGED <<participant_vars, unmatched_vars, match_vars, sedp, spdp_vars>>

CheckNext ==
  LET todo == th["spdp"].todo
  IN /\ At("spdp", "check")
     /\ \/ todo = {} /\ Go("spdp", Idle)
        \/ \E p \in todo :
             Go("spdp", IF fresh[p] THEN Place("check", NoEndpoint, NoEndpoint, todo \ {p})
                                    ELSE Place("writers", p, 1, todo \ {p}))
     /\ UNCHANGED <<participant_vars, unmatched_vars, match_vars, sedp, spdp_vars>>

\* removeAllEntitiesOfParticipant: one endpoint after the other; the table, which
\* comes last, is in Routing.
\* Nobody reads what a freed slot expected: it is as if it were new.
RemoveFrom(pc, endpoints, next) ==
  LET i == th["spdp"].e
      p == th["spdp"].who
  IN /\ At("spdp", pc)
     /\ IF i \in DOMAIN endpoints
        THEN /\ RemoveProxiesOf(endpoints[i], p)
             /\ expected' = [r \in SedpReaders |->
                               IF r = endpoints[i] THEN [expected[r] EXCEPT ![p] = 1]
                                                   ELSE expected[r]]
             /\ Go("spdp", [th["spdp"] EXCEPT !.e = i + 1])
        ELSE /\ Go("spdp", [th["spdp"] EXCEPT !.pc = next, !.e = 1])
             /\ UNCHANGED <<proxies, expected>>
     /\ UNCHANGED <<writers, readers, remotes, fresh, turnedAway,
                    unmatched_vars, match_vars, sedp, pending>>

OthersThan(p, guids) == {g \in guids : Prefix(g) # p}

ForgetTurnedAway(p) == turnedAway' = {pair \in turnedAway : Prefix(pair[2]) # p}

\* Mutant of RemoveUnmatchedEntities: it takes the lock of the agent, as every
\* other access to the lists does.
RemoveUnmatchedEntitiesLocked ==
  /\ At("spdp", "unmatched")
  /\ sedp = Free
  /\ unmatchedReaders' = OthersThan(th["spdp"].who, unmatchedReaders)
  /\ unmatchedWriters' = OthersThan(th["spdp"].who, unmatchedWriters)
  /\ ForgetTurnedAway(th["spdp"].who)
  /\ Go("spdp", [th["spdp"] EXCEPT !.pc = "pool"])
  /\ UNCHANGED <<writers, readers, proxies, remotes, fresh,
                 match_vars, sedp, spdp_vars>>

\* removeUnmatchedEntitiesOfParticipant, without the lock of the agent.
RemoveUnmatchedEntities ==
  /\ At("spdp", "unmatched")
  /\ unmatchedReaders' = OthersThan(th["spdp"].who, unmatchedReaders)
  /\ unmatchedWriters' = OthersThan(th["spdp"].who, unmatchedWriters)
  /\ ForgetTurnedAway(th["spdp"].who)
  /\ Go("spdp", [th["spdp"] EXCEPT !.pc = "pool"])
  /\ UNCHANGED <<writers, readers, proxies, remotes, fresh,
                 match_vars, sedp, spdp_vars>>

RemoveRemoteParticipant ==
  /\ At("spdp", "pool")
  /\ remotes' = remotes \ {th["spdp"].who}
  /\ Go("spdp", Place("check", NoEndpoint, NoEndpoint, th["spdp"].todo))
  /\ UNCHANGED <<writers, readers, proxies, fresh, turnedAway,
                 unmatched_vars, match_vars, sedp, spdp_vars>>

Removal ==
  \/ RemoveFrom("writers", writers, "readers")
  \/ RemoveFrom("readers", readers, "unmatched")
  \/ RemoveUnmatchedEntities \/ RemoveRemoteParticipant

-----------------------------------------------------------------------------
(* Time passes: a participant is not heard for a lease.                    *)

LeaseRunsOut(p) ==
  /\ p \in remotes /\ fresh[p]
  /\ fresh' = [fresh EXCEPT ![p] = FALSE]
  /\ UNCHANGED <<writers, readers, proxies, remotes, turnedAway,
                 unmatched_vars, match_vars, sedp, th, spdp_vars>>

SPDPInit ==
  /\ expected = [r \in SedpReaders |-> [p \in Participants |-> 1]]
  /\ pending = [r \in SedpReaders |-> [who |-> NoEndpoint, next |-> 1]]
=============================================================================
