----------------------------- MODULE SendOptions -----------------------------
(***************************************************************************)
(* The proxies of a best-effort writer and who of them sends for whom:     *)
(* of the remote readers with one multicast address some send for the      *)
(* others.  A match works the flags out anew with no lock held, on the     *)
(* application thread ("app") or the reader thread ("rx"); a removal, on   *)
(* the SPDP thread ("spdp"), resets and works them out under m_mutex,      *)
(* which keeps out publications and pushes but no match.  So the walks of  *)
(* two threads over the proxies may cross, pair by pair and store by       *)
(* store.                                                                  *)
(*                                                                         *)
(* Two stores are one step when they set the flags of one proxy.           *)
(***************************************************************************)
EXTENDS Naturals, FiniteSets

CONSTANTS
  Readers,      \* remote readers, by GUID
  NoReader,     \* what a slot never used holds
  Host,         \* the IP address of each
  Group,        \* the multicast address of each, or NoGroup
  NoGroup,
  Entity,       \* the entity id of each
  Participants, \* the sets of readers that belong to one participant
  Matchers,     \* the threads that match: "app", "rx" or both
  ProxySlots    \* NUM_READER_PROXIES_PER_WRITER

ASSUME OptionsAssumption ==
  /\ NoReader \notin Readers
  /\ Host \in [Readers -> Nat] /\ Entity \in [Readers -> Nat]
  /\ Participants \subseteq SUBSET Readers
  /\ Matchers \subseteq {"app", "rx"}
  /\ ProxySlots \in Nat \ {0}

VARIABLES
  proxies,   \* m_proxies: what each slot of the pool was last set to
  used,      \* the slots in use, the pool's bitmap
  walk,      \* where each thread is in addNewMatchedReader or a removal
  crossed    \* two walks have overlapped since the last removal that began alone

vars == <<proxies, used, walk, crossed>>

-----------------------------------------------------------------------------
Slots == 1 .. ProxySlots

FirstOf(S) == CHOOSE i \in S : \A j \in S : i <= j

NextSlots(S) == IF used = {} THEN {} ELSE S \ {FirstOf(S)}

Free == Slots \ used

Matched(r) == \E i \in used : proxies[i].reader = r

NewProxy(r) ==
  [reader |-> r, useMulticast |-> FALSE, suppressUnicast |-> FALSE,
   unknownEid |-> FALSE]

Walkers == {"app", "rx", "spdp"}

\* Todo: the proxies whose turn is to come, this one included; pairs: those
\* still to be tested against it.
Still == [at |-> "still", todo |-> {}, pairs |-> {}, found |-> FALSE]

Busy(w) == walk[w].at # "still"

GoOn(w, to) == walk' = [walk EXCEPT ![w] = to]

Init ==
  /\ proxies = [i \in Slots |-> NewProxy(NoReader)]
  /\ used = {}
  /\ walk = [w \in Walkers |-> Still]
  /\ crossed = FALSE

-----------------------------------------------------------------------------
(* The three ways in.                                                      *)

\* addNewMatchedReader adds a proxy if the pool has room, and works out the
\* send options either way.
AddNewMatchedReader(w, r) ==
  /\ ~Busy(w)
  /\ \/ /\ Free # {}
        /\ proxies' = [proxies EXCEPT ![FirstOf(Free)] = NewProxy(r)]
        /\ used' = used \cup {FirstOf(Free)}
     \/ Free = {} /\ UNCHANGED <<proxies, used>>
  /\ GoOn(w, [Still EXCEPT !.at = "begin"])
  /\ crossed' = (crossed \/ \E v \in Walkers \ {w} : Busy(v))

\* removeReaderOfParticipant takes the lock and removes the proxies of S.
RemoveReaders(S) ==
  /\ ~Busy("spdp")
  /\ used' = {i \in used : proxies[i].reader \notin S}
  /\ GoOn("spdp", [Still EXCEPT !.at = "removed"])
  /\ crossed' = \E v \in Walkers \ {"spdp"} : Busy(v)
  /\ UNCHANGED proxies

-----------------------------------------------------------------------------
(* resetSendOptions, proxy by proxy.                                       *)

Resetting(S) ==
  IF S = {} THEN [Still EXCEPT !.at = "begin"]
  ELSE [Still EXCEPT !.at = "reset", !.todo = S]

BeginReset ==
  /\ walk["spdp"].at = "removed"
  /\ GoOn("spdp", Resetting(used))
  /\ UNCHANGED <<proxies, used, crossed>>

ResetProxy ==
  /\ walk["spdp"].at = "reset"
  /\ proxies' = [proxies EXCEPT ![FirstOf(walk["spdp"].todo)] = NewProxy(@.reader)]
  /\ GoOn("spdp", Resetting(NextSlots(walk["spdp"].todo)))
  /\ UNCHANGED <<used, crossed>>

-----------------------------------------------------------------------------
(* manageSendOptions: each proxy is tested against each.  Both loops run   *)
(* over copies of the bitmap.                                              *)

Turns(S) ==
  IF S = {} THEN Still ELSE [Still EXCEPT !.at = "proxy", !.todo = S]

BeginTurns(w) ==
  /\ walk[w].at = "begin"
  /\ GoOn(w, Turns(used))
  /\ UNCHANGED <<proxies, used, crossed>>

Turn(w) == FirstOf(walk[w].todo)

Other(w) == FirstOf(walk[w].pairs)

EndTurn(w) == GoOn(w, Turns(NextSlots(walk[w].todo)))

\* Proxy i goes by unicast, for itself alone.
Alone(i) ==
  proxies' = [proxies EXCEPT ![i].useMulticast = FALSE, ![i].suppressUnicast = FALSE]

WithoutGroup(w) ==
  /\ walk[w].at = "proxy"
  /\ Group[proxies[Turn(w)].reader] = NoGroup
  /\ Alone(Turn(w))
  /\ EndTurn(w)
  /\ UNCHANGED <<used, crossed>>

BeginPairs(w) ==
  /\ walk[w].at = "proxy"
  /\ Group[proxies[Turn(w)].reader] # NoGroup
  /\ GoOn(w, [walk[w] EXCEPT !.at = "pair", !.pairs = used])
  /\ UNCHANGED <<proxies, used, crossed>>

\* Two readers that share a multicast address on two hosts.
Partners(r, s) ==
  /\ Group[s] # NoGroup /\ Group[s] = Group[r]
  /\ Host[s] # Host[r]

\* This pair is done, the next is to come.
Tested(w, found) ==
  GoOn(w, [walk[w] EXCEPT !.at = "pair", !.pairs = NextSlots(@), !.found = found])

\* A partner is silenced when it is not yet.
TestPair(w) ==
  /\ walk[w].at = "pair" /\ walk[w].pairs # {}
  /\ LET partner == Partners(proxies[Turn(w)].reader, proxies[Other(w)].reader)
         silent == proxies[Other(w)].suppressUnicast
     IN  \/ ~partner /\ Tested(w, walk[w].found)
         \/ partner /\ silent /\ Tested(w, TRUE)
         \/ partner /\ ~silent /\ GoOn(w, [walk[w] EXCEPT !.at = "silence"])
  /\ UNCHANGED <<proxies, used, crossed>>

SilencePartner(w) ==
  /\ walk[w].at = "silence"
  /\ proxies' = [proxies EXCEPT ![Other(w)].useMulticast = FALSE,
                                ![Other(w)].suppressUnicast = TRUE]
  /\ GoOn(w, [walk[w] EXCEPT !.at = "send"])
  /\ UNCHANGED <<used, crossed>>

\* Mutant of SendForPartner: a group of several entities keeps the sender's
\* entity id.
SendForSameEntity(w) ==
  /\ walk[w].at = "send"
  /\ proxies' = [proxies EXCEPT ![Turn(w)].useMulticast = TRUE,
                                ![Turn(w)].suppressUnicast = TRUE]
  /\ Tested(w, TRUE)
  /\ UNCHANGED <<used, crossed>>

\* The proxy whose turn it is sends for the one silenced, to any entity if the two
\* differ.
SendForPartner(w) ==
  /\ walk[w].at = "send"
  /\ proxies' = [proxies EXCEPT
       ![Turn(w)].useMulticast = TRUE,
       ![Turn(w)].suppressUnicast = TRUE,
       ![Turn(w)].unknownEid =
          @ \/ Entity[proxies[Other(w)].reader] # Entity[proxies[Turn(w)].reader]]
  /\ Tested(w, TRUE)
  /\ UNCHANGED <<used, crossed>>

EndPairs(w) ==
  /\ walk[w].at = "pair" /\ walk[w].pairs = {}
  /\ \/ walk[w].found /\ UNCHANGED proxies
     \/ ~walk[w].found /\ Alone(Turn(w))
  /\ EndTurn(w)
  /\ UNCHANGED <<used, crossed>>

-----------------------------------------------------------------------------
ManageSendOptions(w) ==
  \/ BeginTurns(w) \/ WithoutGroup(w) \/ BeginPairs(w) \/ TestPair(w)
  \/ SilencePartner(w) \/ SendForPartner(w) \/ EndPairs(w)

ResetSendOptions == BeginReset \/ ResetProxy \/ ManageSendOptions("spdp")

\* The application thread matches readers that are not matched yet; the reader
\* thread may match one again.
Next ==
  \/ \E w \in Matchers, r \in Readers :
       (w = "app" => ~Matched(r)) /\ AddNewMatchedReader(w, r)
  \/ \E w \in Matchers : ManageSendOptions(w)
  \/ \E P \in Participants : RemoveReaders(P)
  \/ ResetSendOptions

Spec == Init /\ [][Next]_vars

-----------------------------------------------------------------------------
(* Properties.                                                             *)

TypeOK ==
  /\ proxies \in [Slots -> [reader : Readers \cup {NoReader},
       useMulticast : BOOLEAN, suppressUnicast : BOOLEAN, unknownEid : BOOLEAN]]
  /\ used \subseteq Slots /\ \A i \in used : proxies[i].reader \in Readers
  /\ walk \in [Walkers ->
       [at : {"still", "removed", "reset", "begin", "proxy", "pair", "silence", "send"},
        todo : SUBSET Slots, pairs : SUBSET Slots, found : BOOLEAN]]
  /\ crossed \in BOOLEAN

\* Whether a proxy sends at all; nobody else sends for it, or it sends for others.
Sends(p) == p.useMulticast \/ ~p.suppressUnicast

\* The remote readers one packet for proxy p reaches: by multicast those of the
\* group that have the entity id it names, or all of them.
Reached(p) ==
  IF p.useMulticast
  THEN {r \in Readers : /\ Group[r] = Group[p.reader]
                         /\ ~p.unknownEid => Entity[r] = Entity[p.reader]}
  ELSE {p.reader}

ReachedByAll == UNION {Reached(proxies[j]) : j \in {i \in used : Sends(proxies[i])}}

Covered == \A i \in used : proxies[i].reader \in ReachedByAll

\* A proxy that does not send is sent for by a multicast that names its entity or
\* all of them, in every moment of a match, but for that between the two stores of
\* a pair, and of a removal, once it has reset the flags; after every order of
\* matches, repeated matches and removals: progress may pass such a proxy over, as
\* "someone else sends for me".  Walks that cross break it; the next removal that no
\* other walk crosses restores it.
EveryoneCovered ==
  ~crossed /\ (\A w \in Walkers : walk[w].at \notin {"removed", "reset", "send"})
    => Covered
=============================================================================
