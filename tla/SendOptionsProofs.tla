--------------------------- MODULE SendOptionsProofs ---------------------------
(***************************************************************************)
(* Theorems about who sends for whom, for any readers on any hosts in any  *)
(* multicast groups and any number of proxies: as long as no two walks     *)
(* cross, and again after the first removal nothing crosses, every matched *)
(* reader is sent to.                                                      *)
(***************************************************************************)
EXTENDS SendOptions, NaturalsInduction, WellFoundedInduction, TLAPS

-----------------------------------------------------------------------------
(* The strengthening.                                                      *)

Silent(i) == proxies[i].suppressUnicast /\ ~proxies[i].useMulticast

\* The multicast of proxy i reaches the reader of proxy j.
SendsFor(i, j) ==
  /\ proxies[i].useMulticast
  /\ Partners(proxies[i].reader, proxies[j].reader)
  /\ proxies[i].unknownEid \/ Entity[proxies[j].reader] = Entity[proxies[i].reader]

\* Who sends by multicast does not send by unicast as well.
OneWay == \A i \in Slots : proxies[i].useMulticast => proxies[i].suppressUnicast

LoneWalk == \A v, w \in Walkers : Busy(v) /\ Busy(w) => v = w

\* Where a walk nobody crosses stands: what it has reset, and that the proxy whose
\* turn it is has no partner among those tested unless one was found.
WalkOK(w) ==
  Busy(w) =>
    /\ walk[w].todo \subseteq used /\ walk[w].pairs \subseteq used
    /\ walk[w].at \in {"reset", "proxy", "pair", "silence", "send"} => walk[w].todo # {}
    /\ walk[w].at = "reset" => \A j \in used \ walk[w].todo : ~Silent(j)
    /\ walk[w].at \in {"silence", "send"} =>
         /\ walk[w].pairs # {}
         /\ Partners(proxies[Turn(w)].reader, proxies[Other(w)].reader)
    /\ walk[w].at = "silence" => ~proxies[Other(w)].suppressUnicast
    /\ walk[w].at \in {"pair", "silence", "send"} =>
         \/ walk[w].found
         \/ \A j \in used \ walk[w].pairs :
              ~Partners(proxies[Turn(w)].reader, proxies[j].reader)

\* A silent proxy has one on another host that sends for it by the multicast of both,
\* but for the one a walk has just silenced.  That it is another host is why a proxy
\* that finds no partner, and gives up its multicast, was nobody's sender.
SentFor ==
  (\A w \in Walkers : walk[w].at \notin {"removed", "reset"}) =>
    \A k \in used : Silent(k) =>
      \/ \E l \in used : SendsFor(l, k)
      \/ \E w \in Walkers : walk[w].at = "send" /\ k = Other(w)

IInv ==
  /\ TypeOK /\ OneWay
  /\ ~crossed => LoneWalk /\ (\A w \in Walkers : WalkOK(w)) /\ SentFor

-----------------------------------------------------------------------------
(* Types.                                                                  *)

Proxies ==
  [reader : Readers \cup {NoReader}, useMulticast : BOOLEAN, suppressUnicast : BOOLEAN,
   unknownEid : BOOLEAN]

Places ==
  [at : {"still", "removed", "reset", "begin", "proxy", "pair", "silence", "send"},
   todo : SUBSET Slots, pairs : SUBSET Slots, found : BOOLEAN]

LEMMA FirstOfIn ==
  ASSUME NEW S \in SUBSET Slots, S # {}
  PROVE  FirstOf(S) \in S
<1>1. S \subseteq Nat
  BY DEF Slots
<1>2. PICK i \in S : \A j \in S : <<j, i>> \notin OpToRel(<, Nat)
  BY <1>1, NatLessThanWellFounded, WFMin
<1>3. ASSUME NEW j \in S PROVE i <= j
  <2>1. ~ j < i
    BY <1>1, <1>2 DEF OpToRel
  <2> QED BY <1>1, <2>1
<1> QED BY <1>3 DEF FirstOf

LEMMA NextSlotsIn ==
  ASSUME NEW S \in SUBSET Slots
  PROVE  NextSlots(S) \in SUBSET S
  BY DEF NextSlots

LEMMA GoOnEffect ==
  ASSUME TypeOK, NEW w \in Walkers, NEW to \in Places, GoOn(w, to)
  PROVE  /\ walk' \in [Walkers -> Places]
         /\ walk'[w] = to /\ \A v \in Walkers \ {w} : walk'[v] = walk[v]
  BY DEF TypeOK, GoOn, Places

LEMMA TurnsPlaces ==
  ASSUME NEW S \in SUBSET Slots
  PROVE  /\ Turns(S) \in Places /\ Resetting(S) \in Places
         /\ Turns(S).pairs = {} /\ Turns(S).todo = S
         /\ Turns(S).at = IF S = {} THEN "still" ELSE "proxy"
         /\ Resetting(S).pairs = {} /\ Resetting(S).todo = S
         /\ Resetting(S).at = IF S = {} THEN "begin" ELSE "reset"
  BY DEF Turns, Resetting, Still, Places

\* What a step that stores flags of proxy x does to the table; nothing, if there is
\* no such proxy.
Stored(x, use, suppress, unknown) ==
  /\ proxies' = [i \in Slots |-> proxies'[i]]
  /\ \A j \in Slots \ {x} : proxies'[j] = proxies[j]
  /\ x \in Slots =>
       /\ proxies'[x] \in Proxies
       /\ proxies'[x].reader = proxies[x].reader
       /\ proxies'[x].useMulticast = use /\ proxies'[x].suppressUnicast = suppress
       /\ proxies'[x].unknownEid = unknown

LEMMA AloneEffect ==
  ASSUME TypeOK, NEW x, Alone(x)
  PROVE  Stored(x, FALSE, FALSE, proxies[x].unknownEid)
  BY DEF Alone, TypeOK, Proxies, Stored

LEMMA ResetEffect ==
  ASSUME TypeOK, ResetProxy
  PROVE  Stored(FirstOf(walk["spdp"].todo), FALSE, FALSE, FALSE)
  BY DEF ResetProxy, NewProxy, TypeOK, Proxies, Stored

LEMMA SilenceEffect ==
  ASSUME TypeOK, NEW w \in Walkers, SilencePartner(w)
  PROVE  Stored(Other(w), FALSE, TRUE, proxies[Other(w)].unknownEid)
  BY DEF SilencePartner, TypeOK, Proxies, Stored

LEMMA SendEffect ==
  ASSUME TypeOK, NEW w \in Walkers, SendForPartner(w)
  PROVE  Stored(Turn(w), TRUE, TRUE,
                proxies[Turn(w)].unknownEid
                  \/ Entity[proxies[Other(w)].reader] # Entity[proxies[Turn(w)].reader])
  BY DEF SendForPartner, TypeOK, Proxies, Stored

LEMMA StoredKeeps ==
  ASSUME TypeOK, OneWay, NEW x, NEW use, NEW suppress, NEW unknown,
         Stored(x, use, suppress, unknown), use => suppress, used' = used
  PROVE  /\ proxies' \in [Slots -> Proxies] /\ OneWay'
         /\ used' \subseteq Slots
         /\ \A i \in used' : proxies'[i].reader \in Readers
         /\ \A i \in Slots : proxies'[i].reader = proxies[i].reader
<1>1. proxies' = [i \in Slots |-> proxies'[i]] /\ \A i \in Slots : proxies'[i] \in Proxies
  BY DEF TypeOK, Stored, Proxies
<1> QED BY <1>1 DEF TypeOK, OneWay, Stored, Proxies

LEMMA ManageLeads ==
  ASSUME TypeOK, NEW w \in Walkers, ManageSendOptions(w)
  PROVE  \E to \in Places : GoOn(w, to)
<1>1. walk[w] \in Places /\ used \in SUBSET Slots
  BY DEF TypeOK, Places
<1>2. NextSlots(walk[w].todo) \in SUBSET Slots /\ NextSlots(walk[w].pairs) \in SUBSET Slots
  BY <1>1, NextSlotsIn DEF Places
<1>3. CASE BeginTurns(w)
  BY <1>1, <1>3, TurnsPlaces DEF BeginTurns
<1>4. CASE WithoutGroup(w) \/ EndPairs(w)
  BY <1>2, <1>4, TurnsPlaces DEF WithoutGroup, EndPairs, EndTurn
<1>5. CASE BeginPairs(w)
  BY <1>1, <1>5 DEF BeginPairs, Places
<1>6. \A found \in BOOLEAN :
        [walk[w] EXCEPT !.at = "pair", !.pairs = NextSlots(@), !.found = found] \in Places
  BY <1>1, <1>2 DEF Places
<1>7. CASE TestPair(w)
  <2>1. /\ walk[w].found \in BOOLEAN
        /\ [walk[w] EXCEPT !.at = "silence"] \in Places
    BY <1>1 DEF Places
  <2> QED BY <1>6, <1>7, <2>1 DEF TestPair, Tested
<1>8. CASE SilencePartner(w)
  BY <1>1, <1>8 DEF SilencePartner, Places
<1>9. CASE SendForPartner(w)
  BY <1>6, <1>9 DEF SendForPartner, Tested
<1> QED BY <1>3, <1>4, <1>5, <1>7, <1>8, <1>9 DEF ManageSendOptions

LEMMA ManageKeepsType ==
  ASSUME TypeOK, OneWay, NEW w \in Walkers, ManageSendOptions(w)
  PROVE  TypeOK' /\ OneWay'
<1>1. walk' \in [Walkers -> Places]
  BY ManageLeads, GoOnEffect
<1>2. used' = used /\ crossed' = crossed
  BY DEF ManageSendOptions, BeginTurns, WithoutGroup, BeginPairs, TestPair, SilencePartner,
         SendForPartner, EndPairs
<1>3. /\ proxies' \in [Slots -> Proxies] /\ OneWay'
      /\ used' \subseteq Slots /\ \A i \in used' : proxies'[i].reader \in Readers
  <2>1. CASE UNCHANGED proxies
    BY <1>2, <2>1 DEF TypeOK, OneWay, Proxies
  <2>2. CASE Alone(Turn(w))
    BY <1>2, <2>2, AloneEffect, StoredKeeps
  <2>3. CASE SilencePartner(w)
    BY <1>2, <2>3, SilenceEffect, StoredKeeps
  <2>4. CASE SendForPartner(w)
    BY <1>2, <2>4, SendEffect, StoredKeeps
  <2> QED BY <2>1, <2>2, <2>3, <2>4
          DEF ManageSendOptions, BeginTurns, WithoutGroup, BeginPairs, TestPair, EndPairs
<1> QED BY <1>1, <1>2, <1>3 DEF TypeOK, Proxies, Places

LEMMA AddEffect ==
  ASSUME TypeOK, OneWay, NEW w \in Walkers, NEW r \in Readers, AddNewMatchedReader(w, r)
  PROVE  /\ proxies' \in [Slots -> Proxies] /\ OneWay'
         /\ used' \subseteq Slots /\ used \subseteq used'
         /\ \A i \in used' : proxies'[i].reader \in Readers
         /\ \A i \in used : proxies'[i] = proxies[i]
         /\ \A i \in used' \ used : ~proxies'[i].suppressUnicast
<1>1. CASE Free = {}
  <2>1. UNCHANGED <<proxies, used>>
    BY <1>1 DEF AddNewMatchedReader
  <2> QED BY <2>1 DEF TypeOK, OneWay, Proxies
<1>2. CASE Free # {}
  <2> DEFINE x == FirstOf(Free)
  <2>1. x \in Slots /\ x \notin used
    BY <1>2, FirstOfIn DEF Free
  <2>2. proxies' = [proxies EXCEPT ![x] = NewProxy(r)] /\ used' = used \cup {x}
    BY <1>2 DEF AddNewMatchedReader
  <2>3. /\ NewProxy(r) \in Proxies /\ NewProxy(r).reader = r
        /\ ~NewProxy(r).useMulticast /\ ~NewProxy(r).suppressUnicast
    BY DEF NewProxy, Proxies
  <2> HIDE DEF x
  <2>4. /\ proxies' \in [Slots -> Proxies] /\ proxies'[x] = NewProxy(r)
        /\ \A i \in Slots \ {x} : proxies'[i] = proxies[i]
    BY <2>1, <2>2, <2>3 DEF TypeOK, Proxies
  <2>5. used \subseteq Slots /\ \A i \in used : proxies[i].reader \in Readers
    BY DEF TypeOK
  <2> QED BY <2>1, <2>2, <2>3, <2>4, <2>5 DEF OneWay
<1> QED BY <1>1, <1>2

LEMMA NextKeepsType ==
  ASSUME TypeOK, OneWay, [Next]_vars
  PROVE  TypeOK' /\ OneWay'
<1> DEFINE begun == [Still EXCEPT !.at = "begin"]
           removed == [Still EXCEPT !.at = "removed"]
<1>1. begun \in Places /\ removed \in Places /\ "spdp" \in Walkers
      /\ Matchers \subseteq Walkers
  BY OptionsAssumption DEF Still, Places, Walkers
<1>2. CASE UNCHANGED vars
  BY <1>2 DEF vars, TypeOK, OneWay
<1>3. ASSUME NEW w \in Matchers, NEW r \in Readers, AddNewMatchedReader(w, r)
      PROVE  TypeOK' /\ OneWay'
  <2>1. GoOn(w, begun) /\ crossed' \in BOOLEAN
    BY <1>3 DEF AddNewMatchedReader, TypeOK
  <2>2. walk' \in [Walkers -> Places]
    BY <1>1, <2>1, GoOnEffect
  <2> QED BY <1>1, <1>3, <2>1, <2>2, AddEffect DEF TypeOK, Proxies, Places
<1>4. ASSUME NEW w \in Matchers \cup {"spdp"}, ManageSendOptions(w)
      PROVE  TypeOK' /\ OneWay'
  BY <1>1, <1>4, ManageKeepsType
<1>5. ASSUME NEW P \in Participants, RemoveReaders(P)
      PROVE  TypeOK' /\ OneWay'
  <2>1. GoOn("spdp", removed) /\ crossed' \in BOOLEAN /\ used' \subseteq used
        /\ proxies' = proxies
    BY <1>5 DEF RemoveReaders
  <2>2. walk' \in [Walkers -> Places]
    BY <1>1, <2>1, GoOnEffect
  <2> QED BY <2>1, <2>2 DEF TypeOK, OneWay, Places
<1>6. CASE BeginReset
  <2>1. GoOn("spdp", Resetting(used)) /\ UNCHANGED <<proxies, used, crossed>>
    BY <1>6 DEF BeginReset
  <2>2. Resetting(used) \in Places
    BY TurnsPlaces DEF TypeOK
  <2>3. walk' \in [Walkers -> Places]
    BY <1>1, <2>1, <2>2, GoOnEffect
  <2> QED BY <2>1, <2>3 DEF TypeOK, OneWay, Places
<1>7. CASE ResetProxy
  <2> DEFINE to == Resetting(NextSlots(walk["spdp"].todo))
  <2>1. GoOn("spdp", to) /\ UNCHANGED <<used, crossed>>
    BY <1>7 DEF ResetProxy
  <2>2. to \in Places
    <3>1. walk["spdp"].todo \in SUBSET Slots
      BY <1>1 DEF TypeOK
    <3> QED BY <3>1, NextSlotsIn, TurnsPlaces
  <2>3. walk' \in [Walkers -> Places]
    BY <1>1, <2>1, <2>2, GoOnEffect
  <2>4. /\ proxies' \in [Slots -> Proxies] /\ OneWay' /\ used' \subseteq Slots
        /\ \A i \in used' : proxies'[i].reader \in Readers
    BY <1>7, <2>1, ResetEffect, StoredKeeps
  <2> QED BY <2>1, <2>3, <2>4 DEF TypeOK, Proxies, Places
<1> QED BY <1>2, <1>3, <1>4, <1>5, <1>6, <1>7 DEF Next, ResetSendOptions

-----------------------------------------------------------------------------
(* A walk nobody crosses.                                                  *)

\* What holds around a step of the only walk.
Frame(w, to) ==
  /\ walk'[w] = to /\ used' = used
  /\ \A v \in Walkers \ {w} : ~Busy(v) /\ ~Busy(v)'
  /\ \A i \in Slots : proxies'[i].reader = proxies[i].reader

LEMMA FrameOfStep ==
  ASSUME IInv, NEW w \in Walkers, Busy(w), NEW to \in Places, GoOn(w, to),
         used' = used, crossed' = crossed, ~crossed,
         \A i \in Slots : proxies'[i].reader = proxies[i].reader
  PROVE  /\ Frame(w, to) /\ LoneWalk'
         /\ WalkOK(w)' => \A v \in Walkers : WalkOK(v)'
<1>1. \A v \in Walkers \ {w} : ~Busy(v)
  BY DEF IInv, LoneWalk
<1>2. walk'[w] = to /\ \A v \in Walkers \ {w} : walk'[v] = walk[v]
  BY GoOnEffect DEF IInv
<1>3. \A v \in Walkers \ {w} : ~Busy(v)'
  BY <1>1, <1>2 DEF Busy
<1> QED BY <1>1, <1>2, <1>3 DEF Frame, LoneWalk, WalkOK

\* The slots a lone walk stands at are in use, and it goes on slot by slot.
LEMMA PlaceOfWalk ==
  ASSUME IInv, NEW w \in Walkers, Busy(w), ~crossed
  PROVE  /\ WalkOK(w) /\ walk[w] \in Places /\ used \in SUBSET Slots
         /\ walk[w].at \in {"reset", "proxy", "pair", "silence", "send"} =>
              /\ Turn(w) \in used
              /\ NextSlots(walk[w].todo) = walk[w].todo \ {Turn(w)}
              /\ NextSlots(walk[w].pairs) = walk[w].pairs \ {Other(w)}
         /\ walk[w].pairs # {} => Other(w) \in walk[w].pairs
<1>1. WalkOK(w) /\ walk[w] \in Places /\ used \in SUBSET Slots
  BY DEF IInv, TypeOK, Places
<1>2. walk[w].todo \in SUBSET used /\ walk[w].pairs \in SUBSET used
  BY <1>1 DEF WalkOK
<1>3. walk[w].todo \in SUBSET Slots /\ walk[w].pairs \in SUBSET Slots
  BY <1>1, <1>2
<1>4. walk[w].pairs # {} => Other(w) \in walk[w].pairs
  BY <1>3, FirstOfIn DEF Other
<1>5. walk[w].todo # {} => Turn(w) \in walk[w].todo
  BY <1>3, FirstOfIn DEF Turn
<1> QED BY <1>1, <1>2, <1>4, <1>5 DEF WalkOK, NextSlots, Turn, Other

\* A step that leaves the flags alone, of a walk that has nobody just silenced.
LEMMA QuietStepKeepsSentFor ==
  ASSUME IInv, NEW w \in Walkers, ~crossed, NEW to \in Places, Frame(w, to),
         proxies' = proxies, walk[w].at \notin {"removed", "reset", "send"}
  PROVE  SentFor'
<1>1. \A v \in Walkers : walk[v].at \notin {"removed", "reset", "send"}
  BY DEF Frame, Busy
<1>2. \A k \in used : Silent(k) => \E l \in used : SendsFor(l, k)
  BY <1>1 DEF IInv, SentFor
<1> QED BY <1>2 DEF Frame, SentFor, Silent, SendsFor

\* A proxy that is nobody's sender goes by unicast.
LEMMA AloneKeepsSentFor ==
  ASSUME IInv, NEW w \in Walkers, ~crossed, NEW to \in Places, Frame(w, to),
         NEW i \in used, Alone(i), walk[w].at \notin {"removed", "reset", "send"},
         \A j \in used : ~Partners(proxies[i].reader, proxies[j].reader)
  PROVE  SentFor'
<1>1. \A v \in Walkers : walk[v].at \notin {"removed", "reset", "send"}
  BY DEF Frame, Busy
<1>2. \A k \in used : Silent(k) => \E l \in used : SendsFor(l, k)
  BY <1>1 DEF IInv, SentFor
<1>3. used \subseteq Slots /\ i \in Slots /\ used' = used
  BY DEF IInv, TypeOK, Frame
<1>4. /\ \A j \in Slots \ {i} : proxies'[j] = proxies[j]
      /\ ~proxies'[i].suppressUnicast
  BY <1>3, AloneEffect DEF IInv, Stored
<1>5. ASSUME NEW k \in used, Silent(k)'
      PROVE  \E l \in used : SendsFor(l, k)'
  <2>1. k # i /\ proxies'[k] = proxies[k] /\ Silent(k)
    BY <1>3, <1>4, <1>5 DEF Silent
  <2>2. PICK l \in used : SendsFor(l, k)
    BY <1>2, <2>1
  <2>3. l # i
    BY <2>2 DEF SendsFor
  <2> QED BY <1>3, <1>4, <2>1, <2>2, <2>3 DEF SendsFor
<1> QED BY <1>3, <1>5 DEF SentFor

\* The proxy silenced did not send for others; the walk is about to send for it.
LEMMA SilenceKeepsSentFor ==
  ASSUME IInv, NEW w \in Walkers, ~crossed, NEW to \in Places, Frame(w, to),
         SilencePartner(w), to = [walk[w] EXCEPT !.at = "send"]
  PROVE  SentFor'
<1> DEFINE x == Other(w)
<1>1. walk[w].at = "silence" /\ Busy(w)
  BY DEF SilencePartner, Busy
<1>2. \A v \in Walkers : walk[v].at \notin {"removed", "reset", "send"}
  BY <1>1 DEF Frame, Busy
<1>3. \A k \in used : Silent(k) => \E l \in used : SendsFor(l, k)
  BY <1>2 DEF IInv, SentFor
<1>4. /\ used \subseteq Slots /\ used' = used /\ x \in used
      /\ ~proxies[x].suppressUnicast
  BY <1>1, PlaceOfWalk DEF WalkOK, Frame
<1>5. ~proxies[x].useMulticast
  BY <1>4 DEF IInv, OneWay
<1>6. \A j \in Slots \ {x} : proxies'[j] = proxies[j]
  BY SilenceEffect DEF IInv, Stored
<1>7. walk'[w].at = "send" /\ Other(w)' = x
  <2>1. walk[w] \in Places
    BY <1>1, PlaceOfWalk
  <2> QED BY <2>1 DEF Frame, Other, Places
<1> HIDE DEF x
<1>8. ASSUME NEW k \in used, Silent(k)', k # x
      PROVE  \E l \in used : SendsFor(l, k)'
  <2>1. proxies'[k] = proxies[k] /\ Silent(k)
    BY <1>4, <1>6, <1>8 DEF Silent
  <2>2. PICK l \in used : SendsFor(l, k)
    BY <1>3, <2>1
  <2>3. l # x
    BY <1>5, <2>2 DEF SendsFor
  <2> QED BY <1>4, <1>6, <2>1, <2>2, <2>3 DEF SendsFor
<1> QED BY <1>4, <1>7, <1>8 DEF SentFor

\* It sends for the proxy silenced, and for those it has sent for before.
LEMMA SendKeepsSentFor ==
  ASSUME IInv, NEW w \in Walkers, ~crossed, NEW to \in Places, Frame(w, to),
         SendForPartner(w)
  PROVE  SentFor'
<1>1. walk[w].at = "send" /\ Busy(w)
  BY DEF SendForPartner, Busy
<1>2. \A v \in Walkers \ {w} : walk[v].at \notin {"removed", "reset", "send"}
  BY DEF Frame, Busy
<1>3. \A k \in used : Silent(k) => k = Other(w) \/ \E l \in used : SendsFor(l, k)
  BY <1>1, <1>2 DEF IInv, SentFor
<1>4. /\ used \subseteq Slots /\ used' = used /\ Other(w) \in used /\ Turn(w) \in used
      /\ Partners(proxies[Turn(w)].reader, proxies[Other(w)].reader)
  BY <1>1, PlaceOfWalk DEF WalkOK, Frame
<1>5. PICK i \in used, x \in used : i = Turn(w) /\ x = Other(w)
  BY <1>4
<1>6. /\ used \subseteq Slots /\ used' = used
      /\ Partners(proxies[i].reader, proxies[x].reader)
  BY <1>4, <1>5
<1>7. i # x
  BY <1>6 DEF Partners
<1>8. /\ \A j \in Slots \ {i} : proxies'[j] = proxies[j]
      /\ proxies'[i].reader = proxies[i].reader /\ proxies'[i].useMulticast
      /\ proxies[i].unknownEid => proxies'[i].unknownEid
      /\ Entity[proxies[x].reader] # Entity[proxies[i].reader] => proxies'[i].unknownEid
  BY <1>6, <1>5, SendEffect DEF IInv, Stored
<1>9. ASSUME NEW k \in used, Silent(k)'
      PROVE  \E l \in used : SendsFor(l, k)'
  <2>1. k # i /\ proxies'[k] = proxies[k] /\ Silent(k)
    BY <1>6, <1>8, <1>9 DEF Silent
  <2>2. CASE k = x
    <3>1. SendsFor(i, k)'
      BY <1>6, <1>8, <2>1, <2>2 DEF SendsFor
    <3> QED BY <1>6, <3>1
  <2>3. CASE k # x
    <3>1. PICK l \in used : SendsFor(l, k)
      BY <1>3, <1>5, <2>1, <2>3
    <3>2. SendsFor(l, k)'
      BY <1>6, <1>8, <2>1, <3>1 DEF SendsFor
    <3> QED BY <3>2
  <2> QED BY <2>2, <2>3
<1> QED BY <1>6, <1>9 DEF SentFor

\* One step of manageSendOptions.
LEMMA ManageKeepsLone ==
  ASSUME IInv, NEW w \in Walkers, ~crossed, ManageSendOptions(w)
  PROVE  LoneWalk' /\ (\A v \in Walkers : WalkOK(v)') /\ SentFor'
<1>1. Busy(w) /\ used' = used /\ crossed' = crossed
  BY DEF ManageSendOptions, BeginTurns, WithoutGroup, BeginPairs, TestPair, SilencePartner,
         SendForPartner, EndPairs, Busy
<1>2. PICK to \in Places : GoOn(w, to)
  BY ManageLeads DEF IInv
<1>3. \A i \in Slots : proxies'[i].reader = proxies[i].reader
  <2>1. CASE Alone(Turn(w))
    BY <1>1, <2>1, AloneEffect, StoredKeeps DEF IInv
  <2>2. CASE SilencePartner(w)
    BY <1>1, <2>2, SilenceEffect, StoredKeeps DEF IInv
  <2>3. CASE SendForPartner(w)
    BY <1>1, <2>3, SendEffect, StoredKeeps DEF IInv
  <2> QED BY <2>1, <2>2, <2>3
          DEF ManageSendOptions, BeginTurns, WithoutGroup, BeginPairs, TestPair, EndPairs
<1>4. /\ Frame(w, to) /\ LoneWalk'
      /\ WalkOK(w)' => \A v \in Walkers : WalkOK(v)'
  BY <1>1, <1>2, <1>3, FrameOfStep
<1>5. /\ WalkOK(w) /\ walk[w] \in Places /\ used \in SUBSET Slots
      /\ walk[w].at \in {"reset", "proxy", "pair", "silence", "send"} =>
           /\ Turn(w) \in used
           /\ NextSlots(walk[w].todo) = walk[w].todo \ {Turn(w)}
           /\ NextSlots(walk[w].pairs) = walk[w].pairs \ {Other(w)}
      /\ walk[w].pairs # {} => Other(w) \in walk[w].pairs
  BY <1>1, PlaceOfWalk
<1>6. walk[w].todo \subseteq used /\ walk[w].pairs \subseteq used
  BY <1>1, <1>5 DEF WalkOK
<1>7. to = walk'[w] /\ walk' = [walk EXCEPT ![w] = to] /\ w \in DOMAIN walk
  BY <1>2, <1>4 DEF Frame, GoOn, IInv, TypeOK
<1>8. CASE BeginTurns(w)
  <2>1. to = Turns(used) /\ proxies' = proxies /\ walk[w].at = "begin"
    BY <1>7, <1>8 DEF BeginTurns, GoOn
  <2>2. WalkOK(w)'
    BY <1>4, <1>5, <1>7, <2>1, TurnsPlaces DEF WalkOK, Frame, Busy
  <2>3. SentFor'
    BY <1>4, <2>1, QuietStepKeepsSentFor
  <2> QED BY <1>4, <2>2, <2>3
<1>9. CASE WithoutGroup(w)
  <2>1. /\ to = Turns(NextSlots(walk[w].todo)) /\ walk[w].at = "proxy" /\ Alone(Turn(w))
        /\ Group[proxies[Turn(w)].reader] = NoGroup
    BY <1>7, <1>9 DEF WithoutGroup, EndTurn, GoOn
  <2>2. WalkOK(w)'
    <3>1. NextSlots(walk[w].todo) \in SUBSET Slots
      BY <1>5, <1>6, <2>1
    <3> QED BY <1>4, <1>5, <1>6, <1>7, <2>1, <3>1, TurnsPlaces DEF WalkOK, Frame, Busy
  <2>3. \A j \in used : ~Partners(proxies[Turn(w)].reader, proxies[j].reader)
    BY <2>1 DEF Partners
  <2>4. SentFor'
    BY <1>4, <1>5, <2>1, <2>3, AloneKeepsSentFor
  <2> QED BY <1>4, <2>2, <2>4
<1>10. CASE BeginPairs(w)
  <2>1. /\ to = [walk[w] EXCEPT !.at = "pair", !.pairs = used] /\ proxies' = proxies
        /\ walk[w].at = "proxy"
    BY <1>7, <1>10 DEF BeginPairs, GoOn
  <2>2. to.at = "pair" /\ to.pairs = used /\ to.todo = walk[w].todo /\ to.todo # {}
    BY <1>1, <1>5, <2>1 DEF Places, WalkOK
  <2>3. WalkOK(w)'
    BY <1>4, <1>6, <1>7, <2>2 DEF WalkOK, Frame
  <2>4. SentFor'
    BY <1>4, <2>1, QuietStepKeepsSentFor
  <2> QED BY <1>4, <2>3, <2>4
<1>11. CASE TestPair(w)
  <2> DEFINE partner == Partners(proxies[Turn(w)].reader, proxies[Other(w)].reader)
  <2>1. /\ walk[w].at = "pair" /\ walk[w].pairs # {} /\ proxies' = proxies
    BY <1>11 DEF TestPair
  <2>2. /\ walk[w].todo # {}
        /\ walk[w].found \/ \A j \in used \ walk[w].pairs :
                               ~Partners(proxies[Turn(w)].reader, proxies[j].reader)
    BY <1>1, <1>5, <2>1 DEF WalkOK
  <2>3. to.todo = walk[w].todo => Turn(w)' = Turn(w)
    BY <1>7 DEF Turn
  <2>4. WalkOK(w)'
    <3>1. ASSUME NEW found \in BOOLEAN, Tested(w, found),
                 ~found => ~partner /\ ~walk[w].found
          PROVE  WalkOK(w)'
      <4>1. to = [walk[w] EXCEPT !.at = "pair", !.pairs = NextSlots(@), !.found = found]
        BY <1>7, <3>1 DEF Tested, GoOn
      <4>2. /\ to.at = "pair" /\ to.todo = walk[w].todo /\ to.found = found
            /\ to.pairs = walk[w].pairs \ {Other(w)}
        BY <1>5, <2>1, <4>1 DEF Places
      <4>3. found \/ \A j \in used \ to.pairs :
                       ~Partners(proxies[Turn(w)].reader, proxies[j].reader)
        BY <2>2, <3>1, <4>2
      <4> QED BY <1>4, <1>6, <1>7, <2>1, <2>2, <2>3, <4>2, <4>3 DEF WalkOK, Frame
    <3>2. ASSUME partner, ~proxies[Other(w)].suppressUnicast,
                 GoOn(w, [walk[w] EXCEPT !.at = "silence"])
          PROVE  WalkOK(w)'
      <4>1. to = [walk[w] EXCEPT !.at = "silence"]
        BY <1>7, <3>2 DEF GoOn
      <4>2. /\ to.at = "silence" /\ to.todo = walk[w].todo /\ to.found = walk[w].found
            /\ to.pairs = walk[w].pairs
        BY <1>5, <4>1 DEF Places
      <4>3. Other(w)' = Other(w)
        BY <1>7, <4>2 DEF Other
      <4> QED BY <1>4, <1>6, <1>7, <2>1, <2>2, <2>3, <3>2, <4>2, <4>3 DEF WalkOK, Frame
    <3>3. walk[w].found \in BOOLEAN
      BY <1>5 DEF Places
    <3>4. CASE ~partner /\ Tested(w, walk[w].found)
      <4> DEFINE found == walk[w].found
      <4>1. ~found => ~partner /\ ~walk[w].found
        BY <3>4
      <4>2. Tested(w, found) /\ found \in BOOLEAN
        BY <3>3, <3>4
      <4> HIDE DEF found, partner
      <4> QED BY <3>1, <4>1, <4>2
    <3>5. CASE partner /\ Tested(w, TRUE)
      BY <3>1, <3>5
    <3> QED BY <1>11, <3>2, <3>4, <3>5 DEF TestPair
  <2>5. SentFor'
    BY <1>4, <2>1, QuietStepKeepsSentFor
  <2> QED BY <1>4, <2>4, <2>5
<1>12. CASE SilencePartner(w)
  <2>1. to = [walk[w] EXCEPT !.at = "send"] /\ walk[w].at = "silence"
    BY <1>7, <1>12 DEF SilencePartner, GoOn
  <2>2. /\ to.at = "send" /\ to.todo = walk[w].todo /\ to.found = walk[w].found
        /\ to.pairs = walk[w].pairs
    BY <1>5, <2>1 DEF Places
  <2>3. Other(w)' = Other(w) /\ Turn(w)' = Turn(w)
    BY <1>7, <2>2 DEF Other, Turn
  <2>4. /\ walk[w].todo # {} /\ walk[w].pairs # {}
        /\ Partners(proxies[Turn(w)].reader, proxies[Other(w)].reader)
        /\ walk[w].found \/ \A j \in used \ walk[w].pairs :
                               ~Partners(proxies[Turn(w)].reader, proxies[j].reader)
    BY <1>1, <1>5, <2>1 DEF WalkOK
  <2>5. WalkOK(w)'
    <3>1. Turn(w) \in Slots /\ Other(w) \in Slots
      BY <1>5, <1>6, <2>1, <2>4
    <3>2. \A j \in used : proxies'[j].reader = proxies[j].reader
      BY <1>3, <1>5
    <3>3. Partners(proxies[Turn(w)].reader, proxies[Other(w)].reader)'
      BY <1>3, <2>3, <2>4, <3>1
    <3>4. walk'[w].found \/ \A j \in used' \ walk'[w].pairs :
                              ~Partners(proxies'[Turn(w)'].reader, proxies'[j].reader)
      BY <1>3, <1>4, <1>7, <2>2, <2>3, <2>4, <3>1, <3>2 DEF Frame
    <3> QED BY <1>4, <1>6, <1>7, <2>2, <2>4, <3>3, <3>4 DEF WalkOK, Frame
  <2>6. SentFor'
    BY <1>4, <1>12, <2>1, SilenceKeepsSentFor
  <2> QED BY <1>4, <2>5, <2>6
<1>13. CASE SendForPartner(w)
  <2>1. /\ to = [walk[w] EXCEPT !.at = "pair", !.pairs = NextSlots(@), !.found = TRUE]
        /\ walk[w].at = "send"
    BY <1>7, <1>13 DEF SendForPartner, Tested, GoOn
  <2>2. /\ to.at = "pair" /\ to.todo = walk[w].todo /\ to.found
        /\ to.pairs \subseteq walk[w].pairs /\ walk[w].todo # {}
    BY <1>1, <1>5, <2>1 DEF Places, WalkOK
  <2>3. WalkOK(w)'
    BY <1>4, <1>6, <1>7, <2>2 DEF WalkOK, Frame
  <2>4. SentFor'
    BY <1>4, <1>13, SendKeepsSentFor
  <2> QED BY <1>4, <2>3, <2>4
<1>14. CASE EndPairs(w)
  <2>1. /\ to = Turns(NextSlots(walk[w].todo)) /\ walk[w].at = "pair"
        /\ walk[w].pairs = {}
    BY <1>7, <1>14 DEF EndPairs, EndTurn, GoOn
  <2>2. WalkOK(w)'
    <3>1. NextSlots(walk[w].todo) \in SUBSET Slots
      BY <1>5, <1>6, <2>1
    <3> QED BY <1>4, <1>5, <1>6, <1>7, <2>1, <3>1, TurnsPlaces DEF WalkOK, Frame, Busy
  <2>3. CASE walk[w].found
    <3>1. proxies' = proxies
      BY <1>14, <2>3 DEF EndPairs
    <3>2. SentFor'
      BY <1>4, <2>1, <3>1, QuietStepKeepsSentFor
    <3> QED BY <1>4, <2>2, <3>2
  <2>4. CASE ~walk[w].found
    <3>1. Alone(Turn(w))
      BY <1>14, <2>4 DEF EndPairs
    <3>2. \A j \in used : ~Partners(proxies[Turn(w)].reader, proxies[j].reader)
      BY <1>1, <1>5, <2>1, <2>4 DEF WalkOK
    <3>3. SentFor'
      BY <1>4, <1>5, <2>1, <3>1, <3>2, AloneKeepsSentFor
    <3> QED BY <1>4, <2>2, <3>3
  <2> QED BY <2>3, <2>4
<1> QED BY <1>8, <1>9, <1>10, <1>11, <1>12, <1>13, <1>14 DEF ManageSendOptions

\* A match that begins while no other walk is under way.
LEMMA AddKeepsLone ==
  ASSUME IInv, NEW w \in Walkers, NEW r \in Readers, AddNewMatchedReader(w, r), ~crossed'
  PROVE  LoneWalk' /\ (\A v \in Walkers : WalkOK(v)') /\ SentFor'
<1> DEFINE begun == [Still EXCEPT !.at = "begin"]
<1>1. /\ ~crossed /\ \A v \in Walkers : ~Busy(v)
      /\ GoOn(w, begun)
  BY DEF AddNewMatchedReader
<1>2. begun \in Places /\ begun.at = "begin" /\ begun.todo = {} /\ begun.pairs = {}
  BY DEF Still, Places
<1> HIDE DEF begun
<1>3. walk'[w] = begun /\ \A v \in Walkers \ {w} : walk'[v] = walk[v]
  BY <1>1, <1>2, GoOnEffect DEF IInv
<1>4. LoneWalk' /\ \A v \in Walkers : WalkOK(v)'
  BY <1>1, <1>2, <1>3 DEF LoneWalk, WalkOK, Busy
<1>5. \A k \in used : Silent(k) => \E l \in used : SendsFor(l, k)
  BY <1>1 DEF IInv, SentFor, Busy
<1>6. /\ used \subseteq used' /\ \A i \in used : proxies'[i] = proxies[i]
      /\ \A i \in used' \ used : ~proxies'[i].suppressUnicast
  BY AddEffect DEF IInv
<1>7. ASSUME NEW k \in used', Silent(k)'
      PROVE  \E l \in used' : SendsFor(l, k)'
  <2>1. k \in used /\ Silent(k)
    BY <1>6, <1>7 DEF Silent
  <2>2. PICK l \in used : SendsFor(l, k)
    BY <1>5, <2>1
  <2>3. SendsFor(l, k)'
    BY <1>6, <2>1, <2>2 DEF SendsFor
  <2> QED BY <1>6, <2>3
<1> QED BY <1>4, <1>7 DEF SentFor

\* A removal that begins alone, whatever the walks before it have left.
LEMMA RemoveKeepsLone ==
  ASSUME IInv, NEW S, RemoveReaders(S), ~crossed'
  PROVE  LoneWalk' /\ (\A v \in Walkers : WalkOK(v)') /\ SentFor'
<1> DEFINE removed == [Still EXCEPT !.at = "removed"]
<1>1. /\ \A v \in Walkers : ~Busy(v)
      /\ GoOn("spdp", removed)
  BY DEF RemoveReaders
<1>2. /\ removed \in Places /\ removed.at = "removed" /\ removed.todo = {}
      /\ removed.pairs = {} /\ "spdp" \in Walkers
  BY DEF Still, Places, Walkers
<1> HIDE DEF removed
<1>3. walk'["spdp"] = removed /\ \A v \in Walkers \ {"spdp"} : walk'[v] = walk[v]
  BY <1>1, <1>2, GoOnEffect DEF IInv
<1> QED BY <1>1, <1>2, <1>3 DEF LoneWalk, WalkOK, Busy, SentFor

LEMMA BeginResetKeepsLone ==
  ASSUME IInv, BeginReset, ~crossed
  PROVE  LoneWalk' /\ (\A v \in Walkers : WalkOK(v)') /\ SentFor'
<1> DEFINE to == Resetting(used)
<1>1. /\ walk["spdp"].at = "removed" /\ GoOn("spdp", to)
      /\ proxies' = proxies /\ used' = used /\ crossed' = crossed
  BY DEF BeginReset
<1>2. /\ "spdp" \in Walkers /\ used \in SUBSET Slots /\ Busy("spdp")
  BY <1>1 DEF Walkers, Busy, IInv, TypeOK
<1>3. /\ to \in Places /\ to.pairs = {} /\ to.todo = used
      /\ to.at = IF used = {} THEN "begin" ELSE "reset"
  BY <1>2, TurnsPlaces
<1> HIDE DEF to
<1>4. /\ Frame("spdp", to) /\ LoneWalk'
      /\ WalkOK("spdp")' => \A v \in Walkers : WalkOK(v)'
  BY <1>1, <1>2, <1>3, FrameOfStep
<1>5. WalkOK("spdp")'
  BY <1>1, <1>3, <1>4 DEF WalkOK, Frame
<1>6. SentFor'
  BY <1>1, <1>2, <1>3, <1>4 DEF SentFor, Frame
<1> QED BY <1>4, <1>5, <1>6

\* Once the last proxy is reset nobody is silent.
LEMMA ResetKeepsLone ==
  ASSUME IInv, ResetProxy, ~crossed
  PROVE  LoneWalk' /\ (\A v \in Walkers : WalkOK(v)') /\ SentFor'
<1> DEFINE rest == NextSlots(walk["spdp"].todo)
           to == Resetting(rest)
           x == FirstOf(walk["spdp"].todo)
<1>1. /\ walk["spdp"].at = "reset" /\ GoOn("spdp", to)
      /\ used' = used /\ crossed' = crossed
  BY DEF ResetProxy
<1>2. "spdp" \in Walkers /\ Busy("spdp") /\ Turn("spdp") = x
  BY <1>1 DEF Walkers, Busy, Turn
<1>3. /\ WalkOK("spdp") /\ used \in SUBSET Slots /\ x \in used
      /\ rest = walk["spdp"].todo \ {x}
  BY <1>1, <1>2, PlaceOfWalk
<1>4. /\ walk["spdp"].todo \subseteq used
      /\ \A j \in used \ walk["spdp"].todo : ~Silent(j)
  BY <1>1, <1>2, <1>3 DEF WalkOK
<1>5. rest \in SUBSET Slots
  BY <1>3, <1>4
<1>6. /\ to \in Places /\ to.pairs = {} /\ to.todo = rest
      /\ to.at = IF rest = {} THEN "begin" ELSE "reset"
  BY <1>5, TurnsPlaces
<1>7. /\ \A i \in Slots : proxies'[i].reader = proxies[i].reader
      /\ \A j \in Slots \ {x} : proxies'[j] = proxies[j]
      /\ ~proxies'[x].suppressUnicast
  BY <1>1, <1>3, ResetEffect, StoredKeeps DEF IInv, Stored
<1> HIDE DEF to
<1>8. /\ Frame("spdp", to) /\ LoneWalk'
      /\ WalkOK("spdp")' => \A v \in Walkers : WalkOK(v)'
  BY <1>1, <1>2, <1>6, <1>7, FrameOfStep
<1> HIDE DEF rest, x
<1>9. \A j \in used \ rest : ~Silent(j)'
  BY <1>3, <1>4, <1>7 DEF Silent
<1>10. WalkOK("spdp")'
  BY <1>3, <1>4, <1>6, <1>8, <1>9 DEF WalkOK, Frame
<1>11. SentFor'
  BY <1>2, <1>6, <1>8, <1>9 DEF SentFor, Frame
<1> QED BY <1>8, <1>10, <1>11

LEMMA InitGivesIInv ==
  ASSUME Init
  PROVE  IInv
<1>1. TypeOK
  BY DEF Init, TypeOK, NewProxy, Still
<1>2. OneWay
  BY DEF Init, OneWay, NewProxy
<1>3. \A w \in Walkers : walk[w].at = "still"
  BY DEF Init, Still
<1>4. LoneWalk /\ (\A w \in Walkers : WalkOK(w))
  BY <1>3 DEF LoneWalk, WalkOK, Busy
<1>5. SentFor
  BY DEF Init, SentFor
<1> QED BY <1>1, <1>2, <1>4, <1>5 DEF IInv

LEMMA NextKeepsIInv ==
  ASSUME IInv, [Next]_vars
  PROVE  IInv'
<1>1. TypeOK' /\ OneWay'
  BY NextKeepsType DEF IInv
<1>2. ASSUME ~crossed'
      PROVE  LoneWalk' /\ (\A w \in Walkers : WalkOK(w)') /\ SentFor'
  <2>1. Matchers \subseteq Walkers /\ "spdp" \in Walkers
    BY OptionsAssumption DEF Walkers
  <2>2. CASE UNCHANGED vars
    BY <1>2, <2>2 DEF vars, IInv, LoneWalk, WalkOK, SentFor, Busy, Silent, SendsFor, Turn,
                      Other
  <2>3. ASSUME NEW w \in Matchers, NEW r \in Readers, AddNewMatchedReader(w, r)
        PROVE  LoneWalk' /\ (\A v \in Walkers : WalkOK(v)') /\ SentFor'
    BY <1>2, <2>1, <2>3, AddKeepsLone
  <2>4. ASSUME NEW w \in Walkers, ManageSendOptions(w)
        PROVE  LoneWalk' /\ (\A v \in Walkers : WalkOK(v)') /\ SentFor'
    <3>1. ~crossed
      BY <1>2, <2>4 DEF ManageSendOptions, BeginTurns, WithoutGroup, BeginPairs, TestPair,
                        SilencePartner, SendForPartner, EndPairs
    <3> QED BY <2>4, <3>1, ManageKeepsLone
  <2>5. ASSUME NEW P \in Participants, RemoveReaders(P)
        PROVE  LoneWalk' /\ (\A v \in Walkers : WalkOK(v)') /\ SentFor'
    BY <1>2, <2>5, RemoveKeepsLone
  <2>6. CASE BeginReset
    BY <1>2, <2>6, BeginResetKeepsLone DEF BeginReset
  <2>7. CASE ResetProxy
    BY <1>2, <2>7, ResetKeepsLone DEF ResetProxy
  <2> QED BY <2>1, <2>2, <2>3, <2>4, <2>5, <2>6, <2>7 DEF Next, ResetSendOptions
<1> QED BY <1>1, <1>2 DEF IInv

-----------------------------------------------------------------------------
(* What a silent proxy's sender does for it.                               *)

LEMMA InvCovers ==
  ASSUME IInv
  PROVE  EveryoneCovered
<1> SUFFICES ASSUME ~crossed,
                    \A w \in Walkers : walk[w].at \notin {"removed", "reset", "send"},
                    NEW k \in used
             PROVE  proxies[k].reader \in ReachedByAll
  BY DEF EveryoneCovered, Covered
<1>1. used \subseteq Slots /\ \A i \in used : proxies[i].reader \in Readers
  BY DEF IInv, TypeOK
<1>2. ASSUME NEW l \in used, Sends(proxies[l]), proxies[k].reader \in Reached(proxies[l])
      PROVE  proxies[k].reader \in ReachedByAll
  BY <1>2 DEF ReachedByAll
<1>3. CASE Silent(k)
  <2>1. PICK l \in used : SendsFor(l, k)
    BY <1>3 DEF IInv, SentFor
  <2>2. Sends(proxies[l]) /\ proxies[k].reader \in Reached(proxies[l])
    BY <1>1, <2>1 DEF SendsFor, Partners, Sends, Reached
  <2> QED BY <1>2, <2>2
<1>4. CASE ~Silent(k)
  <2>1. Sends(proxies[k])
    BY <1>4 DEF Silent, Sends
  <2>2. proxies[k].reader \in Reached(proxies[k])
    BY <1>1 DEF Reached
  <2> QED BY <1>2, <2>1, <2>2
<1> QED BY <1>3, <1>4

LEMMA SpecGivesIInv == Spec => []IInv
<1>1. Init => IInv
  BY InitGivesIInv
<1>2. IInv /\ [Next]_vars => IInv'
  BY NextKeepsIInv
<1> QED BY <1>1, <1>2, PTL DEF Spec

-----------------------------------------------------------------------------
(* The theorems.                                                           *)

\* Every slot in use holds a matched reader, and a walk stands at slots of the pool,
\* whatever matches and removals cross it.
THEOREM TypeCorrect == Spec => []TypeOK
<1>1. IInv => TypeOK
  BY DEF IInv
<1> QED BY <1>1, SpecGivesIInv, PTL

\* In every moment but between the two stores of a pair and within a removal's reset,
\* every matched reader is sent to: by unicast, or by a multicast of its group that
\* names its entity or all of them.  This holds of walks that do not cross, for any
\* readers, groups and number of proxies, and holds again after any that did, from the
\* next removal nothing crosses.
THEOREM EveryoneIsCovered == Spec => []EveryoneCovered
<1>1. IInv => EveryoneCovered
  BY InvCovers
<1> QED BY <1>1, SpecGivesIInv, PTL
=============================================================================
