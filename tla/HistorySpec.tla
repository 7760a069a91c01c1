---------------------------- MODULE HistorySpec ----------------------------
(***************************************************************************)
(* What a writer's history promises, without the ring it is kept in: the   *)
(* changes with the sequence numbers first .. lastUsed and nothing else,   *)
(* each with the payload it was published with.  A full history forgets    *)
(* its oldest change to make room.  HistoryCache implements this.          *)
(***************************************************************************)
EXTENDS Integers

CONSTANTS
  Data,      \* payloads
  SIZE       \* the most changes the history holds

VARIABLES
  first,     \* the oldest sequence number held; lastUsed + 1 when empty
  lastUsed,  \* the newest sequence number ever given out
  window     \* the payload of every sequence number held

vars == <<first, lastUsed, window>>

Init ==
  /\ first = 1
  /\ lastUsed = 0
  /\ window = [sn \in 1 .. 0 |-> sn]

Full == lastUsed - first + 1 = SIZE

Add(d) ==
  /\ lastUsed' = lastUsed + 1
  /\ first' = IF Full THEN first + 1 ELSE first
  /\ window' = [sn \in first' .. lastUsed + 1 |->
                  IF sn = lastUsed + 1 THEN d ELSE window[sn]]

\* Forgets every change up to and including sn.
Forget(sn) ==
  /\ sn \in first .. lastUsed
  /\ first' = sn + 1
  /\ window' = [s \in sn + 1 .. lastUsed |-> window[s]]
  /\ UNCHANGED lastUsed

Next ==
  \/ \E d \in Data : Add(d)
  \/ \E sn \in first .. lastUsed : Forget(sn)

Spec == Init /\ [][Next]_vars
=============================================================================
