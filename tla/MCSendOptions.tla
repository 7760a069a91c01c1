--------------------------- MODULE MCSendOptions ---------------------------
(***************************************************************************)
(* Remote readers and addresses for the runs of SendOptions: two entities  *)
(* of one participant and one of another share a multicast address; a      *)
(* fourth has none.                                                        *)
(***************************************************************************)
EXTENDS SendOptions, TLC

CONSTANTS r1, r2, r3, r4, g

Hosts    == (r1 :> 1) @@ (r2 :> 2) @@ (r3 :> 1) @@ (r4 :> 3)
Entities == (r1 :> 1) @@ (r2 :> 1) @@ (r3 :> 2) @@ (r4 :> 1)
Groups   == (r1 :> g) @@ (r2 :> g) @@ (r3 :> g) @@ (r4 :> NoGroup)
=============================================================================
