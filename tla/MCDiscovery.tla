---------------------------- MODULE MCDiscovery ----------------------------
(***************************************************************************)
(* The endpoints of the run of Discovery: a publisher and a subscriber on  *)
(* topic T, and a participant with a writer and a reader on it.  The       *)
(* publisher on U is one too many for the Domain.                          *)
(***************************************************************************)
EXTENDS Discovery, TLC

CONSTANTS p1, w1, w2, r1, gw, gr

Owners == gw :> p1 @@ gr :> p1

Topics == gw :> "T" @@ gr :> "T" @@ w1 :> "T" @@ r1 :> "T" @@ w2 :> "U"

Hashes == "T" :> 1 @@ "U" :> 2

Published == p1 :> <<gw>>

Subscribed == p1 :> <<gr>>

Order == <<w1, r1, w2>>
=============================================================================
