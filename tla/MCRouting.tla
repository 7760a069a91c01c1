----------------------------- MODULE MCRouting -----------------------------
(***************************************************************************)
(* The endpoints of the runs of Routing: two subscribers on two topics, a  *)
(* participant with a writer on T and one with two writers on U, of which  *)
(* the subscriber's pool takes one.                                        *)
(***************************************************************************)
EXTENDS Routing, TLC

CONSTANTS a, b, c, rt, ru

Topics == a :> "T" @@ b :> "U" @@ c :> "U" @@ rt :> "T" @@ ru :> "U"

Order == <<rt, ru>>
=============================================================================
