------------------------- MODULE MCStatelessWriter -------------------------
(***************************************************************************)
(* The packets the run of StatelessWriter lets arrive.                     *)
(***************************************************************************)
EXTENDS StatelessWriter, TLC

Match == [kind |-> "match"]

Unrelated == [kind |-> "other"]

Arriving == "user" :> {Match} @@ "announcer" :> {Unrelated}

Arrivals == {Match, Unrelated}
=============================================================================
