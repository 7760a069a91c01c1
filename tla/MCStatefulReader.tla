-------------------------- MODULE MCStatefulReader --------------------------
(***************************************************************************)
(* The symmetry the runs of StatefulReader use.                            *)
(***************************************************************************)
EXTENDS StatefulReader, TLC

Symmetry == Permutations(Writers)
=============================================================================
