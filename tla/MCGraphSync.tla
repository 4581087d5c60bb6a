---------------------------- MODULE MCGraphSync ----------------------------
(***************************************************************************)
(* Instances of GraphSync for TLC.                                         *)
(***************************************************************************)
EXTENDS GraphSync, TLC

\* Messages are interchangeable: the safety runs have no Poison message.
Symmetry == Permutations(Msgs)
=============================================================================
