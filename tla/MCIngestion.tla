----------------------------- MODULE MCIngestion -----------------------------
(* Model-checking instance of Ingestion. *)
EXTENDS Ingestion, TLC

CONSTANTS m1, m2, c1, c2, w1, w2

Symmetry == Permutations({m1, m2}) \cup Permutations({w1, w2})
=============================================================================
