-------------------------- MODULE MCReviewWorkflow --------------------------
(***************************************************************************)
(* Instances of ReviewWorkflow for TLC.                                    *)
(***************************************************************************)
EXTENDS ReviewWorkflow, TLC

\* Requests are interchangeable.
Symmetry == Permutations(Requests)
=============================================================================
