------------------------ MODULE MCResolutionExecutor ------------------------
(***************************************************************************)
(* Instances of ResolutionExecutor for TLC: who asks for what.             *)
(***************************************************************************)
EXTENDS ResolutionExecutor, TLC

CONSTANTS w1, w2, w3, k1, k2, e1, e2

\* Two workers ask single requests for the same key, one a batch that has it.
MixedCase  == (w1 :> e1) @@ (w2 :> e2) @@ (w3 :> e1)
MixedWants == (w1 :> {k1}) @@ (w2 :> {k1}) @@ (w3 :> {k1, k2})

\* Two workers ask for the same document's fields in batches, for two e-mails.
TwoCases    == (w1 :> e1) @@ (w2 :> e2)
SameBatches == (w1 :> {k1, k2}) @@ (w2 :> {k1, k2})
=============================================================================
