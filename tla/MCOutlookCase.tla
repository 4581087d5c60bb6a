--------------------------- MODULE MCOutlookCase ---------------------------
(* Two overlapping requests of the add-in and the dashboard over one e-mail. *)
EXTENDS OutlookCase, TLC

Symmetry == Permutations(Requests) \cup Permutations(SendKeys) \cup Permutations(Categories)

Case(status, comparison, open, reason) ==
  [status |-> status, comparison |-> comparison, open |-> open, reason |-> reason]

MCCases == {Case("COMPLETED", "COMPLETED", FALSE, "OTHER"),
            Case("FAILED", "NONE", FALSE, "OTHER")}

MCPayloads == {[lifecycle |-> "RESTORED", archived |-> "UNSAID"],
               [lifecycle |-> "ARCHIVED", archived |-> "UNSAID"],
               [lifecycle |-> "UNSAID", archived |-> "NO"]}
=============================================================================
