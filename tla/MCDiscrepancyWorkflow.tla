----------------------- MODULE MCDiscrepancyWorkflow -----------------------
EXTENDS DiscrepancyWorkflow, TLC

CONSTANTS f, g, a, b

(* Field f mismatches and one side of g is unknown. *)
TwoFields == {f, g}
AB == {a, b}
MismatchAndGap ==
  {[c \in Cells |-> IF c = <<"SI", f>> THEN x ELSE IF c = <<"SI", g>> THEN Unknown ELSE y] :
     <<x, y>> \in {<<a, b>>, <<b, a>>}}
Questioned == {<<"BL", f>>, <<"SI", g>>}
Swapped == Permutations(AB)
=============================================================================
