------------------------- MODULE DiscrepancyWorkflow -------------------------
(***************************************************************************)
(* The corrections of one compared e-mail: the discrepancy operations      *)
(* (discrepancy/service.py) beside the Human Review of the same e-mail      *)
(* (review/service.py) and the suggestions of the AI assistant for it       *)
(* (ai_review/service.py).                                                  *)
(*                                                                         *)
(* Every operation is one transaction.  Those that compare update the row   *)
(* of the e-mail (COMPARING) before they insert their comparison, so they   *)
(* exclude each other from there on and comparisons are created in commit   *)
(* order.  A discrepancy operation locks the comparison it addresses; one   *)
(* that names the e-mail and has to wait for that lock goes on with the     *)
(* comparison that was the latest when it asked.  An operation therefore    *)
(* addresses any comparison here, superseded ones included.                 *)
(*                                                                         *)
(* Bounds: MaxOverrides, MaxComparisons, MaxSuggestions.                    *)
(***************************************************************************)
EXTENDS Integers, Sequences, FiniteSets

CONSTANTS
  Fields,            \* the canonical fields that take part
  Values,            \* canonical values
  Unknown,           \* a field whose extraction has no canonical value
  Extractions,       \* what the extractions of the two documents may say
  Correctable,       \* the cells people correct
  MaxOverrides, MaxComparisons, MaxSuggestions

Cells == {"SI", "BL"} \X Fields

ASSUME DiscrepancyAssumption ==
  /\ Unknown \notin Values
  /\ Extractions \subseteq [Cells -> Values \union {Unknown}]
  /\ Correctable \subseteq Cells
  /\ MaxOverrides \in Nat /\ MaxComparisons \in Nat \ {0} /\ MaxSuggestions \in Nat

VARIABLES
  extracted,         \* what the two extractions say, without any AI decision
  comparisons,       \* rows of comparison_results of the e-mail, oldest first
  overrides,         \* rows of human_review_field_overrides
  mail,              \* processing status of the e-mail
  case,              \* status of its active Human Review case, "NONE" without one
  suggestions        \* rows of ai_suggestions of that case

vars == <<extracted, comparisons, overrides, mail, case, suggestions>>

Latest == Len(comparisons)
CaseOwner == 0       \* owner of an override that belongs to the review case

(***************************************************************************)
(* The comparison of effective values, ComparisonService.compare with the   *)
(* deterministic layers: an unknown side leaves the field unresolved.       *)
(***************************************************************************)
Unresolved(value) ==
  {f \in Fields : Unknown \in {value[<<"SI", f>>], value[<<"BL", f>>]}}

Mismatched(value) ==
  {f \in Fields \ Unresolved(value) : value[<<"SI", f>>] # value[<<"BL", f>>]}

State(value) == IF Unresolved(value) = {} THEN "COMPLETED" ELSE "BLOCKED"

Active(rows, owner) == {o \in DOMAIN rows : rows[o].active /\ rows[o].owner = owner}

CorrectedIn(rows, used) == {rows[o].cell : o \in used}

Correcting(rows, used, c) == {o \in used : rows[o].cell = c}

Overlay(rows, used) ==
  [c \in Cells |->
     IF c \in CorrectedIn(rows, used)
     THEN rows[CHOOSE o \in Correcting(rows, used, c) : TRUE].value
     ELSE extracted[c]]

(* The status upsert_result leaves: an open one stays, a new one is OPEN. *)
KeptOrOpen(value, before) ==
  IF Mismatched(value) = {} \/ State(value) = "BLOCKED" THEN "NONE"
  ELSE IF before = "NONE" THEN "OPEN" ELSE before

(* Fault: the version names what is re-compared, not the overrides. *)
SameSource(row, kind, source, used) == row.kind = kind /\ row.source = source

(***************************************************************************)
(* The version of a re-comparison names its kind, what it re-compares and    *)
(* the overrides it includes; a row with the same version is updated.        *)
(***************************************************************************)
Same(row, kind, source, used) ==
  row.kind = kind /\ row.source = source /\ row.used = used

RowOf(kind, source, used) ==
  LET same == {i \in DOMAIN comparisons : Same(comparisons[i], kind, source, used)}
  IN  IF same = {} THEN Latest + 1 ELSE CHOOSE i \in same : TRUE

StatusBefore(row) == IF row > Latest THEN "NONE" ELSE comparisons[row].status

Stored(row, record) ==
  IF row > Latest THEN Append(comparisons, record) ELSE [comparisons EXCEPT ![row] = record]

(***************************************************************************)
(* The e-mail after its processing: the base comparison, in which decisions  *)
(* of the AI escalation may stand for unknown values, and a review case when *)
(* a field stayed unresolved.                                               *)
(***************************************************************************)
Init ==
  /\ extracted \in Extractions
  /\ \E seen \in [Cells -> Values \union {Unknown}] :
       /\ \A c \in Cells : extracted[c] # Unknown => seen[c] = extracted[c]
       /\ comparisons = <<[kind |-> "BASE", source |-> 0, used |-> {}, value |-> seen,
                           status |-> KeptOrOpen(seen, "NONE")]>>
       /\ mail = State(seen)
       /\ case = IF State(seen) = "BLOCKED" THEN "OPEN" ELSE "NONE"
  /\ overrides = <<>>
  /\ suggestions = <<>>

-----------------------------------------------------------------------------
(* A correction supersedes the active one of the same owner and cell. *)
Superseding(owner, cell, value, suggestion) ==
  Append([o \in DOMAIN overrides |->
            IF o \in Active(overrides, owner) /\ overrides[o].cell = cell
            THEN [overrides[o] EXCEPT !.active = FALSE] ELSE overrides[o]],
         [owner |-> owner, cell |-> cell, value |-> value, active |-> TRUE,
          suggestion |-> suggestion])

(* DiscrepancyService.acknowledge *)
Acknowledge(i) ==
  /\ Mismatched(comparisons[i].value) # {}
  /\ comparisons[i].status \notin {"ACKNOWLEDGED", "RESOLVED"}
  /\ comparisons' = [comparisons EXCEPT ![i].status = "ACKNOWLEDGED"]
  /\ UNCHANGED <<extracted, overrides, mail, case, suggestions>>

(* DiscrepancyService.resolve *)
Resolve(i) ==
  /\ Mismatched(comparisons[i].value) # {}
  /\ comparisons[i].status # "RESOLVED"
  /\ comparisons' = [comparisons EXCEPT ![i].status = "RESOLVED"]
  /\ UNCHANGED <<extracted, overrides, mail, case, suggestions>>

(* DiscrepancyService.add_override: of any comparison, with a mismatch or not. *)
AddOverride(i, cell, value) ==
  /\ Len(overrides) < MaxOverrides
  /\ overrides' = Superseding(i, cell, value, 0)
  /\ UNCHANGED <<extracted, comparisons, mail, case, suggestions>>

(* Fault: the overrides stay with the comparison that was re-compared. *)
LeftBehind(used, row) == overrides

Moved(used, row) ==
  [o \in DOMAIN overrides |->
     IF o \in used THEN [overrides[o] EXCEPT !.owner = row] ELSE overrides[o]]

(***************************************************************************)
(* DiscrepancyService.recompare: the extracted values with the active        *)
(* overrides of the source, which move to the new row.  The status starts    *)
(* over and the e-mail takes the state of this comparison.                   *)
(***************************************************************************)
Recompare(i) ==
  LET used  == Active(overrides, i)
      value == Overlay(overrides, used)
      row   == RowOf("DISCREPANCY", i, used)
  IN  /\ row <= MaxComparisons
      /\ comparisons' =
           Stored(row, [kind |-> "DISCREPANCY", source |-> i, used |-> used, value |-> value,
                        status |-> IF Mismatched(value) # {} THEN "OPEN" ELSE "NONE"])
      /\ overrides' = Moved(used, row)
      /\ mail' = State(value)
      /\ UNCHANGED <<extracted, case, suggestions>>

-----------------------------------------------------------------------------
CaseActive == case \in {"OPEN", "IN_REVIEW"}

(***************************************************************************)
(* HumanReviewService.resolve_and_recompare, over given override rows: the   *)
(* extracted values with the overrides of the case alone.                    *)
(***************************************************************************)
ReviewedWith(rows) ==
  LET used  == Active(rows, CaseOwner)
      value == Overlay(rows, used)
      row   == RowOf("REVIEW", 1, used)
  IN  /\ CaseActive
      /\ row <= MaxComparisons
      /\ comparisons' =
           Stored(row, [kind |-> "REVIEW", source |-> 1, used |-> used, value |-> value,
                        status |-> KeptOrOpen(value, StatusBefore(row))])
      /\ mail' = State(value)
      /\ case' = IF State(value) = "COMPLETED" THEN "RESOLVED" ELSE "IN_REVIEW"
      /\ overrides' = rows

(* HumanReviewService.add_override *)
CorrectCase(cell, value) ==
  /\ CaseActive
  /\ Len(overrides) < MaxOverrides
  /\ overrides' = Superseding(CaseOwner, cell, value, 0)
  /\ case' = "IN_REVIEW"
  /\ UNCHANGED <<extracted, comparisons, mail, suggestions>>

ResolveCase ==
  /\ ReviewedWith(overrides)
  /\ UNCHANGED <<extracted, suggestions>>

(* HumanReviewService.dismiss: the e-mail stays as it is. *)
DismissCase ==
  /\ CaseActive
  /\ case' = "DISMISSED"
  /\ UNCHANGED <<extracted, comparisons, overrides, mail, suggestions>>

-----------------------------------------------------------------------------
(***************************************************************************)
(* AIReviewService.ask: the case is read before the provider is called and   *)
(* not looked at again, so an actionable answer that passes the safety gate   *)
(* is stored whatever became of the case in the meantime.                    *)
(***************************************************************************)
Ask(cell, value) ==
  /\ case # "NONE"
  /\ Len(suggestions) < MaxSuggestions
  /\ suggestions' = Append(suggestions, [cell |-> cell, value |-> value, status |-> "PENDING"])
  /\ UNCHANGED <<extracted, comparisons, overrides, mail, case>>

(* Fault: the lock on the suggestion does not come with a look at its status. *)
OnceMore(k) == suggestions[k].status \in {"PENDING", "ACCEPTED"}

Pending(k) == suggestions[k].status = "PENDING"

Decided(k, status) == suggestions' = [suggestions EXCEPT ![k].status = status]

(* One transaction: the override, the decision and the re-comparison. *)
Apply(k, value, status) ==
  /\ Pending(k)
  /\ Len(overrides) < MaxOverrides
  /\ ReviewedWith(Superseding(CaseOwner, suggestions[k].cell, value, k))
  /\ Decided(k, status)
  /\ UNCHANGED extracted

AcceptSuggestion(k) == Apply(k, suggestions[k].value, "ACCEPTED")

EditSuggestion(k, value) == Apply(k, value, "EDITED_APPLIED")

DismissSuggestion(k) ==
  /\ Pending(k)
  /\ Decided(k, "DISMISSED")
  /\ UNCHANGED <<extracted, comparisons, overrides, mail, case>>

-----------------------------------------------------------------------------
Next ==
  \/ \E i \in DOMAIN comparisons : Acknowledge(i)
  \/ \E i \in DOMAIN comparisons : Resolve(i)
  \/ \E i \in DOMAIN comparisons, c \in Correctable, v \in Values : AddOverride(i, c, v)
  \/ \E i \in DOMAIN comparisons : Recompare(i)
  \/ \E c \in Correctable, v \in Values : CorrectCase(c, v)
  \/ ResolveCase
  \/ DismissCase
  \/ \E c \in Correctable, v \in Values : Ask(c, v)
  \/ \E k \in DOMAIN suggestions : AcceptSuggestion(k)
  \/ \E k \in DOMAIN suggestions, v \in Values : EditSuggestion(k, v)
  \/ \E k \in DOMAIN suggestions : DismissSuggestion(k)

Spec == Init /\ [][Next]_vars

-----------------------------------------------------------------------------
Comparisons ==
  [kind : {"BASE", "REVIEW", "DISCREPANCY"}, source : Nat, used : SUBSET Nat,
   value : [Cells -> Values \union {Unknown}],
   status : {"NONE", "OPEN", "ACKNOWLEDGED", "RESOLVED"}]

Overrides ==
  [owner : Nat, cell : Correctable, value : Values, active : BOOLEAN, suggestion : Nat]

Suggestions ==
  [cell : Correctable, value : Values,
   status : {"PENDING", "ACCEPTED", "EDITED_APPLIED", "DISMISSED"}]

(***************************************************************************)
(* A comparison re-compares an earlier one and uses corrections that exist;  *)
(* a correction belongs to the case or to a comparison.                      *)
(***************************************************************************)
TypeOK ==
  /\ extracted \in Extractions
  /\ comparisons \in Seq(Comparisons) /\ Latest > 0
  /\ \A i \in DOMAIN comparisons :
       comparisons[i].source < i /\ comparisons[i].used \subseteq DOMAIN overrides
  /\ overrides \in Seq(Overrides)
  /\ \A o \in DOMAIN overrides :
       overrides[o].owner <= Latest /\ overrides[o].suggestion <= Len(suggestions)
  /\ mail \in {"COMPLETED", "BLOCKED"}
  /\ case \in {"NONE", "OPEN", "IN_REVIEW", "RESOLVED", "DISMISSED"}
  /\ suggestions \in Seq(Suggestions)

(***************************************************************************)
(* No owner has two active corrections of one cell, although a              *)
(* re-comparison moves corrections to a row that people may have corrected   *)
(* already: the unique index uq_comparison_override_active_field             *)
(* (storage/models.py:597) never refuses the move.                           *)
(***************************************************************************)
OneActivePerCell ==
  \A o, p \in DOMAIN overrides :
    /\ overrides[o].active /\ overrides[p].active
    /\ overrides[o].owner = overrides[p].owner /\ overrides[o].cell = overrides[p].cell
    => o = p

(***************************************************************************)
(* What a stored comparison compared never changes: corrections and          *)
(* re-comparisons, repeated ones included, only add rows or the status of    *)
(* one (docs/scope_decisions/2026-09-21-ui-human-review.md:13).              *)
(***************************************************************************)
HistoryImmutable ==
  [][\A i \in DOMAIN comparisons :
       /\ comparisons'[i].value = comparisons[i].value
       /\ comparisons'[i].used = comparisons[i].used]_vars

(***************************************************************************)
(* A suggestion is applied at most once, and exactly when its status says    *)
(* so; one that was dismissed has left no correction.                        *)
(***************************************************************************)
SuggestionAppliedOnce ==
  \A k \in DOMAIN suggestions :
    Cardinality({o \in DOMAIN overrides : overrides[o].suggestion = k}) =
      IF suggestions[k].status \in {"ACCEPTED", "EDITED_APPLIED"} THEN 1 ELSE 0

CorrectedCells(i) == CorrectedIn(overrides, comparisons[i].used)

(***************************************************************************)
(* Re-comparing the latest comparison of the discrepancy workflow keeps      *)
(* every correction it rests on, replaced ones with their new value.         *)
(***************************************************************************)
CorrectionsCarried ==
  [][comparisons[Latest].kind # "REVIEW" /\ Recompare(Latest)
       => CorrectedCells(Latest) \subseteq CorrectedCells(Latest)']_vars

(***************************************************************************)
(* The same for every latest comparison, one a reviewer's decision made      *)
(* included (discrepancy/service.py:302 "Collect active overrides for this   *)
(* comparison chain", :331 "Carry forward / link active overrides to the     *)
(* new comparison result").                                                  *)
(***************************************************************************)
ChainCarried ==
  [][Recompare(Latest) => CorrectedCells(Latest) \subseteq CorrectedCells(Latest)']_vars
=============================================================================
