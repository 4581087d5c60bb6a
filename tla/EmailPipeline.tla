--------------------------- MODULE EmailPipeline ---------------------------
(***************************************************************************)
(* The shared processing pipeline of one e-mail: what the transaction of   *)
(* SyncService.sync_one does to the row of `email_messages`, its current   *)
(* CLASSIFICATION job and its active Human Review case.  The module holds  *)
(* operators only; the modules of the ingestion paths (Graph delta         *)
(* worker, polling, API) decide when a row is handed to it.                *)
(*                                                                         *)
(* The classifier and the document stages are summarised by the route the  *)
(* message takes; every route of _ingest_and_classify has one member here. *)
(*                                                                         *)
(* In this module and the others, a definition whose comment begins with   *)
(* "Fault" is a wrong form of the one after it.  Nothing uses it: put in   *)
(* the place of the right one, it shows that a property can fail.          *)
(***************************************************************************)
EXTENDS Naturals

CONSTANTS
  Contents,   \* the content hashes a message can have
  Routes      \* the routes the classifier and the documents can produce

AllRoutes ==
  {"NON_COMPARISON", "AWAITING_DOCUMENTS", "READINESS_UNRESOLVED",
   "TECHNICAL_FAILURE", "DOCUMENTS_BLOCKED", "COMPARISON_UNRESOLVED", "COMPARED"}

ASSUME RoutesAssumption == Routes \subseteq AllRoutes /\ Routes # {}

(***************************************************************************)
(* Only the states a transaction can commit: QUEUED, CLASSIFYING,          *)
(* CLASSIFIED, RETRIEVING_ATTACHMENTS, EXTRACTING and COMPARING are written *)
(* and overwritten inside the one transaction of sync_one.                 *)
(***************************************************************************)
Statuses    == {"NEW", "AWAITING_DOCUMENTS", "COMPLETED", "BLOCKED", "FAILED"}
Resumable   == {"NEW"}
Lifecycles  == {"ACTIVE", "DELETED"}
JobStatuses == {"NONE", "CLASSIFIED", "BLOCKED", "FAILED"}

\* A manual category is the effective routing truth until a human changes it.
Categories  == {"AUTOMATIC", "COMPARISON", "OTHER"}

CONSTANT NoContent
ASSUME NoContentAssumption == NoContent \notin Contents

Rows == [status : Statuses, content : Contents, lifecycle : Lifecycles,
         category : Categories, job : JobStatuses]
NoRow == [status |-> "ABSENT", content |-> NoContent, lifecycle |-> "ACTIVE",
          category |-> "AUTOMATIC", job |-> "NONE"]

Present(row) == row.status # "ABSENT"

\* upsert_message: a new row is NEW; changed content replaces the stored
\* content and resets nothing else.
Upsert(row, c) ==
  IF Present(row) THEN [row EXCEPT !.content = c]
                  ELSE [NoRow EXCEPT !.status = "NEW", !.content = c]

\* The routes left once a human category has superseded the automatic one:
\* an override to document_comparison is recorded with UNRESOLVED readiness.
RoutesFor(row) ==
  CASE row.category = "AUTOMATIC"  -> Routes
    [] row.category = "COMPARISON" -> {"READINESS_UNRESOLVED"}
    [] row.category = "OTHER"      -> {"NON_COMPARISON"}

\* Fault: a compared e-mail is left in the status of the stage before.
StatusLeftComparing(route) ==
  IF route = "COMPARED" THEN "COMPARING" ELSE "BLOCKED"

StatusAfter(route) ==
  CASE route \in {"NON_COMPARISON", "COMPARED"} -> "COMPLETED"
    [] route = "AWAITING_DOCUMENTS"             -> "AWAITING_DOCUMENTS"
    [] route = "TECHNICAL_FAILURE"              -> "FAILED"
    [] OTHER                                    -> "BLOCKED"

\* The job of an e-mail blocked on readiness ends CLASSIFIED, that of one
\* blocked on its documents or its comparison ends BLOCKED.
JobAfter(route) ==
  CASE route = "TECHNICAL_FAILURE"                             -> "FAILED"
    [] route \in {"DOCUMENTS_BLOCKED", "COMPARISON_UNRESOLVED"} -> "BLOCKED"
    [] OTHER                                                   -> "CLASSIFIED"

\* Fault: the pipeline processes a DELETED record like any other.
SkipsOnlyUnchanged(row, c, force) ==
  Upsert(row, c) = row /\ ~force /\ row.status \notin Resumable

\* The two early returns of _ingest_and_classify, decided after the upsert.
Skips(row, c, force) ==
  LET stored  == Upsert(row, c)
      changed == stored # row
  IN  \/ stored.lifecycle = "DELETED"
      \/ ~changed /\ ~force /\ stored.status \notin Resumable

\* One committed run of the pipeline over content c.
Ingest(row, c, force, route) ==
  IF Skips(row, c, force)
    THEN Upsert(row, c)
    ELSE [Upsert(row, c) EXCEPT !.status = StatusAfter(route),
                                !.job    = JobAfter(route)]

\* Fault: a technical failure is not reported to the caller.
OutcomeHidesFailure(row, c, force, route) ==
  IF Skips(row, c, force) THEN "SKIPPED" ELSE "CLASSIFIED"

Outcome(row, c, force, route) ==
  IF Skips(row, c, force) THEN "SKIPPED"
  ELSE IF route = "TECHNICAL_FAILURE" THEN "FAILED" ELSE "CLASSIFIED"

\* _record_failure: the row and a FAILED job; processing_status is untouched.
RecordFailure(row, c) == [Upsert(row, c) EXCEPT !.job = "FAILED"]
=============================================================================
