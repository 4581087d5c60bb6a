-------------------------- MODULE Materialization --------------------------
(***************************************************************************)
(* What the document stage decides from the attachments of one e-mail: how *)
(* an attachment is read (CompositeDocumentReader), which role its text    *)
(* has (DocumentRoleValidator), and how the e-mail goes on                 *)
(* (DocumentMaterializationService.process).  Operators only.              *)
(*                                                                         *)
(* An attachment is a record                                               *)
(*   kind     what the file name promises,                                 *)
(*   empty    it has no bytes,                                             *)
(*   native   what the reader of its kind finds,                           *)
(*   ocr      what OcrReader answers when it is asked,                     *)
(*   markers  the role markers its text holds.                             *)
(* VisionReader has no resolver in this program and never adds a text.     *)
(***************************************************************************)
EXTENDS Naturals, Sequences, FiniteSets, SequencesExt

Kinds       == {"PLAIN_TEXT", "DOCX", "XLSX", "PDF", "IMAGE", "UNKNOWN"}
Natives     == {"TEXT", "NO_TEXT", "ERROR"}
OcrAnswers  == {"TEXT", "NO_TEXT", "FAILED", "NO_FALLBACK"}
MarkerKinds == {"WRONG_TYPE", "SI", "BL"}
Roles       == {"SI", "DRAFT_BL", "OTHER", "UNKNOWN"}
Outcomes    == {"SI_FOUND", "BL_FOUND", "MULTIPLE_CANDIDATES", "UNSUPPORTED_ATTACHMENT",
                "CORRUPTED_ATTACHMENT", "UNREADABLE_ATTACHMENT", "WRONG_DOCUMENT_TYPE",
                "ROLE_INCONCLUSIVE"}
----------------------------------------------------------------------------
(* Reading *)

\* OCR text is used; whatever else it answers, vision adds nothing.
OcrStatus(answer) == IF answer = "TEXT" THEN "EXTRACTED" ELSE "UNREADABLE"

NativeStatus(native) ==
  CASE native = "TEXT"    -> "EXTRACTED"
    [] native = "NO_TEXT" -> "UNREADABLE"
    [] native = "ERROR"   -> "FAILED"

\* A PDF that can be parsed but holds less than a line of text is a scan.
NeedsOcr(a) == a.kind = "IMAGE" \/ (a.kind = "PDF" /\ a.native = "NO_TEXT")

ReadStatus(a) ==
  CASE a.empty            -> "UNREADABLE"
    [] a.kind = "UNKNOWN" -> "FAILED"
    [] NeedsOcr(a)        -> OcrStatus(a.ocr)
    [] OTHER              -> NativeStatus(a.native)
----------------------------------------------------------------------------
(* Role and outcome of one attachment *)

\* Markers of both roles prove neither.
RoleOf(markers) ==
  CASE "WRONG_TYPE" \in markers -> "OTHER"
    [] markers = {"SI"}         -> "SI"
    [] markers = {"BL"}         -> "DRAFT_BL"
    [] OTHER                    -> "UNKNOWN"

\* A document whose text was not looked at has no role.
Unvalidated(outcome) == [role |-> "UNKNOWN", outcome |-> outcome]

Validated(role) ==
  [role    |-> role,
   outcome |-> CASE role = "SI"       -> "SI_FOUND"
                 [] role = "DRAFT_BL" -> "BL_FOUND"
                 [] role = "OTHER"    -> "WRONG_DOCUMENT_TYPE"
                 [] role = "UNKNOWN"  -> "ROLE_INCONCLUSIVE"]

Classified(a) ==
  IF a.kind = "UNKNOWN" THEN Unvalidated("UNSUPPORTED_ATTACHMENT")
  ELSE IF a.empty \/ ReadStatus(a) = "FAILED" THEN Unvalidated("CORRUPTED_ATTACHMENT")
  ELSE IF ReadStatus(a) = "UNREADABLE" THEN Unvalidated("UNREADABLE_ATTACHMENT")
  ELSE Validated(RoleOf(a.markers))

\* Fault: a document whose reader raised is given no outcome.
RaisedUndecided(a) == Unvalidated("NONE")

\* The reader itself raised: a FAILED document, and a technical failure.
Raised(a) ==
  Unvalidated(IF a.kind = "UNKNOWN" THEN "UNSUPPORTED_ATTACHMENT" ELSE "CORRUPTED_ATTACHMENT")
----------------------------------------------------------------------------
(* The e-mail *)

Precedence == <<"WRONG_DOCUMENT_TYPE", "UNSUPPORTED_ATTACHMENT",
                "CORRUPTED_ATTACHMENT", "UNREADABLE_ATTACHMENT">>

WithRole(docs, role) == Cardinality({i \in DOMAIN docs : docs[i].role = role})
Has(docs, outcome)   == \E i \in DOMAIN docs : docs[i].outcome = outcome

\* Where the outcomes that stop the e-mail stand in Precedence.
Refusals(docs) == {i \in DOMAIN Precedence : Has(docs, Precedence[i])}

Blocked(reason) == [status |-> "BLOCKED", reason |-> reason]
Failed(reason)  == [status |-> "FAILED", reason |-> reason]

\* docs: the documents kept, those of attachments that could not be fetched
\* left out; technical: the first technical failure, or "NONE".
Route(docs, technical) ==
  IF technical # "NONE" THEN Failed(technical)
  ELSE IF Refusals(docs) # {} THEN Blocked(Precedence[Min(Refusals(docs))])
  ELSE IF WithRole(docs, "SI") > 1 \/ WithRole(docs, "DRAFT_BL") > 1
    THEN Blocked("MULTIPLE_CANDIDATES")
  ELSE IF Has(docs, "ROLE_INCONCLUSIVE") THEN Blocked("DOCUMENT_ROLE_UNRESOLVED")
  ELSE IF WithRole(docs, "SI") = 0 \/ WithRole(docs, "DRAFT_BL") = 0
    THEN Blocked("MISSING_REQUIRED_ATTACHMENT")
  ELSE [status |-> "EXTRACTING", reason |-> "DOCUMENTS_MATERIALIZED"]

\* The documents of the role there is too much of are marked; both roles may
\* be, but the Shipping Instructions are marked first and alone.
Marked(docs) ==
  LET extra == IF WithRole(docs, "SI") > 1 THEN "SI" ELSE "DRAFT_BL"
  IN  IF Route(docs, "NONE").reason # "MULTIPLE_CANDIDATES" THEN docs
      ELSE [i \in DOMAIN docs |-> IF docs[i].role = extra
                                  THEN [docs[i] EXCEPT !.outcome = "MULTIPLE_CANDIDATES"]
                                  ELSE docs[i]]
=============================================================================
