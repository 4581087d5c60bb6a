----------------------------- MODULE Decisions -----------------------------
(***************************************************************************)
(* The decisions on one e-mail, in the order the pipeline takes them: its    *)
(* category, its readiness, the route of its documents, the fields a          *)
(* document has, and the comparison of the seven fields.  The input of a      *)
(* decision is whatever the e-mail and its documents may hold; question and   *)
(* answer are the latest decision with its input.                            *)
(***************************************************************************)
EXTENDS Classification, Materialization, Extraction

CONSTANTS
  Table,         \* the categories in the order of CATEGORY_SIGNALS
  Mails,         \* what the signals find in an e-mail
  MaxAttachments,
  Files,         \* what may be attached
  Documents,     \* what a document may say
  Escalated,     \* what the AI escalation may decide about a field, or Unknown
  Sides,         \* values of each kind of field, as extracted
  NoNumber, NoName, NoCode, NoPort, Approved, Similar, LegalWords, LocalWords, Shortens

Fields == INSTANCE FieldComparison

Scores == [Categories -> Nat]

ASSUME DecisionsAssumption ==
  /\ Table \in [1 .. Cardinality(Categories) -> Categories] /\ ToSet(Table) = Categories
  /\ Mails \subseteq [subject : Scores, body : Scores, names : Scores]
  /\ MaxAttachments \in Nat
  /\ \A side \in Sides["ENTITY"] : Listed(side.value.words)
  /\ \A document \in Documents : IsDocument(document)

VARIABLES stage, question, answer,
  compared,      \* number of fields compared so far
  statuses       \* what they were found to be

vars == <<stage, question, answer, compared, statuses>>

Opinions == {"EQUIVALENT", "DIFFERENT", "NO_DECISION"}

Init ==
  /\ stage = "RECEIVED"
  /\ question = "NONE" /\ answer = "NONE"
  /\ compared = 0 /\ statuses = {}

TakeCategory ==
  /\ stage = "RECEIVED"
  /\ question' \in Mails
  /\ answer' = Classify(question', Table)
  /\ stage' = "CLASSIFIED"
  /\ UNCHANGED <<compared, statuses>>

TakeReadiness ==
  /\ stage = "COMPARISON_ASKED"
  /\ \E n \in 0 .. MaxAttachments, says \in SUBSET Sayings :
       /\ question' = [attachments |-> n, says |-> says]
       /\ answer' = Readiness(n, says)
  /\ stage' = "ASSESSED"
  /\ UNCHANGED <<compared, statuses>>

(* A file is read and given its role; one that could not be fetched is a       *)
(* technical failure and leaves no document.                                  *)
TakeRoute ==
  /\ stage = "READY"
  /\ \E files \in SeqOf(Files, MaxAttachments), technical \in {"NONE", "ATTACHMENT_READ_FAILED"} :
       LET docs == [i \in DOMAIN files |-> Classified(files[i])]
       IN  /\ question' = [docs |-> docs, technical |-> technical]
           /\ answer' = Route(docs, technical)
  /\ stage' = "MATERIALIZED"
  /\ UNCHANGED <<compared, statuses>>

(* A document is read, and the AI escalation decides about any of its fields. *)
TakeFields ==
  /\ stage = "EXTRACTING"
  /\ \E document \in Documents, decided \in Escalated :
       LET extracted == Extract(document)
       IN  /\ question' = document
           /\ answer' = [f \in FieldNames |-> Overlaid(extracted[f], decided)]
  /\ stage' = "OVERLAID"
  /\ UNCHANGED <<compared, statuses>>

CompareNext ==
  /\ stage = "EXTRACTED" /\ compared < Len(Fields!CanonicalFields)
  /\ LET kind == Fields!CanonicalFields[compared + 1]
     IN  \E si, bl \in Sides[kind], opinion \in Opinions :
           /\ question' = [kind |-> kind, si |-> si, bl |-> bl, opinion |-> opinion]
           /\ answer' = Fields!CompareField(kind, si, bl, opinion)
  /\ compared' = compared + 1 /\ statuses' = statuses \cup {answer'}
  /\ stage' = "COMPARED"

Conclude ==
  /\ stage = "EXTRACTED" /\ compared = Len(Fields!CanonicalFields)
  /\ question' = statuses
  /\ answer' = Fields!Batch(statuses)
  /\ stage' = "CONCLUDED"
  /\ UNCHANGED <<compared, statuses>>

(* The pipeline goes on with the decision, not with what it was taken on;     *)
(* with any other decision the e-mail stays where it is.                      *)
Proceed ==
  /\ \/ stage = "CLASSIFIED" /\ answer.category = Comparison /\ stage' = "COMPARISON_ASKED"
     \/ stage = "ASSESSED" /\ answer = "READY_FOR_COMPARISON" /\ stage' = "READY"
     \/ stage = "MATERIALIZED" /\ answer.status = "EXTRACTING" /\ stage' = "EXTRACTING"
     \/ stage = "OVERLAID" /\ stage' = "EXTRACTED"
     \/ stage = "COMPARED" /\ stage' = "EXTRACTED"
  /\ question' = "NONE" /\ answer' = "NONE"
  /\ UNCHANGED <<compared, statuses>>

Next == TakeCategory \/ TakeReadiness \/ TakeRoute \/ TakeFields \/ CompareNext \/ Conclude \/ Proceed

Spec == Init /\ [][Next]_vars
-----------------------------------------------------------------------------
(***************************************************************************)
(* The names of the attachments never decide the category of an e-mail: it   *)
(* is the one it would have without them, at whichever stage it is resolved  *)
(* (classification/stage1.py:77 "can only reinforce, never solely            *)
(* determine, a category").                                                  *)
(***************************************************************************)
WithoutNames(mail) == [mail EXCEPT !.names = [c \in Categories |-> 0]]

FilenamesNeverDecide ==
  stage = "CLASSIFIED" =>
    answer.category = Classify(WithoutNames(question), Table).category

(***************************************************************************)
(* The order in which things happen to be listed decides nothing: neither    *)
(* the order of the categories in the signal table (classification/stage2.py *)
(* "rather than incidental map order") nor that of the attachments, nor      *)
(* which document is written on the left, port names apart, whose            *)
(* similarity ratio is not symmetric.                                        *)
(***************************************************************************)
Tables == {t \in [DOMAIN Table -> Categories] : ToSet(t) = Categories}

Swapped(s, i, j) == [s EXCEPT ![i] = s[j], ![j] = s[i]]

OrderNeverDecides ==
  /\ stage = "CLASSIFIED" =>
       \A table \in Tables : Classify(question, table).category = answer.category
  /\ stage = "MATERIALIZED" =>
       \A i, j \in DOMAIN question.docs :
         Route(Swapped(question.docs, i, j), question.technical) = answer
  /\ stage = "COMPARED" /\ question.kind # "PORT" =>
       Fields!CompareField(question.kind, question.bl, question.si, question.opinion) = answer

(***************************************************************************)
(* Every value the document gives a label is a candidate, wherever it stands, *)
(* and nothing else is: a field is missing when there is none, has the value   *)
(* they agree on, and is left to the AI escalation only when they disagree or  *)
(* none is readable.  The values are named without the order of the scan.      *)
(***************************************************************************)
BeginsBlock(lines, i, j, f) ==
  /\ i < j
  /\ \A k \in i + 1 .. j : Continues(lines[k])
  /\ \/ f \in Followed /\ j = i + 1
     \/ f \in Blocks /\ (j = Len(lines) \/ ~Continues(lines[j + 1]))

SaidInLines(lines, role, f) ==
  LET labels == {i \in DOMAIN lines : FieldOf(lines[i], role) = f}
      own    == {i \in labels : lines[i].text # <<>>}
      blocks == {b \in (labels \ own) \X (DOMAIN lines) : BeginsBlock(lines, b[1], b[2], f)}
  IN  {<<lines[i].text>> : i \in own}
      \cup {[k \in 1 .. b[2] - b[1] |-> Whole(lines[b[1] + k])] : b \in blocks}

SaidInTable(table, f) ==
  LET headers == {r \in DOMAIN table : IsHeader(table, r)}
      rows    == {r \in DOMAIN table \ headers : Len(table[r]) >= 2 /\ r - 1 \notin headers}
      ColumnsOf(r) == {c \in DOMAIN table[r] : MapLabel(table[r][c], FALSE) = f}
  IN  (UNION {{<<<<table[r + 1][c]>>>> : c \in ColumnsOf(r)} : r \in headers})
      \cup {<<Tail(table[r])>> : r \in {r \in rows : 1 \in ColumnsOf(r)}}

Said(document, f) ==
  UNION ({SaidInTable(document.tables[t], f) : t \in DOMAIN document.tables}
         \cup {SaidInLines(document.pages[p], document.role, f) : p \in DOMAIN document.pages})

HeadersApart(document) ==
  \A t \in DOMAIN document.tables : \A r \in DOMAIN document.tables[t] \ {1} :
    ~(IsHeader(document.tables[t], r - 1) /\ IsHeader(document.tables[t], r))

EvidenceDecides ==
  stage = "OVERLAID" /\ HeadersApart(question) =>
    \A f \in FieldNames :
      LET said  == Said(question, f)
          known == {Canonical(f, v) : v \in said} \ {Unknown}
      IN  CASE said = {} -> answer[f] = Field("MISSING", Unknown)
            [] Cardinality(known) = 1 -> answer[f] \in {Field("RESOLVED", v) : v \in known}
            [] OTHER -> answer[f] \in {Field("RESOLVED", v) : v \in Escalated \ {Unknown}}
                                  \cup {Field(IF known = {} THEN "UNRESOLVED" ELSE "AMBIGUOUS", Unknown)}

(***************************************************************************)
(* A configured label of a field is not the value of another one             *)
(* (implement.md:421: "XLSX key/value or header/value tables").               *)
(***************************************************************************)
LabelsAreNoValues ==
  stage = "OVERLAID" =>
    \A t \in DOMAIN question.tables : \A c \in ToSet(Candidates(question)) :
      ~\E label \in DOMAIN Dictionary : c.value = <<<<label>>>>

(***************************************************************************)
(* "To the order of" names the consignee in a draft Bill of Lading only       *)
(* (docs/requirements_matrix.md:69, MAP-03: "maps to consignee only in the    *)
(* negotiable-B/L consignee/order context").                                 *)
(***************************************************************************)
OrderOnlyInDraft ==
  stage = "OVERLAID" =>
    \A p \in DOMAIN question.pages : \A i \in DOMAIN question.pages[p] :
      question.pages[p][i].kind = "ORDER" /\ question.role # "DRAFT_BL"
        => FieldOf(question.pages[p][i], question.role) # "consignee"

(***************************************************************************)
(* Two port names the registry approves are judged by their ports alone,      *)
(* whatever codes stand beside them, however similar they are, and whatever   *)
(* a resolver would say (docs/requirements_matrix.md:81).                     *)
(***************************************************************************)
ApprovedPortsDecide ==
  /\ stage = "COMPARED" /\ question.kind = "PORT"
  /\ question.si.resolved /\ question.bl.resolved
  /\ NoPort \notin {Approved[question.si.value.name], Approved[question.bl.value.name]}
  => answer = IF Approved[question.si.value.name] = Approved[question.bl.value.name]
              THEN "MATCH" ELSE "MISMATCH"

(***************************************************************************)
(* What docs/requirements_matrix.md:81 says of ports: "case/whitespace +     *)
(* APPROVED alias/code dictionary only; no similarity-based equivalence".    *)
(* The resolver apart, two ports match only if they are written alike or the *)
(* dictionary has them as one port.                                          *)
(***************************************************************************)
OnlyApprovedPortsMatch ==
  stage = "COMPARED" /\ question.kind = "PORT" /\ question.opinion # "EQUIVALENT"
    /\ answer = "MATCH" =>
    LET si == question.si.value
        bl == question.bl.value
    IN  si.name = bl.name \/ (Fields!PortOf(si) = Fields!PortOf(bl) /\ Fields!PortOf(si) # NoPort)

(***************************************************************************)
(* An approved code both documents name does not make their ports equal when  *)
(* one of the names is an approved name of another port (comparison/l1.py:241 *)
(* "If LOCODEs match and neither name conflicts with approved names of other  *)
(* ports").                                                                  *)
(***************************************************************************)
CodeRespectsNames ==
  stage = "COMPARED" /\ question.kind = "PORT" /\ answer = "MATCH" =>
    LET si == question.si.value
        bl == question.bl.value
    IN  si.name # bl.name /\ Fields!SameCode(si, bl) /\ Approved[si.code] # NoPort =>
          {Approved[si.name], Approved[bl.name]} \subseteq {NoPort, Approved[si.code]}
          \/ Approved[si.name] = Approved[bl.name]
=============================================================================
