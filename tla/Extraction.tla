----------------------------- MODULE Extraction -----------------------------
(***************************************************************************)
(* How the seven fields are read from a document (extraction/extractor.py,   *)
(* extraction/label_mapping.py) and completed by the AI escalation for one   *)
(* comparison (resolution/integration.py).  Operators only.                  *)
(*                                                                         *)
(* A text is a sequence of words, a value a sequence of texts, one for each  *)
(* of its lines.  A line is [kind, label, text]:                             *)
(*   PAIR   "Label: text", the text perhaps empty                            *)
(*   ORDER  "To the order of text"                                           *)
(*   ALONE  any other text, kept as label, since it may be one               *)
(*   BLANK                                                                   *)
(* A table is a sequence of rows of cells.  Where a value stands in the      *)
(* document, the confidence and the evidence kept with it are left out; so   *)
(* is the removal of repeated candidates, which changes no result.           *)
(***************************************************************************)
EXTENDS Naturals, Sequences, SequencesExt, FiniteSets, FiniteSetsExt

CONSTANTS
  FieldNames, NoField,
  Blocks,        \* fields that may take a block of lines: the parties
  Followed,      \* fields that may take one line: the ports
  Counts,        \* fields with a number
  Dictionary,    \* the fields that have a configured label, per label
  NonGross,      \* labels of net and tare weights
  Placeholders,  \* texts that stand for no value
  Reads,         \* the number a text is read as, where it is one
  Unknown        \* no canonical value

ASSUME ExtractionAssumption ==
  /\ "consignee" \in FieldNames /\ NoField \notin FieldNames
  /\ Blocks \cup Followed \cup Counts \subseteq FieldNames /\ Blocks \cap Followed = {}

(* ordered: a draft Bill of Lading says "to the order of". *)
MapLabel(label, ordered) ==
  IF label \in NonGross THEN NoField
  ELSE IF ordered THEN "consignee"
  ELSE IF label \in DOMAIN Dictionary /\ Cardinality(Dictionary[label]) = 1
    THEN CHOOSE f \in Dictionary[label] : TRUE
  ELSE NoField
----------------------------------------------------------------------------
FieldOf(line, role) ==
  IF line.kind = "BLANK" THEN NoField
  ELSE MapLabel(line.label, line.kind = "ORDER" /\ role = "DRAFT_BL")

Continues(line) ==
  line.kind \in {"PAIR", "ALONE"} /\ MapLabel(line.label, FALSE) = NoField

(* The last line of what the label in line i begins. *)
LastLine(lines, i, field) ==
  LET reach == CASE field \in Blocks   -> Len(lines)
                 [] field \in Followed -> Min({i + 1, Len(lines)})
                 [] OTHER              -> i
  IN  IF lines[i].text # <<>> THEN i
      ELSE Max({j \in i .. reach : \A k \in i + 1 .. j : Continues(lines[k])})

Whole(line) == <<line.label>> \o line.text

ValueAt(lines, i, last) ==
  IF lines[i].text # <<>> THEN <<lines[i].text>>
  ELSE [k \in 1 .. last - i |-> Whole(lines[i + k])]

ScanPage(lines, role) ==
  LET From[i \in 1 .. Len(lines) + 1] ==
        IF i > Len(lines) THEN <<>>
        ELSE LET field == FieldOf(lines[i], role)
                 last  == LastLine(lines, i, field)
                 value == ValueAt(lines, i, last)
             IN  (IF field = NoField \/ value = <<>> THEN <<>>
                  ELSE <<[field |-> field, value |-> value]>>)
                 \o From[last + 1]
  IN  From[1]
----------------------------------------------------------------------------
LabelsIn(row) == {c \in DOMAIN row : MapLabel(row[c], FALSE) # NoField}

IsHeader(table, r) ==
  /\ Cardinality(LabelsIn(table[r])) >= 2
  /\ r < Len(table) /\ Len(table[r + 1]) >= Len(table[r])

Below(header, values) ==
  FlattenSeq([c \in DOMAIN header |->
    IF c \in LabelsIn(header)
    THEN <<[field |-> MapLabel(header[c], FALSE), value |-> <<<<values[c]>>>>]>> ELSE <<>>])

Beside(row) ==
  IF Len(row) >= 2 /\ 1 \in LabelsIn(row)
  THEN <<[field |-> MapLabel(row[1], FALSE), value |-> <<Tail(row)>>]>> ELSE <<>>

(* A header row and the row below it are taken together. *)
ScanTable(table) ==
  LET From[r \in 1 .. Len(table) + 1] ==
        IF r > Len(table) THEN <<>>
        ELSE IF IsHeader(table, r) THEN Below(table[r], table[r + 1]) \o From[r + 2]
        ELSE Beside(table[r]) \o From[r + 1]
  IN  From[1]

(* The readers of tables also give each row as a line of text. *)
AsLine(row) ==
  [kind |-> IF Len(row) >= 2 THEN "PAIR" ELSE "ALONE", label |-> row[1], text |-> Tail(row)]

Sheet(role, table) ==
  [role |-> role, tables |-> <<table>>, pages |-> <<[r \in DOMAIN table |-> AsLine(table[r])]>>]
----------------------------------------------------------------------------
Canonical(field, value) ==
  IF value \in {<<text>> : text \in Placeholders} THEN Unknown
  ELSE IF field \notin Counts THEN value
  ELSE IF value[1] \in DOMAIN Reads THEN Reads[value[1]] ELSE Unknown

Listed(s) == s \in Seq(ToSet(s))

IsDocument(document) ==
  /\ Listed(document.tables) /\ Listed(document.pages)
  /\ \A t \in DOMAIN document.tables :
       Listed(document.tables[t]) /\ \A r \in DOMAIN document.tables[t] : Listed(document.tables[t][r])
  /\ \A p \in DOMAIN document.pages : Listed(document.pages[p])

Candidates(document) ==
  FlattenSeq([t \in DOMAIN document.tables |-> ScanTable(document.tables[t])])
  \o FlattenSeq([p \in DOMAIN document.pages |-> ScanPage(document.pages[p], document.role)])

Field(status, value) == [status |-> status, value |-> value]

(* Fault: the first readable candidate is taken, others that contradict it    *)
(* are not looked at.                                                         *)
ResolveFirst(field, values) ==
  LET known == {i \in DOMAIN values : Canonical(field, values[i]) # Unknown}
  IN  CASE DOMAIN values = {} -> Field("MISSING", Unknown)
        [] DOMAIN values # {} /\ known = {} -> Field("UNRESOLVED", Unknown)
        [] OTHER -> Field("RESOLVED", Canonical(field, values[Min(known)]))

(* values: those of the candidates of the field, by their place among all.     *)
Resolve(field, values) ==
  LET known == {Canonical(field, values[i]) : i \in DOMAIN values} \ {Unknown}
  IN  CASE DOMAIN values = {} -> Field("MISSING", Unknown)
        [] DOMAIN values # {} /\ known = {} -> Field("UNRESOLVED", Unknown)
        [] Cardinality(known) = 1 -> Field("RESOLVED", CHOOSE v \in known : TRUE)
        [] Cardinality(known) > 1 -> Field("AMBIGUOUS", Unknown)

Extract(document) ==
  LET found == Candidates(document)
      ValuesOf(f) == [i \in {i \in DOMAIN found : found[i].field = f} |-> found[i].value]
  IN  [f \in FieldNames |-> Resolve(f, ValuesOf(f))]
----------------------------------------------------------------------------
(* decided: the value of an accepted decision, else Unknown. *)
Overlaid(extracted, decided) ==
  IF extracted.status \in {"UNRESOLVED", "AMBIGUOUS"} /\ decided # Unknown
  THEN Field("RESOLVED", decided) ELSE extracted
=============================================================================
