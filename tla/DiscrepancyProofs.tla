------------------------- MODULE DiscrepancyProofs -------------------------
(***************************************************************************)
(* Theorems about the corrections of DiscrepancyWorkflow, for any fields,   *)
(* values, extractions and bounds.                                          *)
(***************************************************************************)
EXTENDS DiscrepancyWorkflow, FiniteSetTheorems, SequenceTheorems, TLAPS

(* What a comparison was made of can still be read from its corrections. *)
ValueIsOverlay ==
  \A i \in DOMAIN comparisons :
    IF comparisons[i].kind = "BASE" THEN comparisons[i].used = {}
    ELSE comparisons[i].value = Overlay(overrides, comparisons[i].used)

(* Corrections move forward: those a re-comparison rests on belong to it or   *)
(* to a later one.                                                           *)
OwnersMoveOn ==
  \A i \in DOMAIN comparisons :
    comparisons[i].kind = "DISCREPANCY" =>
      \A o \in comparisons[i].used : overrides[o].owner >= i

(* Every cell the latest comparison corrects has an active correction of it. *)
LatestCovered ==
  comparisons[Latest].kind = "DISCREPANCY" =>
    \A o \in comparisons[Latest].used :
      \E p \in Active(overrides, Latest) : overrides[p].cell = overrides[o].cell

CorrectionsInv == OneActivePerCell /\ ValueIsOverlay /\ OwnersMoveOn /\ LatestCovered

Applied(k) == suggestions[k].status \in {"ACCEPTED", "EDITED_APPLIED"}

Applications(k) == {o \in DOMAIN overrides : overrides[o].suggestion = k}

SuggestionsInv ==
  \A k \in DOMAIN suggestions :
    IF Applied(k) THEN \E o \in DOMAIN overrides : Applications(k) = {o} ELSE Applications(k) = {}
----------------------------------------------------------------------------
(* Operator lemmas: the corrections after one is added, and after some move. *)

(* Rows that keep what every correction in them says. *)
Extend(rows) ==
  /\ rows \in Seq(Overrides)
  /\ DOMAIN overrides \subseteq DOMAIN rows
  /\ \A o \in DOMAIN overrides :
       /\ rows[o].cell = overrides[o].cell /\ rows[o].value = overrides[o].value
       /\ rows[o].suggestion = overrides[o].suggestion

LEMMA SameLengthSeq ==
  ASSUME NEW S, NEW n \in Nat, NEW f \in [1 .. n -> S]
  PROVE  f \in Seq(S) /\ Len(f) = n
BY SeqDef

LEMMA OverrideRows ==
  ASSUME TypeOK
  PROVE  /\ Len(overrides) \in Nat /\ DOMAIN overrides = 1 .. Len(overrides)
         /\ \A o \in DOMAIN overrides : overrides[o] \in Overrides
BY DEF TypeOK

(* One correction more, and the one it supersedes no longer active. *)
Added(rows, owner, cell, value, k) ==
  LET new == Len(overrides) + 1
  IN  /\ Extend(rows)
      /\ DOMAIN rows = DOMAIN overrides \cup {new} /\ new \notin DOMAIN overrides
      /\ \A o \in DOMAIN overrides :
           /\ rows[o].owner = overrides[o].owner
           /\ rows[o].active <=>
                overrides[o].active /\ ~(overrides[o].owner = owner /\ overrides[o].cell = cell)
      /\ rows[new] = [owner |-> owner, cell |-> cell, value |-> value, active |-> TRUE,
                      suggestion |-> k]

LEMMA SupersedingRows ==
  ASSUME TypeOK, NEW owner \in Nat, NEW cell \in Correctable, NEW value \in Values,
         NEW k \in Nat
  PROVE  Added(Superseding(owner, cell, value, k), owner, cell, value, k)
<1> DEFINE n == Len(overrides)
           new == [owner |-> owner, cell |-> cell, value |-> value, active |-> TRUE, suggestion |-> k]
           old == [o \in DOMAIN overrides |->
                     IF o \in Active(overrides, owner) /\ overrides[o].cell = cell
                     THEN [overrides[o] EXCEPT !.active = FALSE] ELSE overrides[o]]
           rows == Append(old, new)
<1>1. n \in Nat /\ DOMAIN overrides = 1 .. n /\ \A o \in 1 .. n : overrides[o] \in Overrides
  BY OverrideRows
<1>2. new \in Overrides
  BY DEF Overrides
<1>3. ASSUME NEW o \in 1 .. n
      PROVE  /\ old[o] \in Overrides
             /\ old[o].owner = overrides[o].owner /\ old[o].cell = overrides[o].cell
             /\ old[o].value = overrides[o].value /\ old[o].suggestion = overrides[o].suggestion
             /\ old[o].active <=>
                  overrides[o].active /\ ~(overrides[o].owner = owner /\ overrides[o].cell = cell)
  <2>1. overrides[o] \in Overrides
    BY <1>1
  <2>2. CASE o \in Active(overrides, owner) /\ overrides[o].cell = cell
    <3>1. old[o] = [overrides[o] EXCEPT !.active = FALSE]
      BY <1>1, <2>2
    <3> QED
      BY <2>1, <2>2, <3>1 DEF Overrides, Active
  <2>3. CASE ~(o \in Active(overrides, owner) /\ overrides[o].cell = cell)
    <3>1. old[o] = overrides[o]
      BY <1>1, <2>3
    <3> QED
      BY <1>1, <2>1, <2>3, <3>1 DEF Active
  <2> QED
    BY <2>2, <2>3
<1> HIDE DEF new
<1>4. old \in [1 .. n -> Overrides]
  BY <1>1, <1>3
<1> HIDE DEF old
<1>5. old \in Seq(Overrides) /\ Len(old) = n
  BY <1>1, <1>4, SameLengthSeq
<1>6. /\ rows \in Seq(Overrides) /\ DOMAIN rows = 1 .. n + 1 /\ rows[n + 1] = new
      /\ \A o \in 1 .. n : rows[o] = old[o]
  BY <1>1, <1>2, <1>5
<1>7. rows = Superseding(owner, cell, value, k)
  BY DEF Superseding, old, new
<1> HIDE DEF rows
<1>8. Extend(rows)
  BY <1>1, <1>3, <1>6 DEF Extend
<1> QED
  BY <1>1, <1>3, <1>6, <1>7, <1>8 DEF new, Added

(* The corrections in used belong to row, the others to whom they did. *)
MovedTo(rows, used, row) ==
  /\ Extend(rows) /\ DOMAIN rows = DOMAIN overrides
  /\ \A o \in DOMAIN overrides :
       /\ rows[o].owner = IF o \in used THEN row ELSE overrides[o].owner
       /\ rows[o].active <=> overrides[o].active

LEMMA MovedRows ==
  ASSUME TypeOK, NEW used \in SUBSET DOMAIN overrides, NEW row \in Nat
  PROVE  MovedTo(Moved(used, row), used, row)
<1> DEFINE rows == Moved(used, row)
<1>1. /\ Len(overrides) \in Nat /\ DOMAIN overrides = 1 .. Len(overrides)
      /\ \A o \in DOMAIN overrides : overrides[o] \in Overrides
  BY OverrideRows
<1>2. ASSUME NEW o \in DOMAIN overrides
      PROVE  /\ rows[o] \in Overrides /\ rows[o].cell = overrides[o].cell
             /\ rows[o].value = overrides[o].value /\ rows[o].suggestion = overrides[o].suggestion
             /\ rows[o].owner = IF o \in used THEN row ELSE overrides[o].owner
             /\ rows[o].active <=> overrides[o].active
  <2>1. rows[o] = IF o \in used THEN [overrides[o] EXCEPT !.owner = row] ELSE overrides[o]
    BY DEF Moved
  <2> QED
    BY <1>1, <2>1 DEF Overrides
<1>3. rows \in [1 .. Len(overrides) -> Overrides]
  BY <1>1, <1>2 DEF Moved
<1> HIDE DEF rows
<1>4. rows \in Seq(Overrides) /\ DOMAIN rows = DOMAIN overrides
  BY <1>1, <1>3, SameLengthSeq
<1> QED
  BY <1>2, <1>4 DEF Extend, MovedTo, rows

(* The overlay reads of the corrections only what Extend keeps. *)
LEMMA OverlayKept ==
  ASSUME NEW rows, Extend(rows), NEW used \in SUBSET DOMAIN overrides
  PROVE  Overlay(rows, used) = Overlay(overrides, used)
<1>1. CorrectedIn(rows, used) = CorrectedIn(overrides, used)
  BY DEF CorrectedIn, Extend
<1>2. ASSUME NEW c \in Cells
      PROVE  Correcting(rows, used, c) = Correcting(overrides, used, c)
  BY DEF Correcting, Extend
<1>3. ASSUME NEW c \in CorrectedIn(overrides, used)
      PROVE  (CHOOSE o \in Correcting(overrides, used, c) : TRUE) \in DOMAIN overrides
  BY DEF Correcting, CorrectedIn
<1> QED
  BY <1>1, <1>2, <1>3 DEF Overlay, Extend

LEMMA OverlayType ==
  ASSUME TypeOK, NEW rows \in Seq(Overrides), NEW used \in SUBSET DOMAIN rows
  PROVE  Overlay(rows, used) \in [Cells -> Values \union {Unknown}]
<1>1. extracted \in [Cells -> Values \union {Unknown}]
  BY DiscrepancyAssumption DEF TypeOK
<1>2. ASSUME NEW c \in CorrectedIn(rows, used)
      PROVE  rows[CHOOSE o \in Correcting(rows, used, c) : TRUE].value \in Values
  <2>1. (CHOOSE o \in Correcting(rows, used, c) : TRUE) \in DOMAIN rows
    BY DEF Correcting, CorrectedIn
  <2>2. \A o \in DOMAIN rows : rows[o] \in Overrides
    OBVIOUS
  <2> QED
    BY <2>1, <2>2 DEF Overrides
<1> QED
  BY <1>1, <1>2 DEF Overlay

LEMMA ComparisonRows ==
  ASSUME TypeOK
  PROVE  /\ Latest \in Nat \ {0} /\ DOMAIN comparisons = 1 .. Latest
         /\ \A i \in 1 .. Latest : comparisons[i] \in Comparisons
BY DEF TypeOK, Latest

LEMMA SuggestionRows ==
  ASSUME TypeOK
  PROVE  /\ Len(suggestions) \in Nat /\ DOMAIN suggestions = 1 .. Len(suggestions)
         /\ \A k \in DOMAIN suggestions : suggestions[k] \in Suggestions
BY DEF TypeOK

(* A re-comparison gets the row of its version, or the next one. *)
LEMMA RowOfVersion ==
  ASSUME TypeOK, NEW kind, NEW source, NEW used
  PROVE  LET row == RowOf(kind, source, used)
         IN  /\ row \in 1 .. Latest + 1
             /\ row <= Latest => Same(comparisons[row], kind, source, used)
<1> DEFINE same == {i \in DOMAIN comparisons : Same(comparisons[i], kind, source, used)}
<1>1. CASE same = {}
  BY <1>1, ComparisonRows DEF RowOf
<1>2. CASE same # {}
  <2>1. RowOf(kind, source, used) \in same
    BY <1>2 DEF RowOf
  <2> QED
    BY <2>1, ComparisonRows
<1> QED
  BY <1>1, <1>2

StoredAt(rows, row, record) ==
  /\ rows \in Seq(Comparisons) /\ DOMAIN rows = DOMAIN comparisons \cup {row}
  /\ Len(rows) = IF row > Latest THEN Latest + 1 ELSE Latest
  /\ rows[row] = record
  /\ \A i \in DOMAIN comparisons \ {row} : rows[i] = comparisons[i]

LEMMA StoredRows ==
  ASSUME TypeOK, NEW row \in 1 .. Latest + 1, NEW record \in Comparisons
  PROVE  StoredAt(Stored(row, record), row, record)
<1>1. comparisons \in Seq(Comparisons) /\ Latest \in Nat /\ DOMAIN comparisons = 1 .. Latest
  BY ComparisonRows DEF TypeOK
<1>2. CASE row > Latest
  BY <1>1, <1>2 DEF Stored, StoredAt, Latest
<1>3. CASE row <= Latest
  <2>1. Stored(row, record) = [comparisons EXCEPT ![row] = record]
    BY <1>1, <1>3 DEF Stored
  <2>2. row \in 1 .. Len(comparisons)
    BY <1>1, <1>3 DEF Latest
  <2>3. /\ [comparisons EXCEPT ![row] = record] \in Seq(Comparisons)
        /\ Len([comparisons EXCEPT ![row] = record]) = Len(comparisons)
        /\ \A i \in 1 .. Len(comparisons) :
             [comparisons EXCEPT ![row] = record][i] = IF i = row THEN record ELSE comparisons[i]
    BY <1>1, <2>2, ExceptSeq
  <2> DEFINE rows == [comparisons EXCEPT ![row] = record]
  <2>4. DOMAIN rows = DOMAIN comparisons /\ row \in DOMAIN comparisons /\ ~(row > Latest)
    BY <1>1, <1>3
  <2>5. rows[row] = record /\ \A i \in DOMAIN comparisons \ {row} : rows[i] = comparisons[i]
    BY <2>4
  <2>6. DOMAIN rows = DOMAIN comparisons \cup {row}
    BY <2>4
  <2> HIDE DEF rows
  <2> QED
    BY <2>1, <2>3, <2>4, <2>5, <2>6 DEF Latest, StoredAt, rows
<1> QED
  BY <1>1, <1>2, <1>3
----------------------------------------------------------------------------
(* What the operations may do to the corrections and to the comparisons. *)

Superseded ==
  \/ overrides' = overrides
  \/ \E owner \in 0 .. Latest, c \in Correctable, v \in Values, k \in 0 .. Len(suggestions) :
       overrides' = Superseding(owner, c, v, k)

(* Only statuses change, or one comparison is stored. *)
StatusSet ==
  \E i \in DOMAIN comparisons, status \in {"ACKNOWLEDGED", "RESOLVED"} :
    comparisons' = [comparisons EXCEPT ![i].status = status]

LEMMA SupersededExtends ==
  ASSUME TypeOK, Superseded
  PROVE  Extend(overrides')
<1>1. CASE overrides' = overrides
  BY <1>1 DEF Extend, TypeOK
<1>2. ASSUME NEW owner \in 0 .. Latest, NEW c \in Correctable, NEW v \in Values,
             NEW k \in 0 .. Len(suggestions), overrides' = Superseding(owner, c, v, k)
      PROVE  Extend(overrides')
  <2>1. owner \in Nat /\ k \in Nat
    OBVIOUS
  <2>2. Added(overrides', owner, c, v, k)
    BY <1>2, <2>1, SupersedingRows
  <2> QED
    BY <2>2 DEF Added
<1> QED
  BY <1>1, <1>2 DEF Superseded

LEMMA SupersededRows ==
  ASSUME TypeOK, Superseded, Latest' >= Latest, Len(suggestions)' >= Len(suggestions),
         Latest' \in Nat, Len(suggestions)' \in Nat
  PROVE  /\ Extend(overrides')
         /\ \A o \in DOMAIN overrides' :
              overrides'[o].owner <= Latest' /\ overrides'[o].suggestion <= Len(suggestions)'
<1>1. /\ Len(suggestions) \in Nat /\ Latest \in Nat
      /\ \A o \in DOMAIN overrides :
           /\ overrides[o] \in Overrides
           /\ overrides[o].owner <= Latest /\ overrides[o].suggestion <= Len(suggestions)
  BY ComparisonRows, OverrideRows DEF TypeOK
<1>2. CASE overrides' = overrides
  BY <1>1, <1>2 DEF Extend, TypeOK, Overrides
<1>3. ASSUME NEW owner \in 0 .. Latest, NEW c \in Correctable, NEW v \in Values,
             NEW k \in 0 .. Len(suggestions), overrides' = Superseding(owner, c, v, k)
      PROVE  /\ Extend(overrides')
             /\ \A o \in DOMAIN overrides' :
                  overrides'[o].owner <= Latest' /\ overrides'[o].suggestion <= Len(suggestions)'
  <2> DEFINE new == Len(overrides) + 1
  <2>1. owner \in Nat /\ k \in Nat
    OBVIOUS
  <2>2. /\ Extend(overrides') /\ DOMAIN overrides' = DOMAIN overrides \cup {new}
        /\ \A o \in DOMAIN overrides : overrides'[o].owner = overrides[o].owner
        /\ overrides'[new].owner = owner /\ overrides'[new].suggestion = k
    <3>1. Added(overrides', owner, c, v, k)
      BY <1>3, <2>1, SupersedingRows
    <3> QED
      BY <3>1 DEF Added
  <2>3. \A o \in DOMAIN overrides : overrides'[o].suggestion = overrides[o].suggestion
    BY <2>2 DEF Extend
  <2>4. ASSUME NEW o \in DOMAIN overrides
        PROVE  overrides'[o].owner <= Latest' /\ overrides'[o].suggestion <= Len(suggestions)'
    <3>1. overrides[o].owner \in Nat /\ overrides[o].suggestion \in Nat
      BY <1>1 DEF Overrides
    <3> QED
      BY <1>1, <2>2, <2>3, <3>1
  <2>5. overrides'[new].owner <= Latest' /\ overrides'[new].suggestion <= Len(suggestions)'
    BY <1>1, <2>2
  <2> QED
    BY <2>2, <2>4, <2>5
<1> QED
  BY <1>2, <1>3 DEF Superseded

(* A comparison of the values corrected by used is stored in row. *)
ComparedAs(row, kind, source, used) ==
  /\ row \in 1 .. Latest + 1 /\ source < row
  /\ row <= Latest => Same(comparisons[row], kind, source, used)
  /\ used \subseteq DOMAIN overrides'
  /\ StoredAt(comparisons', row, comparisons'[row])
  /\ comparisons'[row].kind = kind /\ comparisons'[row].source = source
  /\ comparisons'[row].used = used /\ comparisons'[row].value = Overlay(overrides', used)

(* The row of a version comes after what it re-compares. *)
LEMMA RowFollowsSource ==
  ASSUME TypeOK, NEW kind, NEW source \in 0 .. Latest, NEW used
  PROVE  source < RowOf(kind, source, used)
<1> DEFINE row == RowOf(kind, source, used)
<1>1. row \in 1 .. Latest + 1 /\ (row <= Latest => Same(comparisons[row], kind, source, used))
  BY RowOfVersion
<1> HIDE DEF row
<1>2. Latest \in Nat /\ DOMAIN comparisons = 1 .. Latest
  BY ComparisonRows
<1>3. ASSUME row <= Latest PROVE source < row
  <2>1. comparisons[row].source < row
    BY <1>1, <1>2, <1>3 DEF TypeOK
  <2> QED
    BY <1>1, <1>3, <2>1 DEF Same
<1>4. row = Latest + 1 => source < row
  BY <1>2
<1>5. source < row
  BY <1>1, <1>2, <1>3, <1>4
<1> QED
  BY <1>5 DEF row

LEMMA RecompareStores ==
  ASSUME TypeOK, NEW i \in DOMAIN comparisons, Recompare(i)
  PROVE  LET used == Active(overrides, i)
             row  == RowOf("DISCREPANCY", i, used)
         IN  ComparedAs(row, "DISCREPANCY", i, used) /\ MovedTo(overrides', used, row)
<1> DEFINE used == Active(overrides, i)
           row == RowOf("DISCREPANCY", i, used)
           value == Overlay(overrides, used)
           record == [kind |-> "DISCREPANCY", source |-> i, used |-> used, value |-> value,
                      status |-> IF Mismatched(value) # {} THEN "OPEN" ELSE "NONE"]
<1>1. i \in 1 .. Latest /\ Latest \in Nat
  BY ComparisonRows
<1>2. used \in SUBSET DOMAIN overrides /\ overrides \in Seq(Overrides) /\ DOMAIN overrides \subseteq Nat
  BY OverrideRows DEF Active, TypeOK
<1>3. row \in 1 .. Latest + 1 /\ i < row /\ (row <= Latest => Same(comparisons[row], "DISCREPANCY", i, used))
  BY <1>1, RowOfVersion, RowFollowsSource
<1>4. value \in [Cells -> Values \union {Unknown}]
  BY <1>2, OverlayType
<1>5. comparisons' = Stored(row, record) /\ overrides' = Moved(used, row)
  BY DEF Recompare
<1> HIDE DEF used, row, value
<1>6. record \in Comparisons
  BY <1>1, <1>2, <1>4 DEF Comparisons
<1>7. StoredAt(comparisons', row, record) /\ MovedTo(overrides', used, row)
  <2>1. row \in Nat
    BY <1>1, <1>3
  <2> QED
    BY <1>2, <1>3, <1>5, <1>6, <2>1, StoredRows, MovedRows
<1>8. comparisons'[row] = record
  BY <1>7 DEF StoredAt
<1>9. Overlay(overrides', used) = value /\ used \subseteq DOMAIN overrides'
  BY <1>2, <1>7, OverlayKept DEF MovedTo, Extend, value
<1> QED
  BY <1>3, <1>7, <1>8, <1>9 DEF ComparedAs, used, row

LEMMA ReviewStores ==
  ASSUME TypeOK, ReviewedWith(overrides'), Extend(overrides')
  PROVE  LET used == Active(overrides', CaseOwner)
         IN  ComparedAs(RowOf("REVIEW", 1, used), "REVIEW", 1, used)
<1> DEFINE used == Active(overrides', CaseOwner)
           row == RowOf("REVIEW", 1, used)
           value == Overlay(overrides', used)
           record == [kind |-> "REVIEW", source |-> 1, used |-> used, value |-> value,
                      status |-> KeptOrOpen(value, StatusBefore(row))]
<1>1. 1 \in 0 .. Latest /\ Latest \in Nat
  BY ComparisonRows
<1>2. overrides' \in Seq(Overrides) /\ used \in SUBSET DOMAIN overrides' /\ DOMAIN overrides' \subseteq Nat
  BY DEF Active, Extend
<1>3. row \in 1 .. Latest + 1 /\ 1 < row /\ (row <= Latest => Same(comparisons[row], "REVIEW", 1, used))
  BY <1>1, RowOfVersion, RowFollowsSource
<1>4. value \in [Cells -> Values \union {Unknown}]
  BY <1>2, OverlayType
<1>5. comparisons' = Stored(row, record)
  BY DEF ReviewedWith
<1>6. KeptOrOpen(value, StatusBefore(row)) \in {"NONE", "OPEN", "ACKNOWLEDGED", "RESOLVED"}
  <2>1. StatusBefore(row) \in {"NONE", "OPEN", "ACKNOWLEDGED", "RESOLVED"}
    BY <1>3, ComparisonRows DEF StatusBefore, Comparisons
  <2> QED
    BY <2>1 DEF KeptOrOpen
<1> HIDE DEF used, row, value
<1>7. record \in Comparisons
  BY <1>1, <1>2, <1>4, <1>6 DEF Comparisons
<1>8. StoredAt(comparisons', row, record)
  BY <1>3, <1>5, <1>7, StoredRows
<1>9. comparisons'[row] = record
  BY <1>8 DEF StoredAt
<1> QED
  BY <1>2, <1>3, <1>8, <1>9 DEF ComparedAs, used, row, value

(* The operations, by what they do to the comparisons and the corrections. *)
LEMMA Operations ==
  ASSUME TypeOK, Next
  PROVE  /\ extracted' = extracted
         /\ \/ StatusSet /\ overrides' = overrides
            \/ comparisons' = comparisons /\ Superseded
            \/ \E i \in DOMAIN comparisons : Recompare(i)
            \/ ReviewedWith(overrides') /\ Superseded
<1> DEFINE Result == /\ extracted' = extracted
                     /\ \/ StatusSet /\ overrides' = overrides
                        \/ comparisons' = comparisons /\ Superseded
                        \/ \E i \in DOMAIN comparisons : Recompare(i)
                        \/ ReviewedWith(overrides') /\ Superseded
<1>1. ASSUME NEW i \in DOMAIN comparisons, Acknowledge(i) \/ Resolve(i) PROVE Result
  BY <1>1 DEF Acknowledge, Resolve, StatusSet
<1>2. ASSUME NEW i \in DOMAIN comparisons, NEW c \in Correctable, NEW v \in Values, AddOverride(i, c, v)
      PROVE  Result
  <2>1. i \in 0 .. Latest /\ 0 \in 0 .. Len(suggestions)
    BY ComparisonRows DEF TypeOK
  <2>2. Superseded
    BY <1>2, <2>1 DEF AddOverride, Superseded
  <2> QED
    BY <1>2, <2>2 DEF AddOverride
<1>3. ASSUME NEW i \in DOMAIN comparisons, Recompare(i) PROVE Result
  BY <1>3 DEF Recompare
<1>4. 0 \in 0 .. Latest /\ 0 \in 0 .. Len(suggestions)
  BY ComparisonRows DEF TypeOK
<1>5. ASSUME NEW c \in Correctable, NEW v \in Values, CorrectCase(c, v) PROVE Result
  <2>1. Superseded
    BY <1>4, <1>5 DEF CorrectCase, Superseded, CaseOwner
  <2> QED
    BY <1>5, <2>1 DEF CorrectCase
<1>6. CASE ResolveCase
  BY <1>6 DEF ResolveCase, ReviewedWith, Superseded
<1>7. CASE DismissCase
  BY <1>7 DEF DismissCase, Superseded
<1>8. ASSUME NEW c \in Correctable, NEW v \in Values, Ask(c, v) PROVE Result
  BY <1>8 DEF Ask, Superseded
<1>9. ASSUME NEW k \in DOMAIN suggestions, NEW v \in Values, NEW status, Apply(k, v, status)
      PROVE  Result
  <2>1. k \in 0 .. Len(suggestions) /\ suggestions[k].cell \in Correctable
    BY SuggestionRows DEF Suggestions
  <2>2. /\ overrides' = Superseding(CaseOwner, suggestions[k].cell, v, k)
        /\ ReviewedWith(overrides') /\ extracted' = extracted
    BY <1>9 DEF Apply, ReviewedWith
  <2>3. Superseded
    BY <1>4, <2>1, <2>2 DEF Superseded, CaseOwner
  <2> QED
    BY <2>2, <2>3
<1>10. ASSUME NEW k \in DOMAIN suggestions, AcceptSuggestion(k) PROVE Result
  <2>1. suggestions[k].value \in Values
    BY SuggestionRows DEF Suggestions
  <2> QED
    BY <1>9, <1>10, <2>1 DEF AcceptSuggestion
<1>11. ASSUME NEW k \in DOMAIN suggestions, NEW v \in Values, EditSuggestion(k, v) PROVE Result
  BY <1>9, <1>11 DEF EditSuggestion
<1>12. ASSUME NEW k \in DOMAIN suggestions, DismissSuggestion(k) PROVE Result
  BY <1>12 DEF DismissSuggestion, Superseded
<1> QED
  BY <1>1, <1>2, <1>3, <1>5, <1>6, <1>7, <1>8, <1>10, <1>11, <1>12 DEF Next

(* The comparisons after a step: as they were, or compared anew. *)
KeptComparison(i) ==
  /\ i \in DOMAIN comparisons
  /\ comparisons'[i].kind = comparisons[i].kind /\ comparisons'[i].source = comparisons[i].source
  /\ comparisons'[i].used = comparisons[i].used /\ comparisons'[i].value = comparisons[i].value

LEMMA StatusSetKeeps ==
  ASSUME TypeOK, StatusSet
  PROVE  /\ comparisons' \in Seq(Comparisons) /\ Latest' = Latest
         /\ \A j \in DOMAIN comparisons' : KeptComparison(j)
<1>1. PICK i \in DOMAIN comparisons, status \in {"ACKNOWLEDGED", "RESOLVED"} :
         comparisons' = [comparisons EXCEPT ![i].status = status]
  BY DEF StatusSet
<1> DEFINE row == [comparisons[i] EXCEPT !.status = status]
<1>2. comparisons \in Seq(Comparisons) /\ i \in 1 .. Len(comparisons) /\ comparisons[i] \in Comparisons
  BY DEF TypeOK
<1>3. /\ row \in Comparisons /\ row.kind = comparisons[i].kind /\ row.source = comparisons[i].source
      /\ row.used = comparisons[i].used /\ row.value = comparisons[i].value
  BY <1>2 DEF Comparisons
<1>4. comparisons' = [comparisons EXCEPT ![i] = row]
  BY <1>1
<1> HIDE DEF row
<1>5. /\ comparisons' \in Seq(Comparisons) /\ Len(comparisons') = Len(comparisons)
      /\ \A j \in 1 .. Len(comparisons) : comparisons'[j] = IF j = i THEN row ELSE comparisons[j]
  BY <1>2, <1>3, <1>4, ExceptSeq
<1>6. DOMAIN comparisons' = 1 .. Len(comparisons) /\ DOMAIN comparisons = 1 .. Len(comparisons)
  BY <1>2, <1>5
<1> QED
  BY <1>3, <1>5, <1>6 DEF KeptComparison, Latest

LEMMA ComparedKeeps ==
  ASSUME TypeOK, NEW row, NEW kind, NEW source, NEW used, ComparedAs(row, kind, source, used)
  PROVE  /\ comparisons' \in Seq(Comparisons) /\ Latest' = IF row > Latest THEN Latest + 1 ELSE Latest
         /\ \A j \in DOMAIN comparisons' : j = row \/ KeptComparison(j)
BY DEF ComparedAs, StoredAt, KeptComparison, Latest
----------------------------------------------------------------------------
(* Types *)

Statuses(e, k, c) ==
  /\ e \in {"COMPLETED", "BLOCKED"} /\ k \in {"NONE", "OPEN", "IN_REVIEW", "RESOLVED", "DISMISSED"}
  /\ c \in Seq(Suggestions) /\ Len(c) \in Nat /\ Len(c) >= Len(suggestions)

LEMMA DecidedRows ==
  ASSUME TypeOK, NEW k \in DOMAIN suggestions, NEW status \in {"ACCEPTED", "EDITED_APPLIED", "DISMISSED"},
         Decided(k, status)
  PROVE  /\ suggestions' \in Seq(Suggestions) /\ Len(suggestions') = Len(suggestions)
         /\ \A j \in DOMAIN suggestions :
              suggestions'[j].status = IF j = k THEN status ELSE suggestions[j].status
<1> DEFINE row == [suggestions[k] EXCEPT !.status = status]
<1>1. /\ suggestions \in Seq(Suggestions) /\ k \in 1 .. Len(suggestions)
      /\ DOMAIN suggestions = 1 .. Len(suggestions) /\ suggestions[k] \in Suggestions
  BY SuggestionRows DEF TypeOK
<1>2. row \in Suggestions /\ row.status = status
  BY <1>1 DEF Suggestions
<1>3. suggestions' = [suggestions EXCEPT ![k] = row]
  BY DEF Decided
<1> HIDE DEF row
<1>4. /\ suggestions' \in Seq(Suggestions) /\ Len(suggestions') = Len(suggestions)
      /\ \A j \in 1 .. Len(suggestions) : suggestions'[j] = IF j = k THEN row ELSE suggestions[j]
  BY <1>1, <1>2, <1>3, ExceptSeq
<1> QED
  BY <1>1, <1>2, <1>4

LEMMA NextKeepsStatuses ==
  ASSUME TypeOK, Next
  PROVE  Statuses(mail', case', suggestions')
<1>1. Statuses(mail, case, suggestions)
  BY SuggestionRows DEF Statuses, TypeOK
<1>2. ASSUME NEW rows, ReviewedWith(rows)
      PROVE  mail' \in {"COMPLETED", "BLOCKED"} /\ case' \in {"RESOLVED", "IN_REVIEW"}
  BY <1>2 DEF ReviewedWith, State
<1>3. ASSUME NEW i, Acknowledge(i) PROVE Statuses(mail', case', suggestions')
  BY <1>1, <1>3 DEF Acknowledge
<1>4. ASSUME NEW i, Resolve(i) PROVE Statuses(mail', case', suggestions')
  BY <1>1, <1>4 DEF Resolve
<1>5. ASSUME NEW i, NEW c, NEW v, AddOverride(i, c, v) PROVE Statuses(mail', case', suggestions')
  BY <1>1, <1>5 DEF AddOverride
<1>6. ASSUME NEW i, Recompare(i) PROVE Statuses(mail', case', suggestions')
  BY <1>1, <1>6 DEF Recompare, State, Statuses
<1>7. ASSUME NEW c, NEW v, CorrectCase(c, v) PROVE Statuses(mail', case', suggestions')
  BY <1>1, <1>7 DEF CorrectCase, Statuses
<1>8. CASE ResolveCase
  BY <1>1, <1>2, <1>8 DEF ResolveCase, Statuses
<1>9. CASE DismissCase
  BY <1>1, <1>9 DEF DismissCase, Statuses
<1>10. ASSUME NEW c \in Correctable, NEW v \in Values, Ask(c, v)
       PROVE  Statuses(mail', case', suggestions')
  <2>1. [cell |-> c, value |-> v, status |-> "PENDING"] \in Suggestions
    BY DEF Suggestions
  <2> QED
    BY <1>1, <1>10, <2>1 DEF Ask, Statuses
<1>11. ASSUME NEW k \in DOMAIN suggestions, NEW v, NEW status \in {"ACCEPTED", "EDITED_APPLIED"},
              Apply(k, v, status)
       PROVE  Statuses(mail', case', suggestions')
  <2>1. suggestions' \in Seq(Suggestions) /\ Len(suggestions') = Len(suggestions)
    BY <1>11, DecidedRows DEF Apply
  <2> QED
    BY <1>1, <1>2, <1>11, <2>1 DEF Apply, Statuses
<1>12. ASSUME NEW k \in DOMAIN suggestions, DismissSuggestion(k)
       PROVE  Statuses(mail', case', suggestions')
  <2>1. suggestions' \in Seq(Suggestions) /\ Len(suggestions') = Len(suggestions)
    BY <1>12, DecidedRows DEF DismissSuggestion
  <2> QED
    BY <1>1, <1>12, <2>1 DEF DismissSuggestion, Statuses
<1> QED
  BY <1>3, <1>4, <1>5, <1>6, <1>7, <1>8, <1>9, <1>10, <1>11, <1>12
     DEF Next, AcceptSuggestion, EditSuggestion

LEMMA NextKeepsTypes == TypeOK /\ [Next]_vars => TypeOK'
<1> SUFFICES ASSUME TypeOK, Next PROVE TypeOK'
  BY DEF TypeOK, vars, Latest
<1>1. Statuses(mail', case', suggestions')
  BY NextKeepsStatuses
<1>2. extracted' \in Extractions
  BY Operations DEF TypeOK
<1>3. /\ Latest \in Nat \ {0} /\ DOMAIN comparisons = 1 .. Latest
      /\ \A i \in DOMAIN comparisons :
           comparisons[i].source < i /\ comparisons[i].used \subseteq DOMAIN overrides
  BY ComparisonRows DEF TypeOK
<1>4. ASSUME Superseded, Latest' \in Nat, Latest' >= Latest
      PROVE  /\ overrides' \in Seq(Overrides) /\ DOMAIN overrides \subseteq DOMAIN overrides'
             /\ \A o \in DOMAIN overrides' :
                  overrides'[o].owner <= Latest' /\ overrides'[o].suggestion <= Len(suggestions')
  BY <1>1, <1>4, SupersededRows DEF Statuses, Extend
<1>5. CASE StatusSet /\ overrides' = overrides
  <2>1. /\ comparisons' \in Seq(Comparisons) /\ Latest' = Latest
        /\ \A j \in DOMAIN comparisons' : KeptComparison(j)
    BY <1>5, StatusSetKeeps
  <2>2. Superseded
    BY <1>5 DEF Superseded
  <2>3. \A j \in DOMAIN comparisons' :
          comparisons'[j].source < j /\ comparisons'[j].used \subseteq DOMAIN overrides'
    BY <1>3, <1>5, <2>1 DEF KeptComparison
  <2> QED
    BY <1>1, <1>2, <1>3, <1>4, <2>1, <2>2, <2>3 DEF TypeOK, Statuses
<1>6. CASE comparisons' = comparisons /\ Superseded
  BY <1>1, <1>2, <1>3, <1>4, <1>6 DEF TypeOK, Statuses, Latest
<1>7. ASSUME NEW row, NEW kind, NEW source, NEW used, ComparedAs(row, kind, source, used),
             DOMAIN overrides \subseteq DOMAIN overrides'
      PROVE  /\ comparisons' \in Seq(Comparisons) /\ Latest' \in Nat \ {0}
             /\ Latest' >= Latest /\ Latest' >= row
             /\ \A j \in DOMAIN comparisons' :
                  comparisons'[j].source < j /\ comparisons'[j].used \subseteq DOMAIN overrides'
  <2>1. /\ comparisons' \in Seq(Comparisons) /\ Latest' = IF row > Latest THEN Latest + 1 ELSE Latest
        /\ \A j \in DOMAIN comparisons' : j = row \/ KeptComparison(j)
    BY <1>7, ComparedKeeps
  <2>2. /\ row \in 1 .. Latest + 1
        /\ comparisons'[row].source < row /\ comparisons'[row].used \subseteq DOMAIN overrides'
    BY <1>7 DEF ComparedAs
  <2>3. ASSUME NEW j \in DOMAIN comparisons'
        PROVE  comparisons'[j].source < j /\ comparisons'[j].used \subseteq DOMAIN overrides'
    BY <1>3, <1>7, <2>1, <2>2 DEF KeptComparison
  <2> QED
    BY <1>3, <2>1, <2>2, <2>3
<1>8. ASSUME NEW i \in DOMAIN comparisons, Recompare(i) PROVE TypeOK'
  <2> DEFINE used == Active(overrides, i)
             row == RowOf("DISCREPANCY", i, used)
  <2>1. ComparedAs(row, "DISCREPANCY", i, used) /\ MovedTo(overrides', used, row)
    BY <1>8, RecompareStores
  <2> HIDE DEF used, row
  <2>2. overrides' \in Seq(Overrides) /\ DOMAIN overrides' = DOMAIN overrides
    BY <2>1 DEF MovedTo, Extend
  <2>3. /\ comparisons' \in Seq(Comparisons) /\ Latest' \in Nat \ {0}
        /\ Latest' >= Latest /\ Latest' >= row
        /\ \A j \in DOMAIN comparisons' :
             comparisons'[j].source < j /\ comparisons'[j].used \subseteq DOMAIN overrides'
    BY <1>7, <2>1, <2>2
  <2>4. ASSUME NEW o \in DOMAIN overrides'
        PROVE  overrides'[o].owner <= Latest' /\ overrides'[o].suggestion <= Len(suggestions')
    <3>1. /\ overrides[o].owner <= Latest /\ overrides[o].owner \in Nat
          /\ overrides[o].suggestion <= Len(suggestions) /\ overrides[o].suggestion \in Nat
      BY <2>2, OverrideRows DEF TypeOK, Overrides
    <3>2. overrides'[o].owner \in {row, overrides[o].owner} /\ overrides'[o].suggestion = overrides[o].suggestion
      BY <2>1, <2>2 DEF MovedTo, Extend
    <3> QED
      BY <1>1, <1>3, <2>3, <3>1, <3>2, SuggestionRows DEF Statuses
  <2> QED
    BY <1>1, <1>2, <2>2, <2>3, <2>4 DEF TypeOK, Statuses
<1>9. CASE ReviewedWith(overrides') /\ Superseded
  <2> DEFINE used == Active(overrides', CaseOwner)
             row == RowOf("REVIEW", 1, used)
  <2>1. Extend(overrides')
    <3>1. Superseded
      BY <1>9
    <3> QED
      BY <3>1, SupersededExtends
  <2>2. ComparedAs(row, "REVIEW", 1, used)
    BY <1>9, <2>1, ReviewStores
  <2> HIDE DEF used, row
  <2>3. /\ comparisons' \in Seq(Comparisons) /\ Latest' \in Nat \ {0} /\ Latest' >= Latest
        /\ \A j \in DOMAIN comparisons' :
             comparisons'[j].source < j /\ comparisons'[j].used \subseteq DOMAIN overrides'
    BY <1>7, <2>1, <2>2 DEF Extend
  <2> QED
    BY <1>1, <1>2, <1>4, <1>9, <2>3 DEF TypeOK, Statuses
<1> QED
  BY <1>5, <1>6, <1>8, <1>9, Operations

LEMMA InitTypes == Init => TypeOK
<1> SUFFICES ASSUME Init PROVE TypeOK
  OBVIOUS
<1>1. PICK seen \in [Cells -> Values \union {Unknown}] :
        /\ comparisons = <<[kind |-> "BASE", source |-> 0, used |-> {}, value |-> seen,
                            status |-> KeptOrOpen(seen, "NONE")]>>
        /\ mail = State(seen)
        /\ case = IF State(seen) = "BLOCKED" THEN "OPEN" ELSE "NONE"
  BY DEF Init
<1> DEFINE row == [kind |-> "BASE", source |-> 0, used |-> {}, value |-> seen,
                   status |-> KeptOrOpen(seen, "NONE")]
<1>2. row \in Comparisons /\ row.source = 0 /\ row.used = {}
  BY DEF Comparisons, KeptOrOpen
<1> HIDE DEF row
<1>3. comparisons = <<row>>
  BY <1>1 DEF row
<1>4. comparisons \in Seq(Comparisons) /\ Latest = 1 /\ DOMAIN comparisons = {1} /\ comparisons[1] = row
  BY <1>2, <1>3 DEF Latest
<1>5. overrides \in Seq(Overrides) /\ DOMAIN overrides = {} /\ suggestions \in Seq(Suggestions)
  BY DEF Init
<1>6. mail \in {"COMPLETED", "BLOCKED"} /\ case \in {"NONE", "OPEN", "IN_REVIEW", "RESOLVED", "DISMISSED"}
  BY <1>1 DEF State
<1> QED
  BY <1>2, <1>4, <1>5, <1>6 DEF Init, TypeOK

(* TypeOK: every comparison re-compares an earlier one and rests on            *)
(* corrections that exist.                                                    *)
THEOREM TypeCorrect == Spec => []TypeOK
BY InitTypes, NextKeepsTypes, PTL DEF Spec
----------------------------------------------------------------------------
(* The inductive invariant *)

LEMMA InitCorrections == Init => CorrectionsInv
<1> SUFFICES ASSUME Init PROVE CorrectionsInv
  OBVIOUS
<1>1. PICK seen \in [Cells -> Values \union {Unknown}] :
        comparisons = <<[kind |-> "BASE", source |-> 0, used |-> {}, value |-> seen,
                         status |-> KeptOrOpen(seen, "NONE")]>>
  BY DEF Init
<1>2. /\ DOMAIN comparisons = {1} /\ Latest = 1 /\ overrides = <<>>
      /\ comparisons[1].kind = "BASE" /\ comparisons[1].used = {}
  BY <1>1 DEF Init, Latest
<1>3. OneActivePerCell
  BY <1>2 DEF OneActivePerCell
<1>4. ValueIsOverlay /\ OwnersMoveOn /\ LatestCovered
  BY <1>2 DEF ValueIsOverlay, OwnersMoveOn, LatestCovered
<1> QED
  BY <1>3, <1>4 DEF CorrectionsInv

(* Adding a correction. *)
LEMMA SupersededKeeps ==
  ASSUME TypeOK, OneActivePerCell, Superseded
  PROVE  /\ OneActivePerCell'
         /\ \A o \in DOMAIN overrides :
              /\ o \in DOMAIN overrides' /\ overrides'[o].owner = overrides[o].owner
              /\ overrides[o].active =>
                   \E p \in DOMAIN overrides' :
                     /\ overrides'[p].active /\ overrides'[p].owner = overrides[o].owner
                     /\ overrides'[p].cell = overrides[o].cell
<1>1. CASE overrides' = overrides
  BY <1>1 DEF OneActivePerCell
<1>2. ASSUME NEW owner \in 0 .. Latest, NEW c \in Correctable, NEW v \in Values,
             NEW k \in 0 .. Len(suggestions), overrides' = Superseding(owner, c, v, k)
      PROVE  /\ OneActivePerCell'
             /\ \A o \in DOMAIN overrides :
                  /\ o \in DOMAIN overrides' /\ overrides'[o].owner = overrides[o].owner
                  /\ overrides[o].active =>
                       \E p \in DOMAIN overrides' :
                         /\ overrides'[p].active /\ overrides'[p].owner = overrides[o].owner
                         /\ overrides'[p].cell = overrides[o].cell
  <2> DEFINE new == Len(overrides) + 1
  <2>1. owner \in Nat /\ k \in Nat
    OBVIOUS
  <2>2. Added(overrides', owner, c, v, k)
    BY <1>2, <2>1, SupersedingRows
  <2>3. /\ DOMAIN overrides' = DOMAIN overrides \cup {new}
        /\ overrides'[new].owner = owner /\ overrides'[new].cell = c /\ overrides'[new].active
        /\ \A o \in DOMAIN overrides :
             /\ overrides'[o].owner = overrides[o].owner
             /\ overrides'[o].cell = overrides[o].cell
             /\ overrides'[o].active <=>
                  overrides[o].active /\ ~(overrides[o].owner = owner /\ overrides[o].cell = c)
    BY <2>2 DEF Added, Extend
  <2> HIDE DEF new
  <2>4. OneActivePerCell'
    BY <2>3 DEF OneActivePerCell
  <2> QED
    BY <2>3, <2>4
<1> QED
  BY <1>1, <1>2 DEF Superseded

(* Moving the corrections of a comparison to the row of its re-comparison. *)
LEMMA MoveFacts ==
  ASSUME TypeOK, CorrectionsInv, NEW i \in DOMAIN comparisons, NEW used, NEW row,
         used = Active(overrides, i), ComparedAs(row, "DISCREPANCY", i, used)
  PROVE  /\ i \in 1 .. Latest /\ row \in Nat /\ i < row
         /\ row <= Latest => used = {}
         /\ \A o \in used : o \in DOMAIN overrides /\ overrides[o].active /\ overrides[o].owner = i
<1>1. i \in 1 .. Latest /\ Latest \in Nat /\ DOMAIN comparisons = 1 .. Latest
  BY ComparisonRows
<1>2. row \in 1 .. Latest + 1 /\ i < row /\ (row <= Latest => Same(comparisons[row], "DISCREPANCY", i, used))
  BY DEF ComparedAs
<1>3. \A o \in used : o \in DOMAIN overrides /\ overrides[o].active /\ overrides[o].owner = i
  BY DEF Active
<1>4. ASSUME row <= Latest, NEW o \in used PROVE FALSE
  <2>1. comparisons[row].kind = "DISCREPANCY" /\ o \in comparisons[row].used /\ row \in DOMAIN comparisons
    BY <1>1, <1>2, <1>4 DEF Same
  <2>2. overrides[o].owner >= row
    BY <2>1 DEF CorrectionsInv, OwnersMoveOn
  <2> QED
    BY <1>1, <1>2, <1>3, <2>2
<1> QED
  BY <1>1, <1>2, <1>3, <1>4

LEMMA MovedKeepsUnique ==
  ASSUME TypeOK, CorrectionsInv, NEW i \in DOMAIN comparisons, NEW used, NEW row,
         used = Active(overrides, i), ComparedAs(row, "DISCREPANCY", i, used),
         MovedTo(overrides', used, row)
  PROVE  OneActivePerCell'
<1>1. /\ Latest \in Nat /\ row \in Nat /\ (row <= Latest => used = {})
      /\ \A o \in used : o \in DOMAIN overrides /\ overrides[o].active /\ overrides[o].owner = i
  BY MoveFacts, ComparisonRows
<1>2. /\ DOMAIN overrides' = DOMAIN overrides
      /\ \A o \in DOMAIN overrides :
           /\ overrides'[o].owner = IF o \in used THEN row ELSE overrides[o].owner
           /\ overrides'[o].cell = overrides[o].cell
           /\ overrides'[o].active <=> overrides[o].active
  BY DEF MovedTo, Extend
<1>3. \A o \in DOMAIN overrides : overrides[o].owner \in Nat /\ overrides[o].owner <= Latest
  BY OverrideRows DEF TypeOK, Overrides
<1> SUFFICES ASSUME NEW o \in DOMAIN overrides, NEW p \in DOMAIN overrides,
                    overrides'[o].active, overrides'[p].active,
                    overrides'[o].owner = overrides'[p].owner, overrides'[o].cell = overrides'[p].cell
             PROVE  o = p
  BY <1>2 DEF OneActivePerCell
<1>4. overrides[o].active /\ overrides[p].active /\ overrides[o].cell = overrides[p].cell
  BY <1>2
<1>5. overrides[o].owner = overrides[p].owner
  <2>1. CASE o \in used <=> p \in used
    BY <1>1, <1>2, <2>1
  <2>2. CASE o \in used /\ p \notin used
    BY <1>1, <1>2, <1>3, <2>2
  <2>3. CASE o \notin used /\ p \in used
    BY <1>1, <1>2, <1>3, <2>3
  <2> QED
    BY <2>1, <2>2, <2>3
<1> QED
  BY <1>4, <1>5 DEF CorrectionsInv, OneActivePerCell

(* Values: every comparison but the base is the overlay of its corrections. *)
LEMMA ValuesKept ==
  ASSUME TypeOK, ValueIsOverlay, extracted' = extracted, Extend(overrides'),
         \A j \in DOMAIN comparisons' :
           \/ KeptComparison(j)
           \/ /\ comparisons'[j].kind # "BASE"
              /\ comparisons'[j].value = Overlay(overrides', comparisons'[j].used)
  PROVE  ValueIsOverlay'
<1> SUFFICES ASSUME NEW j \in DOMAIN comparisons'
             PROVE  IF comparisons'[j].kind = "BASE" THEN comparisons'[j].used = {}
                    ELSE comparisons'[j].value = Overlay(overrides', comparisons'[j].used)
  <2>1. \A used : Overlay(overrides, used)' = Overlay(overrides', used)
    BY DEF Overlay
  <2> QED
    BY <2>1 DEF ValueIsOverlay, Overlay
<1>1. CASE KeptComparison(j)
  <2>1. comparisons[j].used \in SUBSET DOMAIN overrides
    BY <1>1 DEF KeptComparison, TypeOK
  <2>2. Overlay(overrides', comparisons[j].used) = Overlay(overrides, comparisons[j].used)
    BY <2>1, OverlayKept
  <2> QED
    BY <1>1, <2>2 DEF KeptComparison, ValueIsOverlay
<1> QED
  BY <1>1

LEMMA RecompareKeeps ==
  ASSUME TypeOK, CorrectionsInv, extracted' = extracted, NEW i \in DOMAIN comparisons, Recompare(i)
  PROVE  CorrectionsInv'
<1> DEFINE used == Active(overrides, i)
           row == RowOf("DISCREPANCY", i, used)
<1>1. ComparedAs(row, "DISCREPANCY", i, used) /\ MovedTo(overrides', used, row)
  BY RecompareStores
<1> SUFFICES ASSUME NEW u, NEW w, u = Active(overrides, i), ComparedAs(w, "DISCREPANCY", i, u),
                    MovedTo(overrides', u, w)
             PROVE  CorrectionsInv'
  BY <1>1
<1> HIDE DEF used, row
<1>2. /\ i \in 1 .. Latest /\ w \in Nat /\ i < w /\ (w <= Latest => u = {})
      /\ \A o \in u : o \in DOMAIN overrides /\ overrides[o].active /\ overrides[o].owner = i
  BY MoveFacts
<1>3. /\ comparisons' \in Seq(Comparisons) /\ Latest' = IF w > Latest THEN Latest + 1 ELSE Latest
      /\ \A j \in DOMAIN comparisons' : j = w \/ KeptComparison(j)
  BY ComparedKeeps
<1>4. /\ w \in 1 .. Latest + 1
      /\ comparisons'[w].kind = "DISCREPANCY" /\ comparisons'[w].used = u
      /\ comparisons'[w].value = Overlay(overrides', u)
  BY DEF ComparedAs
<1>5. /\ Extend(overrides') /\ DOMAIN overrides' = DOMAIN overrides
      /\ \A o \in DOMAIN overrides :
           /\ overrides'[o].owner = IF o \in u THEN w ELSE overrides[o].owner
           /\ overrides'[o].cell = overrides[o].cell
           /\ overrides'[o].active <=> overrides[o].active
  BY DEF MovedTo, Extend
<1>6. Latest \in Nat \ {0} /\ DOMAIN comparisons = 1 .. Latest
  BY ComparisonRows
<1>7. OneActivePerCell'
  BY MovedKeepsUnique
<1>8. ValueIsOverlay'
  BY <1>3, <1>4, <1>5, ValuesKept DEF CorrectionsInv
<1>9. OwnersMoveOn'
  <2> SUFFICES ASSUME NEW j \in DOMAIN comparisons', comparisons'[j].kind = "DISCREPANCY",
                      NEW o \in comparisons'[j].used
               PROVE  overrides'[o].owner >= j
    BY DEF OwnersMoveOn
  <2>1. CASE j = w
    BY <1>2, <1>4, <1>5, <2>1
  <2>2. CASE KeptComparison(j)
    <3>1. j \in 1 .. Latest /\ o \in DOMAIN overrides /\ overrides[o].owner >= j /\ overrides[o].owner \in Nat
      BY <1>6, <2>2, OverrideRows DEF KeptComparison, CorrectionsInv, OwnersMoveOn, TypeOK, Overrides
    <3> QED
      BY <1>2, <1>5, <3>1
  <2> QED
    BY <1>3, <2>1, <2>2
<1>10. LatestCovered'
  <2> SUFFICES ASSUME comparisons'[Latest'].kind = "DISCREPANCY", NEW o \in comparisons'[Latest'].used
               PROVE  \E p \in DOMAIN overrides' :
                        /\ overrides'[p].active /\ overrides'[p].owner = Latest'
                        /\ overrides'[p].cell = overrides'[o].cell
    BY DEF LatestCovered, Active
  <2>1. CASE Latest' = w
    BY <1>2, <1>4, <1>5, <2>1
  <2>2. CASE Latest' # w
    <3>1. w <= Latest /\ Latest' = Latest /\ u = {}
      BY <1>2, <1>3, <1>4, <1>6, <2>2
    <3>2. Latest' \in DOMAIN comparisons'
      BY <1>3, <1>6, <3>1 DEF Latest
    <3>3. KeptComparison(Latest')
      BY <1>3, <2>2, <3>2
    <3>4. /\ comparisons[Latest].kind = "DISCREPANCY" /\ o \in comparisons[Latest].used
          /\ Latest \in DOMAIN comparisons
      BY <3>1, <3>3 DEF KeptComparison
    <3>5. o \in DOMAIN overrides
      BY <3>4 DEF TypeOK
    <3>6. PICK p \in Active(overrides, Latest) : overrides[p].cell = overrides[o].cell
      BY <3>4 DEF CorrectionsInv, LatestCovered
    <3> QED
      BY <1>5, <3>1, <3>5, <3>6 DEF Active
  <2> QED
    BY <2>1, <2>2
<1> QED
  BY <1>7, <1>8, <1>9, <1>10 DEF CorrectionsInv

(* Every other operation. *)
LEMMA OthersKeep ==
  ASSUME TypeOK, CorrectionsInv, extracted' = extracted, Superseded,
         comparisons' \in Seq(Comparisons), Latest' \in {Latest, Latest + 1},
         \A j \in DOMAIN comparisons' :
           \/ KeptComparison(j)
           \/ /\ comparisons'[j].kind = "REVIEW"
              /\ comparisons'[j].value = Overlay(overrides', comparisons'[j].used)
  PROVE  CorrectionsInv'
<1>1. Latest \in Nat \ {0} /\ DOMAIN comparisons = 1 .. Latest /\ DOMAIN comparisons' = 1 .. Latest'
  BY ComparisonRows DEF Latest
<1>2. /\ OneActivePerCell'
      /\ \A o \in DOMAIN overrides :
           /\ o \in DOMAIN overrides' /\ overrides'[o].owner = overrides[o].owner
           /\ overrides[o].active =>
                \E p \in DOMAIN overrides' :
                  /\ overrides'[p].active /\ overrides'[p].owner = overrides[o].owner
                  /\ overrides'[p].cell = overrides[o].cell
  BY SupersededKeeps DEF CorrectionsInv
<1>3. Extend(overrides')
  BY SupersededExtends
<1>4. ValueIsOverlay'
  BY <1>3, ValuesKept DEF CorrectionsInv
<1>5. ASSUME NEW j \in DOMAIN comparisons', comparisons'[j].kind = "DISCREPANCY"
      PROVE  /\ j \in DOMAIN comparisons /\ comparisons[j].kind = "DISCREPANCY"
             /\ comparisons'[j].used = comparisons[j].used
             /\ comparisons[j].used \subseteq DOMAIN overrides
  BY <1>5 DEF KeptComparison, TypeOK
<1>6. OwnersMoveOn'
  BY <1>2, <1>5 DEF CorrectionsInv, OwnersMoveOn
<1>7. LatestCovered'
  <2> SUFFICES ASSUME comparisons'[Latest'].kind = "DISCREPANCY", NEW o \in comparisons'[Latest'].used
               PROVE  \E p \in DOMAIN overrides' :
                        /\ overrides'[p].active /\ overrides'[p].owner = Latest'
                        /\ overrides'[p].cell = overrides'[o].cell
    BY DEF LatestCovered, Active
  <2>1. /\ Latest' = Latest /\ comparisons[Latest].kind = "DISCREPANCY"
        /\ o \in comparisons[Latest].used /\ o \in DOMAIN overrides
    BY <1>1, <1>5
  <2>2. PICK q \in Active(overrides, Latest) : overrides[q].cell = overrides[o].cell
    BY <2>1 DEF CorrectionsInv, LatestCovered
  <2>3. overrides'[o].cell = overrides[o].cell
    BY <1>3, <2>1 DEF Extend
  <2> QED
    BY <1>2, <2>1, <2>2, <2>3 DEF Active
<1> QED
  BY <1>2, <1>4, <1>6, <1>7 DEF CorrectionsInv

LEMMA NextKeepsCorrections == TypeOK /\ CorrectionsInv /\ [Next]_vars => CorrectionsInv'
<1> SUFFICES ASSUME TypeOK, CorrectionsInv, [Next]_vars PROVE CorrectionsInv'
  OBVIOUS
<1>1. CASE UNCHANGED vars
  <2>1. /\ comparisons' \in Seq(Comparisons) /\ Latest' = Latest /\ Superseded
        /\ extracted' = extracted /\ \A j \in DOMAIN comparisons' : KeptComparison(j)
    BY <1>1 DEF vars, TypeOK, Latest, Superseded, KeptComparison
  <2> QED
    BY <2>1, OthersKeep
<1>2. CASE Next
  <2>1. extracted' = extracted
    BY <1>2, Operations
  <2>2. CASE StatusSet /\ overrides' = overrides
    BY <2>1, <2>2, StatusSetKeeps, OthersKeep DEF Superseded
  <2>3. CASE comparisons' = comparisons /\ Superseded
    <3>1. /\ comparisons' \in Seq(Comparisons) /\ Latest' = Latest /\ Superseded
          /\ \A j \in DOMAIN comparisons' : KeptComparison(j)
      BY <2>3 DEF TypeOK, Latest, KeptComparison
    <3> QED
      BY <2>1, <3>1, OthersKeep
  <2>4. ASSUME NEW i \in DOMAIN comparisons, Recompare(i) PROVE CorrectionsInv'
    BY <2>1, <2>4, RecompareKeeps
  <2>5. CASE ReviewedWith(overrides') /\ Superseded
    <3> DEFINE used == Active(overrides', CaseOwner)
               row == RowOf("REVIEW", 1, used)
    <3>1. ComparedAs(row, "REVIEW", 1, used)
      BY <2>5, SupersededExtends, ReviewStores
    <3> HIDE DEF used, row
    <3>2. /\ comparisons' \in Seq(Comparisons)
          /\ Latest' = IF row > Latest THEN Latest + 1 ELSE Latest
          /\ \A j \in DOMAIN comparisons' : j = row \/ KeptComparison(j)
      BY <3>1, ComparedKeeps
    <3>3. /\ comparisons'[row].kind = "REVIEW"
          /\ comparisons'[row].value = Overlay(overrides', comparisons'[row].used)
      BY <3>1 DEF ComparedAs
    <3> QED
      BY <2>1, <2>5, <3>2, <3>3, OthersKeep
  <2> QED
    BY <1>2, <2>2, <2>3, <2>4, <2>5, Operations
<1> QED
  BY <1>1, <1>2

LEMMA CorrectionsInvHolds == Spec => []CorrectionsInv
BY InitCorrections, TypeCorrect, NextKeepsCorrections, PTL DEF Spec

(* DiscrepancyService.recompare and the unique index of the corrections: no    *)
(* owner ever has two active corrections of one cell.                         *)
THEOREM CorrectionsAreUnique == Spec => []OneActivePerCell
BY CorrectionsInvHolds, PTL DEF CorrectionsInv
----------------------------------------------------------------------------
(* What a re-comparison leaves of the history *)

(* An updated row compares what it compared before. *)
LEMMA ComparedAgain ==
  ASSUME TypeOK, CorrectionsInv, Extend(overrides'), NEW row, NEW kind, NEW source, NEW used,
         ComparedAs(row, kind, source, used), kind # "BASE", NEW i \in DOMAIN comparisons
  PROVE  comparisons'[i].value = comparisons[i].value /\ comparisons'[i].used = comparisons[i].used
<1>1. /\ Latest \in Nat /\ DOMAIN comparisons = 1 .. Latest
      /\ Latest' = IF row > Latest THEN Latest + 1 ELSE Latest
      /\ DOMAIN comparisons' = 1 .. Latest'
      /\ \A j \in DOMAIN comparisons' : j = row \/ KeptComparison(j)
  BY ComparisonRows, ComparedKeeps DEF Latest
<1>2. CASE i # row
  BY <1>1, <1>2 DEF KeptComparison
<1>3. CASE i = row
  <2>1. /\ Same(comparisons[i], kind, source, used)
        /\ comparisons'[i].used = used /\ comparisons'[i].value = Overlay(overrides', used)
    BY <1>1, <1>3 DEF ComparedAs
  <2>2. comparisons[i].kind = kind /\ comparisons[i].used = used
    BY <2>1 DEF Same
  <2>3. used \in SUBSET DOMAIN overrides
    BY <2>2 DEF TypeOK
  <2>4. comparisons[i].value = Overlay(overrides, used)
    BY <2>2 DEF CorrectionsInv, ValueIsOverlay
  <2> QED
    BY <2>1, <2>2, <2>3, <2>4, OverlayKept
<1> QED
  BY <1>2, <1>3

(* upsert_result under the version of a re-comparison: what a stored           *)
(* comparison compared, and the corrections it used, never change.            *)
THEOREM HistoryIsImmutable == Spec => HistoryImmutable
<1> DEFINE Kept == \A i \in DOMAIN comparisons :
                     /\ comparisons'[i].value = comparisons[i].value
                     /\ comparisons'[i].used = comparisons[i].used
<1>1. ASSUME TypeOK, CorrectionsInv, Next PROVE Kept
  <2>1. CASE StatusSet
    BY <1>1, <2>1, StatusSetKeeps DEF KeptComparison, TypeOK, Latest
  <2>2. CASE comparisons' = comparisons
    BY <2>2
  <2>3. ASSUME NEW i \in DOMAIN comparisons, Recompare(i) PROVE Kept
    <3>1. PICK row, used : /\ ComparedAs(row, "DISCREPANCY", i, used)
                           /\ MovedTo(overrides', used, row)
      BY <1>1, <2>3, RecompareStores
    <3>2. Extend(overrides')
      BY <3>1 DEF MovedTo
    <3> QED
      BY <1>1, <3>1, <3>2, ComparedAgain
  <2>4. CASE ReviewedWith(overrides') /\ Superseded
    <3>1. Extend(overrides')
      BY <1>1, <2>4, SupersededExtends
    <3>2. PICK row, used : ComparedAs(row, "REVIEW", 1, used)
      BY <1>1, <2>4, <3>1, ReviewStores
    <3> QED
      BY <1>1, <3>1, <3>2, ComparedAgain
  <2> QED
    BY <1>1, <2>1, <2>2, <2>3, <2>4, Operations
<1>2. TypeOK /\ CorrectionsInv /\ [Next]_vars => [Kept]_vars
  BY <1>1
<1> QED
  BY <1>2, TypeCorrect, CorrectionsInvHolds, PTL DEF Spec, HistoryImmutable

(* DiscrepancyService.recompare of the latest comparison carries every         *)
(* correction it rests on, unless that comparison is a reviewer's.            *)
THEOREM CorrectionsAreCarried == Spec => CorrectionsCarried
<1> DEFINE Carried == comparisons[Latest].kind # "REVIEW" /\ Recompare(Latest)
                        => CorrectedCells(Latest) \subseteq CorrectedCells(Latest)'
<1>1. ASSUME TypeOK, CorrectionsInv, comparisons[Latest].kind # "REVIEW", Recompare(Latest)
      PROVE  CorrectedCells(Latest) \subseteq CorrectedCells(Latest)'
  <2>1. Latest \in Nat \ {0} /\ Latest \in DOMAIN comparisons
    BY <1>1, ComparisonRows
  <2> DEFINE used == Active(overrides, Latest)
             row == RowOf("DISCREPANCY", Latest, used)
  <2>2. ComparedAs(row, "DISCREPANCY", Latest, used) /\ MovedTo(overrides', used, row)
    BY <1>1, <2>1, RecompareStores
  <2> HIDE DEF row
  <2>3. row > Latest /\ comparisons'[row].used = used /\ row \in 1 .. Latest + 1
    BY <2>1, <2>2 DEF ComparedAs
  <2>4. Latest' = row
    BY <1>1, <2>1, <2>2, <2>3, ComparedKeeps
  <2>5. \A o \in DOMAIN overrides : overrides'[o].cell = overrides[o].cell
    BY <2>2 DEF MovedTo, Extend
  <2>6. ASSUME NEW o \in comparisons[Latest].used
        PROVE  \E p \in used : overrides[p].cell = overrides[o].cell
    <3>1. comparisons[Latest].kind = "DISCREPANCY"
      BY <1>1, <2>1, <2>6, ComparisonRows DEF CorrectionsInv, ValueIsOverlay, Comparisons
    <3> QED
      BY <1>1, <2>6, <3>1 DEF CorrectionsInv, LatestCovered
  <2>7. CorrectedCells(Latest)' = {overrides'[o].cell : o \in used}
    BY <2>3, <2>4 DEF CorrectedCells, CorrectedIn
  <2>8. used \subseteq DOMAIN overrides
    BY DEF Active
  <2> HIDE DEF used
  <2> QED
    BY <2>5, <2>6, <2>7, <2>8 DEF CorrectedCells, CorrectedIn
<1>2. TypeOK /\ CorrectionsInv /\ [Next]_vars => [Carried]_vars
  BY <1>1
<1> QED
  BY <1>2, TypeCorrect, CorrectionsInvHolds, PTL DEF Spec, CorrectionsCarried
----------------------------------------------------------------------------
(* Suggestions *)

LEMMA SuggestionsKept ==
  ASSUME TypeOK, SuggestionsInv, suggestions' \in Seq(Suggestions), Extend(overrides'),
         Len(suggestions') >= Len(suggestions),
         \A k \in DOMAIN suggestions : Applied(k)' <=> Applied(k),
         \A k \in DOMAIN suggestions' \ DOMAIN suggestions : ~Applied(k)',
         \A o \in DOMAIN overrides' \ DOMAIN overrides : overrides'[o].suggestion = 0
  PROVE  SuggestionsInv'
<1>1. /\ DOMAIN suggestions = 1 .. Len(suggestions) /\ Len(suggestions) \in Nat
      /\ DOMAIN suggestions' = 1 .. Len(suggestions') /\ Len(suggestions') \in Nat
  BY SuggestionRows
<1>2. ASSUME NEW k \in DOMAIN suggestions' PROVE Applications(k)' = Applications(k)
  BY <1>1 DEF Applications, Extend
<1>3. ASSUME NEW k \in DOMAIN suggestions' \ DOMAIN suggestions PROVE Applications(k) = {}
  BY <1>1, OverrideRows DEF Applications, TypeOK, Overrides
<1> QED
  BY <1>2, <1>3 DEF SuggestionsInv, Extend

(* A correction no suggestion made. *)
LEMMA AddedByHand ==
  ASSUME TypeOK, SuggestionsInv, suggestions' = suggestions, NEW owner \in Nat,
         NEW c \in Correctable, NEW v \in Values, overrides' = Superseding(owner, c, v, 0)
  PROVE  SuggestionsInv'
<1>1. Added(overrides', owner, c, v, 0)
  BY SupersedingRows
<1>2. Extend(overrides') /\ \A o \in DOMAIN overrides' \ DOMAIN overrides : overrides'[o].suggestion = 0
  BY <1>1 DEF Added
<1>3. suggestions' \in Seq(Suggestions) /\ Len(suggestions') >= Len(suggestions)
  BY SuggestionRows DEF TypeOK
<1>4. \A k \in DOMAIN suggestions : Applied(k)' <=> Applied(k)
  BY DEF Applied
<1> QED
  BY <1>2, <1>3, <1>4, SuggestionsKept

LEMMA CorrectionsUntouched ==
  ASSUME TypeOK, SuggestionsInv, suggestions' = suggestions, Extend(overrides'),
         DOMAIN overrides' = DOMAIN overrides
  PROVE  SuggestionsInv'
<1>1. suggestions' \in Seq(Suggestions) /\ Len(suggestions') >= Len(suggestions)
  BY SuggestionRows DEF TypeOK
<1>2. \A k \in DOMAIN suggestions : Applied(k)' <=> Applied(k)
  BY DEF Applied
<1> QED
  BY <1>1, <1>2, SuggestionsKept

LEMMA NextKeepsSuggestions == TypeOK /\ SuggestionsInv /\ [Next]_vars => SuggestionsInv'
<1> SUFFICES ASSUME TypeOK, SuggestionsInv, [Next]_vars PROVE SuggestionsInv'
  OBVIOUS
<1>1. ASSUME UNCHANGED <<overrides, suggestions>> PROVE SuggestionsInv'
  BY <1>1 DEF SuggestionsInv, Applied, Applications
<1>2. ASSUME NEW i \in DOMAIN comparisons, Acknowledge(i) PROVE SuggestionsInv'
  BY <1>1, <1>2 DEF Acknowledge
<1>3. ASSUME NEW i \in DOMAIN comparisons, Resolve(i) PROVE SuggestionsInv'
  BY <1>1, <1>3 DEF Resolve
<1>4. ASSUME NEW i \in DOMAIN comparisons, NEW c \in Correctable, NEW v \in Values, AddOverride(i, c, v)
      PROVE  SuggestionsInv'
  <2>1. i \in Nat
    BY ComparisonRows
  <2> QED
    BY <1>4, <2>1, AddedByHand DEF AddOverride
<1>5. ASSUME NEW i \in DOMAIN comparisons, Recompare(i) PROVE SuggestionsInv'
  <2>1. PICK row, used : MovedTo(overrides', used, row)
    BY <1>5, RecompareStores
  <2>2. Extend(overrides') /\ DOMAIN overrides' = DOMAIN overrides
    BY <2>1 DEF MovedTo
  <2> QED
    BY <1>5, <2>2, CorrectionsUntouched DEF Recompare
<1>6. ASSUME NEW c \in Correctable, NEW v \in Values, CorrectCase(c, v) PROVE SuggestionsInv'
  BY <1>6, AddedByHand DEF CorrectCase, CaseOwner
<1>7. CASE ResolveCase
  BY <1>1, <1>7 DEF ResolveCase, ReviewedWith
<1>8. CASE DismissCase
  BY <1>1, <1>8 DEF DismissCase
<1>9. ASSUME NEW c \in Correctable, NEW v \in Values, Ask(c, v) PROVE SuggestionsInv'
  <2> DEFINE new == [cell |-> c, value |-> v, status |-> "PENDING"]
  <2>1. suggestions' = Append(suggestions, new) /\ overrides' = overrides
    BY <1>9 DEF Ask
  <2>2. new \in Suggestions /\ new.status = "PENDING"
    BY DEF Suggestions
  <2> HIDE DEF new
  <2>3. /\ suggestions \in Seq(Suggestions) /\ Len(suggestions) \in Nat
        /\ DOMAIN suggestions = 1 .. Len(suggestions)
    BY SuggestionRows DEF TypeOK
  <2>4. /\ suggestions' \in Seq(Suggestions) /\ Len(suggestions') = Len(suggestions) + 1
        /\ \A k \in DOMAIN suggestions : suggestions'[k] = suggestions[k]
        /\ suggestions'[Len(suggestions) + 1] = new
    BY <2>1, <2>2, <2>3
  <2>5. DOMAIN suggestions' \ DOMAIN suggestions = {Len(suggestions) + 1}
    BY <2>3, <2>4
  <2>6. /\ \A k \in DOMAIN suggestions : Applied(k)' <=> Applied(k)
        /\ \A k \in DOMAIN suggestions' \ DOMAIN suggestions : ~Applied(k)'
    BY <2>2, <2>4, <2>5 DEF Applied
  <2>7. Extend(overrides')
    BY <2>1 DEF Extend, TypeOK
  <2> QED
    BY <2>1, <2>3, <2>4, <2>6, <2>7, SuggestionsKept
<1>10. ASSUME NEW k \in DOMAIN suggestions, NEW v \in Values, NEW status \in {"ACCEPTED", "EDITED_APPLIED"},
              Apply(k, v, status)
       PROVE  SuggestionsInv'
  <2> DEFINE new == Len(overrides) + 1
             cell == suggestions[k].cell
  <2>1. /\ k \in Nat \ {0} /\ cell \in Correctable
        /\ DOMAIN suggestions = 1 .. Len(suggestions) /\ Len(suggestions) \in Nat
    BY SuggestionRows DEF Suggestions
  <2>2. overrides' = Superseding(CaseOwner, cell, v, k) /\ Pending(k) /\ Decided(k, status)
    BY <1>10 DEF Apply, ReviewedWith
  <2>3. /\ suggestions' \in Seq(Suggestions) /\ Len(suggestions') = Len(suggestions)
        /\ \A j \in DOMAIN suggestions :
             suggestions'[j].status = IF j = k THEN status ELSE suggestions[j].status
    BY <2>2, DecidedRows
  <2>4. DOMAIN suggestions' = DOMAIN suggestions
    BY <2>1, <2>3
  <2>5. Added(overrides', CaseOwner, cell, v, k)
    BY <2>1, <2>2, SupersedingRows DEF CaseOwner
  <2>6. /\ DOMAIN overrides' = DOMAIN overrides \cup {new} /\ overrides'[new].suggestion = k
        /\ \A o \in DOMAIN overrides : overrides'[o].suggestion = overrides[o].suggestion
    BY <2>5 DEF Added, Extend
  <2> HIDE DEF new, cell
  <2>7. Applications(k) = {} /\ ~Applied(k)
    BY <2>2 DEF SuggestionsInv, Pending, Applied
  <2>8. Applications(k)' = {new} /\ Applied(k)'
    BY <2>3, <2>6, <2>7 DEF Applications, Applied
  <2>9. ASSUME NEW j \in DOMAIN suggestions, j # k
        PROVE  Applications(j)' = Applications(j) /\ (Applied(j)' <=> Applied(j))
    BY <2>3, <2>6, <2>9 DEF Applications, Applied
  <2> QED
    BY <2>4, <2>6, <2>8, <2>9 DEF SuggestionsInv
<1>11. ASSUME NEW k \in DOMAIN suggestions, AcceptSuggestion(k) PROVE SuggestionsInv'
  <2>1. suggestions[k].value \in Values
    BY SuggestionRows DEF Suggestions
  <2> QED
    BY <1>10, <1>11, <2>1 DEF AcceptSuggestion
<1>12. ASSUME NEW k \in DOMAIN suggestions, NEW v \in Values, EditSuggestion(k, v) PROVE SuggestionsInv'
  BY <1>10, <1>12 DEF EditSuggestion
<1>13. ASSUME NEW k \in DOMAIN suggestions, DismissSuggestion(k) PROVE SuggestionsInv'
  <2>1. Decided(k, "DISMISSED") /\ Pending(k) /\ overrides' = overrides
    BY <1>13 DEF DismissSuggestion
  <2>2. /\ suggestions' \in Seq(Suggestions) /\ Len(suggestions') = Len(suggestions)
        /\ \A j \in DOMAIN suggestions :
             suggestions'[j].status = IF j = k THEN "DISMISSED" ELSE suggestions[j].status
    BY <2>1, DecidedRows
  <2>3. \A j \in DOMAIN suggestions : Applied(j)' <=> Applied(j)
    BY <2>1, <2>2 DEF Applied, Pending
  <2>4. DOMAIN suggestions' = DOMAIN suggestions
    BY <2>2, SuggestionRows
  <2> QED
    BY <2>1, <2>3, <2>4 DEF SuggestionsInv, Applications
<1>14. CASE UNCHANGED vars
  BY <1>1, <1>14 DEF vars
<1> QED
  BY <1>2, <1>3, <1>4, <1>5, <1>6, <1>7, <1>8, <1>9, <1>11, <1>12, <1>13, <1>14 DEF Next

(* AIReviewService.accept, edit_apply and dismiss: a suggestion is applied     *)
(* once when its status says so, and never otherwise.                         *)
THEOREM SuggestionsApplyOnce == Spec => []SuggestionAppliedOnce
<1>1. Init => SuggestionsInv
  BY DEF Init, SuggestionsInv
<1>2. SuggestionsInv => SuggestionAppliedOnce
  <2> SUFFICES ASSUME SuggestionsInv, NEW k \in DOMAIN suggestions
               PROVE  Cardinality(Applications(k)) = IF Applied(k) THEN 1 ELSE 0
    BY DEF SuggestionAppliedOnce, Applications, Applied
  <2>1. CASE Applied(k)
    <3>1. PICK o \in DOMAIN overrides : Applications(k) = {o}
      BY <2>1 DEF SuggestionsInv
    <3> QED
      BY <2>1, <3>1, FS_Singleton
  <2>2. CASE ~Applied(k)
    BY <2>2, FS_EmptySet DEF SuggestionsInv
  <2> QED
    BY <2>1, <2>2
<1> QED
  BY <1>1, <1>2, TypeCorrect, NextKeepsSuggestions, PTL DEF Spec
=============================================================================
