--------------------------- MODULE ReviewProofs ---------------------------
(***************************************************************************)
(* Theorems about the Human Review of ReviewWorkflow, for any targets,      *)
(* reasons, requests and bounds.                                           *)
(***************************************************************************)
EXTENDS ReviewWorkflow, FiniteSetTheorems, SequenceTheorems, NaturalsInduction,
        WellFoundedInduction, TLAPS

(* The targets with an active correction of a case, and those corrected by a  *)
(* stored comparison.                                                        *)
Standing(c)  == {overrides[k].target : k \in ActiveOverrides(c)}
Corrected(i) == {overrides[k].target : k \in comparisons[i].corrections}

(* A comparison corrects what still stands, and what the earlier comparisons  *)
(* of its case corrected.                                                    *)
CoverInv ==
  \A j \in DOMAIN comparisons : comparisons[j].case # 0 =>
    /\ Corrected(j) \subseteq Standing(comparisons[j].case)
    /\ \A i \in 1..j : comparisons[i].case = comparisons[j].case =>
         Corrected(i) \subseteq Corrected(j)

(* A resolved case has a comparison with all its corrections that leaves no    *)
(* field open.                                                               *)
ResolvedInv ==
  \A c \in CaseIds : cases[c].status = "RESOLVED" =>
    \E i \in DOMAIN comparisons :
      /\ comparisons[i].case = c /\ comparisons[i].unresolved = {}
      /\ Standing(c) \subseteq Corrected(i)

(* The targets corrected by the comparison of the plan, and AppliedIsCompared  *)
(* with the row it speaks of.                                                *)
Compared == {overrides[k].target : k \in comparisons[plan.applied].corrections}

AppliedInv ==
  HasPlan /\ plan.status = "APPLIED" =>
    /\ plan.applied \in DOMAIN comparisons
    /\ \A t \in DOMAIN plan.items : plan.items[t] = "APPLIED" => t \in Compared

(* What a single request has loaded is the plan.                              *)
LoadedInv == \A r \in Requests : session[r].step = "LOADED" => Seen(r) = plan

(* Two active corrections of one case and target are the same row.            *)
UniqueInv ==
  \A i, j \in DOMAIN overrides :
    (/\ overrides[i].active /\ overrides[j].active
     /\ overrides[i].case = overrides[j].case
     /\ overrides[i].target = overrides[j].target) => i = j

(* No two rows of the plan for one target, and none before its confirmation.  *)
WritesInv ==
  /\ \A i, j \in DOMAIN overrides :
       (/\ overrides[i].author = "PLAN" /\ overrides[j].author = "PLAN"
        /\ overrides[i].target = overrides[j].target) => i = j
  /\ (\E i \in DOMAIN overrides : overrides[i].author = "PLAN") =>
       HasPlan /\ plan.status # "DRAFT"
----------------------------------------------------------------------------
(* Operator lemmas *)

LEMMA LeastOf ==
  ASSUME NEW S \in SUBSET Nat, S # {}
  PROVE  Min(S) \in S /\ \A j \in S : Min(S) <= j
<1>1. IsWellFoundedOn(OpToRel(<, Nat), Nat)
  BY NatLessThanWellFounded
<1>2. PICK i \in S : \A j \in S : ~(<<j, i>> \in OpToRel(<, Nat))
  BY <1>1, WFMin
<1>3. \A j \in S : ~(j < i)
  BY <1>2 DEF OpToRel
<1>4. \E x \in S : \A y \in S : x <= y
  BY <1>3
<1> QED
  BY <1>4 DEF Min

LEMMA GreatestOf ==
  ASSUME NEW n \in Nat, NEW S \in SUBSET (1..n), S # {}
  PROVE  Max(S) \in S /\ \A j \in S : j <= Max(S)
<1> DEFINE T == {n - i : i \in S}
<1>1. T \in SUBSET Nat
  OBVIOUS
<1>2. T # {}
  OBVIOUS
<1>3. PICK t \in T : \A u \in T : t <= u
  BY <1>1, <1>2, LeastOf
<1>4. PICK i \in S : t = n - i
  BY <1>3
<1>5. \A j \in S : n - j \in T
  OBVIOUS
<1> HIDE DEF T
<1>6. \E x \in S : \A y \in S : x >= y
  BY <1>3, <1>4, <1>5
<1>7. Max(S) \in S /\ \A y \in S : Max(S) >= y
  BY <1>6 DEF Max
<1> QED
  BY <1>7

LEMMA SetToSeqFacts ==
  ASSUME NEW S, IsFiniteSet(S)
  PROVE  /\ Cardinality(S) \in Nat
         /\ SetToSeq(S) \in [1..Cardinality(S) -> S]
         /\ \A j, k \in 1..Cardinality(S) : SetToSeq(S)[j] = SetToSeq(S)[k] => j = k
         /\ \A x \in S : \E k \in 1..Cardinality(S) : SetToSeq(S)[k] = x
<1> DEFINE n == Cardinality(S)
           f == SetToSeq(S)
<1>1. n \in Nat /\ ExistsBijection(1..n, S)
  BY FS_CardinalityType
<1>2. \E g \in [1..n -> S] : IsInjective(g)
  BY <1>1 DEF ExistsBijection, Bijection, Injection
<1>3. f \in [1..n -> S] /\ IsInjective(f)
  BY <1>2 DEF SetToSeq
<1>4. f \in Injection(1..n, S)
  BY <1>3 DEF Injection
<1>5. IsFiniteSet(1..n) /\ Cardinality(1..n) = n
  BY <1>1, FS_Interval
<1>6. f \in Surjection(1..n, S)
  BY <1>4, <1>5, FS_Injection
<1> QED
  BY <1>1, <1>3, <1>6 DEF IsInjective, Surjection

LEMMA MapSeq ==
  ASSUME NEW S, NEW n \in Nat, NEW f \in [1..n -> S]
  PROVE  f \in Seq(S) /\ Len(f) = n
BY SeqDef

LEMMA AppendSeq ==
  ASSUME NEW S, NEW s \in Seq(S), NEW e \in S
  PROVE  /\ Append(s, e) \in Seq(S) /\ Len(Append(s, e)) = Len(s) + 1
         /\ DOMAIN Append(s, e) = 1..(Len(s) + 1) /\ Append(s, e)[Len(s) + 1] = e
         /\ \A i \in 1..Len(s) : Append(s, e)[i] = s[i]
OBVIOUS

(* The rows after corrections of a case: the old ones, with the superseded    *)
(* ones no longer active, and one new row for each target.                    *)
Superseding(rows, c, targets, author) ==
  LET old == Len(overrides)
      new == Cardinality(targets)
  IN  /\ rows \in Seq(OverrideRows) /\ new \in Nat /\ Len(rows) = old + new
      /\ \A i \in 1..old :
           /\ rows[i].case = overrides[i].case /\ rows[i].target = overrides[i].target
           /\ rows[i].author = overrides[i].author
           /\ rows[i].active <=> /\ overrides[i].active
                                 /\ ~(overrides[i].case = c /\ overrides[i].target \in targets)
      /\ \A i \in (old + 1)..(old + new) :
           /\ rows[i].case = c /\ rows[i].author = author /\ rows[i].active = TRUE
           /\ rows[i].target \in targets
      /\ \A t \in targets : \E i \in (old + 1)..(old + new) : rows[i].target = t
      /\ \A i, j \in (old + 1)..(old + new) : rows[i].target = rows[j].target => i = j

LEMMA OverrideFacts ==
  ASSUME TypeOK, NEW c \in Nat \ {0}, NEW targets \in SUBSET Targets, IsFiniteSet(targets),
         NEW author \in {"REVIEWER", "PLAN"}
  PROVE  Superseding(Override(c, targets, author), c, targets, author)
<1> DEFINE old == Len(overrides)
           new == Cardinality(targets)
           superseded == {i \in ActiveOverrides(c) : overrides[i].target \in targets}
           kept == [i \in DOMAIN overrides |->
                      [overrides[i] EXCEPT !.active = @ /\ i \notin superseded]]
           names == SetToSeq(targets)
           added == [k \in 1..new |-> [case |-> c, target |-> names[k], author |-> author,
                                       active |-> TRUE]]
           rows == kept \o added
<1>1. rows = Override(c, targets, author)
  BY DEF Override
<1>2. /\ old \in Nat /\ DOMAIN overrides = 1..old
      /\ \A i \in 1..old : overrides[i] \in OverrideRows
  BY DEF TypeOK
<1>3. /\ new \in Nat /\ names \in [1..new -> targets]
      /\ \A j, k \in 1..new : names[j] = names[k] => j = k
      /\ \A t \in targets : \E k \in 1..new : names[k] = t
  BY SetToSeqFacts
<1>4. kept \in [1..old -> OverrideRows]
  <2>1. ASSUME NEW i \in 1..old
        PROVE  kept[i] \in OverrideRows
    BY <1>2, <2>1 DEF OverrideRows
  <2> QED
    BY <1>2, <2>1
<1>5. added \in [1..new -> OverrideRows]
  BY <1>3 DEF OverrideRows
<1>6. kept \in Seq(OverrideRows) /\ Len(kept) = old
  BY <1>2, <1>4, MapSeq
<1>7. added \in Seq(OverrideRows) /\ Len(added) = new
  BY <1>3, <1>5, MapSeq
<1>8. ASSUME NEW i \in 1..old
      PROVE  /\ kept[i].case = overrides[i].case /\ kept[i].target = overrides[i].target
             /\ kept[i].author = overrides[i].author
             /\ kept[i].active <=> /\ overrides[i].active
                                   /\ ~(overrides[i].case = c /\ overrides[i].target \in targets)
  <2>1. overrides[i] \in OverrideRows /\ i \in DOMAIN overrides
    BY <1>2, <1>8
  <2>2. /\ kept[i].case = overrides[i].case /\ kept[i].target = overrides[i].target
        /\ kept[i].author = overrides[i].author
        /\ kept[i].active = (overrides[i].active /\ i \notin superseded)
    BY <2>1 DEF OverrideRows
  <2>3. i \in superseded <=> /\ overrides[i].active /\ overrides[i].case = c
                             /\ overrides[i].target \in targets
    BY <2>1 DEF ActiveOverrides
  <2> QED
    BY <2>2, <2>3
<1>9. /\ \A k \in 1..new : /\ added[k].case = c /\ added[k].author = author
                           /\ added[k].active = TRUE /\ added[k].target = names[k]
  OBVIOUS
<1> HIDE DEF kept, added, names
<1>10. /\ rows \in Seq(OverrideRows) /\ Len(rows) = old + new
       /\ \A i \in 1..old : rows[i] = kept[i]
       /\ \A i \in (old + 1)..(old + new) : rows[i] = added[i - old]
  BY <1>2, <1>3, <1>6, <1>7
<1> HIDE DEF rows, old, new
<1>11. \A i \in (old + 1)..(old + new) : i - old \in 1..new
  BY <1>2, <1>3
<1>12. \A t \in targets : \E i \in (old + 1)..(old + new) : rows[i].target = t
  <2>1. ASSUME NEW t \in targets
        PROVE  \E i \in (old + 1)..(old + new) : rows[i].target = t
    <3>1. PICK k \in 1..new : names[k] = t
      BY <1>3, <2>1
    <3>2. old + k \in (old + 1)..(old + new) /\ (old + k) - old = k
      BY <1>2, <1>3, <3>1
    <3> QED
      BY <1>9, <1>10, <3>1, <3>2
  <2> QED
    BY <2>1
<1>13. ASSUME NEW i \in (old + 1)..(old + new), NEW j \in (old + 1)..(old + new),
              rows[i].target = rows[j].target
       PROVE  i = j
  <2>1. names[i - old] = names[j - old]
    BY <1>9, <1>10, <1>11, <1>13
  <2>2. i - old = j - old
    BY <1>3, <1>11, <1>13, <2>1
  <2> QED
    BY <1>2, <1>3, <1>13, <2>2
<1>14. \A i \in (old + 1)..(old + new) :
         /\ rows[i].case = c /\ rows[i].author = author /\ rows[i].active = TRUE
         /\ rows[i].target \in targets
  BY <1>3, <1>9, <1>10, <1>11
<1>15. \A i \in 1..old :
         /\ rows[i].case = overrides[i].case /\ rows[i].target = overrides[i].target
         /\ rows[i].author = overrides[i].author
         /\ rows[i].active <=> /\ overrides[i].active
                               /\ ~(overrides[i].case = c /\ overrides[i].target \in targets)
  BY <1>8, <1>10
<1>16. \A i, j \in (old + 1)..(old + new) : rows[i].target = rows[j].target => i = j
  BY <1>13
<1>17. rows \in Seq(OverrideRows) /\ new \in Nat /\ Len(rows) = old + new
  BY <1>3, <1>10
<1> USE DEF old, new
<1> QED
  BY <1>1, <1>12, <1>14, <1>15, <1>16, <1>17 DEF Superseding
----------------------------------------------------------------------------
(* What the operations do to the rows *)

LEMMA RowFacts ==
  ASSUME TypeOK
  PROVE  /\ Len(cases) \in Nat /\ CaseIds = 1..Len(cases)
         /\ \A c \in CaseIds : cases[c] \in CaseRows /\ cases[c].source \in 0..Len(comparisons)
         /\ Len(comparisons) \in Nat /\ DOMAIN comparisons = 1..Len(comparisons)
         /\ \A i \in DOMAIN comparisons :
              /\ comparisons[i] \in ComparisonRows /\ comparisons[i].docs \in 1..i
              /\ comparisons[i].case \in 0..Len(cases)
              /\ comparisons[i].corrections \subseteq DOMAIN overrides
         /\ Len(overrides) \in Nat /\ DOMAIN overrides = 1..Len(overrides)
         /\ \A k \in DOMAIN overrides : overrides[k] \in OverrideRows /\ overrides[k].case \in CaseIds
BY DEF TypeOK, CaseIds

(* The cases after a run of the pipeline that may open one about a source.    *)
Represented(new, source) ==
  /\ new \in Seq(CaseRows) /\ Len(new) \in {Len(cases), Len(cases) + 1}
  /\ \A c \in CaseIds :
       \/ new[c] = cases[c]
       \/ Active(c) /\ new[c].status = "DISMISSED" /\ new[c].source = cases[c].source
  /\ \A c \in DOMAIN new \ CaseIds : new[c].status = "OPEN" /\ new[c].source = source

LEMMA RetireFacts ==
  ASSUME TypeOK, NEW keep
  PROVE  /\ Len(Retire(keep)) = Len(cases)
         /\ \A source : Represented(Retire(keep), source)
<1> DEFINE new == Retire(keep)
<1>1. \A c \in CaseIds : new[c] = IF Active(c) /\ c \notin keep
                                    THEN [cases[c] EXCEPT !.status = "DISMISSED", !.by = "SYSTEM"]
                                    ELSE cases[c]
  BY DEF Retire
<1>2. DOMAIN new = CaseIds
  BY DEF Retire
<1>3. ASSUME NEW c \in CaseIds
      PROVE  /\ new[c] \in CaseRows
             /\ \/ new[c] = cases[c]
                \/ Active(c) /\ new[c].status = "DISMISSED" /\ new[c].source = cases[c].source
  <2>1. cases[c] \in CaseRows
    BY RowFacts
  <2> QED
    BY <1>1, <2>1 DEF CaseRows
<1>4. new \in [1..Len(cases) -> CaseRows]
  <2>1. new = [c \in CaseIds |-> new[c]]
    BY DEF Retire
  <2> HIDE DEF new
  <2> QED
    BY <1>3, <2>1, RowFacts
<1>5. new \in Seq(CaseRows) /\ Len(new) = Len(cases)
  BY <1>4, RowFacts, MapSeq
<1> HIDE DEF new
<1>6. \A source : Represented(new, source)
  BY <1>2, <1>3, <1>5 DEF Represented
<1> QED
  BY <1>5, <1>6 DEF new

LEMMA EnsureFacts ==
  ASSUME TypeOK, NEW reason \in CaseReasons, NEW source \in Nat, NEW content \in Nat \ {0}
  PROVE  LET new == Ensure(reason, source, content)
         IN  Represented(new, source) /\ \E c \in DOMAIN new : new[c].status \in ActiveStatuses
<1> DEFINE retired  == Retire(Kept(reason, source))
           identity == Identity(content, reason, source)
           opened   == [status |-> "OPEN", reason |-> reason, source |-> source,
                        identity |-> identity, by |-> "NOBODY"]
           new      == Ensure(reason, source, content)
<1>1. Represented(retired, source) /\ Len(retired) = Len(cases)
  BY RetireFacts
<1>2. /\ Len(cases) \in Nat /\ CaseIds = 1..Len(cases)
      /\ retired \in Seq(CaseRows) /\ DOMAIN retired = CaseIds
  BY <1>1, RowFacts DEF Represented
<1>3. identity \in Identities
  BY DEF Identity, Identities
<1>4. opened \in CaseRows
  BY <1>3 DEF CaseRows, ActiveStatuses
<1> HIDE DEF identity
<1>5. \/ new = retired /\ \E c \in CaseIds : retired[c].status \in ActiveStatuses
      \/ new = Append(retired, opened)
  BY DEF Ensure, identity
<1> HIDE DEF new, retired, opened
<1>6. CASE new = retired /\ \E c \in CaseIds : retired[c].status \in ActiveStatuses
  BY <1>1, <1>2, <1>6 DEF new
<1>7. CASE new = Append(retired, opened)
  <2>1. /\ new \in Seq(CaseRows) /\ Len(new) = Len(cases) + 1
        /\ DOMAIN new = 1..(Len(cases) + 1)
        /\ new[Len(cases) + 1] = opened
        /\ \A c \in CaseIds : new[c] = retired[c]
    BY <1>1, <1>2, <1>4, <1>7
  <2>2. opened.status = "OPEN" /\ opened.source = source
    BY DEF opened
  <2>3. DOMAIN new \ CaseIds = {Len(cases) + 1} /\ Len(cases) + 1 \in DOMAIN new
    BY <1>2, <2>1
  <2>4. Represented(new, source)
    BY <1>1, <2>1, <2>2, <2>3 DEF Represented
  <2>5. new[Len(cases) + 1].status \in ActiveStatuses
    BY <2>1, <2>2 DEF ActiveStatuses
  <2> QED
    BY <2>3, <2>4, <2>5 DEF new
<1> QED
  BY <1>5, <1>6, <1>7

LEMMA StoredAsFacts ==
  ASSUME TypeOK, NEW version
  PROVE  \/ StoredAs(version) = Len(comparisons) + 1
         \/ StoredAs(version) \in DOMAIN comparisons /\ comparisons[StoredAs(version)] = version
<1> DEFINE same == {i \in DOMAIN comparisons : comparisons[i] = version}
<1>1. same \in SUBSET Nat
  BY RowFacts
<1>2. same # {} => Min(same) \in same
  BY <1>1, LeastOf
<1> QED
  BY <1>2 DEF StoredAs

(* What a re-comparison stores, and what becomes of its case.                 *)
LEMMA RecompareFacts ==
  ASSUME TypeOK, NEW c \in CaseIds, NEW seen, Recompare(c, seen)
  PROVE  LET version == ReviewVersion(c)
             n == Len(comparisons)
         IN  /\ seen \in ActiveStatuses
             /\ version \in ComparisonRows /\ version.docs \in 1..n /\ version.case = c
             /\ version.corrections = ActiveOverrides(c)
             /\ \/ /\ comparisons' = comparisons /\ StoredAs(version) \in 1..n
                   /\ comparisons[StoredAs(version)] = version
                \/ /\ comparisons' = Append(comparisons, version)
                   /\ StoredAs(version) = n + 1
             /\ email' \in [status : {"COMPLETED", "BLOCKED"}, content : {email.content}]
             /\ \/ email'.status = "COMPLETED" \/ cases'[c].status = "IN_REVIEW"
                \/ cases' = cases /\ seen = "IN_REVIEW"
             /\ \/ cases' = cases
                \/ \E status \in {"RESOLVED", "IN_REVIEW"} :
                     /\ cases' = [cases EXCEPT ![c].status = status]
                     /\ status = "RESOLVED" => version.unresolved = {}
<1> DEFINE version == ReviewVersion(c)
           n == Len(comparisons)
           docs == comparisons[SourceOf(c)].docs
<1>1. /\ n \in Nat /\ DOMAIN comparisons = 1..n
      /\ CaseIds = 1..Len(cases) /\ Len(cases) \in Nat /\ cases[c].source \in 0..n
      /\ \A i \in 1..n : comparisons[i] \in ComparisonRows /\ comparisons[i].docs \in 1..i
      /\ DOMAIN overrides = 1..Len(overrides) /\ Len(overrides) \in Nat
  BY RowFacts
<1>2. SourceOf(c) \in 1..n
  BY <1>1 DEF Recompare, SourceOf
<1>3. docs \in 1..n
  BY <1>1, <1>2
<1>4. comparisons[docs].unresolved \subseteq Targets
  BY <1>1, <1>3 DEF ComparisonRows
<1>5. ActiveOverrides(c) \subseteq Nat
  BY <1>1 DEF ActiveOverrides
<1>6. OpenFields(docs, ActiveOverrides(c)) \subseteq Targets
  BY <1>4 DEF OpenFields
<1>7. version = [docs |-> docs, case |-> c, corrections |-> ActiveOverrides(c),
                 unresolved |-> OpenFields(docs, ActiveOverrides(c))]
  BY DEF ReviewVersion
<1> HIDE DEF docs, version
<1>8. version.docs \in 1..n /\ version.case = c /\ version.corrections = ActiveOverrides(c)
  BY <1>3, <1>7
<1>9. version \in ComparisonRows
  BY <1>1, <1>3, <1>5, <1>6, <1>7 DEF ComparisonRows
<1>10. \/ StoredAs(version) = n + 1
       \/ StoredAs(version) \in 1..n /\ comparisons[StoredAs(version)] = version
  BY <1>1, StoredAsFacts
<1>11. comparisons' = IF StoredAs(version) \in DOMAIN comparisons THEN comparisons
                                                        ELSE Append(comparisons, version)
  BY DEF Recompare, version
<1>12. \/ /\ comparisons' = comparisons /\ StoredAs(version) \in 1..n
          /\ comparisons[StoredAs(version)] = version
       \/ /\ comparisons' = Append(comparisons, version)
          /\ StoredAs(version) = n + 1
  <2>1. n + 1 \notin 1..n
    BY <1>1
  <2>2. CASE StoredAs(version) = n + 1
    BY <1>1, <1>11, <2>1, <2>2
  <2>3. CASE StoredAs(version) \in 1..n /\ comparisons[StoredAs(version)] = version
    BY <1>1, <1>11, <2>3
  <2> QED
    BY <1>10, <2>2, <2>3
<1> DEFINE definite == version.unresolved = {}
           status == IF definite THEN "RESOLVED" ELSE "IN_REVIEW"
<1>13. /\ seen \in ActiveStatuses
       /\ email' = [email EXCEPT !.status = IF definite THEN "COMPLETED" ELSE "BLOCKED"]
       /\ cases' = IF status = seen THEN cases ELSE [cases EXCEPT ![c].status = status]
  BY DEF Recompare, version
<1> HIDE DEF definite
<1>14. email' \in [status : {"COMPLETED", "BLOCKED"}, content : {email.content}]
  BY <1>13 DEF TypeOK
<1>15. \/ email'.status = "COMPLETED" \/ cases'[c].status = "IN_REVIEW"
       \/ cases' = cases /\ seen = "IN_REVIEW"
  <2>1. CASE definite
    BY <1>13, <2>1 DEF TypeOK
  <2>2. CASE ~definite
    <3>1. cases[c] \in CaseRows
      BY RowFacts
    <3>2. cases \in Seq(CaseRows) /\ c \in DOMAIN cases
      BY DEF TypeOK, CaseIds
    <3> QED
      BY <1>13, <2>2, <3>1, <3>2 DEF CaseRows
  <2> QED
    BY <2>1, <2>2
<1>16. \/ cases' = cases
       \/ \E s \in {"RESOLVED", "IN_REVIEW"} :
            /\ cases' = [cases EXCEPT ![c].status = s]
            /\ s = "RESOLVED" => version.unresolved = {}
  <2>1. status \in {"RESOLVED", "IN_REVIEW"} /\ (status = "RESOLVED" => version.unresolved = {})
    BY DEF definite
  <2> QED
    BY <1>13, <2>1
<1> USE DEF n
<1> QED
  BY <1>8, <1>9, <1>12, <1>13, <1>14, <1>15, <1>16 DEF version
----------------------------------------------------------------------------
(* What a step may do to the rows *)

(* A run of the pipeline.                                                     *)
Processed ==
  /\ UNCHANGED <<overrides, plan, session, faults>>
  /\ email' \in [status : Settled \cup {"COMPLETED", "BLOCKED"}, content : 1..(syncs + 2)]
  /\ syncs < MaxSyncs /\ syncs' = syncs + 1
  /\ \/ comparisons' = comparisons
     \/ \E unresolved \in SUBSET Targets :
          comparisons' = Append(comparisons, [docs |-> Len(comparisons) + 1, case |-> 0,
                                              corrections |-> {}, unresolved |-> unresolved])
  /\ \E source \in 0..Len(comparisons') : Represented(cases', source)
  /\ email'.status = "BLOCKED" => \E c \in DOMAIN cases' : cases'[c].status \in ActiveStatuses

LEMMA SyncFacts ==
  ASSUME TypeOK, Sync
  PROVE  Processed
<1> USE ReviewAssumption
<1>1. PICK changed \in BOOLEAN :
        \/ \E status \in Settled : SyncSettles(changed, status)
        \/ \E reason \in Reasons : SyncBlocks(changed, reason)
        \/ \E unresolved \in SUBSET Targets : SyncCompares(changed, unresolved)
        \/ \E earlier \in DOMAIN comparisons : SyncReuses(changed, earlier)
  BY DEF Sync
<1>2. /\ syncs \in Nat /\ email.content \in 1..(syncs + 1)
      /\ Len(comparisons) \in Nat /\ DOMAIN comparisons = 1..Len(comparisons)
  BY RowFacts DEF TypeOK
<1> DEFINE content == NewContent(changed)
<1>3. content \in 1..(syncs + 2) /\ content \in Nat \ {0}
  BY <1>2 DEF NewContent
<1> HIDE DEF content
<1>4. ASSUME NEW status \in Settled, SyncSettles(changed, status)
      PROVE  Processed
  <2>1. Represented(cases', 0)
    BY <1>4, RetireFacts DEF SyncSettles
  <2>2. status # "BLOCKED"
    BY <1>4 DEF ReviewAssumption
  <2>3. 0 \in 0..Len(comparisons')
    BY <1>2, <1>4 DEF SyncSettles
  <2>4. email' = [status |-> status, content |-> content]
    BY <1>4 DEF SyncSettles, content
  <2>5. /\ email' \in [status : Settled \cup {"COMPLETED", "BLOCKED"}, content : 1..(syncs + 2)]
        /\ email'.status # "BLOCKED"
    BY <1>3, <1>4, <2>2, <2>4
  <2> QED
    BY <1>4, <2>1, <2>3, <2>5 DEF SyncSettles, SyncContent, Processed
<1>5. ASSUME NEW reason \in Reasons, SyncBlocks(changed, reason)
      PROVE  Processed
  <2>1. cases' = Ensure(reason, 0, content) /\ reason \in CaseReasons
    BY <1>5 DEF SyncBlocks, content, CaseReasons
  <2>2. Represented(cases', 0) /\ \E c \in DOMAIN cases' : cases'[c].status \in ActiveStatuses
    BY <1>3, <2>1, EnsureFacts
  <2>3. 0 \in 0..Len(comparisons')
    BY <1>2, <1>5 DEF SyncBlocks
  <2>4. email' = [status |-> "BLOCKED", content |-> content]
    BY <1>5 DEF SyncBlocks, content
  <2>5. email' \in [status : Settled \cup {"COMPLETED", "BLOCKED"}, content : 1..(syncs + 2)]
    BY <1>3, <2>4
  <2> QED
    BY <1>5, <2>2, <2>3, <2>5 DEF SyncBlocks, SyncContent, Processed
<1>6. ASSUME NEW unresolved, Conclude(changed, unresolved), Len(comparisons') \in Nat
      PROVE  /\ email' \in [status : Settled \cup {"COMPLETED", "BLOCKED"}, content : 1..(syncs + 2)]
             /\ \E source \in 0..Len(comparisons') : Represented(cases', source)
             /\ email'.status = "BLOCKED" =>
                  \E c \in DOMAIN cases' : cases'[c].status \in ActiveStatuses
  <2>1. CASE unresolved = {}
    <3>1. email' = [status |-> "COMPLETED", content |-> content] /\ cases' = Retire({})
      BY <1>6, <2>1 DEF Conclude, content
    <3>2. Represented(cases', 0) /\ 0 \in 0..Len(comparisons')
      BY <1>6, <3>1, RetireFacts
    <3> QED
      BY <1>3, <3>1, <3>2
  <2>2. CASE unresolved # {}
    <3> DEFINE source == Len(comparisons')
    <3>1. /\ email' = [status |-> "BLOCKED", content |-> content]
          /\ cases' = Ensure("COMPARISON_UNRESOLVED", source, content)
      BY <1>6, <2>2 DEF Conclude, content
    <3>2. source \in 0..Len(comparisons') /\ source \in Nat
          /\ "COMPARISON_UNRESOLVED" \in CaseReasons
      BY <1>6 DEF CaseReasons
    <3> HIDE DEF source
    <3>3. Represented(cases', source) /\ \E c \in DOMAIN cases' : cases'[c].status \in ActiveStatuses
      BY <1>3, <3>1, <3>2, EnsureFacts
    <3> QED
      BY <1>3, <3>1, <3>2, <3>3
  <2> QED
    BY <2>1, <2>2
<1>7. ASSUME NEW unresolved \in SUBSET Targets, SyncCompares(changed, unresolved)
      PROVE  Processed
  <2>1. comparisons' = Append(comparisons, [docs |-> Len(comparisons) + 1, case |-> 0,
                                            corrections |-> {}, unresolved |-> unresolved])
    BY <1>7 DEF SyncCompares
  <2>2. comparisons \in Seq(ComparisonRows)
    BY DEF TypeOK
  <2>3. Len(comparisons') \in Nat
    BY <1>2, <2>1, <2>2
  <2> QED
    BY <1>6, <1>7, <2>1, <2>3 DEF SyncCompares, SyncContent, Processed
<1>8. ASSUME NEW earlier \in DOMAIN comparisons, SyncReuses(changed, earlier)
      PROVE  Processed
  <2>1. Len(comparisons') \in Nat
    BY <1>2, <1>8 DEF SyncReuses
  <2> QED
    BY <1>6, <1>8, <2>1 DEF SyncReuses, SyncContent, Processed
<1> QED
  BY <1>1, <1>4, <1>5, <1>7, <1>8

(* The corrections of a case, added to the rows.                              *)
Corrects(c, targets, author) ==
  /\ c \in CaseIds /\ Active(c) /\ targets \subseteq Targets
  /\ overrides' \in Seq(OverrideRows) /\ Len(overrides') >= Len(overrides)
  /\ \A k \in DOMAIN overrides :
       /\ overrides'[k].case = overrides[k].case /\ overrides'[k].target = overrides[k].target
       /\ overrides'[k].author = overrides[k].author
       /\ overrides'[k].active => /\ overrides[k].active
                                 /\ ~(overrides[k].case = c /\ overrides[k].target \in targets)
  /\ \A k \in DOMAIN overrides' \ DOMAIN overrides :
       /\ overrides'[k].case = c /\ overrides'[k].author = author
       /\ overrides'[k].target \in targets
  /\ \A i, j \in DOMAIN overrides' \ DOMAIN overrides :
       overrides'[i].target = overrides'[j].target => i = j
  /\ targets \subseteq Standing(c)'
  /\ \A d : Standing(d) \subseteq Standing(d)'
  /\ \A d : d # c => Standing(d)' \subseteq Standing(d)

LEMMA CorrectsFacts ==
  ASSUME TypeOK, NEW c \in CaseIds, Active(c), NEW targets \in SUBSET Targets,
         NEW author \in {"REVIEWER", "PLAN"}, overrides' = Override(c, targets, author)
  PROVE  Corrects(c, targets, author)
<1> DEFINE old == Len(overrides)
           new == Cardinality(targets)
<1>1. IsFiniteSet(targets)
  BY ReviewAssumption, FS_Subset DEF ReviewAssumption
<1>2. c \in Nat \ {0}
  BY RowFacts
<1>3. /\ overrides' \in Seq(OverrideRows) /\ new \in Nat /\ Len(overrides') = old + new
      /\ \A i \in 1..old :
           /\ overrides'[i].case = overrides[i].case /\ overrides'[i].target = overrides[i].target
           /\ overrides'[i].author = overrides[i].author
           /\ overrides'[i].active <=>
                /\ overrides[i].active
                /\ ~(overrides[i].case = c /\ overrides[i].target \in targets)
      /\ \A i \in (old + 1)..(old + new) :
           /\ overrides'[i].case = c /\ overrides'[i].author = author
           /\ overrides'[i].active = TRUE /\ overrides'[i].target \in targets
      /\ \A t \in targets : \E i \in (old + 1)..(old + new) : overrides'[i].target = t
      /\ \A i, j \in (old + 1)..(old + new) : overrides'[i].target = overrides'[j].target => i = j
  <2>1. Superseding(overrides', c, targets, author)
    BY <1>1, <1>2, OverrideFacts
  <2> QED
    BY ONLY <2>1 DEF Superseding
<1>4. /\ old \in Nat /\ DOMAIN overrides = 1..old
      /\ DOMAIN overrides' = 1..(old + new)
  BY <1>3, RowFacts
<1> HIDE DEF old, new
<1>5. DOMAIN overrides' \ DOMAIN overrides = (old + 1)..(old + new) /\ 1..old \subseteq DOMAIN overrides'
  BY <1>3, <1>4
<1>6. \A k \in DOMAIN overrides' \ DOMAIN overrides : k \in ActiveOverrides(c)'
  BY <1>3, <1>5 DEF ActiveOverrides
<1>7. targets \subseteq Standing(c)'
  <2>1. ASSUME NEW t \in targets
        PROVE  t \in Standing(c)'
    <3>1. PICK i \in DOMAIN overrides' \ DOMAIN overrides : overrides'[i].target = t
      BY <1>3, <1>5
    <3> QED
      BY <1>6, <3>1 DEF Standing
  <2> QED
    BY <2>1
<1>8. ASSUME NEW d, NEW k \in ActiveOverrides(d)
      PROVE  overrides[k].target \in Standing(d)'
  <2>1. k \in 1..old /\ overrides[k].case = d /\ overrides[k].active
    BY <1>4, <1>8 DEF ActiveOverrides
  <2>2. CASE d = c /\ overrides[k].target \in targets
    BY <1>7, <2>2
  <2>3. CASE ~(d = c /\ overrides[k].target \in targets)
    <3>1. k \in ActiveOverrides(d)' /\ overrides'[k].target = overrides[k].target
      BY <1>3, <1>5, <2>1, <2>3 DEF ActiveOverrides
    <3> QED
      BY <3>1 DEF Standing
  <2> QED
    BY <2>2, <2>3
<1>9. \A d : Standing(d) \subseteq Standing(d)'
  BY <1>8 DEF Standing
<1>10. ASSUME NEW d, d # c, NEW k \in ActiveOverrides(d)'
       PROVE  overrides'[k].target \in Standing(d)
  <2>1. k \in DOMAIN overrides' /\ overrides'[k].case = d /\ overrides'[k].active
    BY <1>10 DEF ActiveOverrides
  <2>2. k \in 1..old
    BY <1>3, <1>4, <1>5, <1>10, <2>1
  <2>3. k \in ActiveOverrides(d) /\ overrides'[k].target = overrides[k].target
    BY <1>3, <1>4, <2>1, <2>2 DEF ActiveOverrides
  <2> QED
    BY <2>3 DEF Standing
<1>11. \A d : d # c => Standing(d)' \subseteq Standing(d)
  BY <1>10 DEF Standing
<1>12. Len(overrides') >= Len(overrides)
  BY <1>3, <1>4 DEF old, new
<1> QED
  BY <1>3, <1>4, <1>5, <1>7, <1>9, <1>11, <1>12 DEF Corrects
----------------------------------------------------------------------------
(* Plans, their items and the requests on them *)

LEMMA ItemsShape ==
  ASSUME NEW items
  PROVE  items \in Items <=>
           /\ items = [t \in DOMAIN items |-> items[t]] /\ DOMAIN items \subseteq Targets
           /\ \A t \in DOMAIN items : items[t] \in ItemStatuses
BY DEF Items

LEMMA PlanFacts ==
  ASSUME TypeOK
  PROVE  /\ HasPlan => /\ plan \in Plans /\ plan.case \in CaseIds
                       /\ plan.applied \in 0..Len(comparisons)
         /\ ~HasPlan => plan = NoPlan
BY DEF TypeOK, HasPlan, NoPlan, Plans, PlanStatuses

LEMMA SessionFacts ==
  ASSUME TypeOK, NEW r \in Requests
  PROVE  /\ session[r].step \in {"IDLE", "LOADED", "CONFIRMED"}
         /\ session[r].step = "LOADED" => HasPlan /\ Seen(r) \in Plans
         /\ session[r].step = "CONFIRMED" => HasPlan /\ session[r].keepsCase \in StaleCase
<1>1. session[r] \in Sessions
  BY DEF TypeOK
<1>2. \/ session[r] = Idle
      \/ session[r] \in [step : {"LOADED"}, plan : Plans]
      \/ session[r] \in [step : {"CONFIRMED"}, keepsCase : StaleCase]
  BY <1>1 DEF Sessions
<1>3. session[r] # Idle => HasPlan
  BY DEF TypeOK
<1> QED
  BY <1>2, <1>3 DEF Idle, Seen

(* What a step does to the items of a plan that exists.                       *)
ItemsGo(items) ==
  /\ items \in Items
  /\ \A t \in DOMAIN items : items[t] = "APPLIED" =>
       \/ t \in DOMAIN plan.items /\ plan.items[t] = "APPLIED"
       \/ t \in Standing(plan.case)'

(* The plan and the requests after a step.                                    *)
PlanGo ==
  \/ plan' = plan
  \/ ~HasPlan /\ plan' \in Plans /\ plan'.status = "DRAFT"
     /\ plan'.case \in CaseIds /\ plan'.applied = 0
     /\ \A t \in DOMAIN plan'.items : plan'.items[t] # "APPLIED"
  \/ HasPlan /\ plan' \in Plans /\ plan'.case = plan.case /\ ItemsGo(plan'.items)
     /\ plan'.applied \in 0..Len(comparisons')

SessionGo ==
  /\ session' \in [Requests -> Sessions]
  /\ \A r \in Requests : session'[r] # Idle => HasPlan

LEMMA SessionSteps ==
  ASSUME TypeOK, NEW r \in Requests
  PROVE  /\ Done(r) => SessionGo
         /\ HasPlan /\ (\E new \in Sessions : session' = [session EXCEPT ![r] = new]) => SessionGo
<1>1. Idle \in Sessions
  BY DEF Sessions
<1>2. session \in [Requests -> Sessions] /\ \A q \in Requests : session[q] # Idle => HasPlan
  BY DEF TypeOK
<1> QED
  BY <1>1, <1>2 DEF Done, SessionGo

LEMMA EditFacts ==
  ASSUME TypeOK, NEW r \in Requests, EditPlan(r)
  PROVE  PlanGo /\ SessionGo /\ UNCHANGED <<caseVars, overrides, syncs, faults>>
<1> USE ReviewAssumption
<1>1. CASE LoadPlan(r)
  <2>1. [step |-> "LOADED", plan |-> plan] \in Sessions /\ HasPlan
    BY <1>1, PlanFacts DEF LoadPlan, Sessions
  <2> QED
    BY <1>1, <2>1, SessionSteps DEF LoadPlan, PlanGo
<1>2. CASE GiveUp(r)
  BY <1>2, SessionSteps DEF GiveUp, PlanGo
<1>3. CASE CancelPlan(r)
  <2>1. HasPlan /\ plan \in Plans /\ plan.applied \in 0..Len(comparisons)
    BY <1>3, SessionFacts, PlanFacts DEF CancelPlan, Editable
  <2>2. plan' \in Plans /\ plan'.case = plan.case /\ plan'.items = plan.items
        /\ plan'.applied = plan.applied
    BY <1>3, <2>1 DEF CancelPlan, Plans, PlanStatuses
  <2>3. ItemsGo(plan'.items)
    BY <2>1, <2>2 DEF ItemsGo, Plans
  <2>4. PlanGo
    BY <1>3, <2>1, <2>2, <2>3 DEF PlanGo, CancelPlan, caseVars
  <2> QED
    BY <1>3, <2>4, SessionSteps DEF CancelPlan
<1>4. ASSUME NEW t \in Targets, RemoveItem(r, t)
      PROVE  PlanGo
  <2>1. HasPlan /\ plan \in Plans /\ plan.applied \in 0..Len(comparisons)
    BY <1>4, SessionFacts, PlanFacts DEF RemoveItem, Editable
  <2> DEFINE items == [u \in DOMAIN plan.items \ {t} |-> plan.items[u]]
  <2>2. plan.items \in Items
    BY <2>1 DEF Plans
  <2>3. ItemsGo(items)
    BY <2>2, ItemsShape DEF ItemsGo
  <2> HIDE DEF items
  <2>4. plan' = [plan EXCEPT !.items = items]
    BY <1>4 DEF RemoveItem, items
  <2>5. plan' \in Plans /\ plan'.case = plan.case /\ plan'.items = items
        /\ plan'.applied = plan.applied
    BY <2>1, <2>3, <2>4 DEF ItemsGo, Plans
  <2> QED
    BY <1>4, <2>1, <2>3, <2>5 DEF PlanGo, RemoveItem, caseVars
<1>5. ASSUME NEW t \in Targets, NEW status \in Decisions, UpdateItem(r, t, status)
      PROVE  PlanGo
  <2>1. /\ HasPlan /\ plan \in Plans /\ plan.applied \in 0..Len(comparisons)
        /\ t \in DOMAIN plan.items
    BY <1>5, SessionFacts, PlanFacts DEF UpdateItem, Editable
  <2>2. plan.items \in Items
    BY <2>1 DEF Plans
  <2> DEFINE w == Written(status, Seen(r).items[t], plan.items[t])
             items == [plan.items EXCEPT ![t] = w]
  <2>3. w = plan.items[t] \/ w \in ItemStatuses \ {"APPLIED"}
    BY DEF Written, ItemStatuses, ReviewAssumption
  <2> HIDE DEF w
  <2>4. ItemsGo(items)
    BY <2>1, <2>2, <2>3, ItemsShape DEF ItemsGo
  <2>5. plan' = [plan EXCEPT !.items = items]
    BY <1>5, <2>1 DEF UpdateItem, w, Plans
  <2> HIDE DEF items
  <2>6. plan' \in Plans /\ plan'.case = plan.case /\ plan'.items = items
        /\ plan'.applied = plan.applied
    BY <2>1, <2>4, <2>5 DEF ItemsGo, Plans
  <2> QED
    BY <1>5, <2>1, <2>4, <2>6 DEF PlanGo, UpdateItem, caseVars
<1>6. ASSUME NEW t \in Targets, NEW status \in NewStatuses, AddItem(r, t, status)
      PROVE  PlanGo
  <2>1. HasPlan /\ plan \in Plans /\ plan.applied \in 0..Len(comparisons)
    BY <1>6, SessionFacts, PlanFacts DEF AddItem, Editable
  <2> DEFINE items == [u \in DOMAIN plan.items \cup {t} |->
                         IF u = t THEN status ELSE plan.items[u]]
  <2>2. plan.items \in Items /\ status \in ItemStatuses \ {"APPLIED"}
    BY <2>1 DEF Plans, ItemStatuses, ReviewAssumption
  <2>3. ItemsGo(items)
    BY <2>2, ItemsShape DEF ItemsGo
  <2> HIDE DEF items
  <2>4. plan' = [plan EXCEPT !.items = items]
    BY <1>6 DEF AddItem, items
  <2>5. plan' \in Plans /\ plan'.case = plan.case /\ plan'.items = items
        /\ plan'.applied = plan.applied
    BY <2>1, <2>3, <2>4 DEF ItemsGo, Plans
  <2> QED
    BY <1>6, <2>1, <2>3, <2>5 DEF PlanGo, AddItem, caseVars
<1> QED
  BY <1>1, <1>2, <1>3, <1>4, <1>5, <1>6, SessionSteps
  DEF EditPlan, RemoveItem, UpdateItem, AddItem
----------------------------------------------------------------------------
(* What every step leaves of the rows *)

EmailGoes ==
  /\ email' \in [status : {"NEW", "COMPLETED", "AWAITING_DOCUMENTS", "FAILED", "BLOCKED"},
                 content : 1..(syncs' + 1)]
  /\ syncs' \in 0..MaxSyncs /\ faults' \in 0..MaxFaults

(* A case is resolved by a comparison with all its corrections and no open     *)
(* field.                                                                    *)
CasesGo ==
  /\ cases' \in Seq(CaseRows) /\ Len(cases') >= Len(cases)
  /\ \A c \in DOMAIN cases' : cases'[c].source \in 0..Len(comparisons')
  /\ \A c \in DOMAIN cases' : cases'[c].status = "RESOLVED" =>
       \/ c \in CaseIds /\ cases[c].status = "RESOLVED"
       \/ /\ overrides' = overrides
          /\ \E i \in DOMAIN comparisons' :
               /\ comparisons'[i].case = c /\ comparisons'[i].unresolved = {}
               /\ comparisons'[i].corrections = ActiveOverrides(c)

(* A comparison is of new documents, or of a case as its corrections stand.   *)
ComparisonsGo ==
  \/ comparisons' = comparisons
  \/ \E row \in ComparisonRows :
       /\ comparisons' = Append(comparisons, row) /\ overrides' = overrides
       /\ row.docs \in 1..(Len(comparisons) + 1)
       /\ \/ row.case = 0 /\ row.corrections = {}
          \/ row.case \in CaseIds /\ row.corrections = ActiveOverrides(row.case)

OverridesGo ==
  \/ overrides' = overrides
  \/ \E c \in CaseIds, targets \in SUBSET Targets, author \in {"REVIEWER", "PLAN"} :
       Corrects(c, targets, author)

Grown ==
  EmailGoes /\ CasesGo /\ ComparisonsGo /\ OverridesGo /\ PlanGo /\ SessionGo

LEMMA CasesKept ==
  ASSUME TypeOK, cases' = cases,
         comparisons' = comparisons \/ \E row : comparisons' = Append(comparisons, row)
  PROVE  CasesGo
<1>1. comparisons \in Seq(ComparisonRows) /\ Len(comparisons) \in Nat
  BY DEF TypeOK
<1>2. Len(comparisons') \in {Len(comparisons), Len(comparisons) + 1}
  BY <1>1
<1>3. cases \in Seq(CaseRows) /\ \A c \in CaseIds : cases[c].source \in 0..Len(comparisons)
  BY DEF TypeOK
<1> QED
  BY <1>1, <1>2, <1>3 DEF CasesGo, CaseIds

LEMMA RowSet ==
  ASSUME TypeOK, NEW c \in CaseIds, NEW row \in CaseRows, row.source = cases[c].source
  PROVE  LET new == [cases EXCEPT ![c] = row]
         IN  /\ new \in Seq(CaseRows) /\ Len(new) = Len(cases) /\ DOMAIN new = CaseIds
             /\ new[c] = row
             /\ \A d \in CaseIds : /\ new[d].source = cases[d].source
                                   /\ d # c => new[d] = cases[d]
<1>1. cases \in Seq(CaseRows) /\ DOMAIN cases = CaseIds
  BY DEF TypeOK, CaseIds
<1> QED
  BY <1>1

(* A case whose status is set, and maybe who set it.                          *)
StatusOf(new, c, status) ==
  /\ new \in Seq(CaseRows) /\ Len(new) = Len(cases) /\ DOMAIN new = CaseIds
  /\ new[c].status = status
  /\ \A d \in CaseIds : new[d].source = cases[d].source /\ (d # c => new[d] = cases[d])

LEMMA StatusSet ==
  ASSUME TypeOK, NEW c \in CaseIds, NEW status \in ActiveStatuses \cup {"RESOLVED", "DISMISSED"}
  PROVE  /\ StatusOf([cases EXCEPT ![c].status = status], c, status)
         /\ StatusOf([cases EXCEPT ![c].status = status, ![c].by = "REVIEWER"], c, status)
<1>1. cases[c] \in CaseRows
  BY RowFacts
<1> DEFINE one == [cases[c] EXCEPT !.status = status]
           two == [cases[c] EXCEPT !.status = status, !.by = "REVIEWER"]
<1>2. one \in CaseRows /\ one.source = cases[c].source /\ one.status = status
  BY <1>1 DEF CaseRows
<1>3. two \in CaseRows /\ two.source = cases[c].source /\ two.status = status
  BY <1>1 DEF CaseRows
<1>4. cases \in Seq(CaseRows) /\ c \in DOMAIN cases
  BY DEF TypeOK, CaseIds
<1>5. [cases EXCEPT ![c].status = status] = [cases EXCEPT ![c] = one]
  OBVIOUS
<1>6. [cases EXCEPT ![c].status = status, ![c].by = "REVIEWER"] = [cases EXCEPT ![c] = two]
  BY <1>4
<1> HIDE DEF one, two
<1>7. StatusOf([cases EXCEPT ![c] = one], c, status)
  BY <1>2, RowSet DEF StatusOf
<1>8. StatusOf([cases EXCEPT ![c] = two], c, status)
  BY <1>3, RowSet DEF StatusOf
<1> QED
  BY <1>5, <1>6, <1>7, <1>8

LEMMA StatusGoes ==
  ASSUME TypeOK, NEW c \in CaseIds, NEW status \in ActiveStatuses \cup {"DISMISSED"},
         StatusOf(cases', c, status), comparisons' = comparisons
  PROVE  CasesGo
<1>1. \A d \in CaseIds : cases[d].source \in 0..Len(comparisons)
  BY DEF TypeOK
<1>2. status # "RESOLVED"
  BY DEF ActiveStatuses
<1>3. Len(cases) \in Nat
  BY RowFacts
<1> QED
  BY <1>1, <1>2, <1>3 DEF CasesGo, StatusOf

LEMMA EmailKept ==
  ASSUME TypeOK, email' = email, syncs' = syncs,
         faults' = faults \/ FaultAllowed
  PROVE  EmailGoes
<1>1. faults' \in 0..MaxFaults
  BY ReviewAssumption DEF TypeOK, FaultAllowed, ReviewAssumption
<1> QED
  BY <1>1 DEF TypeOK, EmailGoes

LEMMA SessionKept ==
  ASSUME TypeOK, session' = session
  PROVE  SessionGo
BY DEF TypeOK, SessionGo

LEMMA SyncGrows ==
  ASSUME TypeOK, Sync
  PROVE  Grown
<1> USE ReviewAssumption
<1>1. Processed
  BY SyncFacts
<1>2. EmailGoes
  <2>1. /\ syncs \in Nat /\ syncs' = syncs + 1 /\ syncs < MaxSyncs /\ MaxSyncs \in Nat
        /\ faults' = faults /\ faults \in 0..MaxFaults
    BY <1>1 DEF Processed, TypeOK, ReviewAssumption
  <2>2. syncs + 2 = syncs' + 1 /\ syncs' \in 0..MaxSyncs
    BY <2>1
  <2>3. email' \in [status : Settled \cup {"COMPLETED", "BLOCKED"}, content : 1..(syncs' + 1)]
    BY <1>1, <2>2 DEF Processed
  <2> QED
    BY <2>1, <2>2, <2>3 DEF EmailGoes, ReviewAssumption
<1>3. PICK source \in 0..Len(comparisons') : Represented(cases', source)
  BY <1>1 DEF Processed
<1>4. ComparisonsGo
  <2>1. CASE comparisons' = comparisons
    BY <2>1 DEF ComparisonsGo
  <2>2. ASSUME NEW unresolved \in SUBSET Targets,
               comparisons' = Append(comparisons, [docs |-> Len(comparisons) + 1, case |-> 0,
                                                   corrections |-> {}, unresolved |-> unresolved])
        PROVE  ComparisonsGo
    <3> DEFINE row == [docs |-> Len(comparisons) + 1, case |-> 0, corrections |-> {},
                       unresolved |-> unresolved]
    <3>1. Len(comparisons) \in Nat
      BY RowFacts
    <3>2. row \in ComparisonRows
      BY <3>1 DEF ComparisonRows
    <3>3. row.docs \in 1..(Len(comparisons) + 1) /\ row.case = 0 /\ row.corrections = {}
      BY <3>1
    <3>4. comparisons' = Append(comparisons, row)
      BY <2>2
    <3> HIDE DEF row
    <3> QED
      BY <1>1, <3>2, <3>3, <3>4 DEF ComparisonsGo, Processed
  <2> QED
    BY <1>1, <2>1, <2>2 DEF Processed
<1>5. CasesGo
  <2>1. Len(comparisons) \in Nat /\ Len(comparisons') \in {Len(comparisons), Len(comparisons) + 1}
    <3>1. comparisons \in Seq(ComparisonRows) /\ Len(comparisons) \in Nat
      BY DEF TypeOK
    <3>2. comparisons' = comparisons \/ \E row : comparisons' = Append(comparisons, row)
      BY <1>1 DEF Processed
    <3> QED
      BY <3>1, <3>2
  <2>2. Len(cases) \in Nat /\ \A c \in CaseIds : cases[c].source \in 0..Len(comparisons)
    BY RowFacts
  <2>3. \A c \in DOMAIN cases' : \/ c \in CaseIds /\ cases'[c] = cases[c]
                                 \/ /\ c \in CaseIds /\ cases'[c].status = "DISMISSED"
                                    /\ cases'[c].source = cases[c].source
                                 \/ cases'[c].status = "OPEN" /\ cases'[c].source = source
    BY <1>3 DEF Represented
  <2>4. cases' \in Seq(CaseRows) /\ Len(cases') >= Len(cases)
    BY <1>3, <2>2 DEF Represented
  <2>5. \A c \in DOMAIN cases' : cases'[c].source \in 0..Len(comparisons')
    BY <2>1, <2>2, <2>3
  <2> QED
    BY <2>3, <2>4, <2>5 DEF CasesGo
<1> QED
  BY <1>1, <1>2, <1>4, <1>5, SessionKept DEF Grown, Processed, OverridesGo, PlanGo
LEMMA CreateGrows ==
  ASSUME TypeOK, NEW c \in CaseIds, NEW items \in NewItems, CreatePlan(c, items)
  PROVE  Grown
<1> USE ReviewAssumption
<1>1. PICK S \in SUBSET Targets : items \in [S -> NewStatuses]
  BY DEF NewItems
<1>2. items \in Items /\ \A t \in DOMAIN items : items[t] # "APPLIED"
  BY <1>1, ItemsShape DEF ReviewAssumption, ItemStatuses
<1>3. plan' = [status |-> "DRAFT", case |-> c, items |-> items, applied |-> 0]
  BY DEF CreatePlan
<1>4. plan' \in Plans
  BY <1>2, <1>3, RowFacts DEF Plans, PlanStatuses
<1>5. PlanGo
  BY <1>2, <1>3, <1>4 DEF PlanGo, CreatePlan
<1> QED
  BY <1>5, CasesKept, EmailKept, SessionKept
  DEF CreatePlan, caseVars, Grown, ComparisonsGo, OverridesGo

LEMMA CaseGrows ==
  ASSUME TypeOK, NEW c \in CaseIds,
         Claim(c) \/ Dismiss(c) \/ \E t \in Targets : AddOverride(c, t)
  PROVE  Grown
<1>1. UNCHANGED <<email, comparisons, plan, session, syncs, faults>>
  BY DEF Claim, Dismiss, AddOverride
<1>2. \E status \in ActiveStatuses \cup {"DISMISSED"} : StatusOf(cases', c, status)
  BY StatusSet DEF Claim, Dismiss, AddOverride, ActiveStatuses
<1>3. CasesGo
  BY <1>1, <1>2, StatusGoes
<1>4. OverridesGo
  <2>1. CASE Claim(c) \/ Dismiss(c)
    BY <2>1 DEF Claim, Dismiss, OverridesGo
  <2>2. ASSUME NEW t \in Targets, AddOverride(c, t)
        PROVE  OverridesGo
    <3>1. {t} \in SUBSET Targets /\ "REVIEWER" \in {"REVIEWER", "PLAN"}
      BY <2>2
    <3>2. Corrects(c, {t}, "REVIEWER")
      BY <2>2, <3>1, CorrectsFacts DEF AddOverride
    <3> QED
      BY <3>1, <3>2 DEF OverridesGo
  <2> QED
    BY <2>1, <2>2
<1> QED
  BY <1>1, <1>3, <1>4, EmailKept, SessionKept DEF Grown, ComparisonsGo, PlanGo

(* The parts of a re-comparison.                                              *)
LEMMA RecompareGoes ==
  ASSUME TypeOK, NEW c \in CaseIds, NEW seen, Recompare(c, seen),
         UNCHANGED <<overrides, syncs, faults>>
  PROVE  EmailGoes /\ CasesGo /\ ComparisonsGo /\ OverridesGo
<1> DEFINE version == ReviewVersion(c)
           n == Len(comparisons)
<1>1. /\ version \in ComparisonRows /\ version.docs \in 1..n /\ version.case = c
      /\ version.corrections = ActiveOverrides(c)
      /\ \/ /\ comparisons' = comparisons /\ StoredAs(version) \in 1..n
            /\ comparisons[StoredAs(version)] = version
         \/ /\ comparisons' = Append(comparisons, version)
            /\ StoredAs(version) = n + 1
      /\ email' \in [status : {"COMPLETED", "BLOCKED"}, content : {email.content}]
      /\ \/ cases' = cases
         \/ \E status \in {"RESOLVED", "IN_REVIEW"} :
              /\ cases' = [cases EXCEPT ![c].status = status]
              /\ status = "RESOLVED" => version.unresolved = {}
  BY RecompareFacts
<1> HIDE DEF version
<1>2. /\ comparisons \in Seq(ComparisonRows) /\ n \in Nat /\ DOMAIN comparisons = 1..n
      /\ Len(cases) \in Nat /\ \A d \in CaseIds : cases[d].source \in 0..n
  BY RowFacts DEF TypeOK
<1> HIDE DEF n
<1>3. \E i \in DOMAIN comparisons' : comparisons'[i] = version
  <2>1. CASE comparisons' = comparisons
    BY <1>1, <1>2, <2>1
  <2>2. CASE comparisons' = Append(comparisons, version)
    <3>1. /\ DOMAIN Append(comparisons, version) = 1..(n + 1)
          /\ Append(comparisons, version)[n + 1] = version
      BY <1>1, <1>2, AppendSeq DEF n
    <3>2. n + 1 \in 1..(n + 1)
      BY <1>2
    <3> QED
      BY <2>2, <3>1, <3>2
  <2> QED
    BY <1>1, <2>1, <2>2
<1>4. ComparisonsGo
  BY <1>1, <1>2 DEF ComparisonsGo, n
<1>5. EmailGoes
  BY <1>1 DEF TypeOK, EmailGoes
<1>6. Len(comparisons') \in Nat /\ n <= Len(comparisons')
  BY <1>1, <1>2 DEF n
<1>7. ASSUME cases' = cases
      PROVE  CasesGo
  BY <1>1, <1>7, CasesKept
<1>8. ASSUME NEW status \in {"RESOLVED", "IN_REVIEW"},
             cases' = [cases EXCEPT ![c].status = status],
             status = "RESOLVED" => version.unresolved = {}
      PROVE  CasesGo
  <2>1. StatusOf(cases', c, status)
    BY <1>8, StatusSet DEF ActiveStatuses
  <2>2. \A d \in DOMAIN cases' : cases'[d].source \in 0..Len(comparisons')
    BY <1>2, <1>6, <2>1 DEF StatusOf
  <2>3. \A d \in DOMAIN cases' : d # c => cases'[d] = cases[d]
    BY <2>1 DEF StatusOf
  <2>4. status = "RESOLVED" =>
          \E i \in DOMAIN comparisons' :
            /\ comparisons'[i].case = c /\ comparisons'[i].unresolved = {}
            /\ comparisons'[i].corrections = ActiveOverrides(c)
    BY <1>1, <1>3, <1>8
  <2>5. ASSUME NEW d \in DOMAIN cases', cases'[d].status = "RESOLVED"
        PROVE  \/ d \in CaseIds /\ cases[d].status = "RESOLVED"
               \/ /\ overrides' = overrides
                  /\ \E i \in DOMAIN comparisons' :
                       /\ comparisons'[i].case = d /\ comparisons'[i].unresolved = {}
                       /\ comparisons'[i].corrections = ActiveOverrides(d)
    <3>1. CASE d = c
      BY <2>1, <2>4, <2>5, <3>1 DEF StatusOf
    <3>2. CASE d # c
      BY <2>1, <2>3, <2>5, <3>2 DEF StatusOf
    <3> QED
      BY <3>1, <3>2
  <2>6. cases' \in Seq(CaseRows) /\ Len(cases') >= Len(cases)
    BY <1>2, <2>1 DEF StatusOf
  <2> QED
    BY <2>2, <2>5, <2>6 DEF CasesGo
<1> QED
  BY <1>1, <1>4, <1>5, <1>7, <1>8 DEF OverridesGo

LEMMA ResolveGrows ==
  ASSUME TypeOK, NEW c \in CaseIds, Resolve(c)
  PROVE  Grown
BY RecompareGoes, SessionKept DEF Resolve, Grown, PlanGo

LEMMA ConfirmGrows ==
  ASSUME TypeOK, NEW r \in Requests, NEW keeps \in StaleCase, Confirm(r, keeps)
  PROVE  Grown
<1> DEFINE chosen == Selected(Seen(r))
           c == plan.case
           items == [t \in DOMAIN plan.items |->
                       IF t \in chosen THEN "APPLIED" ELSE plan.items[t]]
<1>1. /\ HasPlan /\ plan \in Plans /\ c \in CaseIds /\ plan.applied \in 0..Len(comparisons)
  BY SessionFacts, PlanFacts DEF Confirm, Editable
<1>2. plan.items \in Items
  BY <1>1 DEF Plans
<1>3. chosen \in SUBSET Targets /\ chosen \subseteq DOMAIN plan.items
  BY <1>2, ItemsShape DEF Confirm
<1>4. Active(c) /\ overrides' = Override(c, chosen, "PLAN") /\ "PLAN" \in {"REVIEWER", "PLAN"}
  BY DEF Confirm
<1> HIDE DEF chosen
<1>5. Corrects(c, chosen, "PLAN")
  BY <1>1, <1>3, <1>4, CorrectsFacts
<1>6. OverridesGo
  BY <1>1, <1>3, <1>5 DEF OverridesGo
<1>7. items \in Items
  BY <1>2, ItemsShape DEF ItemStatuses
<1>8. ItemsGo(items)
  BY <1>5, <1>7 DEF ItemsGo, Corrects
<1>9. plan' = [plan EXCEPT !.status = "CONFIRMED", !.items = items]
  BY DEF Confirm, chosen
<1> HIDE DEF items
<1>10. /\ plan' \in Plans /\ plan'.case = c /\ plan'.items = items
       /\ plan'.applied = plan.applied
  BY <1>1, <1>7, <1>9 DEF Plans, PlanStatuses
<1>11. UNCHANGED <<email, comparisons, syncs, faults>>
  BY DEF Confirm
<1>12. PlanGo
  BY <1>1, <1>8, <1>10, <1>11 DEF PlanGo
<1>13. StatusOf(cases', c, "IN_REVIEW") /\ "IN_REVIEW" \in ActiveStatuses
  BY <1>1, StatusSet DEF Confirm, ActiveStatuses
<1>14. CasesGo
  BY <1>1, <1>11, <1>13, StatusGoes
<1>15. [step |-> "CONFIRMED", keepsCase |-> keeps] \in Sessions
  BY DEF Sessions
<1>16. SessionGo
  BY <1>1, <1>15, SessionSteps DEF Confirm
<1> QED
  BY <1>6, <1>11, <1>12, <1>14, <1>16, EmailKept DEF Grown, ComparisonsGo

(* The status and the compared row of a plan change, not its case or items.   *)
LEMMA PlanMoves ==
  ASSUME TypeOK, HasPlan, NEW status \in PlanStatuses, NEW applied \in 0..Len(comparisons'),
         Len(comparisons') \in Nat,
         plan' = [plan EXCEPT !.status = status, !.applied = applied]
  PROVE  PlanGo /\ plan'.items = plan.items /\ plan'.case = plan.case
         /\ plan'.applied = applied /\ plan'.status = status
<1>1. plan \in Plans /\ applied \in Nat
  BY PlanFacts
<1>2. /\ plan' \in Plans /\ plan'.case = plan.case /\ plan'.items = plan.items
      /\ plan'.applied = applied /\ plan'.status = status
  BY <1>1 DEF Plans
<1>3. ItemsGo(plan'.items)
  BY <1>1, <1>2 DEF ItemsGo, Plans
<1> QED
  BY <1>2, <1>3 DEF PlanGo

LEMMA StatusMoves ==
  ASSUME TypeOK, HasPlan, NEW status \in PlanStatuses, comparisons' = comparisons,
         plan' = [plan EXCEPT !.status = status]
  PROVE  PlanGo /\ plan'.items = plan.items /\ plan'.case = plan.case
         /\ plan'.applied = plan.applied /\ plan'.status = status
<1>1. plan \in Plans /\ plan.applied \in 0..Len(comparisons) /\ Len(comparisons) \in Nat
  BY PlanFacts, RowFacts
<1>2. plan' = [plan EXCEPT !.status = status, !.applied = plan.applied]
  BY <1>1 DEF Plans
<1> QED
  BY <1>1, <1>2, PlanMoves

LEMMA RetryGrows ==
  ASSUME TypeOK, NEW r \in Requests, ConfirmRetry(r)
  PROVE  Grown
<1>1. HasPlan
  BY SessionFacts DEF ConfirmRetry
<1>2. PlanGo
  BY <1>1, StatusMoves DEF ConfirmRetry, caseVars, PlanStatuses
<1>3. [step |-> "CONFIRMED", keepsCase |-> FALSE] \in Sessions
  BY ReviewAssumption DEF Sessions, ReviewAssumption
<1>4. SessionGo
  BY <1>1, <1>3, SessionSteps DEF ConfirmRetry
<1> QED
  BY <1>2, <1>4, CasesKept, EmailKept
  DEF ConfirmRetry, caseVars, Grown, ComparisonsGo, OverridesGo

LEMMA FailGrows ==
  ASSUME TypeOK, NEW r \in Requests, ApplyFails(r)
  PROVE  Grown
<1>1. HasPlan
  BY SessionFacts DEF ApplyFails
<1>2. PlanGo
  BY <1>1, StatusMoves DEF ApplyFails, caseVars, PlanStatuses
<1>3. SessionGo
  BY SessionSteps DEF ApplyFails
<1>4. faults' = faults \/ FaultAllowed
  BY DEF ApplyFails
<1> QED
  BY <1>2, <1>3, <1>4, CasesKept, EmailKept
  DEF ApplyFails, caseVars, Grown, ComparisonsGo, OverridesGo

LEMMA CrashGrows ==
  ASSUME TypeOK, Crash
  PROVE  Grown
<1>1. SessionGo
  BY DEF Crash, SessionGo, Sessions
<1> QED
  BY <1>1, CasesKept, EmailKept
  DEF Crash, caseVars, Grown, ComparisonsGo, OverridesGo, PlanGo

LEMMA EditGrows ==
  ASSUME TypeOK, NEW r \in Requests, EditPlan(r)
  PROVE  Grown
BY EditFacts, CasesKept, EmailKept DEF caseVars, Grown, ComparisonsGo, OverridesGo
(* The comparison an applied plan names, as it is then stored.                *)
LEMMA ApplyFacts ==
  ASSUME TypeOK, NEW r \in Requests, Apply(r)
  PROVE  LET c == plan.case
             reviews == {i \in DOMAIN comparisons : comparisons[i].case = c}
         IN  /\ HasPlan /\ c \in CaseIds /\ UNCHANGED <<overrides, syncs, faults>> /\ Done(r)
             /\ \/ /\ UNCHANGED caseVars /\ CaseSeen(r) = "RESOLVED"
                   /\ plan' = [plan EXCEPT !.status = "APPLIED", !.applied = Max(reviews)]
                \/ /\ Recompare(c, CaseSeen(r))
                   /\ plan' = [plan EXCEPT !.status = "APPLIED",
                                           !.applied = StoredAs(ReviewVersion(c))]
                   /\ StoredAs(ReviewVersion(c)) \in DOMAIN comparisons'
                   /\ comparisons'[StoredAs(ReviewVersion(c))].corrections = ActiveOverrides(c)
<1> DEFINE c == plan.case
           version == ReviewVersion(c)
<1>1. HasPlan /\ c \in CaseIds
  BY SessionFacts, PlanFacts DEF Apply
<1>2. ASSUME Recompare(c, CaseSeen(r))
      PROVE  StoredAs(version) \in DOMAIN comparisons'
             /\ comparisons'[StoredAs(version)].corrections = ActiveOverrides(c)
  <2>1. /\ version \in ComparisonRows /\ version.corrections = ActiveOverrides(c)
        /\ \/ /\ comparisons' = comparisons /\ StoredAs(version) \in 1..Len(comparisons)
              /\ comparisons[StoredAs(version)] = version
           \/ /\ comparisons' = Append(comparisons, version)
              /\ StoredAs(version) = Len(comparisons) + 1
    BY <1>1, <1>2, RecompareFacts
  <2> HIDE DEF version, c
  <2>2. /\ comparisons \in Seq(ComparisonRows) /\ Len(comparisons) \in Nat
        /\ DOMAIN comparisons = 1..Len(comparisons)
    BY RowFacts DEF TypeOK
  <2>3. /\ DOMAIN Append(comparisons, version) = 1..(Len(comparisons) + 1)
        /\ Append(comparisons, version)[Len(comparisons) + 1] = version
    BY <2>1, <2>2, AppendSeq
  <2>4. Len(comparisons) + 1 \in 1..(Len(comparisons) + 1)
    BY <2>2
  <2> QED
    BY <2>1, <2>2, <2>3, <2>4
<1> QED
  BY <1>1, <1>2 DEF Apply

(* A resolved case that a request meets has a comparison of its own.          *)
ReviewedInv ==
  \A c \in CaseIds : cases[c].status = "RESOLVED" =>
    \E i \in DOMAIN comparisons : comparisons[i].case = c

LEMMA ApplyGrows ==
  ASSUME TypeOK, ReviewedInv, NEW r \in Requests, Apply(r)
  PROVE  Grown
<1> DEFINE c == plan.case
           reviews == {i \in DOMAIN comparisons : comparisons[i].case = c}
<1>1. HasPlan /\ c \in CaseIds /\ UNCHANGED <<overrides, syncs, faults>> /\ SessionGo
  BY ApplyFacts, SessionSteps
<1>2. /\ Len(comparisons) \in Nat /\ DOMAIN comparisons = 1..Len(comparisons)
      /\ comparisons \in Seq(ComparisonRows)
  BY RowFacts DEF TypeOK
<1>3. CASE /\ UNCHANGED caseVars /\ CaseSeen(r) = "RESOLVED"
           /\ plan' = [plan EXCEPT !.status = "APPLIED", !.applied = Max(reviews)]
  <2>1. cases[c].status = "RESOLVED"
    BY <1>3 DEF CaseSeen
  <2>2. reviews # {} /\ reviews \in SUBSET (1..Len(comparisons))
    BY <1>1, <1>2, <2>1 DEF ReviewedInv
  <2>3. Max(reviews) \in 1..Len(comparisons)
    BY <1>2, <2>2, GreatestOf
  <2>4. Max(reviews) \in 0..Len(comparisons') /\ Len(comparisons') \in Nat
    BY <1>2, <1>3, <2>3 DEF caseVars
  <2>5. "APPLIED" \in PlanStatuses
    BY DEF PlanStatuses
  <2> HIDE DEF reviews
  <2>6. PlanGo
    BY <1>1, <1>3, <2>4, <2>5, PlanMoves
  <2> QED
    BY <1>1, <1>3, <2>6, CasesKept, EmailKept DEF caseVars, Grown, ComparisonsGo, OverridesGo
<1>4. CASE /\ Recompare(c, CaseSeen(r))
           /\ plan' = [plan EXCEPT !.status = "APPLIED", !.applied = StoredAs(ReviewVersion(c))]
           /\ StoredAs(ReviewVersion(c)) \in DOMAIN comparisons'
  <2>1. EmailGoes /\ CasesGo /\ ComparisonsGo /\ OverridesGo
    BY <1>1, <1>4, RecompareGoes
  <2>2. comparisons' \in Seq(ComparisonRows)
    <3>1. \A row \in ComparisonRows : Append(comparisons, row) \in Seq(ComparisonRows)
      BY <1>2, AppendSeq
    <3> QED
      BY <1>2, <2>1, <3>1 DEF ComparisonsGo
  <2>3. StoredAs(ReviewVersion(c)) \in 0..Len(comparisons') /\ Len(comparisons') \in Nat
    BY <1>4, <2>2
  <2>4. "APPLIED" \in PlanStatuses
    BY DEF PlanStatuses
  <2>5. PlanGo
    BY <1>1, <1>4, <2>3, <2>4, PlanMoves
  <2> QED
    BY <1>1, <2>1, <2>5 DEF Grown
<1> QED
  BY <1>3, <1>4, ApplyFacts

LEMMA StepGrows ==
  ASSUME TypeOK, ReviewedInv, Next
  PROVE  Grown
<1>1. CASE Sync
  BY <1>1, SyncGrows
<1>2. CASE Review
  <2>1. PICK c \in CaseIds :
          \/ Claim(c) \/ Dismiss(c) \/ Resolve(c)
          \/ \E t \in Targets : AddOverride(c, t)
          \/ \E items \in NewItems : CreatePlan(c, items)
    BY <1>2 DEF Review
  <2> QED
    BY <2>1, CaseGrows, ResolveGrows, CreateGrows
<1>3. CASE Crash
  BY <1>3, CrashGrows
<1>4. ASSUME NEW r \in Requests,
             \/ EditPlan(r) \/ ConfirmRetry(r) \/ Apply(r) \/ ApplyFails(r)
             \/ \E keeps \in StaleCase : Confirm(r, keeps)
      PROVE  Grown
  BY <1>4, EditGrows, RetryGrows, ApplyGrows, FailGrows, ConfirmGrows
<1> QED
  BY <1>1, <1>2, <1>3, <1>4 DEF Next

LEMMA StutterGrows ==
  ASSUME TypeOK, UNCHANGED vars
  PROVE  Grown
BY CasesKept, EmailKept, SessionKept
DEF vars, caseVars, Grown, ComparisonsGo, OverridesGo, PlanGo
----------------------------------------------------------------------------
(* Type correctness *)

LEMMA GrownOverrides ==
  ASSUME TypeOK, OverridesGo
  PROVE  /\ overrides' \in Seq(OverrideRows) /\ Len(overrides') >= Len(overrides)
         /\ DOMAIN overrides' = 1..Len(overrides') /\ DOMAIN overrides \subseteq DOMAIN overrides'
         /\ \A k \in DOMAIN overrides' : overrides'[k].case \in CaseIds
         /\ \A k \in DOMAIN overrides : overrides'[k].target = overrides[k].target
         /\ \A d : Standing(d) \subseteq Standing(d)'
         /\ \A d : (d \in CaseIds /\ ~Active(d)) => Standing(d)' = Standing(d)
<1>1. /\ overrides \in Seq(OverrideRows) /\ Len(overrides) \in Nat
      /\ DOMAIN overrides = 1..Len(overrides)
      /\ \A k \in DOMAIN overrides : overrides[k].case \in CaseIds
  BY RowFacts DEF TypeOK
<1>2. CASE overrides' = overrides
  BY <1>1, <1>2 DEF Standing, ActiveOverrides
<1>3. ASSUME NEW c \in CaseIds, NEW targets \in SUBSET Targets,
             NEW author \in {"REVIEWER", "PLAN"}, Corrects(c, targets, author)
      PROVE  /\ overrides' \in Seq(OverrideRows) /\ Len(overrides') >= Len(overrides)
             /\ DOMAIN overrides' = 1..Len(overrides') /\ DOMAIN overrides \subseteq DOMAIN overrides'
             /\ \A k \in DOMAIN overrides' : overrides'[k].case \in CaseIds
             /\ \A k \in DOMAIN overrides : overrides'[k].target = overrides[k].target
             /\ \A d : Standing(d) \subseteq Standing(d)'
             /\ \A d : (d \in CaseIds /\ ~Active(d)) => Standing(d)' = Standing(d)
  <2>1. /\ overrides' \in Seq(OverrideRows) /\ Len(overrides') >= Len(overrides)
        /\ \A k \in DOMAIN overrides :
             /\ overrides'[k].case = overrides[k].case /\ overrides'[k].target = overrides[k].target
        /\ \A k \in DOMAIN overrides' \ DOMAIN overrides : overrides'[k].case = c
        /\ \A d : Standing(d) \subseteq Standing(d)'
        /\ \A d : d # c => Standing(d)' \subseteq Standing(d)
        /\ Active(c)
    BY <1>3 DEF Corrects
  <2>2. DOMAIN overrides' = 1..Len(overrides') /\ DOMAIN overrides \subseteq DOMAIN overrides'
    BY <1>1, <2>1
  <2>3. \A k \in DOMAIN overrides' : overrides'[k].case \in CaseIds
    BY <1>1, <2>1, <2>2
  <2>4. ASSUME NEW d \in CaseIds, ~Active(d)
        PROVE  Standing(d)' = Standing(d)
    <3>1. d # c
      BY <2>1, <2>4
    <3>2. Standing(d)' \subseteq Standing(d) /\ Standing(d) \subseteq Standing(d)'
      BY <2>1, <3>1
    <3> QED
      BY <3>2
  <2> QED
    BY <2>1, <2>2, <2>3, <2>4
<1> QED
  BY <1>2, <1>3 DEF OverridesGo

LEMMA GrownComparisons ==
  ASSUME TypeOK, ComparisonsGo
  PROVE  /\ comparisons' \in Seq(ComparisonRows) /\ Len(comparisons') \in Nat
         /\ Len(comparisons') \in {Len(comparisons), Len(comparisons) + 1}
         /\ DOMAIN comparisons' = 1..Len(comparisons')
         /\ \A i \in DOMAIN comparisons : comparisons'[i] = comparisons[i]
         /\ \A i \in DOMAIN comparisons' \ DOMAIN comparisons :
              LET row == comparisons'[i]
              IN  /\ i = Len(comparisons) + 1 /\ overrides' = overrides
                  /\ row.docs \in 1..i
                  /\ \/ row.case = 0 /\ row.corrections = {}
                     \/ row.case \in CaseIds /\ row.corrections = ActiveOverrides(row.case)
<1>1. /\ comparisons \in Seq(ComparisonRows) /\ Len(comparisons) \in Nat
      /\ DOMAIN comparisons = 1..Len(comparisons)
  BY RowFacts DEF TypeOK
<1>2. CASE comparisons' = comparisons
  BY <1>1, <1>2
<1>3. ASSUME NEW row \in ComparisonRows,
             comparisons' = Append(comparisons, row), overrides' = overrides,
             row.docs \in 1..(Len(comparisons) + 1),
             \/ row.case = 0 /\ row.corrections = {}
             \/ row.case \in CaseIds /\ row.corrections = ActiveOverrides(row.case)
      PROVE  /\ comparisons' \in Seq(ComparisonRows) /\ Len(comparisons') = Len(comparisons) + 1
             /\ DOMAIN comparisons' = 1..Len(comparisons')
             /\ \A i \in DOMAIN comparisons : comparisons'[i] = comparisons[i]
             /\ \A i \in DOMAIN comparisons' \ DOMAIN comparisons :
                  i = Len(comparisons) + 1 /\ comparisons'[i] = row
  <2>1. /\ comparisons' \in Seq(ComparisonRows) /\ Len(comparisons') = Len(comparisons) + 1
        /\ DOMAIN comparisons' = 1..(Len(comparisons) + 1)
        /\ comparisons'[Len(comparisons) + 1] = row
        /\ \A i \in 1..Len(comparisons) : comparisons'[i] = comparisons[i]
    BY <1>1, <1>3, AppendSeq
  <2>2. \A i \in (1..(Len(comparisons) + 1)) \ (1..Len(comparisons)) : i = Len(comparisons) + 1
    BY <1>1
  <2> QED
    BY <1>1, <2>1, <2>2
<1>4. CASE comparisons' # comparisons
  <2>1. PICK row \in ComparisonRows :
          /\ comparisons' = Append(comparisons, row) /\ overrides' = overrides
          /\ row.docs \in 1..(Len(comparisons) + 1)
          /\ \/ row.case = 0 /\ row.corrections = {}
             \/ row.case \in CaseIds /\ row.corrections = ActiveOverrides(row.case)
    BY <1>4 DEF ComparisonsGo
  <2> QED
    BY <1>1, <1>3, <2>1
<1> QED
  BY <1>2, <1>4

LEMMA TypeGrown ==
  ASSUME TypeOK, Grown
  PROVE  TypeOK'
<1>1. EmailGoes /\ CasesGo /\ ComparisonsGo /\ OverridesGo /\ PlanGo /\ SessionGo
  BY DEF Grown
<1>2. /\ cases' \in Seq(CaseRows) /\ Len(cases') >= Len(cases)
      /\ \A c \in CaseIds' : cases'[c].source \in 0..Len(comparisons')
  BY <1>1 DEF CasesGo, CaseIds
<1>3. /\ Len(cases) \in Nat /\ CaseIds = 1..Len(cases)
      /\ Len(cases') \in Nat /\ CaseIds' = 1..Len(cases')
  BY <1>2, RowFacts DEF CaseIds
<1>4. CaseIds \subseteq CaseIds'
  BY <1>2, <1>3
<1>5. \A i \in DOMAIN comparisons' :
       /\ comparisons'[i].docs \in 1..i /\ comparisons'[i].case \in 0..Len(cases')
       /\ comparisons'[i].corrections \subseteq DOMAIN overrides'
  <2>1. ASSUME NEW i \in DOMAIN comparisons
        PROVE  /\ comparisons'[i].docs \in 1..i /\ comparisons'[i].case \in 0..Len(cases')
               /\ comparisons'[i].corrections \subseteq DOMAIN overrides'
    <3>1. /\ comparisons[i].docs \in 1..i /\ comparisons[i].case \in 0..Len(cases)
          /\ comparisons[i].corrections \subseteq DOMAIN overrides
      BY RowFacts
    <3>2. DOMAIN overrides \subseteq DOMAIN overrides' /\ comparisons'[i] = comparisons[i]
      BY <1>1, GrownOverrides, GrownComparisons
    <3> QED
      BY <1>2, <1>3, <3>1, <3>2
  <2>2. ASSUME NEW i \in DOMAIN comparisons' \ DOMAIN comparisons
        PROVE  /\ comparisons'[i].docs \in 1..i /\ comparisons'[i].case \in 0..Len(cases')
               /\ comparisons'[i].corrections \subseteq DOMAIN overrides'
    <3> DEFINE row == comparisons'[i]
    <3>1. /\ overrides' = overrides /\ row.docs \in 1..i
          /\ \/ row.case = 0 /\ row.corrections = {}
             \/ row.case \in CaseIds /\ row.corrections = ActiveOverrides(row.case)
      BY <1>1, GrownComparisons
    <3>2. row.case \in 0..Len(cases')
      BY <1>2, <1>3, <3>1
    <3>3. row.corrections \subseteq DOMAIN overrides'
      BY <3>1 DEF ActiveOverrides
    <3> QED
      BY <3>1, <3>2, <3>3
  <2> QED
    BY <2>1, <2>2
<1>6. plan' \in Plans \cup {NoPlan}
  BY <1>1, PlanFacts DEF PlanGo
<1>7. HasPlan' => plan'.case \in CaseIds' /\ plan'.applied \in 0..Len(comparisons')
  <2>1. Len(comparisons) \in Nat /\ Len(comparisons') \in {Len(comparisons), Len(comparisons) + 1}
    BY <1>1, RowFacts, GrownComparisons
  <2>2. \A n \in 0..Len(comparisons) : n \in 0..Len(comparisons')
    BY <2>1
  <2>3. 0 \in 0..Len(comparisons)
    BY <2>1
  <2> QED
    BY <1>1, <1>4, <2>2, <2>3, PlanFacts DEF PlanGo, HasPlan
<1>8. HasPlan => HasPlan'
  BY <1>1 DEF PlanGo, HasPlan, Plans, PlanStatuses
<1> QED
  BY <1>1, <1>2, <1>4, <1>5, <1>6, <1>7, <1>8, GrownOverrides, GrownComparisons
  DEF TypeOK, EmailGoes, SessionGo, CaseIds
LEMMA InitFacts ==
  ASSUME Init
  PROVE  /\ TypeOK /\ CoverInv /\ ResolvedInv /\ DecisionsDurable /\ AppliedInv
         /\ BlockedIsReviewed /\ LoadedInv /\ WritesInv /\ UniqueInv
<1>1. TypeOK
  BY ReviewAssumption DEF Init, TypeOK, ReviewAssumption, Sessions, CaseIds, HasPlan, NoPlan, Idle
<1> QED
  BY <1>1 DEF Init, CoverInv, ResolvedInv, DecisionsDurable, AppliedInv, BlockedIsReviewed,
              LoadedInv, WritesInv, UniqueInv, CaseIds, HasPlan, NoPlan, Idle

(* The corrections of the comparisons and of the cases move together.         *)
LEMMA CoverGrown ==
  ASSUME TypeOK, CoverInv, ResolvedInv, Grown
  PROVE  CoverInv' /\ ResolvedInv'
<1>1. ComparisonsGo /\ OverridesGo /\ CasesGo
  BY DEF Grown
<1>2. /\ Len(comparisons) \in Nat /\ DOMAIN comparisons = 1..Len(comparisons)
      /\ Len(comparisons') \in {Len(comparisons), Len(comparisons) + 1}
      /\ DOMAIN comparisons' = 1..Len(comparisons')
  BY <1>1, RowFacts, GrownComparisons
<1> DEFINE old == DOMAIN comparisons
           new == DOMAIN comparisons'
<1>A. ASSUME NEW n \in Nat, NEW m \in {n, n + 1}
      PROVE  /\ 1..n \subseteq 1..m
             /\ \A j \in 1..n : \A i \in 1..j : i \in 1..n
             /\ \A j \in 1..m : \A i \in 1..j : i \in 1..m
  BY <1>A
<1>B. /\ old \subseteq new
      /\ \A j \in old : \A i \in 1..j : i \in old
      /\ \A j \in new : \A i \in 1..j : i \in new
  BY <1>2, <1>A, Zenon
<1> HIDE DEF old, new
<1>3. ASSUME NEW i \in old
      PROVE  comparisons'[i] = comparisons[i] /\ Corrected(i)' = Corrected(i)
  <2>1. comparisons[i].corrections \subseteq DOMAIN overrides /\ comparisons'[i] = comparisons[i]
    BY <1>1, RowFacts, GrownComparisons DEF old
  <2>2. \A k \in DOMAIN overrides : overrides'[k].target = overrides[k].target
    BY <1>1, GrownOverrides
  <2> QED
    BY <2>1, <2>2 DEF Corrected
<1>4. ASSUME NEW i \in new \ old
      PROVE  /\ i = Len(comparisons) + 1
             /\ \A d : comparisons'[i].case = d => d = 0 \/ Corrected(i)' = Standing(d)'
  <2>1. /\ overrides' = overrides /\ i = Len(comparisons) + 1
        /\ \/ comparisons'[i].case = 0
           \/ comparisons'[i].corrections = ActiveOverrides(comparisons'[i].case)
    BY <1>1, GrownComparisons DEF old, new
  <2> QED
    BY <2>1 DEF Corrected, Standing, ActiveOverrides
<1>5. \A d : Standing(d) \subseteq Standing(d)'
  BY <1>1, GrownOverrides
<1>6. ASSUME NEW i \in new, NEW d, comparisons'[i].case = d, d # 0
      PROVE  Corrected(i)' \subseteq Standing(d)'
  <2>1. CASE i \in old
    <3>1. comparisons[i].case = d /\ Corrected(i)' = Corrected(i)
      BY <1>3, <1>6, <2>1
    <3>2. Corrected(i) \subseteq Standing(d)
      BY <1>6, <2>1, <3>1 DEF CoverInv, old
    <3> QED
      BY <1>5, <3>1, <3>2
  <2>2. CASE i \notin old
    BY <1>4, <1>6, <2>2
  <2> QED
    BY <2>1, <2>2
<1>7. ASSUME NEW j \in new, NEW d, comparisons'[j].case = d, d # 0,
             NEW i \in 1..j, comparisons'[i].case = d
      PROVE  Corrected(i)' \subseteq Corrected(j)'
  <2>1. CASE j \in old
    <3>1. i \in old
      BY <1>B, <2>1
    <3>2. comparisons[i].case = d /\ comparisons[j].case = d
      BY <1>3, <1>7, <2>1, <3>1
    <3>3. Corrected(i) \subseteq Corrected(j)
      BY <1>7, <2>1, <3>2 DEF CoverInv, old
    <3> QED
      BY <1>3, <2>1, <3>1, <3>3
  <2>2. CASE j \notin old
    <3>1. i \in new
      BY <1>B, <1>7
    <3>2. Corrected(j)' = Standing(d)'
      BY <1>4, <1>7, <2>2
    <3> QED
      BY <1>6, <1>7, <3>1, <3>2
  <2> QED
    BY <2>1, <2>2
<1>8. CoverInv'
  <2>1. ASSUME NEW j \in new, comparisons'[j].case # 0
        PROVE  /\ (Corrected(j) \subseteq Standing(comparisons[j].case))'
               /\ \A i \in 1..j : comparisons'[i].case = comparisons'[j].case =>
                    Corrected(i)' \subseteq Corrected(j)'
    <3>1. PICK d : comparisons'[j].case = d
      OBVIOUS
    <3>2. Corrected(j)' \subseteq Standing(d)'
      BY <1>6, <2>1, <3>1
    <3>3. Standing(d)' = Standing(comparisons[j].case)'
      BY <3>1 DEF Standing, ActiveOverrides
    <3> QED
      BY <1>7, <2>1, <3>1, <3>2, <3>3
  <2> QED
    BY <2>1 DEF CoverInv, new
<1>9. ASSUME NEW c \in CaseIds', cases'[c].status = "RESOLVED"
      PROVE  \E i \in DOMAIN comparisons' :
               /\ comparisons'[i].case = c /\ comparisons'[i].unresolved = {}
               /\ Standing(c)' \subseteq Corrected(i)'
  <2>1. \/ c \in CaseIds /\ cases[c].status = "RESOLVED"
        \/ /\ overrides' = overrides
           /\ \E i \in DOMAIN comparisons' :
                /\ comparisons'[i].case = c /\ comparisons'[i].unresolved = {}
                /\ comparisons'[i].corrections = ActiveOverrides(c)
    BY <1>1, <1>9 DEF CasesGo, CaseIds
  <2>2. CASE c \in CaseIds /\ cases[c].status = "RESOLVED"
    <3>1. PICK i \in old : /\ comparisons[i].case = c /\ comparisons[i].unresolved = {}
                          /\ Standing(c) \subseteq Corrected(i)
      BY <2>2 DEF ResolvedInv, old
    <3>2. ~Active(c)
      BY <2>2 DEF Active, ActiveStatuses
    <3>3. Standing(c)' = Standing(c)
      BY <1>1, <2>2, <3>2, GrownOverrides
    <3>4. i \in DOMAIN comparisons'
      BY <1>B DEF new
    <3> QED
      BY <1>3, <3>1, <3>3, <3>4
  <2>3. ASSUME overrides' = overrides, NEW i \in DOMAIN comparisons',
               comparisons'[i].case = c, comparisons'[i].corrections = ActiveOverrides(c)
        PROVE  comparisons'[i].case = c /\ Standing(c)' \subseteq Corrected(i)'
    BY <2>3 DEF Standing, Corrected, ActiveOverrides
  <2> QED
    BY <2>1, <2>2, <2>3
<1>10. ResolvedInv'
  BY <1>9 DEF ResolvedInv
<1> QED
  BY <1>8, <1>10

LEMMA ReviewedFollows ==
  ASSUME ResolvedInv
  PROVE  ReviewedInv
BY DEF ResolvedInv, ReviewedInv

LEMMA DurableGrown ==
  ASSUME TypeOK, DecisionsDurable, Grown
  PROVE  DecisionsDurable'
<1>1. PlanGo /\ \A d : Standing(d) \subseteq Standing(d)'
  BY GrownOverrides DEF Grown
<1>2. HasPlan => \A t \in DOMAIN plan.items : plan.items[t] = "APPLIED" => t \in Standing(plan.case)
  BY DEF DecisionsDurable, Standing
<1>3. ASSUME HasPlan', NEW d, plan'.case = d
      PROVE  \A t \in DOMAIN plan'.items : plan'.items[t] = "APPLIED" => t \in Standing(d)'
  <2>1. Standing(plan.case)' = Standing(d)'
    BY <1>3 DEF Standing, ActiveOverrides
  <2>2. CASE plan' = plan
    BY <1>1, <1>2, <1>3, <2>2 DEF HasPlan
  <2>3. CASE ~HasPlan /\ \A t \in DOMAIN plan'.items : plan'.items[t] # "APPLIED"
    BY <2>3
  <2>4. CASE HasPlan /\ plan'.case = plan.case /\ ItemsGo(plan'.items)
    BY <1>1, <1>2, <1>3, <2>1, <2>4 DEF ItemsGo
  <2> QED
    BY <1>1, <2>2, <2>3, <2>4 DEF PlanGo
<1>4. HasPlan' => \A t \in DOMAIN plan'.items : plan'.items[t] = "APPLIED" =>
                    t \in Standing(plan.case)'
  <2>1. PICK d : plan'.case = d
    OBVIOUS
  <2>2. Standing(plan.case)' = Standing(d)'
    BY <2>1 DEF Standing, ActiveOverrides
  <2> QED
    BY <1>3, <2>1, <2>2
<1> QED
  BY <1>4 DEF DecisionsDurable, Standing

RowsInv == TypeOK /\ CoverInv /\ ResolvedInv /\ DecisionsDurable

LEMMA RowsStep ==
  ASSUME RowsInv, [Next]_vars
  PROVE  RowsInv' /\ Grown
<1>1. ReviewedInv
  BY ReviewedFollows DEF RowsInv
<1>2. Grown
  BY <1>1, StepGrows, StutterGrows DEF RowsInv
<1> QED
  BY <1>2, TypeGrown, CoverGrown, DurableGrown DEF RowsInv

(* The rows of cases, comparisons, corrections and plans have their types, and *)
(* every reference in them names a row that exists.                           *)
THEOREM TypeCorrect == Spec => []TypeOK
<1>1. Init => RowsInv
  BY InitFacts DEF RowsInv
<1>2. RowsInv /\ [Next]_vars => RowsInv'
  BY RowsStep
<1>3. RowsInv => TypeOK
  BY DEF RowsInv
<1> QED
  BY <1>1, <1>2, <1>3, PTL DEF Spec

(* review/service.py:346-350.  A RESOLVED case has a comparison of its own that *)
(* leaves no field open, whatever corrections, plans and runs of the pipeline   *)
(* follow.                                                                   *)
THEOREM ResolvedAreDefinite == Spec => []ResolvedIsDefinite
<1>1. Init => RowsInv
  BY InitFacts DEF RowsInv
<1>2. RowsInv /\ [Next]_vars => RowsInv'
  BY RowsStep
<1>3. RowsInv => ResolvedIsDefinite
  BY DEF RowsInv, ResolvedInv, ResolvedIsDefinite
<1> QED
  BY <1>1, <1>2, <1>3, PTL DEF Spec

(* plan_service.py:224-250, 263-270.  Whatever happens after a plan was        *)
(* confirmed - a failed re-comparison, a crash, other requests, the pipeline - *)
(* each item it applied keeps an active correction.                           *)
THEOREM DecisionsAreDurable == Spec => []DecisionsDurable
<1>1. Init => RowsInv
  BY InitFacts DEF RowsInv
<1>2. RowsInv /\ [Next]_vars => RowsInv'
  BY RowsStep
<1>3. RowsInv => DecisionsDurable
  BY DEF RowsInv
<1> QED
  BY <1>1, <1>2, <1>3, PTL DEF Spec
----------------------------------------------------------------------------
(* The corrections that are active *)

(* A new correction takes the place of the one of its case and target.        *)
LEMMA UniqueStep ==
  ASSUME TypeOK, UniqueInv, OverridesGo
  PROVE  UniqueInv'
<1>1. CASE overrides' = overrides
  BY <1>1 DEF UniqueInv
<1>2. ASSUME NEW c \in CaseIds, NEW targets \in SUBSET Targets,
             NEW author \in {"REVIEWER", "PLAN"}, Corrects(c, targets, author),
             NEW i \in DOMAIN overrides', NEW j \in DOMAIN overrides',
             overrides'[i].active, overrides'[j].active,
             overrides'[i].case = overrides'[j].case,
             overrides'[i].target = overrides'[j].target
      PROVE  i = j
  <2>1. CASE i \in DOMAIN overrides /\ j \in DOMAIN overrides
    BY <1>2, <2>1 DEF Corrects, UniqueInv
  <2>2. CASE i \in DOMAIN overrides /\ j \notin DOMAIN overrides
    BY <1>2, <2>2 DEF Corrects
  <2>3. CASE i \notin DOMAIN overrides /\ j \in DOMAIN overrides
    BY <1>2, <2>3 DEF Corrects
  <2>4. CASE i \notin DOMAIN overrides /\ j \notin DOMAIN overrides
    BY <1>2, <2>4 DEF Corrects
  <2> QED
    BY <2>1, <2>2, <2>3, <2>4
<1>3. ASSUME NEW c \in CaseIds, NEW targets \in SUBSET Targets,
             NEW author \in {"REVIEWER", "PLAN"}, Corrects(c, targets, author)
      PROVE  UniqueInv'
  BY <1>2, <1>3 DEF UniqueInv
<1> QED
  BY <1>1, <1>3 DEF OverridesGo

LEMMA UniqueCounted ==
  ASSUME UniqueInv
  PROVE  OneActiveOverride
<1>1. ASSUME NEW c \in CaseIds, NEW t \in Targets
      PROVE  Cardinality({i \in ActiveOverrides(c) : overrides[i].target = t}) <= 1
  <2> DEFINE S == {i \in ActiveOverrides(c) : overrides[i].target = t}
  <2>1. \A i, j \in S : i = j
    BY DEF UniqueInv, ActiveOverrides
  <2>2. S = {} \/ \E i : S = {i}
    BY <2>1
  <2> HIDE DEF S
  <2>3. Cardinality(S) \in {0, 1}
    BY <2>2, FS_EmptySet, FS_Singleton
  <2> QED
    BY <2>3 DEF S
<1> QED
  BY <1>1 DEF OneActiveOverride

(* review/service.py:226-236.  A target of a case never has two active         *)
(* corrections, whether a reviewer or a plan corrects it.                     *)
THEOREM CorrectedOnce == Spec => []OneActiveOverride
<1>1. Init => RowsInv /\ UniqueInv
  BY InitFacts DEF RowsInv
<1>2. RowsInv /\ [Next]_vars => RowsInv'
  BY RowsStep
<1>3. RowsInv /\ UniqueInv /\ [Next]_vars => UniqueInv'
  BY RowsStep, UniqueStep DEF RowsInv, Grown
<1>4. UniqueInv => OneActiveOverride
  BY UniqueCounted
<1> QED
  BY <1>1, <1>2, <1>3, <1>4, PTL DEF Spec
----------------------------------------------------------------------------
(* The comparison of an applied plan *)

(* A step that is not the end of a confirmation leaves an applied plan as it   *)
(* is, but for items that are not applied.                                    *)
AppliedStays ==
  HasPlan' /\ plan'.status = "APPLIED" =>
    /\ HasPlan /\ plan.status = "APPLIED" /\ plan'.applied = plan.applied
    /\ \A t \in DOMAIN plan'.items : plan'.items[t] = "APPLIED" =>
         t \in DOMAIN plan.items /\ plan.items[t] = "APPLIED"

LEMMA EditApplied ==
  ASSUME TypeOK, NEW r \in Requests, EditPlan(r)
  PROVE  AppliedStays
<1>1. CASE LoadPlan(r) \/ GiveUp(r)
  BY <1>1 DEF LoadPlan, GiveUp, AppliedStays, HasPlan
<1>2. HasPlan /\ plan \in Plans
  BY SessionFacts, PlanFacts
  DEF EditPlan, LoadPlan, CancelPlan, GiveUp, RemoveItem, UpdateItem, AddItem, Editable
<1>3. CASE CancelPlan(r)
  BY <1>2, <1>3 DEF CancelPlan, AppliedStays, Plans
<1>4. ASSUME NEW t \in Targets, RemoveItem(r, t)
      PROVE  AppliedStays
  BY <1>2, <1>4 DEF RemoveItem, AppliedStays, Plans
<1>5. ASSUME NEW t \in Targets, NEW status \in Decisions, UpdateItem(r, t, status)
      PROVE  AppliedStays
  <2> DEFINE w == Written(status, Seen(r).items[t], plan.items[t])
  <2>1. w = plan.items[t] \/ w # "APPLIED"
    BY ReviewAssumption DEF Written, ReviewAssumption
  <2> HIDE DEF w
  <2>2. plan' = [plan EXCEPT !.items = [plan.items EXCEPT ![t] = w]] /\ t \in DOMAIN plan.items
    BY <1>2, <1>5 DEF UpdateItem, w, Plans
  <2>3. /\ plan'.status = plan.status /\ plan'.applied = plan.applied
        /\ plan'.items = [plan.items EXCEPT ![t] = w]
    BY <1>2, <2>2 DEF Plans
  <2>4. DOMAIN plan'.items = DOMAIN plan.items
        /\ \A u \in DOMAIN plan.items : plan'.items[u] = IF u = t THEN w ELSE plan.items[u]
    BY <2>3
  <2> QED
    BY <1>2, <2>1, <2>3, <2>4 DEF AppliedStays
<1>6. ASSUME NEW t \in Targets, NEW status \in NewStatuses, AddItem(r, t, status)
      PROVE  AppliedStays
  <2>1. status # "APPLIED"
    BY ReviewAssumption DEF ReviewAssumption
  <2> DEFINE items == [u \in DOMAIN plan.items \cup {t} |->
                         IF u = t THEN status ELSE plan.items[u]]
  <2>2. /\ plan'.status = plan.status /\ plan'.applied = plan.applied /\ plan'.items = items
    BY <1>2, <1>6 DEF AddItem, Plans
  <2> QED
    BY <1>2, <2>1, <2>2 DEF AppliedStays
<1> QED
  BY <1>1, <1>3, <1>4, <1>5, <1>6 DEF EditPlan

LEMMA OtherApplied ==
  ASSUME TypeOK, [Next]_vars, \A r \in Requests : ~Apply(r)
  PROVE  AppliedStays
<1>1. CASE UNCHANGED plan
  BY <1>1 DEF AppliedStays, HasPlan
<1>2. CASE Sync
  BY <1>1, <1>2, SyncFacts DEF Processed
<1>3. ASSUME NEW c \in CaseIds, NEW items \in NewItems, CreatePlan(c, items)
      PROVE  AppliedStays
  BY <1>3 DEF CreatePlan, AppliedStays
<1>4. ASSUME NEW c \in CaseIds,
             Claim(c) \/ Dismiss(c) \/ Resolve(c) \/ \E t \in Targets : AddOverride(c, t)
      PROVE  UNCHANGED plan
  BY <1>4 DEF Claim, Dismiss, Resolve, AddOverride
<1>5. ASSUME NEW r \in Requests,
             ConfirmRetry(r) \/ ApplyFails(r) \/ \E keeps \in StaleCase : Confirm(r, keeps)
      PROVE  AppliedStays
  <2>1. HasPlan /\ plan \in Plans
    BY <1>5, SessionFacts, PlanFacts DEF ConfirmRetry, ApplyFails, Confirm, Editable
  <2>2. plan'.status # "APPLIED"
    BY <1>5, <2>1 DEF ConfirmRetry, ApplyFails, Confirm, Plans
  <2> QED
    BY <2>2 DEF AppliedStays
<1>6. ASSUME NEW r \in Requests, EditPlan(r)
      PROVE  AppliedStays
  BY <1>6, EditApplied
<1>7. CASE Crash \/ UNCHANGED vars
  BY <1>1, <1>7 DEF Crash, vars
<1> QED
  BY <1>1, <1>2, <1>3, <1>4, <1>5, <1>6, <1>7 DEF Next, Review

LEMMA ApplyCompares ==
  ASSUME RowsInv, NEW r \in Requests, Apply(r)
  PROVE  /\ plan'.items = plan.items /\ plan'.applied \in DOMAIN comparisons'
         /\ Standing(plan.case) \subseteq Compared'
<1> DEFINE c == plan.case
           reviews == {i \in DOMAIN comparisons : comparisons[i].case = c}
           row == StoredAs(ReviewVersion(c))
<1>1. /\ HasPlan /\ plan \in Plans /\ c \in CaseIds /\ overrides' = overrides
      /\ \/ /\ UNCHANGED caseVars /\ CaseSeen(r) = "RESOLVED"
            /\ plan' = [plan EXCEPT !.status = "APPLIED", !.applied = Max(reviews)]
         \/ /\ plan' = [plan EXCEPT !.status = "APPLIED", !.applied = row]
            /\ row \in DOMAIN comparisons' /\ comparisons'[row].corrections = ActiveOverrides(c)
  BY ApplyFacts, PlanFacts DEF RowsInv
<1>2. CASE /\ UNCHANGED caseVars /\ CaseSeen(r) = "RESOLVED"
           /\ plan' = [plan EXCEPT !.status = "APPLIED", !.applied = Max(reviews)]
  <2>1. cases[c].status = "RESOLVED"
    BY <1>2 DEF CaseSeen
  <2>2. PICK i \in DOMAIN comparisons : comparisons[i].case = c /\ Standing(c) \subseteq Corrected(i)
    BY <1>1, <2>1 DEF RowsInv, ResolvedInv
  <2>3. Len(comparisons) \in Nat /\ DOMAIN comparisons = 1..Len(comparisons)
    BY RowFacts DEF RowsInv
  <2>4. PICK m : m = Max(reviews)
    OBVIOUS
  <2>5. m \in reviews /\ i <= m
    <3>1. reviews # {} /\ reviews \in SUBSET (1..Len(comparisons)) /\ i \in reviews
      BY <2>2, <2>3
    <3> QED
      BY <2>3, <2>4, <3>1, GreatestOf
  <2>6. m \in DOMAIN comparisons /\ comparisons[m].case = c /\ i \in 1..m /\ c # 0
    <3>1. c # 0
      BY <1>1, RowFacts DEF RowsInv
    <3> QED
      BY <2>2, <2>3, <2>5, <3>1
  <2> HIDE DEF reviews
  <2>7. Corrected(i) \subseteq Corrected(m)
    BY <2>2, <2>6 DEF RowsInv, CoverInv
  <2>8. plan'.items = plan.items /\ plan'.applied = m
    BY <1>1, <1>2, <2>4 DEF Plans
  <2>9. Compared' = Corrected(m) /\ comparisons' = comparisons
    BY <1>1, <1>2, <2>8 DEF caseVars, Corrected, Compared
  <2> QED
    BY <2>2, <2>6, <2>7, <2>8, <2>9
<1>3. CASE /\ plan' = [plan EXCEPT !.status = "APPLIED", !.applied = row]
           /\ row \in DOMAIN comparisons' /\ comparisons'[row].corrections = ActiveOverrides(c)
  <2>1. plan'.items = plan.items /\ plan'.applied = row
    BY <1>1, <1>3 DEF Plans
  <2> HIDE DEF row
  <2>2. Compared' = {overrides[k].target : k \in ActiveOverrides(c)}
    BY <1>1, <1>3, <2>1 DEF Compared
  <2> QED
    BY <1>3, <2>1, <2>2 DEF Standing
<1> QED
  BY <1>1, <1>2, <1>3

LEMMA AppliedStep ==
  ASSUME RowsInv, AppliedInv, [Next]_vars
  PROVE  AppliedInv'
<1>1. Grown
  BY RowsStep
<1>2. CASE \E r \in Requests : Apply(r)
  <2>1. /\ plan'.items = plan.items /\ plan'.applied \in DOMAIN comparisons'
        /\ Standing(plan.case) \subseteq Compared'
    BY <1>2, ApplyCompares
  <2>2. HasPlan
    BY <1>2, ApplyFacts DEF RowsInv
  <2>3. \A t \in DOMAIN plan.items : plan.items[t] = "APPLIED" => t \in Standing(plan.case)
    BY <2>2 DEF RowsInv, DecisionsDurable, Standing
  <2> QED
    BY <2>1, <2>3 DEF AppliedInv
<1>3. CASE \A r \in Requests : ~Apply(r)
  <2>1. AppliedStays
    BY <1>3, OtherApplied DEF RowsInv
  <2>2. ASSUME HasPlan', plan'.status = "APPLIED"
        PROVE  /\ plan'.applied \in DOMAIN comparisons'
               /\ \A t \in DOMAIN plan'.items : plan'.items[t] = "APPLIED" =>
                    t \in Compared'
    <3>0. PICK m : m = plan.applied
      OBVIOUS
    <3>1. /\ HasPlan /\ plan.status = "APPLIED" /\ plan'.applied = m
          /\ \A t \in DOMAIN plan'.items : plan'.items[t] = "APPLIED" =>
               t \in DOMAIN plan.items /\ plan.items[t] = "APPLIED"
      BY <2>1, <2>2, <3>0 DEF AppliedStays
    <3>2. /\ m \in DOMAIN comparisons
          /\ \A t \in DOMAIN plan.items : plan.items[t] = "APPLIED" => t \in Corrected(m)
      BY <3>0, <3>1 DEF AppliedInv, Compared, Corrected
    <3>3. comparisons[m].corrections \subseteq DOMAIN overrides
      BY <3>2, RowFacts DEF RowsInv
    <3>4. comparisons'[m] = comparisons[m] /\ m \in DOMAIN comparisons'
      <4>1. comparisons'[m] = comparisons[m]
        BY <1>1, <3>2, GrownComparisons DEF RowsInv, Grown
      <4>2. /\ Len(comparisons) \in Nat /\ DOMAIN comparisons = 1..Len(comparisons)
            /\ Len(comparisons') \in {Len(comparisons), Len(comparisons) + 1}
            /\ DOMAIN comparisons' = 1..Len(comparisons')
        BY <1>1, RowFacts, GrownComparisons DEF RowsInv, Grown
      <4>3. \A n \in Nat : 1..n \subseteq 1..(n + 1)
        OBVIOUS
      <4> QED
        BY <3>2, <4>1, <4>2, <4>3, Zenon
    <3>5. \A k \in DOMAIN overrides : overrides'[k].target = overrides[k].target
      BY <1>1, GrownOverrides DEF RowsInv, Grown
    <3>6. Compared' = Corrected(m)
      BY <3>1, <3>3, <3>4, <3>5 DEF Corrected, Compared
    <3> QED
      BY <3>1, <3>2, <3>4, <3>6
  <2> QED
    BY <2>2 DEF AppliedInv, HasPlan
<1> QED
  BY <1>2, <1>3

(* plan_service.py:252-262.  The comparison an APPLIED plan names includes a    *)
(* correction of every item the plan applied, for any number of requests and   *)
(* also when another reviewer has resolved the case between the transactions.   *)
THEOREM AppliedPlansAreCompared == Spec => []AppliedIsCompared
<1>1. Init => RowsInv /\ AppliedInv
  BY InitFacts DEF RowsInv
<1>2. RowsInv /\ AppliedInv /\ [Next]_vars => RowsInv' /\ AppliedInv'
  BY RowsStep, AppliedStep
<1>3. AppliedInv => AppliedIsCompared
  BY DEF AppliedInv, AppliedIsCompared, Compared
<1> QED
  BY <1>1, <1>2, <1>3, PTL DEF Spec
----------------------------------------------------------------------------
(* Cases, when a re-comparison sees the status its case has *)

(* The session of a confirmation has let go of the case it locked, or nobody   *)
(* has closed the case since: what it then sees is the stored status.          *)
SeesCase == \A r \in Requests : Apply(r) => CaseSeen(r) = cases[plan.case].status
FreshCase == [][SeesCase]_vars

Rest(c) == Active(c) \/ (cases[c].status = "DISMISSED" /\ cases[c].by = "REVIEWER")

CasesStep ==
  /\ \A c \in CaseIds : ~Active(c) => cases'[c] = cases[c]
  /\ \/ email'.status # "BLOCKED"
     \/ \E c \in CaseIds' : Active(c)'
     \/ email.status = "BLOCKED" /\ \A c \in CaseIds : Rest(c) => c \in CaseIds' /\ Rest(c)'

LEMMA StatusStep ==
  ASSUME TypeOK, email' = email, NEW c \in CaseIds, Active(c), NEW status,
         StatusOf(cases', c, status),
         status \in ActiveStatuses \/ (status = "DISMISSED" /\ cases'[c].by = "REVIEWER")
  PROVE  CasesStep
<1>1. /\ CaseIds' = CaseIds /\ cases'[c].status = status
      /\ \A d \in CaseIds : d # c => cases'[d] = cases[d]
  BY DEF StatusOf, CaseIds
<1>2. Rest(c)'
  BY <1>1 DEF Rest, Active
<1>3. \A d \in CaseIds : d # c => (Rest(d)' <=> Rest(d))
  BY <1>1 DEF Rest, Active
<1> QED
  BY <1>1, <1>2, <1>3 DEF CasesStep

LEMMA CasesSame ==
  ASSUME email' = email, cases' = cases
  PROVE  CasesStep
BY DEF CasesStep, Rest, Active, CaseIds

LEMMA RecompareStep ==
  ASSUME TypeOK, NEW c \in CaseIds, Recompare(c, cases[c].status)
  PROVE  CasesStep
<1>1. /\ cases[c].status \in ActiveStatuses
      /\ email'.status \in {"COMPLETED", "BLOCKED"}
      /\ \/ email'.status = "COMPLETED" \/ cases'[c].status = "IN_REVIEW"
         \/ cases' = cases /\ cases[c].status = "IN_REVIEW"
      /\ \/ cases' = cases
         \/ \E status \in {"RESOLVED", "IN_REVIEW"} :
              cases' = [cases EXCEPT ![c].status = status]
  BY RecompareFacts
<1>2. Active(c)
  BY <1>1 DEF Active
<1>3. CaseIds' = CaseIds /\ \A d \in CaseIds : d # c => cases'[d] = cases[d]
  <2>1. CASE cases' = cases
    BY <2>1 DEF CaseIds
  <2>2. ASSUME NEW status \in {"RESOLVED", "IN_REVIEW"},
               cases' = [cases EXCEPT ![c].status = status]
        PROVE  CaseIds' = CaseIds /\ \A d \in CaseIds : d # c => cases'[d] = cases[d]
    <3>1. StatusOf(cases', c, status)
      BY <2>2, StatusSet DEF ActiveStatuses
    <3> QED
      BY <3>1 DEF StatusOf, CaseIds
  <2> QED
    BY <1>1, <2>1, <2>2
<1>4. email'.status = "COMPLETED" \/ Active(c)'
  BY <1>1 DEF Active, ActiveStatuses
<1> QED
  BY <1>2, <1>3, <1>4 DEF CasesStep

LEMMA CasesMove ==
  ASSUME TypeOK, [Next]_vars, [SeesCase]_vars
  PROVE  CasesStep
<1>1. CASE Sync
  <2>1. Processed
    BY <1>1, SyncFacts
  <2>2. PICK source \in 0..Len(comparisons') : Represented(cases', source)
    BY <2>1 DEF Processed
  <2>3. \A c \in CaseIds : ~Active(c) => cases'[c] = cases[c]
    BY <2>2 DEF Represented
  <2>4. email'.status = "BLOCKED" => \E c \in CaseIds' : Active(c)'
    BY <2>1 DEF Processed, Active, CaseIds
  <2> QED
    BY <2>3, <2>4 DEF CasesStep
<1>2. ASSUME NEW c \in CaseIds, Claim(c) \/ Dismiss(c) \/ \E t \in Targets : AddOverride(c, t)
      PROVE  CasesStep
  <2>1. Active(c) /\ email' = email
    BY <1>2 DEF Claim, Dismiss, AddOverride, Active, ActiveStatuses
  <2>2. CASE Claim(c) \/ \E t \in Targets : AddOverride(c, t)
    <3>1. StatusOf(cases', c, "IN_REVIEW")
      BY <2>2, StatusSet DEF Claim, AddOverride, ActiveStatuses
    <3> QED
      BY <2>1, <3>1, StatusStep DEF ActiveStatuses
  <2>3. CASE Dismiss(c)
    <3>1. StatusOf(cases', c, "DISMISSED")
      BY <2>3, StatusSet DEF Dismiss
    <3>2. cases \in Seq(CaseRows) /\ c \in DOMAIN cases /\ cases[c] \in CaseRows
      BY RowFacts DEF TypeOK, CaseIds
    <3>3. cases'[c].by = "REVIEWER"
      BY <2>3, <3>2 DEF Dismiss, CaseRows
    <3> QED
      BY <2>1, <3>1, <3>3, StatusStep
  <2> QED
    BY <1>2, <2>2, <2>3
<1>3. ASSUME NEW c \in CaseIds, Resolve(c)
      PROVE  CasesStep
  BY <1>3, RecompareStep DEF Resolve
<1>4. ASSUME NEW c \in CaseIds, \E items \in NewItems : CreatePlan(c, items)
      PROVE  CasesStep
  BY <1>4, CasesSame DEF CreatePlan, caseVars
<1>5. ASSUME NEW r \in Requests, EditPlan(r) \/ ConfirmRetry(r) \/ ApplyFails(r)
      PROVE  CasesStep
  BY <1>5, EditFacts, CasesSame DEF ConfirmRetry, ApplyFails, caseVars
<1>6. ASSUME NEW r \in Requests, NEW keeps \in StaleCase, Confirm(r, keeps)
      PROVE  CasesStep
  <2>1. plan.case \in CaseIds /\ Active(plan.case) /\ email' = email
    BY <1>6, SessionFacts, PlanFacts DEF Confirm, Editable
  <2>2. StatusOf(cases', plan.case, "IN_REVIEW")
    BY <1>6, <2>1, StatusSet DEF Confirm, ActiveStatuses
  <2> QED
    BY <2>1, <2>2, StatusStep DEF ActiveStatuses
<1>7. ASSUME NEW r \in Requests, Apply(r)
      PROVE  CasesStep
  <2>1. UNCHANGED caseVars \/ Recompare(plan.case, CaseSeen(r))
    BY <1>7, ApplyFacts
  <2>2. CASE UNCHANGED caseVars
    BY <2>2, CasesSame DEF caseVars
  <2>3. CASE Recompare(plan.case, CaseSeen(r))
    <3>1. vars' # vars
      <4>1. session[r].step = "CONFIRMED" /\ session' = [session EXCEPT ![r] = Idle]
        BY <1>7 DEF Apply, Done
      <4>2. session'[r] # session[r]
        BY <4>1 DEF TypeOK, Idle
      <4> QED
        BY <4>2 DEF vars
    <3>2. CaseSeen(r) = cases[plan.case].status
      BY <1>7, <3>1 DEF SeesCase
    <3>3. plan.case \in CaseIds
      BY <1>7, ApplyFacts
    <3> QED
      BY <2>3, <3>2, <3>3, RecompareStep
  <2> QED
    BY <2>1, <2>2, <2>3
<1>8. CASE Crash \/ UNCHANGED vars
  BY <1>8, CasesSame DEF Crash, caseVars, vars
<1> QED
  BY <1>1, <1>2, <1>3, <1>4, <1>5, <1>6, <1>7, <1>8 DEF Next, Review

(* review/service.py:287-288, 346-350, 371-372.  RESOLVED and DISMISSED are     *)
(* final as long as no confirmation works on a stale case.                     *)
THEOREM ClosedStaysClosed == Spec /\ FreshCase => CasesStayClosed
<1>1. RowsInv /\ [Next]_vars /\ [SeesCase]_vars =>
        [\A c \in CaseIds : ~Active(c) => cases'[c].status = cases[c].status]_vars
  BY CasesMove DEF RowsInv, CasesStep
<1>2. Init => RowsInv
  BY InitFacts DEF RowsInv
<1>3. RowsInv /\ [Next]_vars => RowsInv'
  BY RowsStep
<1> QED
  BY <1>1, <1>2, <1>3, PTL DEF Spec, FreshCase, CasesStayClosed

LEMMA BlockedStep ==
  ASSUME TypeOK, BlockedIsReviewed, CasesStep
  PROVE  BlockedIsReviewed'
<1>1. email.status = "BLOCKED" => \E c \in CaseIds : Rest(c)
  BY DEF BlockedIsReviewed, Rest
<1>2. email'.status = "BLOCKED" => \E c \in CaseIds' : Rest(c)'
  BY <1>1 DEF CasesStep, Rest
<1> QED
  BY <1>2 DEF BlockedIsReviewed, Rest

(* sync/service.py:541-590.  An e-mail that needs a reviewer is in front of one, *)
(* or one has dismissed it, under the same condition.                          *)
THEOREM BlockedHasReview == Spec /\ FreshCase => []BlockedIsReviewed
<1>1. RowsInv /\ BlockedIsReviewed /\ [Next]_vars /\ [SeesCase]_vars => BlockedIsReviewed'
  BY CasesMove, BlockedStep DEF RowsInv
<1>2. Init => RowsInv /\ BlockedIsReviewed
  BY InitFacts DEF RowsInv
<1>3. RowsInv /\ [Next]_vars => RowsInv'
  BY RowsStep
<1> QED
  BY <1>1, <1>2, <1>3, PTL DEF Spec, FreshCase

(* Sessions that never keep the case they locked meet that condition.          *)
LEMMA FreshSessions ==
  ASSUME StaleCase = {FALSE}
  PROVE  Spec => FreshCase
<1>1. TypeOK => SeesCase
  <2>1. ASSUME TypeOK, NEW r \in Requests, Apply(r)
        PROVE  CaseSeen(r) = cases[plan.case].status
    <3>1. session[r].keepsCase = FALSE
      BY <2>1, SessionFacts DEF Apply
    <3> QED
      BY <3>1 DEF CaseSeen
  <2> QED
    BY <2>1 DEF SeesCase
<1> QED
  BY <1>1, TypeCorrect, PTL DEF FreshCase

(* The two theorems for the sessions the runs instantiate.                     *)
COROLLARY FreshSessionsReview ==
  ASSUME StaleCase = {FALSE}
  PROVE  Spec => CasesStayClosed /\ []BlockedIsReviewed
BY FreshSessions, ClosedStaysClosed, BlockedHasReview, PTL
----------------------------------------------------------------------------
(* Plans, when their requests do not overlap *)

Alone == \A q, r \in Requests : session[q] # Idle /\ session[r] # Idle => q = r

PlanInv == LoadedInv /\ WritesInv

LEMMA WritesSame ==
  ASSUME WritesInv, overrides' = overrides,
         \/ ~HasPlan \/ plan'.status = plan.status
         \/ plan'.status \in {"CONFIRMED", "APPLIED", "APPLY_FAILED", "CANCELLED"}
  PROVE  WritesInv'
BY DEF WritesInv, HasPlan

(* A request that ends, or goes on without what it loaded.                     *)
LEMMA LoadedEnds ==
  ASSUME TypeOK, Alone, NEW r \in Requests, session[r] # Idle,
         Done(r) \/ \E new \in Sessions : new.step # "LOADED" /\ session' = [session EXCEPT ![r] = new]
  PROVE  LoadedInv'
<1>1. session \in [Requests -> Sessions] /\ \A q \in Requests \ {r} : session[q] = Idle
  BY DEF TypeOK, Alone
<1>2. \A q \in Requests : session'[q].step # "LOADED"
  BY <1>1 DEF Done, Idle
<1> QED
  BY <1>2 DEF LoadedInv

LEMMA LoadedSame ==
  ASSUME LoadedInv, session' = session, plan' = plan
  PROVE  LoadedInv'
BY DEF LoadedInv, Seen

LEMMA EditPlanInv ==
  ASSUME TypeOK, PlanInv, Alone, NEW r \in Requests, EditPlan(r)
  PROVE  PlanInv'
<1>1. overrides' = overrides
  BY EditFacts
<1>2. CASE LoadPlan(r)
  <2>1. /\ plan' = plan /\ r \in DOMAIN session
        /\ session' = [session EXCEPT ![r] = [step |-> "LOADED", plan |-> plan]]
    BY <1>2 DEF LoadPlan, TypeOK
  <2>2. ASSUME NEW q \in Requests, session'[q].step = "LOADED"
        PROVE  session'[q].plan = plan
    BY <2>1, <2>2 DEF PlanInv, LoadedInv, Seen
  <2> QED
    BY <1>1, <2>1, <2>2, WritesSame DEF PlanInv, LoadedInv, Seen
<1>3. CASE ~LoadPlan(r)
  <2>1. session[r].step = "LOADED" /\ Done(r)
    BY <1>3 DEF EditPlan, CancelPlan, GiveUp, RemoveItem, UpdateItem, AddItem, Editable
  <2>2. session[r] # Idle /\ plan \in Plans
    BY <2>1, SessionFacts, PlanFacts DEF Idle
  <2>3. LoadedInv'
    BY <2>1, <2>2, LoadedEnds
  <2>4. plan'.status \in {plan.status, "CANCELLED"}
    BY <1>3, <2>2 DEF EditPlan, CancelPlan, GiveUp, RemoveItem, UpdateItem, AddItem, Plans
  <2> QED
    BY <1>1, <2>3, <2>4, WritesSame DEF PlanInv
<1> QED
  BY <1>2, <1>3

LEMMA ReviewerWrites ==
  ASSUME TypeOK, WritesInv, plan' = plan, NEW c, NEW targets, Corrects(c, targets, "REVIEWER")
  PROVE  WritesInv'
<1>1. /\ \A k \in DOMAIN overrides : /\ overrides'[k].target = overrides[k].target
                                     /\ overrides'[k].author = overrides[k].author
      /\ \A k \in DOMAIN overrides' \ DOMAIN overrides : overrides'[k].author # "PLAN"
  BY DEF Corrects
<1> QED
  BY <1>1 DEF WritesInv, HasPlan

LEMMA ConfirmWrites ==
  ASSUME TypeOK, PlanInv, NEW r \in Requests, NEW keeps \in StaleCase, Confirm(r, keeps)
  PROVE  /\ plan.status = "DRAFT" /\ Seen(r) = plan /\ plan \in Plans
         /\ plan'.status = "CONFIRMED" /\ WritesInv'
<1>1. session[r].step = "LOADED" /\ Seen(r).status = "DRAFT"
  BY DEF Confirm, Editable
<1>2. Seen(r) = plan
  BY <1>1 DEF PlanInv, LoadedInv
<1>3. plan \in Plans /\ plan.case \in CaseIds
  BY <1>1, SessionFacts, PlanFacts
<1> DEFINE chosen == Selected(Seen(r))
<1>4. chosen \in SUBSET Targets
  BY <1>2, <1>3, ItemsShape DEF Selected, Plans
<1>5. Active(plan.case) /\ overrides' = Override(plan.case, chosen, "PLAN")
  BY DEF Confirm
<1>6. plan'.status = "CONFIRMED"
  BY <1>3 DEF Confirm, Plans
<1> HIDE DEF chosen
<1>7. Corrects(plan.case, chosen, "PLAN")
  BY <1>3, <1>4, <1>5, CorrectsFacts
<1>8. \A k \in DOMAIN overrides : overrides[k].author # "PLAN"
  BY <1>1, <1>2 DEF PlanInv, WritesInv
<1>9. /\ \A k \in DOMAIN overrides : overrides'[k].author # "PLAN"
      /\ \A i, j \in DOMAIN overrides' \ DOMAIN overrides :
           overrides'[i].target = overrides'[j].target => i = j
  BY <1>7, <1>8 DEF Corrects
<1>10. WritesInv'
  BY <1>6, <1>9 DEF WritesInv, HasPlan
<1> QED
  BY <1>1, <1>2, <1>3, <1>6, <1>10

LEMMA PlanStep ==
  ASSUME TypeOK, PlanInv, Alone, [Next]_vars
  PROVE  PlanInv'
<1>1. ASSUME UNCHANGED <<overrides, plan, session>>
      PROVE  PlanInv'
  BY <1>1, WritesSame, LoadedSame DEF PlanInv
<1>2. CASE Sync
  BY <1>1, <1>2, SyncFacts DEF Processed
<1>3. ASSUME NEW c \in CaseIds, Claim(c) \/ Dismiss(c) \/ Resolve(c)
      PROVE  PlanInv'
  BY <1>1, <1>3 DEF Claim, Dismiss, Resolve
<1>4. ASSUME NEW c \in CaseIds, NEW t \in Targets, AddOverride(c, t)
      PROVE  PlanInv'
  <2>1. {t} \in SUBSET Targets /\ "REVIEWER" \in {"REVIEWER", "PLAN"}
    BY <1>4
  <2>2. Corrects(c, {t}, "REVIEWER") /\ UNCHANGED <<plan, session>>
    BY <1>4, <2>1, CorrectsFacts DEF AddOverride
  <2> QED
    BY <2>2, ReviewerWrites, LoadedSame DEF PlanInv
<1>5. ASSUME NEW c \in CaseIds, NEW items \in NewItems, CreatePlan(c, items)
      PROVE  PlanInv'
  <2>1. ~HasPlan /\ overrides' = overrides /\ session' = session
    BY <1>5 DEF CreatePlan
  <2>2. \A q \in Requests : session[q].step # "LOADED"
    BY <2>1, SessionFacts
  <2>3. LoadedInv'
    BY <2>1, <2>2 DEF LoadedInv
  <2> QED
    BY <2>1, <2>3, WritesSame DEF PlanInv
<1>6. ASSUME NEW r \in Requests, EditPlan(r)
      PROVE  PlanInv'
  BY <1>6, EditPlanInv
<1>7. ASSUME NEW r \in Requests, ConfirmRetry(r) \/ Apply(r) \/ ApplyFails(r)
      PROVE  PlanInv'
  <2>1. session[r] # Idle /\ plan \in Plans
    BY <1>7, SessionFacts, PlanFacts DEF ConfirmRetry, Apply, ApplyFails, Idle
  <2>2. overrides' = overrides
    BY <1>7 DEF ConfirmRetry, Apply, ApplyFails
  <2>3. plan'.status \in {"CONFIRMED", "APPLIED", "APPLY_FAILED"}
    BY <1>7, <2>1, ApplyFacts DEF ConfirmRetry, ApplyFails, Plans
  <2>4. Done(r) \/ session' = [session EXCEPT ![r] = [step |-> "CONFIRMED", keepsCase |-> FALSE]]
    BY <1>7 DEF ConfirmRetry, Apply, ApplyFails
  <2>5. [step |-> "CONFIRMED", keepsCase |-> FALSE] \in Sessions
    BY ReviewAssumption DEF Sessions, ReviewAssumption
  <2>6. LoadedInv'
    BY <2>1, <2>4, <2>5, LoadedEnds
  <2> QED
    BY <2>2, <2>3, <2>6, WritesSame DEF PlanInv
<1>8. ASSUME NEW r \in Requests, NEW keeps \in StaleCase, Confirm(r, keeps)
      PROVE  PlanInv'
  <2>1. session[r] # Idle
    BY <1>8 DEF Confirm, Editable, Idle
  <2>2. [step |-> "CONFIRMED", keepsCase |-> keeps] \in Sessions
    BY DEF Sessions
  <2>3. LoadedInv'
    BY <1>8, <2>1, <2>2, LoadedEnds DEF Confirm
  <2> QED
    BY <1>8, <2>3, ConfirmWrites DEF PlanInv
<1>9. CASE Crash
  <2>1. \A q \in Requests : session'[q].step # "LOADED"
    BY <1>9 DEF Crash, Idle
  <2> QED
    BY <1>9, <2>1, WritesSame DEF Crash, PlanInv, LoadedInv
<1>10. CASE UNCHANGED vars
  BY <1>1, <1>10 DEF vars
<1> QED
  BY <1>2, <1>3, <1>4, <1>5, <1>6, <1>7, <1>8, <1>9, <1>10 DEF Next, Review

LEMMA RejectedStep ==
  ASSUME TypeOK, PlanInv, [Next]_vars, HasPlan, NEW t \in DOMAIN plan.items,
         plan.items[t] = "REJECTED", t \in DOMAIN plan'.items
  PROVE  plan'.items[t] # "APPLIED"
<1>1. plan \in Plans
  BY PlanFacts
<1>2. ASSUME plan'.items = plan.items
      PROVE  plan'.items[t] # "APPLIED"
  BY <1>2
<1>3. CASE Sync
  BY <1>2, <1>3, SyncFacts DEF Processed
<1>4. CASE Review
  BY <1>2, <1>4 DEF Review, Claim, Dismiss, Resolve, AddOverride, CreatePlan
<1>5. ASSUME NEW r \in Requests, EditPlan(r)
      PROVE  plan'.items[t] # "APPLIED"
  <2>1. CASE LoadPlan(r) \/ GiveUp(r) \/ CancelPlan(r)
    BY <1>1, <1>2, <2>1 DEF LoadPlan, GiveUp, CancelPlan, Plans
  <2>2. ASSUME NEW u \in Targets, RemoveItem(r, u)
        PROVE  plan'.items[t] # "APPLIED"
    <3>1. plan'.items = [v \in DOMAIN plan.items \ {u} |-> plan.items[v]]
      BY <1>1, <2>2 DEF RemoveItem, Plans
    <3> QED
      BY <3>1
  <2>3. ASSUME NEW u \in Targets, NEW status \in Decisions, UpdateItem(r, u, status)
        PROVE  plan'.items[t] # "APPLIED"
    <3> DEFINE w == Written(status, Seen(r).items[u], plan.items[u])
    <3>1. w = plan.items[u] \/ w # "APPLIED"
      BY ReviewAssumption DEF Written, ReviewAssumption
    <3>2. plan' = [plan EXCEPT !.items = [plan.items EXCEPT ![u] = w]]
      BY <1>1, <2>3 DEF UpdateItem, Plans
    <3> HIDE DEF w
    <3>3. plan'.items = [plan.items EXCEPT ![u] = w]
      BY <1>1, <3>2 DEF Plans
    <3> QED
      BY <3>1, <3>3
  <2>4. ASSUME NEW u \in Targets, NEW status \in NewStatuses, AddItem(r, u, status)
        PROVE  plan'.items[t] # "APPLIED"
    <3>1. /\ u # t
          /\ plan'.items = [v \in DOMAIN plan.items \cup {u} |->
                              IF v = u THEN status ELSE plan.items[v]]
      BY <1>1, <2>4 DEF AddItem, Plans
    <3> QED
      BY <3>1
  <2> QED
    BY <1>5, <2>1, <2>2, <2>3, <2>4 DEF EditPlan
<1>6. ASSUME NEW r \in Requests, ConfirmRetry(r) \/ Apply(r) \/ ApplyFails(r)
      PROVE  plan'.items[t] # "APPLIED"
  <2>1. plan'.items = plan.items
    BY <1>1, <1>6, ApplyFacts DEF ConfirmRetry, ApplyFails, Plans
  <2> QED
    BY <1>2, <2>1
<1>7. ASSUME NEW r \in Requests, NEW keeps \in StaleCase, Confirm(r, keeps)
      PROVE  plan'.items[t] # "APPLIED"
  <2>1. Seen(r) = plan
    BY <1>7, ConfirmWrites
  <2>2. t \notin Selected(plan)
    BY DEF Selected
  <2>3. plan'.items[t] = plan.items[t]
    BY <1>1, <1>7, <2>1, <2>2 DEF Confirm, Plans
  <2> QED
    BY <2>3
<1>8. CASE Crash \/ UNCHANGED vars
  BY <1>2, <1>8 DEF Crash, vars
<1> QED
  BY <1>3, <1>4, <1>5, <1>6, <1>7, <1>8 DEF Next

LEMMA WritesCounted ==
  ASSUME TypeOK, WritesInv
  PROVE  PlanWritesOnce
<1>1. ASSUME NEW t \in Targets
      PROVE  Cardinality({i \in DOMAIN overrides :
                            overrides[i].author = "PLAN" /\ overrides[i].target = t}) <= 1
  <2> DEFINE S == {i \in DOMAIN overrides :
                     overrides[i].author = "PLAN" /\ overrides[i].target = t}
  <2>1. \A i, j \in S : i = j
    BY DEF WritesInv
  <2>2. S = {} \/ \E i : S = {i}
    BY <2>1
  <2> HIDE DEF S
  <2>3. Cardinality(S) \in {0, 1}
    BY <2>2, FS_EmptySet, FS_Singleton
  <2> QED
    BY <2>3 DEF S
<1> QED
  BY <1>1 DEF PlanWritesOnce

(* plan_service.py:214-250.  Confirming, failing, crashing and confirming again *)
(* writes the correction of an item once, as long as the requests on the plan   *)
(* do not overlap.                                                             *)
THEOREM PlansWriteOnce == Spec /\ []Alone => []PlanWritesOnce
<1>1. Init => RowsInv /\ PlanInv
  BY InitFacts DEF RowsInv, PlanInv
<1>2. RowsInv /\ [Next]_vars => RowsInv'
  BY RowsStep
<1>3. RowsInv /\ PlanInv /\ Alone /\ [Next]_vars => PlanInv'
  BY PlanStep DEF RowsInv
<1>4. RowsInv /\ PlanInv => PlanWritesOnce
  BY WritesCounted DEF RowsInv, PlanInv
<1> QED
  BY <1>1, <1>2, <1>3, <1>4, PTL DEF Spec

(* README.md:152.  Under the same condition a rejected item is never applied.   *)
THEOREM RejectedIsNotApplied == Spec /\ []Alone => RejectedNotApplied
<1>1. Init => RowsInv /\ PlanInv
  BY InitFacts DEF RowsInv, PlanInv
<1>2. RowsInv /\ [Next]_vars => RowsInv'
  BY RowsStep
<1>3. RowsInv /\ PlanInv /\ Alone /\ [Next]_vars => PlanInv'
  BY PlanStep DEF RowsInv
<1>4. RowsInv /\ PlanInv /\ [Next]_vars =>
        [HasPlan => \A t \in DOMAIN plan.items :
           plan.items[t] = "REJECTED" =>
             ~(t \in DOMAIN plan'.items /\ plan'.items[t] = "APPLIED")]_vars
  BY RejectedStep DEF RowsInv
<1> QED
  BY <1>1, <1>2, <1>3, <1>4, PTL DEF Spec, RejectedNotApplied

(* A single request is alone.                                                  *)
COROLLARY SingleRequestPlans ==
  ASSUME NEW r, Requests = {r}
  PROVE  Spec => []PlanWritesOnce /\ RejectedNotApplied
<1>1. Alone
  BY DEF Alone
<1> QED
  BY <1>1, PlansWriteOnce, RejectedIsNotApplied, PTL
============================================================================
