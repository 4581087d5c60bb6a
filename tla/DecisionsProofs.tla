--------------------------- MODULE DecisionsProofs ---------------------------
(***************************************************************************)
(* What the decisions on an e-mail promise, for any categories, scores,     *)
(* files and ports: the names of its attachments and the order in which      *)
(* things are listed decide nothing, approved ports decide a port, and a     *)
(* field of a document is what the document says of it.                      *)
(* Stage 1 never gives another category than Stage 2 would                   *)
(* (StageOneAgrees): the first two follow from it.  The last one needs what   *)
(* the recursive scans of pages and tables return, by induction.             *)
(***************************************************************************)
EXTENDS Decisions, FiniteSetTheorems, SequenceTheorems, WellFoundedInduction, TLAPS

MailRecords == [subject : Scores, body : Scores, names : Scores]

(* A table lists every category, and none twice. *)
Ordered(table) ==
  /\ \A c, d \in Categories : c # d => Before(table, c, d) \/ Before(table, d, c)
  /\ \A c \in Categories : ~Before(table, c, c)
  /\ \A c, d, e \in Categories :
       Before(table, c, d) /\ Before(table, d, e) => Before(table, c, e)

(* The answer is the decision on the question. *)
Faithful ==
  /\ compared \in 0 .. Len(Fields!CanonicalFields)
  /\ stage = "CLASSIFIED" => question \in Mails /\ answer = Classify(question, Table)
  /\ stage = "MATERIALIZED" =>
       \E files \in SeqOf(Files, MaxAttachments) :
         /\ question.docs = [i \in DOMAIN files |-> Classified(files[i])]
         /\ answer = Route(question.docs, question.technical)
  /\ stage = "OVERLAID" =>
       /\ question \in Documents
       /\ \E decided \in Escalated :
            answer = [f \in FieldNames |-> Overlaid(Extract(question)[f], decided)]
  /\ stage = "COMPARED" =>
       /\ question.kind \in {"ENTITY", "PORT", "NUMBER"}
       /\ question.si \in Sides[question.kind] /\ question.bl \in Sides[question.kind]
       /\ answer = Fields!CompareField(question.kind, question.si, question.bl, question.opinion)
-----------------------------------------------------------------------------
(* The highest score *)

LEMMA SmallestNumber ==
  ASSUME NEW S \in SUBSET Nat, S # {}
  PROVE  \E i \in S : \A j \in S : i <= j
<1>1. IsWellFoundedOn(OpToRel(<, Nat), Nat)
  BY NatLessThanWellFounded
<1>2. PICK i \in S : \A j \in S : ~(<<j, i>> \in OpToRel(<, Nat))
  BY <1>1, WFMin
<1>3. \A j \in S : ~(j < i)
  BY <1>2 DEF OpToRel
<1> QED
  BY <1>3

(* Of finitely many things one has nothing above it: the one with the fewest   *)
(* above it.                                                                   *)
LEMMA Topmost ==
  ASSUME NEW S, IsFiniteSet(S), S # {}, NEW R,
         \A c \in S : <<c, c>> \notin R,
         \A c, d, e \in S : <<c, d>> \in R /\ <<d, e>> \in R => <<c, e>> \in R
  PROVE  \E c \in S : \A d \in S : <<d, c>> \notin R
<1> DEFINE Above(c) == {d \in S : <<d, c>> \in R}
           H        == [c \in S |-> Cardinality(Above(c))]
           Amounts  == {H[c] : c \in S}
<1>1. \A c \in S : IsFiniteSet(Above(c)) /\ Cardinality(Above(c)) \in Nat
  <2>1. \A c \in S : Above(c) \subseteq S
    OBVIOUS
  <2> QED
    BY <2>1, FS_Subset, FS_CardinalityType
<1>2. \A c, d \in S : <<d, c>> \in R =>
        Above(d) \in SUBSET Above(c) /\ Above(d) # Above(c)
  <2> SUFFICES ASSUME NEW c \in S, NEW d \in S, <<d, c>> \in R
               PROVE  Above(d) \in SUBSET Above(c) /\ Above(d) # Above(c)
    OBVIOUS
  <2>1. d \in Above(c) /\ d \notin Above(d)
    OBVIOUS
  <2>2. Above(d) \in SUBSET Above(c)
    OBVIOUS
  <2> QED
    BY <2>1, <2>2
<1> HIDE DEF Above
<1>3. \A c \in S : H[c] = Cardinality(Above(c))
  OBVIOUS
<1> HIDE DEF H
<1>4. Amounts \in SUBSET Nat /\ Amounts # {}
  BY <1>1, <1>3
<1>5. PICK n \in Amounts : \A m \in Amounts : n <= m
  <2> HIDE DEF Amounts
  <2> QED
    BY <1>4, SmallestNumber
<1>6. PICK c \in S : n = H[c]
  BY <1>5
<1>7. ASSUME NEW d \in S, <<d, c>> \in R
      PROVE  FALSE
  <2>1. Cardinality(Above(d)) <= Cardinality(Above(c))
        /\ (Cardinality(Above(d)) = Cardinality(Above(c)) => Above(d) = Above(c))
    BY <1>1, <1>2, <1>7, FS_Subset
  <2>2. Cardinality(Above(d)) < Cardinality(Above(c))
    BY <1>1, <1>2, <1>7, <2>1
  <2>3. Cardinality(Above(c)) <= Cardinality(Above(d))
    BY <1>3, <1>5, <1>6
  <2> QED
    BY <1>1, <2>2, <2>3
<1> QED
  BY <1>7

(* There is a top, and no score is higher.  A category whose score is higher    *)
(* than all others is the top in any table.                                    *)
LEMMA TopIsHighest ==
  ASSUME NEW table, Ordered(table), NEW score \in Scores
  PROVE  /\ Top(score, table) \in Categories
         /\ \A d \in Categories : score[Top(score, table)] >= score[d]
<1> DEFINE Beats(c, d) == score[c] > score[d] \/ (score[c] = score[d] /\ Before(table, c, d))
           R == {p \in Categories \X Categories : Beats(p[1], p[2])}
<1>1. \A c \in Categories : score[c] \in Nat
  BY DEF Scores
<1>2. \A c \in Categories : ~Beats(c, c)
  BY <1>1 DEF Ordered
<1>3. \A c, d, e \in Categories : Beats(c, d) /\ Beats(d, e) => Beats(c, e)
  <2> SUFFICES ASSUME NEW c \in Categories, NEW d \in Categories, NEW e \in Categories,
                      Beats(c, d), Beats(d, e)
               PROVE  Beats(c, e)
    OBVIOUS
  <2>1. CASE score[c] = score[d] /\ score[d] = score[e]
    BY <2>1, <1>1 DEF Ordered
  <2>2. CASE ~(score[c] = score[d] /\ score[d] = score[e])
    BY <2>2, <1>1
  <2> QED
    BY <2>1, <2>2
<1>4. \A c, d \in Categories : c # d => Beats(c, d) \/ Beats(d, c)
  BY <1>1 DEF Ordered
<1>5. \A c, d \in Categories : <<c, d>> \in R <=> Beats(c, d)
  <2> HIDE DEF Beats
  <2> QED
    OBVIOUS
<1> HIDE DEF Beats, R
<1>6. \A c \in Categories : <<c, c>> \notin R
  BY <1>2, <1>5
<1>7. \A c, d, e \in Categories : <<c, d>> \in R /\ <<d, e>> \in R => <<c, e>> \in R
  BY <1>3, <1>5
<1>8. \E c \in Categories : \A d \in Categories : <<d, c>> \notin R
  BY <1>6, <1>7, Topmost, ClassificationAssumption
<1>9. PICK c \in Categories : \A d \in Categories \ {c} : Beats(c, d)
  BY <1>4, <1>5, <1>8
<1>10. Top(score, table) = CHOOSE t \in Categories : \A d \in Categories \ {t} : Beats(t, d)
  BY DEF Top, Beats
<1>11. /\ Top(score, table) \in Categories
       /\ \A d \in Categories \ {Top(score, table)} : Beats(Top(score, table), d)
  BY <1>9, <1>10
<1> QED
  BY <1>1, <1>11 DEF Beats

LEMMA TopIsUnique ==
  ASSUME NEW table, Ordered(table), NEW score \in Scores, NEW c \in Categories,
         \A d \in Categories \ {c} : score[c] > score[d]
  PROVE  Top(score, table) = c
<1>1. \A d \in Categories : score[d] \in Nat
  BY DEF Scores
<1> QED
  BY <1>1, TopIsHighest

(* Every table that lists the categories lists none twice.                     *)
LEMMA TablesAreOrdered ==
  ASSUME NEW table \in Tables
  PROVE  Ordered(table)
<1> DEFINE N == Cardinality(Categories)
<1>1. IsFiniteSet(Categories) /\ N \in Nat
  BY ClassificationAssumption, FS_CardinalityType
<1>2. table \in [1 .. N -> Categories] /\ ToSet(table) = Categories
  BY DecisionsAssumption DEF Tables
<1>3. \A c \in Categories : \E i \in 1 .. N : table[i] = c
  BY <1>2 DEF ToSet
<1>4. table \in Surjection(1 .. N, Categories)
  BY <1>2, <1>3 DEF Surjection
<1>5. IsFiniteSet(1 .. N) /\ Cardinality(1 .. N) = N
  BY <1>1, FS_Interval
<1>6. table \in Injection(1 .. N, Categories)
  BY <1>4, <1>5, FS_Surjection
<1>7. \A i, j \in 1 .. N : table[i] = table[j] => i = j
  BY <1>6 DEF Injection, IsInjective
<1>8. \A c, d : Before(table, c, d) <=> \E i, j \in 1 .. N : i < j /\ table[i] = c /\ table[j] = d
  BY <1>2 DEF Before
<1> HIDE DEF N
<1>9. \A c, d \in Categories : c # d => Before(table, c, d) \/ Before(table, d, c)
  <2> SUFFICES ASSUME NEW c \in Categories, NEW d \in Categories, c # d
               PROVE  Before(table, c, d) \/ Before(table, d, c)
    OBVIOUS
  <2>1. PICK i \in 1 .. N : table[i] = c
    BY <1>3
  <2>2. PICK j \in 1 .. N : table[j] = d
    BY <1>3
  <2>3. i < j \/ j < i
    BY <1>1, <2>1, <2>2
  <2> QED
    BY <1>8, <2>1, <2>2, <2>3
<1>10. \A c \in Categories : ~Before(table, c, c)
  BY <1>1, <1>7, <1>8
<1>11. \A c, d, e \in Categories :
         Before(table, c, d) /\ Before(table, d, e) => Before(table, c, e)
  <2> SUFFICES ASSUME NEW c \in Categories, NEW d \in Categories, NEW e \in Categories,
                      Before(table, c, d), Before(table, d, e)
               PROVE  Before(table, c, e)
    OBVIOUS
  <2>1. PICK i \in 1 .. N, j \in 1 .. N : i < j /\ table[i] = c /\ table[j] = d
    BY <1>8
  <2>2. PICK k \in 1 .. N, l \in 1 .. N : k < l /\ table[k] = d /\ table[l] = e
    BY <1>8
  <2>3. i < l
    BY <1>1, <1>7, <2>1, <2>2
  <2> QED
    BY <1>8, <2>1, <2>2, <2>3
<1> QED
  BY <1>9, <1>10, <1>11 DEF Ordered

LEMMA TableIsOrdered == Ordered(Table)
<1>1. Table \in Tables
  BY DecisionsAssumption DEF Tables
<1> QED
  BY <1>1, TablesAreOrdered
-----------------------------------------------------------------------------
(* The two stages *)

(* What makes Stage 1 confident: the body speaks of one category only, and the *)
(* subject of none with a higher score.                                        *)
LEMMA ConfidentIsClear ==
  ASSUME NEW table, Ordered(table), NEW mail \in MailRecords, Confident(mail, table)
  PROVE  LET top == Top(Combined(mail), table)
         IN  /\ top \in Categories /\ mail.body[top] > 0
             /\ \A d \in Categories \ {top} : mail.body[d] = 0
             /\ \A d \in Categories : mail.subject[top] >= mail.subject[d]
<1> DEFINE top == Top(Combined(mail), table)
<1>1. /\ mail.subject \in Scores /\ mail.body \in Scores /\ mail.names \in Scores
      /\ \A c \in Categories :
           mail.subject[c] \in Nat /\ mail.body[c] \in Nat /\ mail.names[c] \in Nat
  BY DEF MailRecords, Scores
<1>2. Combined(mail) \in Scores
  BY <1>1 DEF Combined, Scores
<1>3. top \in Categories
  BY <1>2, TopIsHighest
<1>4. mail.body[top] > 0 /\ ~Conflict(mail, table)
  BY DEF Confident
<1> HIDE DEF top
<1>5. \A d \in Categories \ {top} : mail.body[d] = 0
  <2> SUFFICES ASSUME NEW d \in Categories, d # top, mail.body[d] # 0
               PROVE  FALSE
    OBVIOUS
  <2>1. {top, d} \subseteq Positive(mail.body)
    BY <1>1, <1>3, <1>4 DEF Positive
  <2>2. IsFiniteSet(Positive(mail.body))
    <3>1. Positive(mail.body) \subseteq Categories
      BY DEF Positive
    <3> QED
      BY <3>1, ClassificationAssumption, FS_Subset
  <2>3. Cardinality({top, d}) = 2
    <3>1. IsFiniteSet({top}) /\ Cardinality({top}) = 1
      BY FS_Singleton
    <3>2. {top, d} = {top} \cup {d}
      OBVIOUS
    <3> QED
      BY <3>1, <3>2, FS_AddElement
  <2>4. Cardinality(Positive(mail.body)) >= 2
    BY <2>1, <2>2, <2>3, FS_Subset, FS_CardinalityType
  <2> QED
    BY <1>4, <2>4 DEF Conflict
<1>6. Top(mail.body, table) = top
  BY <1>1, <1>3, <1>4, <1>5, TopIsUnique
<1>7. \A d \in Categories : mail.subject[top] >= mail.subject[d]
  <2>1. CASE Positive(mail.subject) = {}
    <3>1. \A d \in Categories : mail.subject[d] = 0
      BY <1>1, <2>1 DEF Positive
    <3> QED
      BY <1>3, <3>1
  <2>2. CASE Positive(mail.subject) # {}
    <3>1. Positive(mail.body) # {}
      BY <1>3, <1>4 DEF Positive
    <3>2. Top(mail.subject, table) = top
      BY <1>4, <1>6, <2>2, <3>1 DEF Conflict
    <3> QED
      BY <1>1, <3>2, TopIsHighest
  <2> QED
    BY <2>1, <2>2
<1> QED
  BY <1>3, <1>4, <1>5, <1>7 DEF top

(* Stage 1 commits to a category only where Stage 2 would choose the same      *)
(* (classification/stage1.py, classification/stage2.py): it saves work and     *)
(* never changes the category.                                                *)
THEOREM StageOneAgrees ==
  ASSUME NEW table, Ordered(table), NEW mail \in MailRecords
  PROVE  Classify(mail, table).category = Resolved(mail, table).category
<1>1. CASE ~Confident(mail, table)
  BY <1>1 DEF Classify
<1>2. CASE Confident(mail, table)
  <2> DEFINE top   == Top(Combined(mail), table)
             score == Reweighted(mail)
  <2>1. /\ top \in Categories /\ mail.body[top] > 0
        /\ \A d \in Categories \ {top} : mail.body[d] = 0
        /\ \A d \in Categories : mail.subject[top] >= mail.subject[d]
    BY <1>2, ConfidentIsClear
  <2>2. Classify(mail, table).category = top
    BY <1>2 DEF Classify
  <2> HIDE DEF top
  <2>3. \A c \in Categories :
          mail.subject[c] \in Nat /\ mail.body[c] \in Nat
          /\ score[c] = 35 * mail.subject[c] + 150 * mail.body[c]
    BY DEF MailRecords, Scores, Reweighted
  <2> HIDE DEF score
  <2>4. \A d \in Categories \ {top} : score[top] > score[d]
    <3> SUFFICES ASSUME NEW d \in Categories, d # top
                 PROVE  score[top] > score[d]
      OBVIOUS
    <3>1. mail.body[d] = 0 /\ mail.subject[top] >= mail.subject[d] /\ mail.body[top] > 0
      BY <2>1
    <3>2. score[d] = 35 * mail.subject[d]
      BY <2>3, <3>1
    <3>3. score[top] = 35 * mail.subject[top] + 150 * mail.body[top]
      BY <2>1, <2>3
    <3> QED
      BY <2>1, <2>3, <3>1, <3>2, <3>3
  <2>5. \A c \in Categories : score[c] \in Nat
    BY <2>3
  <2>6. Best(mail, table) = top
    <3> DEFINE Beats(c, d) ==
          \/ score[c] > score[d]
          \/ score[c] = score[d] /\ mail.body[c] > mail.body[d]
          \/ /\ score[c] = score[d] /\ mail.body[c] = mail.body[d]
             /\ \/ mail.subject[c] > mail.subject[d]
                \/ mail.subject[c] = mail.subject[d] /\ Before(Lexical, c, d)
    <3>1. Best(mail, table) = CHOOSE c \in Categories : \A d \in Categories \ {c} : Beats(c, d)
      BY DEF Best, score
    <3>2. \A d \in Categories \ {top} : Beats(top, d) /\ ~Beats(d, top)
      BY <2>1, <2>4, <2>5
    <3> HIDE DEF Beats
    <3> QED
      BY <2>1, <3>1, <3>2
  <2>7. Positive(score) # {}
    BY <2>1, <2>3 DEF Positive
  <2>8. Resolved(mail, table).category = top
    BY <2>6, <2>7 DEF Resolved, score
  <2> QED
    BY <2>2, <2>8
<1> QED
  BY <1>1, <1>2

(* Stage 2 looks at the subject and the body alone, and at no table. *)
LEMMA StageTwoDependsOn ==
  ASSUME NEW a \in MailRecords, NEW b \in MailRecords, a.subject = b.subject, a.body = b.body,
         NEW s, NEW t
  PROVE  Resolved(a, s).category = Resolved(b, t).category
<1>1. Reweighted(a) = Reweighted(b)
  BY DEF Reweighted
<1>2. Best(a, s) = Best(b, t)
  BY <1>1 DEF Best
<1>3. \A mail, table :
        Resolved(mail, table).category
          = IF Positive(Reweighted(mail)) = {} THEN General ELSE Best(mail, table)
  BY DEF Resolved
<1> QED
  BY <1>1, <1>2, <1>3
-----------------------------------------------------------------------------
(* The route of an e-mail *)

LEMMA SwapIsBijection ==
  ASSUME NEW D, NEW i \in D, NEW j \in D
  PROVE  [k \in D |-> IF k = i THEN j ELSE IF k = j THEN i ELSE k] \in Bijection(D, D)
<1> DEFINE swap == [k \in D |-> IF k = i THEN j ELSE IF k = j THEN i ELSE k]
<1>1. swap \in [D -> D]
  OBVIOUS
<1>2. \A k \in D : swap[swap[k]] = k
  OBVIOUS
<1> HIDE DEF swap
<1>3. swap \in Injection(D, D)
  BY <1>1, <1>2 DEF Injection, IsInjective
<1>4. swap \in Surjection(D, D)
  BY <1>1, <1>2 DEF Surjection
<1> QED
  BY <1>3, <1>4 DEF Bijection, swap

(* Swapping two documents changes none of what a route looks at. *)
LEMMA SwapKeepsRoute ==
  ASSUME NEW docs, docs = [k \in DOMAIN docs |-> docs[k]], IsFiniteSet(DOMAIN docs),
         NEW i \in DOMAIN docs, NEW j \in DOMAIN docs, NEW technical
  PROVE  Route(Swapped(docs, i, j), technical) = Route(docs, technical)
<1> DEFINE D    == DOMAIN docs
           swap == [k \in D |-> IF k = i THEN j ELSE IF k = j THEN i ELSE k]
           new  == Swapped(docs, i, j)
<1>1. DOMAIN new = D /\ \A k \in D : new[k] = docs[swap[k]] /\ swap[k] \in D
  BY DEF Swapped
<1>2. swap \in Bijection(D, D)
  BY SwapIsBijection
<1>3. /\ \A k \in D : swap[k] \in D
      /\ \A k, l \in D : swap[k] = swap[l] => k = l
      /\ \A l \in D : \E k \in D : swap[k] = l
  BY <1>2 DEF Bijection, Injection, Surjection, IsInjective
<1> HIDE DEF swap, new
<1>4. \A outcome : Has(new, outcome) = Has(docs, outcome)
  <2> SUFFICES ASSUME NEW outcome
               PROVE  Has(new, outcome) = Has(docs, outcome)
    OBVIOUS
  <2>1. ASSUME NEW k \in D, new[k].outcome = outcome
        PROVE  docs[swap[k]].outcome = outcome /\ swap[k] \in D
    BY <1>1, <2>1
  <2>2. ASSUME NEW l \in D, docs[l].outcome = outcome
        PROVE  \E k \in D : new[k].outcome = outcome
    <3>1. PICK k \in D : swap[k] = l
      BY <1>3
    <3> QED
      BY <1>1, <2>2, <3>1
  <2> QED
    BY <1>1, <2>1, <2>2 DEF Has
<1>5. Refusals(new) = Refusals(docs)
  BY <1>4 DEF Refusals
<1>6. \A role : WithRole(new, role) = WithRole(docs, role)
  <2> SUFFICES ASSUME NEW role
               PROVE  WithRole(new, role) = WithRole(docs, role)
    OBVIOUS
  <2> DEFINE A == {k \in D : new[k].role = role}
             B == {k \in D : docs[k].role = role}
             f == [k \in A |-> swap[k]]
  <2>1. IsFiniteSet(B) /\ IsFiniteSet(A)
    BY FS_Subset
  <2>2. f \in [A -> B]
    BY <1>1
  <2>3. f \in Injection(A, B)
    BY <1>3, <2>2 DEF Injection, IsInjective
  <2>4. f \in Surjection(A, B)
    <3>1. ASSUME NEW l \in B
          PROVE  \E k \in A : f[k] = l
      <4>1. PICK k \in D : swap[k] = l
        BY <1>3, <3>1
      <4>2. new[k].role = role /\ f[k] = l
        BY <1>1, <3>1, <4>1
      <4> QED
        BY <4>1, <4>2
    <3> HIDE DEF f, A, B
    <3> QED
      BY <2>2, <3>1 DEF Surjection
  <2>5. f \in Bijection(A, B)
    BY <2>3, <2>4 DEF Bijection
  <2>6. Cardinality(A) = Cardinality(B)
    <3> HIDE DEF f, A, B
    <3> QED
      BY <2>1, <2>3, <2>4, FS_Surjection
  <2> QED
    BY <1>1, <2>6 DEF WithRole
<1> QED
  BY <1>4, <1>5, <1>6 DEF Route, new
-----------------------------------------------------------------------------
(* The comparison of a field *)

LEMMA NumbersAreSymmetric ==
  ASSUME NEW a, NEW b
  PROVE  Fields!CompareNumber(a, b) = Fields!CompareNumber(b, a)
BY DEF Fields!CompareNumber, Fields!Decided

LEMMA EntitiesAreSymmetric ==
  ASSUME NEW a, NEW b, Listed(a.words), Listed(b.words)
  PROVE  Fields!CompareEntity(a, b) = Fields!CompareEntity(b, a)
<1> DEFINE s == Fields!Meaning(a.words)
           t == Fields!Meaning(b.words)
<1>1. Fields!ToSet(a.words \o b.words) = Fields!ToSet(b.words \o a.words)
  <2>1. \A p, q : Listed(p) /\ Listed(q) =>
          Fields!ToSet(p \o q) = ToSet(p) \cup ToSet(q)
    <3> SUFFICES ASSUME NEW p, NEW q, Listed(p), Listed(q)
                 PROVE  Fields!ToSet(p \o q) = ToSet(p) \cup ToSet(q)
      OBVIOUS
    <3>1. p \in Seq(ToSet(p) \cup ToSet(q)) /\ q \in Seq(ToSet(p) \cup ToSet(q))
      BY SeqMonotonic DEF Listed
    <3> DEFINE S == ToSet(p) \cup ToSet(q)
    <3> HIDE DEF S
    <3>2. Range(p \o q) = Range(p) \cup Range(q)
      BY <3>1, RangeConcatenation DEF S
    <3> QED
      BY <3>2 DEF ToSet, Fields!ToSet, Range
  <2> QED
    BY <2>1
<1> HIDE DEF s, t
<1>2. Fields!Abbreviated(s, t) <=> Fields!Abbreviated(t, s)
  BY DEF Fields!Abbreviated
<1>3. Fields!SharesHead(s, t) <=> Fields!SharesHead(t, s)
  BY DEF Fields!SharesHead
<1>4. Fields!Candidate(a, b) <=> Fields!Candidate(b, a)
  <2> DEFINE C(p, q, all) ==
        \/ <<>> \in {p, q}
        \/ p = q
        \/ Fields!Abbreviated(p, q)
        \/ (Fields!Extended(p, q) \/ Fields!Extended(q, p)) /\ all \cap LocalWords # {}
        \/ Fields!SharesHead(p, q)
  <2>1. Fields!Candidate(a, b) <=> C(s, t, Fields!ToSet(a.words \o b.words))
    BY DEF Fields!Candidate, s, t
  <2>2. Fields!Candidate(b, a) <=> C(t, s, Fields!ToSet(b.words \o a.words))
    BY DEF Fields!Candidate, s, t
  <2> QED
    BY <1>1, <1>2, <1>3, <2>1, <2>2
<1> QED
  BY <1>4 DEF Fields!CompareEntity

LEMMA FieldsAreSymmetric ==
  ASSUME NEW kind \in {"ENTITY", "NUMBER"}, NEW si \in Sides[kind], NEW bl \in Sides[kind],
         NEW opinion
  PROVE  Fields!CompareField(kind, si, bl, opinion) = Fields!CompareField(kind, bl, si, opinion)
<1>1. Fields!L1(kind, si.value, bl.value) = Fields!L1(kind, bl.value, si.value)
  <2>1. CASE kind = "NUMBER"
    BY <2>1, NumbersAreSymmetric DEF Fields!L1
  <2>2. CASE kind = "ENTITY"
    <3>1. Listed(si.value.words) /\ Listed(bl.value.words)
      BY <2>2, DecisionsAssumption
    <3>2. Fields!CompareEntity(si.value, bl.value) = Fields!CompareEntity(bl.value, si.value)
      BY <3>1, EntitiesAreSymmetric
    <3> QED
      BY <2>2, <3>2 DEF Fields!L1
  <2> QED
    BY <2>1, <2>2
<1> QED
  BY <1>1 DEF Fields!CompareField

LEMMA ApprovedPorts ==
  ASSUME NEW si, NEW bl, NEW opinion, si.resolved, bl.resolved,
         NoPort \notin {Approved[si.value.name], Approved[bl.value.name]}
  PROVE  Fields!CompareField("PORT", si, bl, opinion)
           = IF Approved[si.value.name] = Approved[bl.value.name] THEN "MATCH" ELSE "MISMATCH"
<1>1. Fields!L1("PORT", si.value, bl.value)
        = Fields!Decided(Approved[si.value.name] = Approved[bl.value.name])
  BY DEF Fields!L1, Fields!ComparePort
<1> QED
  BY <1>1 DEF Fields!CompareField, Fields!Decided, Fields!Status
-----------------------------------------------------------------------------
(* Recursion over the lines of a page and the rows of a table.  The induction    *)
(* theorems of the library take the hypothesis as an operator; here it is a set   *)
(* of numbers, and a recursive definition is shown to have a solution first.      *)

(* Induction, without an operator for the induction hypothesis. *)
LEMMA Induction ==
  ASSUME NEW S \in SUBSET Nat, 0 \in S, \A n \in S : n + 1 \in S
  PROVE  \A n \in Nat : n \in S
<1> SUFFICES ASSUME Nat \ S # {}
             PROVE  FALSE
  OBVIOUS
<1>1. PICK n \in Nat \ S : \A m \in Nat \ S : n <= m
  BY SmallestNumber
<1>2. n - 1 \in Nat /\ n - 1 \in S
  BY <1>1
<1> QED
  BY <1>1, <1>2

LEMMA Joined ==
  ASSUME NEW a, NEW b, Listed(a), Listed(b)
  PROVE  Listed(a \o b) /\ ToSet(a \o b) = ToSet(a) \cup ToSet(b)
<1> DEFINE T == ToSet(a) \cup ToSet(b)
<1>1. a \in Seq(T) /\ b \in Seq(T)
  <2>1. ToSet(a) \subseteq T /\ ToSet(b) \subseteq T
    OBVIOUS
  <2> QED
    BY <2>1, SeqMonotonic DEF Listed
<1> HIDE DEF T
<1>2. a \o b \in Seq(T) /\ Len(a \o b) = Len(a) + Len(b)
      /\ DOMAIN (a \o b) = 1 .. Len(a \o b)
      /\ DOMAIN a = 1 .. Len(a) /\ DOMAIN b = 1 .. Len(b) /\ Len(a) \in Nat /\ Len(b) \in Nat
  BY <1>1
<1>3. \A i \in 1 .. Len(a) + Len(b) :
        (a \o b)[i] = IF i <= Len(a) THEN a[i] ELSE b[i - Len(a)]
  BY <1>1
<1>4. ToSet(a) \subseteq ToSet(a \o b)
  <2> SUFFICES ASSUME NEW i \in DOMAIN a
               PROVE  a[i] \in ToSet(a \o b)
    BY DEF ToSet
  <2>1. i \in DOMAIN (a \o b) /\ (a \o b)[i] = a[i]
    BY <1>2, <1>3
  <2> QED
    BY <2>1 DEF ToSet
<1>5. ToSet(b) \subseteq ToSet(a \o b)
  <2> SUFFICES ASSUME NEW i \in DOMAIN b
               PROVE  b[i] \in ToSet(a \o b)
    BY DEF ToSet
  <2>1. i + Len(a) \in DOMAIN (a \o b) /\ (a \o b)[i + Len(a)] = b[i]
    BY <1>2, <1>3
  <2> QED
    BY <2>1 DEF ToSet
<1>6. ToSet(a \o b) \subseteq T
  BY <1>2 DEF ToSet
<1>7. ToSet(a \o b) = T
  BY <1>4, <1>5, <1>6 DEF T
<1> QED
  BY <1>2, <1>7 DEF Listed, T

LEMMA FlattenRecursion ==
  ASSUME NEW n \in Nat, NEW s
  PROVE  \E g : g = [i \in 1 .. n |-> IF i = 1 THEN s[i] ELSE g[i - 1] \o s[i]]
<1> DEFINE S == {m \in Nat : \E g : /\ g = [i \in 1 .. m |-> g[i]]
                                    /\ \A i \in 1 .. m : g[i] = IF i = 1 THEN s[i] ELSE g[i - 1] \o s[i]}
<1>1. 0 \in S
  <2> DEFINE g == [i \in 1 .. 0 |-> i]
  <2>1. g = [i \in 1 .. 0 |-> g[i]] /\ \A i \in 1 .. 0 : g[i] = IF i = 1 THEN s[i] ELSE g[i - 1] \o s[i]
    OBVIOUS
  <2> QED
    BY <2>1
<1>2. ASSUME NEW m \in S
      PROVE  m + 1 \in S
  <2>1. PICK g : /\ g = [i \in 1 .. m |-> g[i]]
                 /\ \A i \in 1 .. m : g[i] = IF i = 1 THEN s[i] ELSE g[i - 1] \o s[i]
    OBVIOUS
  <2> DEFINE h == [i \in 1 .. m + 1 |-> IF i = m + 1 THEN (IF i = 1 THEN s[i] ELSE g[i - 1] \o s[i]) ELSE g[i]]
  <2>2. \A i \in 1 .. m + 1 : h[i] = IF i = 1 THEN s[i] ELSE h[i - 1] \o s[i]
    <3> SUFFICES ASSUME NEW i \in 1 .. m + 1
                 PROVE  h[i] = IF i = 1 THEN s[i] ELSE h[i - 1] \o s[i]
      OBVIOUS
    <3>1. CASE i = m + 1
      <4>1. i # 1 => i - 1 \in 1 .. m + 1 /\ i - 1 # m + 1
        OBVIOUS
      <4> QED
        BY <3>1, <4>1
    <3>2. CASE i # m + 1
      <4>1. i \in 1 .. m
        BY <3>2
      <4>2. i # 1 => i - 1 \in 1 .. m + 1 /\ i - 1 # m + 1
        BY <4>1
      <4> QED
        BY <2>1, <3>2, <4>1, <4>2
    <3> QED
      BY <3>1, <3>2
  <2>3. h = [i \in 1 .. m + 1 |-> h[i]] /\ m + 1 \in Nat
    OBVIOUS
  <2> HIDE DEF h
  <2> QED
    BY <2>2, <2>3
<1>3. n \in S
  <2> HIDE DEF S
  <2>1. S \in SUBSET Nat
    BY DEF S
  <2> QED
    BY <1>1, <1>2, <2>1, Induction
<1>4. PICK g : /\ g = [i \in 1 .. n |-> g[i]]
               /\ \A i \in 1 .. n : g[i] = IF i = 1 THEN s[i] ELSE g[i - 1] \o s[i]
  BY <1>3
<1>5. g = [i \in 1 .. n |-> IF i = 1 THEN s[i] ELSE g[i - 1] \o s[i]]
  BY <1>4
<1> QED
  BY <1>5

LEMMA FlattenUnfolds ==
  ASSUME NEW s, Len(s) \in Nat \ {0}
  PROVE  \E g : /\ FlattenSeq(s) = g[Len(s)]
                /\ g = [i \in 1 .. Len(s) |-> IF i = 1 THEN s[i] ELSE g[i - 1] \o s[i]]
<1> DEFINE F == CHOOSE flatten : flatten = [i \in 1 .. Len(s) |-> IF i = 1 THEN s[i] ELSE flatten[i - 1] \o s[i]]
<1>1. F = [i \in 1 .. Len(s) |-> IF i = 1 THEN s[i] ELSE F[i - 1] \o s[i]]
  BY FlattenRecursion, Zenon
<1>2. FlattenSeq(s) = F[Len(s)]
  BY DEF FlattenSeq
<1> HIDE DEF F
<1> QED
  BY <1>1, <1>2

LEMMA Flattened ==
  ASSUME NEW s, Listed(s), \A i \in DOMAIN s : Listed(s[i])
  PROVE  /\ Listed(FlattenSeq(s))
         /\ ToSet(FlattenSeq(s)) = UNION {ToSet(s[i]) : i \in DOMAIN s}
<1>1. Len(s) \in Nat /\ DOMAIN s = 1 .. Len(s)
  BY DEF Listed
<1>2. CASE Len(s) = 0
  <2>1. FlattenSeq(s) = s /\ DOMAIN s = {}
    BY <1>1, <1>2 DEF FlattenSeq
  <2> QED
    BY <2>1 DEF ToSet
<1>3. CASE Len(s) # 0
  <2>1. PICK g : /\ FlattenSeq(s) = g[Len(s)]
                 /\ g = [i \in 1 .. Len(s) |-> IF i = 1 THEN s[i] ELSE g[i - 1] \o s[i]]
    BY <1>1, <1>3, FlattenUnfolds
  <2>6. \A i \in 1 .. Len(s) : g[i] = IF i = 1 THEN s[i] ELSE g[i - 1] \o s[i]
    BY <2>1
  <2> DEFINE Fine(m) == /\ Listed(g[m])
                        /\ ToSet(g[m]) = UNION {ToSet(s[i]) : i \in 1 .. m}
             S == {m \in Nat : m \in 1 .. Len(s) => Fine(m)}
  <2>2. 0 \in S
    OBVIOUS
  <2>3. ASSUME NEW m \in S
        PROVE  m + 1 \in S
    <3> SUFFICES ASSUME m + 1 \in 1 .. Len(s)
                 PROVE  Fine(m + 1)
      OBVIOUS
    <3>1. Listed(s[m + 1])
      BY <1>1
    <3>2. CASE m = 0
      <4>1. g[m + 1] = s[1] /\ 1 .. m + 1 = {1}
        BY <2>6, <3>2
      <4>2. UNION {ToSet(s[i]) : i \in {1}} = ToSet(s[1])
        OBVIOUS
      <4> QED
        BY <3>1, <3>2, <4>1, <4>2
    <3>3. CASE m # 0
      <4>1. m \in 1 .. Len(s) /\ g[m + 1] = g[m] \o s[m + 1]
        <5>1. m \in 1 .. Len(s) /\ m + 1 # 1 /\ (m + 1) - 1 = m
          BY <3>3
        <5> QED
          BY <2>6, <5>1
      <4>2. Fine(m)
        BY <4>1
      <4>6. m \in Nat
        OBVIOUS
      <4> HIDE DEF S
      <4>3. Listed(g[m + 1]) /\ ToSet(g[m + 1]) = ToSet(g[m]) \cup ToSet(s[m + 1])
        BY <3>1, <4>1, <4>2, Joined
      <4>4. 1 .. m + 1 = (1 .. m) \cup {m + 1}
        BY <4>6
      <4>5. UNION {ToSet(s[i]) : i \in 1 .. m + 1}
              = (UNION {ToSet(s[i]) : i \in 1 .. m}) \cup ToSet(s[m + 1])
        BY <4>4
      <4> QED
        BY <4>2, <4>3, <4>5
    <3> QED
      BY <3>2, <3>3
  <2>4. Len(s) \in S
    <3>1. S \in SUBSET Nat
      OBVIOUS
    <3> HIDE DEF S
    <3> QED
      BY <1>1, <2>2, <2>3, <3>1, Induction
  <2>5. Fine(Len(s))
    BY <1>1, <1>3, <2>4
  <2> QED
    BY <1>1, <2>1, <2>5
<1> QED
  BY <1>2, <1>3

(* A walk from each of n places to the end, and what it collects.  It never      *)
(* leaves D, apart from places where there is nothing to collect.                *)
IsWalk(g, n, own, next) ==
  g = [i \in 1 .. n + 1 |-> IF i > n THEN <<>> ELSE own[i] \o g[next[i]]]

LEMMA WalkRecursion ==
  ASSUME NEW n \in Nat, NEW own, NEW next, \A i \in 1 .. n : next[i] \in i + 1 .. n + 1
  PROVE  \E g : IsWalk(g, n, own, next)
<1> DEFINE Walks(g, m) == /\ g = [i \in n + 1 - m .. n + 1 |-> g[i]]
                          /\ \A i \in n + 1 - m .. n + 1 :
                               g[i] = IF i > n THEN <<>> ELSE own[i] \o g[next[i]]
           S == {m \in Nat : m <= n => \E g : Walks(g, m)}
<1>1. 0 \in S
  <2> DEFINE g == [i \in n + 1 - 0 .. n + 1 |-> <<>>]
  <2>2. \A i \in n + 1 - 0 .. n + 1 : i > n /\ g[i] = <<>>
    OBVIOUS
  <2>3. g = [i \in n + 1 - 0 .. n + 1 |-> g[i]]
    OBVIOUS
  <2> HIDE DEF g
  <2>1. Walks(g, 0)
    BY <2>2, <2>3
  <2> HIDE DEF g
  <2> QED
    BY <2>1
<1>2. ASSUME NEW m \in S
      PROVE  m + 1 \in S
  <2> SUFFICES ASSUME m + 1 <= n
               PROVE  \E g : Walks(g, m + 1)
    OBVIOUS
  <2>1. PICK g : Walks(g, m)
    OBVIOUS
  <2> DEFINE p == n - m
             h == [i \in n + 1 - (m + 1) .. n + 1 |->
                    IF i = p THEN own[p] \o g[next[p]] ELSE g[i]]
  <2>2. p \in 1 .. n /\ n + 1 - (m + 1) .. n + 1 = (n + 1 - m .. n + 1) \cup {p}
        /\ p \notin n + 1 - m .. n + 1
    OBVIOUS
  <2>3. next[p] \in n + 1 - m .. n + 1
    BY <2>2
  <2>4. ASSUME NEW i \in n + 1 - m .. n + 1
        PROVE  i > n \/ next[i] \in n + 1 - m .. n + 1
    <3>1. i <= n => i \in 1 .. n
      OBVIOUS
    <3> QED
      BY <3>1
  <2> HIDE DEF p
  <2>5. \A i \in n + 1 - m .. n + 1 : h[i] = g[i]
    BY <2>2
  <2>6. h[p] = own[p] \o h[next[p]]
    BY <2>2, <2>3, <2>5
  <2>7. \A i \in n + 1 - m .. n + 1 :
          h[i] = IF i > n THEN <<>> ELSE own[i] \o h[next[i]]
    <3> SUFFICES ASSUME NEW i \in n + 1 - m .. n + 1
                 PROVE  h[i] = IF i > n THEN <<>> ELSE own[i] \o h[next[i]]
      OBVIOUS
    <3>1. g[i] = IF i > n THEN <<>> ELSE own[i] \o g[next[i]]
      BY <2>1
    <3>2. h[i] = g[i] /\ (i > n \/ h[next[i]] = g[next[i]])
      BY <2>4, <2>5
    <3> HIDE DEF h
    <3> QED
      BY <3>1, <3>2
  <2>8. h = [i \in n + 1 - (m + 1) .. n + 1 |-> h[i]]
    OBVIOUS
  <2> HIDE DEF h
  <2>9. ~(p > n)
    BY <2>2
  <2>10. \A i \in n + 1 - (m + 1) .. n + 1 :
           h[i] = IF i > n THEN <<>> ELSE own[i] \o h[next[i]]
    BY <2>2, <2>6, <2>7, <2>9
  <2>11. Walks(h, m + 1)
    BY <2>8, <2>10
  <2> QED
    BY <2>11
<1>3. n \in S
  <2>1. S \in SUBSET Nat
    OBVIOUS
  <2> HIDE DEF S
  <2> QED
    BY <1>1, <1>2, <2>1, Induction
<1>4. PICK g : Walks(g, n)
  BY <1>3
<1>5. n + 1 - n = 1
  OBVIOUS
<1>6. IsWalk(g, n, own, next)
  BY <1>4, <1>5 DEF IsWalk
<1> QED
  BY <1>6

Steps(n, own, next) == \A i \in 1 .. n : next[i] \in i + 1 .. n + 1 /\ Listed(own[i])

Collects(g, n, own, next) == g[n + 1] = <<>> /\ \A i \in 1 .. n : g[i] = own[i] \o g[next[i]]

StaysIn(D, n, own, next) ==
  \A i \in D : i <= n =>
    next[i] \in D /\ \A k \in D : i < k /\ k < next[i] => own[k] = <<>>

LEMMA Walked ==
  ASSUME NEW n \in Nat, NEW own, NEW next, NEW g,
         Steps(n, own, next), Collects(g, n, own, next),
         NEW D \in SUBSET (1 .. n + 1), StaysIn(D, n, own, next)
  PROVE  \A i \in D : /\ Listed(g[i])
                      /\ ToSet(g[i]) = UNION {ToSet(own[j]) : j \in {j \in D : i <= j /\ j <= n}}
<1> DEFINE Ahead(i) == {j \in D : i <= j /\ j <= n}
           Fine(i) == Listed(g[i]) /\ ToSet(g[i]) = UNION {ToSet(own[j]) : j \in Ahead(i)}
           S == {m \in Nat : \A i \in D : i >= n + 1 - m => Fine(i)}
<1>0. \A i \in D : i \in Nat /\ i <= n + 1
  OBVIOUS
<1>1. ASSUME NEW i \in D, i = n + 1
      PROVE  Fine(i)
  <2>3. g[i] = <<>>
    BY <1>1 DEF Collects
  <2>1. Ahead(i) = {}
    <3>1. \A j \in D : ~(i <= j /\ j <= n)
      BY <1>0, <1>1
    <3> QED
      BY <3>1
  <2>2. Listed(<<>>) /\ ToSet(<<>>) = {}
    BY DEF Listed, ToSet
  <2> QED
    BY <2>1, <2>2, <2>3
<1>2. 0 \in S
  <2>1. \A i \in D : i >= n + 1 - 0 => i = n + 1
    OBVIOUS
  <2> HIDE DEF Fine
  <2> QED
    BY <1>1, <2>1
<1>3. ASSUME NEW i \in D, i <= n, Fine(next[i])
      PROVE  Fine(i)
  <2>1. i \in 1 .. n /\ next[i] \in D /\ next[i] \in i + 1 .. n + 1 /\ Listed(own[i])
    BY <1>3 DEF Steps, StaysIn
  <2>2. g[i] = own[i] \o g[next[i]]
    BY <2>1 DEF Collects
  <2>3. Listed(g[i]) /\ ToSet(g[i]) = ToSet(own[i]) \cup ToSet(g[next[i]])
    BY <1>3, <2>1, <2>2, Joined
  <2>4. ToSet(<<>>) = {}
    BY DEF ToSet
  <2>5. \A k \in Ahead(i) : k = i \/ k \in Ahead(next[i]) \/ ToSet(own[k]) = {}
    <3> SUFFICES ASSUME NEW k \in Ahead(i), k # i, k \notin Ahead(next[i])
                 PROVE  own[k] = <<>>
      BY <2>4
    <3>1. k \in D /\ i < k /\ k < next[i]
      BY <2>1
    <3> QED
      BY <1>3, <3>1 DEF StaysIn
  <2>6. i \in Ahead(i) /\ Ahead(next[i]) \subseteq Ahead(i)
    <3>1. \A j \in D : next[i] <= j => i <= j
      BY <1>0, <2>1
    <3>2. i <= i /\ i <= n
      BY <1>0, <1>3
    <3> QED
      BY <3>1, <3>2
  <2> HIDE DEF Ahead
  <2>7. UNION {ToSet(own[j]) : j \in Ahead(i)}
          = ToSet(own[i]) \cup UNION {ToSet(own[j]) : j \in Ahead(next[i])}
    BY <2>5, <2>6
  <2> QED
    BY <1>3, <2>3, <2>7
<1>4. ASSUME NEW m \in S
      PROVE  m + 1 \in S
  <2> SUFFICES ASSUME NEW i \in D, i >= n + 1 - (m + 1)
               PROVE  Fine(i)
    OBVIOUS
  <2>1. CASE i > n
    BY <1>1, <2>1
  <2>2. CASE i <= n
    <3>1. i \in 1 .. n /\ next[i] \in D /\ next[i] >= n + 1 - m
      BY <2>2 DEF Steps, StaysIn
    <3>2. Fine(next[i])
      BY <3>1
    <3> HIDE DEF Fine
    <3> QED
      BY <1>3, <2>2, <3>2
  <2> QED
    BY <2>1, <2>2
<1>5. n \in S
  <2>1. S \in SUBSET Nat
    OBVIOUS
  <2> HIDE DEF S
  <2> QED
    BY <1>2, <1>4, <2>1, Induction
<1>6. \A i \in D : i >= n + 1 - n
  OBVIOUS
<1> QED
  BY <1>5, <1>6

-----------------------------------------------------------------------------
(* A page *)

LEMMA Largest ==
  ASSUME NEW n \in Nat, NEW S \in SUBSET (0 .. n), S # {}
  PROVE  Max(S) \in S /\ \A x \in S : x <= Max(S)
<1> DEFINE depth(x) == n - x
           T == {depth(x) : x \in S}
<1>1. T \in SUBSET Nat /\ T # {}
  <2>1. \A x \in S : depth(x) \in Nat
    OBVIOUS
  <2> QED
    BY <2>1
<1>2. PICK t \in T : \A u \in T : t <= u
  <2> HIDE DEF T
  <2> QED
    BY <1>1, SmallestNumber
<1>3. PICK m \in S : t = depth(m)
  OBVIOUS
<1>4. \A x \in S : m >= x
  <2> SUFFICES ASSUME NEW x \in S
               PROVE  m >= x
    OBVIOUS
  <2>1. depth(m) <= depth(x)
    BY <1>2, <1>3
  <2> QED
    BY <2>1
<1>5. \A x \in S : Max(S) >= x
  BY <1>4, Zenon DEF Max
<1>6. Max(S) \in S
  BY <1>4, Zenon DEF Max
<1> QED
  BY <1>5, <1>6

(* The lines below line i that could belong to it. *)
Run(lines, i, reach) == {j \in i .. reach : \A k \in i + 1 .. j : Continues(lines[k])}

RunsTo(lines, i, reach, last) ==
  /\ last \in i .. reach
  /\ \A k \in i + 1 .. last : Continues(lines[k])
  /\ last = reach \/ ~Continues(lines[last + 1])

LEMMA RunEnds ==
  ASSUME NEW lines, NEW i \in Nat, NEW reach \in Nat, i <= reach,
         NEW last, last = Max(Run(lines, i, reach))
  PROVE  RunsTo(lines, i, reach, last)
<1> DEFINE R == Run(lines, i, reach)
<1>1. i \in R
  BY DEF Run
<1>2. R \in SUBSET (0 .. reach)
  BY DEF Run
<1>0. last = Max(R)
  OBVIOUS
<1>3. last \in R /\ \A x \in R : x <= last
  <2> HIDE DEF R
  <2> QED
    BY <1>0, <1>1, <1>2, Largest
<1>4. last \in i .. reach /\ \A k \in i + 1 .. last : Continues(lines[k])
  BY <1>3 DEF Run
<1>5. ASSUME last # reach, Continues(lines[last + 1])
      PROVE  FALSE
  <2>1. last + 1 \in i .. reach
    BY <1>4, <1>5
  <2>2. \A k \in i + 1 .. last + 1 : k \in i + 1 .. last \/ k = last + 1
    BY <1>4
  <2>3. last + 1 \in R
    BY <1>4, <1>5, <2>1, <2>2 DEF Run
  <2> QED
    BY <1>3, <1>4, <2>3
<1> QED
  BY <1>4, <1>5 DEF RunsTo

(* The last line of what a label begins: a block ends there, and no other one   *)
(* begins at that label.                                                       *)
LEMMA LastLines ==
  ASSUME NEW lines, Listed(lines), NEW i \in 1 .. Len(lines), NEW f
  PROVE  LET last == LastLine(lines, i, f)
         IN  /\ last \in i .. Len(lines)
             /\ \A k \in i + 1 .. last : Continues(lines[k])
             /\ lines[i].text # <<>> \/ f \notin Blocks \cup Followed => last = i
             /\ lines[i].text = <<>> =>
                  \A j \in 1 .. Len(lines) : BeginsBlock(lines, i, j, f) <=> j = last /\ i < last
<1> DEFINE last == LastLine(lines, i, f)
<1>0. Len(lines) \in Nat
  BY DEF Listed
<1>1. CASE lines[i].text # <<>>
  <2>1. last = i
    BY <1>1 DEF LastLine
  <2> QED
    BY <1>0, <1>1, <2>1
<1>2. CASE lines[i].text = <<>> /\ f \notin Blocks \cup Followed
  <2>1. last = Max(Run(lines, i, i))
    BY <1>2 DEF LastLine, Run
  <2>2. last = i
    <3> HIDE DEF last
    <3>1. last \in i .. i
      BY <2>1, RunEnds DEF RunsTo
    <3> QED
      BY <3>1
  <2>3. \A j \in 1 .. Len(lines) : ~BeginsBlock(lines, i, j, f)
    BY <1>2 DEF BeginsBlock
  <2> QED
    BY <1>0, <1>2, <2>2, <2>3
<1>3. CASE lines[i].text = <<>> /\ f \in Blocks
  <2>3. f \notin Followed
    BY <1>3, ExtractionAssumption
  <2>1. last = Max(Run(lines, i, Len(lines)))
    BY <1>3, <2>3 DEF LastLine, Run
  <2> HIDE DEF last
  <2>2. /\ last \in i .. Len(lines)
        /\ \A k \in i + 1 .. last : Continues(lines[k])
        /\ last = Len(lines) \/ ~Continues(lines[last + 1])
    <3>1. i \in Nat /\ i <= Len(lines)
      BY <1>0
    <3>2. RunsTo(lines, i, Len(lines), last)
      BY <2>1, <3>1, <1>0, RunEnds
    <3> QED
      BY <3>2 DEF RunsTo
  <2>4. ASSUME NEW j \in 1 .. Len(lines), BeginsBlock(lines, i, j, f), j # last
        PROVE  FALSE
    <3>1. /\ i < j /\ \A k \in i + 1 .. j : Continues(lines[k])
          /\ j = Len(lines) \/ ~Continues(lines[j + 1])
      BY <2>3, <2>4 DEF BeginsBlock
    <3>2. CASE j < last
      <4>1. j + 1 \in i + 1 .. last /\ j # Len(lines)
        BY <1>0, <2>2, <3>1, <3>2
      <4> QED
        BY <2>2, <3>1, <4>1
    <3>3. CASE last < j
      <4>1. last + 1 \in i + 1 .. j /\ last # Len(lines)
        BY <1>0, <2>2, <3>1, <3>3
      <4> QED
        BY <2>2, <3>1, <4>1
    <3> QED
      BY <1>0, <2>2, <2>4, <3>2, <3>3
  <2>5. \A j \in 1 .. Len(lines) : BeginsBlock(lines, i, j, f) => j = last /\ i < last
    BY <2>4 DEF BeginsBlock
  <2>6. i < last => BeginsBlock(lines, i, last, f)
    BY <1>3, <2>2 DEF BeginsBlock
  <2>7. \A j \in 1 .. Len(lines) : BeginsBlock(lines, i, j, f) <=> j = last /\ i < last
    BY <2>5, <2>6
  <2> QED
    BY <1>3, <2>2, <2>7 DEF last
<1>4. CASE lines[i].text = <<>> /\ f \in Followed /\ i < Len(lines)
  <2>1. Min({i + 1, Len(lines)}) = i + 1
    BY <1>0, <1>4 DEF Min
  <2>2. f \notin Blocks
    BY <1>4, ExtractionAssumption
  <2>3. last = Max(Run(lines, i, i + 1))
    BY <1>4, <2>1, <2>2 DEF LastLine, Run
  <2> HIDE DEF last
  <2>4. /\ last \in i .. i + 1
        /\ \A k \in i + 1 .. last : Continues(lines[k])
        /\ last = i + 1 \/ ~Continues(lines[last + 1])
    <3>1. i \in Nat /\ i + 1 \in Nat /\ i <= i + 1
      BY <1>0
    <3>2. RunsTo(lines, i, i + 1, last)
      BY <2>3, <3>1, RunEnds
    <3> QED
      BY <3>2 DEF RunsTo
  <2>5. \A j \in 1 .. Len(lines) : BeginsBlock(lines, i, j, f) => j = i + 1 /\ Continues(lines[i + 1])
    BY <2>2 DEF BeginsBlock
  <2>6. i < last => BeginsBlock(lines, i, last, f)
    BY <1>4, <2>4 DEF BeginsBlock
  <2>7. last = i \/ last = i + 1
    BY <2>4
  <2>8. \A j \in 1 .. Len(lines) : BeginsBlock(lines, i, j, f) <=> j = last /\ i < last
    BY <2>4, <2>5, <2>6, <2>7
  <2> QED
    BY <1>0, <1>4, <2>4, <2>8 DEF last
<1>5. CASE lines[i].text = <<>> /\ f \in Followed /\ i = Len(lines)
  <2>1. Min({i + 1, Len(lines)}) = i
    BY <1>0, <1>5 DEF Min
  <2>2. f \notin Blocks
    BY <1>5, ExtractionAssumption
  <2>3. last = Max(Run(lines, i, i))
    BY <1>5, <2>1, <2>2 DEF LastLine, Run
  <2>4. last = i
    <3> HIDE DEF last
    <3>1. last \in i .. i
      BY <2>3, RunEnds DEF RunsTo
    <3> QED
      BY <3>1
  <2>5. \A j \in 1 .. Len(lines) : ~BeginsBlock(lines, i, j, f)
    BY <1>0, <1>5, <2>2 DEF BeginsBlock
  <2> QED
    BY <1>0, <1>5, <2>4, <2>5
<1> QED
  BY <1>0, <1>1, <1>2, <1>3, <1>4, <1>5

(* The values a page gives a field, by the lines that have its label. *)
LEMMA LinesSay ==
  ASSUME NEW lines, Listed(lines), NEW role, NEW f \in FieldNames
  PROVE  SaidInLines(lines, role, f)
           = {ValueAt(lines, i, LastLine(lines, i, f)) :
                i \in {i \in 1 .. Len(lines) : /\ FieldOf(lines[i], role) = f
                                               /\ ValueAt(lines, i, LastLine(lines, i, f)) # <<>>}}
<1> DEFINE last(i) == LastLine(lines, i, f)
           value(i) == ValueAt(lines, i, last(i))
           block(i, j) == [k \in 1 .. j - i |-> Whole(lines[i + k])]
           labels == {i \in DOMAIN lines : FieldOf(lines[i], role) = f}
           own    == {i \in labels : lines[i].text # <<>>}
           blocks == {b \in (labels \ own) \X (DOMAIN lines) : BeginsBlock(lines, b[1], b[2], f)}
           valued == {i \in 1 .. Len(lines) : FieldOf(lines[i], role) = f /\ value(i) # <<>>}
<1>1. DOMAIN lines = 1 .. Len(lines) /\ Len(lines) \in Nat
  BY DEF Listed
<1>2. \A i \in own : value(i) = <<lines[i].text>> /\ value(i) # <<>> /\ i \in valued
  BY <1>1 DEF ValueAt
<1>3. ASSUME NEW i \in labels \ own
      PROVE  /\ value(i) = block(i, last(i))
             /\ value(i) # <<>> <=> i < last(i)
             /\ last(i) \in i .. Len(lines)
             /\ \A j \in DOMAIN lines : <<i, j>> \in blocks <=> j = last(i) /\ i < last(i)
  <2>1. lines[i].text = <<>> /\ i \in 1 .. Len(lines)
    BY <1>1
  <2>2. /\ last(i) \in i .. Len(lines)
        /\ \A j \in 1 .. Len(lines) : BeginsBlock(lines, i, j, f) <=> j = last(i) /\ i < last(i)
    BY <2>1, LastLines
  <2>3. value(i) = block(i, last(i))
    BY <2>1 DEF ValueAt
  <2>4. \A j \in DOMAIN lines : <<i, j>> \in blocks <=> BeginsBlock(lines, i, j, f)
    OBVIOUS
  <2>5. block(i, last(i)) # <<>> <=> i < last(i)
    <3> DEFINE v == block(i, last(i))
               V == {Whole(lines[i + k]) : k \in 1 .. last(i) - i}
    <3>1. last(i) - i \in Nat
      BY <2>1, <2>2
    <3> HIDE DEF last
    <3>2. v \in [1 .. last(i) - i -> V]
      OBVIOUS
    <3> HIDE DEF V
    <3>3. v \in Seq(V) /\ Len(v) = last(i) - i
      <4> HIDE DEF v
      <4> QED
        BY <3>1, <3>2, SeqDef, LenProperties
    <3>4. v = <<>> <=> Len(v) = 0
      <4> HIDE DEF v
      <4> QED
        BY <3>3, EmptySeq
    <3> QED
      BY <2>1, <2>2, <3>3, <3>4
  <2> QED
    BY <1>1, <2>2, <2>3, <2>4, <2>5
<1> HIDE DEF last, value, block
<1>4. SaidInLines(lines, role, f)
        = {<<lines[i].text>> : i \in own} \cup {block(b[1], b[2]) : b \in blocks}
  BY DEF SaidInLines, block
<1>5. {<<lines[i].text>> : i \in own} \subseteq {value(i) : i \in valued}
  BY <1>2
<1>6. {block(b[1], b[2]) : b \in blocks} \subseteq {value(i) : i \in valued}
  <2> SUFFICES ASSUME NEW b \in blocks
               PROVE  block(b[1], b[2]) \in {value(i) : i \in valued}
    OBVIOUS
  <2>1. b[1] \in labels \ own /\ b[2] \in DOMAIN lines /\ b = <<b[1], b[2]>>
    OBVIOUS
  <2>2. b[2] = last(b[1]) /\ b[1] < last(b[1])
    BY <1>3, <2>1
  <2>3. value(b[1]) = block(b[1], b[2]) /\ value(b[1]) # <<>>
    BY <1>3, <2>1, <2>2
  <2>4. b[1] \in valued
    BY <1>1, <2>1, <2>3
  <2> QED
    BY <2>3, <2>4
<1>7. ASSUME NEW i \in valued
      PROVE  value(i) \in {<<lines[j].text>> : j \in own} \cup {block(b[1], b[2]) : b \in blocks}
  <2>1. i \in labels /\ value(i) # <<>>
    BY <1>1
  <2>2. CASE i \in own
    BY <1>2, <2>2
  <2>3. CASE i \notin own
    <3>1. /\ i < last(i) /\ last(i) \in DOMAIN lines
          /\ value(i) = block(i, last(i))
      BY <1>1, <1>3, <2>1, <2>3
    <3>2. <<i, last(i)>> \in blocks
      BY <1>3, <2>1, <2>3, <3>1
    <3> QED
      BY <3>1, <3>2
  <2> QED
    BY <2>2, <2>3
<1>8. SaidInLines(lines, role, f) = {value(i) : i \in valued}
  BY <1>4, <1>5, <1>6, <1>7
<1> QED
  BY <1>8 DEF value, last

ValuesOf(candidates, f) == {c.value : c \in {c \in ToSet(candidates) : c.field = f}}

LEMMA PageScanned ==
  ASSUME NEW lines, Listed(lines), NEW role
  PROVE  /\ Listed(ScanPage(lines, role))
         /\ \A f \in FieldNames :
              ValuesOf(ScanPage(lines, role), f) = SaidInLines(lines, role, f)
<1> DEFINE n == Len(lines)
           field(i) == FieldOf(lines[i], role)
           last(i)  == LastLine(lines, i, field(i))
           value(i) == ValueAt(lines, i, last(i))
           own  == [i \in 1 .. n |-> IF field(i) = NoField \/ value(i) = <<>> THEN <<>>
                                     ELSE <<[field |-> field(i), value |-> value(i)]>>]
           next == [i \in 1 .. n |-> last(i) + 1]
           F == CHOOSE From : From =
                  [i \in 1 .. Len(lines) + 1 |->
                     IF i > Len(lines) THEN <<>>
                     ELSE (IF FieldOf(lines[i], role) = NoField
                              \/ ValueAt(lines, i, LastLine(lines, i, FieldOf(lines[i], role))) = <<>>
                           THEN <<>>
                           ELSE <<[field |-> FieldOf(lines[i], role),
                                   value |-> ValueAt(lines, i, LastLine(lines, i, FieldOf(lines[i], role)))]>>)
                          \o From[LastLine(lines, i, FieldOf(lines[i], role)) + 1]]
<1>1. n \in Nat
  BY DEF Listed
<1>2. ASSUME NEW i \in 1 .. n
      PROVE  /\ last(i) \in i .. n
             /\ \A k \in i + 1 .. last(i) : Continues(lines[k])
  BY <1>2, LastLines
<1>3. \A i \in 1 .. n : next[i] \in i + 1 .. n + 1
  <2> HIDE DEF last
  <2> QED
    BY <1>1, <1>2
<1>4. PICK g : IsWalk(g, n, own, next)
  <2> HIDE DEF own, next, n
  <2> QED
    BY <1>1, <1>3, WalkRecursion
<1>5. F = [i \in 1 .. Len(lines) + 1 |->
             IF i > Len(lines) THEN <<>>
             ELSE (IF field(i) = NoField \/ value(i) = <<>> THEN <<>>
                   ELSE <<[field |-> field(i), value |-> value(i)]>>) \o F[last(i) + 1]]
  <2>1. \A i \in 1 .. n + 1 : i > n \/ i \in 1 .. n
    BY <1>1
  <2>2. g = [i \in 1 .. Len(lines) + 1 |->
             IF i > Len(lines) THEN <<>>
             ELSE (IF field(i) = NoField \/ value(i) = <<>> THEN <<>>
                   ELSE <<[field |-> field(i), value |-> value(i)]>>) \o g[last(i) + 1]]
    <3> HIDE DEF field, last, value
    <3> QED
      BY <1>4, <2>1 DEF IsWalk
  <2> QED
    BY <2>2, Zenon
<1>6. ScanPage(lines, role) = F[1]
  BY Zenon DEF ScanPage
<1> HIDE DEF F
<1>7. Collects(F, n, own, next)
  <2> HIDE DEF field, last, value
  <2>1. F[n + 1] = <<>>
    BY <1>1, <1>5
  <2>2. \A i \in 1 .. n : F[i] = own[i] \o F[next[i]]
    <3> SUFFICES ASSUME NEW i \in 1 .. n
                 PROVE  F[i] = own[i] \o F[next[i]]
      OBVIOUS
    <3>1. i \in 1 .. Len(lines) + 1 /\ ~(i > Len(lines))
      BY <1>1
    <3>2. F[i] = (IF field(i) = NoField \/ value(i) = <<>> THEN <<>>
                  ELSE <<[field |-> field(i), value |-> value(i)]>>) \o F[last(i) + 1]
      BY <1>5, <3>1
    <3>3. own[i] = (IF field(i) = NoField \/ value(i) = <<>> THEN <<>>
                    ELSE <<[field |-> field(i), value |-> value(i)]>>)
          /\ next[i] = last(i) + 1
      OBVIOUS
    <3> HIDE DEF own, next
    <3> QED
      BY <3>2, <3>3
  <2> QED
    BY <2>1, <2>2 DEF Collects
<1>8. \A i \in 1 .. n : /\ Listed(own[i])
                        /\ ToSet(own[i]) = IF field(i) = NoField \/ value(i) = <<>> THEN {}
                                           ELSE {[field |-> field(i), value |-> value(i)]}
  <2> HIDE DEF field, value
  <2>1. Listed(<<>>) /\ ToSet(<<>>) = {}
    BY DEF Listed, ToSet
  <2>2. \A x : Listed(<<x>>) /\ ToSet(<<x>>) = {x}
    BY DEF Listed, ToSet
  <2> QED
    BY <2>1, <2>2
<1>9. Steps(n, own, next)
  BY <1>3, <1>8 DEF Steps
<1>10. StaysIn(1 .. n + 1, n, own, next)
  <2> SUFFICES ASSUME NEW i \in 1 .. n, NEW k \in 1 .. n + 1, i < k, k < next[i]
               PROVE  own[k] = <<>>
    <3>1. \A i \in 1 .. n + 1 : i <= n => i \in 1 .. n /\ next[i] \in 1 .. n + 1
      BY <1>1, <1>3
    <3> HIDE DEF own, next
    <3> QED
      BY <3>1 DEF StaysIn
  <2>1. k \in i + 1 .. last(i) /\ k \in 1 .. n
    <3> HIDE DEF last
    <3> QED
      BY <1>1, <1>2
  <2>2. Continues(lines[k])
    BY <1>2, <2>1
  <2>3. field(k) = NoField
    BY <2>2 DEF Continues, FieldOf
  <2> HIDE DEF field, value
  <2> QED
    BY <2>1, <2>3
<1>11. /\ Listed(F[1])
       /\ ToSet(F[1]) = UNION {ToSet(own[j]) : j \in 1 .. n}
  <2>1. {j \in 1 .. n + 1 : 1 <= j /\ j <= n} = 1 .. n /\ 1 \in 1 .. n + 1
    BY <1>1
  <2> HIDE DEF own, next, n
  <2> QED
    BY <1>1, <1>7, <1>9, <1>10, <2>1, Walked
<1>12. ASSUME NEW f \in FieldNames
       PROVE  ValuesOf(F[1], f) = SaidInLines(lines, role, f)
  <2> DEFINE valued == {i \in 1 .. n : field(i) = f /\ value(i) # <<>>}
  <2>1. f # NoField
    BY ExtractionAssumption
  <2>2. SaidInLines(lines, role, f) = {value(i) : i \in valued}
    BY LinesSay
  <2> HIDE DEF field, value, own, n
  <2>3. \A c : c \in ToSet(F[1]) <=>
          \E i \in 1 .. n : /\ field(i) # NoField /\ value(i) # <<>>
                            /\ c = [field |-> field(i), value |-> value(i)]
    <3>1. \A c : c \in ToSet(F[1]) <=> \E i \in 1 .. n : c \in ToSet(own[i])
      BY <1>11
    <3>2. \A c : \A i \in 1 .. n :
            c \in ToSet(own[i]) <=> /\ field(i) # NoField /\ value(i) # <<>>
                                   /\ c = [field |-> field(i), value |-> value(i)]
      BY <1>8
    <3> QED
      BY <3>1, <3>2
  <2>4. ValuesOf(F[1], f) \subseteq {value(i) : i \in valued}
    BY <2>3 DEF ValuesOf
  <2>5. \A i \in valued : value(i) \in ValuesOf(F[1], f)
    <3> SUFFICES ASSUME NEW i \in valued
                 PROVE  value(i) \in ValuesOf(F[1], f)
      OBVIOUS
    <3>1. [field |-> field(i), value |-> value(i)] \in ToSet(F[1])
      BY <2>1, <2>3
    <3> QED
      BY <3>1 DEF ValuesOf
  <2> QED
    BY <2>2, <2>4, <2>5
<1> QED
  BY <1>6, <1>11, <1>12

-----------------------------------------------------------------------------
(* A table *)

LEMMA Enumerated ==
  ASSUME NEW n \in Nat, NEW s, s = [i \in 1 .. n |-> s[i]]
  PROVE  Listed(s) /\ Len(s) = n /\ DOMAIN s = 1 .. n
<1>1. s \in [1 .. n -> ToSet(s)] /\ DOMAIN s = 1 .. n
  <2>1. DOMAIN s = 1 .. n
    OBVIOUS
  <2> QED
    BY <2>1 DEF ToSet
<1> QED
  BY <1>1, SeqDef, LenProperties DEF Listed

LEMMA Single ==
  /\ Listed(<<>>) /\ ToSet(<<>>) = {}
  /\ \A x : Listed(<<x>>) /\ ToSet(<<x>>) = {x}
BY DEF Listed, ToSet

(* What a header gives the fields it labels. *)
LEMMA BelowHeader ==
  ASSUME NEW header, Listed(header), NEW values
  PROVE  /\ Listed(Below(header, values))
         /\ ToSet(Below(header, values))
              = {[field |-> MapLabel(header[c], FALSE), value |-> <<<<values[c]>>>>] : c \in LabelsIn(header)}
<1> DEFINE cell(c) == [field |-> MapLabel(header[c], FALSE), value |-> <<<<values[c]>>>>]
           s == [c \in DOMAIN header |-> IF c \in LabelsIn(header) THEN <<cell(c)>> ELSE <<>>]
<1>1. DOMAIN header = 1 .. Len(header) /\ Len(header) \in Nat
  BY DEF Listed
<1>2. Below(header, values) = FlattenSeq(s)
  BY DEF Below
<1>3. LabelsIn(header) \subseteq DOMAIN header
  BY DEF LabelsIn
<1> HIDE DEF cell
<1>4. s = [c \in 1 .. Len(header) |-> s[c]] /\ DOMAIN s = DOMAIN header
  BY <1>1
<1>5. \A c \in DOMAIN s : /\ Listed(s[c])
                          /\ ToSet(s[c]) = IF c \in LabelsIn(header) THEN {cell(c)} ELSE {}
  BY Single
<1>6. Listed(s)
  <2> HIDE DEF s
  <2> QED
    BY <1>1, <1>4, Enumerated
<1>7. Listed(FlattenSeq(s)) /\ ToSet(FlattenSeq(s)) = UNION {ToSet(s[c]) : c \in DOMAIN s}
  <2> HIDE DEF s
  <2> QED
    BY <1>5, <1>6, Flattened
<1>8. UNION {ToSet(s[c]) : c \in DOMAIN s} = {cell(c) : c \in LabelsIn(header)}
  <2> HIDE DEF s
  <2> QED
    BY <1>3, <1>4, <1>5
<1> QED
  BY <1>2, <1>7, <1>8 DEF cell

LEMMA TableScanned ==
  ASSUME NEW table, Listed(table), \A r \in DOMAIN table : Listed(table[r]),
         \A r \in DOMAIN table \ {1} : ~(IsHeader(table, r - 1) /\ IsHeader(table, r))
  PROVE  /\ Listed(ScanTable(table))
         /\ \A f \in FieldNames : ValuesOf(ScanTable(table), f) = SaidInTable(table, f)
<1> DEFINE n == Len(table)
           header(r) == IsHeader(table, r)
           below(r)  == Below(table[r], table[r + 1])
           beside(r) == Beside(table[r])
           own  == [r \in 1 .. n |-> IF header(r) THEN below(r) ELSE beside(r)]
           next == [r \in 1 .. n |-> IF header(r) THEN r + 2 ELSE r + 1]
           D == {r \in 1 .. n + 1 : ~(r - 1 \in 1 .. n /\ header(r - 1))}
           F == CHOOSE From : From =
                  [r \in 1 .. Len(table) + 1 |->
                     IF r > Len(table) THEN <<>>
                     ELSE IF IsHeader(table, r) THEN Below(table[r], table[r + 1]) \o From[r + 2]
                     ELSE Beside(table[r]) \o From[r + 1]]
<1>1. n \in Nat /\ DOMAIN table = 1 .. n
  BY DEF Listed
<1>2. \A r \in 1 .. n : header(r) => r < n
  BY DEF IsHeader
<1>3. \A r \in 1 .. n : next[r] \in r + 1 .. n + 1
  <2> HIDE DEF header
  <2> QED
    BY <1>1, <1>2
<1>4. PICK g : IsWalk(g, n, own, next)
  <2> HIDE DEF own, next, n
  <2> QED
    BY <1>1, <1>3, WalkRecursion
<1>5. F = [r \in 1 .. Len(table) + 1 |->
             IF r > Len(table) THEN <<>>
             ELSE IF header(r) THEN below(r) \o F[r + 2] ELSE beside(r) \o F[r + 1]]
  <2>1. \A r \in 1 .. n + 1 : r > n \/ r \in 1 .. n
    BY <1>1
  <2>2. g = [r \in 1 .. Len(table) + 1 |->
             IF r > Len(table) THEN <<>>
             ELSE IF header(r) THEN below(r) \o g[r + 2] ELSE beside(r) \o g[r + 1]]
    <3> HIDE DEF header, below, beside
    <3> QED
      BY <1>4, <2>1 DEF IsWalk
  <2> QED
    BY <2>2, Zenon
<1>6. ScanTable(table) = F[1]
  BY Zenon DEF ScanTable
<1> HIDE DEF F
<1>7. Collects(F, n, own, next)
  <2> HIDE DEF header, below, beside
  <2>1. F[n + 1] = <<>>
    BY <1>1, <1>5
  <2>2. \A r \in 1 .. n : F[r] = own[r] \o F[next[r]]
    <3> SUFFICES ASSUME NEW r \in 1 .. n
                 PROVE  F[r] = own[r] \o F[next[r]]
      OBVIOUS
    <3>1. r \in 1 .. Len(table) + 1 /\ ~(r > Len(table))
      BY <1>1
    <3>2. F[r] = IF header(r) THEN below(r) \o F[r + 2] ELSE beside(r) \o F[r + 1]
      BY <1>5, <3>1
    <3>3. /\ own[r] = IF header(r) THEN below(r) ELSE beside(r)
          /\ next[r] = IF header(r) THEN r + 2 ELSE r + 1
      OBVIOUS
    <3> HIDE DEF own, next
    <3> QED
      BY <3>2, <3>3
  <2> QED
    BY <2>1, <2>2 DEF Collects
<1>8. \A r \in 1 .. n : ~header(r) =>
        /\ Listed(beside(r))
        /\ ToSet(beside(r)) =
             IF Len(table[r]) >= 2 /\ 1 \in LabelsIn(table[r])
             THEN {[field |-> MapLabel(table[r][1], FALSE), value |-> <<Tail(table[r])>>]} ELSE {}
  BY Single DEF Beside
<1>9. \A r \in 1 .. n :
        /\ Listed(below(r))
        /\ ToSet(below(r)) = {[field |-> MapLabel(table[r][c], FALSE), value |-> <<<<table[r + 1][c]>>>>] :
                                c \in LabelsIn(table[r])}
  BY <1>1, BelowHeader
<1>10. Steps(n, own, next)
  <2> HIDE DEF header, below, beside, next
  <2> QED
    BY <1>3, <1>8, <1>9 DEF Steps
<1>11. D \in SUBSET (1 .. n + 1) /\ 1 \in D
  BY <1>1
<1>12. \A r \in 1 .. n : header(r) => r \in D /\ r + 1 \notin D /\ r + 2 \in D
  <2> SUFFICES ASSUME NEW r \in 1 .. n, header(r)
               PROVE  r \in D /\ r + 1 \notin D /\ r + 2 \in D
    OBVIOUS
  <2>1. r < n
    BY <1>2
  <2>2. r # 1 => ~header(r - 1)
    BY <1>1
  <2>3. ~header(r + 1)
    <3>1. r + 1 \in DOMAIN table \ {1} /\ (r + 1) - 1 = r
      BY <1>1, <2>1
    <3> QED
      BY <3>1
  <2> HIDE DEF header
  <2>4. (r + 1) - 1 = r /\ (r + 2) - 1 = r + 1
    BY <1>1
  <2> QED
    BY <1>1, <2>1, <2>2, <2>3, <2>4
<1>13. StaysIn(D, n, own, next)
  <2> SUFFICES ASSUME NEW r \in D, r <= n
               PROVE  next[r] \in D /\ \A k \in D : r < k /\ k < next[r] => own[k] = <<>>
    BY DEF StaysIn
  <2>1. r \in 1 .. n
    BY <1>1
  <2>2. CASE header(r)
    <3>1. next[r] = r + 2 /\ r + 2 \in D /\ r + 1 \notin D
      BY <1>12, <2>1, <2>2
    <3>2. \A k \in D : r < k /\ k < r + 2 => k = r + 1
      BY <1>1, <2>1
    <3> QED
      BY <3>1, <3>2
  <2>3. CASE ~header(r)
    <3>1. next[r] = r + 1 /\ r + 1 \in D
      <4> HIDE DEF header
      <4>1. (r + 1) - 1 = r /\ r + 1 \in 1 .. n + 1
        BY <1>1, <2>1
      <4> QED
        BY <2>1, <2>3, <4>1
    <3>2. \A k \in D : ~(r < k /\ k < r + 1)
      BY <1>1, <2>1
    <3> QED
      BY <3>1, <3>2
  <2> QED
    BY <2>2, <2>3
<1>14. /\ Listed(F[1])
       /\ ToSet(F[1]) = UNION {ToSet(own[j]) : j \in {j \in D : 1 <= j /\ j <= n}}
  <2> HIDE DEF own, next, n, D
  <2> QED
    BY <1>1, <1>7, <1>10, <1>11, <1>13, Walked
<1>15. ASSUME NEW f \in FieldNames
       PROVE  ValuesOf(F[1], f) = SaidInTable(table, f)
  <2> DEFINE headers == {r \in DOMAIN table : IsHeader(table, r)}
             rows    == {r \in DOMAIN table \ headers : Len(table[r]) >= 2 /\ r - 1 \notin headers}
             columns(r) == {c \in DOMAIN table[r] : MapLabel(table[r][c], FALSE) = f}
  <2>1. f # NoField
    BY ExtractionAssumption
  <2>2. SaidInTable(table, f) = (UNION {{<<<<table[r + 1][c]>>>> : c \in columns(r)} : r \in headers})
                                  \cup {<<Tail(table[r])>> : r \in {r \in rows : 1 \in columns(r)}}
    BY DEF SaidInTable
  <2>13. \A v : v \in SaidInTable(table, f) <=>
           \/ \E r \in headers : \E k \in columns(r) : v = <<<<table[r + 1][k]>>>>
           \/ \E r \in rows : 1 \in columns(r) /\ v = <<Tail(table[r])>>
    <3> HIDE DEF headers, rows, columns
    <3> QED
      BY <2>2
  <2>3. headers = {r \in 1 .. n : header(r)}
    BY <1>1
  <2>4. \A r \in 1 .. n : header(r) => r \in D
    BY <1>12
  <2>5. \A r \in 1 .. n : r \in D /\ ~header(r) <=> r \notin headers /\ r - 1 \notin headers
    <3> HIDE DEF header
    <3> QED
      BY <1>1, <2>3, <2>4
  <2>6. \A r \in 1 .. n : columns(r) = {c \in LabelsIn(table[r]) : MapLabel(table[r][c], FALSE) = f}
    BY <2>1 DEF LabelsIn
  <2>7. \A r \in 1 .. n : own[r] = IF header(r) THEN below(r) ELSE beside(r)
    OBVIOUS
  <2>8. \A c : c \in ToSet(F[1]) <=> \E r \in D : r \in 1 .. n /\ c \in ToSet(own[r])
    <3>1. \A r \in D : r \in 1 .. n <=> 1 <= r /\ r <= n
      BY <1>1, <1>11
    <3> HIDE DEF own, D, n
    <3> QED
      BY <1>14, <3>1
  <2> HIDE DEF own, D, headers, header, below, beside, n
  <2>9. ValuesOf(F[1], f) \subseteq SaidInTable(table, f)
    <3> SUFFICES ASSUME NEW c \in ToSet(F[1]), c.field = f
                 PROVE  c.value \in SaidInTable(table, f)
      BY DEF ValuesOf
    <3>1. PICK r \in D : r \in 1 .. n /\ c \in ToSet(own[r])
      BY <2>8
    <3>2. CASE header(r)
      <4>1. PICK k \in LabelsIn(table[r]) :
              c = [field |-> MapLabel(table[r][k], FALSE), value |-> <<<<table[r + 1][k]>>>>]
        BY <1>9, <2>7, <3>1, <3>2
      <4>2. k \in columns(r) /\ r \in headers /\ c.value = <<<<table[r + 1][k]>>>>
        BY <2>3, <2>6, <3>1, <3>2, <4>1
      <4> HIDE DEF columns
      <4> QED
        BY <2>13, <4>2
    <3>3. CASE ~header(r)
      <4>1. /\ Len(table[r]) >= 2 /\ 1 \in LabelsIn(table[r])
            /\ c = [field |-> MapLabel(table[r][1], FALSE), value |-> <<Tail(table[r])>>]
        BY <1>8, <2>7, <3>1, <3>3
      <4>2. 1 \in columns(r) /\ r \in rows /\ c.value = <<Tail(table[r])>>
        BY <1>1, <2>5, <2>6, <3>1, <3>3, <4>1
      <4> HIDE DEF rows, columns
      <4> QED
        BY <2>13, <4>2
    <3> QED
      BY <3>2, <3>3
  <2>10. ASSUME NEW r \in headers, NEW k \in columns(r)
         PROVE  <<<<table[r + 1][k]>>>> \in ValuesOf(F[1], f)
    <3> DEFINE c == [field |-> MapLabel(table[r][k], FALSE), value |-> <<<<table[r + 1][k]>>>>]
    <3>1. r \in 1 .. n /\ header(r) /\ r \in D /\ k \in LabelsIn(table[r])
      BY <2>3, <2>4, <2>6
    <3>2. c \in ToSet(own[r])
      BY <1>9, <2>7, <3>1
    <3>3. c \in ToSet(F[1]) /\ c.field = f /\ c.value = <<<<table[r + 1][k]>>>>
      BY <2>8, <3>1, <3>2
    <3> HIDE DEF c
    <3> QED
      BY <3>3 DEF ValuesOf
  <2>11. ASSUME NEW r \in rows, 1 \in columns(r)
         PROVE  <<Tail(table[r])>> \in ValuesOf(F[1], f)
    <3> DEFINE c == [field |-> MapLabel(table[r][1], FALSE), value |-> <<Tail(table[r])>>]
    <3>1. r \in 1 .. n /\ ~header(r) /\ r \in D /\ 1 \in LabelsIn(table[r]) /\ Len(table[r]) >= 2
      BY <1>1, <2>3, <2>5, <2>6, <2>11
    <3>2. c \in ToSet(own[r])
      BY <1>8, <2>7, <3>1
    <3>3. c \in ToSet(F[1]) /\ c.field = f /\ c.value = <<Tail(table[r])>>
      BY <2>8, <2>11, <3>1, <3>2
    <3> HIDE DEF c
    <3> QED
      BY <3>3 DEF ValuesOf
  <2>12. SaidInTable(table, f) \subseteq ValuesOf(F[1], f)
    <3> HIDE DEF rows, columns
    <3> QED
      BY <2>10, <2>11, <2>13
  <2> QED
    BY <2>9, <2>12
<1> QED
  BY <1>6, <1>14, <1>15

-----------------------------------------------------------------------------
(* A document *)

LEMMA ManyScanned ==
  ASSUME NEW f, NEW scans, Listed(scans), \A i \in DOMAIN scans : Listed(scans[i])
  PROVE  /\ Listed(FlattenSeq(scans))
         /\ ValuesOf(FlattenSeq(scans), f) = UNION {ValuesOf(scans[i], f) : i \in DOMAIN scans}
BY Flattened DEF ValuesOf

(* The candidates of a field are what the document says of it. *)
LEMMA DocumentScanned ==
  ASSUME NEW document, IsDocument(document), HeadersApart(document)
  PROVE  /\ Listed(Candidates(document))
         /\ \A f \in FieldNames : ValuesOf(Candidates(document), f) = Said(document, f)
<1> DEFINE tables == document.tables
           pages  == document.pages
           fromTables == [t \in DOMAIN tables |-> ScanTable(tables[t])]
           fromPages  == [p \in DOMAIN pages |-> ScanPage(pages[p], document.role)]
<1>1. /\ DOMAIN tables = 1 .. Len(tables) /\ Len(tables) \in Nat
      /\ DOMAIN pages = 1 .. Len(pages) /\ Len(pages) \in Nat
  BY DEF IsDocument, Listed
<1>2. Listed(fromTables) /\ Listed(fromPages)
  <2>1. /\ fromTables = [t \in 1 .. Len(tables) |-> fromTables[t]]
        /\ fromPages = [p \in 1 .. Len(pages) |-> fromPages[p]]
    BY <1>1
  <2> HIDE DEF fromTables, fromPages
  <2> QED
    BY <1>1, <2>1, Enumerated
<1>3. \A t \in DOMAIN tables :
        /\ Listed(ScanTable(tables[t]))
        /\ \A f \in FieldNames : ValuesOf(ScanTable(tables[t]), f) = SaidInTable(tables[t], f)
  BY TableScanned DEF IsDocument, HeadersApart
<1>4. \A p \in DOMAIN pages :
        /\ Listed(ScanPage(pages[p], document.role))
        /\ \A f \in FieldNames :
             ValuesOf(ScanPage(pages[p], document.role), f) = SaidInLines(pages[p], document.role, f)
  BY PageScanned DEF IsDocument
<1>5. Candidates(document) = FlattenSeq(fromTables) \o FlattenSeq(fromPages)
  BY DEF Candidates
<1>6. /\ \A t \in DOMAIN fromTables : t \in DOMAIN tables /\ fromTables[t] = ScanTable(tables[t])
      /\ \A p \in DOMAIN fromPages :
           p \in DOMAIN pages /\ fromPages[p] = ScanPage(pages[p], document.role)
      /\ DOMAIN fromTables = DOMAIN tables /\ DOMAIN fromPages = DOMAIN pages
  OBVIOUS
<1> HIDE DEF fromTables, fromPages
<1>7. Listed(FlattenSeq(fromTables)) /\ Listed(FlattenSeq(fromPages))
  BY <1>2, <1>3, <1>4, <1>6, ManyScanned
<1>8. /\ Listed(Candidates(document))
      /\ \A f : ValuesOf(Candidates(document), f)
                  = ValuesOf(FlattenSeq(fromTables), f) \cup ValuesOf(FlattenSeq(fromPages), f)
  BY <1>5, <1>7, Joined DEF ValuesOf
<1>9. ASSUME NEW f \in FieldNames
      PROVE  ValuesOf(Candidates(document), f) = Said(document, f)
  <2>1. ValuesOf(FlattenSeq(fromTables), f) = UNION {SaidInTable(tables[t], f) : t \in DOMAIN tables}
    <3>1. ValuesOf(FlattenSeq(fromTables), f)
            = UNION {ValuesOf(fromTables[t], f) : t \in DOMAIN fromTables}
      BY <1>2, <1>3, <1>6, ManyScanned
    <3>2. \A t \in DOMAIN fromTables : ValuesOf(fromTables[t], f) = SaidInTable(tables[t], f)
      BY <1>3, <1>6
    <3> QED
      BY <1>6, <3>1, <3>2
  <2>2. ValuesOf(FlattenSeq(fromPages), f)
          = UNION {SaidInLines(pages[p], document.role, f) : p \in DOMAIN pages}
    <3>1. ValuesOf(FlattenSeq(fromPages), f)
            = UNION {ValuesOf(fromPages[p], f) : p \in DOMAIN fromPages}
      BY <1>2, <1>4, <1>6, ManyScanned
    <3>2. \A p \in DOMAIN fromPages :
            ValuesOf(fromPages[p], f) = SaidInLines(pages[p], document.role, f)
      BY <1>4, <1>6
    <3> QED
      BY <1>6, <3>1, <3>2
  <2> QED
    BY <1>8, <2>1, <2>2 DEF Said
<1> QED
  BY <1>8, <1>9

(* The outcome of a field is decided by the readable values among its candidates. *)
LEMMA ResolvedByValues ==
  ASSUME NEW document, Listed(Candidates(document)), NEW f \in FieldNames,
         NEW said, said = ValuesOf(Candidates(document), f),
         NEW known, known = {Canonical(f, v) : v \in said} \ {Unknown}
  PROVE  /\ IsFiniteSet(known)
         /\ Extract(document)[f] =
              IF said = {} THEN Field("MISSING", Unknown)
              ELSE IF known = {} THEN Field("UNRESOLVED", Unknown)
              ELSE IF Cardinality(known) = 1 THEN Field("RESOLVED", CHOOSE v \in known : TRUE)
              ELSE Field("AMBIGUOUS", Unknown)
<1> DEFINE found  == Candidates(document)
           places == {i \in DOMAIN found : found[i].field = f}
           values == [i \in places |-> found[i].value]
           read   == {Canonical(f, values[i]) : i \in DOMAIN values} \ {Unknown}
           chosen == CHOOSE v \in known : TRUE
<1>1. Extract(document)[f] = Resolve(f, values)
  BY DEF Extract
<1>2. {values[i] : i \in DOMAIN values} = said
  BY DEF ValuesOf, ToSet
<1>3. DOMAIN values = {} <=> said = {}
  BY <1>2
<1>4. read = known
  <2> HIDE DEF values
  <2> QED
    BY <1>2
<1>5. IsFiniteSet(known)
  <2>1. DOMAIN values \subseteq 1 .. Len(found) /\ Len(found) \in Nat
    BY DEF Listed
  <2>2. IsFiniteSet(DOMAIN values)
    BY <2>1, FS_Interval, FS_Subset
  <2> DEFINE canonical == [i \in DOMAIN values |-> Canonical(f, values[i])]
  <2>3. known \subseteq {canonical[i] : i \in DOMAIN values}
    <3>1. \A i \in DOMAIN values : canonical[i] = Canonical(f, values[i])
      OBVIOUS
    <3> HIDE DEF values, canonical
    <3> QED
      BY <1>4, <3>1
  <2>4. IsFiniteSet({canonical[i] : i \in DOMAIN values})
    <3> DEFINE T == {canonical[i] : i \in DOMAIN values}
    <3>1. canonical \in [DOMAIN values -> T]
      OBVIOUS
    <3> HIDE DEF canonical, values
    <3>2. \A v \in T : \E i \in DOMAIN values : canonical[i] = v
      OBVIOUS
    <3>3. canonical \in Surjection(DOMAIN values, T)
      BY <3>1, <3>2 DEF Surjection
    <3> HIDE DEF T
    <3>4. IsFiniteSet(T)
      BY <2>2, <3>3, FS_Surjection
    <3> QED
      BY <3>4 DEF T
  <2> QED
    BY <2>3, <2>4, FS_Subset
<1>6. known # {} => Cardinality(known) \in Nat /\ Cardinality(known) # 0
  BY <1>5, FS_CardinalityType, FS_EmptySet
<1>7. Cardinality({}) = 0
  BY FS_EmptySet
<1>8. DOMAIN values = {} => known = {}
  <2> HIDE DEF values
  <2> QED
    BY <1>4
<1>9. known # {} => Cardinality(known) = 1 \/ Cardinality(known) > 1
  BY <1>6
<1> HIDE DEF values
<1>10. /\ said = {} => Resolve(f, values) = Field("MISSING", Unknown)
       /\ said # {} /\ known = {} => Resolve(f, values) = Field("UNRESOLVED", Unknown)
       /\ known # {} /\ Cardinality(known) = 1 => Resolve(f, values) = Field("RESOLVED", chosen)
       /\ known # {} /\ Cardinality(known) > 1 => Resolve(f, values) = Field("AMBIGUOUS", Unknown)
  <2> HIDE DEF chosen
  <2>1. Resolve(f, values) =
          CASE DOMAIN values = {} -> Field("MISSING", Unknown)
            [] DOMAIN values # {} /\ known = {} -> Field("UNRESOLVED", Unknown)
            [] Cardinality(known) = 1 -> Field("RESOLVED", chosen)
            [] Cardinality(known) > 1 -> Field("AMBIGUOUS", Unknown)
    BY <1>4 DEF Resolve, chosen
  <2> HIDE DEF read
  <2>2. known = {} => Cardinality(known) = 0
    BY <1>7
  <2>3. said = {} => Resolve(f, values) = Field("MISSING", Unknown)
    BY <1>3, <1>8, <2>1, <2>2
  <2>4. said # {} /\ known = {} => Resolve(f, values) = Field("UNRESOLVED", Unknown)
    <3> SUFFICES ASSUME DOMAIN values # {}, known = {}
                 PROVE  Resolve(f, values) = Field("UNRESOLVED", Unknown)
      BY <1>3
    <3>1. Cardinality(known) # 1 /\ ~(Cardinality(known) > 1)
      BY <2>2
    <3> QED
      BY <2>1, <3>1, Zenon
  <2>5. known # {} => DOMAIN values # {}
    BY <1>8
  <2>6. known # {} /\ Cardinality(known) = 1 => Resolve(f, values) = Field("RESOLVED", chosen)
    BY <2>1, <2>5
  <2>7. known # {} /\ Cardinality(known) > 1 => Resolve(f, values) = Field("AMBIGUOUS", Unknown)
    BY <1>6, <2>1, <2>5
  <2> QED
    BY <2>3, <2>4, <2>6, <2>7
<1> HIDE DEF chosen
<1>11. Resolve(f, values) =
         IF said = {} THEN Field("MISSING", Unknown)
         ELSE IF known = {} THEN Field("UNRESOLVED", Unknown)
         ELSE IF Cardinality(known) = 1 THEN Field("RESOLVED", chosen)
         ELSE Field("AMBIGUOUS", Unknown)
  <2>1. said = {} => known = {}
    BY <1>3, <1>8
  <2> QED
    BY <1>6, <1>9, <1>10, <2>1
<1> QED
  BY <1>1, <1>5, <1>11 DEF chosen
-----------------------------------------------------------------------------
(* The decisions of one e-mail *)

LEMMA FaithfulInit == Init => Faithful
BY DEF Init, Faithful, Fields!CanonicalFields

LEMMA FaithfulStep == Faithful /\ [Next]_vars => Faithful'
<1> SUFFICES ASSUME Faithful, [Next]_vars
             PROVE  Faithful'
  OBVIOUS
<1>1. CASE TakeCategory
  BY <1>1 DEF TakeCategory, Faithful
<1>2. CASE TakeReadiness
  BY <1>2 DEF TakeReadiness, Faithful
<1>3. CASE TakeRoute
  <2>1. PICK files \in SeqOf(Files, MaxAttachments), technical \in {"NONE", "ATTACHMENT_READ_FAILED"} :
          LET docs == [i \in DOMAIN files |-> Classified(files[i])]
          IN  /\ question' = [docs |-> docs, technical |-> technical]
              /\ answer' = Route(docs, technical)
    BY <1>3 DEF TakeRoute
  <2>2. /\ question'.docs = [i \in DOMAIN files |-> Classified(files[i])]
        /\ answer' = Route(question'.docs, question'.technical)
    BY <2>1
  <2>3. stage' = "MATERIALIZED" /\ compared' = compared
    BY <1>3 DEF TakeRoute
  <2> QED
    BY <2>2, <2>3 DEF Faithful
<1>4. CASE TakeFields
  BY <1>4 DEF TakeFields, Faithful
<1>5. CASE CompareNext
  <2> DEFINE kind == Fields!CanonicalFields[compared + 1]
  <2>1. compared < 7 /\ compared + 1 \in 1 .. 7 /\ compared' = compared + 1 /\ stage' = "COMPARED"
    BY <1>5 DEF CompareNext, Faithful, Fields!CanonicalFields
  <2>2. kind \in {"ENTITY", "PORT", "NUMBER"}
    BY <2>1 DEF Fields!CanonicalFields
  <2>3. PICK si \in Sides[kind], bl \in Sides[kind], opinion \in Opinions :
          /\ question' = [kind |-> kind, si |-> si, bl |-> bl, opinion |-> opinion]
          /\ answer' = Fields!CompareField(kind, si, bl, opinion)
    BY <1>5 DEF CompareNext
  <2> HIDE DEF kind
  <2>4. /\ question'.kind = kind /\ question'.si = si /\ question'.bl = bl
        /\ question'.opinion = opinion
    BY <2>3
  <2>5. compared' \in 0 .. Len(Fields!CanonicalFields)
    BY <2>1 DEF Fields!CanonicalFields
  <2>6. answer' = Fields!CompareField(question'.kind, question'.si, question'.bl, question'.opinion)
    BY <2>3, <2>4
  <2> QED
    BY <2>1, <2>2, <2>4, <2>5, <2>6 DEF Faithful
<1>6. CASE Conclude
  BY <1>6 DEF Conclude, Faithful
<1>7. CASE Proceed
  BY <1>7 DEF Proceed, Faithful
<1>8. CASE UNCHANGED vars
  BY <1>8 DEF vars, Faithful
<1> QED
  BY <1>1, <1>2, <1>3, <1>4, <1>5, <1>6, <1>7, <1>8 DEF Next

LEMMA AlwaysFaithful == Spec => []Faithful
BY FaithfulInit, FaithfulStep, PTL DEF Spec

(***************************************************************************)
(* The category of an e-mail is the one it would have without the names of   *)
(* its attachments (classification/stage1.py:77), for any categories, any    *)
(* scores and any table.                                                     *)
(***************************************************************************)
THEOREM NamesNeverDecide == Spec => []FilenamesNeverDecide
<1>1. Faithful => FilenamesNeverDecide
  <2> SUFFICES ASSUME Faithful, stage = "CLASSIFIED"
               PROVE  answer.category = Classify(WithoutNames(question), Table).category
    BY DEF FilenamesNeverDecide
  <2>1. question \in MailRecords /\ answer = Classify(question, Table)
    BY DecisionsAssumption DEF Faithful, MailRecords
  <2>2. /\ WithoutNames(question) \in MailRecords
        /\ WithoutNames(question).subject = question.subject
        /\ WithoutNames(question).body = question.body
    BY <2>1 DEF WithoutNames, MailRecords, Scores
  <2>3. Resolved(question, Table).category = Resolved(WithoutNames(question), Table).category
    BY <2>1, <2>2, StageTwoDependsOn
  <2> QED
    BY <2>1, <2>2, <2>3, StageOneAgrees, TableIsOrdered
<1> QED
  BY <1>1, AlwaysFaithful, PTL

(***************************************************************************)
(* The order of the categories in the signal table does not decide the       *)
(* category, nor the order of the attachments the route of the e-mail, nor    *)
(* the side a value stands on its comparison, ports apart                    *)
(* (classification/stage2.py:95, documents/materialization.py,                *)
(* comparison/l1.py).                                                        *)
(***************************************************************************)
THEOREM ListingNeverDecides == Spec => []OrderNeverDecides
<1>1. Faithful => OrderNeverDecides
  <2> SUFFICES ASSUME Faithful
               PROVE  OrderNeverDecides
    OBVIOUS
  <2>1. ASSUME stage = "CLASSIFIED", NEW table \in Tables
        PROVE  Classify(question, table).category = answer.category
    <3>1. question \in MailRecords /\ answer = Classify(question, Table)
      BY <2>1, DecisionsAssumption DEF Faithful, MailRecords
    <3>2. Resolved(question, Table).category = Resolved(question, table).category
      BY <3>1, StageTwoDependsOn
    <3> QED
      BY <3>1, <3>2, StageOneAgrees, TableIsOrdered, TablesAreOrdered
  <2>2. ASSUME stage = "MATERIALIZED",
               NEW i \in DOMAIN question.docs, NEW j \in DOMAIN question.docs
        PROVE  Route(Swapped(question.docs, i, j), question.technical) = answer
    <3>1. PICK files \in SeqOf(Files, MaxAttachments) :
            /\ question.docs = [k \in DOMAIN files |-> Classified(files[k])]
            /\ answer = Route(question.docs, question.technical)
      BY <2>2 DEF Faithful
    <3>2. PICK m \in 0 .. MaxAttachments : files \in [1 .. m -> Files]
      BY <3>1 DEF SeqOf
    <3>3. IsFiniteSet(1 .. m)
      BY <3>2, DecisionsAssumption, FS_Interval
    <3>4. /\ IsFiniteSet(DOMAIN question.docs)
          /\ question.docs = [k \in DOMAIN question.docs |-> question.docs[k]]
      BY <3>1, <3>2, <3>3
    <3> QED
      BY <2>2, <3>1, <3>4, SwapKeepsRoute
  <2>3. ASSUME stage = "COMPARED", question.kind # "PORT"
        PROVE  Fields!CompareField(question.kind, question.bl, question.si, question.opinion) = answer
    <3>1. /\ question.kind \in {"ENTITY", "NUMBER"}
          /\ question.si \in Sides[question.kind] /\ question.bl \in Sides[question.kind]
          /\ answer = Fields!CompareField(question.kind, question.si, question.bl, question.opinion)
      BY <2>3 DEF Faithful
    <3> QED
      BY <3>1, FieldsAreSymmetric
  <2> QED
    BY <2>1, <2>2, <2>3 DEF OrderNeverDecides
<1> QED
  BY <1>1, AlwaysFaithful, PTL

(***************************************************************************)
(* A field has the value on which the readable candidates agree, wherever     *)
(* they stand in the document, is missing when there is none, and is left to   *)
(* the escalation otherwise (extraction/extractor.py:390), for any documents   *)
(* in which no two rows of a table are headers one after the other.           *)
(***************************************************************************)
THEOREM EvidenceAlwaysDecides == Spec => []EvidenceDecides
<1>1. Faithful => EvidenceDecides
  <2> SUFFICES ASSUME Faithful, stage = "OVERLAID", HeadersApart(question),
                      NEW f \in FieldNames, NEW said, said = Said(question, f),
                      NEW known, known = {Canonical(f, v) : v \in said} \ {Unknown}
               PROVE  CASE said = {} -> answer[f] = Field("MISSING", Unknown)
                        [] Cardinality(known) = 1 -> answer[f] \in {Field("RESOLVED", v) : v \in known}
                        [] OTHER -> answer[f] \in {Field("RESOLVED", v) : v \in Escalated \ {Unknown}}
                                      \cup {Field(IF known = {} THEN "UNRESOLVED" ELSE "AMBIGUOUS", Unknown)}
    BY DEF EvidenceDecides
  <2>1. PICK decided \in Escalated : answer[f] = Overlaid(Extract(question)[f], decided)
    BY DEF Faithful
  <2>2. IsDocument(question)
    BY DecisionsAssumption DEF Faithful
  <2>3. /\ IsFiniteSet(known)
        /\ Extract(question)[f] =
             IF said = {} THEN Field("MISSING", Unknown)
             ELSE IF known = {} THEN Field("UNRESOLVED", Unknown)
             ELSE IF Cardinality(known) = 1 THEN Field("RESOLVED", CHOOSE v \in known : TRUE)
             ELSE Field("AMBIGUOUS", Unknown)
    BY <2>2, DocumentScanned, ResolvedByValues
  <2>4. Cardinality(known) = 1 => known # {} /\ said # {}
    BY FS_EmptySet
  <2>5. CASE said = {}
    BY <2>1, <2>3, <2>4, <2>5 DEF Overlaid, Field
  <2>6. CASE Cardinality(known) = 1
    <3>1. Extract(question)[f] = Field("RESOLVED", CHOOSE v \in known : TRUE)
          /\ (CHOOSE v \in known : TRUE) \in known
      BY <2>3, <2>4, <2>6
    <3>2. Extract(question)[f].status = "RESOLVED"
      BY <3>1 DEF Field
    <3>3. answer[f] = Extract(question)[f]
      BY <2>1, <3>2 DEF Overlaid
    <3>4. answer[f] \in {Field("RESOLVED", v) : v \in known}
      BY <3>1, <3>3
    <3> QED
      BY <2>4, <2>6, <3>4
  <2>7. CASE said # {} /\ Cardinality(known) # 1
    <3>1. Extract(question)[f]
            = Field(IF known = {} THEN "UNRESOLVED" ELSE "AMBIGUOUS", Unknown)
      BY <2>3, <2>7
    <3>2. \/ answer[f] = Extract(question)[f]
          \/ decided # Unknown /\ answer[f] = Field("RESOLVED", decided)
      BY <2>1 DEF Overlaid
    <3>3. answer[f] \in {Field("RESOLVED", v) : v \in Escalated \ {Unknown}}
                         \cup {Field(IF known = {} THEN "UNRESOLVED" ELSE "AMBIGUOUS", Unknown)}
      BY <3>1, <3>2
    <3> QED
      BY <2>7, <3>3
  <2> QED
    BY <2>5, <2>6, <2>7
<1> QED
  BY <1>1, AlwaysFaithful, PTL

(***************************************************************************)
(* Two port names the registry approves are equal exactly if it approves     *)
(* them for one port, whatever codes, similarity and resolver say            *)
(* (comparison/l1.py:241), for any registry.                                  *)
(***************************************************************************)
THEOREM RegistryDecides == Spec => []ApprovedPortsDecide
<1>1. Faithful => ApprovedPortsDecide
  BY ApprovedPorts DEF Faithful, ApprovedPortsDecide
<1> QED
  BY <1>1, AlwaysFaithful, PTL
============================================================================
