--------------------------- MODULE DocumentProofs ---------------------------
(***************************************************************************)
(* Theorems about the document stage for any e-mails, attachments, contents *)
(* and versions, any number of workers, calls, runs and faults.             *)
(***************************************************************************)
EXTENDS DocumentStages, FiniteSetTheorems, TLAPS

Found == [role : Roles, outcome : Outcomes]
----------------------------------------------------------------------------
(* Rows *)

LEMMA Constants ==
  /\ OcrMaxCalls \in Nat \ {0} /\ MaxRuns \in Nat /\ MaxFaults \in Nat
  /\ Nobody \notin Emails /\ NoDocument \notin DocumentRows /\ NoEntry \notin Extractions
  /\ Versions \subseteq Nat \ {0}
  /\ \A e \in Emails : /\ Places(e) \subseteq Nat \ {0} /\ IsFiniteSet(Places(e))
                       /\ \A i \in Places(e) : Attachments[e][i] \in Contents
<1>1. ASSUME NEW e \in Emails
      PROVE  /\ Places(e) \subseteq Nat \ {0} /\ IsFiniteSet(Places(e))
             /\ \A i \in Places(e) : Attachments[e][i] \in Contents
  <2>1. Attachments[e] \in Seq(Contents)
    BY DocumentStagesAssumption
  <2>2. Places(e) = 1..Len(Attachments[e]) /\ Len(Attachments[e]) \in Nat
    BY <2>1 DEF Places
  <2>3. IsFiniteSet(1..Len(Attachments[e]))
    BY <2>2, FS_Interval
  <2> QED
    BY <2>1, <2>2, <2>3
<1> QED
  BY <1>1, DocumentStagesAssumption

LEMMA ExtractionFacts ==
  /\ \A e \in Emails : \A i : <<e, i>> \in Extractions <=> i \in Places(e)
  /\ \A x \in Extractions :
       /\ x[1] \in Emails /\ x[2] \in Places(x[1]) /\ x = <<x[1], x[2]>>
       /\ ContentOf(x) \in Contents
BY Constants DEF Extractions, ContentOf

LEMMA FieldsDiffer ==
  ASSUME NEW k \in Keys
  PROVE  k # NoFields /\ k # Blank /\ NoFields # Blank
BY DEF Keys, NoFields, Blank

LEMMA ClassifiedFacts ==
  ASSUME NEW a
  PROVE  Classified(a) \in Found /\ Raised(a) \in Found
<1>1. RoleOf(a.markers) \in Roles
  BY DEF RoleOf, Roles
<1>2. ASSUME NEW role \in Roles
      PROVE  Validated(role) \in Found
  BY <1>2 DEF Validated, Found, Roles, Outcomes
<1>3. \A outcome \in Outcomes : Unvalidated(outcome) \in Found
  BY DEF Unvalidated, Found, Roles
<1> QED
  BY <1>1, <1>2, <1>3 DEF Classified, Raised, Outcomes

LEMMA CreatedFacts ==
  ASSUME NEW found \in Found, version \in Versions
  PROVE  /\ Created(found) \in DocumentRows /\ Created(found) # NoDocument
         /\ Created(found).role = found.role /\ Created(found).status # "EXTRACTED"
<1>1. Created(found) \in DocumentRows
  BY DEF Created, Found, DocumentRows
<1> QED
  BY <1>1, Constants DEF Created

LEMMA RewrittenFacts ==
  ASSUME NEW row \in DocumentRows, NEW fields \in Keys \cup {Blank, NoFields}, version \in Versions
  PROVE  /\ Extracted(row, fields) \in DocumentRows /\ NotExtracted(row) \in DocumentRows
         /\ Extracted(row, fields).role = row.role /\ NotExtracted(row).role = row.role
         /\ Extracted(row, fields).status = "EXTRACTED" /\ NotExtracted(row).status = "FAILED"
         /\ Extracted(row, fields).fields = fields /\ Extracted(row, fields).version = version
BY DEF Extracted, NotExtracted, DocumentRows

(* What reading one more attachment leaves of a run. *)
LEMMA KeptFacts ==
  ASSUME NEW e \in Emails, NEW t \in Runs(e), t.next \in Places(e), NEW found \in Found,
         version \in Versions
  PROVE  /\ Kept(t, found) \in Runs(e)
         /\ Kept(t, found).pc = "read"
         /\ Kept(t, found).read = t.read \cup {t.next}
         /\ Kept(t, found).legible = IF found.role = "UNKNOWN" THEN t.legible ELSE t.legible \cup {t.next}
         /\ Kept(t, found).technical = t.technical
         /\ Kept(t, found).pending = t.pending /\ Kept(t, found).missed = t.missed
         /\ Kept(t, found).hurt = t.hurt /\ Kept(t, found).call = 0
         /\ \A i \in Places(e) : Kept(t, found).docs[i] =
              IF i = t.next /\ t.docs[i] = NoDocument THEN Created(found) ELSE t.docs[i]
<1> DEFINE u == ReadOn(t, found)
<1>1. /\ u \in Runs(e) /\ u.docs = t.docs /\ u.pc = "read" /\ u.read = t.read \cup {t.next}
      /\ u.legible = IF found.role = "UNKNOWN" THEN t.legible ELSE t.legible \cup {t.next}
      /\ u.technical = t.technical /\ u.pending = t.pending /\ u.missed = t.missed
      /\ u.hurt = t.hurt /\ u.call = 0
  <2>1. t.next + 1 \in Nat \ {0}
    BY DEF Runs
  <2>2. t.read \cup {t.next} \in SUBSET Places(e) /\ t.legible \cup {t.next} \in SUBSET Places(e)
    BY DEF Runs
  <2> QED
    BY <2>1, <2>2 DEF ReadOn, Runs
<1>2. Created(found) \in DocumentRows
  BY CreatedFacts
<1> DEFINE docs == [t.docs EXCEPT ![t.next] = IF @ = NoDocument THEN Created(found) ELSE @]
<1>3. Kept(t, found) = [u EXCEPT !.docs = docs]
  BY <1>1 DEF Kept, Runs
<1>4. t.docs \in Documents(e)
  BY DEF Runs
<1>5. /\ docs \in Documents(e)
      /\ \A i \in Places(e) : docs[i] = IF i = t.next /\ t.docs[i] = NoDocument
                                        THEN Created(found) ELSE t.docs[i]
  BY <1>2, <1>4 DEF Documents
<1> HIDE DEF u, docs
<1> QED
  BY <1>1, <1>3, <1>5 DEF Runs

LEMMA WithRow ==
  ASSUME NEW e \in Emails, NEW t \in Runs(e), NEW i \in Places(e), NEW row \in DocumentRows
  PROVE  /\ With(t, <<e, i>>, row) \in Runs(e) /\ With(t, <<e, i>>, row).hurt = t.hurt
         /\ \A j \in Places(e) : With(t, <<e, i>>, row).docs[j] = IF j = i THEN row ELSE t.docs[j]
<1>1. t.docs \in Documents(e)
  BY DEF Runs
<1>2. /\ [t.docs EXCEPT ![i] = row] \in Documents(e)
      /\ \A j \in Places(e) : [t.docs EXCEPT ![i] = row][j] = IF j = i THEN row ELSE t.docs[j]
  BY <1>1 DEF Documents
<1>3. With(t, <<e, i>>, row) = [t EXCEPT !.docs = [t.docs EXCEPT ![i] = row]]
  BY DEF With, Runs
<1> DEFINE docs == [t.docs EXCEPT ![i] = row]
<1> HIDE DEF docs
<1>4. /\ [t EXCEPT !.docs = docs] \in Runs(e) /\ [t EXCEPT !.docs = docs].docs = docs
      /\ [t EXCEPT !.docs = docs].hurt = t.hurt
  BY <1>2 DEF Runs, docs
<1> QED
  BY <1>2, <1>3, <1>4 DEF docs

LEMMA WithFacts ==
  ASSUME NEW e \in Emails, NEW t \in Runs(e), NEW i \in Places(e), NEW row \in DocumentRows
  PROVE  /\ With(t, <<e, i>>, row) \in Runs(e)
         /\ With(t, <<e, i>>, row) = [t EXCEPT !.docs = [@ EXCEPT ![i] = row]]
         /\ \A j \in Places(e) : With(t, <<e, i>>, row).docs[j] = IF j = i THEN row ELSE t.docs[j]
<1>1. With(t, <<e, i>>, row) = [t EXCEPT !.docs = [@ EXCEPT ![i] = row]]
  BY DEF With, Runs
<1> QED
  BY <1>1, WithRow
----------------------------------------------------------------------------
(* Runs *)

HasDocument(x) == Stored(x) # NoDocument

(* What a run holds: documents for all it has read, every stored document in its *)
(* role, and, when it extracts, one document of either role.  The extractions it *)
(* registers have rows, stored ones or its own.                                *)
GoodRun(e, t) ==
  /\ t \in Runs(e)
  /\ t.pc \in {"ocr", "called"} => t.next \in Places(e)
  /\ \A i \in t.read : t.docs[i] # NoDocument
  /\ \A i \in Places(e) : doc[e][i] # NoDocument =>
       t.docs[i] # NoDocument /\ t.docs[i].role = doc[e][i].role
  /\ t.pc = "lookup" => \A role \in {"SI", "DRAFT_BL"} : \E i \in t.read : t.docs[i].role = role
  /\ \A p \in t.pending : HasDocument(p[2]) \/ (p[2][1] = e /\ p[2][2] \in t.read)

RunsInv == \A e \in Emails : txn[e] = Idle \/ GoodRun(e, txn[e])

SourcesInv == \A k \in Keys : entry[k] # NoEntry => HasDocument(entry[k])

KeptInv == TypeOK /\ RunsInv /\ SourcesInv

LEMMA RunKinds ==
  ASSUME TypeOK, NEW e \in Emails
  PROVE  /\ txn[e] = Idle <=> txn[e].pc = "idle"
         /\ txn[e] # Idle <=> txn[e] \in Runs(e)
         /\ txn[e] # Idle <=> txn[e].pc \in {"read", "ocr", "called", "lookup", "commit"}
<1>1. \A t \in Runs(e) : t.pc \in {"read", "ocr", "called", "lookup", "commit"}
  BY DEF Runs
<1>2. Idle.pc = "idle"
  BY DEF Idle
<1> QED
  BY <1>1, <1>2 DEF TypeOK

(* Only what one more step of a run writes matters for the others' types. *)
LEMMA RunStep ==
  ASSUME TypeOK, NEW e \in Emails, NEW t, txn' = [txn EXCEPT ![e] = t],
         t = Idle \/ t \in Runs(e), t.pc \in {"ocr", "called"} => t.next \in Places(e),
         UNCHANGED doc
  PROVE  /\ doc' = [d \in Emails |-> doc'[d]] /\ txn' = [d \in Emails |-> txn'[d]]
         /\ \A d \in Emails :
              /\ doc'[d] \in Documents(d) /\ txn'[d] \in {Idle} \cup Runs(d)
              /\ txn'[d].pc \in {"ocr", "called"} => txn'[d].next \in Places(d)
<1>1. txn' = [d \in Emails |-> IF d = e THEN t ELSE txn[d]]
  BY Zenon DEF TypeOK
<1>2. \A d \in Emails : txn'[d] = IF d = e THEN t ELSE txn[d]
  BY <1>1
<1>3. txn' = [d \in Emails |-> txn'[d]]
  BY <1>1, <1>2, Zenon
<1> QED
  BY <1>2, <1>3 DEF TypeOK

LEMMA GoodStep ==
  ASSUME RunsInv, TypeOK, NEW e \in Emails, NEW t, txn' = [txn EXCEPT ![e] = t],
         t = Idle \/ GoodRun(e, t), UNCHANGED doc
  PROVE  RunsInv'
<1>1. \A d \in Emails : txn'[d] = IF d = e THEN t ELSE txn[d]
  BY Zenon DEF TypeOK
<1>2. ASSUME NEW d \in Emails
      PROVE  txn'[d] = Idle \/ GoodRun(d, txn[d])'
  <2>1. txn'[d] = IF d = e THEN t ELSE txn[d]
    BY <1>1
  <2>2. txn'[d] = Idle \/ GoodRun(d, txn'[d])
    BY <2>1 DEF RunsInv
  <2>3. GoodRun(d, txn'[d]) => GoodRun(d, txn[d])'
    BY DEF GoodRun, HasDocument, Stored
  <2> QED
    BY <2>2, <2>3
<1> QED
  BY <1>2 DEF RunsInv
----------------------------------------------------------------------------
(* Reading and routing *)

LEMMA GoodKept ==
  ASSUME NEW e \in Emails, NEW t, GoodRun(e, t), t.next \in Places(e), NEW found \in Found,
         version \in Versions
  PROVE  GoodRun(e, Kept(t, found))
<1> DEFINE u == Kept(t, found)
<1>1. t \in Runs(e)
  BY DEF GoodRun
<1>2. /\ u \in Runs(e) /\ u.pc = "read" /\ u.read = t.read \cup {t.next} /\ u.pending = t.pending
      /\ \A i \in Places(e) :
           u.docs[i] = IF i = t.next /\ t.docs[i] = NoDocument THEN Created(found) ELSE t.docs[i]
  BY <1>1, KeptFacts, Zenon
<1>3. Created(found) # NoDocument
  BY CreatedFacts
<1>4. t.read \subseteq Places(e)
  BY <1>1 DEF Runs
<1> HIDE DEF u
<1>5. \A i \in u.read : u.docs[i] # NoDocument
  BY <1>2, <1>3, <1>4 DEF GoodRun
<1>6. \A i \in Places(e) : doc[e][i] # NoDocument =>
        u.docs[i] # NoDocument /\ u.docs[i].role = doc[e][i].role
  BY <1>2 DEF GoodRun
<1>7. GoodRun(e, u)
  BY <1>2, <1>5, <1>6 DEF GoodRun
<1> QED
  BY <1>7 DEF u

(* A failure noted on the way leaves the documents alone. *)
LEMMA GoodHurt ==
  ASSUME NEW e \in Emails, NEW t, GoodRun(e, t), NEW why \in {"ATTACHMENT_READ_FAILED", "DOCUMENT_READER_FAILED"}
  PROVE  /\ GoodRun(e, [t EXCEPT !.hurt = TRUE])
         /\ GoodRun(e, [t EXCEPT !.hurt = TRUE, !.technical = FirstOf(t, why)])
<1>1. t \in Runs(e)
  BY DEF GoodRun
<1>2. FirstOf(t, why) \in {"NONE", "ATTACHMENT_READ_FAILED", "DOCUMENT_READER_FAILED"}
  BY <1>1 DEF FirstOf, Runs
<1> DEFINE u == [t EXCEPT !.hurt = TRUE, !.technical = FirstOf(t, why)]
           v == [t EXCEPT !.hurt = TRUE]
<1>3. u \in Runs(e) /\ v \in Runs(e)
  BY <1>1, <1>2 DEF Runs
<1>4. /\ u.pc = t.pc /\ u.next = t.next /\ u.docs = t.docs /\ u.read = t.read /\ u.pending = t.pending
      /\ v.pc = t.pc /\ v.next = t.next /\ v.docs = t.docs /\ v.read = t.read /\ v.pending = t.pending
  BY <1>1 DEF Runs
<1> HIDE DEF u, v
<1>5. GoodRun(e, u) /\ GoodRun(e, v)
  BY <1>3, <1>4 DEF GoodRun
<1> QED
  BY <1>5 DEF u, v

LEMMA RouteFacts ==
  ASSUME NEW docs, NEW technical
  PROVE  /\ Route(docs, technical).status \in {"FAILED", "BLOCKED", "EXTRACTING"}
         /\ Route(docs, technical).status = "FAILED" => technical # "NONE"
         /\ Route(docs, technical).status = "EXTRACTING" =>
              /\ technical = "NONE"
              /\ \A role \in {"SI", "DRAFT_BL"} : \E i \in DOMAIN docs : docs[i].role = role
<1>1. ASSUME NEW role, ~ \E i \in DOMAIN docs : docs[i].role = role
      PROVE  WithRole(docs, role) = 0
  <2>1. {i \in DOMAIN docs : docs[i].role = role} = {}
    BY <1>1
  <2> QED
    BY <2>1, FS_EmptySet DEF WithRole
<1> QED
  BY <1>1 DEF Route, Failed, Blocked

LEMMA MarkedFacts ==
  ASSUME NEW D, NEW docs \in [D -> DocumentRows]
  PROVE  /\ Marked(docs) \in [D -> DocumentRows]
         /\ \A i \in D : /\ Marked(docs)[i].role = docs[i].role
                         /\ Marked(docs)[i].status = docs[i].status
                         /\ Marked(docs)[i].fields = docs[i].fields
                         /\ Marked(docs)[i].version = docs[i].version
<1> DEFINE extra == IF WithRole(docs, "SI") > 1 THEN "SI" ELSE "DRAFT_BL"
           mark(row) == IF row.role = extra THEN [row EXCEPT !.outcome = "MULTIPLE_CANDIDATES"] ELSE row
<1>1. \A row \in DocumentRows : /\ mark(row) \in DocumentRows
                                /\ mark(row).role = row.role /\ mark(row).status = row.status
                                /\ mark(row).fields = row.fields /\ mark(row).version = row.version
  BY DEF DocumentRows, Outcomes
<1>2. Marked(docs) = docs \/ Marked(docs) = [i \in D |-> mark(docs[i])]
  BY DEF Marked
<1> HIDE DEF mark
<1> QED
  BY <1>1, <1>2

(* A run whose attachments are all read goes on to extraction, or to its end. *)
LEMMA DecidedFacts ==
  ASSUME TypeOK, RunsInv, NEW e \in Emails, Decide(e)
  PROVE  \E t : /\ txn' = [txn EXCEPT ![e] = t] /\ GoodRun(e, t)
                /\ t.pc \in {"lookup", "commit"} /\ t.read = txn[e].read
                /\ t.legible = txn[e].legible /\ t.pending = txn[e].pending
                /\ t.missed = txn[e].missed
                /\ t.technical = txn[e].technical /\ (t.pc = "lookup" => t.technical = "NONE")
                /\ t.hurt = txn[e].hurt /\ t.call = txn[e].call
                /\ t.pc = "commit" /\ t.result = "FAILED" => t.technical # "NONE"
                /\ \A i \in Places(e) :
                     \/ t.docs[i] = txn[e].docs[i]
                     \/ /\ i \in t.read
                        /\ t.docs[i].role = txn[e].docs[i].role
                        /\ t.docs[i].status = txn[e].docs[i].status
                        /\ t.docs[i].fields = txn[e].docs[i].fields
                        /\ t.docs[i].version = txn[e].docs[i].version
<1> DEFINE t     == txn[e]
           docs  == [i \in t.read |-> t.docs[i]]
           route == Route(docs, t.technical)
<1>1. t.pc = "read" /\ GoodRun(e, t) /\ t \in Runs(e)
  BY RunKinds DEF Decide, RunsInv, GoodRun
<1>2. docs \in [t.read -> DocumentRows] /\ t.read \subseteq Places(e) /\ t.docs \in Documents(e)
  <2>1. t.docs \in Documents(e) /\ t.read \subseteq Places(e)
    BY <1>1 DEF Runs
  <2>2. \A i \in t.read : t.docs[i] \in DocumentRows
    BY <1>1, <2>1 DEF GoodRun, Documents
  <2> QED
    BY <2>1, <2>2
<1>3. CASE route.status = "EXTRACTING"
  <2> DEFINE u == [t EXCEPT !.pc = "lookup"]
  <2>1. txn' = [txn EXCEPT ![e] = u]
    BY <1>3 DEF Decide
  <2>2. t.technical = "NONE" /\ \A role \in {"SI", "DRAFT_BL"} : \E i \in t.read : t.docs[i].role = role
    BY <1>3, RouteFacts
  <2>3. /\ u \in Runs(e) /\ u.pc = "lookup" /\ u.docs = t.docs /\ u.read = t.read /\ u.legible = t.legible
        /\ u.pending = t.pending /\ u.missed = t.missed /\ u.technical = t.technical
        /\ u.hurt = t.hurt /\ u.call = t.call
    BY <1>1 DEF Runs
  <2> HIDE DEF u
  <2>4. GoodRun(e, u)
    BY <1>1, <2>2, <2>3 DEF GoodRun
  <2> QED
    BY <2>1, <2>2, <2>3, <2>4
<1>4. CASE route.status # "EXTRACTING"
  <2> DEFINE all == IF t.technical = "NONE" THEN Over(Marked(docs), t.docs) ELSE t.docs
             u   == [t EXCEPT !.pc = "commit", !.result = route.status, !.docs = all]
  <2>1. txn' = [txn EXCEPT ![e] = u]
    BY <1>1, <1>4 DEF Decide, Runs
  <2>2. route.status \in {"FAILED", "BLOCKED"} /\ (route.status = "FAILED" => t.technical # "NONE")
    BY <1>4, RouteFacts
  <2>3. /\ all \in Documents(e)
        /\ \A i \in Places(e) :
             \/ all[i] = t.docs[i]
             \/ /\ i \in t.read /\ all[i] # NoDocument
                /\ all[i].role = t.docs[i].role /\ all[i].status = t.docs[i].status
                /\ all[i].fields = t.docs[i].fields /\ all[i].version = t.docs[i].version
    <3>1. CASE t.technical # "NONE"
      BY <3>1, <1>2
    <3>2. CASE t.technical = "NONE"
      <4> DEFINE marked == Marked(docs)
      <4>1. /\ marked \in [t.read -> DocumentRows]
            /\ \A i \in t.read : /\ marked[i].role = docs[i].role /\ marked[i].status = docs[i].status
                                 /\ marked[i].fields = docs[i].fields
                                 /\ marked[i].version = docs[i].version
        BY <1>2, MarkedFacts
      <4>2. all = Over(marked, t.docs)
        BY <3>2
      <4> HIDE DEF marked, all
      <4>3. all = [i \in Places(e) |-> IF i \in t.read THEN marked[i] ELSE t.docs[i]]
        <5>1. DOMAIN marked = t.read /\ DOMAIN t.docs = Places(e)
          BY <1>2, <4>1 DEF Documents
        <5> QED
          BY ONLY <4>2, <5>1 DEF Over
      <4>4. all \in Documents(e)
        BY <1>2, <4>1, <4>3 DEF Documents
      <4>5. \A i \in t.read : marked[i] # NoDocument
        BY <4>1, Constants
      <4> QED
        BY <1>2, <4>1, <4>3, <4>4, <4>5
    <3> QED
      BY <3>1, <3>2
  <2> HIDE DEF all
  <2>4. /\ u \in Runs(e) /\ u.pc = "commit" /\ u.docs = all /\ u.read = t.read
        /\ u.legible = t.legible
        /\ u.pending = t.pending /\ u.missed = t.missed /\ u.technical = t.technical
        /\ u.hurt = t.hurt /\ u.call = t.call /\ u.result = route.status
    <3> HIDE DEF route
    <3> QED
      BY <1>1, <2>2, <2>3 DEF Runs
  <2> HIDE DEF u
  <2>5. /\ \A i \in u.read : u.docs[i] # NoDocument
        /\ \A i \in Places(e) : doc[e][i] # NoDocument =>
             u.docs[i] # NoDocument /\ u.docs[i].role = doc[e][i].role
    BY <1>1, <1>2, <2>3, <2>4 DEF GoodRun
  <2>6. GoodRun(e, u)
    BY <1>1, <2>4, <2>5 DEF GoodRun
  <2>7. \A i \in Places(e) :
          \/ u.docs[i] = t.docs[i]
          \/ /\ i \in u.read
             /\ u.docs[i].role = t.docs[i].role /\ u.docs[i].status = t.docs[i].status
             /\ u.docs[i].fields = t.docs[i].fields /\ u.docs[i].version = t.docs[i].version
    BY <2>3, <2>4
  <2> QED
    BY <2>1, <2>2, <2>4, <2>6, <2>7
<1> QED
  BY <1>3, <1>4
----------------------------------------------------------------------------
(* Extracting *)

RoleAt(k) == IF k = 1 THEN "SI" ELSE "DRAFT_BL"

LEMMA TargetFacts ==
  ASSUME TypeOK, RunsInv, NEW e \in Emails, txn[e].pc = "lookup", NEW k \in 1..2
  PROVE  \E i \in txn[e].read :
           /\ Targets(e)[k] = <<e, i>> /\ i \in Places(e)
           /\ Row(Targets(e)[k]) = txn[e].docs[i]
           /\ txn[e].docs[i] \in DocumentRows /\ txn[e].docs[i].role = RoleAt(k)
<1> DEFINE i == CHOOSE j \in txn[e].read : txn[e].docs[j].role = RoleAt(k)
<1>1. GoodRun(e, txn[e]) /\ txn[e] \in Runs(e)
  BY RunKinds DEF RunsInv, GoodRun
<1>2. \E j \in txn[e].read : txn[e].docs[j].role = RoleAt(k)
  BY <1>1 DEF GoodRun, RoleAt
<1>3. i \in txn[e].read /\ txn[e].docs[i].role = RoleAt(k)
  BY <1>2
<1>4. Targets(e)[k] = <<e, i>>
  BY DEF Targets, Target, RoleAt
<1> HIDE DEF i
<1>5. i \in Places(e) /\ txn[e].docs[i] # NoDocument
  BY <1>1, <1>3 DEF GoodRun, Runs
<1>6. txn[e].docs \in Documents(e)
  BY <1>1 DEF Runs
<1>7. txn[e].docs[i] \in DocumentRows
  BY <1>5, <1>6 DEF Documents
<1>8. Row(Targets(e)[k]) = txn[e].docs[i]
  BY <1>4 DEF Row
<1> QED
  BY <1>3, <1>4, <1>5, <1>7, <1>8

LEMMA KeyFacts ==
  ASSUME TypeOK, NEW x \in Extractions
  PROVE  KeyOf(x) \in Keys /\ FieldsRead(x) \in Keys \cup {Blank}
BY ExtractionFacts DEF TypeOK, KeyOf, FieldsRead, Keys

LEMMA StoredFacts ==
  ASSUME TypeOK, NEW x \in Extractions, HasDocument(x)
  PROVE  Stored(x) \in DocumentRows
<1>1. doc[x[1]] \in Documents(x[1]) /\ x[2] \in Places(x[1])
  BY ExtractionFacts DEF TypeOK
<1> QED
  BY <1>1 DEF Documents, Stored, HasDocument

LEMMA GoodRewritten ==
  ASSUME NEW e \in Emails, NEW t, GoodRun(e, t), t.pc = "lookup", NEW i \in t.read,
         NEW row \in DocumentRows, row.role = t.docs[i].role
  PROVE  /\ GoodRun(e, With(t, <<e, i>>, row))
         /\ GoodRun(e, [With(t, <<e, i>>, row) EXCEPT !.hurt = TRUE])
<1> DEFINE u == With(t, <<e, i>>, row)
<1>1. t \in Runs(e) /\ i \in Places(e) /\ t.read \subseteq Places(e)
  BY DEF GoodRun, Runs
<1>2. /\ u \in Runs(e)
      /\ \A j \in Places(e) : u.docs[j] = IF j = i THEN row ELSE t.docs[j]
      /\ u = [t EXCEPT !.docs = [@ EXCEPT ![i] = row]]
  BY <1>1, WithFacts
<1>3. u.pc = t.pc /\ u.read = t.read /\ u.pending = t.pending
  BY <1>1, <1>2 DEF Runs
<1>4. row # NoDocument
  BY Constants
<1> HIDE DEF u
<1>5. \A j \in u.read : u.docs[j] # NoDocument /\ u.docs[j].role = t.docs[j].role
  BY <1>1, <1>2, <1>3, <1>4 DEF GoodRun
<1>6. \A j \in Places(e) : doc[e][j] # NoDocument =>
        u.docs[j] # NoDocument /\ u.docs[j].role = doc[e][j].role
  BY <1>2, <1>4 DEF GoodRun
<1>7. \A role \in {"SI", "DRAFT_BL"} : \E j \in u.read : u.docs[j].role = role
  BY <1>3, <1>5 DEF GoodRun
<1>8. GoodRun(e, u)
  BY <1>2, <1>3, <1>5, <1>6, <1>7 DEF GoodRun
<1>9. GoodRun(e, [u EXCEPT !.hurt = TRUE])
  BY <1>8, GoodHurt
<1> QED
  BY <1>8, <1>9 DEF u

LEMMA RegisteredFacts ==
  ASSUME TypeOK, NEW e \in Emails, NEW t, GoodRun(e, t), NEW x \in Extractions, NEW y \in Extractions,
         HasDocument(y) \/ (y[1] = e /\ y[2] \in t.read)
  PROVE  /\ GoodRun(e, Registered(t, x, y))
         /\ Registered(t, x, y).docs = t.docs /\ Registered(t, x, y).pc = t.pc
         /\ Registered(t, x, y).read = t.read /\ Registered(t, x, y).legible = t.legible
         /\ Registered(t, x, y).missed = t.missed /\ Registered(t, x, y).technical = t.technical
         /\ Registered(t, x, y).call = t.call /\ Registered(t, x, y).hurt = t.hurt
         /\ Registered(t, x, y).pending \subseteq t.pending \cup {<<KeyOf(x), y>>}
<1> DEFINE new == t.pending \cup {<<KeyOf(x), y>>}
           u   == [t EXCEPT !.pending = new]
<1>1. t \in Runs(e) /\ KeyOf(x) \in Keys
  BY KeyFacts DEF GoodRun
<1>2. new \in SUBSET (Keys \X Extractions)
  BY <1>1 DEF Runs
<1>3. \A p \in new : HasDocument(p[2]) \/ (p[2][1] = e /\ p[2][2] \in t.read)
  BY DEF GoodRun
<1> HIDE DEF new
<1>4. /\ u \in Runs(e) /\ u.docs = t.docs /\ u.pc = t.pc /\ u.next = t.next /\ u.read = t.read
      /\ u.legible = t.legible /\ u.missed = t.missed /\ u.technical = t.technical /\ u.call = t.call
      /\ u.hurt = t.hurt /\ u.pending = new
  BY <1>1, <1>2 DEF Runs
<1>5. Registered(t, x, y) = t \/ Registered(t, x, y) = u
  <2>1. u = [t EXCEPT !.pending = @ \cup {<<KeyOf(x), y>>}]
    BY <1>1 DEF new, Runs
  <2> QED
    BY <2>1 DEF Registered
<1> HIDE DEF u
<1>6. GoodRun(e, u)
  BY <1>3, <1>4 DEF GoodRun
<1> QED
  BY <1>4, <1>5, <1>6 DEF new

(* An extraction the fields of x may be copied from. *)
CopiesFrom(x, y) ==
  /\ y \in Extractions /\ HasDocument(y) /\ Stored(y).fields # NoFields
  /\ \/ y = entry[KeyOf(x)]
     \/ Complete(Stored(y)) /\ ContentOf(y) = ContentOf(x) /\ Stored(y).version = version

LEMMA ReusableFacts ==
  ASSUME TypeOK, SourcesInv, NEW x \in Extractions, NEW y \in Reusable(x)
  PROVE  CopiesFrom(x, y)
<1>1. KeyOf(x) \in Keys
  BY KeyFacts
<1>2. CASE y \in FromTable(x)
  <2>1. y = entry[KeyOf(x)] /\ y # NoEntry /\ Complete(Stored(y))
    BY <1>2 DEF FromTable
  <2>2. y \in Extractions /\ HasDocument(y)
    BY <1>1, <2>1 DEF TypeOK, SourcesInv
  <2> QED
    BY <2>1, <2>2 DEF CopiesFrom, Complete
<1>3. CASE y \in FromRows(x)
  BY <1>3 DEF FromRows, CopiesFrom, HasDocument, Complete
<1> QED
  BY <1>2, <1>3 DEF Reusable

(* One of the two extractions is copied, computed or given up. *)
Replaced(e, i, row, t) ==
  t.docs[i] = row /\ \A j \in Places(e) \ {i} : t.docs[j] = txn[e].docs[j]

Rewritten(e, x, t) ==
  \E i \in txn[e].read :
    /\ x = <<e, i>>
    /\ \/ Replaced(e, i, NotExtracted(Row(x)), t) /\ t.pending = txn[e].pending
       \/ \E y : /\ CopiesFrom(x, y) /\ Replaced(e, i, Extracted(Row(x), Stored(y).fields), t)
                 /\ t.pending \subseteq txn[e].pending \cup {<<KeyOf(x), y>>}
       \/ /\ Replaced(e, i, Extracted(Row(x), FieldsRead(x)), t)
          /\ t.pending \subseteq txn[e].pending \cup {<<KeyOf(x), x>>}

SameReading(t, u) ==
  /\ u.pc = t.pc /\ u.read = t.read /\ u.legible = t.legible /\ u.technical = t.technical

(* What the storing of one extraction leaves of the run. *)
LEMMA RewrittenRun ==
  ASSUME TypeOK, RunsInv, SourcesInv, NEW e \in Emails, txn[e].pc = "lookup", NEW k \in 1..2,
         NEW b, GoodRun(e, b), SameReading(txn[e], b), b.docs = txn[e].docs,
         b.pending = txn[e].pending
  PROVE  LET x == Targets(e)[k]
             Result(t) == /\ GoodRun(e, t) /\ SameReading(b, t) /\ t.missed = b.missed /\ t.call = b.call
                          /\ Rewritten(e, x, t)
         IN  /\ Result(With(b, x, NotExtracted(Row(x))))
             /\ Result([With(b, x, NotExtracted(Row(x))) EXCEPT !.hurt = TRUE])
             /\ \A y : CopiesFrom(x, y) =>
                  /\ Result(With(Registered(b, x, y), x, Extracted(Row(x), Stored(y).fields)))
                  /\ Result(With(b, x, Extracted(Row(x), Stored(y).fields)))
             /\ Result(With(Registered(b, x, x), x, Extracted(Row(x), FieldsRead(x))))
<1> DEFINE x == Targets(e)[k]
           Result(t) == /\ GoodRun(e, t) /\ SameReading(b, t) /\ t.missed = b.missed /\ t.call = b.call
                        /\ Rewritten(e, x, t)
<1>1. PICK i \in txn[e].read : /\ x = <<e, i>> /\ i \in Places(e) /\ Row(x) = txn[e].docs[i]
                               /\ Row(x) \in DocumentRows
  BY TargetFacts
<1>2. x \in Extractions /\ KeyOf(x) \in Keys /\ FieldsRead(x) \in Keys \cup {Blank}
  BY <1>1, ExtractionFacts, KeyFacts
<1>3. version \in Versions
  BY DEF TypeOK
<1> HIDE DEF x
(* The row may be written after the registration or without one. *)
<1>4. ASSUME NEW d, GoodRun(e, d), SameReading(b, d), d.missed = b.missed /\ d.call = b.call, d.docs = b.docs,
             NEW new \in DocumentRows, new.role = Row(x).role
      PROVE  /\ GoodRun(e, With(d, x, new)) /\ SameReading(b, With(d, x, new))
             /\ With(d, x, new).missed = b.missed /\ With(d, x, new).call = b.call
             /\ With(d, x, new).pending = d.pending /\ Replaced(e, i, new, With(d, x, new))
             /\ GoodRun(e, [With(d, x, new) EXCEPT !.hurt = TRUE])
  <2>1. d \in Runs(e) /\ d.pc = "lookup" /\ i \in d.read
    BY <1>1, <1>4 DEF GoodRun, SameReading
  <2>2. /\ With(d, x, new) = [d EXCEPT !.docs = [@ EXCEPT ![i] = new]]
        /\ \A j \in Places(e) : With(d, x, new).docs[j] = IF j = i THEN new ELSE d.docs[j]
    BY <1>1, <2>1, WithFacts
  <2>3. GoodRun(e, With(d, x, new)) /\ GoodRun(e, [With(d, x, new) EXCEPT !.hurt = TRUE])
    BY <1>1, <1>4, <2>1, GoodRewritten
  <2>4. SameReading(d, With(d, x, new)) /\ With(d, x, new).missed = d.missed /\ With(d, x, new).call = d.call
        /\ With(d, x, new).pending = d.pending
    BY <2>1, <2>2 DEF SameReading, Runs
  <2> QED
    BY <1>1, <1>4, <2>2, <2>3, <2>4 DEF SameReading, Replaced
<1>5. Result(With(b, x, NotExtracted(Row(x))))
      /\ Result([With(b, x, NotExtracted(Row(x))) EXCEPT !.hurt = TRUE])
  <2> DEFINE t == With(b, x, NotExtracted(Row(x)))
  <2>1. /\ NotExtracted(Row(x)) \in DocumentRows /\ NotExtracted(Row(x)).role = Row(x).role
    BY <1>1, <1>3, RewrittenFacts
  <2>2. /\ GoodRun(e, t) /\ SameReading(b, t) /\ t.missed = b.missed /\ t.call = b.call
        /\ t.pending = b.pending /\ Replaced(e, i, NotExtracted(Row(x)), t)
        /\ GoodRun(e, [t EXCEPT !.hurt = TRUE])
    BY <1>4, <2>1 DEF SameReading
  <2> DEFINE u == [t EXCEPT !.hurt = TRUE]
  <2>3. t \in Runs(e)
    BY <2>2 DEF GoodRun
  <2> HIDE DEF t
  <2>4. /\ u.pc = t.pc /\ u.read = t.read /\ u.legible = t.legible /\ u.technical = t.technical
        /\ u.missed = t.missed /\ u.call = t.call /\ u.pending = t.pending /\ u.docs = t.docs
    BY <2>3 DEF Runs
  <2> HIDE DEF u
  <2>5. Rewritten(e, x, t)
    BY <1>1, <2>2 DEF Rewritten
  <2>6. Rewritten(e, x, u)
    BY <1>1, <2>2, <2>4 DEF Rewritten, Replaced
  <2>7. SameReading(b, u) /\ u.missed = b.missed /\ u.call = b.call /\ GoodRun(e, u)
    BY <2>2, <2>4 DEF SameReading, u
  <2> QED
    BY <2>2, <2>5, <2>6, <2>7 DEF t, u
<1>6. ASSUME NEW y, CopiesFrom(x, y)
      PROVE  /\ Result(With(Registered(b, x, y), x, Extracted(Row(x), Stored(y).fields)))
             /\ Result(With(b, x, Extracted(Row(x), Stored(y).fields)))
  <2> DEFINE row == Extracted(Row(x), Stored(y).fields)
             c   == Registered(b, x, y)
  <2>1. y \in Extractions /\ HasDocument(y) /\ Stored(y) \in DocumentRows
    BY <1>6, StoredFacts DEF CopiesFrom
  <2>2. Stored(y).fields \in Keys \cup {Blank, NoFields}
    BY <2>1 DEF DocumentRows
  <2>3. row \in DocumentRows /\ row.role = Row(x).role
    BY <1>1, <1>3, <2>2, RewrittenFacts
  <2>4. /\ GoodRun(e, c) /\ SameReading(b, c) /\ c.missed = b.missed /\ c.call = b.call /\ c.docs = b.docs
        /\ c.pending \subseteq txn[e].pending \cup {<<KeyOf(x), y>>}
    BY <1>2, <2>1, RegisteredFacts DEF SameReading
  <2> DEFINE t == With(c, x, row)
             u == With(b, x, row)
  <2>5. /\ GoodRun(e, t) /\ SameReading(b, t) /\ t.missed = b.missed /\ t.call = b.call
        /\ t.pending = c.pending /\ Replaced(e, i, row, t)
    <3>1. row \in DocumentRows /\ row.role = Row(x).role
      BY <2>3
    <3>2. GoodRun(e, c) /\ SameReading(b, c) /\ c.missed = b.missed /\ c.call = b.call /\ c.docs = b.docs
      BY <2>4
    <3> HIDE DEF c, row
    <3> QED
      BY <1>4, <3>1, <3>2
  <2>6. /\ GoodRun(e, u) /\ SameReading(b, u) /\ u.missed = b.missed /\ u.call = b.call
        /\ u.pending = b.pending /\ Replaced(e, i, row, u)
    <3> HIDE DEF row
    <3> QED
      <4>1. GoodRun(e, b) /\ SameReading(b, b)
        BY DEF SameReading
      <4> QED
        BY <1>4, <2>3, <4>1, Zenon
  <2> HIDE DEF t, u, c
  <2>7. Rewritten(e, x, t) /\ Rewritten(e, x, u)
    BY <1>1, <1>6, <2>4, <2>5, <2>6 DEF Rewritten
  <2> QED
    BY <2>5, <2>6, <2>7 DEF t, u, c
<1>7. Result(With(Registered(b, x, x), x, Extracted(Row(x), FieldsRead(x))))
  <2> DEFINE row == Extracted(Row(x), FieldsRead(x))
             c   == Registered(b, x, x)
             t   == With(c, x, row)
  <2>1. row \in DocumentRows /\ row.role = Row(x).role
    BY <1>1, <1>2, <1>3, RewrittenFacts
  <2>2. x[1] = e /\ x[2] \in b.read
    BY <1>1 DEF SameReading
  <2>3. /\ GoodRun(e, c) /\ SameReading(b, c) /\ c.missed = b.missed /\ c.call = b.call /\ c.docs = b.docs
        /\ c.pending \subseteq txn[e].pending \cup {<<KeyOf(x), x>>}
    BY <1>2, <2>2, RegisteredFacts DEF SameReading
  <2>4. /\ GoodRun(e, t) /\ SameReading(b, t) /\ t.missed = b.missed /\ t.call = b.call
        /\ t.pending = c.pending /\ Replaced(e, i, row, t)
    <3>1. row \in DocumentRows /\ row.role = Row(x).role
      BY <2>1
    <3>2. GoodRun(e, c) /\ SameReading(b, c) /\ c.missed = b.missed /\ c.call = b.call /\ c.docs = b.docs
      BY <2>3
    <3> HIDE DEF c, row
    <3> QED
      BY <1>4, <3>1, <3>2
  <2> HIDE DEF t, c
  <2>5. Rewritten(e, x, t)
    BY <1>1, <2>3, <2>4 DEF Rewritten
  <2> QED
    BY <2>4, <2>5 DEF t, c
<1> QED
  BY <1>5, <1>6, <1>7 DEF x
LEMMA LookedUp ==
  ASSUME KeptInv, NEW e \in Emails, NEW k \in 1..2, LookUp(e, k)
  PROVE  LET x == Targets(e)[k]
         IN  \E t : /\ txn' = [txn EXCEPT ![e] = t] /\ GoodRun(e, t) /\ SameReading(txn[e], t)
                    /\ t.call = k
                    /\ \/ /\ t.docs = txn[e].docs /\ t.pending = txn[e].pending
                          /\ t.missed = txn[e].missed \/ (t.missed = txn[e].missed \cup {k} /\ ~Done(x))
                       \/ ~Done(x) /\ t.missed = txn[e].missed /\ Rewritten(e, x, t)
<1> DEFINE x == Targets(e)[k]
           b == [txn[e] EXCEPT !.call = k]
           Goal == \E t : /\ txn' = [txn EXCEPT ![e] = t] /\ GoodRun(e, t) /\ SameReading(txn[e], t)
                          /\ t.call = k
                          /\ \/ /\ t.docs = txn[e].docs /\ t.pending = txn[e].pending
                                /\ \/ t.missed = txn[e].missed
                                   \/ t.missed = txn[e].missed \cup {k} /\ ~Done(x)
                             \/ ~Done(x) /\ t.missed = txn[e].missed /\ Rewritten(e, x, t)
<1>1. txn[e].pc = "lookup" /\ GoodRun(e, txn[e]) /\ txn[e] \in Runs(e)
  BY RunKinds DEF LookUp, KeptInv, RunsInv, GoodRun
<1> DEFINE c == [b EXCEPT !.missed = @ \cup {k}]
<1>2. /\ b \in Runs(e) /\ b.docs = txn[e].docs /\ b.pending = txn[e].pending
      /\ b.missed = txn[e].missed /\ b.call = k /\ SameReading(txn[e], b) /\ b.next = txn[e].next
  BY <1>1 DEF Runs, SameReading
<1>3. /\ c \in Runs(e) /\ c.docs = txn[e].docs /\ c.pending = txn[e].pending
      /\ c.missed = txn[e].missed \cup {k} /\ c.call = k /\ SameReading(txn[e], c) /\ c.next = txn[e].next
  <2> HIDE DEF b
  <2>1. b.missed \cup {k} \in SUBSET {1, 2}
    BY <1>2 DEF Runs
  <2> QED
    BY <1>2, <2>1 DEF Runs, SameReading
<1>4. LookUp(e, k) => \/ Done(x) /\ txn' = [txn EXCEPT ![e] = b]
                      \/ ~Done(x) /\ txn' = [txn EXCEPT ![e] = c]
                      \/ /\ ~Done(x)
                         /\ \E y \in Reusable(x) : txn' = [txn EXCEPT ![e] =
                              With(Registered(b, x, y), x, Extracted(Row(x), Stored(y).fields))]
                      \/ ~Done(x) /\ txn' = [txn EXCEPT ![e] = With(b, x, NotExtracted(Row(x)))]
                      \/ ~Done(x) /\ txn' = [txn EXCEPT ![e] =
                           [With(b, x, NotExtracted(Row(x))) EXCEPT !.hurt = TRUE]]
  BY DEF LookUp
<1> HIDE DEF c, b
<1>5. GoodRun(e, b) /\ GoodRun(e, c)
  BY <1>1, <1>2, <1>3 DEF GoodRun, SameReading
<1>6. /\ TypeOK /\ RunsInv /\ SourcesInv
  BY DEF KeptInv
<1> DEFINE Result(t) == /\ GoodRun(e, t) /\ SameReading(b, t) /\ t.missed = b.missed /\ t.call = b.call
                        /\ Rewritten(e, x, t)
<1>7. /\ Result(With(b, x, NotExtracted(Row(x))))
      /\ Result([With(b, x, NotExtracted(Row(x))) EXCEPT !.hurt = TRUE])
      /\ \A y : CopiesFrom(x, y) =>
           Result(With(Registered(b, x, y), x, Extracted(Row(x), Stored(y).fields)))
  BY <1>1, <1>2, <1>5, <1>6, RewrittenRun
<1>8. x \in Extractions
  BY <1>1, <1>6, TargetFacts, ExtractionFacts
<1>9. \A y \in Reusable(x) : CopiesFrom(x, y)
  BY <1>6, <1>8, ReusableFacts
<1>10. \A t : Result(t) /\ ~Done(x) /\ txn' = [txn EXCEPT ![e] = t] => Goal
  BY <1>2 DEF SameReading
<1>11. ASSUME Done(x), txn' = [txn EXCEPT ![e] = b]
       PROVE  Goal
  BY <1>2, <1>5, <1>11
<1>12. ASSUME ~Done(x), txn' = [txn EXCEPT ![e] = c]
       PROVE  Goal
  BY <1>3, <1>5, <1>12
<1> HIDE DEF Goal, Result, x
<1>13. Goal
  BY <1>4, <1>7, <1>9, <1>10, <1>11, <1>12
<1> QED
  BY <1>13 DEF Goal, x

LEMMA Persisted ==
  ASSUME KeptInv, NEW e \in Emails, NEW k \in 1..2, Persist(e, k)
  PROVE  \E t : /\ txn' = [txn EXCEPT ![e] = t] /\ GoodRun(e, t) /\ SameReading(txn[e], t)
                /\ t.missed = txn[e].missed \ {k} /\ t.call = 2
                /\ Rewritten(e, Targets(e)[k], t)
<1> DEFINE x == Targets(e)[k]
           b == [txn[e] EXCEPT !.missed = @ \ {k}]
           Goal == \E t : /\ txn' = [txn EXCEPT ![e] = t] /\ GoodRun(e, t) /\ SameReading(txn[e], t)
                          /\ t.missed = txn[e].missed \ {k} /\ t.call = 2 /\ Rewritten(e, x, t)
<1>1. txn[e].pc = "lookup" /\ txn[e].call = 2 /\ GoodRun(e, txn[e]) /\ txn[e] \in Runs(e)
  BY RunKinds DEF Persist, KeptInv, RunsInv, GoodRun
<1>2. /\ b \in Runs(e) /\ b.docs = txn[e].docs /\ b.pending = txn[e].pending
      /\ b.missed = txn[e].missed \ {k} /\ b.call = 2 /\ SameReading(txn[e], b) /\ b.next = txn[e].next
  BY <1>1 DEF Runs, SameReading
<1> DEFINE winner == entry[KeyOf(x)]
<1>3. \/ txn' = [txn EXCEPT ![e] = With(b, x, NotExtracted(Row(x)))]
      \/ txn' = [txn EXCEPT ![e] = [With(b, x, NotExtracted(Row(x))) EXCEPT !.hurt = TRUE]]
      \/ txn' = [txn EXCEPT ![e] = With(Registered(b, x, x), x, Extracted(Row(x), FieldsRead(x)))]
      \/ /\ winner # NoEntry /\ Stored(winner).fields # NoFields
         /\ txn' = [txn EXCEPT ![e] = With(b, x, Extracted(Row(x), Stored(winner).fields))]
  <2>1. \/ txn' = [txn EXCEPT ![e] = Fresh(b, x)]
        \/ txn' = [txn EXCEPT ![e] = [With(b, x, NotExtracted(Row(x))) EXCEPT !.hurt = TRUE]]
    BY DEF Persist
  <2>2. \/ Fresh(b, x) = With(b, x, NotExtracted(Row(x)))
        \/ Fresh(b, x) = With(Registered(b, x, x), x, Extracted(Row(x), FieldsRead(x)))
        \/ /\ winner # NoEntry /\ Stored(winner).fields # NoFields
           /\ Fresh(b, x) = With(b, x, Extracted(Row(x), Stored(winner).fields))
    <3> HIDE DEF b, x
    <3> QED
      BY DEF Fresh
  <2> HIDE DEF b, x
  <2> QED
    BY <2>1, <2>2
<1> HIDE DEF b
<1>4. GoodRun(e, b)
  BY <1>1, <1>2 DEF GoodRun, SameReading
<1>5. /\ TypeOK /\ RunsInv /\ SourcesInv
  BY DEF KeptInv
<1> DEFINE Result(t) == /\ GoodRun(e, t) /\ SameReading(b, t) /\ t.missed = b.missed /\ t.call = b.call
                        /\ Rewritten(e, x, t)
<1>6. /\ Result(With(b, x, NotExtracted(Row(x))))
      /\ Result([With(b, x, NotExtracted(Row(x))) EXCEPT !.hurt = TRUE])
      /\ \A y : CopiesFrom(x, y) => Result(With(b, x, Extracted(Row(x), Stored(y).fields)))
      /\ Result(With(Registered(b, x, x), x, Extracted(Row(x), FieldsRead(x))))
  BY <1>1, <1>2, <1>4, <1>5, RewrittenRun
<1>7. KeyOf(x) \in Keys
  <2>1. x \in Extractions
    BY <1>1, <1>5, TargetFacts, ExtractionFacts
  <2> QED
    BY <1>5, <2>1, KeyFacts
<1>8. winner # NoEntry /\ Stored(winner).fields # NoFields => CopiesFrom(x, winner)
  BY <1>5, <1>7 DEF CopiesFrom, SourcesInv, TypeOK
<1>9. \A t : Result(t) /\ txn' = [txn EXCEPT ![e] = t] => Goal
  BY <1>2 DEF SameReading
<1> HIDE DEF Goal, Result, x, winner
<1>10. Goal
  BY <1>3, <1>6, <1>8, <1>9
<1> QED
  BY <1>10 DEF Goal, x
----------------------------------------------------------------------------
(* Steps that change one run *)

LEMMA FaultFacts ==
  ASSUME TypeOK
  PROVE  /\ FaultAllowed => faults' \in 0..MaxFaults
         /\ UNCHANGED faults => faults' \in 0..MaxFaults
         /\ UNCHANGED runs => runs' \in 0..MaxRuns
<1> USE Constants DEF TypeOK, FaultAllowed
<1>1. FaultAllowed => faults' \in 0..MaxFaults
  OBVIOUS
<1> QED
  BY <1>1

OcrTyped ==
  /\ ocrCache \in [Contents -> OcrAnswers \cup {"NONE"}]
  /\ ocrLock \in [Contents -> Emails \cup {Nobody}]
  /\ helpers \in [1..OcrMaxCalls -> Helpers]

LEMMA RunKept ==
  ASSUME KeptInv, NEW e \in Emails, NEW t, txn' = [txn EXCEPT ![e] = t], t = Idle \/ GoodRun(e, t),
         UNCHANGED <<storedVars, keepVars, version>>, OcrTyped',
         runs' \in 0..MaxRuns, faults' \in 0..MaxFaults
  PROVE  KeptInv'
<1>1. TypeOK /\ RunsInv /\ SourcesInv
  BY DEF KeptInv
<1>2. UNCHANGED <<mail, doc, entry, hashed, hurt, old, redacted, version>>
  BY DEF storedVars, keepVars
<1>3. t.pc \in {"ocr", "called"} => t.next \in Places(e)
  BY DEF Idle, GoodRun
<1>4. t = Idle \/ t \in Runs(e)
  BY DEF GoodRun
<1>5. TypeOK'
  <2>1. /\ doc' = [d \in Emails |-> doc'[d]] /\ txn' = [d \in Emails |-> txn'[d]]
        /\ \A d \in Emails :
             /\ doc'[d] \in Documents(d) /\ txn'[d] \in {Idle} \cup Runs(d)
             /\ txn'[d].pc \in {"ocr", "called"} => txn'[d].next \in Places(d)
    BY <1>1, <1>2, <1>3, <1>4, RunStep
  <2> QED
    BY <1>1, <1>2, <2>1 DEF TypeOK, OcrTyped
<1>6. RunsInv'
  BY <1>1, <1>2, GoodStep
<1>7. SourcesInv'
  BY <1>1, <1>2 DEF SourcesInv, HasDocument, Stored
<1> QED
  BY <1>5, <1>6, <1>7 DEF KeptInv
LEMMA OcrUnchanged ==
  ASSUME TypeOK, UNCHANGED ocrVars
  PROVE  OcrTyped'
BY DEF TypeOK, OcrTyped, ocrVars

LEMMA RunningFacts ==
  ASSUME KeptInv, NEW e \in Emails, txn[e].pc \in {"read", "ocr", "called", "lookup", "commit"}
  PROVE  /\ GoodRun(e, txn[e]) /\ txn[e] \in Runs(e)
         /\ txn[e].next \in Places(e) => Current(e) \in Contents
         /\ txn[e].pc \in {"ocr", "called"} => txn[e].next \in Places(e)
<1>1. GoodRun(e, txn[e])
  BY RunKinds DEF KeptInv, RunsInv
<1>2. txn[e].next \in Places(e) => Current(e) \in Contents
  BY Constants DEF Current
<1> QED
  BY <1>1, <1>2 DEF GoodRun

LEMMA BeginKept ==
  ASSUME KeptInv, NEW e \in Emails, NEW origin \in {"PROVIDER", "STORED"}, Begin(e, origin)
  PROVE  KeptInv'
<1> DEFINE t == [pc |-> "read", origin |-> origin, next |-> 1, docs |-> doc[e], read |-> {}, legible |-> {},
                 technical |-> "NONE", call |-> 0, missed |-> {}, pending |-> {}, result |-> "NEW",
                 hurt |-> FALSE]
<1>1. txn' = [txn EXCEPT ![e] = t]
  BY DEF Begin
<1>2. /\ t \in Runs(e) /\ t.docs = doc[e] /\ t.read = {} /\ t.pending = {} /\ t.pc = "read"
  <2>1. doc[e] \in Documents(e)
    BY DEF KeptInv, TypeOK
  <2> QED
    BY <2>1 DEF Runs
<1> HIDE DEF t
<1>3. GoodRun(e, t)
  BY <1>2 DEF GoodRun
<1>4. runs' \in 0..MaxRuns
  BY Constants DEF Begin, KeptInv, TypeOK
<1>5. faults' \in 0..MaxFaults /\ OcrTyped'
  BY FaultFacts, OcrUnchanged DEF Begin, KeptInv
<1> QED
  BY <1>1, <1>3, <1>4, <1>5, RunKept DEF Begin

LEMMA FetchKept ==
  ASSUME KeptInv, NEW e \in Emails, FetchFails(e)
  PROVE  KeptInv'
<1> DEFINE t   == txn[e]
           why == FirstOf(t, "ATTACHMENT_READ_FAILED")
           v   == [t EXCEPT !.next = @ + 1, !.hurt = TRUE, !.technical = why]
<1>1. GoodRun(e, t) /\ t \in Runs(e) /\ t.pc = "read"
  BY RunningFacts DEF FetchFails, Reading
<1>2. t.next + 1 \in Nat \ {0} /\ why \in {"NONE", "ATTACHMENT_READ_FAILED", "DOCUMENT_READER_FAILED"}
  BY <1>1 DEF Runs, FirstOf
<1>3. txn' = [txn EXCEPT ![e] = v]
  BY <1>1 DEF FetchFails, Runs
<1> HIDE DEF why
<1>4. /\ v \in Runs(e) /\ v.pc = "read" /\ v.docs = t.docs /\ v.read = t.read /\ v.pending = t.pending
  BY <1>1, <1>2 DEF Runs
<1> HIDE DEF v
<1>5. GoodRun(e, v)
  BY <1>1, <1>4 DEF GoodRun
<1>6. runs' \in 0..MaxRuns /\ faults' \in 0..MaxFaults /\ OcrTyped'
  BY FaultFacts, OcrUnchanged DEF FetchFails, KeptInv
<1> QED
  BY <1>3, <1>5, <1>6, RunKept DEF FetchFails

LEMMA AnsweredFact ==
  ASSUME NEW c, NEW answer
  PROVE  Answered(c, answer) \in Found
BY ClassifiedFacts DEF Answered

LEMMA ReadFileKept ==
  ASSUME KeptInv, NEW e \in Emails, ReadFile(e)
  PROVE  KeptInv'
<1>1. /\ GoodRun(e, txn[e]) /\ txn[e].next \in Places(e) /\ version \in Versions
  BY RunningFacts DEF ReadFile, Reading, KeptInv, TypeOK
<1>2. GoodRun(e, Kept(txn[e], Answered(Current(e), "TEXT")))
  BY <1>1, AnsweredFact, GoodKept
<1>3. runs' \in 0..MaxRuns /\ faults' \in 0..MaxFaults /\ OcrTyped'
  BY FaultFacts, OcrUnchanged DEF ReadFile, KeptInv, boundVars
<1> QED
  BY <1>2, <1>3, RunKept DEF ReadFile

LEMMA RaisesKept ==
  ASSUME KeptInv, NEW e \in Emails, ReaderRaises(e)
  PROVE  KeptInv'
<1> DEFINE why == "DOCUMENT_READER_FAILED"
           t   == Kept(txn[e], Raised(File[Current(e)]))
           u   == [t EXCEPT !.hurt = TRUE, !.technical = FirstOf(t, why)]
<1>1. /\ GoodRun(e, txn[e]) /\ txn[e] \in Runs(e) /\ txn[e].next \in Places(e) /\ version \in Versions
  BY RunningFacts DEF ReaderRaises, Reading, KeptInv, TypeOK
<1>2. Raised(File[Current(e)]) \in Found
  BY ClassifiedFacts
<1>3. GoodRun(e, t) /\ t.technical = txn[e].technical
  <2>1. GoodRun(e, Kept(txn[e], Raised(File[Current(e)])))
    BY <1>1, <1>2, GoodKept
  <2>2. Kept(txn[e], Raised(File[Current(e)])).technical = txn[e].technical
    BY <1>1, <1>2, KeptFacts, Zenon
  <2> QED
    BY <2>1, <2>2
<1>4. txn' = [txn EXCEPT ![e] = u]
  BY <1>3 DEF ReaderRaises, FirstOf
<1> HIDE DEF t
<1>5. GoodRun(e, u)
  BY <1>3, GoodHurt
<1>6. runs' \in 0..MaxRuns /\ faults' \in 0..MaxFaults /\ OcrTyped'
  BY FaultFacts, OcrUnchanged DEF ReaderRaises, KeptInv
<1> QED
  BY <1>4, <1>5, <1>6, RunKept DEF ReaderRaises

LEMMA AskKept ==
  ASSUME KeptInv, NEW e \in Emails, AskOcr(e)
  PROVE  KeptInv'
<1>1. /\ GoodRun(e, txn[e]) /\ txn[e] \in Runs(e) /\ txn[e].next \in Places(e) /\ version \in Versions
  BY RunningFacts DEF AskOcr, Reading, KeptInv, TypeOK
<1>2. GoodRun(e, Kept(txn[e], Answered(Current(e), ocrCache[Current(e)])))
  BY <1>1, AnsweredFact, GoodKept
<1> DEFINE u == [txn[e] EXCEPT !.pc = "ocr"]
<1>3. /\ u \in Runs(e) /\ u.pc = "ocr" /\ u.next = txn[e].next /\ u.docs = txn[e].docs
      /\ u.read = txn[e].read /\ u.pending = txn[e].pending
  BY <1>1 DEF Runs
<1>4. \/ txn' = [txn EXCEPT ![e] = u]
      \/ txn' = [txn EXCEPT ![e] = Kept(txn[e], Answered(Current(e), ocrCache[Current(e)]))]
  BY DEF AskOcr
<1> HIDE DEF u
<1>5. GoodRun(e, u)
  BY <1>1, <1>3 DEF GoodRun
<1>6. runs' \in 0..MaxRuns /\ faults' \in 0..MaxFaults /\ OcrTyped'
  BY FaultFacts, OcrUnchanged DEF AskOcr, KeptInv, boundVars
<1> QED
  BY <1>2, <1>4, <1>5, <1>6, RunKept DEF AskOcr

LEMMA LockKept ==
  ASSUME KeptInv, NEW e \in Emails, LockOcr(e)
  PROVE  KeptInv'
<1> DEFINE c      == Current(e)
           answer == IF Cached(c) THEN ocrCache[c] ELSE "NO_FALLBACK"
           u      == [txn[e] EXCEPT !.pc = "called", !.call = CallsMade + 1]
<1>1. /\ GoodRun(e, txn[e]) /\ txn[e] \in Runs(e) /\ txn[e].next \in Places(e)
      /\ c \in Contents /\ version \in Versions
  BY RunningFacts DEF LockOcr, KeptInv, TypeOK
<1>2. GoodRun(e, Kept(txn[e], Answered(c, answer)))
  BY <1>1, AnsweredFact, GoodKept
<1>3. CallsMade + 1 \in Nat
  <2> DEFINE made == {h \in DOMAIN helpers : helpers[h].pc # "unused"}
  <2>1. made \in SUBSET (1..OcrMaxCalls)
    BY DEF KeptInv, TypeOK
  <2>2. IsFiniteSet(1..OcrMaxCalls)
    BY Constants, FS_Interval
  <2>3. Cardinality(made) \in Nat
    BY <2>1, <2>2, FS_Subset, FS_CardinalityType
  <2> QED
    BY <2>3 DEF CallsMade
<1>4. /\ u \in Runs(e) /\ u.pc = "called" /\ u.next = txn[e].next /\ u.docs = txn[e].docs
      /\ u.read = txn[e].read /\ u.pending = txn[e].pending
  BY <1>1, <1>3 DEF Runs
<1> HIDE DEF u
<1>5. GoodRun(e, u)
  BY <1>1, <1>4 DEF GoodRun
<1>6. runs' \in 0..MaxRuns /\ faults' \in 0..MaxFaults
  BY FaultFacts DEF LockOcr, KeptInv, boundVars
<1>7. UNCHANGED <<storedVars, keepVars, version>>
  BY DEF LockOcr
<1>8. CASE CachedMeanwhile(c) \/ CallsMade = OcrMaxCalls
  <2>1. txn' = [txn EXCEPT ![e] = Kept(txn[e], Answered(c, answer))] /\ OcrTyped'
    BY <1>8, OcrUnchanged DEF LockOcr, KeptInv
  <2> QED
    BY <1>2, <1>6, <1>7, <2>1, RunKept
<1>9. CASE ~(CachedMeanwhile(c) \/ CallsMade = OcrMaxCalls)
  <2>1. /\ txn' = [txn EXCEPT ![e] = u]
        /\ helpers' = [helpers EXCEPT ![CallsMade + 1] = [pc |-> "waiting", content |-> c]]
        /\ ocrLock' = [ocrLock EXCEPT ![c] = e]
        /\ UNCHANGED ocrCache
    BY <1>9 DEF LockOcr, u
  <2>2. [pc |-> "waiting", content |-> c] \in Helpers
    BY <1>1 DEF Helpers
  <2>3. OcrTyped'
    BY <2>1, <2>2 DEF OcrTyped, KeptInv, TypeOK
  <2> QED
    BY <1>5, <1>6, <1>7, <2>1, <2>3, RunKept
<1> QED
  BY <1>8, <1>9

LEMMA SettleFacts ==
  ASSUME KeptInv, NEW e \in Emails, txn[e].pc = "called", NEW answer \in OcrAnswers, Settle(e, answer)
  PROVE  /\ GoodRun(e, Kept(txn[e], Answered(Current(e), answer)))
         /\ txn' = [txn EXCEPT ![e] = Kept(txn[e], Answered(Current(e), answer))]
         /\ ocrCache' \in [Contents -> OcrAnswers \cup {"NONE"}]
         /\ ocrLock' \in [Contents -> Emails \cup {Nobody}]
<1>1. /\ GoodRun(e, txn[e]) /\ txn[e].next \in Places(e)
      /\ Current(e) \in Contents /\ version \in Versions
  BY RunningFacts DEF KeptInv, TypeOK
<1>2. GoodRun(e, Kept(txn[e], Answered(Current(e), answer)))
  BY <1>1, AnsweredFact, GoodKept
<1>3. /\ ocrCache' \in [Contents -> OcrAnswers \cup {"NONE"}]
      /\ ocrLock' \in [Contents -> Emails \cup {Nobody}]
  BY <1>1 DEF Settle, KeptInv, TypeOK
<1> QED
  BY <1>2, <1>3 DEF Settle

LEMMA TimesOutKept ==
  ASSUME KeptInv, NEW e \in Emails, OcrTimesOut(e)
  PROVE  KeptInv'
<1>1. txn[e].pc = "called" /\ Settle(e, "NO_FALLBACK") /\ UNCHANGED <<storedVars, keepVars, version>>
      /\ UNCHANGED helpers
  BY DEF OcrTimesOut
<1>2. "NO_FALLBACK" \in OcrAnswers
  BY DEF OcrAnswers
<1>3. /\ GoodRun(e, Kept(txn[e], Answered(Current(e), "NO_FALLBACK")))
      /\ txn' = [txn EXCEPT ![e] = Kept(txn[e], Answered(Current(e), "NO_FALLBACK"))]
      /\ ocrCache' \in [Contents -> OcrAnswers \cup {"NONE"}]
      /\ ocrLock' \in [Contents -> Emails \cup {Nobody}]
  BY <1>1, <1>2, SettleFacts
<1>4. OcrTyped'
  BY <1>1, <1>3 DEF OcrTyped, KeptInv, TypeOK
<1>5. runs' \in 0..MaxRuns /\ faults' \in 0..MaxFaults
  BY FaultFacts DEF OcrTimesOut, KeptInv, boundVars
<1> QED
  BY <1>1, <1>3, <1>4, <1>5, RunKept

(* Steps that leave the runs alone. *)
LEMMA RunsUntouched ==
  ASSUME KeptInv, UNCHANGED <<mail, doc, txn, hurt, version>>, OcrTyped',
         entry' \in [Keys -> Extractions \cup {NoEntry}],
         \A k \in Keys : entry'[k] = entry[k] \/ entry'[k] = NoEntry,
         hashed' \subseteq Emails, redacted' \subseteq Emails, old' \subseteq Keys \cup Emails,
         runs' \in 0..MaxRuns, faults' \in 0..MaxFaults
  PROVE  KeptInv'
<1>1. TypeOK'
  BY DEF KeptInv, TypeOK, OcrTyped
<1>2. RunsInv'
  BY DEF KeptInv, RunsInv, GoodRun, HasDocument, Stored
<1>3. SourcesInv'
  BY DEF KeptInv, SourcesInv, HasDocument, Stored
<1> QED
  BY <1>1, <1>2, <1>3 DEF KeptInv

LEMMA StoredUntouched ==
  ASSUME KeptInv, UNCHANGED <<storedVars, keepVars, txn, version>>, OcrTyped',
         runs' \in 0..MaxRuns, faults' \in 0..MaxFaults
  PROVE  KeptInv'
<1>1. UNCHANGED <<mail, doc, txn, hurt, version, entry, hashed, redacted, old>>
  BY DEF storedVars, keepVars
<1>2. /\ entry' \in [Keys -> Extractions \cup {NoEntry}]
      /\ hashed' \subseteq Emails /\ redacted' \subseteq Emails /\ old' \subseteq Keys \cup Emails
  BY <1>1 DEF KeptInv, TypeOK
<1>3. \A k \in Keys : entry'[k] = entry[k] \/ entry'[k] = NoEntry
  BY <1>1
<1> QED
  BY <1>1, <1>2, <1>3, RunsUntouched

LEMMA EntersKept ==
  ASSUME KeptInv, NEW h \in 1..OcrMaxCalls, HelperEnters(h)
  PROVE  KeptInv'
<1>1. helpers' \in [1..OcrMaxCalls -> Helpers]
  BY DEF HelperEnters, KeptInv, TypeOK, Helpers
<1>2. OcrTyped'
  BY <1>1 DEF HelperEnters, OcrTyped, KeptInv, TypeOK
<1>3. runs' \in 0..MaxRuns /\ faults' \in 0..MaxFaults
  BY FaultFacts DEF HelperEnters, KeptInv, boundVars
<1> QED
  BY <1>2, <1>3, StoredUntouched DEF HelperEnters

LEMMA ReturnsKept ==
  ASSUME KeptInv, NEW h \in 1..OcrMaxCalls, NEW answer \in {"TEXT", "FAILED"}, HelperReturns(h, answer)
  PROVE  KeptInv'
<1>1. helpers' \in [1..OcrMaxCalls -> Helpers]
  BY DEF HelperReturns, KeptInv, TypeOK, Helpers
<1>2. runs' \in 0..MaxRuns /\ faults' \in 0..MaxFaults /\ UNCHANGED <<storedVars, keepVars, version>>
  BY FaultFacts DEF HelperReturns, KeptInv, boundVars
<1> DEFINE waits(e) == txn[e].pc = "called" /\ txn[e].call = h
<1>3. CASE \E e \in Emails : waits(e)
  <2>1. PICK e \in Emails : waits(e) /\ Settle(e, answer)
    <3> DEFINE e == CHOOSE d \in Emails : waits(d)
    <3>1. e \in Emails /\ waits(e)
      BY <1>3
    <3>2. Settle(e, answer)
      BY <1>3 DEF HelperReturns
    <3> HIDE DEF e
    <3> QED
      BY <3>1, <3>2
  <2>2. answer \in OcrAnswers
    BY DEF OcrAnswers
  <2>3. /\ GoodRun(e, Kept(txn[e], Answered(Current(e), answer)))
        /\ txn' = [txn EXCEPT ![e] = Kept(txn[e], Answered(Current(e), answer))]
        /\ ocrCache' \in [Contents -> OcrAnswers \cup {"NONE"}]
        /\ ocrLock' \in [Contents -> Emails \cup {Nobody}]
    BY <2>1, <2>2, SettleFacts
  <2>4. OcrTyped'
    BY <1>1, <2>3 DEF OcrTyped
  <2> QED
    BY <1>2, <2>3, <2>4, RunKept
<1>4. CASE ~ \E e \in Emails : waits(e)
  <2>1. UNCHANGED <<txn, ocrCache, ocrLock>>
    BY <1>4 DEF HelperReturns
  <2>2. OcrTyped'
    BY <1>1, <2>1 DEF OcrTyped, KeptInv, TypeOK
  <2> QED
    BY <1>2, <2>1, <2>2, StoredUntouched
<1> QED
  BY <1>3, <1>4

LEMMA DecideKept ==
  ASSUME KeptInv, NEW e \in Emails, Decide(e)
  PROVE  KeptInv'
<1>1. PICK t : txn' = [txn EXCEPT ![e] = t] /\ GoodRun(e, t)
  BY DecidedFacts DEF KeptInv
<1>2. runs' \in 0..MaxRuns /\ faults' \in 0..MaxFaults /\ OcrTyped'
  BY FaultFacts, OcrUnchanged DEF Decide, KeptInv, boundVars
<1> QED
  BY <1>1, <1>2, RunKept DEF Decide

LEMMA LookUpKept ==
  ASSUME KeptInv, NEW e \in Emails, NEW k \in 1..2, LookUp(e, k)
  PROVE  KeptInv'
<1>1. PICK t : txn' = [txn EXCEPT ![e] = t] /\ GoodRun(e, t)
  BY LookedUp
<1>2. UNCHANGED <<storedVars, keepVars, ocrVars, version, runs>> /\ (UNCHANGED faults \/ FaultAllowed)
  BY DEF LookUp
<1>3. runs' \in 0..MaxRuns /\ faults' \in 0..MaxFaults /\ OcrTyped'
  BY <1>2, FaultFacts, OcrUnchanged DEF KeptInv
<1> QED
  BY <1>1, <1>2, <1>3, RunKept

LEMMA PersistKept ==
  ASSUME KeptInv, NEW e \in Emails, NEW k \in 1..2, Persist(e, k)
  PROVE  KeptInv'
<1>1. PICK t : txn' = [txn EXCEPT ![e] = t] /\ GoodRun(e, t)
  BY Persisted
<1>2. UNCHANGED <<storedVars, keepVars, ocrVars, version, runs>> /\ (UNCHANGED faults \/ FaultAllowed)
  BY DEF Persist
<1>3. runs' \in 0..MaxRuns /\ faults' \in 0..MaxFaults /\ OcrTyped'
  BY <1>2, FaultFacts, OcrUnchanged DEF KeptInv
<1> QED
  BY <1>1, <1>2, <1>3, RunKept

LEMMA ConcludedFacts ==
  ASSUME KeptInv, NEW e \in Emails, NEW compared \in BOOLEAN, Conclude(e, compared)
  PROVE  \E t : /\ txn' = [txn EXCEPT ![e] = t] /\ GoodRun(e, t)
                /\ t.pc = "commit" /\ t.docs = txn[e].docs /\ t.pending = txn[e].pending
                /\ t.read = txn[e].read /\ t.legible = txn[e].legible /\ t.missed = txn[e].missed
                /\ t.technical = txn[e].technical /\ t.hurt = (txn[e].hurt \/ ~compared)
                /\ t.result = "FAILED" =>
                     ~compared \/ \E k \in 1..2 : Row(Targets(e)[k]).status = "FAILED"
<1> DEFINE failed == \E k \in 1..2 : Row(Targets(e)[k]).status = "FAILED"
           result == IF failed \/ ~compared THEN "FAILED" ELSE "COMPARED"
           hurts  == txn[e].hurt \/ ~compared
           t == [txn[e] EXCEPT !.pc = "commit", !.hurt = hurts, !.result = result]
<1>1. txn[e].pc = "lookup" /\ GoodRun(e, txn[e]) /\ txn[e] \in Runs(e)
  BY RunningFacts DEF Conclude
<1>2. hurts \in BOOLEAN /\ result \in {"NEW", "BLOCKED", "FAILED", "COMPARED"}
  OBVIOUS
<1>3. txn' = [txn EXCEPT ![e] = t]
  BY DEF Conclude
<1> HIDE DEF hurts, result
<1>4. /\ t \in Runs(e) /\ t.pc = "commit" /\ t.docs = txn[e].docs /\ t.pending = txn[e].pending
      /\ t.read = txn[e].read /\ t.legible = txn[e].legible /\ t.missed = txn[e].missed
      /\ t.technical = txn[e].technical /\ t.hurt = hurts /\ t.result = result
  BY <1>1, <1>2 DEF Runs
<1> HIDE DEF t
<1>5. GoodRun(e, t)
  BY <1>1, <1>4 DEF GoodRun
<1>6. result = "FAILED" => failed \/ ~compared
  BY DEF result
<1> HIDE DEF failed
<1> QED
  BY <1>3, <1>4, <1>5, <1>6 DEF hurts, failed

LEMMA ConcludeKept ==
  ASSUME KeptInv, NEW e \in Emails, NEW compared \in BOOLEAN, Conclude(e, compared)
  PROVE  KeptInv'
<1>1. PICK t : txn' = [txn EXCEPT ![e] = t] /\ GoodRun(e, t)
  BY ConcludedFacts
<1>2. UNCHANGED <<storedVars, keepVars, ocrVars, version, runs>> /\ (UNCHANGED faults \/ FaultAllowed)
  BY DEF Conclude
<1>3. runs' \in 0..MaxRuns /\ faults' \in 0..MaxFaults /\ OcrTyped'
  BY <1>2, FaultFacts, OcrUnchanged DEF KeptInv
<1> QED
  BY <1>1, <1>2, <1>3, RunKept

LEMMA RollsBackKept ==
  ASSUME KeptInv, NEW e \in Emails, RollsBack(e)
  PROVE  KeptInv'
<1>1. runs' \in 0..MaxRuns /\ faults' \in 0..MaxFaults /\ OcrTyped'
  BY FaultFacts, OcrUnchanged DEF RollsBack, KeptInv
<1> QED
  BY <1>1, RunKept DEF RollsBack

(* What a commit stores: the documents of the run, and the keys it registered. *)
LEMMA CommitFacts ==
  ASSUME KeptInv, NEW e \in Emails, Commit(e)
  PROVE  /\ GoodRun(e, txn[e])
         /\ \A d \in Emails : /\ doc'[d] = IF d = e THEN txn[e].docs ELSE doc[d]
                              /\ txn'[d] = IF d = e THEN Idle ELSE txn[d]
         /\ \A x \in Extractions :
              Stored(x)' = IF x[1] = e THEN txn[e].docs[x[2]] ELSE Stored(x)
         /\ entry' \in [Keys -> Extractions \cup {NoEntry}]
         /\ \A k \in Keys : entry'[k] = entry[k] \/ <<k, entry'[k]>> \in txn[e].pending
<1>1. GoodRun(e, txn[e]) /\ txn[e] \in Runs(e)
  BY RunningFacts DEF Commit
<1>2. \A d \in Emails : /\ doc'[d] = IF d = e THEN txn[e].docs ELSE doc[d]
                        /\ txn'[d] = IF d = e THEN Idle ELSE txn[d]
  BY Zenon DEF Commit, KeptInv, TypeOK
<1>3. \A x \in Extractions : Stored(x)' = IF x[1] = e THEN txn[e].docs[x[2]] ELSE Stored(x)
  BY <1>2, ExtractionFacts DEF Stored
<1>4. entry' = [k \in Keys |-> Inserted(txn[e], k)]
  BY DEF Commit
<1>5. ASSUME NEW k \in Keys
      PROVE  /\ Inserted(txn[e], k) = entry[k] \/ <<k, Inserted(txn[e], k)>> \in txn[e].pending
             /\ Inserted(txn[e], k) \in Extractions \cup {NoEntry}
  <2>1. txn[e].pending \subseteq Keys \X Extractions
    BY <1>1 DEF Runs
  <2>2. entry[k] \in Extractions \cup {NoEntry}
    BY DEF KeptInv, TypeOK
  <2>3. CASE \E p \in txn[e].pending : p[1] = k
    <3> DEFINE p == CHOOSE q \in txn[e].pending : q[1] = k
    <3>1. p \in txn[e].pending /\ p[1] = k /\ Inserted(txn[e], k) = p[2]
      BY <2>3 DEF Inserted
    <3> HIDE DEF p
    <3>2. p = <<p[1], p[2]>> /\ p[2] \in Extractions
      BY <2>1, <3>1
    <3> QED
      BY <3>1, <3>2
  <2>4. CASE ~ \E p \in txn[e].pending : p[1] = k
    BY <2>2, <2>4 DEF Inserted
  <2> QED
    BY <2>3, <2>4
<1>6. \A k \in Keys : entry'[k] = Inserted(txn[e], k)
  BY <1>4
<1>7. entry' \in [Keys -> Extractions \cup {NoEntry}]
  BY <1>4, <1>5
<1> QED
  BY <1>1, <1>2, <1>3, <1>5, <1>6, <1>7

LEMMA CommitKept ==
  ASSUME KeptInv, NEW e \in Emails, Commit(e)
  PROVE  KeptInv'
<1>1. /\ GoodRun(e, txn[e])
      /\ \A d \in Emails : /\ doc'[d] = IF d = e THEN txn[e].docs ELSE doc[d]
                           /\ txn'[d] = IF d = e THEN Idle ELSE txn[d]
      /\ \A x \in Extractions : Stored(x)' = IF x[1] = e THEN txn[e].docs[x[2]] ELSE Stored(x)
      /\ entry' \in [Keys -> Extractions \cup {NoEntry}]
      /\ \A k \in Keys : entry'[k] = entry[k] \/ <<k, entry'[k]>> \in txn[e].pending
  BY CommitFacts
<1>2. txn[e] \in Runs(e) /\ TypeOK
  BY <1>1 DEF GoodRun, KeptInv
<1>3. \A x \in Extractions : HasDocument(x) => HasDocument(x)'
  <2> SUFFICES ASSUME NEW x \in Extractions, HasDocument(x)
               PROVE  HasDocument(x)'
    OBVIOUS
  <2>1. Stored(x)' = IF x[1] = e THEN txn[e].docs[x[2]] ELSE Stored(x)
    BY <1>1
  <2>2. x[1] = e => txn[e].docs[x[2]] # NoDocument
    BY <1>1, ExtractionFacts DEF GoodRun, HasDocument, Stored
  <2> QED
    BY <2>1, <2>2 DEF HasDocument
<1>4. TypeOK'
  <2>1. /\ doc' = [d \in Emails |-> doc'[d]] /\ txn' = [d \in Emails |-> txn'[d]]
    <3>1. /\ doc' = [d \in Emails |-> IF d = e THEN txn[e].docs ELSE doc[d]]
          /\ txn' = [d \in Emails |-> IF d = e THEN Idle ELSE txn[d]]
      BY <1>2, Zenon DEF Commit, TypeOK
    <3> QED
      BY <1>1, <3>1, Zenon
  <2>2. \A d \in Emails : /\ doc'[d] \in Documents(d) /\ txn'[d] \in {Idle} \cup Runs(d)
                          /\ txn'[d].pc \in {"ocr", "called"} => txn'[d].next \in Places(d)
    <3>1. txn[e].docs \in Documents(e)
      BY <1>2 DEF Runs
    <3> QED
      BY <1>1, <1>2, <3>1 DEF TypeOK, Idle
  <2>3. mail' \in [Emails -> {"NEW", "BLOCKED", "FAILED", "COMPARED"}]
    <3>1. txn[e].result \in {"NEW", "BLOCKED", "FAILED", "COMPARED"}
      BY <1>2 DEF Runs
    <3> QED
      BY <1>2, <3>1 DEF Commit, TypeOK
  <2>4. hurt' \in [Emails -> BOOLEAN]
    <3>1. txn[e].hurt \in BOOLEAN
      BY <1>2 DEF Runs
    <3> QED
      BY <1>2, <3>1 DEF Commit, TypeOK
  <2>5. hashed' \subseteq Emails
    BY <1>2 DEF Commit, TypeOK
  <2>6. UNCHANGED <<old, redacted, ocrCache, ocrLock, helpers, version, runs, faults>>
    BY DEF Commit, keepVars, ocrVars, boundVars
  <2> QED
    BY <1>1, <1>2, <2>1, <2>2, <2>3, <2>4, <2>5, <2>6 DEF TypeOK
<1>5. RunsInv'
  <2>1. ASSUME NEW d \in Emails
        PROVE  txn'[d] = Idle \/ GoodRun(d, txn[d])'
    <3>1. CASE d = e
      BY <1>1, <3>1
    <3>2. CASE d # e
      <4>1. txn'[d] = txn[d] /\ doc'[d] = doc[d] /\ (txn[d] = Idle \/ GoodRun(d, txn[d]))
        BY <1>1, <3>2 DEF KeptInv, RunsInv
      <4>2. ASSUME GoodRun(d, txn[d])
            PROVE  GoodRun(d, txn[d])'
        <5>1. \A p \in txn[d].pending : HasDocument(p[2]) => HasDocument(p[2])'
          <6>1. \A p \in txn[d].pending : p[2] \in Extractions
            BY <4>2 DEF GoodRun, Runs
          <6> QED
            BY <6>1, <1>3
        <5> QED
          BY <4>1, <4>2, <5>1 DEF GoodRun
      <4> QED
        BY <4>1, <4>2
    <3> QED
      BY <3>1, <3>2
  <2> QED
    BY <2>1 DEF RunsInv
<1>6. SourcesInv'
  <2>1. ASSUME NEW k \in Keys, entry'[k] # NoEntry
        PROVE  HasDocument(entry[k])'
    <3>1. entry'[k] \in Extractions
      BY <1>1, <2>1
    <3>2. CASE entry'[k] = entry[k]
      <4>1. HasDocument(entry[k]) /\ entry[k] \in Extractions
        BY <2>1, <3>1, <3>2 DEF KeptInv, SourcesInv
      <4>2. PICK x \in Extractions : x = entry'[k]
        BY <3>1
      <4>3. HasDocument(x)'
        BY <1>3, <3>2, <4>1, <4>2
      <4> QED
        BY <4>2, <4>3 DEF HasDocument, Stored
    <3>3. CASE <<k, entry'[k]>> \in txn[e].pending
      <4>1. PICK x \in Extractions : x = entry'[k]
        BY <3>1
      <4>2. HasDocument(x) \/ (x[1] = e /\ x[2] \in txn[e].read)
        BY <1>1, <3>3, <4>1 DEF GoodRun
      <4>3. x[1] = e /\ x[2] \in txn[e].read => txn[e].docs[x[2]] # NoDocument
        BY <1>1 DEF GoodRun
      <4>4. HasDocument(x)'
        BY <1>1, <1>3, <4>2, <4>3 DEF HasDocument
      <4> QED
        BY <4>1, <4>4 DEF HasDocument, Stored
    <3> QED
      BY <1>1, <3>2, <3>3
  <2> QED
    BY <2>1 DEF SourcesInv
<1> QED
  BY <1>4, <1>5, <1>6 DEF KeptInv

LEMMA AgeKept ==
  ASSUME KeptInv, Age
  PROVE  KeptInv'
<1>1. old' \subseteq Keys \cup Emails
  BY DEF Age
<1>2. runs' \in 0..MaxRuns /\ faults' \in 0..MaxFaults /\ OcrTyped'
  BY FaultFacts, OcrUnchanged DEF Age, KeptInv, boundVars
<1>3. UNCHANGED <<mail, doc, txn, hurt, version, entry, hashed, redacted>>
  BY DEF Age, storedVars
<1>4. /\ entry' \in [Keys -> Extractions \cup {NoEntry}]
      /\ hashed' \subseteq Emails /\ redacted' \subseteq Emails
      /\ \A k \in Keys : entry'[k] = entry[k] \/ entry'[k] = NoEntry
  BY <1>3 DEF KeptInv, TypeOK
<1> QED
  BY <1>1, <1>2, <1>3, <1>4, RunsUntouched

LEMMA CleanUpKept ==
  ASSUME KeptInv, CleanUp
  PROVE  KeptInv'
<1>1. entry' \in [Keys -> Extractions \cup {NoEntry}]
  BY DEF CleanUp, KeptInv, TypeOK
<1>2. \A k \in Keys : entry'[k] = entry[k] \/ entry'[k] = NoEntry
  BY DEF CleanUp
<1>3. hashed' \subseteq Emails /\ redacted' \subseteq Emails /\ old' \subseteq Keys \cup Emails
  BY DEF CleanUp, KeptInv, TypeOK
<1>4. runs' \in 0..MaxRuns /\ faults' \in 0..MaxFaults /\ OcrTyped'
  BY FaultFacts, OcrUnchanged DEF CleanUp, KeptInv
<1> QED
  BY <1>1, <1>2, <1>3, <1>4, RunsUntouched DEF CleanUp

LEMMA FreshOcr ==
  /\ NoHelpers \in [1..OcrMaxCalls -> Helpers]
  /\ [c \in Contents |-> "NONE"] \in [Contents -> OcrAnswers \cup {"NONE"}]
  /\ [c \in Contents |-> Nobody] \in [Contents -> Emails \cup {Nobody}]
BY DEF NoHelpers, Helpers

LEMMA RestartKept ==
  ASSUME KeptInv, NEW v \in Versions, Restart(v)
  PROVE  KeptInv'
<1>1. /\ txn' = [e \in Emails |-> Idle] /\ version' = v
      /\ UNCHANGED <<mail, doc, entry, hashed, hurt, old, redacted, runs>>
  BY DEF Restart, storedVars, keepVars
<1>2. ocrCache' \in [Contents -> OcrAnswers \cup {"NONE"}]
      /\ ocrLock' \in [Contents -> Emails \cup {Nobody}]
      /\ helpers' \in [1..OcrMaxCalls -> Helpers]
  BY FreshOcr DEF Restart
<1>3. faults' \in 0..MaxFaults
  BY FaultFacts DEF Restart, KeptInv
<1>4. TypeOK'
  <2>1. doc' = [e \in Emails |-> doc'[e]] /\ txn' = [e \in Emails |-> txn'[e]]
    BY <1>1 DEF KeptInv, TypeOK
  <2>2. \A e \in Emails : /\ doc'[e] \in Documents(e) /\ txn'[e] \in {Idle} \cup Runs(e)
                          /\ txn'[e].pc \in {"ocr", "called"} => txn'[e].next \in Places(e)
    BY <1>1 DEF KeptInv, TypeOK, Idle
  <2> QED
    BY <1>1, <1>2, <1>3, <2>1, <2>2 DEF KeptInv, TypeOK
<1>5. RunsInv'
  BY <1>1 DEF RunsInv
<1>6. SourcesInv'
  BY <1>1 DEF KeptInv, SourcesInv, HasDocument, Stored
<1> QED
  BY <1>4, <1>5, <1>6 DEF KeptInv
----------------------------------------------------------------------------
(* Type correctness, and the documents of later runs *)

LEMMA InitKept ==
  ASSUME Init
  PROVE  KeptInv
<1>1. /\ doc = [e \in Emails |-> doc[e]] /\ txn = [e \in Emails |-> txn[e]]
      /\ \A e \in Emails : /\ doc[e] \in Documents(e) /\ txn[e] = Idle
                           /\ txn[e].pc \in {"ocr", "called"} => txn[e].next \in Places(e)
  BY DEF Init, Documents, Idle
<1>2. 0 \in 0..MaxRuns /\ 0 \in 0..MaxFaults
  BY Constants
<1>3. TypeOK
  <2>1. /\ ocrCache \in [Contents -> OcrAnswers \cup {"NONE"}]
        /\ ocrLock \in [Contents -> Emails \cup {Nobody}]
        /\ helpers \in [1..OcrMaxCalls -> Helpers]
    BY FreshOcr DEF Init
  <2>2. entry \in [Keys -> Extractions \cup {NoEntry}]
    BY DEF Init
  <2>3. mail \in [Emails -> {"NEW", "BLOCKED", "FAILED", "COMPARED"}] /\ hurt \in [Emails -> BOOLEAN]
    BY DEF Init
  <2> QED
    BY <1>1, <1>2, <2>1, <2>2, <2>3 DEF Init, TypeOK
<1>4. RunsInv
  BY <1>1 DEF RunsInv
<1>5. SourcesInv
  BY DEF Init, SourcesInv
<1> QED
  BY <1>3, <1>4, <1>5 DEF KeptInv

LEMMA NextKept ==
  ASSUME KeptInv, [Next]_vars
  PROVE  KeptInv'
<1>1. ASSUME NEW e \in Emails, NEW origin \in {"PROVIDER", "STORED"}, Begin(e, origin)
      PROVE  KeptInv'
  BY <1>1, BeginKept
<1>2. ASSUME NEW e \in Emails, Worker(e)
      PROVE  KeptInv'
  <2>1. CASE FetchFails(e)
    BY <2>1, FetchKept
  <2>2. CASE ReadFile(e)
    BY <2>2, ReadFileKept
  <2>3. CASE ReaderRaises(e)
    BY <2>3, RaisesKept
  <2>4. CASE AskOcr(e)
    BY <2>4, AskKept
  <2>5. CASE LockOcr(e)
    BY <2>5, LockKept
  <2>6. CASE OcrTimesOut(e)
    BY <2>6, TimesOutKept
  <2>7. CASE Decide(e)
    BY <2>7, DecideKept
  <2>8. CASE \E k \in 1..2 : LookUp(e, k) \/ Persist(e, k)
    BY <2>8, LookUpKept, PersistKept
  <2>9. CASE \E compared \in BOOLEAN : Conclude(e, compared)
    BY <2>9, ConcludeKept
  <2>10. CASE Commit(e)
    BY <2>10, CommitKept
  <2>11. CASE RollsBack(e)
    BY <2>11, RollsBackKept
  <2> QED
    BY <1>2, <2>1, <2>2, <2>3, <2>4, <2>5, <2>6, <2>7, <2>8, <2>9, <2>10, <2>11 DEF Worker
<1>3. CASE Engine
  BY <1>3, EntersKept, ReturnsKept DEF Engine
<1>4. CASE Age \/ CleanUp \/ \E v \in Versions : Restart(v)
  BY <1>4, AgeKept, CleanUpKept, RestartKept
<1>5. CASE UNCHANGED vars
  <2>1. UNCHANGED <<storedVars, keepVars, txn, version, ocrVars, runs, faults>>
    BY <1>5 DEF vars, boundVars
  <2>2. OcrTyped' /\ runs' \in 0..MaxRuns /\ faults' \in 0..MaxFaults
    BY <2>1, OcrUnchanged, FaultFacts DEF KeptInv
  <2> QED
    BY <2>1, <2>2, StoredUntouched
<1> QED
  BY <1>1, <1>2, <1>3, <1>4, <1>5 DEF Next

THEOREM InvariantKept == Spec => []KeptInv
<1>1. Init => KeptInv
  BY InitKept
<1>2. KeptInv /\ [Next]_vars => KeptInv'
  BY NextKept
<1> QED
  BY <1>1, <1>2, PTL DEF Spec

(* TypeOK holds of every behaviour: each variable keeps its type, what a run    *)
(* holds can be stored, and a run waits for OCR only at an attachment it has.   *)
THEOREM TypeCorrect == Spec => []TypeOK
<1>1. KeptInv => TypeOK
  BY DEF KeptInv
<1> QED
  BY <1>1, InvariantKept, PTL

(* Only a commit writes documents. *)
LEMMA DocumentsStand ==
  ASSUME KeptInv, [Next]_vars, ~ \E e \in Emails : Commit(e)
  PROVE  UNCHANGED doc
<1>1. ASSUME NEW e \in Emails, NEW origin \in {"PROVIDER", "STORED"}, Begin(e, origin)
      PROVE  UNCHANGED doc
  BY <1>1 DEF Begin, storedVars
<1>2. ASSUME NEW e \in Emails, Worker(e)
      PROVE  UNCHANGED doc
  BY <1>2 DEF Worker, FetchFails, ReadFile, ReaderRaises, AskOcr, LockOcr, OcrTimesOut, Decide,
              LookUp, Persist, Conclude, RollsBack, storedVars
<1>3. Engine \/ Age \/ CleanUp \/ (\E v \in Versions : Restart(v)) => UNCHANGED doc
  BY DEF Engine, HelperEnters, HelperReturns, Age, CleanUp, Restart, storedVars
<1>4. UNCHANGED vars => UNCHANGED doc
  BY DEF vars, storedVars
<1> QED
  BY <1>1, <1>2, <1>3, <1>4 DEF Next

(* DocumentsKept: a document that was stored keeps its role over later runs of    *)
(* the e-mail, for any OCR answers, clean-ups, restarts and deployments.          *)
THEOREM DocumentsAreKept == Spec => DocumentsKept
<1> DEFINE Stays == \A x \in Extractions : Stored(x) # NoDocument =>
                      Stored(x)' # NoDocument /\ Stored(x)'.role = Stored(x).role
<1>1. KeptInv /\ [Next]_vars => [Stays]_vars
  <2> SUFFICES ASSUME KeptInv, [Next]_vars, NEW x \in Extractions, Stored(x) # NoDocument
               PROVE  Stored(x)' # NoDocument /\ Stored(x)'.role = Stored(x).role
    OBVIOUS
  <2>1. ASSUME NEW e \in Emails, Commit(e)
        PROVE  Stored(x)' # NoDocument /\ Stored(x)'.role = Stored(x).role
    <3>1. /\ GoodRun(e, txn[e])
          /\ Stored(x)' = IF x[1] = e THEN txn[e].docs[x[2]] ELSE Stored(x)
      BY <2>1, CommitFacts
    <3>2. x[1] = e => /\ txn[e].docs[x[2]] # NoDocument
                      /\ txn[e].docs[x[2]].role = Stored(x).role
      BY <3>1, ExtractionFacts DEF GoodRun, Stored
    <3> QED
      BY <3>1, <3>2
  <2>2. ASSUME ~ \E e \in Emails : Commit(e)
        PROVE  Stored(x)' # NoDocument /\ Stored(x)'.role = Stored(x).role
    BY <2>2, DocumentsStand DEF Stored
  <2> QED
    BY <2>1, <2>2
<1>2. DocumentsKept <=> [][Stays]_vars
  BY DEF DocumentsKept
<1> HIDE DEF Stays
<1> QED
  BY <1>1, <1>2, InvariantKept, PTL DEF Spec
----------------------------------------------------------------------------
(* The OCR calls *)

Calling(e) == txn[e].pc = "called"

Started == {helpers[h].content : h \in {g \in DOMAIN helpers : helpers[g].pc # "unused"}}

(* The calls are numbered in the order they are made.  A caller holds the lock of *)
(* its content, which was started and has no answer yet; who holds a lock is its  *)
(* caller; what was started is answered or has a caller.                        *)
CallsInv ==
  /\ \E n \in 0..OcrMaxCalls : \A h \in 1..OcrMaxCalls : helpers[h].pc # "unused" <=> h <= n
  /\ \A e \in Emails : Calling(e) =>
       ocrLock[Current(e)] = e /\ Current(e) \in Started /\ ~Cached(Current(e))
  /\ \A c \in Contents :
       /\ ocrLock[c] # Nobody => Calling(ocrLock[c]) /\ Current(ocrLock[c]) = c
       /\ Cached(c) => c \in Started
       /\ c \in Started => Cached(c) \/ ocrLock[c] # Nobody

LEMMA CallingFacts ==
  ASSUME KeptInv, NEW e \in Emails, Calling(e)
  PROVE  Current(e) \in Contents /\ txn[e] # Idle
<1>1. txn[e].next \in Places(e) => Current(e) \in Contents
  BY RunningFacts DEF Calling
<1>2. txn[e].next \in Places(e)
  BY DEF Calling, KeptInv, TypeOK
<1> QED
  BY <1>1, <1>2 DEF Calling, Idle

(* The number of calls made is the last number used. *)
LEMMA CallsMadeFact ==
  ASSUME KeptInv, NEW n \in 0..OcrMaxCalls,
         \A h \in 1..OcrMaxCalls : helpers[h].pc # "unused" <=> h <= n
  PROVE  CallsMade = n
<1>1. {h \in DOMAIN helpers : helpers[h].pc # "unused"} = 1..n
  BY Constants DEF KeptInv, TypeOK
<1>2. Cardinality(1..n) = n
  BY Constants, FS_Interval
<1> QED
  BY <1>1, <1>2 DEF CallsMade

LEMMA StartedFacts ==
  ASSUME KeptInv
  PROVE  \A c : c \in Started <=> \E h \in 1..OcrMaxCalls : helpers[h].pc # "unused" /\ helpers[h].content = c
BY DEF Started, KeptInv, TypeOK

(* Steps that neither start nor end a call. *)
LEMMA QuietCalls ==
  ASSUME KeptInv, CallsInv, UNCHANGED ocrVars,
         \A e \in Emails : Calling(e) \/ Calling(e)' => txn'[e] = txn[e]
  PROVE  CallsInv' /\ UNCHANGED Ocr!vars
<1>1. UNCHANGED <<ocrCache, ocrLock, helpers>>
  BY DEF ocrVars
<1>2. \A e \in Emails : /\ Calling(e)' <=> Calling(e)
                        /\ Calling(e) => Current(e)' = Current(e)
  BY DEF Calling, Current
<1>3. Started' = Started /\ \A c : Cached(c)' <=> Cached(c)
  BY <1>1 DEF Started, Cached
<1>4. UNCHANGED Ocr!vars
  BY <1>1 DEF Ocr!vars
<1>5. \A e \in Emails : Calling(e)' =>
        ocrLock'[Current(e)'] = e /\ Current(e)' \in Started' /\ ~Cached(Current(e))'
  BY <1>1, <1>2, <1>3 DEF CallsInv, Cached
<1>6. \A c \in Contents :
        /\ ocrLock'[c] # Nobody => Calling(ocrLock[c])' /\ Current(ocrLock[c])' = c
        /\ Cached(c)' => c \in Started'
        /\ c \in Started' => Cached(c)' \/ ocrLock'[c] # Nobody
  <2> SUFFICES ASSUME NEW c \in Contents, ocrLock[c] # Nobody
               PROVE  Calling(ocrLock[c])' /\ Current(ocrLock[c])' = c
    BY <1>1, <1>3 DEF CallsInv
  <2>1. PICK e \in Emails : e = ocrLock[c]
    BY DEF KeptInv, TypeOK
  <2>2. Calling(e) /\ Current(e) = c
    BY <2>1 DEF CallsInv
  <2>3. Calling(e)' /\ Current(e)' = c
    BY <1>2, <2>2
  <2> QED
    BY <1>1, <2>1, <2>3 DEF Calling, Current
<1> QED
  BY <1>1, <1>4, <1>5, <1>6 DEF CallsInv

LEMMA QuietRun ==
  ASSUME KeptInv, CallsInv, UNCHANGED ocrVars, NEW e \in Emails, NEW t,
         txn' = [txn EXCEPT ![e] = t], ~Calling(e), t.pc # "called"
  PROVE  CallsInv' /\ UNCHANGED Ocr!vars
<1>1. \A d \in Emails : txn'[d] = IF d = e THEN t ELSE txn[d]
  BY Zenon DEF KeptInv, TypeOK
<1>2. \A d \in Emails : Calling(d) \/ Calling(d)' => txn'[d] = txn[d]
  BY <1>1 DEF Calling
<1> QED
  BY <1>2, QuietCalls

(* Under the lock of a content nobody has started, one more call begins. *)
LEMMA CallBegins ==
  ASSUME KeptInv, CallsInv, NEW e \in Emails, LockOcr(e)
  PROVE  CallsInv' /\ (UNCHANGED Ocr!vars \/ \E c \in Contents : Ocr!Start(c))
<1> DEFINE c == Current(e)
           answer == IF Cached(c) THEN ocrCache[c] ELSE "NO_FALLBACK"
           u == [txn[e] EXCEPT !.pc = "called", !.call = CallsMade + 1]
<1>1. /\ txn[e].pc = "ocr" /\ ocrLock[c] = Nobody /\ txn[e] \in Runs(e) /\ txn[e].next \in Places(e)
      /\ c \in Contents /\ version \in Versions
  BY RunningFacts DEF LockOcr, KeptInv, TypeOK
<1>2. ~Calling(e)
  BY <1>1 DEF Calling
<1>3. CASE CachedMeanwhile(c) \/ CallsMade = OcrMaxCalls
  <2>1. txn' = [txn EXCEPT ![e] = Kept(txn[e], Answered(c, answer))] /\ UNCHANGED ocrVars
    BY <1>3 DEF LockOcr
  <2>2. Kept(txn[e], Answered(c, answer)).pc # "called"
    BY <1>1, AnsweredFact, KeptFacts
  <2> QED
    BY <1>2, <2>1, <2>2, QuietRun
<1>4. CASE ~(CachedMeanwhile(c) \/ CallsMade = OcrMaxCalls)
  <2>1. PICK n \in 0..OcrMaxCalls : \A h \in 1..OcrMaxCalls : helpers[h].pc # "unused" <=> h <= n
    BY DEF CallsInv
  <2>2. CallsMade = n
    BY <2>1, CallsMadeFact
  <2>3. /\ txn' = [txn EXCEPT ![e] = u]
        /\ helpers' = [helpers EXCEPT ![n + 1] = [pc |-> "waiting", content |-> c]]
        /\ ocrLock' = [ocrLock EXCEPT ![c] = e] /\ UNCHANGED ocrCache
    BY <1>4, <2>2 DEF LockOcr
  <2>4. ~Cached(c)
    BY <1>4 DEF CachedMeanwhile
  <2>5. n + 1 \in 1..OcrMaxCalls
    BY <1>4, <2>2, Constants
  <2>6. \A h \in 1..OcrMaxCalls :
          helpers'[h] = IF h = n + 1 THEN [pc |-> "waiting", content |-> c] ELSE helpers[h]
    BY <2>3, <2>5, Zenon DEF KeptInv, TypeOK
  <2>7. \A d \in Emails : txn'[d] = IF d = e THEN u ELSE txn[d]
    BY <2>3, Zenon DEF KeptInv, TypeOK
  <2>8. \A d \in Contents : ocrLock'[d] = IF d = c THEN e ELSE ocrLock[d]
    BY <2>3, Zenon DEF KeptInv, TypeOK
  <2>9. u.pc = "called" /\ u.next = txn[e].next
    BY <1>1 DEF Runs
  <2>10. c \notin Started
    BY <1>1, <2>4 DEF CallsInv
  <2>11. \A h \in 1..OcrMaxCalls : helpers'[h].pc # "unused" <=> h <= n + 1
    BY <2>1, <2>6
  <2>12. Started' = Started \cup {c}
    <3>1. KeptInv'
      BY LockKept
    <3>2. \A d : d \in Started' <=>
            \E h \in 1..OcrMaxCalls : helpers'[h].pc # "unused" /\ helpers'[h].content = d
      BY <3>1 DEF Started, KeptInv, TypeOK
    <3>3. \A d : d \in Started <=>
            \E h \in 1..OcrMaxCalls : helpers[h].pc # "unused" /\ helpers[h].content = d
      BY StartedFacts
    <3>4. helpers[n + 1].pc = "unused"
      BY <2>1, <2>5
    <3>5. helpers'[n + 1].pc # "unused" /\ helpers'[n + 1].content = c
      BY <2>5, <2>6
    <3>6. \A h \in 1..OcrMaxCalls : h # n + 1 => helpers'[h] = helpers[h]
      BY <2>6
    <3> QED
      BY <2>5, <3>2, <3>3, <3>4, <3>5, <3>6
  <2>13. \E k \in Contents : Ocr!Start(k)
    <3>1. PICK k \in Contents : k = c
      BY <1>1
    <3>2. Ocr!Start(k)
      BY <2>3, <2>10, <2>12, <3>1 DEF Ocr!Start, Started
    <3> QED
      BY <3>2
  <2>14. /\ Calling(e)' /\ Current(e)' = c
         /\ \A d \in Emails \ {e} : (Calling(d)' <=> Calling(d)) /\ Current(d)' = Current(d)
    BY <2>7, <2>9 DEF Calling, Current
  <2>15. \A d \in Contents : Cached(d)' <=> Cached(d)
    BY <2>3 DEF Cached
  <2>16. \A d \in Emails : Calling(d)' =>
           ocrLock'[Current(d)'] = d /\ Current(d)' \in Started' /\ ~(ocrCache[Current(d)'] # "NONE")
    <3> SUFFICES ASSUME NEW d \in Emails, d # e, Calling(d)
                 PROVE  ocrLock'[Current(d)] = d /\ Current(d) \in Started' /\ ~Cached(Current(d))
      BY <1>1, <2>4, <2>8, <2>12, <2>14 DEF Cached
    <3>1. ocrLock[Current(d)] = d /\ Current(d) \in Started /\ ~Cached(Current(d))
          /\ Current(d) \in Contents
      BY CallingFacts DEF CallsInv
    <3>2. Current(d) # c
      BY <1>1, <3>1, Constants
    <3> QED
      BY <2>8, <2>12, <3>1, <3>2
  <2>17. \A d \in Contents :
           /\ ocrLock'[d] # Nobody => Calling(ocrLock[d])' /\ Current(ocrLock[d])' = d
           /\ Cached(d)' => d \in Started'
           /\ d \in Started' => Cached(d)' \/ ocrLock'[d] # Nobody
    <3> SUFFICES ASSUME NEW d \in Contents
                 PROVE  /\ ocrLock'[d] # Nobody => Calling(ocrLock[d])' /\ Current(ocrLock[d])' = d
                        /\ Cached(d)' => d \in Started'
                        /\ d \in Started' => Cached(d)' \/ ocrLock'[d] # Nobody
      OBVIOUS
    <3>1. Cached(d)' => d \in Started'
      BY <2>12, <2>15 DEF CallsInv
    <3>2. d \in Started' => Cached(d)' \/ ocrLock'[d] # Nobody
      BY <2>8, <2>12, <2>15, Constants DEF CallsInv
    <3>3. ASSUME ocrLock'[d] # Nobody
          PROVE  Calling(ocrLock[d])' /\ Current(ocrLock[d])' = d
      <4>1. CASE d = c
        <5>1. e = ocrLock'[d]
          BY <2>8, <4>1
        <5> QED
          BY <2>14, <4>1, <5>1 DEF Calling, Current
      <4>2. CASE d # c
        <5>1. ocrLock'[d] = ocrLock[d]
          BY <2>8, <4>2
        <5>2. PICK g \in Emails : g = ocrLock[d]
          BY <3>3, <5>1 DEF KeptInv, TypeOK
        <5>3. Calling(g) /\ Current(g) = d
          BY <3>3, <5>1, <5>2 DEF CallsInv
        <5>4. g # e
          BY <1>2, <5>3
        <5>5. Calling(g)' /\ Current(g)' = d
          BY <2>14, <5>3, <5>4
        <5> QED
          BY <5>1, <5>2, <5>5 DEF Calling, Current
      <4> QED
        BY <4>1, <4>2
    <3> QED
      BY <3>1, <3>2, <3>3
  <2>18. CallsInv'
    <3>1. n + 1 \in 0..OcrMaxCalls
      BY <2>5
    <3>2. \A d \in Emails : Calling(d)' =>
            ocrLock'[Current(d)'] = d /\ Current(d)' \in Started' /\ ~Cached(Current(d))'
      BY <2>3, <2>16 DEF Cached
    <3> QED
      BY <2>11, <2>17, <3>1, <3>2 DEF CallsInv
  <2> QED
    BY <1>1, <2>13, <2>18
<1> QED
  BY <1>3, <1>4

(* A call is settled by the one caller it has; its answer is written once. *)
LEMMA CallEnds ==
  ASSUME KeptInv, CallsInv, NEW e \in Emails, Calling(e), NEW answer \in OcrAnswers, Settle(e, answer),
         \A h \in 1..OcrMaxCalls : /\ helpers'[h].content = helpers[h].content
                                   /\ helpers'[h].pc = "unused" <=> helpers[h].pc = "unused",
         DOMAIN helpers' = 1..OcrMaxCalls
  PROVE  CallsInv' /\ \E c \in Contents : Ocr!Write(c, answer)
<1> DEFINE u == Kept(txn[e], Answered(Current(e), answer))
<1>1. PICK c \in Contents : c = Current(e)
  BY CallingFacts
<1>2. /\ ocrLock[c] = e /\ c \in Started /\ ~Cached(c)
  BY <1>1 DEF CallsInv
<1>3. /\ txn' = [txn EXCEPT ![e] = u]
      /\ ocrCache' = [ocrCache EXCEPT ![c] = answer] /\ ocrLock' = [ocrLock EXCEPT ![c] = Nobody]
  BY <1>1 DEF Settle
<1>4. u.pc = "read"
  <2>1. txn[e] \in Runs(e) /\ txn[e].next \in Places(e) /\ version \in Versions
    BY RunningFacts DEF Calling, KeptInv, TypeOK
  <2>2. Answered(Current(e), answer) \in Found
    BY AnsweredFact
  <2> QED
    BY <2>1, <2>2, KeptFacts
<1> HIDE DEF u
<1>5. /\ \A d \in Emails : txn'[d] = IF d = e THEN u ELSE txn[d]
      /\ \A d \in Contents : /\ ocrLock'[d] = IF d = c THEN Nobody ELSE ocrLock[d]
                             /\ ocrCache'[d] = IF d = c THEN answer ELSE ocrCache[d]
  BY <1>3, Zenon DEF KeptInv, TypeOK
<1>6. Started' = Started
  <2>1. \A d : d \in Started <=> \E h \in 1..OcrMaxCalls : helpers[h].pc # "unused" /\ helpers[h].content = d
    BY StartedFacts
  <2>2. \A d : d \in Started' <=>
          \E h \in 1..OcrMaxCalls : helpers'[h].pc # "unused" /\ helpers'[h].content = d
    BY DEF Started
  <2>3. \A d : d \in Started' <=> d \in Started
    BY <2>1, <2>2
  <2> QED
    BY <2>3, Zenon
<1>7. answer # "NONE"
  BY DEF OcrAnswers
<1>8. /\ ~Calling(e)'
      /\ \A d \in Emails \ {e} : (Calling(d)' <=> Calling(d)) /\ Current(d)' = Current(d)
  BY <1>4, <1>5 DEF Calling, Current
<1>9. \A d \in Contents : Cached(d)' <=> d = c \/ Cached(d)
  BY <1>5, <1>7 DEF Cached
<1>10. Ocr!Write(c, answer)
  BY <1>2, <1>3, <1>6 DEF Ocr!Write, Started, Cached
<1>11. \A d \in Emails : Calling(d)' =>
         ocrLock'[Current(d)'] = d /\ Current(d)' \in Started' /\ ~(ocrCache'[Current(d)'] # "NONE")
  <2> SUFFICES ASSUME NEW d \in Emails, d # e, Calling(d)
               PROVE  ocrLock'[Current(d)] = d /\ Current(d) \in Started
                      /\ ~(ocrCache'[Current(d)] # "NONE")
    BY <1>6, <1>8
  <2>1. ocrLock[Current(d)] = d /\ Current(d) \in Started /\ ~Cached(Current(d))
        /\ Current(d) \in Contents
    BY CallingFacts DEF CallsInv
  <2>2. Current(d) # c
    BY <1>2, <2>1
  <2> QED
    BY <1>5, <2>1, <2>2 DEF Cached
<1>12. \A d \in Contents :
         /\ ocrLock'[d] # Nobody => Calling(ocrLock[d])' /\ Current(ocrLock[d])' = d
         /\ Cached(d)' => d \in Started'
         /\ d \in Started' => Cached(d)' \/ ocrLock'[d] # Nobody
  <2> SUFFICES ASSUME NEW d \in Contents
               PROVE  /\ ocrLock'[d] # Nobody => Calling(ocrLock[d])' /\ Current(ocrLock[d])' = d
                      /\ Cached(d)' => d \in Started'
                      /\ d \in Started' => Cached(d)' \/ ocrLock'[d] # Nobody
    OBVIOUS
  <2>1. Cached(d)' => d \in Started'
    BY <1>2, <1>6, <1>9 DEF CallsInv
  <2>2. d \in Started' => Cached(d)' \/ ocrLock'[d] # Nobody
    BY <1>5, <1>6, <1>9 DEF CallsInv
  <2>3. ASSUME ocrLock'[d] # Nobody
        PROVE  Calling(ocrLock[d])' /\ Current(ocrLock[d])' = d
    <3>1. d # c /\ ocrLock'[d] = ocrLock[d]
      BY <1>5, <2>3
    <3>2. PICK g \in Emails : g = ocrLock[d]
      BY <2>3, <3>1 DEF KeptInv, TypeOK
    <3>3. Calling(g) /\ Current(g) = d
      BY <2>3, <3>1, <3>2 DEF CallsInv
    <3>4. g # e
      BY <1>1, <3>1, <3>3
    <3>5. Calling(g)' /\ Current(g)' = d
      BY <1>8, <3>3, <3>4
    <3> QED
      BY <3>1, <3>2, <3>5 DEF Calling, Current
  <2> QED
    BY <2>1, <2>2, <2>3
<1>13. CallsInv'
  <2>1. PICK n \in 0..OcrMaxCalls : \A h \in 1..OcrMaxCalls : helpers[h].pc # "unused" <=> h <= n
    BY DEF CallsInv
  <2>2. \A h \in 1..OcrMaxCalls : helpers'[h].pc # "unused" <=> h <= n
    BY <2>1
  <2>3. \A d \in Emails : Calling(d)' =>
          ocrLock'[Current(d)'] = d /\ Current(d)' \in Started' /\ ~Cached(Current(d))'
    BY <1>11 DEF Cached
  <2> QED
    BY <1>12, <2>2, <2>3 DEF CallsInv
<1> QED
  BY <1>10, <1>13

LEMMA TimesOutCalls ==
  ASSUME KeptInv, CallsInv, NEW e \in Emails, OcrTimesOut(e)
  PROVE  CallsInv' /\ \E c \in Contents, a \in OcrAnswers : Ocr!Write(c, a)
<1>1. Calling(e) /\ Settle(e, "NO_FALLBACK") /\ UNCHANGED helpers /\ "NO_FALLBACK" \in OcrAnswers
  BY DEF OcrTimesOut, Calling, OcrAnswers
<1>2. DOMAIN helpers' = 1..OcrMaxCalls
  BY <1>1 DEF KeptInv, TypeOK
<1>3. CallsInv' /\ \E c \in Contents : Ocr!Write(c, "NO_FALLBACK")
  BY <1>1, <1>2, CallEnds
<1> QED
  BY <1>1, <1>3

(* The engine itself changes which helpers run, never which were started. *)
LEMMA EngineCalls ==
  ASSUME KeptInv, CallsInv, Engine
  PROVE  CallsInv' /\ (UNCHANGED Ocr!vars \/ \E c \in Contents, a \in OcrAnswers : Ocr!Write(c, a))
<1>1. PICK h \in 1..OcrMaxCalls :
        HelperEnters(h) \/ \E answer \in {"TEXT", "FAILED"} : HelperReturns(h, answer)
  BY DEF Engine
<1>2. helpers[h].pc \in {"waiting", "running"}
      /\ \E pc \in {"running", "over"} : helpers' = [helpers EXCEPT ![h].pc = pc]
  BY <1>1 DEF HelperEnters, HelperReturns
<1>3. /\ \A g \in 1..OcrMaxCalls : /\ helpers'[g].content = helpers[g].content
                                   /\ helpers'[g].pc = "unused" <=> helpers[g].pc = "unused"
      /\ DOMAIN helpers' = 1..OcrMaxCalls
  BY <1>2 DEF KeptInv, TypeOK, Helpers
<1>4. ASSUME UNCHANGED <<txn, ocrCache, ocrLock>>
      PROVE  CallsInv' /\ UNCHANGED Ocr!vars
  <2>1. Started' = Started
    <3>1. \A d : d \in Started <=>
            \E g \in 1..OcrMaxCalls : helpers[g].pc # "unused" /\ helpers[g].content = d
      BY StartedFacts
    <3>2. \A d : d \in Started' <=>
            \E g \in 1..OcrMaxCalls : helpers'[g].pc # "unused" /\ helpers'[g].content = d
      BY <1>3 DEF Started
    <3>3. \A d : d \in Started' <=> d \in Started
      BY <1>3, <3>1, <3>2
    <3> QED
      BY <3>3, Zenon
  <2>2. UNCHANGED Ocr!vars
    BY <1>4, <2>1 DEF Ocr!vars, Started
  <2>3. CallsInv'
    <3>1. PICK n \in 0..OcrMaxCalls : \A g \in 1..OcrMaxCalls : helpers[g].pc # "unused" <=> g <= n
      BY DEF CallsInv
    <3>2. \A g \in 1..OcrMaxCalls : helpers'[g].pc # "unused" <=> g <= n
      BY <1>3, <3>1
    <3>3. \A d \in Emails : Calling(d)' =>
            ocrLock'[Current(d)'] = d /\ Current(d)' \in Started' /\ ~Cached(Current(d))'
      BY <1>4, <2>1 DEF CallsInv, Calling, Current, Cached
    <3>4. \A d \in Contents :
            /\ ocrLock'[d] # Nobody => Calling(ocrLock[d])' /\ Current(ocrLock[d])' = d
            /\ Cached(d)' => d \in Started'
            /\ d \in Started' => Cached(d)' \/ ocrLock'[d] # Nobody
      BY <1>4, <2>1 DEF CallsInv, Calling, Current, Cached
    <3> QED
      BY <3>2, <3>3, <3>4 DEF CallsInv
  <2> QED
    BY <2>2, <2>3
<1>5. CASE HelperEnters(h)
  BY <1>4, <1>5 DEF HelperEnters
<1>6. ASSUME NEW answer \in {"TEXT", "FAILED"}, HelperReturns(h, answer)
      PROVE  CallsInv' /\ (UNCHANGED Ocr!vars \/ \E c \in Contents, a \in OcrAnswers : Ocr!Write(c, a))
  <2> DEFINE waits(e) == txn[e].pc = "called" /\ txn[e].call = h
  <2>1. CASE \E e \in Emails : waits(e)
    <3> DEFINE e == CHOOSE d \in Emails : waits(d)
    <3>1. e \in Emails /\ waits(e)
      BY <2>1
    <3>2. Settle(e, answer)
      BY <1>6, <2>1 DEF HelperReturns
    <3> HIDE DEF e
    <3>3. PICK d \in Emails : d = e
      BY <3>1
    <3>4. Calling(d) /\ Settle(d, answer) /\ answer \in OcrAnswers
      BY <3>1, <3>2, <3>3 DEF Calling, OcrAnswers
    <3>5. CallsInv' /\ \E c \in Contents : Ocr!Write(c, answer)
      BY <1>3, <3>4, CallEnds
    <3> QED
      BY <3>4, <3>5
  <2>2. CASE ~ \E e \in Emails : waits(e)
    <3>1. UNCHANGED <<txn, ocrCache, ocrLock>>
      BY <1>6, <2>2 DEF HelperReturns
    <3> QED
      BY <1>4, <3>1
  <2> QED
    BY <2>1, <2>2
<1> QED
  BY <1>1, <1>5, <1>6

LEMMA WorkerCalls ==
  ASSUME KeptInv, CallsInv, NEW e \in Emails, Worker(e)
  PROVE  /\ CallsInv'
         /\ \/ UNCHANGED Ocr!vars
            \/ \E c \in Contents : Ocr!Start(c) \/ \E a \in OcrAnswers : Ocr!Write(c, a)
<1> DEFINE Goal == /\ CallsInv'
                   /\ \/ UNCHANGED Ocr!vars
                      \/ \E c \in Contents : Ocr!Start(c) \/ \E a \in OcrAnswers : Ocr!Write(c, a)
<1>1. ASSUME UNCHANGED ocrVars, NEW t, txn' = [txn EXCEPT ![e] = t], ~Calling(e), t.pc # "called"
      PROVE  Goal
  BY <1>1, QuietRun
<1>2. version \in Versions
  BY DEF KeptInv, TypeOK
<1>3. ASSUME FetchFails(e)
      PROVE  Goal
  <2> DEFINE t == [txn[e] EXCEPT !.next = @ + 1, !.hurt = TRUE,
                     !.technical = FirstOf(txn[e], "ATTACHMENT_READ_FAILED")]
  <2>1. txn[e].pc = "read" /\ txn[e] \in Runs(e)
    BY <1>3, RunningFacts DEF FetchFails, Reading
  <2>2. t.pc # "called" /\ ~Calling(e)
    BY <2>1 DEF Runs, Calling
  <2>3. UNCHANGED ocrVars /\ txn' = [txn EXCEPT ![e] = t]
    BY <1>3 DEF FetchFails
  <2> HIDE DEF t
  <2> QED
    BY <1>1, <2>2, <2>3
<1>4. ASSUME ReadFile(e)
      PROVE  Goal
  <2> DEFINE t == Kept(txn[e], Answered(Current(e), "TEXT"))
  <2>1. txn[e].pc = "read" /\ txn[e] \in Runs(e) /\ txn[e].next \in Places(e)
    BY <1>4, RunningFacts DEF ReadFile, Reading
  <2>2. t.pc = "read"
    BY <1>2, <2>1, AnsweredFact, KeptFacts
  <2>3. UNCHANGED ocrVars /\ txn' = [txn EXCEPT ![e] = t] /\ ~Calling(e)
    BY <1>4, <2>1 DEF ReadFile, Calling
  <2> HIDE DEF t
  <2> QED
    BY <1>1, <2>2, <2>3
<1>5. ASSUME ReaderRaises(e)
      PROVE  Goal
  <2> DEFINE k == Kept(txn[e], Raised(File[Current(e)]))
             t == [k EXCEPT !.hurt = TRUE, !.technical = FirstOf(txn[e], "DOCUMENT_READER_FAILED")]
  <2>1. txn[e].pc = "read" /\ txn[e] \in Runs(e) /\ txn[e].next \in Places(e)
    BY <1>5, RunningFacts DEF ReaderRaises, Reading
  <2>2. k.pc = "read" /\ k \in Runs(e)
    <3>1. Raised(File[Current(e)]) \in Found
      BY ClassifiedFacts
    <3> QED
      BY <1>2, <2>1, <3>1, KeptFacts
  <2>3. UNCHANGED ocrVars /\ txn' = [txn EXCEPT ![e] = t] /\ ~Calling(e)
    BY <1>5, <2>1 DEF ReaderRaises, Calling
  <2> HIDE DEF k
  <2>4. t.pc # "called"
    BY <2>2 DEF Runs
  <2> HIDE DEF t
  <2> QED
    BY <1>1, <2>3, <2>4
<1>6. ASSUME AskOcr(e)
      PROVE  Goal
  <2> DEFINE k == Kept(txn[e], Answered(Current(e), ocrCache[Current(e)]))
             t == [txn[e] EXCEPT !.pc = "ocr"]
  <2>1. txn[e].pc = "read" /\ txn[e] \in Runs(e) /\ txn[e].next \in Places(e)
    BY <1>6, RunningFacts DEF AskOcr, Reading
  <2>2. k.pc = "read" /\ t.pc = "ocr"
    <3>1. k.pc = "read"
      BY <1>2, <2>1, AnsweredFact, KeptFacts
    <3> QED
      BY <2>1, <3>1 DEF Runs
  <2>3. UNCHANGED ocrVars /\ ~Calling(e)
        /\ (txn' = [txn EXCEPT ![e] = k] \/ txn' = [txn EXCEPT ![e] = t])
    BY <1>6, <2>1 DEF AskOcr, Calling
  <2> HIDE DEF k, t
  <2> QED
    BY <1>1, <2>2, <2>3
<1>7. ASSUME LockOcr(e)
      PROVE  Goal
  BY <1>7, CallBegins
<1>8. ASSUME OcrTimesOut(e)
      PROVE  Goal
  BY <1>8, TimesOutCalls
<1>9. ASSUME Decide(e)
      PROVE  Goal
  <2>1. PICK t : txn' = [txn EXCEPT ![e] = t] /\ t.pc \in {"lookup", "commit"}
    BY <1>9, DecidedFacts DEF KeptInv
  <2>2. UNCHANGED ocrVars /\ ~Calling(e)
    BY <1>9 DEF Decide, Calling
  <2> QED
    BY <1>1, <2>1, <2>2
<1>10. ASSUME NEW k \in 1..2, LookUp(e, k) \/ Persist(e, k)
       PROVE  Goal
  <2>1. PICK t : txn' = [txn EXCEPT ![e] = t] /\ t.pc = txn[e].pc
    <3>1. LookUp(e, k) => \E t : txn' = [txn EXCEPT ![e] = t] /\ SameReading(txn[e], t)
      BY LookedUp
    <3>2. Persist(e, k) => \E t : txn' = [txn EXCEPT ![e] = t] /\ SameReading(txn[e], t)
      BY Persisted
    <3> QED
      BY <1>10, <3>1, <3>2 DEF SameReading
  <2>2. UNCHANGED ocrVars /\ txn[e].pc = "lookup"
    BY <1>10 DEF LookUp, Persist
  <2> QED
    BY <1>1, <2>1, <2>2 DEF Calling
<1>11. ASSUME NEW compared \in BOOLEAN, Conclude(e, compared)
       PROVE  Goal
  <2>1. PICK t : txn' = [txn EXCEPT ![e] = t] /\ t.pc = "commit"
    BY <1>11, ConcludedFacts
  <2>2. UNCHANGED ocrVars /\ ~Calling(e)
    BY <1>11 DEF Conclude, Calling
  <2> QED
    BY <1>1, <2>1, <2>2
<1>12. ASSUME Commit(e) \/ RollsBack(e)
      PROVE  Goal
  <2>1. UNCHANGED ocrVars /\ ~Calling(e) /\ txn' = [txn EXCEPT ![e] = Idle]
    BY <1>12 DEF Commit, RollsBack, Calling
  <2>2. Idle.pc # "called"
    BY DEF Idle
  <2> QED
    BY <1>1, <2>1, <2>2
<1> HIDE DEF Goal
<1>13. (LockOcr(e) => Goal) /\ (OcrTimesOut(e) => Goal)
  BY <1>7, <1>8 DEF Goal
<1>14. Goal
  BY <1>3, <1>4, <1>5, <1>6, <1>9, <1>10, <1>11, <1>12, <1>13 DEF Worker
<1> QED
  BY <1>14 DEF Goal

LEMMA NextCalls ==
  ASSUME KeptInv, CallsInv, [Next]_vars
  PROVE  CallsInv' /\ [Ocr!Next]_(Ocr!vars)
<1> DEFINE Goal == CallsInv' /\ [Ocr!Next]_(Ocr!vars)
<1>1. ASSUME NEW e \in Emails, NEW origin \in {"PROVIDER", "STORED"}, Begin(e, origin)
      PROVE  Goal
  <2>1. txn[e] = Idle /\ UNCHANGED ocrVars
    BY <1>1 DEF Begin
  <2> DEFINE t == [pc |-> "read", origin |-> origin, next |-> 1, docs |-> doc[e], read |-> {},
                   legible |-> {}, technical |-> "NONE", call |-> 0, missed |-> {}, pending |-> {},
                   result |-> "NEW", hurt |-> FALSE]
  <2>2. txn' = [txn EXCEPT ![e] = t] /\ t.pc # "called"
    BY <1>1 DEF Begin
  <2> HIDE DEF t
  <2>3. ~Calling(e)
    BY <2>1 DEF Calling, Idle
  <2> QED
    BY <2>1, <2>2, <2>3, QuietRun
<1>2. ASSUME NEW e \in Emails, Worker(e)
      PROVE  Goal
  BY <1>2, WorkerCalls DEF Ocr!Next
<1>3. ASSUME Engine
      PROVE  Goal
  BY <1>3, EngineCalls DEF Ocr!Next
<1>4. ASSUME Age \/ CleanUp \/ UNCHANGED vars
      PROVE  Goal
  <2>1. UNCHANGED <<ocrVars, txn>>
    BY <1>4 DEF Age, CleanUp, vars
  <2> QED
    BY <2>1, QuietCalls
<1>5. ASSUME NEW v \in Versions, Restart(v)
      PROVE  Goal
  <2>1. /\ txn' = [e \in Emails |-> Idle] /\ ocrCache' = [c \in Contents |-> "NONE"]
        /\ ocrLock' = [c \in Contents |-> Nobody] /\ helpers' = NoHelpers
    BY <1>5 DEF Restart
  <2>2. Started' = {}
    BY <2>1 DEF Started, NoHelpers
  <2>3. Ocr!Lose
    BY <2>1, <2>2 DEF Ocr!Lose, Started
  <2>4. CallsInv'
    <3>1. \A h \in 1..OcrMaxCalls : helpers'[h].pc # "unused" <=> h <= 0
      BY <2>1, Constants DEF NoHelpers
    <3>2. \A e \in Emails : ~Calling(e)'
      BY <2>1 DEF Calling, Idle
    <3>3. \A c \in Contents : ocrLock'[c] = Nobody /\ ~Cached(c)'
      BY <2>1 DEF Cached
    <3>4. 0 \in 0..OcrMaxCalls
      BY Constants
    <3> QED
      BY <2>2, <3>1, <3>2, <3>3, <3>4 DEF CallsInv
  <2> QED
    BY <2>3, <2>4 DEF Ocr!Next
<1> HIDE DEF Goal
<1>6. Goal
  BY <1>1, <1>2, <1>3, <1>4, <1>5 DEF Next
<1> QED
  BY <1>6 DEF Goal

LEMMA InitCalls ==
  ASSUME Init
  PROVE  CallsInv /\ Ocr!Init
<1>1. Started = {}
  BY DEF Init, Started, NoHelpers
<1>2. Ocr!Init
  BY <1>1 DEF Ocr!Init, Started, Init
<1>3. CallsInv
  <2>1. \A h \in 1..OcrMaxCalls : helpers[h].pc # "unused" <=> h <= 0
    BY Constants DEF Init, NoHelpers
  <2>2. \A e \in Emails : ~Calling(e)
    BY DEF Init, Calling, Idle
  <2>3. \A c \in Contents : ocrLock[c] = Nobody /\ ~Cached(c)
    BY DEF Init, Cached
  <2>4. 0 \in 0..OcrMaxCalls
    BY Constants
  <2> QED
    BY <1>1, <2>1, <2>2, <2>3, <2>4 DEF CallsInv
<1> QED
  BY <1>2, <1>3

(* OcrReader implements SingleFlight: in the life of a process one call of the    *)
(* engine is started for a content, its answer or time-out is written once, and   *)
(* only a restart loses it, whatever the budget, the slots and the interleaving.  *)
THEOREM ScansReadOnce == Spec => OcrSingleFlight
<1>1. Init => CallsInv /\ Ocr!Init
  BY InitCalls
<1>2. KeptInv /\ CallsInv /\ [Next]_vars => CallsInv' /\ [Ocr!Next]_(Ocr!vars)
  BY NextCalls
<1> QED
  BY <1>1, <1>2, InvariantKept, PTL DEF Spec, OcrSingleFlight, Ocr!Spec
----------------------------------------------------------------------------
(* What a run has read *)

\* What reading the content shows now, without a further call of the engine.
ReadNow(c) == Answered(c, IF NeedsOcr(File[c]) THEN ocrCache[c] ELSE "TEXT")

(* Only a scan asks the engine, and only text gives it a role. *)
LEMMA AnswersAgree ==
  ASSUME NEW c
  PROVE  /\ ~NeedsOcr(File[c]) => \A a, b : Answered(c, a) = Answered(c, b)
         /\ NeedsOcr(File[c]) => \A a : a # "TEXT" => Answered(c, a).role = "UNKNOWN"
<1> DEFINE read(a) == [kind |-> File[c].kind, empty |-> File[c].empty, native |-> File[c].native,
                       markers |-> File[c].markers, ocr |-> a]
<1>1. \A a : /\ read(a).kind = File[c].kind /\ read(a).empty = File[c].empty
             /\ read(a).native = File[c].native /\ read(a).markers = File[c].markers
             /\ read(a).ocr = a /\ Answered(c, a) = Classified(read(a))
  BY DEF Answered
<1> HIDE DEF read
<1>2. \A a : NeedsOcr(read(a)) <=> NeedsOcr(File[c])
  BY <1>1 DEF NeedsOcr
<1>3. ASSUME ~NeedsOcr(File[c]), NEW a, NEW b
      PROVE  Answered(c, a) = Answered(c, b)
  <2>1. ReadStatus(read(a)) = ReadStatus(read(b))
    BY <1>1, <1>2, <1>3 DEF ReadStatus
  <2> QED
    BY <1>1, <2>1 DEF Classified
<1>4. ASSUME NeedsOcr(File[c]), NEW a, a # "TEXT"
      PROVE  Answered(c, a).role = "UNKNOWN"
  <2>1. read(a).kind # "UNKNOWN" /\ (read(a).empty \/ ReadStatus(read(a)) = "UNREADABLE")
    BY <1>1, <1>2, <1>4 DEF ReadStatus, OcrStatus, NeedsOcr
  <2>2. Classified(read(a)).role = "UNKNOWN"
    BY <2>1 DEF Classified, Unvalidated
  <2> QED
    BY <1>1, <2>2
<1> QED
  BY <1>3, <1>4

\* What was found in c is what the process can find in it after the step.
Shown(c, found) ==
  /\ found.role # "UNKNOWN" => ReadNow(c)'.role # "UNKNOWN"
  /\ ReadNow(c).role # "UNKNOWN" => found.role # "UNKNOWN"

(* A step of reading: no attachment is done with, or one has been read, or its *)
(* reader raised.                                                             *)
Reads(e, t) ==
  /\ t.pc \in {"read", "ocr", "called"} /\ t.pending = txn[e].pending /\ t.missed = txn[e].missed
  /\ t.hurt \/ (t.technical = txn[e].technical /\ t.hurt = txn[e].hurt)
  /\ t.pc # "called" => t.call = 0 \/ (txn[e].pc = "read" /\ t.call = txn[e].call)
  /\ \/ /\ t.docs = txn[e].docs /\ t.read = txn[e].read /\ t.legible = txn[e].legible
        /\ t.technical = txn[e].technical \/ t.technical # "NONE"
     \/ \E found \in Found :
          /\ t.read = txn[e].read \cup {txn[e].next} /\ txn[e].next \in Places(e)
          /\ t.legible = IF found.role = "UNKNOWN" THEN txn[e].legible
                         ELSE txn[e].legible \cup {txn[e].next}
          /\ \A i \in Places(e) : t.docs[i] =
               IF i = txn[e].next /\ txn[e].docs[i] = NoDocument THEN Created(found) ELSE txn[e].docs[i]
          /\ \/ found.role = "UNKNOWN" /\ t.technical # "NONE"
             \/ /\ t.technical = txn[e].technical
                /\ \E c \in Contents : c = Current(e) /\ Shown(c, found)

LEMMA KeptReads ==
  ASSUME KeptInv, NEW e \in Emails, txn[e].pc \in {"read", "ocr", "called"}, txn[e].next \in Places(e),
         NEW found \in Found
  PROVE  /\ \A c \in Contents : c = Current(e) /\ Shown(c, found) => Reads(e, Kept(txn[e], found))
         /\ found.role = "UNKNOWN" => \A why \in {"ATTACHMENT_READ_FAILED", "DOCUMENT_READER_FAILED"} :
              Reads(e, [Kept(txn[e], found) EXCEPT !.hurt = TRUE, !.technical = FirstOf(txn[e], why)])
<1> DEFINE k == Kept(txn[e], found)
<1>1. txn[e] \in Runs(e) /\ version \in Versions
  BY RunningFacts DEF KeptInv, TypeOK
<1>2. /\ k \in Runs(e) /\ k.pc = "read" /\ k.read = txn[e].read \cup {txn[e].next}
      /\ k.legible = IF found.role = "UNKNOWN" THEN txn[e].legible ELSE txn[e].legible \cup {txn[e].next}
      /\ k.technical = txn[e].technical /\ k.pending = txn[e].pending /\ k.missed = txn[e].missed
      /\ k.hurt = txn[e].hurt /\ k.call = 0
      /\ \A i \in Places(e) : k.docs[i] =
           IF i = txn[e].next /\ txn[e].docs[i] = NoDocument THEN Created(found) ELSE txn[e].docs[i]
  <2> DEFINE t == txn[e]
  <2>1. t \in Runs(e) /\ t.next \in Places(e) /\ k = Kept(t, found)
    BY <1>1
  <2> HIDE DEF t
  <2>2. /\ Kept(t, found) \in Runs(e) /\ Kept(t, found).pc = "read"
        /\ Kept(t, found).read = t.read \cup {t.next} /\ Kept(t, found).technical = t.technical
        /\ Kept(t, found).pending = t.pending /\ Kept(t, found).missed = t.missed
        /\ Kept(t, found).hurt = t.hurt /\ Kept(t, found).call = 0
    BY <1>1, <2>1, KeptFacts
  <2>3. Kept(t, found).legible = IF found.role = "UNKNOWN" THEN t.legible ELSE t.legible \cup {t.next}
    BY <1>1, <2>1, KeptFacts
  <2>4. \A i \in Places(e) : Kept(t, found).docs[i] =
          IF i = t.next /\ t.docs[i] = NoDocument THEN Created(found) ELSE t.docs[i]
    BY <1>1, <2>1, KeptFacts
  <2> QED
    BY <2>1, <2>2, <2>3, <2>4 DEF t
<1> HIDE DEF k
<1>3. \A c \in Contents : c = Current(e) /\ Shown(c, found) => Reads(e, k)
  BY <1>2 DEF Reads
<1>4. ASSUME found.role = "UNKNOWN", NEW why \in {"ATTACHMENT_READ_FAILED", "DOCUMENT_READER_FAILED"}
      PROVE  Reads(e, [k EXCEPT !.hurt = TRUE, !.technical = FirstOf(txn[e], why)])
  <2> DEFINE t == [k EXCEPT !.hurt = TRUE, !.technical = FirstOf(txn[e], why)]
  <2>1. /\ t.pc = k.pc /\ t.read = k.read /\ t.legible = k.legible /\ t.docs = k.docs
        /\ t.pending = k.pending /\ t.missed = k.missed /\ t.technical = FirstOf(txn[e], why)
        /\ t.hurt = TRUE /\ t.call = k.call
    BY <1>2 DEF Runs
  <2>2. FirstOf(txn[e], why) # "NONE"
    BY DEF FirstOf
  <2> HIDE DEF t
  <2> QED
    BY <1>2, <1>4, <2>1, <2>2 DEF Reads
<1> QED
  BY <1>3, <1>4 DEF k

(* Reading leaves the cache alone, or finds its answer there, or writes one. *)
LEMMA UncachedShown ==
  ASSUME NEW c \in Contents, ocrCache'[c] = ocrCache[c], NEW answer,
         answer = ocrCache[c] \/ (~Cached(c) /\ answer = "NO_FALLBACK") \/ ~NeedsOcr(File[c])
  PROVE  Shown(c, Answered(c, answer))
<1>1. CASE ~NeedsOcr(File[c])
  <2>1. Answered(c, answer) = Answered(c, "TEXT")
    BY <1>1, AnswersAgree
  <2> QED
    BY <1>1, <2>1 DEF Shown, ReadNow
<1>2. CASE NeedsOcr(File[c]) /\ answer = ocrCache[c]
  BY <1>2 DEF Shown, ReadNow
<1>3. CASE NeedsOcr(File[c]) /\ ~Cached(c) /\ answer = "NO_FALLBACK"
  <2>1. ReadNow(c).role = "UNKNOWN" /\ Answered(c, answer).role = "UNKNOWN"
    BY <1>3, AnswersAgree DEF ReadNow, Cached
  <2> QED
    BY <2>1 DEF Shown
<1> QED
  BY <1>1, <1>2, <1>3

LEMMA SettledReads ==
  ASSUME KeptInv, CallsInv, NEW e \in Emails, Calling(e), NEW answer \in OcrAnswers, Settle(e, answer)
  PROVE  /\ txn' = [txn EXCEPT ![e] = Kept(txn[e], Answered(Current(e), answer))]
         /\ Reads(e, Kept(txn[e], Answered(Current(e), answer)))
         /\ \A c \in Contents : Cached(c) => ocrCache'[c] = ocrCache[c]
<1>1. PICK c \in Contents : c = Current(e)
  BY CallingFacts
<1>2. ~Cached(c)
  BY <1>1 DEF CallsInv
<1>3. txn[e].pc = "called" /\ txn[e].next \in Places(e) /\ Answered(Current(e), answer) \in Found
  BY RunningFacts, AnsweredFact DEF Calling
<1>4. \A d \in Contents : ocrCache'[d] = IF d = c THEN answer ELSE ocrCache[d]
  BY <1>1, Zenon DEF Settle, KeptInv, TypeOK
<1>5. Shown(c, Answered(c, answer))
  <2>1. CASE NeedsOcr(File[c])
    <3>1. ReadNow(c).role = "UNKNOWN"
      BY <1>2, <2>1, AnswersAgree DEF ReadNow, Cached
    <3>2. ReadNow(c)' = Answered(c, answer)
      BY <1>4, <2>1 DEF ReadNow
    <3> QED
      BY <3>1, <3>2 DEF Shown
  <2>2. CASE ~NeedsOcr(File[c])
    <3>1. Answered(c, answer) = Answered(c, "TEXT")
      BY <2>2, AnswersAgree
    <3> QED
      BY <2>2, <3>1 DEF Shown, ReadNow
  <2> QED
    BY <2>1, <2>2
<1>6. Reads(e, Kept(txn[e], Answered(Current(e), answer)))
  BY <1>1, <1>3, <1>5, KeptReads
<1>7. \A d \in Contents : Cached(d) => ocrCache'[d] = ocrCache[d]
  BY <1>2, <1>4
<1> QED
  BY <1>6, <1>7 DEF Settle

ReadingStep(e) ==
  \/ FetchFails(e) \/ ReadFile(e) \/ ReaderRaises(e)
  \/ AskOcr(e) \/ LockOcr(e) \/ OcrTimesOut(e)

LEMMA ReadingFacts ==
  ASSUME KeptInv, CallsInv, NEW e \in Emails, ReadingStep(e)
  PROVE  /\ \E t : txn' = [txn EXCEPT ![e] = t] /\ Reads(e, t) /\ GoodRun(e, txn[e])
         /\ txn[e].pc \in {"read", "ocr", "called"}
         /\ \A c \in Contents : Cached(c) => ocrCache'[c] = ocrCache[c]
<1> DEFINE Goal == /\ \E t : txn' = [txn EXCEPT ![e] = t] /\ Reads(e, t) /\ GoodRun(e, txn[e])
                   /\ txn[e].pc \in {"read", "ocr", "called"}
                   /\ \A c \in Contents : Cached(c) => ocrCache'[c] = ocrCache[c]
           now == txn[e].pc \in {"read", "ocr", "called"}
<1>1. now => /\ GoodRun(e, txn[e]) /\ txn[e] \in Runs(e)
             /\ txn[e].next \in Places(e) => Current(e) \in Contents
             /\ txn[e].pc \in {"ocr", "called"} => txn[e].next \in Places(e)
  BY RunningFacts
<1>2. ASSUME NEW t, txn' = [txn EXCEPT ![e] = t], Reads(e, t), now, UNCHANGED ocrCache
      PROVE  Goal
  BY <1>1, <1>2
<1>3. ASSUME FetchFails(e)
      PROVE  Goal
  <2> DEFINE t == [txn[e] EXCEPT !.next = @ + 1, !.hurt = TRUE,
                     !.technical = FirstOf(txn[e], "ATTACHMENT_READ_FAILED")]
  <2>1. txn[e].pc = "read" /\ txn[e] \in Runs(e)
    BY <1>1, <1>3 DEF FetchFails, Reading
  <2>2. /\ t.pc = "read" /\ t.pending = txn[e].pending /\ t.missed = txn[e].missed
        /\ t.docs = txn[e].docs /\ t.read = txn[e].read /\ t.legible = txn[e].legible
        /\ t.technical = FirstOf(txn[e], "ATTACHMENT_READ_FAILED")
        /\ t.hurt = TRUE /\ t.call = txn[e].call
    BY <2>1 DEF Runs
  <2>3. t.technical # "NONE"
    BY <2>2 DEF FirstOf
  <2>4. UNCHANGED ocrCache /\ txn' = [txn EXCEPT ![e] = t]
    BY <1>3 DEF FetchFails, ocrVars
  <2> HIDE DEF t
  <2>5. Reads(e, t)
    BY <2>1, <2>2, <2>3 DEF Reads
  <2> QED
    BY <1>2, <2>1, <2>4, <2>5
<1>4. ASSUME ReadFile(e)
      PROVE  Goal
  <2>1. txn[e].pc = "read" /\ txn[e].next \in Places(e) /\ ~NeedsOcr(File[Current(e)]) /\ UNCHANGED ocrCache
        /\ txn' = [txn EXCEPT ![e] = Kept(txn[e], Answered(Current(e), "TEXT"))]
    BY <1>4 DEF ReadFile, Reading, ocrVars
  <2>2. PICK c \in Contents : c = Current(e)
    BY <1>1, <2>1
  <2>3. Shown(c, Answered(c, "TEXT")) /\ Answered(c, "TEXT") \in Found
    BY <2>1, <2>2, UncachedShown, AnsweredFact
  <2>4. Reads(e, Kept(txn[e], Answered(Current(e), "TEXT")))
    BY <2>1, <2>2, <2>3, KeptReads
  <2> QED
    BY <1>2, <2>1, <2>4
<1>5. ASSUME ReaderRaises(e)
      PROVE  Goal
  <2> DEFINE found == Raised(File[Current(e)])
  <2>1. txn[e].pc = "read" /\ txn[e].next \in Places(e) /\ UNCHANGED ocrCache
        /\ txn' = [txn EXCEPT ![e] = [Kept(txn[e], found) EXCEPT !.hurt = TRUE,
                     !.technical = FirstOf(txn[e], "DOCUMENT_READER_FAILED")]]
    BY <1>5 DEF ReaderRaises, Reading, ocrVars
  <2>2. found \in Found /\ found.role = "UNKNOWN"
    BY ClassifiedFacts DEF Raised, Unvalidated
  <2> HIDE DEF found
  <2>3. Reads(e, [Kept(txn[e], found) EXCEPT !.hurt = TRUE,
                    !.technical = FirstOf(txn[e], "DOCUMENT_READER_FAILED")])
    BY <2>1, <2>2, KeptReads
  <2> QED
    BY <1>2, <2>1, <2>3
<1>6. ASSUME AskOcr(e)
      PROVE  Goal
  <2>1. txn[e].pc = "read" /\ txn[e].next \in Places(e) /\ UNCHANGED ocrCache
    BY <1>6 DEF AskOcr, Reading, ocrVars
  <2>2. PICK c \in Contents : c = Current(e)
    BY <1>1, <2>1
  <2>3. CASE Cached(c)
    <3>1. Shown(c, Answered(c, ocrCache[c])) /\ Answered(c, ocrCache[c]) \in Found
      BY <2>1, <2>2, UncachedShown, AnsweredFact
    <3>2. Reads(e, Kept(txn[e], Answered(c, ocrCache[c])))
      BY <2>1, <2>2, <3>1, KeptReads
    <3>3. txn' = [txn EXCEPT ![e] = Kept(txn[e], Answered(c, ocrCache[c]))]
      BY <1>6, <2>2, <2>3 DEF AskOcr
    <3> QED
      BY <1>2, <2>1, <3>2, <3>3
  <2>4. CASE ~Cached(c)
    <3> DEFINE t == [txn[e] EXCEPT !.pc = "ocr"]
    <3>1. /\ t.pc = "ocr" /\ t.pending = txn[e].pending /\ t.missed = txn[e].missed
          /\ t.docs = txn[e].docs /\ t.read = txn[e].read /\ t.legible = txn[e].legible
          /\ t.technical = txn[e].technical /\ t.hurt = txn[e].hurt /\ t.call = txn[e].call
      BY <1>1, <2>1 DEF Runs
    <3>2. txn' = [txn EXCEPT ![e] = t]
      BY <1>6, <2>2, <2>4 DEF AskOcr
    <3> HIDE DEF t
    <3>3. Reads(e, t)
      BY <2>1, <3>1 DEF Reads
    <3> QED
      BY <1>2, <2>1, <3>2, <3>3
  <2> QED
    BY <2>3, <2>4
<1>7. ASSUME LockOcr(e)
      PROVE  Goal
  <2>1. txn[e].pc = "ocr" /\ txn[e].next \in Places(e) /\ UNCHANGED ocrCache
    BY <1>1, <1>7 DEF LockOcr, ocrVars
  <2>2. PICK c \in Contents : c = Current(e)
    BY <1>1, <2>1
  <2> DEFINE answer == IF Cached(c) THEN ocrCache[c] ELSE "NO_FALLBACK"
             n      == CallsMade + 1
             t      == [txn[e] EXCEPT !.pc = "called", !.call = n]
  <2>3. \/ txn' = [txn EXCEPT ![e] = Kept(txn[e], Answered(c, answer))]
        \/ txn' = [txn EXCEPT ![e] = t]
    BY <1>7, <2>2 DEF LockOcr
  <2>4. Reads(e, Kept(txn[e], Answered(c, answer)))
    <3>1. Shown(c, Answered(c, answer)) /\ Answered(c, answer) \in Found
      BY <2>1, <2>2, UncachedShown, AnsweredFact
    <3> QED
      BY <2>1, <2>2, <3>1, KeptReads
  <2> HIDE DEF n
  <2>5. /\ t.pc = "called" /\ t.pending = txn[e].pending /\ t.missed = txn[e].missed
        /\ t.docs = txn[e].docs /\ t.read = txn[e].read /\ t.legible = txn[e].legible
        /\ t.technical = txn[e].technical /\ t.hurt = txn[e].hurt
    BY <1>1, <2>1 DEF Runs
  <2> HIDE DEF t, answer
  <2>6. Reads(e, t)
    BY <2>5 DEF Reads
  <2> QED
    BY <1>2, <2>1, <2>3, <2>4, <2>6
<1>8. ASSUME OcrTimesOut(e)
      PROVE  Goal
  <2>1. Calling(e) /\ Settle(e, "NO_FALLBACK") /\ "NO_FALLBACK" \in OcrAnswers
    BY <1>8 DEF OcrTimesOut, Calling, OcrAnswers
  <2> DEFINE t == Kept(txn[e], Answered(Current(e), "NO_FALLBACK"))
  <2>2. /\ txn' = [txn EXCEPT ![e] = t] /\ Reads(e, t)
        /\ \A c \in Contents : Cached(c) => ocrCache'[c] = ocrCache[c]
    BY <2>1, SettledReads
  <2> HIDE DEF t
  <2> QED
    BY <1>1, <2>1, <2>2 DEF Calling
<1> HIDE DEF Goal
<1>9. Goal
  BY <1>3, <1>4, <1>5, <1>6, <1>7, <1>8 DEF ReadingStep
<1> QED
  BY <1>9 DEF Goal

LEMMA EngineFacts ==
  ASSUME KeptInv, CallsInv, Engine
  PROVE  /\ UNCHANGED <<doc, entry, version>>
         /\ \A c \in Contents : Cached(c) => ocrCache'[c] = ocrCache[c]
         /\ \/ UNCHANGED <<txn, ocrCache>>
            \/ \E e \in Emails : \E t : /\ txn' = [txn EXCEPT ![e] = t] /\ Reads(e, t)
                                        /\ GoodRun(e, txn[e]) /\ txn[e].pc = "called"
<1> DEFINE Goal == /\ UNCHANGED <<doc, entry, version>>
                   /\ \A c \in Contents : Cached(c) => ocrCache'[c] = ocrCache[c]
                   /\ \/ UNCHANGED <<txn, ocrCache>>
                      \/ \E e \in Emails : \E t :
                           /\ txn' = [txn EXCEPT ![e] = t] /\ Reads(e, t)
                           /\ GoodRun(e, txn[e]) /\ txn[e].pc = "called"
<1>1. PICK h \in 1..OcrMaxCalls :
        HelperEnters(h) \/ \E answer \in {"TEXT", "FAILED"} : HelperReturns(h, answer)
  BY DEF Engine
<1>2. ASSUME HelperEnters(h)
      PROVE  Goal
  BY <1>2 DEF HelperEnters, storedVars
<1>3. ASSUME NEW answer \in {"TEXT", "FAILED"}, HelperReturns(h, answer)
      PROVE  Goal
  <2> DEFINE waits(e) == txn[e].pc = "called" /\ txn[e].call = h
  <2>1. UNCHANGED <<doc, entry, version>>
    BY <1>3 DEF HelperReturns, storedVars
  <2>2. ASSUME \E e \in Emails : waits(e)
        PROVE  Goal
    <3> DEFINE e == CHOOSE d \in Emails : waits(d)
    <3>1. e \in Emails /\ waits(e)
      BY <2>2
    <3>2. Settle(e, answer)
      BY <1>3, <2>2 DEF HelperReturns
    <3> HIDE DEF e
    <3>3. PICK d \in Emails : d = e
      BY <3>1
    <3> DEFINE t == Kept(txn[d], Answered(Current(d), answer))
    <3>4. Calling(d) /\ Settle(d, answer) /\ answer \in OcrAnswers
      BY <3>1, <3>2, <3>3 DEF Calling, OcrAnswers
    <3>5. /\ txn' = [txn EXCEPT ![d] = t] /\ Reads(d, t)
          /\ \A c \in Contents : Cached(c) => ocrCache'[c] = ocrCache[c]
      BY <3>4, SettledReads
    <3>6. GoodRun(d, txn[d]) /\ txn[d].pc = "called"
      BY <3>4, RunningFacts DEF Calling
    <3> HIDE DEF t
    <3> QED
      BY <2>1, <3>5, <3>6
  <2>3. ASSUME ~ \E e \in Emails : waits(e)
        PROVE  Goal
    <3>1. UNCHANGED <<txn, ocrCache>>
      BY <1>3, <2>3 DEF HelperReturns
    <3> QED
      BY <2>1, <3>1
  <2> QED
    BY <2>2, <2>3
<1> HIDE DEF Goal
<1>4. Goal
  BY <1>1, <1>2, <1>3
<1> QED
  BY <1>4 DEF Goal
----------------------------------------------------------------------------
(* The fields of the documents *)

(* What is EXTRACTED is the row's own, or one of the blanks where they are let be. *)
Right(blanks, x, row) ==
  row.status = "EXTRACTED" => row.fields \in {KeyOf(x)} \cup blanks /\ row.version = version

\* The extraction a key may point to, in the eyes of the run t of e.
Extraction(e, t, x) ==
  \/ HasDocument(x) /\ Stored(x).status = "EXTRACTED"
  \/ x[1] = e /\ t.docs[x[2]] # NoDocument /\ t.docs[x[2]].status = "EXTRACTED"

(* What a run extracts is right, and a row that is EXTRACTED is never put down   *)
(* for extraction again; the keys it inserts point to EXTRACTED rows.            *)
SoundRun(blanks, e, t) ==
  /\ \A i \in Places(e) : t.docs[i] # NoDocument => Right(blanks, <<e, i>>, t.docs[i])
  /\ \A i \in Places(e) : (doc[e][i] # NoDocument /\ doc[e][i].status = "EXTRACTED") =>
       t.docs[i].status = "EXTRACTED"
  /\ t.pc # "lookup" => t.missed = {}
  /\ \A k \in t.missed : k <= t.call
  /\ \A p \in t.pending : p[1] = KeyOf(p[2]) /\ Extraction(e, t, p[2])

MissedInv == \A e \in Emails, k \in 1..2 :
  txn[e].pc = "lookup" /\ k \in txn[e].missed => Row(Targets(e)[k]).status # "EXTRACTED"

FieldsInv(blanks) ==
  /\ \A x \in Extractions : HasDocument(x) => Right(blanks, x, Stored(x))
  /\ \A k \in Keys : entry[k] # NoEntry => k = KeyOf(entry[k]) /\ Stored(entry[k]).status = "EXTRACTED"
  /\ \A e \in Emails : txn[e] = Idle \/ SoundRun(blanks, e, txn[e])
  /\ MissedInv

\* Other rows, with the documents they had and what was extracted from them.
SameFields(row, new) ==
  /\ row # NoDocument /\ new # NoDocument
  /\ new.status = row.status /\ new.fields = row.fields /\ new.version = row.version

LEMMA SoundDocs ==
  ASSUME NEW blanks \in SUBSET {Blank},
         NEW e \in Emails, NEW t, GoodRun(e, t), SoundRun(blanks, e, t),
         NEW u, u.pending = t.pending, u.missed = {},
         \A i \in Places(e) : \/ u.docs[i] = t.docs[i]
                              \/ SameFields(t.docs[i], u.docs[i])
                              \/ t.docs[i] = NoDocument /\ u.docs[i].status # "EXTRACTED"
  PROVE  SoundRun(blanks, e, u)
<1>1. \A i \in Places(e) : u.docs[i] # NoDocument => Right(blanks, <<e, i>>, u.docs[i])
  BY DEF SoundRun, SameFields, Right
<1>2. \A i \in Places(e) : (doc[e][i] # NoDocument /\ doc[e][i].status = "EXTRACTED") =>
        u.docs[i].status = "EXTRACTED"
  BY DEF SoundRun, GoodRun, SameFields
<1>3. ASSUME NEW p \in u.pending
      PROVE  p[1] = KeyOf(p[2]) /\ Extraction(e, u, p[2])
  <2>1. p[1] = KeyOf(p[2]) /\ Extraction(e, t, p[2])
    BY DEF SoundRun
  <2>2. p[2] \in Extractions
    BY DEF GoodRun, Runs
  <2>3. p[2][1] = e => p[2][2] \in Places(e)
    BY <2>2, ExtractionFacts
  <2>4. Extraction(e, u, p[2])
    BY <2>1, <2>3 DEF Extraction, SameFields
  <2> QED
    BY <2>1, <2>4
<1> QED
  BY <1>1, <1>2, <1>3 DEF SoundRun

LEMMA SoundReads ==
  ASSUME NEW blanks \in SUBSET {Blank},
         KeptInv, NEW e \in Emails, GoodRun(e, txn[e]), SoundRun(blanks, e, txn[e]),
         txn[e].pc \in {"read", "ocr", "called"}, NEW t, Reads(e, t)
  PROVE  SoundRun(blanks, e, t)
<1>1. t.pending = txn[e].pending /\ t.missed = {}
  BY DEF Reads, SoundRun
<1>2. \A found \in Found : Created(found).status # "EXTRACTED"
  BY CreatedFacts DEF KeptInv, TypeOK
<1>3. \A i \in Places(e) : \/ t.docs[i] = txn[e].docs[i]
                           \/ txn[e].docs[i] = NoDocument /\ t.docs[i].status # "EXTRACTED"
  BY <1>2 DEF Reads
<1> QED
  BY <1>1, <1>3, SoundDocs

LEMMA TargetsKept ==
  ASSUME NEW e \in Emails, NEW k \in 1..2, txn'[e].read = txn[e].read,
         \A i \in txn[e].read : txn'[e].docs[i].role = txn[e].docs[i].role
  PROVE  Targets(e)'[k] = Targets(e)[k]
<1>1. \A role : Target(e, role)' = Target(e, role)
  BY Zenon DEF Target
<1> QED
  BY <1>1 DEF Targets

(* A step of one run, which leaves what is stored alone. *)
LEMMA SoundStep ==
  ASSUME NEW blanks \in SUBSET {Blank},
         KeptInv, FieldsInv(blanks), NEW e \in Emails, NEW t, txn' = [txn EXCEPT ![e] = t],
         t = Idle \/ SoundRun(blanks, e, t), UNCHANGED <<doc, entry, version>>,
         \A k \in 1..2 : t.pc = "lookup" /\ k \in t.missed =>
           /\ txn[e].pc = "lookup" /\ t.read = txn[e].read
           /\ \A i \in t.read : t.docs[i].role = txn[e].docs[i].role
           /\ t.docs[Targets(e)[k][2]].status # "EXTRACTED"
  PROVE  FieldsInv(blanks)'
<1>1. \A d \in Emails : txn'[d] = IF d = e THEN t ELSE txn[d]
  BY Zenon DEF KeptInv, TypeOK
<1>2. \A x \in Extractions : HasDocument(x)' => Right(blanks, x, Stored(x))'
  BY DEF FieldsInv, HasDocument, Stored, Right, KeyOf
<1>3. \A k \in Keys : entry'[k] # NoEntry => k = KeyOf(entry[k])' /\ Stored(entry[k])'.status = "EXTRACTED"
  BY DEF FieldsInv, Stored, KeyOf
<1>4. ASSUME NEW d \in Emails
      PROVE  txn'[d] = Idle \/ SoundRun(blanks, d, txn[d])'
  <2>1. txn'[d] = Idle \/ SoundRun(blanks, d, txn'[d])
    BY <1>1 DEF FieldsInv
  <2>2. SoundRun(blanks, d, txn'[d]) => SoundRun(blanks, d, txn[d])'
    BY DEF SoundRun, Right, Extraction, HasDocument, Stored, KeyOf
  <2> QED
    BY <2>1, <2>2
<1>5. ASSUME NEW d \in Emails, NEW k \in 1..2, txn'[d].pc = "lookup", k \in txn'[d].missed
      PROVE  Row(Targets(d)[k])'.status # "EXTRACTED"
  <2>1. /\ txn[d].pc = "lookup" /\ txn'[d].read = txn[d].read
        /\ \A i \in txn[d].read : txn'[d].docs[i].role = txn[d].docs[i].role
        /\ txn'[d].docs[Targets(d)[k][2]].status # "EXTRACTED"
    <3>1. CASE d = e
      BY <1>1, <1>5, <3>1
    <3>2. CASE d # e
      <4>1. txn'[d] = txn[d] /\ txn[d].pc = "lookup" /\ k \in txn[d].missed
        BY <1>1, <1>5, <3>2
      <4>2. Row(Targets(d)[k]).status # "EXTRACTED"
        BY <4>1 DEF FieldsInv, MissedInv
      <4>3. PICK i \in txn[d].read : Targets(d)[k] = <<d, i>> /\ Row(Targets(d)[k]) = txn[d].docs[i]
        BY <4>1, TargetFacts DEF KeptInv
      <4> QED
        BY <4>1, <4>2, <4>3
    <3> QED
      BY <3>1, <3>2
  <2>2. PICK i \in txn[d].read : Targets(d)[k] = <<d, i>>
    BY <2>1, TargetFacts DEF KeptInv
  <2>3. Targets(d)'[k] = <<d, i>>
    BY <2>1, <2>2, TargetsKept
  <2>4. Row(Targets(d)[k])' = txn'[d].docs[i]
    BY <2>3 DEF Row
  <2> QED
    BY <2>1, <2>2, <2>4
<1> QED
  BY <1>2, <1>3, <1>4, <1>5 DEF FieldsInv, MissedInv

(* A copy is taken from the row of a key that is that row's own. *)
LEMMA CopiedFields ==
  ASSUME NEW blanks \in SUBSET {Blank},
         KeptInv, FieldsInv(blanks), NEW x \in Extractions, NEW y, CopiesFrom(x, y)
  PROVE  /\ KeyOf(y) = KeyOf(x) /\ Stored(y).status = "EXTRACTED"
         /\ Stored(y).fields \in {KeyOf(x)} \cup blanks
<1>1. y \in Extractions /\ HasDocument(y) /\ KeyOf(x) \in Keys
  BY KeyFacts DEF CopiesFrom, KeptInv
<1>2. KeyOf(y) = KeyOf(x) /\ Stored(y).status = "EXTRACTED"
  <2>1. CASE y = entry[KeyOf(x)]
    <3>1. entry[KeyOf(x)] # NoEntry
      BY <1>1, <2>1, Constants
    <3> QED
      BY <1>1, <2>1, <3>1 DEF FieldsInv
  <2>2. CASE Complete(Stored(y)) /\ ContentOf(y) = ContentOf(x) /\ Stored(y).version = version
    BY <2>2 DEF Complete, KeyOf
  <2> QED
    BY <2>1, <2>2 DEF CopiesFrom
<1> QED
  BY <1>1, <1>2 DEF FieldsInv, Right

\* The text of a document whose fields are extracted was read in the same run.
TextAtHand == \A e \in Emails : txn[e].pc = "lookup" => \A k \in 1..2 : Targets(e)[k][2] \in txn[e].legible

LEMMA RewrittenRow ==
  ASSUME NEW blanks \in SUBSET {Blank},
         KeptInv, FieldsInv(blanks), blanks = {Blank} \/ TextAtHand, NEW e \in Emails, txn[e].pc = "lookup", NEW k \in 1..2,
         NEW t, Rewritten(e, Targets(e)[k], t)
  PROVE  LET x == Targets(e)[k]
         IN  \E i \in txn[e].read, row \in DocumentRows :
               /\ x = <<e, i>> /\ Row(x) = txn[e].docs[i] /\ Replaced(e, i, row, t)
               /\ row.role = Row(x).role /\ txn[e].docs[i].role = RoleAt(k)
               /\ row.status = "EXTRACTED" => row.fields \in {KeyOf(x)} \cup blanks /\ row.version = version
               /\ \A p \in t.pending :
                    \/ p \in txn[e].pending
                    \/ /\ p[1] = KeyOf(x) /\ row.status = "EXTRACTED"
                       /\ p[2] = x \/ (HasDocument(p[2]) /\ KeyOf(p[2]) = KeyOf(x)
                                       /\ Stored(p[2]).status = "EXTRACTED")
<1> DEFINE x == Targets(e)[k]
           Goal == \E i \in txn[e].read, row \in DocumentRows :
               /\ x = <<e, i>> /\ Row(x) = txn[e].docs[i] /\ Replaced(e, i, row, t)
               /\ row.role = Row(x).role /\ txn[e].docs[i].role = RoleAt(k)
               /\ row.status = "EXTRACTED" => row.fields \in {KeyOf(x)} \cup blanks /\ row.version = version
               /\ \A p \in t.pending :
                    \/ p \in txn[e].pending
                    \/ /\ p[1] = KeyOf(x) /\ row.status = "EXTRACTED"
                       /\ p[2] = x \/ (HasDocument(p[2]) /\ KeyOf(p[2]) = KeyOf(x)
                                       /\ Stored(p[2]).status = "EXTRACTED")
<1>1. TypeOK /\ RunsInv /\ version \in Versions
  BY DEF KeptInv, TypeOK
<1>2. PICK i \in txn[e].read : /\ x = <<e, i>> /\ i \in Places(e) /\ Row(x) = txn[e].docs[i]
                               /\ txn[e].docs[i] \in DocumentRows /\ txn[e].docs[i].role = RoleAt(k)
  BY <1>1, TargetFacts
<1>3. x \in Extractions /\ KeyOf(x) \in Keys
  BY <1>1, <1>2, ExtractionFacts, KeyFacts
<1>4. FieldsRead(x) \in {KeyOf(x)} \cup blanks
  <2>1. CASE blanks = {Blank}
    BY <2>1 DEF FieldsRead
  <2>2. CASE TextAtHand
    <3>1. x[1] = e /\ x[2] \in txn[e].legible
      BY <1>2, <2>2 DEF TextAtHand
    <3> QED
      BY <3>1 DEF FieldsRead
  <2> QED
    BY <2>1, <2>2
<1>5. Rewritten(e, x, t)
  OBVIOUS
<1> HIDE DEF x
<1>6. PICK j \in txn[e].read :
        /\ x = <<e, j>>
        /\ \/ Replaced(e, j, NotExtracted(Row(x)), t) /\ t.pending = txn[e].pending
           \/ \E y : /\ CopiesFrom(x, y) /\ Replaced(e, j, Extracted(Row(x), Stored(y).fields), t)
                     /\ t.pending \subseteq txn[e].pending \cup {<<KeyOf(x), y>>}
           \/ /\ Replaced(e, j, Extracted(Row(x), FieldsRead(x)), t)
              /\ t.pending \subseteq txn[e].pending \cup {<<KeyOf(x), x>>}
  BY <1>5 DEF Rewritten
<1>7. i = j
  BY <1>2, <1>6
<1> DEFINE copy(f) == Extracted(Row(x), f)
           none == NotExtracted(Row(x))
<1>8. /\ \A f \in {KeyOf(x)} \cup blanks :
           /\ copy(f) \in DocumentRows /\ copy(f).role = Row(x).role
           /\ copy(f).status = "EXTRACTED" /\ copy(f).fields = f /\ copy(f).version = version
      /\ none \in DocumentRows /\ none.role = Row(x).role /\ none.status # "EXTRACTED"
  BY <1>1, <1>2, <1>3, RewrittenFacts
<1>9. ASSUME Replaced(e, j, NotExtracted(Row(x)), t), t.pending = txn[e].pending
      PROVE  Goal
  <2>1. none \in DocumentRows
    BY <1>8
  <2> HIDE DEF none
  <2> USE <2>1
  <2> WITNESS i \in txn[e].read, none \in DocumentRows
  <2> QED
    BY <1>2, <1>7, <1>8, <1>9 DEF none
<1>10. ASSUME NEW f \in {KeyOf(x)} \cup blanks,
              NEW y, y = x \/ (HasDocument(y) /\ KeyOf(y) = KeyOf(x) /\ Stored(y).status = "EXTRACTED"),
              Replaced(e, j, copy(f), t), t.pending \subseteq txn[e].pending \cup {<<KeyOf(x), y>>}
       PROVE  Goal
  <2>1. \A p \in t.pending : p \in txn[e].pending \/ (p[1] = KeyOf(x) /\ p[2] = y)
    BY <1>10
  <2>2. copy(f) \in DocumentRows
    BY <1>8
  <2> HIDE DEF copy
  <2> USE <2>2
  <2> WITNESS i \in txn[e].read, copy(f) \in DocumentRows
  <2> QED
    BY <1>2, <1>7, <1>8, <1>10, <2>1
<1>11. \A y : CopiesFrom(x, y) => HasDocument(y) /\ KeyOf(y) = KeyOf(x) /\ Stored(y).status = "EXTRACTED"
                                  /\ Stored(y).fields \in {KeyOf(x)} \cup blanks
  BY <1>3, CopiedFields DEF CopiesFrom
<1> HIDE DEF Goal
<1>12. Goal
  BY <1>4, <1>6, <1>9, <1>10, <1>11
<1> QED
  BY <1>12 DEF Goal, x

LEMMA SoundRewritten ==
  ASSUME NEW blanks \in SUBSET {Blank},
         KeptInv, FieldsInv(blanks), blanks = {Blank} \/ TextAtHand, NEW e \in Emails, txn[e].pc = "lookup", NEW k \in 1..2,
         NEW t, GoodRun(e, t), SameReading(txn[e], t), Rewritten(e, Targets(e)[k], t),
         Row(Targets(e)[k]).status # "EXTRACTED",
         t.missed \subseteq txn[e].missed, k \notin t.missed, \A j \in t.missed : j <= t.call
  PROVE  /\ SoundRun(blanks, e, t)
         /\ \A j \in 1..2 : j \in t.missed =>
              /\ t.read = txn[e].read
              /\ \A i \in t.read : t.docs[i].role = txn[e].docs[i].role
              /\ t.docs[Targets(e)[j][2]].status # "EXTRACTED"
<1> DEFINE x == Targets(e)[k]
<1>1. PICK i \in txn[e].read, row \in DocumentRows :
               /\ x = <<e, i>> /\ Row(x) = txn[e].docs[i] /\ Replaced(e, i, row, t)
               /\ row.role = Row(x).role /\ txn[e].docs[i].role = RoleAt(k)
               /\ row.status = "EXTRACTED" => row.fields \in {KeyOf(x)} \cup blanks /\ row.version = version
               /\ \A p \in t.pending :
                    \/ p \in txn[e].pending
                    \/ /\ p[1] = KeyOf(x) /\ row.status = "EXTRACTED"
                       /\ p[2] = x \/ (HasDocument(p[2]) /\ KeyOf(p[2]) = KeyOf(x)
                                       /\ Stored(p[2]).status = "EXTRACTED")
  BY RewrittenRow
<1>2. GoodRun(e, txn[e]) /\ SoundRun(blanks, e, txn[e]) /\ txn[e] \in Runs(e)
  BY RunningFacts, RunKinds DEF FieldsInv, KeptInv
<1>3. i \in Places(e) /\ txn[e].read \subseteq Places(e)
  BY <1>2 DEF Runs
<1>4. t.docs[i] = row /\ (\A j \in Places(e) \ {i} : t.docs[j] = txn[e].docs[j])
      /\ txn[e].docs[i].status # "EXTRACTED"
  BY <1>1 DEF Replaced
<1>5. row # NoDocument
  BY Constants
<1> HIDE DEF x
<1>6. \A j \in Places(e) : t.docs[j] # NoDocument => Right(blanks, <<e, j>>, t.docs[j])
  BY <1>1, <1>2, <1>4 DEF SoundRun, Right
<1>7. \A j \in Places(e) : (doc[e][j] # NoDocument /\ doc[e][j].status = "EXTRACTED") =>
        t.docs[j].status = "EXTRACTED"
  BY <1>2, <1>4 DEF SoundRun
<1>8. ASSUME NEW p \in t.pending
      PROVE  p[1] = KeyOf(p[2]) /\ Extraction(e, t, p[2])
  <2>1. CASE p \in txn[e].pending
    <3>1. p[1] = KeyOf(p[2]) /\ Extraction(e, txn[e], p[2])
      BY <1>2, <2>1 DEF SoundRun
    <3>2. p[2] \in Extractions
      BY <1>2, <2>1 DEF Runs
    <3>3. p[2][1] = e => p[2][2] \in Places(e)
      BY <3>2, ExtractionFacts
    <3>4. Extraction(e, t, p[2])
      BY <1>4, <3>1, <3>3 DEF Extraction
    <3> QED
      BY <3>1, <3>4
  <2>2. CASE p \notin txn[e].pending
    BY <1>1, <1>4, <1>5, <2>2 DEF Extraction
  <2> QED
    BY <2>1, <2>2
<1>9. SoundRun(blanks, e, t)
  <2>1. t.pc = "lookup"
    BY DEF SameReading
  <2> QED
    BY <1>6, <1>7, <1>8, <2>1 DEF SoundRun
<1>10. ASSUME NEW j \in 1..2, j \in t.missed
       PROVE  /\ t.read = txn[e].read
              /\ \A d \in t.read : t.docs[d].role = txn[e].docs[d].role
              /\ t.docs[Targets(e)[j][2]].status # "EXTRACTED"
  <2>1. t.read = txn[e].read
    BY DEF SameReading
  <2>2. \A d \in t.read : t.docs[d].role = txn[e].docs[d].role
    BY <1>1, <1>3, <1>4, <2>1
  <2>3. PICK d \in txn[e].read : /\ Targets(e)[j] = <<e, d>> /\ Row(Targets(e)[j]) = txn[e].docs[d]
                                 /\ txn[e].docs[d].role = RoleAt(j)
    BY TargetFacts DEF KeptInv
  <2>4. txn[e].docs[d].status # "EXTRACTED"
    BY <1>10, <2>3 DEF FieldsInv, MissedInv
  <2>5. j # k
    BY <1>10
  <2>6. d # i
    BY <1>1, <2>3, <2>5 DEF RoleAt
  <2>7. t.docs[d].status # "EXTRACTED"
    BY <1>3, <1>4, <2>4, <2>6
  <2> QED
    BY <2>1, <2>2, <2>3, <2>7
<1> QED
  BY <1>9, <1>10

LEMMA ExtractedIsDone ==
  ASSUME NEW blanks \in SUBSET {Blank},
         KeptInv, FieldsInv(blanks), NEW e \in Emails, txn[e].pc = "lookup", NEW k \in 1..2,
         Row(Targets(e)[k]).status = "EXTRACTED"
  PROVE  Done(Targets(e)[k])
<1> DEFINE x == Targets(e)[k]
<1>1. PICK i \in txn[e].read : /\ x = <<e, i>> /\ i \in Places(e) /\ Row(x) = txn[e].docs[i]
                               /\ txn[e].docs[i] \in DocumentRows
  BY TargetFacts DEF KeptInv
<1>2. SoundRun(blanks, e, txn[e]) /\ txn[e].docs[i] # NoDocument
  BY <1>1, RunKinds, Constants DEF FieldsInv, KeptInv
<1>3. Row(x).fields \in {KeyOf(x)} \cup blanks /\ Row(x).version = version
  BY <1>1, <1>2 DEF SoundRun, Right
<1>4. KeyOf(x) # NoFields
  BY <1>1, ExtractionFacts, KeyFacts, FieldsDiffer DEF KeptInv
<1>5. \A f \in blanks : f # NoFields
  BY DEF Blank, NoFields
<1> QED
  BY <1>3, <1>4, <1>5 DEF Done, Complete

LEMMA LookUpFields ==
  ASSUME NEW blanks \in SUBSET {Blank},
         KeptInv, FieldsInv(blanks), blanks = {Blank} \/ TextAtHand, NEW e \in Emails, NEW k \in 1..2, LookUp(e, k)
  PROVE  FieldsInv(blanks)'
<1> DEFINE x == Targets(e)[k]
<1>1. /\ txn[e].pc = "lookup" /\ txn[e].call = k - 1 /\ UNCHANGED <<doc, entry, version>>
  BY DEF LookUp, storedVars
<1>2. GoodRun(e, txn[e]) /\ SoundRun(blanks, e, txn[e]) /\ txn[e] \in Runs(e)
  BY <1>1, RunningFacts, RunKinds DEF FieldsInv, KeptInv
<1>3. \A j \in txn[e].missed : j \in 1..2 /\ j <= k - 1
  BY <1>1, <1>2 DEF SoundRun, Runs
<1>4. PICK t : /\ txn' = [txn EXCEPT ![e] = t] /\ GoodRun(e, t) /\ SameReading(txn[e], t)
               /\ t.call = k
               /\ \/ /\ t.docs = txn[e].docs /\ t.pending = txn[e].pending
                     /\ t.missed = txn[e].missed \/ (t.missed = txn[e].missed \cup {k} /\ ~Done(x))
                  \/ ~Done(x) /\ t.missed = txn[e].missed /\ Rewritten(e, x, t)
  BY LookedUp
<1>5. ~Done(x) => Row(x).status # "EXTRACTED"
  BY <1>1, ExtractedIsDone
<1>6. \A j \in t.missed : j <= t.call
  BY <1>3, <1>4
<1>7. CASE t.docs = txn[e].docs /\ t.pending = txn[e].pending /\
           (t.missed = txn[e].missed \/ (t.missed = txn[e].missed \cup {k} /\ ~Done(x)))
  <2>1. SoundRun(blanks, e, t)
    BY <1>1, <1>2, <1>4, <1>6, <1>7 DEF SoundRun, Extraction, SameReading
  <2>2. ASSUME NEW j \in 1..2, j \in t.missed
        PROVE  t.docs[Targets(e)[j][2]].status # "EXTRACTED"
    <3>1. Row(Targets(e)[j]).status # "EXTRACTED"
      BY <1>1, <1>5, <1>7, <2>2 DEF FieldsInv, MissedInv
    <3>2. PICK d \in txn[e].read : Targets(e)[j] = <<e, d>> /\ Row(Targets(e)[j]) = txn[e].docs[d]
      BY <1>1, TargetFacts DEF KeptInv
    <3> QED
      BY <1>7, <3>1, <3>2
  <2>3. t.read = txn[e].read
    BY <1>4 DEF SameReading
  <2> QED
    BY <1>1, <1>4, <1>7, <2>1, <2>2, <2>3, SoundStep
<1>8. CASE ~Done(x) /\ t.missed = txn[e].missed /\ Rewritten(e, x, t)
  <2>1. k \notin t.missed
    BY <1>3, <1>8
  <2>2. /\ SoundRun(blanks, e, t)
        /\ \A j \in 1..2 : j \in t.missed =>
              /\ t.read = txn[e].read
              /\ \A i \in t.read : t.docs[i].role = txn[e].docs[i].role
              /\ t.docs[Targets(e)[j][2]].status # "EXTRACTED"
    BY <1>1, <1>4, <1>5, <1>6, <1>8, <2>1, SoundRewritten
  <2> QED
    BY <1>1, <1>4, <2>2, SoundStep
<1> QED
  BY <1>4, <1>7, <1>8

LEMMA PersistFields ==
  ASSUME NEW blanks \in SUBSET {Blank},
         KeptInv, FieldsInv(blanks), blanks = {Blank} \/ TextAtHand, NEW e \in Emails, NEW k \in 1..2, Persist(e, k)
  PROVE  FieldsInv(blanks)'
<1>1. /\ txn[e].pc = "lookup" /\ k \in txn[e].missed /\ UNCHANGED <<doc, entry, version>>
  BY DEF Persist, storedVars
<1>2. GoodRun(e, txn[e]) /\ SoundRun(blanks, e, txn[e]) /\ txn[e] \in Runs(e)
  BY <1>1, RunningFacts, RunKinds DEF FieldsInv, KeptInv
<1>3. PICK t : /\ txn' = [txn EXCEPT ![e] = t] /\ GoodRun(e, t) /\ SameReading(txn[e], t)
               /\ t.missed = txn[e].missed \ {k} /\ t.call = 2
               /\ Rewritten(e, Targets(e)[k], t)
  BY Persisted
<1>4. Row(Targets(e)[k]).status # "EXTRACTED"
  BY <1>1 DEF FieldsInv, MissedInv
<1>5. t.missed \subseteq txn[e].missed /\ k \notin t.missed /\ \A j \in t.missed : j <= t.call
  BY <1>2, <1>3 DEF Runs
<1>6. /\ SoundRun(blanks, e, t)
      /\ \A j \in 1..2 : j \in t.missed =>
            /\ t.read = txn[e].read
            /\ \A i \in t.read : t.docs[i].role = txn[e].docs[i].role
            /\ t.docs[Targets(e)[j][2]].status # "EXTRACTED"
  BY <1>1, <1>3, <1>4, <1>5, SoundRewritten
<1> QED
  BY <1>1, <1>3, <1>6, SoundStep

LEMMA ReadingFields ==
  ASSUME NEW blanks \in SUBSET {Blank},
         KeptInv, CallsInv, FieldsInv(blanks), NEW e \in Emails, ReadingStep(e)
  PROVE  FieldsInv(blanks)'
<1>1. PICK t : txn' = [txn EXCEPT ![e] = t] /\ Reads(e, t) /\ GoodRun(e, txn[e])
  BY ReadingFacts
<1>2. txn[e].pc \in {"read", "ocr", "called"}
  BY ReadingFacts
<1>3. UNCHANGED <<doc, entry, version>>
  BY DEF ReadingStep, FetchFails, ReadFile, ReaderRaises, AskOcr, LockOcr, OcrTimesOut, storedVars
<1>4. SoundRun(blanks, e, txn[e])
  BY <1>2, RunKinds DEF FieldsInv, KeptInv
<1>5. SoundRun(blanks, e, t) /\ t.pc # "lookup"
  BY <1>1, <1>2, <1>4, SoundReads DEF Reads
<1> QED
  BY <1>1, <1>3, <1>5, SoundStep

LEMMA QuietFields ==
  ASSUME NEW blanks \in SUBSET {Blank},
         FieldsInv(blanks), UNCHANGED <<doc, txn, version>>,
         \A k \in Keys : entry'[k] = entry[k] \/ entry'[k] = NoEntry
  PROVE  FieldsInv(blanks)'
<1>1. \A x \in Extractions : HasDocument(x)' => Right(blanks, x, Stored(x))'
  BY DEF FieldsInv, HasDocument, Stored, Right, KeyOf
<1>2. \A k \in Keys : entry'[k] # NoEntry => k = KeyOf(entry[k])' /\ Stored(entry[k])'.status = "EXTRACTED"
  BY DEF FieldsInv, Stored, KeyOf
<1>3. \A e \in Emails : txn'[e] = Idle \/ SoundRun(blanks, e, txn[e])'
  BY DEF FieldsInv, SoundRun, Right, Extraction, HasDocument, Stored, KeyOf
<1>4. MissedInv'
  <2> SUFFICES ASSUME NEW e \in Emails, NEW k \in 1..2
               PROVE  (txn[e].pc = "lookup" /\ k \in txn[e].missed)' => Row(Targets(e)[k])'.status # "EXTRACTED"
    BY DEF MissedInv
  <2>1. Targets(e)'[k] = Targets(e)[k]
    BY TargetsKept
  <2> QED
    BY <2>1 DEF FieldsInv, MissedInv, Row
<1> QED
  BY <1>1, <1>2, <1>3, <1>4 DEF FieldsInv

LEMMA EngineFields ==
  ASSUME NEW blanks \in SUBSET {Blank},
         KeptInv, CallsInv, FieldsInv(blanks), Engine
  PROVE  FieldsInv(blanks)'
<1>1. UNCHANGED <<doc, entry, version>>
  BY EngineFacts
<1>2. ASSUME UNCHANGED txn
      PROVE  FieldsInv(blanks)'
  BY <1>1, <1>2, QuietFields
<1>3. ASSUME NEW e \in Emails, NEW t, txn' = [txn EXCEPT ![e] = t], Reads(e, t), GoodRun(e, txn[e]),
             txn[e].pc = "called"
      PROVE  FieldsInv(blanks)'
  <2>1. SoundRun(blanks, e, txn[e])
    BY <1>3, RunKinds DEF FieldsInv, KeptInv
  <2>2. SoundRun(blanks, e, t) /\ t.pc # "lookup"
    BY <1>3, <2>1, SoundReads DEF Reads
  <2> QED
    BY <1>1, <1>3, <2>2, SoundStep
<1> QED
  BY <1>2, <1>3, EngineFacts

LEMMA DecideFields ==
  ASSUME NEW blanks \in SUBSET {Blank},
         KeptInv, FieldsInv(blanks), NEW e \in Emails, Decide(e)
  PROVE  FieldsInv(blanks)'
<1>1. txn[e].pc = "read" /\ UNCHANGED <<doc, entry, version>>
  BY DEF Decide, storedVars
<1>2. GoodRun(e, txn[e]) /\ SoundRun(blanks, e, txn[e]) /\ txn[e] \in Runs(e)
  BY <1>1, RunningFacts, RunKinds DEF FieldsInv, KeptInv
<1>3. PICK t : /\ txn' = [txn EXCEPT ![e] = t] /\ GoodRun(e, t)
               /\ t.read = txn[e].read /\ t.pending = txn[e].pending /\ t.missed = txn[e].missed
               /\ \A i \in Places(e) :
                     \/ t.docs[i] = txn[e].docs[i]
                     \/ /\ i \in t.read
                        /\ t.docs[i].role = txn[e].docs[i].role
                        /\ t.docs[i].status = txn[e].docs[i].status
                        /\ t.docs[i].fields = txn[e].docs[i].fields
                        /\ t.docs[i].version = txn[e].docs[i].version
  BY DecidedFacts DEF KeptInv
<1>4. t.missed = {}
  BY <1>1, <1>2, <1>3 DEF SoundRun
<1>5. \A i \in Places(e) : t.docs[i] = txn[e].docs[i] \/ SameFields(txn[e].docs[i], t.docs[i])
  BY <1>2, <1>3 DEF GoodRun, SameFields
<1>6. SoundRun(blanks, e, t)
  BY <1>2, <1>3, <1>4, <1>5, SoundDocs
<1> QED
  BY <1>1, <1>3, <1>4, <1>6, SoundStep

LEMMA ConcludeFields ==
  ASSUME NEW blanks \in SUBSET {Blank},
         KeptInv, FieldsInv(blanks), NEW e \in Emails, NEW compared \in BOOLEAN, Conclude(e, compared)
  PROVE  FieldsInv(blanks)'
<1>1. txn[e].pc = "lookup" /\ txn[e].missed = {} /\ UNCHANGED <<doc, entry, version>>
  BY DEF Conclude, storedVars
<1>2. GoodRun(e, txn[e]) /\ SoundRun(blanks, e, txn[e])
  BY <1>1, RunningFacts, RunKinds DEF FieldsInv, KeptInv
<1>3. PICK t : /\ txn' = [txn EXCEPT ![e] = t] /\ t.docs = txn[e].docs
               /\ t.pending = txn[e].pending /\ t.missed = txn[e].missed
  BY ConcludedFacts
<1>4. SoundRun(blanks, e, t)
  BY <1>1, <1>2, <1>3, SoundDocs
<1> QED
  BY <1>1, <1>3, <1>4, SoundStep

LEMMA BeginFields ==
  ASSUME NEW blanks \in SUBSET {Blank},
         KeptInv, FieldsInv(blanks), NEW e \in Emails, NEW origin \in {"PROVIDER", "STORED"}, Begin(e, origin)
  PROVE  FieldsInv(blanks)'
<1> DEFINE t == [pc |-> "read", origin |-> origin, next |-> 1, docs |-> doc[e], read |-> {},
                 legible |-> {}, technical |-> "NONE", call |-> 0, missed |-> {}, pending |-> {},
                 result |-> "NEW", hurt |-> FALSE]
<1>1. txn' = [txn EXCEPT ![e] = t] /\ UNCHANGED <<doc, entry, version>>
  BY DEF Begin, storedVars
<1>2. t.pc = "read" /\ t.docs = doc[e] /\ t.missed = {} /\ t.pending = {}
  OBVIOUS
<1> HIDE DEF t
<1>3. \A i \in Places(e) : doc[e][i] # NoDocument => Right(blanks, <<e, i>>, doc[e][i])
  <2> SUFFICES ASSUME NEW i \in Places(e), doc[e][i] # NoDocument
               PROVE  Right(blanks, <<e, i>>, doc[e][i])
    OBVIOUS
  <2>1. <<e, i>> \in Extractions /\ Stored(<<e, i>>) = doc[e][i]
    BY ExtractionFacts DEF Stored
  <2> QED
    BY <2>1 DEF FieldsInv, HasDocument
<1>4. SoundRun(blanks, e, t)
  BY <1>2, <1>3 DEF SoundRun
<1> QED
  BY <1>1, <1>2, <1>4, SoundStep

LEMMA CommitFields ==
  ASSUME NEW blanks \in SUBSET {Blank},
         KeptInv, FieldsInv(blanks), NEW e \in Emails, Commit(e)
  PROVE  FieldsInv(blanks)'
<1>1. /\ GoodRun(e, txn[e])
      /\ \A d \in Emails : /\ doc'[d] = IF d = e THEN txn[e].docs ELSE doc[d]
                           /\ txn'[d] = IF d = e THEN Idle ELSE txn[d]
      /\ \A x \in Extractions : Stored(x)' = IF x[1] = e THEN txn[e].docs[x[2]] ELSE Stored(x)
      /\ entry' \in [Keys -> Extractions \cup {NoEntry}]
      /\ \A k \in Keys : entry'[k] = entry[k] \/ <<k, entry'[k]>> \in txn[e].pending
  BY CommitFacts
<1>2. SoundRun(blanks, e, txn[e]) /\ txn[e] \in Runs(e) /\ version' = version
  BY RunKinds DEF Commit, FieldsInv, KeptInv
<1>3. \A x \in Extractions : HasDocument(x)' => Right(blanks, x, Stored(x))'
  <2> SUFFICES ASSUME NEW x \in Extractions, Stored(x)' # NoDocument
               PROVE  Right(blanks, x, Stored(x))'
    BY DEF HasDocument
  <2>1. x[1] \in Emails /\ x[2] \in Places(x[1]) /\ x = <<x[1], x[2]>>
    BY ExtractionFacts
  <2>2. Right(blanks, x, Stored(x)')
    BY <1>1, <1>2, <2>1 DEF FieldsInv, HasDocument, SoundRun
  <2> QED
    BY <1>2, <2>2 DEF Right, KeyOf
<1>4. ASSUME NEW x \in Extractions, Extraction(e, txn[e], x)
      PROVE  HasDocument(x)' /\ Stored(x)'.status = "EXTRACTED"
  <2>1. x[1] \in Emails /\ x[2] \in Places(x[1]) /\ Stored(x) = doc[x[1]][x[2]]
    BY ExtractionFacts DEF Stored
  <2>2. Stored(x)' = IF x[1] = e THEN txn[e].docs[x[2]] ELSE Stored(x)
    BY <1>1
  <2>3. x[1] = e => txn[e].docs[x[2]] # NoDocument /\ txn[e].docs[x[2]].status = "EXTRACTED"
    BY <1>1, <1>2, <1>4, <2>1 DEF SoundRun, GoodRun, Extraction, HasDocument
  <2> QED
    BY <1>4, <2>2, <2>3 DEF Extraction, HasDocument
<1>5. \A x \in Extractions : KeyOf(x)' = KeyOf(x)
  BY <1>2 DEF KeyOf
<1>6. ASSUME NEW k \in Keys, entry'[k] # NoEntry
      PROVE  k = KeyOf(entry[k])' /\ Stored(entry[k])'.status = "EXTRACTED"
  <2>1. PICK y \in Extractions : y = entry'[k]
    BY <1>1, <1>6
  <2>2. k = KeyOf(y) /\ Extraction(e, txn[e], y)
    <3>1. CASE entry'[k] = entry[k]
      BY <1>6, <2>1, <3>1 DEF FieldsInv, KeptInv, SourcesInv, Extraction
    <3>2. CASE <<k, entry'[k]>> \in txn[e].pending
      BY <1>2, <2>1, <3>2 DEF SoundRun
    <3> QED
      BY <1>1, <3>1, <3>2
  <2>3. k = KeyOf(y)' /\ Stored(y)'.status = "EXTRACTED"
    BY <1>4, <1>5, <2>2
  <2> QED
    BY <2>1, <2>3 DEF KeyOf, Stored
<1>7. ASSUME NEW d \in Emails
      PROVE  txn'[d] = Idle \/ SoundRun(blanks, d, txn[d])'
  <2>1. CASE d = e
    BY <1>1, <2>1
  <2>2. CASE d # e
    <3>1. txn'[d] = txn[d] /\ doc'[d] = doc[d] /\ (txn[d] = Idle \/ SoundRun(blanks, d, txn[d]))
      BY <1>1, <2>2 DEF FieldsInv
    <3>2. ASSUME txn[d] # Idle
          PROVE  SoundRun(blanks, d, txn[d])'
      <4>1. \A p \in txn[d].pending : p[1] = KeyOf(p[2])' /\ Extraction(d, txn[d], p[2])'
        <5> SUFFICES ASSUME NEW p \in txn[d].pending
                     PROVE  p[1] = KeyOf(p[2])' /\ Extraction(d, txn[d], p[2])'
          OBVIOUS
        <5>1. p[2] \in Extractions
          BY <3>2, RunKinds DEF KeptInv, Runs
        <5>2. PICK y \in Extractions : y = p[2]
          BY <5>1
        <5>3. p[1] = KeyOf(y) /\ Extraction(d, txn[d], y)
          BY <3>1, <3>2, <5>2 DEF SoundRun
        <5>4. Extraction(d, txn[d], y)'
          BY <1>4, <3>1, <5>3 DEF Extraction
        <5> QED
          BY <1>5, <5>2, <5>3, <5>4
      <4> QED
        BY <1>2, <3>1, <3>2, <4>1 DEF SoundRun, Right, KeyOf
    <3> QED
      BY <3>1, <3>2
  <2> QED
    BY <2>1, <2>2
<1>8. MissedInv'
  <2> SUFFICES ASSUME NEW d \in Emails, NEW k \in 1..2, txn'[d].pc = "lookup", k \in txn'[d].missed
               PROVE  Row(Targets(d)[k])'.status # "EXTRACTED"
    BY DEF MissedInv
  <2>1. d # e
    BY <1>1 DEF Idle
  <2>2. txn'[d] = txn[d]
    BY <1>1, <2>1
  <2>3. PICK i \in txn[d].read : Targets(d)[k] = <<d, i>>
    BY <2>2, TargetFacts DEF KeptInv
  <2>4. Targets(d)'[k] = Targets(d)[k]
    BY <2>2, TargetsKept
  <2> QED
    BY <2>2, <2>3, <2>4 DEF FieldsInv, MissedInv, Row
<1> QED
  BY <1>3, <1>6, <1>7, <1>8 DEF FieldsInv

LEMMA RestartFields ==
  ASSUME NEW blanks \in SUBSET {Blank},
         FieldsInv(blanks), NEW v \in Versions, Restart(v), version' = version
  PROVE  FieldsInv(blanks)'
<1>1. UNCHANGED <<doc, entry, version>> /\ \A e \in Emails : txn'[e] = Idle
  BY DEF Restart, storedVars
<1>2. MissedInv'
  BY <1>1 DEF MissedInv, Idle
<1> QED
  BY <1>1, <1>2 DEF FieldsInv, HasDocument, Stored, Right, KeyOf

LEMMA NextFields ==
  ASSUME NEW blanks \in SUBSET {Blank},
         KeptInv, CallsInv, FieldsInv(blanks), blanks = {Blank} \/ TextAtHand, [Next]_vars, version' = version
  PROVE  FieldsInv(blanks)'
<1>1. ASSUME NEW e \in Emails, Worker(e)
      PROVE  FieldsInv(blanks)'
  <2>1. CASE ReadingStep(e)
    BY <2>1, ReadingFields
  <2>2. CASE Decide(e)
    BY <2>2, DecideFields
  <2>3. CASE \E k \in 1..2 : LookUp(e, k) \/ Persist(e, k)
    BY <2>3, LookUpFields, PersistFields
  <2>4. CASE \E compared \in BOOLEAN : Conclude(e, compared)
    BY <2>4, ConcludeFields
  <2>5. CASE Commit(e)
    BY <2>5, CommitFields
  <2>6. CASE RollsBack(e)
    <3>1. txn' = [txn EXCEPT ![e] = Idle] /\ UNCHANGED <<doc, entry, version>>
      BY <2>6 DEF RollsBack, storedVars
    <3>2. Idle.pc = "idle"
      BY DEF Idle
    <3> QED
      BY <3>1, <3>2, SoundStep
  <2> QED
    BY <1>1, <2>1, <2>2, <2>3, <2>4, <2>5, <2>6 DEF Worker, ReadingStep
<1>2. CASE Age \/ CleanUp \/ UNCHANGED vars
  <2>1. UNCHANGED <<doc, txn, version>> /\ (UNCHANGED entry \/ CleanUp)
    BY <1>2 DEF Age, CleanUp, vars, storedVars
  <2>2. \A k \in Keys : entry'[k] = entry[k] \/ entry'[k] = NoEntry
    BY <2>1 DEF CleanUp
  <2> QED
    BY <2>1, <2>2, QuietFields
<1> QED
  BY <1>1, <1>2, BeginFields, EngineFields, RestartFields DEF Next

LEMMA InitFields ==
  ASSUME NEW blanks \in SUBSET {Blank},
         Init
  PROVE  FieldsInv(blanks)
<1>1. \A x \in Extractions : ~HasDocument(x)
  BY ExtractionFacts DEF Init, HasDocument, Stored
<1>2. MissedInv
  BY DEF Init, MissedInv, Idle
<1> QED
  BY <1>1, <1>2 DEF Init, FieldsInv

LEMMA FieldsFollow ==
  ASSUME KeptInv, FieldsInv({})
  PROVE  FieldsMatch /\ EntriesComplete
<1>1. FieldsMatch
  BY DEF FieldsInv, FieldsMatch, HasDocument, Right, KeyOf
<1>2. ASSUME NEW k \in Keys, entry[k] # NoEntry
      PROVE  Complete(Stored(entry[k])) /\ Stored(entry[k]).fields = k
  <2>1. entry[k] \in Extractions /\ HasDocument(entry[k])
    BY <1>2 DEF KeptInv, TypeOK, SourcesInv
  <2>2. k = KeyOf(entry[k]) /\ Stored(entry[k]).status = "EXTRACTED"
    BY <1>2 DEF FieldsInv
  <2>3. Stored(entry[k]).fields = k
    BY <2>1, <2>2 DEF FieldsInv, Right
  <2> QED
    BY <2>2, <2>3, FieldsDiffer DEF Complete
<1> QED
  BY <1>1, <1>2 DEF EntriesComplete

(* FieldsMatch and EntriesComplete: while one extractor version is deployed and    *)
(* the text of a document is at hand when its fields are extracted, the fields    *)
(* stored for a document are those of its own bytes and an entry of the cache     *)
(* points to a complete extraction of its own key, for any interleaving of any    *)
(* number of workers and whatever the clean-up removes.                           *)
THEOREM FieldsAreOwn ==
  Spec /\ [][version' = version]_vars /\ []TextAtHand => [](FieldsMatch /\ EntriesComplete)
<1>1. Init => CallsInv /\ FieldsInv({})
  BY InitCalls, InitFields
<1>2. KeptInv /\ CallsInv /\ FieldsInv({}) /\ TextAtHand /\ [Next]_vars /\ [version' = version]_vars
        => CallsInv' /\ FieldsInv({})'
  <2> SUFFICES ASSUME KeptInv, CallsInv, FieldsInv({}), TextAtHand, [Next]_vars, [version' = version]_vars
               PROVE  CallsInv' /\ FieldsInv({})'
    OBVIOUS
  <2>1. version' = version
    BY DEF vars
  <2> QED
    BY <2>1, NextCalls, NextFields
<1>3. KeptInv /\ FieldsInv({}) => FieldsMatch /\ EntriesComplete
  BY FieldsFollow
<1> QED
  BY <1>1, <1>2, <1>3, InvariantKept, PTL DEF Spec
----------------------------------------------------------------------------
(* One process *)

Known(row) == row # NoDocument /\ row.role # "UNKNOWN"

(* A document has a role because its content could be read, and still can be in   *)
(* the same process; so a run that was not hurt has read the text behind it.      *)
KnownRun(e, t) ==
  /\ \A i \in Places(e) : Known(t.docs[i]) => ReadNow(Attachments[e][i]).role # "UNKNOWN"
  /\ \A i \in t.read : t.technical = "NONE" /\ Known(t.docs[i]) => i \in t.legible
  /\ t.pc = "lookup" => t.technical = "NONE"

RolesInv ==
  /\ \A x \in Extractions : Known(Stored(x)) => ReadNow(ContentOf(x)).role # "UNKNOWN"
  /\ \A e \in Emails : txn[e] = Idle \/ KnownRun(e, txn[e])

\* The cache forgets nothing.
CacheStays == \A c \in Contents : Cached(c) => ocrCache'[c] = ocrCache[c]

LEMMA ReadingStays ==
  ASSUME CacheStays, NEW c \in Contents, ReadNow(c).role # "UNKNOWN"
  PROVE  ReadNow(c)'.role # "UNKNOWN"
<1>1. NeedsOcr(File[c]) => Cached(c)
  BY AnswersAgree DEF ReadNow, Cached
<1>2. ReadNow(c)' = ReadNow(c)
  BY <1>1 DEF CacheStays, ReadNow
<1> QED
  BY <1>2

LEMMA RolesStep ==
  ASSUME KeptInv, RolesInv, CacheStays, NEW e \in Emails, NEW t, txn' = [txn EXCEPT ![e] = t],
         t = Idle \/ KnownRun(e, t)', UNCHANGED doc
  PROVE  RolesInv'
<1>1. \A d \in Emails : txn'[d] = IF d = e THEN t ELSE txn[d]
  BY Zenon DEF KeptInv, TypeOK
<1>2. \A x \in Extractions : Known(Stored(x))' => ReadNow(ContentOf(x))'.role # "UNKNOWN"
  BY ExtractionFacts, ReadingStays DEF RolesInv, Known, Stored
<1>3. ASSUME NEW d \in Emails
      PROVE  txn'[d] = Idle \/ KnownRun(d, txn[d])'
  <2>1. CASE d = e
    BY <1>1, <2>1 DEF KnownRun, Known
  <2>2. CASE d # e
    <3>1. txn'[d] = txn[d] /\ (txn[d] = Idle \/ KnownRun(d, txn[d]))
      BY <1>1, <2>2 DEF RolesInv
    <3>2. ASSUME KnownRun(d, txn[d])
          PROVE  KnownRun(d, txn[d])'
      <4>1. \A i \in Places(d) : Known(txn[d].docs[i]) => ReadNow(Attachments[d][i])'.role # "UNKNOWN"
        BY <3>2, Constants, ReadingStays DEF KnownRun
      <4> QED
        BY <3>1, <3>2, <4>1 DEF KnownRun, Known
    <3> QED
      BY <3>1, <3>2
  <2> QED
    BY <2>1, <2>2
<1> QED
  BY <1>2, <1>3 DEF RolesInv

\* The documents of the run have the roles they had.
LEMMA KnownDocs ==
  ASSUME CacheStays, NEW e \in Emails, KnownRun(e, txn[e]), txn[e].read \subseteq Places(e),
         NEW t, t.read = txn[e].read,
         t.legible = txn[e].legible, t.technical = txn[e].technical \/ t.technical # "NONE",
         t.pc = "lookup" => t.technical = "NONE",
         \A i \in Places(e) : Known(t.docs[i]) => Known(txn[e].docs[i])
  PROVE  KnownRun(e, t)'
<1>1. \A i \in Places(e) : Known(t.docs[i]) => ReadNow(Attachments[e][i])'.role # "UNKNOWN"
  BY Constants, ReadingStays DEF KnownRun
<1>2. \A i \in t.read : t.technical = "NONE" /\ Known(t.docs[i]) => i \in t.legible
  BY DEF KnownRun
<1> QED
  BY <1>1, <1>2 DEF KnownRun, Known

LEMMA KnownReads ==
  ASSUME KeptInv, CacheStays, NEW e \in Emails, GoodRun(e, txn[e]), KnownRun(e, txn[e]),
         NEW t, Reads(e, t)
  PROVE  KnownRun(e, t)'
<1>1. t.pc # "lookup" /\ txn[e].read \subseteq Places(e)
  BY DEF Reads, GoodRun, Runs
<1>2. CASE t.docs = txn[e].docs /\ t.read = txn[e].read /\ t.legible = txn[e].legible
           /\ (t.technical = txn[e].technical \/ t.technical # "NONE")
  BY <1>1, <1>2, KnownDocs
<1>3. ASSUME NEW found \in Found,
             t.read = txn[e].read \cup {txn[e].next} /\ txn[e].next \in Places(e),
             t.legible = IF found.role = "UNKNOWN" THEN txn[e].legible ELSE txn[e].legible \cup {txn[e].next},
             \A i \in Places(e) : t.docs[i] =
               IF i = txn[e].next /\ txn[e].docs[i] = NoDocument THEN Created(found) ELSE txn[e].docs[i],
             \/ found.role = "UNKNOWN" /\ t.technical # "NONE"
             \/ /\ t.technical = txn[e].technical
                /\ \E c \in Contents : c = Current(e) /\ Shown(c, found)
      PROVE  KnownRun(e, t)'
  <2>1. Created(found).role = found.role
    BY CreatedFacts DEF KeptInv, TypeOK
  <2>2. \A i \in Places(e) : Known(txn[e].docs[i]) =>
          ReadNow(Attachments[e][i]).role # "UNKNOWN" /\ ReadNow(Attachments[e][i])'.role # "UNKNOWN"
    BY Constants, ReadingStays DEF KnownRun
  <2>3. PICK n \in Places(e) : n = txn[e].next
    BY <1>3
  <2>4. \/ found.role = "UNKNOWN" /\ t.technical # "NONE"
        \/ t.technical = txn[e].technical /\ Shown(Attachments[e][n], found)
    <3>1. PICK c \in Contents : c = Attachments[e][n]
      BY Constants
    <3> QED
      BY <1>3, <2>3, <3>1 DEF Current
  <2>5. Shown(Attachments[e][n], found) =>
          /\ found.role # "UNKNOWN" => ReadNow(Attachments[e][n])'.role # "UNKNOWN"
          /\ ReadNow(Attachments[e][n]).role # "UNKNOWN" => found.role # "UNKNOWN"
    BY DEF Shown
  <2>6. \A i \in Places(e) :
          \/ t.docs[i] = txn[e].docs[i]
          \/ i = n /\ t.docs[i] = Created(found)
    BY <1>3, <2>3
  <2>7. ASSUME NEW i \in Places(e), Known(t.docs[i])
        PROVE  ReadNow(Attachments[e][i])'.role # "UNKNOWN"
    <3>1. CASE t.docs[i] = txn[e].docs[i]
      BY <2>2, <2>7, <3>1
    <3>2. CASE i = n /\ t.docs[i] = Created(found)
      BY <2>1, <2>4, <2>5, <2>7, <3>2 DEF Known
    <3> QED
      BY <2>6, <3>1, <3>2
  <2>8. ASSUME NEW i \in t.read, t.technical = "NONE", Known(t.docs[i])
        PROVE  i \in t.legible
    <3>1. t.technical = txn[e].technical /\ Shown(Attachments[e][n], found)
      BY <2>4, <2>8
    <3>2. CASE i = n
      <4>1. found.role # "UNKNOWN"
        BY <2>1, <2>2, <2>5, <2>6, <2>8, <3>1, <3>2 DEF Known
      <4> QED
        BY <1>3, <2>3, <3>2, <4>1
    <3>3. CASE i # n
      <4>1. i \in txn[e].read /\ t.docs[i] = txn[e].docs[i]
        BY <1>1, <1>3, <2>3, <3>3
      <4> QED
        BY <1>3, <2>8, <3>1, <4>1 DEF KnownRun
    <3> QED
      BY <3>2, <3>3
  <2> QED
    BY <1>1, <2>7, <2>8 DEF KnownRun, Known
<1> QED
  BY <1>2, <1>3 DEF Reads

LEMMA RewrittenRoles ==
  ASSUME KeptInv, NEW e \in Emails, txn[e].pc = "lookup", NEW k \in 1..2, NEW t,
         Rewritten(e, Targets(e)[k], t)
  PROVE  \A i \in Places(e) : Known(t.docs[i]) => Known(txn[e].docs[i])
<1> DEFINE x == Targets(e)[k]
<1>1. TypeOK /\ RunsInv /\ version \in Versions
  BY DEF KeptInv, TypeOK
<1>2. PICK i \in txn[e].read : /\ x = <<e, i>> /\ i \in Places(e) /\ Row(x) = txn[e].docs[i]
                               /\ txn[e].docs[i] \in DocumentRows /\ txn[e].docs[i].role = RoleAt(k)
  BY <1>1, TargetFacts
<1>3. Rewritten(e, x, t)
  OBVIOUS
<1> HIDE DEF x
<1>4. \A j \in Places(e) \ {i} : t.docs[j] = txn[e].docs[j]
  BY <1>2, <1>3 DEF Rewritten, Replaced
<1>5. Known(txn[e].docs[i])
  BY <1>2, Constants DEF Known, RoleAt
<1> QED
  BY <1>4, <1>5

LEMMA WorkerRoles ==
  ASSUME KeptInv, CallsInv, RolesInv, NEW e \in Emails, Worker(e)
  PROVE  RolesInv'
<1>1. ~ReadingStep(e) => UNCHANGED ocrCache
  BY DEF Worker, ReadingStep, Decide, LookUp, Persist, Conclude, Commit, RollsBack, ocrVars
<1>2. ~Commit(e) => UNCHANGED doc
  BY DEF Worker, FetchFails, ReadFile, ReaderRaises, AskOcr, LockOcr, OcrTimesOut, Decide, LookUp,
         Persist, Conclude, RollsBack, storedVars
<1>3. CacheStays
  BY <1>1, ReadingFacts DEF CacheStays
<1>4. txn[e] # Idle => KnownRun(e, txn[e]) /\ GoodRun(e, txn[e]) /\ txn[e].read \subseteq Places(e)
  BY DEF RolesInv, KeptInv, RunsInv, GoodRun, Runs
<1>5. ASSUME ReadingStep(e)
      PROVE  RolesInv'
  <2>1. PICK t : txn' = [txn EXCEPT ![e] = t] /\ Reads(e, t) /\ GoodRun(e, txn[e])
    BY <1>5, ReadingFacts
  <2>2. txn[e] # Idle
    BY <1>5, ReadingFacts DEF Idle
  <2>3. KnownRun(e, t)'
    BY <1>3, <1>4, <2>1, <2>2, KnownReads
  <2>4. UNCHANGED doc
    BY <1>5 DEF ReadingStep, FetchFails, ReadFile, ReaderRaises, AskOcr, LockOcr, OcrTimesOut, storedVars
  <2> QED
    BY <1>3, <2>1, <2>3, <2>4, RolesStep
<1>6. ASSUME Decide(e)
      PROVE  RolesInv'
  <2>1. txn[e] # Idle /\ UNCHANGED doc
    BY <1>6 DEF Decide, Idle, storedVars
  <2>2. PICK t : /\ txn' = [txn EXCEPT ![e] = t] /\ t.read = txn[e].read
                 /\ t.legible = txn[e].legible /\ t.technical = txn[e].technical
                 /\ (t.pc = "lookup" => t.technical = "NONE")
                 /\ \A i \in Places(e) :
                     \/ t.docs[i] = txn[e].docs[i]
                     \/ i \in t.read /\ t.docs[i].role = txn[e].docs[i].role
    BY <1>6, DecidedFacts DEF KeptInv
  <2>3. \A i \in Places(e) : Known(t.docs[i]) => Known(txn[e].docs[i])
    BY <1>4, <2>1, <2>2 DEF GoodRun, Known
  <2>4. KnownRun(e, t)'
    BY <1>3, <1>4, <2>1, <2>2, <2>3, KnownDocs
  <2> QED
    BY <1>3, <2>1, <2>2, <2>4, RolesStep
<1>7. ASSUME NEW k \in 1..2, LookUp(e, k) \/ Persist(e, k)
      PROVE  RolesInv'
  <2>1. txn[e].pc = "lookup" /\ txn[e] # Idle /\ UNCHANGED doc
    BY <1>7 DEF LookUp, Persist, Idle, storedVars
  <2>2. PICK t : /\ txn' = [txn EXCEPT ![e] = t] /\ SameReading(txn[e], t)
                 /\ t.docs = txn[e].docs \/ Rewritten(e, Targets(e)[k], t)
    BY <1>7, LookedUp, Persisted
  <2>3. \A i \in Places(e) : Known(t.docs[i]) => Known(txn[e].docs[i])
    BY <2>1, <2>2, RewrittenRoles
  <2>4. txn[e].technical = "NONE"
    BY <1>4, <2>1 DEF KnownRun
  <2>5. KnownRun(e, t)'
    BY <1>3, <1>4, <2>1, <2>2, <2>3, <2>4, KnownDocs DEF SameReading
  <2> QED
    BY <1>3, <2>1, <2>2, <2>5, RolesStep
<1>8. ASSUME NEW compared \in BOOLEAN, Conclude(e, compared)
      PROVE  RolesInv'
  <2>1. txn[e] # Idle /\ UNCHANGED doc
    BY <1>8 DEF Conclude, Idle, storedVars
  <2>2. PICK t : /\ txn' = [txn EXCEPT ![e] = t] /\ t.pc = "commit" /\ t.docs = txn[e].docs
                 /\ t.read = txn[e].read /\ t.legible = txn[e].legible
                 /\ t.technical = txn[e].technical
    BY <1>8, ConcludedFacts
  <2>3. KnownRun(e, t)'
    BY <1>3, <1>4, <2>1, <2>2, KnownDocs
  <2> QED
    BY <1>3, <2>1, <2>2, <2>3, RolesStep
<1>9. ASSUME Commit(e)
      PROVE  RolesInv'
  <2>1. /\ \A d \in Emails : txn'[d] = IF d = e THEN Idle ELSE txn[d]
        /\ \A x \in Extractions : Stored(x)' = IF x[1] = e THEN txn[e].docs[x[2]] ELSE Stored(x)
    BY <1>9, CommitFacts
  <2>2. txn[e] # Idle /\ UNCHANGED ocrCache
    BY <1>9 DEF Commit, Idle, ocrVars
  <2>3. \A c : ReadNow(c)' = ReadNow(c)
    BY <2>2 DEF ReadNow
  <2>4. ASSUME NEW x \in Extractions, Known(Stored(x))'
        PROVE  ReadNow(ContentOf(x))'.role # "UNKNOWN"
    <3>1. x[1] \in Emails /\ x[2] \in Places(x[1]) /\ ContentOf(x) = Attachments[x[1]][x[2]]
      BY ExtractionFacts DEF ContentOf
    <3>2. x[1] = e => ReadNow(ContentOf(x)).role # "UNKNOWN"
      BY <1>4, <2>1, <2>2, <2>4, <3>1 DEF KnownRun, Known
    <3>3. x[1] # e => ReadNow(ContentOf(x)).role # "UNKNOWN"
      BY <2>1, <2>4 DEF RolesInv, Known
    <3> QED
      BY <2>3, <3>2, <3>3
  <2>5. \A d \in Emails : txn'[d] = Idle \/ KnownRun(d, txn[d])'
    BY <2>1, <2>2 DEF RolesInv, KnownRun, Known, ReadNow
  <2> QED
    BY <2>4, <2>5 DEF RolesInv, ContentOf
<1>10. ASSUME RollsBack(e)
       PROVE  RolesInv'
  <2>1. txn' = [txn EXCEPT ![e] = Idle] /\ UNCHANGED doc
    BY <1>10 DEF RollsBack, storedVars
  <2> QED
    BY <1>3, <2>1, RolesStep
<1> QED
  BY <1>5, <1>6, <1>7, <1>8, <1>9, <1>10 DEF Worker, ReadingStep

LEMMA NextRoles ==
  ASSUME KeptInv, CallsInv, RolesInv, [Next]_vars, \A v \in Versions : ~Restart(v)
  PROVE  RolesInv'
<1>1. ASSUME NEW e \in Emails, NEW origin \in {"PROVIDER", "STORED"}, Begin(e, origin)
      PROVE  RolesInv'
  <2>1. PICK t : /\ txn' = [txn EXCEPT ![e] = t]
                 /\ t.pc = "read" /\ t.docs = doc[e] /\ t.read = {}
    <3> DEFINE new == [pc |-> "read", origin |-> origin, next |-> 1, docs |-> doc[e], read |-> {},
                       legible |-> {}, technical |-> "NONE", call |-> 0, missed |-> {},
                       pending |-> {}, result |-> "NEW", hurt |-> FALSE]
    <3>1. txn' = [txn EXCEPT ![e] = new]
      BY <1>1 DEF Begin
    <3>2. new.pc = "read" /\ new.docs = doc[e] /\ new.read = {}
      OBVIOUS
    <3> HIDE DEF new
    <3> QED
      BY <3>1, <3>2
  <2>2. UNCHANGED <<doc, ocrCache>> /\ \A c : ReadNow(c)' = ReadNow(c)
    BY <1>1 DEF Begin, storedVars, ocrVars, ReadNow
  <2>3. \A i \in Places(e) : Known(doc[e][i]) => ReadNow(Attachments[e][i]).role # "UNKNOWN"
    <3> SUFFICES ASSUME NEW i \in Places(e), Known(doc[e][i])
                 PROVE  ReadNow(Attachments[e][i]).role # "UNKNOWN"
      OBVIOUS
    <3>1. PICK x \in Extractions : x = <<e, i>>
      BY ExtractionFacts
    <3>2. Stored(x) = doc[e][i] /\ ContentOf(x) = Attachments[e][i]
      BY <3>1 DEF Stored, ContentOf
    <3> QED
      BY <3>2 DEF RolesInv
  <2>4. KnownRun(e, t)'
    BY <2>1, <2>2, <2>3 DEF KnownRun, Known
  <2>5. CacheStays
    BY <2>2 DEF CacheStays
  <2> QED
    BY <2>1, <2>2, <2>4, <2>5, RolesStep
<1>2. ASSUME UNCHANGED <<doc, txn>>, CacheStays
      PROVE  RolesInv'
  <2>1. \A x \in Extractions : Known(Stored(x))' => ReadNow(ContentOf(x))'.role # "UNKNOWN"
    BY <1>2, ExtractionFacts, ReadingStays DEF RolesInv, Known, Stored
  <2>2. ASSUME NEW e \in Emails
        PROVE  txn'[e] = Idle \/ KnownRun(e, txn[e])'
    <3>1. txn[e] = Idle \/ KnownRun(e, txn[e])
      BY DEF RolesInv
    <3>2. KnownRun(e, txn[e]) =>
            \A i \in Places(e) : Known(txn[e].docs[i]) => ReadNow(Attachments[e][i])'.role # "UNKNOWN"
      BY <1>2, Constants, ReadingStays DEF KnownRun
    <3> QED
      BY <1>2, <3>1, <3>2 DEF KnownRun, Known
  <2> QED
    BY <2>1, <2>2 DEF RolesInv
<1>3. ASSUME Engine
      PROVE  RolesInv'
  <2>1. CacheStays /\ UNCHANGED doc
    BY <1>3, EngineFacts DEF CacheStays
  <2>2. ASSUME NEW e \in Emails, NEW t, txn' = [txn EXCEPT ![e] = t], Reads(e, t), GoodRun(e, txn[e]),
               txn[e].pc = "called"
        PROVE  RolesInv'
    <3>1. KnownRun(e, txn[e])
      BY <2>2 DEF RolesInv, Idle
    <3>2. KnownRun(e, t)'
      BY <2>1, <2>2, <3>1, KnownReads
    <3> QED
      BY <2>1, <2>2, <3>2, RolesStep
  <2> QED
    BY <1>2, <1>3, <2>1, <2>2, EngineFacts
<1>4. CASE Age \/ CleanUp \/ UNCHANGED vars
  <2>1. UNCHANGED <<doc, txn, ocrCache>>
    BY <1>4 DEF Age, CleanUp, vars, storedVars, ocrVars
  <2> QED
    BY <1>2, <2>1 DEF CacheStays
<1> QED
  BY <1>1, <1>3, <1>4, WorkerRoles DEF Next

LEMMA RolesGiveText ==
  ASSUME KeptInv, RolesInv
  PROVE  TextAtHand
<1> SUFFICES ASSUME NEW e \in Emails, txn[e].pc = "lookup", NEW k \in 1..2
             PROVE  Targets(e)[k][2] \in txn[e].legible
  BY DEF TextAtHand
<1>1. PICK i \in txn[e].read : /\ Targets(e)[k] = <<e, i>> /\ txn[e].docs[i] \in DocumentRows
                               /\ txn[e].docs[i].role = RoleAt(k)
  BY TargetFacts DEF KeptInv
<1>2. KnownRun(e, txn[e])
  BY DEF RolesInv, Idle
<1>3. Known(txn[e].docs[i])
  BY <1>1, Constants DEF Known, RoleAt
<1> QED
  BY <1>1, <1>2, <1>3 DEF KnownRun

LEMMA VersionStays ==
  ASSUME [Next]_vars, \A v \in Versions : ~Restart(v)
  PROVE  version' = version
<1>1. ASSUME NEW e \in Emails, Worker(e)
      PROVE  version' = version
  <2>1. ReadingStep(e) => version' = version
    BY DEF ReadingStep, FetchFails, ReadFile, ReaderRaises, AskOcr, LockOcr, OcrTimesOut
  <2>2. Decide(e) \/ Commit(e) \/ RollsBack(e) => version' = version
    BY DEF Decide, Commit, RollsBack
  <2>3. \A k \in 1..2 : LookUp(e, k) \/ Persist(e, k) => version' = version
    BY DEF LookUp, Persist
  <2>4. \A compared \in BOOLEAN : Conclude(e, compared) => version' = version
    BY DEF Conclude
  <2> QED
    BY <1>1, <2>1, <2>2, <2>3, <2>4 DEF Worker, ReadingStep
<1>2. Engine => version' = version
  BY DEF Engine, HelperEnters, HelperReturns
<1> QED
  BY <1>1, <1>2 DEF Next, Begin, Age, CleanUp, vars

(* In the life of one process both hold without a condition on the runs: a        *)
(* document has a role because its scan could be read, and the shared reader      *)
(* never forgets an answer, so the text is at hand whenever fields are extracted. *)
THEOREM FieldsAreOwnInOneProcess ==
  Spec /\ [][\A v \in Versions : ~Restart(v)]_vars => [](FieldsMatch /\ EntriesComplete)
<1> DEFINE Stays == \A v \in Versions : ~Restart(v)
<1>1. Init => KeptInv /\ CallsInv /\ FieldsInv({}) /\ RolesInv
  <2>1. Init => RolesInv
    BY ExtractionFacts DEF Init, RolesInv, Known, Stored
  <2> QED
    BY <2>1, InitKept, InitCalls, InitFields
<1>2. KeptInv /\ CallsInv /\ FieldsInv({}) /\ RolesInv /\ [Next]_vars /\ [Stays]_vars
        => KeptInv' /\ CallsInv' /\ FieldsInv({})' /\ RolesInv'
  <2> SUFFICES ASSUME KeptInv, CallsInv, FieldsInv({}), RolesInv, [Next]_vars, [Stays]_vars
               PROVE  KeptInv' /\ CallsInv' /\ FieldsInv({})' /\ RolesInv'
    OBVIOUS
  <2>1. TextAtHand
    BY RolesGiveText
  <2>2. KeptInv' /\ CallsInv'
    BY NextKept, NextCalls
  <2>3. CASE Stays
    <3>1. version' = version
      BY <2>3, VersionStays
    <3>2. FieldsInv({})'
      BY <2>1, <3>1, NextFields
    <3>3. RolesInv'
      BY <2>3, NextRoles
    <3> QED
      BY <2>2, <3>2, <3>3
  <2>4. CASE UNCHANGED vars
    <3>1. version' = version /\ UNCHANGED <<doc, txn, ocrCache>>
      BY <2>4 DEF vars, storedVars, ocrVars
    <3>2. FieldsInv({})'
      BY <2>1, <3>1, NextFields
    <3>3. RolesInv'
      BY <3>1 DEF RolesInv, KnownRun, Known, Stored, ReadNow
    <3> QED
      BY <2>2, <3>2, <3>3
  <2> QED
    BY <2>3, <2>4
<1>3. KeptInv /\ FieldsInv({}) => FieldsMatch /\ EntriesComplete
  BY FieldsFollow
<1> HIDE DEF Stays
<1>4. Spec /\ [][Stays]_vars => [](FieldsMatch /\ EntriesComplete)
  BY <1>1, <1>2, <1>3, PTL DEF Spec
<1> QED
  BY <1>4 DEF Stays
----------------------------------------------------------------------------
(* Failures *)

HurtRun(t) ==
  /\ t.technical # "NONE" => t.hurt
  /\ t.pc = "commit" /\ t.result = "FAILED" => t.hurt
  /\ t.pc \in {"read", "ocr"} => t.call = 0

(* A target that was looked up and not put down for computation is FAILED only    *)
(* in a run that met a failure.                                                   *)
GivenUpInv == \A e \in Emails, k \in 1..2 :
  (txn[e].pc = "lookup" /\ k <= txn[e].call /\ k \notin txn[e].missed
    /\ Row(Targets(e)[k]).status = "FAILED") => txn[e].hurt

HurtInv ==
  /\ FailedWasHurt
  /\ \A e \in Emails : txn[e] = Idle \/ HurtRun(txn[e])
  /\ GivenUpInv

(* While the version stays, a key points to an extraction of that key, and to a    *)
(* complete one: no source is refused for being another key's, and none is empty.  *)
LEMMA SourcesServe ==
  ASSUME KeptInv, FieldsInv({Blank}), NEW x \in Extractions
  PROVE  /\ \A y \in Reusable(x) : ~(entry[KeyOf(x)] = NoEntry /\ PointedTo(y))
         /\ ~(entry[KeyOf(x)] = NoEntry /\ PointedTo(x))
         /\ entry[KeyOf(x)] # NoEntry => Stored(entry[KeyOf(x)]).fields # NoFields
<1>1. KeyOf(x) \in Keys /\ TypeOK /\ SourcesInv
  BY KeyFacts DEF KeptInv
<1>2. ASSUME NEW y \in Extractions, KeyOf(y) = KeyOf(x), entry[KeyOf(x)] = NoEntry
      PROVE  ~PointedTo(y)
  BY <1>2, Constants DEF PointedTo, FieldsInv
<1>3. ASSUME NEW y \in Reusable(x)
      PROVE  ~(entry[KeyOf(x)] = NoEntry /\ PointedTo(y))
  <2>1. CopiesFrom(x, y)
    BY <1>1, <1>3, ReusableFacts
  <2>2. y \in Extractions /\ KeyOf(y) = KeyOf(x)
    BY <2>1, CopiedFields DEF CopiesFrom
  <2> QED
    BY <1>2, <2>2
<1>4. ASSUME entry[KeyOf(x)] # NoEntry
      PROVE  Stored(entry[KeyOf(x)]).fields # NoFields
  <2>1. PICK y \in Extractions : y = entry[KeyOf(x)]
    BY <1>1, <1>4 DEF TypeOK
  <2>2. HasDocument(y) /\ Stored(y).status = "EXTRACTED"
    BY <1>1, <1>4, <2>1 DEF SourcesInv, FieldsInv
  <2>3. Stored(y).fields \in {KeyOf(y)} \cup {Blank}
    BY <2>2 DEF FieldsInv, Right
  <2>4. KeyOf(y) # NoFields /\ Blank # NoFields
    BY <1>1, KeyFacts, FieldsDiffer
  <2> QED
    BY <2>1, <2>3, <2>4
<1> QED
  BY <1>2, <1>3, <1>4

LEMMA WrittenFacts ==
  ASSUME TypeOK, NEW e \in Emails, NEW t, GoodRun(e, t), NEW i \in t.read, NEW row \in DocumentRows
  PROVE  /\ With(t, <<e, i>>, row).docs[i] = row /\ With(t, <<e, i>>, row).hurt = t.hurt
         /\ [With(t, <<e, i>>, row) EXCEPT !.hurt = TRUE].hurt
         /\ \A y \in Extractions : HasDocument(y) \/ y = <<e, i>> =>
              /\ With(Registered(t, <<e, i>>, y), <<e, i>>, row).docs[i] = row
              /\ With(Registered(t, <<e, i>>, y), <<e, i>>, row).hurt = t.hurt
<1> DEFINE x == <<e, i>>
<1>1. t \in Runs(e) /\ i \in Places(e)
  BY DEF GoodRun, Runs
<1>2. x \in Extractions /\ x[1] = e /\ x[2] = i
  BY <1>1, ExtractionFacts
<1>3. ASSUME NEW u \in Runs(e)
      PROVE  /\ With(u, x, row) \in Runs(e) /\ With(u, x, row).hurt = u.hurt
             /\ With(u, x, row).docs[i] = row
  <2>1. /\ With(u, x, row) \in Runs(e) /\ With(u, x, row).hurt = u.hurt
        /\ \A j \in Places(e) : With(u, x, row).docs[j] = IF j = i THEN row ELSE u.docs[j]
    BY <1>1, WithRow
  <2> QED
    BY <1>1, <2>1
<1> HIDE DEF x
<1>4. With(t, x, row) \in Runs(e) => [With(t, x, row) EXCEPT !.hurt = TRUE].hurt
  BY DEF Runs
<1>5. ASSUME NEW y \in Extractions, HasDocument(y) \/ y = x
      PROVE  Registered(t, x, y) \in Runs(e) /\ Registered(t, x, y).hurt = t.hurt
  <2>1. GoodRun(e, Registered(t, x, y)) /\ Registered(t, x, y).hurt = t.hurt
    BY <1>2, <1>5, RegisteredFacts
  <2> QED
    BY <2>1 DEF GoodRun
<1>6. ASSUME NEW y \in Extractions, HasDocument(y) \/ y = x
      PROVE  /\ With(Registered(t, x, y), x, row).docs[i] = row
             /\ With(Registered(t, x, y), x, row).hurt = t.hurt
  BY <1>3, <1>5, <1>6
<1> QED
  BY <1>1, <1>3, <1>4, <1>6 DEF x
\* What LookUp or Persist of the target k makes of the run.
HandledRun(e, k, t) ==
  /\ txn[e].hurt => t.hurt
  /\ k \in t.missed \/ t.docs[Targets(e)[k][2]].status # "FAILED" \/ t.hurt

LEMMA WrittenHandled ==
  ASSUME KeptInv, NEW e \in Emails, txn[e].pc = "lookup", NEW k \in 1..2,
         NEW b, GoodRun(e, b), b.read = txn[e].read, b.hurt = txn[e].hurt
  PROVE  LET x == Targets(e)[k]
         IN  /\ HandledRun(e, k, [With(b, x, NotExtracted(Row(x))) EXCEPT !.hurt = TRUE])
             /\ \A y : CopiesFrom(x, y) =>
                  /\ HandledRun(e, k, With(Registered(b, x, y), x, Extracted(Row(x), Stored(y).fields)))
                  /\ HandledRun(e, k, With(b, x, Extracted(Row(x), Stored(y).fields)))
             /\ HandledRun(e, k, With(Registered(b, x, x), x, Extracted(Row(x), FieldsRead(x))))
<1> DEFINE x == Targets(e)[k]
<1>1. TypeOK /\ RunsInv /\ version \in Versions
  BY DEF KeptInv, TypeOK
<1>2. PICK i \in txn[e].read : /\ x = <<e, i>> /\ i \in Places(e) /\ Row(x) = txn[e].docs[i]
                               /\ txn[e].docs[i] \in DocumentRows
  BY <1>1, TargetFacts
<1>3. x \in Extractions /\ x[2] = i
  BY <1>2, ExtractionFacts
<1>4. \A t : HandledRun(e, k, t) <=>
        /\ txn[e].hurt => t.hurt
        /\ k \in t.missed \/ t.docs[i].status # "FAILED" \/ t.hurt
  BY <1>3 DEF HandledRun
<1> HIDE DEF x
<1>5. HandledRun(e, k, [With(b, x, NotExtracted(Row(x))) EXCEPT !.hurt = TRUE])
  <2>1. NotExtracted(Row(x)) \in DocumentRows
    BY <1>1, <1>2, RewrittenFacts
  <2>2. [With(b, x, NotExtracted(Row(x))) EXCEPT !.hurt = TRUE].hurt
    BY <1>1, <1>2, <2>1, WrittenFacts
  <2> QED
    BY <1>4, <2>2
<1>6. ASSUME NEW fields \in Keys \cup {Blank, NoFields}
      PROVE  /\ HandledRun(e, k, With(b, x, Extracted(Row(x), fields)))
             /\ \A y \in Extractions : HasDocument(y) \/ y = x =>
                  HandledRun(e, k, With(Registered(b, x, y), x, Extracted(Row(x), fields)))
  <2> DEFINE row == Extracted(Row(x), fields)
  <2>1. row \in DocumentRows /\ row.status = "EXTRACTED"
    BY <1>1, <1>2, RewrittenFacts
  <2> HIDE DEF row
  <2>2. With(b, x, row).docs[i] = row /\ With(b, x, row).hurt = b.hurt
    BY <1>1, <1>2, <2>1, WrittenFacts
  <2>3. \A y \in Extractions : HasDocument(y) \/ y = x =>
          /\ With(Registered(b, x, y), x, row).docs[i] = row
          /\ With(Registered(b, x, y), x, row).hurt = b.hurt
    BY <1>1, <1>2, <2>1, WrittenFacts
  <2>4. HandledRun(e, k, With(b, x, row))
    BY <1>4, <2>1, <2>2
  <2>5. \A y \in Extractions : HasDocument(y) \/ y = x => HandledRun(e, k, With(Registered(b, x, y), x, row))
    BY <1>4, <2>1, <2>3
  <2> QED
    BY <2>4, <2>5 DEF row
<1>7. FieldsRead(x) \in Keys \cup {Blank}
  BY <1>1, <1>3, KeyFacts
<1>8. ASSUME NEW y, CopiesFrom(x, y)
      PROVE  y \in Extractions /\ HasDocument(y) /\ Stored(y).fields \in Keys \cup {Blank, NoFields}
  <2>1. y \in Extractions /\ HasDocument(y) /\ Stored(y) \in DocumentRows
    BY <1>1, <1>8, StoredFacts DEF CopiesFrom
  <2> QED
    BY <2>1 DEF DocumentRows
<1> QED
  BY <1>3, <1>5, <1>6, <1>7, <1>8 DEF x

LEMMA LookUpHandled ==
  ASSUME KeptInv, FieldsInv({Blank}), NEW e \in Emails, NEW k \in 1..2, LookUp(e, k)
  PROVE  HandledRun(e, k, txn'[e])
<1> DEFINE x == Targets(e)[k]
           b == [txn[e] EXCEPT !.call = k]
           c == [b EXCEPT !.missed = @ \cup {k}]
<1>1. txn[e].pc = "lookup" /\ GoodRun(e, txn[e]) /\ txn[e] \in Runs(e)
  BY RunningFacts DEF LookUp
<1>2. PICK i \in txn[e].read : x = <<e, i>> /\ Row(x) = txn[e].docs[i] /\ i \in Places(e)
  BY <1>1, TargetFacts DEF KeptInv
<1>3. x \in Extractions /\ x[2] = i
  BY <1>2, ExtractionFacts
<1>4. /\ b \in Runs(e) /\ b.docs = txn[e].docs /\ b.pending = txn[e].pending /\ b.pc = txn[e].pc
      /\ b.missed = txn[e].missed /\ b.read = txn[e].read /\ b.next = txn[e].next /\ b.hurt = txn[e].hurt
  BY <1>1 DEF Runs
<1>5. GoodRun(e, b)
  BY <1>1, <1>4 DEF GoodRun
<1>6. c.missed = txn[e].missed \cup {k} /\ c.hurt = txn[e].hurt
  BY <1>1 DEF Runs
<1>7. \/ Done(x) /\ txn' = [txn EXCEPT ![e] = b]
      \/ txn' = [txn EXCEPT ![e] = c]
      \/ \E y \in Reusable(x) : txn' = [txn EXCEPT ![e] =
            With(Registered(b, x, y), x, Extracted(Row(x), Stored(y).fields))]
      \/ Reusable(x) # {} /\ \A y \in Reusable(x) : entry[KeyOf(x)] = NoEntry /\ PointedTo(y)
      \/ txn' = [txn EXCEPT ![e] = [With(b, x, NotExtracted(Row(x))) EXCEPT !.hurt = TRUE]]
  BY DEF LookUp
<1>8. \A t : txn' = [txn EXCEPT ![e] = t] => txn'[e] = t
  BY Zenon DEF KeptInv, TypeOK
<1>9. /\ HandledRun(e, k, [With(b, x, NotExtracted(Row(x))) EXCEPT !.hurt = TRUE])
      /\ \A y : CopiesFrom(x, y) =>
           HandledRun(e, k, With(Registered(b, x, y), x, Extracted(Row(x), Stored(y).fields)))
  BY <1>1, <1>4, <1>5, WrittenHandled
<1>10. HandledRun(e, k, c)
  BY <1>6 DEF HandledRun
<1>11. Done(x) => HandledRun(e, k, b)
  BY <1>2, <1>3, <1>4 DEF HandledRun, Done, Complete
<1>12. \A y \in Reusable(x) : CopiesFrom(x, y)
  BY <1>3, ReusableFacts DEF KeptInv
<1>13. \A y \in Reusable(x) : ~(entry[KeyOf(x)] = NoEntry /\ PointedTo(y))
  BY <1>3, SourcesServe
<1> HIDE DEF x, b, c
<1> QED
  BY <1>7, <1>8, <1>9, <1>10, <1>11, <1>12, <1>13

LEMMA PersistHandled ==
  ASSUME KeptInv, FieldsInv({Blank}), NEW e \in Emails, NEW k \in 1..2, Persist(e, k)
  PROVE  HandledRun(e, k, txn'[e])
<1> DEFINE x == Targets(e)[k]
           b == [txn[e] EXCEPT !.missed = @ \ {k}]
           winner == entry[KeyOf(x)]
<1>1. txn[e].pc = "lookup" /\ GoodRun(e, txn[e]) /\ txn[e] \in Runs(e)
  BY RunningFacts DEF Persist
<1>2. PICK i \in txn[e].read : x = <<e, i>> /\ i \in Places(e)
  BY <1>1, TargetFacts DEF KeptInv
<1>3. x \in Extractions /\ KeyOf(x) \in Keys /\ TypeOK /\ SourcesInv
  BY <1>2, ExtractionFacts, KeyFacts DEF KeptInv
<1>4. /\ b \in Runs(e) /\ b.docs = txn[e].docs /\ b.pending = txn[e].pending /\ b.pc = txn[e].pc
      /\ b.read = txn[e].read /\ b.next = txn[e].next /\ b.hurt = txn[e].hurt
  BY <1>1 DEF Runs
<1>5. GoodRun(e, b)
  BY <1>1, <1>4 DEF GoodRun
<1>6. \/ txn' = [txn EXCEPT ![e] = Fresh(b, x)]
      \/ txn' = [txn EXCEPT ![e] = [With(b, x, NotExtracted(Row(x))) EXCEPT !.hurt = TRUE]]
  BY DEF Persist
<1>7. \A t : txn' = [txn EXCEPT ![e] = t] => txn'[e] = t
  BY Zenon DEF KeptInv, TypeOK
<1>8. /\ HandledRun(e, k, [With(b, x, NotExtracted(Row(x))) EXCEPT !.hurt = TRUE])
      /\ \A y : CopiesFrom(x, y) => HandledRun(e, k, With(b, x, Extracted(Row(x), Stored(y).fields)))
      /\ HandledRun(e, k, With(Registered(b, x, x), x, Extracted(Row(x), FieldsRead(x))))
  BY <1>1, <1>4, <1>5, WrittenHandled
<1>9. ~(winner = NoEntry /\ PointedTo(x)) /\ (winner # NoEntry => Stored(winner).fields # NoFields)
  BY <1>3, SourcesServe
<1>10. winner # NoEntry => CopiesFrom(x, winner)
  BY <1>3, <1>9 DEF CopiesFrom, SourcesInv, TypeOK
<1> HIDE DEF b, x
<1>11. \/ Fresh(b, x) = With(Registered(b, x, x), x, Extracted(Row(x), FieldsRead(x)))
       \/ winner # NoEntry /\ Fresh(b, x) = With(b, x, Extracted(Row(x), Stored(winner).fields))
  BY <1>9 DEF Fresh
<1> HIDE DEF winner
<1> QED
  BY <1>6, <1>7, <1>8, <1>10, <1>11
(* A step of one run, which stores nothing. *)
LEMMA HurtStep ==
  ASSUME KeptInv, HurtInv, NEW e \in Emails, NEW t, txn' = [txn EXCEPT ![e] = t],
         t = Idle \/ HurtRun(t), UNCHANGED <<mail, hurt>>,
         \A k \in 1..2 : t.pc = "lookup" /\ k <= t.call /\ k \notin t.missed =>
           /\ txn[e].pc = "lookup" /\ t.read = txn[e].read
           /\ \A i \in t.read : t.docs[i].role = txn[e].docs[i].role
           /\ t.docs[Targets(e)[k][2]].status = "FAILED" => t.hurt
  PROVE  HurtInv'
<1>1. \A d \in Emails : txn'[d] = IF d = e THEN t ELSE txn[d]
  BY Zenon DEF KeptInv, TypeOK
<1>2. FailedWasHurt'
  BY DEF HurtInv, FailedWasHurt
<1>3. \A d \in Emails : txn'[d] = Idle \/ HurtRun(txn'[d])
  BY <1>1 DEF HurtInv
<1>4. ASSUME NEW d \in Emails, NEW k \in 1..2, txn'[d].pc = "lookup", k <= txn'[d].call,
             k \notin txn'[d].missed, Row(Targets(d)[k])'.status = "FAILED"
      PROVE  txn'[d].hurt
  <2>1. /\ txn[d].pc = "lookup" /\ txn'[d].read = txn[d].read
        /\ \A i \in txn[d].read : txn'[d].docs[i].role = txn[d].docs[i].role
    BY <1>1, <1>4
  <2>2. PICK i \in txn[d].read : Targets(d)[k] = <<d, i>> /\ Row(Targets(d)[k]) = txn[d].docs[i]
    BY <2>1, TargetFacts DEF KeptInv
  <2>3. Targets(d)'[k] = <<d, i>>
    BY <2>1, <2>2, TargetsKept
  <2>4. Row(Targets(d)[k])' = txn'[d].docs[i]
    BY <2>3 DEF Row
  <2>5. CASE d = e
    BY <1>1, <1>4, <2>2, <2>4, <2>5
  <2>6. CASE d # e
    BY <1>1, <1>4, <2>1, <2>2, <2>4, <2>6 DEF HurtInv, GivenUpInv
  <2> QED
    BY <2>5, <2>6
<1>5. GivenUpInv'
  BY <1>4 DEF GivenUpInv
<1> QED
  BY <1>2, <1>3, <1>5 DEF HurtInv

LEMMA ReadsHurt ==
  ASSUME KeptInv, HurtInv, NEW e \in Emails, txn[e].pc \in {"read", "ocr", "called"},
         NEW t, txn' = [txn EXCEPT ![e] = t], Reads(e, t), UNCHANGED <<mail, hurt>>
  PROVE  HurtInv'
<1>1. HurtRun(txn[e])
  BY DEF HurtInv, Idle
<1>2. HurtRun(t) /\ t.pc # "lookup"
  BY <1>1 DEF HurtRun, Reads
<1> QED
  BY <1>2, HurtStep

LEMMA QuietHurt ==
  ASSUME HurtInv, UNCHANGED <<mail, hurt, txn>>
  PROVE  HurtInv'
<1>1. FailedWasHurt' /\ \A e \in Emails : txn'[e] = Idle \/ HurtRun(txn[e])'
  BY DEF HurtInv, FailedWasHurt, HurtRun
<1>2. ASSUME NEW e \in Emails, NEW k \in 1..2
      PROVE  Row(Targets(e)[k])' = Row(Targets(e)[k])
  <2>1. Targets(e)'[k] = Targets(e)[k]
    BY TargetsKept
  <2> QED
    BY <2>1 DEF Row
<1>3. GivenUpInv'
  BY <1>2 DEF HurtInv, GivenUpInv
<1> QED
  BY <1>1, <1>3 DEF HurtInv

LEMMA EngineHurt ==
  ASSUME KeptInv, CallsInv, HurtInv, Engine
  PROVE  HurtInv'
<1>1. UNCHANGED <<mail, hurt>>
  BY DEF Engine, HelperEnters, HelperReturns, storedVars
<1> QED
  BY <1>1, EngineFacts, QuietHurt, ReadsHurt

LEMMA DecideHurt ==
  ASSUME KeptInv, HurtInv, NEW e \in Emails, Decide(e)
  PROVE  HurtInv'
<1>1. txn[e].pc = "read" /\ UNCHANGED <<mail, hurt>>
  BY DEF Decide, storedVars
<1>2. PICK t : /\ txn' = [txn EXCEPT ![e] = t] /\ t.pc \in {"lookup", "commit"}
               /\ t.technical = txn[e].technical /\ t.hurt = txn[e].hurt /\ t.call = txn[e].call
               /\ t.pc = "commit" /\ t.result = "FAILED" => t.technical # "NONE"
  BY DecidedFacts DEF KeptInv
<1>3. HurtRun(txn[e])
  BY <1>1 DEF HurtInv, Idle
<1>4. HurtRun(t) /\ t.call = 0
  BY <1>1, <1>2, <1>3 DEF HurtRun
<1>5. \A k \in 1..2 : ~(k <= t.call)
  BY <1>4
<1> QED
  BY <1>1, <1>2, <1>4, <1>5, HurtStep

LEMMA ExtractsHurt ==
  ASSUME KeptInv, HurtInv, NEW e \in Emails, NEW k \in 1..2, txn[e].pc = "lookup",
         NEW t, txn' = [txn EXCEPT ![e] = t], UNCHANGED <<mail, hurt>>, GoodRun(e, t),
         SameReading(txn[e], t), t.docs = txn[e].docs \/ Rewritten(e, Targets(e)[k], t),
         HandledRun(e, k, t),
         \A j \in 1..2 : j # k /\ j <= t.call /\ j \notin t.missed => j <= txn[e].call /\ j \notin txn[e].missed
  PROVE  HurtInv'
<1>1. HurtRun(txn[e]) /\ GoodRun(e, txn[e]) /\ TypeOK /\ RunsInv /\ version \in Versions
  BY RunningFacts DEF HurtInv, Idle, KeptInv, TypeOK
<1>2. HurtRun(t)
  BY <1>1 DEF HurtRun, SameReading, HandledRun
<1>3. PICK i \in txn[e].read : /\ Targets(e)[k] = <<e, i>> /\ Row(Targets(e)[k]) = txn[e].docs[i]
                               /\ i \in Places(e) /\ txn[e].docs[i] \in DocumentRows
                               /\ txn[e].docs[i].role = RoleAt(k)
  BY <1>1, TargetFacts
<1>4. t.docs = txn[e].docs \/ (\A j \in Places(e) \ {i} : t.docs[j] = txn[e].docs[j])
  BY <1>3 DEF Rewritten, Replaced
<1>5. t.docs[i].role = txn[e].docs[i].role
  <2> DEFINE x == Targets(e)[k]
  <2>1. x \in Extractions /\ KeyOf(x) \in Keys /\ FieldsRead(x) \in Keys \cup {Blank}
    BY <1>1, <1>3, ExtractionFacts, KeyFacts
  <2>2. Row(x) = txn[e].docs[i] /\ Row(x) \in DocumentRows /\ x = <<e, i>>
    BY <1>3
  <2>3. t.docs = txn[e].docs \/ Rewritten(e, x, t)
    OBVIOUS
  <2> HIDE DEF x
  <2>4. \A fields \in Keys \cup {Blank, NoFields} :
          Extracted(Row(x), fields).role = Row(x).role /\ NotExtracted(Row(x)).role = Row(x).role
    BY <1>1, <2>2, RewrittenFacts
  <2>5. \A y : CopiesFrom(x, y) => Stored(y).fields \in Keys \cup {Blank, NoFields}
    <3> SUFFICES ASSUME NEW y, CopiesFrom(x, y)
                 PROVE  Stored(y).fields \in Keys \cup {Blank, NoFields}
      OBVIOUS
    <3>1. Stored(y) \in DocumentRows
      BY <1>1, StoredFacts DEF CopiesFrom
    <3> QED
      BY <3>1 DEF DocumentRows
  <2>6. Blank \in Keys \cup {Blank, NoFields}
    OBVIOUS
  <2>7. CASE Rewritten(e, x, t)
    <3>1. PICK j \in txn[e].read :
            /\ x = <<e, j>>
            /\ \/ t.docs[j] = NotExtracted(Row(x))
               \/ \E y : CopiesFrom(x, y) /\ t.docs[j] = Extracted(Row(x), Stored(y).fields)
               \/ t.docs[j] = Extracted(Row(x), FieldsRead(x))
      BY <2>7 DEF Rewritten, Replaced
    <3>2. i = j
      BY <2>2, <3>1
    <3> QED
      BY <2>1, <2>2, <2>4, <2>5, <2>6, <3>1, <3>2
  <2> QED
    BY <2>3, <2>7
<1>6. t.read = txn[e].read /\ \A d \in t.read : t.docs[d].role = txn[e].docs[d].role
  <2>1. t.read = txn[e].read /\ t.read \subseteq Places(e)
    BY <1>1 DEF SameReading, GoodRun, Runs
  <2> QED
    BY <1>4, <1>5, <2>1
<1>7. ASSUME NEW j \in 1..2, j <= t.call, j \notin t.missed, t.docs[Targets(e)[j][2]].status = "FAILED"
      PROVE  t.hurt
  <2>1. CASE j = k
    BY <1>7, <2>1 DEF HandledRun
  <2>2. CASE j # k
    <3>1. PICK d \in txn[e].read : /\ Targets(e)[j] = <<e, d>> /\ Row(Targets(e)[j]) = txn[e].docs[d]
                                   /\ d \in Places(e) /\ txn[e].docs[d].role = RoleAt(j)
      BY <1>1, TargetFacts
    <3>2. d # i
      BY <1>3, <2>2, <3>1 DEF RoleAt
    <3>3. Row(Targets(e)[j]).status = "FAILED"
      BY <1>4, <1>7, <3>1, <3>2
    <3>4. txn[e].hurt
      BY <1>7, <2>2, <3>3 DEF HurtInv, GivenUpInv
    <3> QED
      BY <3>4 DEF HandledRun
  <2> QED
    BY <2>1, <2>2
<1> QED
  BY <1>2, <1>6, <1>7, HurtStep

LEMMA LookUpHurt ==
  ASSUME KeptInv, FieldsInv({Blank}), HurtInv, NEW e \in Emails, NEW k \in 1..2, LookUp(e, k)
  PROVE  HurtInv'
<1>1. txn[e].pc = "lookup" /\ txn[e].call = k - 1 /\ UNCHANGED <<mail, hurt>>
  BY DEF LookUp, storedVars
<1>2. PICK t : /\ txn' = [txn EXCEPT ![e] = t] /\ GoodRun(e, t) /\ SameReading(txn[e], t)
               /\ t.call = k /\ txn[e].missed \subseteq t.missed
               /\ t.docs = txn[e].docs \/ Rewritten(e, Targets(e)[k], t)
  BY LookedUp
<1>3. txn'[e] = t
  BY <1>2, Zenon DEF KeptInv, TypeOK
<1>4. HandledRun(e, k, t)
  BY <1>3, LookUpHandled
<1>5. \A j \in 1..2 : j # k /\ j <= t.call /\ j \notin t.missed => j <= txn[e].call /\ j \notin txn[e].missed
  BY <1>1, <1>2
<1> QED
  BY <1>1, <1>2, <1>4, <1>5, ExtractsHurt

LEMMA PersistHurt ==
  ASSUME KeptInv, FieldsInv({Blank}), HurtInv, NEW e \in Emails, NEW k \in 1..2, Persist(e, k)
  PROVE  HurtInv'
<1>1. txn[e].pc = "lookup" /\ txn[e].call = 2 /\ UNCHANGED <<mail, hurt>>
  BY DEF Persist, storedVars
<1>2. PICK t : /\ txn' = [txn EXCEPT ![e] = t] /\ GoodRun(e, t) /\ SameReading(txn[e], t)
               /\ t.missed = txn[e].missed \ {k} /\ t.call = 2 /\ Rewritten(e, Targets(e)[k], t)
  BY Persisted
<1>3. txn'[e] = t
  BY <1>2, Zenon DEF KeptInv, TypeOK
<1>4. HandledRun(e, k, t)
  BY <1>3, PersistHandled
<1>5. \A j \in 1..2 : j # k /\ j <= t.call /\ j \notin t.missed => j <= txn[e].call /\ j \notin txn[e].missed
  BY <1>1, <1>2
<1> QED
  BY <1>1, <1>2, <1>4, <1>5, ExtractsHurt

LEMMA ConcludeHurt ==
  ASSUME KeptInv, HurtInv, NEW e \in Emails, NEW compared \in BOOLEAN, Conclude(e, compared)
  PROVE  HurtInv'
<1>1. /\ txn[e].pc = "lookup" /\ txn[e].call = 2 /\ txn[e].missed = {} /\ UNCHANGED <<mail, hurt>>
  BY DEF Conclude, storedVars
<1>2. PICK t : /\ txn' = [txn EXCEPT ![e] = t] /\ t.pc = "commit" /\ t.technical = txn[e].technical
               /\ t.hurt = (txn[e].hurt \/ ~compared)
               /\ t.result = "FAILED" =>
                    ~compared \/ \E k \in 1..2 : Row(Targets(e)[k]).status = "FAILED"
  BY ConcludedFacts
<1>3. HurtRun(txn[e])
  BY <1>1 DEF HurtInv, Idle
<1>4. \A k \in 1..2 : Row(Targets(e)[k]).status = "FAILED" => txn[e].hurt
  BY <1>1 DEF HurtInv, GivenUpInv
<1>5. HurtRun(t)
  BY <1>2, <1>3, <1>4 DEF HurtRun
<1> QED
  BY <1>1, <1>2, <1>5, HurtStep

LEMMA CommitHurt ==
  ASSUME KeptInv, HurtInv, NEW e \in Emails, Commit(e)
  PROVE  HurtInv'
<1>1. /\ txn[e].pc = "commit" /\ mail' = [mail EXCEPT ![e] = txn[e].result]
      /\ hurt' = [hurt EXCEPT ![e] = txn[e].hurt] /\ txn' = [txn EXCEPT ![e] = Idle]
  BY DEF Commit
<1>2. HurtRun(txn[e])
  BY <1>1 DEF HurtInv, Idle
<1>3. \A d \in Emails : /\ mail'[d] = IF d = e THEN txn[e].result ELSE mail[d]
                        /\ hurt'[d] = IF d = e THEN txn[e].hurt ELSE hurt[d]
                        /\ txn'[d] = IF d = e THEN Idle ELSE txn[d]
  BY <1>1, Zenon DEF KeptInv, TypeOK
<1>4. FailedWasHurt'
  BY <1>1, <1>2, <1>3 DEF HurtInv, FailedWasHurt, HurtRun
<1>5. \A d \in Emails : txn'[d] = Idle \/ HurtRun(txn'[d])
  BY <1>3 DEF HurtInv
<1>6. ASSUME NEW d \in Emails, NEW k \in 1..2, txn'[d].pc = "lookup"
      PROVE  txn'[d] = txn[d] /\ Row(Targets(d)[k])' = Row(Targets(d)[k])
  <2>1. txn'[d] = txn[d]
    BY <1>3, <1>6 DEF Idle
  <2>2. Targets(d)'[k] = Targets(d)[k] /\ \E i : Targets(d)[k] = <<d, i>>
    BY <1>6, <2>1, TargetsKept, TargetFacts DEF KeptInv
  <2> QED
    BY <2>1, <2>2 DEF Row
<1>7. GivenUpInv'
  BY <1>6 DEF HurtInv, GivenUpInv
<1> QED
  BY <1>4, <1>5, <1>7 DEF HurtInv

LEMMA NextHurt ==
  ASSUME KeptInv, CallsInv, FieldsInv({Blank}), HurtInv, [Next]_vars
  PROVE  HurtInv'
<1>1. ASSUME NEW e \in Emails, NEW origin \in {"PROVIDER", "STORED"}, Begin(e, origin)
      PROVE  HurtInv'
  <2> DEFINE t == [pc |-> "read", origin |-> origin, next |-> 1, docs |-> doc[e], read |-> {},
                   legible |-> {}, technical |-> "NONE", call |-> 0, missed |-> {}, pending |-> {},
                   result |-> "NEW", hurt |-> FALSE]
  <2>1. txn' = [txn EXCEPT ![e] = t] /\ UNCHANGED <<mail, hurt>>
    BY <1>1 DEF Begin, storedVars
  <2>2. HurtRun(t) /\ t.pc # "lookup"
    BY DEF HurtRun
  <2> HIDE DEF t
  <2> QED
    BY <2>1, <2>2, HurtStep
<1>2. ASSUME NEW e \in Emails, Worker(e)
      PROVE  HurtInv'
  <2>1. CASE ReadingStep(e)
    <3>1. UNCHANGED <<mail, hurt>>
      BY <2>1 DEF ReadingStep, FetchFails, ReadFile, ReaderRaises, AskOcr, LockOcr, OcrTimesOut, storedVars
    <3> QED
      BY <2>1, <3>1, ReadingFacts, ReadsHurt
  <2>2. CASE RollsBack(e)
    <3>1. txn' = [txn EXCEPT ![e] = Idle] /\ UNCHANGED <<mail, hurt>> /\ Idle.pc = "idle"
      BY <2>2 DEF RollsBack, storedVars, Idle
    <3> QED
      BY <3>1, HurtStep
  <2> QED
    BY <1>2, <2>1, <2>2, DecideHurt, LookUpHurt, PersistHurt, ConcludeHurt, CommitHurt DEF Worker, ReadingStep
<1>3. ASSUME NEW v \in Versions, Restart(v)
      PROVE  HurtInv'
  <2>1. UNCHANGED <<mail, hurt>> /\ \A e \in Emails : txn'[e] = Idle
    BY <1>3 DEF Restart, storedVars
  <2>2. GivenUpInv'
    BY <2>1 DEF GivenUpInv, Idle
  <2> QED
    BY <2>1, <2>2 DEF HurtInv, FailedWasHurt
<1>4. CASE Age \/ CleanUp \/ UNCHANGED vars
  <2>1. UNCHANGED <<mail, hurt, txn>>
    BY <1>4 DEF Age, CleanUp, vars, storedVars
  <2> QED
    BY <2>1, QuietHurt
<1> QED
  BY <1>1, <1>2, <1>3, <1>4, EngineHurt DEF Next

(* FailedWasHurt: while one extractor version is deployed, however many processes  *)
(* follow each other, an e-mail is FAILED, and so asked for again, only when the   *)
(* run that said so met a failure of its own.  No order in which workers look up,  *)
(* compute, insert and copy makes one of them fail, and neither do the rows and    *)
(* keys that a clean-up or a restart leaves behind.                                *)
THEOREM FailedWasHurtAlways ==
  Spec /\ [][version' = version]_vars => []FailedWasHurt
<1>1. Init => KeptInv /\ CallsInv /\ FieldsInv({Blank}) /\ HurtInv
  <2>1. Init => HurtInv
    BY DEF Init, HurtInv, FailedWasHurt, GivenUpInv, Idle
  <2> QED
    BY <2>1, InitKept, InitCalls, InitFields
<1>2. KeptInv /\ CallsInv /\ FieldsInv({Blank}) /\ HurtInv /\ [Next]_vars /\ [version' = version]_vars
        => KeptInv' /\ CallsInv' /\ FieldsInv({Blank})' /\ HurtInv'
  <2> SUFFICES ASSUME KeptInv, CallsInv, FieldsInv({Blank}), HurtInv, [Next]_vars, [version' = version]_vars
               PROVE  KeptInv' /\ CallsInv' /\ FieldsInv({Blank})' /\ HurtInv'
    OBVIOUS
  <2>1. version' = version
    BY DEF vars
  <2>2. FieldsInv({Blank})'
    BY <2>1, NextFields
  <2> QED
    BY <2>2, NextKept, NextCalls, NextHurt
<1>3. HurtInv => FailedWasHurt
  BY DEF HurtInv
<1> QED
  BY <1>1, <1>2, <1>3, PTL DEF Spec
============================================================================
