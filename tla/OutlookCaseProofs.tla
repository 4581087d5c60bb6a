-------------------------- MODULE OutlookCaseProofs --------------------------
(***************************************************************************)
(* Theorems about the replies and categories of OutlookCase, for any       *)
(* requests, keys, categories and bounds.                                  *)
(***************************************************************************)
EXTENDS OutlookCase, TLAPS

(* A workflow that names a reply as sent names one that has left. *)
TrulySent(workflow) ==
  workflow.status = "SENT" => workflow.key \in SendKeys /\ delivered[workflow.key] > 0

(* What the row, and every copy of it a request may write back, says of the  *)
(* reply is true; so is what a send is about to write.                       *)
TrueRequest(q) ==
  /\ TrulySent(q.seen.workflow)
  /\ q.op = "send" /\ q.accepted => delivered[q.key] > 0

SentInv ==
  /\ TrulySent(row.workflow)
  /\ \A r \in InFlight : TrueRequest(request[r])

(* As long as nothing was disturbed, the only request in flight holds the     *)
(* workflow and the category of the row, a reply has left since the draft     *)
(* exactly when the row or the send about to be committed says so, and the    *)
(* mailbox and the row agree with the person, as far as the write-back is.    *)
Undisturbed(q) ==
  /\ q.seen.workflow = row.workflow
  /\ q.seen.shown = row.shown
  /\ q.op = "send" =>
       /\ row.workflow.status # "SENT"
       /\ recent = IF q.accepted THEN 1 ELSE 0
       /\ q.pc = "call" => ~q.accepted
  /\ q.pc \in {"patch", "commit2"} => row.human = q.category
  /\ q.pc = "commit2" => /\ q.accepted = patched
                         /\ patched => mailbox = q.category

Settled == recent = 0 \/ (recent = 1 /\ row.workflow.status = "SENT")

Shown == patched /\ row.human # None => mailbox = row.human /\ row.shown = row.human

Writing == {"patch", "commit2"}

(* The folder flag and the life cycle agree, and the only request in flight   *)
(* has read both as they are.                                                *)
Flagged(q) == q.lifecycle = "ARCHIVED" => q.archived = "YES"
SameFlags(p, q) == p.lifecycle = q.lifecycle /\ p.archived = q.archived

FlagInv ==
  calm =>
    /\ Flagged(row)
    /\ \A r \in InFlight : SameFlags(request[r].seen, row)

CalmInv ==
  calm =>
    /\ \A r, s \in InFlight : r = s
    /\ \A r \in InFlight : Undisturbed(request[r])
    /\ (\A r \in InFlight : request[r].op # "send") => Settled
    /\ (\A r \in InFlight : request[r].pc \notin Writing) => Shown
----------------------------------------------------------------------------
LEMMA RequestKinds ==
  ASSUME NEW q \in RequestType
  PROVE  /\ q # Idle /\ q.pc # "idle" /\ q.seen \in RowType
         /\ q.op \in {"summary", "generate", "refine"} => q \in Drafts
         /\ q.op = "send" \/ q.pc = "call" => q \in Sends
         /\ q.op = "category" \/ q.pc \in {"patch", "commit2"} => q \in CategoryChanges
         /\ q.op = "reconcile" => q \in Reconciliations
BY DEF RequestType, Drafts, Sends, CategoryChanges, Reconciliations, Idle

LEMMA BusyIsRequest ==
  ASSUME TypeOK, NEW r \in Requests
  PROVE  request[r].pc # "idle" => request[r] \in RequestType
BY DEF TypeOK, Idle

LEMMA RowUpdates ==
  ASSUME NEW q \in RowType, NEW w \in WorkflowType
  PROVE  [q EXCEPT !.workflow = w] \in RowType
BY DEF RowType

LEMMA RowParts ==
  ASSUME NEW q \in RowType
  PROVE  /\ q.workflow \in WorkflowType /\ q.shown \in Categories \cup {None}
         /\ q.lifecycle \in {"ACTIVE", "ARCHIVED", "DELETED"} /\ q.archived \in {"YES", "NO"}
BY DEF RowType

LEMMA ReconciledType ==
  ASSUME NEW seen \in RowType, NEW payload \in Payloads
  PROVE  /\ Reconciled(seen, payload).lifecycle \in {"ACTIVE", "ARCHIVED", "DELETED"}
         /\ Reconciled(seen, payload).archived \in {"YES", "NO"}
<1> DEFINE asked == Requested(seen, payload)
<1>1. payload \in [lifecycle : {"DELETED", "RESTORED", "ARCHIVED", "ACTIVE", "UNSAID"},
                   archived : {"YES", "NO", "UNSAID"}]
  BY OutlookCaseAssumption
<1>2. seen.lifecycle \in {"ACTIVE", "ARCHIVED", "DELETED"} /\ seen.archived \in {"YES", "NO"}
  BY DEF RowType
<1>3. asked.lifecycle \in {"ACTIVE", "ARCHIVED", "DELETED"} /\ asked.archived \in {"YES", "NO"}
  BY <1>1, <1>2 DEF Requested
<1> QED
  BY <1>1, <1>3 DEF Reconciled

LEMMA InitTypes == Init => TypeOK
BY DEF Init, TypeOK, RowType, WorkflowType, NoWorkflow

LEMMA StartKeepsTypes ==
  ASSUME TypeOK, NEW r \in Requests, NEW record \in RequestType, Start(r, record)
  PROVE  TypeOK'
BY DEF TypeOK, Start

LEMMA NextKeepsTypes == TypeOK /\ [Next]_vars => TypeOK'
<1> SUFFICES ASSUME TypeOK, [Next]_vars PROVE TypeOK'
  OBVIOUS
<1>1. ASSUME NEW r \in Requests, NEW op \in {"summary", "generate", "refine"}, AskDraft(r, op)
      PROVE  TypeOK'
  <2> DEFINE q == [op |-> op, pc |-> "commit", seen |-> row]
  <2>1. q \in RequestType
    BY DEF TypeOK, RequestType, Drafts
  <2>2. Start(r, q)
    BY <1>1 DEF AskDraft
  <2> QED
    BY <2>1, <2>2, StartKeepsTypes
<1>2. ASSUME NEW r \in Requests, NEW key \in SendKeys, AskSend(r, key) PROVE TypeOK'
  <2> DEFINE q == [op |-> "send", pc |-> "call", seen |-> row, key |-> key, accepted |-> FALSE]
  <2>1. q \in RequestType
    BY DEF TypeOK, RequestType, Sends
  <2>2. Start(r, q)
    BY <1>2 DEF AskSend
  <2> QED
    BY <2>1, <2>2, StartKeepsTypes
<1>3. ASSUME NEW r \in Requests, NEW category \in Categories, AskCategory(r, category) PROVE TypeOK'
  <2> DEFINE q == [op |-> "category", pc |-> "commit", seen |-> row, category |-> category, accepted |-> FALSE]
  <2>1. q \in RequestType
    BY DEF TypeOK, RequestType, CategoryChanges
  <2>2. Start(r, q)
    BY <1>3 DEF AskCategory
  <2> QED
    BY <2>1, <2>2, StartKeepsTypes
<1>4. ASSUME NEW r \in Requests, NEW payload \in Payloads, AskReconcile(r, payload) PROVE TypeOK'
  <2> DEFINE q == [op |-> "reconcile", pc |-> "commit", seen |-> row, payload |-> payload]
  <2>1. q \in RequestType
    BY DEF TypeOK, RequestType, Reconciliations
  <2>2. Start(r, q)
    BY <1>4 DEF AskReconcile
  <2> QED
    BY <2>1, <2>2, StartKeepsTypes
<1>5. ASSUME NEW r \in Requests, NEW left \in BOOLEAN, NEW answered \in BOOLEAN,
             GraphReply(r, left, answered)
      PROVE  TypeOK'
  <2>1. request[r] \in Sends
    BY <1>5, BusyIsRequest, RequestKinds DEF GraphReply
  <2>2. [request[r] EXCEPT !.pc = "commit", !.accepted = Accepted(left, answered)] \in RequestType
    BY <2>1 DEF Sends, RequestType, Accepted
  <2>3. request[r].key \in SendKeys
    BY <2>1 DEF Sends
  <2> QED
    BY <1>5, <2>2, <2>3 DEF GraphReply, TypeOK, FaultAllowed
<1>6. ASSUME NEW r \in Requests, NEW succeeds \in BOOLEAN, GraphPatch(r, succeeds) PROVE TypeOK'
  <2>1. request[r] \in CategoryChanges
    BY <1>6, BusyIsRequest, RequestKinds DEF GraphPatch
  <2>2. [request[r] EXCEPT !.pc = "commit2", !.accepted = succeeds] \in RequestType
    BY <2>1 DEF CategoryChanges, RequestType
  <2>3. request[r].category \in Categories
    BY <2>1 DEF CategoryChanges
  <2> QED
    BY <1>6, <2>2, <2>3 DEF GraphPatch, TypeOK, FaultAllowed
<1>7. ASSUME NEW r \in Requests, CommitDraft(r) PROVE TypeOK'
  <2>1. request[r].seen \in RowType
    BY <1>7, BusyIsRequest, RequestKinds DEF CommitDraft
  <2>2. [request[r].seen.workflow EXCEPT !.status = Drafted(request[r].op)] \in WorkflowType
    BY <1>7, <2>1, RowParts DEF CommitDraft, WorkflowType, Drafted
  <2> QED
    BY <1>7, <2>2, RowUpdates DEF CommitDraft, TypeOK
<1>8. ASSUME NEW r \in Requests, CommitSend(r) PROVE TypeOK'
  <2>1. request[r] \in Sends
    BY <1>8, BusyIsRequest, RequestKinds DEF CommitSend
  <2>2. Outcome(request[r]) \in WorkflowType
    BY <2>1 DEF Outcome, WorkflowType, Sends
  <2> QED
    BY <1>8, <2>2, RowUpdates DEF CommitSend, TypeOK
<1>9. ASSUME NEW r \in Requests, CommitCategory(r) PROVE TypeOK'
  <2>1. request[r] \in CategoryChanges /\ request[r].seen \in RowType
    BY <1>9, BusyIsRequest, RequestKinds DEF CommitCategory
  <2>2. [request[r] EXCEPT !.pc = "patch"] \in RequestType
    BY <2>1 DEF CategoryChanges, RequestType
  <2>3. request[r].category \in Categories /\ request[r].seen.workflow \in WorkflowType
    BY <2>1, RowParts DEF CategoryChanges
  <2>4. row' \in RowType
    <3>1. CASE row.overrides # request[r].seen.overrides
      BY <1>9, <3>1 DEF CommitCategory, TypeOK
    <3>2. CASE row.overrides = request[r].seen.overrides
      <4> DEFINE q == request[r]
      <4>1. row' = [row EXCEPT !.human = q.category, !.overrides = @ + 1,
                              !.workflow = q.seen.workflow]
        BY <1>9, <3>2 DEF CommitCategory
      <4>2. row.overrides + 1 \in Nat
        BY DEF TypeOK, RowType
      <4> QED
        BY <2>3, <4>1, <4>2 DEF TypeOK, RowType
    <3> QED
      BY <3>1, <3>2
  <2> QED
    BY <1>9, <2>2, <2>4 DEF CommitCategory, TypeOK
<1>10. ASSUME NEW r \in Requests, CommitPatch(r) PROVE TypeOK'
  <2>1. request[r] \in CategoryChanges /\ request[r].seen \in RowType
    BY <1>10, BusyIsRequest, RequestKinds DEF CommitPatch
  <2>2. request[r].seen.workflow \in WorkflowType /\ PatchedColumns(request[r]) \in Categories \cup {None}
    BY <2>1, RowParts DEF CategoryChanges, PatchedColumns
  <2>3. row' \in RowType
    BY <1>10, <2>2 DEF CommitPatch, TypeOK, RowType
  <2> QED
    BY <1>10, <2>3 DEF CommitPatch, TypeOK
<1>11. ASSUME NEW r \in Requests, CommitReconcile(r) PROVE TypeOK'
  <2>1. request[r] \in Reconciliations /\ request[r].seen \in RowType
    BY <1>11, BusyIsRequest, RequestKinds DEF CommitReconcile
  <2>2. request[r].seen.workflow \in WorkflowType /\ request[r].payload \in Payloads
    BY <2>1, RowParts DEF Reconciliations
  <2>3. LET new == Reconciled(request[r].seen, request[r].payload)
        IN  new.lifecycle \in {"ACTIVE", "ARCHIVED", "DELETED"} /\ new.archived \in {"YES", "NO"}
    BY <2>1, <2>2, ReconciledType
  <2>4. row' \in RowType
    BY <1>11, <2>2, <2>3 DEF CommitReconcile, TypeOK, RowType
  <2> QED
    BY <1>11, <2>4 DEF CommitReconcile, TypeOK
<1>12. ASSUME NEW r \in Requests, Crash(r) PROVE TypeOK'
  <2>1. request' \in [Requests -> RequestType \cup {Idle}]
    BY <1>12 DEF Crash, TypeOK
  <2>2. calm' \in BOOLEAN
    BY <1>12 DEF Crash
  <2>3. faults' \in Nat
    BY <1>12 DEF Crash, TypeOK, FaultAllowed
  <2> QED
    BY <1>12, <2>1, <2>2, <2>3 DEF Crash, TypeOK
<1>13. ASSUME NEW case \in Cases, NEW changed \in BOOLEAN, Processed(case, changed) PROVE TypeOK'
  <2>1. NoWorkflow \in WorkflowType
    BY DEF NoWorkflow, WorkflowType
  <2>2. row' \in RowType
    BY <1>13, <2>1 DEF Processed, TypeOK, RowType
  <2>3. calm' \in BOOLEAN /\ recent' \in Nat
    BY <1>13 DEF Processed, TypeOK
  <2>4. steps' \in Nat
    BY <1>13 DEF Processed, TypeOK, StepAllowed
  <2> QED
    BY <1>13, <2>2, <2>3, <2>4 DEF Processed, TypeOK
<1>14. ASSUME NEW removed \in BOOLEAN, DeltaPage(removed) PROVE TypeOK'
  <2>1. row' \in RowType
    BY <1>14 DEF DeltaPage, TypeOK, RowType, Mirrored
  <2>2. calm' \in BOOLEAN
    BY <1>14 DEF DeltaPage
  <2>3. steps' \in Nat
    BY <1>14 DEF DeltaPage, TypeOK, StepAllowed
  <2> QED
    BY <1>14, <2>1, <2>2, <2>3 DEF DeltaPage, TypeOK
<1>15. CASE UNCHANGED vars
  BY <1>15 DEF TypeOK, vars
<1> QED
  BY <1>1, <1>2, <1>3, <1>4, <1>5, <1>6, <1>7, <1>8, <1>9, <1>10, <1>11, <1>12, <1>13, <1>14, <1>15
     DEF Next, Endpoint

(* TypeOK: every variable of the endpoints keeps its type. *)
THEOREM TypeCorrect == Spec => []TypeOK
BY InitTypes, NextKeepsTypes, PTL DEF Spec
----------------------------------------------------------------------------
(* A step that adds no request but r's, and takes the row's workflow from    *)
(* where it may, keeps SentInv.                                              *)
LEMMA SentInvKept ==
  ASSUME TypeOK, SentInv, NEW r \in Requests,
         delivered' \in [SendKeys -> Nat],
         \A k \in SendKeys : delivered'[k] >= delivered[k],
         \A s \in Requests \ {r} : request'[s] = request[s],
         \/ row'.workflow = row.workflow
         \/ r \in InFlight /\ row'.workflow = request[r].seen.workflow
         \/ row'.workflow.status # "SENT"
         \/ TrulySent(row.workflow)',
         request'[r] = Idle \/ TrueRequest(request[r])'
  PROVE  SentInv'
<1>1. ASSUME NEW w \in WorkflowType, TrulySent(w)
      PROVE  w.status = "SENT" => w.key \in SendKeys /\ delivered'[w.key] > 0
  BY <1>1 DEF TrulySent, TypeOK
<1>2. TrulySent(row.workflow)'
  <2>1. row.workflow \in WorkflowType
    BY RowParts DEF TypeOK
  <2>2. r \in InFlight => request[r].seen.workflow \in WorkflowType /\ TrulySent(request[r].seen.workflow)
    BY RowParts, RequestKinds DEF TypeOK, InFlight, SentInv, TrueRequest
  <2> QED
    BY <1>1, <2>1, <2>2 DEF SentInv, TrulySent
<1>3. ASSUME NEW s \in Requests, request'[s] # Idle, s # r PROVE TrueRequest(request[s])'
  <2>1. request'[s] = request[s] /\ request[s] \in RequestType /\ TrueRequest(request[s])
    BY <1>3 DEF TypeOK, InFlight, SentInv
  <2>2. request[s].seen.workflow \in WorkflowType
    BY <2>1, RequestKinds, RowParts
  <2>3. request[s].op = "send" => request[s].key \in SendKeys
    BY <2>1, RequestKinds DEF Sends
  <2>4. request[s].op = "send" /\ request[s].accepted => delivered'[request[s].key] > 0
    BY <2>1, <2>3 DEF TrueRequest, TypeOK
  <2> QED
    BY <1>1, <2>1, <2>2, <2>4 DEF TrueRequest, TrulySent
<1> QED
  BY <1>2, <1>3 DEF SentInv, InFlight

LEMMA StartKeepsSentInv ==
  ASSUME TypeOK, SentInv, NEW r \in Requests, NEW q \in RequestType, Start(r, q),
         q.seen = row, ~(q.op = "send" /\ q.accepted)
  PROVE  SentInv'
<1>1. request'[r] = q /\ \A s \in Requests \ {r} : request'[s] = request[s]
  BY DEF Start, TypeOK
<1>2. TrueRequest(request[r])'
  BY <1>1 DEF Start, SentInv, TrueRequest, TrulySent
<1> QED
  BY <1>1, <1>2, SentInvKept DEF Start, TypeOK

LEMMA NextKeepsSentInv == TypeOK /\ SentInv /\ [Next]_vars => SentInv'
<1> SUFFICES ASSUME TypeOK, SentInv, [Next]_vars PROVE SentInv'
  OBVIOUS
<1>1. ASSUME NEW r \in Requests, NEW op \in {"summary", "generate", "refine"}, AskDraft(r, op)
      PROVE  SentInv'
  <2> DEFINE q == [op |-> op, pc |-> "commit", seen |-> row]
  <2>1. q \in RequestType /\ q.op # "send"
    BY DEF TypeOK, RequestType, Drafts
  <2>2. Start(r, q)
    BY <1>1 DEF AskDraft
  <2> QED
    BY <2>1, <2>2, StartKeepsSentInv
<1>2. ASSUME NEW r \in Requests, NEW key \in SendKeys, AskSend(r, key) PROVE SentInv'
  <2> DEFINE q == [op |-> "send", pc |-> "call", seen |-> row, key |-> key, accepted |-> FALSE]
  <2>1. q \in RequestType /\ ~q.accepted
    BY DEF TypeOK, RequestType, Sends
  <2>2. Start(r, q)
    BY <1>2 DEF AskSend
  <2> QED
    BY <2>1, <2>2, StartKeepsSentInv
<1>3. ASSUME NEW r \in Requests, NEW category \in Categories, AskCategory(r, category) PROVE SentInv'
  <2> DEFINE q == [op |-> "category", pc |-> "commit", seen |-> row, category |-> category, accepted |-> FALSE]
  <2>1. q \in RequestType /\ ~q.accepted
    BY DEF TypeOK, RequestType, CategoryChanges
  <2>2. Start(r, q)
    BY <1>3 DEF AskCategory
  <2> QED
    BY <2>1, <2>2, StartKeepsSentInv
<1>4. ASSUME NEW r \in Requests, NEW payload \in Payloads, AskReconcile(r, payload) PROVE SentInv'
  <2> DEFINE q == [op |-> "reconcile", pc |-> "commit", seen |-> row, payload |-> payload]
  <2>1. q \in RequestType /\ q.op # "send"
    BY DEF TypeOK, RequestType, Reconciliations
  <2>2. Start(r, q)
    BY <1>4 DEF AskReconcile
  <2> QED
    BY <2>1, <2>2, StartKeepsSentInv
<1>5. ASSUME NEW r \in Requests, NEW left \in BOOLEAN, NEW answered \in BOOLEAN,
             GraphReply(r, left, answered)
      PROVE  SentInv'
  <2>1. request[r] \in Sends /\ r \in InFlight
    BY <1>5, BusyIsRequest, RequestKinds DEF GraphReply, InFlight
  <2>2. request[r].key \in SendKeys
    BY <2>1 DEF Sends
  <2>3. /\ delivered' \in [SendKeys -> Nat]
        /\ \A k \in SendKeys : delivered'[k] >= delivered[k]
        /\ left => delivered'[request[r].key] > 0
    BY <1>5, <2>2 DEF GraphReply, TypeOK
  <2>4. request'[r] = [request[r] EXCEPT !.pc = "commit", !.accepted = Accepted(left, answered)]
    BY <1>5 DEF GraphReply, TypeOK
  <2>5. /\ request'[r].seen = request[r].seen /\ request'[r].key = request[r].key
        /\ request'[r].accepted => left
    BY <2>1, <2>4 DEF Sends, Accepted
  <2>6. TrulySent(request[r].seen.workflow)'
    BY <2>1, <2>3, <2>5, RequestKinds, RowParts DEF SentInv, TrueRequest, TrulySent, TypeOK, RequestType
  <2>7. TrueRequest(request[r])'
    BY <2>3, <2>5, <2>6 DEF TrueRequest
  <2> QED
    BY <1>5, <2>3, <2>7, SentInvKept DEF GraphReply, TypeOK
<1>6. ASSUME NEW r \in Requests, NEW succeeds \in BOOLEAN, GraphPatch(r, succeeds) PROVE SentInv'
  <2>1. request[r] \in CategoryChanges /\ r \in InFlight
    BY <1>6, BusyIsRequest, RequestKinds DEF GraphPatch, InFlight
  <2>2. request'[r] = [request[r] EXCEPT !.pc = "commit2", !.accepted = succeeds]
    BY <1>6 DEF GraphPatch, TypeOK
  <2>3. request'[r].seen = request[r].seen /\ request'[r].op # "send"
    BY <2>1, <2>2 DEF CategoryChanges
  <2>4. TrueRequest(request[r])'
    BY <1>6, <2>1, <2>3 DEF GraphPatch, SentInv, TrueRequest, TrulySent
  <2> QED
    BY <1>6, <2>4, SentInvKept DEF GraphPatch, TypeOK
<1>7. ASSUME NEW r \in Requests, CommitDraft(r) PROVE SentInv'
  <2>1. row'.workflow.status # "SENT"
    <3>1. request[r].seen.workflow \in WorkflowType
      BY <1>7, BusyIsRequest, RequestKinds, RowParts DEF CommitDraft
    <3>2. row'.workflow = [request[r].seen.workflow EXCEPT !.status = Drafted(request[r].op)]
      BY <1>7 DEF CommitDraft, TypeOK, RowType
    <3>3. row'.workflow.status = Drafted(request[r].op)
      BY <3>1, <3>2 DEF WorkflowType
    <3> QED
      BY <1>7, <3>3 DEF CommitDraft, Drafted
  <2> QED
    BY <1>7, <2>1, SentInvKept DEF CommitDraft, TypeOK
<1>8. ASSUME NEW r \in Requests, CommitSend(r) PROVE SentInv'
  <2>1. request[r] \in Sends /\ r \in InFlight
    BY <1>8, BusyIsRequest, RequestKinds DEF CommitSend, InFlight
  <2>2. row'.workflow = Outcome(request[r])
    BY <1>8 DEF CommitSend, TypeOK, RowType
  <2>3. TrulySent(row.workflow)'
    BY <1>8, <2>1, <2>2 DEF CommitSend, Outcome, TrulySent, SentInv, TrueRequest, Sends
  <2> QED
    BY <1>8, <2>3, SentInvKept DEF CommitSend, TypeOK
<1>9. ASSUME NEW r \in Requests, CommitCategory(r) PROVE SentInv'
  <2>1. request[r] \in CategoryChanges /\ r \in InFlight
    BY <1>9, BusyIsRequest, RequestKinds DEF CommitCategory, InFlight
  <2>2. row'.workflow \in {row.workflow, request[r].seen.workflow}
    BY <1>9 DEF CommitCategory, TypeOK, RowType
  <2>3. request'[r] = Idle \/ request'[r] = [request[r] EXCEPT !.pc = "patch"]
    BY <1>9 DEF CommitCategory, TypeOK
  <2>4. request'[r] = Idle \/ (request'[r].seen = request[r].seen /\ request'[r].op # "send")
    BY <2>1, <2>3 DEF CategoryChanges
  <2>5. request'[r] = Idle \/ TrueRequest(request[r])'
    BY <1>9, <2>1, <2>4 DEF CommitCategory, SentInv, TrueRequest, TrulySent
  <2> QED
    BY <1>9, <2>1, <2>2, <2>5, SentInvKept DEF CommitCategory, TypeOK
<1>10. ASSUME NEW r \in Requests, CommitPatch(r) PROVE SentInv'
  <2>1. r \in InFlight
    BY <1>10, BusyIsRequest, RequestKinds DEF CommitPatch, InFlight
  <2>2. row'.workflow = request[r].seen.workflow
    BY <1>10 DEF CommitPatch, TypeOK, RowType
  <2> QED
    BY <1>10, <2>1, <2>2, SentInvKept DEF CommitPatch, TypeOK
<1>11. ASSUME NEW r \in Requests, CommitReconcile(r) PROVE SentInv'
  <2>1. r \in InFlight
    BY <1>11, BusyIsRequest, RequestKinds DEF CommitReconcile, InFlight
  <2>2. row'.workflow = request[r].seen.workflow
    BY <1>11 DEF CommitReconcile, TypeOK, RowType
  <2> QED
    BY <1>11, <2>1, <2>2, SentInvKept DEF CommitReconcile, TypeOK
<1>12. ASSUME NEW r \in Requests, Crash(r) PROVE SentInv'
  BY <1>12, SentInvKept DEF Crash, TypeOK
<1>13. ASSUME NEW case \in Cases, NEW changed \in BOOLEAN, Processed(case, changed) PROVE SentInv'
  <2>1. row'.workflow = row.workflow \/ row'.workflow.status # "SENT"
    BY <1>13 DEF Processed, TypeOK, RowType, NoWorkflow
  <2> QED
    BY <1>13, <2>1 DEF Processed, SentInv, TrueRequest, TrulySent, InFlight
<1>14. ASSUME NEW removed \in BOOLEAN, DeltaPage(removed) PROVE SentInv'
  <2>1. row'.workflow = row.workflow
    BY <1>14 DEF DeltaPage, TypeOK, RowType
  <2> QED
    BY <1>14, <2>1 DEF DeltaPage, SentInv, TrueRequest, TrulySent, InFlight
<1>15. CASE UNCHANGED vars
  BY <1>15 DEF SentInv, TrueRequest, TrulySent, InFlight, vars
<1> QED
  BY <1>1, <1>2, <1>3, <1>4, <1>5, <1>6, <1>7, <1>8, <1>9, <1>10, <1>11, <1>12, <1>13, <1>14, <1>15
     DEF Next, Endpoint

(* product_reply_send: SENT is stored only for a reply that has left, under   *)
(* whatever stale copies of source_metadata the other endpoints write back.  *)
THEOREM SentOnlyDelivered == Spec => []SentWasDelivered
<1>1. Init => SentInv
  BY DEF Init, SentInv, TrulySent, NoWorkflow, InFlight
<1>2. SentInv => SentWasDelivered
  BY DEF SentInv, TrulySent, SentWasDelivered
<1> QED
  BY <1>1, <1>2, TypeCorrect, NextKeepsSentInv, PTL DEF Spec
----------------------------------------------------------------------------
(* What CalmInv says of the only request in flight, and of none. *)
LEMMA CalmAlone ==
  ASSUME CalmInv, calm, NEW r \in InFlight
  PROVE  /\ \A s \in Requests \ {r} : request[s] = Idle
         /\ Undisturbed(request[r])
         /\ request[r].op # "send" => Settled
         /\ request[r].pc \notin Writing => Shown
BY DEF CalmInv, InFlight

LEMMA CalmQuiet ==
  ASSUME CalmInv, calm, InFlight = {}
  PROVE  Settled /\ Shown
BY DEF CalmInv

(* What a step that leaves at most r in flight has to establish. *)
LEMMA CalmKept ==
  ASSUME NEW r \in Requests,
         \A s \in Requests \ {r} : request'[s] = Idle,
         request'[r] = Idle => Settled' /\ Shown',
         request'[r] # Idle =>
           /\ Undisturbed(request[r])'
           /\ request'[r].op # "send" => Settled'
           /\ request'[r].pc \notin Writing => Shown'
  PROVE  CalmInv'
BY DEF CalmInv, InFlight

LEMMA StartKeepsCalmInv ==
  ASSUME TypeOK, CalmInv, NEW r \in Requests, NEW q \in RequestType, Start(r, q),
         q.seen = row, q.pc \notin Writing,
         q.op = "send" => ~q.accepted /\ row.workflow.status # "SENT"
  PROVE  CalmInv'
<1> SUFFICES ASSUME calm' PROVE CalmInv'
  BY DEF CalmInv
<1>1. calm /\ InFlight = {}
  BY DEF Start
<1>2. Settled /\ Shown
  BY <1>1, CalmQuiet
<1>3. request'[r] = q /\ \A s \in Requests \ {r} : request'[s] = Idle
  BY <1>1 DEF Start, TypeOK, InFlight
<1>4. Settled' /\ Shown'
  BY <1>2 DEF Start, Settled, Shown
<1>5. Undisturbed(request[r])'
  BY <1>2, <1>3 DEF Start, Undisturbed, Settled, Writing
<1> QED
  BY <1>3, <1>4, <1>5, CalmKept

LEMMA NextKeepsCalmInv == TypeOK /\ CalmInv /\ [Next]_vars => CalmInv'
<1> SUFFICES ASSUME TypeOK, CalmInv, [Next]_vars, calm' PROVE CalmInv'
  BY DEF CalmInv
<1>1. ASSUME NEW r \in Requests, NEW op \in {"summary", "generate", "refine"}, AskDraft(r, op)
      PROVE  CalmInv'
  <2> DEFINE q == [op |-> op, pc |-> "commit", seen |-> row]
  <2>1. q \in RequestType /\ q.op # "send" /\ q.pc \notin Writing
    BY DEF TypeOK, RequestType, Drafts, Writing
  <2>2. Start(r, q)
    BY <1>1 DEF AskDraft
  <2> QED
    BY <2>1, <2>2, StartKeepsCalmInv
<1>2. ASSUME NEW r \in Requests, NEW key \in SendKeys, AskSend(r, key) PROVE CalmInv'
  <2> DEFINE q == [op |-> "send", pc |-> "call", seen |-> row, key |-> key, accepted |-> FALSE]
  <2>1. q \in RequestType /\ ~q.accepted /\ q.pc \notin Writing
    BY DEF TypeOK, RequestType, Sends, Writing
  <2>2. Start(r, q) /\ row.workflow.status # "SENT"
    BY <1>2 DEF AskSend, Sendable
  <2> QED
    BY <2>1, <2>2, StartKeepsCalmInv
<1>3. ASSUME NEW r \in Requests, NEW category \in Categories, AskCategory(r, category) PROVE CalmInv'
  <2> DEFINE q == [op |-> "category", pc |-> "commit", seen |-> row, category |-> category, accepted |-> FALSE]
  <2>1. q \in RequestType /\ q.op # "send" /\ q.pc \notin Writing
    BY DEF TypeOK, RequestType, CategoryChanges, Writing
  <2>2. Start(r, q)
    BY <1>3 DEF AskCategory
  <2> QED
    BY <2>1, <2>2, StartKeepsCalmInv
<1>4. ASSUME NEW r \in Requests, NEW payload \in Payloads, AskReconcile(r, payload) PROVE CalmInv'
  <2> DEFINE q == [op |-> "reconcile", pc |-> "commit", seen |-> row, payload |-> payload]
  <2>1. q \in RequestType /\ q.op # "send" /\ q.pc \notin Writing
    BY DEF TypeOK, RequestType, Reconciliations, Writing
  <2>2. Start(r, q)
    BY <1>4 DEF AskReconcile
  <2> QED
    BY <2>1, <2>2, StartKeepsCalmInv
<1>5. ASSUME NEW r \in Requests, NEW left \in BOOLEAN, NEW answered \in BOOLEAN,
             GraphReply(r, left, answered)
      PROVE  CalmInv'
  <2>1. request[r] \in Sends /\ r \in InFlight /\ request[r].pc = "call"
    BY <1>5, BusyIsRequest, RequestKinds DEF GraphReply, InFlight
  <2>2. calm /\ (left => answered)
    BY <1>5 DEF GraphReply
  <2>3. /\ \A s \in Requests \ {r} : request[s] = Idle
        /\ Undisturbed(request[r]) /\ Shown
    BY <2>1, <2>2, CalmAlone DEF Writing
  <2>4. request'[r] = [request[r] EXCEPT !.pc = "commit", !.accepted = Accepted(left, answered)]
    BY <1>5 DEF GraphReply, TypeOK
  <2>5. /\ request'[r].seen = request[r].seen /\ request'[r].op = "send"
        /\ request'[r].pc = "commit" /\ (request'[r].accepted <=> left)
    BY <2>1, <2>2, <2>4 DEF Sends, Accepted
  <2>6. recent = 0 /\ recent' = IF left THEN 1 ELSE 0
    BY <1>5, <2>1, <2>3 DEF GraphReply, Undisturbed, Sends
  <2>7. Undisturbed(request[r])'
    BY <1>5, <2>1, <2>3, <2>5, <2>6 DEF GraphReply, Undisturbed, Sends
  <2>8. Shown'
    BY <1>5, <2>3 DEF GraphReply, Shown
  <2> QED
    <3>1. \A s \in Requests \ {r} : request'[s] = Idle
      BY <1>5, <2>3 DEF GraphReply, TypeOK
    <3>2. request'[r] # Idle
      BY <2>5 DEF Idle
    <3> QED
      BY <2>5, <2>7, <2>8, <3>1, <3>2, CalmKept
<1>6. ASSUME NEW r \in Requests, NEW succeeds \in BOOLEAN, GraphPatch(r, succeeds) PROVE CalmInv'
  <2>1. request[r] \in CategoryChanges /\ r \in InFlight /\ request[r].pc = "patch"
    BY <1>6, BusyIsRequest, RequestKinds DEF GraphPatch, InFlight
  <2>2. calm
    BY <1>6 DEF GraphPatch
  <2>3. /\ \A s \in Requests \ {r} : request[s] = Idle
        /\ Undisturbed(request[r]) /\ Settled
    BY <2>1, <2>2, CalmAlone DEF CategoryChanges
  <2>4. request'[r] = [request[r] EXCEPT !.pc = "commit2", !.accepted = succeeds]
    BY <1>6 DEF GraphPatch, TypeOK
  <2>5. /\ request'[r].seen = request[r].seen /\ request'[r].op = "category"
        /\ request'[r].category = request[r].category
        /\ request'[r].pc = "commit2" /\ request'[r].accepted = succeeds
    BY <2>1, <2>4 DEF CategoryChanges
  <2>6. Undisturbed(request[r])'
    BY <1>6, <2>1, <2>3, <2>5 DEF GraphPatch, Undisturbed
  <2>7. Settled'
    BY <1>6, <2>3 DEF GraphPatch, Settled
  <2> QED
    <3>1. \A s \in Requests \ {r} : request'[s] = Idle
      BY <1>6, <2>3 DEF GraphPatch, TypeOK
    <3>2. request'[r] # Idle
      BY <2>5 DEF Idle
    <3>3. request'[r].pc \in Writing
      BY <2>5 DEF Writing
    <3> QED
      BY <2>6, <2>7, <3>1, <3>2, <3>3, CalmKept
<1>7. ASSUME NEW r \in Requests, CommitDraft(r) PROVE CalmInv'
  <2>1. r \in InFlight /\ calm
    BY <1>7, BusyIsRequest, RequestKinds DEF CommitDraft, InFlight
  <2>2. (\A s \in Requests \ {r} : request[s] = Idle) /\ Shown
    BY <1>7, <2>1, CalmAlone DEF CommitDraft, Writing
  <2>3. Settled' /\ Shown'
    BY <1>7, <2>2 DEF CommitDraft, Settled, Shown, TypeOK, RowType
  <2> QED
    BY <1>7, <2>2, <2>3, CalmKept DEF CommitDraft, TypeOK
<1>8. ASSUME NEW r \in Requests, CommitSend(r) PROVE CalmInv'
  <2>1. r \in InFlight /\ calm
    BY <1>8, BusyIsRequest, RequestKinds DEF CommitSend, InFlight
  <2>2. (\A s \in Requests \ {r} : request[s] = Idle) /\ Shown /\ Undisturbed(request[r])
    BY <1>8, <2>1, CalmAlone DEF CommitSend, Writing
  <2>3. row'.workflow = Outcome(request[r])
    BY <1>8 DEF CommitSend, TypeOK, RowType
  <2>4. Settled'
    BY <1>8, <2>2, <2>3 DEF CommitSend, Settled, Undisturbed, Outcome
  <2>5. Shown'
    BY <1>8, <2>2 DEF CommitSend, Shown, TypeOK, RowType
  <2> QED
    BY <1>8, <2>2, <2>4, <2>5, CalmKept DEF CommitSend, TypeOK
<1>9. ASSUME NEW r \in Requests, CommitCategory(r) PROVE CalmInv'
  <2>1. request[r] \in CategoryChanges /\ r \in InFlight /\ calm
    BY <1>9, BusyIsRequest, RequestKinds DEF CommitCategory, InFlight
  <2>2. /\ \A s \in Requests \ {r} : request[s] = Idle
        /\ Undisturbed(request[r]) /\ Settled /\ Shown
    BY <1>9, <2>1, CalmAlone DEF CommitCategory, Writing
  <2>3. CASE row.overrides # request[r].seen.overrides
    <3>1. Settled' /\ Shown'
      BY <1>9, <2>2, <2>3 DEF CommitCategory, Settled, Shown
    <3> QED
      BY <1>9, <2>2, <2>3, <3>1, CalmKept DEF CommitCategory, TypeOK
  <2>4. CASE row.overrides = request[r].seen.overrides
    <3>1. row' = [row EXCEPT !.human = request[r].category, !.overrides = @ + 1,
                             !.workflow = request[r].seen.workflow]
      BY <1>9, <2>4 DEF CommitCategory
    <3>2. /\ row'.workflow = row.workflow /\ row'.shown = row.shown
          /\ row'.human = request[r].category
      BY <2>2, <3>1 DEF TypeOK, RowType, Undisturbed
    <3>3. request'[r] = [request[r] EXCEPT !.pc = "patch"]
      BY <1>9, <2>4 DEF CommitCategory, TypeOK
    <3>4. /\ request'[r].seen = request[r].seen /\ request'[r].op = "category"
          /\ request'[r].category = request[r].category /\ request'[r].pc = "patch"
      BY <2>1, <3>3 DEF CategoryChanges
    <3>5. Undisturbed(request[r])'
      BY <2>2, <3>2, <3>4 DEF Undisturbed
    <3>6. Settled'
      BY <1>9, <2>2, <3>2 DEF CommitCategory, Settled
    <3> QED
      BY <1>9, <2>2, <2>4, <3>4, <3>5, <3>6, CalmKept DEF CommitCategory, TypeOK, Idle, Writing
  <2> QED
    BY <2>3, <2>4
<1>10. ASSUME NEW r \in Requests, CommitPatch(r) PROVE CalmInv'
  <2>1. request[r] \in CategoryChanges /\ r \in InFlight /\ calm /\ request[r].pc = "commit2"
    BY <1>10, BusyIsRequest, RequestKinds DEF CommitPatch, InFlight
  <2>2. /\ \A s \in Requests \ {r} : request[s] = Idle
        /\ Undisturbed(request[r]) /\ Settled
    BY <2>1, CalmAlone DEF CategoryChanges
  <2>3. /\ row'.workflow = row.workflow /\ row'.human = row.human
        /\ row'.shown = IF PatchedColumns(request[r]) = request[r].seen.shown THEN row.shown
                        ELSE PatchedColumns(request[r])
    BY <1>10, <2>2 DEF CommitPatch, TypeOK, RowType, Undisturbed
  <2>4. Settled'
    BY <1>10, <2>2, <2>3 DEF CommitPatch, Settled
  <2>5. Shown'
    BY <1>10, <2>1, <2>2, <2>3 DEF CommitPatch, Shown, Undisturbed, PatchedColumns
  <2> QED
    BY <1>10, <2>2, <2>4, <2>5, CalmKept DEF CommitPatch, TypeOK
<1>11. ASSUME NEW r \in Requests, CommitReconcile(r) PROVE CalmInv'
  <2>1. r \in InFlight /\ calm
    BY <1>11, BusyIsRequest, RequestKinds DEF CommitReconcile, InFlight
  <2>2. /\ \A s \in Requests \ {r} : request[s] = Idle
        /\ Undisturbed(request[r]) /\ Settled /\ Shown
    BY <1>11, <2>1, CalmAlone DEF CommitReconcile, Writing
  <2>3. row'.workflow = row.workflow /\ row'.human = row.human /\ row'.shown = row.shown
    BY <1>11, <2>2 DEF CommitReconcile, TypeOK, RowType, Undisturbed
  <2>4. Settled' /\ Shown'
    BY <1>11, <2>2, <2>3 DEF CommitReconcile, Settled, Shown
  <2> QED
    BY <1>11, <2>2, <2>4, CalmKept DEF CommitReconcile, TypeOK
<1>12. ASSUME NEW r \in Requests, Crash(r) PROVE CalmInv'
  BY <1>12 DEF Crash
<1>13. ASSUME NEW case \in Cases, NEW changed \in BOOLEAN, Processed(case, changed) PROVE CalmInv'
  <2>1. calm /\ InFlight = {} /\ request' = request
    BY <1>13 DEF Processed
  <2>2. Settled /\ Shown
    BY <2>1, CalmQuiet
  <2>3. Settled' /\ Shown'
    BY <1>13, <2>2 DEF Processed, Settled, Shown, TypeOK, RowType
  <2> QED
    BY <2>1, <2>3 DEF CalmInv, InFlight
<1>14. ASSUME NEW removed \in BOOLEAN, DeltaPage(removed) PROVE CalmInv'
  <2>1. calm /\ InFlight = {} /\ request' = request
    BY <1>14 DEF DeltaPage
  <2>2. Settled /\ Shown
    BY <2>1, CalmQuiet
  <2>3. row'.workflow = row.workflow /\ row'.human = row.human /\ row'.shown \in {row.shown, mailbox}
    BY <1>14 DEF DeltaPage, TypeOK, RowType
  <2>4. Settled' /\ Shown'
    BY <1>14, <2>2, <2>3 DEF DeltaPage, Settled, Shown
  <2> QED
    BY <2>1, <2>4 DEF CalmInv, InFlight
<1>15. CASE UNCHANGED vars
  BY <1>15 DEF CalmInv, Undisturbed, Settled, Shown, InFlight, vars
<1> QED
  BY <1>1, <1>2, <1>3, <1>4, <1>5, <1>6, <1>7, <1>8, <1>9, <1>10, <1>11, <1>12, <1>13, <1>14, <1>15
     DEF Next, Endpoint

LEMMA CalmInvHolds == Spec => []CalmInv
<1>1. Init => CalmInv
  BY DEF Init, CalmInv, Settled, Shown, InFlight
<1> QED
  BY <1>1, TypeCorrect, NextKeepsCalmInv, PTL DEF Spec

(* product_reply_send: while requests do not overlap and no answer of the     *)
(* provider is lost, a draft leaves at most once, under any number of keys.  *)
THEOREM OneReply == Spec => []OneReplyPerDraft
<1>1. TypeOK /\ CalmInv => OneReplyPerDraft
  <2> SUFFICES ASSUME TypeOK, CalmInv, calm PROVE recent <= 1
    BY DEF OneReplyPerDraft
  <2>1. CASE \A r \in InFlight : request[r].op # "send"
    BY <2>1 DEF CalmInv, Settled
  <2>2. CASE \E r \in InFlight : request[r].op = "send"
    BY <2>2 DEF CalmInv, Undisturbed
  <2> QED
    BY <2>1, <2>2
<1> QED
  BY <1>1, TypeCorrect, CalmInvHolds, PTL

(* product_update_category and the Outlook state of the row: once the         *)
(* write-back has succeeded, the mailbox and the row show the category the    *)
(* person chose, as long as requests do not overlap.                          *)
THEOREM MailboxAgrees == Spec => []MailboxShowsCategory
<1>1. CalmInv => MailboxShowsCategory
  BY DEF CalmInv, MailboxShowsCategory, Shown
<1> QED
  BY <1>1, CalmInvHolds, PTL
----------------------------------------------------------------------------
(* The folder flag *)

(* A reconciliation keeps the flag and the life cycle in agreement, whatever   *)
(* the add-in asks for.                                                      *)
LEMMA ReconciledFlagged ==
  ASSUME NEW seen \in RowType, Flagged(seen), NEW payload \in Payloads
  PROVE  Flagged(Reconciled(seen, payload))
<1> DEFINE asked == Requested(seen, payload)
<1>1. payload \in [lifecycle : {"DELETED", "RESTORED", "ARCHIVED", "ACTIVE", "UNSAID"},
                   archived : {"YES", "NO", "UNSAID"}]
  BY OutlookCaseAssumption
<1>2. seen.lifecycle \in {"ACTIVE", "ARCHIVED", "DELETED"} /\ seen.archived \in {"YES", "NO"}
  BY RowParts
<1>3. /\ asked.lifecycle \in {"ACTIVE", "ARCHIVED", "DELETED"} /\ asked.archived \in {"YES", "NO"}
      /\ Flagged(asked)
  BY <1>1, <1>2 DEF Requested, Flagged
<1>4. CASE payload.archived \in {"UNSAID", asked.archived}
  BY <1>3, <1>4 DEF Reconciled
<1>5. CASE payload.archived \notin {"UNSAID", asked.archived}
  <2>1. payload.archived = "YES" \/ payload.archived = "NO"
    BY <1>1, <1>5
  <2> HIDE DEF asked
  <2> DEFINE lifecycle == IF payload.archived = "YES" /\ asked.lifecycle = "ACTIVE" THEN "ARCHIVED"
                          ELSE IF payload.archived = "NO" /\ asked.lifecycle = "ARCHIVED" THEN "ACTIVE"
                          ELSE asked.lifecycle
  <2>2. Reconciled(seen, payload) = [archived |-> payload.archived, lifecycle |-> lifecycle]
    BY <1>5 DEF Reconciled, asked
  <2>3. lifecycle = "ARCHIVED" => payload.archived = "YES"
    BY <1>3, <2>1
  <2> QED
    BY <2>2, <2>3 DEF Flagged
<1> QED
  BY <1>4, <1>5

(* A step that leaves flag and life cycle alone, and starts a request only     *)
(* with what the row has.                                                    *)
LEMMA FlagKept ==
  ASSUME TypeOK, FlagInv, calm' => calm, SameFlags(row', row),
         \A s \in Requests : request'[s] # Idle =>
           \/ request'[s].seen = row
           \/ s \in InFlight /\ request'[s].seen = request[s].seen
  PROVE  FlagInv'
BY DEF FlagInv, Flagged, SameFlags, InFlight

LEMMA StartKeepsFlagInv ==
  ASSUME TypeOK, FlagInv, NEW r \in Requests, NEW q \in RequestType, Start(r, q), q.seen = row
  PROVE  FlagInv'
<1>1. \A s \in Requests : request'[s] = IF s = r THEN q ELSE request[s]
  BY DEF Start, TypeOK
<1> QED
  BY <1>1, FlagKept DEF Start, SameFlags, InFlight

LEMMA NextKeepsFlagInv == TypeOK /\ CalmInv /\ FlagInv /\ [Next]_vars => FlagInv'
<1> SUFFICES ASSUME TypeOK, CalmInv, FlagInv, [Next]_vars, calm' PROVE FlagInv'
  BY DEF FlagInv
<1>1. ASSUME NEW r \in Requests, NEW op \in {"summary", "generate", "refine"}, AskDraft(r, op)
      PROVE  FlagInv'
  <2> DEFINE q == [op |-> op, pc |-> "commit", seen |-> row]
  <2>1. q \in RequestType /\ q.seen = row
    BY DEF TypeOK, RequestType, Drafts
  <2>2. Start(r, q)
    BY <1>1 DEF AskDraft
  <2> QED
    BY <2>1, <2>2, StartKeepsFlagInv
<1>2. ASSUME NEW r \in Requests, NEW key \in SendKeys, AskSend(r, key) PROVE FlagInv'
  <2> DEFINE q == [op |-> "send", pc |-> "call", seen |-> row, key |-> key, accepted |-> FALSE]
  <2>1. q \in RequestType /\ q.seen = row
    BY DEF TypeOK, RequestType, Sends
  <2>2. Start(r, q)
    BY <1>2 DEF AskSend
  <2> QED
    BY <2>1, <2>2, StartKeepsFlagInv
<1>3. ASSUME NEW r \in Requests, NEW category \in Categories, AskCategory(r, category) PROVE FlagInv'
  <2> DEFINE q == [op |-> "category", pc |-> "commit", seen |-> row, category |-> category, accepted |-> FALSE]
  <2>1. q \in RequestType /\ q.seen = row
    BY DEF TypeOK, RequestType, CategoryChanges
  <2>2. Start(r, q)
    BY <1>3 DEF AskCategory
  <2> QED
    BY <2>1, <2>2, StartKeepsFlagInv
<1>4. ASSUME NEW r \in Requests, NEW payload \in Payloads, AskReconcile(r, payload) PROVE FlagInv'
  <2> DEFINE q == [op |-> "reconcile", pc |-> "commit", seen |-> row, payload |-> payload]
  <2>1. q \in RequestType /\ q.seen = row
    BY DEF TypeOK, RequestType, Reconciliations
  <2>2. Start(r, q)
    BY <1>4 DEF AskReconcile
  <2> QED
    BY <2>1, <2>2, StartKeepsFlagInv
<1>5. ASSUME NEW r \in Requests, NEW left \in BOOLEAN, NEW answered \in BOOLEAN,
             GraphReply(r, left, answered)
      PROVE  FlagInv'
  <2>1. request[r] \in Sends /\ r \in InFlight
    BY <1>5, BusyIsRequest, RequestKinds DEF GraphReply, InFlight
  <2>2. request'[r].seen = request[r].seen
    BY <1>5, <2>1 DEF GraphReply, TypeOK, Sends
  <2>3. \A s \in Requests \ {r} : request'[s] = request[s]
    BY <1>5 DEF GraphReply, TypeOK
  <2> QED
    BY <1>5, <2>1, <2>2, <2>3, FlagKept DEF GraphReply, SameFlags, InFlight
<1>6. ASSUME NEW r \in Requests, NEW succeeds \in BOOLEAN, GraphPatch(r, succeeds) PROVE FlagInv'
  <2>1. request[r] \in CategoryChanges /\ r \in InFlight
    BY <1>6, BusyIsRequest, RequestKinds DEF GraphPatch, InFlight
  <2>2. request'[r].seen = request[r].seen
    BY <1>6, <2>1 DEF GraphPatch, TypeOK, CategoryChanges
  <2>3. \A s \in Requests \ {r} : request'[s] = request[s]
    BY <1>6 DEF GraphPatch, TypeOK
  <2> QED
    BY <1>6, <2>1, <2>2, <2>3, FlagKept DEF GraphPatch, SameFlags, InFlight
<1>7. ASSUME NEW r \in Requests, CommitDraft(r) \/ CommitSend(r) \/ CommitPatch(r) PROVE FlagInv'
  <2>1. SameFlags(row', row)
    BY <1>7 DEF CommitDraft, CommitSend, CommitPatch, SameFlags, TypeOK, RowType
  <2>2. \A s \in Requests : request'[s] # Idle => request'[s] = request[s]
    BY <1>7 DEF CommitDraft, CommitSend, CommitPatch, TypeOK
  <2>3. calm' = calm
    BY <1>7 DEF CommitDraft, CommitSend, CommitPatch
  <2> QED
    BY <2>1, <2>2, <2>3, FlagKept DEF InFlight
<1>8. ASSUME NEW r \in Requests, CommitCategory(r) PROVE FlagInv'
  <2>1. request[r] \in CategoryChanges /\ r \in InFlight
    BY <1>8, BusyIsRequest, RequestKinds DEF CommitCategory, InFlight
  <2>2. SameFlags(row', row)
    BY <1>8 DEF CommitCategory, SameFlags, TypeOK, RowType
  <2>3. request'[r] = Idle \/ request'[r] = [request[r] EXCEPT !.pc = "patch"]
    BY <1>8 DEF CommitCategory, TypeOK
  <2>4. request'[r] = Idle \/ request'[r].seen = request[r].seen
    BY <2>1, <2>3 DEF CategoryChanges
  <2>5. \A s \in Requests \ {r} : request'[s] = request[s]
    BY <1>8 DEF CommitCategory, TypeOK
  <2> QED
    BY <1>8, <2>1, <2>2, <2>4, <2>5, FlagKept DEF CommitCategory, InFlight
<1>9. ASSUME NEW r \in Requests, CommitReconcile(r) PROVE FlagInv'
  <2> DEFINE seen == request[r].seen
             new  == Reconciled(request[r].seen, request[r].payload)
  <2>1. request[r] \in Reconciliations /\ r \in InFlight /\ seen \in RowType /\ calm
    BY <1>9, BusyIsRequest, RequestKinds DEF CommitReconcile, InFlight
  <2>2. /\ \A s \in Requests \ {r} : request[s] = Idle
        /\ SameFlags(seen, row) /\ Flagged(seen)
    BY <2>1, CalmAlone DEF FlagInv, SameFlags, Flagged
  <2>3. Flagged(new)
    BY <2>1, <2>2, ReconciledFlagged DEF Reconciliations
  <2> HIDE DEF new
  <2>4. row'.lifecycle = new.lifecycle /\ row'.archived = new.archived
    BY <1>9, <2>2 DEF CommitReconcile, SameFlags, TypeOK, RowType, new
  <2>5. \A s \in Requests : request'[s] = Idle
    BY <1>9, <2>2 DEF CommitReconcile, TypeOK
  <2> QED
    BY <2>3, <2>4, <2>5 DEF FlagInv, Flagged, InFlight
<1>10. ASSUME NEW r \in Requests, Crash(r) PROVE FlagInv'
  BY <1>10 DEF Crash
<1>11. ASSUME NEW case \in Cases, NEW changed \in BOOLEAN, Processed(case, changed) PROVE FlagInv'
  BY <1>11, FlagKept DEF Processed, SameFlags, InFlight, TypeOK, RowType
<1>12. ASSUME NEW removed \in BOOLEAN, DeltaPage(removed) PROVE FlagInv'
  <2>1. calm /\ InFlight = {} /\ request' = request
    BY <1>12 DEF DeltaPage
  <2>2. row'.lifecycle \in {"DELETED", "ACTIVE", row.lifecycle} /\ row'.archived = row.archived
    BY <1>12 DEF DeltaPage, Mirrored, TypeOK, RowType
  <2> QED
    BY <2>1, <2>2 DEF FlagInv, Flagged, InFlight
<1>13. CASE UNCHANGED vars
  BY <1>13 DEF FlagInv, InFlight, vars
<1> QED
  BY <1>1, <1>2, <1>3, <1>4, <1>5, <1>6, <1>7, <1>8, <1>9, <1>10, <1>11, <1>12, <1>13
     DEF Next, Endpoint

(* product_outlook_reconcile and the delta pages of the Graph worker: as long  *)
(* as requests do not overlap, an ARCHIVED e-mail has its folder flag set,    *)
(* after any sequence of reconciliations, deletions and restorations.        *)
THEOREM ArchivedAreFlagged == Spec => []ArchivedIsFlagged
<1>1. Init => FlagInv
  BY DEF Init, FlagInv, Flagged, InFlight
<1>2. FlagInv => ArchivedIsFlagged
  BY DEF FlagInv, Flagged, ArchivedIsFlagged
<1> QED
  BY <1>1, <1>2, TypeCorrect, CalmInvHolds, NextKeepsFlagInv, PTL DEF Spec
=============================================================================
