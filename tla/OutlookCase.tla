----------------------------- MODULE OutlookCase -----------------------------
(***************************************************************************)
(* The endpoints behind the Outlook add-in and the dashboard that write to *)
(* one e-mail: the smart reply (summary, generate, refine, send), the      *)
(* manual category with its write-back to the mailbox, and the             *)
(* reconciliation of the message's Outlook state.                          *)
(*                                                                         *)
(* No endpoint locks the row.  Each loads it, calls a provider, and writes *)
(* at its commit the columns it changed.  The state of the reply and the   *)
(* list of Outlook events are parts of one JSON column, source_metadata,   *)
(* which every endpoint changes and writes as a whole.                     *)
(***************************************************************************)
EXTENDS Naturals, FiniteSets

CONSTANTS
  Requests,     \* requests that may be in flight at once
  SendKeys,     \* idempotency keys of send requests
  Categories,   \* categories a person may choose
  Cases,        \* states the pipeline may leave the e-mail in
  Payloads,     \* reconciliations the add-in may ask for
  MaxRequests,  \* bound on requests
  MaxPipeline,  \* bound on the steps of the pipeline and of the Graph worker
  MaxFaults,    \* bound on provider failures and crashes
  None

ASSUME OutlookCaseAssumption ==
  /\ {MaxRequests, MaxPipeline, MaxFaults} \subseteq Nat
  /\ None \notin SendKeys \cup Categories /\ Cases # {}
  /\ Payloads \subseteq [lifecycle : {"DELETED", "RESTORED", "ARCHIVED", "ACTIVE", "UNSAID"},
                         archived : {"YES", "NO", "UNSAID"}]

VARIABLES
  row,        \* email_messages and the latest manual category
  request,
  mailbox,    \* the category the message has in the mailbox
  patched,    \* history: the last write-back to the mailbox succeeded
  delivered,  \* history: replies that left, by idempotency key
  recent,     \* history: replies that left since the draft or the content changed
  calm,       \* history: no request overlapped another, was lost, or got no answer
  made, steps, faults

vars == <<row, request, mailbox, patched, delivered, recent, calm, made, steps, faults>>

FaultAllowed == faults < MaxFaults /\ faults' = faults + 1

NoWorkflow == [status |-> "NONE", key |-> None]
Idle       == [pc |-> "idle"]
InFlight   == {r \in Requests : request[r] # Idle}
----------------------------------------------------------------------------
(* evaluate_reply_policy *)

Requestable == {"REQUESTABLE"}

\* open: the latest comparison has unresolved or mismatched fields.
Mode(case) ==
  CASE case.status = "FAILED" -> "REFUSED"
    [] case.status = "COMPLETED" /\ case.comparison = "COMPLETED" /\ ~case.open -> "RESOLUTION_REPLY"
    [] case.status = "BLOCKED" /\ case.reason \notin Requestable -> "REFUSED"
    [] case.status = "AWAITING_DOCUMENTS" \/ case.open \/ case.reason \in Requestable
         -> "REQUEST_INFORMATION"
    [] OTHER -> "REFUSED"

Allowed(case) == Mode(case) # "REFUSED"
----------------------------------------------------------------------------
(* Requests *)

Start(r, record) ==
  /\ request[r] = Idle /\ made < MaxRequests
  /\ made' = made + 1
  /\ request' = [request EXCEPT ![r] = record]
  /\ calm' = (calm /\ InFlight = {})
  /\ UNCHANGED <<row, mailbox, patched, delivered, recent, steps, faults>>

\* The summary is made for any e-mail; the drafts need the policy's consent.
AskDraft(r, op) ==
  /\ op \in {"generate", "refine"} => Allowed(row.case)
  /\ Start(r, [op |-> op, pc |-> "commit", seen |-> row])

\* Fault: a draft that was sent may be sent again under another key.
SendableByKey(workflow, key) == ~(workflow.status = "SENT" /\ workflow.key = key)

\* A repeated key is answered with what is stored, another is refused.
Sendable(workflow, key) == workflow.status # "SENT"

AskSend(r, key) ==
  /\ Allowed(row.case) /\ Sendable(row.workflow, key)
  /\ Start(r, [op |-> "send", pc |-> "call", seen |-> row, key |-> key, accepted |-> FALSE])

AskCategory(r, category) ==
  Start(r, [op |-> "category", pc |-> "commit", seen |-> row, category |-> category, accepted |-> FALSE])

AskReconcile(r, payload) ==
  Start(r, [op |-> "reconcile", pc |-> "commit", seen |-> row, payload |-> payload])
----------------------------------------------------------------------------
(* The provider *)

\* Fault: an error of the provider is taken for its consent.
AcceptedOnError(left, answered) == TRUE

\* GraphClientError is raised for a refusal, and for an answer that is lost.
Accepted(left, answered) == left /\ answered

GraphReply(r, left, answered) ==
  /\ request[r].pc = "call"
  /\ IF left /\ answered THEN UNCHANGED faults ELSE FaultAllowed
  /\ request' = [request EXCEPT ![r] = [@ EXCEPT !.pc = "commit", !.accepted = Accepted(left, answered)]]
  /\ delivered' = IF left THEN [delivered EXCEPT ![request[r].key] = @ + 1] ELSE delivered
  /\ recent' = IF left THEN recent + 1 ELSE recent
  /\ calm' = (calm /\ ~(left /\ ~answered))
  /\ UNCHANGED <<row, mailbox, patched, made, steps>>

GraphPatch(r, succeeds) ==
  /\ request[r].pc = "patch"
  /\ IF succeeds THEN UNCHANGED faults ELSE FaultAllowed
  /\ request' = [request EXCEPT ![r] = [@ EXCEPT !.pc = "commit2", !.accepted = succeeds]]
  /\ mailbox' = IF succeeds THEN request[r].category ELSE mailbox
  /\ patched' = succeeds
  /\ UNCHANGED <<row, delivered, recent, calm, made, steps>>
----------------------------------------------------------------------------
(* Commits: only the columns that differ from what was loaded are written,  *)
(* and source_metadata always does.                                         *)

Drafted(op) ==
  CASE op = "summary"  -> "KEY_POINTS_READY"
    [] op = "generate" -> "DRAFT_READY"
    [] op = "refine"   -> "DRAFT_REFINED"

CommitDraft(r) ==
  /\ request[r].pc = "commit" /\ request[r].op \in {"summary", "generate", "refine"}
  /\ row' = [row EXCEPT !.workflow = [request[r].seen.workflow EXCEPT !.status = Drafted(request[r].op)]]
  /\ request' = [request EXCEPT ![r] = Idle]
  /\ recent' = 0
  /\ UNCHANGED <<mailbox, patched, delivered, calm, made, steps, faults>>

Outcome(q) == [status |-> IF q.accepted THEN "SENT" ELSE "SEND_FAILED", key |-> q.key]

CommitSend(r) ==
  /\ request[r].pc = "commit" /\ request[r].op = "send"
  /\ row' = [row EXCEPT !.workflow = Outcome(request[r])]
  /\ request' = [request EXCEPT ![r] = Idle]
  /\ UNCHANGED <<mailbox, patched, delivered, recent, calm, made, steps, faults>>

\* The new classification row is numbered by the rows that were loaded: the
\* second of two requests with the same number fails, and writes nothing.
CommitCategory(r) ==
  /\ request[r].pc = "commit" /\ request[r].op = "category"
  /\ LET q == request[r]
     IN  IF row.overrides # q.seen.overrides
           THEN request' = [request EXCEPT ![r] = Idle] /\ UNCHANGED row
           ELSE /\ row' = [row EXCEPT !.human = q.category, !.overrides = @ + 1,
                                      !.workflow = q.seen.workflow]
                /\ request' = [request EXCEPT ![r] = [@ EXCEPT !.pc = "patch"]]
  /\ UNCHANGED <<mailbox, patched, delivered, recent, calm, made, steps, faults>>

\* Fault: the write-back puts back the category the message had.
PatchedColumnsBefore(q) == q.seen.shown

PatchedColumns(q) == IF q.accepted THEN q.category ELSE q.seen.shown

\* After its first commit the session holds the row as it wrote it.
CommitPatch(r) ==
  /\ request[r].pc = "commit2"
  /\ LET q == request[r]
     IN  row' = [row EXCEPT !.workflow = q.seen.workflow,
                            !.shown = IF PatchedColumns(q) = q.seen.shown THEN @ ELSE PatchedColumns(q)]
  /\ request' = [request EXCEPT ![r] = Idle]
  /\ UNCHANGED <<mailbox, patched, delivered, recent, calm, made, steps, faults>>

\* Fault: the word of the request is stored.
RequestedVerbatim(seen, payload) ==
  [lifecycle |-> IF payload.lifecycle = "UNSAID" THEN seen.lifecycle ELSE payload.lifecycle,
   archived |-> seen.archived]

Requested(seen, payload) ==
  CASE payload.lifecycle = "DELETED"  -> [lifecycle |-> "DELETED",  archived |-> seen.archived]
    [] payload.lifecycle = "RESTORED" -> [lifecycle |-> "ACTIVE",   archived |-> seen.archived]
    [] payload.lifecycle = "ARCHIVED" -> [lifecycle |-> "ARCHIVED", archived |-> "YES"]
    [] payload.lifecycle = "ACTIVE"   -> [lifecycle |-> "ACTIVE",
                                          archived |-> IF payload.archived = "YES" THEN "YES" ELSE "NO"]
    [] payload.lifecycle = "UNSAID"   -> [lifecycle |-> seen.lifecycle, archived |-> seen.archived]

\* Fault: the folder flag is stored and the life cycle left alone.
ReconciledFlagOnly(seen, payload) ==
  LET asked == Requested(seen, payload)
  IN  IF payload.archived \in {"UNSAID", asked.archived} THEN asked
      ELSE [asked EXCEPT !.archived = payload.archived]

Reconciled(seen, payload) ==
  LET asked == Requested(seen, payload)
  IN  IF payload.archived \in {"UNSAID", asked.archived} THEN asked
      ELSE [archived  |-> payload.archived,
            lifecycle |-> IF payload.archived = "YES" /\ asked.lifecycle = "ACTIVE" THEN "ARCHIVED"
                          ELSE IF payload.archived = "NO" /\ asked.lifecycle = "ARCHIVED" THEN "ACTIVE"
                          ELSE asked.lifecycle]

CommitReconcile(r) ==
  /\ request[r].pc = "commit" /\ request[r].op = "reconcile"
  /\ LET seen == request[r].seen
         new  == Reconciled(seen, request[r].payload)
     IN  row' = [row EXCEPT
           !.workflow = seen.workflow,
           !.lifecycle = IF new.lifecycle = seen.lifecycle THEN @ ELSE new.lifecycle,
           !.archived = IF new.archived = seen.archived THEN @ ELSE new.archived]
  /\ request' = [request EXCEPT ![r] = Idle]
  /\ UNCHANGED <<mailbox, patched, delivered, recent, calm, made, steps, faults>>

\* The process dies, or the client's connection does: what was not committed is
\* lost, what the provider did is not.
Crash(r) ==
  /\ r \in InFlight /\ FaultAllowed
  /\ request' = [request EXCEPT ![r] = Idle]
  /\ calm' = FALSE
  /\ UNCHANGED <<row, mailbox, patched, delivered, recent, made, steps>>
----------------------------------------------------------------------------
(* Beside the requests *)

StepAllowed == steps < MaxPipeline /\ steps' = steps + 1

\* sync_one commits another result; changed content replaces source_metadata.
Processed(case, changed) ==
  /\ StepAllowed
  /\ row' = [row EXCEPT !.case = case, !.workflow = IF changed THEN NoWorkflow ELSE @]
  /\ recent' = IF changed THEN 0 ELSE recent
  /\ calm' = (calm /\ InFlight = {})
  /\ UNCHANGED <<request, mailbox, patched, delivered, made, faults>>

\* A delta page with the message: what the mailbox holds is what is shown.
Mirrored(lifecycle) == IF lifecycle = "DELETED" THEN "ACTIVE" ELSE lifecycle

DeltaPage(removed) ==
  /\ StepAllowed
  /\ row' = IF removed THEN [row EXCEPT !.lifecycle = "DELETED"]
            ELSE [row EXCEPT !.lifecycle = Mirrored(@), !.shown = mailbox]
  /\ calm' = (calm /\ InFlight = {})
  /\ UNCHANGED <<request, mailbox, patched, delivered, recent, made, faults>>
----------------------------------------------------------------------------
Init ==
  /\ \E case \in Cases :
       row = [case |-> case, workflow |-> NoWorkflow, human |-> None, overrides |-> 0,
              shown |-> None, lifecycle |-> "ACTIVE", archived |-> "NO"]
  /\ request = [r \in Requests |-> Idle]
  /\ mailbox = None /\ patched = TRUE
  /\ delivered = [k \in SendKeys |-> 0] /\ recent = 0
  /\ calm = TRUE
  /\ made = 0 /\ steps = 0 /\ faults = 0

Endpoint(r) ==
  \/ \E op \in {"summary", "generate", "refine"} : AskDraft(r, op)
  \/ \E key \in SendKeys : AskSend(r, key)
  \/ \E category \in Categories : AskCategory(r, category)
  \/ \E payload \in Payloads : AskReconcile(r, payload)
  \/ \E left \in BOOLEAN, answered \in BOOLEAN : GraphReply(r, left, answered)
  \/ \E succeeds \in BOOLEAN : GraphPatch(r, succeeds)
  \/ CommitDraft(r) \/ CommitSend(r) \/ CommitCategory(r) \/ CommitPatch(r) \/ CommitReconcile(r)
  \/ Crash(r)

Next ==
  \/ \E r \in Requests : Endpoint(r)
  \/ \E case \in Cases, changed \in BOOLEAN : Processed(case, changed)
  \/ \E removed \in BOOLEAN : DeltaPage(removed)

Spec == Init /\ [][Next]_vars
----------------------------------------------------------------------------
(* Properties *)

WorkflowType ==
  [status : {"NONE", "KEY_POINTS_READY", "DRAFT_READY", "DRAFT_REFINED", "SENT", "SEND_FAILED"},
   key : SendKeys \cup {None}]

RowType ==
  [case : Cases, workflow : WorkflowType,
   human : Categories \cup {None}, overrides : Nat, shown : Categories \cup {None},
   lifecycle : {"ACTIVE", "ARCHIVED", "DELETED"}, archived : {"YES", "NO"}]

Drafts == [op : {"summary", "generate", "refine"}, pc : {"commit"}, seen : RowType]
Sends  == [op : {"send"}, pc : {"call", "commit"}, seen : RowType, key : SendKeys, accepted : BOOLEAN]
CategoryChanges ==
  [op : {"category"}, pc : {"commit", "patch", "commit2"}, seen : RowType,
   category : Categories, accepted : BOOLEAN]
Reconciliations == [op : {"reconcile"}, pc : {"commit"}, seen : RowType, payload : Payloads]

RequestType == Drafts \cup Sends \cup CategoryChanges \cup Reconciliations

\* Every variable has its type.
TypeOK ==
  /\ row \in RowType
  /\ request \in [Requests -> RequestType \cup {Idle}]
  /\ mailbox \in Categories \cup {None} /\ patched \in BOOLEAN /\ calm \in BOOLEAN
  /\ delivered \in [SendKeys -> Nat] /\ recent \in Nat
  /\ made \in Nat /\ steps \in Nat /\ faults \in Nat

\* README.md, Smart Reply: "send status is recorded only after the provider
\* confirms success".  Whatever stale copies of source_metadata the other
\* endpoints write back, SENT names a key whose reply has left.
SentWasDelivered == row.workflow.status = "SENT" => delivered[row.workflow.key] > 0

\* product_reply_send, "refusing a possible duplicate": as long as requests do
\* not overlap and no answer of the provider is lost, one draft leaves once,
\* under whatever idempotency keys it is sent.
OneReplyPerDraft == calm => recent <= 1

\* While requests do not overlap, the mailbox shows the person's category once
\* the write-back has succeeded, and so does the row until the mailbox changes.
MailboxShowsCategory ==
  (calm /\ patched /\ InFlight = {} /\ row.human # None) =>
    mailbox = row.human /\ row.shown = row.human

\* product_outlook_reconcile: an ARCHIVED e-mail has its folder flag set, over
\* any sequence of reconciliations that do not overlap.
ArchivedIsFlagged == (calm /\ row.lifecycle = "ARCHIVED") => row.archived = "YES"

\* docs/enhancement_completion.md: reply sending is "idempotent".  Both clients
\* make up a new key for each request, so it is the draft that must leave once.
NoDuplicateReply == recent <= 1
=============================================================================
