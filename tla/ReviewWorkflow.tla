--------------------------- MODULE ReviewWorkflow ---------------------------
(***************************************************************************)
(* Human Review of one e-mail: the cases the pipeline opens and retires    *)
(* (HumanReviewService.ensure_actionable_case, reconcile_email), what a    *)
(* reviewer does to a case (claim, override, resolve, dismiss), and the    *)
(* review plan whose confirmation writes the selected overrides in one     *)
(* transaction and re-compares in a second one (ReviewPlanService).        *)
(*                                                                         *)
(* The case operations load the case for the first time under its row      *)
(* lock, so each is one atomic step.  The plan endpoints load the plan     *)
(* without a lock, keep it, and lock it afterwards; the session's identity *)
(* map returns the object it already has, with the values of the first     *)
(* load, and writes back only the attributes that differ from them.  A     *)
(* plan request is therefore a load and a later step on what it loaded.    *)
(***************************************************************************)
EXTENDS Naturals, Sequences, FiniteSetsExt, SequencesExt

CONSTANTS
  Requests,     \* plan requests that can be in flight together
  Targets,      \* (document side, field) pairs a reviewer can correct
  AiTargets,    \* those whose plan item comes from an AI suggestion
  Settled,      \* statuses the pipeline can give an e-mail that needs no reviewer
  Reasons,      \* block reasons without a comparison the pipeline can produce
  NewStatuses,  \* statuses a client gives a new plan item
  Decisions,    \* statuses a reviewer gives a plan item
  StaleCase,    \* whether a confirming session may keep the case it locked
  MaxSyncs,     \* bound on pipeline runs
  MaxOverrides, \* bound on field overrides
  MaxFaults     \* bound on failed re-comparisons and crashes

ASSUME ReviewAssumption ==
  /\ IsFiniteSet(Targets) /\ AiTargets \subseteq Targets
  /\ Settled \subseteq {"COMPLETED", "AWAITING_DOCUMENTS", "FAILED"}
  /\ NewStatuses \subseteq {"PROPOSED", "APPROVED", "REJECTED"}
  /\ Decisions \subseteq {"APPROVED", "EDITED", "REJECTED"}
  /\ StaleCase \subseteq BOOLEAN /\ FALSE \in StaleCase
  /\ {MaxSyncs, MaxOverrides, MaxFaults} \subseteq Nat

VARIABLES
  email,       \* processing_status and content version of the e-mail
  cases,       \* human_review_cases, in creation order
  comparisons, \* comparison_results, in creation order
  overrides,   \* human_review_field_overrides, in creation order
  plan,        \* the review plan, or NoPlan
  session,     \* per request: its step, the plan and the case it holds
  syncs,       \* pipeline runs so far
  faults       \* faults so far

caseVars == <<email, cases, comparisons>>
vars == <<email, cases, comparisons, overrides, plan, session, syncs, faults>>

ActiveStatuses == {"OPEN", "IN_REVIEW"}
ItemStatuses   == {"PROPOSED", "APPROVED", "EDITED", "REJECTED", "APPLIED"}
PlanStatuses   == {"DRAFT", "CONFIRMED", "APPLIED", "APPLY_FAILED", "CANCELLED"}
NoPlan == [status |-> "ABSENT"]
HasPlan == plan.status # "ABSENT"

Idle == [step |-> "IDLE"]
CaseIds == DOMAIN cases
Active(c) == cases[c].status \in ActiveStatuses
ActiveOverrides(c) == {i \in DOMAIN overrides : overrides[i].case = c /\ overrides[i].active}

\* The fields still open once the corrections are laid over the extraction.
OpenFields(docs, corrections) ==
  comparisons[docs].unresolved \ {overrides[i].target : i \in corrections}
FaultAllowed == faults < MaxFaults /\ faults' = faults + 1
----------------------------------------------------------------------------
(* The pipeline *)

\* workflow_identity: the comparison, or the content and the reason.
Identity(content, reason, source) ==
  IF source # 0 THEN <<"comparison", source>> ELSE <<"workflow", content, reason>>

\* reconcile_email: the case kept is the oldest active one of the reason and,
\* when there is one, of the source comparison; the others are dismissed.
Kept(reason, source) ==
  LET candidates == {c \in CaseIds : /\ Active(c) /\ cases[c].reason = reason
                                     /\ source = 0 \/ cases[c].source = source}
  IN  IF candidates = {} THEN {} ELSE {Min(candidates)}

\* Fault: retired cases get a status of the review plans.
RetireAsCancelled(keep) ==
  [c \in CaseIds |-> IF Active(c) /\ c \notin keep
                       THEN [cases[c] EXCEPT !.status = "CANCELLED", !.by = "SYSTEM"]
                       ELSE cases[c]]

Retire(keep) ==
  [c \in CaseIds |-> IF Active(c) /\ c \notin keep
                       THEN [cases[c] EXCEPT !.status = "DISMISSED", !.by = "SYSTEM"]
                       ELSE cases[c]]

\* Fault: the case is created first and the reconciliation retires it.
EnsureBeforeReconcile(reason, source, content) ==
  Append(Retire(Kept(reason, source)),
         [status |-> "DISMISSED", reason |-> reason, source |-> source,
          identity |-> Identity(content, reason, source), by |-> "SYSTEM"])

\* ensure_actionable_case: after the reconciliation a case is created unless
\* one of the same identity is still active.
Ensure(reason, source, content) ==
  LET retired  == Retire(Kept(reason, source))
      identity == Identity(content, reason, source)
      same     == {c \in CaseIds : /\ retired[c].status \in ActiveStatuses
                                   /\ retired[c].reason = reason
                                   /\ retired[c].identity = identity}
  IN  IF same # {} THEN retired
      ELSE Append(retired, [status |-> "OPEN", reason |-> reason, source |-> source,
                            identity |-> identity, by |-> "NOBODY"])

\* One run of sync_one that is not skipped: the first one, changed content, or
\* the forced run of a FAILED e-mail.
SyncContent(changed) ==
  /\ syncs < MaxSyncs /\ syncs' = syncs + 1
  /\ IF changed THEN email.status # "NEW" ELSE email.status \in {"NEW", "FAILED"}
NewContent(changed) == IF changed THEN email.content + 1 ELSE email.content

\* Routes that need no reviewer: every active case is retired.
SyncSettles(changed, status) ==
  /\ SyncContent(changed)
  /\ email' = [status |-> status, content |-> NewContent(changed)]
  /\ cases' = Retire({})
  /\ UNCHANGED <<comparisons, overrides, plan, session, faults>>

\* Readiness or documents block the e-mail before any comparison.
SyncBlocks(changed, reason) ==
  /\ SyncContent(changed)
  /\ email' = [status |-> "BLOCKED", content |-> NewContent(changed)]
  /\ cases' = Ensure(reason, 0, NewContent(changed))
  /\ UNCHANGED <<comparisons, overrides, plan, session, faults>>

\* Open fields block the e-mail; the case is about its latest comparison, which
\* may be one a reviewer's re-comparison stored.
Conclude(changed, unresolved) ==
  IF unresolved = {}
    THEN /\ email' = [status |-> "COMPLETED", content |-> NewContent(changed)]
         /\ cases' = Retire({})
    ELSE /\ email' = [status |-> "BLOCKED", content |-> NewContent(changed)]
         /\ cases' = Ensure("COMPARISON_UNRESOLVED", Len(comparisons'), NewContent(changed))

\* New documents are compared.
SyncCompares(changed, unresolved) ==
  /\ SyncContent(changed)
  /\ comparisons' = Append(comparisons, [docs |-> Len(comparisons) + 1, case |-> 0,
                                         corrections |-> {}, unresolved |-> unresolved])
  /\ Conclude(changed, unresolved)
  /\ UNCHANGED <<overrides, plan, session, faults>>

\* The attachments are those of an earlier run: its comparison is reused, with
\* the outcome it had before any correction.
SyncReuses(changed, earlier) ==
  /\ SyncContent(changed)
  /\ comparisons[earlier].case = 0
  /\ UNCHANGED comparisons
  /\ Conclude(changed, comparisons[earlier].unresolved)
  /\ UNCHANGED <<overrides, plan, session, faults>>
----------------------------------------------------------------------------
(* The reviewer's operations on a case *)

\* _source_comparison: that of the case, or the latest one of the e-mail.
SourceOf(c) == IF cases[c].source # 0 THEN cases[c].source ELSE Len(comparisons)

Claim(c) ==
  /\ cases[c].status = "OPEN"
  /\ cases' = [cases EXCEPT ![c].status = "IN_REVIEW"]
  /\ UNCHANGED <<email, comparisons, overrides, plan, session, syncs, faults>>

\* Fault: the earlier correction of the target stays active.
OverrideBeside(c, targets, author) ==
  overrides \o [k \in 1..Cardinality(targets) |->
                  [case |-> c, target |-> SetToSeq(targets)[k], author |-> author,
                   active |-> TRUE]]

\* Fault: a correction deactivates those of the other targets too.
OverrideInsteadOfAll(c, targets, author) ==
  [i \in DOMAIN overrides |->
     [overrides[i] EXCEPT !.active = @ /\ i \notin ActiveOverrides(c)]]
  \o [k \in 1..Cardinality(targets) |->
       [case |-> c, target |-> SetToSeq(targets)[k], author |-> author, active |-> TRUE]]

\* The rows after an override of each target by one author: the active one of
\* the same case and target is deactivated first.
Override(c, targets, author) ==
  LET superseded == {i \in ActiveOverrides(c) : overrides[i].target \in targets}
      kept == [i \in DOMAIN overrides |->
                 [overrides[i] EXCEPT !.active = @ /\ i \notin superseded]]
  IN  kept \o [k \in 1..Cardinality(targets) |->
                [case |-> c, target |-> SetToSeq(targets)[k], author |-> author,
                 active |-> TRUE]]

\* Fault: a closed case accepts a correction and is in review again.
AddOverrideToAny(c, t) ==
  /\ SourceOf(c) # 0 /\ Len(overrides) < MaxOverrides
  /\ overrides' = Override(c, {t}, "REVIEWER")
  /\ cases' = [cases EXCEPT ![c].status = "IN_REVIEW"]
  /\ UNCHANGED <<email, comparisons, plan, session, syncs, faults>>

AddOverride(c, t) ==
  /\ Active(c) /\ SourceOf(c) # 0 /\ Len(overrides) < MaxOverrides
  /\ overrides' = Override(c, {t}, "REVIEWER")
  /\ cases' = [cases EXCEPT ![c].status = "IN_REVIEW"]
  /\ UNCHANGED <<email, comparisons, plan, session, syncs, faults>>

Dismiss(c) ==
  /\ Active(c)
  /\ cases' = [cases EXCEPT ![c].status = "DISMISSED", ![c].by = "REVIEWER"]
  /\ UNCHANGED <<email, comparisons, overrides, plan, session, syncs, faults>>

\* The comparison a re-comparison of case c stores: the review version names
\* the case and its active overrides, so an equal one is updated in place.
ReviewVersion(c) ==
  LET docs == comparisons[SourceOf(c)].docs
  IN  [docs |-> docs, case |-> c, corrections |-> ActiveOverrides(c),
       unresolved |-> OpenFields(docs, ActiveOverrides(c))]
\* Fault: the review version does not name the corrections.
StoredAsOfCase(version) ==
  LET same == {i \in DOMAIN comparisons : /\ comparisons[i].docs = version.docs
                                          /\ comparisons[i].case = version.case}
  IN  IF same = {} THEN Len(comparisons) + 1 ELSE Min(same)

StoredAs(version) ==
  LET same == {i \in DOMAIN comparisons : comparisons[i] = version}
  IN  IF same = {} THEN Len(comparisons) + 1 ELSE Min(same)

\* resolve_and_recompare from the status the session sees; a status equal to
\* the one it loaded is not written.
Recompare(c, seen) ==
  LET version  == ReviewVersion(c)
      definite == version.unresolved = {}
      status   == IF definite THEN "RESOLVED" ELSE "IN_REVIEW"
  IN  /\ seen \in ActiveStatuses /\ SourceOf(c) # 0
      /\ comparisons' = IF StoredAs(version) \in DOMAIN comparisons THEN comparisons
                                                        ELSE Append(comparisons, version)
      /\ email' = [email EXCEPT !.status = IF definite THEN "COMPLETED" ELSE "BLOCKED"]
      /\ cases' = IF status = seen THEN cases ELSE [cases EXCEPT ![c].status = status]

Resolve(c) ==
  /\ Recompare(c, cases[c].status)
  /\ UNCHANGED <<overrides, plan, session, syncs, faults>>
----------------------------------------------------------------------------
(* Review plans *)

CreatePlan(c, items) ==
  /\ ~HasPlan /\ Active(c)
  /\ plan' = [status |-> "DRAFT", case |-> c, items |-> items, applied |-> 0]
  /\ UNCHANGED <<caseVars, overrides, session, syncs, faults>>

\* The endpoint's first, unlocked, read of the plan.
LoadPlan(r) ==
  /\ HasPlan /\ session[r].step = "IDLE"
  /\ session' = [session EXCEPT ![r] = [step |-> "LOADED", plan |-> plan]]
  /\ UNCHANGED <<caseVars, overrides, plan, syncs, faults>>

Seen(r) == session[r].plan
Done(r) == session' = [session EXCEPT ![r] = Idle]
Editable(r) == session[r].step = "LOADED" /\ Seen(r).status = "DRAFT"

\* The write of an attribute: the row keeps its value when the session's new
\* value is the one it loaded.
Written(new, loaded, stored) == IF new = loaded THEN stored ELSE new

UpdateItem(r, t, status) ==
  /\ Editable(r) /\ t \in DOMAIN Seen(r).items
  /\ t \in DOMAIN plan.items
  /\ plan' = [plan EXCEPT !.items[t] = Written(status, Seen(r).items[t], @)]
  /\ Done(r)
  /\ UNCHANGED <<caseVars, overrides, syncs, faults>>

\* The unique constraint refuses a target another request has added.
AddItem(r, t, status) ==
  /\ Editable(r) /\ t \notin DOMAIN Seen(r).items
  /\ t \notin DOMAIN plan.items
  /\ plan' = [plan EXCEPT !.items = [u \in DOMAIN plan.items \cup {t} |->
                                       IF u = t THEN status ELSE plan.items[u]]]
  /\ Done(r)
  /\ UNCHANGED <<caseVars, overrides, syncs, faults>>

RemoveItem(r, t) ==
  /\ Editable(r) /\ t \in DOMAIN Seen(r).items \ AiTargets
  /\ plan' = [plan EXCEPT !.items = [u \in DOMAIN plan.items \ {t} |-> plan.items[u]]]
  /\ Done(r)
  /\ UNCHANGED <<caseVars, overrides, syncs, faults>>

CancelPlan(r) ==
  /\ Editable(r)
  /\ plan' = [plan EXCEPT !.status = "CANCELLED"]
  /\ Done(r)
  /\ UNCHANGED <<caseVars, overrides, syncs, faults>>

\* A conflict, a validation error or a row that is gone: nothing is written.
GiveUp(r) ==
  /\ session[r].step = "LOADED"
  /\ Done(r)
  /\ UNCHANGED <<caseVars, overrides, plan, syncs, faults>>

\* Fault: every decided item is selected.
SelectedWhenDecided(p) == {t \in DOMAIN p.items : p.items[t] # "PROPOSED"}

Selected(p) == {t \in DOMAIN p.items : p.items[t] \in {"APPROVED", "EDITED"}}

\* First transaction of confirm: the overrides of the selected items, the
\* items APPLIED, the plan CONFIRMED, the case IN_REVIEW.  The session goes on
\* with the case object or, when its reference has been collected, without it.
Confirm(r, keepsCase) ==
  LET chosen == Selected(Seen(r))
      c      == plan.case
  IN  /\ Editable(r) /\ chosen # {} /\ chosen \subseteq DOMAIN plan.items
      /\ Active(c) /\ SourceOf(c) # 0
      /\ Len(overrides) + Cardinality(chosen) <= MaxOverrides
      /\ overrides' = Override(c, chosen, "PLAN")
      /\ cases' = [cases EXCEPT ![c].status = "IN_REVIEW"]
      /\ plan' = [plan EXCEPT !.status = "CONFIRMED",
                    !.items = [t \in DOMAIN plan.items |->
                                 IF t \in chosen THEN "APPLIED" ELSE plan.items[t]]]
      /\ session' = [session EXCEPT ![r] = [step |-> "CONFIRMED", keepsCase |-> keepsCase]]
      /\ UNCHANGED <<email, comparisons, syncs, faults>>

\* Fault: confirming again writes the overrides again.
ConfirmRetryWrites(r) ==
  /\ session[r].step = "LOADED" /\ Seen(r).status = "APPLY_FAILED"
  /\ LET applied == {t \in DOMAIN Seen(r).items : Seen(r).items[t] = "APPLIED"}
     IN  /\ Len(overrides) + Cardinality(applied) <= MaxOverrides
         /\ overrides' = Override(plan.case, applied, "PLAN")
  /\ plan' = [plan EXCEPT !.status = "CONFIRMED"]
  /\ session' = [session EXCEPT ![r] = [step |-> "CONFIRMED", keepsCase |-> FALSE]]
  /\ UNCHANGED <<caseVars, syncs, faults>>

\* Confirming again after APPLY_FAILED writes no override.
ConfirmRetry(r) ==
  /\ session[r].step = "LOADED" /\ Seen(r).status = "APPLY_FAILED"
  /\ \E t \in DOMAIN Seen(r).items : Seen(r).items[t] = "APPLIED"
  /\ plan' = [plan EXCEPT !.status = "CONFIRMED"]
  /\ session' = [session EXCEPT ![r] = [step |-> "CONFIRMED", keepsCase |-> FALSE]]
  /\ UNCHANGED <<caseVars, overrides, syncs, faults>>

\* The case status the second transaction works on: a kept object says IN_REVIEW.
CaseSeen(r) == IF session[r].keepsCase THEN "IN_REVIEW" ELSE cases[plan.case].status

\* Second transaction: re-compare, or return the comparison of a case another
\* request has resolved meanwhile.
Apply(r) ==
  /\ session[r].step = "CONFIRMED"
  /\ LET c == plan.case
         reviews == {i \in DOMAIN comparisons : comparisons[i].case = c}
     IN  IF CaseSeen(r) = "RESOLVED"
           THEN /\ plan' = [plan EXCEPT !.status = "APPLIED", !.applied = Max(reviews)]
                /\ UNCHANGED caseVars
           ELSE /\ Recompare(c, CaseSeen(r))
                /\ plan' = [plan EXCEPT !.status = "APPLIED",
                                        !.applied = StoredAs(ReviewVersion(c))]
  /\ Done(r)
  /\ UNCHANGED <<overrides, syncs, faults>>

\* The re-comparison raises, or finds the case dismissed: it is rolled back
\* and the failure stored; the first transaction stays.
ApplyFails(r) ==
  /\ session[r].step = "CONFIRMED"
  /\ IF CaseSeen(r) = "DISMISSED" THEN UNCHANGED faults ELSE FaultAllowed
  /\ plan' = [plan EXCEPT !.status = "APPLY_FAILED"]
  /\ Done(r)
  /\ UNCHANGED <<caseVars, overrides, syncs>>

\* The process dies between the two transactions of its requests.
Crash ==
  /\ FaultAllowed
  /\ \E r \in Requests : session[r].step = "CONFIRMED"
  /\ session' = [r \in Requests |-> Idle]
  /\ UNCHANGED <<caseVars, overrides, plan, syncs>>
----------------------------------------------------------------------------
(* What the queues of the API show (api/product_queries.py) *)

LatestState ==
  IF comparisons = <<>> THEN "NONE"
  ELSE IF Last(comparisons).unresolved = {} THEN "COMPLETED" ELSE "BLOCKED"

\* The cases of the Human Review list, and of the count of open reviews.
Listed ==
  {c \in CaseIds : Active(c) /\ email.status = "BLOCKED" /\ LatestState # "COMPLETED"}

\* Whether the e-mail queue shows the e-mail as one that needs review.
NeedsReview ==
  \/ cases # <<>> /\ Active(Len(cases))
  \/ email.status = "BLOCKED"
  \/ LatestState = "BLOCKED"
----------------------------------------------------------------------------
Init ==
  /\ email = [status |-> "NEW", content |-> 1]
  /\ cases = <<>> /\ comparisons = <<>> /\ overrides = <<>>
  /\ plan = NoPlan
  /\ session = [r \in Requests |-> Idle]
  /\ syncs = 0 /\ faults = 0

NewItems == UNION {[S -> NewStatuses] : S \in SUBSET Targets \ {{}}}

Sync ==
  \E changed \in BOOLEAN :
    \/ \E status \in Settled : SyncSettles(changed, status)
    \/ \E reason \in Reasons : SyncBlocks(changed, reason)
    \/ \E unresolved \in SUBSET Targets : SyncCompares(changed, unresolved)
    \/ \E earlier \in DOMAIN comparisons : SyncReuses(changed, earlier)

Review ==
  \E c \in CaseIds :
    \/ Claim(c) \/ Dismiss(c) \/ Resolve(c)
    \/ \E t \in Targets : AddOverride(c, t)
    \/ \E items \in NewItems : CreatePlan(c, items)

EditPlan(r) ==
  \/ LoadPlan(r) \/ CancelPlan(r) \/ GiveUp(r)
  \/ \E t \in Targets :
       \/ RemoveItem(r, t)
       \/ \E status \in Decisions : UpdateItem(r, t, status)
       \/ \E status \in NewStatuses : AddItem(r, t, status)

Next ==
  \/ Sync \/ Review \/ Crash
  \/ \E r \in Requests :
       \/ EditPlan(r) \/ ConfirmRetry(r) \/ Apply(r) \/ ApplyFails(r)
       \/ \E keeps \in StaleCase : Confirm(r, keeps)

Spec == Init /\ [][Next]_vars
----------------------------------------------------------------------------
CaseReasons == Reasons \cup {"COMPARISON_UNRESOLVED"}
Identities ==
  ({"comparison"} \X (Nat \ {0})) \cup ({"workflow"} \X (Nat \ {0}) \X CaseReasons)
CaseRows ==
  [status : ActiveStatuses \cup {"RESOLVED", "DISMISSED"}, reason : CaseReasons,
   source : Nat, identity : Identities, by : {"NOBODY", "SYSTEM", "REVIEWER"}]
ComparisonRows ==
  [docs : Nat \ {0}, case : Nat, corrections : SUBSET Nat, unresolved : SUBSET Targets]
OverrideRows ==
  [case : Nat \ {0}, target : Targets, author : {"REVIEWER", "PLAN"}, active : BOOLEAN]
Items == UNION {[S -> ItemStatuses] : S \in SUBSET Targets}
Plans == [status : PlanStatuses, case : Nat \ {0}, items : Items, applied : Nat]
Sessions ==
  {Idle} \cup [step : {"LOADED"}, plan : Plans]
         \cup [step : {"CONFIRMED"}, keepsCase : StaleCase]

\* Every variable has its type, and every reference names a row that exists.
TypeOK ==
  /\ email \in [status : {"NEW", "COMPLETED", "AWAITING_DOCUMENTS", "FAILED", "BLOCKED"},
                content : 1..(syncs + 1)]
  /\ cases \in Seq(CaseRows)
  /\ comparisons \in Seq(ComparisonRows)
  /\ overrides \in Seq(OverrideRows)
  /\ plan \in Plans \cup {NoPlan}
  /\ session \in [Requests -> Sessions]
  /\ syncs \in 0..MaxSyncs /\ faults \in 0..MaxFaults
  /\ \A c \in CaseIds : cases[c].source \in 0..Len(comparisons)
  /\ \A i \in DOMAIN comparisons :
       /\ comparisons[i].docs \in 1..i /\ comparisons[i].case \in 0..Len(cases)
       /\ comparisons[i].corrections \subseteq DOMAIN overrides
  /\ \A i \in DOMAIN overrides : overrides[i].case \in CaseIds
  /\ HasPlan => plan.case \in CaseIds /\ plan.applied \in 0..Len(comparisons)
  /\ \A r \in Requests : session[r] # Idle => HasPlan

\* review/service.py:118-130.  At most one active case represents the e-mail.
OneActiveCase == Cardinality({c \in CaseIds : Active(c)}) <= 1

\* docs/human_review_semantics.md:60.  An active case of a BLOCKED e-mail is in the
\* Human Review list (api/product_queries.py:980-1001).
ActiveIsListed ==
  email.status = "BLOCKED" => \A c \in CaseIds : Active(c) => c \in Listed

\* docs/human_review_semantics.md:40.  An e-mail that failed or waits for documents
\* is not shown as one that needs review (api/product_queries.py:117-126).
WaitingNeedsNoReview ==
  email.status \in {"FAILED", "AWAITING_DOCUMENTS"} => ~NeedsReview

\* sync/service.py:541-590.  A BLOCKED e-mail is in front of a reviewer, or a
\* reviewer has dismissed it.
BlockedIsReviewed ==
  email.status = "BLOCKED" =>
    \E c \in CaseIds : Active(c) \/ (cases[c].status = "DISMISSED" /\ cases[c].by = "REVIEWER")

\* review/service.py:346-350.  A case is RESOLVED only by a comparison of its
\* own that leaves no field open.
ResolvedIsDefinite ==
  \A c \in CaseIds : cases[c].status = "RESOLVED" =>
    \E i \in DOMAIN comparisons : comparisons[i].case = c /\ comparisons[i].unresolved = {}

\* review/service.py:226-236.  One active correction per case and target.
OneActiveOverride ==
  \A c \in CaseIds, t \in Targets :
    Cardinality({i \in ActiveOverrides(c) : overrides[i].target = t}) <= 1

\* plan_service.py:224-250, 263-270.  Once confirmed, every applied item keeps an
\* active correction of its case, whatever happens to the re-comparison.
DecisionsDurable ==
  HasPlan => \A t \in DOMAIN plan.items : plan.items[t] = "APPLIED" =>
    \E i \in ActiveOverrides(plan.case) : overrides[i].target = t

\* plan_service.py:214-250.  Confirming, failing, crashing and confirming again
\* writes the correction of an item once.
PlanWritesOnce ==
  \A t \in Targets :
    Cardinality({i \in DOMAIN overrides :
                   overrides[i].author = "PLAN" /\ overrides[i].target = t}) <= 1

\* plan_service.py:252-262.  The comparison of an APPLIED plan includes a
\* correction of every item the plan applied.
AppliedIsCompared ==
  HasPlan /\ plan.status = "APPLIED" =>
    \A t \in DOMAIN plan.items : plan.items[t] = "APPLIED" =>
      \E i \in comparisons[plan.applied].corrections : overrides[i].target = t

\* review/service.py:287-288, 346-350, 371-372.  RESOLVED and DISMISSED are final.
CasesStayClosed ==
  [][\A c \in CaseIds : ~Active(c) => cases'[c].status = cases[c].status]_vars

\* README.md:152: only approved items are implemented.
RejectedNotApplied ==
  [][HasPlan => \A t \in DOMAIN plan.items :
       plan.items[t] = "REJECTED" => ~(t \in DOMAIN plan'.items /\ plan'.items[t] = "APPLIED")]_vars
=============================================================================
