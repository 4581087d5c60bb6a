# HolyShip: a TLA+ model of the processing service

HolyShip reads shipping e-mails, classifies them, extracts fields from a
Shipping Instruction (SI) and a draft Bill of Lading (BL), compares the fields,
and sends what it cannot decide to a human reviewer.  This directory models the
parts of `src/backend/app` where the outcome depends on the order of events:
background threads, shared caches, row locks, two-phase commits, retries, and
timeouts.  Text processing is abstracted to the decision it produces.

Paths below are relative to `src/backend/app` unless they start with `docs/`,
`backend/tests/` or are a file of the repository's root.

## 1. Inventory

| Component | State it keeps | Operations | Correct when |
|---|---|---|---|
| Shared pipeline, `sync/service.py` | `email_messages` row (status, content hash, lifecycle), processing job, classification history | `sync_one`, backlog run (sequential, parallel), `_record_failure` | every e-mail ends in a status that says what happens next; a DELETED record keeps its history; a failure of one is recorded and does not touch others |
| Graph worker, `ingestion/graph_sync.py` | checkpoint row (cursor, error, subscription), stop and wake events, one session per run | ensure subscription, delta pages, reconcile, stop, wake | the cursor never passes work that is not done; the mailbox is caught up with; stop ends the thread |
| Polling, `ingestion/polling.py`, `runtime.py` | checkpoint, poll counters, thread | poll cycle, start, stop | every new or changed message is processed once; an interrupted one is restarted |
| Human Review cases, `review/service.py` | cases, events, field overrides, review comparisons | ensure, reconcile, claim, override, resolve, dismiss | a blocked e-mail is in front of a reviewer; closed cases stay closed; a result reflects the corrections |
| Review plans, `review/plan_service.py` | plan and items | create, edit, add, remove, cancel, confirm | only approved items are applied, once, and survive a failed re-comparison |
| AI escalation, `resolution/service.py`, `core/reliability.py` | process-shared decision cache, key locks, budgets, slots; `ai_resolutions` rows | resolve one, resolve batch, retry, time out | budgets and slots hold with abandoned threads; a decision is asked once and never changes; a hung provider blocks nobody |
| Materialization and readers, `documents/` | attachment, document and extraction rows, OCR cache and budget | process, read, classify role | an outcome is chosen by a fixed precedence; work already committed is reused |
| Field extraction, `extraction/` | extraction cache rows | extract, persist fresh or cached | the same document is computed once; provenance is the document's own |
| Classification, `classification/` | none of its own | stage gating, scores, ties, readiness | attachment names never decide; ties have a rule |
| Comparison, `comparison/` | comparison rows by (e-mail, SI, BL, version) | compare, persist | unresolved is never reported as match or mismatch |
| Discrepancies, `discrepancy/service.py` | resolution status, overrides | acknowledge, resolve, override, recompare | does not contradict a review of the same e-mail |
| AI suggestions, `ai_review/` | suggestion rows | ask, accept, edit, dismiss | a suggestion is applied by a human only |
| Reply workflow, `api/router.py`, `reply/policy.py` | JSON in the e-mail's metadata | draft, refine, send | a reply is sent once and only when confirmed |
| Data lifecycle, `data_lifecycle/` | retention runs | dry run, apply | nothing still needed is removed |
| HTTP API, `api/` | none of its own | requests to the above | errors map to the right status |

**Interactions.**  The polling thread, the Graph thread, the API's request
threads and the parallel backlog run all call the pipeline, each with its own
database session; the Graph worker and its pipeline calls share *one* session.
The pipeline opens and retires review cases.  Reviewers, plans and the pipeline
write to the same e-mail and case rows.  All extraction and comparison in a
process share one `ResolutionSharedState`, and all readers one `OcrSharedState`;
all processes share the extraction cache in the database.  Replies, categories and
reconciliations of one e-mail share its JSON column `source_metadata`.  Microsoft Graph reaches the service
through a webhook that only sets an event.

**What is hard.**  Commits and rollbacks of the shared session in the middle of a page;
a cursor that is persisted separately from the work it covers; objects of the session's
identity map that are older than the row (`autoflush=False`,
`expire_on_commit=False`); decisions committed before the step that may fail;
threads that outlive the caller that started them; check-then-act on budgets
and caches.  `PROJECT.json` lists each hazard at its line, with the properties
that cover it or the reason none does.

## 2. Modules

| Module | Models | Uses |
|---|---|---|
| `EmailPipeline` | one committed run of `sync_one`, as operators | |
| `GraphSync` | the Graph worker, the mailbox, the session, shutdown and restart | `EmailPipeline` |
| `Ingestion` | the polling thread, the backlog run and the reprocess endpoint over the same rows | `EmailPipeline` |
| `Materialization` | what the documents of an e-mail are read and routed to, as operators | |
| `DocumentStages` | concurrent runs of the document stage, OCR state, extraction cache, clean-up, deployments | `Materialization`, `SingleFlight` |
| `SingleFlight` | abstract: what a shared table of costly answers promises | |
| `ReviewWorkflow` | Human Review cases, review plans and the review queue, of one e-mail | |
| `DiscrepancyWorkflow` | discrepancy operations, Human Review corrections and AI suggestions, of one comparison chain | |
| `OutlookCase` | replies, manual categories and reconciliation of one message | |
| `ResolutionExecutor` | the AI escalation executor and its helper threads | |
| `Classification`, `Extraction`, `FieldComparison` | the deciding operators of the three stages | |
| `Decisions` | puts the four groups of operators behind each other, over bounded inputs | `Classification`, `Materialization`, `Extraction`, `FieldComparison` |
| `GraphSyncProofs`, `IngestionProofs`, `DocumentProofs`, `ReviewProofs`, `DiscrepancyProofs`, `OutlookCaseProofs`, `ResolutionExecutorProofs`, `DecisionsProofs` | theorems about the module of the same name (`DocumentStages`, `ReviewWorkflow`, `DiscrepancyWorkflow` for the third to fifth) | that module |
| `MC...` | the TLC instance of each | the module it is named after |

In every module a definition whose comment starts with "Fault" is a wrong form
of the definition after it.  No other definition uses it.  Each checked
property has such a fault (the `mutants` of `PROJECT.json`): with it in
place, TLC finds the property violated, so no property holds by accident.

### EmailPipeline and GraphSync

`EmailPipeline` keeps the *control* of `_ingest_and_classify`: upsert, the two
early returns, the route, the final status and job, and the failure record.
`Routes` stands for everything the classifier and the documents decide; a human
category narrows it (`RoutesFor`).  Statuses that exist only inside the
transaction are left out.  The branch that ends in `HUMAN_REVIEW_REQUIRED` is
left out too: neither the classifier's stages nor a manual override yields its stage.

| `GraphSync` | Code |
|---|---|
| `feed`, `PageRows`, `notice`, `subscription` | the mailbox, its delta query, its notifications (external; what `graph_client.py` is given) |
| `db`, `outlook`, `cursor`, `lastError` | committed e-mail rows and `ingestion_checkpoints` |
| `pending` | what the worker's session has changed and not committed |
| `pc`, `rows` (places of the page in `feed`), `nextCursor`, `lastPage`, `force`, `attempt` | where `_run`, `sync_once` and `_process_one` are, and their locals |
| `wake`, `stop`, `stopping` | the two `threading.Event`s, and a `stop()` between setting them |

`Process` is `sync_one` up to its commit; `CommitWith` is that commit, which
also commits `pending`.  `ProcessRetries` is the rollback of the retry loop.
`ProcessRaises` is the last attempt, with and without a stored failure record.  `FailSync` is the
`except` branch of `sync_once`.  `Crash` drops the session and the events.
`Start` is a new process.  A delta page shows the current state of a message
once, as Graph documents it.  A Graph record has no attachment bytes to
reprocess from, so `Reprocess` never reaches a comparison.  The webhook URL and its
client state are taken to be configured; without them there is no subscription
and the interval alone drives the worker.

### ReviewWorkflow

One e-mail, its cases in creation order, its comparisons in creation order (an
equal version is updated in place: `StoredAs`), its overrides, and one plan.
Case operations read the case for the first time under its row lock and are
one step each.  Plan endpoints read the plan first without a lock and again
with it; SQLAlchemy returns the object already in the identity map without
refreshing it, and writes back only attributes that differ from the values first
loaded (`Written`).  A plan request is therefore `LoadPlan`, and later an
operation on what it loaded.  `Confirm` is the first transaction of `confirm`;
`Apply`, `ApplyFails` and `Crash` are what can follow.  Pipeline runs are the
`Sync...` actions; `SyncReuses` is the run that finds the comparison of
unchanged attachments.  `LatestState`, `Listed` and `NeedsReview` are the queries
of the review queue.

### ResolutionExecutor

A caller is a worker thread with one request: a single key follows `_resolve`,
several follow `resolve_extraction_batch`.  `pc` is its place; `helper`, `tries`,
`result` belong to the daemon thread of `run_with_timeout`; `cache`, `calls`,
`slots` are `ResolutionSharedState`.  `asked` counts provider invocations.  The
cache stands for process cache and table together: they agree unless a
transaction is rolled back after storing (`SessionsRollBack`).  `TimesOut` may
happen at any time, also when the answer is about to arrive.  A provider that raises a
timeout of its own is a transient failure or a failure here.

### Ingestion

A `sync_one` of a writer is its read, its first write, which waits for the
row or the unique key, its work, and its commit, with a retry after each failure.
The writers are the polling thread, the workers of a backlog run, and one
reprocess request.  `snapshot` is what `existing_messages()` returned at the
start of a polling cycle and what the cycle itself adds to it; `report` is
what the backlog run returns.  `Restart` is a crash with a new process.

### Materialization, DocumentStages and SingleFlight

`Materialization` answers for the readers and the router: what text a file
yields, the role that text shows, the outcome of each attachment, and the outcome
of the e-mail in the order of precedence of the code.  File contents are
records of what matters (`kind`, `native`, `markers`), never bytes.

`DocumentStages` runs it.  A run of an e-mail is one transaction in `txn`: it
reads its attachments one by one, with an OCR call where needed (`AskOcr`, `LockOcr`,
`HelperEnters`, `HelperReturns`, `OcrTimesOut`), creates or keeps document rows
(`Kept`), looks up and fills the extraction cache for the two documents
(`LookUp`, `Persist`), and commits or rolls back.  Other transactions see
committed rows only; an insert of a cache key that another transaction committed
loses and copies the winner's row.  `CleanUp` deletes what is past its retention,
`Restart` empties the OCR state and may deploy another extractor version.

`SingleFlight` is the abstract specification of the OCR state: one
computation started for each key, its answer written once, all of it lost
together at a restart.  `OcrSingleFlight == Ocr!Spec` states that
`DocumentStages` implements it, with `started` mapped to the contents of the
helper threads that were started and `table` to the OCR cache.

### DiscrepancyWorkflow

One e-mail that was compared: the list of its comparisons, the corrections of
all owners, the status of the e-mail and its case, and the suggestions of that
case.  Each operation is one transaction and addresses any comparison, as a
request that waited for a lock does.  A comparison is stored under the version
that its source and its corrections give (`Same`): an equal one is found again
and updated in place.  `Moved` is the transfer of corrections to the new row.

### OutlookCase

Requests load the row, call a provider, and write at their commit the columns
they changed; `source_metadata` is one column, so a write carries along what the
request loaded of the rest.  `delivered` and `recent` are history: replies
that left, by key, and since the draft or the content last changed.
`calm` is history too: no request has overlapped another, was lost, or got no answer.

### Classification, Extraction, FieldComparison and Decisions

Pure decisions, with text replaced by what the code derives from it: scores of
signals, lines and cells with their labels, names and codes of ports, words of
company names.  The similarity ratio, the port registry and the label
dictionary are parameters.  `Decisions` chooses an input, evaluates the
operator, and goes on to the next stage with another input when the answer
allows it, as the pipeline does.  The reference definitions against which the
operators are checked are in its properties (`SaidInTable`, `SaidInLines` say
what a document says of a field, in another way than the scan).

## 3. Runs

| Run | Instance | Shows |
|---|---|---|
| `GraphSyncSafety` | 2 messages, 3 mailbox changes, pages of 2, 2 faults, one processing attempt | the cursor covers new messages, lifecycle changes and technical failures; DELETED records keep their status |
| `GraphSyncLiveness` | 2 messages, 2 changes, 2 faults, 2 ageing steps, 2 processing attempts | catches up after faults; keeps a valid subscription |
| `GraphSyncWake` | 2 messages, 3 changes, no interval | no notification is lost; `stop()` ends the thread |
| `IngestionRaces` | 2 messages, 2 contents, 2 changes, one backlog run, one fault, 2 attempts | a new message is processed once whoever races for it; a backlog run accounts for its listing; polling settles |
| `DocumentStages` | 2 e-mails that share a scan, one OCR slot, 2 OCR calls, 3 runs, one fault | fields are those of a document's own bytes; cache entries are complete; stored documents are kept; one OCR call per scan; runs end |
| `ReviewPlans` | 2 fields (one suggested by AI), 2 pipeline runs, 2 overrides, one fault, one plan request at a time | decisions are durable, written once and included in the applied comparison; blocked e-mails have a case; closed cases stay closed |
| `Discrepancies` | 2 fields (a mismatch, a gap), 2 correctable cells, 2 corrections, 3 comparisons, one suggestion | one active correction per cell; a suggestion is used once; stored comparisons do not change; corrections are carried over |
| `OutlookReplies` | 2 requests at a time, 4 in all, one pipeline step, one fault | SENT means delivered; undisturbed, a draft leaves once and the mailbox shows the category |
| `ResolutionMixed` | 3 callers (two equal single requests, one batch containing the key), 2 cases, budget 2, one slot, 2 attempts | budgets, slots, single flight, accepted answers, complete batches, stable decisions, callers return |
| `Decisions` | 3 categories, 7 files in e-mails of up to 3, documents of 4 lines or 3 rows, all pairs of field values | names of attachments and the order of tables, attachments and documents never decide; evidence decides a field; approved ports decide |
| `GraphSyncUnfinished` (violation) | 1 message, one fault | an exception leaves the row NEW, only FAILED rows are retried, and the cursor passes the message |
| `ReplySentTwice` (violation) | 2 requests, no fault | two overlapping requests send one reply twice |

Other disagreements between the code and its documents have a configuration
too, one property each; TLC finds it violated (`tlc -config X.cfg M`, M the MC
module of the row).  The findings of `PROJECT.json` quote the
documents.

| Configuration | Module | Property | Disagreement |
|---|---|---|---|
| `GraphSyncRetryRollback` | `MCGraphSync` | `CursorCoversLifecycle` | a retry rolls back the lifecycle changes of earlier entries of the page |
| `GraphSyncPoison` | `MCGraphSync` | `PoisonDoesNotBlock` | a message that always fails keeps later ones out |
| `IngestionChangedFails` | `MCIngestion` | `FailureIsVisible` | changed content that failed looks done |
| `ExtractionBlank` | `MCDocumentStages` | `FieldsMatch` | a document whose second reading timed out puts empty fields into the cache |
| `ExtractionVersions` | `MCDocumentStages` | `EntriesComplete` | a new extractor version cannot register a document again |
| `ReviewTwoCases` | `MCReviewWorkflow` | `OneActiveCase` | changed content blocked for the same reason leaves two active cases |
| `ReviewRejectedApplied` | `MCReviewWorkflow` | `RejectedNotApplied` | a stale confirmation applies a rejected item |
| `ReviewDismissedResolved` | `MCReviewWorkflow` | `CasesStayClosed` | the second transaction of `confirm` resolves a dismissed case |
| `ReviewHiddenCase` | `MCReviewWorkflow` | `ActiveIsListed` | the comparison of old content hides an active case |
| `ReviewStaleQueue` | `MCReviewWorkflow` | `WaitingNeedsNoReview` | the comparison of old content keeps a FAILED e-mail in the queue |
| `CorrectionsLost` | `MCDiscrepancyWorkflow` | `ChainCarried` | a re-comparison forgets the corrections of Human Review |
| `ResolutionBudget` | `MCResolutionExecutor` | `BudgetIsPerCase` | a batch caches one case's exhausted budget for other cases |
| `LabelsAsValues` | `MCDecisions` | `LabelsAreNoValues` | a label becomes the value of another field |
| `OrderInInstructions` | `MCDecisions` | `OrderOnlyInDraft` | "To the order of" is the consignee of an SI too |
| `PortsBySimilarity` | `MCDecisions` | `OnlyApprovedPortsMatch` | equal codes and similar names make ports equal |
| `PortCodeOverName` | `MCDecisions` | `CodeRespectsNames` | an equal code overrules an approved name |

The type invariants (`TypeOK`), and `ResolvedIsDefinite` and `OneActiveOverride` of
`ReviewWorkflow`, `FailedWasHurt` of `DocumentStages` and `ArchivedIsFlagged` of
`OutlookCase`, hold in the instances above.  They are theorems (section 4, `FailedWasHurt`
for one extractor version) and are not among the properties of the runs.

**Environment of the passing runs.**  `GraphSyncSafety` has one processing
attempt (`RetryMax = 1`), `ReviewPlans` one plan request at a time and a second
transaction that reads the case again (`StaleCase = {FALSE}`),
`ResolutionMixed` no rollback after a decision is stored, `DocumentStages` one
fault and one extractor version; `OneReplyPerDraft` and `MailboxShowsCategory` speak of
requests that do not overlap, and `CorrectionsCarried` of comparisons that Human Review
did not make.  What goes wrong without these limits is shown by the violation run
and the configurations above; a rollback makes `DecisionStable` fail, which is
a hazard without a run.

**Bounds.**  Two messages and three changes give the patterns that matter:
deliver, delete, restore; two messages on one page, on two pages; a change
behind a failed one.  Two faults allow a failure during the recovery from
another.  Two fields and two overrides allow a plan with an applied and an open
item, a correction superseding another, and a re-comparison with more
corrections than before; two pipeline runs allow changed content under an open
case or a confirmed plan.  Three comparisons allow a re-comparison of a
re-comparison and one that is found again.  Two e-mails that share one of their
documents allow the race for a cache row, the wait for another's OCR call, and a
clean-up between look-up and copy; three runs allow one e-mail to be run again after the
other.  Four requests allow draft, two sends and a category change.
Three callers with one slot allow an abandoned helper
that blocks another, a single request and a batch deciding the same key, and
retries that spend the budget of a second caller of the same case.
The polling run has one worker beside the polling thread and the reprocess
request: three writers that race for each row.

**Fairness.**  `GraphSync!FairSpec`: the worker thread is scheduled, and none of
its waits is unbounded (`wake.wait` has a timeout, unless `IntervalElapses` is
FALSE, where only wake-ups count); a notification sent is delivered, `stop()`
runs to its end, a dead process is restarted.  Faults, changes, ageing and
shutdown have no fairness and are bounded, so "eventually" means after they end.
`Ingestion!FairSpec`: the polling thread is scheduled and its sleeps end, and a
request that has begun runs to its end; requests and faults are never forced.
`DocumentStages!FairSpec`: weak fairness of each worker only; its waits for the
engine time out, and the key lock it may wait for is held by a worker whose
wait does.  `ResolutionExecutor!FairSpec`: weak fairness of each caller only.  A caller
blocks on a lock, whose holder returns, or on its queue, which has a timeout.
Every caller makes one request, so a lock is not taken for ever by others.
Nothing is assumed about providers, engines or helpers: a hung one is a
helper that takes no further step.

`CHECK_DEADLOCK FALSE` where the system really stops: callers that have
returned, a stopped worker, bounds that are spent.

## 4. Proofs

Every safety invariant, every action property and the refinement that a passing run
checks is a theorem for all values of the constants.
Each proof module names the facts a step needs in lemmas about the operators of the
model, proves one lemma for each action, and joins them in the temporal step.
Where a property holds only under a condition on the environment, the condition is
a hypothesis of the theorem, and a configuration of section 3 shows what goes
wrong without it.

| Theorem | Property | Rests on |
|---|---|---|
| `GraphSyncProofs!NewMessagesStored`, `FailuresHoldCursor` | `CursorCoversNew`, `FailedHoldsCursor` | `CursorInv` |
| `GraphSyncProofs!DeletedRowsKept` | `DeletedIsPreserved` | `CursorInv` |
| `GraphSyncProofs!LifecyclesMirrored`, `LifecyclesMirroredOnce` | `CursorCoversLifecycle` | `CursorInv`, `MirrorInv`; no retry with changes pending, or `RetryMax = 1` |
| `IngestionProofs!NewMessagesOnce` | `NewMessageProcessedOnce` | `OnceInv` |
| `IngestionProofs!BacklogIsComplete` | `BacklogComplete` | `BacklogInv` |
| `DocumentProofs!DocumentsAreKept` | `DocumentsKept` | `KeptInv` |
| `DocumentProofs!ScansReadOnce` | `OcrSingleFlight` (the refinement of `SingleFlight`) | `KeptInv`, `CallsInv` |
| `DocumentProofs!FieldsAreOwn` | `FieldsMatch`, `EntriesComplete` | `KeptInv`, `FieldsInv`; one extractor version, `TextAtHand` |
| `DocumentProofs!FieldsAreOwnInOneProcess` | the same | the above, `CallsInv`, `RolesInv`; no restart |
| `DocumentProofs!FailedWasHurtAlways` | `FailedWasHurt` | `KeptInv`, `CallsInv`, `FieldsInv`, `HurtInv`; one extractor version |
| `ReviewProofs!DecisionsAreDurable` | `DecisionsDurable` | `RowsInv` |
| `ReviewProofs!ResolvedAreDefinite`, `CorrectedOnce` | `ResolvedIsDefinite`, `OneActiveOverride` | `RowsInv`; `UniqueInv` |
| `ReviewProofs!AppliedPlansAreCompared` | `AppliedIsCompared` | `RowsInv`, `AppliedInv` |
| `ReviewProofs!ClosedStaysClosed`, `BlockedHasReview`, `FreshSessionsReview` | `CasesStayClosed`, `BlockedIsReviewed` | `RowsInv`; `FreshCase`, or `StaleCase = {FALSE}` |
| `ReviewProofs!PlansWriteOnce`, `RejectedIsNotApplied`, `SingleRequestPlans` | `PlanWritesOnce`, `RejectedNotApplied` | `RowsInv`, `PlanInv`; `Alone`, or one request |
| `DiscrepancyProofs!CorrectionsAreUnique`, `HistoryIsImmutable`, `CorrectionsAreCarried` | `OneActivePerCell`, `HistoryImmutable`, `CorrectionsCarried` | `CorrectionsInv` |
| `DiscrepancyProofs!SuggestionsApplyOnce` | `SuggestionAppliedOnce` | `SuggestionsInv` |
| `OutlookCaseProofs!SentOnlyDelivered` | `SentWasDelivered` | `SentInv` |
| `OutlookCaseProofs!OneReply`, `MailboxAgrees` | `OneReplyPerDraft`, `MailboxShowsCategory` | `CalmInv` |
| `OutlookCaseProofs!ArchivedAreFlagged` | `ArchivedIsFlagged` | `CalmInv`, `FlagInv` |
| `DecisionsProofs!NamesNeverDecide`, `ListingNeverDecides`, `RegistryDecides` | `FilenamesNeverDecide`, `OrderNeverDecides`, `ApprovedPortsDecide` | `StageOneAgrees`, `Faithful` |
| `DecisionsProofs!EvidenceAlwaysDecides` | `EvidenceDecides` | `Faithful`, `DocumentScanned`, `ResolvedByValues` |
| `ResolutionExecutorProofs!SlotsAreConserved`, `BudgetIsBounded` | `SlotsConserved`, `BudgetBounded` | `HelperInv` |
| `ResolutionExecutorProofs!ReturnsDecided`, `AcceptedAnswers` | `DoneIsDecided`, `AcceptedWasAnswered` | `AnswerInv` |
| `ResolutionExecutorProofs!SingleFlight` | `SingleKeyAskedOnce` | `SingleFlightInv` |
| `ResolutionExecutorProofs!DecisionsAreStable` | `DecisionStable` | no rollback after a decision is stored |

`TypeCorrect` of each module but `DecisionsProofs` states its type invariant.

**GraphSync.**  `CursorCoversNew` speaks of what the cursor has passed; inside a page nothing of
the page has been passed yet.  `CursorInv` therefore says it of everything `Accounted` for: behind the
cursor, or an entry of the page that has been handled.  It adds where the entries of a page stand
(`PageInv`), what is known of the entry at hand (`EntryInv`), and that a DELETED row was
removed from the mailbox at some time (`RemovedInv`).  `MirrorInv` says the same of lifecycles, for what the
session sees and not for what is committed: the commit of the page makes them one.  A retry that rolls
back pending changes breaks it, and only that does (`HarmlessRetries`; without it `GraphSyncRetryRollback`).

**Ingestion.**  `OnceInv`: a transaction past its first write holds the row, and one that found no row is
about to create it.  `BacklogInv` balances the listing: outcomes, busy workers and backlog add up to it.
Messages and workers are finite, and there is a worker (`sync_max_workers >= 1`, `core/config.py:18`).

**DocumentStages.**  `KeptInv`: a run holds a document for all it has read and every stored document in
its role; what it registers in the cache, and what the cache points to, has a row.  `CallsInv` is the
exclusion of the key locks: who calls the engine holds the lock of its content, which was started and has no
answer yet.  With it each step maps to a step of `SingleFlight` or a stutter.  `FieldsMatch` and `EntriesComplete` are
not inductive: they say nothing of what a run has extracted and not yet committed, nor of a row it found
without fields and is about to fill.  `FieldsInv` adds both (`SoundRun`, `MissedInv`).  It is inductive if the
text of a document whose fields are extracted was read in the same run (`TextAtHand`; without it
`ExtractionBlank`) and there is one version (without it `ExtractionVersions`).  Its parameter says whether the
empty fields of a document without text count as its own: they do not in the theorems about fields, and do where
only the structure of rows and keys is needed, which then holds without `TextAtHand`.  `RolesInv`, a document has a
role because its content can be read in this process, gives `TextAtHand` as long as no process is restarted.  `HurtInv` follows a failure through a run:
a document that was looked up and not put down for computation is FAILED only in a run that
met a failure (`GivenUpInv`).  The look-up refuses no row, since a key points to a complete extraction of that very key
(`SourcesServe`).  This is where one version is needed: a key of an old version may point to a row that was extracted
again under a new one.

**ReviewWorkflow.**  `RowsInv`: a comparison of a case corrects what still stands of it and all that the earlier ones
corrected (`CoverInv`), and a resolved case has one with all its corrections and no open field (`ResolvedInv`), so that a plan
that is APPLIED without a new comparison refers to one that includes it.  `AppliedInv` adds
that the comparison a plan names exists.  `UniqueInv` counts the active corrections of a
target, and is inductive beside `RowsInv`.  `PlanInv`: what a request has loaded is the plan that is stored, and the plan has written no two rows
for one target and none as a draft.  It needs `Alone`, one request of the plan at a time (without it
`ReviewRejectedApplied`).  `FreshCase` says that the second transaction of `confirm` sees the case as it
is (without it `ReviewDismissedResolved`).  The first two theorems need neither.  Correctable cells are finite.

**DiscrepancyWorkflow.**  `CorrectionsInv`: what a comparison was made of can still be read from its
corrections (`ValueIsOverlay`), these only move to later comparisons (`OwnersMoveOn`), and the
latest one has an active correction of every cell it corrects (`LatestCovered`).  `SuggestionsInv` names the
correction of each applied suggestion.

**OutlookCase.**  `SentInv` says of the copies requests hold what the property says of the row.
`CalmInv`: undisturbed, the only request in flight has what the row has, and a reply has left exactly when the
row, or the send about to be committed, says so.  `FlagInv` says the same of life cycle and folder flag.

**Decisions.**  `StageOneAgrees` is the main result: Stage 1 commits only to a category that Stage 2 would
choose too, for any scores and any table.  A confident Stage 1 has a body that speaks of its category alone
and a subject that speaks of none more (`ConfidentIsClear`), so the category scores highest at Stage 2 as well.  Stage 2
reads neither names nor table, which gives `FilenamesNeverDecide` and the first part of
`OrderNeverDecides`; the thresholds of Stage 1 decide the reason and the work, never the category.
Assumed: categories are finite, a table lists each once, scores are natural numbers.

`EvidenceDecides` compares the scan of a document with what it says of a field in another way (`Said`).
The scans of pages and tables walk over the lines by recursive functions; `WalkRecursion` and `FlattenRecursion`
show that each has a solution, `Walked` and `Flattened` what it holds, both by induction on a set of numbers (`Induction`),
since the induction theorems of the library cannot be instantiated.  `PageScanned` and
`TableScanned` give the candidates of a page and a table, `DocumentScanned` those of a document, and `ResolvedByValues` the field that
any list of candidates with these values leads to.  `Faithful` adds that an escalation overlays the
decision on the document at hand.  Assumed: a field takes a block of lines or one
line, not both; documents have lists of pages and tables, these of lines and rows.  The property is about documents in which no two
rows of a table are headers one after the other (`HeadersApart`).

**ResolutionExecutor.**
Assumptions: `CallersAssumption` (finitely many callers, for
counting), `RequestAssumption`, `LimitAssumption`.

1. `HelperInv` is inductive.  `SlotsConserved` alone is not: a helper could be
   started twice.  `BudgetBounded` alone is not: a helper that has
   been charged and waits for a slot will still make its call.  The
   strengthening `BudgetLedger` says that the calls charged to a case are those
   made plus those waiting for a slot.  With `calls` at most the budget (from
   `TypeOK`) this gives `BudgetBounded`.  Cardinalities change by one in
   `EnterKeepsHelperInv`, `ChargeKeepsHelperInv`, `LeaveKeepsHelperInv`.
2. `LockExclusive` is inductive by itself; `SingleFlight` needs it.
3. `AnswerInv` ties the outcome of a caller to its place (`OutcomeInStep`) and
   says that each wanted key is decided or on the list (`DecidedOrTodo`).  It
   gives `ReturnsDecided` and `AcceptedAnswers`.
4. `SingleFlightInv`: when a single request has returned with a decision of its
   own, the decision is cached and no identical request is past its second look
   into the cache (`OwnDecisionCached`).  It rests on the locks and the answers.
   It does not need stable decisions: a cached key never becomes uncached.
5. `DecisionsAreStable` is an action property, under `~SessionsRollBack`; the
   other theorems hold with rollbacks too.

**Model-checked only.**  The liveness properties (`CatchesUp`, `SubscriptionKept`, `NoWakeLost`, `StopTerminates`,
`PollingSettles`, `RunsEnd`, `CallersReturn`): fairness and ENABLED are out of the prover's reach.

## 5. Not modelled, and why

- Text: which words give a signal, parsing of file formats, tokens and
  normal forms of values, prompts, redaction, formatting.  The modules start from what
  they find.
- The AI gateway's redaction and key rotation, settings, the Graph payload
  adapter: conversions without shared state.
- Metrics and audit events; the race on shared metrics changes no decision.
- Row-level lock order between e-mail and case: the database aborts a cycle.
- Rows of the worker's identity map that are older than the database, across
  pages of one run: the API's concurrent changes to a Graph record's lifecycle
  fields are not part of the model.
- Several plans of one e-mail at the same time.
- The clean-up of runtime files and of the categories that nothing in the
  pipeline reads, the log of clean-up runs.
- Queries and serialisation other than the review queue.
- Front ends, Outlook add-in, scripts, evaluation.

## 6. Plan

Every component whose outcome depends on the order of events is modelled, and the safety properties
of the runs are proved.  What could follow:

1. The fields of documents over a change of the extractor version (`ExtractionVersions`), once the code lets a
   new version register a document again.
2. Several plans of one e-mail at the same time.

`SingleFlight` is not the abstraction of the decision cache of `ResolutionExecutor`: a batch asks again for keys that
another caller has decided, and a failed call may be repeated.  What remains of it is that a decision is written
once, which `DecisionStable` says.
