----------------------------- MODULE GraphSync -----------------------------
(***************************************************************************)
(* The Microsoft Graph background worker: GraphSyncRuntime (subscription,  *)
(* wake-up, start and stop) driving GraphLifecycleSyncService.sync_once    *)
(* (delta pages, processing of unknown messages through the shared         *)
(* pipeline, lifecycle reconciliation, the persisted cursor).              *)
(*                                                                         *)
(* One database session serves a whole sync_once.  sync_one commits it in  *)
(* the middle of a page and its retry loop rolls it back, so the changes   *)
(* the worker has made to the rows of a page but not yet committed are a   *)
(* variable of their own (`pending`).                                      *)
(*                                                                         *)
(* The mailbox is a log of changes; a cursor is a position of that log.  A *)
(* delta page covers the next PageSize positions and shows, as Graph does, *)
(* the current state of each message: an entry is shown only while it is   *)
(* the latest one of its message.  A page is the set of the positions it   *)
(* shows, handled in their order.                                          *)
(***************************************************************************)
EXTENDS EmailPipeline, Integers, Sequences, FiniteSets

CONSTANTS
  Msgs,             \* messages of the mailbox
  Poison,           \* messages whose documents always fail technically
  MaxChanges,       \* bound on the mailbox log
  MaxFaults,        \* bound on failures, crashes and restarts
  MaxAges,          \* bound on the ageing of subscriptions
  PageSize,         \* changes covered by one delta page
  RetryMax,         \* settings.retry_max_attempts
  IntervalElapses,  \* TRUE when the wait for a wake-up can time out
  StopRequests      \* TRUE when the application may shut down

ASSUME GraphSyncAssumption ==
  /\ Poison \subseteq Msgs
  /\ {MaxChanges, MaxFaults, MaxAges} \subseteq Nat
  /\ PageSize \in Nat \ {0} /\ RetryMax \in Nat \ {0}
  /\ {IntervalElapses, StopRequests} \subseteq BOOLEAN
  /\ Contents # {}

\* One content is enough: a message is fetched when it has no row or a FAILED one,
\* and then it is processed whether or not its content has changed.
Content == CHOOSE c \in Contents : TRUE

VARIABLES
  feed,        \* the mailbox: a sequence of [msg, kind]
  notice,      \* a change notification is on its way to the webhook
  subscription,\* the Graph subscription as its expiry time shows it
  ages,        \* number of ageing steps taken
  db,          \* committed e-mail rows
  outlook,     \* committed Outlook state of each row: the position it shows
  cursor,      \* ingestion_checkpoints.cursor_value
  lastError,   \* ingestion_checkpoints.last_error_code is set
  pending,     \* the session's uncommitted lifecycle changes, by message
  pc,          \* where the worker thread is
  rows,        \* positions of the page still to handle
  nextCursor,  \* nextLink or deltaLink of the page being handled
  lastPage,    \* the page carried a deltaLink
  force,       \* the row being processed had FAILED when it was read
  attempt,     \* attempt of the processing retry loop
  wake,        \* GraphSyncRuntime._wake
  stop,        \* GraphSyncRuntime._stop
  stopping,    \* stop() has been called and has not yet set _wake
  faults       \* failures spent

mailboxVars == <<feed, notice>>
subVars     == <<subscription, ages>>
storeVars   == <<db, outlook, cursor, lastError>>
pageVars    == <<rows, nextCursor, lastPage, force, attempt>>
eventVars   == <<wake, stop, stopping>>
vars == <<mailboxVars, subVars, storeVars, pending, pc, pageVars, eventVars, faults>>

Subscriptions == {"NONE", "VALID", "EXPIRING", "EXPIRED"}
Live == subscription \in {"VALID", "EXPIRING"}

PCs == {"check", "subscribe", "page", "row", "process", "apply", "fail",
        "wait", "clear", "stopped", "down"}
----------------------------------------------------------------------------
(* The mailbox *)

\* 0 when the message was never in the mailbox.
LatestAmong(m, n) ==
  LET at == {i \in 1..n : feed[i].msg = m}
  IN  IF at = {} THEN 0 ELSE CHOOSE i \in at : \A j \in at : j <= i
Latest(m) == LatestAmong(m, Len(feed))
InMailbox(m) == Latest(m) # 0 /\ feed[Latest(m)].kind = "UPSERT"

\* What client.delta returns for a cursor.
PageEnd(c) == IF c + PageSize < Len(feed) THEN c + PageSize ELSE Len(feed)
PageRows(c) == {i \in (c + 1)..PageEnd(c) : Latest(feed[i].msg) = i}

\* A delivery, a read flag, category or folder change, a deletion or a
\* restoration.  A live subscription notifies the webhook of it.
MailboxChange(m, kind) ==
  /\ Len(feed) < MaxChanges
  /\ kind = "REMOVED" => InMailbox(m)
  /\ feed' = Append(feed, [msg |-> m, kind |-> kind])
  /\ notice' = (notice \/ Live)
  /\ UNCHANGED <<subVars, storeVars, pending, pc, pageVars, eventVars, faults>>

\* graph_notifications: the event only wakes the worker.  Graph may deliver a
\* notification more than once.
Notify ==
  /\ notice /\ pc # "down"
  /\ wake' = TRUE
  /\ notice' \in BOOLEAN
  /\ UNCHANGED <<feed, subVars, storeVars, pending, pc, pageVars, stop, stopping, faults>>

SubscriptionAges ==
  /\ Live /\ ages < MaxAges
  /\ ages' = ages + 1
  /\ subscription' = IF subscription = "VALID" THEN "EXPIRING" ELSE "EXPIRED"
  /\ UNCHANGED <<mailboxVars, storeVars, pending, pc, pageVars, eventVars, faults>>
----------------------------------------------------------------------------
(* The session: committed rows overlaid with its uncommitted changes *)

NoChanges == [m \in {} |-> 0]

SeenRow(m) ==
  IF m \in DOMAIN pending THEN [db[m] EXCEPT !.lifecycle = pending[m].lifecycle]
                          ELSE db[m]
SeenOutlook(m) == IF m \in DOMAIN pending THEN pending[m].outlook ELSE outlook[m]

\* Fault: the commit of the pipeline loses the lifecycle changes before it.
CommitWithoutPending(m, r) ==
  db' = [db EXCEPT ![m] = r] /\ UNCHANGED outlook /\ pending' = NoChanges

\* A commit of the session: its pending changes, and row r for message m.
CommitWith(m, r) ==
  /\ db' = [n \in Msgs |-> IF n = m THEN r ELSE SeenRow(n)]
  /\ outlook' = [n \in Msgs |-> SeenOutlook(n)]
  /\ pending' = NoChanges

Rollback == pending' = NoChanges /\ UNCHANGED <<db, outlook>>

FaultAllowed == faults < MaxFaults /\ faults' = faults + 1
----------------------------------------------------------------------------
(* GraphSyncRuntime._run *)

CheckStop ==
  /\ pc = "check"
  /\ pc' = IF stop THEN "stopped" ELSE "subscribe"
  /\ UNCHANGED <<mailboxVars, subVars, storeVars, pending, pageVars, eventVars, faults>>

\* Fault: a subscription is created when there is none, and never renewed.
EnsureNeverRenews ==
  /\ pc = "subscribe"
  /\ subscription' = IF subscription = "NONE" THEN "VALID" ELSE subscription
  /\ pc' = "page"
  /\ UNCHANGED <<mailboxVars, ages, storeVars, pending, pageVars, eventVars, faults>>

\* Return, renew or create: each leaves a subscription that is not about to expire.
EnsureSubscription ==
  /\ pc = "subscribe"
  /\ subscription' = "VALID"
  /\ pc' = "page"
  /\ UNCHANGED <<mailboxVars, ages, storeVars, pending, pageVars, eventVars, faults>>

\* The exception leaves the same try block sync_once is in.
EnsureSubscriptionFails ==
  /\ pc = "subscribe" /\ subscription # "VALID" /\ FaultAllowed
  /\ pc' = "wait"
  /\ UNCHANGED <<mailboxVars, subVars, storeVars, pending, pageVars, eventVars>>

WaitReturns ==
  /\ pc = "wait" /\ (wake \/ IntervalElapses)
  /\ pc' = "clear"
  /\ UNCHANGED <<mailboxVars, subVars, storeVars, pending, pageVars, eventVars, faults>>

ClearWake ==
  /\ pc = "clear"
  /\ wake' = FALSE
  /\ pc' = "check"
  /\ UNCHANGED <<mailboxVars, subVars, storeVars, pending, pageVars, stop, stopping, faults>>
----------------------------------------------------------------------------
(* GraphLifecycleSyncService.sync_once *)

FetchPage ==
  /\ pc = "page"
  /\ rows' = PageRows(cursor)
  /\ nextCursor' = PageEnd(cursor)
  /\ lastPage' = (PageEnd(cursor) = Len(feed))
  /\ pc' = "row"
  /\ UNCHANGED <<mailboxVars, subVars, storeVars, pending, force, attempt, eventVars, faults>>

FetchPageFails ==
  /\ pc = "page" /\ FaultAllowed
  /\ pc' = "fail"
  /\ UNCHANGED <<mailboxVars, subVars, storeVars, pending, pageVars, eventVars>>

\* The entry being handled.
Current == CHOOSE i \in rows : \A j \in rows : i <= j
Message == feed[Current].msg
Removed == feed[Current].kind = "REMOVED"
Handled == rows' = rows \ {Current}

\* The branch is chosen on the row as this read finds it.
ReadRow ==
  /\ pc = "row" /\ rows # {}
  /\ LET m       == Message
         failed  == SeenRow(m).status = "FAILED"
         process == (~Present(SeenRow(m)) \/ failed) /\ ~Removed
     IN  /\ force' = (process /\ failed)
         /\ attempt' = 1
         /\ IF ~Present(SeenRow(m)) /\ Removed
              THEN Handled /\ pc' = "row"
              ELSE rows' = rows /\ pc' = IF process THEN "process" ELSE "apply"
  /\ UNCHANGED <<mailboxVars, subVars, storeVars, pending, nextCursor, lastPage, eventVars, faults>>

\* client.message fails for a message that has left the mailbox meanwhile.
FetchMessageFails ==
  /\ pc = "process" /\ ~InMailbox(Message)
  /\ pc' = "fail"
  /\ UNCHANGED <<mailboxVars, subVars, storeVars, pending, pageVars, eventVars, faults>>

\* sync_one runs to its commit, which commits the session's earlier changes too.
Process(route) ==
  /\ pc = "process" /\ InMailbox(Message)
  /\ LET m == Message
         r == SeenRow(m)
     IN  /\ IF m \in Poison
              THEN route = "TECHNICAL_FAILURE" /\ UNCHANGED faults
              ELSE /\ route \in RoutesFor(r)
                   /\ IF route = "TECHNICAL_FAILURE" THEN FaultAllowed ELSE UNCHANGED faults
         /\ CommitWith(m, Ingest(r, Content, force, route))
         /\ pc' = IF Outcome(r, Content, force, route) = "FAILED" THEN "fail" ELSE "apply"
  /\ UNCHANGED <<mailboxVars, subVars, cursor, lastError, pageVars, eventVars>>

\* A transient exception: the retry loop rolls the shared session back.
ProcessRetries ==
  /\ pc = "process" /\ InMailbox(Message)
  /\ FaultAllowed /\ attempt < RetryMax
  /\ attempt' = attempt + 1
  /\ Rollback
  /\ UNCHANGED <<mailboxVars, subVars, cursor, lastError, pc, rows, nextCursor,
                 lastPage, force, eventVars>>

\* Any other exception, or the last attempt: _record_failure rolls back and
\* then stores the row and a FAILED job, or stores nothing if that fails too.
ProcessRaises(recorded) ==
  /\ pc = "process" /\ InMailbox(Message)
  /\ FaultAllowed
  /\ LET m == Message
     IN  db' = IF recorded THEN [db EXCEPT ![m] = RecordFailure(db[m], Content)] ELSE db
  /\ pending' = NoChanges
  /\ pc' = "fail"
  /\ UNCHANGED <<mailboxVars, subVars, outlook, cursor, lastError, pageVars, eventVars>>

\* Lines 91-112: the lifecycle of the entry goes into the session.
ApplyRow ==
  /\ pc = "apply"
  /\ LET m == Message
         change == IF Removed
                     THEN [lifecycle |-> "DELETED", outlook |-> SeenOutlook(m)]
                     ELSE [lifecycle |-> "ACTIVE", outlook |-> Current]
     IN  pending' = [n \in DOMAIN pending \cup {m} |->
                       IF n = m THEN change ELSE pending[n]]
  /\ Handled
  /\ pc' = "row"
  /\ UNCHANGED <<mailboxVars, subVars, storeVars, nextCursor, lastPage, force, attempt,
                 eventVars, faults>>

\* Fault: the wake event is cleared after the page instead of before the loop.
CommitPageClearsWake ==
  /\ pc = "row" /\ rows = {}
  /\ db' = [m \in Msgs |-> SeenRow(m)]
  /\ outlook' = [m \in Msgs |-> SeenOutlook(m)]
  /\ pending' = NoChanges
  /\ cursor' = nextCursor /\ lastError' = FALSE /\ wake' = FALSE
  /\ pc' = IF lastPage THEN "wait" ELSE "page"
  /\ UNCHANGED <<mailboxVars, subVars, pageVars, stop, stopping, faults>>

CommitPage ==
  /\ pc = "row" /\ rows = {}
  /\ db' = [m \in Msgs |-> SeenRow(m)]
  /\ outlook' = [m \in Msgs |-> SeenOutlook(m)]
  /\ pending' = NoChanges
  /\ cursor' = nextCursor
  /\ lastError' = FALSE
  /\ pc' = IF lastPage THEN "wait" ELSE "page"
  /\ UNCHANGED <<mailboxVars, subVars, pageVars, eventVars, faults>>

\* Fault: the cursor of the failed page is stored with the error.
FailSyncAdvances ==
  /\ pc = "fail"
  /\ Rollback
  /\ cursor' = nextCursor /\ lastError' = TRUE
  /\ pc' = "wait"
  /\ UNCHANGED <<mailboxVars, subVars, pageVars, eventVars, faults>>

\* Fault: the exception leaves the loop and the thread ends.
FailSyncEndsThread ==
  /\ pc = "fail"
  /\ Rollback
  /\ lastError' = TRUE
  /\ pc' = "stopped"
  /\ UNCHANGED <<mailboxVars, subVars, cursor, pageVars, eventVars, faults>>

\* The except branch: roll back, store the error, leave the cursor.
FailSync ==
  /\ pc = "fail"
  /\ Rollback
  /\ lastError' = TRUE
  /\ pc' = "wait"
  /\ UNCHANGED <<mailboxVars, subVars, cursor, pageVars, eventVars, faults>>
----------------------------------------------------------------------------
(* Shutdown, crash, and the API beside the worker *)

\* stop(): the stop event first, then the wake event.
StopSetsStop ==
  /\ StopRequests /\ ~stop /\ pc # "down"
  /\ stop' = TRUE /\ stopping' = TRUE
  /\ UNCHANGED <<mailboxVars, subVars, storeVars, pending, pc, pageVars, wake, faults>>

\* Fault: stop() does not wake the thread.
StopForgetsWake ==
  /\ stopping
  /\ stopping' = FALSE
  /\ UNCHANGED <<mailboxVars, subVars, storeVars, pending, pc, pageVars, wake, stop, faults>>

StopSetsWake ==
  /\ stopping
  /\ wake' = TRUE /\ stopping' = FALSE
  /\ UNCHANGED <<mailboxVars, subVars, storeVars, pending, pc, pageVars, stop, faults>>

\* The process dies: the session, the events and the thread are gone.
Crash ==
  /\ pc # "down" /\ FaultAllowed
  /\ pc' = "down"
  /\ pending' = NoChanges
  /\ wake' = FALSE /\ stop' = FALSE /\ stopping' = FALSE
  /\ UNCHANGED <<mailboxVars, subVars, storeVars, pageVars>>

Start ==
  /\ pc = "down"
  /\ pc' = "check"
  /\ rows' = {} /\ nextCursor' = cursor /\ lastPage' = FALSE
  /\ force' = FALSE /\ attempt' = 1
  /\ UNCHANGED <<mailboxVars, subVars, storeVars, pending, eventVars, faults>>

\* POST /emails/{id}/reprocess.  A Graph record has no stored attachment
\* bytes, so the reprocess cannot reach a comparison.
Reprocess(m, route) ==
  /\ pc # "down" /\ db[m].status = "FAILED"
  /\ route \in RoutesFor(db[m]) \ {"COMPARED", "COMPARISON_UNRESOLVED"}
  /\ db' = [db EXCEPT ![m] = Ingest(db[m], db[m].content, TRUE, route)]
  /\ UNCHANGED <<mailboxVars, subVars, outlook, cursor, lastError, pending, pc, pageVars,
                 eventVars, faults>>
----------------------------------------------------------------------------
Init ==
  /\ feed = <<>> /\ notice = FALSE
  /\ subscription = "NONE" /\ ages = 0
  /\ db = [m \in Msgs |-> NoRow]
  /\ outlook = [m \in Msgs |-> 0]
  /\ cursor = 0 /\ lastError = FALSE
  /\ pending = NoChanges
  /\ pc = "check"
  /\ rows = {} /\ nextCursor = 0 /\ lastPage = FALSE /\ force = FALSE /\ attempt = 1
  /\ wake = FALSE /\ stop = FALSE /\ stopping = FALSE
  /\ faults = 0

SyncStep ==
  \/ FetchPage \/ FetchPageFails
  \/ ReadRow \/ FetchMessageFails
  \/ \E route \in AllRoutes : Process(route)
  \/ ProcessRetries
  \/ \E recorded \in BOOLEAN : ProcessRaises(recorded)
  \/ ApplyRow \/ CommitPage \/ FailSync

Worker ==
  \/ CheckStop \/ EnsureSubscription \/ EnsureSubscriptionFails
  \/ SyncStep \/ WaitReturns \/ ClearWake

Next ==
  \/ Worker
  \/ \E m \in Msgs, kind \in {"UPSERT", "REMOVED"} : MailboxChange(m, kind)
  \/ Notify \/ SubscriptionAges
  \/ StopSetsStop \/ StopSetsWake
  \/ Crash \/ Start
  \/ \E m \in Msgs, route \in AllRoutes : Reprocess(m, route)

Spec == Init /\ [][Next]_vars

(***************************************************************************)
(* The thread is always scheduled, the wait has a timeout unless           *)
(* IntervalElapses is FALSE, a subscribed change is notified, a call of    *)
(* stop() runs to its end and a dead process is started again.  Failures,  *)
(* crashes, changes and shutdowns are never forced.                        *)
(***************************************************************************)
Fairness ==
  /\ WF_vars(Worker) /\ WF_vars(Notify) /\ WF_vars(StopSetsWake) /\ WF_vars(Start)

FairSpec == Spec /\ Fairness
----------------------------------------------------------------------------
TypeOK ==
  /\ feed \in Seq([msg : Msgs, kind : {"UPSERT", "REMOVED"}])
  /\ subscription \in Subscriptions /\ pc \in PCs
  /\ db \in [Msgs -> Rows \cup {NoRow}]
  /\ outlook \in [Msgs -> 0..Len(feed)]
  /\ cursor \in 0..Len(feed) /\ nextCursor \in 0..Len(feed)
  /\ DOMAIN pending \subseteq Msgs
  /\ \A m \in DOMAIN pending :
       pending[m] \in [lifecycle : Lifecycles, outlook : 0..Len(feed)]
  /\ rows \subseteq 1..Len(feed)
  /\ attempt \in 1..RetryMax /\ faults \in 0..MaxFaults /\ ages \in 0..MaxAges
  /\ notice \in BOOLEAN /\ lastError \in BOOLEAN /\ lastPage \in BOOLEAN /\ force \in BOOLEAN
  /\ wake \in BOOLEAN /\ stop \in BOOLEAN /\ stopping \in BOOLEAN

\* A change of the mailbox the cursor has passed and nothing has replaced since.
Passed(m) == Latest(m) # 0 /\ Latest(m) <= cursor

\* graph_sync.py:72-80, 114-124.  The cursor never passes the arrival of a
\* message the system has no row for.
CursorCoversNew ==
  \A m \in Msgs : Passed(m) /\ InMailbox(m) => Present(db[m])

\* graph_sync.py:91-118.  For every row the cursor has passed, the committed
\* lifecycle and Outlook state are those of the mailbox.
CursorCoversLifecycle ==
  \A m \in Msgs : Passed(m) /\ Present(db[m]) =>
    IF InMailbox(m) THEN db[m].lifecycle = "ACTIVE" /\ outlook[m] = Latest(m)
                    ELSE db[m].lifecycle = "DELETED"

\* graph_sync.py:71-80.  A technical failure holds the cursor back: a FAILED
\* row is behind it only if the message had been deleted at some time, which
\* makes the pipeline skip it.
FailedHoldsCursor ==
  \A m \in Msgs :
    Passed(m) /\ InMailbox(m) /\ db[m].status = "FAILED" =>
      \E i \in 1..Len(feed) : feed[i].msg = m /\ feed[i].kind = "REMOVED"

\* sync/service.py:456-458 with graph_sync.py:96-97.  Processing never changes
\* the status of a row that is DELETED before and after the step.
DeletedIsPreserved ==
  [][\A m \in Msgs : db[m].lifecycle = "DELETED" /\ db'[m].lifecycle = "DELETED"
                       => db'[m].status = db[m].status]_vars

\* What docs/enhancement_completion.md and the retry test promise: whatever
\* made processing fail, the cursor does not pass the message.
FailureHoldsCursor ==
  \A m \in Msgs :
    Passed(m) /\ InMailbox(m) /\ db[m].job = "FAILED" =>
      \E i \in 1..Len(feed) : feed[i].msg = m /\ feed[i].kind = "REMOVED"

Converged == /\ cursor = Len(feed) /\ ~lastError
             /\ \A m \in Msgs : InMailbox(m) => Present(db[m])

\* graph_sync.py:207-219.  Once failures end, the worker catches up with the
\* mailbox and stays there, unless the application is being shut down.
CatchesUp == <>[](Converged \/ stop)

\* graph_sync.py:174-201.  Once ageing ends there is a valid subscription.
SubscriptionKept == <>[](subscription = "VALID" \/ stop)

\* graph_sync.py:161-168, 218-219.  A change that was notified is synchronised
\* without the help of the interval: clearing the event loses no wake-up.
NoWakeLost ==
  \A n \in 1..MaxChanges : (notice /\ Len(feed) >= n) ~> (cursor >= n \/ stop)

\* graph_sync.py:161-165.  The worker leaves its loop after stop().
StopTerminates == (stop /\ pc # "down") ~> (pc \in {"stopped", "down"})

\* docs/requirements_matrix.md REL-06: one failing message does not keep the
\* others out.
PoisonDoesNotBlock ==
  \A m \in Msgs \ Poison : InMailbox(m) ~> (Present(db[m]) \/ ~InMailbox(m) \/ stop)
=============================================================================
