----------------------------- MODULE Ingestion -----------------------------
(***************************************************************************)
(* The two ways a provider's mailbox is read again and again: the polling  *)
(* thread (IngestionRuntime, ContinuousIngestionWorker.poll_once) and the  *)
(* backlog run of POST /sync (SyncService.sync with its window of workers),*)
(* beside POST /emails/{id}/reprocess.  They share no lock but those the   *)
(* database takes on the rows they write, so each transaction of sync_one  *)
(* is split into the read that decides, the first write, which waits for   *)
(* the row, and the commit.                                                *)
(*                                                                         *)
(* Records are identified by source type and external id; Graph records    *)
(* have a source type of their own and never meet the ones of this module. *)
(* The ids of one listing are distinct, so poll_once's processed_in_cycle  *)
(* decides nothing its update of the snapshot does not.                    *)
(***************************************************************************)
EXTENDS EmailPipeline, FiniteSets

CONSTANTS
  Msgs,         \* external ids of the provider
  Workers,      \* worker threads of a backlog run (settings.sync_max_workers)
  MaxChanges,   \* bound on deliveries and changes of the source
  MaxRuns,      \* bound on backlog runs
  MaxFaults,    \* bound on failures and crashes
  RetryMax,     \* settings.retry_max_attempts
  StopRequests  \* TRUE when the application may shut down

\* settings.sync_max_workers is at least 1.
ASSUME IngestionAssumption ==
  /\ IsFiniteSet(Msgs) /\ IsFiniteSet(Workers) /\ Workers # {}
  /\ {MaxChanges, MaxRuns, MaxFaults} \subseteq Nat
  /\ RetryMax \in Nat \ {0}
  /\ StopRequests \in BOOLEAN
  /\ Workers \cap {"poller", "reprocess", "nobody"} = {}

Writers == Workers \cup {"poller", "reprocess"}

VARIABLES
  source,    \* what the provider serves for each id
  changes,   \* deliveries and changes so far
  db,        \* committed rows
  lock,      \* the transaction that holds the row, or its unique key
  txn,       \* the sync_one in progress of each writer
  pollPc,    \* where the polling thread is
  snapshot,  \* existing_messages() of the cycle, kept up to date by it
  todo,      \* ids the cycle has still to visit
  stop,      \* IngestionRuntime.stop_event
  syncPc,    \* where the backlog run is
  listed,    \* ids the run's listing holds
  backlog,   \* ids its iterator has still to give
  forced,    \* the run's `force`
  report,    \* outcomes recorded by the run, by kind
  broken,    \* the run's source iteration raised
  runs,      \* backlog runs started
  processed, \* history: unforced first processings that were not failures
  faults     \* failures spent

sourceVars == <<source, changes>>
pollVars   == <<pollPc, snapshot, todo, stop>>
syncVars   == <<syncPc, listed, backlog, forced, report, broken, runs>>
vars == <<sourceVars, db, lock, txn, pollVars, syncVars, processed, faults>>

Outcomes == {"SKIPPED", "CLASSIFIED", "FAILED", "UNHANDLED"}
Idle == [pc |-> "idle"]
FaultAllowed == faults < MaxFaults /\ faults' = faults + 1

\* polling.py RESTARTABLE_STATUSES, of which NEW alone is ever committed.
Restartable == {"NEW", "QUEUED", "CLASSIFYING", "RETRIEVING_ATTACHMENTS",
                "EXTRACTING", "COMPARING"}
----------------------------------------------------------------------------
(* The provider *)

Served == {m \in Msgs : source[m] # NoContent}

\* iter_messages lists the records in one order, that of the file names.
First(ids) == CHOOSE m \in ids : TRUE

SourceChanges(m, c) ==
  /\ changes < MaxChanges /\ source[m] # c
  /\ source' = [source EXCEPT ![m] = c]
  /\ changes' = changes + 1
  /\ UNCHANGED <<db, lock, txn, pollVars, syncVars, processed, faults>>
----------------------------------------------------------------------------
(* One sync_one: the transaction of a writer *)

Started(m, c, f) == [pc |-> "read", msg |-> m, content |-> c, force |-> f, attempt |-> 1]
Ended(t, outcome) == [pc |-> "done", msg |-> t.msg, content |-> t.content, outcome |-> outcome]

\* The status the skip is decided on is the one this read finds.
Reading(t, row) ==
  IF Skips(row, t.content, t.force)
    THEN Ended(t, "SKIPPED")
    ELSE [pc |-> "lock", msg |-> t.msg, content |-> t.content, force |-> t.force,
          attempt |-> t.attempt, known |-> Present(row), changed |-> row.content # t.content]

ReadRow(w) ==
  /\ txn[w].pc = "read"
  /\ txn' = [txn EXCEPT ![w] = Reading(txn[w], db[txn[w].msg])]
  /\ UNCHANGED <<sourceVars, db, lock, pollVars, syncVars, processed, faults>>

\* Fault: the IntegrityError of the insert is taken for a new record.
NeverDuplicate(t) == FALSE

\* The insert runs into a row that was not there when it was looked for.
Duplicate(t) == ~t.known /\ Present(db[t.msg])

\* The first write waits until no other transaction holds the row.  A
\* duplicate is read again, and the skip is decided once more.
LockRow(w) ==
  /\ txn[w].pc = "lock" /\ lock[txn[w].msg] = "nobody"
  /\ LET t == txn[w]
         next == IF Duplicate(t) THEN Reading(t, db[t.msg]) ELSE t
     IN  IF next.pc = "done"
           THEN txn' = [txn EXCEPT ![w] = next] /\ UNCHANGED lock
           ELSE /\ txn' = [txn EXCEPT ![w] = [next EXCEPT !.pc = "work"]]
                /\ lock' = [lock EXCEPT ![t.msg] = w]
  /\ UNCHANGED <<sourceVars, db, pollVars, syncVars, processed, faults>>

Release(m) == lock' = [lock EXCEPT ![m] = "nobody"]

\* An UPDATE writes what the transaction has changed: the content only when
\* it differed from the one read, the status and the job always.
Written(row, t, route) ==
  [row EXCEPT !.content = IF t.changed THEN t.content ELSE @,
              !.status = StatusAfter(route), !.job = JobAfter(route)]

Commit(w, route) ==
  /\ txn[w].pc = "work"
  /\ LET t == txn[w]
         row == db[t.msg]
     IN  /\ route \in RoutesFor(row)
         /\ IF route = "TECHNICAL_FAILURE" THEN FaultAllowed ELSE UNCHANGED faults
         /\ db' = [db EXCEPT ![t.msg] =
                     Written(IF Present(row) THEN row ELSE Upsert(row, t.content), t, route)]
         /\ txn' = [txn EXCEPT ![w] =
              Ended(t, IF route = "TECHNICAL_FAILURE" THEN "FAILED" ELSE "CLASSIFIED")]
         /\ processed' = IF t.force \/ route = "TECHNICAL_FAILURE" \/ t.known THEN processed
                         ELSE [processed EXCEPT ![t.msg] = @ + 1]
         /\ Release(t.msg)
  /\ UNCHANGED <<sourceVars, pollVars, syncVars>>

\* A transient exception, at most RetryMax attempts.
Retry(w) ==
  /\ txn[w].pc = "work" /\ txn[w].attempt < RetryMax /\ FaultAllowed
  /\ txn' = [txn EXCEPT ![w] = [Started(@.msg, @.content, @.force) EXCEPT !.attempt = txn[w].attempt + 1]]
  /\ Release(txn[w].msg)
  /\ UNCHANGED <<sourceVars, db, pollVars, syncVars, processed>>

\* Any other exception inside the processing: rolled back, then recorded.
Raise(w) ==
  /\ txn[w].pc = "work" /\ FaultAllowed
  /\ txn' = [txn EXCEPT ![w] = [@ EXCEPT !.pc = "record"]]
  /\ Release(txn[w].msg)
  /\ UNCHANGED <<sourceVars, db, pollVars, syncVars, processed>>

\* _record_failure, which may itself fail and then stores nothing.
Record(w, recorded) ==
  /\ txn[w].pc = "record" /\ lock[txn[w].msg] = "nobody"
  /\ db' = IF recorded THEN [db EXCEPT ![txn[w].msg] = RecordFailure(@, txn[w].content)] ELSE db
  /\ txn' = [txn EXCEPT ![w] = Ended(@, "FAILED")]
  /\ UNCHANGED <<sourceVars, lock, pollVars, syncVars, processed, faults>>

\* The commit itself raises, outside the handler of _process_one.
CommitRaises(w) ==
  /\ txn[w].pc = "work" /\ FaultAllowed
  /\ txn' = [txn EXCEPT ![w] = Ended(@, "UNHANDLED")]
  /\ Release(txn[w].msg)
  /\ UNCHANGED <<sourceVars, db, pollVars, syncVars, processed>>

Transaction(w) ==
  \/ ReadRow(w) \/ LockRow(w)
  \/ \E route \in AllRoutes : Commit(w, route)
  \/ Retry(w) \/ Raise(w) \/ CommitRaises(w)
  \/ \E recorded \in BOOLEAN : Record(w, recorded)
----------------------------------------------------------------------------
(* ContinuousIngestionWorker *)

Seen(row) == [content |-> row.content, status |-> row.status]
NoSnapshot == [m \in Msgs |-> Seen(NoRow)]

\* The initial sync does not look at the stop event; each later cycle does.
BeginCycle ==
  /\ pollPc \in {"initial", "check"}
  /\ IF pollPc = "check" /\ stop
       THEN pollPc' = "stopped" /\ UNCHANGED <<snapshot, todo>>
       ELSE /\ pollPc' = "cycle"
            /\ snapshot' = [m \in Msgs |-> Seen(db[m])]
            /\ todo' = Served
  /\ UNCHANGED <<sourceVars, db, lock, txn, stop, syncVars, processed, faults>>

\* Fault: content that was seen once is not compared again.
UpToDateById(m) == snapshot[m].status \notin Restartable \cup {"ABSENT"}

UpToDate(m) ==
  /\ snapshot[m].content = source[m]
  /\ snapshot[m].status \notin Restartable

\* The next message of the iterator: skipped, or handed to the processor.
Visit ==
  /\ pollPc = "cycle" /\ todo # {} /\ txn["poller"] = Idle
  /\ LET m == First(todo)
     IN  /\ todo' = todo \ {m}
         /\ txn' = IF UpToDate(m) THEN txn
                   ELSE [txn EXCEPT !["poller"] = Started(m, source[m], FALSE)]
  /\ UNCHANGED <<sourceVars, db, lock, pollPc, snapshot, stop, syncVars, processed, faults>>

\* The processor returned, whatever its outcome: the snapshot takes the
\* message for COMPLETED.
Visited ==
  /\ pollPc = "cycle" /\ txn["poller"].pc = "done" /\ txn["poller"].outcome # "UNHANDLED"
  /\ snapshot' = [snapshot EXCEPT ![txn["poller"].msg] =
                    [content |-> txn["poller"].content, status |-> "COMPLETED"]]
  /\ txn' = [txn EXCEPT !["poller"] = Idle]
  /\ UNCHANGED <<sourceVars, db, lock, pollPc, todo, stop, syncVars, processed, faults>>

\* record_success.  No column of the checkpoint is ever read back by a poll.
CycleSucceeds ==
  /\ pollPc = "cycle" /\ todo = {} /\ txn["poller"] = Idle
  /\ pollPc' = "sleep" /\ snapshot' = NoSnapshot
  /\ UNCHANGED <<sourceVars, db, lock, txn, todo, stop, syncVars, processed, faults>>

\* The listing or the processor raised: record_failure, then the back-off.
CycleFails ==
  /\ pollPc = "cycle"
  /\ IF txn["poller"] = Idle THEN FaultAllowed
     ELSE txn["poller"].pc = "done" /\ txn["poller"].outcome = "UNHANDLED" /\ UNCHANGED faults
  /\ txn' = [txn EXCEPT !["poller"] = Idle]
  /\ todo' = {} /\ snapshot' = NoSnapshot
  /\ pollPc' = "sleep"
  /\ UNCHANGED <<sourceVars, db, lock, stop, syncVars, processed>>

\* The interval or the back-off elapses, or the stop event is set.
Wakes ==
  /\ pollPc = "sleep"
  /\ pollPc' = "check"
  /\ UNCHANGED <<sourceVars, db, lock, txn, snapshot, todo, stop, syncVars, processed, faults>>

Stop ==
  /\ StopRequests /\ ~stop
  /\ stop' = TRUE
  /\ UNCHANGED <<sourceVars, db, lock, txn, pollPc, snapshot, todo, syncVars, processed, faults>>
----------------------------------------------------------------------------
(* SyncService.sync *)

NoOutcomes == [o \in Outcomes |-> 0]

SyncStarts(f) ==
  /\ syncPc = "idle" /\ runs < MaxRuns
  /\ runs' = runs + 1 /\ forced' = f
  /\ listed' = Served /\ backlog' = Served
  /\ report' = NoOutcomes /\ broken' = FALSE
  /\ syncPc' = "fill"
  /\ UNCHANGED <<sourceVars, db, lock, txn, pollVars, processed, faults>>

\* submit_next for the slot of worker w: the next message, a source failure,
\* which ends the listing, or nothing when the listing is exhausted.
Submit(w, freed) ==
  \/ /\ backlog # {}
     /\ txn' = [freed EXCEPT ![w] = Started(First(backlog), source[First(backlog)], forced)]
     /\ backlog' = backlog \ {First(backlog)}
     /\ UNCHANGED <<broken, faults>>
  \/ /\ backlog # {} /\ FaultAllowed
     /\ txn' = freed /\ backlog' = {} /\ broken' = TRUE
  \/ /\ backlog = {}
     /\ txn' = freed /\ UNCHANGED <<backlog, broken, faults>>

Fill(w) ==
  /\ syncPc = "fill" /\ backlog # {} /\ txn[w] = Idle
  /\ Submit(w, txn)
  /\ UNCHANGED <<sourceVars, db, lock, pollVars, syncPc, listed, forced, report, runs, processed>>

Filled ==
  /\ syncPc = "fill"
  /\ backlog = {} \/ \A w \in Workers : txn[w] # Idle
  /\ syncPc' = "wait"
  /\ UNCHANGED <<sourceVars, db, lock, txn, pollVars, listed, backlog, forced, report, broken,
                 runs, processed, faults>>

\* Fault: the slot of a failed worker is not filled again.
CollectKeepsSlot(w) ==
  /\ syncPc = "wait" /\ txn[w].pc = "done"
  /\ report' = [report EXCEPT ![txn[w].outcome] = @ + 1]
  /\ LET freed == [txn EXCEPT ![w] = Idle]
     IN  IF txn[w].outcome = "UNHANDLED"
           THEN txn' = freed /\ UNCHANGED <<backlog, broken, faults>>
           ELSE Submit(w, freed)
  /\ UNCHANGED <<sourceVars, db, lock, pollVars, syncPc, listed, forced, runs, processed>>

\* One future is done: its outcome is recorded and its slot filled again.
Collect(w) ==
  /\ syncPc = "wait" /\ txn[w].pc = "done"
  /\ report' = [report EXCEPT ![txn[w].outcome] = @ + 1]
  /\ Submit(w, [txn EXCEPT ![w] = Idle])
  /\ UNCHANGED <<sourceVars, db, lock, pollVars, syncPc, listed, forced, runs, processed>>

SyncReturns ==
  /\ syncPc = "wait" /\ \A w \in Workers : txn[w] = Idle
  /\ syncPc' = "returned"
  /\ UNCHANGED <<sourceVars, db, lock, txn, pollVars, listed, backlog, forced, report, broken,
                 runs, processed, faults>>

\* The response is sent; another request may follow.
SyncEnds ==
  /\ syncPc = "returned"
  /\ syncPc' = "idle" /\ report' = NoOutcomes /\ listed' = {} /\ broken' = FALSE
  /\ forced' = FALSE
  /\ UNCHANGED <<sourceVars, db, lock, txn, pollVars, backlog, runs, processed, faults>>
----------------------------------------------------------------------------
(* POST /emails/{id}/reprocess, crash and restart *)

Reprocess(m) ==
  /\ txn["reprocess"] = Idle /\ db[m].status = "FAILED"
  /\ txn' = [txn EXCEPT !["reprocess"] = Started(m, db[m].content, TRUE)]
  /\ UNCHANGED <<sourceVars, db, lock, pollVars, syncVars, processed, faults>>

ReprocessEnds ==
  /\ txn["reprocess"].pc = "done"
  /\ txn' = [txn EXCEPT !["reprocess"] = Idle]
  /\ UNCHANGED <<sourceVars, db, lock, pollVars, syncVars, processed, faults>>

\* The process dies and is started again: committed rows and the checkpoint stay.
Restart ==
  /\ FaultAllowed
  /\ txn' = [w \in Writers |-> Idle]
  /\ lock' = [m \in Msgs |-> "nobody"]
  /\ pollPc' = "initial" /\ todo' = {} /\ snapshot' = NoSnapshot /\ stop' = FALSE
  /\ syncPc' = "idle" /\ backlog' = {} /\ report' = NoOutcomes /\ listed' = {} /\ broken' = FALSE
  /\ forced' = FALSE
  /\ UNCHANGED <<sourceVars, db, runs, processed>>
----------------------------------------------------------------------------
Init ==
  /\ source = [m \in Msgs |-> NoContent] /\ changes = 0
  /\ db = [m \in Msgs |-> NoRow]
  /\ lock = [m \in Msgs |-> "nobody"]
  /\ txn = [w \in Writers |-> Idle]
  /\ pollPc = "initial"
  /\ snapshot = NoSnapshot
  /\ todo = {} /\ stop = FALSE
  /\ syncPc = "idle" /\ listed = {} /\ backlog = {} /\ forced = FALSE
  /\ report = NoOutcomes /\ broken = FALSE /\ runs = 0
  /\ processed = [m \in Msgs |-> 0]
  /\ faults = 0

Poller == \/ BeginCycle \/ Visit \/ Visited
          \/ CycleSucceeds \/ CycleFails \/ Wakes

SyncRun == \/ Filled \/ SyncReturns \/ SyncEnds
           \/ \E w \in Workers : Fill(w) \/ Collect(w)

Next ==
  \/ \E m \in Msgs, c \in Contents : SourceChanges(m, c)
  \/ \E w \in Writers : Transaction(w)
  \/ Poller \/ Stop
  \/ \E f \in BOOLEAN : SyncStarts(f)
  \/ SyncRun
  \/ \E m \in Msgs : Reprocess(m)
  \/ ReprocessEnds
  \/ Restart

Spec == Init /\ [][Next]_vars

(***************************************************************************)
(* The polling thread is scheduled and its sleeps end; a request that has  *)
(* begun runs to its end.  New requests and failures are never forced.     *)
(***************************************************************************)
Fairness ==
  /\ WF_vars(Poller) /\ WF_vars(SyncRun) /\ WF_vars(ReprocessEnds)
  /\ \A w \in Writers : WF_vars(Transaction(w))

FairSpec == Spec /\ Fairness
----------------------------------------------------------------------------
Reads == [pc : {"read"}, msg : Msgs, content : Contents, force : BOOLEAN, attempt : 1..RetryMax]
Writes == [pc : {"lock", "work", "record"}, msg : Msgs, content : Contents, force : BOOLEAN,
           attempt : 1..RetryMax, known : BOOLEAN, changed : BOOLEAN]
Ends == [pc : {"done"}, msg : Msgs, content : Contents, outcome : Outcomes]
Transactions == {Idle} \cup Reads \cup Writes \cup Ends
Snapshots == [content : Contents \cup {NoContent}, status : Statuses \cup {"ABSENT"}]

TypeOK ==
  /\ source \in [Msgs -> Contents \cup {NoContent}]
  /\ changes \in 0..MaxChanges /\ runs \in 0..MaxRuns /\ faults \in 0..MaxFaults
  /\ db \in [Msgs -> Rows \cup {NoRow}]
  /\ lock \in [Msgs -> Writers \cup {"nobody"}]
  /\ txn \in [Writers -> Transactions]
  /\ pollPc \in {"initial", "check", "cycle", "sleep", "stopped"}
  /\ syncPc \in {"idle", "fill", "wait", "returned"}
  /\ snapshot \in [Msgs -> Snapshots]
  /\ todo \subseteq Served /\ backlog \subseteq listed \cap Served /\ listed \subseteq Msgs
  /\ stop \in BOOLEAN /\ forced \in BOOLEAN /\ broken \in BOOLEAN
  /\ report \in [Outcomes -> 0..Cardinality(Msgs)]
  /\ processed \in [Msgs -> Nat]

\* repositories.py:170-190 with polling.py:169-189 and sync/service.py:267-321.
\* Whoever races for a message that has no row, it is processed as a new
\* message once: the losers of the insert find the winner's row and skip.
NewMessageProcessedOnce == \A m \in Msgs : processed[m] <= 1

Recorded == report["SKIPPED"] + report["CLASSIFIED"] + report["FAILED"] + report["UNHANDLED"]

\* sync/service.py:267-321 (REL-06).  A backlog run returns only when every
\* message its source gave has one outcome: no failure of a worker, of
\* whatever kind, leaves a message of the listing out.
BacklogComplete ==
  syncPc = "returned" /\ ~broken => Recorded = Cardinality(listed)

\* polling.py:30-39, 177-197.  Once failures and changes end, every message
\* the source serves is stored with the content served, in a state no later
\* cycle takes up again.
PollingSettles ==
  <>[](stop \/ \A m \in Served : db[m].content = source[m] /\ db[m].status \notin Restartable)

\* requirements_matrix.md REL-05: a failed processing of the stored content
\* shows, as FAILED or as a state the next cycle resumes.
FailureIsVisible ==
  \A m \in Msgs : db[m].job = "FAILED" => db[m].status \in Restartable \cup {"FAILED"}
=============================================================================
