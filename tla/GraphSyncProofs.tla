--------------------------- MODULE GraphSyncProofs ---------------------------
(***************************************************************************)
(* Theorems about the cursor of the Graph worker, for any messages, page    *)
(* size, routes and bounds.                                                 *)
(***************************************************************************)
EXTENDS GraphSync, NaturalsInduction, WellFoundedInduction, TLAPS

InPage  == pc \in {"row", "process", "apply"}
InEntry == pc \in {"process", "apply"}

WasRemoved(m) == \E i \in 1..Len(feed) : feed[i].msg = m /\ feed[i].kind = "REMOVED"

(* The page being handled: its entries lie between the cursor and the next    *)
(* one, each is the latest of its message or was replaced after the page was  *)
(* made, and no message is in it twice; what is pending belongs to entries    *)
(* the cursor has not passed and the page no longer holds.                    *)
PageInv ==
  /\ InEntry => rows # {}
  /\ InPage =>
       /\ cursor <= nextCursor
       /\ rows \subseteq (cursor + 1)..nextCursor
       /\ \A i \in rows : Latest(feed[i].msg) = i \/ Latest(feed[i].msg) > nextCursor
       /\ \A i, j \in rows : feed[i].msg = feed[j].msg => i = j
       /\ \A i \in rows : feed[i].msg \notin DOMAIN pending
  /\ ~InPage /\ pc # "fail" => DOMAIN pending = {}
  /\ \A m \in DOMAIN pending : Present(db[m]) /\ Latest(m) > cursor

(* What is known of the entry being handled. *)
EntryInv ==
  /\ pc = "apply" => Present(db[Message])
  /\ pc = "apply" /\ db[Message].status = "FAILED" => WasRemoved(Message)
  /\ pc = "process" /\ db[Message].status = "FAILED" => force

RemovedInv ==
  \A m \in Msgs : SeenRow(m).lifecycle = "DELETED" \/ db[m].lifecycle = "DELETED" => WasRemoved(m)

(* The latest change of m is behind the cursor, or is an entry of the page     *)
(* that has been handled.                                                     *)
Accounted(m) ==
  /\ Latest(m) # 0
  /\ \/ Latest(m) <= cursor
     \/ InPage /\ Latest(m) <= nextCursor /\ Latest(m) \notin rows

New(m)    == InMailbox(m) => Present(db[m])
Failed(m) == InMailbox(m) /\ db[m].status = "FAILED" => WasRemoved(m)

Mirrored(m) ==
  Present(db[m]) =>
    IF InMailbox(m) THEN SeenRow(m).lifecycle = "ACTIVE" /\ SeenOutlook(m) = Latest(m)
                    ELSE SeenRow(m).lifecycle = "DELETED"

CursorInv ==
  /\ PageInv /\ EntryInv /\ RemovedInv
  /\ \A m \in Msgs : Accounted(m) => New(m) /\ Failed(m)

MirrorInv == \A m \in Msgs : Accounted(m) => Mirrored(m)
----------------------------------------------------------------------------
(* The pipeline, for any contents and routes *)

LEMMA RowFacts ==
  ASSUME NEW row \in Rows \cup {NoRow}
  PROVE  /\ row \in Rows <=> Present(row)
         /\ row.lifecycle \in Lifecycles
         /\ row.lifecycle = "DELETED" => Present(row)
         /\ row.category \in Categories
BY DEF Rows, NoRow, Present, Statuses, Lifecycles, Categories

LEMMA UpsertFacts ==
  ASSUME NEW row \in Rows \cup {NoRow}, NEW c \in Contents
  PROVE  /\ Upsert(row, c) \in Rows
         /\ Upsert(row, c).lifecycle = row.lifecycle
         /\ Upsert(row, c).status = IF Present(row) THEN row.status ELSE "NEW"
<1>1. CASE Present(row)
  <2>1. row \in Rows
    BY <1>1, RowFacts
  <2>2. Upsert(row, c) = [row EXCEPT !.content = c]
    BY <1>1 DEF Upsert
  <2> QED
    BY <1>1, <2>1, <2>2 DEF Rows
<1>2. CASE ~Present(row)
  <2>1. row = NoRow
    BY <1>2, RowFacts
  <2>2. Upsert(row, c) = [NoRow EXCEPT !.status = "NEW", !.content = c]
    BY <1>2 DEF Upsert
  <2>3. Upsert(row, c) = [status |-> "NEW", content |-> c, lifecycle |-> "ACTIVE",
                          category |-> "AUTOMATIC", job |-> "NONE"]
    BY <2>2 DEF NoRow
  <2>4. Upsert(row, c) \in Rows
    BY <2>3 DEF Rows, Statuses, Lifecycles, Categories, JobStatuses
  <2> QED
    BY <1>2, <2>1, <2>3, <2>4 DEF NoRow
<1> QED
  BY <1>1, <1>2

LEMMA RouteFacts ==
  /\ \A route \in AllRoutes :
       /\ StatusAfter(route) \in Statuses /\ JobAfter(route) \in JobStatuses
       /\ StatusAfter(route) = "FAILED" => route = "TECHNICAL_FAILURE"
  /\ \A row : row.category \in Categories => RoutesFor(row) \subseteq AllRoutes
<1>1. \A route \in AllRoutes :
       /\ StatusAfter(route) \in Statuses
       /\ StatusAfter(route) = "FAILED" => route = "TECHNICAL_FAILURE"
  BY DEF StatusAfter, AllRoutes, Statuses
<1>2. \A route \in AllRoutes : JobAfter(route) \in JobStatuses
  BY DEF JobAfter, AllRoutes, JobStatuses
<1>3. ASSUME NEW row, row.category \in Categories
      PROVE  RoutesFor(row) \subseteq AllRoutes
  BY <1>3, RoutesAssumption DEF RoutesFor, AllRoutes, Categories
<1> QED
  BY <1>1, <1>2, <1>3

(* What a run of the pipeline keeps: the row exists, its lifecycle is the old   *)
(* one, a DELETED row keeps its status, and a row FAILED afterwards failed now  *)
(* or was skipped.                                                             *)
LEMMA IngestFacts ==
  ASSUME NEW row \in Rows \cup {NoRow}, NEW c \in Contents, NEW again \in BOOLEAN,
         NEW route \in AllRoutes
  PROVE  /\ Ingest(row, c, again, route) \in Rows
         /\ Ingest(row, c, again, route).lifecycle = row.lifecycle
         /\ row.lifecycle = "DELETED" =>
              Ingest(row, c, again, route).status = row.status
         /\ /\ Ingest(row, c, again, route).status = "FAILED"
            /\ Outcome(row, c, again, route) # "FAILED"
            => Present(row) /\ row.status = "FAILED" /\ (row.lifecycle = "DELETED" \/ ~again)
<1>1. /\ Upsert(row, c) \in Rows
      /\ Upsert(row, c).lifecycle = row.lifecycle
      /\ Upsert(row, c).status = IF Present(row) THEN row.status ELSE "NEW"
  BY UpsertFacts
<1>2. row.lifecycle = "DELETED" => Present(row) /\ Skips(row, c, again)
  BY <1>1, RowFacts DEF Skips
<1>3. CASE Skips(row, c, again)
  <2>1. Ingest(row, c, again, route) = Upsert(row, c)
    BY <1>3 DEF Ingest
  <2>2. row.lifecycle = "DELETED" \/ ~again
    BY <1>1, <1>3 DEF Skips
  <2> QED
    BY <1>1, <1>2, <2>1, <2>2
<1>4. CASE ~Skips(row, c, again)
  <2>1. Ingest(row, c, again, route)
          = [Upsert(row, c) EXCEPT !.status = StatusAfter(route), !.job = JobAfter(route)]
    BY <1>4 DEF Ingest
  <2>2. StatusAfter(route) \in Statuses /\ JobAfter(route) \in JobStatuses
    BY RouteFacts
  <2>3. Ingest(row, c, again, route) \in Rows
    BY <1>1, <2>1, <2>2 DEF Rows
  <2>4. /\ Ingest(row, c, again, route).lifecycle = row.lifecycle
        /\ Ingest(row, c, again, route).status = StatusAfter(route)
    BY <1>1, <2>1 DEF Rows
  <2>5. Outcome(row, c, again, route) # "FAILED" => StatusAfter(route) # "FAILED"
    BY <1>4, RouteFacts DEF Outcome
  <2> QED
    BY <1>2, <1>4, <2>3, <2>4, <2>5
<1> QED
  BY <1>3, <1>4

LEMMA FailureFacts ==
  ASSUME NEW row \in Rows \cup {NoRow}, NEW c \in Contents
  PROVE  /\ RecordFailure(row, c) \in Rows
         /\ RecordFailure(row, c).lifecycle = row.lifecycle
         /\ RecordFailure(row, c).status = IF Present(row) THEN row.status ELSE "NEW"
<1>1. /\ Upsert(row, c) \in Rows
      /\ Upsert(row, c).lifecycle = row.lifecycle
      /\ Upsert(row, c).status = IF Present(row) THEN row.status ELSE "NEW"
  BY UpsertFacts
<1> HIDE DEF Upsert
<1> QED
  BY <1>1 DEF RecordFailure, Rows, JobStatuses

LEMMA PresentRow == \A row \in Rows : Present(row)
BY DEF Rows, Present, Statuses
----------------------------------------------------------------------------
(* Least and greatest positions *)

LEMMA LeastPosition ==
  ASSUME NEW S \in SUBSET Nat, S # {}
  PROVE  \E i \in S : \A j \in S : i <= j
<1>1. IsWellFoundedOn(OpToRel(<, Nat), Nat)
  BY NatLessThanWellFounded
<1>2. PICK i \in S : \A j \in S : ~(<<j, i>> \in OpToRel(<, Nat))
  BY <1>1, WFMin
<1>3. \A j \in S : ~(j < i)
  BY <1>2 DEF OpToRel
<1> QED
  BY <1>3

LEMMA GreatestPosition ==
  ASSUME NEW n \in Nat, NEW S \in SUBSET (1..n), S # {}
  PROVE  \E i \in S : \A j \in S : j <= i
<1> DEFINE T == {n - i : i \in S}
<1>1. T \in SUBSET Nat
  OBVIOUS
<1>2. T # {}
  OBVIOUS
<1>3. PICK t \in T : \A u \in T : t <= u
  BY <1>1, <1>2, LeastPosition
<1>4. PICK i \in S : t = n - i
  BY <1>3
<1>5. \A j \in S : n - j \in T
  OBVIOUS
<1> HIDE DEF T
<1> QED
  BY <1>3, <1>4, <1>5

Entries == [msg : Msgs, kind : {"UPSERT", "REMOVED"}]

(* Latest and Current of any log and any page, so that the lemmas serve the    *)
(* states before and after a step.                                            *)
PositionsOf(log, m) == {i \in 1..Len(log) : log[i].msg = m}
LastOf(log, m) ==
  IF PositionsOf(log, m) = {} THEN 0
  ELSE CHOOSE i \in PositionsOf(log, m) : \A j \in PositionsOf(log, m) : j <= i
FirstOf(S) == CHOOSE i \in S : \A j \in S : i <= j

LEMMA LatestIsLast ==
  ASSUME NEW m
  PROVE  Latest(m) = LastOf(feed, m) /\ Latest(m)' = LastOf(feed', m)
BY DEF Latest, LatestAmong, LastOf, PositionsOf

LEMMA LastOfFacts ==
  ASSUME NEW log \in Seq(Entries), NEW m
  PROVE  /\ LastOf(log, m) \in 0..Len(log)
         /\ LastOf(log, m) # 0 => /\ LastOf(log, m) \in 1..Len(log)
                                  /\ log[LastOf(log, m)].msg = m
         /\ \A i \in 1..Len(log) : log[i].msg = m => i <= LastOf(log, m)
<1> DEFINE S == PositionsOf(log, m)
<1>1. Len(log) \in Nat
  OBVIOUS
<1>2. S \in SUBSET (1..Len(log))
  BY DEF PositionsOf
<1>3. CASE S = {}
  <2>1. LastOf(log, m) = 0
    BY <1>3 DEF LastOf
  <2> QED
    BY <1>1, <1>3, <2>1 DEF PositionsOf
<1>4. CASE S # {}
  <2>1. \E i \in S : \A j \in S : j <= i
    BY <1>1, <1>2, <1>4, GreatestPosition
  <2>2. LastOf(log, m) \in S /\ \A j \in S : j <= LastOf(log, m)
    BY <1>4, <2>1 DEF LastOf
  <2> QED
    BY <1>1, <2>2 DEF PositionsOf
<1> QED
  BY <1>3, <1>4

(* The latest position of m is the only one with the properties of LastOfFacts. *)
LEMMA LastOfUnique ==
  ASSUME NEW log \in Seq(Entries), NEW m, NEW n \in 0..Len(log),
         n # 0 => log[n].msg = m,
         \A i \in 1..Len(log) : log[i].msg = m => i <= n
  PROVE  LastOf(log, m) = n
<1>1. Len(log) \in Nat
  OBVIOUS
<1>2. LastOf(log, m) \in 0..Len(log)
      /\ (LastOf(log, m) # 0 => /\ LastOf(log, m) \in 1..Len(log)
                                /\ log[LastOf(log, m)].msg = m)
      /\ \A i \in 1..Len(log) : log[i].msg = m => i <= LastOf(log, m)
  BY LastOfFacts
<1> QED
  BY <1>1, <1>2

LEMMA LastOfAppended ==
  ASSUME NEW log \in Seq(Entries), NEW e \in Entries, NEW m
  PROVE  LastOf(Append(log, e), m) = IF m = e.msg THEN Len(log) + 1 ELSE LastOf(log, m)
<1> DEFINE longer == Append(log, e)
<1>1. /\ Len(log) \in Nat /\ longer \in Seq(Entries) /\ Len(longer) = Len(log) + 1
      /\ longer[Len(log) + 1] = e
      /\ \A i \in 1..Len(log) : longer[i] = log[i]
  OBVIOUS
<1> HIDE DEF longer
<1>2. CASE m = e.msg
  <2>1. LastOf(longer, m) = Len(log) + 1
    BY <1>1, <1>2, LastOfUnique
  <2> QED
    BY <1>2, <2>1 DEF longer
<1>3. CASE m # e.msg
  <2>1. /\ LastOf(log, m) \in 0..Len(log)
        /\ LastOf(log, m) # 0 => /\ LastOf(log, m) \in 1..Len(log)
                                 /\ log[LastOf(log, m)].msg = m
        /\ \A i \in 1..Len(log) : log[i].msg = m => i <= LastOf(log, m)
    BY LastOfFacts
  <2>2. LastOf(log, m) \in 0..Len(longer)
    BY <1>1, <2>1
  <2>3. LastOf(log, m) # 0 => longer[LastOf(log, m)].msg = m
    BY <1>1, <2>1
  <2>4. \A i \in 1..Len(longer) : longer[i].msg = m => i <= LastOf(log, m)
    BY <1>1, <1>3, <2>1
  <2>5. LastOf(longer, m) = LastOf(log, m)
    BY <1>1, <2>2, <2>3, <2>4, LastOfUnique
  <2> QED
    BY <1>3, <2>5 DEF longer
<1> QED
  BY <1>2, <1>3

LEMMA LatestFacts ==
  ASSUME TypeOK, NEW m
  PROVE  /\ Len(feed) \in Nat
         /\ Latest(m) \in 0..Len(feed)
         /\ Latest(m) # 0 => Latest(m) \in 1..Len(feed) /\ feed[Latest(m)].msg = m
         /\ \A i \in 1..Len(feed) : feed[i].msg = m => i <= Latest(m)
<1>1. feed \in Seq(Entries)
  BY DEF TypeOK, Entries
<1> QED
  BY <1>1, LatestIsLast, LastOfFacts

(* A step that leaves the mailbox alone leaves what is read from it alone. *)
LEMMA SameMailbox ==
  ASSUME UNCHANGED feed, NEW m
  PROVE  /\ Latest(m)' = Latest(m)
         /\ InMailbox(m)' = InMailbox(m)
         /\ WasRemoved(m)' = WasRemoved(m)
<1>1. Latest(m)' = Latest(m)
  BY LatestIsLast
<1> QED
  BY <1>1 DEF InMailbox, WasRemoved

LEMMA CurrentIsFirst == Current = FirstOf(rows) /\ Current' = FirstOf(rows')
BY DEF Current, FirstOf

LEMMA SameEntry ==
  ASSUME UNCHANGED <<feed, rows>>
  PROVE  Current' = Current /\ Message' = Message /\ Removed' = Removed
<1>1. Current' = Current
  BY CurrentIsFirst
<1> QED
  BY <1>1 DEF Message, Removed

LEMMA CurrentFact ==
  ASSUME TypeOK, rows # {}
  PROVE  /\ Current \in rows /\ Current \in 1..Len(feed)
         /\ feed[Current] \in Entries /\ Message \in Msgs
<1>1. rows \in SUBSET (1..Len(feed)) /\ feed \in Seq(Entries) /\ Len(feed) \in Nat
  BY DEF TypeOK, Entries
<1>2. rows \in SUBSET Nat
  BY <1>1
<1>3. \E i \in rows : \A j \in rows : i <= j
  BY <1>2, LeastPosition
<1>4. Current \in rows
  BY <1>3 DEF Current
<1>5. feed[Current] \in Entries
  BY <1>1, <1>4
<1> QED
  BY <1>1, <1>4, <1>5 DEF Message, Entries
----------------------------------------------------------------------------
LEMMA ContentExists == Content \in Contents
BY GraphSyncAssumption DEF Content
----------------------------------------------------------------------------
(* The session *)

LEMMA SeenFacts ==
  ASSUME TypeOK, PageInv, NEW m \in Msgs
  PROVE  /\ SeenRow(m) \in Rows \cup {NoRow}
         /\ SeenRow(m).status = db[m].status
         /\ Present(SeenRow(m)) <=> Present(db[m])
         /\ SeenOutlook(m) \in 0..Len(feed)
         /\ m \in DOMAIN pending => /\ SeenRow(m).lifecycle = pending[m].lifecycle
                                    /\ SeenOutlook(m) = pending[m].outlook
         /\ m \notin DOMAIN pending => SeenRow(m) = db[m] /\ SeenOutlook(m) = outlook[m]
<1>1. /\ db[m] \in Rows \cup {NoRow} /\ outlook[m] \in 0..Len(feed)
      /\ m \in DOMAIN pending =>
           pending[m] \in [lifecycle : Lifecycles, outlook : 0..Len(feed)]
  BY DEF TypeOK
<1>2. CASE m \notin DOMAIN pending
  BY <1>1, <1>2 DEF SeenRow, SeenOutlook
<1>3. CASE m \in DOMAIN pending
  <2>1. db[m] \in Rows
    BY <1>1, <1>3, RowFacts DEF PageInv
  <2>2. SeenRow(m) = [db[m] EXCEPT !.lifecycle = pending[m].lifecycle]
    BY <1>3 DEF SeenRow
  <2>3. SeenRow(m) \in Rows /\ SeenRow(m).status = db[m].status
        /\ SeenRow(m).lifecycle = pending[m].lifecycle
    BY <1>1, <1>3, <2>1, <2>2 DEF Rows
  <2>4. SeenOutlook(m) = pending[m].outlook /\ SeenOutlook(m) \in 0..Len(feed)
    BY <1>1, <1>3 DEF SeenOutlook
  <2> QED
    BY <1>3, <2>3, <2>4 DEF Present
<1> QED
  BY <1>2, <1>3

(* With nothing pending the session shows what is committed. *)
LEMMA NothingSeen ==
  ASSUME pending' = NoChanges, NEW m
  PROVE  /\ DOMAIN pending' = {}
         /\ SeenRow(m)' = db'[m] /\ SeenOutlook(m)' = outlook'[m]
BY DEF NoChanges, SeenRow, SeenOutlook

LEMMA PageFacts ==
  ASSUME TypeOK
  PROVE  /\ Len(feed) \in Nat /\ cursor \in 0..Len(feed)
         /\ PageEnd(cursor) \in 0..Len(feed) /\ cursor <= PageEnd(cursor)
         /\ PageRows(cursor) \subseteq (cursor + 1)..PageEnd(cursor)
         /\ PageRows(cursor) \subseteq 1..Len(feed)
<1>1. Len(feed) \in Nat /\ cursor \in 0..Len(feed) /\ PageSize \in Nat
  BY GraphSyncAssumption DEF TypeOK
<1>2. PageEnd(cursor) \in 0..Len(feed) /\ cursor <= PageEnd(cursor)
  BY <1>1 DEF PageEnd
<1>3. PageRows(cursor) \subseteq (cursor + 1)..PageEnd(cursor)
  BY DEF PageRows
<1> QED
  BY <1>1, <1>2, <1>3
----------------------------------------------------------------------------
(* Type correctness *)

LEMMA InitType == Init => TypeOK
<1> SUFFICES ASSUME Init PROVE TypeOK
  OBVIOUS
<1>1. /\ MaxFaults \in Nat /\ MaxAges \in Nat /\ RetryMax \in Nat \ {0}
  BY GraphSyncAssumption
<1>2. feed = <<>> /\ Len(feed) = 0 /\ feed \in Seq([msg : Msgs, kind : {"UPSERT", "REMOVED"}])
  BY DEF Init
<1>3. db \in [Msgs -> Rows \cup {NoRow}] /\ outlook \in [Msgs -> 0..Len(feed)]
  BY <1>2 DEF Init
<1>4. DOMAIN pending = {}
  BY DEF Init, NoChanges
<1>5. cursor \in 0..Len(feed) /\ nextCursor \in 0..Len(feed) /\ rows \subseteq 1..Len(feed)
  BY <1>2 DEF Init
<1>6. attempt \in 1..RetryMax /\ faults \in 0..MaxFaults /\ ages \in 0..MaxAges
  BY <1>1 DEF Init
<1>7. subscription \in Subscriptions /\ pc \in PCs
  BY DEF Init, Subscriptions, PCs
<1>8. /\ notice \in BOOLEAN /\ lastError \in BOOLEAN /\ lastPage \in BOOLEAN
      /\ force \in BOOLEAN /\ wake \in BOOLEAN /\ stop \in BOOLEAN /\ stopping \in BOOLEAN
  BY DEF Init
<1> QED
  BY <1>2, <1>3, <1>4, <1>5, <1>6, <1>7, <1>8 DEF TypeOK

(* The part of TypeOK that the mailbox, the store and the page make up. *)
DataOK ==
  /\ feed \in Seq([msg : Msgs, kind : {"UPSERT", "REMOVED"}])
  /\ db \in [Msgs -> Rows \cup {NoRow}]
  /\ outlook \in [Msgs -> 0..Len(feed)]
  /\ cursor \in 0..Len(feed) /\ nextCursor \in 0..Len(feed)
  /\ DOMAIN pending \subseteq Msgs
  /\ \A m \in DOMAIN pending :
       pending[m] \in [lifecycle : Lifecycles, outlook : 0..Len(feed)]
  /\ rows \subseteq 1..Len(feed)

(* The rest: where the worker is, its counters and its events. *)
ControlOK ==
  /\ subscription \in Subscriptions /\ pc \in PCs
  /\ attempt \in 1..RetryMax /\ faults \in 0..MaxFaults /\ ages \in 0..MaxAges
  /\ notice \in BOOLEAN /\ lastError \in BOOLEAN /\ lastPage \in BOOLEAN /\ force \in BOOLEAN
  /\ wake \in BOOLEAN /\ stop \in BOOLEAN /\ stopping \in BOOLEAN

LEMMA TypeParts == (TypeOK <=> DataOK /\ ControlOK) /\ (TypeOK' <=> DataOK' /\ ControlOK')
BY DEF TypeOK, DataOK, ControlOK

LEMMA StepControlOK ==
  ASSUME TypeOK, [Next]_vars
  PROVE  ControlOK'
<1>1. /\ RetryMax \in Nat \ {0} /\ MaxFaults \in Nat /\ MaxAges \in Nat
  BY GraphSyncAssumption
<1> USE DEF TypeOK, vars, mailboxVars, subVars, storeVars, pageVars, eventVars,
            Next, Worker, SyncStep, MailboxChange, Notify, SubscriptionAges, CheckStop,
            EnsureSubscription, EnsureSubscriptionFails, WaitReturns, ClearWake, FetchPage,
            FetchPageFails, ReadRow, FetchMessageFails, Process, ProcessRetries,
            ProcessRaises, ApplyRow, CommitPage, FailSync, StopSetsStop, StopSetsWake,
            Crash, Start, Reprocess
<1>2. subscription' \in Subscriptions
  BY DEF Subscriptions
<1>3. pc' \in PCs
  BY DEF PCs
<1>4. attempt' = attempt \/ attempt' = 1 \/ (attempt < RetryMax /\ attempt' = attempt + 1)
  OBVIOUS
<1>5. faults' = faults \/ (faults < MaxFaults /\ faults' = faults + 1)
  BY DEF FaultAllowed
<1>6. ages' = ages \/ (ages < MaxAges /\ ages' = ages + 1)
  OBVIOUS
<1>7. /\ notice' \in BOOLEAN /\ lastError' \in BOOLEAN /\ lastPage' \in BOOLEAN
      /\ force' \in BOOLEAN
  BY DEF Live
<1>8. wake' \in BOOLEAN /\ stop' \in BOOLEAN /\ stopping' \in BOOLEAN
  OBVIOUS
<1>9. /\ attempt \in 1..RetryMax /\ faults \in 0..MaxFaults /\ ages \in 0..MaxAges
  OBVIOUS
<1> HIDE DEF TypeOK, vars, Next
<1>10. attempt' \in 1..RetryMax /\ faults' \in 0..MaxFaults /\ ages' \in 0..MaxAges
  BY <1>1, <1>4, <1>5, <1>6, <1>9
<1> QED
  BY <1>2, <1>3, <1>7, <1>8, <1>10 DEF ControlOK

(* Most steps leave the mailbox, the store and the page alone, and enter       *)
(* neither a page nor the end of a failed one.                                 *)
QuietStep ==
  /\ UNCHANGED <<feed, db, outlook, cursor, pending, rows, nextCursor, force>>
  /\ \/ UNCHANGED pc
     \/ ~InPage' /\ (pc' = "fail" \/ (~InPage /\ pc # "fail"))

LEMMA StepCases ==
  ASSUME [Next]_vars
  PROVE  \/ QuietStep
         \/ \E m \in Msgs, kind \in {"UPSERT", "REMOVED"} : MailboxChange(m, kind)
         \/ FetchPage \/ ReadRow
         \/ \E route \in AllRoutes : Process(route)
         \/ ProcessRetries \/ \E recorded \in BOOLEAN : ProcessRaises(recorded)
         \/ ApplyRow \/ CommitPage \/ FailSync \/ Crash \/ Start
         \/ \E m \in Msgs, route \in AllRoutes : Reprocess(m, route)
<1>1. ASSUME \/ UNCHANGED vars \/ Notify \/ SubscriptionAges \/ StopSetsStop \/ StopSetsWake
             \/ CheckStop \/ EnsureSubscription \/ EnsureSubscriptionFails \/ WaitReturns
             \/ ClearWake \/ FetchPageFails \/ FetchMessageFails
      PROVE  QuietStep
  BY <1>1 DEF QuietStep, InPage, vars, mailboxVars, subVars, storeVars, pageVars, eventVars,
         Notify, SubscriptionAges, StopSetsStop, StopSetsWake, CheckStop, EnsureSubscription,
         EnsureSubscriptionFails, WaitReturns, ClearWake, FetchPageFails, FetchMessageFails
<1> QED
  BY <1>1 DEF Next, Worker, SyncStep

LEMMA StepDataOK ==
  ASSUME TypeOK, PageInv, EntryInv, [Next]_vars
  PROVE  DataOK'
<1> DEFINE Row == Rows \cup {NoRow}
<1>0. /\ feed \in Seq([msg : Msgs, kind : {"UPSERT", "REMOVED"}]) /\ Len(feed) \in Nat
      /\ db \in [Msgs -> Row] /\ outlook \in [Msgs -> 0..Len(feed)]
      /\ cursor \in 0..Len(feed) /\ nextCursor \in 0..Len(feed)
      /\ DOMAIN pending \subseteq Msgs
      /\ \A m \in DOMAIN pending :
           pending[m] \in [lifecycle : Lifecycles, outlook : 0..Len(feed)]
      /\ rows \subseteq 1..Len(feed) /\ force \in BOOLEAN
  BY DEF TypeOK
<1>1. CASE QuietStep
  BY <1>1, <1>0 DEF QuietStep, DataOK
<1>2. ASSUME NEW m \in Msgs, NEW kind \in {"UPSERT", "REMOVED"}, MailboxChange(m, kind)
      PROVE  DataOK'
  <2>1. /\ feed' = Append(feed, [msg |-> m, kind |-> kind])
        /\ UNCHANGED <<db, outlook, cursor, pending, rows, nextCursor>>
    BY <1>2 DEF MailboxChange, storeVars, pageVars
  <2>2. feed' \in Seq([msg : Msgs, kind : {"UPSERT", "REMOVED"}]) /\ Len(feed') = Len(feed) + 1
    BY <2>1, <1>0
  <2>3. 0..Len(feed) \subseteq 0..Len(feed') /\ 1..Len(feed) \subseteq 1..Len(feed')
    BY <2>2, <1>0
  <2>4. outlook \in [Msgs -> 0..Len(feed')]
    BY <2>3, <1>0
  <2>5. \A n \in DOMAIN pending :
          pending[n] \in [lifecycle : Lifecycles, outlook : 0..Len(feed')]
    BY <2>3, <1>0
  <2> QED
    BY <2>1, <2>2, <2>3, <2>4, <2>5, <1>0 DEF DataOK
<1>3. CASE FetchPage
  <2>1. UNCHANGED <<feed, db, outlook, cursor, pending>>
        /\ rows' = PageRows(cursor) /\ nextCursor' = PageEnd(cursor)
    BY <1>3 DEF FetchPage, mailboxVars, storeVars
  <2> QED
    BY <2>1, <1>0, PageFacts DEF DataOK
<1>4. CASE ReadRow
  <2>1. UNCHANGED <<feed, db, outlook, cursor, pending, nextCursor>> /\ rows' \subseteq rows
    BY <1>4 DEF ReadRow, Handled, mailboxVars, storeVars
  <2> QED
    BY <2>1, <1>0 DEF DataOK
<1>5. ASSUME NEW route \in AllRoutes, Process(route)
      PROVE  DataOK'
  <2>1. rows # {}
    BY <1>5 DEF Process, PageInv, InEntry
  <2>2. Message \in Msgs /\ SeenRow(Message) \in Row
    BY <2>1, CurrentFact, SeenFacts
  <2> DEFINE r == Ingest(SeenRow(Message), Content, force, route)
  <2>3. r \in Rows
    BY <2>2, <1>0, ContentExists, IngestFacts
  <2>4. /\ UNCHANGED <<feed, cursor, rows, nextCursor>>
        /\ db' = [n \in Msgs |-> IF n = Message THEN r ELSE SeenRow(n)]
        /\ outlook' = [n \in Msgs |-> SeenOutlook(n)]
        /\ pending' = NoChanges
    BY <1>5 DEF Process, CommitWith, mailboxVars, pageVars
  <2> HIDE DEF r
  <2>5. db' \in [Msgs -> Row]
    BY <2>3, <2>4, SeenFacts
  <2>6. outlook' \in [Msgs -> 0..Len(feed)]
    BY <2>4, SeenFacts
  <2>7. DOMAIN pending' = {}
    BY <2>4, NothingSeen
  <2> QED
    BY <2>4, <2>5, <2>6, <2>7, <1>0 DEF DataOK
<1>6. CASE ProcessRetries \/ FailSync \/ Crash
  <2>1. UNCHANGED <<feed, db, outlook, cursor, rows, nextCursor>> /\ pending' = NoChanges
    BY <1>6 DEF ProcessRetries, FailSync, Crash, Rollback, mailboxVars, storeVars, pageVars
  <2> QED
    BY <2>1, <1>0, NothingSeen DEF DataOK
<1>7. ASSUME NEW recorded \in BOOLEAN, ProcessRaises(recorded)
      PROVE  DataOK'
  <2>1. rows # {}
    BY <1>7 DEF ProcessRaises, PageInv, InEntry
  <2>2. Message \in Msgs /\ db[Message] \in Row
    BY <2>1, <1>0, CurrentFact
  <2>3. RecordFailure(db[Message], Content) \in Rows
    BY <2>2, ContentExists, FailureFacts
  <2>4. /\ UNCHANGED <<feed, outlook, cursor, rows, nextCursor>> /\ pending' = NoChanges
        /\ \/ db' = db
           \/ db' = [db EXCEPT ![Message] = RecordFailure(db[Message], Content)]
    BY <1>7 DEF ProcessRaises, mailboxVars, pageVars
  <2>5. db' \in [Msgs -> Row]
    BY <2>2, <2>3, <2>4, <1>0
  <2> QED
    BY <2>4, <2>5, <1>0, NothingSeen DEF DataOK
<1>8. CASE ApplyRow
  <2>1. rows # {}
    BY <1>8 DEF ApplyRow, PageInv, InEntry
  <2>2. Message \in Msgs /\ Current \in 0..Len(feed) /\ SeenOutlook(Message) \in 0..Len(feed)
    BY <2>1, <1>0, CurrentFact, SeenFacts
  <2> DEFINE change == IF Removed
                         THEN [lifecycle |-> "DELETED", outlook |-> SeenOutlook(Message)]
                         ELSE [lifecycle |-> "ACTIVE", outlook |-> Current]
  <2>3. change \in [lifecycle : Lifecycles, outlook : 0..Len(feed)]
    BY <2>2 DEF Lifecycles
  <2>4. /\ UNCHANGED <<feed, db, outlook, cursor, nextCursor>>
        /\ rows' = rows \ {Current}
        /\ pending' = [n \in DOMAIN pending \cup {Message} |->
                         IF n = Message THEN change ELSE pending[n]]
    BY <1>8 DEF ApplyRow, Handled, mailboxVars, storeVars
  <2> HIDE DEF change
  <2>5. DOMAIN pending' = DOMAIN pending \cup {Message}
    BY <2>4
  <2>6. \A n \in DOMAIN pending' :
          pending'[n] \in [lifecycle : Lifecycles, outlook : 0..Len(feed)]
    BY <2>3, <2>4, <2>5, <1>0
  <2> QED
    BY <2>2, <2>4, <2>5, <2>6, <1>0 DEF DataOK
<1>9. CASE CommitPage
  <2>1. /\ UNCHANGED <<feed, rows, nextCursor>> /\ cursor' = nextCursor
        /\ db' = [m \in Msgs |-> SeenRow(m)] /\ outlook' = [m \in Msgs |-> SeenOutlook(m)]
        /\ pending' = NoChanges
    BY <1>9 DEF CommitPage, mailboxVars, pageVars
  <2>2. db' \in [Msgs -> Row] /\ outlook' \in [Msgs -> 0..Len(feed)]
    BY <2>1, SeenFacts
  <2> QED
    BY <2>1, <2>2, <1>0, NothingSeen DEF DataOK
<1>10. CASE Start
  <2>1. /\ UNCHANGED <<feed, db, outlook, cursor, pending>>
        /\ rows' = {} /\ nextCursor' = cursor
    BY <1>10 DEF Start, mailboxVars, storeVars
  <2> QED
    BY <2>1, <1>0 DEF DataOK
<1>11. ASSUME NEW m \in Msgs, NEW route \in AllRoutes, Reprocess(m, route)
       PROVE  DataOK'
  <2>1. db[m] \in Rows
    BY <1>11, <1>0, RowFacts DEF Reprocess, Present
  <2>2. db[m].content \in Contents
    BY <2>1 DEF Rows
  <2>3. Ingest(db[m], db[m].content, TRUE, route) \in Rows
    BY <2>1, <2>2, IngestFacts
  <2>4. /\ UNCHANGED <<feed, outlook, cursor, pending, rows, nextCursor>>
        /\ db' = [db EXCEPT ![m] = Ingest(db[m], db[m].content, TRUE, route)]
    BY <1>11 DEF Reprocess, mailboxVars, pageVars
  <2>5. db' \in [Msgs -> Row]
    BY <2>3, <2>4, <1>0
  <2> QED
    BY <2>4, <2>5, <1>0 DEF DataOK
<1> QED
  BY StepCases, <1>1, <1>2, <1>3, <1>4, <1>5, <1>6, <1>7, <1>8, <1>9, <1>10, <1>11
----------------------------------------------------------------------------
(* What the steps do to the rows, and to the mailbox *)

(* A new change of message m comes after all the others. *)
LEMMA MailboxGrows ==
  ASSUME TypeOK, NEW m \in Msgs, NEW kind \in {"UPSERT", "REMOVED"}, MailboxChange(m, kind)
  PROVE  /\ \A x : Latest(x)' = IF x = m THEN Len(feed) + 1 ELSE Latest(x)
         /\ \A i \in 1..Len(feed) : feed'[i] = feed[i]
         /\ \A x : x # m => InMailbox(x)' = InMailbox(x)
         /\ \A x : WasRemoved(x) => WasRemoved(x)'
<1>1. feed \in Seq(Entries) /\ Len(feed) \in Nat /\ [msg |-> m, kind |-> kind] \in Entries
  BY DEF TypeOK, Entries
<1>2. feed' = Append(feed, [msg |-> m, kind |-> kind])
  BY DEF MailboxChange
<1>3. \A i \in 1..Len(feed) : feed'[i] = feed[i] /\ i \in 1..Len(feed')
  BY <1>1, <1>2
<1>4. ASSUME NEW x
      PROVE  Latest(x)' = IF x = m THEN Len(feed) + 1 ELSE Latest(x)
  BY <1>1, <1>2, LatestIsLast, LastOfAppended
<1>5. ASSUME NEW x, x # m
      PROVE  InMailbox(x)' = InMailbox(x)
  <2>1. Latest(x)' = Latest(x)
    BY <1>4, <1>5
  <2>2. Latest(x) # 0 => feed'[Latest(x)] = feed[Latest(x)]
    BY <1>3, LatestFacts
  <2> QED
    BY <2>1, <2>2 DEF InMailbox
<1>6. ASSUME NEW x, WasRemoved(x)
      PROVE  WasRemoved(x)'
  BY <1>3, <1>6 DEF WasRemoved
<1> QED
  BY <1>3, <1>4, <1>5, <1>6

LEMMA MailboxOnly ==
  ASSUME NEW m, NEW kind, MailboxChange(m, kind)
  PROVE  UNCHANGED <<db, outlook, cursor, pending, pc, rows, nextCursor, force>>
BY DEF MailboxChange, storeVars, pageVars

(* Every step but the arrival of a change leaves the mailbox as it is. *)
LEMMA FeedKept ==
  ASSUME FetchPage \/ ReadRow \/ (\E route \in AllRoutes : Process(route)) \/ ProcessRetries
         \/ (\E recorded \in BOOLEAN : ProcessRaises(recorded)) \/ ApplyRow \/ CommitPage
         \/ FailSync \/ Crash \/ Start \/ (\E m \in Msgs, route \in AllRoutes : Reprocess(m, route))
         \/ QuietStep
  PROVE  UNCHANGED feed
BY DEF FetchPage, ReadRow, Process, ProcessRetries, ProcessRaises, ApplyRow, CommitPage, FailSync,
       Crash, Start, Reprocess, QuietStep, mailboxVars

(* What each step that writes rows does to them.  Processing commits the whole  *)
(* session; it leaves a row FAILED without ending the sync only if it was       *)
(* FAILED before and skipped.                                                  *)
LEMMA ProcessRow ==
  ASSUME TypeOK, PageInv, NEW route \in AllRoutes, Process(route)
  PROVE  /\ rows # {} /\ Message \in Msgs
         /\ db'[Message] = Ingest(SeenRow(Message), Content, force, route)
         /\ db'[Message] \in Rows /\ Present(db'[Message])
         /\ db'[Message].lifecycle = SeenRow(Message).lifecycle
         /\ SeenRow(Message).lifecycle = "DELETED" => db'[Message].status = db[Message].status
         /\ db'[Message].status = "FAILED" /\ pc' # "fail" =>
              db[Message].status = "FAILED" /\ (SeenRow(Message).lifecycle = "DELETED" \/ ~force)
         /\ \A n \in Msgs \ {Message} : db'[n] = SeenRow(n)
         /\ \A n \in Msgs : outlook'[n] = SeenOutlook(n)
         /\ pending' = NoChanges
         /\ UNCHANGED <<feed, cursor, rows, nextCursor, force>>
         /\ pc = "process" /\ pc' \in {"fail", "apply"}
<1>1. rows # {}
  BY DEF Process, PageInv, InEntry
<1>2. /\ Message \in Msgs /\ SeenRow(Message) \in Rows \cup {NoRow} /\ force \in BOOLEAN
      /\ SeenRow(Message).status = db[Message].status
  BY <1>1, CurrentFact, SeenFacts DEF TypeOK
<1> DEFINE r == Ingest(SeenRow(Message), Content, force, route)
<1>3. /\ r \in Rows
      /\ r.lifecycle = SeenRow(Message).lifecycle
      /\ SeenRow(Message).lifecycle = "DELETED" => r.status = SeenRow(Message).status
      /\ r.status = "FAILED" /\ Outcome(SeenRow(Message), Content, force, route) # "FAILED"
         => SeenRow(Message).status = "FAILED" /\ (SeenRow(Message).lifecycle = "DELETED" \/ ~force)
  BY <1>2, ContentExists, IngestFacts
<1>4. /\ UNCHANGED <<feed, cursor, rows, nextCursor, force>>
      /\ db' = [n \in Msgs |-> IF n = Message THEN r ELSE SeenRow(n)]
      /\ outlook' = [n \in Msgs |-> SeenOutlook(n)]
      /\ pending' = NoChanges
      /\ pc = "process"
      /\ pc' = IF Outcome(SeenRow(Message), Content, force, route) = "FAILED"
                 THEN "fail" ELSE "apply"
  BY DEF Process, CommitWith, mailboxVars, pageVars
<1> HIDE DEF r
<1>5. db'[Message] = r
  BY <1>2, <1>4
<1>6. /\ \A n \in Msgs \ {Message} : db'[n] = SeenRow(n)
      /\ \A n \in Msgs : outlook'[n] = SeenOutlook(n)
  BY <1>4
<1>7. Present(db'[Message])
  BY <1>3, <1>5, PresentRow
<1>8. db'[Message].status = "FAILED" /\ pc' # "fail" =>
        db[Message].status = "FAILED" /\ (SeenRow(Message).lifecycle = "DELETED" \/ ~force)
  BY <1>2, <1>3, <1>4, <1>5
<1> QED
  BY <1>1, <1>2, <1>3, <1>4, <1>5, <1>6, <1>7, <1>8 DEF r

LEMMA RaiseRow ==
  ASSUME TypeOK, PageInv, NEW recorded \in BOOLEAN, ProcessRaises(recorded)
  PROVE  /\ rows # {} /\ Message \in Msgs
         /\ db'[Message].lifecycle = db[Message].lifecycle
         /\ Present(db[Message]) => db'[Message].status = db[Message].status
         /\ \A n \in Msgs \ {Message} : db'[n] = db[n]
         /\ pending' = NoChanges
         /\ UNCHANGED <<feed, outlook, cursor, rows, nextCursor, force>>
         /\ pc = "process" /\ pc' = "fail"
<1>1. rows # {}
  BY DEF ProcessRaises, PageInv, InEntry
<1>2. Message \in Msgs /\ db \in [Msgs -> Rows \cup {NoRow}] /\ db[Message] \in Rows \cup {NoRow}
  BY <1>1, CurrentFact DEF TypeOK
<1> DEFINE r == RecordFailure(db[Message], Content)
<1>3. /\ r.lifecycle = db[Message].lifecycle
      /\ Present(db[Message]) => r.status = db[Message].status
  BY <1>2, ContentExists, FailureFacts
<1>4. /\ db' = db \/ db' = [db EXCEPT ![Message] = r]
      /\ pending' = NoChanges
      /\ UNCHANGED <<feed, outlook, cursor, rows, nextCursor, force>>
      /\ pc = "process" /\ pc' = "fail"
  BY DEF ProcessRaises, mailboxVars, pageVars
<1> HIDE DEF r
<1> QED
  BY <1>1, <1>2, <1>3, <1>4

LEMMA ReprocessRow ==
  ASSUME TypeOK, NEW m \in Msgs, NEW route \in AllRoutes, Reprocess(m, route)
  PROVE  /\ db[m].status = "FAILED" /\ Present(db[m])
         /\ Present(db'[m]) /\ db'[m].lifecycle = db[m].lifecycle
         /\ db[m].lifecycle = "DELETED" => db'[m].status = db[m].status
         /\ \A n \in Msgs \ {m} : db'[n] = db[n]
         /\ UNCHANGED <<feed, outlook, cursor, pending, pc, rows, nextCursor, force>>
<1>1. /\ db \in [Msgs -> Rows \cup {NoRow}] /\ db[m].status = "FAILED" /\ Present(db[m])
  BY DEF TypeOK, Reprocess, Present
<1>2. db[m] \in Rows /\ db[m].content \in Contents
  BY <1>1, RowFacts DEF Rows
<1> DEFINE r == Ingest(db[m], db[m].content, TRUE, route)
<1>3. /\ r \in Rows /\ r.lifecycle = db[m].lifecycle
      /\ db[m].lifecycle = "DELETED" => r.status = db[m].status
  BY <1>2, IngestFacts
<1>4. /\ db' = [db EXCEPT ![m] = r]
      /\ UNCHANGED <<feed, outlook, cursor, pending, pc, rows, nextCursor, force>>
  BY DEF Reprocess, mailboxVars, pageVars
<1> HIDE DEF r
<1>5. db'[m] = r /\ \A n \in Msgs \ {m} : db'[n] = db[n]
  BY <1>1, <1>4
<1> QED
  BY <1>1, <1>3, <1>4, <1>5, PresentRow

LEMMA CommitRow ==
  ASSUME TypeOK, PageInv, CommitPage
  PROVE  /\ \A n \in Msgs : db'[n] = SeenRow(n) /\ outlook'[n] = SeenOutlook(n)
         /\ pending' = NoChanges /\ rows = {} /\ cursor' = nextCursor
         /\ UNCHANGED <<feed, rows, nextCursor>>
         /\ pc = "row" /\ pc' \in {"wait", "page"}
BY DEF CommitPage, mailboxVars, pageVars

LEMMA ApplyFacts ==
  ASSUME TypeOK, PageInv, ApplyRow
  PROVE  /\ rows # {} /\ Message \in Msgs /\ Current \in rows
         /\ rows' = rows \ {Current}
         /\ DOMAIN pending' = DOMAIN pending \cup {Message}
         /\ pending'[Message] = IF Removed
                                  THEN [lifecycle |-> "DELETED", outlook |-> SeenOutlook(Message)]
                                  ELSE [lifecycle |-> "ACTIVE", outlook |-> Current]
         /\ \A n \in DOMAIN pending \ {Message} : pending'[n] = pending[n]
         /\ UNCHANGED <<feed, db, outlook, cursor, nextCursor, force>>
         /\ pc = "apply" /\ pc' = "row"
<1>1. rows # {}
  BY DEF ApplyRow, PageInv, InEntry
<1>2. Message \in Msgs /\ Current \in rows
  BY <1>1, CurrentFact
<1> DEFINE change == IF Removed
                       THEN [lifecycle |-> "DELETED", outlook |-> SeenOutlook(Message)]
                       ELSE [lifecycle |-> "ACTIVE", outlook |-> Current]
<1>3. /\ UNCHANGED <<feed, db, outlook, cursor, nextCursor, force>>
      /\ rows' = rows \ {Current}
      /\ pending' = [n \in DOMAIN pending \cup {Message} |->
                       IF n = Message THEN change ELSE pending[n]]
      /\ pc = "apply" /\ pc' = "row"
  BY DEF ApplyRow, Handled, mailboxVars, storeVars
<1> HIDE DEF change
<1>4. /\ DOMAIN pending' = DOMAIN pending \cup {Message} /\ pending'[Message] = change
      /\ \A n \in DOMAIN pending \ {Message} : pending'[n] = pending[n]
  BY <1>3
<1> QED
  BY <1>1, <1>2, <1>3, <1>4 DEF change

LEMMA ReadFacts ==
  ASSUME TypeOK, PageInv, ReadRow
  PROVE  /\ Current \in rows /\ Message \in Msgs
         /\ UNCHANGED <<feed, db, outlook, cursor, pending, nextCursor>>
         /\ pc = "row"
         /\ \/ ~Present(db[Message]) /\ Removed /\ rows' = rows \ {Current} /\ pc' = "row"
            \/ /\ UNCHANGED rows /\ pc' = "process"
               /\ db[Message].status = "FAILED" => force' = TRUE
            \/ /\ UNCHANGED rows /\ pc' = "apply" /\ Present(db[Message])
               /\ db[Message].status = "FAILED" => Removed
<1>1. Current \in rows /\ Message \in Msgs
  BY CurrentFact DEF ReadRow
<1>2. (Present(SeenRow(Message)) <=> Present(db[Message]))
      /\ SeenRow(Message).status = db[Message].status
  BY <1>1, SeenFacts
<1> QED
  BY <1>1, <1>2 DEF ReadRow, Handled, mailboxVars, storeVars
----------------------------------------------------------------------------
(* The page *)

LEMMA StepPageInv ==
  ASSUME TypeOK, PageInv, EntryInv, [Next]_vars
  PROVE  PageInv'
<1>0. /\ Len(feed) \in Nat /\ cursor \in 0..Len(feed) /\ nextCursor \in 0..Len(feed)
      /\ rows \subseteq 1..Len(feed) /\ DOMAIN pending \subseteq Msgs
      /\ \A m : Latest(m) \in 0..Len(feed)
  BY LatestFacts DEF TypeOK
<1>1. CASE QuietStep
  <2>1. UNCHANGED <<feed, db, cursor, pending, rows, nextCursor>>
    BY <1>1 DEF QuietStep
  <2>2. InPage' => UNCHANGED pc
    BY <1>1 DEF QuietStep
  <2>3. ~InPage' /\ pc' # "fail" => ~InPage /\ pc # "fail"
    BY <1>1 DEF QuietStep, InPage
  <2>4. \A m : Latest(m)' = Latest(m)
    BY <2>1, SameMailbox
  <2> QED
    BY <2>1, <2>2, <2>3, <2>4 DEF PageInv, InPage, InEntry
<1>2. ASSUME NEW m \in Msgs, NEW kind \in {"UPSERT", "REMOVED"}, MailboxChange(m, kind)
      PROVE  PageInv'
  <2>1. UNCHANGED <<db, cursor, pending, pc, rows, nextCursor>>
    BY <1>2, MailboxOnly
  <2>2. /\ \A x : Latest(x)' = IF x = m THEN Len(feed) + 1 ELSE Latest(x)
        /\ \A i \in rows : feed'[i] = feed[i]
    BY <1>0, <1>2, MailboxGrows
  <2>3. \A x : Latest(x) > cursor => Latest(x)' > cursor
    BY <1>0, <2>2
  <2>4. \A x : Latest(x) > nextCursor => Latest(x)' > nextCursor
    BY <1>0, <2>2
  <2>5. ASSUME InPage, NEW i \in rows
        PROVE  (Latest(feed[i].msg) = i \/ Latest(feed[i].msg) > nextCursor)'
    <3>1. feed'[i].msg = feed[i].msg /\ nextCursor' = nextCursor
      BY <2>1, <2>2
    <3>2. Latest(feed[i].msg) = i \/ Latest(feed[i].msg) > nextCursor
      BY <2>5 DEF PageInv
    <3> QED
      BY <1>0, <2>2, <2>4, <3>1, <3>2
  <2> QED
    BY <2>1, <2>2, <2>3, <2>5 DEF PageInv, InPage, InEntry
<1>3. CASE FetchPage
  <2>1. /\ UNCHANGED <<feed, db, cursor, pending>> /\ pc = "page" /\ pc' = "row"
        /\ rows' = PageRows(cursor) /\ nextCursor' = PageEnd(cursor)
    BY <1>3 DEF FetchPage, mailboxVars, storeVars
  <2>2. \A m : Latest(m)' = Latest(m)
    BY <2>1, SameMailbox
  <2>3. DOMAIN pending = {}
    BY <2>1 DEF PageInv, InPage
  <2>4. /\ cursor <= PageEnd(cursor) /\ PageRows(cursor) \subseteq (cursor + 1)..PageEnd(cursor)
        /\ \A i \in PageRows(cursor) : Latest(feed[i].msg) = i
    BY PageFacts DEF PageRows
  <2> QED
    BY <2>1, <2>2, <2>3, <2>4 DEF PageInv, InPage, InEntry
<1>4. CASE ReadRow
  <2>1. /\ UNCHANGED <<feed, db, cursor, pending, nextCursor>> /\ rows' \subseteq rows
        /\ rows' = rows \/ pc' = "row"
        /\ pc = "row" /\ pc' \in {"row", "process", "apply"} /\ rows # {}
    BY <1>4, ReadFacts
  <2>2. \A m : Latest(m)' = Latest(m)
    BY <2>1, SameMailbox
  <2> QED
    BY <2>1, <2>2 DEF PageInv, InPage, InEntry
<1>5. ASSUME NEW route \in AllRoutes, Process(route)
      PROVE  PageInv'
  <2>1. /\ UNCHANGED <<feed, cursor, rows, nextCursor>> /\ DOMAIN pending' = {}
        /\ pc = "process" /\ pc' \in {"fail", "apply"}
    BY <1>5, ProcessRow, NothingSeen
  <2>2. \A m : Latest(m)' = Latest(m)
    BY <2>1, SameMailbox
  <2> QED
    BY <2>1, <2>2 DEF PageInv, InPage, InEntry
<1>6. ASSUME ProcessRetries \/ FailSync \/ Crash \/ \E recorded \in BOOLEAN : ProcessRaises(recorded)
      PROVE  PageInv'
  <2>1. /\ UNCHANGED <<feed, cursor, rows, nextCursor>> /\ pending' = NoChanges
        /\ UNCHANGED pc \/ pc' \in {"fail", "wait", "down"}
    BY <1>6, RaiseRow DEF ProcessRetries, FailSync, Crash, Rollback, mailboxVars, storeVars, pageVars
  <2>2. \A m : Latest(m)' = Latest(m)
    BY <2>1, SameMailbox
  <2>3. DOMAIN pending' = {}
    BY <2>1, NothingSeen
  <2> QED
    BY <2>1, <2>2, <2>3 DEF PageInv, InPage, InEntry
<1>7. CASE ApplyRow
  <2>1. /\ rows # {} /\ Message \in Msgs /\ Current \in rows /\ rows' = rows \ {Current}
        /\ DOMAIN pending' = DOMAIN pending \cup {Message}
        /\ UNCHANGED <<feed, db, cursor, nextCursor>> /\ pc = "apply" /\ pc' = "row"
    BY <1>7, ApplyFacts
  <2>2. \A m : Latest(m)' = Latest(m)
    BY <2>1, SameMailbox
  <2>3. Present(db[Message])
    BY <2>1 DEF EntryInv
  <2>4. Latest(Message) > cursor
    BY <1>0, <2>1 DEF PageInv, InPage, Message
  <2>5. \A i \in rows' : feed[i].msg \notin DOMAIN pending'
    BY <2>1 DEF PageInv, InPage, Message
  <2> QED
    BY <2>1, <2>2, <2>3, <2>4, <2>5 DEF PageInv, InPage, InEntry
<1>8. CASE CommitPage
  <2>1. /\ UNCHANGED <<feed, rows, nextCursor>> /\ pc' \in {"wait", "page"} /\ DOMAIN pending' = {}
    BY <1>8, CommitRow, NothingSeen
  <2> QED
    BY <2>1 DEF PageInv, InPage, InEntry
<1>9. CASE Start
  <2>1. UNCHANGED <<feed, db, cursor, pending>> /\ pc = "down" /\ pc' = "check"
    BY <1>9 DEF Start, mailboxVars, storeVars
  <2>2. DOMAIN pending = {}
    BY <2>1 DEF PageInv, InPage
  <2> QED
    BY <2>1, <2>2 DEF PageInv, InPage, InEntry
<1>10. ASSUME NEW m \in Msgs, NEW route \in AllRoutes, Reprocess(m, route)
       PROVE  PageInv'
  <2>1. /\ UNCHANGED <<feed, cursor, pending, pc, rows, nextCursor>>
        /\ \A n \in Msgs : Present(db[n]) => Present(db'[n])
    BY <1>10, ReprocessRow
  <2>2. \A x : Latest(x)' = Latest(x)
    BY <2>1, SameMailbox
  <2> QED
    BY <1>0, <2>1, <2>2 DEF PageInv, InPage, InEntry
<1> QED
  BY StepCases, <1>1, <1>2, <1>3, <1>4, <1>5, <1>6, <1>7, <1>8, <1>9, <1>10
----------------------------------------------------------------------------
(* The entry at hand, and the removals *)

LEMMA StepEntryInv ==
  ASSUME TypeOK, PageInv, EntryInv, RemovedInv, [Next]_vars
  PROVE  EntryInv'
<1>1. CASE QuietStep
  <2>1. UNCHANGED <<feed, db, rows, force>>
    BY <1>1 DEF QuietStep
  <2>2. UNCHANGED pc \/ pc' \notin {"process", "apply"}
    BY <1>1 DEF QuietStep, InPage
  <2>3. UNCHANGED Message /\ \A m : WasRemoved(m)' = WasRemoved(m)
    BY <2>1, SameEntry, SameMailbox
  <2> QED
    BY <2>1, <2>2, <2>3 DEF EntryInv
<1>2. ASSUME NEW m \in Msgs, NEW kind \in {"UPSERT", "REMOVED"}, MailboxChange(m, kind)
      PROVE  EntryInv'
  <2>1. UNCHANGED <<db, pc, rows, force>>
    BY <1>2, MailboxOnly
  <2>2. \A x : WasRemoved(x) => WasRemoved(x)'
    BY <1>2, MailboxGrows
  <2>3. CASE pc \in {"process", "apply"}
    <3>1. Current \in 1..Len(feed)
      BY <2>3, CurrentFact DEF PageInv, InEntry
    <3>2. Current' = Current /\ feed'[Current] = feed[Current]
      BY <1>2, <2>1, <3>1, CurrentIsFirst, MailboxGrows
    <3>3. Message' = Message
      BY <3>2 DEF Message
    <3> QED
      BY <2>1, <2>2, <3>3 DEF EntryInv
  <2>4. CASE pc \notin {"process", "apply"}
    BY <2>1, <2>4 DEF EntryInv
  <2> QED
    BY <2>3, <2>4
<1>3. CASE ReadRow
  <2>1. UNCHANGED <<feed, db>> /\ Current \in rows
    BY <1>3, ReadFacts
  <2>2. CASE pc' = "row"
    BY <2>2 DEF EntryInv
  <2>3. CASE pc' # "row"
    <3>1. /\ UNCHANGED rows
          /\ pc' = "process" => (db[Message].status = "FAILED" => force' = TRUE)
          /\ pc' = "apply" =>
               Present(db[Message]) /\ (db[Message].status = "FAILED" => Removed)
      BY <1>3, <2>3, ReadFacts
    <3>2. Message' = Message /\ WasRemoved(Message)' = WasRemoved(Message)
      BY <2>1, <3>1, SameEntry, SameMailbox DEF WasRemoved
    <3>3. Removed => WasRemoved(Message)
      BY <2>1 DEF Removed, WasRemoved, Message, TypeOK
    <3> QED
      BY <2>1, <3>1, <3>2, <3>3 DEF EntryInv
  <2> QED
    BY <2>2, <2>3
<1>4. ASSUME NEW route \in AllRoutes, Process(route)
      PROVE  EntryInv'
  <2>1. /\ UNCHANGED <<feed, rows>> /\ Present(db'[Message]) /\ Message \in Msgs
        /\ db'[Message].status = "FAILED" /\ pc' # "fail" =>
             db[Message].status = "FAILED" /\ (SeenRow(Message).lifecycle = "DELETED" \/ ~force)
        /\ pc = "process" /\ pc' \in {"fail", "apply"}
    BY <1>4, ProcessRow
  <2>2. Message' = Message /\ WasRemoved(Message)' = WasRemoved(Message)
    BY <2>1, SameEntry, SameMailbox DEF WasRemoved
  <2>3. pc' = "apply" /\ db'[Message].status = "FAILED" => WasRemoved(Message)
    BY <2>1 DEF EntryInv, RemovedInv
  <2> QED
    BY <2>1, <2>2, <2>3 DEF EntryInv
<1>5. CASE ProcessRetries
  <2>1. UNCHANGED <<feed, db, pc, rows, force>>
    BY <1>5 DEF ProcessRetries, Rollback, mailboxVars
  <2>2. UNCHANGED Message /\ \A m : WasRemoved(m)' = WasRemoved(m)
    BY <2>1, SameEntry, SameMailbox
  <2> QED
    BY <2>1, <2>2 DEF EntryInv
<1>6. CASE \/ FetchPage \/ ApplyRow \/ CommitPage \/ FailSync \/ Crash \/ Start
           \/ \E recorded \in BOOLEAN : ProcessRaises(recorded)
  <2>1. pc' \notin {"process", "apply"}
    BY <1>6 DEF FetchPage, ApplyRow, CommitPage, FailSync, Crash, Start, ProcessRaises
  <2> QED
    BY <2>1 DEF EntryInv
<1>7. ASSUME NEW m \in Msgs, NEW route \in AllRoutes, Reprocess(m, route)
      PROVE  EntryInv'
  <2>1. /\ UNCHANGED <<feed, pc, rows, force>>
        /\ \A n \in Msgs : /\ Present(db[n]) => Present(db'[n])
                           /\ db'[n].status = "FAILED" => db[n].status = "FAILED"
    BY <1>7, ReprocessRow
  <2>2. UNCHANGED Message /\ WasRemoved(Message)' = WasRemoved(Message)
    BY <2>1, SameEntry, SameMailbox DEF WasRemoved
  <2>3. pc \in {"process", "apply"} => Message \in Msgs
    BY CurrentFact DEF PageInv, InEntry
  <2> QED
    BY <2>1, <2>2, <2>3 DEF EntryInv
<1> QED
  BY StepCases, <1>1, <1>2, <1>3, <1>4, <1>5, <1>6, <1>7

LEMMA SeenNext ==
  ASSUME NEW m
  PROVE  /\ m \notin DOMAIN pending' => SeenRow(m)' = db'[m] /\ SeenOutlook(m)' = outlook'[m]
         /\ m \in DOMAIN pending' /\ db'[m] \in Rows =>
              /\ SeenRow(m)'.lifecycle = pending'[m].lifecycle
              /\ SeenOutlook(m)' = pending'[m].outlook
<1>1. CASE m \notin DOMAIN pending'
  BY <1>1 DEF SeenRow, SeenOutlook
<1>2. CASE m \in DOMAIN pending' /\ db'[m] \in Rows
  <2>1. SeenRow(m)' = [db'[m] EXCEPT !.lifecycle = pending'[m].lifecycle]
    BY <1>2 DEF SeenRow
  <2>2. SeenRow(m)'.lifecycle = pending'[m].lifecycle
    BY <1>2, <2>1 DEF Rows
  <2>3. SeenOutlook(m)' = pending'[m].outlook
    BY <1>2 DEF SeenOutlook
  <2> QED
    BY <1>2, <2>2, <2>3
<1> QED
  BY <1>1, <1>2

LEMMA SeenKept ==
  ASSUME UNCHANGED <<db, outlook, pending>>, NEW m
  PROVE  SeenRow(m)' = SeenRow(m) /\ SeenOutlook(m)' = SeenOutlook(m)
BY DEF SeenRow, SeenOutlook

LEMMA RowOfApplied ==
  ASSUME TypeOK, PageInv, EntryInv, ApplyRow
  PROVE  db[Message] \in Rows
<1>1. Message \in Msgs /\ Present(db[Message])
  BY ApplyFacts DEF EntryInv
<1> QED
  BY <1>1, RowFacts DEF TypeOK

LEMMA StepRemovedInv ==
  ASSUME TypeOK, PageInv, EntryInv, RemovedInv, [Next]_vars
  PROVE  RemovedInv'
<1> SUFFICES ASSUME NEW m \in Msgs,
                    (SeenRow(m)').lifecycle = "DELETED" \/ db'[m].lifecycle = "DELETED"
             PROVE  WasRemoved(m)'
  BY DEF RemovedInv
<1>1. (SeenRow(m).lifecycle = "DELETED" \/ db[m].lifecycle = "DELETED") => WasRemoved(m)
  BY DEF RemovedInv
<1>2. CASE QuietStep
  <2>1. UNCHANGED <<feed, db, outlook, pending>>
    BY <1>2 DEF QuietStep
  <2> QED
    BY <1>1, <2>1, SeenKept, SameMailbox
<1>3. ASSUME NEW n \in Msgs, NEW kind \in {"UPSERT", "REMOVED"}, MailboxChange(n, kind)
      PROVE  WasRemoved(m)'
  BY <1>1, <1>3, MailboxOnly, SeenKept, MailboxGrows
<1>4. CASE FetchPage \/ ReadRow \/ Start
  <2>1. UNCHANGED <<feed, db, outlook, pending>>
    BY <1>4, ReadFacts DEF FetchPage, Start, mailboxVars, storeVars
  <2> QED
    BY <1>1, <2>1, SeenKept, SameMailbox
<1>5. ASSUME NEW route \in AllRoutes, Process(route)
      PROVE  WasRemoved(m)'
  <2>1. /\ UNCHANGED feed /\ SeenRow(m)' = db'[m]
        /\ db'[m].lifecycle = SeenRow(m).lifecycle
    BY <1>5, ProcessRow, NothingSeen
  <2> QED
    BY <1>1, <2>1, SameMailbox
<1>6. CASE ProcessRetries \/ FailSync \/ Crash
  <2>1. UNCHANGED <<feed, db>> /\ pending' = NoChanges
    BY <1>6 DEF ProcessRetries, FailSync, Crash, Rollback, mailboxVars, storeVars
  <2> QED
    BY <1>1, <2>1, NothingSeen, SameMailbox
<1>7. ASSUME NEW recorded \in BOOLEAN, ProcessRaises(recorded)
      PROVE  WasRemoved(m)'
  <2>1. /\ UNCHANGED feed /\ SeenRow(m)' = db'[m]
        /\ db'[m].lifecycle = db[m].lifecycle
    BY <1>7, RaiseRow, NothingSeen
  <2> QED
    BY <1>1, <2>1, SameMailbox
<1>8. CASE ApplyRow
  <2>1. /\ UNCHANGED <<feed, db, outlook>> /\ DOMAIN pending' = DOMAIN pending \cup {Message}
        /\ pending'[Message].lifecycle = IF Removed THEN "DELETED" ELSE "ACTIVE"
        /\ \A n \in DOMAIN pending \ {Message} : pending'[n] = pending[n]
        /\ Current \in rows
    BY <1>8, ApplyFacts
  <2>2. CASE m = Message
    <3>1. SeenRow(m)'.lifecycle = "DELETED" => Removed
      BY <1>8, <2>1, <2>2, RowOfApplied, SeenNext
    <3>2. Removed => WasRemoved(Message)
      BY <2>1 DEF Removed, WasRemoved, Message, TypeOK
    <3> QED
      BY <1>1, <2>1, <2>2, <3>1, <3>2, SameMailbox
  <2>3. CASE m # Message
    <3>1. SeenRow(m)' = SeenRow(m)
      BY <2>1, <2>3 DEF SeenRow
    <3> QED
      BY <1>1, <2>1, <3>1, SameMailbox
  <2> QED
    BY <2>2, <2>3
<1>9. CASE CommitPage
  <2>1. UNCHANGED feed /\ SeenRow(m)' = db'[m] /\ db'[m] = SeenRow(m)
    BY <1>9, CommitRow, NothingSeen
  <2> QED
    BY <1>1, <2>1, SameMailbox
<1>10. ASSUME NEW n \in Msgs, NEW route \in AllRoutes, Reprocess(n, route)
       PROVE  WasRemoved(m)'
  <2>1. /\ UNCHANGED <<feed, pending>> /\ db'[m].lifecycle = db[m].lifecycle
        /\ n # m => db'[m] = db[m]
    BY <1>10, ReprocessRow
  <2>2. SeenRow(m)'.lifecycle = SeenRow(m).lifecycle
    <3>1. CASE m \in DOMAIN pending
      <4>1. Present(db[m]) /\ Present(db'[m]) /\ db[m] \in Rows \cup {NoRow}
        BY <1>10, <2>1, <3>1, ReprocessRow DEF PageInv, TypeOK
      <4>2. db'[m] \in Rows
        BY <4>1, RowFacts, StepDataOK DEF DataOK
      <4> QED
        BY <2>1, <3>1, <4>2, SeenNext, SeenFacts
    <3>2. CASE m \notin DOMAIN pending
      BY <2>1, <3>2, SeenNext, SeenFacts
    <3> QED
      BY <3>1, <3>2
  <2> QED
    BY <1>1, <2>1, <2>2, SameMailbox
<1> QED
  BY StepCases, <1>2, <1>3, <1>4, <1>5, <1>6, <1>7, <1>8, <1>9, <1>10
----------------------------------------------------------------------------
(* The changes the worker has accounted for *)

(* The latest change of a message is accounted for only by moving the cursor    *)
(* over a page already handled, or by handling its entry; a new change is not.  *)
LEMMA AccountedBefore ==
  ASSUME TypeOK, PageInv, [Next]_vars, NEW m \in Msgs, Accounted(m)'
  PROVE  /\ \/ Accounted(m)
            \/ /\ ApplyRow \/ (ReadRow /\ rows' # rows)
               /\ m = Message /\ Latest(m) = Current /\ Current \in rows
         /\ Latest(m)' = Latest(m) /\ InMailbox(m)' = InMailbox(m)
         /\ WasRemoved(m) => WasRemoved(m)'
<1>0. /\ Len(feed) \in Nat /\ cursor \in 0..Len(feed) /\ nextCursor \in 0..Len(feed)
      /\ Latest(m) \in 0..Len(feed)
      /\ Latest(m) # 0 => Latest(m) \in 1..Len(feed) /\ feed[Latest(m)].msg = m
  BY LatestFacts DEF TypeOK
<1>1. CASE QuietStep
  <2>1. UNCHANGED <<feed, cursor, rows, nextCursor>> /\ (InPage' => UNCHANGED pc)
    BY <1>1 DEF QuietStep
  <2> QED
    BY <2>1, SameMailbox DEF Accounted, InPage
<1>2. ASSUME NEW n \in Msgs, NEW kind \in {"UPSERT", "REMOVED"}, MailboxChange(n, kind)
      PROVE  Accounted(m) /\ Latest(m)' = Latest(m) /\ InMailbox(m)' = InMailbox(m)
             /\ (WasRemoved(m) => WasRemoved(m)')
  <2>1. UNCHANGED <<cursor, pc, rows, nextCursor>>
    BY <1>2, MailboxOnly
  <2>2. /\ Latest(m)' = IF m = n THEN Len(feed) + 1 ELSE Latest(m)
        /\ m # n => InMailbox(m)' = InMailbox(m)
        /\ WasRemoved(m) => WasRemoved(m)'
    BY <1>2, MailboxGrows
  <2>3. m # n
    BY <1>0, <2>1, <2>2 DEF Accounted, InPage
  <2> QED
    BY <2>1, <2>2, <2>3 DEF Accounted, InPage
<1>3. CASE FetchPage
  <2>1. /\ UNCHANGED <<feed, cursor>> /\ rows' = PageRows(cursor) /\ nextCursor' = PageEnd(cursor)
    BY <1>3 DEF FetchPage, mailboxVars, storeVars
  <2>2. PageEnd(cursor) \in 0..Len(feed)
    BY PageFacts
  <2>3. Latest(m) # 0 /\ Latest(m) <= PageEnd(cursor) /\ Latest(m) \notin PageRows(cursor)
        => Latest(m) <= cursor
    BY <1>0, <2>2 DEF PageRows
  <2> QED
    BY <2>1, <2>3, SameMailbox DEF Accounted
<1>4. CASE ReadRow
  <2>1. /\ UNCHANGED <<feed, cursor, nextCursor>> /\ pc = "row" /\ Current \in rows
        /\ rows' = rows \/ rows' = rows \ {Current}
    BY <1>4, ReadFacts
  <2>2. Latest(m)' = Latest(m) /\ InMailbox(m)' = InMailbox(m) /\ WasRemoved(m)' = WasRemoved(m)
    BY <2>1, SameMailbox
  <2>3. Latest(m) = Current => m = Message
    BY <1>0, <2>1, CurrentFact DEF Message, TypeOK
  <2> QED
    BY <1>4, <2>1, <2>2, <2>3 DEF Accounted, InPage
<1>5. CASE ApplyRow
  <2>1. /\ UNCHANGED <<feed, cursor, nextCursor>> /\ pc = "apply" /\ Current \in rows
        /\ rows' = rows \ {Current}
    BY <1>5, ApplyFacts
  <2>2. Latest(m)' = Latest(m) /\ InMailbox(m)' = InMailbox(m) /\ WasRemoved(m)' = WasRemoved(m)
    BY <2>1, SameMailbox
  <2>3. Latest(m) = Current => m = Message
    BY <1>0, <2>1, CurrentFact DEF Message, TypeOK
  <2> QED
    BY <1>5, <2>1, <2>2, <2>3 DEF Accounted, InPage
<1>6. ASSUME \/ \E route \in AllRoutes : Process(route)
             \/ ProcessRetries \/ FailSync \/ Crash
             \/ \E recorded \in BOOLEAN : ProcessRaises(recorded)
             \/ \E n \in Msgs, route \in AllRoutes : Reprocess(n, route)
      PROVE  Accounted(m) /\ UNCHANGED feed
  <2>1. UNCHANGED <<feed, cursor, rows, nextCursor>> /\ (InPage' => InPage)
    BY <1>6 DEF Process, ProcessRetries, FailSync, Crash, ProcessRaises, Reprocess, InPage,
                mailboxVars, storeVars, pageVars
  <2> QED
    BY <2>1, SameMailbox DEF Accounted
<1>7. CASE CommitPage
  <2>1. UNCHANGED feed /\ rows = {} /\ cursor' = nextCursor /\ pc = "row" /\ ~InPage'
    BY <1>7, CommitRow DEF InPage
  <2> QED
    BY <2>1, SameMailbox DEF Accounted, InPage
<1>8. CASE Start
  <2>1. UNCHANGED <<feed, cursor>> /\ ~InPage'
    BY <1>8 DEF Start, InPage, mailboxVars, storeVars
  <2> QED
    BY <2>1, SameMailbox DEF Accounted
<1> QED
  BY StepCases, SameMailbox, <1>1, <1>2, <1>3, <1>4, <1>5, <1>6, <1>7, <1>8

(* The entry being handled is not accounted for: a roll-back loses nothing that *)
(* was, and what is accounted for and pending lies in the page.                 *)
LEMMA EntryUnaccounted ==
  ASSUME TypeOK, PageInv, InEntry
  PROVE  ~Accounted(Message)
<1>1. Current \in rows /\ Len(feed) \in Nat /\ Current \in 1..Len(feed)
      /\ cursor \in 0..Len(feed) /\ nextCursor \in 0..Len(feed) /\ Message \in Msgs
      /\ Latest(Message) \in 0..Len(feed)
  BY CurrentFact, LatestFacts DEF PageInv, TypeOK
<1>2. InPage
  BY DEF InPage, InEntry
<1>3. Latest(Message) = Current \/ Latest(Message) > nextCursor
  BY <1>1, <1>2 DEF PageInv, Message
<1>4. cursor <= nextCursor /\ Current > cursor /\ Current <= nextCursor
  BY <1>1, <1>2 DEF PageInv
<1> QED
  BY <1>1, <1>2, <1>3, <1>4 DEF Accounted

AccountedInv == \A m \in Msgs : Accounted(m) => New(m) /\ Failed(m)

LEMMA StepAccountedInv ==
  ASSUME TypeOK, PageInv, EntryInv, AccountedInv, [Next]_vars
  PROVE  AccountedInv'
<1> SUFFICES ASSUME NEW m \in Msgs, Accounted(m)'
             PROVE  New(m)' /\ Failed(m)'
  BY DEF AccountedInv
<1>0. /\ \/ Accounted(m)
         \/ /\ ApplyRow \/ (ReadRow /\ rows' # rows)
            /\ m = Message /\ Latest(m) = Current /\ Current \in rows
      /\ Latest(m)' = Latest(m) /\ InMailbox(m)' = InMailbox(m)
      /\ WasRemoved(m) => WasRemoved(m)'
  BY AccountedBefore
<1>1. Accounted(m) => New(m) /\ Failed(m)
  BY DEF AccountedInv
(* A row that is present stays so, and is FAILED only if it was. *)
<1>2. ASSUME Accounted(m),
             Present(db[m]) => Present(db'[m]),
             db'[m].status = "FAILED" => db[m].status = "FAILED"
      PROVE  New(m)' /\ Failed(m)'
  BY <1>0, <1>1, <1>2 DEF New, Failed
<1>3. CASE \/ QuietStep \/ FetchPage \/ ReadRow \/ ProcessRetries \/ ApplyRow
           \/ FailSync \/ Crash \/ Start
           \/ \E n \in Msgs, kind \in {"UPSERT", "REMOVED"} : MailboxChange(n, kind)
  <2>1. UNCHANGED db
    BY <1>3, ApplyFacts, ReadFacts, MailboxOnly
       DEF QuietStep, FetchPage, ProcessRetries, FailSync, Crash, Start, Rollback, storeVars
  <2>2. CASE Accounted(m)
    BY <1>2, <2>1, <2>2
  <2>3. CASE ~Accounted(m) /\ ApplyRow
    <3>1. Present(db[m]) /\ (db[m].status = "FAILED" => WasRemoved(m))
      BY <1>0, <2>3 DEF EntryInv, ApplyRow, ReadRow
    <3> QED
      BY <1>0, <2>1, <3>1 DEF New, Failed
  <2>4. CASE ~Accounted(m) /\ ReadRow /\ rows' # rows
    <3>1. Removed /\ feed[Latest(m)].kind = "REMOVED"
      BY <1>0, <2>4, ReadFacts DEF Removed
    <3>2. ~InMailbox(m)
      BY <3>1 DEF InMailbox
    <3> QED
      BY <1>0, <3>2 DEF New, Failed
  <2> QED
    BY <1>0, <2>2, <2>3, <2>4
<1>4. ASSUME NEW route \in AllRoutes, Process(route)
      PROVE  New(m)' /\ Failed(m)'
  <2>1. Accounted(m) /\ m # Message
    BY <1>0, <1>4, EntryUnaccounted DEF Process, ApplyRow, ReadRow, InEntry
  <2>2. db'[m].status = db[m].status
    BY <1>4, <2>1, ProcessRow, SeenFacts
  <2> QED
    BY <1>2, <2>1, <2>2 DEF Present
<1>5. ASSUME NEW recorded \in BOOLEAN, ProcessRaises(recorded)
      PROVE  New(m)' /\ Failed(m)'
  <2>1. Accounted(m) /\ m # Message
    BY <1>0, <1>5, EntryUnaccounted DEF ProcessRaises, ApplyRow, ReadRow, InEntry
  <2> QED
    BY <1>2, <1>5, <2>1, RaiseRow
<1>6. CASE CommitPage
  <2>1. Accounted(m)
    BY <1>0, <1>6 DEF CommitPage, ApplyRow, ReadRow
  <2>2. db'[m].status = db[m].status
    BY <1>6, CommitRow, SeenFacts
  <2> QED
    BY <1>2, <2>1, <2>2 DEF Present
<1>7. ASSUME NEW n \in Msgs, NEW route \in AllRoutes, Reprocess(n, route)
      PROVE  New(m)' /\ Failed(m)'
  <2>1. /\ UNCHANGED rows /\ UNCHANGED pc
        /\ Present(db[m]) => Present(db'[m])
        /\ db'[m].status = "FAILED" => db[m].status = "FAILED"
    BY <1>7, ReprocessRow
  <2>2. Accounted(m)
    BY <1>0, <2>1 DEF ApplyRow
  <2> QED
    BY <1>2, <2>1, <2>2
<1> QED
  BY StepCases, <1>3, <1>4, <1>5, <1>6, <1>7
----------------------------------------------------------------------------
(* Theorems *)

LEMMA InitCursorInv == Init => CursorInv
<1> SUFFICES ASSUME Init PROVE CursorInv
  OBVIOUS
<1>1. /\ feed = <<>> /\ DOMAIN pending = {} /\ pc = "check" /\ cursor = 0
      /\ \A m \in Msgs : db[m] = NoRow
  BY DEF Init, NoChanges
<1>2. PageInv /\ EntryInv
  BY <1>1 DEF PageInv, EntryInv, InPage, InEntry
<1>3. RemovedInv
  BY <1>1 DEF RemovedInv, SeenRow, NoRow
<1>4. \A m \in Msgs : Latest(m) = 0
  BY <1>1, InitType, LatestFacts
<1> QED
  BY <1>2, <1>3, <1>4 DEF CursorInv, Accounted

(* The inductive invariant of the worker, for any retries. *)
LEMMA CursorInvariance == Spec => [](TypeOK /\ CursorInv)
<1>1. Init => TypeOK /\ CursorInv
  BY InitType, InitCursorInv
<1>2. TypeOK /\ CursorInv /\ [Next]_vars => (TypeOK /\ CursorInv)'
  <2> SUFFICES ASSUME TypeOK, CursorInv, [Next]_vars
               PROVE  (TypeOK /\ CursorInv)'
    OBVIOUS
  <2>1. PageInv /\ EntryInv /\ RemovedInv /\ AccountedInv
    BY DEF CursorInv, AccountedInv
  <2>2. TypeOK'
    BY <2>1, StepControlOK, StepDataOK, TypeParts
  <2>3. PageInv' /\ EntryInv' /\ RemovedInv' /\ AccountedInv'
    BY <2>1, StepPageInv, StepEntryInv, StepRemovedInv, StepAccountedInv
  <2> QED
    BY <2>2, <2>3 DEF CursorInv, AccountedInv
<1> QED
  BY <1>1, <1>2, PTL DEF Spec

(* Every variable of the worker, its session and its page keeps its type; the   *)
(* cursor and the positions of the page never lie beyond the mailbox.           *)
THEOREM TypeCorrect == Spec => []TypeOK
BY CursorInvariance, PTL

(* graph_sync.py:72-80, 114-124.  Whatever fails, is retried, crashes or is      *)
(* reprocessed, the cursor never passes the arrival of a message the system     *)
(* has no row for.                                                             *)
THEOREM NewMessagesStored == Spec => []CursorCoversNew
<1>1. ASSUME TypeOK, CursorInv PROVE CursorCoversNew
  BY <1>1 DEF CursorInv, CursorCoversNew, Accounted, Passed, New
<1> QED
  BY <1>1, CursorInvariance, PTL

(* graph_sync.py:71-80.  A row left FAILED by the pipeline holds the cursor in   *)
(* front of its message, unless the message had been removed at some time.      *)
THEOREM FailuresHoldCursor == Spec => []FailedHoldsCursor
<1>1. ASSUME TypeOK, CursorInv PROVE FailedHoldsCursor
  BY <1>1 DEF CursorInv, FailedHoldsCursor, Accounted, Passed, Failed, WasRemoved
<1> QED
  BY <1>1, CursorInvariance, PTL

(* sync/service.py:456-458 with graph_sync.py:96-97.  No step of the worker or   *)
(* of a reprocess changes the status of a row that is DELETED before and after. *)
THEOREM DeletedRowsKept == Spec => DeletedIsPreserved
<1>1. ASSUME TypeOK, CursorInv, [Next]_vars,
             NEW m \in Msgs, db[m].lifecycle = "DELETED", db'[m].lifecycle = "DELETED"
      PROVE  db'[m].status = db[m].status
  <2> USE <1>1
  <2>1. PageInv
    BY DEF CursorInv
  <2>2. Present(db[m])
    BY RowFacts DEF TypeOK
  <2>3. CASE \/ QuietStep \/ FetchPage \/ ReadRow \/ ProcessRetries \/ ApplyRow
             \/ FailSync \/ Crash \/ Start
             \/ \E n \in Msgs, kind \in {"UPSERT", "REMOVED"} : MailboxChange(n, kind)
    BY <2>1, <2>3, ApplyFacts, ReadFacts, MailboxOnly
       DEF QuietStep, FetchPage, ProcessRetries, FailSync, Crash, Start, Rollback, storeVars
  <2>4. ASSUME NEW route \in AllRoutes, Process(route)
        PROVE  db'[m].status = db[m].status
    <3>1. Current \in rows /\ InPage
      BY <2>1, <2>4, CurrentFact DEF Process, PageInv, InPage, InEntry
    <3>2. Message \notin DOMAIN pending
      BY <2>1, <3>1 DEF PageInv, Message
    <3> QED
      BY <2>1, <2>4, <3>2, ProcessRow, SeenFacts
  <2>5. ASSUME NEW recorded \in BOOLEAN, ProcessRaises(recorded)
        PROVE  db'[m].status = db[m].status
    BY <2>1, <2>2, <2>5, RaiseRow
  <2>6. CASE CommitPage
    BY <2>1, <2>6, CommitRow, SeenFacts
  <2>7. ASSUME NEW n \in Msgs, NEW route \in AllRoutes, Reprocess(n, route)
        PROVE  db'[m].status = db[m].status
    BY <2>7, ReprocessRow
  <2> QED
    BY StepCases, <2>3, <2>4, <2>5, <2>6, <2>7
<1>2. TypeOK /\ CursorInv /\ [Next]_vars =>
        [\A m \in Msgs : db[m].lifecycle = "DELETED" /\ db'[m].lifecycle = "DELETED"
                            => db'[m].status = db[m].status]_vars
  BY <1>1
<1> QED
  BY <1>2, CursorInvariance, PTL DEF Spec, DeletedIsPreserved
----------------------------------------------------------------------------
(* The lifecycle of the rows.  The retry loop of the pipeline rolls the session *)
(* back, and with it what the page has already applied; nothing else that rolls *)
(* back leaves the page to be committed.  HarmlessRetries says that every retry *)
(* finds nothing pending.                                                      *)

HarmlessRetries == [][ProcessRetries => DOMAIN pending = {}]_vars

LEMMA StepMirrorInv ==
  ASSUME TypeOK, CursorInv, MirrorInv, [Next]_vars,
         ProcessRetries => DOMAIN pending = {}
  PROVE  MirrorInv'
<1> SUFFICES ASSUME NEW m \in Msgs, Accounted(m)'
             PROVE  Mirrored(m)'
  BY DEF MirrorInv
<1> USE DEF CursorInv
<1>0. /\ \/ Accounted(m)
         \/ /\ ApplyRow \/ (ReadRow /\ rows' # rows)
            /\ m = Message /\ Latest(m) = Current /\ Current \in rows
      /\ Latest(m)' = Latest(m) /\ InMailbox(m)' = InMailbox(m)
  BY AccountedBefore
<1>1. Accounted(m) => Mirrored(m)
  BY DEF MirrorInv
<1>2. ASSUME Accounted(m),
             Present(db'[m]) => Present(db[m]),
             SeenRow(m)'.lifecycle = SeenRow(m).lifecycle,
             SeenOutlook(m)' = SeenOutlook(m)
      PROVE  Mirrored(m)'
  BY <1>0, <1>1, <1>2 DEF Mirrored
<1>3. ASSUME Accounted(m), UNCHANGED <<db, outlook, pending>>
      PROVE  Mirrored(m)'
  BY <1>2, <1>3, SeenKept
(* What the cursor has passed is not pending: a roll-back does not show. *)
<1>4. ASSUME Accounted(m), ~InPage', UNCHANGED <<db, outlook, cursor>>, pending' = NoChanges
      PROVE  Mirrored(m)'
  <2>1. Latest(m) <= cursor
    BY <1>0, <1>4, AccountedBefore DEF Accounted
  <2>2. m \notin DOMAIN pending
    BY <2>1, LatestFacts DEF PageInv, TypeOK
  <2>3. SeenRow(m)' = SeenRow(m) /\ SeenOutlook(m)' = SeenOutlook(m)
    BY <1>4, <2>2, SeenFacts, NothingSeen
  <2> QED
    BY <1>2, <1>4, <2>3
<1>5. CASE \/ QuietStep \/ FetchPage \/ Start
           \/ \E n \in Msgs, kind \in {"UPSERT", "REMOVED"} : MailboxChange(n, kind)
  <2>1. UNCHANGED <<db, outlook, pending>>
    BY <1>5, MailboxOnly DEF QuietStep, FetchPage, Start, storeVars
  <2>2. UNCHANGED rows \/ pc \notin {"row", "apply"}
    BY <1>5, MailboxOnly DEF QuietStep, FetchPage, Start
  <2>3. Accounted(m)
    BY <1>0, <2>2 DEF ApplyRow, ReadRow, Handled
  <2> QED
    BY <1>3, <2>1, <2>3
<1>6. CASE ReadRow
  <2>1. UNCHANGED <<db, outlook, pending>> /\ (rows' # rows => ~Present(db[Message]))
    BY <1>6, ReadFacts
  <2>2. CASE Accounted(m)
    BY <1>3, <2>1, <2>2
  <2>3. CASE ~Accounted(m)
    BY <1>0, <1>6, <2>1, <2>3 DEF Mirrored, ReadRow, ApplyRow
  <2> QED
    BY <2>2, <2>3
<1>7. ASSUME NEW route \in AllRoutes, Process(route)
      PROVE  Mirrored(m)'
  <2>1. Accounted(m) /\ m # Message
    BY <1>0, <1>7, EntryUnaccounted DEF Process, ApplyRow, ReadRow, InEntry
  <2>2. /\ db'[m] = SeenRow(m) /\ SeenRow(m)' = SeenRow(m) /\ SeenOutlook(m)' = SeenOutlook(m)
    BY <1>7, <2>1, ProcessRow, NothingSeen
  <2> QED
    BY <1>2, <2>1, <2>2, SeenFacts
<1>8. CASE ProcessRetries
  <2>1. /\ UNCHANGED <<db, outlook>> /\ pending' = NoChanges /\ DOMAIN pending = {} /\ pc = "process"
    BY <1>8 DEF ProcessRetries, Rollback
  <2>2. SeenRow(m)' = SeenRow(m) /\ SeenOutlook(m)' = SeenOutlook(m)
    BY <2>1, NothingSeen, SeenFacts
  <2>3. Accounted(m)
    BY <1>0, <2>1 DEF ApplyRow, ReadRow
  <2> QED
    BY <1>2, <2>1, <2>2, <2>3
<1>9. CASE FailSync \/ Crash
  <2>1. /\ UNCHANGED <<db, outlook, cursor, rows>> /\ pending' = NoChanges /\ ~InPage'
    BY <1>9 DEF FailSync, Crash, Rollback, storeVars, pageVars, InPage
  <2>2. Accounted(m)
    BY <1>0, <2>1 DEF ApplyRow, InPage
  <2> QED
    BY <1>4, <2>1, <2>2
<1>10. ASSUME NEW recorded \in BOOLEAN, ProcessRaises(recorded)
       PROVE  Mirrored(m)'
  <2>1. /\ Accounted(m) /\ m # Message /\ UNCHANGED <<outlook, cursor>> /\ ~InPage'
        /\ db'[m] = db[m] /\ pending' = NoChanges
    BY <1>0, <1>10, EntryUnaccounted, RaiseRow
       DEF ProcessRaises, ApplyRow, ReadRow, InEntry, InPage
  <2>2. Latest(m) <= cursor
    BY <1>0, <2>1 DEF Accounted
  <2>3. m \notin DOMAIN pending
    BY <2>2, LatestFacts DEF PageInv, TypeOK
  <2>4. SeenRow(m)' = SeenRow(m) /\ SeenOutlook(m)' = SeenOutlook(m)
    BY <2>1, <2>3, SeenFacts, NothingSeen
  <2> QED
    BY <1>2, <2>1, <2>4
<1>11. CASE ApplyRow
  <2>1. /\ UNCHANGED <<feed, db, outlook>> /\ DOMAIN pending' = DOMAIN pending \cup {Message}
        /\ pending'[Message] = IF Removed
                                 THEN [lifecycle |-> "DELETED", outlook |-> SeenOutlook(Message)]
                                 ELSE [lifecycle |-> "ACTIVE", outlook |-> Current]
        /\ \A n \in DOMAIN pending \ {Message} : pending'[n] = pending[n]
        /\ pc = "apply"
    BY <1>11, ApplyFacts
  <2>2. CASE m = Message
    <3>1. Latest(m) = Current /\ Current \in 1..Len(feed) /\ feed[Current] \in Entries
      BY <1>0, <1>11, <2>1, <2>2, EntryUnaccounted, CurrentFact DEF InEntry, PageInv
    <3>2. InMailbox(m) <=> ~Removed
      BY <3>1 DEF InMailbox, Removed, Entries
    <3>3. /\ SeenRow(m)'.lifecycle = pending'[m].lifecycle
          /\ SeenOutlook(m)' = pending'[m].outlook
      BY <1>11, <2>1, <2>2, RowOfApplied, SeenNext
    <3> QED
      BY <1>0, <2>1, <2>2, <3>1, <3>2, <3>3 DEF Mirrored
  <2>3. CASE m # Message
    <3>1. SeenRow(m)' = SeenRow(m) /\ SeenOutlook(m)' = SeenOutlook(m)
      BY <2>1, <2>3 DEF SeenRow, SeenOutlook
    <3> QED
      BY <1>0, <1>2, <2>1, <2>3, <3>1
  <2> QED
    BY <2>2, <2>3
<1>12. CASE CommitPage
  <2>1. /\ Accounted(m) /\ db'[m] = SeenRow(m)
        /\ SeenRow(m)' = SeenRow(m) /\ SeenOutlook(m)' = SeenOutlook(m)
    BY <1>0, <1>12, CommitRow, NothingSeen DEF ApplyRow, ReadRow, CommitPage
  <2> QED
    BY <1>2, <2>1, SeenFacts
<1>13. ASSUME NEW n \in Msgs, NEW route \in AllRoutes, Reprocess(n, route)
       PROVE  Mirrored(m)'
  <2>1. /\ UNCHANGED <<outlook, pending, pc, rows>> /\ db'[m].lifecycle = db[m].lifecycle
        /\ Present(db'[m]) <=> Present(db[m])
    BY <1>13, ReprocessRow
  <2>2. Accounted(m)
    BY <1>0, <1>13, <2>1 DEF ApplyRow
  <2>3. SeenOutlook(m)' = SeenOutlook(m)
    BY <2>1 DEF SeenOutlook
  <2>4. SeenRow(m)'.lifecycle = SeenRow(m).lifecycle
    <3>1. CASE m \in DOMAIN pending
      <4>1. Present(db'[m]) /\ db'[m] \in Rows \cup {NoRow}
        BY <2>1, <3>1, StepDataOK DEF PageInv, DataOK
      <4> QED
        BY <2>1, <3>1, <4>1, RowFacts, SeenNext, SeenFacts
    <3>2. CASE m \notin DOMAIN pending
      BY <2>1, <3>2, SeenNext, SeenFacts
    <3> QED
      BY <3>1, <3>2
  <2> QED
    BY <1>2, <2>1, <2>2, <2>3, <2>4
<1> QED
  BY StepCases, <1>5, <1>6, <1>7, <1>8, <1>9, <1>10, <1>11, <1>12, <1>13

LEMMA MirrorInvariance == Spec /\ HarmlessRetries => []MirrorInv
<1>1. Init => MirrorInv
  <2>1. Init => \A m \in Msgs : Latest(m) = 0
    BY InitType, LatestFacts DEF Init
  <2> QED
    BY <2>1 DEF MirrorInv, Accounted
<1>2. TypeOK /\ CursorInv /\ MirrorInv /\ [Next]_vars
      /\ [ProcessRetries => DOMAIN pending = {}]_vars => MirrorInv'
  <2> SUFFICES ASSUME TypeOK, CursorInv, MirrorInv, [Next]_vars,
                      [ProcessRetries => DOMAIN pending = {}]_vars
               PROVE  MirrorInv'
    OBVIOUS
  <2>1. CASE ProcessRetries => DOMAIN pending = {}
    BY <2>1, StepMirrorInv
  <2>2. CASE UNCHANGED vars
    <3>1. UNCHANGED <<feed, db, outlook, pending, cursor, pc, rows, nextCursor>>
      BY <2>2 DEF vars, mailboxVars, storeVars, pageVars
    <3>2. \A m : /\ Latest(m)' = Latest(m) /\ InMailbox(m)' = InMailbox(m)
                 /\ SeenRow(m)' = SeenRow(m) /\ SeenOutlook(m)' = SeenOutlook(m)
      BY <3>1, SameMailbox, SeenKept
    <3> QED
      BY <3>1, <3>2 DEF MirrorInv, Accounted, Mirrored, InPage
  <2> QED
    BY <2>1, <2>2
<1> QED
  BY <1>1, <1>2, CursorInvariance, PTL DEF Spec, HarmlessRetries

(* graph_sync.py:91-118.  In every behaviour in which no retry rolls back what   *)
(* the page has applied, each row the cursor has passed carries the lifecycle    *)
(* and the Outlook state of the mailbox.                                        *)
THEOREM LifecyclesMirrored == Spec /\ HarmlessRetries => []CursorCoversLifecycle
<1>1. ASSUME TypeOK, CursorInv, MirrorInv, NEW m \in Msgs, Passed(m), Present(db[m])
      PROVE  IF InMailbox(m) THEN db[m].lifecycle = "ACTIVE" /\ outlook[m] = Latest(m)
                             ELSE db[m].lifecycle = "DELETED"
  <2>1. Latest(m) <= cursor /\ Accounted(m)
    BY <1>1 DEF Passed, Accounted
  <2>2. m \notin DOMAIN pending
    BY <1>1, <2>1, LatestFacts DEF CursorInv, PageInv, TypeOK
  <2>3. SeenRow(m) = db[m] /\ SeenOutlook(m) = outlook[m]
    BY <2>2 DEF SeenRow, SeenOutlook
  <2> QED
    BY <1>1, <2>1, <2>3 DEF MirrorInv, Mirrored
<1>2. TypeOK /\ CursorInv /\ MirrorInv => CursorCoversLifecycle
  BY <1>1 DEF CursorCoversLifecycle
<1> QED
  BY <1>2, CursorInvariance, MirrorInvariance, PTL

(* With retry_max_attempts = 1 there is no retry to roll anything back. *)
COROLLARY LifecyclesMirroredOnce ==
  ASSUME RetryMax = 1
  PROVE  Spec => []CursorCoversLifecycle
<1>1. TypeOK => [ProcessRetries => DOMAIN pending = {}]_vars
  BY DEF TypeOK, ProcessRetries
<1>2. Spec => HarmlessRetries
  BY <1>1, TypeCorrect, PTL DEF HarmlessRetries
<1> QED
  BY <1>2, LifecyclesMirrored, PTL
=============================================================================
