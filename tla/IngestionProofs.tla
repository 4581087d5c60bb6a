--------------------------- MODULE IngestionProofs ---------------------------
(***************************************************************************)
(* Theorems about the polling thread, the backlog run and the reprocess      *)
(* beside each other, for any messages, workers, contents and bounds.        *)
(***************************************************************************)
EXTENDS Ingestion, FiniteSetTheorems, TLAPS

(* A transaction that writes holds the row.  One that found no row when it     *)
(* took the lock is about to create it; what was processed as new has a row.   *)
OnceInv ==
  /\ \A w \in Writers : txn[w].pc = "work" =>
       /\ lock[txn[w].msg] = w
       /\ ~txn[w].known => ~Present(db[txn[w].msg])
  /\ \A m \in Msgs : processed[m] # 0 => processed[m] = 1 /\ Present(db[m])

Busy == {w \in Workers : txn[w] # Idle}

(* What the listing holds has an outcome, is with a worker or is still in the   *)
(* backlog; a source failure drops the backlog.  The run waits for workers      *)
(* only while the backlog is empty or every worker is busy.                     *)
Accounted == Recorded + Cardinality(Busy) + Cardinality(backlog)

BacklogInv ==
  /\ Accounted <= Cardinality(listed)
  /\ ~broken => Accounted = Cardinality(listed)
  /\ syncPc = "wait" /\ backlog # {} => Busy = Workers
  /\ syncPc \in {"idle", "returned"} => Busy = {} /\ backlog = {}
  /\ syncPc = "idle" => listed = {} /\ ~broken
----------------------------------------------------------------------------
(* The pipeline, for any contents and routes *)

LEMMA RowFacts ==
  ASSUME NEW row \in Rows \cup {NoRow}
  PROVE  /\ row \in Rows <=> Present(row)
         /\ row.lifecycle \in Lifecycles
         /\ row.lifecycle = "DELETED" => Present(row)
         /\ row.category \in Categories
BY DEF Rows, NoRow, Present, Statuses, Lifecycles, Categories

LEMMA UpsertFacts ==
  ASSUME NEW row \in Rows \cup {NoRow}, NEW c \in Contents
  PROVE  /\ Upsert(row, c) \in Rows
         /\ Upsert(row, c).lifecycle = row.lifecycle
         /\ Upsert(row, c).status = IF Present(row) THEN row.status ELSE "NEW"
<1>1. CASE Present(row)
  <2>1. row \in Rows
    BY <1>1, RowFacts
  <2>2. Upsert(row, c) = [row EXCEPT !.content = c]
    BY <1>1 DEF Upsert
  <2> QED
    BY <1>1, <2>1, <2>2 DEF Rows
<1>2. CASE ~Present(row)
  <2>1. row = NoRow
    BY <1>2, RowFacts
  <2>2. Upsert(row, c) = [NoRow EXCEPT !.status = "NEW", !.content = c]
    BY <1>2 DEF Upsert
  <2>3. Upsert(row, c) = [status |-> "NEW", content |-> c, lifecycle |-> "ACTIVE",
                          category |-> "AUTOMATIC", job |-> "NONE"]
    BY <2>2 DEF NoRow
  <2>4. Upsert(row, c) \in Rows
    BY <2>3 DEF Rows, Statuses, Lifecycles, Categories, JobStatuses
  <2> QED
    BY <1>2, <2>1, <2>3, <2>4 DEF NoRow
<1> QED
  BY <1>1, <1>2

LEMMA RouteFacts ==
  /\ \A route \in AllRoutes :
       /\ StatusAfter(route) \in Statuses /\ JobAfter(route) \in JobStatuses
       /\ StatusAfter(route) = "FAILED" => route = "TECHNICAL_FAILURE"
  /\ \A row : row.category \in Categories => RoutesFor(row) \subseteq AllRoutes
<1>1. \A route \in AllRoutes :
       /\ StatusAfter(route) \in Statuses
       /\ StatusAfter(route) = "FAILED" => route = "TECHNICAL_FAILURE"
  BY DEF StatusAfter, AllRoutes, Statuses
<1>2. \A route \in AllRoutes : JobAfter(route) \in JobStatuses
  BY DEF JobAfter, AllRoutes, JobStatuses
<1>3. ASSUME NEW row, row.category \in Categories
      PROVE  RoutesFor(row) \subseteq AllRoutes
  BY <1>3, RoutesAssumption DEF RoutesFor, AllRoutes, Categories
<1> QED
  BY <1>1, <1>2, <1>3

LEMMA FailureFacts ==
  ASSUME NEW row \in Rows \cup {NoRow}, NEW c \in Contents
  PROVE  /\ RecordFailure(row, c) \in Rows
         /\ RecordFailure(row, c).lifecycle = row.lifecycle
         /\ RecordFailure(row, c).status = IF Present(row) THEN row.status ELSE "NEW"
<1>1. /\ Upsert(row, c) \in Rows
      /\ Upsert(row, c).lifecycle = row.lifecycle
      /\ Upsert(row, c).status = IF Present(row) THEN row.status ELSE "NEW"
  BY UpsertFacts
<1> HIDE DEF Upsert
<1> QED
  BY <1>1 DEF RecordFailure, Rows, JobStatuses

LEMMA PresentRow == \A row \in Rows : Present(row)
BY DEF Rows, Present, Statuses
----------------------------------------------------------------------------
(* Transactions and rows *)

LEMMA Constants ==
  /\ MaxChanges \in Nat /\ MaxRuns \in Nat /\ MaxFaults \in Nat /\ RetryMax \in Nat \ {0}
  /\ IsFiniteSet(Msgs) /\ IsFiniteSet(Workers) /\ Workers # {}
  /\ "nobody" \notin Writers /\ "poller" \notin Workers /\ "reprocess" \notin Workers
  /\ "poller" \in Writers /\ "reprocess" \in Writers /\ Workers \subseteq Writers
BY IngestionAssumption DEF Writers

(* The step a transaction is at tells which record it is. *)
LEMMA TransactionKinds ==
  ASSUME NEW t \in Transactions
  PROVE  /\ t.pc = "read" => t \in Reads
         /\ t.pc \in {"lock", "work", "record"} => t \in Writes
         /\ t.pc = "done" => t \in Ends
         /\ t = Idle <=> t.pc = "idle"
BY DEF Transactions, Reads, Writes, Ends, Idle

LEMMA StartedFacts ==
  ASSUME NEW m \in Msgs, NEW c \in Contents, NEW f \in BOOLEAN
  PROVE  /\ Started(m, c, f) \in Reads
         /\ \A n \in 1..RetryMax : [Started(m, c, f) EXCEPT !.attempt = n] \in Reads
<1>1. 1 \in 1..RetryMax
  BY Constants
<1> QED
  BY <1>1 DEF Started, Reads

LEMMA EndedFacts ==
  ASSUME NEW t \in Reads \cup Writes, NEW o \in Outcomes
  PROVE  Ended(t, o) \in Ends
BY DEF Ended, Ends, Reads, Writes

(* What the read decides: the row is skipped, or it is written knowing whether   *)
(* it was there.                                                               *)
LEMMA ReadingFacts ==
  ASSUME NEW t \in Reads \cup Writes, NEW row \in Rows \cup {NoRow}
  PROVE  \/ Reading(t, row) \in Ends
         \/ /\ Reading(t, row) \in Writes /\ Reading(t, row).pc = "lock"
            /\ Reading(t, row).msg = t.msg /\ Reading(t, row).known = Present(row)
<1>1. CASE Skips(row, t.content, t.force)
  <2>1. Reading(t, row) = Ended(t, "SKIPPED")
    BY <1>1 DEF Reading
  <2> QED
    BY <2>1, EndedFacts DEF Outcomes
<1>2. CASE ~Skips(row, t.content, t.force)
  <2>1. Reading(t, row) = [pc |-> "lock", msg |-> t.msg, content |-> t.content, force |-> t.force,
                           attempt |-> t.attempt, known |-> Present(row),
                           changed |-> row.content # t.content]
    BY <1>2 DEF Reading
  <2>2. Present(row) \in BOOLEAN
    BY DEF Present
  <2>3. /\ t.msg \in Msgs /\ t.content \in Contents /\ t.force \in BOOLEAN
        /\ t.attempt \in 1..RetryMax
    BY DEF Reads, Writes
  <2> QED
    BY <2>1, <2>2, <2>3 DEF Writes
<1> QED
  BY <1>1, <1>2

LEMMA WrittenFacts ==
  ASSUME NEW row \in Rows \cup {NoRow}, NEW t \in Writes, NEW route \in AllRoutes
  PROVE  Written(IF Present(row) THEN row ELSE Upsert(row, t.content), t, route) \in Rows
<1> DEFINE base == IF Present(row) THEN row ELSE Upsert(row, t.content)
<1>1. t.content \in Contents
  BY DEF Writes
<1>2. base \in Rows
  BY <1>1, RowFacts, UpsertFacts
<1>3. StatusAfter(route) \in Statuses /\ JobAfter(route) \in JobStatuses
  BY RouteFacts
<1> HIDE DEF base
<1>4. Written(base, t, route) \in Rows
  BY <1>1, <1>2, <1>3 DEF Written, Rows
<1> QED
  BY <1>4 DEF base

LEMMA FirstFact ==
  ASSUME NEW ids, ids # {}
  PROVE  First(ids) \in ids
BY DEF First

LEMMA ServedFacts ==
  ASSUME TypeOK
  PROVE  /\ Served \subseteq Msgs
         /\ \A m \in Served : source[m] \in Contents
BY DEF TypeOK, Served

LEMMA SeenFacts ==
  ASSUME NEW row \in Rows \cup {NoRow}
  PROVE  Seen(row) \in Snapshots
BY DEF Seen, Snapshots, Rows, NoRow

LEMMA NoSnapshotFact == NoSnapshot \in [Msgs -> Snapshots]
BY SeenFacts DEF NoSnapshot

LEMMA NoOutcomesFact ==
  /\ NoOutcomes \in [Outcomes -> Nat]
  /\ \A o \in Outcomes : NoOutcomes[o] = 0
BY DEF NoOutcomes
----------------------------------------------------------------------------
(* Type correctness *)

(* TypeOK but for the bound of the report, which the backlog accounts for. *)
StoreOK ==
  /\ source \in [Msgs -> Contents \cup {NoContent}]
  /\ changes \in 0..MaxChanges /\ runs \in 0..MaxRuns /\ faults \in 0..MaxFaults
  /\ db \in [Msgs -> Rows \cup {NoRow}]
  /\ lock \in [Msgs -> Writers \cup {"nobody"}]
  /\ processed \in [Msgs -> Nat]

RunsOK ==
  /\ txn \in [Writers -> Transactions]
  /\ pollPc \in {"initial", "check", "cycle", "sleep", "stopped"}
  /\ syncPc \in {"idle", "fill", "wait", "returned"}
  /\ snapshot \in [Msgs -> Snapshots]
  /\ todo \subseteq Served /\ backlog \subseteq listed \cap Served /\ listed \subseteq Msgs
  /\ stop \in BOOLEAN /\ forced \in BOOLEAN /\ broken \in BOOLEAN
  /\ report \in [Outcomes -> Nat]

CoreOK == StoreOK /\ RunsOK

LEMMA CoreOfType == TypeOK => CoreOK
<1>1. Cardinality(Msgs) \in Nat
  BY Constants, FS_CardinalityType
<1>2. 0..Cardinality(Msgs) \subseteq Nat
  BY <1>1
<1>3. report \in [Outcomes -> 0..Cardinality(Msgs)] => report \in [Outcomes -> Nat]
  BY <1>2
<1> QED
  BY <1>3 DEF TypeOK, CoreOK, StoreOK, RunsOK

(* A fault spent stays within the bound. *)
LEMMA FaultSpent ==
  ASSUME faults \in 0..MaxFaults, FaultAllowed \/ UNCHANGED faults
  PROVE  faults' \in 0..MaxFaults
BY Constants DEF FaultAllowed

LEMMA ServedKept == UNCHANGED source => Served' = Served
BY DEF Served

(* A step of a transaction replaces it by another one that is not idle. *)
LEMMA TransactionOK ==
  ASSUME TypeOK, NEW w \in Writers, Transaction(w)
  PROVE  /\ StoreOK'
         /\ \E t \in Transactions \ {Idle} : txn' = [txn EXCEPT ![w] = t]
         /\ txn[w] # Idle
         /\ UNCHANGED <<source, pollPc, snapshot, todo, stop, syncPc, listed, backlog, forced,
                        report, broken, runs>>
<1> DEFINE t == txn[w]
<1>0. /\ StoreOK /\ txn \in [Writers -> Transactions] /\ t \in Transactions
      /\ faults \in 0..MaxFaults
  BY CoreOfType DEF TypeOK, CoreOK, RunsOK
<1>1. Idle.pc = "idle" /\ \A u \in Reads \cup Writes \cup Ends : u \in Transactions \ {Idle}
  BY DEF Idle, Transactions, Reads, Writes, Ends
<1> USE DEF sourceVars, pollVars, syncVars
<1>2. CASE ReadRow(w)
  <2>1. t \in Reads /\ t.pc = "read"
    BY <1>0, <1>2, TransactionKinds DEF ReadRow
  <2>2. db[t.msg] \in Rows \cup {NoRow}
    BY <2>1, <1>0 DEF StoreOK, Reads
  <2>3. Reading(t, db[t.msg]) \in Transactions \ {Idle}
    BY <2>1, <2>2, <1>1, ReadingFacts
  <2>4. StoreOK'
    BY <1>0, <1>2 DEF StoreOK, ReadRow
  <2> QED
    BY <1>1, <1>2, <2>1, <2>3, <2>4 DEF ReadRow
<1>3. CASE LockRow(w)
  <2>1. t \in Writes /\ t.pc = "lock"
    BY <1>0, <1>3, TransactionKinds DEF LockRow
  <2>2. db[t.msg] \in Rows \cup {NoRow} /\ t.msg \in Msgs
    BY <2>1, <1>0 DEF StoreOK, Writes
  <2> DEFINE next == IF Duplicate(t) THEN Reading(t, db[t.msg]) ELSE t
  <2>3. next \in Ends \/ (next \in Writes /\ next.pc = "lock")
    BY <2>1, <2>2, ReadingFacts
  <2>4. \/ next.pc = "done" /\ txn' = [txn EXCEPT ![w] = next] /\ UNCHANGED lock
        \/ /\ next.pc # "done"
           /\ txn' = [txn EXCEPT ![w] = [next EXCEPT !.pc = "work"]]
           /\ lock' = [lock EXCEPT ![t.msg] = w]
    BY <1>3 DEF LockRow
  <2> HIDE DEF next
  <2>5. next \in Writes => [next EXCEPT !.pc = "work"] \in Writes
    BY DEF Writes
  <2>6. next \in Ends => next.pc = "done"
    BY DEF Ends
  <2>7. \E u \in Transactions \ {Idle} : txn' = [txn EXCEPT ![w] = u]
    BY <1>1, <2>3, <2>4, <2>5, <2>6
  <2>8. lock' \in [Msgs -> Writers \cup {"nobody"}]
    BY <1>0, <2>2, <2>4 DEF StoreOK
  <2>9. StoreOK'
    BY <1>0, <1>3, <2>8 DEF StoreOK, LockRow
  <2> QED
    BY <1>1, <1>3, <2>1, <2>7, <2>9 DEF LockRow
<1>4. ASSUME NEW route \in AllRoutes, Commit(w, route)
      PROVE  /\ StoreOK' /\ txn[w] # Idle
             /\ \E u \in Transactions \ {Idle} : txn' = [txn EXCEPT ![w] = u]
  <2>1. t \in Writes /\ t.pc = "work" /\ t.msg \in Msgs
    BY <1>0, <1>4, TransactionKinds DEF Commit, Writes
  <2>2. db[t.msg] \in Rows \cup {NoRow}
    BY <2>1, <1>0 DEF StoreOK
  <2> DEFINE r == Written(IF Present(db[t.msg]) THEN db[t.msg] ELSE Upsert(db[t.msg], t.content), t, route)
             u == Ended(t, IF route = "TECHNICAL_FAILURE" THEN "FAILED" ELSE "CLASSIFIED")
  <2>3. r \in Rows /\ u \in Ends
    BY <2>1, <2>2, WrittenFacts, EndedFacts DEF Outcomes
  <2>4. /\ db' = [db EXCEPT ![t.msg] = r] /\ txn' = [txn EXCEPT ![w] = u]
        /\ processed' = processed \/ processed' = [processed EXCEPT ![t.msg] = @ + 1]
        /\ lock' = [lock EXCEPT ![t.msg] = "nobody"]
        /\ FaultAllowed \/ UNCHANGED faults
        /\ UNCHANGED <<source, changes, runs>>
    BY <1>4 DEF Commit, Release
  <2> HIDE DEF r, u
  <2>5. db' \in [Msgs -> Rows \cup {NoRow}]
    BY <1>0, <2>1, <2>3, <2>4 DEF StoreOK
  <2>6. processed' \in [Msgs -> Nat]
    BY <1>0, <2>1, <2>4 DEF StoreOK
  <2>7. lock' \in [Msgs -> Writers \cup {"nobody"}]
    BY <1>0, <2>1, <2>4 DEF StoreOK
  <2>8. StoreOK'
    BY <1>0, <2>4, <2>5, <2>6, <2>7, FaultSpent DEF StoreOK
  <2> QED
    BY <1>1, <2>1, <2>3, <2>4, <2>8
<1>5. CASE Retry(w) \/ Raise(w) \/ CommitRaises(w)
  <2>1. t \in Writes /\ t.pc = "work" /\ t.msg \in Msgs
    BY <1>0, <1>5, TransactionKinds DEF Retry, Raise, CommitRaises, Writes
  <2>2. /\ lock' = [lock EXCEPT ![t.msg] = "nobody"] /\ FaultAllowed
        /\ UNCHANGED <<source, changes, runs, db, processed>>
    BY <1>5 DEF Retry, Raise, CommitRaises, Release
  <2>3. lock' \in [Msgs -> Writers \cup {"nobody"}]
    BY <1>0, <2>1, <2>2 DEF StoreOK
  <2>4. StoreOK'
    BY <1>0, <2>2, <2>3, FaultSpent DEF StoreOK
  <2>5. CASE Retry(w)
    <3>1. t.attempt + 1 \in 1..RetryMax /\ t.content \in Contents /\ t.force \in BOOLEAN
      BY <2>1, <2>5, Constants DEF Retry, Writes
    <3>2. [Started(t.msg, t.content, t.force) EXCEPT !.attempt = t.attempt + 1] \in Reads
      BY <2>1, <3>1, StartedFacts
    <3> QED
      BY <1>1, <2>1, <2>4, <2>5, <3>2 DEF Retry
  <2>6. CASE Raise(w)
    <3>1. [t EXCEPT !.pc = "record"] \in Writes
      BY <2>1 DEF Writes
    <3> QED
      BY <1>1, <2>1, <2>4, <2>6, <3>1 DEF Raise
  <2>7. CASE CommitRaises(w)
    <3>1. Ended(t, "UNHANDLED") \in Ends
      BY <2>1, EndedFacts DEF Outcomes
    <3> QED
      BY <1>1, <2>1, <2>4, <2>7, <3>1 DEF CommitRaises
  <2> QED
    BY <1>5, <2>5, <2>6, <2>7
<1>6. ASSUME NEW recorded \in BOOLEAN, Record(w, recorded)
      PROVE  /\ StoreOK' /\ txn[w] # Idle
             /\ \E u \in Transactions \ {Idle} : txn' = [txn EXCEPT ![w] = u]
  <2>1. t \in Writes /\ t.pc = "record" /\ t.msg \in Msgs /\ t.content \in Contents
    BY <1>0, <1>6, TransactionKinds DEF Record, Writes
  <2>2. RecordFailure(db[t.msg], t.content) \in Rows /\ Ended(t, "FAILED") \in Ends
    BY <1>0, <2>1, FailureFacts, EndedFacts DEF StoreOK, Outcomes
  <2>3. db' = db \/ db' = [db EXCEPT ![t.msg] = RecordFailure(db[t.msg], t.content)]
    BY <1>6 DEF Record
  <2>4. db' \in [Msgs -> Rows \cup {NoRow}]
    BY <1>0, <2>1, <2>2, <2>3 DEF StoreOK
  <2>5. StoreOK'
    BY <1>0, <1>6, <2>4 DEF StoreOK, Record
  <2> QED
    BY <1>1, <1>6, <2>1, <2>2, <2>5 DEF Record
<1>7. UNCHANGED <<source, pollPc, snapshot, todo, stop, syncPc, listed, backlog, forced,
                 report, broken, runs>>
  BY DEF Transaction, ReadRow, LockRow, Commit, Retry, Raise, CommitRaises, Record
<1> QED
  BY <1>2, <1>3, <1>4, <1>5, <1>6, <1>7 DEF Transaction

(* A slot of the backlog run is given the next message, or stays free. *)
LEMMA SubmitFacts ==
  ASSUME TypeOK, NEW w \in Writers, NEW freed \in [Writers -> Transactions],
         freed[w] = Idle, Submit(w, freed)
  PROVE  /\ \/ \E m \in backlog, t \in Transactions \ {Idle} :
                 /\ txn' = [freed EXCEPT ![w] = t] /\ backlog' = backlog \ {m}
                 /\ broken' = broken
            \/ txn' = freed /\ backlog # {} /\ backlog' = {} /\ broken' = TRUE
            \/ txn' = freed /\ backlog = {} /\ backlog' = {} /\ broken' = broken
         /\ FaultAllowed \/ UNCHANGED faults
<1>1. CASE /\ backlog # {}
           /\ txn' = [freed EXCEPT ![w] = Started(First(backlog), source[First(backlog)], forced)]
           /\ backlog' = backlog \ {First(backlog)}
           /\ UNCHANGED <<broken, faults>>
  <2>1. First(backlog) \in backlog /\ First(backlog) \in Msgs /\ source[First(backlog)] \in Contents
    BY <1>1, FirstFact, ServedFacts DEF TypeOK
  <2>2. Started(First(backlog), source[First(backlog)], forced) \in Reads
    BY <2>1, StartedFacts DEF TypeOK
  <2>3. Started(First(backlog), source[First(backlog)], forced) \in Transactions \ {Idle}
    BY <2>2 DEF Transactions, Reads, Idle
  <2> QED
    BY <1>1, <2>1, <2>3
<1> QED
  BY <1>1 DEF Submit

LEMMA StepCoreOK ==
  ASSUME TypeOK, BacklogInv, [Next]_vars
  PROVE  CoreOK'
<1>0. /\ StoreOK /\ RunsOK
      /\ faults \in 0..MaxFaults /\ txn \in [Writers -> Transactions]
      /\ Idle \in Transactions
      /\ Served \subseteq Msgs
  BY CoreOfType, ServedFacts DEF TypeOK, CoreOK, Transactions
<1> USE DEF sourceVars, pollVars, syncVars
<1>1. CASE UNCHANGED vars
  BY <1>0, <1>1, ServedKept DEF vars, CoreOK, StoreOK, RunsOK
<1>2. ASSUME NEW m \in Msgs, NEW c \in Contents, SourceChanges(m, c)
      PROVE  CoreOK'
  <2>1. source' \in [Msgs -> Contents \cup {NoContent}] /\ changes' \in 0..MaxChanges
    BY <1>0, <1>2, Constants DEF SourceChanges, StoreOK
  <2>2. Served \subseteq Served'
    BY <1>0, <1>2, NoContentAssumption DEF SourceChanges, Served, StoreOK
  <2>3. StoreOK'
    BY <1>0, <1>2, <2>1 DEF SourceChanges, StoreOK
  <2>4. RunsOK'
    BY <1>0, <1>2, <2>2 DEF SourceChanges, RunsOK
  <2> QED
    BY <2>3, <2>4 DEF CoreOK
<1>3. ASSUME NEW w \in Writers, Transaction(w)
      PROVE  CoreOK'
  <2>1. /\ StoreOK'
        /\ UNCHANGED <<source, pollPc, snapshot, todo, stop, syncPc, listed, backlog, forced,
                       report, broken, runs>>
    BY <1>3, TransactionOK
  <2>2. txn' \in [Writers -> Transactions]
    BY <1>0, <1>3, TransactionOK
  <2>3. RunsOK'
    BY <1>0, <2>1, <2>2, ServedKept DEF RunsOK
  <2> QED
    BY <2>1, <2>3 DEF CoreOK
<1>4. CASE BeginCycle
  <2>1. [m \in Msgs |-> Seen(db[m])] \in [Msgs -> Snapshots]
    BY <1>0, SeenFacts DEF StoreOK
  <2>2. StoreOK' /\ Served' = Served
    BY <1>0, <1>4, ServedKept DEF BeginCycle, StoreOK
  <2>3. snapshot' \in [Msgs -> Snapshots] /\ todo' \subseteq Served
    BY <1>0, <1>4, <2>1 DEF BeginCycle, RunsOK
  <2>4. RunsOK'
    BY <1>0, <1>4, <2>2, <2>3 DEF BeginCycle, RunsOK
  <2> QED
    BY <2>2, <2>4 DEF CoreOK
<1>5. CASE Visit
  <2>1. First(todo) \in Msgs /\ source[First(todo)] \in Contents
    BY <1>0, <1>5, FirstFact, ServedFacts DEF Visit, RunsOK
  <2>2. Started(First(todo), source[First(todo)], FALSE) \in Transactions
    BY <2>1, StartedFacts DEF Transactions
  <2>3. StoreOK' /\ Served' = Served
    BY <1>0, <1>5, ServedKept DEF Visit, StoreOK
  <2>4. txn' \in [Writers -> Transactions] /\ todo' \subseteq todo
    BY <1>0, <1>5, <2>2, Constants DEF Visit
  <2>5. RunsOK'
    BY <1>0, <1>5, <2>3, <2>4 DEF Visit, RunsOK
  <2> QED
    BY <2>3, <2>5 DEF CoreOK
<1>6. CASE Visited
  <2>1. txn["poller"] \in Ends
    BY <1>0, <1>6, TransactionKinds, Constants DEF Visited
  <2>2. txn["poller"].msg \in Msgs
        /\ [content |-> txn["poller"].content, status |-> "COMPLETED"] \in Snapshots
    BY <2>1 DEF Ends, Snapshots, Statuses
  <2>3. StoreOK' /\ Served' = Served
    BY <1>0, <1>6, ServedKept DEF Visited, StoreOK
  <2>4. txn' \in [Writers -> Transactions]
    BY <1>0, <1>6 DEF Visited
  <2>5. snapshot' \in [Msgs -> Snapshots]
    BY <1>0, <1>6, <2>2 DEF Visited, RunsOK
  <2>6. RunsOK'
    BY <1>0, <1>6, <2>3, <2>4, <2>5 DEF Visited, RunsOK
  <2> QED
    BY <2>3, <2>6 DEF CoreOK
<1>7. CASE CycleSucceeds \/ CycleFails \/ Wakes \/ Stop
  <2>1. /\ UNCHANGED <<source, changes, db, lock, processed, runs, syncPc, listed, backlog, forced,
                       report, broken>>
        /\ FaultAllowed \/ UNCHANGED faults
        /\ txn' = txn \/ txn' = [txn EXCEPT !["poller"] = Idle]
        /\ snapshot' = snapshot \/ snapshot' = NoSnapshot
        /\ pollPc' \in {pollPc, "sleep", "check"} /\ todo' \in {todo, {}}
        /\ stop' = stop \/ stop' = TRUE
    BY <1>7 DEF CycleSucceeds, CycleFails, Wakes, Stop
  <2>2. StoreOK' /\ Served' = Served
    BY <1>0, <2>1, FaultSpent, ServedKept DEF StoreOK
  <2>3. txn' \in [Writers -> Transactions]
    BY <1>0, <2>1
  <2>4. snapshot' \in [Msgs -> Snapshots]
    BY <1>0, <2>1, NoSnapshotFact DEF RunsOK
  <2>5. RunsOK'
    BY <1>0, <2>1, <2>2, <2>3, <2>4 DEF RunsOK
  <2> QED
    BY <2>2, <2>5 DEF CoreOK
<1>8. ASSUME NEW f \in BOOLEAN, SyncStarts(f)
      PROVE  CoreOK'
  <2>1. /\ UNCHANGED <<source, changes, db, lock, processed, faults, txn, pollPc, snapshot, todo,
                       stop>>
        /\ runs < MaxRuns /\ runs' = runs + 1
        /\ forced' = f /\ listed' = Served /\ backlog' = Served /\ report' = NoOutcomes
        /\ broken' = FALSE /\ syncPc' = "fill"
    BY <1>8 DEF SyncStarts
  <2>2. runs' \in 0..MaxRuns
    BY <1>0, <2>1, Constants DEF StoreOK
  <2>3. StoreOK'
    BY <1>0, <2>1, <2>2 DEF StoreOK
  <2>4. Served' = Served
    BY <2>1, ServedKept
  <2>5. RunsOK'
    BY <1>0, <2>1, <2>4, NoOutcomesFact DEF RunsOK
  <2> QED
    BY <2>3, <2>5 DEF CoreOK
<1>9. CASE Filled \/ SyncReturns
  <2>1. /\ UNCHANGED <<source, changes, db, lock, processed, faults, txn, pollPc, snapshot, todo,
                       stop, listed, backlog, forced, report, broken, runs>>
        /\ syncPc' \in {"wait", "returned"}
    BY <1>9 DEF Filled, SyncReturns
  <2>2. Served' = Served
    BY <2>1, ServedKept
  <2> QED
    BY <1>0, <2>1, <2>2 DEF CoreOK, StoreOK, RunsOK
<1>10. CASE SyncEnds
  <2>1. Served' = Served
    BY <1>10, ServedKept DEF SyncEnds
  <2>2. backlog = {}
    BY <1>10 DEF BacklogInv, SyncEnds
  <2> QED
    BY <1>0, <1>10, <2>1, <2>2, NoOutcomesFact DEF SyncEnds, CoreOK, StoreOK, RunsOK
<1>11. ASSUME NEW w \in Workers, Fill(w) \/ Collect(w)
       PROVE  CoreOK'
  <2> DEFINE freed == IF Fill(w) THEN txn ELSE [txn EXCEPT ![w] = Idle]
  <2>1. w \in Writers /\ freed \in [Writers -> Transactions] /\ freed[w] = Idle /\ Submit(w, freed)
    BY <1>0, <1>11, Constants DEF Fill, Collect
  <2>2. /\ txn' = freed \/ \E t \in Transactions : txn' = [freed EXCEPT ![w] = t]
        /\ backlog' \subseteq backlog /\ broken' \in {broken, TRUE}
        /\ FaultAllowed \/ UNCHANGED faults
    BY <2>1, SubmitFacts
  <2>3. /\ UNCHANGED <<source, changes, db, lock, processed, pollPc, snapshot, todo, stop, syncPc,
                       listed, forced, runs>>
        /\ report' = report \/ \E o \in Outcomes : report' = [report EXCEPT ![o] = @ + 1]
    <3>1. Collect(w) => txn[w] \in Ends
      BY <1>0, <2>1, TransactionKinds DEF Collect
    <3>2. Collect(w) => txn[w].outcome \in Outcomes
      BY <3>1 DEF Ends
    <3> QED
      BY <1>11, <3>2 DEF Fill, Collect
  <2> HIDE DEF freed
  <2>4. txn' \in [Writers -> Transactions]
    BY <2>1, <2>2
  <2>5. report' \in [Outcomes -> Nat]
    BY <1>0, <2>3 DEF RunsOK
  <2>6. StoreOK' /\ Served' = Served
    BY <1>0, <2>2, <2>3, FaultSpent, ServedKept DEF StoreOK
  <2>7. RunsOK'
    BY <1>0, <2>2, <2>3, <2>4, <2>5, <2>6 DEF RunsOK
  <2> QED
    BY <2>6, <2>7 DEF CoreOK
<1>12. ASSUME NEW m \in Msgs, Reprocess(m)
       PROVE  CoreOK'
  <2>1. db[m] \in Rows
    BY <1>0, <1>12, RowFacts DEF Reprocess, StoreOK, Present
  <2>2. db[m].content \in Contents
    BY <2>1 DEF Rows
  <2>3. Started(m, db[m].content, TRUE) \in Transactions
    BY <2>2, StartedFacts DEF Transactions
  <2>4. txn' \in [Writers -> Transactions]
    BY <1>0, <1>12, <2>3 DEF Reprocess
  <2> QED
    BY <1>0, <1>12, <2>4, ServedKept DEF Reprocess, CoreOK, StoreOK, RunsOK
<1>13. CASE ReprocessEnds
  <2>1. txn' \in [Writers -> Transactions]
    BY <1>0, <1>13 DEF ReprocessEnds
  <2> QED
    BY <1>0, <1>13, <2>1, ServedKept DEF ReprocessEnds, CoreOK, StoreOK, RunsOK
<1>14. CASE Restart
  <2>1. /\ txn' \in [Writers -> Transactions] /\ lock' \in [Msgs -> Writers \cup {"nobody"}]
        /\ snapshot' \in [Msgs -> Snapshots] /\ report' \in [Outcomes -> Nat]
    BY <1>0, <1>14, NoSnapshotFact, NoOutcomesFact DEF Restart
  <2>2. StoreOK'
    BY <1>0, <1>14, <2>1, FaultSpent DEF Restart, StoreOK
  <2>3. RunsOK'
    BY <1>14, <2>1 DEF Restart, RunsOK
  <2> QED
    BY <2>2, <2>3 DEF CoreOK
<1> QED
  BY <1>1, <1>2, <1>3, <1>4, <1>5, <1>6, <1>7, <1>8, <1>9, <1>10, <1>11, <1>12, <1>13, <1>14
     DEF Next, Poller, SyncRun
----------------------------------------------------------------------------
(* The backlog *)

LEMMA BusyFacts ==
  ASSUME TypeOK
  PROVE  /\ IsFiniteSet(Busy) /\ Cardinality(Busy) \in Nat
         /\ IsFiniteSet(backlog) /\ Cardinality(backlog) \in Nat
         /\ IsFiniteSet(listed) /\ Cardinality(listed) \in Nat
         /\ Recorded \in Nat
<1>1. Busy \in SUBSET Workers /\ backlog \in SUBSET Msgs /\ listed \in SUBSET Msgs
  BY DEF Busy, TypeOK
<1>2. IsFiniteSet(Busy) /\ IsFiniteSet(backlog) /\ IsFiniteSet(listed)
  BY <1>1, Constants, FS_Subset
<1>3. report \in [Outcomes -> Nat]
  BY CoreOfType DEF CoreOK, RunsOK
<1>4. Recorded \in Nat
  BY <1>3 DEF Recorded, Outcomes
<1> QED
  BY <1>2, <1>4, FS_CardinalityType

(* Steps that neither take from the backlog nor start or free a worker. *)
LEMMA BacklogAside ==
  ASSUME BacklogInv, UNCHANGED syncVars, Busy' = Busy
  PROVE  BacklogInv'
BY DEF BacklogInv, Accounted, Recorded, syncVars

LEMMA StepBacklogInv ==
  ASSUME TypeOK, BacklogInv, [Next]_vars
  PROVE  BacklogInv'
<1>0. /\ txn \in [Writers -> Transactions] /\ Workers \subseteq Writers
      /\ "poller" \notin Workers /\ "reprocess" \notin Workers
      /\ report \in [Outcomes -> Nat]
  BY Constants, CoreOfType DEF TypeOK, CoreOK, RunsOK
<1>1. ASSUME \/ UNCHANGED vars \/ Poller \/ Stop \/ ReprocessEnds
             \/ \E m \in Msgs, c \in Contents : SourceChanges(m, c)
             \/ \E m \in Msgs : Reprocess(m)
      PROVE  BacklogInv'
  <2>1. UNCHANGED syncVars
    BY <1>1 DEF vars, Poller, BeginCycle, Visit, Visited, CycleSucceeds, CycleFails, Wakes, Stop,
                ReprocessEnds, SourceChanges, Reprocess
  <2>2. \A w \in Workers : txn'[w] = txn[w]
    BY <1>0, <1>1 DEF vars, Poller, BeginCycle, Visit, Visited, CycleSucceeds, CycleFails, Wakes,
                      Stop, ReprocessEnds, SourceChanges, Reprocess
  <2>3. Busy' = Busy
    BY <2>2 DEF Busy
  <2> QED
    BY <2>1, <2>3, BacklogAside
<1>2. ASSUME NEW w \in Writers, Transaction(w)
      PROVE  BacklogInv'
  <2>1. PICK t \in Transactions \ {Idle} : txn' = [txn EXCEPT ![w] = t]
    BY <1>2, TransactionOK
  <2>2. txn[w] # Idle /\ UNCHANGED syncVars
    BY <1>2, TransactionOK DEF syncVars
  <2>3. \A v \in Workers : txn'[v] # Idle <=> txn[v] # Idle
    BY <1>0, <2>1, <2>2
  <2>4. Busy' = Busy
    BY <2>3 DEF Busy
  <2> QED
    BY <2>2, <2>4, BacklogAside
<1>3. ASSUME NEW f \in BOOLEAN, SyncStarts(f)
      PROVE  BacklogInv'
  <2>1. /\ UNCHANGED txn /\ Busy = {} /\ listed' = backlog' /\ report' = NoOutcomes
        /\ syncPc' = "fill"
    BY <1>3 DEF SyncStarts, BacklogInv
  <2>2. Busy' = {} /\ Recorded' = 0
    BY <2>1, NoOutcomesFact DEF Busy, Recorded, Outcomes
  <2>3. Served' \in SUBSET Msgs /\ listed' = Served'
    BY <1>3, ServedFacts, ServedKept DEF SyncStarts, sourceVars
  <2>4. Cardinality(listed') \in Nat
    BY <2>3, Constants, FS_Subset, FS_CardinalityType
  <2>5. Accounted' = Cardinality(listed')
    BY <2>1, <2>2, <2>4, FS_EmptySet DEF Accounted
  <2> QED
    BY <2>1, <2>4, <2>5 DEF BacklogInv
<1>4. ASSUME NEW w \in Workers, Fill(w)
      PROVE  BacklogInv'
  <2>1. /\ txn[w] = Idle /\ Submit(w, txn) /\ backlog # {}
        /\ UNCHANGED <<syncPc, listed, report>> /\ syncPc = "fill"
    BY <1>4 DEF Fill
  <2>2. Recorded' = Recorded
    BY <2>1 DEF Recorded
  <2>3. CASE txn' = txn /\ backlog' = {} /\ broken' = TRUE
    <3>1. Busy' = Busy /\ Cardinality(backlog') = 0
      BY <2>3, FS_EmptySet DEF Busy
    <3>2. Accounted' <= Accounted
      BY <2>2, <3>1, BusyFacts DEF Accounted
    <3>3. Accounted' \in Nat /\ Accounted \in Nat
      BY <2>2, <3>1, BusyFacts DEF Accounted
    <3> QED
      BY <2>1, <2>3, <3>2, <3>3, BusyFacts DEF BacklogInv
  <2>4. ASSUME NEW m \in backlog, NEW t \in Transactions \ {Idle}, txn' = [txn EXCEPT ![w] = t],
               backlog' = backlog \ {m}, broken' = broken
        PROVE  BacklogInv'
    <3>1. Busy' = Busy \cup {w} /\ w \notin Busy
      BY <1>0, <2>1, <2>4 DEF Busy
    <3>2. Cardinality(Busy') = Cardinality(Busy) + 1
      BY <3>1, BusyFacts, FS_AddElement
    <3>3. Cardinality(backlog') = Cardinality(backlog) - 1
      BY <2>4, BusyFacts, FS_RemoveElement
    <3>4. Accounted' = Accounted
      BY <2>2, <3>2, <3>3, BusyFacts DEF Accounted
    <3> QED
      BY <2>1, <2>4, <3>4 DEF BacklogInv
  <2> QED
    BY <1>0, <2>1, <2>3, <2>4, SubmitFacts
<1>5. ASSUME NEW w \in Workers, Collect(w)
      PROVE  BacklogInv'
  <2> DEFINE freed == [txn EXCEPT ![w] = Idle]
  <2>1. /\ txn[w] \in Ends /\ txn[w] # Idle /\ freed \in [Writers -> Transactions]
        /\ freed[w] = Idle /\ Submit(w, freed) /\ syncPc = "wait"
        /\ UNCHANGED <<syncPc, listed>>
    BY <1>0, <1>5, TransactionKinds DEF Collect, Transactions, Idle
  <2>2. PICK o \in Outcomes : report' = [report EXCEPT ![o] = @ + 1]
    BY <1>5, <2>1 DEF Collect, Ends
  <2>3. Recorded' = Recorded + 1
    BY <1>0, <2>2 DEF Recorded, Outcomes
  <2>4. w \in Busy
    BY <2>1 DEF Busy
  <2>5. CASE /\ txn' = freed /\ backlog' = {}
             /\ broken' = TRUE \/ (broken' = broken /\ backlog = {})
    <3>1. Busy' = Busy \ {w}
      BY <1>0, <2>1, <2>5 DEF Busy
    <3>2. Cardinality(Busy') = Cardinality(Busy) - 1 /\ Cardinality(Busy') \in Nat
      BY <2>4, <3>1, BusyFacts, FS_RemoveElement, FS_CardinalityType
    <3>3. Cardinality(backlog') = 0 /\ (backlog = {} => Cardinality(backlog) = 0)
      BY <2>5, FS_EmptySet
    <3>4. /\ Accounted' <= Accounted /\ Accounted' \in Nat /\ Accounted \in Nat
          /\ backlog = {} => Accounted' = Accounted
      BY <2>3, <3>2, <3>3, BusyFacts DEF Accounted
    <3> QED
      BY <2>1, <2>5, <3>4, BusyFacts DEF BacklogInv
  <2>6. ASSUME NEW m \in backlog, NEW t \in Transactions \ {Idle}, txn' = [freed EXCEPT ![w] = t],
               backlog' = backlog \ {m}, broken' = broken
        PROVE  BacklogInv'
    <3>1. Busy' = Busy
      BY <1>0, <2>1, <2>4, <2>6 DEF Busy
    <3>2. Cardinality(backlog') = Cardinality(backlog) - 1
      BY <2>6, BusyFacts, FS_RemoveElement
    <3>3. Accounted' = Accounted
      BY <2>3, <3>1, <3>2, BusyFacts DEF Accounted
    <3> QED
      BY <2>1, <2>6, <3>1, <3>3 DEF BacklogInv
  <2> HIDE DEF freed
  <2> QED
    BY <2>1, <2>5, <2>6, <1>0, SubmitFacts
<1>6. CASE Filled
  <2>1. /\ UNCHANGED <<txn, listed, backlog, report, broken>> /\ syncPc' = "wait"
        /\ backlog = {} \/ \A w \in Workers : txn[w] # Idle
    BY <1>6 DEF Filled
  <2>2. Busy' = Busy /\ (backlog # {} => Busy = Workers)
    BY <2>1 DEF Busy
  <2> QED
    BY <2>1, <2>2 DEF BacklogInv, Accounted, Recorded
<1>7. CASE SyncReturns
  <2>1. /\ UNCHANGED <<txn, listed, backlog, report, broken>> /\ syncPc' = "returned"
        /\ \A w \in Workers : txn[w] = Idle /\ syncPc = "wait"
    BY <1>7 DEF SyncReturns
  <2>2. Busy' = Busy /\ Busy = {} /\ backlog = {}
    BY <1>7, <2>1, Constants DEF Busy, BacklogInv, SyncReturns
  <2> QED
    BY <2>1, <2>2 DEF BacklogInv, Accounted, Recorded
<1>8. ASSUME SyncEnds \/ Restart
      PROVE  BacklogInv'
  <2>1. /\ Busy' = {} /\ backlog' = {}
        /\ syncPc' = "idle" /\ report' = NoOutcomes /\ listed' = {} /\ broken' = FALSE
    BY <1>0, <1>8 DEF SyncEnds, Restart, BacklogInv, Busy
  <2>2. Recorded' = 0
    BY <2>1, NoOutcomesFact DEF Recorded, Outcomes
  <2>3. Accounted' = 0 /\ Cardinality(listed') = 0
    BY <2>1, <2>2, FS_EmptySet DEF Accounted
  <2> QED
    BY <2>1, <2>3 DEF BacklogInv
<1> QED
  BY <1>1, <1>2, <1>3, <1>4, <1>5, <1>6, <1>7, <1>8 DEF Next, SyncRun
----------------------------------------------------------------------------
(* New messages *)

(* Steps that write no row and leave the transactions that write alone. *)
LEMMA OnceAside ==
  ASSUME TypeOK, OnceInv, UNCHANGED <<db, lock, processed>>,
         \A w \in Writers : txn'[w] = txn[w] \/ txn'[w].pc # "work"
  PROVE  OnceInv'
BY DEF OnceInv

(* The row of a transaction that holds it is not written by another one. *)
LEMMA RowHeld ==
  ASSUME TypeOK, OnceInv, NEW w \in Writers, NEW v \in Writers \ {w},
         txn[v].pc = "work",
         lock[txn[w].msg] \in {"nobody", w}
  PROVE  txn[v].msg # txn[w].msg
BY Constants DEF OnceInv

LEMMA StepOnceInv ==
  ASSUME TypeOK, OnceInv, [Next]_vars
  PROVE  OnceInv'
<1>0. /\ txn \in [Writers -> Transactions] /\ db \in [Msgs -> Rows \cup {NoRow}]
      /\ lock \in [Msgs -> Writers \cup {"nobody"}] /\ processed \in [Msgs -> Nat]
      /\ "poller" \in Writers /\ "reprocess" \in Writers /\ Workers \subseteq Writers
      /\ Idle.pc = "idle" /\ (\A m, c, f : Started(m, c, f).pc = "read")
      /\ (\A t, o : Ended(t, o).pc = "done")
  BY Constants DEF TypeOK, Idle, Started, Ended
<1>1. ASSUME \/ UNCHANGED vars \/ Poller \/ Stop \/ ReprocessEnds \/ Filled \/ SyncReturns \/ SyncEnds
             \/ \E m \in Msgs, c \in Contents : SourceChanges(m, c)
             \/ \E m \in Msgs : Reprocess(m)
             \/ \E f \in BOOLEAN : SyncStarts(f)
      PROVE  OnceInv'
  <2>1. UNCHANGED <<db, lock, processed>>
    BY <1>1 DEF vars, Poller, BeginCycle, Visit, Visited, CycleSucceeds, CycleFails, Wakes, Stop,
                ReprocessEnds, SourceChanges, Reprocess, Filled, SyncReturns, SyncEnds, SyncStarts
  <2>2. \/ UNCHANGED txn
        \/ \E w \in Writers : txn' = [txn EXCEPT ![w] = Idle]
        \/ \E w \in Writers : \E m, c, f : txn' = [txn EXCEPT ![w] = Started(m, c, f)]
    <3>1. ASSUME Visit, ~UNCHANGED txn
          PROVE  \E w \in Writers : \E m, c, f : txn' = [txn EXCEPT ![w] = Started(m, c, f)]
      <4>1. txn' = [txn EXCEPT !["poller"] = Started(First(todo), source[First(todo)], FALSE)]
        BY <3>1 DEF Visit
      <4> QED
        BY <1>0, <4>1
    <3>2. ASSUME NEW m \in Msgs, Reprocess(m)
          PROVE  \E w \in Writers : \E n, c, f : txn' = [txn EXCEPT ![w] = Started(n, c, f)]
      BY <1>0, <3>2 DEF Reprocess
    <3> QED
      BY <1>0, <1>1, <3>1, <3>2
         DEF vars, Poller, BeginCycle, Visited, CycleSucceeds, CycleFails, Wakes, Stop,
             ReprocessEnds, SourceChanges, Filled, SyncReturns, SyncEnds, SyncStarts
  <2>3. \A w \in Writers : txn'[w] = txn[w] \/ txn'[w].pc # "work"
    BY <1>0, <2>2
  <2> QED
    BY <2>1, <2>3, OnceAside
<1>2. ASSUME NEW w \in Workers, Fill(w) \/ Collect(w)
      PROVE  OnceInv'
  <2>1. UNCHANGED <<db, lock, processed>>
    BY <1>2 DEF Fill, Collect
  <2> DEFINE freed == IF Fill(w) THEN txn ELSE [txn EXCEPT ![w] = Idle]
  <2>2. Submit(w, freed) /\ freed \in [Writers -> Transactions]
    BY <1>0, <1>2 DEF Fill, Collect, Transactions
  <2>3. freed[w].pc # "work" /\ \A v \in Writers \ {w} : freed[v] = txn[v]
    BY <1>0, <1>2 DEF Fill, Collect
  <2> HIDE DEF freed
  <2>4. \/ txn' = freed
        \/ txn' = [freed EXCEPT ![w] = Started(First(backlog), source[First(backlog)], forced)]
    BY <2>2 DEF Submit
  <2>5. \A v \in Writers : txn'[v] = txn[v] \/ txn'[v].pc # "work"
    BY <1>0, <2>2, <2>3, <2>4
  <2> QED
    BY <2>1, <2>5, OnceAside
<1>3. CASE Restart
  BY <1>0, <1>3 DEF Restart, OnceInv
<1>4. ASSUME NEW w \in Writers, ReadRow(w)
      PROVE  OnceInv'
  <2>1. /\ UNCHANGED <<db, lock, processed>> /\ txn[w] \in Reads /\ txn[w].msg \in Msgs
        /\ txn' = [txn EXCEPT ![w] = Reading(txn[w], db[txn[w].msg])]
    BY <1>0, <1>4, TransactionKinds DEF ReadRow, Reads
  <2>2. Reading(txn[w], db[txn[w].msg]).pc # "work"
    BY <1>0, <2>1, ReadingFacts DEF Ends
  <2> QED
    BY <1>0, <2>1, <2>2, OnceAside
<1>5. ASSUME NEW w \in Writers, LockRow(w)
      PROVE  OnceInv'
  <2> DEFINE t == txn[w]
             next == IF Duplicate(t) THEN Reading(t, db[t.msg]) ELSE t
  <2>1. /\ t \in Writes /\ t.pc = "lock" /\ t.msg \in Msgs /\ lock[t.msg] = "nobody"
        /\ UNCHANGED <<db, processed>>
        /\ \/ next.pc = "done" /\ txn' = [txn EXCEPT ![w] = next] /\ UNCHANGED lock
           \/ /\ next.pc # "done"
              /\ txn' = [txn EXCEPT ![w] = [next EXCEPT !.pc = "work"]]
              /\ lock' = [lock EXCEPT ![t.msg] = w]
    BY <1>0, <1>5, TransactionKinds DEF LockRow, Writes
  <2>2. db[t.msg] \in Rows \cup {NoRow}
    BY <1>0, <2>1
  <2>3. next.pc # "done" =>
          next \in Writes /\ next.msg = t.msg /\ (~next.known => ~Present(db[t.msg]))
    BY <2>1, <2>2, ReadingFacts DEF Duplicate, Ends
  <2> HIDE DEF next
  <2>4. CASE next.pc = "done"
    BY <1>0, <2>1, <2>4, OnceAside
  <2>5. CASE next.pc # "done"
    <3> DEFINE held == [next EXCEPT !.pc = "work"]
    <3>1. held.pc = "work" /\ held.msg = t.msg /\ held.known = next.known
      BY <2>3, <2>5 DEF Writes
    <3>2. txn' = [txn EXCEPT ![w] = held] /\ lock' = [lock EXCEPT ![t.msg] = w]
      BY <2>1, <2>5
    <3> HIDE DEF held
    <3>3. txn'[w] = held /\ lock'[t.msg] = w
      BY <1>0, <2>1, <3>2
    <3>4. ASSUME NEW v \in Writers, txn'[v].pc = "work"
          PROVE  lock'[txn'[v].msg] = v /\ (~txn'[v].known => ~Present(db[txn'[v].msg]))
      <4>1. CASE v = w
        BY <2>3, <2>5, <3>1, <3>3, <4>1
      <4>2. CASE v # w
        <5>1. txn'[v] = txn[v]
          BY <1>0, <3>2, <4>2
        <5>2. txn[v].msg # t.msg
          BY <2>1, <3>4, <4>2, <5>1, RowHeld
        <5>3. lock'[txn[v].msg] = lock[txn[v].msg]
          BY <1>0, <3>2, <5>2
        <5> QED
          BY <3>4, <5>1, <5>3 DEF OnceInv
      <4> QED
        BY <4>1, <4>2
    <3> QED
      BY <2>1, <3>4 DEF OnceInv
  <2> QED
    BY <2>4, <2>5
<1>6. ASSUME NEW w \in Writers, NEW route \in AllRoutes, Commit(w, route)
      PROVE  OnceInv'
  <2> DEFINE t == txn[w]
             r == Written(IF Present(db[t.msg]) THEN db[t.msg] ELSE Upsert(db[t.msg], t.content), t, route)
  <2>1. t \in Writes /\ t.pc = "work" /\ t.msg \in Msgs /\ lock[t.msg] = w
    BY <1>0, <1>6, TransactionKinds DEF Commit, Writes, OnceInv
  <2>2. r \in Rows
    BY <1>0, <2>1, WrittenFacts
  <2>3. /\ db' = [db EXCEPT ![t.msg] = r] /\ lock' = [lock EXCEPT ![t.msg] = "nobody"]
        /\ txn' = [txn EXCEPT ![w] = Ended(t, IF route = "TECHNICAL_FAILURE" THEN "FAILED" ELSE "CLASSIFIED")]
        /\ \/ processed' = processed
           \/ ~t.known /\ processed' = [processed EXCEPT ![t.msg] = @ + 1]
    BY <1>6 DEF Commit, Release
  <2> HIDE DEF r
  <2>4. Present(db'[t.msg])
    BY <1>0, <2>1, <2>2, <2>3, PresentRow
  <2>5. ASSUME NEW v \in Writers, txn'[v].pc = "work"
        PROVE  lock'[txn'[v].msg] = v /\ (~txn'[v].known => ~Present(db'[txn'[v].msg]))
    <3>1. v # w /\ txn'[v] = txn[v]
      BY <1>0, <2>3, <2>5
    <3>2. txn[v].msg # t.msg /\ txn[v].msg \in Msgs
      BY <1>0, <2>1, <2>5, <3>1, RowHeld, TransactionKinds DEF Writes
    <3>3. lock'[txn[v].msg] = lock[txn[v].msg] /\ db'[txn[v].msg] = db[txn[v].msg]
      BY <1>0, <2>3, <3>2
    <3> QED
      BY <2>5, <3>1, <3>3 DEF OnceInv
  <2>6. ASSUME NEW m \in Msgs, processed'[m] # 0
        PROVE  processed'[m] = 1 /\ Present(db'[m])
    <3>1. CASE m = t.msg
      <4>1. ~t.known => processed[m] = 0
        BY <1>0, <2>1, <3>1 DEF OnceInv
      <4> QED
        BY <1>0, <2>3, <2>4, <2>6, <3>1, <4>1 DEF OnceInv
    <3>2. CASE m # t.msg
      BY <1>0, <2>1, <2>3, <2>6, <3>2 DEF OnceInv
    <3> QED
      BY <3>1, <3>2
  <2> QED
    BY <2>5, <2>6 DEF OnceInv
<1>7. ASSUME NEW w \in Writers, Retry(w) \/ Raise(w) \/ CommitRaises(w)
      PROVE  OnceInv'
  <2> DEFINE t == txn[w]
  <2>1. t \in Writes /\ t.msg \in Msgs /\ lock[t.msg] = w
    BY <1>0, <1>7, TransactionKinds DEF Retry, Raise, CommitRaises, Writes, OnceInv
  <2>2. lock' = [lock EXCEPT ![t.msg] = "nobody"] /\ UNCHANGED <<db, processed>>
    BY <1>7 DEF Retry, Raise, CommitRaises, Release
  <2>3. /\ \A v \in Writers \ {w} : txn'[v] = txn[v]
        /\ txn'[w].pc # "work"
    <3>1. CASE Retry(w)
      <4>1. [Started(t.msg, t.content, t.force) EXCEPT !.attempt = t.attempt + 1].pc = "read"
        BY DEF Started
      <4> QED
        BY <1>0, <3>1, <4>1 DEF Retry
    <3>2. CASE Raise(w)
      <4>1. [t EXCEPT !.pc = "record"].pc = "record"
        BY <2>1 DEF Writes
      <4> QED
        BY <1>0, <3>2, <4>1 DEF Raise
    <3>3. CASE CommitRaises(w)
      BY <1>0, <3>3 DEF CommitRaises
    <3> QED
      BY <1>7, <3>1, <3>2, <3>3
  <2>4. ASSUME NEW v \in Writers, txn'[v].pc = "work"
        PROVE  lock'[txn'[v].msg] = v /\ (~txn'[v].known => ~Present(db[txn'[v].msg]))
    <3>1. v # w /\ txn'[v] = txn[v]
      BY <2>3, <2>4
    <3>2. txn[v].msg # t.msg
      BY <2>1, <2>4, <3>1, RowHeld
    <3>3. lock'[txn[v].msg] = lock[txn[v].msg]
      BY <1>0, <2>2, <3>2
    <3> QED
      BY <2>4, <3>1, <3>3 DEF OnceInv
  <2> QED
    BY <2>2, <2>4 DEF OnceInv
<1>8. ASSUME NEW w \in Writers, NEW recorded \in BOOLEAN, Record(w, recorded)
      PROVE  OnceInv'
  <2> DEFINE t == txn[w]
             r == RecordFailure(db[t.msg], t.content)
  <2>1. /\ t \in Writes /\ t.msg \in Msgs /\ t.content \in Contents /\ lock[t.msg] = "nobody"
        /\ db[t.msg] \in Rows \cup {NoRow}
    BY <1>0, <1>8, TransactionKinds DEF Record, Writes
  <2>2. r \in Rows
    BY <2>1, FailureFacts
  <2>3. /\ UNCHANGED <<lock, processed>> /\ txn' = [txn EXCEPT ![w] = Ended(t, "FAILED")]
        /\ db' = db \/ db' = [db EXCEPT ![t.msg] = r]
    BY <1>8 DEF Record
  <2> HIDE DEF r
  <2>4. \A m \in Msgs : Present(db[m]) => Present(db'[m])
    BY <1>0, <2>1, <2>2, <2>3, PresentRow
  <2>5. ASSUME NEW v \in Writers, txn'[v].pc = "work"
        PROVE  lock[txn'[v].msg] = v /\ (~txn'[v].known => ~Present(db'[txn'[v].msg]))
    <3>1. v # w /\ txn'[v] = txn[v]
      BY <1>0, <2>3, <2>5
    <3>2. txn[v].msg # t.msg /\ txn[v].msg \in Msgs
      BY <1>0, <2>1, <2>5, <3>1, RowHeld, TransactionKinds DEF Writes
    <3>3. db'[txn[v].msg] = db[txn[v].msg]
      BY <1>0, <2>3, <3>2
    <3> QED
      BY <2>5, <3>1, <3>3 DEF OnceInv
  <2> QED
    BY <2>3, <2>4, <2>5 DEF OnceInv
<1> QED
  BY <1>1, <1>2, <1>3, <1>4, <1>5, <1>6, <1>7, <1>8 DEF Next, SyncRun, Transaction
----------------------------------------------------------------------------
(* Theorems *)

(* The report never counts more outcomes than the listing has messages. *)
LEMMA TypeOfCore ==
  ASSUME CoreOK', BacklogInv'
  PROVE  TypeOK'
<1>1. /\ Busy' \in SUBSET Workers /\ backlog' \in SUBSET Msgs /\ listed' \in SUBSET Msgs
      /\ report' \in [Outcomes -> Nat]
  BY DEF CoreOK, RunsOK, Busy
<1>2. /\ Cardinality(Busy') \in Nat /\ Cardinality(backlog') \in Nat
      /\ Cardinality(listed') \in Nat /\ Cardinality(Msgs) \in Nat
      /\ Cardinality(listed') <= Cardinality(Msgs)
  BY <1>1, Constants, FS_Subset, FS_CardinalityType
<1>3. Accounted' <= Cardinality(listed')
  BY DEF BacklogInv
<1>4. \A o \in Outcomes : report'[o] \in Nat /\ report'[o] <= Recorded' /\ Recorded' \in Nat
  BY <1>1 DEF Recorded, Outcomes
<1>5. \A o \in Outcomes : report'[o] \in 0..Cardinality(Msgs)
  BY <1>2, <1>3, <1>4 DEF Accounted
<1>6. report' \in [Outcomes -> 0..Cardinality(Msgs)]
  BY <1>1, <1>5
<1> QED
  BY <1>6 DEF CoreOK, StoreOK, RunsOK, TypeOK

LEMMA InitInv == Init => TypeOK /\ OnceInv /\ BacklogInv
<1> SUFFICES ASSUME Init PROVE TypeOK /\ OnceInv /\ BacklogInv
  OBVIOUS
<1>1. /\ db \in [Msgs -> Rows \cup {NoRow}] /\ lock \in [Msgs -> Writers \cup {"nobody"}]
      /\ source \in [Msgs -> Contents \cup {NoContent}] /\ processed \in [Msgs -> Nat]
      /\ txn \in [Writers -> Transactions]
  BY DEF Init, Transactions
<1>2. changes \in 0..MaxChanges /\ runs \in 0..MaxRuns /\ faults \in 0..MaxFaults
  BY Constants DEF Init
<1>3. Cardinality(Msgs) \in Nat
  BY Constants, FS_CardinalityType
<1>4. report \in [Outcomes -> 0..Cardinality(Msgs)]
  BY <1>3 DEF Init, NoOutcomes
<1>5. snapshot \in [Msgs -> Snapshots]
  BY NoSnapshotFact DEF Init
<1>6. TypeOK
  BY <1>1, <1>2, <1>4, <1>5 DEF Init, TypeOK
<1>7. OnceInv
  BY DEF Init, OnceInv, Idle
<1>8. Busy = {} /\ Recorded = 0
  BY Constants, NoOutcomesFact DEF Init, Busy, Recorded, Outcomes
<1>9. Accounted = 0 /\ Cardinality(listed) = 0
  BY <1>8, FS_EmptySet DEF Init, Accounted
<1>10. BacklogInv
  BY <1>8, <1>9 DEF Init, BacklogInv
<1> QED
  BY <1>6, <1>7, <1>10

(* The inductive invariant of the ingestion paths. *)
LEMMA IngestionInvariance == Spec => [](TypeOK /\ OnceInv /\ BacklogInv)
<1>1. TypeOK /\ OnceInv /\ BacklogInv /\ [Next]_vars => (TypeOK /\ OnceInv /\ BacklogInv)'
  BY StepCoreOK, StepBacklogInv, StepOnceInv, TypeOfCore
<1> QED
  BY <1>1, InitInv, PTL DEF Spec

(* Every variable keeps its type; what a cycle has still to visit and what a run *)
(* has still to hand out is served by the provider.                             *)
THEOREM TypeCorrect == Spec => []TypeOK
BY IngestionInvariance, PTL

(* repositories.py:170-190 with polling.py:169-189 and sync/service.py:267-321.  *)
(* However polling, backlog workers, reprocesses, retries and restarts           *)
(* interleave, a message that has no row is processed as a new one at most once. *)
THEOREM NewMessagesOnce == Spec => []NewMessageProcessedOnce
<1>1. TypeOK /\ OnceInv => NewMessageProcessedOnce
  BY DEF TypeOK, OnceInv, NewMessageProcessedOnce
<1> QED
  BY <1>1, IngestionInvariance, PTL

(* sync/service.py:267-321.  A backlog run of any number of workers returns with  *)
(* one outcome for each message of its listing, unless the source itself failed. *)
THEOREM BacklogIsComplete == Spec => []BacklogComplete
<1>1. ASSUME TypeOK, BacklogInv, syncPc = "returned", ~broken
      PROVE  Recorded = Cardinality(listed)
  <2>1. Busy = {} /\ backlog = {} /\ Accounted = Cardinality(listed)
    BY <1>1 DEF BacklogInv
  <2> QED
    BY <1>1, <2>1, BusyFacts, FS_EmptySet DEF Accounted
<1>2. TypeOK /\ BacklogInv => BacklogComplete
  BY <1>1 DEF BacklogComplete
<1> QED
  BY <1>2, IngestionInvariance, PTL
=============================================================================
