--------------------------- MODULE DocumentStages ---------------------------
(***************************************************************************)
(* The document stage of sync_one, run by several workers at once: the     *)
(* attachments of an e-mail are read one by one, through an OCR reader the *)
(* workers share, its documents are routed, and the fields of the Shipping *)
(* Instruction and of the draft Bill of Lading are extracted through the   *)
(* durable cache of extraction payloads.  Beside the workers run the       *)
(* retention clean-up and, between two processes, deployments.             *)
(*                                                                         *)
(* A worker sees what others have committed and its own writes, which are  *)
(* in its txn until it commits.  Two runs of one e-mail wait for each other *)
(* on its rows, so one transaction for each e-mail is enough.              *)
(***************************************************************************)
EXTENDS Materialization

CONSTANTS
  Emails,
  Contents,     \* byte contents of attachments
  File,         \* what each content is: kind, empty, native, markers
  Attachments,  \* the contents attached to each e-mail, in order
  Versions,     \* extractor versions that may be deployed
  OcrMaxCalls,  \* settings.ocr_max_calls, of one process
  OcrSlots,     \* settings.ocr_max_concurrent_calls
  MaxRuns,      \* bound on runs of the stage
  MaxFaults,    \* bound on failures, restarts and clean-ups
  NoDocument, NoEntry, Nobody

Places(e)     == DOMAIN Attachments[e]
Extractions   == UNION {{<<e, i>> : i \in Places(e)} : e \in Emails}
ContentOf(x)  == Attachments[x[1]][x[2]]
Keys          == Contents \X Versions
NoFields      == <<>>
Blank         == <<"MISSING">>  \* the seven fields of a document without text

\* A document of an attachment, and the extraction of its fields.
DocumentRows ==
  [role : Roles, outcome : Outcomes, fields : Keys \cup {NoFields, Blank},
   version : Versions \cup {0}, status : {"PENDING", "OTHER", "EXTRACTED", "FAILED"}]

ASSUME DocumentStagesAssumption ==
  /\ Attachments \in [Emails -> Seq(Contents)]
  /\ File \in [Contents -> [kind : Kinds, empty : BOOLEAN, native : Natives,
                            markers : SUBSET MarkerKinds]]
  /\ Versions \subseteq Nat \ {0} /\ Versions # {}
  /\ OcrMaxCalls \in Nat \ {0} /\ OcrSlots \in Nat \ {0}
  /\ MaxRuns \in Nat /\ MaxFaults \in Nat
  /\ Nobody \notin Emails
  /\ NoDocument \notin DocumentRows /\ NoEntry \notin Extractions

VARIABLES
  mail,      \* processing status of each e-mail
  doc,       \* committed document and extraction of each attachment
  entry,     \* extraction_cache: the extraction each key points to
  hashed,    \* e-mails whose attachment rows hold their content_sha256
  old,       \* cache keys and e-mails past their retention
  redacted,  \* e-mails whose attachment references were redacted
  txn,       \* the run of each e-mail that is in progress
  ocrCache,  \* OcrSharedState.cache
  ocrLock,   \* OcrSharedState.key_locks
  helpers,   \* threads started by run_with_timeout, by number of the call
  version,   \* extractor version of the running process
  hurt,      \* history: the last committed run of the e-mail met a failure
  runs, faults

ocrVars    == <<ocrCache, ocrLock, helpers>>
storedVars == <<mail, doc, entry, hashed, hurt>>
keepVars   == <<old, redacted>>
boundVars  == <<runs, faults>>
vars == <<storedVars, keepVars, txn, ocrVars, version, boundVars>>

FaultAllowed == faults < MaxFaults /\ faults' = faults + 1

Idle == [pc |-> "idle"]
----------------------------------------------------------------------------
(* Rows *)

\* document_repo.create with extraction_repo.create.
Created(found) ==
  LET fieldsWanted == found.role \in {"SI", "DRAFT_BL"}
  IN  [role |-> found.role, outcome |-> found.outcome, fields |-> NoFields,
       status  |-> IF fieldsWanted THEN "PENDING" ELSE "OTHER",
       version |-> IF fieldsWanted THEN version ELSE 0]

Complete(row) == row.status = "EXTRACTED" /\ row.fields # NoFields

\* The seven rows of a payload stand for what was extracted from it, and how.
Extracted(row, fields) == [row EXCEPT !.status = "EXTRACTED", !.version = version, !.fields = fields]
NotExtracted(row)      == [row EXCEPT !.status = "FAILED", !.version = version, !.fields = NoFields]

Stored(x) == doc[x[1]][x[2]]
----------------------------------------------------------------------------
(* Reading the attachments *)

\* A stored message is processed again when it FAILED; the provider's is
\* processed when it is new, or by a forced backlog run.
Begin(e, origin) ==
  /\ txn[e] = Idle /\ runs < MaxRuns
  /\ origin = "STORED" => mail[e] = "FAILED"
  /\ runs' = runs + 1
  /\ txn' = [txn EXCEPT ![e] =
       [pc |-> "read", origin |-> origin, next |-> 1, docs |-> doc[e], read |-> {}, legible |-> {},
        technical |-> "NONE", call |-> 0, missed |-> {}, pending |-> {}, result |-> "NEW",
        hurt |-> FALSE]]
  /\ UNCHANGED <<storedVars, keepVars, ocrVars, version, faults>>

Reading(e)      == txn[e].pc = "read" /\ txn[e].next \in Places(e)
Current(e)      == Attachments[e][txn[e].next]
Unreachable(e)  == txn[e].origin = "STORED" /\ e \in redacted
FirstOf(t, why) == IF t.technical = "NONE" THEN why ELSE t.technical

FetchFails(e) ==
  /\ Reading(e)
  /\ IF Unreachable(e) THEN UNCHANGED faults ELSE FaultAllowed
  /\ txn' = [txn EXCEPT ![e] = [txn[e] EXCEPT !.next = @ + 1, !.hurt = TRUE,
               !.technical = FirstOf(txn[e], "ATTACHMENT_READ_FAILED")]]
  /\ UNCHANGED <<storedVars, keepVars, ocrVars, version, runs>>

ReadOn(t, found) ==
  [t EXCEPT !.pc = "read", !.next = @ + 1, !.read = @ \cup {t.next}, !.call = 0,
            !.legible = IF found.role = "UNKNOWN" THEN @ ELSE @ \cup {t.next}]

\* Fault: the attachment is given a new document at each run.
KeptAnew(t, found) == [ReadOn(t, found) EXCEPT !.docs[t.next] = Created(found)]

\* The document of an earlier run over the same bytes is kept as it is, with
\* the role and outcome it was stored with; what was read now is what the
\* fields of this run will be extracted from.
Kept(t, found) ==
  [ReadOn(t, found) EXCEPT !.docs[t.next] = IF @ = NoDocument THEN Created(found) ELSE @]

Answered(c, answer) ==
  LET file == File[c]
  IN  Classified([kind |-> file.kind, empty |-> file.empty, native |-> file.native,
                  markers |-> file.markers, ocr |-> answer])

ReadFile(e) ==
  /\ Reading(e) /\ ~Unreachable(e) /\ ~NeedsOcr(File[Current(e)])
  /\ txn' = [txn EXCEPT ![e] = Kept(txn[e], Answered(Current(e), "TEXT"))]
  /\ UNCHANGED <<storedVars, keepVars, ocrVars, version, boundVars>>

ReaderRaises(e) ==
  /\ Reading(e) /\ ~Unreachable(e) /\ FaultAllowed
  /\ txn' = [txn EXCEPT ![e] = [Kept(txn[e], Raised(File[Current(e)])) EXCEPT !.hurt = TRUE,
               !.technical = FirstOf(txn[e], "DOCUMENT_READER_FAILED")]]
  /\ UNCHANGED <<storedVars, keepVars, ocrVars, version, runs>>
----------------------------------------------------------------------------
(* OcrReader *)

Cached(c) == ocrCache[c] # "NONE"

AskOcr(e) ==
  /\ Reading(e) /\ ~Unreachable(e) /\ NeedsOcr(File[Current(e)])
  /\ txn' = [txn EXCEPT ![e] = IF Cached(Current(e))
                               THEN Kept(txn[e], Answered(Current(e), ocrCache[Current(e)]))
                               ELSE [@ EXCEPT !.pc = "ocr"]]
  /\ UNCHANGED <<storedVars, keepVars, ocrVars, version, boundVars>>

CallsMade == Cardinality({h \in DOMAIN helpers : helpers[h].pc # "unused"})

\* Fault: the cache is not looked at again under the lock of the key.
NoSecondLook(c) == FALSE

CachedMeanwhile(c) == Cached(c)

\* Under the lock of the content: the cache once more, then the budget.
\* A refusal for the budget is not cached.
LockOcr(e) ==
  /\ txn[e].pc = "ocr" /\ ocrLock[Current(e)] = Nobody
  /\ LET c == Current(e)
     IN  IF CachedMeanwhile(c) \/ CallsMade = OcrMaxCalls
           THEN /\ txn' = [txn EXCEPT ![e] =
                     Kept(txn[e], Answered(c, IF Cached(c) THEN ocrCache[c] ELSE "NO_FALLBACK"))]
                /\ UNCHANGED ocrVars
           ELSE /\ txn' = [txn EXCEPT ![e] = [@ EXCEPT !.pc = "called", !.call = CallsMade + 1]]
                /\ helpers' = [helpers EXCEPT ![CallsMade + 1] = [pc |-> "waiting", content |-> c]]
                /\ ocrLock' = [ocrLock EXCEPT ![c] = e]
                /\ UNCHANGED ocrCache
  /\ UNCHANGED <<storedVars, keepVars, version, boundVars>>

\* Fault: the caller waits for its helper without a time-out.
WaitsForEver(e) == FALSE

\* The caller of a helper takes the answer, or gives up: both are cached.
Settle(e, answer) ==
  LET c == Current(e)
  IN  /\ ocrCache' = [ocrCache EXCEPT ![c] = answer]
      /\ ocrLock' = [ocrLock EXCEPT ![c] = Nobody]
      /\ txn' = [txn EXCEPT ![e] = Kept(txn[e], Answered(c, answer))]

OcrTimesOut(e) ==
  /\ txn[e].pc = "called"
  /\ Settle(e, "NO_FALLBACK")
  /\ UNCHANGED <<storedVars, keepVars, helpers, version, boundVars>>

HelperEnters(h) ==
  /\ helpers[h].pc = "waiting"
  /\ Cardinality({g \in DOMAIN helpers : helpers[g].pc = "running"}) < OcrSlots
  /\ helpers' = [helpers EXCEPT ![h].pc = "running"]
  /\ UNCHANGED <<storedVars, keepVars, txn, ocrCache, ocrLock, version, boundVars>>

\* The engine returns; the answer of an abandoned helper goes nowhere.
HelperReturns(h, answer) ==
  /\ helpers[h].pc = "running"
  /\ helpers' = [helpers EXCEPT ![h].pc = "over"]
  /\ IF \E e \in Emails : txn[e].pc = "called" /\ txn[e].call = h
       THEN Settle(CHOOSE e \in Emails : txn[e].pc = "called" /\ txn[e].call = h, answer)
       ELSE UNCHANGED <<txn, ocrCache, ocrLock>>
  /\ UNCHANGED <<storedVars, keepVars, version, boundVars>>
----------------------------------------------------------------------------
(* Routing *)

Over(f, g) == [i \in DOMAIN g |-> IF i \in DOMAIN f THEN f[i] ELSE g[i]]

Decide(e) ==
  /\ txn[e].pc = "read" /\ ~Reading(e)
  /\ LET t     == txn[e]
         docs  == [i \in t.read |-> t.docs[i]]
         route == Route(docs, t.technical)
     IN  txn' = [txn EXCEPT ![e] =
           IF route.status = "EXTRACTING"
             THEN [t EXCEPT !.pc = "lookup"]
             ELSE [t EXCEPT !.pc = "commit", !.result = route.status,
                            !.docs = IF t.technical = "NONE" THEN Over(Marked(docs), @) ELSE @]]
  /\ UNCHANGED <<storedVars, keepVars, ocrVars, version, boundVars>>

\* The two extraction targets, the Shipping Instruction first.
Target(e, role) == <<e, CHOOSE i \in txn[e].read : txn[e].docs[i].role = role>>
Targets(e)      == <<Target(e, "SI"), Target(e, "DRAFT_BL")>>
Row(x)          == txn[x[1]].docs[x[2]]
With(t, x, row) == [t EXCEPT !.docs[x[2]] = row]
----------------------------------------------------------------------------
(* The extraction cache *)

KeyOf(x) == <<ContentOf(x), version>>

\* DeterministicDocumentExtractor.extract: without text every field is MISSING,
\* which is a result like any other.
FieldsRead(x) == IF x[2] \in txn[x[1]].legible THEN KeyOf(x) ELSE Blank

\* find_cached_by_content: the row the entry points to, else any extraction
\* of the same bytes and version.
FromTable(x) ==
  {y \in {entry[KeyOf(x)]} \ {NoEntry} : y[1] # x[1] /\ Complete(Stored(y))}

\* Fault: the rows are looked up by extractor version alone.
RowsOfAnyContent(x) ==
  {y \in Extractions : /\ y[1] # x[1] /\ y[1] \in hashed /\ Stored(y) # NoDocument
                       /\ Complete(Stored(y)) /\ Stored(y).version = version}

FromRows(x) ==
  {y \in Extractions : /\ y[1] # x[1] /\ y[1] \in hashed
                       /\ ContentOf(y) = ContentOf(x)
                       /\ Stored(y) # NoDocument
                       /\ Complete(Stored(y)) /\ Stored(y).version = version}
Reusable(x) == IF FromTable(x) # {} THEN FromTable(x) ELSE FromRows(x)

\* Another transaction has inserted the key and not yet committed: wait.
KeyFree(x) == \A e \in Emails \ {x[1]} : txn[e] # Idle => \A p \in txn[e].pending : p[1] # KeyOf(x)

\* register_cache_entry inserts the key unless it is there; an extraction may
\* be the source of one entry only.
PointedTo(x) == \E k \in Keys : entry[k] = x
Registered(t, x, source) ==
  IF entry[KeyOf(x)] # NoEntry THEN t
  ELSE [t EXCEPT !.pending = @ \cup {<<KeyOf(x), source>>}]

\* Fault: a run extracts again what an earlier run has extracted.
NeverDone(x) == FALSE

Done(x) == Complete(Row(x)) /\ Row(x).version = version

\* Done already, copied from the cache, or put down for computation; a copy
\* that cannot be stored leaves the extraction FAILED.
LookUp(e, k) ==
  /\ txn[e].pc = "lookup" /\ txn[e].call = k - 1
  /\ LET t == [txn[e] EXCEPT !.call = k]
         x == Targets(e)[k]
     IN  IF Done(x)
           THEN txn' = [txn EXCEPT ![e] = t] /\ UNCHANGED faults
           ELSE IF Reusable(x) = {}
             THEN txn' = [txn EXCEPT ![e] = [t EXCEPT !.missed = @ \cup {k}]] /\ UNCHANGED faults
             ELSE /\ KeyFree(x)
                  /\ \/ /\ \E y \in Reusable(x) :
                             /\ entry[KeyOf(x)] = NoEntry => ~PointedTo(y)
                             /\ txn' = [txn EXCEPT ![e] =
                                  With(Registered(t, x, y), x, Extracted(Row(x), Stored(y).fields))]
                        /\ UNCHANGED faults
                     \/ /\ \A y \in Reusable(x) : entry[KeyOf(x)] = NoEntry /\ PointedTo(y)
                        /\ txn' = [txn EXCEPT ![e] = With(t, x, NotExtracted(Row(x)))]
                        /\ UNCHANGED faults
                     \/ /\ FaultAllowed
                        /\ txn' = [txn EXCEPT ![e] =
                             [With(t, x, NotExtracted(Row(x))) EXCEPT !.hurt = TRUE]]
  /\ UNCHANGED <<storedVars, keepVars, ocrVars, version, runs>>

\* Fault: to lose the race for the key is an error.
FreshRaisesOnLoss(t, x) ==
  IF entry[KeyOf(x)] \notin {NoEntry, x} THEN With(t, x, NotExtracted(Row(x)))
  ELSE With(Registered(t, x, x), x, Extracted(Row(x), FieldsRead(x)))

\* _persist_fresh: the one who inserts the key keeps what it computed; who
\* finds another's copies from it, which fails when that is not complete.
Fresh(t, x) ==
  LET winner == entry[KeyOf(x)]
  IN  IF winner \in {NoEntry, x}
        THEN IF winner = NoEntry /\ PointedTo(x)
             THEN With(t, x, NotExtracted(Row(x)))
             ELSE With(Registered(t, x, x), x, Extracted(Row(x), FieldsRead(x)))
        ELSE IF Stored(winner).fields # NoFields
             THEN With(t, x, Extracted(Row(x), Stored(winner).fields))
             ELSE With(t, x, NotExtracted(Row(x)))

Persist(e, k) ==
  /\ txn[e].pc = "lookup" /\ txn[e].call = 2
  /\ k \in txn[e].missed /\ \A j \in txn[e].missed : k <= j
  /\ LET t == [txn[e] EXCEPT !.missed = @ \ {k}]
         x == Targets(e)[k]
     IN  \/ /\ KeyFree(x)
            /\ txn' = [txn EXCEPT ![e] = Fresh(t, x)]
            /\ UNCHANGED faults
         \/ /\ FaultAllowed
            /\ txn' = [txn EXCEPT ![e] =
                 [With(t, x, NotExtracted(Row(x))) EXCEPT !.hurt = TRUE]]
  /\ UNCHANGED <<storedVars, keepVars, ocrVars, version, runs>>

\* The batch has failed, or the two extractions are compared; a comparison
\* that raises is rolled back to its savepoint.
Conclude(e, compared) ==
  /\ txn[e].pc = "lookup" /\ txn[e].call = 2 /\ txn[e].missed = {}
  /\ LET t == txn[e]
         failed == \E k \in 1..2 : Row(Targets(e)[k]).status = "FAILED"
     IN  /\ ~compared => ~failed /\ FaultAllowed
         /\ compared => UNCHANGED faults
         /\ txn' = [txn EXCEPT ![e] =
              [t EXCEPT !.pc = "commit", !.hurt = @ \/ ~compared,
                        !.result = IF failed \/ ~compared THEN "FAILED" ELSE "COMPARED"]]
  /\ UNCHANGED <<storedVars, keepVars, ocrVars, version, runs>>
----------------------------------------------------------------------------
(* The end of a run *)

Inserted(t, k) ==
  IF \E p \in t.pending : p[1] = k THEN (CHOOSE p \in t.pending : p[1] = k)[2] ELSE entry[k]

Commit(e) ==
  /\ txn[e].pc = "commit"
  /\ LET t == txn[e]
     IN  /\ mail' = [mail EXCEPT ![e] = t.result]
         /\ doc' = [doc EXCEPT ![e] = t.docs]
         /\ entry' = [k \in Keys |-> Inserted(t, k)]
         /\ hashed' = IF t.read = {} THEN hashed ELSE hashed \cup {e}
         /\ hurt' = [hurt EXCEPT ![e] = t.hurt]
  /\ txn' = [txn EXCEPT ![e] = Idle]
  /\ UNCHANGED <<keepVars, ocrVars, version, boundVars>>

\* Any other exception: the caller of the stage rolls the session back.
RollsBack(e) ==
  /\ txn[e].pc \in {"read", "lookup", "commit"} /\ FaultAllowed
  /\ txn' = [txn EXCEPT ![e] = Idle]
  /\ UNCHANGED <<storedVars, keepVars, ocrVars, version, runs>>
----------------------------------------------------------------------------
(* Clean-up and deployment *)

\* The retention periods are days: they pass while no run is in progress.
Age ==
  /\ \A e \in Emails : txn[e] = Idle
  /\ old' = {k \in Keys : entry[k] # NoEntry} \cup {e \in Emails : mail[e] # "NEW"}
  /\ old' # old
  /\ UNCHANGED <<storedVars, redacted, txn, ocrVars, version, boundVars>>

\* DataLifecycleService._apply, in one transaction.
CleanUp ==
  /\ old # {} /\ FaultAllowed
  /\ entry' = [k \in Keys |-> IF k \in old THEN NoEntry ELSE entry[k]]
  /\ redacted' = redacted \cup (old \cap Emails)
  /\ hashed' = hashed \ old
  /\ old' = {}
  /\ UNCHANGED <<mail, doc, hurt, txn, ocrVars, version, runs>>

NoHelpers == [h \in 1..OcrMaxCalls |-> [pc |-> "unused", content |-> Nobody]]

\* The process ends, and starts again with the extractor it is deployed with.
Restart(v) ==
  /\ FaultAllowed
  /\ version' = v
  /\ txn' = [e \in Emails |-> Idle]
  /\ ocrCache' = [c \in Contents |-> "NONE"]
  /\ ocrLock' = [c \in Contents |-> Nobody]
  /\ helpers' = NoHelpers
  /\ UNCHANGED <<storedVars, keepVars, runs>>
----------------------------------------------------------------------------
Init ==
  /\ mail = [e \in Emails |-> "NEW"]
  /\ doc = [e \in Emails |-> [i \in Places(e) |-> NoDocument]]
  /\ entry = [k \in Keys |-> NoEntry]
  /\ hashed = {} /\ old = {} /\ redacted = {}
  /\ txn = [e \in Emails |-> Idle]
  /\ ocrCache = [c \in Contents |-> "NONE"]
  /\ ocrLock = [c \in Contents |-> Nobody]
  /\ helpers = NoHelpers
  /\ version \in Versions
  /\ hurt = [e \in Emails |-> FALSE]
  /\ runs = 0 /\ faults = 0

Worker(e) ==
  \/ FetchFails(e) \/ ReadFile(e) \/ ReaderRaises(e)
  \/ AskOcr(e) \/ LockOcr(e) \/ OcrTimesOut(e)
  \/ Decide(e)
  \/ \E k \in 1..2 : LookUp(e, k) \/ Persist(e, k)
  \/ \E compared \in BOOLEAN : Conclude(e, compared)
  \/ Commit(e) \/ RollsBack(e)

\* A scan without text is handled as an engine that fails: one stands for both.
Engine ==
  \E h \in 1..OcrMaxCalls :
    HelperEnters(h) \/ \E answer \in {"TEXT", "FAILED"} : HelperReturns(h, answer)

Next ==
  \/ \E e \in Emails, origin \in {"PROVIDER", "STORED"} : Begin(e, origin)
  \/ \E e \in Emails : Worker(e)
  \/ Engine
  \/ Age \/ CleanUp
  \/ \E v \in Versions : Restart(v)

Spec == Init /\ [][Next]_vars

\* Workers are scheduled and their waits time out.  Nothing is assumed of the
\* OCR engine, which may never return.
FairSpec == Spec /\ \A e \in Emails : WF_vars(Worker(e))
----------------------------------------------------------------------------
(* Properties *)

Documents(e) == [Places(e) -> DocumentRows \cup {NoDocument}]

Runs(e) ==
  [pc : {"read", "ocr", "called", "lookup", "commit"}, origin : {"PROVIDER", "STORED"},
   next : Nat \ {0}, docs : Documents(e), read : SUBSET Places(e), legible : SUBSET Places(e),
   technical : {"NONE", "ATTACHMENT_READ_FAILED", "DOCUMENT_READER_FAILED"}, call : Nat,
   missed : SUBSET {1, 2}, pending : SUBSET (Keys \X Extractions),
   result : {"NEW", "BLOCKED", "FAILED", "COMPARED"}, hurt : BOOLEAN]

Helpers == [pc : {"unused", "waiting", "running", "over"}, content : Contents \cup {Nobody}]

\* Every variable has its type, the rows a run holds are rows that can be
\* stored, and a run that waits for OCR is at an attachment of its e-mail.
TypeOK ==
  /\ mail \in [Emails -> {"NEW", "BLOCKED", "FAILED", "COMPARED"}]
  /\ doc = [e \in Emails |-> doc[e]] /\ txn = [e \in Emails |-> txn[e]]
  /\ entry \in [Keys -> Extractions \cup {NoEntry}]
  /\ hashed \subseteq Emails /\ redacted \subseteq Emails /\ old \subseteq Keys \cup Emails
  /\ \A e \in Emails :
       /\ doc[e] \in Documents(e) /\ txn[e] \in {Idle} \cup Runs(e)
       /\ txn[e].pc \in {"ocr", "called"} => txn[e].next \in Places(e)
  /\ ocrCache \in [Contents -> OcrAnswers \cup {"NONE"}]
  /\ ocrLock \in [Contents -> Emails \cup {Nobody}]
  /\ helpers \in [1..OcrMaxCalls -> Helpers]
  /\ version \in Versions /\ hurt \in [Emails -> BOOLEAN]
  /\ runs \in 0..MaxRuns /\ faults \in 0..MaxFaults

\* DocumentFieldExtractionService: whatever the order in which workers with the
\* same document look up, compute, insert and copy, and whatever the clean-up
\* deletes in between, the fields stored for a document are those of its own
\* bytes, by the extractor version its row names.
FieldsMatch ==
  \A x \in Extractions :
    (Stored(x) # NoDocument /\ Stored(x).status = "EXTRACTED") =>
      Stored(x).fields = <<ContentOf(x), Stored(x).version>>

\* models.ExtractionCacheRecord: "Durable, versioned pointer to one complete
\* extraction payload".
EntriesComplete ==
  \A k \in Keys : entry[k] # NoEntry =>
    Complete(Stored(entry[k])) /\ Stored(entry[k]).fields = k

\* DocumentMaterializationService.process: an e-mail is FAILED, which asks for
\* a retry, only when its last run met a failure.  Losing the race for a cache
\* key to another worker, or meeting the leftovers of a clean-up or of a
\* restart, is none.
FailedWasHurt == \A e \in Emails : mail[e] = "FAILED" => hurt[e]

\* A document that was stored keeps its role over later runs of the e-mail,
\* whatever the shared OCR state answers them, and is never replaced.
DocumentsKept ==
  [][\A x \in Extractions : Stored(x) # NoDocument =>
       Stored(x)' # NoDocument /\ Stored(x)'.role = Stored(x).role]_vars

\* OcrReader: workers that meet the same scan start one call of the engine,
\* and all of them are given the answer of that call (or its time-out).
Ocr == INSTANCE SingleFlight WITH
  Keys <- Contents, Answers <- OcrAnswers, None <- "NONE", table <- ocrCache,
  started <- {helpers[h].content : h \in {g \in DOMAIN helpers : helpers[g].pc # "unused"}}

OcrSingleFlight == Ocr!Spec

\* A run always comes to its end, even when the OCR engine never returns and
\* its helpers hold all the slots.
RunsEnd == \A e \in Emails : (txn[e] # Idle) ~> (txn[e] = Idle)
=============================================================================
