------------------------- MODULE ResolutionExecutor -------------------------
(***************************************************************************)
(* The AI escalation executor: worker threads asking one process-shared    *)
(* ResolutionSharedState (decision cache, per-case call budget, key locks, *)
(* provider slots) to resolve hard fields.  A request of one key follows   *)
(* ResolutionExecutor._resolve, one of several keys                        *)
(* resolve_extraction_batch.                                               *)
(*                                                                         *)
(* The provider is called from a helper thread of run_with_timeout, which  *)
(* lives on after the caller has stopped waiting for it: a caller and its  *)
(* helper are two processes here.                                          *)
(*                                                                         *)
(* A key is a request hash: field, content and evidence, and not the case. *)
(* Requests that are rejected before the cache is consulted (AI disabled,  *)
(* no evidence, conflicting candidates) take no part.                      *)
(***************************************************************************)
EXTENDS Naturals, FiniteSets

CONSTANTS
  Callers,           \* worker threads, each making one request
  Cases,             \* case ids (one per e-mail)
  Keys,              \* request hashes
  CaseOf,            \* the case each caller works for
  Wants,             \* the keys each caller needs
  MaxCallsPerCase,   \* settings.ai_max_calls_per_case
  MaxConcurrent,     \* settings.ai_max_concurrent_calls
  MaxAttempts,       \* settings.retry_max_attempts
  SessionsRollBack   \* whether a transaction that stored a decision can be rolled back

ASSUME CallersAssumption == IsFiniteSet(Callers)
ASSUME RequestAssumption ==
  CaseOf \in [Callers -> Cases] /\ Wants \in [Callers -> (SUBSET Keys) \ {{}}]
ASSUME LimitAssumption ==
  /\ MaxCallsPerCase \in Nat \ {0} /\ MaxConcurrent \in Nat \ {0}
  /\ MaxAttempts \in Nat \ {0} /\ SessionsRollBack \in BOOLEAN

VARIABLES
  pc,       \* where each caller is
  todo,     \* keys a caller has still to decide
  lockKeys, \* the pending keys that name a caller's lock
  outcome,  \* how a caller's provider call ended
  answer,   \* the decisions each caller returns
  helper,   \* where the caller's helper thread is
  tries,    \* attempts of retry_call
  result,   \* content of the queue between helper and caller
  cache,    \* shared_state.cache, in step with the ai_resolutions rows
  calls,    \* shared_state.case_calls
  asked,    \* provider invocations made for each case
  slots     \* free provider_slots

callerVars == <<pc, todo, lockKeys, outcome, answer>>
helperVars == <<helper, tries, result, calls, asked, slots>>
vars == <<callerVars, helperVars, cache>>

Rejections == {"INVALID", "TIMEOUT", "RETRY_EXHAUSTED", "FAILURE", "BUDGET"}
Decisions  == {"ACCEPTED"} \cup Rejections
Outcomes   == {"NONE", "ANSWERED", "BUDGET", "TIMEOUT", "RETRY_EXHAUSTED", "FAILURE"}
PCs        == {"lookup", "lock", "recheck", "waiting", "remember", "done"}
HelperPCs  == {"none", "budget", "slot", "provider", "over"}

IsBatch(c) == \E k1, k2 \in Wants[c] : k1 # k2
Cached(k)  == cache[k] # "NONE"

\* Fault: each executor has locks of its own.
LockIdPerCaller(c) == <<"caller", c>>

\* A single request locks its hash, a batch the identity of its pending keys.
LockId(c) == IF IsBatch(c) THEN <<"batch", lockKeys[c]>> ELSE <<"key", Wants[c]>>
Holds(c)  == pc[c] \in {"recheck", "waiting", "remember"}

\* Keys of S that a caller can answer from the cache.
Hits(S) == {k \in S : Cached(k)}
WithHits(c, S) == [answer EXCEPT ![c] = [k \in Keys |->
                     IF k \in Hits(S) THEN cache[k] ELSE answer[c][k]]]
----------------------------------------------------------------------------
(* The caller *)

Lookup(c) ==
  /\ pc[c] = "lookup"
  /\ answer' = WithHits(c, Wants[c])
  /\ todo' = [todo EXCEPT ![c] = Wants[c] \ Hits(Wants[c])]
  /\ lockKeys' = [lockKeys EXCEPT ![c] = Wants[c] \ Hits(Wants[c])]
  /\ pc' = [pc EXCEPT ![c] = IF Wants[c] \ Hits(Wants[c]) = {} THEN "done" ELSE "lock"]
  /\ UNCHANGED <<outcome, helperVars, cache>>

Acquire(c) ==
  /\ pc[c] = "lock"
  /\ \A d \in Callers \ {c} : Holds(d) => LockId(d) # LockId(c)
  /\ pc' = [pc EXCEPT ![c] = "recheck"]
  /\ UNCHANGED <<todo, lockKeys, outcome, answer, helperVars, cache>>

\* Under the lock: nothing left to ask, or run_with_timeout starts its helper.
Recheck(c) ==
  /\ pc[c] = "recheck"
  /\ answer' = WithHits(c, todo[c])
  /\ todo' = [todo EXCEPT ![c] = @ \ Hits(@)]
  /\ IF todo[c] \ Hits(todo[c]) = {}
       THEN pc' = [pc EXCEPT ![c] = "done"] /\ UNCHANGED <<helper, tries>>
       ELSE /\ pc' = [pc EXCEPT ![c] = "waiting"]
            /\ helper' = [helper EXCEPT ![c] = "budget"]
            /\ tries' = [tries EXCEPT ![c] = 1]
  /\ UNCHANGED <<lockKeys, outcome, result, calls, asked, slots, cache>>

\* A single request does not remember an exhausted budget; a batch does.
TakeResult(c) ==
  /\ pc[c] = "waiting" /\ result[c] # "NONE"
  /\ outcome' = [outcome EXCEPT ![c] = result[c]]
  /\ IF result[c] = "BUDGET" /\ ~IsBatch(c)
       THEN /\ answer' = [answer EXCEPT ![c] = [k \in Keys |->
                            IF k \in todo[c] THEN "BUDGET" ELSE answer[c][k]]]
            /\ todo' = [todo EXCEPT ![c] = {}]
            /\ pc' = [pc EXCEPT ![c] = "done"]
       ELSE /\ pc' = [pc EXCEPT ![c] = "remember"]
            /\ UNCHANGED <<answer, todo>>
  /\ UNCHANGED <<lockKeys, helperVars, cache>>

\* Fault: the wait has no timeout while the helper is alive.
TimesOutWhenOver(c) ==
  /\ pc[c] = "waiting" /\ result[c] = "NONE" /\ helper[c] = "over"
  /\ outcome' = [outcome EXCEPT ![c] = "TIMEOUT"]
  /\ pc' = [pc EXCEPT ![c] = "remember"]
  /\ UNCHANGED <<todo, lockKeys, answer, helperVars, cache>>

\* results.get raises Empty: the caller goes on and leaves the helper behind.
TimesOut(c) ==
  /\ pc[c] = "waiting" /\ result[c] = "NONE"
  /\ outcome' = [outcome EXCEPT ![c] = "TIMEOUT"]
  /\ pc' = [pc EXCEPT ![c] = "remember"]
  /\ UNCHANGED <<todo, lockKeys, answer, helperVars, cache>>

\* Fault: a call that timed out is validated like an answer.
VerdictsOnTimeout(o) ==
  IF o \in {"ANSWERED", "TIMEOUT"} THEN {"ACCEPTED", "INVALID"} ELSE {o}

\* The decisions an outcome allows: an answer is validated field by field.
Verdicts(o) == IF o = "ANSWERED" THEN {"ACCEPTED", "INVALID"} ELSE {o}

\* Fault: the last decision is stored.
StoredLast(k, d) == {d}

\* store_decision returns the row another session has stored, unless that
\* session was rolled back; what it returns goes into the process cache.
Stored(k, d) ==
  IF ~Cached(k) THEN {d} ELSE IF SessionsRollBack THEN {cache[k], d} ELSE {cache[k]}

\* Fault: the batch ends with its first decision.
NextKeyStops(c, k) ==
  /\ todo' = [todo EXCEPT ![c] = @ \ {k}]
  /\ pc' = [pc EXCEPT ![c] = "done"]

NextKey(c, k) ==
  /\ todo' = [todo EXCEPT ![c] = @ \ {k}]
  /\ pc' = [pc EXCEPT ![c] = IF todo[c] = {k} THEN "done" ELSE "remember"]

Remember(c, k) ==
  /\ pc[c] = "remember" /\ k \in todo[c]
  /\ \E d \in Verdicts(outcome[c]) : \E s \in Stored(k, d) :
       /\ cache' = [cache EXCEPT ![k] = s]
       /\ answer' = [answer EXCEPT ![c][k] = s]
  /\ NextKey(c, k)
  /\ UNCHANGED <<lockKeys, outcome, helperVars>>

\* The row cannot be stored: a rejection that is not cached.
RememberFails(c, k) ==
  /\ pc[c] = "remember" /\ k \in todo[c]
  /\ answer' = [answer EXCEPT ![c][k] = "FAILURE"]
  /\ NextKey(c, k)
  /\ UNCHANGED <<lockKeys, outcome, helperVars, cache>>
----------------------------------------------------------------------------
(* The helper thread: retry_call around one_attempt *)

Finish(c, r) ==
  /\ result' = [result EXCEPT ![c] = r]
  /\ helper' = [helper EXCEPT ![c] = "over"]

\* one_attempt, under shared_state.lock.
ChargeBudget(c) ==
  /\ helper[c] = "budget"
  /\ IF calls[CaseOf[c]] >= MaxCallsPerCase
       THEN Finish(c, "BUDGET") /\ UNCHANGED calls
       ELSE /\ calls' = [calls EXCEPT ![CaseOf[c]] = @ + 1]
            /\ helper' = [helper EXCEPT ![c] = "slot"]
            /\ UNCHANGED result
  /\ UNCHANGED <<callerVars, tries, asked, slots, cache>>

EnterProvider(c) ==
  /\ helper[c] = "slot" /\ slots > 0
  /\ slots' = slots - 1
  /\ asked' = [asked EXCEPT ![CaseOf[c]] = @ + 1]
  /\ helper' = [helper EXCEPT ![c] = "provider"]
  /\ UNCHANGED <<callerVars, tries, result, calls, cache>>

\* The provider answers or fails for good; the slot is given back.
ProviderReturns(c, r) ==
  /\ helper[c] = "provider"
  /\ slots' = slots + 1
  /\ Finish(c, r)
  /\ UNCHANGED <<callerVars, tries, calls, asked, cache>>

\* Fault: a retry is not charged.
RetriesUncharged(c) ==
  /\ helper[c] = "provider" /\ tries[c] < MaxAttempts
  /\ slots' = slots + 1
  /\ tries' = [tries EXCEPT ![c] = @ + 1]
  /\ helper' = [helper EXCEPT ![c] = "slot"]
  /\ UNCHANGED <<callerVars, result, calls, asked, cache>>

\* Fault: one attempt more than the policy allows.
RetriesOnceMore(c) ==
  /\ helper[c] = "provider" /\ tries[c] <= MaxAttempts
  /\ slots' = slots + 1
  /\ tries' = [tries EXCEPT ![c] = @ + 1]
  /\ helper' = [helper EXCEPT ![c] = "budget"]
  /\ UNCHANGED <<callerVars, result, calls, asked, cache>>

\* TransientResolverError: another attempt, which is charged again.
ProviderRetries(c) ==
  /\ helper[c] = "provider" /\ tries[c] < MaxAttempts
  /\ slots' = slots + 1
  /\ tries' = [tries EXCEPT ![c] = @ + 1]
  /\ helper' = [helper EXCEPT ![c] = "budget"]
  /\ UNCHANGED <<callerVars, result, calls, asked, cache>>

\* Fault: the last failure keeps its slot.
ExhaustedKeepsSlot(c) ==
  /\ helper[c] = "provider" /\ tries[c] >= MaxAttempts
  /\ Finish(c, "RETRY_EXHAUSTED")
  /\ UNCHANGED <<callerVars, tries, calls, asked, slots, cache>>

ProviderExhausted(c) ==
  /\ helper[c] = "provider" /\ tries[c] >= MaxAttempts
  /\ slots' = slots + 1
  /\ Finish(c, "RETRY_EXHAUSTED")
  /\ UNCHANGED <<callerVars, tries, calls, asked, cache>>
----------------------------------------------------------------------------
Init ==
  /\ pc = [c \in Callers |-> "lookup"]
  /\ todo = [c \in Callers |-> {}]
  /\ lockKeys = [c \in Callers |-> {}]
  /\ outcome = [c \in Callers |-> "NONE"]
  /\ answer = [c \in Callers |-> [k \in Keys |-> "NONE"]]
  /\ helper = [c \in Callers |-> "none"]
  /\ tries = [c \in Callers |-> 0]
  /\ result = [c \in Callers |-> "NONE"]
  /\ cache = [k \in Keys |-> "NONE"]
  /\ calls = [x \in Cases |-> 0]
  /\ asked = [x \in Cases |-> 0]
  /\ slots = MaxConcurrent

Caller(c) ==
  \/ Lookup(c) \/ Acquire(c) \/ Recheck(c) \/ TakeResult(c) \/ TimesOut(c)
  \/ \E k \in Keys : Remember(c, k) \/ RememberFails(c, k)

Helper(c) ==
  \/ ChargeBudget(c) \/ EnterProvider(c)
  \/ \E r \in {"ANSWERED", "FAILURE"} : ProviderReturns(c, r)
  \/ ProviderRetries(c) \/ ProviderExhausted(c)

Next == \E c \in Callers : Caller(c) \/ Helper(c)

Spec == Init /\ [][Next]_vars

\* Callers are scheduled and their wait has a timeout; nothing is assumed of the
\* provider and its helper threads.
FairSpec == Spec /\ \A c \in Callers : WF_vars(Caller(c))
----------------------------------------------------------------------------
TypeOK ==
  /\ pc \in [Callers -> PCs]
  /\ todo \in [Callers -> SUBSET Keys]
  /\ lockKeys \in [Callers -> SUBSET Keys]
  /\ outcome \in [Callers -> Outcomes]
  /\ answer \in [Callers -> [Keys -> Decisions \cup {"NONE"}]]
  /\ helper \in [Callers -> HelperPCs]
  /\ tries \in [Callers -> 0..MaxAttempts]
  /\ result \in [Callers -> Outcomes]
  /\ cache \in [Keys -> Decisions \cup {"NONE"}]
  /\ calls \in [Cases -> 0..MaxCallsPerCase]
  /\ asked \in [Cases -> Nat]
  /\ slots \in 0..MaxConcurrent

InProvider == {c \in Callers : helper[c] = "provider"}

\* service.py:301-309.  The provider is never asked more often for a case than
\* its budget allows, retries and abandoned helpers included.
BudgetBounded == \A x \in Cases : asked[x] <= MaxCallsPerCase

\* service.py:308-309, reliability.py:83-87.  The helpers in the provider, those
\* nobody waits for included, never exceed the slots, and no slot is lost.
SlotsConserved == slots + Cardinality(InProvider) = MaxConcurrent

\* service.py:259-264, 159-171.  Two callers never have the same lock.
LockExclusive ==
  \A c, d \in Callers : c # d /\ Holds(c) /\ Holds(d) => LockId(c) # LockId(d)

\* A single request that has returned with what its own provider call decided.
ReturnsOwnDecision(c) ==
  /\ ~IsBatch(c) /\ pc[c] = "done" /\ outcome[c] \notin {"NONE", "BUDGET"}
  /\ \A k \in Wants[c] : answer[c][k] # "FAILURE"

\* service.py:255-264, 292-293.  Of identical single requests only one has its
\* decision from the provider, the others have it from the cache, unless the
\* call failed or its decision could not be stored.
SingleKeyAskedOnce ==
  \A c, d \in Callers :
    c # d /\ Wants[c] = Wants[d] /\ ReturnsOwnDecision(c) => ~ReturnsOwnDecision(d)

\* reliability.py:83-87.  A decision is accepted only from an answer that arrived
\* while its caller waited: a late answer is dropped.
AcceptedWasAnswered ==
  \A k \in Keys : cache[k] = "ACCEPTED" =>
    \E c \in Callers : k \in Wants[c] /\ outcome[c] = "ANSWERED"

\* service.py:155-173.  A caller returns with a decision for every key it wanted.
DoneIsDecided ==
  \A c \in Callers : pc[c] = "done" => \A k \in Wants[c] : answer[c][k] # "NONE"

\* repositories.py:61-63, 121-125 with service.py:497-498.  A decision, once in
\* the cache, is the decision of its key for good.
DecisionStable == [][\A k \in Keys : Cached(k) => cache'[k] = cache[k]]_vars

\* reliability.py:67-69: a hung provider does not hold up the worker.
CallersReturn == \A c \in Callers : <>(pc[c] = "done")

\* implement.md:367, per-case budget: only a case that has used its own budget
\* is refused for it.
BudgetIsPerCase ==
  \A c \in Callers : \A k \in Keys :
    answer[c][k] = "BUDGET" => calls[CaseOf[c]] >= MaxCallsPerCase
=============================================================================
