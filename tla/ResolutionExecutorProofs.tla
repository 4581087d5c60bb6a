---------------------- MODULE ResolutionExecutorProofs ----------------------
(***************************************************************************)
(* Proofs about ResolutionExecutor, for any callers, cases, keys, requests *)
(* and limits.  The inductive invariants are layered: HelperInv (slots and *)
(* budgets), LockExclusive, AnswerInv (answers and accepted decisions) and *)
(* SingleFlightInv, each resting on the ones before it.                    *)
(***************************************************************************)
EXTENDS ResolutionExecutor, FiniteSetTheorems, TLAPS

\* Helpers that have been charged for a call and wait for a slot to make it.
Charged(x) == {c \in Callers : helper[c] = "slot" /\ CaseOf[c] = x}

\* Every charged call has been made or is waiting for its slot.
BudgetLedger == \A x \in Cases : asked[x] + Cardinality(Charged(x)) = calls[x]

\* A caller has no outcome before its call ends, and one while it remembers.
OutcomeInStep ==
  \A c \in Callers :
    /\ pc[c] \in {"lookup", "lock", "recheck", "waiting"} => outcome[c] = "NONE"
    /\ pc[c] = "remember" => outcome[c] # "NONE"

\* What a caller has not decided is on its list, and the list is its own.
DecidedOrTodo ==
  \A c \in Callers :
    /\ todo[c] \subseteq Wants[c]
    /\ pc[c] # "lookup" => \A k \in Wants[c] : k \in todo[c] \/ answer[c][k] # "NONE"
    /\ pc[c] = "done" => todo[c] = {}

\* A single request with a decision of its own has cached it, and no identical
\* request is past its second look into the cache.
OwnDecisionCached ==
  \A d \in Callers : ReturnsOwnDecision(d) =>
    /\ \A k \in Wants[d] : Cached(k)
    /\ \A c \in Callers : c # d /\ Wants[c] = Wants[d] =>
         pc[c] \notin {"waiting", "remember"}

\* A caller has no helper before its call.
HelperIdle == \A c \in Callers :
  pc[c] \in {"lookup", "lock", "recheck"} => helper[c] = "none"

\* The inductive invariant of the helper threads.
HelperInv == TypeOK /\ HelperIdle /\ SlotsConserved /\ BudgetLedger
----------------------------------------------------------------------------
(* Lemmas about the helper operators *)

\* Filling in the cached answers gives every key a decision or NONE again.
LEMMA WithHitsType ==
  ASSUME TypeOK, NEW c \in Callers, NEW S \in SUBSET Keys
  PROVE  WithHits(c, S) \in [Callers -> [Keys -> Decisions \cup {"NONE"}]]
<1> DEFINE filled == [k \in Keys |-> IF k \in Hits(S) THEN cache[k] ELSE answer[c][k]]
<1>1. answer \in [Callers -> [Keys -> Decisions \cup {"NONE"}]]
  BY DEF TypeOK
<1>2. filled \in [Keys -> Decisions \cup {"NONE"}]
  BY <1>1 DEF TypeOK
<1>3. WithHits(c, S) = [answer EXCEPT ![c] = filled]
  BY DEF WithHits
<1> QED  BY <1>1, <1>2, <1>3

\* The decision kept for a key is never NONE for a caller that has an outcome.
LEMMA StoredDecision ==
  ASSUME TypeOK, NEW o \in Outcomes \ {"NONE"}, NEW d \in Verdicts(o),
         NEW k \in Keys, NEW s \in Stored(k, d)
  PROVE  s \in Decisions
<1>1. d \in Decisions
  BY DEF Verdicts, Decisions, Rejections, Outcomes
<1>2. cache[k] \in Decisions \cup {"NONE"}
  BY DEF TypeOK
<1> QED  BY <1>1, <1>2 DEF Stored, Cached

\* The helpers of a set are finitely many.
LEMMA HelperSetsFinite ==
  /\ IsFiniteSet(InProvider)
  /\ \A x : IsFiniteSet(Charged(x))
<1>1. InProvider \subseteq Callers
  BY DEF InProvider
<1>2. \A x : Charged(x) \subseteq Callers
  BY DEF Charged
<1> QED  BY <1>1, <1>2, CallersAssumption, FS_Subset

\* While a helper is in the provider a slot is taken.
LEMMA SlotInUse ==
  ASSUME HelperInv, NEW c \in Callers, helper[c] = "provider"
  PROVE  slots + 1 \in 0..MaxConcurrent
<1>1. c \in InProvider
  BY DEF InProvider
<1>2. Cardinality(InProvider) \in Nat /\ Cardinality(InProvider) # 0
  BY <1>1, HelperSetsFinite, FS_CardinalityType, FS_EmptySet
<1>3. slots \in 0..MaxConcurrent /\ slots + Cardinality(InProvider) = MaxConcurrent
  BY DEF HelperInv, SlotsConserved, TypeOK
<1>4. MaxConcurrent \in Nat
  BY LimitAssumption
<1> HIDE DEF InProvider
<1> QED  BY <1>2, <1>3, <1>4
----------------------------------------------------------------------------
(* The helper threads: types, slots and budgets *)

LEMMA InitHelperInv == Init => HelperInv
<1> SUFFICES ASSUME Init PROVE HelperInv
  OBVIOUS
<1>1. TypeOK
  BY LimitAssumption DEF Init, TypeOK, PCs, HelperPCs, Outcomes, Decisions
<1>2. InProvider = {} /\ \A x \in Cases : Charged(x) = {}
  BY DEF Init, InProvider, Charged
<1>3. Cardinality(InProvider) = 0 /\ \A x \in Cases : Cardinality(Charged(x)) = 0
  BY <1>2, FS_EmptySet
<1>4. SlotsConserved
  BY <1>3, LimitAssumption DEF Init, SlotsConserved
<1>5. BudgetLedger /\ HelperIdle
  BY <1>3 DEF Init, BudgetLedger, HelperIdle
<1> QED  BY <1>1, <1>4, <1>5 DEF HelperInv

\* A step of a caller leaves slots, calls and the provider's helpers alone; it
\* may start a helper, which is not yet charged.
LedgerUntouched ==
  /\ UNCHANGED <<slots, calls, asked>>
  /\ \A d \in Callers :
       \/ helper'[d] = helper[d]
       \/ helper[d] = "none" /\ helper'[d] = "budget"

LEMMA CallerKeepsLedger ==
  ASSUME HelperInv, LedgerUntouched
  PROVE  SlotsConserved' /\ BudgetLedger'
<1>1. InProvider' = InProvider
  BY DEF LedgerUntouched, InProvider
<1>2. \A x \in Cases : Charged(x)' = Charged(x)
  BY DEF LedgerUntouched, Charged
<1> QED  BY <1>1, <1>2 DEF LedgerUntouched, HelperInv, SlotsConserved, BudgetLedger

LEMMA CallerKeepsHelperInv ==
  ASSUME HelperInv, NEW c \in Callers, Caller(c)
  PROVE  HelperInv'
<1> USE DEF helperVars
<1>0. TypeOK
  BY DEF HelperInv
<1>8. HelperIdle'
  <2>1. \A d \in Callers \ {c} : pc'[d] = pc[d] /\ helper'[d] = helper[d]
    BY <1>0 DEF TypeOK, Caller, Lookup, Acquire, Recheck, TakeResult, TimesOut,
                Remember, RememberFails, NextKey
  <2>2. pc'[c] \in {"lookup", "lock", "recheck"} => helper'[c] = helper[c]
                    /\ pc[c] \in {"lookup", "lock", "recheck"}
    BY <1>0 DEF TypeOK, Caller, Lookup, Acquire, Recheck, TakeResult, TimesOut,
                Remember, RememberFails, NextKey
  <2> QED  BY <2>1, <2>2 DEF HelperInv, HelperIdle
<1> SUFFICES TypeOK' /\ LedgerUntouched
  BY <1>8, CallerKeepsLedger DEF HelperInv
<1>1. CASE Lookup(c)
  <2>1. answer' \in [Callers -> [Keys -> Decisions \cup {"NONE"}]]
    BY <1>0, <1>1, RequestAssumption, WithHitsType DEF Lookup
  <2>2. TypeOK'
    BY <1>0, <1>1, <2>1, RequestAssumption DEF Lookup, TypeOK, PCs
  <2> QED  BY <1>1, <2>2 DEF Lookup, LedgerUntouched
<1>2. CASE Acquire(c)
  BY <1>0, <1>2 DEF Acquire, TypeOK, PCs, LedgerUntouched
<1>3. CASE Recheck(c)
  <2> DEFINE left == todo[c] \ Hits(todo[c])
  <2>1. todo[c] \in SUBSET Keys /\ left \in SUBSET Keys
    BY <1>0 DEF TypeOK
  <2>2. answer' \in [Callers -> [Keys -> Decisions \cup {"NONE"}]]
    BY <1>0, <1>3, <2>1, WithHitsType DEF Recheck
  <2>3. todo' = [todo EXCEPT ![c] = left]
    BY <1>3 DEF Recheck
  <2>4. CASE left = {}
    BY <1>0, <1>3, <2>1, <2>2, <2>3, <2>4 DEF Recheck, TypeOK, PCs, LedgerUntouched
  <2>5. CASE left # {}
    <3>1. /\ pc' = [pc EXCEPT ![c] = "waiting"]
          /\ helper' = [helper EXCEPT ![c] = "budget"]
          /\ tries' = [tries EXCEPT ![c] = 1]
          /\ helper[c] = "none"
          /\ UNCHANGED <<lockKeys, outcome, result, calls, asked, slots, cache>>
      BY <1>3, <2>5 DEF Recheck, HelperInv, HelperIdle
    <3>2. LedgerUntouched
      BY <1>0, <3>1 DEF LedgerUntouched, TypeOK
    <3>3. TypeOK'
      BY <1>0, <2>1, <2>2, <2>3, <3>1, LimitAssumption DEF TypeOK, PCs, HelperPCs
    <3> QED  BY <3>2, <3>3
  <2> QED  BY <2>4, <2>5
<1>4. CASE TakeResult(c)
  <2>1. answer' \in [Callers -> [Keys -> Decisions \cup {"NONE"}]]
    <3>1. answer \in [Callers -> [Keys -> Decisions \cup {"NONE"}]]
      BY <1>0 DEF TypeOK
    <3> DEFINE refused == [k \in Keys |-> IF k \in todo[c] THEN "BUDGET" ELSE answer[c][k]]
    <3>2. refused \in [Keys -> Decisions \cup {"NONE"}]
      BY <3>1 DEF Decisions, Rejections
    <3>3. answer' = answer \/ answer' = [answer EXCEPT ![c] = refused]
      BY <1>4 DEF TakeResult
    <3> QED  BY <3>1, <3>2, <3>3
  <2>2. result[c] \in Outcomes
    BY <1>0 DEF TypeOK
  <2>3. pc' \in [Callers -> PCs] /\ todo' \in [Callers -> SUBSET Keys]
    BY <1>0, <1>4 DEF TakeResult, TypeOK, PCs
  <2>4. outcome' \in [Callers -> Outcomes] /\ UNCHANGED <<lockKeys, helperVars, cache>>
    BY <1>0, <1>4, <2>2 DEF TakeResult, TypeOK
  <2> QED  BY <1>0, <2>1, <2>3, <2>4 DEF TypeOK, LedgerUntouched
<1>5. CASE TimesOut(c)
  BY <1>0, <1>5 DEF TimesOut, TypeOK, PCs, Outcomes, LedgerUntouched
<1>6. ASSUME NEW k \in Keys, Remember(c, k) PROVE TypeOK' /\ LedgerUntouched
  <2>0. PICK d \in Verdicts(outcome[c]) : \E s \in Stored(k, d) :
               /\ cache' = [cache EXCEPT ![k] = s]
               /\ answer' = [answer EXCEPT ![c][k] = s]
    BY <1>6 DEF Remember
  <2>1. PICK s \in Stored(k, d) : /\ cache' = [cache EXCEPT ![k] = s]
                                  /\ answer' = [answer EXCEPT ![c][k] = s]
    BY <2>0
  <2>2. s \in Decisions \cup {"NONE"}
    <3>1. d \in Decisions \cup {"NONE"}
      BY <1>0 DEF TypeOK, Verdicts, Outcomes, Decisions, Rejections
    <3> QED  BY <1>0, <3>1 DEF Stored, TypeOK
  <2>3. TypeOK'
    BY <1>0, <1>6, <2>1, <2>2 DEF Remember, NextKey, TypeOK, PCs
  <2> QED  BY <1>6, <2>3 DEF Remember, LedgerUntouched
<1>7. ASSUME NEW k \in Keys, RememberFails(c, k) PROVE TypeOK' /\ LedgerUntouched
  <2>1. TypeOK'
    BY <1>0, <1>7 DEF RememberFails, NextKey, TypeOK, PCs, Decisions, Rejections
  <2> QED  BY <1>7, <2>1 DEF RememberFails, LedgerUntouched
<1> QED  BY <1>1, <1>2, <1>3, <1>4, <1>5, <1>6, <1>7 DEF Caller

\* One attempt is charged: it joins the helpers that wait for a slot.
LEMMA ChargeKeepsHelperInv ==
  ASSUME HelperInv, NEW c \in Callers, ChargeBudget(c)
  PROVE  HelperInv'
<1> USE DEF callerVars
<1>0. TypeOK /\ CaseOf[c] \in Cases /\ calls[CaseOf[c]] \in Nat
  BY RequestAssumption DEF HelperInv, TypeOK
<1>1. InProvider' = InProvider /\ SlotsConserved'
  <2>1. InProvider' = InProvider
    BY <1>0 DEF ChargeBudget, Finish, InProvider, TypeOK
  <2> QED  BY <2>1 DEF HelperInv, SlotsConserved, ChargeBudget
<1>2. HelperIdle'
  BY <1>0 DEF ChargeBudget, Finish, HelperInv, HelperIdle, TypeOK
<1>3. CASE calls[CaseOf[c]] >= MaxCallsPerCase
  <2>1. TypeOK'
    BY <1>0, <1>3 DEF ChargeBudget, Finish, TypeOK, HelperPCs, Outcomes
  <2>2. \A x \in Cases : Charged(x)' = Charged(x)
    BY <1>0, <1>3 DEF ChargeBudget, Finish, Charged, TypeOK
  <2>3. BudgetLedger'
    BY <1>3, <2>2 DEF HelperInv, BudgetLedger, ChargeBudget
  <2> QED  BY <1>1, <1>2, <2>1, <2>3 DEF HelperInv
<1>4. CASE ~(calls[CaseOf[c]] >= MaxCallsPerCase)
  <2>0. /\ helper[c] = "budget"
        /\ calls' = [calls EXCEPT ![CaseOf[c]] = @ + 1]
        /\ helper' = [helper EXCEPT ![c] = "slot"]
        /\ UNCHANGED <<callerVars, tries, result, asked, slots, cache>>
    BY <1>4 DEF ChargeBudget
  <2>1. TypeOK'
    BY <1>0, <1>4, <2>0, LimitAssumption DEF TypeOK, HelperPCs
  <2>2. ASSUME NEW x \in Cases
        PROVE  asked'[x] + Cardinality(Charged(x)') = calls'[x]
    <3>0. /\ asked[x] + Cardinality(Charged(x)) = calls[x] /\ asked[x] \in Nat
          /\ asked'[x] = asked[x]
          /\ Cardinality(Charged(x)) \in Nat
      BY <1>0, <2>0, HelperSetsFinite, FS_CardinalityType
      DEF HelperInv, BudgetLedger, TypeOK
    <3>1. CASE x = CaseOf[c]
      <4>1. Charged(x)' = Charged(x) \cup {c} /\ c \notin Charged(x)
        BY <1>0, <2>0, <3>1 DEF Charged, TypeOK
      <4>2. Cardinality(Charged(x)') = Cardinality(Charged(x)) + 1
        BY <4>1, HelperSetsFinite, FS_AddElement
      <4>3. calls'[x] = calls[x] + 1
        BY <1>0, <2>0, <3>1 DEF TypeOK
      <4> HIDE DEF Charged
      <4> QED  BY <3>0, <4>2, <4>3
    <3>2. CASE x # CaseOf[c]
      <4>1. Charged(x)' = Charged(x)
        BY <1>0, <2>0, <3>2 DEF Charged, TypeOK
      <4>2. calls'[x] = calls[x]
        BY <1>0, <2>0, <3>2 DEF TypeOK
      <4> QED  BY <3>0, <4>1, <4>2
    <3> QED  BY <3>1, <3>2
  <2> QED  BY <1>1, <1>2, <2>1, <2>2 DEF HelperInv, BudgetLedger
<1> QED  BY <1>3, <1>4

\* A charged helper takes a slot: the call it was charged for is made.
LEMMA EnterKeepsHelperInv ==
  ASSUME HelperInv, NEW c \in Callers, EnterProvider(c)
  PROVE  HelperInv'
<1> USE DEF callerVars
<1>0. TypeOK /\ CaseOf[c] \in Cases
  BY RequestAssumption DEF HelperInv
<1>1. TypeOK' /\ HelperIdle'
  <2>1. TypeOK'
    BY <1>0, LimitAssumption DEF EnterProvider, TypeOK, HelperPCs
  <2>2. HelperIdle'
    BY <1>0 DEF EnterProvider, HelperInv, HelperIdle, TypeOK
  <2> QED  BY <2>1, <2>2
<1>2. SlotsConserved'
  <2>1. InProvider' = InProvider \cup {c} /\ c \notin InProvider
    BY <1>0 DEF EnterProvider, InProvider, TypeOK
  <2>2. Cardinality(InProvider') = Cardinality(InProvider) + 1
    BY <2>1, HelperSetsFinite, FS_AddElement
  <2>3. Cardinality(InProvider) \in Nat
    BY HelperSetsFinite, FS_CardinalityType
  <2>4. slots' = slots - 1 /\ slots \in Nat /\ MaxConcurrent \in Nat
    BY <1>0, LimitAssumption DEF EnterProvider, TypeOK
  <2>5. slots + Cardinality(InProvider) = MaxConcurrent
    BY DEF HelperInv, SlotsConserved
  <2> HIDE DEF InProvider
  <2>6. slots' + Cardinality(InProvider') = MaxConcurrent
    BY <2>2, <2>3, <2>4, <2>5
  <2> QED  BY <2>6 DEF SlotsConserved
<1>3. ASSUME NEW x \in Cases
      PROVE  asked'[x] + Cardinality(Charged(x)') = calls'[x]
  <2>0. /\ asked[x] + Cardinality(Charged(x)) = calls[x] /\ asked[x] \in Nat
        /\ calls'[x] = calls[x]
        /\ Cardinality(Charged(x)) \in Nat
    BY <1>0, HelperSetsFinite, FS_CardinalityType
    DEF EnterProvider, HelperInv, BudgetLedger, TypeOK
  <2>1. CASE x = CaseOf[c]
    <3>1. Charged(x)' = Charged(x) \ {c} /\ c \in Charged(x)
      BY <1>0, <2>1 DEF EnterProvider, Charged, TypeOK
    <3>2. Cardinality(Charged(x)') = Cardinality(Charged(x)) - 1
      BY <3>1, HelperSetsFinite, FS_RemoveElement
    <3>3. asked'[x] = asked[x] + 1
      BY <1>0, <2>1 DEF EnterProvider, TypeOK
    <3> HIDE DEF Charged
    <3> QED  BY <2>0, <3>2, <3>3
  <2>2. CASE x # CaseOf[c]
    <3>1. Charged(x)' = Charged(x)
      BY <1>0, <2>2 DEF EnterProvider, Charged, TypeOK
    <3>2. asked'[x] = asked[x]
      BY <1>0, <2>2 DEF EnterProvider, TypeOK
    <3> QED  BY <2>0, <3>1, <3>2
  <2> QED  BY <2>1, <2>2
<1> QED  BY <1>1, <1>2, <1>3 DEF HelperInv, BudgetLedger

\* A helper that leaves the provider, to finish or to try again, gives its slot back.
LEMMA LeaveKeepsHelperInv ==
  ASSUME HelperInv, NEW c \in Callers, helper[c] = "provider",
         NEW h \in {"budget", "over"},
         helper' = [helper EXCEPT ![c] = h], slots' = slots + 1,
         tries' \in [Callers -> 0..MaxAttempts], result' \in [Callers -> Outcomes],
         UNCHANGED <<callerVars, calls, asked, cache>>
  PROVE  HelperInv'
<1> USE DEF callerVars
<1>0. TypeOK /\ slots + 1 \in 0..MaxConcurrent
  BY SlotInUse DEF HelperInv
<1>1. TypeOK' /\ HelperIdle'
  <2>1. TypeOK'
    BY <1>0 DEF TypeOK, HelperPCs
  <2>2. HelperIdle'
    BY <1>0 DEF HelperInv, HelperIdle, TypeOK
  <2> QED  BY <2>1, <2>2
<1>2. SlotsConserved'
  <2>1. InProvider' = InProvider \ {c} /\ c \in InProvider
    BY <1>0 DEF InProvider, TypeOK
  <2>2. Cardinality(InProvider') = Cardinality(InProvider) - 1
    BY <2>1, HelperSetsFinite, FS_RemoveElement
  <2>3. Cardinality(InProvider) \in Nat
    BY HelperSetsFinite, FS_CardinalityType
  <2>4. slots \in Nat /\ MaxConcurrent \in Nat
    BY <1>0, LimitAssumption DEF TypeOK
  <2>5. slots + Cardinality(InProvider) = MaxConcurrent
    BY DEF HelperInv, SlotsConserved
  <2> HIDE DEF InProvider
  <2>6. slots' + Cardinality(InProvider') = MaxConcurrent
    BY <2>2, <2>3, <2>4, <2>5
  <2> QED  BY <2>6 DEF SlotsConserved
<1>3. \A x \in Cases : Charged(x)' = Charged(x)
  BY <1>0 DEF Charged, TypeOK
<1>4. BudgetLedger'
  BY <1>3 DEF HelperInv, BudgetLedger
<1> QED  BY <1>1, <1>2, <1>4 DEF HelperInv

LEMMA HelperKeepsHelperInv ==
  ASSUME HelperInv, NEW c \in Callers, Helper(c)
  PROVE  HelperInv'
<1>0. TypeOK
  BY DEF HelperInv
<1>1. CASE ChargeBudget(c)
  BY <1>1, ChargeKeepsHelperInv
<1>2. CASE EnterProvider(c)
  BY <1>2, EnterKeepsHelperInv
<1>3. ASSUME NEW r \in {"ANSWERED", "FAILURE"}, ProviderReturns(c, r) PROVE HelperInv'
  <2>1. /\ helper[c] = "provider" /\ slots' = slots + 1
        /\ helper' = [helper EXCEPT ![c] = "over"]
        /\ UNCHANGED <<callerVars, calls, asked, cache>>
    BY <1>3 DEF ProviderReturns, Finish
  <2>2. tries' \in [Callers -> 0..MaxAttempts] /\ result' \in [Callers -> Outcomes]
    BY <1>0, <1>3 DEF ProviderReturns, Finish, TypeOK, Outcomes
  <2> QED  BY <2>1, <2>2, LeaveKeepsHelperInv
<1>4. CASE ProviderRetries(c)
  <2>1. /\ helper[c] = "provider" /\ slots' = slots + 1
        /\ helper' = [helper EXCEPT ![c] = "budget"]
        /\ UNCHANGED <<callerVars, calls, asked, cache>>
    BY <1>4 DEF ProviderRetries
  <2>2. tries' \in [Callers -> 0..MaxAttempts] /\ result' \in [Callers -> Outcomes]
    BY <1>0, <1>4, LimitAssumption DEF ProviderRetries, TypeOK
  <2> QED  BY <2>1, <2>2, LeaveKeepsHelperInv
<1>5. CASE ProviderExhausted(c)
  <2>1. /\ helper[c] = "provider" /\ slots' = slots + 1
        /\ helper' = [helper EXCEPT ![c] = "over"]
        /\ UNCHANGED <<callerVars, calls, asked, cache>>
    BY <1>5 DEF ProviderExhausted, Finish
  <2>2. tries' \in [Callers -> 0..MaxAttempts] /\ result' \in [Callers -> Outcomes]
    BY <1>0, <1>5 DEF ProviderExhausted, Finish, TypeOK, Outcomes
  <2> QED  BY <2>1, <2>2, LeaveKeepsHelperInv
<1> QED  BY <1>1, <1>2, <1>3, <1>4, <1>5 DEF Helper

LEMMA StutterKeepsHelperInv ==
  ASSUME HelperInv, UNCHANGED vars
  PROVE  HelperInv'
<1> USE DEF vars, callerVars, helperVars
<1>1. TypeOK' /\ HelperIdle'
  BY DEF HelperInv, TypeOK, HelperIdle
<1>2. LedgerUntouched
  BY DEF LedgerUntouched
<1> QED  BY <1>1, <1>2, CallerKeepsLedger DEF HelperInv

\* Whatever callers and helpers do, slots and budgets are accounted for.
THEOREM HelperInvHolds == Spec => []HelperInv
<1>1. HelperInv /\ [Next]_vars => HelperInv'
  BY CallerKeepsHelperInv, HelperKeepsHelperInv, StutterKeepsHelperInv DEF Next
<1> QED  BY <1>1, InitHelperInv, PTL DEF Spec

\* Every reachable state is well typed: no budget is overdrawn, the number of
\* free slots stays between none and all, no attempt exceeds the retry policy.
THEOREM TypeCorrect == Spec => []TypeOK
<1>1. HelperInv => TypeOK
  BY DEF HelperInv
<1> QED  BY <1>1, HelperInvHolds, PTL

\* service.py:308-309.  The slots taken are exactly the helpers in the provider,
\* abandoned ones included, for any number of workers and slots.
THEOREM SlotsAreConserved == Spec => []SlotsConserved
<1>1. HelperInv => SlotsConserved
  BY DEF HelperInv
<1> QED  BY <1>1, HelperInvHolds, PTL

\* service.py:301-309.  The provider is asked at most MaxCallsPerCase times for
\* a case, whatever retries, batches and abandoned helpers do.
THEOREM BudgetIsBounded == Spec => []BudgetBounded
<1>1. ASSUME HelperInv PROVE BudgetBounded
  <2>1. ASSUME NEW x \in Cases PROVE asked[x] <= MaxCallsPerCase
    <3>1. Cardinality(Charged(x)) \in Nat
      BY HelperSetsFinite, FS_CardinalityType
    <3>2. /\ asked[x] + Cardinality(Charged(x)) = calls[x]
          /\ asked[x] \in Nat /\ calls[x] \in 0..MaxCallsPerCase
          /\ MaxCallsPerCase \in Nat
      BY <1>1, LimitAssumption DEF HelperInv, BudgetLedger, TypeOK
    <3> HIDE DEF Charged
    <3> QED  BY <3>1, <3>2
  <2> QED  BY <2>1 DEF BudgetBounded
<1> QED  BY <1>1, HelperInvHolds, PTL
----------------------------------------------------------------------------
(* The callers: locks, answers and the cache *)

\* Helper threads and stuttering steps touch nothing of the callers.
LEMMA HelperFrame ==
  ASSUME NEW c \in Callers, Helper(c) \/ UNCHANGED vars
  PROVE  UNCHANGED <<pc, todo, lockKeys, outcome, answer, cache>>
BY DEF Helper, ChargeBudget, EnterProvider, ProviderReturns, ProviderRetries,
       ProviderExhausted, vars, callerVars

\* A step of one caller changes nothing of another.
LEMMA CallerFrame ==
  ASSUME TypeOK, NEW c \in Callers, Caller(c), NEW d \in Callers \ {c}
  PROVE  /\ pc'[d] = pc[d] /\ todo'[d] = todo[d] /\ lockKeys'[d] = lockKeys[d]
         /\ outcome'[d] = outcome[d] /\ answer'[d] = answer[d]
<1> USE DEF TypeOK
<1>1. CASE Lookup(c)
  BY <1>1 DEF Lookup, WithHits
<1>2. CASE Acquire(c)
  BY <1>2 DEF Acquire
<1>3. CASE Recheck(c)
  BY <1>3 DEF Recheck, WithHits
<1>4. CASE TakeResult(c)
  BY <1>4 DEF TakeResult
<1>5. CASE TimesOut(c)
  BY <1>5 DEF TimesOut
<1>6. ASSUME NEW k \in Keys, Remember(c, k) \/ RememberFails(c, k)
      PROVE  /\ pc'[d] = pc[d] /\ todo'[d] = todo[d] /\ lockKeys'[d] = lockKeys[d]
             /\ outcome'[d] = outcome[d] /\ answer'[d] = answer[d]
  BY <1>6 DEF Remember, RememberFails, NextKey
<1> QED  BY <1>1, <1>2, <1>3, <1>4, <1>5, <1>6 DEF Caller

\* A caller that holds its lock after a step held the same one before, or has
\* just acquired it while nobody else held it.
LEMMA LockSteps ==
  ASSUME TypeOK, NEW c \in Callers, Caller(c), Holds(c)'
  PROVE  /\ LockId(c)' = LockId(c)
         /\ \/ Holds(c)
            \/ \A d \in Callers \ {c} : Holds(d) => LockId(d) # LockId(c)
<1> USE DEF TypeOK, Holds
<1>1. CASE Lookup(c)
  BY <1>1 DEF Lookup
<1>2. CASE Acquire(c)
  BY <1>2 DEF Acquire, LockId
<1>3. CASE Recheck(c)
  BY <1>3 DEF Recheck, LockId
<1>4. CASE TakeResult(c)
  BY <1>4 DEF TakeResult, LockId
<1>5. CASE TimesOut(c)
  BY <1>5 DEF TimesOut, LockId
<1>6. ASSUME NEW k \in Keys, Remember(c, k) \/ RememberFails(c, k)
      PROVE  LockId(c)' = LockId(c) /\ Holds(c)
  BY <1>6 DEF Remember, RememberFails, NextKey, LockId
<1> QED  BY <1>1, <1>2, <1>3, <1>4, <1>5, <1>6 DEF Caller

LEMMA LockExclusiveStep ==
  ASSUME TypeOK, LockExclusive, [Next]_vars
  PROVE  LockExclusive'
<1>1. ASSUME NEW c \in Callers, Caller(c) PROVE LockExclusive'
  <2>1. \A d \in Callers \ {c} : Holds(d)' = Holds(d) /\ LockId(d)' = LockId(d)
    BY <1>1, CallerFrame DEF Holds, LockId
  <2>2. ASSUME NEW d \in Callers \ {c}, Holds(c)', Holds(d)'
        PROVE  LockId(c)' # LockId(d)'
    BY <1>1, <2>1, <2>2, LockSteps DEF LockExclusive
  <2>3. ASSUME NEW a \in Callers, NEW b \in Callers, a # b, Holds(a)', Holds(b)'
        PROVE  LockId(a)' # LockId(b)'
    BY <2>1, <2>2, <2>3 DEF LockExclusive
  <2> QED  BY <2>3 DEF LockExclusive
<1>2. ASSUME NEW c \in Callers, Helper(c) \/ UNCHANGED vars PROVE LockExclusive'
  BY <1>2, HelperFrame DEF LockExclusive, Holds, LockId
<1>3. CASE UNCHANGED vars
  BY <1>3 DEF vars, callerVars, LockExclusive, Holds, LockId
<1> QED  BY <1>1, <1>2, <1>3 DEF Next

\* service.py:159-171, 259-264.  No two callers are inside the same lock.
THEOREM LocksExclude == Spec => []LockExclusive
<1>1. Init => LockExclusive
  BY DEF Init, LockExclusive, Holds
<1> QED  BY <1>1, TypeCorrect, LockExclusiveStep, PTL DEF Spec

LEMMA OutcomeStep ==
  ASSUME TypeOK, OutcomeInStep, NEW c \in Callers, Caller(c)
  PROVE  /\ OutcomeInStep'
         /\ outcome'[c] = outcome[c] \/ outcome[c] = "NONE"
<1> USE DEF TypeOK
<1>1. CASE Lookup(c)
  BY <1>1 DEF Lookup, OutcomeInStep
<1>2. CASE Acquire(c)
  BY <1>2 DEF Acquire, OutcomeInStep
<1>3. CASE Recheck(c)
  BY <1>3 DEF Recheck, OutcomeInStep
<1>4. CASE TakeResult(c)
  BY <1>4 DEF TakeResult, OutcomeInStep
<1>5. CASE TimesOut(c)
  BY <1>5 DEF TimesOut, OutcomeInStep
<1>6. ASSUME NEW k \in Keys, Remember(c, k) \/ RememberFails(c, k)
      PROVE  OutcomeInStep' /\ outcome'[c] = outcome[c]
  BY <1>6 DEF Remember, RememberFails, NextKey, OutcomeInStep
<1> QED  BY <1>1, <1>2, <1>3, <1>4, <1>5, <1>6 DEF Caller

\* What Remember stores: a decision, accepted only on an answer or when it was
\* the accepted decision of the cache.
LEMMA RememberStores ==
  ASSUME TypeOK, OutcomeInStep, NEW c \in Callers, NEW k \in Keys, Remember(c, k)
  PROVE  \E s \in Decisions :
           /\ cache' = [cache EXCEPT ![k] = s]
           /\ answer' = [answer EXCEPT ![c][k] = s]
           /\ s = "ACCEPTED" => outcome[c] = "ANSWERED" \/ cache[k] = "ACCEPTED"
<1>1. outcome[c] \in Outcomes \ {"NONE"}
  BY DEF TypeOK, OutcomeInStep, Remember
<1>2. PICK d \in Verdicts(outcome[c]) : \E s \in Stored(k, d) :
             /\ cache' = [cache EXCEPT ![k] = s]
             /\ answer' = [answer EXCEPT ![c][k] = s]
  BY DEF Remember
<1>3. PICK s \in Stored(k, d) : /\ cache' = [cache EXCEPT ![k] = s]
                                /\ answer' = [answer EXCEPT ![c][k] = s]
  BY <1>2
<1>4. s \in Decisions
  BY <1>1, StoredDecision
<1>5. s = "ACCEPTED" => outcome[c] = "ANSWERED" \/ cache[k] = "ACCEPTED"
  BY <1>1 DEF Stored, Verdicts, Outcomes
<1> QED  BY <1>3, <1>4, <1>5

LEMMA DecidedStep ==
  ASSUME TypeOK, OutcomeInStep, DecidedOrTodo, NEW c \in Callers, Caller(c)
  PROVE  DecidedOrTodo'
<1> DEFINE Fine(d) ==
      /\ todo[d] \subseteq Wants[d]
      /\ pc[d] # "lookup" => \A k \in Wants[d] : k \in todo[d] \/ answer[d][k] # "NONE"
      /\ pc[d] = "done" => todo[d] = {}
<1>0. Wants[c] \subseteq Keys /\ Fine(c) /\ todo[c] \subseteq Keys
  BY RequestAssumption DEF DecidedOrTodo, TypeOK
<1> SUFFICES Fine(c)'
  BY CallerFrame DEF DecidedOrTodo
<1>1. CASE Lookup(c)
  BY <1>0, <1>1 DEF Lookup, TypeOK, WithHits, Hits, Cached
<1>2. CASE Acquire(c)
  BY <1>0, <1>2 DEF Acquire, TypeOK
<1>3. CASE Recheck(c)
  BY <1>0, <1>3 DEF Recheck, TypeOK, WithHits, Hits, Cached
<1>4. CASE TakeResult(c)
  <2>1. CASE result[c] = "BUDGET" /\ ~IsBatch(c)
    <3>1. todo'[c] = {} /\ pc[c] = "waiting"
      BY <1>4, <2>1 DEF TakeResult, TypeOK
    <3>2. \A j \in Keys : answer'[c][j] = IF j \in todo[c] THEN "BUDGET" ELSE answer[c][j]
      BY <1>4, <2>1 DEF TakeResult, TypeOK
    <3> QED  BY <1>0, <3>1, <3>2
  <2>2. CASE ~(result[c] = "BUDGET" /\ ~IsBatch(c))
    BY <1>0, <1>4, <2>2 DEF TakeResult, TypeOK
  <2> QED  BY <2>1, <2>2
<1>5. CASE TimesOut(c)
  BY <1>0, <1>5 DEF TimesOut, TypeOK
<1>6. ASSUME NEW k \in Keys, Remember(c, k) PROVE Fine(c)'
  <2>1. PICK s \in Decisions : answer' = [answer EXCEPT ![c][k] = s]
    BY <1>6, RememberStores
  <2>2. s # "NONE"
    BY DEF Decisions, Rejections
  <2>3. /\ todo'[c] = todo[c] \ {k} /\ pc[c] = "remember"
        /\ pc'[c] = "done" => todo[c] = {k}
    BY <1>6 DEF Remember, NextKey, TypeOK
  <2>4. answer'[c][k] = s /\ \A j \in Keys \ {k} : answer'[c][j] = answer[c][j]
    BY <2>1 DEF TypeOK
  <2> QED  BY <1>0, <2>2, <2>3, <2>4
<1>7. ASSUME NEW k \in Keys, RememberFails(c, k) PROVE Fine(c)'
  <2>1. /\ todo'[c] = todo[c] \ {k} /\ pc[c] = "remember"
        /\ pc'[c] = "done" => todo[c] = {k}
    BY <1>7 DEF RememberFails, NextKey, TypeOK
  <2>2. answer'[c][k] = "FAILURE" /\ \A j \in Keys \ {k} : answer'[c][j] = answer[c][j]
    BY <1>7 DEF RememberFails, TypeOK
  <2> QED  BY <1>0, <2>1, <2>2
<1> QED  BY <1>1, <1>2, <1>3, <1>4, <1>5, <1>6, <1>7 DEF Caller

LEMMA AcceptedStep ==
  ASSUME TypeOK, OutcomeInStep, DecidedOrTodo, AcceptedWasAnswered,
         NEW c \in Callers, Caller(c)
  PROVE  AcceptedWasAnswered'
<1> DEFINE Answered(k) == \E d \in Callers : k \in Wants[d] /\ outcome[d] = "ANSWERED"
<1>1. ASSUME NEW k \in Keys, Answered(k) PROVE Answered(k)'
  <2>1. PICK d \in Callers : k \in Wants[d] /\ outcome[d] = "ANSWERED"
    BY <1>1
  <2>2. outcome'[d] = "ANSWERED"
    BY <2>1, CallerFrame, OutcomeStep
  <2> QED  BY <2>1, <2>2
<1>2. ASSUME NEW k \in Keys, cache'[k] = "ACCEPTED"
      PROVE  cache[k] = "ACCEPTED" \/ Answered(k)
  <2>1. CASE cache' = cache
    BY <1>2, <2>1
  <2>2. ASSUME NEW j \in Keys, Remember(c, j)
        PROVE  cache[k] = "ACCEPTED" \/ Answered(k)
    <3>1. PICK s \in Decisions :
                 /\ cache' = [cache EXCEPT ![j] = s]
                 /\ s = "ACCEPTED" => outcome[c] = "ANSWERED" \/ cache[j] = "ACCEPTED"
      BY <2>2, RememberStores
    <3>2. j \in Wants[c]
      BY <2>2 DEF Remember, DecidedOrTodo
    <3> QED  BY <1>2, <3>1, <3>2 DEF TypeOK
  <2> QED  BY <2>1, <2>2 DEF Caller, Lookup, Acquire, Recheck, TakeResult, TimesOut,
                             RememberFails
<1> QED  BY <1>1, <1>2 DEF AcceptedWasAnswered

\* The inductive invariant of what the callers return and cache.
AnswerInv == OutcomeInStep /\ DecidedOrTodo /\ AcceptedWasAnswered

LEMMA AnswerInvHolds == Spec => []AnswerInv
<1>1. Init => AnswerInv
  BY DEF Init, AnswerInv, OutcomeInStep, DecidedOrTodo, AcceptedWasAnswered
<1>2. ASSUME TypeOK, AnswerInv, [Next]_vars PROVE AnswerInv'
  <2>1. ASSUME NEW c \in Callers, Caller(c) PROVE AnswerInv'
    BY <1>2, <2>1, OutcomeStep, DecidedStep, AcceptedStep DEF AnswerInv
  <2>2. CASE UNCHANGED <<pc, todo, lockKeys, outcome, answer, cache>>
    BY <1>2, <2>2 DEF AnswerInv, OutcomeInStep, DecidedOrTodo, AcceptedWasAnswered
  <2>3. CASE UNCHANGED vars
    BY <2>2, <2>3 DEF vars, callerVars
  <2> QED  BY <1>2, <2>1, <2>2, <2>3, HelperFrame DEF Next
<1> QED  BY <1>1, <1>2, TypeCorrect, PTL DEF Spec

\* service.py:155-173, 276-293.  A caller that has returned has a decision for
\* every key it wanted, whatever happened to the provider.
THEOREM ReturnsDecided == Spec => []DoneIsDecided
<1>1. AnswerInv => DoneIsDecided
  BY DEF AnswerInv, DecidedOrTodo, DoneIsDecided
<1> QED  BY <1>1, AnswerInvHolds, PTL

\* reliability.py:83-87, service.py:276-293.  Nothing is accepted that was not
\* answered while a caller that wants it was waiting.
THEOREM AcceptedAnswers == Spec => []AcceptedWasAnswered
<1>1. AnswerInv => AcceptedWasAnswered
  BY DEF AnswerInv
<1> QED  BY <1>1, AnswerInvHolds, PTL
----------------------------------------------------------------------------
(* Single-flight of identical single requests, and stable decisions *)

\* A cached decision is never removed.
LEMMA CachedStays ==
  ASSUME TypeOK, OutcomeInStep, NEW c \in Callers, Caller(c), NEW k \in Keys, Cached(k)
  PROVE  Cached(k)'
<1>1. ASSUME NEW j \in Keys, Remember(c, j) PROVE Cached(k)'
  <2>1. PICK s \in Decisions : cache' = [cache EXCEPT ![j] = s]
    BY <1>1, RememberStores
  <2> QED  BY <2>1 DEF Cached, TypeOK, Decisions, Rejections
<1>2. CASE UNCHANGED cache
  BY <1>2 DEF Cached
<1> QED  BY <1>1, <1>2 DEF Caller, Lookup, Acquire, Recheck, TakeResult, TimesOut,
                           RememberFails

\* A single request comes to a decision of its own only by remembering it.
LEMMA OwnDecisionStep ==
  ASSUME TypeOK, OutcomeInStep, DecidedOrTodo, NEW c \in Callers, Caller(c),
         ReturnsOwnDecision(c)'
  PROVE  \/ ReturnsOwnDecision(c)
         \/ pc[c] = "remember" /\ ~IsBatch(c) /\ \A k \in Wants[c] : Cached(k)'
<1>0. /\ pc'[c] = "done" /\ outcome'[c] \notin {"NONE", "BUDGET"} /\ ~IsBatch(c)
      /\ \A k \in Wants[c] : k \in Keys /\ answer'[c][k] # "FAILURE"
  BY RequestAssumption DEF ReturnsOwnDecision, IsBatch
<1>1. CASE Lookup(c) \/ Acquire(c) \/ Recheck(c) \/ TimesOut(c)
  BY <1>0, <1>1 DEF Lookup, Acquire, Recheck, TimesOut, TypeOK, OutcomeInStep
<1>2. CASE TakeResult(c)
  BY <1>0, <1>2 DEF TakeResult, TypeOK
<1>3. ASSUME NEW k \in Keys, Remember(c, k)
      PROVE  pc[c] = "remember" /\ \A j \in Wants[c] : Cached(j)'
  <2>1. PICK s \in Decisions : cache' = [cache EXCEPT ![k] = s]
    BY <1>3, RememberStores
  <2>2. Cached(k)'
    BY <2>1 DEF Cached, TypeOK, Decisions, Rejections
  <2>3. k \in Wants[c] /\ pc[c] = "remember"
    BY <1>3 DEF Remember, DecidedOrTodo
  <2>4. \A j \in Wants[c] : j = k
    BY <1>0, <2>3 DEF IsBatch
  <2> QED  BY <2>2, <2>3, <2>4
<1>4. ASSUME NEW k \in Keys, RememberFails(c, k) PROVE FALSE
  <2>1. k \in Wants[c] /\ answer'[c][k] = "FAILURE"
    BY <1>4 DEF RememberFails, DecidedOrTodo, TypeOK
  <2> QED  BY <1>0, <2>1
<1> QED  BY <1>0, <1>1, <1>2, <1>3, <1>4 DEF Caller

\* The inductive invariant of identical single requests.
SingleFlightInv == OwnDecisionCached /\ SingleKeyAskedOnce

LEMMA SingleFlightStep ==
  ASSUME TypeOK, LockExclusive, AnswerInv, SingleFlightInv, NEW c \in Callers, Caller(c)
  PROVE  SingleFlightInv'
<1> USE DEF AnswerInv
<1> DEFINE Past(d) == pc[d] \in {"waiting", "remember"}
<1>1. \A d \in Callers \ {c} :
        (ReturnsOwnDecision(d)' <=> ReturnsOwnDecision(d)) /\ (Past(d)' <=> Past(d))
  BY CallerFrame DEF ReturnsOwnDecision, IsBatch
<1>2. ASSUME NEW d \in Callers, ReturnsOwnDecision(d)'
      PROVE  \A k \in Wants[d] : Cached(k)'
  <2>1. CASE ReturnsOwnDecision(d)
    BY <2>1, CachedStays, RequestAssumption DEF SingleFlightInv, OwnDecisionCached
  <2>2. CASE ~ReturnsOwnDecision(d)
    BY <1>1, <1>2, <2>2, OwnDecisionStep
  <2> QED  BY <2>1, <2>2
<1>3. ASSUME NEW d \in Callers \ {c}, Wants[c] = Wants[d], ReturnsOwnDecision(d)
      PROVE  ~Past(c)' /\ ~ReturnsOwnDecision(c)'
  <2>1. /\ ~Past(c) /\ ~ReturnsOwnDecision(c)
        /\ \A k \in Wants[c] : k \in Keys /\ Cached(k)
    BY <1>3, RequestAssumption DEF SingleFlightInv, OwnDecisionCached, SingleKeyAskedOnce
  <2>2. ~ReturnsOwnDecision(c)'
    BY <2>1, OwnDecisionStep
  <2>3. ~Past(c)'
    <3>1. todo[c] \ Hits(todo[c]) = {}
      BY <2>1 DEF DecidedOrTodo, Hits
    <3>2. CASE Recheck(c)
      BY <3>1, <3>2 DEF Recheck, TypeOK
    <3>3. CASE Lookup(c) \/ Acquire(c)
      BY <3>3 DEF Lookup, Acquire, TypeOK
    <3>4. pc[c] # "waiting" /\ pc[c] # "remember"
      BY <2>1
    <3> QED  BY <3>2, <3>3, <3>4 DEF Caller, TakeResult, TimesOut, Remember, RememberFails
  <2> QED  BY <2>2, <2>3
<1>4. ASSUME ReturnsOwnDecision(c)', NEW d \in Callers \ {c}, Wants[c] = Wants[d]
      PROVE  ~Past(d) /\ ~ReturnsOwnDecision(d)
  <2>1. CASE ReturnsOwnDecision(c)
    BY <1>4, <2>1 DEF SingleFlightInv, OwnDecisionCached, SingleKeyAskedOnce
  <2>2. CASE pc[c] = "remember" /\ ~IsBatch(c)
    <3>1. ~ReturnsOwnDecision(d)
      BY <1>4, <2>2 DEF SingleFlightInv, OwnDecisionCached
    <3>2. ~IsBatch(d) /\ LockId(c) = LockId(d)
      BY <1>4, <2>2 DEF IsBatch, LockId
    <3>3. ~Past(d)
      BY <2>2, <3>2 DEF LockExclusive, Holds
    <3> QED  BY <3>1, <3>3
  <2> QED  BY <1>4, <2>1, <2>2, OwnDecisionStep
<1>5. OwnDecisionCached'
  <2>1. ASSUME NEW d \in Callers, ReturnsOwnDecision(d)', NEW e \in Callers \ {d},
               Wants[e] = Wants[d]
        PROVE  ~Past(e)'
    <3>1. CASE d = c
      BY <1>1, <1>4, <2>1, <3>1
    <3>2. CASE e = c
      BY <1>1, <1>3, <2>1, <3>2
    <3>3. CASE d # c /\ e # c
      BY <1>1, <2>1, <3>3 DEF SingleFlightInv, OwnDecisionCached
    <3> QED  BY <3>1, <3>2, <3>3
  <2> QED  BY <1>2, <2>1 DEF OwnDecisionCached
<1>6. SingleKeyAskedOnce'
  <2>1. ASSUME NEW d \in Callers, NEW e \in Callers, d # e, Wants[d] = Wants[e],
               ReturnsOwnDecision(d)'
        PROVE  ~ReturnsOwnDecision(e)'
    <3>1. CASE d = c
      BY <1>1, <1>4, <2>1, <3>1
    <3>2. CASE e = c
      BY <1>1, <1>3, <2>1, <3>2
    <3>3. CASE d # c /\ e # c
      BY <1>1, <2>1, <3>3 DEF SingleFlightInv, SingleKeyAskedOnce
    <3> QED  BY <3>1, <3>2, <3>3
  <2> QED  BY <2>1 DEF SingleKeyAskedOnce
<1> QED  BY <1>5, <1>6 DEF SingleFlightInv

\* service.py:255-264, 292-293.  Of identical single requests only one returns
\* with a decision its own provider call made, for any number of workers.
THEOREM SingleFlight == Spec => []SingleKeyAskedOnce
<1>1. Init => SingleFlightInv
  BY DEF Init, SingleFlightInv, OwnDecisionCached, SingleKeyAskedOnce, ReturnsOwnDecision
<1>2. ASSUME TypeOK, LockExclusive, AnswerInv, SingleFlightInv, [Next]_vars
      PROVE  SingleFlightInv'
  <2>1. CASE UNCHANGED <<pc, todo, lockKeys, outcome, answer, cache>>
    BY <1>2, <2>1 DEF SingleFlightInv, OwnDecisionCached, SingleKeyAskedOnce,
                      ReturnsOwnDecision, IsBatch, Cached
  <2>2. CASE UNCHANGED vars
    BY <2>1, <2>2 DEF vars, callerVars
  <2> QED  BY <1>2, <2>1, <2>2, SingleFlightStep, HelperFrame DEF Next
<1>3. SingleFlightInv => SingleKeyAskedOnce
  BY DEF SingleFlightInv
<1> QED  BY <1>1, <1>2, <1>3, TypeCorrect, LocksExclude, AnswerInvHolds, PTL DEF Spec

\* repositories.py:61-63, 121-125 with service.py:497-498.  Unless a session that
\* stored a decision is rolled back, a cached decision never changes.
THEOREM DecisionsAreStable ==
  ASSUME ~SessionsRollBack
  PROVE  Spec => DecisionStable
<1>1. ASSUME TypeOK, [Next]_vars
      PROVE  [\A k \in Keys : Cached(k) => cache'[k] = cache[k]]_vars
  <2>1. ASSUME NEW c \in Callers, NEW j \in Keys, Remember(c, j), NEW k \in Keys, Cached(k)
        PROVE  cache'[k] = cache[k]
    <3>1. PICK d \in Verdicts(outcome[c]) : \E s \in Stored(j, d) :
                 cache' = [cache EXCEPT ![j] = s]
      BY <2>1 DEF Remember
    <3>2. PICK s \in Stored(j, d) : cache' = [cache EXCEPT ![j] = s]
      BY <3>1
    <3>3. Cached(j) => s = cache[j]
      BY <1>1, <3>2 DEF Stored
    <3> QED  BY <1>1, <2>1, <3>2, <3>3 DEF TypeOK
  <2>2. CASE UNCHANGED cache
    BY <2>2
  <2>3. CASE UNCHANGED vars
    BY <2>3
  <2> QED  BY <1>1, <2>1, <2>2, <2>3, HelperFrame
           DEF Next, Caller, Lookup, Acquire, Recheck, TakeResult, TimesOut, RememberFails
<1>2. TypeOK /\ [Next]_vars
        => [\A k \in Keys : Cached(k) => cache'[k] = cache[k]]_vars
  BY <1>1
<1> QED  BY <1>2, TypeCorrect, PTL DEF Spec, DecisionStable
=============================================================================
