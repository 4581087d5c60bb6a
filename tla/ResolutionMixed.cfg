SPECIFICATION FairSpec
CONSTANTS
  w1 = w1
  w2 = w2
  w3 = w3
  k1 = k1
  k2 = k2
  e1 = e1
  e2 = e2
  Callers = {w1, w2, w3}
  Cases = {e1, e2}
  Keys = {k1, k2}
  CaseOf <- MixedCase
  Wants <- MixedWants
  MaxCallsPerCase = 2
  MaxConcurrent = 1
  MaxAttempts = 2
  SessionsRollBack = FALSE
INVARIANTS BudgetBounded SlotsConserved SingleKeyAskedOnce AcceptedWasAnswered DoneIsDecided
PROPERTIES DecisionStable CallersReturn
CHECK_DEADLOCK FALSE
