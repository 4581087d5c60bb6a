SPECIFICATION Spec
CONSTANTS
  Requests = {r1}
  Targets = {t1, t2}
  AiTargets = {t1}
  Reasons = {"READINESS_UNRESOLVED"}
  Settled = {"FAILED"}
  NewStatuses = {"PROPOSED"}
  Decisions = {"APPROVED", "REJECTED"}
  StaleCase = {FALSE}
  MaxSyncs = 2
  MaxOverrides = 2
  MaxFaults = 1
INVARIANTS BlockedIsReviewed DecisionsDurable PlanWritesOnce AppliedIsCompared
  
CHECK_DEADLOCK FALSE
