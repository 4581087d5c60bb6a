SPECIFICATION FairSpec
CONSTANTS
  m1 = m1
  m2 = m2
  c1 = c1
  c2 = c2
  w1 = w1
  w2 = w2
  Msgs = {m1, m2}
  Contents = {c1, c2}
  NoContent = NoContent
  Routes = {"COMPARED", "TECHNICAL_FAILURE"}
  Workers = {w1}
  MaxChanges = 2
  MaxRuns = 1
  MaxFaults = 1
  RetryMax = 2
  StopRequests = TRUE
INVARIANTS NewMessageProcessedOnce BacklogComplete
PROPERTIES PollingSettles
CHECK_DEADLOCK FALSE
