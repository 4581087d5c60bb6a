SPECIFICATION Spec
CONSTANTS
  Msgs = {m1}
  Poison = {}
  MaxChanges = 2
  MaxFaults = 1
  MaxAges = 0
  PageSize = 2
  RetryMax = 1
  IntervalElapses = TRUE
  StopRequests = FALSE
  Contents = {c1}
  NoContent = NoContent
  Routes = {"COMPARED"}
INVARIANT FailureHoldsCursor
