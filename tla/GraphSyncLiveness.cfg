SPECIFICATION FairSpec
CONSTANTS
  Msgs = {m1, m2}
  Poison = {}
  MaxChanges = 2
  MaxFaults = 2
  MaxAges = 2
  PageSize = 2
  RetryMax = 2
  IntervalElapses = TRUE
  StopRequests = TRUE
  Contents = {c1}
  NoContent = NoContent
  Routes = {"COMPARED", "TECHNICAL_FAILURE"}
PROPERTIES CatchesUp SubscriptionKept
CHECK_DEADLOCK FALSE
