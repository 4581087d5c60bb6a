SPECIFICATION Spec
CONSTANTS
  Msgs = {m1, m2}
  Poison = {}
  MaxChanges = 3
  MaxFaults = 2
  MaxAges = 0
  PageSize = 2
  RetryMax = 1
  IntervalElapses = TRUE
  StopRequests = FALSE
  Contents = {c1}
  NoContent = NoContent
  Routes = {"COMPARED", "DOCUMENTS_BLOCKED", "TECHNICAL_FAILURE"}
SYMMETRY Symmetry
INVARIANTS CursorCoversNew CursorCoversLifecycle 
 
