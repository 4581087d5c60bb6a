SPECIFICATION Spec
CONSTANTS
  Requests = {r1, r2}
  SendKeys = {k1, k2}
  Categories = {c1, c2}
  Cases <- MCCases
  Payloads <- MCPayloads
  MaxRequests = 4
  MaxPipeline = 0
  MaxFaults = 0
  None = None
INVARIANT NoDuplicateReply
CHECK_DEADLOCK FALSE
