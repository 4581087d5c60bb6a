SPECIFICATION Spec
CONSTANTS
  Requests = {r1, r2}
  SendKeys = {k1, k2}
  Categories = {c1, c2}
  Cases <- MCCases
  Payloads <- MCPayloads
  MaxRequests = 4
  MaxPipeline = 1
  MaxFaults = 1
  None = None
INVARIANTS  OneReplyPerDraft 
SYMMETRY Symmetry
CHECK_DEADLOCK FALSE
