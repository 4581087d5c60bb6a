SPECIFICATION FairSpec
CONSTANTS
  e1 = e1
  e2 = e2
  Emails = {e1, e2}
  Contents <- MCContents
  File <- MCFile
  Attachments <- MCAttachments
  Versions = {1}
  OcrMaxCalls = 2
  OcrSlots = 1
  MaxRuns = 3
  MaxFaults = 1
  NoDocument = NoDocument
  NoEntry = NoEntry
  Nobody = Nobody
  
PROPERTIES DocumentsKept  RunsEnd
CHECK_DEADLOCK FALSE
