SPECIFICATION Spec
CONSTANTS
  Categories <- MCCategories
  Lexical <- MCLexical
  Table <- MCTable
  Mails <- MCMails
  MaxAttachments = 3
  Files <- MCFiles
  Documents <- MCDocuments
  Escalated = {Unknown, Decided}
  FieldNames = {"consignee", "port_of_loading", "port_of_discharge", "container_count"}
  NoField = NoField
  Blocks = {"consignee"}
  Followed = {"port_of_loading", "port_of_discharge"}
  Counts = {"container_count"}
  Dictionary <- MCDictionary
  NonGross = {"net"}
  Placeholders <- MCPlaceholders
  Reads <- MCReads
  Unknown = Unknown
  Sides <- MCSides
  NoNumber = NoNumber
  NoName = NoName
  NoCode = NoCode
  NoPort = NoPort
  Approved <- MCApproved
  Similar <- MCSimilar
  LegalWords <- MCLegalWords
  LocalWords <- MCLocalWords
  Shortens <- MCShortens
INVARIANTS FilenamesNeverDecide  EvidenceDecides ApprovedPortsDecide
CHECK_DEADLOCK FALSE
