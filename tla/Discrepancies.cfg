SPECIFICATION Spec
CONSTANTS
  f = f
  g = g
  a = a
  b = b
  Fields <- TwoFields
  Values <- AB
  Unknown = Unknown
  Extractions <- MismatchAndGap
  Correctable <- Questioned
  MaxOverrides = 2
  MaxComparisons = 3
  MaxSuggestions = 1
SYMMETRY Swapped
CHECK_DEADLOCK FALSE
INVARIANTS OneActivePerCell SuggestionAppliedOnce
PROPERTIES HistoryImmutable CorrectionsCarried
