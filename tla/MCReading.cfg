SPECIFICATION ReadingSpec
CONSTANTS
  Null = Null
  Empty = Empty
  AnswerLine <- MCLine
  Metadata <- MCMetadata
  MaxLines = 2
  MaxChunkLines = 1
  MaxChunks = 2
  Adjustment <- MCAdjustment
  PaymentLike = {"payment"}
  InterestLike = {"interest charge"}
  Sheet <- MCSheet
  Tolerance = 1
  SmallExclusion = 3
INVARIANTS
  ReconciliationCurrent
  
CHECK_DEADLOCK FALSE
