SPECIFICATION Spec
CONSTANTS
  OrderIds <- FiveOrderIds
  Buckets = 4
  NoId = NoId
INVARIANTS AnswerIsSorted
