SPECIFICATION Spec
CONSTANTS
  Scenarios <- Incomplete
  Checks <- OneCheck
  Texts <- OneText
  MaxPending = 1
  NoOption = NoOption
  NoText = NoText
  NoKey = NoKey
INVARIANTS TypeOK UnseenUntilPredicted

