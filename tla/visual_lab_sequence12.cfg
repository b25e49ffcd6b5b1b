SPECIFICATION Spec
CONSTANTS
  Scenarios <- SequenceScenarios
  Checks <- NoChecks
  Texts <- NoTexts
  MaxPending = 1
  NoOption = NoOption
  NoText = NoText
  NoKey = NoKey
PROPERTIES LaneOpensAtStart
