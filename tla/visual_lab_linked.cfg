SPECIFICATION Spec
CONSTANTS
  Scenarios <- Linked
  Checks <- NoChecks
  Texts <- NoTexts
  MaxPending = 2
  NoOption = NoOption
  NoText = NoText
  NoKey = NoKey
INVARIANTS ActiveStepIsShown EndsHaveColumns
PROPERTIES FocusReturns NextFollowsPath PreviousUndoesNext ClickedNodeIsActive
