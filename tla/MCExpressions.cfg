CONSTANTS
  Variables <- MCVariables
  Structure <- MCStructure
  Functions <- MCFunctions
  Units <- MCUnits
  NoType = NoType
  NoFunction = NoFunction
SPECIFICATION Spec
CHECK_DEADLOCK FALSE
INVARIANTS
  AcceptedIsTyped
  RejectedIsWrong
PROPERTIES
  RecheckIsStable
