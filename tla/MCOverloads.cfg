SPECIFICATION Spec
CHECK_DEADLOCK FALSE
CONSTANTS
  Functions <- MCFunctions
  Arguments <- MCArguments
  ReturnTypes <- MCReturnTypes
  Types <- MCTypes
  Rank <- MCRank
  NoType <- MCNoType
  NoFunction <- MCNoFunction
  MCNoType = MCNoType
  MCNoFunction = MCNoFunction
  MaxCandidates = 3
INVARIANTS
  FilteredInPlace
  ChoosesDominating
  ExactMatchWins
