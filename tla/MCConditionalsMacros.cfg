SPECIFICATION Spec
CONSTANTS
  Conditions <- AllConditions
  MaxNesting = 2
  IntBits = 8
  Macros <- MCMacros
PROPERTY BranchesFollowConditions
