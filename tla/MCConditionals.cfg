SPECIFICATION Spec
CONSTANTS
  Conditions <- PlainConditions
  MaxNesting = 5
  IntBits = 8
  Macros <- MCMacros
INVARIANT OuterBranchesSelected
INVARIANT ConditionsHaveTheirValue
PROPERTY SkippedGroupsAreOpaque
PROPERTY ImplementsCondSpec
