SPECIFICATION FairSpec
CONSTANTS
  MacroNames <- Names
  Programs <- AllPrograms
  IncludedFile <- Included
  Redefinition <- Redefined
INVARIANTS
  NoSelfExpansion
  ArgumentsMatch
  DisabledOnStack
  MatchedArgumentsEnd
PROPERTIES
  EditsOnlyUnusedMacros
  ExpandsAsDefined
  Termination
