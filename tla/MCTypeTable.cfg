SPECIFICATION Spec
CONSTANTS
  PrimTypes = {1}
  ShaderTypes = {2}
  Sizes = {2}
  MaxParts = 1
  MaxTypes = 4
  Hash <- MCHash
INVARIANTS
  RegisteredAreFound
  AnswersHold
  EqualTypesAreOne
PROPERTY ImplementsInterning
