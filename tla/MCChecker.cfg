SPECIFICATION Spec
CONSTANTS
  f = f
  add = add
  T = T
  U = U
  S = S
  NoType = NoType
  Names <- TwoNames
  Operators <- OneOperator
  FuncTypes <- TwoTypes
  ShaderTypes <- OneShader
  MaxNodes = 4
SYMMETRY TypeSymmetry
INVARIANTS
  EveryCallHasItsScope
  ScopesMatchCalls
  JumpsBind
  LexicalScope
  VisibleOverloadsDiffer
