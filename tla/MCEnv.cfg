SPECIFICATION FairSpec
CONSTANTS
  NULL = NULL
  NoDecl = NoDecl
  x = x
  y = y
  d1 = d1
  d2 = d2
  c1 = c1
  c2 = c2
  c3 = c3
  Names <- TwoNames
  Decls <- TwoDecls
  Kinds <- OneKind
  Cells <- ThreeCells
  MaxScopes = 2
INVARIANTS
  NoSharedSymbols
PROPERTIES
  ImplementsScopeSpec
  ClearingEnds
CHECK_DEADLOCK FALSE
