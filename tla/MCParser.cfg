SPECIFICATION Spec
CONSTANT Programs <- MCPrograms
INVARIANTS
    EatenTokensMatch
    BindsTight
    NodesNest
    AcceptsTheLanguage
PROPERTY EveryParseEnds
CHECK_DEADLOCK FALSE
