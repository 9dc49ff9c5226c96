SPECIFICATION Spec
CONSTANTS
  Texts <- MCTexts
  Keywords <- MCKeywords
INVARIANTS
  LongestLexeme
  EveryCharacterOnce
