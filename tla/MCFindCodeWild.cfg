CONSTANTS
  Word = 16
  Symbols <- MCSymbols
  Texts <- MCWildTexts
  Queries <- MCWildQueries
SPECIFICATION Spec
INVARIANT WildcardFound
CHECK_DEADLOCK FALSE
