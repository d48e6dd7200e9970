CONSTANTS
  Word = 16
  Symbols <- MCSymbols
  Texts <- MCTexts
  Queries <- MCQueries
SPECIFICATION Spec
INVARIANTS
  HitsExact
  HitsSound
  LookupFinds
  SearchEnds
CHECK_DEADLOCK FALSE
