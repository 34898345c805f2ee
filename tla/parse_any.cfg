SPECIFICATION FairSpec
CONSTANTS
  Texts <- MCTexts
  MCLength = 4
  MCBrackets = 5
  MCTokens = {1, 2, 3, 4, 5, 6, 7, 8, 9, 10, 11, 12}
  MCSentence = 3
INVARIANTS TypeOK DigitNames EveryCharacter TokensReturn TreeSpellsTokens BalanceVisible
PROPERTY LinesParsed
CHECK_DEADLOCK FALSE
