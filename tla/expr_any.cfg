\* Any four objects, and sentences.
SPECIFICATION FairSpec
CONSTANTS
  Objects <- MCObjects
  Expressions <- MCExpressions
  MCTokens = {"INTEGER", "PLUS", "MUL", "BIN_NOT", "DOT", "(a)", "{}",
              "f(g(),a-b)", "a.b"}
  MCLength = 4
  MCOperators = {"LESSER", "MINUS", "MUL"}
  MCOperands = {"INTEGER", "((a-b)*c-d)", "f(g(),a-b)"}
  MCHard = {"(a-b)", "((a))", "f(a,(b))", "large", "(large)"}
  MCSentence = 3
  MCLong = 5
  MCUnary = {"MINUS"}
  MCWide = {"LESSER", "MINUS"}
  Positions = 10
INVARIANTS
  TypeOK
  NoOperandTwice
  SentencesAccepted
  PendingValues
  MeaningKept
PROPERTIES
  Compiled
CHECK_DEADLOCK FALSE
