CONSTANTS
  Objects <- MCObjects
  Expressions <- MCExpressions
  MCTokens = {}
  MCLength = 0
  MCOperators = {"MINUS", "MUL"}
  MCOperands = {"INTEGER"}
  MCHard = {}
  MCSentence = 3
  MCLong = 3
  MCUnary = {}
  MCWide = {}
  Positions = 256
SPECIFICATION Spec
INVARIANTS CalculatorAgrees
CHECK_DEADLOCK FALSE
