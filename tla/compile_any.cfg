\* Objects in any order, and sentences of two statements with blocks in blocks.
SPECIFICATION FairSpec
CONSTANTS
  Objects <- MCObjects
  Lines <- MCLines
  MCKinds = {"func f", "class A", "if", "else", "return", "x", "=", ";",
             "(x)", "(1)", "{1;}", "{else{}}"}
  MCLength = 4
  MCSimple = {"x = f(1)", "x", "return x"}
  MCBlocks = 2
INVARIANTS
  TypeOK
  HangsUnfinished
  SentencesTranslated
  InstructionsWhole
  PathsAgree
  BlocksFit
PROPERTIES
  LinesCompile
CHECK_DEADLOCK FALSE
