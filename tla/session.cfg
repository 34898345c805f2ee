\* Two lines one after the other, with mistakes and without.
SPECIFICATION Spec
CONSTANTS
  Names <- MCNames
  Lines <- MCLines
  MaxRuns = 2
  MCOthers = {"x", "(10", "class f {}", "print();", "a;", "return 10;", "2147483648;"}
INVARIANTS
  TypeOK
  SentencesBalanced
PROPERTIES
  ImplementsSession
  LinesAnswered
CHECK_DEADLOCK FALSE
