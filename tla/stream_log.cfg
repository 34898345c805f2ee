\* Blocks in blocks, and operands at the limits of their fields.
SPECIFICATION Spec
CONSTANTS
  Commands <- MCCommands
  Functions <- MCFunctions
  CopySize = 100
  Blocks = {"if", "else", "return", "function"}
  MaxSteps = 3
  MaxDepth = 2
  MCPlain = {"POP_OBJECT"}
  MCNumbers = {65536}
  MCSized = {"SET_NAME", "GET_ATTRIBUTESB"}
  MCSizes = {2, 256}
  MCCounts = {255, 256}
INVARIANTS
  TypeOK
  AllRead
  OverreadsOnlyMisfits
PROPERTIES
  ImplementsLog
CHECK_DEADLOCK FALSE
