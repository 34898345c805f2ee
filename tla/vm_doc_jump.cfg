SPECIFICATION Spec
CONSTANTS
  Names <- MCNames
  PrintName = "print"
  Programs <- MCPrograms
  MaxRuns = 1
  MCFirst = {"assign_one"}
  MCRest = {"if_else"}
  MCLength = 1
  MCBodies = {"null"}
  MCClean = {}
  MCCleanLength = 0
  MCCleanBodies = {}
PROPERTIES
  FalseJumpTaken
CHECK_DEADLOCK FALSE
