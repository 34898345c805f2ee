SPECIFICATION Spec
CONSTANTS
  Names <- MCNames
  PrintName = "print"
  Programs <- MCPrograms
  MaxRuns = 1
  MCFirst = {"assign_one"}
  MCRest = {"plus_str"}
  MCLength = 1
  MCBodies = {"null"}
  MCClean = {}
  MCCleanLength = 0
  MCCleanBodies = {}
INVARIANTS
  NoUseAfterFree
CHECK_DEADLOCK FALSE
