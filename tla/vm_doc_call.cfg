SPECIFICATION Spec
CONSTANTS
  Names <- MCNames
  PrintName = "print"
  Programs <- MCPrograms
  MaxRuns = 1
  MCFirst = {"assign_one"}
  MCRest = {"call_x"}
  MCLength = 1
  MCBodies = {"again"}
  MCClean = {}
  MCCleanLength = 0
  MCCleanBodies = {}
PROPERTIES
  CallRunsBody
CHECK_DEADLOCK FALSE
