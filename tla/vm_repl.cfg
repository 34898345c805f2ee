\* Two lines one after the other, with leaks in the first.
SPECIFICATION Spec
CONSTANTS
  Names <- MCNames
  PrintName = "print"
  Programs <- MCPrograms
  MaxRuns = 2
  MCFirst = {"assign_str", "assign_f"}
  MCRest = {"assign_call", "call_x", "give", "equal"}
  MCLength = 1
  MCBodies = {"null", "give_twice", "give_g"}
  MCClean = {}
  MCCleanLength = 0
  MCCleanBodies = {}
INVARIANTS
  LinesIsolated
  TypesValid
CHECK_DEADLOCK FALSE
