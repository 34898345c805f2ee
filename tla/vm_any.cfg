\* Programs of every kind, with mistakes and without.
SPECIFICATION FairSpec
CONSTANTS
  Names <- MCNames
  PrintName = "print"
  Programs <- MCPrograms
  MaxRuns = 1
  MCFirst = {"assign_one", "assign_str", "assign_none", "assign_f"}
  MCRest = {"assign_one", "assign_self", "assign_sum", "assign_call", "call_x",
            "call_f", "call_str", "call_nested", "call_short", "call_long",
            "call_value", "print_x", "print_nothing", "negate", "plus",
            "plus_str", "equal", "empty", "unknown", "mixed", "give", "if_true", "if_else",
            "if_small", "if_fifteen", "if_ten"}
  MCLength = 1
  MCBodies = {"null", "give_a", "give_none", "give_sum", "give_twice",
              "give_void", "rebind", "give_in_if", "again", "call_a", "inner",
              "give_g", "inner_again", "else_first"}
  MCClean = {"assign_self", "assign_sum", "result_a", "call_one", "call_f",
             "call_nested", "print_x", "negate", "plus", "if_true", "if_else",
             "if_small", "if_ten", "if_fifteen", "call_long", "print_nothing"}
  MCCleanLength = 2
  MCCleanBodies = {"null", "give_a", "give_none", "rebind", "inner", "else_first"}
INVARIANTS
  TypeOK
  RefsExact
  ArgumentsLive
  FramesNest
  CleanFaults
  StacksFollowCode
  NeverShort
PROPERTIES
  AllFreed
  RunsForward
  LinesEnd
CHECK_DEADLOCK FALSE
