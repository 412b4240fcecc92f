SPECIFICATION PackageSpec
CONSTANTS
  MaxBody = 3
  MaxCalls = 4
INVARIANTS
  ReadsAsWritten
CHECK_DEADLOCK FALSE
