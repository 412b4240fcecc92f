SPECIFICATION RSpec
CONSTANTS
  Char <- MCChar
  Bases <- MCBases
  Paths <- MCPaths
  Wishes <- MCWishes
  Lines <- MCLines
  MaxTable = 3
INVARIANTS
  MostSpecificAnswers
  MatchIsBySegments
  ArrivesAsMeant
CHECK_DEADLOCK FALSE
