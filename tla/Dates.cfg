SPECIFICATION Spec
CONSTANTS
  Zones <- MCZones
  Starts <- MCStarts
  Days = 10
INVARIANTS
  ReadsItsOwnDates
CHECK_DEADLOCK FALSE
