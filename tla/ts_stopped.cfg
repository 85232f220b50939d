SPECIFICATION Spec
CONSTANTS
  l1 = l1
  Listener = {l1}
  NumStages = 1
  NumKeys = 2
  MaxFails = 2
  MaxCommands = 2
  MaxCrashes = 1
  MaxFaults = 0
  Faults = {}
  Absent = Absent
  Empty = Empty
  Mixed = Mixed
INVARIANTS StopIsFinal
CHECK_DEADLOCK FALSE
