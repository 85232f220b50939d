SPECIFICATION FairSpec
CONSTANTS
  l1 = l1
  Listener = {l1}
  NumStages = 1
  NumKeys = 2
  MaxFails = 2
  MaxCommands = 2
  MaxCrashes = 1
  MaxFaults = 1
  Faults = {"consume", "save", "context"}
  Absent = Absent
  Empty = Empty
  Mixed = Mixed
INVARIANTS TypeOK PauseBites
PROPERTIES SuspendsForCause StopEndsRotation StopIsHeeded RestartIsHeeded
CHECK_DEADLOCK FALSE
