SPECIFICATION FairSpec
CONSTANTS
  old = old
  new = new
  bad = bad
  launch = launch
  session = session
  goal = goal
  h1 = h1
  h2 = h2
  Builds = {old, new, bad}
  Broken = {bad}
  Mode = "when_idle"
  MaxAttempts = 2
  Launch = {launch}
  Session = {session}
  Outside = {}
  Helper = {h1, h2}
  MaxInstalls = 1
  MaxManual = 1
  MaxFaults = 1
  Faults = {"read", "record", "spawn", "die", "crash"}
  NoBuild = NoBuild
INVARIANTS TypeOK RestartCap DownForCause
PROPERTIES CutsOnlyTheUnseen Settles
CHECK_DEADLOCK FALSE
