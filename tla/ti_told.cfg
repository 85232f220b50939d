SPECIFICATION Spec
CONSTANTS
  r1 = r1
  r2 = r2
  r3 = r3
  Request = {r1, r2, r3}
  Twin <- Twins
  Goal = {g1, g2}
  MaxClaims = 2
  MaxRecords = 1
  PerGoal = 2
  Outstanding = 2
  Answers = {"drafted", "applied"}
  MaxFaults = 1
  Nobody = Nobody
INVARIANTS TheToldCanAsk
