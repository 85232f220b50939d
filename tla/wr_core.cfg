SPECIFICATION Spec
CONSTANTS
  l1 = l1
  l2 = l2
  k1 = k1
  k2 = k2
  m1 = m1
  m2 = m2
  Listener = {l1, l2}
  Key = {k1, k2}
  KeysOf <- Shared
  Msg = {m1, m2}
  KeyOf <- OneStream
  SeqOf <- InOrder
  MaxAttempts = 2
  MaxCrashes = 1
  MaxFaults = 1
  Faults = {"flag", "ack", "remove", "sweep", "beat"}
  NoMsg = NoMsg
INVARIANTS TypeOK LaunchCap OneLaunchAtATime NothingDropped
PROPERTY KeepsPromise
CHECK_DEADLOCK FALSE
