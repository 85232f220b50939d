SPECIFICATION FairSpec
CONSTANTS
  l1 = l1
  l2 = l2
  k1 = k1
  k2 = k2
  m1 = m1
  m2 = m2
  Listener = {l1, l2}
  Key = {k1, k2}
  KeysOf <- Shared
  Msg = {m1}
  KeyOf <- OneStream
  SeqOf <- InOrder
  MaxAttempts = 2
  MaxCrashes = 1
  MaxFaults = 2
  Faults = {"flag", "ack", "remove", "publish", "sweep", "beat"}
  NoMsg = NoMsg
PROPERTIES Settles OutboxDrains
CHECK_DEADLOCK FALSE
