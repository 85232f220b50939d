SPECIFICATION Spec
CONSTANTS
  l1 = l1
  l2 = l2
  k1 = k1
  k2 = k2
  m1 = m1
  m2 = m2
  Listener = {l1, l2}
  Key = {k1, k2}
  KeysOf <- Shared
  Msg = {m1, m2}
  KeyOf <- TwoStreams
  SeqOf <- Alike
  MaxAttempts = 2
  MaxCrashes = 0
  MaxFaults = 0
  Faults = {}
  NoMsg = NoMsg
INVARIANT NothingDropped
CHECK_DEADLOCK FALSE
