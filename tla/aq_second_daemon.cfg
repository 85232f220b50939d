SPECIFICATION Spec
CONSTANTS
  d1 = d1
  mail = mail
  post = post
  NoKey = NoKey
  Draft = {d1}
  Action = {post}
  DraftOf <- LoneDraft
  Place <- LoneOrder
  Class <- LoneClass
  HasUndo = {}
  Worker = {w1, w2}
  MaxAttempts = 2
  MaxResends = 1
  MaxFaults = 0
  Faults = {}
  CarefulPerson = TRUE
INVARIANTS NeverTwice
