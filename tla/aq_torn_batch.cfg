SPECIFICATION Spec
CONSTANTS
  d1 = d1
  mail = mail
  post = post
  NoKey = NoKey
  Draft = {d1}
  Action = {mail, post}
  DraftOf <- OneDraft
  Place <- DeclaredOrder
  Class <- DeclaredClass
  HasUndo = {}
  Worker = {w1}
  MaxAttempts = 2
  MaxResends = 1
  MaxFaults = 1
  Faults = {"torn"}
  CarefulPerson = TRUE
INVARIANTS IrrecoverableLast
