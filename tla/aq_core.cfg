SPECIFICATION FairSpec
CONSTANTS
  d1 = d1
  mail = mail
  post = post
  NoKey = NoKey
  Draft = {d1}
  Action = {mail, post}
  DraftOf <- OneDraft
  Place <- DeclaredOrder
  Class <- DeclaredClass
  HasUndo = {}
  Worker = {w1}
  MaxAttempts = 2
  MaxResends = 2
  MaxFaults = 2
  Faults = {"crash", "recover", "record"}
  CarefulPerson = TRUE
INVARIANTS TypeOK NeverTwice IrrecoverableLast SagaOrder ReasonHonest
PROPERTIES Progress KeepsItsPromise
