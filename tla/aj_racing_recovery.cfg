SPECIFICATION Spec
CONSTANTS
  File = {edited, created, dropped}
  Existed = {edited, dropped}
  Deleted = {dropped}
  Tracked = {edited, dropped}
  Applier = {cli}
  Daemon = {daemon}
  LocalCommit = TRUE
  CalmRecovery = FALSE
  Budgets <- OneCrash
  NoFile = NoFile
PROPERTIES LiveApplyUndisturbed
