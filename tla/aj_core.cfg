SPECIFICATION FairSpec
CONSTANTS
  File = {edited, created, dropped}
  Existed = {edited, dropped}
  Deleted = {dropped}
  Tracked = {edited, dropped}
  Applier = {cli}
  Daemon = {daemon}
  LocalCommit = TRUE
  CalmRecovery = TRUE
  Budgets <- CrashBudgets
  NoFile = NoFile
INVARIANTS TypeOK AllOrNothing OriginalsKept AppliedIsWhole ActionsFollowStatus
PROPERTIES LiveApplyUndisturbed Converges
