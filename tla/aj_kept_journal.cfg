SPECIFICATION Spec
CONSTANTS
  File = {edited, created, dropped}
  Existed = {edited, dropped}
  Deleted = {dropped}
  Tracked = {edited, dropped}
  Applier = {cli}
  Daemon = {daemon}
  LocalCommit = TRUE
  CalmRecovery = TRUE
  Budgets <- OneCrashOneRestore
  NoFile = NoFile
INVARIANTS OriginalsKept
