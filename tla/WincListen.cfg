CONSTANTS
  Targets = {t}
  MyTarget = t
  Jobs = {j1}
  NoTarget = NoTarget
  NoJob = NoJob
  MaxProcs = 2
  MaxNotices = 1
  BatchMax = 2
  Faults = {"associate", "resume"}
  Careful = FALSE
  ExitCodes = {"ok", "failed"}
  StillActive = "still_active"

SPECIFICATION WincSpec

INVARIANT OnlyLaterEventsLost
