CONSTANTS
  Threads = {p1}
  Targets = {t1}
  Containers = {c1}
  Jobs = {j1}
  Dispatcher = Dispatcher
  NoThread = NoThread
  NoTarget = NoTarget
  NoContainer = NoContainer
  NoJob = NoJob
  MaxProcs = 1
  MaxNotices = 0
  BatchMax = 2
  Faults = {"resume"}
  Careful = FALSE
  SharedTargets = FALSE

SPECIFICATION PySpec

INVARIANTS
  DispatcherOwnsTarget
