CONSTANTS
  Contents = {a, b}
  Inodes = {i1}
  RawIds <- MCRawIds
  MaxTaskId = 3
  MaxTasks = 2
  Routes = {drop, inetsim}
  Drop = drop
  VMs = {linux, windows}
  MaxFetches = 2
  None = None
  Backends = {"cape", "qemu"}
  QemuRoutes = {drop}
  MaxRounds = 1
  MaxCorrections = 1
  Hints = {"package"}
  StaleIds <- MCStaleIds
  StaleContent = c
  MaxCalls = 2
  MaxDisturbances = 0
SPECIFICATION StageSpec
INVARIANT RetriedBeforeGivingUp
