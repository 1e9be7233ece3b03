CONSTANTS
  Contents = {a, b}
  Inodes = {i1}
  RawIds <- MCRawIds
  MaxTaskId = 3
  MaxTasks = 2
  Routes = {drop, inetsim}
  Drop = drop
  VMs = {linux, windows}
  MaxFetches = 2
  None = None
  Backends = {"cape", "qemu"}
  QemuRoutes = {drop}
  MaxRounds = 2
  MaxCorrections = 1
  Hints = {"package"}
  StaleIds <- MCStaleIds
  StaleContent = c
  MaxCalls = 2
  MaxDisturbances = 1
SPECIFICATION StageSpec
INVARIANT StageTypeOK
INVARIANT GateEvidence
INVARIANT HandedReport
INVARIANT DestroyedVMFailsStage
INVARIANT LeaseSpansStage
INVARIANT HarnessCopyLandsLast
PROPERTY ImplementsLedger
PROPERTY StageTerminates
