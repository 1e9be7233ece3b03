CONSTANTS
  Contents = {a, b}
  Inodes = {i1, i2}
  RawIds <- MCRawIds
  MaxTaskId = 3
  MaxTasks = 2
  Routes = {drop, inetsim}
  Drop = drop
  VMs = {vm}
  MaxFetches = 3
  None = None
SYMMETRY MCSymmetry
SPECIFICATION Spec
INVARIANT TypeOK
INVARIANT EvidenceChain
INVARIANT VerifiedReportSound
PROPERTY ReceiptsAreFinal
