CONSTANTS
  Backends = {"cape", "qemu"}
  Leaves <- MCLeaves
  Offered <- MCOffered
  Writes <- MCWrites
  MaxRounds = 2
  MaxPerType = 1
SPECIFICATION Spec
INVARIANT PlanTypeOK
INVARIANT PlanReady
INVARIANT PolicyReachesPlan
PROPERTY ControllerFieldsKept
