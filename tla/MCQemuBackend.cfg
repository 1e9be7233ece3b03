\* One process with a task root of its own.
CONSTANTS
  p1 = p1
  p2 = p2
  elf = elf
  pe = pe
  doc = doc
  None = None
  Procs = {p1}
  MaxTask = 2
  Bytes = {elf, pe}
  OsOf <- KindOf
  SharedRoot = FALSE
  MaxChanges = 1
SPECIFICATION Spec
CHECK_DEADLOCK FALSE
INVARIANTS
  TypeOK
  ValidMeansRan
  BytesRemoved
PROPERTY ImplementsService
