\* Two processes, one after the other or together, with one task root.
CONSTANTS
  p1 = p1
  p2 = p2
  elf = elf
  pe = pe
  doc = doc
  None = None
  Procs = {p1, p2}
  MaxTask = 1
  Bytes = {elf}
  OsOf <- KindOf
  SharedRoot = TRUE
  MaxChanges = 0
SPECIFICATION Spec
CHECK_DEADLOCK FALSE
INVARIANT StatusIsOutcome
