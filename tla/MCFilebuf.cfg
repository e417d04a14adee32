SPECIFICATION Spec
CONSTANTS
  Procs = {p1, p2}
  Crashers = {p2}
  Files = {f1, f2, f3, f4}
  Blocks = {a, b}
  Faults = {"copy", "write", "fsync", "close", "rename"}
  None = None  Nobody = Nobody  Stale = Stale
SYMMETRY Symmetry
INVARIANTS TypeOK ErrorChangesNothing LockIsExclusive
PROPERTIES LockSpec CommitIsWhole
