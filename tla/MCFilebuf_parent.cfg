SPECIFICATION Spec
CONSTANTS
  Procs = {p1, p2}
  Crashers = {}
  Files = {f1, f2, f3, f4}
  Blocks = {a, b}
  Faults = {"copy", "write", "fsync", "close", "rename", "parent"}
  None = None  Nobody = Nobody  Stale = Stale
SYMMETRY Symmetry
INVARIANTS LockIsExclusive
