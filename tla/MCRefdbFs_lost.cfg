SPECIFICATION Spec
CONSTANTS
  Procs = {p1, p2}
  Packers = {p1, p2}
  Crashers = {}
  r1 = r1  r2 = r2  a = a  b = b
  Refs = {r1}
  LogRefs = {r1}
  Oids = {a}
  Syms = {}
  Ops <- PackOps
  None = None  NoLog = NoLog  Any = Any  NoOp = NoOp  Nobody = Nobody  Stale = Stale
PROPERTIES PrunedIsPacked
