SPECIFICATION Spec
CONSTANTS
  Procs = {p1}
  Packers = {p1}
  Crashers = {p1}
  r1 = r1  r2 = r2  a = a  b = b
  Refs = {r1}
  LogRefs = {r1}
  Oids = {a}
  Syms = {}
  Ops <- DeleteOps
  None = None  NoLog = NoLog  Any = Any  NoOp = NoOp  Nobody = Nobody  Stale = Stale
PROPERTIES DeleteRemoves
