SPECIFICATION ReaderSpec
CONSTANTS
  Procs = {p1, p2}
  Packers = {p1}
  Crashers = {p2}
  r1 = r1  r2 = r2  a = a  b = b  s = s
  Refs = {r1, r2}
  LogRefs = {r1}
  Oids = {a, b}
  Syms = {s}
  Ops <- OnePackerOps
  None = None  NoLog = NoLog  Any = Any  NoOp = NoOp  Nobody = Nobody  Stale = Stale
INVARIANTS TypeOK 
PROPERTIES  CasRespected 
