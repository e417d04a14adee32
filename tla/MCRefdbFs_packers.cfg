SPECIFICATION FairSpec
CONSTANTS
  Procs = {p1, p2}
  Packers = {p1, p2}
  Crashers = {p2}
  r1 = r1  r2 = r2  a = a  b = b
  Refs = {r1}
  LogRefs = {}
  Oids = {a}
  Syms = {}
  Ops <- TwoPackerOps
  None = None  NoLog = NoLog  Any = Any  NoOp = NoOp  Nobody = Nobody  Stale = Stale
INVARIANTS NoLeakedLock
PROPERTIES LooseUnderLock EveryCallReturns
