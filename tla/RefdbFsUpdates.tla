--------------------------- MODULE RefdbFsUpdates ---------------------------
(***************************************************************************)
(* What the lock of a reference protects, with one packing process that    *)
(* does not crash: an update that expects an old value finds it, and the   *)
(* reflog of an unlocked reference ends with its value.                    *)
(***************************************************************************)
EXTENDS RefdbFsRefines

\* A step of p keeps a reference whose lock p does not hold: its loose file, and
\* its value even when packed-refs is replaced.
LEMMA ValueKept ==
    ASSUME SinglePacker, IInv, NEW p \in Procs, Act(p), NEW r \in Refs, refLock[r] # p
    PROVE  loose'[r] = loose[r] /\ Value(r)' = Value(r)
  <1>. USE DEF IInv
  <1>0. PackedBy(p) /\ KindOK(p) /\ ~ Holds(p, r)
    BY DEF PackInv, KindInv, LockInv, LockedBy
  <1>1. CASE Commit(p)
    BY <1>0, <1>1, CallFields, TargetType DEF Commit, Holds, Target, KindOK, Value, TypeOK, DiskOK
  <1>2. CASE Unlink(p)
    BY <1>0, <1>2, CallFields DEF Unlink, Holds, Value, TypeOK, DiskOK
  <1>3. CASE PruneCheck(p)
    BY <1>0, <1>3 DEF PruneCheck, Holds, Value, TypeOK, DiskOK, CallOK, locks
  <1>4. CASE WritePacked(p)
    BY <1>0, <1>4 DEF WritePacked, Holds, PackLabels, PackedBy, Value
  <1>5. CASE Call(p) \/ Finish(p) \/ Get(p) \/ Avail(p) \/ Exists(p) \/ Find(p) \/ CompareOld(p)
              \/ CompareNew(p) \/ WriteLog(p) \/ DropLog(p) \/ PackedDelete(p) \/ MoveLog(p)
    BY <1>5 DEF Call, Finish, Get, Avail, Exists, Find, CompareOld, CompareNew, WriteLog,
       DropLog, PackedDelete, MoveLog, Lookup, disk, Value
  <1>6. CASE StartCompress(p) \/ LoadLoose(p) \/ EndLoad(p) \/ LockPacked(p) \/ EndPrune(p)
             \/ Lock(p) \/ LockTo(p) \/ PruneLock(p) \/ Unlock(p) \/ PruneUnlock(p) \/ Crash(p)
    BY <1>6 DEF StartCompress, LoadLoose, EndLoad, LockPacked, EndPrune, Lock, LockTo,
       PruneLock, Unlock, PruneUnlock, Crash, disk, Value
  <1>. QED
    BY <1>1, <1>2, <1>3, <1>4, <1>5, <1>6 DEF Act, Step

\* So what another call has compared stays true.
LEMMA OtherCas ==
    ASSUME SinglePacker, IInv, CasInv, NEW p \in Procs, Act(p), NEW q \in Procs, q # p
    PROVE  CasBy(q)'
  <1>. USE DEF IInv
  <1>1. pc'[q] = pc[q] /\ op'[q] = op[q] /\ cur'[q] = cur[q]
    BY Frame
  <1>2. CASE pc[q] \in {"oldPacked", "new", "newPacked", "log", "commit", "packedDelete", "packLock",
                         "packWrite", "prune", "pruneCheck", "pruneUnlock", "unlink"}
             /\ op[q].kind \in {"write", "delete"}
    <2>1. op[q].ref \in Refs
      BY <1>2, CallFields
    <2>2. Holds(q, op[q].ref)
      BY <1>2 DEF Holds, PackLabels, KindInv, KindOK
    <2>3. refLock[op[q].ref] # p
      BY <2>1, <2>2, ConstantsAssumption DEF LockInv, LockedBy
    <2>4. PICK r \in Refs : r = op[q].ref
      BY <2>1
    <2>5. loose'[r] = loose[r] /\ Value(r)' = Value(r)
      BY <2>3, <2>4, ValueKept
    <2>6. op'[q].ref = r
      BY <1>1, <2>4
    <2>7. Value(op[q].ref)' = Value(op[q].ref) /\ loose'[op'[q].ref] = loose[op[q].ref]
      BY <2>4, <2>5, <2>6 DEF Value
    <2>. QED
      BY <1>1, <2>7 DEF CasInv, CasBy
  <1>3. CASE ~ ( /\ pc[q] \in {"oldPacked", "new", "newPacked", "log", "commit", "packedDelete", "packLock",
                                "packWrite", "prune", "pruneCheck", "pruneUnlock", "unlink"}
                 /\ op[q].kind \in {"write", "delete"} )
    BY <1>1, <1>3 DEF CasBy, KindInv, KindOK
  <1>. QED
    BY <1>2, <1>3

\* The comparison of p establishes the value its update relies on.
LEMMA StepCas ==
    ASSUME SinglePacker, IInv, CasInv, NEW p \in Procs, Act(p)
    PROVE  CasBy(p)'
  <1>. USE DEF IInv
  <1>0. PackedBy(p) /\ KindOK(p) /\ CasBy(p) /\ TypeOK
    BY DEF PackInv, KindInv, CasInv
  <1>1. CASE Call(p) \/ Finish(p) \/ Crash(p)
    <2>1. pc'[p] \in {"idle", "get", "avail", "lock", "reload"}
      BY <1>1, ConstantsAssumption DEF Call, Finish, Crash, OpsOf, First, OpType, Goto, TypeOK, CallOK
    <2>. QED
      BY <2>1 DEF CasBy
  <1>2. CASE Get(p) \/ Exists(p) \/ Find(p) \/ Avail(p) \/ Unlock(p) \/ LockTo(p)
    <2>1. pc'[p] \in {"getPacked", "done", "existsPacked", "find", "lock", "findPacked", "exists",
                      "lockTo", "moveLog"}
      BY <1>2 DEF Get, Exists, Find, Avail, Unlock, LockTo, Lookup, AfterAvail, Goto, Return,
         TypeOK, CallOK
    <2>. QED
      BY <2>1 DEF CasBy
  <1>3. CASE Lock(p)
    BY <1>0, <1>3 DEF Lock, AfterLock, Goto, Return, CasBy, KindOK, TypeOK, CallOK
  <1>4. CASE CompareOld(p)
    <2>1. /\ pc[p] \in {"old", "oldPacked"} /\ UNCHANGED <<loose, packed, op>>
          /\ op[p].ref \in Refs /\ op[p].old \in Vals \cup {Any}
      BY <1>4, CallFields DEF CompareOld, Lookup, disk, OpType
    <2>2. pc[p] = "oldPacked" => loose[op[p].ref] = None /\ View(p) = packed
      BY <1>0 DEF CasBy, PackedBy, PackLabels
    <2>3. PICK v : /\ v = Value(op[p].ref)
                   /\ \/ pc'[p] = "oldPacked" /\ loose[op[p].ref] = None
                      \/ pc'[p] \in {"new", "packedDelete"} /\ v = op[p].old
                      \/ pc'[p] = "unlock"
      BY <1>4, <2>1, <2>2 DEF CompareOld, Lookup, Goto, Fail, Value, TypeOK, CallOK
    <2>. QED
      BY <2>1, <2>3 DEF CasBy, Value
  <1>5. CASE CompareNew(p) \/ WriteLog(p)
    <2>1. UNCHANGED <<loose, packed, op>> /\ pc[p] \in {"new", "newPacked", "log"}
      BY <1>5 DEF CompareNew, WriteLog, Lookup, disk
    <2>2. pc'[p] \in {"newPacked", "log", "commit", "unlock"}
      BY <1>5 DEF CompareNew, WriteLog, Lookup, Goto, Fail, TypeOK, CallOK
    <2>. QED
      BY <1>0, <2>1, <2>2 DEF CasBy, Value
  <1>6. CASE MoveLog(p)
    BY <1>0, <1>6 DEF MoveLog, Goto, CasBy, KindOK, TypeOK, CallOK
  <1>7. CASE Commit(p) \/ Unlink(p)
    BY <1>7 DEF Commit, Unlink, Fail, Return, Goto, CasBy, TypeOK, CallOK
  <1>8. CASE DropLog(p)
    BY <1>0, <1>8 DEF DropLog, Goto, CasBy, KindOK, TypeOK, CallOK
  <1>9. CASE PackedDelete(p) \/ LockPacked(p)
    <2>1. UNCHANGED <<loose, packed, op>> /\ pc[p] \in {"packedDelete", "packLock"}
      BY <1>9 DEF PackedDelete, LockPacked, disk
    <2>2. pc'[p] \in {"packLock", "unlink", "packWrite", "unlock", "done"}
      BY <1>9 DEF PackedDelete, LockPacked, Abort, Goto, Fail, Return, TypeOK, CallOK
    <2>. QED
      BY <1>0, <2>1, <2>2 DEF CasBy, Value
  <1>10. CASE StartCompress(p) \/ LoadLoose(p) \/ EndLoad(p)
    <2>1. op'[p].kind = "compress" /\ pc'[p] \in {"load", "packLock"}
      BY <1>0, <1>10 DEF StartCompress, LoadLoose, EndLoad, Goto, KindOK, TypeOK, CallOK
    <2>. QED
      BY <2>1 DEF CasBy
  <1>11. CASE WritePacked(p)
    <2>1. pc[p] = "packWrite" /\ pc'[p] = "prune" /\ UNCHANGED <<loose, op>> /\ packed' = cache[p]
      BY <1>11 DEF WritePacked, Goto, TypeOK, CallOK
    <2>2. CASE op[p].kind = "compress"
      BY <2>1, <2>2 DEF CasBy
    <2>3. CASE op[p].kind # "compress"
      <3>1. cache[p][op[p].ref] = None
        BY <1>0, <2>1, <2>3 DEF PackedBy
      <3>2. Value(op[p].ref)' \in {Value(op[p].ref), None}
        BY <2>1, <3>1 DEF Value
      <3>. QED
        BY <1>0, <2>1, <3>2 DEF CasBy
    <2>. QED
      BY <2>2, <2>3
  <1>12. CASE PruneLock(p) \/ PruneUnlock(p) \/ EndPrune(p)
    <2>1. UNCHANGED <<loose, packed, op>> /\ pc[p] \in {"prune", "pruneUnlock"}
      BY <1>12 DEF PruneLock, PruneUnlock, EndPrune, disk
    <2>2. pc'[p] \in {"prune", "pruneCheck", "unlock", "unlink", "done"}
      BY <1>12 DEF PruneLock, PruneUnlock, EndPrune, Abort, Goto, Fail, Return, TypeOK, CallOK
    <2>. QED
      BY <1>0, <2>1, <2>2 DEF CasBy, Value
  <1>13. CASE PruneCheck(p)
    <2>1. /\ pc[p] = "pruneCheck" /\ pc'[p] = "pruneUnlock" /\ UNCHANGED <<packed, op>>
          /\ op[p].ref \in Refs
      BY <1>13, CallFields DEF PruneCheck, Goto, TypeOK, CallOK
    <2>2. op[p].kind # "compress" => loose'[op[p].ref] = loose[op[p].ref]
      BY <1>13, <2>1 DEF PruneCheck, LockInv, LockedBy, TypeOK, DiskOK, CallOK
    <2>. QED
      BY <1>0, <2>1, <2>2 DEF CasBy, Value
  <1>. QED
    BY <1>1, <1>2, <1>3, <1>4, <1>5, <1>6, <1>7, <1>8, <1>9, <1>10, <1>11, <1>12, <1>13
       DEF Act, Step

LEMMA NextCas == ASSUME SinglePacker PROVE IInv /\ CasInv /\ [Next]_vars => CasInv'
  <1> SUFFICES ASSUME IInv, CasInv, [Next]_vars PROVE CasInv'
    OBVIOUS
  <1>1. ASSUME NEW p \in Procs, Act(p), NEW q \in Procs PROVE CasBy(q)'
    BY <1>1, SinglePacker, StepCas, OtherCas
  <1>2. ASSUME UNCHANGED vars, NEW q \in Procs PROVE CasBy(q)'
    <2>1. UNCHANGED <<pc, op, loose, packed>>
      BY <1>2 DEF vars, disk
    <2>. QED
      BY <2>1 DEF CasInv, CasBy, Value
  <1>. QED
    BY <1>1, <1>2 DEF Next, Act, CasInv

\* An update that expects an old value replaces or deletes that value, although it
\* compared several file accesses earlier.
THEOREM Cas == ASSUME SinglePacker PROVE Spec => CasRespected
  <1> DEFINE Expected == \A p \in Procs, r \in Refs :
          ( /\ refLock[r] = p
            /\ Value(r)' # Value(r)
            /\ op[p].kind \in {"write", "delete"}
            /\ op[p].old # Any ) => Value(r) = op[p].old
  <1>1. Init => IInv /\ CasInv
    BY InitIInv DEF Init, CasInv, CasBy
  <1>2. IInv /\ CasInv /\ [Next]_vars => (IInv /\ CasInv)'
    BY SinglePacker, NextIInv, NextCas
  <1>3. IInv /\ CasInv /\ [Next]_vars => [Expected]_vars
    <2> SUFFICES ASSUME IInv, CasInv, [Next]_vars, NEW p \in Procs, NEW r \in Refs,
                        refLock[r] = p, Value(r)' # Value(r),
                        op[p].kind \in {"write", "delete"}, op[p].old # Any
                 PROVE  Value(r) = op[p].old
      OBVIOUS
    <2>1. PICK q \in Procs : Act(q)
      BY DEF Next, Act, vars, disk, Value
    <2>2. Act(p)
      BY <2>1, SinglePacker, ValueKept
    <2>3. Holds(p, r) /\ KindOK(p) /\ CasBy(p) /\ PackedBy(p) /\ TypeOK
      BY DEF IInv, LockInv, LockedBy, KindInv, CasInv, PackInv
    <2>4. loose' = loose \/ Commit(p) \/ Unlink(p) \/ PruneCheck(p)
      BY <2>2, DiskFrame DEF IInv
    <2>5. CASE Commit(p)
      BY <2>3, <2>5, CallFields DEF Commit, KindOK, CasBy, Target, Value, TypeOK, DiskOK
    <2>6. CASE Unlink(p)
      <3>1. r = op[p].ref /\ Value(r)' = None
        BY <2>3, <2>6, CallFields DEF Unlink, Value, TypeOK, DiskOK, PackedBy
      <3>. QED
        BY <2>3, <2>6, <3>1 DEF Unlink, CasBy
    <2>7. CASE PruneCheck(p)
      <3>1. cache[p] = packed
        BY <2>3, <2>7 DEF PruneCheck, PackedBy
      <3>. QED
        BY <2>3, <2>7, <3>1, ConstantsAssumption DEF PruneCheck, Value, TypeOK, DiskOK, Vals
    <2>8. CASE loose' = loose
      <3>1. WritePacked(p)
        BY <2>2, <2>8, DiskFrame DEF IInv, Value
      <3>2. r = op[p].ref /\ op[p].kind # "compress"
        BY <2>3, <3>1 DEF WritePacked, PackedBy, Value
      <3>. QED
        BY <2>3, <3>1, <3>2 DEF WritePacked, CasBy
    <2>. QED
      BY <2>4, <2>5, <2>6, <2>7, <2>8
  <1>. QED
    BY <1>1, <1>2, <1>3, PTL DEF Spec, CasRespected

\* What a step of p can do to the value of a reference, and to its log: a new
\* value is the commit of p, and before it comes the log entry.
LEMMA ValueMoves ==
    ASSUME SinglePacker, IInv, NEW p \in Procs, Act(p), NEW r \in Refs
    PROVE  \/ Value(r)' \in {Value(r), None}
           \/ Commit(p) /\ r = Target(p) /\ Value(r)' = op[p].new
  <1>. USE DEF IInv
  <1>0. PackedBy(p) /\ KindOK(p) /\ TypeOK
    BY DEF PackInv, KindInv
  <1>1. CASE Commit(p)
    BY <1>0, <1>1, CallFields, TargetType, ConstantsAssumption DEF Commit, Value, TypeOK, DiskOK
  <1>2. CASE Unlink(p)
    BY <1>0, <1>2, CallFields DEF Unlink, PackedBy, Value, TypeOK, DiskOK
  <1>3. CASE PruneCheck(p)
    <2>1. cache[p] = packed
      BY <1>0, <1>3 DEF PruneCheck, PackedBy
    <2>. QED
      BY <1>3, <2>1, ConstantsAssumption DEF PruneCheck, Value, TypeOK, DiskOK, CallOK, Vals
  <1>4. CASE loose' = loose
    <2>1. CASE WritePacked(p)
      BY <1>0, <2>1 DEF WritePacked, PackedBy, Value
    <2>2. CASE ~ WritePacked(p)
      BY <1>4, <2>2, DiskFrame DEF Value
    <2>. QED
      BY <2>1, <2>2
  <1>. QED
    BY <1>1, <1>2, <1>3, <1>4, DiskFrame

LEMMA LogMoves ==
    ASSUME IInv, NEW p \in Procs, Act(p), NEW r \in Refs
    PROVE  \/ reflog'[r] \in {reflog[r], NoLog}
           \/ pc'[p] = "commit" /\ refLock[r] = p /\ refLock' = refLock
  <1>. USE DEF IInv
  <1>0. KindOK(p) /\ LockedBy(p) /\ TypeOK
    BY DEF KindInv, LockInv
  <1>1. CASE WriteLog(p)
    BY <1>0, <1>1, CallFields DEF WriteLog, LockedBy, Holds, Goto, TypeOK, DiskOK, CallOK, locks
  <1>2. CASE MoveLog(p)
    <2>1. refLock[op[p].to] = p /\ pc'[p] = "commit" /\ refLock' = refLock
      BY <1>0, <1>2, CallFields DEF MoveLog, LockedBy, Holds, Goto, TypeOK, CallOK, locks
    <2>2. r # op[p].to => reflog'[r] \in {reflog[r], NoLog}
      BY <1>2, CallFields DEF MoveLog, TypeOK, DiskOK
    <2>. QED
      BY <2>1, <2>2
  <1>3. CASE DropLog(p)
    BY <1>3, CallFields DEF DropLog, TypeOK, DiskOK
  <1>4. CASE ~ (WriteLog(p) \/ MoveLog(p) \/ DropLog(p))
    BY <1>4 DEF Act, Step, Call, Finish, Get, Avail, Exists, Find, Lock, CompareOld,
       CompareNew, Commit, Unlock, PackedDelete, Unlink, LockTo, StartCompress, LoadLoose,
       EndLoad, LockPacked, WritePacked, PruneLock, PruneCheck, PruneUnlock, EndPrune, Crash,
       Lookup, disk
  <1>. QED
    BY <1>1, <1>2, <1>3, <1>4

\* The log entry is written before the value, and nobody else touches the log
\* but to remove it.
LEMMA StepLogged ==
    ASSUME SinglePacker, IInv, TipInv, NEW p \in Procs, Act(p), NEW q \in Procs,
           pc'[q] = "commit", op'[q].new \in Oids
    PROVE  reflog'[Target(q)'] \in {NoLog, op'[q].new}
  <1>. USE DEF IInv
  <1>1. CASE q # p
    <2>1. pc'[q] = pc[q] /\ op'[q] = op[q] /\ Target(q)' = Target(q)
      BY <1>1, Frame DEF Target
    <2>2. Target(q) \in Refs /\ Holds(q, Target(q))
      BY <2>1, CallFields DEF Target, Holds, KindInv, KindOK
    <2>3. refLock[Target(q)] # p
      BY <1>1, <2>2 DEF LockInv, LockedBy
    <2>4. reflog'[Target(q)] \in {reflog[Target(q)], NoLog}
      BY <2>2, <2>3, LogMoves
    <2>. QED
      BY <2>1, <2>4 DEF TipInv
  <1>2. CASE q = p
    <2>1. WriteLog(p) \/ MoveLog(p)
      BY <1>2, ConstantsAssumption DEF Act, Step, Call, Finish, Get, Avail, Exists, Find, Lock, CompareOld,
         CompareNew, Commit, Unlock, DropLog, PackedDelete, Unlink, LockTo, StartCompress,
         LoadLoose, EndLoad, LockPacked, WritePacked, PruneLock, PruneCheck, PruneUnlock,
         EndPrune, Crash, Lookup, Goto, Fail, Return, Abort, AfterAvail, AfterLock, First,
         OpsOf, OpType, TypeOK, CallOK
    <2>2. CASE WriteLog(p)
      BY <1>2, <2>2, CallFields DEF WriteLog, Logged, Target, KindInv, KindOK, TypeOK, DiskOK
    <2>3. CASE MoveLog(p)
      BY <1>2, <2>3, CallFields DEF MoveLog, Target, KindInv, KindOK, TypeOK, DiskOK
    <2>. QED
      BY <2>1, <2>2, <2>3
  <1>. QED
    BY <1>1, <1>2

LEMMA StepTip ==
    ASSUME SinglePacker, IInv, TipInv, NEW p \in Procs, Act(p), NEW r \in Refs
    PROVE  TipAt(r)'
  <1>. USE DEF IInv
  <1> SUFFICES ASSUME reflog'[r] # NoLog, Value(r)' \in Oids, reflog'[r] # Value(r)'
               PROVE  \/ refLock'[r] = Stale
                      \/ \E q \in Procs : refLock'[r] = q /\ pc'[q] = "commit"
    BY DEF TipAt
  <1>1. CASE pc'[p] = "commit" /\ refLock[r] = p /\ refLock' = refLock
    BY <1>1
  <1>2. CASE Commit(p) /\ r = Target(p) /\ Value(r)' = op[p].new
    BY <1>2 DEF Commit, TipInv
  <1>3. CASE reflog'[r] = reflog[r] /\ Value(r)' = Value(r)
    <2>1. \/ refLock[r] = Stale
          \/ \E q \in Procs : refLock[r] = q /\ pc[q] = "commit"
      BY <1>3 DEF TipInv, TipAt
    <2>2. CASE refLock[r] = Stale
      BY <2>2, LockMoves, ConstantsAssumption
    <2>3. ASSUME NEW q \in Procs, refLock[r] = q, pc[q] = "commit", q # p
          PROVE  refLock'[r] = q /\ pc'[q] = "commit"
      BY <2>3, LockMoves, Frame, ConstantsAssumption
    <2>4. CASE refLock[r] = p /\ pc[p] = "commit"
      <3>1. Commit(p) \/ Crash(p)
        BY <2>4 DEF Act, Step, Call, Finish, Get, Avail, Exists, Find, Lock, CompareOld,
           CompareNew, WriteLog, Unlock, DropLog, PackedDelete, Unlink, LockTo, MoveLog,
           StartCompress, LoadLoose, EndLoad, LockPacked, WritePacked, PruneLock, PruneCheck,
           PruneUnlock, EndPrune, Lookup
      <3>2. CASE Commit(p)
        <4>1. r = Target(p)
          BY <2>4, <3>2 DEF Holds, LockInv, LockedBy, KindInv, KindOK, Target, PackLabels
        <4>. QED
          BY <1>2, <3>2, <4>1, CallFields, ConstantsAssumption DEF Commit, Value, TypeOK, DiskOK
      <3>3. CASE Crash(p)
        BY <2>4, <3>3 DEF Crash, TypeOK, LockOK
      <3>. QED
        BY <3>1, <3>2, <3>3
    <2>. QED
      BY <2>1, <2>2, <2>3, <2>4
  <1>. QED
    BY <1>1, <1>2, <1>3, LogMoves, ValueMoves, ConstantsAssumption DEF Vals

\* The newest reflog entry of a reference nobody has locked is its value.
THEOREM LogFollows == ASSUME SinglePacker PROVE Spec => []ReflogTip
  <1>1. Init => IInv /\ TipInv
    BY InitIInv DEF Init, TipInv, TipAt
  <1>2. IInv /\ TipInv /\ [Next]_vars => (IInv /\ TipInv)'
    <2> SUFFICES ASSUME IInv, TipInv, [Next]_vars PROVE IInv' /\ TipInv'
      OBVIOUS
    <2>1. IInv'
      BY SinglePacker, NextIInv
    <2>2. ASSUME NEW p \in Procs, Act(p) PROVE TipInv'
      <3>1. ASSUME NEW r \in Refs PROVE TipAt(r)'
        BY <2>2, SinglePacker, StepTip
      <3>2. ASSUME NEW q \in Procs, pc'[q] = "commit", op'[q].new \in Oids
            PROVE  reflog'[Target(q)'] \in {NoLog, op'[q].new}
        BY <2>2, <3>2, SinglePacker, StepLogged
      <3>. QED
        BY <3>1, <3>2 DEF TipInv
    <2>3. ASSUME UNCHANGED vars PROVE TipInv'
      <3>1. UNCHANGED <<loose, packed, reflog, refLock, pc, op>>
        BY <2>3 DEF vars, disk, locks
      <3>. QED
        <4>1. ASSUME NEW r \in Refs PROVE TipAt(r)'
          BY <3>1 DEF TipInv, TipAt, Value
        <4>2. ASSUME NEW q \in Procs, pc'[q] = "commit", op'[q].new \in Oids
              PROVE  reflog'[Target(q)'] \in {NoLog, op'[q].new}
          BY <3>1, <4>2 DEF TipInv, Target
        <4>. QED
          BY <4>1, <4>2 DEF TipInv
    <2>. QED
      BY <2>1, <2>2, <2>3 DEF Next, Act
  <1>3. IInv /\ TipInv => ReflogTip
    BY ConstantsAssumption DEF TipInv, TipAt, ReflogTip, IInv, TypeOK, LockOK
  <1>. QED
    BY <1>1, <1>2, <1>3, PTL DEF Spec
=============================================================================
