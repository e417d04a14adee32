--------------------------- MODULE RefdbFsRefines ---------------------------
(***************************************************************************)
(* With one packing process that does not crash, RefdbFs implements        *)
(* RefStore: any number of other processes may read and write meanwhile,   *)
(* and die at any label.  The invariant PackInv is what the run of two     *)
(* packers breaks (MCRefdbFs_lost.cfg).                                    *)
(***************************************************************************)
EXTENDS RefdbFsProof

IInv == TypeOK /\ KindInv /\ LockInv /\ PackInv

\* The memory of another process keeps its view of packed-refs, except that its
\* stamp is out of date once packed-refs is replaced.
LEMMA MemFrame ==
    ASSUME TypeOK, NEW p \in Procs, Act(p), NEW q \in Procs, q # p
    PROVE  /\ cache'[q] = cache[q]
           /\ fresh'[q] = fresh[q] \/ (WritePacked(p) /\ fresh'[q] = FALSE)
  <1>. USE DEF mem, TypeOK, MemOK, SetCache, Reload, Lookup
  <1>1. CASE Call(p) \/ Finish(p) \/ Get(p) \/ Exists(p) \/ Find(p) \/ CompareOld(p) \/ CompareNew(p)
    BY <1>1 DEF Call, Finish, Get, Exists, Find, CompareOld, CompareNew
  <1>2. CASE Avail(p) \/ Lock(p) \/ WriteLog(p) \/ Commit(p) \/ Unlock(p) \/ DropLog(p)
    BY <1>2 DEF Avail, Lock, WriteLog, Commit, Unlock, DropLog
  <1>3. CASE PackedDelete(p) \/ Unlink(p) \/ LockTo(p) \/ MoveLog(p) \/ StartCompress(p) \/ EndLoad(p)
    BY <1>3 DEF PackedDelete, Unlink, LockTo, MoveLog, StartCompress, EndLoad
  <1>4. CASE LoadLoose(p) \/ LockPacked(p) \/ WritePacked(p)
    BY <1>4 DEF LoadLoose, LockPacked, WritePacked
  <1>5. CASE PruneLock(p) \/ PruneCheck(p) \/ PruneUnlock(p) \/ EndPrune(p) \/ Crash(p)
    BY <1>5 DEF PruneLock, PruneCheck, PruneUnlock, EndPrune, Crash
  <1>. QED
    BY <1>1, <1>2, <1>3, <1>4, <1>5 DEF Act, Step

\* Who changes the files: only a packer removes a loose file or replaces
\* packed-refs.
LEMMA DiskFrame ==
    ASSUME TypeOK, KindInv, NEW p \in Procs, Act(p)
    PROVE  /\ (packed' = packed /\ packedFile' = packedFile) \/ (WritePacked(p) /\ p \in Packers)
           /\ \/ loose' = loose
              \/ Commit(p) /\ \A r \in Refs : loose'[r] = None => loose[r] = None
              \/ (Unlink(p) \/ PruneCheck(p)) /\ p \in Packers
  <1>. USE DEF disk, Lookup
  <1>1. CASE Call(p) \/ Finish(p) \/ Get(p) \/ Exists(p) \/ Find(p) \/ CompareOld(p) \/ CompareNew(p)
    BY <1>1 DEF Call, Finish, Get, Exists, Find, CompareOld, CompareNew
  <1>2. CASE Avail(p) \/ Lock(p) \/ WriteLog(p) \/ Unlock(p) \/ DropLog(p)
    BY <1>2 DEF Avail, Lock, WriteLog, Unlock, DropLog
  <1>3. CASE PackedDelete(p) \/ LockTo(p) \/ MoveLog(p) \/ StartCompress(p) \/ EndLoad(p)
    BY <1>3 DEF PackedDelete, LockTo, MoveLog, StartCompress, EndLoad
  <1>4. CASE LoadLoose(p) \/ LockPacked(p) \/ PruneLock(p) \/ PruneUnlock(p) \/ EndPrune(p) \/ Crash(p)
    BY <1>4 DEF LoadLoose, LockPacked, PruneLock, PruneUnlock, EndPrune, Crash
  <1>5. CASE Commit(p)
    BY <1>5, CallFields, TargetType, ConstantsAssumption DEF Commit, TypeOK, DiskOK
  <1>6. CASE Unlink(p) \/ PruneCheck(p) \/ WritePacked(p)
    BY <1>6, CallFields DEF Unlink, PruneCheck, WritePacked, KindInv, KindOK, PackLabels
  <1>. QED
    BY <1>1, <1>2, <1>3, <1>4, <1>5, <1>6 DEF Act, Step

\* A step of p keeps what another process knows of packed-refs.
LEMMA OtherPacked ==
    ASSUME SinglePacker, IInv, NEW p \in Procs, Act(p), NEW q \in Procs, q # p
    PROVE  PackedBy(q)'
  <1>. USE DEF IInv
  <1>1. pc'[q] = pc[q] /\ op'[q] = op[q] /\ cache'[q] = cache[q]
    BY Frame, MemFrame
  <1>2. PackedBy(q) /\ KindOK(q)
    BY DEF PackInv, KindInv
  <1>3. CASE WritePacked(p) /\ p \in Packers
    <2>1. q \notin Packers
      BY <1>3 DEF SinglePacker
    <2>2. pc[q] \notin {"load", "unlink"} \cup PackLabels
      BY <1>2, <2>1, CallFields DEF KindOK, PackLabels
    <2>3. fresh'[q] = FALSE
      BY <1>3 DEF WritePacked
    <2>. QED
      BY <1>1, <2>2, <2>3 DEF PackedBy, PackLabels, View, Current
  <1>4. CASE ~ (WritePacked(p) /\ p \in Packers)
    <2>1. packed' = packed /\ packedFile' = packedFile
      BY <1>4, DiskFrame
    <2>2. fresh'[q] = fresh[q]
      <3>1. WritePacked(p) => p \in Packers
        BY CallFields DEF WritePacked, KindInv, KindOK, PackLabels
      <3>. QED
        BY <1>4, <3>1, MemFrame, Zenon
    <2>3. View(q)' = View(q)
      BY <1>1, <2>1, <2>2 DEF View, Current
    <2>4. pc[q] \in {"load", "packLock", "packWrite"} =>
              \A r \in Refs : loose'[r] = None => loose[r] = None
      <3>1. CASE p \in Packers
        BY <1>2, <3>1 DEF SinglePacker, KindOK, PackLabels
      <3>2. CASE p \notin Packers
        BY <3>2, DiskFrame
      <3>. QED
        BY <3>1, <3>2
    <2>. QED
      BY <1>1, <1>2, <2>1, <2>3, <2>4 DEF PackedBy
  <1>. QED
    BY <1>3, <1>4

\* Nobody else holds packed-refs.lock: packed_write of the packer gets it.
LEMMA PackLockFree ==
    ASSUME SinglePacker, IInv, NEW p \in Procs, pc[p] = "packLock"
    PROVE  packLock = Nobody
  <1>1. p \in Packers
    BY DEF IInv, KindInv, KindOK, PackLabels
  <1>2. ASSUME NEW q \in Procs, packLock = q PROVE FALSE
    <2>1. pc[q] = "packWrite"
      BY <1>2 DEF IInv, LockInv, LockedBy
    <2>2. q \in Packers
      BY <2>1 DEF IInv, KindInv, KindOK, PackLabels
    <2>. QED
      BY <1>1, <2>1, <2>2 DEF SinglePacker
  <1>. QED
    BY <1>2 DEF IInv, PackInv, TypeOK, LockOK

LEMMA PackLockKept ==
    ASSUME SinglePacker, IInv, NEW p \in Procs, Act(p)
    PROVE  packLock' # Stale
  <1>1. CASE Crash(p)
    <2>1. packLock # p
      BY <1>1 DEF Crash, SinglePacker, IInv, LockInv, LockedBy, KindInv, KindOK, PackLabels
    <2>. QED
      BY <1>1, <2>1 DEF Crash, IInv, PackInv
  <1>2. CASE ~ Crash(p)
    <2>1. packLock' \in {packLock, p, Nobody}
      BY <1>2 DEF Act, Step, Call, Finish, Get, Avail, Exists, Find, Lock, CompareOld,
         CompareNew, WriteLog, Commit, Unlock, DropLog, PackedDelete, Unlink, LockTo, MoveLog,
         StartCompress, LoadLoose, EndLoad, LockPacked, WritePacked, PruneLock, PruneCheck,
         PruneUnlock, EndPrune, Lookup, TakeLock, DropLock, locks
    <2>. QED
      BY <2>1, ConstantsAssumption DEF IInv, PackInv
  <1>. QED
    BY <1>1, <1>2

\* Once its view is packed-refs, a process that reloads has packed-refs cached.
LEMMA ReloadView ==
    ASSUME TypeOK, NEW p \in Procs, View(p) = packed, Reload(p), UNCHANGED <<packed, packedFile>>
    PROVE  cache'[p] = packed /\ View(p)' = packed'
  BY DEF TypeOK, MemOK, Reload, SetCache, View, Current

LEMMA KeepView ==
    ASSUME NEW p \in Procs, View(p) = packed, UNCHANGED <<packed, packedFile, mem>>
    PROVE  View(p)' = packed'
  BY DEF View, Current, mem

\* A step of the packer, or of another process, keeps what it knows of packed-refs.
LEMMA StepPacked ==
    ASSUME SinglePacker, IInv, NEW p \in Procs, Act(p)
    PROVE  PackedBy(p)'
  <1>. USE DEF IInv
  <1>0. PackedBy(p) /\ KindOK(p) /\ TypeOK
    BY DEF PackInv, KindInv
  <1>1. CASE Call(p) \/ Finish(p)
    <2>1. View(p)' = packed'
      BY <1>0, <1>1, KeepView DEF Call, Finish, PackedBy, PackLabels, disk
    <2>2. pc'[p] \in {"idle", "get", "avail", "lock", "reload"}
      BY <1>0, <1>1, ConstantsAssumption DEF Call, Finish, OpsOf, First, OpType, Goto, TypeOK, CallOK
    <2>. QED
      BY <2>1, <2>2 DEF PackedBy, PackLabels
  <1>2. CASE Get(p) \/ Exists(p) \/ Find(p) \/ CompareOld(p) \/ CompareNew(p)
    <2>1. View(p) = packed
      BY <1>0, <1>2 DEF Get, Exists, Find, CompareOld, CompareNew, Lookup, PackedBy, PackLabels
    <2>2. View(p)' = packed'
      BY <1>0, <1>2, <2>1, ReloadView, KeepView DEF Get, Exists, Find, CompareOld, CompareNew,
         Lookup, disk
    <2>3. pc'[p] \notin {"load", "unlink"} \cup PackLabels
      BY <1>0, <1>2 DEF Get, Exists, Find, CompareOld, CompareNew, Lookup, AfterAvail, Goto,
         Return, Fail, TypeOK, CallOK, PackLabels
    <2>. QED
      BY <2>2, <2>3 DEF PackedBy, PackLabels
  <1>3. CASE Avail(p) \/ Lock(p) \/ WriteLog(p) \/ Commit(p) \/ Unlock(p) \/ DropLog(p)
             \/ LockTo(p) \/ MoveLog(p) \/ Unlink(p)
    <2>1. View(p) = packed
      BY <1>0, <1>3 DEF Avail, Lock, WriteLog, Commit, Unlock, DropLog, LockTo, MoveLog, Unlink,
         PackedBy, PackLabels
    <2>2. View(p)' = packed'
      BY <1>0, <1>3, <2>1, ReloadView, KeepView DEF Avail, Lock, WriteLog, Commit, Unlock,
         DropLog, LockTo, MoveLog, Unlink, disk
    <2>3. pc'[p] \notin {"load", "unlink"} \cup PackLabels
      BY <1>0, <1>3 DEF Avail, Lock, WriteLog, Commit, Unlock, DropLog, LockTo, MoveLog, Unlink,
         AfterAvail, AfterLock, Goto, Return, Fail, TypeOK, CallOK, PackLabels
    <2>. QED
      BY <2>2, <2>3 DEF PackedBy, PackLabels
  <1>4. CASE PackedDelete(p)
    <2> DEFINE r == op[p].ref
    <2>1. r \in Refs /\ op[p].kind # "compress" /\ View(p) = packed /\ UNCHANGED <<packed, packedFile, loose, op>>
      BY <1>0, <1>4, CallFields DEF PackedDelete, PackedBy, KindOK, PackLabels, disk
    <2>2. packed \in [Refs -> Oids \cup {None}] /\ cache'[p] = [packed EXCEPT ![r] = None]
      BY <1>4, <2>1 DEF PackedDelete, SetCache, TypeOK, DiskOK, MemOK
    <2>3. CASE packed[r] # None
      <3>1. pc'[p] = "packLock" /\ op'[p] = op[p]
        BY <1>4, <2>1, <2>3 DEF PackedDelete, Goto, TypeOK, CallOK
      <3>. QED
        BY <2>1, <2>2, <3>1 DEF PackedBy, PackLabels
    <2>4. CASE packed[r] = None
      <3>1. pc'[p] = "unlink" /\ op'[p] = op[p]
        BY <1>4, <2>1, <2>4 DEF PackedDelete, Goto, TypeOK, CallOK
      <3>2. cache'[p] = packed'
        BY <2>1, <2>2, <2>4
      <3>. QED
        BY <2>1, <2>4, <3>1, <3>2 DEF PackedBy, PackLabels, View, Current
    <2>. QED
      BY <2>3, <2>4
  <1>5. CASE StartCompress(p)
    <2>1. cache'[p] = packed /\ UNCHANGED <<packed, op>> /\ pc'[p] = "load"
      BY <1>0, <1>5, ReloadView DEF StartCompress, PackedBy, PackLabels, Goto, disk, TypeOK, CallOK
    <2>. QED
      BY <2>1 DEF PackedBy, PackLabels
  <1>6. CASE LoadLoose(p)
    <2>1. pc[p] = "load" /\ op[p].kind = "compress" /\ UNCHANGED <<pc, op, loose, packed>>
      BY <1>0, <1>6 DEF LoadLoose, KindOK, disk
    <2>2. PICK r \in todo[p] : cache' = cache \/ (loose[r] # None /\ cache' = [cache EXCEPT ![p][r] = loose[r]])
      BY <1>6, ConstantsAssumption DEF LoadLoose, Vals
    <2>3. \A x \in Refs : cache'[p][x] = cache[p][x] \/ loose[x] # None
      BY <2>2 DEF TypeOK, MemOK
    <2>. QED
      BY <1>0, <2>1, <2>3 DEF PackedBy, PackLabels
  <1>7. CASE EndLoad(p)
    BY <1>0, <1>7 DEF EndLoad, PackedBy, PackLabels, KindOK, Goto, TypeOK, CallOK, disk, mem
  <1>8. CASE LockPacked(p)
    <2>1. pc[p] = "packLock" /\ packLock = Nobody
      BY <1>8, PackLockFree DEF LockPacked
    <2>. QED
      BY <1>0, <1>8, <2>1 DEF LockPacked, PackedBy, PackLabels, Goto, TypeOK, CallOK, disk, mem
  <1>9. CASE WritePacked(p)
    BY <1>0, <1>9 DEF WritePacked, PackedBy, PackLabels, Goto, TypeOK, CallOK
  <1>10. CASE PruneLock(p)
    <2>1. cache[p] = packed /\ UNCHANGED <<packed, packedFile, op, mem>>
      BY <1>0, <1>10 DEF PruneLock, PackedBy, PackLabels, disk
    <2>2. View(p)' = packed'
      BY <2>1 DEF View, Current, mem
    <2>3. pc[p] = "prune" /\ pc'[p] \in {"pruneCheck", "unlock", "done"}
      BY <1>10 DEF PruneLock, Abort, Fail, Return, Goto, TypeOK, CallOK
    <2>. QED
      BY <1>0, <2>1, <2>2, <2>3 DEF PackedBy, PackLabels, mem
  <1>11. CASE PruneCheck(p) \/ PruneUnlock(p)
    BY <1>0, <1>11 DEF PruneCheck, PruneUnlock, PackedBy, PackLabels, Goto, TypeOK, CallOK, disk, mem
  <1>12. CASE EndPrune(p)
    <2>1. cache[p] = packed /\ UNCHANGED <<packed, packedFile, op, cache>>
      BY <1>0, <1>12 DEF EndPrune, PackedBy, disk
    <2>2. View(p)' = packed'
      BY <2>1 DEF View, Current
    <2>3. pc[p] = "prune" /\ pc'[p] = IF op[p].kind = "compress" THEN "done" ELSE "unlink"
      BY <1>12 DEF EndPrune, Return, Goto, TypeOK, CallOK
    <2>. QED
      BY <1>0, <2>1, <2>2, <2>3 DEF PackedBy, PackLabels
  <1>13. CASE Crash(p)
    BY <1>0, <1>13 DEF Crash, PackedBy, PackLabels, View, Current, Goto, TypeOK, CallOK, MemOK
  <1>. QED
    BY <1>1, <1>2, <1>3, <1>4, <1>5, <1>6, <1>7, <1>8, <1>9, <1>10, <1>11, <1>12, <1>13
       DEF Act, Step

\* IInv is inductive when there is one packer.
LEMMA InitIInv == Init => IInv
  <1> SUFFICES ASSUME Init PROVE IInv
    OBVIOUS
  <1>1. PackInv
    BY ConstantsAssumption DEF Init, PackInv, PackedBy, PackLabels, View, Current
  <1>. QED
    BY <1>1, InitTypeOK, InitLocked DEF IInv

LEMMA NextIInv == ASSUME SinglePacker PROVE IInv /\ [Next]_vars => IInv'
  <1> SUFFICES ASSUME IInv, [Next]_vars PROVE IInv'
    OBVIOUS
  <1>1. TypeOK' /\ KindInv' /\ LockInv'
    BY StepTypeOK, NextLocked DEF IInv
  <1>2. ASSUME NEW p \in Procs, Act(p) PROVE PackInv'
    <2>1. ASSUME NEW q \in Procs PROVE PackedBy(q)'
      BY <1>2, <2>1, SinglePacker, StepPacked, OtherPacked
    <2>2. packLock' # Stale
      BY <1>2, SinglePacker, PackLockKept
    <2>. QED
      BY <2>1, <2>2 DEF PackInv
  <1>3. ASSUME UNCHANGED vars PROVE PackInv'
    <2>1. ASSUME NEW q \in Procs PROVE View(q)' = View(q)
      BY <1>3 DEF vars, disk, mem, View, Current
    <2>2. UNCHANGED <<loose, packed, packLock, pc, op, cache>>
      BY <1>3 DEF vars, disk, locks, mem
    <2>3. ASSUME NEW q \in Procs PROVE PackedBy(q)'
      BY <2>1, <2>2 DEF IInv, PackInv, PackedBy
    <2>. QED
      BY <2>2, <2>3 DEF IInv, PackInv
  <1>. QED
    BY <1>1, <1>2, <1>3 DEF IInv, Next, Act

\* The refinement mapping: what RefStore sees of a state.
Seen == [r \in Refs |-> Value(r)]

LEMMA InitMaps == Init => Store!Init
  <1> SUFFICES ASSUME Init PROVE Store!Init
    OBVIOUS
  <1>1. \A r \in Refs : Value(r) \in Vals \cup {None}
    BY DEF Init, Value, Vals
  <1>. QED
    BY <1>1 DEF Store!Init, Init

\* What a step does to the values and the locks, seen from outside.
LEMMA StepMaps ==
    ASSUME SinglePacker, IInv, NEW p \in Procs, Act(p)
    PROVE  Store!Next \/ UNCHANGED Store!vars
  <1>. USE DEF IInv
  <1>0. PackedBy(p) /\ KindOK(p) /\ LockedBy(p)
    BY DEF PackInv, KindInv, LockInv
  <1>1. CASE UNCHANGED <<loose, packed, refLock>>
    BY <1>1 DEF Store!vars, Value
  <1>2. ASSUME UNCHANGED <<loose, packed>>, NEW r \in Refs, TakeLock(p, r)
        PROVE  Store!Acquire(p, r)
    BY <1>2 DEF Store!Acquire, TakeLock, Value
  <1>3. ASSUME UNCHANGED <<loose, packed>>, NEW r \in Refs, DropLock(r), Holds(p, r)
        PROVE  Store!Release(p, r)
    BY <1>0, <1>3 DEF Store!Release, DropLock, LockedBy, Value
  <1>4. CASE Commit(p)
    <2> DEFINE r == Target(p)
    <2>1. r \in Refs /\ refLock[r] = p /\ op[p].new \in Vals
      BY <1>0, <1>4, CallFields, TargetType DEF Commit, LockedBy, Holds, Target, KindOK
    <2>2. /\ loose' = [loose EXCEPT ![r] = op[p].new] /\ packed' = packed
          /\ refLock' = [refLock EXCEPT ![r] = Nobody]
      BY <1>4 DEF Commit, DropLock
    <2>3. Seen' = [Seen EXCEPT ![r] = op[p].new]
      BY <2>1, <2>2, ConstantsAssumption DEF Seen, Value, TypeOK, DiskOK
    <2>. QED
      BY <2>1, <2>2, <2>3 DEF Store!Next, Store!Set, Seen
  <1>5. CASE Unlink(p)
    <2> DEFINE r == op[p].ref
    <2>1. r \in Refs /\ refLock[r] = p /\ packed[r] = None
      BY <1>0, <1>5, CallFields DEF Unlink, LockedBy, Holds, PackedBy
    <2>2. loose' = [loose EXCEPT ![r] = None] /\ packed' = packed /\ refLock' = refLock
      BY <1>5 DEF Unlink, locks
    <2>3. Seen' = [Seen EXCEPT ![r] = None]
      BY <2>1, <2>2 DEF Seen, Value, TypeOK, DiskOK
    <2>. QED
      BY <2>1, <2>2, <2>3 DEF Store!Next, Store!Delete, Seen
  <1>6. CASE WritePacked(p)
    <2>1. /\ pc[p] = "packWrite" /\ loose' = loose /\ packed' = cache[p] /\ refLock' = refLock
          /\ op[p].ref \in Refs /\ op' = op
      BY <1>6, CallFields DEF WritePacked
    <2>2. \A x \in Refs : (op[p].kind = "compress" \/ x # op[p].ref) => Value(x)' = Value(x)
      BY <1>0, <2>1 DEF PackedBy, Value
    <2>3. CASE op[p].kind = "compress"
      BY <2>1, <2>2, <2>3 DEF Store!vars
    <2>4. CASE op[p].kind # "compress" /\ loose[op[p].ref] # None
      BY <2>1, <2>2, <2>4 DEF Store!vars, Value
    <2>5. CASE op[p].kind # "compress" /\ loose[op[p].ref] = None
      <3>1. Value(op[p].ref)' = None
        BY <1>0, <2>1, <2>5 DEF PackedBy, Value
      <3>2. Seen' = [Seen EXCEPT ![op[p].ref] = None]
        BY <2>1, <2>2, <2>5, <3>1 DEF Seen
      <3>3. refLock[op[p].ref] = p
        BY <1>0, <2>1, <2>5 DEF LockedBy, Holds, PackLabels
      <3>. QED
        BY <2>1, <3>2, <3>3 DEF Store!Next, Store!Delete, Seen
    <2>. QED
      BY <2>3, <2>4, <2>5
  <1>7. CASE PruneCheck(p)
    <2>1. pc[p] = "pruneCheck" /\ cur[p] \in Refs /\ cache[p] = packed /\ UNCHANGED <<packed, refLock>>
      BY <1>0, <1>7 DEF PruneCheck, PackedBy, TypeOK, CallOK, locks
    <2>2. \A x \in Refs : Value(x)' = Value(x)
      BY <1>7, <2>1, ConstantsAssumption DEF PruneCheck, Value, TypeOK, DiskOK, Vals
    <2>. QED
      BY <2>1, <2>2 DEF Store!vars
  <1>8. CASE Crash(p)
    BY <1>8 DEF Crash, disk, Value, Store!Next, Store!Die
  <1>9. CASE Lock(p) \/ LockTo(p) \/ PruneLock(p)
    <2>1. UNCHANGED <<loose, packed>>
      BY <1>9 DEF Lock, LockTo, PruneLock, disk
    <2>2. UNCHANGED refLock \/ \E r \in Refs : TakeLock(p, r)
      BY <1>9, CallFields DEF Lock, LockTo, PruneLock, locks, TypeOK, CallOK
    <2>. QED
      BY <1>1, <1>2, <2>1, <2>2 DEF Store!Next
  <1>10. CASE Unlock(p) \/ PruneUnlock(p)
    <2>1. UNCHANGED <<loose, packed>>
      BY <1>10 DEF Unlock, PruneUnlock, disk
    <2>2. \E r \in Refs : DropLock(r) /\ Holds(p, r)
      BY <1>10, CallFields DEF Unlock, PruneUnlock, Holds, TypeOK, CallOK
    <2>. QED
      BY <1>3, <2>1, <2>2 DEF Store!Next
  <1>11. CASE Call(p) \/ Finish(p) \/ Get(p) \/ Avail(p) \/ Exists(p) \/ Find(p) \/ CompareOld(p)
              \/ CompareNew(p) \/ WriteLog(p) \/ DropLog(p) \/ PackedDelete(p) \/ MoveLog(p)
    <2>1. UNCHANGED <<loose, packed, refLock>>
      BY <1>11 DEF Call, Finish, Get, Avail, Exists, Find, CompareOld, CompareNew, WriteLog,
         DropLog, PackedDelete, MoveLog, Lookup, disk, locks
    <2>. QED
      BY <1>1, <2>1
  <1>12. CASE StartCompress(p) \/ LoadLoose(p) \/ EndLoad(p) \/ LockPacked(p) \/ EndPrune(p)
    <2>1. UNCHANGED <<loose, packed, refLock>>
      BY <1>12 DEF StartCompress, LoadLoose, EndLoad, LockPacked, EndPrune, disk, locks
    <2>. QED
      BY <1>1, <2>1
  <1>. QED
    BY <1>4, <1>5, <1>6, <1>7, <1>8, <1>9, <1>10, <1>11, <1>12 DEF Act, Step

\* References behave like RefStore: a value changes only by one step of the holder
\* of its lock, whatever the packer does to the files meanwhile.
THEOREM Refinement == ASSUME SinglePacker PROVE Spec => StoreSpec
  <1>1. Init => IInv
    BY InitIInv
  <1>2. IInv /\ [Next]_vars => IInv'
    BY NextIInv
  <1>3. IInv /\ [Next]_vars => [Store!Next]_(Store!vars)
    <2> SUFFICES ASSUME IInv, [Next]_vars PROVE Store!Next \/ UNCHANGED Store!vars
      OBVIOUS
    <2>1. CASE UNCHANGED vars
      BY <2>1 DEF vars, disk, locks, Store!vars, Value
    <2>2. CASE Next
      BY <2>2, StepMaps DEF Next, Act
    <2>. QED
      BY <2>1, <2>2
  <1>. QED
    BY <1>1, <1>2, <1>3, InitMaps, PTL DEF Spec, StoreSpec, Store!Spec

\* PrunedIsPacked, which two packers break (MCRefdbFs_lost.cfg), holds with one: what
\* packed_remove_loose unlinks is in packed-refs, also when its process has been overtaken
\* by any number of writers since it loaded the file.
THEOREM PruneIsSafe == ASSUME SinglePacker PROVE Spec => PrunedIsPacked
  <1>1. Init => IInv
    BY InitIInv
  <1>2. IInv /\ [Next]_vars => IInv'
    BY NextIInv
  <1>3. ASSUME IInv, [Next]_vars, NEW p \in Procs, NEW r \in Refs,
               pc[p] = "pruneCheck", pc'[p] # pc[p], loose'[r] # loose[r]
        PROVE  packed[r] = loose[r]
    <2>1. PICK q \in Procs : Act(q)
      BY <1>3 DEF Next, Act, vars
    <2>2. q = p
      BY <1>3, <2>1, Frame DEF IInv
    <2>3. PruneCheck(p)
      BY <1>3, <2>1, <2>2, DiskFrame DEF IInv, Commit, Unlink
    <2>4. r = cur[p] /\ loose[r] = cache[p][r]
      BY <1>3, <2>3 DEF PruneCheck, IInv, TypeOK, DiskOK
    <2>5. cache[p] = packed
      BY <1>3 DEF IInv, PackInv, PackedBy
    <2>. QED
      BY <2>4, <2>5
  <1>4. IInv /\ [Next]_vars =>
            [\A p \in Procs, r \in Refs :
                (pc[p] = "pruneCheck" /\ pc'[p] # pc[p] /\ loose'[r] # loose[r])
                    => packed[r] = loose[r]]_vars
    BY <1>3
  <1>. QED
    BY <1>1, <1>2, <1>4, PTL DEF Spec, PrunedIsPacked
=============================================================================
