---------------------------- MODULE RefdbFsProof ----------------------------
(***************************************************************************)
(* Theorems about RefdbFs, for any processes, references, ids and calls:   *)
(* type correctness, and the ownership of the lock files.                  *)
(***************************************************************************)
EXTENDS RefdbFs, TLAPS

\* What the call of a process that is not idle looks like.
LEMMA CallFields ==
    ASSUME TypeOK, NEW p \in Procs, pc[p] # "idle"
    PROVE  /\ op[p] \in OpType
           /\ op[p].ref \in Refs /\ op[p].to \in Refs /\ op[p].new \in Vals
           /\ op[p].kind \in {"lookup", "write", "delete", "rename", "compress"}
  BY DEF TypeOK, CallOK, OpType

\* A process reads values from the loose files and from its view of packed-refs.
LEMMA ReadTypes ==
    ASSUME TypeOK, NEW p \in Procs
    PROVE  /\ \A r \in Refs : loose[r] \in Vals \cup {None} /\ View(p)[r] \in Vals \cup {None}
           /\ View(p) \in [Refs -> Oids \cup {None}]
           /\ ViewLoose(p) \in SUBSET Refs
  BY DEF TypeOK, DiskOK, MemOK, View, ViewLoose, Vals

\* packed_reload keeps the types of the cache.
LEMMA ReloadTypes ==
    ASSUME TypeOK, NEW p \in Procs, Reload(p)
    PROVE  MemOK'
  BY ReadTypes DEF TypeOK, DiskOK, MemOK, Reload, SetCache

\* The target of a write or a rename is a reference.
LEMMA TargetType ==
    ASSUME TypeOK, NEW p \in Procs, pc[p] # "idle"
    PROVE  Target(p) \in Refs
  BY CallFields DEF Target

THEOREM InitTypeOK == Init => TypeOK
  BY ConstantsAssumption
     DEF Init, TypeOK, DiskOK, LockOK, MemOK, CallOK, Labels, Returns, Vals, Value

THEOREM StepTypeOK == TypeOK /\ [Next]_vars => TypeOK'
  <1> SUFFICES ASSUME TypeOK, [Next]_vars PROVE TypeOK'
    OBVIOUS
  <1> USE DEF TypeOK
  <1>1. ASSUME NEW p \in Procs, Call(p) PROVE TypeOK'
    <2>1. DiskOK' /\ LockOK' /\ MemOK'
      BY <1>1 DEF Call, DiskOK, LockOK, MemOK, disk, locks, mem
    <2>2. CallOK'
      <3>1. PICK o \in OpType : op' = [op EXCEPT ![p] = o] /\ Goto(p, First(o))
        BY <1>1, ConstantsAssumption DEF Call, OpsOf
      <3>2. First(o) \in Labels \ {"pruneCheck", "pruneUnlock"}
        BY DEF First, Labels, OpType
      <3>. QED
        BY <1>1, <3>1, <3>2 DEF Call, CallOK, Goto, loop
    <2>. QED
      BY <2>1, <2>2
  <1>2. ASSUME NEW p \in Procs, Finish(p) PROVE TypeOK'
    <2>1. DiskOK' /\ LockOK' /\ MemOK'
      BY <1>2 DEF Finish, DiskOK, LockOK, MemOK, disk, locks, mem
    <2>2. CallOK'
      BY <1>2 DEF Finish, CallOK, Goto, Labels, Returns
    <2>. QED
      BY <2>1, <2>2
  <1>3. ASSUME NEW p \in Procs, Get(p) PROVE TypeOK'
    <2>1. pc[p] # "idle"
      BY <1>3 DEF Get, Lookup
    <2>2. DiskOK' /\ LockOK'
      BY <1>3 DEF Get, Lookup, DiskOK, LockOK, disk, locks
    <2>3. MemOK'
      BY <1>3, <2>1, ReloadTypes DEF Get, MemOK, Lookup, mem
    <2>4. CallOK'
      <3>1. UNCHANGED <<op, todo, cur>>
        BY <1>3 DEF Get, Lookup, loop
      <3>2. op[p].ref \in Refs
        BY <2>1, CallFields
      <3>3. \/ pc' = [pc EXCEPT ![p] = "getPacked"] /\ ret' = ret
            \/ \E v \in Vals \cup {"notfound"} :
                  pc' = [pc EXCEPT ![p] = "done"] /\ ret' = [ret EXCEPT ![p] = v]
        BY <1>3, <3>2, ReadTypes DEF Get, Lookup, Goto, Return
      <3>. QED
        BY <2>1, <3>1, <3>3 DEF CallOK, Labels, Returns
    <2>. QED
      BY <2>2, <2>3, <2>4
  <1>4. ASSUME NEW p \in Procs, Avail(p) PROVE TypeOK'
    <2>1. pc[p] # "idle"
      BY <1>4 DEF Avail
    <2>2. DiskOK' /\ LockOK'
      BY <1>4 DEF Avail, DiskOK, LockOK, disk, locks
    <2>3. MemOK'
      BY <1>4, <2>1, ReloadTypes DEF Avail, MemOK
    <2>4. CallOK'
      BY <1>4, <2>1 DEF Avail, CallOK, AfterAvail, Goto, loop, Labels
    <2>. QED
      BY <2>2, <2>3, <2>4
  <1>5. ASSUME NEW p \in Procs, Exists(p) PROVE TypeOK'
    <2>1. pc[p] # "idle"
      BY <1>5 DEF Exists, Lookup
    <2>2. DiskOK' /\ LockOK'
      BY <1>5 DEF Exists, Lookup, DiskOK, LockOK, disk, locks
    <2>3. MemOK'
      BY <1>5, <2>1, ReloadTypes DEF Exists, MemOK, Lookup, mem
    <2>4. CallOK'
      BY <1>5, <2>1 DEF Exists, CallOK, Lookup, AfterAvail, Goto, Return, loop, Labels, Returns
    <2>. QED
      BY <2>2, <2>3, <2>4
  <1>6. ASSUME NEW p \in Procs, Find(p) PROVE TypeOK'
    <2>1. pc[p] # "idle"
      BY <1>6 DEF Find, Lookup
    <2>2. DiskOK' /\ LockOK'
      BY <1>6 DEF Find, Lookup, DiskOK, LockOK, disk, locks
    <2>3. MemOK'
      BY <1>6, <2>1, ReloadTypes DEF Find, MemOK, Lookup, mem
    <2>4. CallOK'
      <3>1. CASE UNCHANGED op
        BY <1>6, <2>1, <3>1 DEF Find, CallOK, Lookup, Goto, Return, loop, Labels, Returns
      <3>2. CASE ~ UNCHANGED op
        <4>1. PICK v \in Vals : /\ op' = [op EXCEPT ![p].new = v]
                                /\ Goto(p, "lock") /\ UNCHANGED ret
          BY <1>6, <2>1, <3>2, ReadTypes, CallFields DEF Find, Lookup
        <4>2. op[p] \in OpType /\ [op[p] EXCEPT !.new = v] \in OpType
          BY <2>1, CallFields DEF OpType
        <4>3. op' = [op EXCEPT ![p] = [op[p] EXCEPT !.new = v]]
          BY <4>1
        <4>. QED
          BY <1>6, <2>1, <4>1, <4>2, <4>3 DEF Find, Lookup, CallOK, Goto, loop, Labels
      <3>. QED
        BY <3>1, <3>2
    <2>. QED
      BY <2>2, <2>3, <2>4
  <1>7. ASSUME NEW p \in Procs, Lock(p) PROVE TypeOK'
    <2>1. pc[p] # "idle"
      BY <1>7 DEF Lock
    <2>2. DiskOK' /\ MemOK'
      BY <1>7 DEF Lock, DiskOK, MemOK, disk, mem
    <2>3. LockOK'
      BY <1>7, <2>1, CallFields DEF Lock, LockOK, TakeLock, locks
    <2>4. CallOK'
      BY <1>7, <2>1 DEF Lock, CallOK, AfterLock, Goto, Return, loop, Labels, Returns
    <2>. QED
      BY <2>2, <2>3, <2>4
  <1>8. ASSUME NEW p \in Procs, CompareOld(p) PROVE TypeOK'
    <2>1. pc[p] # "idle"
      BY <1>8 DEF CompareOld, Lookup
    <2>2. DiskOK' /\ LockOK'
      BY <1>8 DEF CompareOld, Lookup, DiskOK, LockOK, disk, locks
    <2>3. MemOK'
      BY <1>8, <2>1, ReloadTypes DEF CompareOld, MemOK, Lookup, mem
    <2>4. CallOK'
      BY <1>8, <2>1 DEF CompareOld, CallOK, Lookup, Fail, Goto, loop, Labels, Returns
    <2>. QED
      BY <2>2, <2>3, <2>4
  <1>9. ASSUME NEW p \in Procs, CompareNew(p) PROVE TypeOK'
    <2>1. pc[p] # "idle"
      BY <1>9 DEF CompareNew, Lookup
    <2>2. DiskOK' /\ LockOK'
      BY <1>9 DEF CompareNew, Lookup, DiskOK, LockOK, disk, locks
    <2>3. MemOK'
      BY <1>9, <2>1, ReloadTypes DEF CompareNew, MemOK, Lookup, mem
    <2>4. CallOK'
      BY <1>9, <2>1 DEF CompareNew, CallOK, Lookup, Fail, Goto, loop, Labels, Returns
    <2>. QED
      BY <2>2, <2>3, <2>4
  <1>10. ASSUME NEW p \in Procs, WriteLog(p) PROVE TypeOK'
    <2>1. pc[p] # "idle"
      BY <1>10 DEF WriteLog
    <2>2. LockOK'
      BY <1>10 DEF WriteLog, LockOK, locks
    <2>3. DiskOK'
      BY <1>10, <2>1, CallFields DEF WriteLog, DiskOK
    <2>4. MemOK'
      BY <1>10, <2>1, ReloadTypes DEF WriteLog, MemOK, mem
    <2>5. CallOK'
      BY <1>10, <2>1 DEF WriteLog, CallOK, Goto, loop, Labels
    <2>. QED
      BY <2>2, <2>3, <2>4, <2>5
  <1>11. ASSUME NEW p \in Procs, Commit(p) PROVE TypeOK'
    <2>1. pc[p] # "idle"
      BY <1>11 DEF Commit
    <2>2. MemOK'
      BY <1>11 DEF Commit, MemOK, mem
    <2>3. DiskOK'
      BY <1>11, <2>1, TargetType, CallFields DEF Commit, DiskOK
    <2>4. LockOK'
      BY <1>11, <2>1, TargetType DEF Commit, LockOK, DropLock
    <2>5. CallOK'
      BY <1>11, <2>1 DEF Commit, CallOK, Goto, Return, loop, Labels, Returns
    <2>. QED
      BY <2>2, <2>3, <2>4, <2>5
  <1>12. ASSUME NEW p \in Procs, Unlock(p) PROVE TypeOK'
    <2>1. pc[p] # "idle"
      BY <1>12 DEF Unlock
    <2>2. DiskOK' /\ MemOK'
      BY <1>12 DEF Unlock, DiskOK, MemOK, disk, mem
    <2>3. LockOK'
      BY <1>12, <2>1, CallFields DEF Unlock, LockOK, DropLock
    <2>4. CallOK'
      BY <1>12, <2>1 DEF Unlock, CallOK, Goto, loop, Labels
    <2>. QED
      BY <2>2, <2>3, <2>4
  <1>13. ASSUME NEW p \in Procs, DropLog(p) PROVE TypeOK'
    <2>1. pc[p] # "idle"
      BY <1>13 DEF DropLog
    <2>2. LockOK' /\ MemOK'
      BY <1>13 DEF DropLog, LockOK, MemOK, locks, mem
    <2>3. DiskOK'
      BY <1>13, <2>1, CallFields DEF DropLog, DiskOK
    <2>4. CallOK'
      BY <1>13, <2>1 DEF DropLog, CallOK, Goto, loop, Labels
    <2>. QED
      BY <2>2, <2>3, <2>4
  <1>14. ASSUME NEW p \in Procs, PackedDelete(p) PROVE TypeOK'
    <2>1. pc[p] # "idle"
      BY <1>14 DEF PackedDelete
    <2>2. DiskOK' /\ LockOK'
      BY <1>14 DEF PackedDelete, DiskOK, LockOK, disk, locks
    <2>3. MemOK'
      <3>1. [View(p) EXCEPT ![op[p].ref] = None] \in [Refs -> Oids \cup {None}]
        BY <2>1, ReadTypes, CallFields
      <3>2. ViewLoose(p) \ {op[p].ref} \in SUBSET Refs
        BY ReadTypes
      <3>. QED
        BY <1>14, <3>1, <3>2 DEF PackedDelete, MemOK, SetCache, DiskOK
    <2>4. CallOK'
      BY <1>14, <2>1 DEF PackedDelete, CallOK, Goto, loop, Labels
    <2>. QED
      BY <2>2, <2>3, <2>4
  <1>15. ASSUME NEW p \in Procs, Unlink(p) PROVE TypeOK'
    <2>1. pc[p] # "idle"
      BY <1>15 DEF Unlink
    <2>2. LockOK' /\ MemOK'
      BY <1>15 DEF Unlink, LockOK, MemOK, locks, mem
    <2>3. DiskOK'
      BY <1>15, <2>1, CallFields DEF Unlink, DiskOK
    <2>4. CallOK'
      BY <1>15, <2>1 DEF Unlink, CallOK, Fail, Goto, loop, Labels, Returns
    <2>. QED
      BY <2>2, <2>3, <2>4
  <1>16. ASSUME NEW p \in Procs, LockTo(p) PROVE TypeOK'
    <2>1. pc[p] # "idle"
      BY <1>16 DEF LockTo
    <2>2. DiskOK' /\ MemOK'
      BY <1>16 DEF LockTo, DiskOK, MemOK, disk, mem
    <2>3. LockOK'
      BY <1>16, <2>1, CallFields DEF LockTo, LockOK, TakeLock, locks
    <2>4. CallOK'
      BY <1>16, <2>1 DEF LockTo, CallOK, Goto, Return, loop, Labels, Returns
    <2>. QED
      BY <2>2, <2>3, <2>4
  <1>17. ASSUME NEW p \in Procs, MoveLog(p) PROVE TypeOK'
    <2>1. pc[p] # "idle"
      BY <1>17 DEF MoveLog
    <2>2. LockOK' /\ MemOK'
      BY <1>17 DEF MoveLog, LockOK, MemOK, locks, mem
    <2>3. DiskOK'
      BY <1>17, <2>1, CallFields DEF MoveLog, DiskOK
    <2>4. CallOK'
      BY <1>17, <2>1 DEF MoveLog, CallOK, Goto, loop, Labels
    <2>. QED
      BY <2>2, <2>3, <2>4
  <1>18. ASSUME NEW p \in Procs, StartCompress(p) PROVE TypeOK'
    <2>1. pc[p] # "idle"
      BY <1>18 DEF StartCompress
    <2>2. DiskOK' /\ LockOK'
      BY <1>18 DEF StartCompress, DiskOK, LockOK, disk, locks
    <2>3. MemOK'
      BY <1>18, <2>1, ReloadTypes DEF StartCompress, MemOK
    <2>4. CallOK'
      BY <1>18, <2>1 DEF StartCompress, CallOK, Goto, loop, Labels
    <2>. QED
      BY <2>2, <2>3, <2>4
  <1>19. ASSUME NEW p \in Procs, LoadLoose(p) PROVE TypeOK'
    <2>1. DiskOK' /\ LockOK' /\ CallOK'
      BY <1>19 DEF LoadLoose, DiskOK, LockOK, CallOK, disk, locks
    <2>2. PICK r \in todo[p] : IF loose[r] \in Oids
                               THEN /\ cache' = [cache EXCEPT ![p][r] = loose[r]]
                                    /\ wasLoose' = [wasLoose EXCEPT ![p] = @ \cup {r}]
                               ELSE UNCHANGED <<cache, wasLoose>>
      BY <1>19 DEF LoadLoose
    <2>3. r \in Refs /\ UNCHANGED fresh
      BY <1>19 DEF CallOK, LoadLoose
    <2>4. CASE loose[r] \in Oids
      <3>1. cache[p] \in [Refs -> Oids \cup {None}] /\ wasLoose[p] \in SUBSET Refs
        BY DEF MemOK
      <3>2. [cache[p] EXCEPT ![r] = loose[r]] \in [Refs -> Oids \cup {None}]
        BY <2>3, <2>4, <3>1
      <3>3. /\ cache' = [cache EXCEPT ![p] = [cache[p] EXCEPT ![r] = loose[r]]]
            /\ wasLoose' = [wasLoose EXCEPT ![p] = wasLoose[p] \cup {r}]
        BY <2>2, <2>4
      <3>4. MemOK'
        BY <2>3, <3>1, <3>2, <3>3 DEF MemOK
      <3>. QED
        BY <2>1, <3>4
    <2>5. CASE loose[r] \notin Oids
      BY <2>1, <2>2, <2>3, <2>5 DEF MemOK
    <2>. QED
      BY <2>4, <2>5
  <1>20. ASSUME NEW p \in Procs, EndLoad(p) PROVE TypeOK'
    <2>1. pc[p] # "idle"
      BY <1>20 DEF EndLoad
    <2>2. DiskOK' /\ LockOK' /\ MemOK'
      BY <1>20 DEF EndLoad, DiskOK, LockOK, MemOK, disk, locks, mem
    <2>3. CallOK'
      BY <1>20, <2>1 DEF EndLoad, CallOK, Goto, loop, Labels
    <2>. QED
      BY <2>2, <2>3
  <1>21. ASSUME NEW p \in Procs, LockPacked(p) PROVE TypeOK'
    <2>1. pc[p] # "idle"
      BY <1>21 DEF LockPacked
    <2>2. DiskOK' /\ MemOK'
      BY <1>21 DEF LockPacked, DiskOK, MemOK, disk, mem
    <2>3. LockOK'
      BY <1>21, <2>1 DEF LockPacked, LockOK, locks
    <2>4. CallOK'
      BY <1>21, <2>1 DEF LockPacked, CallOK, Abort, Fail, Goto, Return, loop, Labels, Returns
    <2>. QED
      BY <2>2, <2>3, <2>4
  <1>22. ASSUME NEW p \in Procs, WritePacked(p) PROVE TypeOK'
    <2>1. pc[p] # "idle"
      BY <1>22 DEF WritePacked
    <2>2. DiskOK'
      BY <1>22, <2>1 DEF WritePacked, DiskOK, MemOK
    <2>3. LockOK'
      BY <1>22, <2>1 DEF WritePacked, LockOK
    <2>4. MemOK'
      BY <1>22, <2>1 DEF WritePacked, MemOK
    <2>5. CallOK'
      BY <1>22, <2>1 DEF WritePacked, CallOK, Goto, loop, Labels, MemOK
    <2>. QED
      BY <2>2, <2>3, <2>4, <2>5
  <1>23. ASSUME NEW p \in Procs, PruneLock(p) PROVE TypeOK'
    <2>1. pc[p] # "idle"
      BY <1>23 DEF PruneLock
    <2>2. DiskOK' /\ MemOK'
      BY <1>23 DEF PruneLock, DiskOK, MemOK, disk, mem
    <2>3. LockOK'
      BY <1>23, <2>1, CallFields DEF PruneLock, LockOK, TakeLock, locks, CallOK
    <2>4. CallOK'
      BY <1>23, <2>1 DEF PruneLock, CallOK, Abort, Fail, Goto, Return, loop, Labels, Returns
    <2>. QED
      BY <2>2, <2>3, <2>4
  <1>24. ASSUME NEW p \in Procs, PruneCheck(p) PROVE TypeOK'
    <2>1. pc[p] # "idle"
      BY <1>24 DEF PruneCheck
    <2>2. LockOK' /\ MemOK'
      BY <1>24 DEF PruneCheck, LockOK, MemOK, locks, mem
    <2>3. DiskOK'
      BY <1>24, <2>1 DEF PruneCheck, DiskOK, CallOK
    <2>4. CallOK'
      BY <1>24, <2>1 DEF PruneCheck, CallOK, Goto, loop, Labels
    <2>. QED
      BY <2>2, <2>3, <2>4
  <1>25. ASSUME NEW p \in Procs, PruneUnlock(p) PROVE TypeOK'
    <2>1. pc[p] # "idle"
      BY <1>25 DEF PruneUnlock
    <2>2. DiskOK' /\ MemOK'
      BY <1>25 DEF PruneUnlock, DiskOK, MemOK, disk, mem
    <2>3. LockOK'
      BY <1>25, <2>1 DEF PruneUnlock, LockOK, DropLock, CallOK
    <2>4. CallOK'
      BY <1>25, <2>1 DEF PruneUnlock, CallOK, Goto, loop, Labels
    <2>. QED
      BY <2>2, <2>3, <2>4
  <1>26. ASSUME NEW p \in Procs, EndPrune(p) PROVE TypeOK'
    <2>1. pc[p] # "idle"
      BY <1>26 DEF EndPrune
    <2>2. DiskOK' /\ LockOK'
      BY <1>26 DEF EndPrune, DiskOK, LockOK, disk, locks
    <2>3. MemOK'
      BY <1>26, <2>1 DEF EndPrune, MemOK
    <2>4. CallOK'
      BY <1>26, <2>1 DEF EndPrune, CallOK, Goto, Return, loop, Labels, Returns
    <2>. QED
      BY <2>2, <2>3, <2>4
  <1>27. ASSUME NEW p \in Procs, Crash(p) PROVE TypeOK'
    <2>1. pc[p] # "idle"
      BY <1>27 DEF Crash
    <2>2. DiskOK'
      BY <1>27 DEF Crash, DiskOK, disk
    <2>3. LockOK'
      BY <1>27, <2>1 DEF Crash, LockOK
    <2>4. MemOK'
      BY <1>27, <2>1 DEF Crash, MemOK
    <2>5. CallOK'
      BY <1>27, <2>1 DEF Crash, CallOK, Goto, loop, Labels, Returns
    <2>. QED
      BY <2>2, <2>3, <2>4, <2>5
  <1>28. CASE UNCHANGED vars
    BY <1>28 DEF DiskOK, LockOK, MemOK, CallOK, vars, disk, locks, mem, loop
  <1>. QED
    BY <1>1, <1>2, <1>3, <1>4, <1>5, <1>6, <1>7, <1>8, <1>9, <1>10, <1>11, <1>12, <1>13,
       <1>14, <1>15, <1>16, <1>17, <1>18, <1>19, <1>20, <1>21, <1>22, <1>23, <1>24, <1>25,
       <1>26, <1>27, <1>28 DEF Next, Step

\* Type correctness.
THEOREM TypeCorrect == Spec => []TypeOK
  BY InitTypeOK, StepTypeOK, PTL DEF Spec
-----------------------------------------------------------------------------
(***************************************************************************)
(* The lock files in the directory are exactly those the calls in progress *)
(* hold, no call leaks one, and a loose file changes only under its lock,  *)
(* with crashes at any label.                                              *)
(***************************************************************************)
\* What p does, one way or another.
Act(p) == Call(p) \/ Step(p) \/ Crash(p)

\* A step of p leaves the call of every other process alone.
LEMMA Frame ==
    ASSUME TypeOK, NEW p \in Procs, Act(p), NEW q \in Procs, q # p
    PROVE  pc'[q] = pc[q] /\ op'[q] = op[q] /\ cur'[q] = cur[q]
  <1>1. CASE Call(p) \/ Crash(p) \/ Finish(p)
    BY <1>1
       DEF Call, First, Crash, Finish, Lookup, Goto, Return, Fail, Abort, loop, TypeOK, CallOK
  <1>2. CASE Get(p) \/ Exists(p) \/ CompareOld(p) \/ CompareNew(p)
    BY <1>2
       DEF Get, Exists, AfterAvail, CompareOld, CompareNew, Lookup, Goto, Return, Fail, Abort, loop, TypeOK, CallOK
  <1>3. CASE Find(p)
    BY <1>3
       DEF Find, Lookup, Goto, Return, Fail, Abort, loop, TypeOK, CallOK
  <1>4. CASE Avail(p) \/ Lock(p) \/ Commit(p) \/ Unlock(p)
    BY <1>4
       DEF Avail, AfterAvail, Reload, SetCache, Lock, AfterLock, Commit, Unlock, Lookup, Goto, Return, Fail, Abort, loop, TypeOK, CallOK
  <1>5. CASE WriteLog(p) \/ DropLog(p) \/ MoveLog(p) \/ LockTo(p) \/ Unlink(p)
    BY <1>5
       DEF WriteLog, DropLog, MoveLog, LockTo, Unlink, Lookup, Goto, Return, Fail, Abort, loop, TypeOK, CallOK
  <1>6. CASE PackedDelete(p) \/ StartCompress(p) \/ LoadLoose(p) \/ EndLoad(p)
    BY <1>6
       DEF PackedDelete, StartCompress, LoadLoose, EndLoad, Lookup, Goto, Return, Fail, Abort, loop, TypeOK, CallOK
  <1>7. CASE LockPacked(p) \/ WritePacked(p) \/ PruneLock(p)
    BY <1>7
       DEF LockPacked, WritePacked, PruneLock, Lookup, Goto, Return, Fail, Abort, loop, TypeOK, CallOK
  <1>8. CASE PruneCheck(p) \/ PruneUnlock(p) \/ EndPrune(p)
    BY <1>8
       DEF PruneCheck, PruneUnlock, EndPrune, Lookup, Goto, Return, Fail, Abort, loop, TypeOK, CallOK
  <1>. QED
    BY <1>1, <1>2, <1>3, <1>4, <1>5, <1>6, <1>7, <1>8 DEF Act, Step

\* A step of p keeps p at a label its call can reach.
LEMMA StepKind ==
    ASSUME TypeOK, KindInv, NEW p \in Procs, Act(p)
    PROVE  KindOK(p)'
  <1>1. CASE Call(p)
    <2>1. PICK o \in OpType : /\ op' = [op EXCEPT ![p] = o] /\ Goto(p, First(o))
                              /\ p \in Packers \/ o.kind \in {"lookup", "write"}
      BY <1>1, ConstantsAssumption DEF Call, OpsOf
    <2>2. pc'[p] = First(o) /\ op'[p] = o
      BY <2>1 DEF Goto, TypeOK, CallOK
    <2>3. o.kind \in {"lookup", "write", "delete", "rename", "compress"}
      BY DEF OpType
    <2>. QED
      BY <2>1, <2>2, <2>3 DEF First, KindOK, PackLabels
  <1>0. CASE Crash(p) \/ Finish(p)
    BY <1>0 DEF Crash, Finish, Goto, KindOK, PackLabels, TypeOK, CallOK
  <1>2. CASE Get(p) \/ Exists(p) \/ CompareOld(p) \/ CompareNew(p)
    BY <1>2, CallFields
       DEF Get, Exists, AfterAvail, CompareOld, CompareNew, Lookup, Goto, Return, Fail, Abort, loop, KindInv, KindOK, PackLabels, TypeOK, CallOK
  <1>3. CASE Find(p)
    <2>1. pc[p] \in {"find", "findPacked"} /\ op[p].kind = "rename" /\ p \in Packers
      BY <1>3 DEF Find, Lookup, KindInv, KindOK
    <2>2. op'[p].kind = op[p].kind /\ pc'[p] \in {"findPacked", "done", "lock"}
      BY <1>3, <2>1, CallFields DEF Find, Lookup, Goto, Return, TypeOK, CallOK, OpType
    <2>. QED
      BY <2>1, <2>2 DEF KindOK, PackLabels
  <1>4. CASE Avail(p) \/ Lock(p) \/ Commit(p) \/ Unlock(p)
    BY <1>4, CallFields
       DEF Avail, AfterAvail, Reload, SetCache, Lock, AfterLock, Commit, Unlock, Lookup, Goto, Return, Fail, Abort, loop, KindInv, KindOK, PackLabels, TypeOK, CallOK
  <1>5. CASE WriteLog(p) \/ DropLog(p) \/ MoveLog(p) \/ LockTo(p) \/ Unlink(p)
    BY <1>5, CallFields
       DEF WriteLog, DropLog, MoveLog, LockTo, Unlink, Lookup, Goto, Return, Fail, Abort, loop, KindInv, KindOK, PackLabels, TypeOK, CallOK
  <1>6. CASE PackedDelete(p) \/ StartCompress(p) \/ LoadLoose(p) \/ EndLoad(p)
    BY <1>6, CallFields
       DEF PackedDelete, StartCompress, LoadLoose, EndLoad, Lookup, Goto, Return, Fail, Abort, loop, KindInv, KindOK, PackLabels, TypeOK, CallOK
  <1>7. CASE LockPacked(p) \/ WritePacked(p) \/ PruneLock(p)
    BY <1>7, CallFields
       DEF LockPacked, WritePacked, PruneLock, Lookup, Goto, Return, Fail, Abort, loop, KindInv, KindOK, PackLabels, TypeOK, CallOK
  <1>8. CASE PruneCheck(p) \/ PruneUnlock(p) \/ EndPrune(p)
    BY <1>8, CallFields
       DEF PruneCheck, PruneUnlock, EndPrune, Lookup, Goto, Return, Fail, Abort, loop, KindInv, KindOK, PackLabels, TypeOK, CallOK
  <1>. QED
    BY <1>0, <1>1, <1>2, <1>3, <1>4, <1>5, <1>6, <1>7, <1>8 DEF Act, Step

\* A step of p takes free locks and gives up its own, and touches no other.
LEMMA LockMoves ==
    ASSUME TypeOK, KindInv, LockInv, NEW p \in Procs, Act(p)
    PROVE  /\ \A r \in Refs : \/ refLock'[r] = refLock[r]
                              \/ refLock[r] = Nobody /\ refLock'[r] = p
                              \/ refLock[r] = p /\ refLock'[r] \in {Nobody, Stale}
           /\ \/ packLock' = packLock
              \/ packLock = Nobody /\ packLock' = p
              \/ packLock = p /\ packLock' \in {Nobody, Stale}
  <1>1. CASE Call(p) \/ Finish(p) \/ Get(p) \/ Exists(p) \/ CompareOld(p) \/ CompareNew(p) \/ Find(p) \/ Avail(p) \/ WriteLog(p) \/ DropLog(p) \/ MoveLog(p) \/ Unlink(p)
    BY <1>1
       DEF Call, First, Finish, Get, Exists, AfterAvail, CompareOld, CompareNew, Find, Avail, Reload, SetCache, WriteLog, DropLog, MoveLog, Unlink, locks, Lookup
  <1>2. CASE PackedDelete(p) \/ StartCompress(p) \/ LoadLoose(p) \/ EndLoad(p) \/ PruneCheck(p) \/ EndPrune(p)
    BY <1>2
       DEF PackedDelete, StartCompress, LoadLoose, EndLoad, PruneCheck, EndPrune, locks, Lookup
  <1>3. CASE Lock(p) \/ LockTo(p)
    BY <1>3, CallFields
       DEF Lock, LockTo, TakeLock, locks, TypeOK, LockOK
  <1>4. CASE PruneLock(p)
    BY <1>4
       DEF PruneLock, TakeLock, locks, TypeOK, LockOK, CallOK
  <1>5. CASE LockPacked(p) \/ WritePacked(p)
    BY <1>5
       DEF LockPacked, WritePacked, locks, TypeOK, LockOK, LockInv, LockedBy
  <1>6. CASE Commit(p)
    BY <1>6, CallFields
       DEF Commit, DropLock, Target, TypeOK, LockOK, LockInv, LockedBy, Holds, KindInv, KindOK
  <1>7. CASE Unlock(p) \/ PruneUnlock(p)
    BY <1>7, CallFields
       DEF Unlock, PruneUnlock, DropLock, TypeOK, LockOK, CallOK, LockInv, LockedBy, Holds
  <1>8. CASE Crash(p)
    BY <1>8
       DEF Crash, TypeOK, LockOK
  <1>. QED
    BY <1>1, <1>2, <1>3, <1>4, <1>5, <1>6, <1>7, <1>8 DEF Act, Step

\* So the locks of another process stay as its call holds them.
LEMMA OtherLocked ==
    ASSUME TypeOK, KindInv, LockInv, NEW p \in Procs, Act(p), NEW q \in Procs, q # p
    PROVE  LockedBy(q)'
  <1>1. pc'[q] = pc[q] /\ op'[q] = op[q] /\ cur'[q] = cur[q]
    BY Frame
  <1>2. \A r \in Refs : Holds(q, r)' <=> Holds(q, r)
    BY <1>1 DEF Holds
  <1>3. /\ \A r \in Refs : refLock'[r] = q <=> refLock[r] = q
        /\ packLock' = q <=> packLock = q
    BY LockMoves, ConstantsAssumption
  <1>. QED
    BY <1>1, <1>2, <1>3 DEF LockInv, LockedBy

\* After a step, p's locks are those its new label stands for.
LEMMA StepLocked ==
    ASSUME TypeOK, KindInv, LockInv, NEW p \in Procs, Act(p)
    PROVE  LockedBy(p)'
  <1>. USE DEF Goto, Return, Fail, Abort, Holds, PackLabels, LockedBy
  <1>1. CASE Call(p)
    <2>1. PICK o \in OpType : op' = [op EXCEPT ![p] = o] /\ Goto(p, First(o))
      BY <1>1, ConstantsAssumption DEF Call, OpsOf
    <2>2. pc'[p] \in {"get", "avail", "lock", "reload"}
      BY <2>1 DEF First, OpType, TypeOK, CallOK
    <2>. QED
      BY <1>1, <2>2 DEF Call, locks, LockInv
  <1>2. CASE Finish(p)
    BY <1>2
       DEF Finish, locks, TypeOK, CallOK, LockInv
  <1>3. CASE Get(p) \/ Exists(p)
    BY <1>3, CallFields
       DEF Get, Exists, Lookup, AfterAvail, locks, loop, KindInv, KindOK, TypeOK, CallOK, LockInv
  <1>4. CASE CompareOld(p) \/ CompareNew(p)
    BY <1>4, CallFields
       DEF CompareOld, CompareNew, Lookup, locks, loop, KindInv, KindOK, TypeOK, CallOK, LockInv
  <1>5. CASE Find(p)
    BY <1>5, CallFields
       DEF Find, Lookup, locks, loop, KindInv, KindOK, OpType, TypeOK, CallOK, LockInv
  <1>6. CASE Avail(p) \/ DropLog(p) \/ MoveLog(p) \/ Unlink(p) \/ WriteLog(p)
    BY <1>6, CallFields
       DEF Avail, DropLog, MoveLog, Unlink, WriteLog, AfterAvail, locks, loop, KindInv, KindOK, TypeOK, CallOK, LockInv
  <1>7. CASE Lock(p)
    BY <1>7, CallFields
       DEF Lock, AfterLock, TakeLock, locks, loop, LockOK, KindInv, KindOK, TypeOK, CallOK, LockInv
  <1>8. CASE LockTo(p)
    BY <1>8, CallFields
       DEF LockTo, TakeLock, locks, loop, LockOK, KindInv, KindOK, TypeOK, CallOK, LockInv
  <1>9. CASE Commit(p) \/ Unlock(p)
    BY <1>9, CallFields, ConstantsAssumption
       DEF Commit, Unlock, Target, DropLock, loop, LockOK, KindInv, KindOK, TypeOK, CallOK, LockInv
  <1>10. CASE PackedDelete(p) \/ StartCompress(p) \/ LoadLoose(p) \/ EndLoad(p)
    BY <1>10, CallFields
       DEF PackedDelete, StartCompress, LoadLoose, EndLoad, locks, loop, KindInv, KindOK, TypeOK, CallOK, LockInv
  <1>11. CASE LockPacked(p) \/ WritePacked(p)
    BY <1>11, CallFields, ConstantsAssumption
       DEF LockPacked, WritePacked, locks, loop, LockOK, KindInv, KindOK, TypeOK, CallOK, LockInv
  <1>12. CASE PruneLock(p)
    BY <1>12, CallFields, ConstantsAssumption
       DEF PruneLock, TakeLock, locks, LockOK, KindInv, KindOK, TypeOK, CallOK, LockInv
  <1>13. CASE PruneCheck(p) \/ EndPrune(p)
    BY <1>13, CallFields
       DEF PruneCheck, EndPrune, locks, loop, KindInv, KindOK, TypeOK, CallOK, LockInv
  <1>14. CASE PruneUnlock(p)
    BY <1>14, CallFields, ConstantsAssumption
       DEF PruneUnlock, DropLock, loop, LockOK, KindInv, KindOK, TypeOK, CallOK, LockInv
  <1>15. CASE Crash(p)
    BY <1>15, ConstantsAssumption
       DEF Crash, LockOK, TypeOK, CallOK, LockInv
  <1>. QED
    BY <1>1, <1>2, <1>3, <1>4, <1>5, <1>6, <1>7, <1>8, <1>9, <1>10, <1>11, <1>12, <1>13, <1>14, <1>15 DEF Act, Step

\* No call is in progress at first, and there is no lock file.
LEMMA InitLocked == Init => KindInv /\ LockInv
  BY ConstantsAssumption DEF Init, KindInv, KindOK, LockInv, LockedBy, Holds, PackLabels

LEMMA NextLocked == TypeOK /\ KindInv /\ LockInv /\ [Next]_vars => KindInv' /\ LockInv'
  <1> SUFFICES ASSUME TypeOK, KindInv, LockInv, [Next]_vars PROVE KindInv' /\ LockInv'
    OBVIOUS
  <1>1. ASSUME NEW p \in Procs, Act(p) PROVE KindInv' /\ LockInv'
    <2>1. ASSUME NEW q \in Procs, q # p PROVE KindOK(q)'
      BY <1>1, <2>1, Frame DEF KindInv, KindOK
    <2>2. KindOK(p)'
      BY <1>1, StepKind
    <2>3. ASSUME NEW q \in Procs, q # p PROVE LockedBy(q)'
      BY <1>1, <2>3, OtherLocked
    <2>4. LockedBy(p)'
      BY <1>1, StepLocked
    <2>. QED
      BY <2>1, <2>2, <2>3, <2>4 DEF KindInv, LockInv
  <1>2. CASE UNCHANGED vars
    BY <1>2 DEF vars, loop, locks, KindInv, KindOK, LockInv, LockedBy, Holds
  <1>. QED
    BY <1>1, <1>2 DEF Next, Act

\* The lock files in the directory are those the calls in progress hold.
THEOREM LocksOwned == Spec => [](TypeOK /\ KindInv /\ LockInv)
  <1>1. Init => TypeOK /\ KindInv /\ LockInv
    BY InitTypeOK, InitLocked
  <1>2. TypeOK /\ KindInv /\ LockInv /\ [Next]_vars => (TypeOK /\ KindInv /\ LockInv)'
    BY StepTypeOK, NextLocked
  <1>. QED
    BY <1>1, <1>2, PTL DEF Spec

\* A call that is over holds no lock file, whatever path it left by.
THEOREM NoLeak == Spec => []NoLeakedLock
  <1>1. LockInv => NoLeakedLock
    BY DEF LockInv, LockedBy, Holds, PackLabels, NoLeakedLock
  <1>. QED
    BY <1>1, LocksOwned, PTL

\* A loose file is written and removed by the holder of its lock only.
THEOREM LooseLocked == Spec => LooseUnderLock
  <1> DEFINE Guarded == \A r \in Refs : loose'[r] # loose[r] =>
                            \E p \in Procs : refLock[r] = p /\ pc'[p] # pc[p]
  <1>1. TypeOK /\ KindInv /\ LockInv /\ [Next]_vars => [Guarded]_vars
    <2> SUFFICES ASSUME TypeOK, KindInv, LockInv, [Next]_vars, NEW r \in Refs, loose'[r] # loose[r]
                 PROVE  \E p \in Procs : refLock[r] = p /\ pc'[p] # pc[p]
      OBVIOUS
    <2>1. PICK p \in Procs : Act(p)
      BY DEF Next, Act, vars, disk
    <2>2. Commit(p) \/ Unlink(p) \/ PruneCheck(p)
      BY <2>1 DEF Act, Step, Call, Finish, Get, Avail, Exists, Find, Lock, CompareOld,
         CompareNew, WriteLog, Unlock, DropLog, PackedDelete, LockTo, MoveLog,
         StartCompress, LoadLoose, EndLoad, LockPacked, WritePacked, PruneLock,
         PruneUnlock, EndPrune, Crash, Lookup, disk
    <2>3. Holds(p, r) /\ pc'[p] # pc[p]
      <3>1. CASE Commit(p)
        BY <3>1, CallFields DEF Commit, Target, Return, Goto, Holds, KindInv, KindOK, TypeOK,
           DiskOK, CallOK
      <3>2. CASE Unlink(p)
        BY <3>2, CallFields DEF Unlink, Fail, Goto, Holds, TypeOK, DiskOK, CallOK
      <3>3. CASE PruneCheck(p)
        BY <3>3 DEF PruneCheck, Goto, Holds, TypeOK, DiskOK, CallOK
      <3>. QED
        BY <2>2, <3>1, <3>2, <3>3
    <2>. QED
      BY <2>3 DEF LockInv, LockedBy
  <1>. QED
    BY <1>1, LocksOwned, PTL DEF Spec, LooseUnderLock
=============================================================================
