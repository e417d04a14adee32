------------------------- MODULE RefdbFsReaderProof -------------------------
(***************************************************************************)
(* A lookup reads the loose file, then packed-refs, with no lock held: for *)
(* any processes, references and calls, with one packer that does not      *)
(* crash, it answers with a value the reference had while it looked.       *)
(***************************************************************************)
EXTENDS RefdbFsReader, RefdbFsRefines

\* What q may write to packed-refs as the entry of r.
Packs(q, r) == /\ pc[q] \in {"load", "packLock", "packWrite"}
               /\ op[q].kind = "compress" \/ r # op[q].ref

\* Once p has found no loose file, the entry in packed-refs has been the value
\* since it looks, and so has the one that the packer may put there.
LookBy(p) ==
    Looking(p) =>
        /\ Observable(op[p].ref) \subseteq seen[p]
        /\ pc[p] = "getPacked" =>
              /\ packed[op[p].ref] \in seen[p]
              /\ \A q \in Procs : Packs(q, op[p].ref) => cache[q][op[p].ref] \in seen[p]

LookInv == \A p \in Procs : LookBy(p)

LEMMA SeenGrows ==
    ASSUME Observe, NEW q \in Procs, Looking(q)'
    PROVE  Observable(op[q].ref)' \subseteq seen'[q] /\ seen[q] \subseteq seen'[q]
  BY DEF Observe

\* Only the first step of a lookup leads to the second.
LEMMA EnterPacked ==
    ASSUME TypeOK, KindInv, NEW p \in Procs, Act(p), pc'[p] = "getPacked"
    PROVE  /\ pc[p] = "get" /\ loose[op[p].ref] = None
           /\ UNCHANGED <<disk, mem, op>>
  <1>. USE DEF Goto, Return, Fail, Abort, TypeOK, CallOK
  <1>1. CASE Get(p)
    <2>1. pc[p] \in {"get", "getPacked"} /\ UNCHANGED disk
      BY <1>1 DEF Get, Lookup
    <2>2. \/ pc'[p] = "done"
          \/ pc[p] = "get" /\ loose[op[p].ref] = None /\ UNCHANGED <<mem, op>>
      BY <1>1, <2>1 DEF Get, Lookup
    <2>. QED
      BY <2>1, <2>2
  <1>2. CASE Call(p)
    BY <1>2, ConstantsAssumption DEF Call, First, OpsOf, OpType
  <1>3. CASE Exists(p) \/ Find(p) \/ CompareOld(p) \/ CompareNew(p)
    BY <1>3 DEF Exists, Find, CompareOld, CompareNew, Lookup, AfterAvail
  <1>4. CASE Finish(p) \/ Avail(p) \/ Lock(p) \/ WriteLog(p) \/ Commit(p) \/ Unlock(p) \/ DropLog(p)
    BY <1>4 DEF Finish, Avail, AfterAvail, Lock, AfterLock, WriteLog, Commit, Unlock, DropLog
  <1>5. CASE PackedDelete(p) \/ Unlink(p) \/ LockTo(p) \/ MoveLog(p) \/ StartCompress(p)
             \/ LoadLoose(p) \/ EndLoad(p) \/ LockPacked(p) \/ WritePacked(p)
    BY <1>5 DEF PackedDelete, Unlink, LockTo, MoveLog, StartCompress, LoadLoose, EndLoad,
       LockPacked, WritePacked
  <1>6. CASE PruneLock(p) \/ PruneCheck(p) \/ PruneUnlock(p) \/ EndPrune(p) \/ Crash(p)
    BY <1>6 DEF PruneLock, PruneCheck, PruneUnlock, EndPrune, Crash
  <1>. QED
    BY <1>1, <1>2, <1>3, <1>4, <1>5, <1>6 DEF Act, Step

\* What the entry of r becomes: what the packer was about to write, or, when it
\* deletes r, nothing, and the deletion is then visible.
LEMMA EntryMoves ==
    ASSUME IInv, NEW p \in Procs, Act(p), NEW r \in Refs
    PROVE  \/ packed'[r] = packed[r]
           \/ Packs(p, r) /\ packed'[r] = cache[p][r]
           \/ packed'[r] = None /\ None \in Observable(r)'
  <1>1. CASE WritePacked(p)
    <2>1. /\ pc[p] = "packWrite" /\ pc'[p] = "prune" /\ packed' = cache[p] /\ op' = op
      BY <1>1 DEF WritePacked, Goto, IInv, TypeOK, CallOK
    <2>2. op[p].kind \in {"delete", "rename", "compress"}
      BY <2>1 DEF IInv, KindInv, KindOK, PackLabels
    <2>3. CASE op[p].kind # "compress" /\ r = op[p].ref
      <3>1. cache[p][r] = None
        BY <2>1, <2>3 DEF IInv, PackInv, PackedBy
      <3>2. Deleting(r)'
        BY <2>1, <2>2, <2>3 DEF Deleting
      <3>. QED
        BY <2>1, <3>1, <3>2 DEF Observable
    <2>. QED
      BY <2>1, <2>3 DEF Packs
  <1>2. CASE ~ WritePacked(p)
    BY <1>2, DiskFrame DEF IInv
  <1>. QED
    BY <1>1, <1>2

\* What the packer may write as the entry of r: what is there, or the loose file.
LEMMA PacksMoves ==
    ASSUME IInv, NEW p \in Procs, Act(p), NEW r \in Refs, Packs(p, r)'
    PROVE  \/ Packs(p, r) /\ cache'[p][r] = cache[p][r]
           \/ cache'[p][r] = packed[r]
           \/ cache'[p][r] = Value(r)'
  <1>. USE DEF IInv, TypeOK, CallOK, Goto, Return, Fail, Abort
  <1>0. pc'[p] \in {"load", "packLock", "packWrite"} /\ (op'[p].kind = "compress" \/ r # op'[p].ref)
    BY DEF Packs
  <1>1. CASE StartCompress(p)
    <2>1. View(p) = packed
      BY <1>1 DEF StartCompress, PackInv, PackedBy, PackLabels
    <2>. QED
      BY <1>1, <2>1 DEF StartCompress, Reload, SetCache, MemOK
  <1>2. CASE PackedDelete(p)
    <2>1. View(p) = packed /\ op' = op
      BY <1>2 DEF PackedDelete, PackInv, PackedBy, PackLabels
    <2>2. op[p].kind # "compress"
      BY <1>2 DEF PackedDelete, KindInv, KindOK
    <2>. QED
      BY <1>0, <1>2, <2>1, <2>2 DEF PackedDelete, SetCache, MemOK, DiskOK
  <1>3. CASE LoadLoose(p)
    <2>1. pc[p] = "load" /\ op' = op /\ loose' = loose /\ pc' = pc /\ Packs(p, r)
      BY <1>0, <1>3 DEF LoadLoose, disk, Packs
    <2>2. PICK x \in todo[p] : \/ cache' = cache
                               \/ loose[x] \in Oids /\ cache' = [cache EXCEPT ![p][x] = loose[x]]
      BY <1>3 DEF LoadLoose
    <2>3. cache'[p][r] = cache[p][r] \/ (loose[r] \in Oids /\ cache'[p][r] = loose[r])
      BY <2>2 DEF MemOK
    <2>4. loose[r] \in Oids => Value(r)' = loose[r]
      BY <2>1, ConstantsAssumption DEF Value, Vals
    <2>. QED
      BY <2>1, <2>3, <2>4
  <1>4. CASE EndLoad(p) \/ LockPacked(p)
    BY <1>0, <1>4 DEF EndLoad, LockPacked, Packs, mem
  <1>5. CASE Call(p)
    BY <1>0, <1>5, ConstantsAssumption DEF Call, First, OpsOf, OpType
  <1>6. CASE Get(p) \/ Exists(p) \/ Find(p) \/ CompareOld(p) \/ CompareNew(p)
    BY <1>0, <1>6 DEF Get, Exists, Find, CompareOld, CompareNew, Lookup, AfterAvail
  <1>7. CASE Finish(p) \/ Avail(p) \/ Lock(p) \/ WriteLog(p) \/ Commit(p) \/ Unlock(p) \/ DropLog(p)
    BY <1>0, <1>7 DEF Finish, Avail, AfterAvail, Lock, AfterLock, WriteLog, Commit, Unlock, DropLog
  <1>8. CASE Unlink(p) \/ LockTo(p) \/ MoveLog(p) \/ WritePacked(p) \/ Crash(p)
    BY <1>0, <1>8 DEF Unlink, LockTo, MoveLog, WritePacked, Crash
  <1>9. CASE PruneLock(p) \/ PruneCheck(p) \/ PruneUnlock(p) \/ EndPrune(p)
    BY <1>0, <1>9 DEF PruneLock, PruneCheck, PruneUnlock, EndPrune
  <1>. QED
    BY <1>1, <1>2, <1>3, <1>4, <1>5, <1>6, <1>7, <1>8, <1>9 DEF Act, Step

\* A process that goes on to packed-refs has seen the entry, and so what may
\* replace it: without a loose file the packer's cache is packed-refs.
LEMMA SelfLooks ==
    ASSUME IInv, NEW p \in Procs, Act(p), Observe
    PROVE  LookBy(p)'
  <1>1. CASE pc'[p] = "getPacked"
    <2> DEFINE r == op[p].ref
    <2>1. pc[p] = "get" /\ loose[r] = None /\ UNCHANGED <<disk, mem, op>>
      BY <1>1, EnterPacked DEF IInv
    <2>2. r \in Refs
      BY <2>1, CallFields DEF IInv
    <2>3. Value(r)' = packed[r] /\ packed' = packed
      BY <2>1 DEF Value, disk
    <2>4. packed[r] \in Observable(r)'
      BY <2>3 DEF Observable
    <2>5. Looking(p)'
      BY <1>1 DEF Looking
    <2>6. Observable(op[p].ref)' \subseteq seen'[p] /\ packed[r] \in seen'[p]
      BY <2>1, <2>4, <2>5, SeenGrows DEF Observable, Deleting, Value
    <2>7. ASSUME NEW q \in Procs, Packs(q, r)' PROVE cache'[q][r] = packed[r]
      <3>1. q # p
        BY <1>1, <2>7 DEF Packs
      <3>2. pc'[q] = pc[q] /\ cache' = cache
        BY <2>1, <3>1, Frame DEF IInv, mem
      <3>3. Packs(q, r)
        BY <2>1, <2>7, <3>2 DEF Packs
      <3>. QED
        BY <2>1, <2>2, <3>2, <3>3 DEF Packs, IInv, PackInv, PackedBy
    <2>. QED
      BY <2>1, <2>3, <2>6, <2>7 DEF LookBy, Packs
  <1>2. CASE pc'[p] # "getPacked"
    BY <1>2, SeenGrows DEF LookBy
  <1>. QED
    BY <1>1, <1>2

\* A step of p keeps what another process has seen of what it looks up.
LEMMA OtherLooks ==
    ASSUME IInv, LookInv, NEW p \in Procs, Act(p), Observe, NEW q \in Procs, q # p
    PROVE  LookBy(q)'
  <1>1. pc'[q] = pc[q] /\ op'[q] = op[q]
    BY Frame DEF IInv
  <1>2. ASSUME Looking(q)' PROVE Observable(op[q].ref)' \subseteq seen'[q] /\ seen[q] \subseteq seen'[q]
    BY <1>2, SeenGrows
  <1>3. ASSUME pc[q] = "getPacked"
        PROVE  /\ packed'[op[q].ref] \in seen'[q]
               /\ \A x \in Procs : Packs(x, op[q].ref)' => cache'[x][op[q].ref] \in seen'[q]
    <2>1. PICK r \in Refs : r = op[q].ref
      BY <1>3, CallFields DEF IInv
    <2>2. Looking(q) /\ Looking(q)' /\ op'[q].ref = r
      BY <1>1, <1>3, <2>1 DEF Looking
    <2>3. /\ packed[r] \in seen[q]
          /\ \A x \in Procs : Packs(x, r) => cache[x][r] \in seen[q]
      BY <1>3, <2>1, <2>2 DEF LookInv, LookBy
    <2>4. Observable(r)' \subseteq seen'[q] /\ seen[q] \subseteq seen'[q]
      BY <1>2, <2>2 DEF Observable, Deleting, Value
    <2>5. packed'[r] \in seen'[q]
      BY <2>3, <2>4, EntryMoves
    <2>6. ASSUME NEW x \in Procs, Packs(x, r)' PROVE cache'[x][r] \in seen'[q]
      <3>1. CASE x = p
        <4>1. Value(r)' \in seen'[q]
          BY <2>4 DEF Observable
        <4>. QED
          BY <2>3, <2>4, <2>6, <3>1, <4>1, PacksMoves
      <3>2. CASE x # p
        <4>1. pc'[x] = pc[x] /\ op'[x] = op[x] /\ cache'[x] = cache[x]
          BY <3>2, Frame, MemFrame DEF IInv
        <4>. QED
          BY <2>3, <2>4, <2>6, <4>1 DEF Packs
      <3>. QED
        BY <3>1, <3>2
    <2>. QED
      BY <1>1, <2>1, <2>5, <2>6 DEF Packs
  <1>. QED
    BY <1>1, <1>2, <1>3 DEF LookBy, Packs

LEMMA NextLooks == IInv /\ LookInv /\ [ReaderNext]_<<vars, seen>> => LookInv'
  <1> SUFFICES ASSUME IInv, LookInv, [ReaderNext]_<<vars, seen>> PROVE LookInv'
    OBVIOUS
  <1>1. ASSUME NEW p \in Procs, Act(p), Observe, NEW q \in Procs PROVE LookBy(q)'
    BY <1>1, SelfLooks, OtherLooks
  <1>2. CASE UNCHANGED <<vars, seen>>
    BY <1>2 DEF vars, disk, mem, LookInv, LookBy, Looking, Observable, Deleting, Value, Packs
  <1>. QED
    BY <1>1, <1>2 DEF LookInv, ReaderNext, Next, Act

\* The last step of a lookup answers with what it has seen.
LEMMA AnswerSeen ==
    ASSUME IInv, LookInv, NEW p \in Procs, Act(p), Looking(p), pc'[p] = "done"
    PROVE  IF ret'[p] = "notfound" THEN None \in seen[p] ELSE ret'[p] \in seen[p]
  <1> DEFINE r == op[p].ref
  <1>1. pc[p] \in {"get", "getPacked"} /\ r \in Refs /\ TypeOK
    BY CallFields DEF Looking, IInv
  <1>2. Get(p)
    BY <1>1 DEF Act, Step, Call, Crash, Goto, Finish, Avail, Exists, Find, Lock, CompareOld,
       CompareNew, WriteLog, Commit, Unlock, DropLog, PackedDelete, Unlink, LockTo, MoveLog,
       StartCompress, LoadLoose, EndLoad, LockPacked, WritePacked, PruneLock, PruneCheck,
       PruneUnlock, EndPrune, Lookup, TypeOK, CallOK
  <1>3. \/ pc[p] = "get" /\ loose[r] # None /\ ret'[p] = loose[r]
        \/ pc[p] = "getPacked" /\ ret'[p] = IF View(p)[r] = None THEN "notfound" ELSE View(p)[r]
    BY <1>1, <1>2 DEF Get, Lookup, Return, Goto, TypeOK, CallOK
  <1>4. Observable(r) \subseteq seen[p] /\ (pc[p] = "getPacked" => packed[r] \in seen[p])
    BY DEF LookInv, LookBy
  <1>5. CASE pc[p] = "get" /\ loose[r] # None /\ ret'[p] = loose[r]
    <2>1. ret'[p] \in Vals
      BY <1>1, <1>5 DEF TypeOK, DiskOK
    <2>2. ret'[p] # "notfound" /\ ret'[p] = Value(r)
      BY <1>5, <2>1, ConstantsAssumption DEF Value
    <2>. QED
      BY <1>4, <2>2 DEF Observable
  <1>6. CASE pc[p] = "getPacked" /\ ret'[p] = IF View(p)[r] = None THEN "notfound" ELSE View(p)[r]
    <2>1. View(p) = packed
      BY <1>6 DEF IInv, PackInv, PackedBy, PackLabels
    <2>2. packed[r] # None => packed[r] \in Vals
      BY <1>1 DEF TypeOK, DiskOK, Vals
    <2>. QED
      BY <1>4, <1>6, <2>1, <2>2, ConstantsAssumption
  <1>. QED
    BY <1>3, <1>5, <1>6

\* With one packer that does not crash, refdb_fs_backend__lookup answers with a
\* value the reference had at some moment of the call, or with nothing when it was
\* missing or being deleted, although it reads two files one after the other.
THEOREM LookupsAreTrue == ASSUME SinglePacker PROVE ReaderSpec => LookupWasTrue
  <1> DEFINE Answers == \A p \in Procs : (Looking(p) /\ pc'[p] = "done") =>
                 IF ret'[p] = "notfound" THEN None \in seen[p] ELSE ret'[p] \in seen[p]
  <1>1. ReaderInit => IInv /\ LookInv
    BY InitIInv DEF ReaderInit, Init, LookInv, LookBy, Looking
  <1>2. IInv /\ LookInv /\ [ReaderNext]_<<vars, seen>> => (IInv /\ LookInv)'
    <2>1. [ReaderNext]_<<vars, seen>> => [Next]_vars
      BY DEF ReaderNext
    <2>. QED
      BY <2>1, SinglePacker, NextIInv, NextLooks
  <1>3. IInv /\ LookInv /\ [ReaderNext]_<<vars, seen>> => [Answers]_<<vars, seen>>
    <2> SUFFICES ASSUME IInv, LookInv, ReaderNext, NEW p \in Procs, Looking(p), pc'[p] = "done"
                 PROVE  IF ret'[p] = "notfound" THEN None \in seen[p] ELSE ret'[p] \in seen[p]
      OBVIOUS
    <2>1. PICK x \in Procs : Act(x)
      BY DEF ReaderNext, Next, Act
    <2>2. x = p
      BY <2>1, Frame DEF IInv, Looking
    <2>. QED
      BY <2>1, <2>2, AnswerSeen
  <1>. QED
    BY <1>1, <1>2, <1>3, PTL DEF ReaderSpec, LookupWasTrue
=============================================================================
