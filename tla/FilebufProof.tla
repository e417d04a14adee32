---------------------------- MODULE FilebufProof ----------------------------
(***************************************************************************)
(* Theorems about Filebuf, for any processes, files and contents: when the *)
(* directory sync cannot fail, a lock file belongs to one process, a       *)
(* commit publishes what the caller wrote, and the file with its lock      *)
(* implements RefStore.                                                    *)
(***************************************************************************)
EXTENDS Filebuf, TLAPS

LEMMA InitTyped == Init => TypeOK
  BY FilebufAssumption DEF Init, TypeOK, Labels, Holding

Act(p) == \/ Open(p) \/ Create(p) \/ CreateLocked(p) \/ Copy(p) \/ CopyFails(p)
          \/ Write(p) \/ Commit(p) \/ Fsync(p) \/ Close(p) \/ Rename(p)
          \/ SyncParent(p) \/ Abandon(p) \/ Cleanup(p) \/ Crash(p)

LEMMA FileOpen ==
    ASSUME TypeOK, NameInv, NEW p \in Procs, pc[p] \in Holding
    PROVE  file[p] \in Files /\ file[p] = lock /\ lock # None /\ lock \in Files
  BY FilebufAssumption DEF TypeOK, NameInv, NameBy

\* What the two outcomes of write(2) do.
LEMMA FlushTypes ==
    ASSUME TypeOK, NEW p \in Procs, NEW b \in SUBSET Blocks, file[p] \in Files, Flush(p, b)
    PROVE  /\ data' \in [Files -> SUBSET Blocks]
           /\ failed' \in [Procs -> BOOLEAN]
           /\ buf' \in [Procs -> SUBSET Blocks]
  BY DEF Flush, TypeOK

LEMMA NextTyped ==
    ASSUME TypeOK, NameInv, NEW p \in Procs, Act(p)
    PROVE  TypeOK'
  <1>. USE DEF Goto, Leave, Labels, Holding, dir, state
  <1>1. CASE Open(p)
    BY <1>1 DEF Open, TypeOK
  <1>2. CASE Create(p) \/ CreateLocked(p)
    <2>1. CASE Create(p)
      <3>1. PICK f \in Files : /\ lock' = f /\ data' = [data EXCEPT ![f] = {}]
                              /\ file' = [file EXCEPT ![p] = f]
                              /\ created' = [created EXCEPT ![p] = ~ append[p]]
                              /\ Goto(p, IF append[p] THEN "append" ELSE "open")
        BY <2>1 DEF Create
      <3>. QED
        BY <2>1, <3>1 DEF Create, TypeOK
    <2>2. CASE CreateLocked(p)
      BY <2>2 DEF CreateLocked, TypeOK
    <2>. QED
      BY <1>2, <2>1, <2>2
  <1>3. CASE Copy(p)
    <2>1. Copied \in SUBSET Blocks
      BY FilebufAssumption DEF Copied, TypeOK
    <2>. QED
      BY <1>3, <2>1 DEF Copy, TypeOK
  <1>4. CASE CopyFails(p) \/ Abandon(p)
    BY <1>4 DEF CopyFails, Abandon, TypeOK
  <1>5. CASE Write(p)
    <2>1. file[p] \in Files
      BY <1>5, FileOpen DEF Write
    <2>2. PICK b \in Blocks :
             /\ want' = [want EXCEPT ![p] = @ \cup {b}]
             /\ \/ UNCHANGED <<buf, data, failed>>
                \/ buf' = [buf EXCEPT ![p] = @ \cup {b}] /\ UNCHANGED <<data, failed>>
                \/ Flush(p, buf[p] \cup {b})
      BY <1>5 DEF Write
    <2>3. buf[p] \cup {b} \in SUBSET Blocks
      BY DEF TypeOK
    <2>4. data' \in [Files -> SUBSET Blocks] /\ failed' \in [Procs -> BOOLEAN]
          /\ buf' \in [Procs -> SUBSET Blocks]
      BY <2>1, <2>2, <2>3, FlushTypes DEF TypeOK
    <2>. QED
      BY <1>5, <2>2, <2>4 DEF Write, TypeOK
  <1>6. CASE Commit(p)
    <2>1. file[p] \in Files /\ buf[p] \in SUBSET Blocks
      BY <1>6, FileOpen DEF Commit, TypeOK
    <2>2. data' \in [Files -> SUBSET Blocks] /\ failed' \in [Procs -> BOOLEAN]
          /\ buf' \in [Procs -> SUBSET Blocks]
      BY <1>6, <2>1, FlushTypes DEF Commit
    <2>. QED
      BY <1>6, <2>2 DEF Commit, TypeOK
  <1>7. CASE Fsync(p) \/ Close(p)
    BY <1>7 DEF Fsync, Close, Try, TypeOK
  <1>8. CASE Rename(p) \/ SyncParent(p)
    BY <1>8 DEF Rename, SyncParent, TypeOK
  <1>9. CASE Cleanup(p) \/ Crash(p)
    BY <1>9 DEF Cleanup, Crash, Reset, TypeOK
  <1>. QED
    BY <1>1, <1>2, <1>3, <1>4, <1>5, <1>6, <1>7, <1>8, <1>9 DEF Act

\* A step of p leaves the git_filebuf of every other process alone.
LEMMA Frame ==
    ASSUME TypeOK, NEW p \in Procs, Act(p), NEW q \in Procs, q # p
    PROVE  /\ pc'[q] = pc[q] /\ file'[q] = file[q] /\ created'[q] = created[q]
           /\ renamed'[q] = renamed[q] /\ failed'[q] = failed[q] /\ buf'[q] = buf[q]
           /\ want'[q] = want[q] /\ ret'[q] = ret[q]
  <1>. USE DEF Goto, Leave, state, TypeOK
  <1>1. CASE Open(p) \/ Create(p) \/ CreateLocked(p) \/ Copy(p) \/ CopyFails(p) \/ Abandon(p)
    BY <1>1 DEF Open, Create, CreateLocked, Copy, CopyFails, Abandon
  <1>2. CASE Write(p) \/ Commit(p)
    BY <1>2 DEF Write, Commit, Flush
  <1>3. CASE Fsync(p) \/ Close(p) \/ Rename(p) \/ SyncParent(p) \/ Cleanup(p) \/ Crash(p)
    BY <1>3 DEF Fsync, Close, Try, Rename, SyncParent, Cleanup, Crash, Reset
  <1>. QED
    BY <1>1, <1>2, <1>3 DEF Act

\* Who changes the names: path.lock is made when there is none, and renamed or
\* removed by the process whose file it is.
LEMMA NameMoves ==
    ASSUME "parent" \notin Faults, TypeOK, NameInv, NEW p \in Procs, Act(p)
    PROVE  \/ UNCHANGED <<lock, target, file>>
           \/ lock = None /\ lock' \in Files /\ Unused(lock') /\ file' = [file EXCEPT ![p] = lock']
              /\ target' = target
           \/ lock # None /\ file[p] = lock /\ lock' = None /\ target' = lock /\ file' = file
           \/ lock # None /\ file[p] = lock /\ lock' = None /\ target' = target
              /\ file' = [file EXCEPT ![p] = None]
           \/ UNCHANGED <<lock, target>> /\ file' = [file EXCEPT ![p] = None]
  <1>1. CASE Open(p) \/ CreateLocked(p) \/ Copy(p) \/ CopyFails(p) \/ Abandon(p) \/ Write(p) \/ Commit(p)
             \/ Fsync(p) \/ Close(p) \/ SyncParent(p)
    BY <1>1 DEF Open, CreateLocked, Copy, CopyFails, Abandon, Write, Commit, Fsync, Close, Try,
       SyncParent, dir, state
  <1>2. CASE Create(p)
    BY <1>2 DEF Create
  <1>3. CASE Rename(p)
    BY <1>3, FileOpen DEF Rename, dir, state, Holding
  <1>4. CASE Cleanup(p)
    BY <1>4 DEF Cleanup, Reset, NameInv, NameBy
  <1>5. CASE Crash(p)
    BY <1>5 DEF Crash, Reset, dir
  <1>. QED
    BY <1>1, <1>2, <1>3, <1>4, <1>5 DEF Act

\* So the names that matter to another process stay.
LEMMA OtherNames ==
    ASSUME "parent" \notin Faults, TypeOK, NameInv, NEW p \in Procs, Act(p), NEW q \in Procs, q # p
    PROVE  NameBy(q)'
  <1>1. /\ pc'[q] = pc[q] /\ file'[q] = file[q] /\ created'[q] = created[q]
        /\ renamed'[q] = renamed[q] /\ ret'[q] = ret[q]
    BY Frame
  <1>2. NameBy(q)
    BY DEF NameInv
  <1>3. (file[q] = lock /\ lock # None) => lock' = lock
    BY NameMoves DEF NameInv
  <1>5. (file[q] # lock /\ file[q] # None /\ lock' # None) => file[q] # lock'
    BY NameMoves DEF Unused
  <1>4. (file'[q] = target' /\ target' # None) => target' = target
    BY <1>1, NameMoves DEF NameInv
  <1>. QED
    BY <1>1, <1>2, <1>3, <1>4, <1>5 DEF NameBy

LEMMA OwnNames ==
    ASSUME "parent" \notin Faults, TypeOK, NameInv, NEW p \in Procs, Act(p)
    PROVE  NameBy(p)'
  <1>. USE DEF Goto, Leave, Holding, dir, state
  <1>0. NameBy(p)
    BY DEF NameInv
  <1>1. CASE Open(p) \/ CreateLocked(p) \/ Copy(p) \/ CopyFails(p) \/ Abandon(p)
    BY <1>0, <1>1 DEF Open, CreateLocked, Copy, CopyFails, Abandon, NameBy, TypeOK
  <1>2. CASE Create(p)
    <2>1. PICK f \in Files : /\ Unused(f) /\ lock' = f
                            /\ file' = [file EXCEPT ![p] = f]
                            /\ created' = [created EXCEPT ![p] = ~ append[p]]
                            /\ Goto(p, IF append[p] THEN "append" ELSE "open")
      BY <1>2 DEF Create
    <2>. QED
      BY <1>0, <1>2, <2>1, FilebufAssumption DEF Create, Unused, NameBy, TypeOK
  <1>3. CASE Write(p) \/ Commit(p)
    BY <1>0, <1>3 DEF Write, Commit, Flush, NameBy, TypeOK
  <1>4. CASE Fsync(p) \/ Close(p) \/ SyncParent(p)
    BY <1>0, <1>4 DEF Fsync, Close, Try, SyncParent, NameBy, TypeOK
  <1>5. CASE Rename(p)
    BY <1>0, <1>5 DEF Rename, NameBy, TypeOK
  <1>6. CASE Cleanup(p) \/ Crash(p)
    BY <1>0, <1>6, FilebufAssumption DEF Cleanup, Crash, Reset, NameBy, TypeOK
  <1>. QED
    BY <1>1, <1>2, <1>3, <1>4, <1>5, <1>6 DEF Act

LEMMA NextNames ==
    ASSUME "parent" \notin Faults, TypeOK, NameInv, NEW p \in Procs, Act(p)
    PROVE  NameInv'
  <1>1. lock' # None => lock' # target'
    BY NameMoves DEF NameInv, Unused
  <1>2. \A q \in Procs : NameBy(q)'
    BY OtherNames, OwnNames
  <1>3. \A q, r \in Procs : (file'[q] = file'[r] /\ file'[q] # None) => q = r
    BY NameMoves DEF NameInv, Unused, TypeOK
  <1>. QED
    BY <1>1, <1>2, <1>3 DEF NameInv

\* A process writes its own file only, into a descriptor nobody shares.
LEMMA DataMoves ==
    ASSUME TypeOK, NameInv, NEW p \in Procs, Act(p), NEW f \in Files, data'[f] # data[f]
    PROVE  \/ file[p] = f /\ pc[p] \in {"append", "open"}
           \/ Unused(f)
  <1>1. CASE Create(p)
    BY <1>1 DEF Create, TypeOK
  <1>2. CASE Copy(p) \/ Write(p) \/ Commit(p)
    BY <1>2 DEF Copy, Write, Commit, Flush, TypeOK
  <1>3. CASE Open(p) \/ CreateLocked(p) \/ CopyFails(p) \/ Abandon(p) \/ Fsync(p) \/ Close(p)
             \/ SyncParent(p) \/ Rename(p) \/ Cleanup(p) \/ Crash(p)
    BY <1>3 DEF Open, CreateLocked, CopyFails, Abandon, Fsync, Close, Try, SyncParent, Rename,
       Cleanup, Crash
  <1>. QED
    BY <1>1, <1>2, <1>3 DEF Act

LEMMA OtherWhole ==
    ASSUME TypeOK, NameInv, WholeInv, NEW p \in Procs, Act(p), NEW q \in Procs, q # p
    PROVE  WholeBy(q)'
  <1>1. /\ pc'[q] = pc[q] /\ file'[q] = file[q] /\ failed'[q] = failed[q]
        /\ buf'[q] = buf[q] /\ want'[q] = want[q]
    BY Frame
  <1>2. pc[q] \in Holding => data'[file[q]] = data[file[q]]
    BY FileOpen, DataMoves DEF NameInv, Unused
  <1>. QED
    BY <1>1, <1>2 DEF WholeInv, WholeBy, Holding

LEMMA OwnWhole ==
    ASSUME TypeOK, NameInv, WholeInv, NEW p \in Procs, Act(p)
    PROVE  WholeBy(p)'
  <1>. USE DEF Goto, Leave, dir, state
  <1>0. WholeBy(p) /\ (pc[p] \in Holding => file[p] \in Files)
    BY FileOpen DEF WholeInv
  <1>1. CASE Open(p) \/ CreateLocked(p) \/ CopyFails(p) \/ Abandon(p)
    BY <1>0, <1>1 DEF Open, CreateLocked, CopyFails, Abandon, WholeBy, TypeOK
  <1>2. CASE Create(p)
    <2>1. PICK f \in Files : /\ data' = [data EXCEPT ![f] = {}]
                            /\ file' = [file EXCEPT ![p] = f]
                            /\ Goto(p, IF append[p] THEN "append" ELSE "open")
      BY <1>2 DEF Create
    <2>. QED
      BY <1>0, <1>2, <2>1 DEF Create, WholeBy, TypeOK
  <1>3. CASE Copy(p)
    BY <1>0, <1>3 DEF Copy, WholeBy, TypeOK, Holding
  <1>4. CASE Write(p)
    <2>1. pc[p] = "open" /\ file[p] \in Files /\ pc' = pc /\ file' = file
      BY <1>0, <1>4 DEF Write, Holding
    <2>2. PICK b \in Blocks :
             /\ want' = [want EXCEPT ![p] = @ \cup {b}]
             /\ \/ failed[p] /\ UNCHANGED <<buf, data, failed>>
                \/ ~ failed[p] /\ buf' = [buf EXCEPT ![p] = @ \cup {b}] /\ UNCHANGED <<data, failed>>
                \/ ~ failed[p] /\ Flush(p, buf[p] \cup {b})
      BY <1>4 DEF Write
    <2>3. want'[p] = want[p] \cup {b}
      BY <2>2 DEF TypeOK
    <2>4. failed'[p] \/ data'[file[p]] \cup buf'[p] = data[file[p]] \cup buf[p] \cup {b}
      BY <2>1, <2>2 DEF Flush, TypeOK
    <2>5. failed[p] => failed'[p]
      BY <2>2
    <2>. QED
      BY <1>0, <2>1, <2>3, <2>4, <2>5 DEF WholeBy
  <1>5. CASE Commit(p)
    <2>1. file[p] \in Files /\ pc[p] = "open" /\ want' = want /\ file' = file
      BY <1>0, <1>5 DEF Commit, Holding
    <2>2. pc'[p] = "cleanup" \/ (pc'[p] = "fsync" /\ ~ failed'[p])
      BY <1>5 DEF Commit, TypeOK
    <2>3. ~ failed'[p] => ~ failed[p] /\ data'[file[p]] = data[file[p]] \cup buf[p]
      BY <1>5, <2>1 DEF Commit, Flush, TypeOK
    <2>. QED
      BY <1>0, <2>1, <2>2, <2>3 DEF WholeBy
  <1>6. CASE Fsync(p) \/ Close(p) \/ Rename(p) \/ SyncParent(p)
    BY <1>0, <1>6 DEF Fsync, Close, Try, Rename, SyncParent, WholeBy, TypeOK
  <1>7. CASE Cleanup(p) \/ Crash(p)
    BY <1>7 DEF Cleanup, Crash, Reset, WholeBy, TypeOK
  <1>. QED
    BY <1>1, <1>2, <1>3, <1>4, <1>5, <1>6, <1>7 DEF Act

Inv == TypeOK /\ NameInv /\ WholeInv

LEMMA InitInv == Init => Inv
  BY InitTyped, FilebufAssumption DEF Init, Inv, NameInv, NameBy, WholeInv, WholeBy, Holding

LEMMA NextInv == ASSUME "parent" \notin Faults PROVE Inv /\ [Next]_vars => Inv'
  <1> SUFFICES ASSUME Inv, [Next]_vars PROVE Inv'
    OBVIOUS
  <1>1. ASSUME NEW p \in Procs, Act(p) PROVE Inv'
    <2>1. TypeOK' /\ NameInv'
      BY <1>1, NextTyped, NextNames DEF Inv
    <2>2. \A q \in Procs : WholeBy(q)'
      BY <1>1, OtherWhole, OwnWhole DEF Inv
    <2>. QED
      BY <2>1, <2>2 DEF Inv, WholeInv
  <1>2. CASE UNCHANGED vars
    BY <1>2 DEF vars, dir, state, Inv, TypeOK, NameInv, NameBy, WholeInv, WholeBy
  <1>. QED
    BY <1>1, <1>2 DEF Next, Act

\* Every variable keeps its type.
THEOREM TypeCorrect == ASSUME "parent" \notin Faults PROVE Spec => []TypeOK
  <1>1. Inv => TypeOK
    BY DEF Inv
  <1>. QED
    BY <1>1, InitInv, NextInv, PTL DEF Spec

\* As long as a process is at work on its lock file, it is the lock file.
THEOREM Exclusive == ASSUME "parent" \notin Faults PROVE Spec => []LockIsExclusive
  <1>1. Inv => LockIsExclusive
    BY DEF Inv, NameInv, NameBy, LockIsExclusive
  <1>. QED
    BY <1>1, InitInv, NextInv, PTL DEF Spec

\* A commit that reports an error has left the file alone.
THEOREM ErrorSafe == ASSUME "parent" \notin Faults PROVE Spec => []ErrorChangesNothing
  <1>1. Inv => ErrorChangesNothing
    BY DEF Inv, NameInv, NameBy, ErrorChangesNothing
  <1>. QED
    BY <1>1, InitInv, NextInv, PTL DEF Spec

\* A commit publishes all that the caller wrote.
THEOREM Whole == ASSUME "parent" \notin Faults PROVE Spec => CommitIsWhole
  <1> DEFINE Published == \A p \in Procs : (pc[p] = "rename" /\ pc'[p] # pc[p] /\ target' # target)
                                              => Contents' = want[p]
  <1>1. Inv /\ [Next]_vars => [Published]_vars
    <2> SUFFICES ASSUME Inv, [Next]_vars, NEW p \in Procs, pc[p] = "rename", pc'[p] # pc[p],
                        target' # target
                 PROVE  Contents' = want[p]
      OBVIOUS
    <2>1. PICK q \in Procs : Act(q)
      BY DEF Next, Act, vars, dir
    <2>2. q = p
      BY <2>1, Frame DEF Inv
    <2>3. Rename(p)
      BY <2>1, <2>2 DEF Act, Open, Create, CreateLocked, Copy, CopyFails, Write, Commit, Fsync,
         Close, Try, SyncParent, Abandon, Cleanup, Crash, dir
    <2>4. target' = file[p] /\ file[p] \in Files /\ data' = data
      BY <2>3, FileOpen DEF Rename, Inv, Holding, dir
    <2>5. want[p] = data[file[p]]
      BY DEF Inv, WholeInv, WholeBy
    <2>. QED
      BY <2>4, <2>5, FilebufAssumption DEF Contents
  <1>. QED
    BY <1>1, InitInv, NextInv, PTL DEF Spec, CommitIsWhole

\* The holder is the one process whose lock file path.lock is.
LEMMA HolderOf ==
    ASSUME NameInv
    PROVE  /\ lock = None => Holder = Nobody
           /\ \A p \in Procs : (lock # None /\ Holds(p)) => Holder = p
           /\ (lock # None /\ \A p \in Procs : ~ Holds(p)) => Holder = Stale
  <1>1. \A p, q \in Procs : (lock # None /\ Holds(p) /\ Holds(q)) => p = q
    BY DEF NameInv, Holds
  <1>2. ASSUME NEW p \in Procs, lock # None, Holds(p) PROVE Holder = p
    <2>1. (CHOOSE q \in Procs : Holds(q)) \in Procs /\ Holds(CHOOSE q \in Procs : Holds(q))
      BY <1>2
    <2>. QED
      BY <1>1, <1>2, <2>1 DEF Holder
  <1>. QED
    BY <1>2 DEF Holder

LEMMA HolderAfter ==
    ASSUME NameInv'
    PROVE  /\ lock' = None => Holder' = Nobody
           /\ \A p \in Procs : (lock' # None /\ Holds(p)') => Holder' = p
           /\ (lock' # None /\ \A p \in Procs : ~ Holds(p)') => Holder' = Stale
  <1>1. \A p, q \in Procs : (lock' # None /\ Holds(p)' /\ Holds(q)') => p = q
    BY DEF NameInv, Holds
  <1>2. ASSUME NEW p \in Procs, lock' # None, Holds(p)' PROVE Holder' = p
    <2>1. /\ (CHOOSE q \in Procs : Holds(q)') \in Procs
          /\ \E q \in Procs : Holds(q)' /\ q = (CHOOSE x \in Procs : Holds(x)')
      BY <1>2
    <2>2. Holder' = (CHOOSE q \in Procs : Holds(q)')
      BY <1>2 DEF Holder
    <2>. QED
      BY <1>1, <1>2, <2>1, <2>2
  <1>. QED
    BY <1>2 DEF Holder

\* The contents at path change by a rename only.
LEMMA ContentsKept ==
    ASSUME TypeOK, NameInv, NEW p \in Procs, Act(p), target' = target
    PROVE  Contents' = Contents
  <1>1. CASE target = None
    BY <1>1 DEF Contents
  <1>2. CASE target # None
    <2>1. target \in Files /\ ~ Unused(target)
      BY <1>2 DEF TypeOK, Unused
    <2>2. ~ (file[p] = target /\ pc[p] \in {"append", "open"})
      BY <1>2 DEF NameInv, NameBy
    <2>3. data'[target] = data[target]
      BY <2>1, <2>2, DataMoves
    <2>. QED
      BY <1>2, <2>3 DEF Contents
  <1>. QED
    BY <1>1, <1>2

\* A step that keeps the names, and the process's hold, is no step of RefStore.
LEMMA HolderKept ==
    ASSUME TypeOK, NameInv, NameInv', NEW p \in Procs, Act(p), lock' = lock,
           Holds(p)' <=> Holds(p)
    PROVE  Holder' = Holder
  <1>1. \A q \in Procs : Holds(q)' <=> Holds(q)
    BY Frame DEF Holds
  <1>. QED
    BY <1>1, HolderOf, HolderAfter

LEMMA StepLock ==
    ASSUME "parent" \notin Faults, Inv, NEW p \in Procs, Act(p)
    PROVE  Lock!Next \/ UNCHANGED Lock!vars
  <1>. USE DEF Inv
  <1>0. TypeOK /\ NameInv /\ NameInv' /\ NameBy(p)
    BY NextNames DEF NameInv
  <1>1. ASSUME target' = target, lock' = lock, Holds(p)' <=> Holds(p)
        PROVE  UNCHANGED Lock!vars
    BY <1>0, <1>1, ContentsKept, HolderKept DEF Lock!vars
  <1>2. ASSUME target' = target, lock' = lock, lock # None, Holds(p), ~ Holds(p)'
        PROVE  Lock!Die(p)
    <2>1. \A q \in Procs : ~ Holds(q)'
      BY <1>0, <1>2, Frame DEF Holds, NameInv
    <2>2. Holder = p /\ Holder' = Stale /\ Contents' = Contents
      BY <1>0, <1>2, <2>1, HolderOf, HolderAfter, ContentsKept
    <2>. QED
      BY <2>2 DEF Lock!Die
  <1>3. CASE Open(p) \/ CreateLocked(p) \/ Copy(p) \/ Abandon(p) \/ Write(p) \/ Commit(p)
             \/ Fsync(p) \/ Close(p) \/ SyncParent(p)
    <2>1. UNCHANGED dir
      BY <1>3 DEF Open, CreateLocked, Copy, Abandon, Write, Commit, Fsync, Close, Try, SyncParent
    <2>2. Holds(p)' <=> Holds(p)
      BY <1>0, <1>3, FilebufAssumption DEF Open, CreateLocked, Copy, Abandon, Write, Commit, Fsync, Close, Try,
         SyncParent, Flush, Goto, Leave, Holds, Holding, NameBy, dir, state, TypeOK
    <2>. QED
      BY <1>1, <2>1, <2>2 DEF dir
  <1>4. CASE Create(p)
    <2>1. lock = None /\ lock' # None /\ Holds(p)' /\ target' = target
      BY <1>4, FilebufAssumption DEF Create, Goto, Holds, Holding, TypeOK
    <2>2. Holder = Nobody /\ Holder' = p /\ Contents' = Contents
      BY <1>0, <2>1, HolderOf, HolderAfter, ContentsKept
    <2>. QED
      BY <2>2 DEF Lock!Next, Lock!Acquire
  <1>5. CASE CopyFails(p)
    <2>1. UNCHANGED dir /\ lock # None /\ Holds(p) /\ ~ Holds(p)'
      BY <1>0, <1>5 DEF CopyFails, Leave, Goto, Holds, Holding, NameBy, state, TypeOK
    <2>. QED
      BY <1>2, <2>1 DEF dir, Lock!Next
  <1>6. CASE Rename(p)
    <2>1. CASE UNCHANGED dir
      <3>1. Holds(p)' <=> Holds(p)
        BY <1>0, <1>6, <2>1 DEF Rename, Leave, Goto, Holds, Holding, NameBy, dir, state, TypeOK
      <3>. QED
        BY <1>1, <2>1, <3>1 DEF dir
    <2>2. CASE ~ UNCHANGED dir
      <3>1. lock # None /\ lock \in Files /\ target' = lock /\ lock' = None /\ data' = data /\ Holds(p)
        BY <1>0, <1>6, <2>2 DEF Rename, Holds, Holding, NameBy, dir, TypeOK
      <3>2. Holder = p /\ Holder' = Nobody
        BY <1>0, <3>1, HolderOf, HolderAfter
      <3>3. PICK v \in FileContents : Contents' = v
        BY <3>1, FilebufAssumption DEF Contents, FileContents, TypeOK
      <3>. QED
        BY <3>2, <3>3 DEF Lock!Next, Lock!Set
    <2>. QED
      BY <2>1, <2>2
  <1>7. CASE Cleanup(p)
    <2>1. CASE created[p] /\ ~ renamed[p]
      <3>1. lock # None /\ lock' = None /\ target' = target /\ Holds(p)
        BY <1>0, <1>7, <2>1 DEF Cleanup, Holds, NameBy
      <3>2. Holder = p /\ Holder' = Nobody /\ Contents' = Contents
        BY <1>0, <3>1, HolderOf, HolderAfter, ContentsKept
      <3>. QED
        BY <3>2 DEF Lock!Next, Lock!Release
    <2>2. CASE ~ (created[p] /\ ~ renamed[p])
      <3>1. (lock' = lock /\ target' = target /\ ~ Holds(p)') \/ lock = None
        BY <1>7, <2>2 DEF Cleanup, Reset, Goto, Holds, Holding, TypeOK
      <3>2. lock # None => ~ Holds(p)
        BY <1>0, <1>7, <2>2 DEF Cleanup, Holds, Holding, NameBy
      <3>3. lock' = lock /\ target' = target
        BY <1>7, <2>2 DEF Cleanup
      <3>4. CASE lock = None
        BY <1>0, <3>3, <3>4, HolderOf, HolderAfter, ContentsKept DEF Lock!vars
      <3>. QED
        BY <1>1, <3>1, <3>2, <3>3, <3>4
    <2>. QED
      BY <2>1, <2>2
  <1>8. CASE Crash(p)
    <2>1. UNCHANGED dir
      BY <1>8 DEF Crash
    <2>2. lock # None => ~ Holds(p)'
      BY <1>8, <2>1 DEF Crash, Reset, Holds, Goto, Holding, dir, TypeOK
    <2>3. CASE lock = None
      BY <1>0, <2>1, <2>3, HolderOf, HolderAfter, ContentsKept DEF Lock!vars, dir
    <2>. QED
      BY <1>1, <1>2, <2>1, <2>2, <2>3 DEF dir, Lock!Next
  <1>. QED
    BY <1>3, <1>4, <1>5, <1>6, <1>7, <1>8 DEF Act

\* The file and its lock file implement RefStore for one name: one holder, and
\* contents that only the holder's rename changes.
THEOREM Implements == ASSUME "parent" \notin Faults PROVE Spec => LockSpec
  <1>1. Init => Lock!Init
    <2> SUFFICES ASSUME Init PROVE Lock!Init
      OBVIOUS
    <2>1. Contents \in FileContents \cup {None}
      BY DEF Init, Contents, FileContents
    <2>2. Holder = Nobody
      BY DEF Init, Holder
    <2>. QED
      BY <2>1, <2>2 DEF Lock!Init
  <1>2. Inv /\ [Next]_vars => [Lock!Next]_(Lock!vars)
    <2> SUFFICES ASSUME Inv, [Next]_vars PROVE Lock!Next \/ UNCHANGED Lock!vars
      OBVIOUS
    <2>1. CASE UNCHANGED vars
      BY <2>1 DEF vars, dir, state, Lock!vars, Contents, Holder, Holds
    <2>2. CASE Next
      BY <2>2, StepLock DEF Next, Act
    <2>. QED
      BY <2>1, <2>2
  <1>. QED
    BY <1>1, <1>2, InitInv, NextInv, PTL DEF Spec, LockSpec, Lock!Spec
=============================================================================
