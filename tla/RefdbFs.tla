------------------------------ MODULE RefdbFs -------------------------------
(***************************************************************************)
(* The file-system reference database of libgit2 (refdb_fs.c), as several  *)
(* processes use it on one repository.  A reference lives in a loose file, *)
(* in the shared file packed-refs, or in both, and then the loose file     *)
(* wins.  Updates take <ref>.lock, packing takes packed-refs.lock, and     *)
(* every process keeps its own copy of packed-refs (refcache) that it      *)
(* reloads when the file's time stamp has changed.                         *)
(*                                                                         *)
(* One action is one access to the shared files with the local computation *)
(* around it, so the processes interleave between any two accesses.  The   *)
(* build has no GIT_THREADS: inside a process nothing is concurrent.       *)
(*                                                                         *)
(* Abstractions: an object id or a symbolic target is a model value; the   *)
(* names in Refs do not lie under one another (a/b and a), so directories  *)
(* never collide; the stamp of packed-refs identifies the file's contents; *)
(* a reflog is its newest entry; HEAD's own reflog is left out.            *)
(***************************************************************************)
CONSTANTS Procs,     \* processes with the repository open
          Packers,   \* the processes that also delete, rename and compress
          Crashers,  \* the processes that may die in the middle of a call
          Refs,      \* reference names
          LogRefs,   \* the names whose updates are always logged (refs/heads/...)
          Oids,      \* object ids
          Syms,      \* symbolic targets
          Ops,       \* the calls the processes make
          None,      \* no value
          NoLog,     \* no reflog file
          Any,       \* no expected old value (old_id = old_target = NULL)
          NoOp,      \* no call in progress
          Nobody,    \* holder of a free lock
          Stale      \* holder of a lock file whose process died

Vals == Oids \cup Syms

\* A call: write and delete take the expected old value, write and rename a
\* force flag, rename a second name.  Fields a call does not use are ignored.
OpType == [kind  : {"lookup", "write", "delete", "rename", "compress"},
           ref   : Refs,
           to    : Refs,
           new   : Vals,
           old   : Vals \cup {Any},
           force : BOOLEAN]

ASSUME ConstantsAssumption ==
    /\ Packers \subseteq Procs
    /\ Crashers \subseteq Procs
    /\ LogRefs \subseteq Refs
    /\ Ops \subseteq OpType
    /\ Oids \cap Syms = {}
    /\ None \notin Vals
    /\ {"ok", "notfound", "exists", "modified", "locked"} \cap Vals = {}   \* codes are not values
    /\ NoLog \notin Vals
    /\ Any \notin Vals \cup {None}
    /\ NoOp \notin OpType
    /\ Nobody \notin Procs
    /\ Stale \notin Procs
    /\ Nobody # Stale

VARIABLES
    \* the shared directory
    loose,       \* loose[r]: the contents of the file of r, None without one
    packed,      \* packed[r]: the entry of r in packed-refs, None without one
    packedFile,  \* does packed-refs exist?
    reflog,      \* reflog[r]: the newest id in the reflog of r, or NoLog
    refLock,     \* refLock[r]: who created <r>.lock
    packLock,    \* who created packed-refs.lock
    \* the memory of each process
    pc,          \* where its call is
    op,          \* the call it executes, or NoOp
    cache,       \* backend->refcache: the object id of every entry, or None
    wasLoose,    \* the entries flagged PACKREF_WAS_LOOSE
    fresh,       \* does the stamp of refcache match packed-refs on disk?
    todo,        \* what a loop over references has still to visit
    cur,         \* the reference packed_remove_loose has locked
    ret          \* what the call returns: a value, "ok" or an error

disk  == <<loose, packed, packedFile, reflog>>
locks == <<refLock, packLock>>
mem   == <<cache, wasLoose, fresh>>
loop  == <<todo, cur>>
vars  == <<disk, locks, pc, op, mem, loop, ret>>

Labels == {"idle", "get", "getPacked", "avail", "exists", "existsPacked",
           "find", "findPacked", "lock", "dropLog", "old", "oldPacked", "new",
           "newPacked", "log", "commit", "packedDelete", "packLock",
           "packWrite", "prune", "pruneCheck", "pruneUnlock", "unlink",
           "unlock", "lockTo", "moveLog", "reload", "load", "done"}

\* The part of a call inside packed_write.
PackLabels == {"packLock", "packWrite", "prune", "pruneCheck", "pruneUnlock"}

Returns == Vals \cup {None, "ok", "notfound", "exists", "modified", "locked"}

\* The value of r: refdb_fs_backend__lookup reads the loose file first.
Value(r) == IF loose[r] # None THEN loose[r] ELSE packed[r]

DiskOK ==
    /\ loose \in [Refs -> Vals \cup {None}]
    /\ packed \in [Refs -> Oids \cup {None}]
    /\ packedFile \in BOOLEAN
    /\ reflog \in [Refs -> Oids \cup {NoLog}]

LockOK ==
    /\ refLock \in [Refs -> Procs \cup {Nobody, Stale}]
    /\ packLock \in Procs \cup {Nobody, Stale}

MemOK ==
    /\ cache \in [Procs -> [Refs -> Oids \cup {None}]]
    /\ wasLoose \in [Procs -> SUBSET Refs]
    /\ fresh \in [Procs -> BOOLEAN]

CallOK ==
    /\ pc \in [Procs -> Labels]
    /\ op \in [Procs -> OpType \cup {NoOp}]
    /\ \A p \in Procs : pc[p] # "idle" => op[p] \in OpType
    /\ todo \in [Procs -> SUBSET Refs]
    /\ cur \in [Procs -> Refs \cup {None}]
    /\ \A p \in Procs : pc[p] \in {"pruneCheck", "pruneUnlock"} => cur[p] \in Refs
    /\ ret \in [Procs -> Returns]

TypeOK == DiskOK /\ LockOK /\ MemOK /\ CallOK
-----------------------------------------------------------------------------
Goto(p, l)   == pc' = [pc EXCEPT ![p] = l]
Return(p, v) == Goto(p, "done") /\ ret' = [ret EXCEPT ![p] = v]

\* The error exits of the calls that hold the lock of their reference: clean
\* the lock up, then return v.
Fail(p, v) == Goto(p, "unlock") /\ ret' = [ret EXCEPT ![p] = v]

\* packed_delete and packed_write are called by compress, which holds no lock,
\* and under delete and rename, which do.
Abort_Leak(p, v) == Return(p, v)   \* mutant: the lock is not cleaned up
Abort(p, v) == IF op[p].kind = "compress" THEN Return(p, v) ELSE Fail(p, v)

\* The name a write or a rename gives a value to.
Target(p) == IF op[p].kind = "rename" THEN op[p].to ELSE op[p].ref

\* packed_reload: the cache and its flags after it.  An unchanged stamp keeps
\* them, a missing file empties the cache (and packed is then all None), a
\* changed one is read; the stamp is stored except when there is no file.
Current(p)   == packedFile /\ fresh[p]
View_Never(p) == cache[p]           \* mutant: the stamp is never compared
View(p)      == IF Current(p) THEN cache[p] ELSE packed
ViewLoose(p) == IF Current(p) THEN wasLoose[p] ELSE {}

SetCache(p, c, w) == /\ cache' = [cache EXCEPT ![p] = c]
                     /\ wasLoose' = [wasLoose EXCEPT ![p] = w]
                     /\ fresh' = [fresh EXCEPT ![p] = packedFile]

Reload(p) == SetCache(p, View(p), ViewLoose(p))

\* refdb_fs_backend__lookup of r: the loose file at label l, packed-refs at
\* label m only when there is none.  Found(v) says what the caller does with
\* the value v.
Lookup(p, r, l, m, Found(_)) ==
    /\ \/ pc[p] = l /\ loose[r] # None /\ Found(loose[r]) /\ UNCHANGED mem
       \/ pc[p] = l /\ loose[r] = None /\ Goto(p, m) /\ UNCHANGED <<mem, op, ret>>
       \/ pc[p] = m /\ Found(View(p)[r]) /\ Reload(p)
    /\ UNCHANGED <<disk, locks, loop>>

\* git_filebuf_open on a reference: O_CREAT|O_EXCL on <r>.lock.
TakeLock_NotExcl(p, r) ==           \* mutant: O_EXCL is forgotten
                  /\ refLock' = [refLock EXCEPT ![r] = p]
                  /\ UNCHANGED packLock

TakeLock(p, r) == /\ refLock[r] = Nobody
                  /\ refLock' = [refLock EXCEPT ![r] = p]
                  /\ UNCHANGED packLock

DropLock(r) == /\ refLock' = [refLock EXCEPT ![r] = Nobody]
               /\ UNCHANGED packLock
-----------------------------------------------------------------------------
(***************************************************************************)
(* Calls and returns.                                                      *)
(***************************************************************************)
OpsOf(p) == {o \in Ops : p \in Packers \/ o.kind \in {"lookup", "write"}}

First(o) == CASE o.kind = "lookup"   -> "get"
              [] o.kind = "write"    -> "avail"
              [] o.kind = "delete"   -> "lock"
              [] o.kind = "rename"   -> "avail"
              [] o.kind = "compress" -> "reload"

Call(p) == /\ pc[p] = "idle"
           /\ \E o \in OpsOf(p) : /\ op' = [op EXCEPT ![p] = o]
                                  /\ Goto(p, First(o))
           /\ UNCHANGED <<disk, locks, mem, loop, ret>>

\* The caller takes the result; the fields of the call are cleared.
Finish(p) == /\ pc[p] = "done"
             /\ Goto(p, "idle")
             /\ op' = [op EXCEPT ![p] = NoOp]
             /\ ret' = [ret EXCEPT ![p] = None]
             /\ todo' = [todo EXCEPT ![p] = {}]
             /\ cur' = [cur EXCEPT ![p] = None]
             /\ UNCHANGED <<disk, locks, mem>>

\* refdb_fs_backend__lookup as a call of its own.
Get(p) == Lookup(p, op[p].ref, "get", "getPacked",
                 LAMBDA v : /\ Return(p, IF v = None THEN "notfound" ELSE v)
                            /\ UNCHANGED op)
-----------------------------------------------------------------------------
(***************************************************************************)
(* write and the parts it shares with rename and delete.                   *)
(***************************************************************************)
AfterAvail(p) == IF op[p].kind = "rename" THEN "find" ELSE "lock"

\* reference_path_available: reload, and without force see that the name is free.
Avail(p) == /\ pc[p] = "avail"
            /\ Reload(p)
            /\ Goto(p, IF op[p].force THEN AfterAvail(p) ELSE "exists")
            /\ UNCHANGED <<disk, locks, op, loop, ret>>

Exists(p) == Lookup(p, Target(p), "exists", "existsPacked",
                    LAMBDA v : /\ IF v = None
                                    THEN Goto(p, AfterAvail(p)) /\ UNCHANGED ret
                                    ELSE Return(p, "exists")
                               /\ UNCHANGED op)

\* rename looks the old reference up and will write its value under the new name.
Find(p) == Lookup(p, op[p].ref, "find", "findPacked",
                  LAMBDA v : IF v = None
                               THEN Return(p, "notfound") /\ UNCHANGED op
                               ELSE /\ Goto(p, "lock")
                                    /\ op' = [op EXCEPT ![p].new = v]
                                    /\ UNCHANGED ret)

\* loose_lock on the reference of the call.
AfterLock_NoCheck(p) ==             \* mutant: old_id is ignored
    IF op[p].kind # "write" THEN "dropLog" ELSE "new"

AfterLock(p) == IF op[p].kind # "write" THEN "dropLog"
                ELSE IF op[p].old = Any THEN "new" ELSE "old"

Lock(p) == /\ pc[p] = "lock"
           /\ \/ TakeLock(p, op[p].ref) /\ Goto(p, AfterLock(p)) /\ UNCHANGED ret
              \/ refLock[op[p].ref] # Nobody /\ Return(p, "locked") /\ UNCHANGED locks
           /\ UNCHANGED <<disk, op, mem, loop>>

\* cmp_old_ref with the value the caller expects.
CompareOld(p) == Lookup(p, op[p].ref, "old", "oldPacked",
    LAMBDA v : /\ CASE v = op[p].old -> /\ Goto(p, IF op[p].kind = "write"
                                                   THEN "new" ELSE "packedDelete")
                                        /\ UNCHANGED ret
                    [] v = None -> Fail(p, "notfound")
                    [] OTHER -> Fail(p, "modified")
               /\ UNCHANGED op)

\* cmp_old_ref with the new value: nothing is written when the value is the same.
CompareNew(p) == Lookup(p, op[p].ref, "new", "newPacked",
    LAMBDA v : /\ IF v = op[p].new THEN Fail(p, "ok")
                                   ELSE Goto(p, "log") /\ UNCHANGED ret
               /\ UNCHANGED op)

\* should_write_reflog and reflog_append.  A symbolic update is not logged; the
\* lookup of the old id reloads the cache when the reference is not loose, or is a
\* symbolic one whose target is not.
Logged(r) == r \in LogRefs \/ reflog[r] # NoLog

WriteLog_Never(p) ==                \* mutant: reflog_append is not called
    /\ pc[p] = "log"
    /\ Goto(p, "commit")
    /\ UNCHANGED <<disk, mem, locks, op, loop, ret>>

WriteLog(p) ==
    /\ pc[p] = "log"
    /\ Goto(p, "commit")
    /\ IF Logged(op[p].ref) /\ op[p].new \in Oids
         THEN /\ reflog' = [reflog EXCEPT ![op[p].ref] = op[p].new]
              /\ \/ loose[op[p].ref] \notin Oids /\ Reload(p)
                 \/ loose[op[p].ref] # None /\ UNCHANGED mem
         ELSE UNCHANGED <<reflog, mem>>
    /\ UNCHANGED <<loose, packed, packedFile, locks, op, loop, ret>>

\* loose_commit: <r>.lock, holding the new value, is renamed to the loose file.
Commit(p) == /\ pc[p] = "commit"
             /\ loose' = [loose EXCEPT ![Target(p)] = op[p].new]
             /\ DropLock(Target(p))
             /\ Return(p, "ok")
             /\ UNCHANGED <<packed, packedFile, reflog, op, mem, loop>>

\* git_filebuf_cleanup of the reference's lock.  A rename whose deletion
\* succeeded goes on with the new name.
Unlock(p) == /\ pc[p] = "unlock"
             /\ DropLock(op[p].ref)
             /\ Goto(p, IF op[p].kind = "rename" /\ ret[p] = "ok" THEN "lockTo" ELSE "done")
             /\ UNCHANGED <<disk, op, mem, loop, ret>>
-----------------------------------------------------------------------------
(***************************************************************************)
(* delete and rename.                                                      *)
(***************************************************************************)
\* refdb_reflog_fs__delete, before the old value is compared.
DropLog(p) == /\ pc[p] = "dropLog"
              /\ reflog' = [reflog EXCEPT ![op[p].ref] = NoLog]
              /\ Goto(p, IF op[p].kind = "rename" \/ op[p].old = Any
                         THEN "packedDelete" ELSE "old")
              /\ UNCHANGED <<loose, packed, packedFile, locks, op, mem, loop, ret>>

\* packed_delete: the entry leaves the cache before packed-refs is rewritten.
PackedDelete(p) ==
    /\ pc[p] = "packedDelete"
    /\ SetCache(p, [View(p) EXCEPT ![op[p].ref] = None], ViewLoose(p) \ {op[p].ref})
    /\ Goto(p, IF View(p)[op[p].ref] # None THEN "packLock" ELSE "unlink")
    /\ UNCHANGED <<disk, locks, op, loop, ret>>

\* loose_delete.  packed_delete returned 0, so packed_deleted is 1 and a missing
\* loose file is no error.
Unlink(p) == /\ pc[p] = "unlink"
             /\ loose' = [loose EXCEPT ![op[p].ref] = None]
             /\ Fail(p, "ok")
             /\ UNCHANGED <<packed, packedFile, reflog, locks, op, mem, loop>>

\* rename locks the new name only after the old one is gone.
LockTo(p) == /\ pc[p] = "lockTo"
             /\ \/ TakeLock(p, op[p].to) /\ Goto(p, "moveLog") /\ UNCHANGED ret
                \/ refLock[op[p].to] # Nobody /\ Return(p, "locked") /\ UNCHANGED locks
             /\ UNCHANGED <<disk, op, mem, loop>>

\* refdb_reflog_fs__rename, then reflog_append on the new name, without asking
\* should_write_reflog.
MoveLog(p) ==
    /\ pc[p] = "moveLog"
    /\ LET moved == IF reflog[op[p].ref] = NoLog THEN reflog
                    ELSE [reflog EXCEPT ![op[p].ref] = NoLog,
                                        ![op[p].to] = reflog[op[p].ref]]
       IN reflog' = IF op[p].new \in Oids THEN [moved EXCEPT ![op[p].to] = op[p].new]
                                          ELSE moved
    /\ Goto(p, "commit")
    /\ UNCHANGED <<loose, packed, packedFile, locks, op, mem, loop, ret>>
-----------------------------------------------------------------------------
(***************************************************************************)
(* compress and packed_write.                                              *)
(***************************************************************************)
StartCompress(p) == /\ pc[p] = "reload"
                    /\ Reload(p)
                    /\ todo' = [todo EXCEPT ![p] = Refs]
                    /\ Goto(p, "load")
                    /\ UNCHANGED <<disk, locks, op, cur, ret>>

\* packed_loadloose: one loose file after another, with no lock held.  Symbolic
\* references are skipped.
LoadLoose_Symbolic(p) ==            \* mutant: symbolic references are not skipped
    /\ pc[p] = "load"
    /\ \E r \in todo[p] :
          /\ todo' = [todo EXCEPT ![p] = @ \ {r}]
          /\ cache' = [cache EXCEPT ![p][r] = loose[r]]
          /\ wasLoose' = [wasLoose EXCEPT ![p] = @ \cup {r}]
    /\ UNCHANGED <<disk, locks, pc, op, fresh, cur, ret>>

LoadLoose(p) ==
    /\ pc[p] = "load"
    /\ \E r \in todo[p] :
          /\ todo' = [todo EXCEPT ![p] = @ \ {r}]
          /\ IF loose[r] \in Oids
               THEN /\ cache' = [cache EXCEPT ![p][r] = loose[r]]
                    /\ wasLoose' = [wasLoose EXCEPT ![p] = @ \cup {r}]
               ELSE UNCHANGED <<cache, wasLoose>>
    /\ UNCHANGED <<disk, locks, pc, op, fresh, cur, ret>>

EndLoad(p) == /\ pc[p] = "load"
              /\ todo[p] = {}
              /\ Goto(p, "packLock")
              /\ UNCHANGED <<disk, locks, op, mem, loop, ret>>

LockPacked_Wait(p) ==               \* mutant: wait for packed-refs.lock
    /\ pc[p] = "packLock"
    /\ packLock = Nobody /\ packLock' = p /\ Goto(p, "packWrite") /\ UNCHANGED ret
    /\ UNCHANGED <<disk, refLock, op, mem, loop>>

LockPacked(p) ==
    /\ pc[p] = "packLock"
    /\ \/ packLock = Nobody /\ packLock' = p /\ Goto(p, "packWrite") /\ UNCHANGED ret
       \/ packLock # Nobody /\ Abort(p, "locked") /\ UNCHANGED packLock
    /\ UNCHANGED <<disk, refLock, op, mem, loop>>

\* The whole cache is written to packed-refs.lock and renamed to packed-refs.
WritePacked(p) ==
    /\ pc[p] = "packWrite"
    /\ packed' = cache[p]
    /\ packedFile' = TRUE
    /\ packLock' = Nobody
    /\ fresh' = [q \in Procs |-> FALSE]
    /\ todo' = [todo EXCEPT ![p] = wasLoose[p]]
    /\ Goto(p, "prune")
    /\ UNCHANGED <<loose, reflog, refLock, op, cache, wasLoose, cur, ret>>

\* packed_remove_loose: lock a packed reference ...
PruneLock(p) ==
    /\ pc[p] = "prune"
    /\ \E r \in todo[p] :
          /\ todo' = [todo EXCEPT ![p] = @ \ {r}]
          /\ \/ TakeLock(p, r) /\ Goto(p, "pruneCheck") /\ UNCHANGED ret
                /\ cur' = [cur EXCEPT ![p] = r]
             \/ refLock[r] # Nobody /\ Abort(p, "locked") /\ UNCHANGED <<locks, cur>>
    /\ UNCHANGED <<disk, op, mem>>

\* ... unlink its loose file unless the reference moved since it was packed ...
PruneCheck_Moved(p) ==              \* mutant: the value is not compared again
    /\ pc[p] = "pruneCheck"
    /\ loose' = [loose EXCEPT ![cur[p]] = None]
    /\ Goto(p, "pruneUnlock")
    /\ UNCHANGED <<packed, packedFile, reflog, locks, op, mem, loop, ret>>

PruneCheck(p) ==
    /\ pc[p] = "pruneCheck"
    /\ loose' = IF loose[cur[p]] \in Oids /\ loose[cur[p]] = cache[p][cur[p]]
                THEN [loose EXCEPT ![cur[p]] = None] ELSE loose
    /\ Goto(p, "pruneUnlock")
    /\ UNCHANGED <<packed, packedFile, reflog, locks, op, mem, loop, ret>>

\* ... and release the lock before the next one.
PruneUnlock(p) == /\ pc[p] = "pruneUnlock"
                  /\ DropLock(cur[p])
                  /\ Goto(p, "prune")
                  /\ UNCHANGED <<disk, op, mem, loop, ret>>

\* git_sortedcache_updated: the stamp becomes that of the file now on disk.
EndPrune(p) == /\ pc[p] = "prune"
               /\ todo[p] = {}
               /\ fresh' = [fresh EXCEPT ![p] = TRUE]
               /\ IF op[p].kind = "compress" THEN Return(p, "ok")
                                             ELSE Goto(p, "unlink") /\ UNCHANGED ret
               /\ UNCHANGED <<disk, locks, op, cache, wasLoose, loop>>
-----------------------------------------------------------------------------
\* A process dies: its lock files stay, its memory is lost.
Crash(p) == /\ p \in Crashers
            /\ pc[p] # "idle"
            /\ Goto(p, "idle")
            /\ refLock' = [r \in Refs |-> IF refLock[r] = p THEN Stale ELSE refLock[r]]
            /\ packLock' = IF packLock = p THEN Stale ELSE packLock
            /\ op' = [op EXCEPT ![p] = NoOp]
            /\ cache' = [cache EXCEPT ![p] = [r \in Refs |-> None]]
            /\ wasLoose' = [wasLoose EXCEPT ![p] = {}]
            /\ fresh' = [fresh EXCEPT ![p] = FALSE]
            /\ todo' = [todo EXCEPT ![p] = {}]
            /\ cur' = [cur EXCEPT ![p] = None]
            /\ ret' = [ret EXCEPT ![p] = None]
            /\ UNCHANGED disk

Init == /\ loose \in [Refs -> Vals \cup {None}]
        /\ packed \in [Refs -> Oids \cup {None}]
        /\ packedFile \in BOOLEAN
        /\ ~packedFile => packed = [r \in Refs |-> None]
        /\ reflog = [r \in Refs |-> IF r \in LogRefs /\ Value(r) \in Oids
                                    THEN Value(r) ELSE NoLog]
        /\ refLock = [r \in Refs |-> Nobody]
        /\ packLock = Nobody
        /\ pc = [p \in Procs |-> "idle"]
        /\ op = [p \in Procs |-> NoOp]
        /\ cache = [p \in Procs |-> [r \in Refs |-> None]]
        /\ wasLoose = [p \in Procs |-> {}]
        /\ fresh = [p \in Procs |-> FALSE]
        /\ todo = [p \in Procs |-> {}]
        /\ cur = [p \in Procs |-> None]
        /\ ret = [p \in Procs |-> None]

\* A step of the call p is executing.
Step(p) == \/ Finish(p) \/ Get(p) \/ Avail(p) \/ Exists(p) \/ Find(p) \/ Lock(p)
           \/ CompareOld(p) \/ CompareNew(p) \/ WriteLog(p) \/ Commit(p) \/ Unlock(p)
           \/ DropLog(p) \/ PackedDelete(p) \/ Unlink(p) \/ LockTo(p) \/ MoveLog(p)
           \/ StartCompress(p) \/ LoadLoose(p) \/ EndLoad(p) \/ LockPacked(p)
           \/ WritePacked(p) \/ PruneLock(p) \/ PruneCheck(p) \/ PruneUnlock(p)
           \/ EndPrune(p)

Next == \E p \in Procs : Call(p) \/ Step(p) \/ Crash(p)

Spec == Init /\ [][Next]_vars

\* The operating system keeps running every process; nothing in the code waits.
Fairness == \A p \in Procs : WF_vars(Step(p))
FairSpec == Spec /\ Fairness
-----------------------------------------------------------------------------
(***************************************************************************)
(* Properties.                                                             *)
(***************************************************************************)
\* Only one process rewrites packed-refs, and it does not die meanwhile.
SinglePacker == /\ \A p, q \in Packers : p = q
                /\ Packers \cap Crashers = {}

\* Seen from outside, references behave like RefStore: whatever packing, pruning
\* and shadowing go on in the files, the value of a reference changes only by
\* one step of the holder of its lock, to the new value or to none.
Store == INSTANCE RefStore WITH value  <- [r \in Refs |-> Value(r)],
                                holder <- refLock
StoreSpec == Store!Spec

\* Compare-and-swap: when a write or a delete with an expected old value changes
\* its reference, the reference had that value at that moment, although the
\* comparison (cmp_old_ref) was several file accesses earlier.
CasRespected ==
    [][\A p \in Procs, r \in Refs :
          ( /\ refLock[r] = p
            /\ Value(r)' # Value(r)
            /\ op[p].kind \in {"write", "delete"}
            /\ op[p].old # Any ) => Value(r) = op[p].old]_vars

\* The newest reflog entry of an unlocked reference is its value: the log is
\* written before the reference and both under the reference's lock.
ReflogTip ==
    \A r \in Refs :
        (refLock[r] = Nobody /\ reflog[r] # NoLog /\ Value(r) \in Oids)
            => reflog[r] = Value(r)

\* Which calls reach which label, and that only packers make some of them.
KindOK(p) ==
    /\ pc[p] \in {"get", "getPacked"} => op[p].kind = "lookup"
    /\ pc[p] \in {"avail", "exists", "existsPacked", "commit"}
           => op[p].kind \in {"write", "rename"}
    /\ pc[p] \in {"new", "newPacked", "log"} => op[p].kind = "write"
    /\ pc[p] \in {"old", "oldPacked"} => op[p].kind \in {"write", "delete"}
    /\ pc[p] \in {"lock", "unlock"} => op[p].kind \in {"write", "delete", "rename"}
    /\ pc[p] \in {"dropLog", "packedDelete", "unlink"} => op[p].kind \in {"delete", "rename"}
    /\ pc[p] \in {"find", "findPacked", "lockTo", "moveLog"} => op[p].kind = "rename"
    /\ pc[p] \in {"reload", "load"} => op[p].kind = "compress"
    /\ pc[p] \in PackLabels => op[p].kind \in {"delete", "rename", "compress"}
    /\ (pc[p] # "idle" /\ op[p].kind \in {"delete", "rename", "compress"}) => p \in Packers

KindInv == \A p \in Procs : KindOK(p)

\* The references whose lock file the call of p holds at its label.
Holds(p, r) ==
    \/ /\ \/ pc[p] \in {"old", "oldPacked", "new", "newPacked", "log", "dropLog",
                       "packedDelete", "unlink", "unlock"}
          \/ pc[p] = "commit" /\ op[p].kind = "write"
          \/ pc[p] \in PackLabels /\ op[p].kind # "compress"
       /\ r = op[p].ref
    \/ /\ pc[p] = "moveLog" \/ (pc[p] = "commit" /\ op[p].kind = "rename")
       /\ r = op[p].to
    \/ /\ pc[p] \in {"pruneCheck", "pruneUnlock"}
       /\ r = cur[p]

\* The lock files are exactly those the calls in progress hold.  A call that
\* prunes a reference never prunes the one it deletes.
LockedBy(p) ==
    /\ \A r \in Refs : refLock[r] = p <=> Holds(p, r)
    /\ packLock = p <=> pc[p] = "packWrite"
    /\ (pc[p] \in {"pruneCheck", "pruneUnlock"} /\ op[p].kind # "compress")
           => cur[p] # op[p].ref

LockInv == \A p \in Procs : LockedBy(p)

\* With one packer, what it is about to write to packed-refs, or has written,
\* differs from packed-refs only where a loose file hides the difference and at
\* the reference it deletes; everywhere else a current cache is packed-refs.
PackedBy(p) ==
    /\ pc[p] \in {"load", "packLock", "packWrite"} =>
           \A r \in Refs : (loose[r] = None /\ (op[p].kind = "compress" \/ r # op[p].ref))
                              => cache[p][r] = packed[r]
    /\ (pc[p] \in {"packLock", "packWrite"} /\ op[p].kind # "compress")
           => cache[p][op[p].ref] = None
    /\ pc[p] \in {"prune", "pruneCheck", "pruneUnlock"} => cache[p] = packed
    /\ ( \/ pc[p] = "unlink"
         \/ pc[p] \in {"prune", "pruneCheck", "pruneUnlock"} /\ op[p].kind # "compress" )
           => packed[op[p].ref] = None
    /\ pc[p] \notin {"load"} \cup PackLabels => View(p) = packed

PackInv == packLock # Stale /\ \A p \in Procs : PackedBy(p)

\* Between the comparison with the expected value and the update, the reference
\* keeps that value; a deletion may already have taken it away.
CasBy(p) ==
    /\ pc[p] = "oldPacked" => loose[op[p].ref] = None
    /\ (pc[p] # "idle" /\ op[p].kind \in {"write", "delete"} /\ op[p].old # Any) =>
        /\ pc[p] \in {"new", "newPacked", "log", "commit", "packedDelete", "packLock", "packWrite"}
              => Value(op[p].ref) = op[p].old
        /\ pc[p] \in {"prune", "pruneCheck", "pruneUnlock", "unlink"}
              => Value(op[p].ref) \in {op[p].old, None}

CasInv == \A p \in Procs : CasBy(p)

\* The newest log entry is the value, except between the two steps that write
\* them, by a process that is alive or that died there.
TipAt(r) ==
    (reflog[r] # NoLog /\ Value(r) \in Oids /\ reflog[r] # Value(r)) =>
        \/ refLock[r] = Stale
        \/ \E p \in Procs : refLock[r] = p /\ pc[p] = "commit"

TipInv ==
    /\ \A r \in Refs : TipAt(r)
    /\ \A p \in Procs : (pc[p] = "commit" /\ op[p].new \in Oids)
                             => reflog[Target(p)] \in {NoLog, op[p].new}

\* A call that is over, on whatever path it left, holds no lock file.
NoLeakedLock ==
    \A p \in Procs : pc[p] \in {"idle", "done"} =>
        packLock # p /\ \A r \in Refs : refLock[r] # p

\* A loose file is written and removed only by the holder of its lock, also by
\* packed_remove_loose, whoever else packs, deletes or has died.
LooseUnderLock ==
    [][\A r \in Refs : loose'[r] # loose[r] =>
          \E p \in Procs : refLock[r] = p /\ pc'[p] # pc[p]]_vars

\* Every call of a process that lives returns: a lock that is held is an error,
\* never a reason to wait.
EveryCallReturns == \A p \in Procs : pc[p] # "idle" ~> pc[p] = "idle"
-----------------------------------------------------------------------------
(***************************************************************************)
(* What comments and headers say and the code does not do: see README.md.  *)
(***************************************************************************)
\* refdb_fs.c:1084: loose references are removed "when and only when the packfile
\* has been properly written": what is unlinked after packing is in packed-refs.
\* Two packers break it: the later one writes a cache loaded before the other's.
PrunedIsPacked ==
    [][\A p \in Procs, r \in Refs :
          (pc[p] = "pruneCheck" /\ pc'[p] # pc[p] /\ loose'[r] # loose[r])
              => packed[r] = loose[r]]_vars

\* git2/refs.h:403: git_reference_remove "removes the named reference": when the
\* deletion succeeds there is no value left.  A deletion that failed because
\* packed-refs.lock was there has already taken the entry out of the cache; its
\* retry finds nothing to rewrite, unlinks the loose file, returns 0, and the
\* older value in packed-refs comes back.
DeleteRemoves ==
    [][\A p \in Procs :
          (pc[p] = "unlink" /\ pc'[p] = "unlock") => Value(op[p].ref)' = None]_vars

\* git2/refs.h:368: renaming a reference renames its reflog "if it exists": the
\* step of a rename that takes the log from the old name gives it to the new.
\* The code deletes it with the old reference, before it looks for it.
RenameMovesLog ==
    [][\A p \in Procs :
          ( /\ op[p] # NoOp /\ pc'[p] # pc[p]
            /\ op[p].kind = "rename"
            /\ reflog[op[p].ref] # NoLog /\ reflog'[op[p].ref] = NoLog )
              => reflog'[op[p].to] # NoLog]_vars

\* git2/refs.h:89: without force, creating a reference that exists is an error.
\* The code looks for it before it takes the lock, and not again.
CreateIsExclusive ==
    [][\A p \in Procs :
          (pc[p] = "commit" /\ pc'[p] = "done" /\ op[p].kind = "write" /\ ~op[p].force)
              => Value(op[p].ref) = None]_vars
=============================================================================
