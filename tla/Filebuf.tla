------------------------------ MODULE Filebuf -------------------------------
(***************************************************************************)
(* git_filebuf (filebuf.c), the way libgit2 replaces a file: write the new *)
(* contents to <path>.lock, created with O_EXCL, and rename it over path.  *)
(* Several processes do it to one path.  References, packed-refs, the      *)
(* index, the configuration, FETCH_HEAD and MERGE_HEAD go through it.      *)
(*                                                                         *)
(* A file is an inode: path and path.lock are names for inodes, and a      *)
(* descriptor keeps its inode whatever happens to the names.  Contents are *)
(* a set of blocks; one writer writes them in order, so a file that lacks  *)
(* one is a torn file.  Deflating, hashing, temporary files and symbolic   *)
(* links are left out.                                                     *)
(***************************************************************************)
CONSTANTS Procs,     \* processes that replace the file
          Crashers,  \* those that may die at any step
          Files,     \* inodes
          Blocks,    \* what the files are made of
          Faults,    \* the system calls that may fail; without GIT_FILEBUF_FSYNC
                     \* there is no "fsync" and no "parent" to fail
          None,      \* no inode
          Nobody,    \* the holder of a free lock
          Stale      \* the holder of a lock nobody will release

ASSUME FilebufAssumption ==
    /\ Crashers \subseteq Procs
    /\ Faults \subseteq {"copy", "write", "fsync", "close", "rename", "parent"}
    /\ None \notin Files
    /\ \A b \in SUBSET Blocks : b # None
    /\ Nobody \notin Procs
    /\ Stale \notin Procs
    /\ Nobody # Stale

VARIABLES target,    \* the inode path names, or None
          lock,      \* the inode path.lock names, or None
          data,      \* data[f]: the blocks of inode f
          pc,        \* where the git_filebuf of each process is
          file,      \* the inode behind file->fd
          append,    \* GIT_FILEBUF_APPEND
          created,   \* file->created_lock
          renamed,   \* file->did_rename
          failed,    \* file->last_error # BUFERR_OK
          buf,       \* file->buffer
          want,      \* what the caller has asked the file to hold
          ret        \* what the last call returned

dir   == <<target, lock>>
state == <<file, append, created, renamed, failed, buf, want>>
vars  == <<dir, data, pc, state, ret>>

\* The labels at which the process has made path.lock and not given it up.
Holding == {"append", "open", "fsync", "close", "rename"}
Labels  == Holding \cup {"idle", "creat", "parent", "cleanup"}

TypeOK ==
    /\ target \in Files \cup {None}
    /\ lock \in Files \cup {None}
    /\ data \in [Files -> SUBSET Blocks]
    /\ pc \in [Procs -> Labels]
    /\ file \in [Procs -> Files \cup {None}]
    /\ append \in [Procs -> BOOLEAN]
    /\ created \in [Procs -> BOOLEAN]
    /\ renamed \in [Procs -> BOOLEAN]
    /\ failed \in [Procs -> BOOLEAN]
    /\ buf \in [Procs -> SUBSET Blocks]
    /\ want \in [Procs -> SUBSET Blocks]
    /\ ret \in [Procs -> {"ok", "error", "locked", "abandoned"}]

Goto(p, l)   == pc' = [pc EXCEPT ![p] = l]
\* goto on_error, goto cleanup: git_filebuf_cleanup, then return v.
Leave(p, v)  == Goto(p, "cleanup") /\ ret' = [ret EXCEPT ![p] = v]
-----------------------------------------------------------------------------
\* git_filebuf_open on a zeroed git_filebuf, up to git_path_exists in lock_file.
Open(p) == /\ pc[p] = "idle"
           /\ append' \in {[append EXCEPT ![p] = b] : b \in BOOLEAN}
           /\ IF lock # None THEN Leave(p, "locked") ELSE Goto(p, "creat") /\ UNCHANGED ret
           /\ UNCHANGED <<dir, data, file, created, renamed, failed, buf, want>>

\* An inode no name and no descriptor refers to.
Unused(f) == f \notin {target, lock} /\ \A q \in Procs : file[q] # f

\* git_futils_creat_locked: O_CREAT | O_EXCL.
Create_NotExcl(p) ==               \* mutant: O_EXCL is forgotten
    /\ pc[p] = "creat"
    /\ \E f \in Files :
          /\ Unused(f)
          /\ lock' = f
          /\ data' = [data EXCEPT ![f] = {}]
          /\ file' = [file EXCEPT ![p] = f]
          /\ created' = [created EXCEPT ![p] = ~ append[p]]
          /\ Goto(p, IF append[p] THEN "append" ELSE "open")
    /\ UNCHANGED <<target, append, renamed, failed, buf, want, ret>>

Create(p) ==
    /\ pc[p] = "creat"
    /\ lock = None
    /\ \E f \in Files :
          /\ Unused(f)
          /\ lock' = f
          /\ data' = [data EXCEPT ![f] = {}]
          /\ file' = [file EXCEPT ![p] = f]
          /\ created' = [created EXCEPT ![p] = ~ append[p]]
          /\ Goto(p, IF append[p] THEN "append" ELSE "open")
    /\ UNCHANGED <<target, append, renamed, failed, buf, want, ret>>

CreateLocked(p) == /\ pc[p] = "creat"
                   /\ lock # None
                   /\ Leave(p, "locked")
                   /\ UNCHANGED <<dir, data, state>>

\* GIT_FILEBUF_APPEND: copy the present contents.
Copied_Garbage ==                  \* mutant: without a file, an unread buffer is copied
    IF target = None THEN {None} ELSE data[target]

Copied == IF target = None THEN {} ELSE data[target]

Copy(p) == /\ pc[p] = "append"
           /\ data' = [data EXCEPT ![file[p]] = Copied]
           /\ want' = [want EXCEPT ![p] = Copied]
           /\ created' = [created EXCEPT ![p] = TRUE]
           /\ Goto(p, "open")
           /\ UNCHANGED <<dir, file, append, renamed, failed, buf, ret>>

\* The copy fails: lock_file returns before created_lock is set.
CopyFails(p) == /\ pc[p] = "append"
                /\ "copy" \in Faults
                /\ target # None
                /\ Leave(p, "error")
                /\ UNCHANGED <<dir, data, state>>
-----------------------------------------------------------------------------
\* write(2) of the blocks b, which fails or not; the buffer is empty afterwards.
Flush(p, b) == /\ buf' = [buf EXCEPT ![p] = {}]
               /\ \/ /\ data' = [data EXCEPT ![file[p]] = @ \cup b]
                     /\ UNCHANGED failed
                  \/ /\ "write" \in Faults
                     /\ failed' = [failed EXCEPT ![p] = TRUE]
                     /\ UNCHANGED data

\* git_filebuf_write, _printf and _reserve: nothing after an error, else into the
\* buffer, which is flushed when it is full.  Callers ignore the result.
Write(p) ==
    /\ pc[p] = "open"
    /\ \E b \in Blocks \ want[p] :
          /\ want' = [want EXCEPT ![p] = @ \cup {b}]
          /\ \/ failed[p] /\ UNCHANGED <<buf, data, failed>>
             \/ ~ failed[p] /\ buf' = [buf EXCEPT ![p] = @ \cup {b}] /\ UNCHANGED <<data, failed>>
             \/ ~ failed[p] /\ Flush(p, buf[p] \cup {b})
    /\ UNCHANGED <<dir, pc, file, append, created, renamed, ret>>

\* git_filebuf_commit: flush, then verify_last_error.
Commit_NoVerify(p) ==              \* mutant: only the last flush is looked at
    /\ pc[p] = "open"
    /\ Flush(p, buf[p])
    /\ IF failed'[p] # failed[p] THEN Leave(p, "error") ELSE Goto(p, "fsync") /\ UNCHANGED ret
    /\ UNCHANGED <<dir, file, append, created, renamed, want>>

Commit(p) == /\ pc[p] = "open"
             /\ Flush(p, buf[p])
             /\ IF failed'[p] THEN Leave(p, "error") ELSE Goto(p, "fsync") /\ UNCHANGED ret
             /\ UNCHANGED <<dir, file, append, created, renamed, want>>

\* The next system call of git_filebuf_commit succeeds or fails.
Try(p, l, fault, next) == /\ pc[p] = l
                          /\ \/ Goto(p, next) /\ UNCHANGED ret
                             \/ fault \in Faults /\ Leave(p, "error")
                          /\ UNCHANGED <<dir, data, state>>

Fsync(p) == Try(p, "fsync", "fsync", "close")
Close_Late(p) ==                   \* mutant: renamed before it is closed
    /\ pc[p] = "close"
    /\ lock # None
    /\ target' = lock
    /\ lock' = None
    /\ \/ Goto(p, "parent") /\ UNCHANGED ret
       \/ "close" \in Faults /\ Leave(p, "error")
    /\ UNCHANGED <<data, state>>

Close(p) == Try(p, "close", "close", "rename")

\* rename(path.lock, path), of whatever path.lock names.  did_rename is set after
\* the directory has been synced.
Rename_Unset(p) ==                 \* mutant: did_rename is never set
    /\ pc[p] = "rename"
    /\ \/ /\ lock # None
          /\ target' = lock
          /\ lock' = None
          /\ Leave(p, "ok")
       \/ /\ "rename" \in Faults \/ lock = None
          /\ Leave(p, "error")
          /\ UNCHANGED dir
    /\ UNCHANGED <<data, state>>

Rename(p) ==
    /\ pc[p] = "rename"
    /\ \/ /\ lock # None
          /\ target' = lock
          /\ lock' = None
          /\ Goto(p, "parent")
          /\ UNCHANGED ret
       \/ /\ "rename" \in Faults \/ lock = None
          /\ Leave(p, "error")
          /\ UNCHANGED dir
    /\ UNCHANGED <<data, state>>

SyncParent(p) == /\ pc[p] = "parent"
                 /\ \/ Leave(p, "ok") /\ renamed' = [renamed EXCEPT ![p] = TRUE]
                    \/ "parent" \in Faults /\ Leave(p, "error") /\ UNCHANGED renamed
                 /\ UNCHANGED <<dir, data, file, append, created, failed, buf, want>>

\* The caller gives up: git_filebuf_cleanup.
Abandon(p) == /\ pc[p] = "open"
              /\ Leave(p, "abandoned")
              /\ UNCHANGED <<dir, data, state>>

\* What git_filebuf_cleanup leaves of the struct (memset), and a death of the process.
Reset(p) == /\ file' = [file EXCEPT ![p] = None]
            /\ append' = [append EXCEPT ![p] = FALSE]
            /\ created' = [created EXCEPT ![p] = FALSE]
            /\ renamed' = [renamed EXCEPT ![p] = FALSE]
            /\ failed' = [failed EXCEPT ![p] = FALSE]
            /\ buf' = [buf EXCEPT ![p] = {}]
            /\ want' = [want EXCEPT ![p] = {}]
            /\ Goto(p, "idle")

\* git_filebuf_cleanup closes the descriptor and unlinks path.lock by its name.
Cleanup(p) == /\ pc[p] = "cleanup"
              /\ lock' = IF created[p] /\ ~ renamed[p] THEN None ELSE lock
              /\ Reset(p)
              /\ UNCHANGED <<target, data, ret>>

Crash(p) == /\ p \in Crashers
            /\ pc[p] # "idle"
            /\ Reset(p)
            /\ UNCHANGED <<dir, data, ret>>
-----------------------------------------------------------------------------
Init == /\ lock = None
        /\ data \in [Files -> SUBSET Blocks]
        /\ target \in Files \cup {None}
        /\ \A f \in Files \ {target} : data[f] = {}
        /\ pc = [p \in Procs |-> "idle"]
        /\ file = [p \in Procs |-> None]
        /\ append = [p \in Procs |-> FALSE]
        /\ created = [p \in Procs |-> FALSE]
        /\ renamed = [p \in Procs |-> FALSE]
        /\ failed = [p \in Procs |-> FALSE]
        /\ buf = [p \in Procs |-> {}]
        /\ want = [p \in Procs |-> {}]
        /\ ret = [p \in Procs |-> "ok"]

Next == \E p \in Procs : \/ Open(p) \/ Create(p) \/ CreateLocked(p) \/ Copy(p) \/ CopyFails(p)
                         \/ Write(p) \/ Commit(p) \/ Fsync(p) \/ Close(p) \/ Rename(p)
                         \/ SyncParent(p) \/ Abandon(p) \/ Cleanup(p) \/ Crash(p)

Spec == Init /\ [][Next]_vars
-----------------------------------------------------------------------------
\* Who holds the lock: the process whose descriptor path.lock names, while it has
\* not given up; a lock file nobody will rename or unlink is stale.
Holds(p) == file[p] = lock /\ (pc[p] \in Holding \/ created[p])

Holder == IF lock = None THEN Nobody
          ELSE IF \E p \in Procs : Holds(p) THEN CHOOSE p \in Procs : Holds(p)
          ELSE Stale

Contents == IF target = None THEN None ELSE data[target]

\* The lock file protocol implements the lock and the one-step update that
\* RefdbFs takes for granted: one holder, and contents that change only by the
\* holder's rename.
FileContents == {b : b \in SUBSET Blocks}

Lock == INSTANCE RefStore WITH Refs   <- {"path"},
                               Vals   <- FileContents,
                               value  <- [r \in {"path"} |-> Contents],
                               holder <- [r \in {"path"} |-> Holder]
LockSpec == Lock!Spec

\* The names and descriptors of the inodes, when syncing the directory does not
\* fail: path.lock is the file of whoever is at work on it, no two processes share
\* a file, and the file at path is one nobody writes to any more.
NameBy(p) ==
    /\ pc[p] \in Holding => file[p] = lock /\ lock # None
    /\ (pc[p] = "cleanup" /\ created[p] /\ ~ renamed[p]) => file[p] = lock /\ lock # None
    /\ pc[p] \in {"idle", "creat"} => file[p] = None
    /\ pc[p] \in {"idle", "creat", "append"} => ~ created[p]
    /\ pc[p] \in {"open", "fsync", "close", "rename", "parent"} => created[p]
    /\ renamed[p] => pc[p] = "cleanup" /\ ret[p] = "ok"
    /\ ((pc[p] = "parent" \/ renamed[p]) /\ lock # None) => file[p] # lock
    /\ (file[p] = target /\ target # None) => pc[p] = "parent" \/ renamed[p]

NameInv == /\ lock # None => lock # target
           /\ \A p \in Procs : NameBy(p)
           /\ \A p, q \in Procs : (file[p] = file[q] /\ file[p] # None) => p = q

\* Nothing the caller wrote is lost but by an error that is remembered.
WholeBy(p) ==
    /\ pc[p] \in {"idle", "creat", "append"} => buf[p] = {} /\ want[p] = {} /\ ~ failed[p]
    /\ (pc[p] = "open" /\ ~ failed[p]) => want[p] = data[file[p]] \cup buf[p]
    /\ pc[p] \in {"fsync", "close", "rename"} => want[p] = data[file[p]]

WholeInv == \A p \in Procs : WholeBy(p)

\* A rename publishes all the caller wrote, after every copy, flush and error:
\* writes whose result was ignored are never missing from the file.
CommitIsWhole ==
    [][\A p \in Procs : (pc[p] = "rename" /\ pc'[p] # pc[p] /\ target' # target)
                            => Contents' = want[p]]_vars

\* A commit that reports an error has not replaced the file.
ErrorChangesNothing ==
    \A p \in Procs : (pc[p] = "cleanup" /\ ret[p] # "ok" /\ file[p] # None) => target # file[p]

\* What creat_locked promises, "a process-locked file" (futils.h:56): as long as p
\* is at work on its lock file, nobody else removes or renames it.  A commit whose
\* directory sync fails unlinks path.lock after its own rename, when it may be the
\* lock of another process.
LockIsExclusive == \A p \in Procs : pc[p] \in Holding => lock = file[p]
=============================================================================
