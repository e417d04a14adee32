--------------------------- MODULE RefdbFsReader ----------------------------
(***************************************************************************)
(* RefdbFs with a history variable: what an observer of the shared files   *)
(* could have seen of a reference while a process looks it up.  The lookup *)
(* reads two files, one after the other, with no lock held.                *)
(***************************************************************************)
EXTENDS RefdbFs

VARIABLE seen    \* seen[p]: the observable values since the lookup of p began

\* A deletion is visible once the packed entry is gone: from then on a process
\* that found no loose file earlier finds nothing in packed-refs either.
Deleting(r) == \E q \in Procs :
    /\ pc[q] \in {"prune", "pruneCheck", "pruneUnlock", "unlink"}
    /\ op[q].kind \in {"delete", "rename"}
    /\ op[q].ref = r

Observable(r) == {Value(r)} \cup (IF Deleting(r) THEN {None} ELSE {})

Looking(p) == pc[p] \in {"get", "getPacked"}

\* While p is looking, what is observable now is added; the first step of the
\* call starts the set and the end of the call drops it.
Observe == seen' = [p \in Procs |->
    IF Looking(p)' THEN seen[p] \cup Observable(op[p].ref)'
    ELSE {}]

ReaderInit == Init /\ seen = [p \in Procs |-> {}]
ReaderNext == Next /\ Observe
ReaderSpec == ReaderInit /\ [][ReaderNext]_<<vars, seen>>

\* A lookup answers with a value the reference had at some moment of the call,
\* or with nothing when the reference was missing or being deleted (the comment
\* at refdb_fs.c:1456): never an older packed value behind a newer loose one.
LookupWasTrue ==
    [][\A p \in Procs : (Looking(p) /\ pc'[p] = "done") =>
          IF ret'[p] = "notfound" THEN None \in seen[p] ELSE ret'[p] \in seen[p]]_<<vars, seen>>
=============================================================================
