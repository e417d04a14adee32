------------------------------ MODULE RefStore ------------------------------
(***************************************************************************)
(* What a reference database promises, without files: every reference has  *)
(* one value (or none), a lock with at most one holder, and its value      *)
(* changes only by a step of the process that holds its lock.  A process   *)
(* that dies leaves its locks behind: nobody takes them again.             *)
(*                                                                         *)
(* The contract is the one the comments of refdb_fs.c state: the old-value *)
(* check and the update happen under the ref's lock (line 1292), and an    *)
(* observer of a deletion sees the current value or no reference at all    *)
(* (lines 1456-1458).                                                      *)
(***************************************************************************)
CONSTANTS Procs,    \* processes with the repository open
          Refs,     \* names of references
          Vals,     \* what a reference can point to
          None,     \* the value of a reference that does not exist
          Nobody,   \* the holder of a free lock
          Stale     \* the holder of a lock whose process died

VARIABLES value,    \* value[r]: what r points to, or None
          holder    \* holder[r]: who holds the lock of r

vars == <<value, holder>>

TypeOK == /\ value \in [Refs -> Vals \cup {None}]
          /\ holder \in [Refs -> Procs \cup {Nobody, Stale}]

Init == /\ value \in [Refs -> Vals \cup {None}]
        /\ holder = [r \in Refs |-> Nobody]

Acquire(p, r) == /\ holder[r] = Nobody
                 /\ holder' = [holder EXCEPT ![r] = p]
                 /\ UNCHANGED value

Release(p, r) == /\ holder[r] = p
                 /\ holder' = [holder EXCEPT ![r] = Nobody]
                 /\ UNCHANGED value

\* Publishing the new value gives the lock up in the same step: the lock file
\* is the new file.
Set(p, r, v) == /\ holder[r] = p
                /\ value' = [value EXCEPT ![r] = v]
                /\ holder' = [holder EXCEPT ![r] = Nobody]

Delete(p, r) == /\ holder[r] = p
                /\ value' = [value EXCEPT ![r] = None]
                /\ UNCHANGED holder

Die(p) == /\ holder' = [r \in Refs |-> IF holder[r] = p THEN Stale ELSE holder[r]]
          /\ UNCHANGED value

Next == \E p \in Procs : \/ Die(p)
                         \/ \E r \in Refs : \/ Acquire(p, r)
                                            \/ Release(p, r)
                                            \/ Delete(p, r)
                                            \/ \E v \in Vals : Set(p, r, v)

Spec == Init /\ [][Next]_vars
=============================================================================
