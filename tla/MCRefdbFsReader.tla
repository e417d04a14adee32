-------------------------- MODULE MCRefdbFsReader ---------------------------
(***************************************************************************)
(* The instance of RefdbFs with one packing process, and an observer.      *)
(***************************************************************************)
EXTENDS RefdbFsReader

CONSTANTS r1, r2, a, b, s

Operation(k, r, t, n, x, f) ==
    [kind |-> k, ref |-> r, to |-> t, new |-> n, old |-> x, force |-> f]

\* Every kind of call, on one or two references, with and without an expected
\* value, with and without force, with an object id and a symbolic target.
OnePackerOps == {Operation("lookup", r1, r1, a, Any, FALSE),
                 Operation("write", r1, r1, a, Any, FALSE),
                 Operation("write", r1, r1, b, a, TRUE),
                 Operation("write", r1, r1, s, Any, TRUE),
                 Operation("delete", r1, r1, a, b, FALSE),
                 Operation("rename", r1, r2, a, Any, FALSE),
                 Operation("compress", r1, r1, a, Any, FALSE)}
=============================================================================
