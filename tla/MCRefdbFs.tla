----------------------------- MODULE MCRefdbFs ------------------------------
(***************************************************************************)
(* Instances of RefdbFs with two processes that both rewrite packed-refs.  *)
(***************************************************************************)
EXTENDS RefdbFs

CONSTANTS r1, r2, a, b

Operation(k, r, t, n, x, f) ==
    [kind |-> k, ref |-> r, to |-> t, new |-> n, old |-> x, force |-> f]

TwoPackerOps == {Operation("lookup", r1, r1, a, Any, FALSE),
                 Operation("write", r1, r1, a, Any, FALSE),
                 Operation("write", r1, r1, a, a, TRUE),
                 Operation("delete", r1, r1, a, a, FALSE),
                 Operation("delete", r1, r1, a, Any, FALSE),
                 Operation("rename", r1, r1, a, Any, TRUE),
                 Operation("compress", r1, r1, a, Any, FALSE)}

\* The calls of the runs that refute one statement each.
PackOps == {Operation("compress", r1, r1, a, Any, FALSE),
            Operation("write", r1, r1, a, Any, TRUE)}
DeleteOps == PackOps \cup {Operation("delete", r1, r1, a, Any, FALSE)}
RenameOps == {Operation("rename", r1, r2, a, Any, FALSE)}
CreateOps == {Operation("write", r1, r1, a, Any, FALSE),
              Operation("write", r1, r1, b, Any, FALSE)}
=============================================================================
