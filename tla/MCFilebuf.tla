----------------------------- MODULE MCFilebuf ------------------------------
(***************************************************************************)
(* Instances of Filebuf: two processes that replace one file.              *)
(***************************************************************************)
EXTENDS Filebuf, TLC

Symmetry == Permutations(Files)
=============================================================================
