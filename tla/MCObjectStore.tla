--------------------------- MODULE MCObjectStore ----------------------------
(* A bounded instance of ObjectStore: one object, which may be loose and   *)
(* in either of two packs.  A call is about one object, and those around   *)
(* it share no more than the packs they are in.                            *)
EXTENDS ObjectStore

CONSTANTS a, p1, p2

MCContents == [q \in Packs |-> Objects]

=============================================================================
