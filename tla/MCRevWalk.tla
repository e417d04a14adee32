----------------------------- MODULE MCRevWalk ------------------------------
(***************************************************************************)
(* Instances of RevWalk.  A history is written as the parents of each      *)
(* commit and their dates; commits are numbered in the order they were     *)
(* made.                                                                   *)
(***************************************************************************)
EXTENDS RevWalk

NewestFirst == [c \in Commits |-> 10 - c]

History(parents, dates, heads, missing) ==
    [parents |-> parents, time |-> dates, heads |-> heads, missing |-> missing]

\* A chain that takes more than SLOP steps; two merges over a criss-cross, with dates
\* that grow, with a clock that jumped back, and with a root missing.
Chain   == << <<>>, <<1>>, <<2>>, <<3>>, <<4>>, <<5>>, <<6>>, <<7>> >>
Merges  == << <<>>, <<>>, <<1, 2>>, <<2, 1>>, <<3>>, <<4, 3>>, <<3, 4>>, <<6, 5>> >>
Growing == <<1, 2, 3, 4, 5, 6, 7, 8>>
Jumping == <<5, 5, 2, 7, 3, 2, 4, 3>>

MCRepositories ==
    {History(Chain, Growing, {1, 8}, {}), History(Merges, Growing, {7, 8}, {}),
     History(Merges, Jumping, {7, 8}, {}), History(Merges, Jumping, {4, 8}, {1})}
MCSortings == {{}, {"topo"}, {"time"}, {"time", "reverse"}, {"topo", "time", "reverse"}}
MCHideCbs  == {{4}}

\* The chain and a newer commit beside it.
Beside == {History(Append(Chain, << >>), Append(Growing, 9), {1, 8, 9}, {})}
=============================================================================
