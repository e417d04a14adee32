---------------------------- MODULE MCMergeBase -----------------------------
(***************************************************************************)
(* Instances of MergeBase: every history of five commits with at most two  *)
(* parents, under a clock that runs forward, that stands still, that runs  *)
(* backward and that jumps; and the same with the first commit missing.    *)
(***************************************************************************)
EXTENDS MergeBase

NewestFirst == [c \in Commits |-> 10 - c]

\* Commits are numbered in the order they were made.
AtMost2(S) == {T \in SUBSET S : Cardinality(T) <= 2}
Histories  == {<<{}, a, b, c, d>> : a \in SUBSET {1}, b \in SUBSET {1, 2},
                                    c \in AtMost2(1 .. 3), d \in AtMost2(1 .. 4)}
Growing   == <<1, 2, 3, 4, 5>>
Clocks    == {Growing, <<1, 1, 1, 1, 1>>, <<5, 4, 3, 2, 1>>,
              <<5, 1, 4, 3, 2>>, <<2, 4, 1, 5, 3>>, <<4, 1, 2, 5, 5>>}

MCRepositories ==
    {[parents |-> p, time |-> s[1], missing |-> s[2]] :
        p \in Histories, s \in {<<t, {}>> : t \in Clocks} \cup {<<Growing, {1}>>}}

Ask(kind, inputs) == [kind |-> kind, inputs |-> inputs]

MCQueries ==
    {Ask("bases", i) : i \in {<<5, 4>>, <<3, 5>>, <<4, 5, 3>>, <<2, 5, 4, 3>>, <<5, 5>>}}
    \cup {Ask("descendant", i) : i \in {<<5, 3>>, <<5, 1>>, <<2, 5>>, <<4, 4>>}}
    \cup {Ask("octopus", i) : i \in {<<5, 4, 3>>, <<3, 4, 5>>}}
    \cup {Ask("graph", i) : i \in {<<5, 4>>, <<3, 5>>, <<3, 3>>}}
=============================================================================
