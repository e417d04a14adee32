----------------------------- MODULE MergeBase ------------------------------
(***************************************************************************)
(* What libgit2 computes from the commit graph by painting it: merge bases *)
(* (merge.c), and how far two commits are apart (graph.c).  Marks are      *)
(* pushed from the commits asked about down to their ancestors, the newest *)
(* commit first; a commit that gets both marks is common, and what is      *)
(* below it is stale.  Painting stops when only stale commits are queued,  *)
(* so it sees neither every ancestor nor every stale one.                  *)
(*                                                                         *)
(* One action is one turn of a loop.  A query opens a walker of its own    *)
(* and frees it, so nothing is carried from one query to the next: a       *)
(* behaviour is one query on one history.                                  *)
(*                                                                         *)
(* Abstractions: memory does not run out; no commit names a parent twice;  *)
(* the heap of pqueue.c pops any of the newest commits; a commit given     *)
(* twice among the others enters it once; the vector of candidates in      *)
(* remove_redundant is taken in any order.                                 *)
(***************************************************************************)
EXTENDS Naturals, Sequences, FiniteSets

CONSTANTS Commits,
          Rank,          \* numbers commits, the children before their parents
          Repositories,  \* the histories
          Queries        \* what may be asked

\* missing: commits that the history names but the object database does not have.
Repository == [parents : [Commits -> SUBSET Commits],
               time    : [Commits -> Nat],
               missing : SUBSET Commits]

\* inputs: for a descendant the commit and its ancestor, for ahead and behind the
\* local and the upstream commit.
Query == [kind : {"bases", "descendant", "octopus", "graph"}, inputs : Seq(Commits)]

\* A commit contains the hashes of its parents, so there is no cycle.
ASSUME MergeBaseAssumption ==
    /\ IsFiniteSet(Commits)
    /\ Rank \in [Commits -> Nat]
    /\ \A r \in Repositories :
          /\ r \in Repository
          /\ \A c \in Commits : \A p \in r.parents[c] : Rank[c] < Rank[p]
    /\ \A q \in Queries : /\ q \in Query
                          /\ Len(q.inputs) >= 2
                          /\ q.kind \in {"descendant", "graph"} => Len(q.inputs) = 2

VARIABLES
    repo, query,
    pc,
    left, k,           \* git_merge_base_octopus: its result so far, and the next input
    \* the walker: the marks of each commit, and the heap, as the number of times
    \* that a commit is in it
    flags, queue,
    result,            \* the common commits that painting met
    roots,             \* the commits without parents that mark_parents met
    \* remove_redundant: what painting is about to compare, and the outcome so far
    one, twos, cands, tried, redundant,
    pending,           \* the commits whose marks clear_commit_marks has still to clear
    \* the answer
    status, bases, yes, ahead, behind

paint  == <<flags, queue, result, roots>>
work   == <<one, twos, cands, tried, redundant, pending>>
answer == <<status, bases, yes, ahead, behind>>
vars   == <<repo, query, pc, left, k, paint, work, answer>>

Flags == {"parent1", "parent2", "stale", "result"}
Both  == {"parent1", "parent2"}

\* The commits that git_merge__bases_many is called with.
Input(n) == query.inputs[n]

Others_Second == IF query.kind = "octopus" THEN {Input(2)}   \* mutant: the counter is not used
                 ELSE {Input(n) : n \in 2 .. Len(query.inputs)}

Others   == IF query.kind = "octopus" THEN {Input(k)}
            ELSE {Input(n) : n \in 2 .. Len(query.inputs)}

Parents(c) == repo.parents[c]
Queued     == {c \in Commits : queue[c] > 0}

Newest_Any(c) == \A d \in Queued : repo.time[d] <= repo.time[c]   \* mutant: also of an empty heap

Newest(c)  == c \in Queued /\ \A d \in Queued : repo.time[d] <= repo.time[c]

NoFlags == [c \in Commits |-> {}]
NoQueue == [c \in Commits |-> 0]
Times(S) == [c \in Commits |-> IF c \in S THEN 1 ELSE 0]

TypeOK ==
    /\ repo \in Repository
    /\ query \in Query
    /\ pc \in {"ask", "paint", "clear", "candidate", "mark", "count", "done"}
    /\ left \in Commits /\ k \in Nat \ {0}
    /\ flags \in [Commits -> SUBSET Flags]
    /\ queue \in [Commits -> Nat]
    /\ result \in SUBSET Commits /\ roots \in SUBSET Commits
    /\ one \in Commits /\ twos \in SUBSET Commits
    /\ cands \in SUBSET Commits /\ tried \in SUBSET Commits
    /\ redundant \in SUBSET Commits /\ pending \in SUBSET Commits
    /\ status \in {"none", "ok", "notfound", "error"}
    /\ bases \in SUBSET Commits
    /\ yes \in BOOLEAN
    /\ ahead \in Nat /\ behind \in Nat

-----------------------------------------------------------------------------
(* The end of a query.                                                     *)

Fail ==
    /\ status' = "error"
    /\ pc' = "done"
    /\ UNCHANGED <<bases, yes, ahead, behind>>

\* git_merge_bases and git_merge_bases_many.
AnswerBases(found) ==
    /\ query.kind = "bases"
    /\ bases' = found
    /\ status' = IF found = {} THEN "notfound" ELSE "ok"
    /\ pc' = "done"
    /\ UNCHANGED <<left, k, yes, ahead, behind>>

\* git_merge_base returns the newest.
Best(found, b) == b \in found /\ \A d \in found : repo.time[d] <= repo.time[b]

\* git_graph_descendant_of: no merge base, or another one, is a no.
AnswerDescendant(found) ==
    /\ query.kind = "descendant"
    /\ \/ found = {} /\ yes' = FALSE
       \/ \E b \in found : Best(found, b) /\ yes' = (b = Input(2))
    /\ status' = "ok"
    /\ pc' = "done"
    /\ UNCHANGED <<left, k, bases, ahead, behind>>

\* git_merge_base_octopus: the merge base is compared with the next input.
AnswerOctopus(found) ==
    /\ query.kind = "octopus"
    /\ \/ /\ found = {}
          /\ status' = "notfound"
          /\ pc' = "done"
          /\ UNCHANGED <<left, k, bases, yes, ahead, behind>>
       \/ \E b \in found :
             /\ Best(found, b)
             /\ left' = b
             /\ k' = k + 1
             /\ \/ k = Len(query.inputs) /\ bases' = {b} /\ status' = "ok" /\ pc' = "done"
                \/ k < Len(query.inputs) /\ pc' = "ask" /\ UNCHANGED <<bases, status>>
             /\ UNCHANGED <<yes, ahead, behind>>

Answer(found) ==
    \/ AnswerBases(found)
    \/ AnswerDescendant(found)
    \/ AnswerOctopus(found)

-----------------------------------------------------------------------------
(* git_merge__bases_many.                                                  *)

\* The first lines of paint_down_to_common; the marks are those it finds.
StartPaint(marks, c, S) ==
    /\ one' = c /\ twos' = S
    /\ flags' = [d \in Commits |->
                    marks[d] \cup (IF d = c THEN {"parent1"} ELSE {})
                             \cup (IF d \in S THEN {"parent2"} ELSE {})]
    /\ queue' = Times({c} \cup S)
    /\ result' = {}
    /\ pc' = "paint"
    /\ UNCHANGED <<roots, answer>>

\* git_graph_descendant_of compares its commits first, and a commit is no
\* descendant of itself.
AskSelf ==
    /\ pc = "ask" /\ query.kind = "descendant"
    /\ left \in Others
    /\ yes' = FALSE /\ status' = "ok" /\ pc' = "done"
    /\ UNCHANGED <<repo, query, left, k, paint, work, bases, ahead, behind>>

\* A repeated commit is the merge base.
AskRepeated ==
    /\ pc = "ask" /\ query.kind \in {"bases", "octopus"}
    /\ left \in Others
    /\ Answer({left})
    /\ UNCHANGED <<repo, query, paint, work>>

\* On a new walker, where no commit has a mark.
AskBases ==
    /\ pc = "ask" /\ query.kind # "graph"
    /\ left \notin Others
    /\ \/ /\ ({left} \cup Others) \cap repo.missing # {}
          /\ Fail /\ UNCHANGED <<paint, one, twos>>
       \/ /\ ({left} \cup Others) \cap repo.missing = {}
          /\ StartPaint(NoFlags, left, Others)
    /\ UNCHANGED <<repo, query, left, k, cands, tried, redundant, pending>>

\* The marks that a commit passes on, and the parents that do not have them.
Common(c)  == flags[c] \cap {"parent1", "parent2", "stale"} = Both
Passed(c)  == (flags[c] \cap {"parent1", "parent2", "stale"})
                 \cup (IF Common(c) THEN {"stale"} ELSE {})

Lacking_Unmarked(c) == {p \in Parents(c) : flags[p] = {}}   \* mutant: any mark will do

Lacking(c) == {p \in Parents(c) : ~ (Passed(c) \subseteq flags[p])}

PassOn_Keep(c) ==                         \* mutant: the commit stays in the heap
    /\ flags' = [d \in Commits |->
                    flags[d] \cup (IF d \in Lacking(c) THEN Passed(c) ELSE {})
                             \cup (IF d = c /\ Common(c) THEN {"result"} ELSE {})]
    /\ queue' = [d \in Commits |-> IF d \in Lacking(c) THEN queue[d] + 1 ELSE queue[d]]

PassOn(c) ==
    /\ flags' = [d \in Commits |->
                    flags[d] \cup (IF d \in Lacking(c) THEN Passed(c) ELSE {})
                             \cup (IF d = c /\ Common(c) THEN {"result"} ELSE {})]
    /\ queue' = [d \in Commits |-> IF d = c THEN queue[d] - 1
                                   ELSE IF d \in Lacking(c) THEN queue[d] + 1
                                   ELSE queue[d]]

\* Mutant: one stale commit ends it.
Interesting_All == Queued # {} /\ \A c \in Queued : "stale" \notin flags[c]

Interesting == \E c \in Queued : "stale" \notin flags[c]

\* One turn of the loop of paint_down_to_common.
PaintPop(c) ==
    /\ pc = "paint" /\ Interesting
    /\ Newest(c)
    /\ \/ Lacking(c) \cap repo.missing # {} /\ Fail /\ UNCHANGED paint
       \/ /\ Lacking(c) \cap repo.missing = {}
          /\ PassOn(c)
          /\ result' = IF Common(c) THEN result \cup {c} ELSE result
          /\ UNCHANGED <<pc, roots, answer>>
    /\ UNCHANGED <<repo, query, left, k, work>>

\* Stale commits are no bases.  Several bases may still be ancestors of one
\* another, and are compared once the marks are gone.
PaintedBases ==
    /\ pc = "paint" /\ ~ Interesting /\ cands = {}
    /\ LET found == {c \in result : "stale" \notin flags[c]}
       IN  \/ /\ Cardinality(found) <= 1
              /\ Answer(found)
              /\ UNCHANGED <<cands, pending>>
           \/ /\ Cardinality(found) > 1
              /\ cands' = found
              /\ pending' = {one} \cup twos
              /\ pc' = "clear"
              /\ UNCHANGED <<left, k, answer>>
    /\ UNCHANGED <<repo, query, paint, one, twos, tried, redundant>>

\* Mutant: one parent of each commit is forgotten.
ClearMarks_OneParent ==
    /\ pc = "clear" /\ pending # {}
    /\ flags' = [c \in Commits |-> IF c \in pending THEN {} ELSE flags[c]]
    /\ pending' = {CHOOSE p \in Parents(c) : TRUE :
                       c \in {d \in pending : flags[d] # {} /\ Parents(d) # {}}}
    /\ UNCHANGED <<repo, query, left, k, pc, queue, result, roots, one, twos, cands,
                   tried, redundant, answer>>

\* clear_commit_marks_1 for every commit of its list at once.
ClearMarks ==
    /\ pc = "clear" /\ pending # {}
    /\ flags' = [c \in Commits |-> IF c \in pending THEN {} ELSE flags[c]]
    /\ pending' = UNION {Parents(c) : c \in {d \in pending : flags[d] # {}}}
    /\ UNCHANGED <<repo, query, left, k, pc, queue, result, roots, one, twos, cands, tried,
                   redundant, answer>>

Cleared ==
    /\ pc = "clear" /\ pending = {}
    /\ pc' = "candidate"
    /\ UNCHANGED <<repo, query, left, k, paint, work, answer>>

\* remove_redundant: paint from one candidate and from all the others.
Candidate(c) ==
    /\ pc = "candidate"
    /\ c \in cands \ (tried \cup redundant)
    /\ tried' = tried \cup {c}
    /\ StartPaint(flags, c, cands \ ({c} \cup redundant))
    /\ UNCHANGED <<repo, query, left, k, cands, redundant, pending>>

\* A candidate that got the mark of another is its ancestor.
PaintedCandidate ==
    /\ pc = "paint" /\ ~ Interesting /\ cands # {}
    /\ redundant' = redundant \cup {c \in {one} : "parent2" \in flags[c]}
                              \cup {c \in twos : "parent1" \in flags[c]}
    /\ pending' = {one} \cup twos
    /\ pc' = "clear"
    /\ UNCHANGED <<repo, query, left, k, paint, one, twos, cands, tried, answer>>

CandidatesEnd ==
    /\ pc = "candidate"
    /\ cands \subseteq tried \cup redundant
    /\ Answer(cands \ redundant)
    /\ cands' = {} /\ tried' = {} /\ redundant' = {}
    /\ UNCHANGED <<repo, query, paint, one, twos, pending>>

-----------------------------------------------------------------------------
(* git_graph_ahead_behind.                                                 *)

\* mark_parents: the first lines.
AskGraph ==
    /\ pc = "ask" /\ query.kind = "graph"
    /\ one' = Input(1) /\ twos' = {Input(2)}
    /\ \/ /\ Input(1) = Input(2)
          /\ flags' = [flags EXCEPT ![Input(1)] = Both \cup {"result"}]
          /\ pc' = "count"
          /\ queue' = [NoQueue EXCEPT ![Input(1)] = 2]
          /\ UNCHANGED <<result, roots, answer>>
       \/ /\ Input(1) # Input(2)
          /\ {Input(1), Input(2)} \cap repo.missing # {}
          /\ Fail /\ UNCHANGED paint
       \/ /\ Input(1) # Input(2)
          /\ {Input(1), Input(2)} \cap repo.missing = {}
          /\ flags' = [flags EXCEPT ![Input(1)] = {"parent1"}, ![Input(2)] = {"parent2"}]
          /\ queue' = Times({Input(1), Input(2)})
          /\ pc' = "mark"
          /\ UNCHANGED <<result, roots, answer>>
    /\ UNCHANGED <<repo, query, left, k, cands, tried, redundant, pending>>

\* The loop goes on while a root that it met is not stale, so that the marks get
\* to the end of the path.
MarkOn == Queued # {} /\ (Interesting \/ \E c \in roots : "stale" \notin flags[c])

\* One turn of the loop of mark_parents.
MarkPop(c) ==
    /\ pc = "mark" /\ MarkOn
    /\ Newest(c)
    /\ \/ Lacking(c) \cap repo.missing # {} /\ Fail /\ UNCHANGED paint
       \/ /\ Lacking(c) \cap repo.missing = {}
          /\ PassOn(c)
          /\ roots' = IF Parents(c) = {} THEN roots \cup {c} ELSE roots
          /\ UNCHANGED <<pc, result, answer>>
    /\ UNCHANGED <<repo, query, left, k, work>>

\* ahead_behind starts with the same two commits and an empty heap.
Marked ==
    /\ pc = "mark" /\ ~ MarkOn
    /\ queue' = Times({one} \cup twos)
    /\ pc' = "count"
    /\ UNCHANGED <<repo, query, left, k, flags, result, roots, work, answer>>

\* A commit that has been counted has the mark of a result; neither it nor a common
\* one is counted or leads further.
Skip_Result(c)  == "result" \in flags[c]     \* mutant: only what was popped as common
Skip_Parent2(c) == {"result", "parent2"} \cap flags[c] # {}   \* mutant: half of the mask

Skip(c) == "result" \in flags[c] \/ Both \subseteq flags[c]

\* One turn of the loop of ahead_behind.
CountPop(c) ==
    /\ pc = "count"
    /\ Newest(c)
    /\ ahead'  = IF ~ Skip(c) /\ "parent1" \in flags[c] THEN ahead + 1 ELSE ahead
    /\ behind' = IF ~ Skip(c) /\ "parent1" \notin flags[c] /\ "parent2" \in flags[c]
                 THEN behind + 1 ELSE behind
    /\ flags'  = [flags EXCEPT ![c] = IF Skip(c) THEN @ ELSE @ \cup {"result"}]
    /\ queue'  = [d \in Commits |-> IF d = c THEN queue[d] - 1
                                    ELSE IF ~ Skip(c) /\ d \in Parents(c) THEN queue[d] + 1
                                    ELSE queue[d]]
    /\ UNCHANGED <<repo, query, left, k, pc, result, roots, work, status, bases, yes>>

CountEnd ==
    /\ pc = "count" /\ Queued = {}
    /\ status' = "ok"
    /\ pc' = "done"
    /\ UNCHANGED <<repo, query, left, k, paint, work, bases, yes, ahead, behind>>

-----------------------------------------------------------------------------
Init ==
    /\ repo \in Repositories
    /\ query \in Queries
    /\ pc = "ask"
    /\ flags = NoFlags /\ queue = NoQueue
    /\ result = {} /\ roots = {}
    /\ left = Input(1) /\ k = 2
    /\ one = left /\ twos = {}
    /\ cands = {} /\ tried = {} /\ redundant = {} /\ pending = {}
    /\ status = "none" /\ bases = {} /\ yes = FALSE
    /\ ahead = 0 /\ behind = 0

Next == \/ AskSelf \/ AskRepeated \/ AskBases \/ AskGraph
        \/ \E c \in Commits : PaintPop(c)
        \/ PaintedBases
        \/ ClearMarks \/ Cleared
        \/ \E c \in Commits : Candidate(c)
        \/ PaintedCandidate \/ CandidatesEnd
        \/ \E c \in Commits : MarkPop(c)
        \/ Marked
        \/ \E c \in Commits : CountPop(c)
        \/ CountEnd

Spec == Init /\ [][Next]_vars /\ WF_vars(Next)

-----------------------------------------------------------------------------
(* What the answers mean.                                                  *)

\* S and all that it descends from: the least set with S that is closed under parents.
Ancestors(S) ==
    LET closed == {T \in SUBSET Commits : S \subseteq T /\ \A c \in T : Parents(c) \subseteq T}
    IN  {c \in Commits : \A T \in closed : c \in T}

\* The commits of S that no other commit of S descends from.
Tops(S) == {c \in S : \A d \in S \ {c} : c \notin Ancestors({d})}

Given  == {Input(n) : n \in 2 .. Len(query.inputs)}
Shared == Ancestors({Input(1)}) \cap Ancestors(Given)

\* git_merge_bases(_many) answers with the best common ancestors, all of them and
\* nothing else, whatever the dates of the commits are: the early end of the painting
\* loses none, and remove_redundant removes what painting did not find stale.
BasesExact ==
    pc = "done" /\ query.kind = "bases" /\ status # "error" => bases = Tops(Shared)

\* git_graph_descendant_of says yes to the proper ancestors and to nothing else.
DescendantExact ==
    pc = "done" /\ query.kind = "descendant" /\ status = "ok"
        => (yes <=> Input(1) # Input(2) /\ Input(2) \in Ancestors({Input(1)}))

\* The octopus merge base is a common ancestor of all inputs (the newest base of two of
\* them need not be the one that the third shares, so none may be found).
OctopusShared ==
    pc = "done" /\ query.kind = "octopus" /\ status = "ok"
        => \A n \in DOMAIN query.inputs : bases \subseteq Ancestors({Input(n)})

OnlyIn(m, n) == Ancestors({Input(m)}) \ Ancestors({Input(n)})
ParentsOlder == \A c \in Commits : \A p \in Parents(c) : repo.time[p] < repo.time[c]
Counted == pc = "done" /\ query.kind = "graph" /\ status = "ok"

\* git_graph_ahead_behind counts the commits that one of the two has and the other has
\* not, when every commit is newer than its parents.
CountsExact ==
    Counted /\ ParentsOlder => /\ ahead = Cardinality(OnlyIn(1, 2))
                               /\ behind = Cardinality(OnlyIn(2, 1))

\* With other dates the painting may end before every common commit has both marks;
\* it never misses a commit that counts.
NoneMissed == Counted => /\ ahead >= Cardinality(OnlyIn(1, 2))
                         /\ behind >= Cardinality(OnlyIn(2, 1))

\* clear_commit_marks stops at a commit without marks: nothing marked is behind it, and
\* each comparison of remove_redundant begins without marks.
CleanSlate == pc = "candidate" => flags = NoFlags

\* A query is answered.
QueryAnswered == <>(pc = "done")
=============================================================================
