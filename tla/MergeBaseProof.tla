--------------------------- MODULE MergeBaseProof ---------------------------
(***************************************************************************)
(* Theorems about MergeBase, for every history, with any dates, and every  *)
(* query: merge bases are exact, "descendant of" is the graph's, an        *)
(* octopus base is shared by all, clear_commit_marks leaves no mark, and   *)
(* ahead and behind are never counted too low, and are exact where every   *)
(* commit is newer than its parents.                                       *)
(*                                                                         *)
(* The painting: a mark is only on ancestors of what it started from, a    *)
(* stale commit is below a common one, and a commit that is not queued has *)
(* passed its marks on.  When only stale commits are queued, what is       *)
(* marked together with what lies below a common commit is closed under    *)
(* parents, so it is every ancestor; hence no common ancestor is unmarked  *)
(* unless it lies below another one.                                       *)
(***************************************************************************)
EXTENDS MergeBase, FiniteSetTheorems, WellFoundedInduction, TLAPS

-----------------------------------------------------------------------------
(* Ancestors, in a history r.                                              *)

Closed(r, T) == \A c \in T : r.parents[c] \subseteq T

Below(r, S) == {c \in Commits : \A T \in SUBSET Commits : S \subseteq T /\ Closed(r, T) => c \in T}

TopsOf(r, S) == {c \in S : \A d \in S \ {c} : c \notin Below(r, {d})}

LEMMA AncestorsBelow == ASSUME NEW S PROVE Ancestors(S) = Below(repo, S)
  BY DEF Ancestors, Below, Closed, Parents

LEMMA RepoFacts ==
    ASSUME NEW r \in Repositories
    PROVE  /\ \A c \in Commits : r.parents[c] \subseteq Commits
           /\ \A c \in Commits : \A p \in r.parents[c] : Rank[c] < Rank[p] /\ p # c
           /\ \A c \in Commits : Rank[c] \in Nat
<1>1. r \in Repository /\ \A c \in Commits : \A p \in r.parents[c] : Rank[c] < Rank[p]
  BY MergeBaseAssumption
<1>2. \A c \in Commits : r.parents[c] \in SUBSET Commits
  BY <1>1 DEF Repository
<1>3. \A c \in Commits : Rank[c] \in Nat
  BY MergeBaseAssumption
<1> QED  BY <1>1, <1>2, <1>3

\* Ancestors contain what they start from, and the parents of each of them.
LEMMA BelowHolds ==
    ASSUME NEW r \in Repositories, NEW S \in SUBSET Commits
    PROVE  Below(r, S) \in SUBSET Commits /\ S \subseteq Below(r, S) /\ Closed(r, Below(r, S))
<1>1. S \subseteq Below(r, S)
  BY DEF Below
<1>2. ASSUME NEW c \in Below(r, S), NEW p \in r.parents[c]
      PROVE  p \in Below(r, S)
  <2>1. p \in Commits
    BY <1>2, RepoFacts DEF Below
  <2>2. ASSUME NEW T \in SUBSET Commits, S \subseteq T, Closed(r, T)
        PROVE  p \in T
    BY <1>2, <2>2 DEF Below, Closed
  <2> QED  BY <2>1, <2>2 DEF Below
<1> QED  BY <1>1, <1>2 DEF Below, Closed

\* Nothing smaller does.
LEMMA BelowLeast ==
    ASSUME NEW r \in Repositories, NEW S, NEW T \in SUBSET Commits, S \subseteq T, Closed(r, T)
    PROVE  Below(r, S) \subseteq T
  BY DEF Below

LEMMA BelowTransitive ==
    ASSUME NEW r \in Repositories, NEW S \in SUBSET Commits, NEW c \in Below(r, S)
    PROVE  Below(r, {c}) \subseteq Below(r, S)
<1>1. Below(r, S) \in SUBSET Commits /\ Closed(r, Below(r, S))
  BY BelowHolds
<1> QED  BY <1>1, BelowLeast

\* The ancestors of several commits are those of each of them.
LEMMA BelowOne ==
    ASSUME NEW r \in Repositories, NEW S \in SUBSET Commits, NEW c \in Below(r, S)
    PROVE  \E s \in S : c \in Below(r, {s})
<1> DEFINE T == {d \in Commits : \E s \in S : d \in Below(r, {s})}
<1>1. S \subseteq T
  <2> SUFFICES ASSUME NEW s \in S PROVE s \in T
    OBVIOUS
  <2>1. {s} \in SUBSET Commits
    OBVIOUS
  <2> QED  BY <2>1, BelowHolds
<1>2. Closed(r, T)
  <2> SUFFICES ASSUME NEW d \in T, NEW p \in r.parents[d] PROVE p \in T
    BY DEF Closed
  <2>1. PICK s \in S : d \in Below(r, {s})
    OBVIOUS
  <2>2. {s} \in SUBSET Commits
    OBVIOUS
  <2>3. p \in Below(r, {s}) /\ p \in Commits
    BY <2>1, <2>2, BelowHolds DEF Closed
  <2> QED  BY <2>3
<1>3. T \in SUBSET Commits
  OBVIOUS
<1> HIDE DEF T
<1>4. c \in T
  BY <1>1, <1>2, <1>3, BelowLeast
<1> QED  BY <1>4 DEF T

\* A proper ancestor is of higher rank, so no two commits are below each other.
LEMMA BelowRank ==
    ASSUME NEW r \in Repositories, NEW c \in Commits, NEW d \in Below(r, {c}), d # c
    PROVE  d \in Commits /\ Rank[c] < Rank[d]
<1> DEFINE T == {e \in Commits : e = c \/ Rank[c] < Rank[e]}
<1>1. Closed(r, T)
  <2> SUFFICES ASSUME NEW e \in T, NEW p \in r.parents[e] PROVE p \in T
    BY DEF Closed
  <2> QED  BY RepoFacts
<1>2. d \in T
  BY <1>1, BelowLeast
<1> QED  BY <1>2

LEMMA SelfBelow ==
    ASSUME NEW r \in Repositories, NEW c \in Commits
    PROVE  c \in Below(r, {c}) /\ Below(r, {c}) \subseteq Commits
<1>1. {c} \in SUBSET Commits
  OBVIOUS
<1> QED  BY <1>1, BelowHolds

LEMMA Lowest ==
    ASSUME NEW S \in SUBSET Commits, S # {}
    PROVE  \E m \in S : \A d \in S : Rank[m] <= Rank[d]
<1> DEFINE N == {Rank[d] : d \in S}
<1>0. \A d \in Commits : Rank[d] \in Nat
  BY MergeBaseAssumption
<1>1. N \in SUBSET Nat /\ N # {}
  BY <1>0
<1>2. PICK n \in N : \A m \in N : ~ (<<m, n>> \in OpToRel(<, Nat))
  BY <1>1, NatLessThanWellFounded, WFMin, Zenon
<1>3. PICK m \in S : n = Rank[m]
  OBVIOUS
<1>4. ASSUME NEW d \in S PROVE Rank[m] <= Rank[d]
  <2>1. Rank[d] \in N /\ Rank[d] \in Nat /\ Rank[m] \in Nat
    BY <1>0
  <2>2. <<Rank[d], Rank[m]>> \notin OpToRel(<, Nat)
    BY <1>2, <1>3, <2>1
  <2>3. ~ (Rank[d] < Rank[m])
    BY <2>1, <2>2 DEF OpToRel
  <2> QED  BY <2>1, <2>3
<1> QED  BY <1>4

\* Above every commit of a set is a top of the set.
LEMMA TopAbove ==
    ASSUME NEW r \in Repositories, NEW S \in SUBSET Commits, NEW c \in S
    PROVE  \E t \in TopsOf(r, S) : c \in Below(r, {t})
<1> DEFINE U == {t \in S : c \in Below(r, {t})}
<1>1. c \in U
  BY SelfBelow
<1>2. PICK t \in U : \A d \in U : Rank[t] <= Rank[d]
  BY <1>1, Lowest
<1>3. ASSUME NEW d \in S \ {t} PROVE t \notin Below(r, {d})
  <2> SUFFICES ASSUME t \in Below(r, {d}) PROVE FALSE
    OBVIOUS
  <2>1. Rank[d] < Rank[t]
    BY BelowRank
  <2>2. c \in Below(r, {d})
    <3>1. {d} \in SUBSET Commits
      OBVIOUS
    <3> QED  BY <3>1, BelowTransitive
  <2>3. Rank[t] <= Rank[d]
    BY <1>2, <2>2
  <2> QED  BY <2>1, <2>3, RepoFacts
<1> QED  BY <1>3 DEF TopsOf

\* The top of a commit's ancestors is the commit.
LEMMA TopsBelow ==
    ASSUME NEW r \in Repositories, NEW c \in Commits
    PROVE  TopsOf(r, Below(r, {c})) = {c}
<1>1. c \in TopsOf(r, Below(r, {c}))
  <2> SUFFICES ASSUME NEW d \in Below(r, {c}) \ {c}, c \in Below(r, {d}) PROVE FALSE
    BY SelfBelow DEF TopsOf
  <2>1. d \in Commits /\ Rank[c] < Rank[d]
    BY BelowRank
  <2>2. Rank[d] < Rank[c]
    BY <2>1, BelowRank
  <2> QED  BY <2>1, <2>2, RepoFacts
<1>2. ASSUME NEW d \in TopsOf(r, Below(r, {c})) PROVE d = c
  BY SelfBelow DEF TopsOf
<1> QED  BY <1>1, <1>2

\* A set between the tops of S and S has the same tops.
LEMMA TopsBetween ==
    ASSUME NEW r \in Repositories, NEW S \in SUBSET Commits, NEW U \in SUBSET S,
           TopsOf(r, S) \subseteq U
    PROVE  TopsOf(r, U) = TopsOf(r, S)
<1>1. TopsOf(r, S) \subseteq TopsOf(r, U)
  BY DEF TopsOf
<1>2. ASSUME NEW c \in TopsOf(r, U), NEW d \in S \ {c}, c \in Below(r, {d})
      PROVE  FALSE
  <2>1. PICK t \in TopsOf(r, S) : d \in Below(r, {t})
    BY TopAbove
  <2>2. t \in U /\ t \in Commits /\ d \in Commits /\ c \in Commits
    BY <2>1 DEF TopsOf
  <2>3. c \in Below(r, {t})
    <3>1. {t} \in SUBSET Commits
      BY <2>2
    <3> QED  BY <1>2, <2>1, <3>1, BelowTransitive
  <2>4. Rank[d] < Rank[c]
    BY <1>2, <2>2, BelowRank
  <2>5. t = d \/ Rank[t] < Rank[d]
    BY <2>1, <2>2, BelowRank
  <2>6. t # c
    BY <2>2, <2>4, <2>5, RepoFacts
  <2> QED  BY <2>2, <2>3, <2>6 DEF TopsOf
<1>3. TopsOf(r, U) \subseteq TopsOf(r, S)
  BY <1>2 DEF TopsOf
<1> QED  BY <1>1, <1>3

-----------------------------------------------------------------------------
(* Every variable has its type.                                            *)

TypeInv ==
    /\ TypeOK
    /\ repo \in Repositories /\ query \in Queries
    /\ pc # "done" => k \in 2 .. Len(query.inputs)

LEMMA InputTyped ==
    ASSUME TypeInv
    PROVE  /\ Len(query.inputs) \in Nat /\ Len(query.inputs) >= 2
           /\ \A n \in 1 .. Len(query.inputs) : Input(n) \in Commits
           /\ query.kind \in {"descendant", "graph"} => Len(query.inputs) = 2
           /\ query.kind # "octopus" => Others = Given
           /\ Given \in SUBSET Commits
           /\ pc # "done" => Others \in SUBSET Commits
<1>1. query \in Query /\ Len(query.inputs) >= 2
      /\ (query.kind \in {"descendant", "graph"} => Len(query.inputs) = 2)
  BY MergeBaseAssumption DEF TypeInv
<1>2. query.inputs \in Seq(Commits)
  BY <1>1 DEF Query
<1>3. Len(query.inputs) \in Nat /\ \A n \in 1 .. Len(query.inputs) : Input(n) \in Commits
  BY <1>2 DEF Input
<1>4. query.kind # "octopus" => Others = Given
  BY DEF Others, Given
<1>5. Given \in SUBSET Commits
  BY <1>1, <1>3 DEF Given
<1>6. pc # "done" => Others \in SUBSET Commits
  BY <1>1, <1>3 DEF Others, TypeInv
<1> QED  BY <1>1, <1>3, <1>4, <1>5, <1>6

LEMMA ParentsTyped == ASSUME TypeInv PROVE \A c \in Commits : Parents(c) \in SUBSET Commits
  BY RepoFacts DEF TypeInv, Parents

LEMMA InitTyped == Init => TypeInv
<1> SUFFICES ASSUME Init PROVE TypeInv
  OBVIOUS
<1>1. repo \in Repository /\ repo \in Repositories /\ query \in Query /\ query \in Queries
      /\ Len(query.inputs) >= 2
  BY MergeBaseAssumption DEF Init
<1>2. query.inputs \in Seq(Commits)
  BY <1>1 DEF Query
<1>3. left \in Commits /\ k \in Nat \ {0} /\ one \in Commits
  BY <1>1, <1>2 DEF Init, Input
<1>4. flags \in [Commits -> SUBSET Flags] /\ queue \in [Commits -> Nat]
  BY DEF Init, NoFlags, NoQueue
<1>5. /\ pc = "ask" /\ status = "none" /\ yes \in BOOLEAN /\ ahead \in Nat /\ behind \in Nat
      /\ result = {} /\ roots = {} /\ twos = {} /\ cands = {} /\ tried = {}
      /\ redundant = {} /\ pending = {} /\ bases = {}
  BY DEF Init
<1>6. k \in 2 .. Len(query.inputs)
  BY <1>1, <1>2 DEF Init
<1> QED  BY <1>1, <1>3, <1>4, <1>5, <1>6 DEF TypeInv, TypeOK

\* An answer, with the set of bases that it is made from.
LEMMA AnswerTyped ==
    ASSUME TypeInv, NEW found \in SUBSET Commits, Answer(found), pc # "done"
    PROVE  /\ left' \in Commits /\ k' \in Nat \ {0}
           /\ pc' # "done" => k' \in 2 .. Len(query.inputs)
           /\ pc' \in {"ask", "done"}
           /\ status' \in {"none", "ok", "notfound", "error"}
           /\ bases' \in SUBSET Commits /\ yes' \in BOOLEAN
           /\ UNCHANGED <<ahead, behind>>
<1>0. left \in Commits /\ k \in Nat \ {0} /\ bases \in SUBSET Commits /\ yes \in BOOLEAN
      /\ status \in {"none", "ok", "notfound", "error"}
  BY DEF TypeInv, TypeOK
<1>1. CASE AnswerBases(found)
  BY <1>0, <1>1 DEF AnswerBases
<1>2. CASE AnswerDescendant(found)
  BY <1>0, <1>2 DEF AnswerDescendant
<1>3. CASE AnswerOctopus(found)
  <2>1. Len(query.inputs) \in Nat /\ k \in 2 .. Len(query.inputs)
    BY InputTyped DEF TypeInv
  <2>2. CASE found = {} /\ status' = "notfound" /\ pc' = "done" /\ UNCHANGED <<left, k, bases, yes, ahead, behind>>
    BY <1>0, <2>2
  <2>3. CASE \E b \in found : left' = b /\ k' = k + 1
             /\ \/ k = Len(query.inputs) /\ bases' = {b} /\ status' = "ok" /\ pc' = "done"
                \/ k < Len(query.inputs) /\ pc' = "ask" /\ UNCHANGED <<bases, status>>
             /\ UNCHANGED <<yes, ahead, behind>>
    BY <1>0, <2>1, <2>3
  <2> QED  BY <1>3, <2>2, <2>3 DEF AnswerOctopus
<1> QED  BY <1>1, <1>2, <1>3 DEF Answer

LEMMA StartTyped ==
    ASSUME TypeInv, NEW marks \in [Commits -> SUBSET Flags], NEW c \in Commits,
           NEW S \in SUBSET Commits, StartPaint(marks, c, S)
    PROVE  /\ one' \in Commits /\ twos' \in SUBSET Commits
           /\ flags' \in [Commits -> SUBSET Flags] /\ queue' \in [Commits -> Nat]
           /\ result' \in SUBSET Commits /\ pc' = "paint" /\ UNCHANGED <<roots, answer>>
<1>1. flags' \in [Commits -> SUBSET Flags]
  BY DEF StartPaint, Flags
<1>2. queue' \in [Commits -> Nat]
  BY DEF StartPaint, Times
<1> QED  BY <1>1, <1>2 DEF StartPaint

LEMMA PassTyped ==
    ASSUME TypeInv, NEW c \in Commits, queue[c] > 0, PassOn(c)
    PROVE  flags' \in [Commits -> SUBSET Flags] /\ queue' \in [Commits -> Nat]
<1>1. flags \in [Commits -> SUBSET Flags] /\ queue \in [Commits -> Nat]
  BY DEF TypeInv, TypeOK
<1>2. Passed(c) \in SUBSET Flags
  BY DEF Passed, Flags
<1>3. flags' \in [Commits -> SUBSET Flags]
  BY <1>1, <1>2 DEF PassOn, Flags
<1>4. queue' \in [Commits -> Nat]
  BY <1>1 DEF PassOn
<1> QED  BY <1>3, <1>4

LEMMA AskTyped ==
    ASSUME TypeInv, AskSelf \/ AskRepeated \/ AskBases \/ AskGraph
    PROVE  TypeInv'
<1>1. CASE AskSelf
  BY <1>1 DEF AskSelf, TypeInv, TypeOK, paint, work
<1>2. CASE AskRepeated
  <2>1. {left} \in SUBSET Commits /\ pc # "done"
    BY <1>2 DEF TypeInv, TypeOK, AskRepeated
  <2> QED  BY <1>2, <2>1, AnswerTyped DEF AskRepeated, TypeInv, TypeOK, paint, work
<1>3. CASE AskBases
  <2>0. pc = "ask"
    BY <1>3 DEF AskBases
  <2>1. CASE Fail /\ UNCHANGED <<paint, one, twos>>
    BY <1>3, <2>1 DEF AskBases, Fail, TypeInv, TypeOK, paint, work, answer
  <2>2. CASE StartPaint(NoFlags, left, Others)
    <3>1. NoFlags \in [Commits -> SUBSET Flags] /\ left \in Commits
      BY DEF NoFlags, TypeInv, TypeOK
    <3>2. Others \in SUBSET Commits
      BY <2>0, InputTyped
    <3>3. /\ one' \in Commits /\ twos' \in SUBSET Commits
          /\ flags' \in [Commits -> SUBSET Flags] /\ queue' \in [Commits -> Nat]
          /\ result' \in SUBSET Commits /\ pc' = "paint" /\ UNCHANGED <<roots, answer>>
      BY <2>2, <3>1, <3>2, StartTyped
    <3> QED  BY <1>3, <2>0, <3>3 DEF AskBases, TypeInv, TypeOK, answer
  <2> QED  BY <1>3, <2>1, <2>2 DEF AskBases
<1>4. CASE AskGraph
  <2>1. Len(query.inputs) = 2 /\ Input(1) \in Commits /\ Input(2) \in Commits /\ pc = "ask"
    BY <1>4, InputTyped DEF AskGraph
  <2>2. flags \in [Commits -> SUBSET Flags] /\ queue \in [Commits -> Nat]
    BY DEF TypeInv, TypeOK
  <2>3. one' \in Commits /\ twos' \in SUBSET Commits
    BY <1>4, <2>1 DEF AskGraph
  <2>4. pc' \in {"count", "done", "mark"} /\ UNCHANGED <<result, roots, bases, yes, ahead, behind>>
        /\ status' \in {"none", "ok", "notfound", "error"}
    BY <1>4 DEF AskGraph, Fail, paint, answer, TypeInv, TypeOK
  <2>5. flags' \in [Commits -> SUBSET Flags]
    BY <1>4, <2>1, <2>2 DEF AskGraph, Flags, Both, paint
  <2>6. queue' \in [Commits -> Nat]
    BY <1>4, <2>1, <2>2 DEF AskGraph, NoQueue, Times, paint
  <2>7. UNCHANGED <<repo, query, left, k, cands, tried, redundant, pending>>
    BY <1>4 DEF AskGraph
  <2> QED  BY <2>1, <2>3, <2>4, <2>5, <2>6, <2>7 DEF TypeInv, TypeOK
<1> QED  BY <1>1, <1>2, <1>3, <1>4

LEMMA PopTyped ==
    ASSUME TypeInv, NEW c \in Commits, PaintPop(c) \/ MarkPop(c) \/ CountPop(c)
    PROVE  TypeInv'
<1>0. queue[c] > 0
  BY DEF PaintPop, MarkPop, CountPop, Newest, Queued
<1>1. CASE (PaintPop(c) \/ MarkPop(c)) /\ Fail /\ UNCHANGED paint
  BY <1>1 DEF PaintPop, MarkPop, Fail, TypeInv, TypeOK, paint, work
<1>2. CASE (PaintPop(c) \/ MarkPop(c)) /\ PassOn(c)
  <2>1. flags' \in [Commits -> SUBSET Flags] /\ queue' \in [Commits -> Nat]
    BY <1>0, <1>2, PassTyped
  <2>2. CASE PaintPop(c)
    BY <2>1, <2>2 DEF PaintPop, Fail, TypeInv, TypeOK, paint, work, answer
  <2>3. CASE MarkPop(c)
    BY <2>1, <2>3 DEF MarkPop, Fail, TypeInv, TypeOK, paint, work, answer
  <2> QED  BY <1>2, <2>2, <2>3
<1>3. CASE CountPop(c)
  <2>1. flags \in [Commits -> SUBSET Flags] /\ queue \in [Commits -> Nat] /\ ahead \in Nat /\ behind \in Nat
    BY DEF TypeInv, TypeOK
  <2>2. flags' \in [Commits -> SUBSET Flags]
    BY <1>3, <2>1 DEF CountPop, Flags
  <2>3. queue' \in [Commits -> Nat]
    BY <1>0, <1>3, <2>1 DEF CountPop
  <2>4. ahead' \in Nat /\ behind' \in Nat
    BY <1>3, <2>1 DEF CountPop
  <2>5. UNCHANGED <<repo, query, left, k, pc, result, roots, work, status, bases, yes>>
    BY <1>3 DEF CountPop
  <2> QED  BY <2>2, <2>3, <2>4, <2>5 DEF TypeInv, TypeOK, work
<1> QED  BY <1>1, <1>2, <1>3 DEF PaintPop, MarkPop

LEMMA EndTyped ==
    ASSUME TypeInv, PaintedBases \/ PaintedCandidate \/ CandidatesEnd \/ Marked \/ CountEnd
    PROVE  TypeInv'
<1>1. CASE PaintedBases
  <2> DEFINE found == {c \in result : "stale" \notin flags[c]}
  <2>1. found \in SUBSET Commits
    BY DEF TypeInv, TypeOK
  <2> HIDE DEF found
  <2>2. pc = "paint" /\ UNCHANGED <<repo, query, paint, one, twos, tried, redundant>>
    BY <1>1 DEF PaintedBases
  <2>3. CASE Answer(found) /\ UNCHANGED <<cands, pending>>
    BY <2>1, <2>2, <2>3, AnswerTyped DEF TypeInv, TypeOK, paint
  <2>4. CASE cands' = found /\ pending' = {one} \cup twos /\ pc' = "clear" /\ UNCHANGED <<left, k, answer>>
    BY <2>1, <2>2, <2>4 DEF TypeInv, TypeOK, paint, answer
  <2> QED  BY <1>1, <2>3, <2>4 DEF PaintedBases, found
<1>2. CASE PaintedCandidate
  BY <1>2 DEF PaintedCandidate, TypeInv, TypeOK, paint, answer
<1>3. CASE CandidatesEnd
  <2>1. cands \ redundant \in SUBSET Commits
    BY DEF TypeInv, TypeOK
  <2>2. pc = "candidate" /\ Answer(cands \ redundant) /\ cands' = {} /\ tried' = {} /\ redundant' = {}
        /\ UNCHANGED <<repo, query, paint, one, twos, pending>>
    BY <1>3 DEF CandidatesEnd
  <2> QED  BY <2>1, <2>2, AnswerTyped DEF TypeInv, TypeOK, paint
<1>4. CASE Marked
  <2>1. queue' \in [Commits -> Nat]
    BY <1>4 DEF Marked, Times
  <2> QED  BY <1>4, <2>1 DEF Marked, TypeInv, TypeOK, work, answer
<1>5. CASE CountEnd
  BY <1>5 DEF CountEnd, TypeInv, TypeOK, paint, work
<1> QED  BY <1>1, <1>2, <1>3, <1>4, <1>5

LEMMA ClearTyped ==
    ASSUME TypeInv, ClearMarks \/ Cleared \/ \E c \in Commits : Candidate(c)
    PROVE  TypeInv'
<1>1. CASE ClearMarks
  <2>1. flags' \in [Commits -> SUBSET Flags]
    BY <1>1 DEF ClearMarks, TypeInv, TypeOK
  <2>2. pending' \in SUBSET Commits
    BY <1>1, ParentsTyped DEF ClearMarks, TypeInv, TypeOK
  <2> QED  BY <1>1, <2>1, <2>2 DEF ClearMarks, TypeInv, TypeOK, answer
<1>2. CASE Cleared
  BY <1>2 DEF Cleared, TypeInv, TypeOK, paint, work, answer
<1>3. ASSUME NEW c \in Commits, Candidate(c)
      PROVE  TypeInv'
  <2>1. flags \in [Commits -> SUBSET Flags] /\ cands \ ({c} \cup redundant) \in SUBSET Commits
    BY DEF TypeInv, TypeOK
  <2>2. /\ one' \in Commits /\ twos' \in SUBSET Commits
        /\ flags' \in [Commits -> SUBSET Flags] /\ queue' \in [Commits -> Nat]
        /\ result' \in SUBSET Commits /\ pc' = "paint" /\ UNCHANGED <<roots, answer>>
    BY <1>3, <2>1, StartTyped DEF Candidate
  <2> QED  BY <1>3, <2>2 DEF Candidate, TypeInv, TypeOK, answer
<1> QED  BY <1>1, <1>2, <1>3

LEMMA NextTyped == TypeInv /\ [Next]_vars => TypeInv'
<1>1. ASSUME TypeInv, UNCHANGED vars PROVE TypeInv'
  BY <1>1 DEF TypeInv, TypeOK, vars, paint, work, answer
<1> QED  BY <1>1, AskTyped, PopTyped, EndTyped, ClearTyped DEF Next

\* Every variable keeps its type; no query runs past its inputs or pops an empty heap.
THEOREM TypeCorrect == Spec => []TypeOK
<1>1. TypeInv => TypeOK
  BY DEF TypeInv
<1> QED  BY InitTyped, NextTyped, <1>1, PTL DEF Spec

-----------------------------------------------------------------------------
(* The painting.                                                           *)

FromOne  == Below(repo, {one})
FromTwos == Below(repo, twos)

\* What lies below a common ancestor, and is no base for that reason.
Low == {d \in Commits : \E c \in FromOne \cap FromTwos : c # d /\ d \in Below(repo, {c})}

\* Marks are true, and a commit has got them from somewhere.
MarksTrue(c) ==
    /\ "parent1" \in flags[c] => c \in FromOne
    /\ "parent2" \in flags[c] => c \in FromTwos
    /\ "stale" \in flags[c] => c \in Low /\ Both \subseteq flags[c]
    /\ c \in result => Both \subseteq flags[c]
    /\ flags[c] # {} => c \in {one} \cup twos \/ \E d \in Commits : c \in Parents(d) /\ flags[d] # {}

\* A commit that is not queued has been seen with the marks it has.
MarksPassed(c) ==
    queue[c] = 0 => /\ \A p \in Parents(c) : Passed(c) \subseteq flags[p]
                    /\ Common(c) => c \in result

Painted ==
    /\ one \notin twos
    /\ "parent1" \in flags[one]
    /\ \A c \in twos : "parent2" \in flags[c]
    /\ \A c \in Commits : MarksTrue(c) /\ MarksPassed(c)

LEMMA FromFacts ==
    ASSUME TypeInv
    PROVE  /\ FromOne \in SUBSET Commits /\ one \in FromOne /\ Closed(repo, FromOne)
           /\ FromTwos \in SUBSET Commits /\ twos \subseteq FromTwos /\ Closed(repo, FromTwos)
<1>1. repo \in Repositories /\ {one} \in SUBSET Commits /\ twos \in SUBSET Commits
  BY DEF TypeInv, TypeOK
<1> QED  BY <1>1, BelowHolds DEF FromOne, FromTwos

LEMMA LowFacts ==
    ASSUME TypeInv
    PROVE  /\ Low \subseteq FromOne \cap FromTwos
           /\ Closed(repo, Low)
           /\ \A c \in FromOne \cap FromTwos : Parents(c) \subseteq Low
           /\ TopsOf(repo, FromOne \cap FromTwos) = (FromOne \cap FromTwos) \ Low
<1>0. repo \in Repositories /\ {one} \in SUBSET Commits /\ twos \in SUBSET Commits
      /\ FromOne \in SUBSET Commits /\ FromTwos \in SUBSET Commits
  BY FromFacts DEF TypeInv, TypeOK
<1>1. ASSUME NEW c \in FromOne \cap FromTwos
      PROVE  Below(repo, {c}) \subseteq FromOne \cap FromTwos
  BY <1>0, BelowTransitive DEF FromOne, FromTwos
<1>2. Low \subseteq FromOne \cap FromTwos
  BY <1>1 DEF Low
<1>3. ASSUME NEW d \in Low, NEW p \in repo.parents[d]
      PROVE  p \in Low
  <2>1. PICK c \in FromOne \cap FromTwos : c # d /\ d \in Below(repo, {c})
    BY DEF Low
  <2>2. c \in Commits /\ {c} \in SUBSET Commits
    BY <1>0
  <2>3. p \in Below(repo, {c}) /\ d \in Commits /\ p \in Commits
    BY <1>0, <1>3, <2>1, <2>2, BelowHolds, SelfBelow DEF Closed
  <2>4. Rank[c] < Rank[d] /\ Rank[d] < Rank[p]
    BY <1>0, <1>3, <2>1, <2>2, <2>3, BelowRank, RepoFacts
  <2>5. p # c
    BY <1>0, <2>2, <2>3, <2>4, RepoFacts
  <2> QED  BY <2>1, <2>3, <2>5 DEF Low
<1>4. ASSUME NEW c \in FromOne \cap FromTwos, NEW p \in Parents(c)
      PROVE  p \in Low
  <2>1. c \in Commits /\ {c} \in SUBSET Commits
    BY <1>0
  <2>2. p \in Commits /\ p # c
    BY <1>0, <2>1, RepoFacts DEF Parents
  <2>3. p \in Below(repo, {c})
    BY <1>0, <2>1, BelowHolds, SelfBelow DEF Closed, Parents
  <2> QED  BY <2>2, <2>3 DEF Low
<1>5. TopsOf(repo, FromOne \cap FromTwos) = (FromOne \cap FromTwos) \ Low
  BY <1>0 DEF TopsOf, Low
<1> QED  BY <1>2, <1>3, <1>4, <1>5 DEF Closed

\* The first marks.
LEMMA StartPainted ==
    ASSUME TypeInv, NEW c \in Commits, NEW S \in SUBSET Commits, c \notin S,
           StartPaint(NoFlags, c, S), UNCHANGED repo
    PROVE  Painted'
<1>0. repo \in Repositories /\ {c} \in SUBSET Commits
  BY DEF TypeInv
<1>1. one' = c /\ twos' = S /\ result' = {}
  BY DEF StartPaint
<1>2. \A d \in Commits : flags'[d] = (IF d = c THEN {"parent1"} ELSE {})
                                     \cup (IF d \in S THEN {"parent2"} ELSE {})
  BY DEF StartPaint, NoFlags
<1>3. \A d \in Commits : queue'[d] = IF d \in {c} \cup S THEN 1 ELSE 0
  BY DEF StartPaint, Times
<1>4. c \in FromOne' /\ S \subseteq FromTwos'
  BY <1>0, <1>1, BelowHolds DEF FromOne, FromTwos
<1>5. ASSUME NEW d \in Commits PROVE MarksTrue(d)'
  BY <1>1, <1>2, <1>4 DEF MarksTrue, Both
<1>6. ASSUME NEW d \in Commits, queue'[d] = 0
      PROVE  (\A p \in Parents(d)' : Passed(d)' \subseteq flags'[p]) /\ ~ Common(d)'
  <2>1. flags'[d] = {}
    BY <1>2, <1>3, <1>6
  <2> QED  BY <2>1 DEF Passed, Common, Both
<1>7. \A d \in Commits : MarksPassed(d)'
  BY <1>6 DEF MarksPassed
<1>8. "parent1" \in flags'[c] /\ \A d \in S : "parent2" \in flags'[d]
  BY <1>2
<1> QED  BY <1>1, <1>5, <1>7, <1>8 DEF Painted

\* One turn of the loop.
LEMMA PopPainted ==
    ASSUME TypeInv, Painted, NEW c \in Commits, PassOn(c),
           result' = IF Common(c) THEN result \cup {c} ELSE result,
           UNCHANGED <<repo, one, twos>>
    PROVE  Painted'
<1>0. flags \in [Commits -> SUBSET Flags] /\ queue \in [Commits -> Nat] /\ repo \in Repositories
      /\ result \in SUBSET Commits
  BY DEF TypeInv, TypeOK
<1>1. \A d \in Commits : flags'[d] = (flags[d] \cup (IF d \in Lacking(c) THEN Passed(c) ELSE {}))
                             \cup (IF d = c /\ Common(c) THEN {"result"} ELSE {})
  BY DEF PassOn
<1>2. \A d \in Commits : d # c => queue'[d] = IF d \in Lacking(c) THEN queue[d] + 1 ELSE queue[d]
  BY DEF PassOn
<1>3. Lacking(c) \subseteq Parents(c) /\ Parents(c) \subseteq Commits /\ c \notin Parents(c)
  BY <1>0, RepoFacts DEF Lacking, Parents
<1>4. FromOne' = FromOne /\ FromTwos' = FromTwos /\ Low' = Low
      /\ \A d \in Commits : Parents(d)' = Parents(d)
  BY DEF FromOne, FromTwos, Low, Parents
<1>5. \A d \in Commits : flags[d] \subseteq flags'[d]
  BY <1>1
<1>6. MarksTrue(c)
  BY DEF Painted
<1>7. /\ "parent1" \in Passed(c) => Parents(c) \subseteq FromOne
      /\ "parent2" \in Passed(c) => Parents(c) \subseteq FromTwos
  <2>1. /\ "parent1" \in Passed(c) => c \in FromOne
        /\ "parent2" \in Passed(c) => c \in FromTwos
    BY <1>6 DEF Passed, MarksTrue
  <2> QED  BY <2>1, FromFacts DEF Closed, Parents
<1>8. "stale" \in Passed(c) => Parents(c) \subseteq Low /\ Both \subseteq Passed(c)
  <2>1. "stale" \in Passed(c) => "stale" \in flags[c] \/ Common(c)
    BY DEF Passed
  <2>2. CASE "stale" \in flags[c]
    <3>1. c \in Low /\ Both \subseteq flags[c]
      BY <1>6, <2>2 DEF MarksTrue
    <3> QED  BY <3>1, LowFacts DEF Closed, Parents, Passed, Both
  <2>3. CASE Common(c)
    <3>1. Both \subseteq flags[c]
      BY <2>3 DEF Common
    <3>2. c \in FromOne \cap FromTwos
      BY <1>6, <3>1 DEF MarksTrue, Both
    <3> QED  BY <3>1, <3>2, LowFacts DEF Passed, Both
  <2> QED  BY <2>1, <2>2, <2>3
<1>9. Lacking(c) # {} => flags[c] # {}
  BY DEF Lacking, Passed, Common, Both
<1>10. ASSUME NEW d \in Commits PROVE MarksTrue(d)'
  <2>1. MarksTrue(d)
    BY DEF Painted
  <2>2. "parent1" \in flags'[d] => d \in FromOne
    BY <1>1, <1>3, <1>7, <2>1 DEF MarksTrue
  <2>3. "parent2" \in flags'[d] => d \in FromTwos
    BY <1>1, <1>3, <1>7, <2>1 DEF MarksTrue
  <2>4. "stale" \in flags'[d] => d \in Low /\ Both \subseteq flags'[d]
    <3>1. CASE "stale" \in flags[d]
      BY <1>5, <2>1, <3>1 DEF MarksTrue
    <3>2. CASE d \in Lacking(c) /\ "stale" \in Passed(c)
      BY <1>1, <1>3, <1>8, <3>2
    <3> QED  BY <1>1, <3>1, <3>2
  <2>5. d \in result' => Both \subseteq flags'[d]
    BY <1>5, <2>1 DEF MarksTrue, Common
  <2>6. flags'[d] # {} => \/ d \in {one} \cup twos
                         \/ \E e \in Commits : d \in Parents(e) /\ flags'[e] # {}
    <3>1. CASE d \in Lacking(c)
      BY <1>3, <1>5, <1>9, <3>1
    <3>2. CASE d = c /\ Common(c)
      <4>1. flags[d] # {}
        BY <3>2 DEF Common, Both
      <4> QED  BY <1>5, <2>1, <4>1 DEF MarksTrue
    <3>3. CASE d \notin Lacking(c) /\ ~ (d = c /\ Common(c))
      <4>1. flags'[d] = flags[d]
        BY <1>1, <3>3
      <4> QED  BY <1>5, <2>1, <4>1 DEF MarksTrue
    <3> QED  BY <3>1, <3>2, <3>3
  <2> QED  BY <1>4, <2>2, <2>3, <2>4, <2>5, <2>6 DEF MarksTrue
<1>11. ASSUME NEW d \in Commits, d \notin Lacking(c)
       PROVE  Passed(d)' = Passed(d) /\ Common(d)' = Common(d)
  <2>1. flags'[d] \cap {"parent1", "parent2", "stale"} = flags[d] \cap {"parent1", "parent2", "stale"}
    BY <1>1, <1>11
  <2> QED  BY <2>1 DEF Passed, Common
<1>12. ASSUME NEW d \in Commits PROVE MarksPassed(d)'
  <2> SUFFICES ASSUME queue'[d] = 0
               PROVE  /\ \A p \in Parents(d) : Passed(d)' \subseteq flags'[p]
                      /\ Common(d)' => d \in result'
    BY <1>4 DEF MarksPassed
  <2>1. CASE d = c
    <3>1. Passed(d)' = Passed(c) /\ Common(d)' = Common(c)
      BY <1>3, <1>11, <2>1
    <3>2. ASSUME NEW p \in Parents(c) PROVE Passed(c) \subseteq flags'[p]
      <4>1. CASE p \in Lacking(c)
        BY <1>1, <1>3, <4>1
      <4>2. CASE p \notin Lacking(c)
        BY <1>3, <1>5, <4>2 DEF Lacking
      <4> QED  BY <4>1, <4>2
    <3> QED  BY <2>1, <3>1, <3>2
  <2>2. CASE d # c
    <3>1. d \notin Lacking(c) /\ queue[d] = 0
      BY <1>0, <1>2, <2>2
    <3>2. MarksPassed(d) /\ Parents(d) \subseteq Commits
      BY <1>0, RepoFacts DEF Painted, Parents
    <3> QED  BY <1>5, <1>11, <3>1, <3>2 DEF MarksPassed
  <2> QED  BY <2>1, <2>2
<1>13. one \notin twos /\ "parent1" \in flags'[one] /\ \A d \in twos : "parent2" \in flags'[d]
  BY <1>5 DEF Painted, TypeInv, TypeOK
<1> QED  BY <1>10, <1>12, <1>13 DEF Painted

\* The end: only what lies below a common ancestor may lack a mark.
LEMMA PaintedEnd ==
    ASSUME TypeInv, Painted, ~ Interesting
    PROVE  /\ \A c \in FromOne \ Low : "parent1" \in flags[c]
           /\ \A c \in FromTwos \ Low : "parent2" \in flags[c]
           /\ {c \in result : "stale" \notin flags[c]} \subseteq FromOne \cap FromTwos
           /\ TopsOf(repo, FromOne \cap FromTwos) \subseteq {c \in result : "stale" \notin flags[c]}
<1>0. repo \in Repositories /\ queue \in [Commits -> Nat] /\ one \in Commits /\ twos \in SUBSET Commits
      /\ result \in SUBSET Commits
  BY DEF TypeInv, TypeOK
<1>1. \A c \in Commits : "stale" \notin flags[c] => queue[c] = 0
  BY <1>0 DEF Interesting, Queued
<1>2. \A c \in Commits : c \notin Low => "stale" \notin flags[c]
  BY DEF Painted, MarksTrue
<1>3. Low \subseteq Commits /\ Closed(repo, Low)
  BY LowFacts DEF Low
<1>4. ASSUME NEW c \in Commits, c \notin Low, NEW p \in Parents(c)
      PROVE  /\ "parent1" \in flags[c] => "parent1" \in flags[p]
             /\ "parent2" \in flags[c] => "parent2" \in flags[p]
  <2>1. Passed(c) \subseteq flags[p]
    BY <1>1, <1>2, <1>4 DEF Painted, MarksPassed
  <2> QED  BY <2>1 DEF Passed
<1>5. FromOne \subseteq {c \in Commits : "parent1" \in flags[c]} \cup Low
  <2> DEFINE T == {c \in Commits : "parent1" \in flags[c]} \cup Low
  <2>1. {one} \subseteq T
    BY <1>0 DEF Painted
  <2>2. Closed(repo, T)
    BY <1>0, <1>3, <1>4, RepoFacts DEF Closed, Parents
  <2>3. T \in SUBSET Commits
    BY <1>3
  <2> HIDE DEF T
  <2>4. FromOne \subseteq T
    BY <1>0, <2>1, <2>2, <2>3, BelowLeast DEF FromOne
  <2> QED  BY <2>4 DEF T
<1>6. FromTwos \subseteq {c \in Commits : "parent2" \in flags[c]} \cup Low
  <2> DEFINE T == {c \in Commits : "parent2" \in flags[c]} \cup Low
  <2>1. twos \subseteq T
    BY <1>0 DEF Painted
  <2>2. Closed(repo, T)
    BY <1>0, <1>3, <1>4, RepoFacts DEF Closed, Parents
  <2>3. T \in SUBSET Commits
    BY <1>3
  <2> HIDE DEF T
  <2>4. FromTwos \subseteq T
    BY <1>0, <2>1, <2>2, <2>3, BelowLeast DEF FromTwos
  <2> QED  BY <2>4 DEF T
<1>7. {c \in result : "stale" \notin flags[c]} \subseteq FromOne \cap FromTwos
  BY <1>0 DEF Painted, MarksTrue, Both
<1>8. ASSUME NEW c \in (FromOne \cap FromTwos) \ Low
      PROVE  c \in result /\ "stale" \notin flags[c]
  <2>1. c \in Commits /\ "parent1" \in flags[c] /\ "parent2" \in flags[c] /\ "stale" \notin flags[c]
    BY <1>2, <1>5, <1>6, FromFacts
  <2>2. Common(c) /\ queue[c] = 0
    BY <1>1, <2>1 DEF Common, Both
  <2> QED  BY <2>1, <2>2 DEF Painted, MarksPassed
<1> QED  BY <1>5, <1>6, <1>7, <1>8, LowFacts

-----------------------------------------------------------------------------
(* From the painting to the answers.                                       *)

SharedNow == Below(repo, {left}) \cap Below(repo, Others)

\* What is asked now, and why it serves the query.
CallInv ==
    /\ pc \in {"ask", "paint", "clear", "candidate"} =>
          /\ query.kind \in {"bases", "descendant"} => left = Input(1)
          /\ query.kind = "octopus" => \A n \in 1 .. k - 1 : left \in Below(repo, {Input(n)})
    /\ pc \in {"paint", "clear", "candidate"} => left \notin Others
    /\ pc \in {"mark", "count"} => query.kind = "graph"

PaintInv == pc = "paint" => Painted

\* The commits already compared, apart from the one that is being painted from.
Compared == (tried \ redundant) \ (IF pc = "paint" THEN {one} ELSE {})

\* The candidates are common ancestors, all the best ones among them; a redundant one
\* is below another; one that was compared and stayed is below none that is left.
Narrowed ==
    /\ TopsOf(repo, SharedNow) \subseteq cands
    /\ cands \subseteq SharedNow
    /\ \A c \in redundant : \E d \in cands \ {c} : c \in Below(repo, {d})
    /\ \A c \in Compared : \A d \in cands \ ({c} \cup redundant) : c \notin Below(repo, {d})

CandInv ==
    /\ pc = "ask" \/ (pc = "paint" /\ cands = {}) => cands = {} /\ tried = {} /\ redundant = {}
    /\ pc = "paint" /\ cands = {} => one = left /\ twos = Others
    /\ pc = "paint" /\ cands # {} => /\ one \in cands \ redundant
                                     /\ twos = cands \ ({one} \cup redundant)
    /\ pc \in {"clear", "candidate"} => cands # {}
    /\ pc \in {"paint", "clear", "candidate"} /\ cands # {} => Narrowed

\* A marked commit is about to be cleared or has a marked child.
Reached(c) == c \in pending \/ \E d \in Commits : c \in Parents(d) /\ flags[d] # {}

ClearInv ==
    /\ pc = "clear" => \A c \in Commits : flags[c] # {} => Reached(c)
    /\ pc = "candidate" => flags = NoFlags

SharedAll == Below(repo, {Input(1)}) \cap Below(repo, Given)

DoneInv ==
    pc = "done" =>
        /\ query.kind = "bases" /\ status # "error" => bases = TopsOf(repo, SharedAll)
        /\ query.kind = "descendant" /\ status = "ok" =>
              (yes <=> Input(1) # Input(2) /\ Input(2) \in Below(repo, {Input(1)}))
        /\ query.kind = "octopus" /\ status = "ok" =>
              \A n \in 1 .. Len(query.inputs) : bases \subseteq Below(repo, {Input(n)})

IInv == TypeInv /\ CallInv /\ PaintInv /\ CandInv /\ ClearInv /\ DoneInv

LEMMA SharedFacts ==
    ASSUME TypeInv, pc # "done"
    PROVE  /\ SharedNow \in SUBSET Commits
           /\ repo \in Repositories /\ left \in Commits /\ Others \in SUBSET Commits
           /\ SharedNow \subseteq Below(repo, {left}) /\ SharedNow \subseteq Below(repo, Others)
<1>1. repo \in Repositories /\ left \in Commits /\ Others \in SUBSET Commits
  BY InputTyped DEF TypeInv, TypeOK
<1>2. {left} \in SUBSET Commits
  BY <1>1
<1>3. Below(repo, {left}) \in SUBSET Commits
  BY <1>1, <1>2, BelowHolds
<1> QED  BY <1>1, <1>3 DEF SharedNow

\* The only commit of a set with the tops of a set is its top.
LEMMA AtMostOne ==
    ASSUME NEW r \in Repositories, NEW S \in SUBSET Commits, NEW U \in SUBSET S,
           TopsOf(r, S) \subseteq U, Cardinality(U) <= 1
    PROVE  U = TopsOf(r, S)
<1>1. IsFiniteSet(U)
  BY MergeBaseAssumption, FS_Subset
<1>2. ASSUME NEW c \in U, NEW d \in U, c # d
      PROVE  FALSE
  <2>1. IsFiniteSet(U \ {c}) /\ Cardinality(U \ {c}) = Cardinality(U) - 1
    BY <1>1, FS_RemoveElement
  <2>2. d \in U \ {c}
    BY <1>2
  <2>3. IsFiniteSet((U \ {c}) \ {d}) /\ Cardinality((U \ {c}) \ {d}) = Cardinality(U \ {c}) - 1
    BY <2>1, <2>2, FS_RemoveElement
  <2>4. Cardinality((U \ {c}) \ {d}) \in Nat /\ Cardinality(U) \in Nat
    BY <1>1, <2>3, FS_CardinalityType
  <2> QED  BY <2>1, <2>3, <2>4
<1>3. ASSUME NEW c \in U
      PROVE  c \in TopsOf(r, S)
  <2>1. PICK t \in TopsOf(r, S) : c \in Below(r, {t})
    BY TopAbove
  <2> QED  BY <1>2, <2>1
<1> QED  BY <1>3

\* The answer of a call, and of the query when it is the last call.
LEMMA Answered ==
    ASSUME TypeInv, CallInv, pc \in {"ask", "paint", "candidate"},
           query.kind = "descendant" => left \notin Others,
           Answer(TopsOf(repo, SharedNow)), UNCHANGED <<repo, query>>
    PROVE  CallInv' /\ DoneInv' /\ pc' \in {"ask", "done"}
<1> DEFINE found == TopsOf(repo, SharedNow)
<1>0. /\ SharedNow \in SUBSET Commits
      /\ repo \in Repositories /\ left \in Commits /\ Others \in SUBSET Commits
      /\ SharedNow \subseteq Below(repo, {left}) /\ SharedNow \subseteq Below(repo, Others)
  BY SharedFacts
<1>1. found \subseteq SharedNow
  BY DEF TopsOf
<1>2. \A n \in Nat : Input(n)' = Input(n)
  BY DEF Input
<1>3. Len(query.inputs) \in Nat /\ Len(query.inputs) >= 2 /\ k \in 2 .. Len(query.inputs)
      /\ \A n \in 1 .. Len(query.inputs) : Input(n) \in Commits
  BY InputTyped DEF TypeInv
<1>4. CASE AnswerBases(found)
  <2>1. query.kind = "bases" /\ bases' = found /\ pc' = "done"
    BY <1>4 DEF AnswerBases
  <2>2. left = Input(1) /\ Others = Given
    BY <2>1, InputTyped DEF CallInv
  <2>3. SharedAll' = SharedNow
    BY <2>2 DEF SharedAll, SharedNow, Given, Input
  <2> QED  BY <2>1, <2>3 DEF CallInv, DoneInv
<1>5. CASE AnswerDescendant(found)
  <2>1. query.kind = "descendant" /\ pc' = "done"
    BY <1>5 DEF AnswerDescendant
  <2>2. left = Input(1) /\ Others = {Input(2)} /\ Input(1) # Input(2) /\ Input(2) \in Commits
        /\ Input(1) \in Commits
    <3>1. left = Input(1) /\ Others = Given /\ Len(query.inputs) = 2
      BY <2>1, InputTyped DEF CallInv
    <3>2. Given = {Input(2)}
      BY <3>1 DEF Given
    <3> QED  BY <1>3, <2>1, <3>1, <3>2
  <2>3. yes' <=> Input(2) \in Below(repo, {Input(1)})
    <3>1. CASE Input(2) \in Below(repo, {Input(1)})
      <4>1. {Input(1)} \in SUBSET Commits /\ {Input(2)} \in SUBSET Commits
        BY <2>2
      <4>2. Below(repo, {Input(2)}) \subseteq Below(repo, {Input(1)})
        BY <1>0, <3>1, <4>1, BelowTransitive
      <4>3. SharedNow = Below(repo, {Input(2)})
        BY <2>2, <4>2 DEF SharedNow
      <4>4. found = {Input(2)}
        BY <1>0, <2>2, <4>3, TopsBelow
      <4> QED  BY <1>5, <3>1, <4>4 DEF AnswerDescendant
    <3>2. CASE Input(2) \notin Below(repo, {Input(1)})
      <4>1. Input(2) \notin found
        BY <1>0, <1>1, <2>2, <3>2
      <4> HIDE DEF found
      <4> QED  BY <1>5, <3>2, <4>1 DEF AnswerDescendant
    <3> QED  BY <3>1, <3>2
  <2> QED  BY <1>2, <2>1, <2>2, <2>3 DEF CallInv, DoneInv
<1>6. CASE AnswerOctopus(found)
  <2> HIDE DEF found
  <2>0. query.kind = "octopus" /\ Others = {Input(k)}
    BY <1>6 DEF AnswerOctopus, Others
  <2>1. CASE status' = "notfound" /\ pc' = "done"
    BY <2>0, <2>1 DEF CallInv, DoneInv
  <2>2. ASSUME NEW b \in found, left' = b, k' = k + 1,
               \/ k = Len(query.inputs) /\ bases' = {b} /\ pc' = "done"
               \/ pc' = "ask"
        PROVE  CallInv' /\ DoneInv' /\ pc' \in {"ask", "done"}
    <3>1. b \in Below(repo, {left}) /\ b \in Below(repo, {Input(k)})
      BY <1>0, <1>1, <2>0
    <3>2. ASSUME NEW n \in 1 .. k PROVE b \in Below(repo, {Input(n)})
      <4>1. CASE n = k
        BY <3>1, <4>1
      <4>2. CASE n # k
        <5>1. left \in Below(repo, {Input(n)})
          BY <1>3, <2>0, <4>2 DEF CallInv
        <5>2. {Input(n)} \in SUBSET Commits
          BY <1>3
        <5> QED  BY <1>0, <3>1, <5>1, <5>2, BelowTransitive
      <4> QED  BY <4>1, <4>2
    <3>3. CASE k = Len(query.inputs) /\ bases' = {b} /\ pc' = "done"
      <4>1. \A n \in 1 .. Len(query.inputs) : bases' \subseteq Below(repo, {Input(n)})
        BY <3>2, <3>3
      <4> QED  BY <1>2, <1>3, <2>0, <3>3, <4>1 DEF CallInv, DoneInv
    <3>4. CASE pc' = "ask"
      <4>1. \A n \in 1 .. k' - 1 : left' \in Below(repo, {Input(n)})
        BY <1>3, <2>2, <3>2
      <4>2. \A n \in 1 .. k' - 1 : n \in Nat
        OBVIOUS
      <4> QED  BY <1>2, <2>0, <3>4, <4>1, <4>2 DEF CallInv, DoneInv
    <3> QED  BY <2>2, <3>3, <3>4
  <2> QED  BY <1>6, <2>1, <2>2 DEF AnswerOctopus
<1> QED  BY <1>4, <1>5, <1>6 DEF Answer

LEMMA InitInv == Init => IInv
<1> SUFFICES ASSUME Init PROVE IInv
  OBVIOUS
<1>1. TypeInv /\ pc = "ask" /\ left = Input(1) /\ k = 2 /\ repo \in Repositories
      /\ cands = {} /\ tried = {} /\ redundant = {}
  BY InitTyped DEF Init
<1>2. Input(1) \in Commits
  BY <1>1 DEF TypeInv, TypeOK
<1>3. \A n \in 1 .. k - 1 : left \in Below(repo, {Input(n)})
  <2>1. Input(1) \in Below(repo, {Input(1)})
    BY <1>1, <1>2, SelfBelow
  <2>2. \A n \in 1 .. k - 1 : n = 1
    BY <1>1
  <2> QED  BY <1>1, <2>1, <2>2
<1>4. CallInv
  BY <1>1, <1>3 DEF CallInv
<1> QED  BY <1>1, <1>4 DEF IInv, PaintInv, CandInv, ClearInv, DoneInv

\* A query that ends with an error promises nothing.
LEMMA FailInv ==
    ASSUME IInv, Fail PROVE CallInv' /\ DoneInv'
  BY DEF Fail, CallInv, DoneInv

LEMMA AskInv ==
    ASSUME IInv, TypeInv', AskSelf \/ AskRepeated \/ AskBases \/ AskGraph
    PROVE  IInv'
<1>0. pc = "ask" /\ cands = {} /\ tried = {} /\ redundant = {} /\ UNCHANGED <<repo, query>>
  BY DEF AskSelf, AskRepeated, AskBases, AskGraph, IInv, CandInv
<1>1. /\ SharedNow \in SUBSET Commits
      /\ repo \in Repositories /\ left \in Commits /\ Others \in SUBSET Commits
  BY <1>0, SharedFacts DEF IInv
<1>2. CASE AskSelf
  <2>1. query.kind = "descendant" /\ left \in Others /\ yes' = FALSE /\ pc' = "done"
    BY <1>2 DEF AskSelf
  <2>2. Input(1) = Input(2)
    <3>1. left = Input(1) /\ Others = Given /\ Len(query.inputs) = 2
      BY <1>0, <2>1, InputTyped DEF IInv, CallInv
    <3> QED  BY <2>1, <3>1 DEF Given
  <2>3. (Input(1) = Input(2))'
    BY <1>0, <2>2 DEF Input
  <2> QED  BY <2>1, <2>3, <1>0 DEF IInv, CallInv, PaintInv, CandInv, ClearInv, DoneInv
<1>3. CASE AskRepeated
  <2>1. left \in Others /\ query.kind # "descendant" /\ Answer({left}) /\ UNCHANGED <<paint, work>>
    BY <1>3 DEF AskRepeated
  <2>2. TopsOf(repo, SharedNow) = {left}
    <3>1. left \in Below(repo, Others)
      BY <1>1, <2>1, BelowHolds
    <3>2. Below(repo, {left}) \subseteq Below(repo, Others)
      BY <1>1, <3>1, BelowTransitive
    <3>3. SharedNow = Below(repo, {left})
      BY <3>2 DEF SharedNow
    <3> QED  BY <1>1, <3>3, TopsBelow
  <2>3. CallInv' /\ DoneInv' /\ pc' \in {"ask", "done"}
    BY <1>0, <2>1, <2>2, Answered DEF IInv
  <2>4. cands' = {} /\ tried' = {} /\ redundant' = {}
    BY <1>0, <2>1 DEF work
  <2> QED  BY <2>3, <2>4 DEF IInv, PaintInv, CandInv, ClearInv
<1>4. CASE AskBases
  <2>1. left \notin Others /\ query.kind # "graph" /\ UNCHANGED <<left, k, cands, tried, redundant, pending>>
    BY <1>4 DEF AskBases
  <2>2. CASE Fail
    BY <2>1, <2>2, FailInv DEF IInv, PaintInv, CandInv, ClearInv, Fail
  <2>3. CASE StartPaint(NoFlags, left, Others)
    <3>1. pc' = "paint" /\ one' = left /\ twos' = Others /\ cands' = {} /\ tried' = {} /\ redundant' = {}
      BY <1>0, <2>1, <2>3 DEF StartPaint
    <3>2. Painted'
      BY <1>0, <1>1, <2>1, <2>3, StartPainted DEF IInv
    <3>3. Others' = Others
      BY <1>0, <2>1 DEF Others, Input
    <3>4. CallInv'
      BY <1>0, <2>1, <3>1, <3>3 DEF IInv, CallInv, Input
    <3>5. CandInv'
      BY <2>1, <3>1, <3>3 DEF CandInv
    <3> QED  BY <3>1, <3>2, <3>4, <3>5 DEF IInv, PaintInv, ClearInv, DoneInv
  <2> QED  BY <1>4, <2>2, <2>3 DEF AskBases
<1>5. CASE AskGraph
  <2>1. query.kind = "graph" /\ pc' \in {"count", "done", "mark"}
    BY <1>5 DEF AskGraph, Fail
  <2> QED  BY <1>0, <2>1 DEF IInv, CallInv, PaintInv, CandInv, ClearInv, DoneInv
<1> QED  BY <1>2, <1>3, <1>4, <1>5

\* A query about a graph.
LEMMA GraphInv ==
    ASSUME IInv, TypeInv',
           \/ \E c \in Commits : MarkPop(c) \/ CountPop(c)
           \/ Marked \/ CountEnd
    PROVE  IInv'
<1>1. pc \in {"mark", "count"} /\ pc' \in {"mark", "count", "done"} /\ UNCHANGED query
  BY DEF MarkPop, CountPop, Marked, CountEnd, Fail
<1>2. query.kind = "graph"
  BY <1>1 DEF IInv, CallInv
<1> QED  BY <1>1, <1>2 DEF IInv, CallInv, PaintInv, CandInv, ClearInv, DoneInv

\* What a comparison does not touch.
LEMMA NarrowedKept ==
    ASSUME Narrowed, UNCHANGED <<repo, query, left, k, cands, redundant>>, Compared' \subseteq Compared
    PROVE  Narrowed'
<1>1. SharedNow' = SharedNow
  BY DEF SharedNow, Others, Input
<1> QED  BY <1>1 DEF Narrowed

LEMMA PaintPopInv ==
    ASSUME IInv, TypeInv', NEW c \in Commits, PaintPop(c)
    PROVE  IInv'
<1>0. pc = "paint" /\ Painted /\ UNCHANGED <<repo, query, left, k, work>>
  BY DEF PaintPop, IInv, PaintInv
<1>1. UNCHANGED <<cands, tried, redundant, one, twos, pending>>
  BY <1>0 DEF work
<1>2. CASE Fail
  BY <1>0, <1>2, FailInv DEF IInv, PaintInv, CandInv, ClearInv, Fail
<1>3. CASE PassOn(c) /\ result' = (IF Common(c) THEN result \cup {c} ELSE result) /\ UNCHANGED pc
  <2>1. Painted'
    BY <1>0, <1>1, <1>3, PopPainted DEF IInv
  <2>2. Others' = Others
    BY <1>0 DEF Others, Input
  <2>3. CallInv'
    BY <1>0, <1>3, <2>2 DEF IInv, CallInv, Input
  <2>4. Compared' = Compared
    BY <1>0, <1>1, <1>3 DEF Compared
  <2>5. CandInv'
    BY <1>0, <1>1, <1>3, <2>2, <2>4, NarrowedKept DEF IInv, CandInv
  <2> QED  BY <1>0, <1>3, <2>1, <2>3, <2>5 DEF IInv, PaintInv, ClearInv, DoneInv
<1> QED  BY <1>2, <1>3 DEF PaintPop

\* Every mark comes from one of the two sides.
LEMMA MarksReached ==
    ASSUME IInv, pc = "paint", pending' = {one} \cup twos, UNCHANGED <<repo, flags>>
    PROVE  \A c \in Commits : flags'[c] # {} => Reached(c)'
<1>1. \A c \in Commits : flags[c] # {} =>
          c \in {one} \cup twos \/ \E d \in Commits : c \in Parents(d) /\ flags[d] # {}
  BY DEF IInv, PaintInv, Painted, MarksTrue
<1> QED  BY <1>1 DEF Reached, Parents

LEMMA PaintedBasesInv ==
    ASSUME IInv, TypeInv', PaintedBases
    PROVE  IInv'
<1> DEFINE found == {c \in result : "stale" \notin flags[c]}
<1>0. /\ pc = "paint" /\ ~ Interesting /\ cands = {} /\ tried = {} /\ redundant = {}
      /\ one = left /\ twos = Others /\ Painted /\ TypeInv
      /\ UNCHANGED <<repo, query, paint, one, twos, tried, redundant>>
  BY DEF PaintedBases, IInv, PaintInv, CandInv
<1>1. SharedNow = FromOne \cap FromTwos
  BY <1>0 DEF SharedNow, FromOne, FromTwos
<1>2. found \subseteq SharedNow /\ TopsOf(repo, SharedNow) \subseteq found
  BY <1>0, <1>1, PaintedEnd
<1>3. SharedNow \in SUBSET Commits /\ repo \in Repositories
  BY <1>0, SharedFacts
<1> HIDE DEF found
<1>4. CASE Cardinality(found) <= 1 /\ Answer(found) /\ UNCHANGED <<cands, pending>>
  <2>1. found = TopsOf(repo, SharedNow)
    BY <1>2, <1>3, <1>4, AtMostOne
  <2>2. left \notin Others
    BY <1>0 DEF IInv, CallInv
  <2>3. CallInv' /\ DoneInv' /\ pc' \in {"ask", "done"}
    BY <1>0, <1>4, <2>1, <2>2, Answered DEF IInv
  <2> QED  BY <1>0, <1>4, <2>3 DEF IInv, PaintInv, CandInv, ClearInv
<1>5. CASE Cardinality(found) > 1 /\ cands' = found /\ pending' = {one} \cup twos /\ pc' = "clear"
           /\ UNCHANGED <<left, k, answer>>
  <2>1. found # {}
    BY <1>5, FS_EmptySet
  <2>2. UNCHANGED flags
    BY <1>0 DEF paint
  <2>3. ClearInv'
    BY <1>0, <1>5, <2>2, MarksReached DEF ClearInv
  <2>4. Others' = Others
    BY <1>0, <1>5 DEF Others, Input
  <2>5. SharedNow' = SharedNow
    BY <1>0, <1>5, <2>4 DEF SharedNow
  <2>6. Compared' = {}
    BY <1>0 DEF Compared
  <2>7. Narrowed'
    BY <1>0, <1>2, <1>5, <2>5, <2>6 DEF Narrowed
  <2>8. CandInv'
    BY <1>5, <2>1, <2>7 DEF CandInv
  <2>9. CallInv'
    BY <1>0, <1>5, <2>4 DEF IInv, CallInv, Input
  <2> QED  BY <1>5, <2>3, <2>8, <2>9 DEF IInv, PaintInv, DoneInv
<1> QED  BY <1>4, <1>5 DEF PaintedBases, found

\* clear_commit_marks empties what is marked.
LEMMA ClearMarksInv ==
    ASSUME IInv, TypeInv', ClearMarks \/ Cleared
    PROVE  IInv'
<1>0. pc = "clear" /\ \A c \in Commits : flags[c] # {} => Reached(c)
  BY DEF ClearMarks, Cleared, IInv, ClearInv
<1>1. /\ flags \in [Commits -> SUBSET Flags] /\ repo \in Repositories
      /\ UNCHANGED <<repo, query, left, k, one, cands, tried, redundant>>
  BY DEF ClearMarks, Cleared, IInv, TypeInv, TypeOK, work
<1>2. Others' = Others
  BY <1>1 DEF Others, Input
<1>3. CASE ClearMarks
  <2>1. pc' = "clear"
    BY <1>0, <1>3 DEF ClearMarks
  <2>2. ASSUME NEW c \in Commits, flags'[c] # {} PROVE Reached(c)'
    <3>1. c \notin pending /\ flags[c] # {}
      BY <1>1, <1>3, <2>2 DEF ClearMarks
    <3>2. PICK d \in Commits : c \in Parents(d) /\ flags[d] # {}
      BY <1>0, <3>1 DEF Reached
    <3>3. CASE d \in pending
      <4>1. c \in pending'
        BY <1>3, <3>2, <3>3 DEF ClearMarks
      <4> QED  BY <4>1 DEF Reached
    <3>4. CASE d \notin pending
      <4>1. flags'[d] # {}
        BY <1>1, <1>3, <3>2, <3>4 DEF ClearMarks
      <4> QED  BY <1>1, <3>2, <4>1 DEF Reached, Parents
    <3> QED  BY <3>3, <3>4
  <2>3. Compared' = Compared
    BY <1>0, <1>1, <2>1 DEF Compared
  <2>4. CandInv'
    BY <1>0, <1>1, <2>1, <2>3, NarrowedKept DEF IInv, CandInv
  <2>5. CallInv'
    BY <1>0, <1>1, <1>2, <2>1 DEF IInv, CallInv, Input
  <2> QED  BY <2>1, <2>2, <2>4, <2>5 DEF IInv, PaintInv, ClearInv, DoneInv
<1>4. CASE Cleared
  <2>1. pc' = "candidate" /\ pending = {} /\ UNCHANGED flags
    BY <1>4 DEF Cleared, paint
  <2>2. flags = NoFlags
    <3> DEFINE S == {c \in Commits : flags[c] # {}}
    <3>1. S = {}
      <4> SUFFICES ASSUME S # {} PROVE FALSE
        OBVIOUS
      <4>1. PICK m \in S : \A d \in S : Rank[m] <= Rank[d]
        BY Lowest
      <4>2. PICK d \in Commits : m \in Parents(d) /\ flags[d] # {}
        BY <1>0, <2>1 DEF Reached
      <4>3. Rank[d] < Rank[m] /\ Rank[d] \in Nat /\ Rank[m] \in Nat
        BY <1>1, <4>2, RepoFacts DEF Parents
      <4> QED  BY <4>1, <4>2, <4>3
    <3> QED  BY <1>1, <3>1 DEF NoFlags
  <2>3. Compared' = Compared
    BY <1>0, <1>1, <2>1 DEF Compared
  <2>4. CandInv'
    BY <1>0, <1>1, <2>1, <2>3, NarrowedKept DEF IInv, CandInv
  <2>5. CallInv'
    BY <1>0, <1>1, <1>2, <2>1 DEF IInv, CallInv, Input
  <2> QED  BY <2>1, <2>2, <2>4, <2>5 DEF IInv, PaintInv, ClearInv, DoneInv, NoFlags
<1> QED  BY <1>3, <1>4

\* remove_redundant takes a candidate.
LEMMA CandidateInv ==
    ASSUME IInv, TypeInv', NEW c \in Commits, Candidate(c)
    PROVE  IInv'
<1>0. /\ pc = "candidate" /\ cands # {} /\ flags = NoFlags /\ Narrowed /\ TypeInv
      /\ c \in cands \ (tried \cup redundant) /\ tried' = tried \cup {c}
      /\ UNCHANGED <<repo, query, left, k, cands, redundant, pending>>
  BY DEF Candidate, IInv, CandInv, ClearInv
<1> DEFINE S == cands \ ({c} \cup redundant)
<1>1. S \in SUBSET Commits /\ c \notin S
  BY <1>0 DEF TypeInv, TypeOK
<1>2. StartPaint(NoFlags, c, S)
  BY <1>0 DEF Candidate
<1> HIDE DEF S
<1>3. pc' = "paint" /\ one' = c /\ twos' = S
  BY <1>2 DEF StartPaint
<1>4. Painted'
  BY <1>0, <1>1, <1>2, StartPainted
<1>5. Compared' \subseteq Compared
  BY <1>0, <1>3 DEF Compared
<1>6. Narrowed'
  BY <1>0, <1>5, NarrowedKept
<1>7. CandInv'
  BY <1>0, <1>3, <1>6 DEF CandInv, S
<1>8. Others' = Others
  BY <1>0 DEF Others, Input
<1>9. CallInv'
  BY <1>0, <1>3, <1>8 DEF IInv, CallInv, Input
<1> QED  BY <1>3, <1>4, <1>7, <1>9 DEF IInv, PaintInv, ClearInv, DoneInv

\* What painting from one candidate and from the others tells about them.
LEMMA PaintedCandidateInv ==
    ASSUME IInv, TypeInv', PaintedCandidate
    PROVE  IInv'
<1>0. /\ pc = "paint" /\ ~ Interesting /\ cands # {} /\ TypeInv /\ Painted /\ Narrowed
      /\ one \in cands \ redundant /\ twos = cands \ ({one} \cup redundant)
      /\ pending' = {one} \cup twos /\ pc' = "clear"
      /\ redundant' = redundant \cup {c \in {one} : "parent2" \in flags[c]}
                                \cup {c \in twos : "parent1" \in flags[c]}
      /\ UNCHANGED <<repo, query, left, k, paint, one, twos, cands, tried>>
  BY DEF PaintedCandidate, IInv, PaintInv, CandInv
<1>1. repo \in Repositories /\ one \in Commits /\ twos \in SUBSET Commits /\ cands \in SUBSET Commits
      /\ tried \in SUBSET Commits
  BY <1>0 DEF TypeInv, TypeOK
<1>2. \A c \in Commits : MarksTrue(c)
  BY <1>0 DEF Painted
<1>3. Others' = Others
  BY <1>0 DEF Others, Input
<1>4. SharedNow' = SharedNow
  BY <1>0, <1>3 DEF SharedNow
<1>5. ASSUME NEW c \in redundant'
      PROVE  \E d \in cands \ {c} : c \in Below(repo, {d})
  <2>1. CASE c \in redundant
    BY <1>0, <2>1 DEF Narrowed
  <2>2. CASE c = one /\ "parent2" \in flags[c]
    <3>1. c \in FromTwos
      BY <1>1, <1>2, <2>2 DEF MarksTrue
    <3>2. PICK d \in twos : c \in Below(repo, {d})
      BY <1>1, <3>1, BelowOne DEF FromTwos
    <3> QED  BY <1>0, <2>2, <3>2
  <2>3. CASE c \in twos /\ "parent1" \in flags[c]
    <3>1. c \in Below(repo, {one})
      BY <1>1, <1>2, <2>3 DEF MarksTrue, FromOne
    <3> QED  BY <1>0, <2>3, <3>1
  <2> QED  BY <1>0, <2>1, <2>2, <2>3
<1>6. ASSUME NEW d \in twos, "parent2" \notin flags[one] PROVE one \notin Below(repo, {d})
  <2>1. one \notin Low
    <3> SUFFICES ASSUME NEW e \in FromOne, e # one, one \in Below(repo, {e}) PROVE FALSE
      BY DEF Low
    <3>1. e \in Commits /\ Rank[one] < Rank[e]
      BY <1>1, BelowRank DEF FromOne
    <3>2. Rank[e] < Rank[one]
      BY <1>1, <3>1, BelowRank
    <3> QED  BY <1>1, <3>1, <3>2, RepoFacts
  <2>2. one \notin FromTwos
    BY <1>0, <1>6, <2>1, PaintedEnd
  <2>3. Below(repo, {d}) \subseteq FromTwos
    <3>1. d \in FromTwos
      BY <1>0, FromFacts
    <3> QED  BY <1>1, <3>1, BelowTransitive DEF FromTwos
  <2> QED  BY <2>2, <2>3
<1>7. ASSUME NEW c \in Compared', NEW d \in cands \ ({c} \cup redundant')
      PROVE  c \notin Below(repo, {d})
  <2>1. c \in tried /\ c \notin redundant'
    BY <1>0 DEF Compared
  <2>2. d \in cands \ ({c} \cup redundant)
    BY <1>0
  <2>3. CASE c = one
    BY <1>0, <1>6, <2>1, <2>2, <2>3
  <2>4. CASE c # one
    <3>1. c \in Compared
      BY <1>0, <2>1, <2>4 DEF Compared
    <3> QED  BY <1>0, <2>2, <3>1 DEF Narrowed
  <2> QED  BY <2>3, <2>4
<1>8. Narrowed'
  BY <1>0, <1>4, <1>5, <1>7 DEF Narrowed
<1>9. CandInv'
  BY <1>0, <1>8 DEF CandInv
<1>10. ClearInv'
  <2>1. UNCHANGED flags
    BY <1>0 DEF paint
  <2> QED  BY <1>0, <2>1, MarksReached DEF ClearInv
<1>11. CallInv'
  BY <1>0, <1>3 DEF IInv, CallInv, Input
<1> QED  BY <1>0, <1>9, <1>10, <1>11 DEF IInv, PaintInv, DoneInv

\* When all have been compared, those that are left are the best common ancestors.
LEMMA CandidatesEndInv ==
    ASSUME IInv, TypeInv', CandidatesEnd
    PROVE  IInv'
<1>0. /\ pc = "candidate" /\ Narrowed /\ TypeInv /\ cands \subseteq tried \cup redundant
      /\ Answer(cands \ redundant) /\ cands' = {} /\ tried' = {} /\ redundant' = {}
      /\ UNCHANGED <<repo, query>>
  BY DEF CandidatesEnd, IInv, CandInv
<1>1. SharedNow \in SUBSET Commits /\ repo \in Repositories
  BY <1>0, SharedFacts
<1> DEFINE U == cands \ redundant
<1>2. U \in SUBSET SharedNow
  BY <1>0 DEF Narrowed
<1>3. TopsOf(repo, SharedNow) \subseteq U
  <2> SUFFICES ASSUME NEW t \in TopsOf(repo, SharedNow), t \in redundant PROVE FALSE
    BY <1>0 DEF Narrowed
  <2>1. PICK d \in cands \ {t} : t \in Below(repo, {d})
    BY <1>0 DEF Narrowed
  <2>2. d \in SharedNow \ {t}
    BY <1>0, <2>1 DEF Narrowed
  <2> QED  BY <2>1, <2>2 DEF TopsOf
<1>4. TopsOf(repo, U) = U
  <2>1. ASSUME NEW c \in U, NEW d \in U \ {c} PROVE c \notin Below(repo, {d})
    <3>1. c \in Compared /\ d \in cands \ ({c} \cup redundant)
      BY <1>0, <2>1 DEF Compared
    <3> QED  BY <1>0, <3>1 DEF Narrowed
  <2> QED  BY <2>1 DEF TopsOf
<1> HIDE DEF U
<1>5. U = TopsOf(repo, SharedNow)
  BY <1>1, <1>2, <1>3, <1>4, TopsBetween
<1>6. left \notin Others
  BY <1>0 DEF IInv, CallInv
<1>7. CallInv' /\ DoneInv' /\ pc' \in {"ask", "done"}
  BY <1>0, <1>5, <1>6, Answered DEF IInv, U
<1> QED  BY <1>0, <1>7 DEF IInv, PaintInv, CandInv, ClearInv

LEMMA NextInv == IInv /\ [Next]_vars => IInv'
<1> SUFFICES ASSUME IInv, [Next]_vars PROVE IInv'
  OBVIOUS
<1>1. TypeInv'
  BY NextTyped DEF IInv
<1>2. CASE UNCHANGED vars
  <2>1. UNCHANGED <<repo, query, pc, left, k, flags, queue, result, one, twos, cands, tried, redundant,
                    pending, status, bases, yes>>
    BY <1>2 DEF vars, paint, work, answer
  <2>2. CallInv' = CallInv /\ DoneInv' = DoneInv
    BY <2>1 DEF CallInv, DoneInv, Others, Input, SharedAll, Given
  <2>3. PaintInv' = PaintInv
    BY <2>1 DEF PaintInv, Painted, MarksTrue, MarksPassed, FromOne, FromTwos, Low, Parents, Passed, Common
  <2>4. CandInv' = CandInv
    BY <2>1 DEF CandInv, Narrowed, Compared, SharedNow, Others, Input
  <2>5. ClearInv' = ClearInv
    BY <2>1 DEF ClearInv, Reached, Parents
  <2> QED  BY <1>1, <2>2, <2>3, <2>4, <2>5 DEF IInv
<1> QED  BY <1>1, <1>2, AskInv, GraphInv, PaintPopInv, PaintedBasesInv, ClearMarksInv, CandidateInv,
            PaintedCandidateInv, CandidatesEndInv DEF Next

LEMMA IInvAlways == Spec => []IInv
  BY InitInv, NextInv, PTL DEF Spec

\* git_merge_bases and git_merge_bases_many answer with the best common ancestors, all
\* of them and nothing else, whatever the history and the dates of its commits.
THEOREM BasesAreExact == Spec => []BasesExact
<1>1. IInv => BasesExact
  <2>1. Tops(Shared) = TopsOf(repo, SharedAll)
    BY AncestorsBelow DEF Tops, TopsOf, Shared, SharedAll
  <2> QED  BY <2>1 DEF IInv, DoneInv, BasesExact
<1> QED  BY <1>1, IInvAlways, PTL

\* git_graph_descendant_of says yes to the proper ancestors and to nothing else.
THEOREM DescendantIsExact == Spec => []DescendantExact
<1>1. IInv => DescendantExact
  BY AncestorsBelow DEF IInv, DoneInv, DescendantExact
<1> QED  BY <1>1, IInvAlways, PTL

\* The commit that git_merge_base_octopus finds is an ancestor of every input.
THEOREM OctopusIsShared == Spec => []OctopusShared
<1>1. IInv => OctopusShared
  <2> SUFFICES ASSUME IInv PROVE OctopusShared
    OBVIOUS
  <2>1. DOMAIN query.inputs = 1 .. Len(query.inputs)
    BY MergeBaseAssumption DEF IInv, TypeInv, Query
  <2> QED  BY <2>1, AncestorsBelow DEF IInv, DoneInv, OctopusShared
<1> QED  BY <1>1, IInvAlways, PTL

\* clear_commit_marks leaves no mark: the next comparison begins on a clean slate.
THEOREM SlateIsClean == Spec => []CleanSlate
<1>1. IInv => CleanSlate
  BY DEF IInv, ClearInv, CleanSlate
<1> QED  BY <1>1, IInvAlways, PTL

-----------------------------------------------------------------------------
(* Ahead and behind: no commit that counts is missed.                      *)

Only(m, n) == Below(repo, {Input(m)}) \ Below(repo, {Input(n)})

\* The marks of mark_parents are true, and passed on by what is not queued.
MarkOK(c) ==
    /\ "parent1" \in flags[c] => c \in Below(repo, {Input(1)})
    /\ "parent2" \in flags[c] => c \in Below(repo, {Input(2)})
    /\ "stale" \in flags[c] \/ "result" \in flags[c] => Both \subseteq flags[c]
    /\ queue[c] = 0 => \A p \in Parents(c) : Passed(c) \subseteq flags[p]

Marking == /\ "parent1" \in flags[Input(1)] /\ "parent2" \in flags[Input(2)]
           /\ \A c \in Commits : MarkOK(c)

\* The commits of one side only that have been counted.
Tally(m, n) == {c \in Only(m, n) : "result" \in flags[c]}

\* They all have the mark of their side alone, and each is counted, queued, or below
\* one that is not counted yet.
Counting(m, n, mine, other) ==
    /\ \A c \in Only(m, n) : mine \in flags[c] /\ other \notin flags[c]
    /\ Input(m) \in Only(m, n) => "result" \in flags[Input(m)] \/ queue[Input(m)] > 0
    /\ \A c \in Tally(m, n) : \A p \in Parents(c) \cap Only(m, n) :
           "result" \in flags[p] \/ queue[p] > 0

CountInv ==
    /\ pc = "ask" /\ query.kind = "graph" => flags = NoFlags
    /\ pc \in {"paint", "clear", "candidate"} => query.kind # "graph"
    /\ pc = "mark" => Marking /\ one = Input(1) /\ twos = {Input(2)}
    /\ pc = "count" => /\ Counting(1, 2, "parent1", "parent2")
                       /\ Counting(2, 1, "parent2", "parent1")
                       /\ ahead >= Cardinality(Tally(1, 2))
                       /\ behind >= Cardinality(Tally(2, 1))
    /\ Counted => /\ ahead >= Cardinality(Only(1, 2))
                  /\ behind >= Cardinality(Only(2, 1))

LEMMA OnlyFacts ==
    ASSUME TypeInv, query.kind = "graph", NEW m \in {1, 2}, NEW n \in {1, 2}
    PROVE  /\ repo \in Repositories /\ Input(m) \in Commits /\ Input(n) \in Commits
           /\ Below(repo, {Input(m)}) \in SUBSET Commits /\ Closed(repo, Below(repo, {Input(m)}))
           /\ Input(m) \in Below(repo, {Input(m)})
           /\ Only(m, n) \in SUBSET Commits /\ Only(m, n) \subseteq Below(repo, {Input(m)})
           /\ IsFiniteSet(Only(m, n)) /\ IsFiniteSet(Tally(m, n))
<1>1. repo \in Repositories /\ Input(m) \in Commits /\ Input(n) \in Commits
  BY InputTyped DEF TypeInv
<1>2. {Input(m)} \in SUBSET Commits
  BY <1>1
<1>3. /\ Below(repo, {Input(m)}) \in SUBSET Commits /\ Closed(repo, Below(repo, {Input(m)}))
      /\ Input(m) \in Below(repo, {Input(m)})
  BY <1>1, <1>2, BelowHolds
<1>4. Only(m, n) \in SUBSET Commits /\ Tally(m, n) \in SUBSET Commits
  BY <1>3 DEF Only, Tally
<1>5. IsFiniteSet(Only(m, n)) /\ IsFiniteSet(Tally(m, n))
  BY <1>4, MergeBaseAssumption, FS_Subset
<1> QED  BY <1>1, <1>3, <1>4, <1>5 DEF Only

\* A set with the input of a side and, as far as the side goes, with the parents of
\* each of its commits, has all of the side.
LEMMA OnlyLeast ==
    ASSUME TypeInv, query.kind = "graph", NEW m \in {1, 2}, NEW n \in {1, 2}, NEW T,
           Input(m) \in Only(m, n) => Input(m) \in T,
           \A c \in Only(m, n) \cap T : \A p \in Parents(c) \cap Only(m, n) : p \in T
    PROVE  Only(m, n) \subseteq T
<1> DEFINE U == {c \in Commits : c \in Only(m, n) /\ c \in T} \cup Below(repo, {Input(n)})
<1>1. /\ repo \in Repositories /\ Input(m) \in Commits
      /\ Below(repo, {Input(m)}) \in SUBSET Commits /\ Closed(repo, Below(repo, {Input(m)}))
      /\ Below(repo, {Input(n)}) \in SUBSET Commits /\ Closed(repo, Below(repo, {Input(n)}))
      /\ Input(m) \in Below(repo, {Input(m)})
  BY OnlyFacts
<1>2. {Input(m)} \subseteq U
  BY <1>1 DEF Only
<1>3. Closed(repo, U)
  <2> SUFFICES ASSUME NEW c \in U, NEW p \in repo.parents[c] PROVE p \in U
    BY DEF Closed
  <2>1. p \in Commits /\ c \in Commits
    BY <1>1, RepoFacts
  <2>2. CASE c \in Below(repo, {Input(n)})
    BY <1>1, <2>2 DEF Closed
  <2>3. CASE c \in Only(m, n) /\ c \in T
    <3>1. p \in Below(repo, {Input(m)})
      BY <1>1, <2>3 DEF Only, Closed
    <3> QED  BY <2>1, <2>3, <3>1 DEF Only, Parents
  <2> QED  BY <2>2, <2>3
<1>4. U \in SUBSET Commits
  BY <1>1
<1> HIDE DEF U
<1>5. Below(repo, {Input(m)}) \subseteq U
  BY <1>1, <1>2, <1>3, <1>4, BelowLeast
<1> QED  BY <1>5 DEF Only, U

\* One turn of the loop of mark_parents.
LEMMA PopMarking ==
    ASSUME TypeInv, query.kind = "graph", Marking, NEW c \in Commits, PassOn(c),
           UNCHANGED <<repo, query>>
    PROVE  Marking'
<1>0. flags \in [Commits -> SUBSET Flags] /\ queue \in [Commits -> Nat]
  BY DEF TypeInv, TypeOK
<1>1. \A d \in Commits : flags'[d] = (flags[d] \cup (IF d \in Lacking(c) THEN Passed(c) ELSE {}))
                             \cup (IF d = c /\ Common(c) THEN {"result"} ELSE {})
  BY DEF PassOn
<1>2. \A d \in Commits : d # c => queue'[d] = IF d \in Lacking(c) THEN queue[d] + 1 ELSE queue[d]
  BY DEF PassOn
<1>3. /\ repo \in Repositories /\ Input(1) \in Commits /\ Input(2) \in Commits
      /\ Closed(repo, Below(repo, {Input(1)})) /\ Closed(repo, Below(repo, {Input(2)}))
  BY OnlyFacts
<1>4. Lacking(c) \subseteq Parents(c) /\ c \notin Parents(c)
      /\ \A d \in Commits : Parents(d) \subseteq Commits
  BY <1>3, RepoFacts DEF Lacking, Parents
<1>5. Input(1)' = Input(1) /\ Input(2)' = Input(2) /\ \A d : Parents(d)' = Parents(d)
  BY DEF Input, Parents
<1>6. \A d \in Commits : flags[d] \subseteq flags'[d]
  BY <1>1
<1>7. MarkOK(c)
  BY DEF Marking
<1>8. /\ "parent1" \in Passed(c) => Parents(c) \subseteq Below(repo, {Input(1)})
      /\ "parent2" \in Passed(c) => Parents(c) \subseteq Below(repo, {Input(2)})
  <2>1. /\ "parent1" \in Passed(c) => c \in Below(repo, {Input(1)})
        /\ "parent2" \in Passed(c) => c \in Below(repo, {Input(2)})
    BY <1>7 DEF Passed, MarkOK
  <2> QED  BY <1>3, <2>1 DEF Closed, Parents
<1>9. "stale" \in Passed(c) => Both \subseteq Passed(c)
  BY <1>7 DEF Passed, Common, MarkOK, Both
<1>10. "result" \notin Passed(c)
  BY DEF Passed
<1>11. ASSUME NEW d \in Commits PROVE MarkOK(d)'
  <2>1. MarkOK(d)
    BY DEF Marking
  <2>0. \A f \in Both : f \in flags'[d] => f \in flags[d] \/ (d \in Parents(c) /\ f \in Passed(c))
    BY <1>1, <1>4 DEF Both
  <2>2. "parent1" \in flags'[d] => d \in Below(repo, {Input(1)})
    BY <1>8, <2>0, <2>1 DEF MarkOK, Both
  <2>3. "parent2" \in flags'[d] => d \in Below(repo, {Input(2)})
    BY <1>8, <2>0, <2>1 DEF MarkOK, Both
  <2>4. "stale" \in flags'[d] => Both \subseteq flags'[d]
    BY <1>1, <1>9, <2>1 DEF MarkOK
  <2>5. "result" \in flags'[d] => Both \subseteq flags'[d]
    BY <1>1, <1>10, <2>1 DEF MarkOK, Common
  <2>6. ASSUME queue'[d] = 0, NEW p \in Parents(d) PROVE Passed(d)' \subseteq flags'[p]
    <3>1. d \notin Lacking(c) => Passed(d)' = Passed(d)
      <4> SUFFICES ASSUME d \notin Lacking(c) PROVE Passed(d)' = Passed(d)
        OBVIOUS
      <4>1. flags'[d] \cap {"parent1", "parent2", "stale"} = flags[d] \cap {"parent1", "parent2", "stale"}
        BY <1>1
      <4> QED  BY <4>1 DEF Passed, Common
    <3>2. p \in Commits
      BY <1>4
    <3>3. CASE d = c
      <4>1. Passed(d)' = Passed(c)
        BY <1>4, <3>1, <3>3
      <4>2. CASE p \in Lacking(c)
        BY <1>1, <3>2, <4>1, <4>2
      <4>3. CASE p \notin Lacking(c)
        BY <1>6, <2>6, <3>2, <3>3, <4>1, <4>3 DEF Lacking
      <4> QED  BY <4>2, <4>3
    <3>4. CASE d # c
      <4>1. d \notin Lacking(c) /\ queue[d] = 0
        BY <1>0, <1>2, <2>6, <3>4
      <4> QED  BY <1>6, <2>1, <2>6, <3>1, <3>2, <4>1 DEF MarkOK
    <3> QED  BY <3>3, <3>4
  <2> QED  BY <1>5, <2>2, <2>3, <2>4, <2>5, <2>6 DEF MarkOK
<1> QED  BY <1>3, <1>5, <1>6, <1>11 DEF Marking

\* When the marking ends, the commits of one side have the mark of that side alone.
LEMMA MarkedSides ==
    ASSUME TypeInv, query.kind = "graph", Marking, ~ MarkOn
    PROVE  /\ \A c \in Only(1, 2) : flags[c] \cap (Both \cup {"result"}) = {"parent1"}
           /\ \A c \in Only(2, 1) : flags[c] \cap (Both \cup {"result"}) = {"parent2"}
<1>0. queue \in [Commits -> Nat]
  BY DEF TypeInv, TypeOK
<1>1. \A c \in Commits : "stale" \notin flags[c] => queue[c] = 0
  BY <1>0 DEF MarkOn, Interesting, Queued
<1>2. \A c \in Commits : MarkOK(c)
  BY DEF Marking
<1>3. /\ Only(1, 2) \in SUBSET Commits /\ Only(2, 1) \in SUBSET Commits
      /\ \A c \in Only(1, 2) : "parent2" \notin flags[c]
      /\ \A c \in Only(2, 1) : "parent1" \notin flags[c]
  <2>1. Only(1, 2) \in SUBSET Commits /\ Only(2, 1) \in SUBSET Commits
    BY OnlyFacts
  <2> QED  BY <1>2, <2>1 DEF MarkOK, Only
<1>4. \A c \in Only(1, 2) \cup Only(2, 1) :
          /\ "stale" \notin flags[c] /\ "result" \notin flags[c]
          /\ \A p \in Parents(c) : Passed(c) \subseteq flags[p]
  BY <1>1, <1>2, <1>3 DEF MarkOK, Both
<1>5. Only(1, 2) \subseteq {c \in Commits : "parent1" \in flags[c]}
  <2> DEFINE T == {c \in Commits : "parent1" \in flags[c]}
  <2>1. Input(1) \in Only(1, 2) => Input(1) \in T
    BY <1>3 DEF Marking
  <2>2. \A c \in Only(1, 2) \cap T : \A p \in Parents(c) \cap Only(1, 2) : p \in T
    BY <1>3, <1>4 DEF Passed
  <2> HIDE DEF T
  <2>3. Only(1, 2) \subseteq T
    BY <2>1, <2>2, OnlyLeast
  <2> QED  BY <2>3 DEF T
<1>6. Only(2, 1) \subseteq {c \in Commits : "parent2" \in flags[c]}
  <2> DEFINE T == {c \in Commits : "parent2" \in flags[c]}
  <2>1. Input(2) \in Only(2, 1) => Input(2) \in T
    BY <1>3 DEF Marking
  <2>2. \A c \in Only(2, 1) \cap T : \A p \in Parents(c) \cap Only(2, 1) : p \in T
    BY <1>3, <1>4 DEF Passed
  <2> HIDE DEF T
  <2>3. Only(2, 1) \subseteq T
    BY <2>1, <2>2, OnlyLeast
  <2> QED  BY <2>3 DEF T
<1> QED  BY <1>3, <1>4, <1>5, <1>6 DEF Both

\* One turn of the loop of ahead_behind, for one of the sides.
LEMMA PopCounting ==
    ASSUME TypeInv, query.kind = "graph", NEW c \in Commits, CountPop(c),
           NEW m \in {1, 2}, NEW n \in {1, 2},
           NEW mine \in Both, NEW other \in Both \ {mine},
           Counting(m, n, mine, other)
    PROVE  /\ Counting(m, n, mine, other)'
           /\ \/ Tally(m, n)' = Tally(m, n)
              \/ /\ ~ Skip(c) /\ mine \in flags[c] /\ other \notin flags[c]
                 /\ Cardinality(Tally(m, n)') = Cardinality(Tally(m, n)) + 1
<1>0. flags \in [Commits -> SUBSET Flags] /\ queue \in [Commits -> Nat]
  BY DEF TypeInv, TypeOK
<1>1. /\ Only(m, n) \in SUBSET Commits /\ Input(m) \in Commits /\ IsFiniteSet(Tally(m, n))
      /\ \A d \in Commits : Parents(d) \subseteq Commits
  BY OnlyFacts, ParentsTyped
<1>2. /\ flags' = [flags EXCEPT ![c] = IF Skip(c) THEN @ ELSE @ \cup {"result"}]
      /\ queue' = [d \in Commits |-> IF d = c THEN queue[d] - 1
                                     ELSE IF ~ Skip(c) /\ d \in Parents(c) THEN queue[d] + 1
                                     ELSE queue[d]]
      /\ UNCHANGED <<repo, query>>
  BY DEF CountPop
<1>3. Only(m, n)' = Only(m, n) /\ Input(m)' = Input(m) /\ \A d : Parents(d)' = Parents(d)
  BY <1>2 DEF Only, Input, Parents
<1>4. /\ \A d \in Commits : flags'[d] = IF d = c /\ ~ Skip(c) THEN flags[d] \cup {"result"} ELSE flags[d]
      /\ \A d \in Commits : d # c /\ queue[d] > 0 => queue'[d] > 0
      /\ ~ Skip(c) => \A d \in Parents(c) : d # c => queue'[d] > 0
  <2>1. \A d \in Commits : flags'[d] = IF d = c /\ ~ Skip(c) THEN flags[d] \cup {"result"} ELSE flags[d]
    BY <1>0, <1>2
  <2>2. \A d \in Commits : queue[d] \in Nat /\ (d # c => queue'[d] =
            IF ~ Skip(c) /\ d \in Parents(c) THEN queue[d] + 1 ELSE queue[d])
    BY <1>0, <1>2
  <2> QED  BY <1>1, <2>1, <2>2
<1>5. c \in Only(m, n) => (Skip(c) <=> "result" \in flags[c])
  BY DEF Counting, Skip, Both
<1>6. ASSUME NEW d \in Only(m, n), "result" \in flags[d] \/ queue[d] > 0
      PROVE  "result" \in flags'[d] \/ queue'[d] > 0
  <2>1. CASE d = c
    BY <1>1, <1>4, <1>5, <2>1
  <2>2. CASE d # c
    BY <1>1, <1>4, <1>6, <2>2
  <2> QED  BY <2>1, <2>2
<1>7. \A d \in Only(m, n) : mine \in flags'[d] /\ other \notin flags'[d]
  BY <1>1, <1>4 DEF Counting, Both
<1>8. Input(m) \in Only(m, n) => "result" \in flags'[Input(m)] \/ queue'[Input(m)] > 0
  BY <1>6 DEF Counting
<1>9. ASSUME NEW d \in Only(m, n), "result" \in flags'[d], NEW p \in Parents(d) \cap Only(m, n)
      PROVE  "result" \in flags'[p] \/ queue'[p] > 0
  <2>1. CASE "result" \in flags[d]
    BY <1>6, <1>9, <2>1 DEF Counting, Tally
  <2>2. CASE "result" \notin flags[d]
    <3>1. d = c /\ ~ Skip(c)
      BY <1>1, <1>4, <1>9, <2>2
    <3>2. p # c => queue'[p] > 0
      BY <1>4, <1>9, <3>1
    <3> QED  BY <1>9, <3>1, <3>2
  <2> QED  BY <2>1, <2>2
<1>10. Counting(m, n, mine, other)'
  BY <1>3, <1>7, <1>8, <1>9 DEF Counting, Tally
<1>11. CASE c \in Only(m, n) /\ "result" \notin flags[c]
  <2>0. \A d \in Only(m, n) : "result" \in flags'[d] <=> d = c \/ "result" \in flags[d]
    BY <1>1, <1>4, <1>5, <1>11
  <2>1. Tally(m, n)' = Tally(m, n) \cup {c} /\ c \notin Tally(m, n)
    BY <1>3, <1>11, <2>0 DEF Tally
  <2>2. Cardinality(Tally(m, n) \cup {c}) = Cardinality(Tally(m, n)) + 1
    BY <1>1, <2>1, FS_AddElement
  <2> QED  BY <1>5, <1>10, <1>11, <2>1, <2>2 DEF Counting
<1>12. CASE ~ (c \in Only(m, n) /\ "result" \notin flags[c])
  <2>0. \A d \in Only(m, n) : "result" \in flags'[d] <=> "result" \in flags[d]
    BY <1>1, <1>4, <1>5, <1>12
  <2>1. Tally(m, n)' = Tally(m, n)
    BY <1>3, <2>0 DEF Tally
  <2> QED  BY <1>10, <2>1
<1> QED  BY <1>11, <1>12

\* With an empty heap, all of a side has been counted.
LEMMA CountedSide ==
    ASSUME TypeInv, query.kind = "graph", Queued = {},
           NEW m \in {1, 2}, NEW n \in {1, 2}, NEW mine, NEW other,
           Counting(m, n, mine, other)
    PROVE  Tally(m, n) = Only(m, n)
<1>1. Only(m, n) \in SUBSET Commits /\ queue \in [Commits -> Nat]
  BY OnlyFacts DEF TypeInv, TypeOK
<1>2. \A c \in Only(m, n) : ~ (queue[c] > 0)
  BY <1>1 DEF Queued
<1>3. Input(m) \in Only(m, n) => Input(m) \in Tally(m, n)
  BY <1>2 DEF Counting, Tally
<1>4. \A c \in Only(m, n) \cap Tally(m, n) : \A p \in Parents(c) \cap Only(m, n) : p \in Tally(m, n)
  BY <1>2 DEF Counting, Tally
<1>5. Only(m, n) \subseteq Tally(m, n)
  BY <1>3, <1>4, OnlyLeast
<1> QED  BY <1>5 DEF Tally

\* mark_parents begins.
LEMMA AskCount ==
    ASSUME IInv, CountInv, TypeInv', AskGraph
    PROVE  CountInv'
<1>0. /\ pc = "ask" /\ query.kind = "graph" /\ UNCHANGED <<repo, query>> /\ flags = NoFlags
      /\ TypeInv /\ ahead \in Nat /\ behind \in Nat
  BY DEF AskGraph, CountInv, IInv, TypeInv, TypeOK
<1>1. /\ Input(1) \in Commits /\ Input(2) \in Commits
      /\ Input(1) \in Below(repo, {Input(1)}) /\ Input(2) \in Below(repo, {Input(2)})
  BY <1>0, OnlyFacts
<1>2. Input(1)' = Input(1) /\ Input(2)' = Input(2) /\ \A d : Parents(d)' = Parents(d)
  BY <1>0 DEF Input, Parents
<1>3. CASE Fail
  BY <1>3 DEF Fail, CountInv, Counted
<1>4. CASE Input(1) = Input(2) /\ pc' = "count" /\ UNCHANGED answer
  <2>1. Only(1, 2)' = {} /\ Only(2, 1)' = {}
    BY <1>2, <1>4 DEF Only
  <2>2. Tally(1, 2)' = {} /\ Tally(2, 1)' = {}
    BY <2>1 DEF Tally
  <2>3. ahead' >= 0 /\ behind' >= 0
    BY <1>0, <1>4 DEF answer
  <2>4. Counting(1, 2, "parent1", "parent2")' /\ Counting(2, 1, "parent2", "parent1")'
    BY <2>1, <2>2 DEF Counting
  <2>5. ahead' >= Cardinality(Tally(1, 2)') /\ behind' >= Cardinality(Tally(2, 1)')
    BY <2>2, <2>3, FS_EmptySet
  <2> QED  BY <1>4, <2>4, <2>5 DEF CountInv, Counted
<1>5. CASE /\ Input(1) # Input(2) /\ pc' = "mark" /\ one' = Input(1) /\ twos' = {Input(2)}
           /\ flags' = [flags EXCEPT ![Input(1)] = {"parent1"}, ![Input(2)] = {"parent2"}]
           /\ queue' = Times({Input(1), Input(2)})
  <2>1. \A d \in Commits : flags'[d] = IF d = Input(2) THEN {"parent2"}
                                       ELSE IF d = Input(1) THEN {"parent1"} ELSE {}
    BY <1>0, <1>1, <1>5 DEF NoFlags
  <2>2. \A d \in Commits : queue'[d] = 0 => d # Input(1) /\ d # Input(2)
    BY <1>5 DEF Times
  <2>3. flags'[Input(1)] = {"parent1"} /\ flags'[Input(2)] = {"parent2"}
    <3>1. Input(1) # Input(2)
      BY <1>5
    <3> QED  BY <1>1, <2>1, <3>1
  <2>4. ASSUME NEW d \in Commits PROVE MarkOK(d)'
    <3>1. queue'[d] = 0 => Passed(d)' = {}
      <4>1. queue'[d] = 0 => flags'[d] = {}
        BY <2>1, <2>2
      <4> QED  BY <4>1 DEF Passed, Common, Both
    <3>2. /\ "parent1" \in flags'[d] => d = Input(1)
          /\ "parent2" \in flags'[d] => d = Input(2)
          /\ "stale" \notin flags'[d] /\ "result" \notin flags'[d]
      BY <2>1
    <3> QED  BY <1>0, <1>1, <1>2, <3>1, <3>2 DEF MarkOK
  <2>5. Marking'
    BY <1>2, <2>3, <2>4 DEF Marking
  <2> QED  BY <1>2, <1>5, <2>5 DEF CountInv, Counted
<1> QED  BY <1>0, <1>3, <1>4, <1>5 DEF AskGraph

\* mark_parents ends, and the counting begins from the two inputs.
LEMMA MarkedCount ==
    ASSUME IInv, CountInv, TypeInv', Marked
    PROVE  CountInv'
<1>0. /\ pc = "mark" /\ ~ MarkOn /\ Marking /\ TypeInv /\ query.kind = "graph"
      /\ pc' = "count" /\ UNCHANGED <<repo, query, flags, ahead, behind, one, twos>>
      /\ queue' = Times({one} \cup twos)
      /\ ahead \in Nat /\ behind \in Nat
  BY DEF Marked, CountInv, IInv, CallInv, TypeInv, TypeOK, work, answer
<1>1. one = Input(1) /\ twos = {Input(2)}
  BY <1>0 DEF CountInv
<1>2. /\ Only(1, 2)' = Only(1, 2) /\ Only(2, 1)' = Only(2, 1)
      /\ Input(1)' = Input(1) /\ Input(2)' = Input(2) /\ flags' = flags
  BY <1>0 DEF Only, Input
<1>3. /\ \A c \in Only(1, 2) : flags[c] \cap (Both \cup {"result"}) = {"parent1"}
      /\ \A c \in Only(2, 1) : flags[c] \cap (Both \cup {"result"}) = {"parent2"}
  BY <1>0, MarkedSides
<1>4. Input(1) \in Commits /\ Input(2) \in Commits
  BY <1>0, OnlyFacts
<1>5. queue'[Input(1)] > 0 /\ queue'[Input(2)] > 0
  BY <1>0, <1>1, <1>4 DEF Times
<1>6. Tally(1, 2)' = {} /\ Tally(2, 1)' = {}
  BY <1>2, <1>3 DEF Tally
<1>7. Counting(1, 2, "parent1", "parent2")'
  BY <1>2, <1>3, <1>5, <1>6 DEF Counting, Both
<1>8. Counting(2, 1, "parent2", "parent1")'
  BY <1>2, <1>3, <1>5, <1>6 DEF Counting, Both
<1>9. ahead' >= Cardinality(Tally(1, 2)') /\ behind' >= Cardinality(Tally(2, 1)')
  BY <1>0, <1>6, FS_EmptySet
<1> QED  BY <1>0, <1>7, <1>8, <1>9 DEF CountInv, Counted

\* The counting, and its end.
LEMMA CountCount ==
    ASSUME IInv, CountInv, TypeInv', (\E c \in Commits : CountPop(c)) \/ CountEnd
    PROVE  CountInv'
<1>0. /\ pc = "count" /\ TypeInv /\ query.kind = "graph" /\ UNCHANGED <<repo, query>>
      /\ Counting(1, 2, "parent1", "parent2") /\ Counting(2, 1, "parent2", "parent1")
      /\ ahead >= Cardinality(Tally(1, 2)) /\ behind >= Cardinality(Tally(2, 1))
      /\ ahead \in Nat /\ behind \in Nat
  BY DEF CountPop, CountEnd, CountInv, IInv, CallInv, TypeInv, TypeOK
<1>1. Cardinality(Tally(1, 2)) \in Nat /\ Cardinality(Tally(2, 1)) \in Nat
  <2>1. IsFiniteSet(Tally(1, 2)) /\ IsFiniteSet(Tally(2, 1))
    BY <1>0, OnlyFacts
  <2> QED  BY <2>1, FS_CardinalityType
<1>2. ASSUME NEW c \in Commits, CountPop(c) PROVE CountInv'
  <2>1. /\ pc' = "count"
        /\ ahead' = IF ~ Skip(c) /\ "parent1" \in flags[c] THEN ahead + 1 ELSE ahead
        /\ behind' = IF ~ Skip(c) /\ "parent1" \notin flags[c] /\ "parent2" \in flags[c]
                     THEN behind + 1 ELSE behind
    BY <1>2, <1>0 DEF CountPop
  <2>2. /\ Counting(1, 2, "parent1", "parent2")'
        /\ \/ Tally(1, 2)' = Tally(1, 2)
           \/ /\ ~ Skip(c) /\ "parent1" \in flags[c] /\ "parent2" \notin flags[c]
              /\ Cardinality(Tally(1, 2)') = Cardinality(Tally(1, 2)) + 1
    <3>1. "parent1" \in Both /\ "parent2" \in Both \ {"parent1"}
      BY DEF Both
    <3> QED  BY <1>0, <1>2, <3>1, PopCounting
  <2>3. /\ Counting(2, 1, "parent2", "parent1")'
        /\ \/ Tally(2, 1)' = Tally(2, 1)
           \/ /\ ~ Skip(c) /\ "parent2" \in flags[c] /\ "parent1" \notin flags[c]
              /\ Cardinality(Tally(2, 1)') = Cardinality(Tally(2, 1)) + 1
    <3>1. "parent2" \in Both /\ "parent1" \in Both \ {"parent2"}
      BY DEF Both
    <3> QED  BY <1>0, <1>2, <3>1, PopCounting
  <2>4. ahead' >= Cardinality(Tally(1, 2)')
    BY <1>0, <1>1, <2>1, <2>2
  <2>5. behind' >= Cardinality(Tally(2, 1)')
    BY <1>0, <1>1, <2>1, <2>3
  <2> QED  BY <2>1, <2>2, <2>3, <2>4, <2>5 DEF CountInv, Counted
<1>3. CASE CountEnd
  <2>1. pc' = "done" /\ UNCHANGED <<ahead, behind>> /\ Queued = {}
    BY <1>3 DEF CountEnd
  <2>2. Tally(1, 2) = Only(1, 2) /\ Tally(2, 1) = Only(2, 1)
    BY <1>0, <2>1, CountedSide
  <2>3. Only(1, 2)' = Only(1, 2) /\ Only(2, 1)' = Only(2, 1)
    BY <1>0 DEF Only, Input
  <2> QED  BY <1>0, <2>1, <2>2, <2>3 DEF CountInv, Counted
<1> QED  BY <1>2, <1>3

LEMMA NextCount == IInv /\ CountInv /\ [Next]_vars => CountInv'
<1> SUFFICES ASSUME IInv, CountInv, [Next]_vars PROVE CountInv'
  OBVIOUS
<1>1. TypeInv /\ TypeInv'
  BY NextTyped DEF IInv
<1>2. CASE UNCHANGED vars
  <2>1. UNCHANGED <<repo, query, pc, flags, queue, status, ahead, behind, one, twos>>
    BY <1>2 DEF vars, paint, work, answer
  <2>2. Marking' = Marking
    BY <2>1 DEF Marking, MarkOK, Input, Parents, Passed, Common
  <2>3. /\ Only(1, 2)' = Only(1, 2) /\ Only(2, 1)' = Only(2, 1)
        /\ Tally(1, 2)' = Tally(1, 2) /\ Tally(2, 1)' = Tally(2, 1)
        /\ Input(1)' = Input(1) /\ Input(2)' = Input(2)
    BY <2>1 DEF Only, Tally, Input
  <2>4. Counting(1, 2, "parent1", "parent2")' = Counting(1, 2, "parent1", "parent2")
    BY <2>1, <2>3 DEF Counting, Parents
  <2>5. Counting(2, 1, "parent2", "parent1")' = Counting(2, 1, "parent2", "parent1")
    BY <2>1, <2>3 DEF Counting, Parents
  <2> QED  BY <2>1, <2>2, <2>3, <2>4, <2>5 DEF CountInv, Counted
<1>3. ASSUME NEW c \in Commits, MarkPop(c) PROVE CountInv'
  <2>1. /\ pc = "mark" /\ query.kind = "graph" /\ Marking
        /\ UNCHANGED <<repo, query, one, twos>>
    BY <1>3 DEF MarkPop, CountInv, IInv, CallInv, work
  <2>2. CASE Fail
    BY <2>2 DEF Fail, CountInv, Counted
  <2>3. CASE PassOn(c) /\ UNCHANGED pc
    <3>1. Marking'
      BY <1>1, <2>1, <2>3, PopMarking
    <3>2. one' = Input(1)' /\ twos' = {Input(2)'}
      BY <2>1 DEF CountInv, Input
    <3> QED  BY <2>1, <2>3, <3>1, <3>2 DEF CountInv, Counted
  <2> QED  BY <1>3, <2>2, <2>3 DEF MarkPop
<1>4. CASE AskSelf \/ AskRepeated \/ AskBases
  <2>1. pc = "ask" /\ UNCHANGED query /\ query.kind # "graph"
    BY <1>4 DEF AskSelf, AskRepeated, AskBases
  <2>2. pc' \in {"ask", "paint", "done"}
    BY <1>4, <2>1 DEF AskSelf, AskRepeated, AskBases, Answer, AnswerBases, AnswerDescendant,
       AnswerOctopus, Fail, StartPaint
  <2> QED  BY <2>1, <2>2 DEF CountInv, Counted
<1>5. CASE \/ \E c \in Commits : PaintPop(c) \/ Candidate(c)
           \/ PaintedBases \/ ClearMarks \/ Cleared \/ PaintedCandidate \/ CandidatesEnd
  <2>1. pc \in {"paint", "clear", "candidate"} /\ UNCHANGED query
    BY <1>5 DEF PaintPop, PaintedBases, ClearMarks, Cleared, Candidate, PaintedCandidate, CandidatesEnd
  <2>2. pc' \in {"ask", "paint", "clear", "candidate", "done"}
    BY <1>5, <2>1 DEF PaintPop, PaintedBases, ClearMarks, Cleared, Candidate, PaintedCandidate,
       CandidatesEnd, Answer, AnswerBases, AnswerDescendant, AnswerOctopus, Fail, StartPaint
  <2> QED  BY <2>1, <2>2 DEF CountInv, Counted
<1> QED  BY <1>1, <1>2, <1>3, <1>4, <1>5, AskCount, MarkedCount, CountCount DEF Next

\* git_graph_ahead_behind counts every commit that only one of the two has, whatever the
\* dates are.
THEOREM NoneIsMissed == Spec => []NoneMissed
<1>1. Init => CountInv
  BY DEF Init, CountInv, Counted
<1>2. IInv /\ CountInv => NoneMissed
  <2>1. OnlyIn(1, 2) = Only(1, 2) /\ OnlyIn(2, 1) = Only(2, 1)
    BY AncestorsBelow DEF OnlyIn, Only
  <2> QED  BY <2>1 DEF CountInv, NoneMissed
<1> QED  BY <1>1, <1>2, IInvAlways, NextCount, PTL DEF Spec

-----------------------------------------------------------------------------
(* Ahead and behind are exact where every commit is newer than its parents: *)
(* then a commit is popped after all that pass marks on to it, and has its  *)
(* last mark when it is.                                                    *)

Alone == Only(1, 2) \cup Only(2, 1)

\* What ahead_behind can meet: the two commits, and the parents of what it counts.
Met == {Input(1), Input(2)} \cup UNION {Parents(d) : d \in Alone}

\* Nothing in the heap is newer than a marked commit that has left it.
ByTime == \A c \in Commits : queue[c] = 0 /\ flags[c] # {} =>
              \A q \in Queued : repo.time[q] <= repo.time[c]

ExactInv ==
    /\ pc \notin {"count", "done"} => ahead = 0 /\ behind = 0
    /\ ParentsOlder =>
          /\ pc = "mark" => ByTime
          /\ pc = "count" => /\ \A c \in Met \ Alone : Both \subseteq flags[c]
                             /\ Queued \subseteq Met
                             /\ ahead <= Cardinality(Tally(1, 2))
                             /\ behind <= Cardinality(Tally(2, 1))
          /\ Counted => /\ ahead <= Cardinality(Only(1, 2))
                        /\ behind <= Cardinality(Only(2, 1))

LEMMA TimeFacts ==
    ASSUME TypeInv
    PROVE  /\ \A c \in Commits : repo.time[c] \in Nat
           /\ \A c \in Commits : \A p \in Parents(c) : p \in Commits /\ p # c
<1>1. repo \in Repositories /\ repo \in Repository
  BY DEF TypeInv, TypeOK
<1> QED  BY <1>1, RepoFacts DEF Repository, Parents

\* Where parents are older, every proper ancestor is.
LEMMA BelowOlder ==
    ASSUME TypeInv, ParentsOlder, NEW c \in Commits, NEW d \in Below(repo, {c}), d # c
    PROVE  repo.time[d] < repo.time[c]
<1> DEFINE T == {e \in Commits : e = c \/ repo.time[e] < repo.time[c]}
<1>1. Closed(repo, T)
  <2> SUFFICES ASSUME NEW e \in T, NEW p \in repo.parents[e] PROVE p \in T
    BY DEF Closed
  <2>1. p \in Commits /\ repo.time[p] < repo.time[e]
    BY TimeFacts DEF ParentsOlder, Parents
  <2> QED  BY <2>1, TimeFacts
<1>2. T \in SUBSET Commits /\ {c} \subseteq T
  OBVIOUS
<1>3. repo \in Repositories
  BY DEF TypeInv
<1> HIDE DEF T
<1>4. d \in T
  BY <1>1, <1>2, <1>3, BelowLeast
<1> QED  BY <1>4 DEF T

LEMMA MetFacts ==
    ASSUME TypeInv, query.kind = "graph"
    PROVE  /\ Met \in SUBSET Commits /\ Alone \in SUBSET Commits
           /\ Met \ Alone \subseteq Below(repo, {Input(1)}) \cap Below(repo, {Input(2)})
<1>1. /\ Input(1) \in Commits /\ Input(2) \in Commits /\ repo \in Repositories
      /\ Only(1, 2) \in SUBSET Commits /\ Only(2, 1) \in SUBSET Commits
      /\ Only(1, 2) \subseteq Below(repo, {Input(1)}) /\ Only(2, 1) \subseteq Below(repo, {Input(2)})
      /\ Input(1) \in Below(repo, {Input(1)}) /\ Input(2) \in Below(repo, {Input(2)})
      /\ Closed(repo, Below(repo, {Input(1)})) /\ Closed(repo, Below(repo, {Input(2)}))
  BY OnlyFacts
<1>2. \A d \in Alone : Parents(d) \subseteq Commits
  BY <1>1, TimeFacts DEF Alone
<1>3. Met \subseteq Below(repo, {Input(1)}) \cup Below(repo, {Input(2)})
  BY <1>1 DEF Met, Alone, Closed, Parents
<1>4. Met \in SUBSET Commits /\ Alone \in SUBSET Commits
  BY <1>1, <1>2 DEF Met, Alone
<1> QED  BY <1>3, <1>4 DEF Alone, Only

LEMMA PopByTime ==
    ASSUME TypeInv, ParentsOlder, ByTime, NEW c \in Commits, Newest(c), PassOn(c), UNCHANGED repo
    PROVE  ByTime'
<1>0. flags \in [Commits -> SUBSET Flags] /\ queue \in [Commits -> Nat]
  BY DEF TypeInv, TypeOK
<1>1. /\ \A d \in Commits : d # c /\ d \notin Lacking(c) => flags'[d] = flags[d] /\ queue'[d] = queue[d]
      /\ \A d \in Commits : d # c /\ d \in Lacking(c) => queue'[d] = queue[d] + 1
  BY <1>0 DEF PassOn
<1>2. Lacking(c) \subseteq Parents(c) /\ c \in Queued
      /\ \A q \in Queued : repo.time[q] <= repo.time[c]
  BY DEF Lacking, Newest
<1>3. ASSUME NEW q \in Queued' PROVE q \in Commits /\ repo.time[q] <= repo.time[c]
  <2>1. q \in Commits /\ queue'[q] > 0
    BY <1>3 DEF Queued
  <2>2. CASE q = c \/ q \in Queued
    BY <1>2, <2>1, <2>2
  <2>3. CASE q # c /\ q \notin Queued
    <3>1. q \in Lacking(c)
      BY <1>0, <1>1, <2>1, <2>3 DEF Queued
    <3> QED  BY <1>2, <2>1, <3>1, TimeFacts DEF ParentsOlder
  <2> QED  BY <2>2, <2>3
<1>4. ASSUME NEW d \in Commits, queue'[d] = 0, flags'[d] # {} PROVE repo.time[c] <= repo.time[d]
  <2>1. CASE d = c
    BY <2>1, TimeFacts
  <2>2. CASE d # c
    <3>1. d \notin Lacking(c)
      BY <1>0, <1>1, <1>4, <2>2
    <3> QED  BY <1>1, <1>2, <1>4, <2>2, <3>1 DEF ByTime
  <2> QED  BY <2>1, <2>2
<1> QED  BY <1>3, <1>4, TimeFacts DEF ByTime

\* When the marking ends, a common commit that the counting can meet has both marks:
\* what it lacks would have to come from a commit of the heap, and that one is newer.
LEMMA MarkedMet ==
    ASSUME TypeInv, query.kind = "graph", Marking, ~ MarkOn, ParentsOlder, ByTime,
           NEW c \in Met \ Alone
    PROVE  Both \subseteq flags[c]
<1>0. /\ queue \in [Commits -> Nat] /\ repo \in Repositories /\ c \in Commits
      /\ Input(1) \in Commits /\ Input(2) \in Commits
      /\ c \in Below(repo, {Input(1)}) /\ c \in Below(repo, {Input(2)})
  BY MetFacts, OnlyFacts DEF TypeInv, TypeOK
<1>1. \A d \in Queued : d \in Commits /\ Both \subseteq flags[d]
  BY <1>0 DEF MarkOn, Interesting, Queued, Marking, MarkOK
<1>2. \A d \in Commits : d \notin Queued => queue[d] = 0
  BY <1>0 DEF Queued
<1>3. \A d \in Commits \ Queued : \A p \in Parents(d) : Passed(d) \subseteq flags[p]
  BY <1>2 DEF Marking, MarkOK
<1>4. flags[c] # {}
  <2>1. CASE c \in {Input(1), Input(2)}
    BY <2>1 DEF Marking
  <2>2. ASSUME NEW d \in Alone, c \in Parents(d) PROVE flags[c] # {}
    <3>1. /\ d \in Commits
          /\ \/ "parent1" \in flags[d] /\ "parent2" \notin flags[d]
             \/ "parent2" \in flags[d] /\ "parent1" \notin flags[d]
      BY MarkedSides, MetFacts DEF Alone, Both
    <3>2. d \notin Queued
      BY <1>1, <3>1 DEF Both
    <3> QED  BY <1>3, <2>2, <3>1, <3>2 DEF Passed
  <2> QED  BY <2>1, <2>2 DEF Met
<1>5. ASSUME NEW m \in {1, 2}, NEW f \in Both, f \in flags[Input(m)]
      PROVE  f \in flags[c]
  <2> DEFINE U == {d \in Commits : f \in flags[d] \/ \E q \in Queued : d # q /\ d \in Below(repo, {q})}
  <2>1. Closed(repo, U)
    <3> SUFFICES ASSUME NEW d \in U, NEW p \in repo.parents[d] PROVE p \in U
      BY DEF Closed
    <3>1. p \in Commits /\ p \in Parents(d) /\ p # d /\ Rank[d] < Rank[p]
      BY <1>0, RepoFacts DEF Parents
    <3>2. CASE d \notin Queued /\ f \in flags[d]
      BY <1>3, <3>1, <3>2 DEF Passed, Both
    <3>3. ASSUME NEW q \in Queued, d \in Below(repo, {q}) PROVE p \in U
      <4>1. q \in Commits /\ {q} \in SUBSET Commits
        BY <1>1
      <4>2. p \in Below(repo, {q})
        BY <1>0, <3>3, <4>1, BelowHolds DEF Closed
      <4>3. p # q
        <5>1. d = q \/ Rank[q] < Rank[d]
          BY <1>0, <3>3, <4>1, BelowRank
        <5> QED  BY <1>0, <3>1, <4>1, <5>1, RepoFacts
      <4> QED  BY <3>1, <4>2, <4>3
    <3>4. CASE d \in Queued
      <4>1. d \in Below(repo, {d})
        BY <1>0, SelfBelow
      <4> QED  BY <3>3, <3>4, <4>1
    <3> QED  BY <3>2, <3>3, <3>4
  <2>2. U \in SUBSET Commits /\ {Input(m)} \subseteq U
    BY <1>0, <1>5
  <2> HIDE DEF U
  <2>3. c \in U
    BY <1>0, <2>1, <2>2, BelowLeast
  <2>4. ASSUME NEW q \in Queued, c # q, c \in Below(repo, {q}) PROVE c \in Queued
    <3>1. repo.time[c] < repo.time[q] /\ q \in Commits
      BY <1>1, <2>4, BelowOlder
    <3> QED  BY <1>0, <1>2, <1>4, <3>1, TimeFacts DEF ByTime
  <2> QED  BY <1>1, <2>3, <2>4 DEF U
<1> QED  BY <1>5 DEF Marking, Both

\* A commit that ahead_behind counts is of one side only.
LEMMA PopExact ==
    ASSUME TypeInv, query.kind = "graph", NEW c \in Commits, CountPop(c),
           Counting(1, 2, "parent1", "parent2"), Counting(2, 1, "parent2", "parent1"),
           \A d \in Met \ Alone : Both \subseteq flags[d], Queued \subseteq Met,
           ahead <= Cardinality(Tally(1, 2)), behind <= Cardinality(Tally(2, 1))
    PROVE  /\ \A d \in Met' \ Alone' : Both \subseteq flags'[d]
           /\ Queued' \subseteq Met'
           /\ ahead' <= Cardinality(Tally(1, 2)') /\ behind' <= Cardinality(Tally(2, 1)')
<1>0. /\ flags \in [Commits -> SUBSET Flags] /\ queue \in [Commits -> Nat]
      /\ ahead \in Nat /\ behind \in Nat
      /\ Met \in SUBSET Commits /\ Alone \in SUBSET Commits
  BY MetFacts DEF TypeInv, TypeOK
<1>1. /\ flags' = [flags EXCEPT ![c] = IF Skip(c) THEN @ ELSE @ \cup {"result"}]
      /\ queue' = [d \in Commits |-> IF d = c THEN queue[d] - 1
                                     ELSE IF ~ Skip(c) /\ d \in Parents(c) THEN queue[d] + 1
                                     ELSE queue[d]]
      /\ c \in Queued /\ UNCHANGED <<repo, query>>
      /\ ahead'  = IF ~ Skip(c) /\ "parent1" \in flags[c] THEN ahead + 1 ELSE ahead
      /\ behind' = IF ~ Skip(c) /\ "parent1" \notin flags[c] /\ "parent2" \in flags[c]
                   THEN behind + 1 ELSE behind
  BY DEF CountPop, Newest
<1>2. Met' = Met /\ Alone' = Alone
  BY <1>1 DEF Met, Alone, Only, Input, Parents
<1>3. \A d \in Commits : flags[d] \subseteq flags'[d]
  BY <1>0, <1>1
<1>4. ~ Skip(c) => c \in Alone /\ "result" \notin flags[c] /\ "result" \in flags'[c]
  BY <1>0, <1>1 DEF Skip
<1>5. Queued' \subseteq Met
  <2> SUFFICES ASSUME NEW d \in Commits, queue'[d] > 0, d \notin Queued PROVE d \in Met
    BY <1>0 DEF Queued
  <2>1. ~ Skip(c) /\ d \in Parents(c)
    BY <1>0, <1>1 DEF Queued
  <2> QED  BY <1>4, <2>1 DEF Met
<1>6. /\ \/ Tally(1, 2)' = Tally(1, 2)
         \/ /\ ~ Skip(c) /\ "parent1" \in flags[c] /\ "parent2" \notin flags[c]
            /\ Cardinality(Tally(1, 2)') = Cardinality(Tally(1, 2)) + 1
      /\ \/ Tally(2, 1)' = Tally(2, 1)
         \/ /\ ~ Skip(c) /\ "parent2" \in flags[c] /\ "parent1" \notin flags[c]
            /\ Cardinality(Tally(2, 1)') = Cardinality(Tally(2, 1)) + 1
  <2>1. "parent1" \in Both \ {"parent2"} /\ "parent2" \in Both \ {"parent1"}
    BY DEF Both
  <2> QED  BY <2>1, PopCounting
<1>7. Cardinality(Tally(1, 2)) \in Nat /\ Cardinality(Tally(2, 1)) \in Nat
  <2>1. IsFiniteSet(Tally(1, 2)) /\ IsFiniteSet(Tally(2, 1))
    BY OnlyFacts
  <2> QED  BY <2>1, FS_CardinalityType
<1>8. /\ ~ Skip(c) /\ "parent1" \in flags[c] => c \in Only(1, 2)
      /\ ~ Skip(c) /\ "parent1" \notin flags[c] => c \in Only(2, 1)
  BY <1>4 DEF Alone, Counting
<1>9. /\ ~ Skip(c) /\ "parent1" \in flags[c] => Tally(1, 2)' # Tally(1, 2)
      /\ ~ Skip(c) /\ "parent1" \notin flags[c] => Tally(2, 1)' # Tally(2, 1)
  <2>1. Only(1, 2)' = Only(1, 2) /\ Only(2, 1)' = Only(2, 1)
    BY <1>1 DEF Only, Input
  <2> QED  BY <1>4, <1>8, <2>1 DEF Tally
<1>10. ahead' <= Cardinality(Tally(1, 2)') /\ behind' <= Cardinality(Tally(2, 1)')
  <2>1. ahead' <= Cardinality(Tally(1, 2)')
    BY <1>0, <1>1, <1>6, <1>7, <1>9
  <2>2. behind' <= Cardinality(Tally(2, 1)')
    BY <1>0, <1>1, <1>6, <1>7, <1>9
  <2> QED  BY <2>1, <2>2
<1> QED  BY <1>0, <1>2, <1>3, <1>5, <1>10

LEMMA AskExact ==
    ASSUME IInv, CountInv, ExactInv, TypeInv', AskGraph
    PROVE  ExactInv'
<1>0. /\ pc = "ask" /\ query.kind = "graph" /\ UNCHANGED <<repo, query>>
      /\ TypeInv /\ ahead = 0 /\ behind = 0
  BY DEF AskGraph, ExactInv, IInv
<1>1. /\ Input(1) \in Commits /\ Input(2) \in Commits
  BY <1>0, OnlyFacts
<1>2. CASE Fail
  BY <1>2 DEF Fail, ExactInv, Counted
<1>3. CASE /\ Input(1) = Input(2) /\ pc' = "count" /\ UNCHANGED answer
           /\ flags' = [flags EXCEPT ![Input(1)] = Both \cup {"result"}]
           /\ queue' = [NoQueue EXCEPT ![Input(1)] = 2]
  <2>1. Only(1, 2)' = {} /\ Only(2, 1)' = {} /\ Input(1)' = Input(1) /\ Input(2)' = Input(1)
    BY <1>0, <1>3 DEF Only, Input
  <2>2. Tally(1, 2)' = {} /\ Tally(2, 1)' = {} /\ Met' = {Input(1)}
    BY <2>1 DEF Tally, Met, Alone
  <2>3. ahead' = 0 /\ behind' = 0
    BY <1>0, <1>3 DEF answer
  <2>4. ahead' <= Cardinality(Tally(1, 2)') /\ behind' <= Cardinality(Tally(2, 1)')
    BY <2>2, <2>3, FS_EmptySet
  <2>5. Queued' \subseteq Met'
    BY <1>1, <1>3, <2>2 DEF Queued, NoQueue
  <2>6. Both \subseteq flags'[Input(1)]
    BY <1>0, <1>1, <1>3 DEF TypeInv, TypeOK
  <2> QED  BY <1>3, <2>2, <2>4, <2>5, <2>6 DEF ExactInv, Counted
<1>4. CASE /\ pc' = "mark" /\ UNCHANGED answer
           /\ flags' = [flags EXCEPT ![Input(1)] = {"parent1"}, ![Input(2)] = {"parent2"}]
           /\ queue' = Times({Input(1), Input(2)})
  <2>1. flags = NoFlags
    BY <1>0 DEF CountInv
  <2>2. ByTime'
    BY <1>1, <1>4, <2>1 DEF ByTime, NoFlags, Times
  <2> QED  BY <1>0, <1>4, <2>2 DEF ExactInv, Counted, answer
<1> QED  BY <1>0, <1>2, <1>3, <1>4 DEF AskGraph

LEMMA NextExact == IInv /\ CountInv /\ ExactInv /\ [Next]_vars => ExactInv'
<1> SUFFICES ASSUME IInv, CountInv, ExactInv, [Next]_vars PROVE ExactInv'
  OBVIOUS
<1>1. TypeInv /\ TypeInv'
  BY NextTyped DEF IInv
<1>2. CASE UNCHANGED vars
  <2>1. UNCHANGED <<repo, query, pc, flags, queue, status, ahead, behind>>
    BY <1>2 DEF vars, paint, work, answer
  <2>2. /\ Only(1, 2)' = Only(1, 2) /\ Only(2, 1)' = Only(2, 1)
        /\ Tally(1, 2)' = Tally(1, 2) /\ Tally(2, 1)' = Tally(2, 1)
        /\ Met' = Met /\ Alone' = Alone /\ Queued' = Queued /\ ParentsOlder' = ParentsOlder
    BY <2>1 DEF Only, Tally, Input, Met, Alone, Parents, Queued, ParentsOlder
  <2>3. ByTime' = ByTime
    BY <2>1, <2>2 DEF ByTime
  <2> QED  BY <2>1, <2>2, <2>3 DEF ExactInv, Counted
<1>3. ASSUME NEW c \in Commits, MarkPop(c) PROVE ExactInv'
  <2>1. pc = "mark" /\ Newest(c) /\ UNCHANGED repo /\ ahead = 0 /\ behind = 0
    BY <1>3 DEF MarkPop, ExactInv
  <2>2. CASE Fail
    BY <2>2 DEF Fail, ExactInv, Counted
  <2>3. CASE PassOn(c) /\ UNCHANGED <<pc, answer>>
    <3>1. ParentsOlder' = ParentsOlder
      BY <2>1 DEF ParentsOlder, Parents
    <3>2. ParentsOlder => ByTime'
      BY <1>1, <2>1, <2>3, PopByTime DEF ExactInv
    <3> QED  BY <2>1, <2>3, <3>1, <3>2 DEF ExactInv, Counted, answer
  <2> QED  BY <1>3, <2>2, <2>3 DEF MarkPop
<1>4. CASE Marked
  <2>1. /\ pc = "mark" /\ ~ MarkOn /\ Marking /\ query.kind = "graph" /\ pc' = "count"
        /\ UNCHANGED <<repo, query, flags, ahead, behind>> /\ ahead = 0 /\ behind = 0
        /\ queue' = Times({Input(1), Input(2)})
    BY <1>4 DEF Marked, CountInv, ExactInv, IInv, CallInv, work, answer
  <2>2. /\ ParentsOlder' = ParentsOlder /\ Met' = Met /\ Alone' = Alone
        /\ Only(1, 2)' = Only(1, 2) /\ Only(2, 1)' = Only(2, 1)
    BY <2>1 DEF ParentsOlder, Met, Alone, Only, Input, Parents
  <2>3. ParentsOlder => \A c \in Met \ Alone : Both \subseteq flags[c]
    BY <1>1, <2>1, MarkedMet DEF ExactInv
  <2>4. Queued' \subseteq Met
    BY <2>1 DEF Queued, Times, Met
  <2>5. Tally(1, 2)' = {} /\ Tally(2, 1)' = {}
    BY <1>1, <2>1, <2>2, MarkedSides DEF Tally
  <2>6. ahead' <= Cardinality(Tally(1, 2)') /\ behind' <= Cardinality(Tally(2, 1)')
    BY <2>1, <2>5, FS_EmptySet
  <2> QED  BY <2>1, <2>2, <2>3, <2>4, <2>6 DEF ExactInv, Counted
<1>5. ASSUME NEW c \in Commits, CountPop(c) PROVE ExactInv'
  <2>1. /\ pc = "count" /\ pc' = "count" /\ query.kind = "graph" /\ UNCHANGED <<repo, query>>
        /\ Counting(1, 2, "parent1", "parent2") /\ Counting(2, 1, "parent2", "parent1")
    BY <1>5 DEF CountPop, CountInv, IInv, CallInv
  <2>2. ParentsOlder' = ParentsOlder
    BY <2>1 DEF ParentsOlder, Parents
  <2>3. ASSUME ParentsOlder
        PROVE  /\ \A d \in Met' \ Alone' : Both \subseteq flags'[d]
               /\ Queued' \subseteq Met'
               /\ ahead' <= Cardinality(Tally(1, 2)') /\ behind' <= Cardinality(Tally(2, 1)')
    BY <1>1, <1>5, <2>1, <2>3, PopExact DEF ExactInv
  <2> QED  BY <2>1, <2>2, <2>3 DEF ExactInv, Counted
<1>6. CASE CountEnd
  <2>1. /\ pc = "count" /\ pc' = "done" /\ UNCHANGED <<repo, query, ahead, behind>> /\ Queued = {}
        /\ query.kind = "graph"
        /\ Counting(1, 2, "parent1", "parent2") /\ Counting(2, 1, "parent2", "parent1")
    BY <1>6 DEF CountEnd, CountInv, IInv, CallInv
  <2>2. Tally(1, 2) = Only(1, 2) /\ Tally(2, 1) = Only(2, 1)
    BY <1>1, <2>1, CountedSide
  <2>3. Only(1, 2)' = Only(1, 2) /\ Only(2, 1)' = Only(2, 1) /\ ParentsOlder' = ParentsOlder
    BY <2>1 DEF Only, Input, ParentsOlder, Parents
  <2> QED  BY <2>1, <2>2, <2>3 DEF ExactInv, Counted
<1>7. CASE AskSelf \/ AskRepeated \/ AskBases
  <2>1. pc = "ask" /\ UNCHANGED query /\ query.kind # "graph"
    BY <1>7 DEF AskSelf, AskRepeated, AskBases
  <2>2. /\ pc' \in {"ask", "paint", "done"} /\ UNCHANGED <<ahead, behind>>
    BY <1>7, <2>1 DEF AskSelf, AskRepeated, AskBases, Answer, AnswerBases, AnswerDescendant,
       AnswerOctopus, Fail, StartPaint, answer
  <2> QED  BY <2>1, <2>2 DEF ExactInv, Counted
<1>8. CASE \/ \E c \in Commits : PaintPop(c) \/ Candidate(c)
           \/ PaintedBases \/ ClearMarks \/ Cleared \/ PaintedCandidate \/ CandidatesEnd
  <2>1. pc \in {"paint", "clear", "candidate"} /\ UNCHANGED query
    BY <1>8 DEF PaintPop, PaintedBases, ClearMarks, Cleared, Candidate, PaintedCandidate, CandidatesEnd
  <2>2. pc' \in {"ask", "paint", "clear", "candidate", "done"} /\ UNCHANGED <<ahead, behind>>
    BY <1>8, <2>1 DEF PaintPop, PaintedBases, ClearMarks, Cleared, Candidate, PaintedCandidate,
       CandidatesEnd, Answer, AnswerBases, AnswerDescendant, AnswerOctopus, Fail, StartPaint, answer
  <2>3. query.kind # "graph"
    BY <2>1 DEF CountInv
  <2> QED  BY <2>1, <2>2, <2>3 DEF ExactInv, Counted
<1>9. AskGraph => ExactInv'
  BY <1>1, AskExact
<1> QED  BY <1>2, <1>3, <1>4, <1>5, <1>6, <1>7, <1>8, <1>9 DEF Next

\* git_graph_ahead_behind counts the commits that one of the two has and the other has
\* not, when every commit is newer than its parents.
THEOREM CountsAreExact == Spec => []CountsExact
<1>1. Init => CountInv /\ ExactInv
  BY DEF Init, CountInv, ExactInv, Counted
<1>2. IInv /\ CountInv /\ ExactInv => CountsExact
  <2> SUFFICES ASSUME IInv, CountInv, ExactInv, Counted, ParentsOlder
               PROVE  ahead = Cardinality(Only(1, 2)) /\ behind = Cardinality(Only(2, 1))
    BY AncestorsBelow DEF CountsExact, OnlyIn, Only
  <2>1. /\ ahead >= Cardinality(Only(1, 2)) /\ ahead <= Cardinality(Only(1, 2))
        /\ behind >= Cardinality(Only(2, 1)) /\ behind <= Cardinality(Only(2, 1))
    BY DEF CountInv, ExactInv
  <2>2. Cardinality(Only(1, 2)) \in Nat /\ Cardinality(Only(2, 1)) \in Nat
    <3>1. IsFiniteSet(Only(1, 2)) /\ IsFiniteSet(Only(2, 1)) 
      BY OnlyFacts DEF IInv, Counted
    <3> QED  BY <3>1, FS_CardinalityType
  <2> QED  BY <2>1, <2>2 DEF IInv, TypeInv, TypeOK
<1> QED  BY <1>1, <1>2, IInvAlways, NextCount, NextExact, PTL DEF Spec

=============================================================================
