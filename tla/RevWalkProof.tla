---------------------------- MODULE RevWalkProof ----------------------------
(***************************************************************************)
(* Theorems about RevWalk for every history, dates, callback and order:    *)
(* the state is well typed, a walk that ends has returned every commit     *)
(* that can be reached and is not hidden, no commit is returned twice, a   *)
(* topological walk returns children before their parents, other walks go  *)
(* back in time as far as revwalk.c sees to it, and nothing is returned    *)
(* that cannot be reached, or is hidden where limit_list can see to that.  *)
(***************************************************************************)
EXTENDS RevWalk, SequenceTheorems, FiniteSetTheorems, WellFoundedInduction, TLAPS

-----------------------------------------------------------------------------
(* What the operations on lists do to the set of their elements.           *)

LEMMA ConcatRange ==
    ASSUME NEW S, NEW s \in Seq(S), NEW t \in Seq(S)
    PROVE  s \o t \in Seq(S) /\ Range(s \o t) = Range(s) \cup Range(t)
  BY ConcatProperties, RangeConcatenation

LEMMA OneRange ==
    ASSUME NEW S, NEW e \in S
    PROVE  <<e>> \in Seq(S) /\ Range(<<e>>) = {e}
  BY DEF Range

LEMMA AppendRange ==
    ASSUME NEW S, NEW s \in Seq(S), NEW e \in S
    PROVE  Append(s, e) \in Seq(S) /\ Range(Append(s, e)) = Range(s) \cup {e}
  <1>. DEFINE one == <<e>>
  <1>1. one \in Seq(S) /\ Range(one) = {e}
    BY OneRange
  <1>2. Append(s, e) = s \o one
    BY AppendIsConcat
  <1>. HIDE DEF one
  <1>3. s \o one \in Seq(S) /\ Range(s \o one) = Range(s) \cup Range(one)
    BY <1>1, ConcatRange
  <1>. QED
    BY <1>1, <1>2, <1>3, Zenon

LEMMA ConsRange ==
    ASSUME NEW S, NEW s \in Seq(S), NEW e \in S
    PROVE  <<e>> \o s \in Seq(S) /\ Range(<<e>> \o s) = {e} \cup Range(s)
  <1>. DEFINE one == <<e>>
  <1>1. one \in Seq(S) /\ Range(one) = {e}
    BY OneRange
  <1>. HIDE DEF one
  <1>2. one \o s \in Seq(S) /\ Range(one \o s) = Range(one) \cup Range(s)
    BY <1>1, ConcatRange
  <1>. QED
    BY <1>1, <1>2, Zenon DEF one

\* Between two lists.
LEMMA BetweenRange ==
    ASSUME NEW S, NEW s \in Seq(S), NEW t \in Seq(S), NEW e \in S
    PROVE  /\ s \o <<e>> \o t \in Seq(S)
           /\ Range(s \o <<e>> \o t) = (Range(s) \cup {e}) \cup Range(t)
  <1>. DEFINE one == <<e>>
  <1>1. one \in Seq(S) /\ Range(one) = {e}
    BY OneRange
  <1>. HIDE DEF one
  <1>. DEFINE both == s \o one
  <1>2. both \in Seq(S) /\ Range(both) = Range(s) \cup Range(one)
    BY <1>1, ConcatRange
  <1>. HIDE DEF both
  <1>3. both \o t \in Seq(S) /\ Range(both \o t) = Range(both) \cup Range(t)
    BY <1>2, ConcatRange
  <1>4. both \o t = s \o <<e>> \o t
    BY DEF both, one
  <1>. QED
    BY <1>1, <1>2, <1>3, <1>4, Zenon

LEMMA EmptyRange == Range(<< >>) = {}
  BY DEF Range

LEMMA TailRange ==
    ASSUME NEW S, NEW s \in Seq(S), s # << >>
    PROVE  /\ Head(s) \in S /\ Tail(s) \in Seq(S)
           /\ Range(s) = {Head(s)} \cup Range(Tail(s))
  <1>1. Head(s) \in S /\ Tail(s) \in Seq(S)
    BY HeadTailProperties
  <1>2. s = <<Head(s)>> \o Tail(s)
    BY <1>1
  <1>. QED
    BY <1>1, <1>2, ConsRange, Zenon

\* Both ends of a list that is cut at k.
LEMMA CutRange ==
    ASSUME NEW S, NEW s \in Seq(S), NEW k \in 1 .. Len(s) + 1
    PROVE  /\ SubSeq(s, 1, k - 1) \in Seq(S) /\ SubSeq(s, k, Len(s)) \in Seq(S)
           /\ Range(s) = Range(SubSeq(s, 1, k - 1)) \cup Range(SubSeq(s, k, Len(s)))
  <1>1. /\ SubSeq(s, 1, k - 1) \in Seq(S) /\ SubSeq(s, k, Len(s)) \in Seq(S)
    BY SubSeqProperties
  <1>2. SubSeq(s, 1, k - 1) \o SubSeq(s, k, Len(s)) = s
    <2>1. /\ 1 \in 1 .. Len(s) + 1
          /\ k - 1 \in 1 - 1 .. Len(s)
          /\ Len(s) \in k - 1 .. Len(s)
          /\ (k - 1) + 1 = k
      OBVIOUS
    <2>2. SubSeq(s, 1, k - 1) \o SubSeq(s, k, Len(s)) = SubSeq(s, 1, Len(s))
      BY <2>1, ConcatAdjacentSubSeq, Zenon
    <2>. QED
      BY <2>2, SubSeqFull
  <1>. QED
    BY <1>1, <1>2, ConcatRange

LEMMA WithoutRange ==
    ASSUME NEW S, NEW s \in Seq(S), NEW k \in DOMAIN s
    PROVE  /\ s[k] \in S /\ Without(s, k) \in Seq(S)
           /\ Range(s) = {s[k]} \cup Range(Without(s, k))
  <1>1. k \in 1 .. Len(s) + 1 /\ k + 1 \in 1 .. Len(s) + 1 /\ (k + 1) - 1 = k
    OBVIOUS
  <1>2. /\ SubSeq(s, 1, k - 1) \in Seq(S) /\ SubSeq(s, k + 1, Len(s)) \in Seq(S)
        /\ s[k] \in S
    BY <1>1, CutRange
  <1>3. /\ Without(s, k) \in Seq(S)
        /\ Range(Without(s, k)) = Range(SubSeq(s, 1, k - 1)) \cup Range(SubSeq(s, k + 1, Len(s)))
    BY <1>2, ConcatRange, Zenon DEF Without
  <1>4. SubSeq(s, 1, k) = SubSeq(s, 1, k - 1) \o <<s[k]>>
    <2>1. 1 \in 1 .. Len(s) /\ k \in 1 .. Len(s)
      OBVIOUS
    <2>. QED
      BY <2>1, SubSeqRecursiveSecond, Zenon
  <1>5. SubSeq(s, 1, k) = Append(SubSeq(s, 1, k - 1), s[k])
    BY <1>2, <1>4, AppendIsConcat
  <1>6. Range(SubSeq(s, 1, k)) = Range(SubSeq(s, 1, k - 1)) \cup {s[k]}
    <2>. DEFINE t == SubSeq(s, 1, k - 1)
    <2>1. t \in Seq(S) /\ s[k] \in S
      BY <1>2
    <2>. HIDE DEF t
    <2>2. Range(Append(t, s[k])) = Range(t) \cup {s[k]}
      BY <2>1, AppendRange
    <2>. QED
      BY <1>5, <2>2, Zenon DEF t
  <1>7. Range(s) = Range(SubSeq(s, 1, k)) \cup Range(SubSeq(s, k + 1, Len(s)))
    BY <1>1, CutRange
  <1>. QED
    BY <1>2, <1>3, <1>6, <1>7, Zenon

LEMMA InsertRange ==
    ASSUME list \in Seq(Commits), NEW c \in Commits, Insert(c)
    PROVE  list' \in Seq(Commits) /\ Range(list') = Range(list) \cup {c}
  <1>1. PICK k \in 1 .. Len(list) + 1 :
            list' = SubSeq(list, 1, k - 1) \o <<c>> \o SubSeq(list, k, Len(list))
    BY Zenon DEF Insert
  <1>2. /\ SubSeq(list, 1, k - 1) \in Seq(Commits)
        /\ SubSeq(list, k, Len(list)) \in Seq(Commits)
        /\ Range(list) = Range(SubSeq(list, 1, k - 1)) \cup Range(SubSeq(list, k, Len(list)))
    BY CutRange
  <1>3. /\ list' \in Seq(Commits)
        /\ Range(list') = (Range(SubSeq(list, 1, k - 1)) \cup {c})
                              \cup Range(SubSeq(list, k, Len(list)))
    <2>. DEFINE s == SubSeq(list, 1, k - 1)
                t == SubSeq(list, k, Len(list))
    <2>1. s \in Seq(Commits) /\ t \in Seq(Commits) /\ list' = s \o <<c>> \o t
      BY <1>1, <1>2
    <2>. HIDE DEF s, t
    <2>2. list' \in Seq(Commits) /\ Range(list') = (Range(s) \cup {c}) \cup Range(t)
      BY <2>1, BetweenRange
    <2>. QED
      BY <2>2 DEF s, t
  <1>. QED
    BY <1>2, <1>3, Zenon

-----------------------------------------------------------------------------
(* Type correctness.                                                       *)

\* What holds at each label, whatever the caller does: the commit in hand, whether
\* the walk has begun, and that limit_list never runs without slop.
Control ==
    /\ pc \in {"add", "judge", "release", "emit"} => cur \in Commits
    /\ pc \in {"limit", "judge"} => limited /\ ~ walking
    /\ pc = "add" => (limited <=> ~ walking)
    /\ pc \in {"prepare", "sort", "tips", "topo", "release", "collect"} => ~ walking
    /\ pc \in {"next", "emit"} => walking
    /\ pc \in {"limit", "judge"} \/ (pc = "add" /\ limited) => slop # 0
    /\ pc \in {"next", "emit", "idle", "prepare", "sort", "tips"} \/ (pc = "add" /\ walking)
          => out = << >>
    /\ pc = "collect" /\ "reverse" \notin sorting => out = << >>
    /\ ~ limited => sorting = {}
    /\ pc \in {"prepare", "add", "tips", "release"} => i >= 1
    /\ pc \in {"tips", "topo", "release"} => limited

TypeInv == TypeOK /\ Control

LEMMA RepoTyped ==
    ASSUME TypeOK, NEW c \in Commits
    PROVE  /\ Parents(c) \in Seq(Commits)
           /\ ParentsOf(c) = Range(Parents(c))
           /\ ParentsOf(c) \subseteq Commits
           /\ Time(c) \in 0 .. MaxTime
           /\ \A k \in 1 .. Len(Parents(c)) : /\ Parents(c)[k] \in Commits
                                              /\ Parents(c)[k] \in ParentsOf(c)
           /\ \A p \in ParentsOf(c) : \E k \in 1 .. Len(Parents(c)) : Parents(c)[k] = p
           /\ DOMAIN Parents(c) = 1 .. Len(Parents(c))
           /\ Len(Parents(c)) \in Nat
  <1>1. repo \in Repository
    BY RevWalkAssumption DEF TypeOK
  <1>2. Parents(c) \in Seq(Commits) /\ Time(c) \in 0 .. MaxTime
    BY <1>1 DEF Repository, Parents, Time
  <1>3. ParentsOf(c) = Range(Parents(c))
    BY DEF Parents, ParentsOf
  <1>4. Range(Parents(c)) = {Parents(c)[k] : k \in 1 .. Len(Parents(c))}
    BY <1>2, RangeEquality
  <1>5. \A k \in 1 .. Len(Parents(c)) : Parents(c)[k] \in Commits
    BY <1>2, ElementOfSeq
  <1>. QED
    BY <1>2, <1>3, <1>4, <1>5, LenProperties

LEMMA MarkedTyped ==
    ASSUME NEW c, NEW hidden \in SUBSET Commits, NEW known
    PROVE  Marked(c, hidden, known) \in SUBSET Commits
  BY DEF Marked

LEMMA InitTyped == Init => TypeInv
  <1>. SUFFICES ASSUME Init PROVE TypeOK /\ Control
    BY DEF TypeInv
  <1>1. Control
    BY DEF Init, Control
  <1>2. 0 \in 0 .. MaxTime /\ 0 \in 0 .. SLOP
    BY RevWalkAssumption DEF SLOP
  <1>3. << >> \in Seq(Commits) /\ << >> \in Seq([commit : Commits, hide : BOOLEAN])
    OBVIOUS
  <1>. QED
    BY <1>1, <1>2, <1>3 DEF Init, TypeOK, Calling

LEMMA ClearTyped ==
    ASSUME TypeOK, Clear \/ ClearIfWalking
    PROVE  /\ seen' \in SUBSET Commits /\ added' \in SUBSET Commits
           /\ uninteresting' \in SUBSET Commits
           /\ list' \in Seq(Commits)
           /\ input' \in Seq([commit : Commits, hide : BOOLEAN])
           /\ firstParent' \in BOOLEAN /\ walking' \in BOOLEAN /\ didPush' \in BOOLEAN
           /\ shown' \in Seq(Commits)
           /\ trouble' \in BOOLEAN
  <1>1. << >> \in Seq(Commits) /\ << >> \in Seq([commit : Commits, hide : BOOLEAN])
    OBVIOUS
  <1>. QED
    BY <1>1, Zenon DEF Clear, ClearIfWalking, TypeOK

LEMMA CallerTyped ==
    ASSUME TypeInv,
           \/ \E c \in Commits, hide \in BOOLEAN : PushCommit(c, hide)
           \/ SimplifyFirstParent
           \/ \E s \in Sortings : SetSorting(s)
           \/ \E h \in HideCbs : AddHideCb(h)
           \/ Reset \/ CallNext
    PROVE  TypeInv'
  <1>. USE DEF TypeInv, TypeOK, Control, loop, marks, conf, report, Calling, SLOP
  <1>1. ASSUME NEW c \in Commits, NEW hide \in BOOLEAN, PushCommit(c, hide)
        PROVE  TypeInv'
    <2>1. input' \in Seq([commit : Commits, hide : BOOLEAN])
      BY <1>1, ConsRange DEF PushCommit
    <2>. QED
      BY <1>1, <2>1 DEF PushCommit
  <1>2. CASE SimplifyFirstParent
    BY <1>2 DEF SimplifyFirstParent
  <1>3. ASSUME NEW s \in Sortings, SetSorting(s)
        PROVE  TypeInv'
    <2>1. Control'
      BY <1>3 DEF SetSorting, ClearIfWalking, Clear
    <2>2. /\ sorting' \in SUBSET {"topo", "time", "reverse"} /\ limited' \in BOOLEAN
          /\ hideCb' \in SUBSET Commits
      BY <1>3, RevWalkAssumption DEF SetSorting
    <2>. QED
      BY <1>3, <2>1, <2>2, ClearTyped DEF SetSorting
  <1>4. ASSUME NEW h \in HideCbs, AddHideCb(h)
        PROVE  TypeInv'
    <2>1. Control'
      BY <1>4 DEF AddHideCb, ClearIfWalking, Clear
    <2>2. /\ sorting' \in SUBSET {"topo", "time", "reverse"} /\ limited' \in BOOLEAN
          /\ hideCb' \in SUBSET Commits
      BY <1>4, RevWalkAssumption DEF AddHideCb
    <2>. QED
      BY <1>4, <2>1, <2>2, ClearTyped DEF AddHideCb
  <1>5. CASE Reset
    <2>1. Control'
      BY <1>5 DEF Reset, Clear
    <2>. QED
      BY <1>5, <2>1, ClearTyped DEF Reset
  <1>6. CASE CallNext
    BY <1>6 DEF CallNext, report, marks, conf
  <1>. QED
    BY <1>1, <1>2, <1>3, <1>4, <1>5, <1>6

\* The slop that is left is a slop, as long as there was some.
LEMMA SlopTyped ==
    ASSUME TypeOK, slop # 0, NEW hidden
    PROVE  StillInteresting(hidden) \in 0 .. SLOP
  BY DEF TypeOK, SLOP, StillInteresting

LEMMA PreparedTyped ==
    ASSUME TypeInv, Prepare
    PROVE  input[i].commit \in Commits
  <1>. DEFINE Entry == [commit : Commits, hide : BOOLEAN]
  <1>1. input \in Seq(Entry) /\ i \in 1 .. Len(input)
    BY DEF Prepare, TypeInv, TypeOK, Control
  <1>2. input[i] \in Entry
    BY <1>1, ElementOfSeq, Zenon
  <1>. QED
    BY <1>2

LEMMA StepTyped ==
    ASSUME TypeInv, Step
    PROVE  TypeInv'
  <1>. USE DEF TypeInv, TypeOK, Control, loop, marks, conf, report, Calling
  <1>1. CASE Prepare
    <2>1. input[i].commit \in Commits
      BY <1>1, PreparedTyped
    <2>2. /\ list' \in Seq(Commits) /\ parsed' \in SUBSET Commits /\ seen' \in SUBSET Commits
          /\ uninteresting' \in SUBSET Commits
      BY <1>1, <2>1, ConsRange, MarkedTyped DEF Prepare
    <2>3. i' \in Nat /\ i' >= 1
      BY <1>1 DEF Prepare
    <2>4. UNCHANGED <<repo, added, input, conf, walking, pc, cur, out, time, slop, queue,
                      report>>
      BY <1>1 DEF Prepare
    <2>. QED
      BY <2>2, <2>3, <2>4
  <1>2. CASE Prepared
    <2>1. MaxTime \in 0 .. MaxTime
      BY RevWalkAssumption
    <2>. QED
      BY <1>2, <2>1 DEF Prepared, SLOP
  <1>3. CASE LimitPop
    <2>1. Head(list) \in Commits /\ Tail(list) \in Seq(Commits)
      BY <1>3, TailRange DEF LimitPop
    <2>. QED
      BY <1>3, <2>1 DEF LimitPop, Visit
  <1>4. CASE AddHidden
    <2>1. Parents(cur)[i] \in Commits
      BY <1>4, RepoTyped DEF AddHidden
    <2>2. /\ list' \in Seq(Commits) /\ parsed' \in SUBSET Commits /\ seen' \in SUBSET Commits
          /\ uninteresting' \in SUBSET Commits
      BY <1>4, <2>1, InsertRange, MarkedTyped DEF AddHidden
    <2>3. i' \in Nat /\ i' >= 1
      BY <1>4 DEF AddHidden
    <2>4. UNCHANGED <<repo, added, input, conf, walking, pc, cur, out, time, slop, queue,
                      report>>
      BY <1>4 DEF AddHidden
    <2>. QED
      BY <2>2, <2>3, <2>4
  <1>5. CASE AddShown
    <2>1. Parents(cur)[i] \in Commits /\ Len(Parents(cur)) \in Nat
      BY <1>5, RepoTyped DEF AddShown
    <2>2. /\ list' \in Seq(Commits) /\ parsed' \in SUBSET Commits /\ seen' \in SUBSET Commits
          /\ i' \in Nat
      BY <1>5, <2>1, InsertRange DEF AddShown
    <2>. QED
      BY <1>5, <2>2 DEF AddShown
  <1>6. CASE AddFails
    <2>1. Parents(cur)[i] \in Commits
      BY <1>6, RepoTyped DEF AddFails
    <2>2. uninteresting' \in SUBSET Commits
      BY <1>6, <2>1 DEF AddFails
    <2>3. /\ list' \in Seq(Commits) /\ << >> \in Seq(Commits)
          /\ 0 \in 0 .. MaxTime /\ 0 \in 0 .. SLOP
      BY <1>6, RevWalkAssumption DEF AddFails, SLOP
    <2>. QED
      BY <1>6, <2>2, <2>3 DEF AddFails, Return
  <1>7. CASE AddEnd
    BY <1>7 DEF AddEnd
  <1>8. CASE JudgeHidden
    <2>1. /\ uninteresting' \in SUBSET Commits /\ slop' \in 0 .. SLOP
          /\ << >> \in Seq(Commits)
      BY <1>8, MarkedTyped, SlopTyped DEF JudgeHidden
    <2>. QED
      BY <1>8, <2>1 DEF JudgeHidden
  <1>9. CASE JudgeShown
    <2>1. cur \in Commits
      BY <1>9 DEF JudgeShown
    <2>2. Append(out, cur) \in Seq(Commits) /\ Time(cur) \in 0 .. MaxTime
      BY <2>1, AppendRange, RepoTyped
    <2>3. out' \in Seq(Commits) /\ time' \in 0 .. MaxTime
      BY <1>9, <2>2 DEF JudgeShown
    <2>. QED
      BY <1>9, <2>3 DEF JudgeShown
  <1>10. CASE LimitEnd \/ TopoEnd
    <2>1. << >> \in Seq(Commits)
      OBVIOUS
    <2>2. CASE LimitEnd
      BY <2>1, <2>2 DEF LimitEnd
    <2>3. CASE TopoEnd
      BY <2>1, <2>3 DEF TopoEnd
    <2>. QED
      BY <1>10, <2>2, <2>3
  <1>11. CASE Sort \/ TipsEnd \/ EmitHidden
    <2>1. CASE Sort
      BY <2>1 DEF Sort
    <2>2. CASE TipsEnd
      BY <2>2 DEF TipsEnd
    <2>3. CASE EmitHidden
      BY <2>3 DEF EmitHidden
    <2>. QED
      BY <1>11, <2>1, <2>2, <2>3
  <1>12. CASE Tip
    <2>1. list[i] \in Commits
      BY <1>12, ElementOfSeq DEF Tip
    <2>2. queue' \in Seq(Commits)
      BY <1>12, <2>1, AppendRange DEF Tip
    <2>. QED
      BY <1>12, <2>2 DEF Tip
  <1>13. CASE TopoPop
    <2>1. cur' \in Commits /\ queue' \in Seq(Commits)
      BY <1>13, WithoutRange DEF TopoPop
    <2>. QED
      BY <1>13, <2>1 DEF TopoPop
  <1>14. CASE Release
    <2>1. Parents(cur)[i] \in Commits
      BY <1>14, RepoTyped DEF Release
    <2>2. queue' \in Seq(Commits)
      BY <1>14, <2>1, ConsRange DEF Release
    <2>. QED
      BY <1>14, <2>2 DEF Release
  <1>15. CASE ReleaseEnd
    <2>1. out' \in Seq(Commits)
      BY <1>15, AppendRange DEF ReleaseEnd
    <2>. QED
      BY <1>15, <2>1 DEF ReleaseEnd
  <1>16. CASE Collect
    <2>1. list' \in Seq(Commits) /\ out' \in Seq(Commits)
      BY <1>16, WithoutRange, ConsRange DEF Collect
    <2>. QED
      BY <1>16, <2>1 DEF Collect
  <1>17. CASE CollectEnd
    BY <1>17 DEF CollectEnd
  <1>18. CASE NextPop
    <2>1. PICK k \in DOMAIN list :
              /\ list' = Without(list, k)
              /\ \/ ~ limited /\ Visit(list[k], "emit")
                 \/ limited /\ cur' = list[k] /\ pc' = "emit" /\ UNCHANGED <<added, i>>
      BY <1>18, Zenon DEF NextPop
    <2>2. list[k] \in Commits /\ list' \in Seq(Commits)
      BY <2>1, WithoutRange
    <2>. QED
      BY <1>18, <2>1, <2>2 DEF NextPop, Visit
  <1>19. CASE Emit
    <2>1. /\ shown' \in Seq(Commits) /\ << >> \in Seq(Commits)
          /\ 0 \in 0 .. MaxTime /\ 0 \in 0 .. SLOP
      BY <1>19, AppendRange, RevWalkAssumption DEF Emit, SLOP
    <2>. QED
      BY <1>19, <2>1 DEF Emit, Return
  <1>20. CASE EndWalk
    <2>1. /\ << >> \in Seq(Commits)
          /\ 0 \in 0 .. MaxTime /\ 0 \in 0 .. SLOP
      BY RevWalkAssumption DEF SLOP
    <2>2. Control'
      BY <1>20 DEF EndWalk, Clear, Return
    <2>. QED
      BY <1>20, <2>1, <2>2, ClearTyped DEF EndWalk, Return
  <1>. QED
    BY <1>1, <1>2, <1>3, <1>4, <1>5, <1>6, <1>7, <1>8, <1>9, <1>10, <1>11, <1>12,
       <1>13, <1>14, <1>15, <1>16, <1>17, <1>18, <1>19, <1>20 DEF Step

LEMMA NextTyped == TypeInv /\ [Next]_vars => TypeInv'
  <1>1. CASE UNCHANGED vars
    BY <1>1 DEF vars, marks, conf, loop, report, TypeInv, TypeOK, Control
  <1>. QED
    BY <1>1, CallerTyped, StepTyped DEF Next

\* The variables of the walker keep the types of their fields, and limit_list never
\* runs without slop (StillInteresting is a subtraction).
THEOREM TypeCorrect == Spec => []TypeOK
  <1>1. TypeInv => TypeOK
    BY DEF TypeInv
  <1>. QED
    BY <1>1, InitTyped, NextTyped, PTL DEF Spec

-----------------------------------------------------------------------------
(* Completeness.  While limit_list or a lazy walk searches, what has been  *)
(* seen is in a list or returned, and what has been taken from the list    *)
(* has had its parents added, but for what is hidden.  The search ends     *)
(* when only hidden commits are left: then the commits that were seen,     *)
(* with the hidden ones, are closed under "is followed to".                *)

Follows == [c \in Commits |-> Followed(c)]

InHand == IF pc \in {"add", "judge", "emit"} THEN {cur} ELSE {}

Held == Range(list) \cup Range(out) \cup Range(shown) \cup InHand

\* Only what the caller hid, and its ancestors, is marked.
Marks == uninteresting \subseteq Hidden

\* A walk begins with a walker that has no marks.
Fresh ==
    /\ pc = "idle" /\ ~ walking => seen = {} /\ added = {} /\ list = << >>
    /\ pc = "prepare" =>
          /\ seen \subseteq Range(list)
          /\ added = {}
          /\ \A k \in DOMAIN input : k < i => input[k].commit \in seen

Searching == \/ pc \in {"limit", "add", "judge"}
             \/ ~ limited /\ pc \in {"sort", "collect", "next", "emit"}
             \/ ~ limited /\ pc = "idle" /\ walking

Search ==
    /\ Tips \subseteq seen
    /\ seen \ Hidden \subseteq Range(list) \cup added
    /\ seen \ (Hidden \cup hideCb) \subseteq Held
    /\ \A c \in added \ Hidden : (pc = "add" /\ c = cur) \/ Follows[c] \subseteq seen
    /\ pc = "add" /\ cur \notin Hidden =>
          \A k \in 1 .. Len(Parents(cur)) :
              k < i /\ Parents(cur)[k] \in Follows[cur] => Parents(cur)[k] \in seen

Found == \/ limited /\ pc \in {"sort", "collect", "next", "emit"}
         \/ limited /\ pc = "idle" /\ walking
         \/ pc \in {"tips", "topo", "release"}

\* In a topological sort, what is neither sorted nor in the queue waits for a child.
\* The child that is being released stops waiting parent by parent.
Waits(c) == \E d \in Range(list) \ Range(out) :
                /\ c \in ParentsOf(d)
                /\ pc = "release" /\ d = cur =>
                      \E k \in i .. Len(Parents(cur)) : Parents(cur)[k] = c

Topo ==
    /\ pc = "tips" => \A k \in DOMAIN list :
          k < i /\ ChildrenIn(list[k], list) = {} => list[k] \in Range(queue)
    /\ pc \in {"topo", "release"} => \A c \in Range(list) :
          c \in Range(out) \cup Range(queue) \/ (pc = "release" /\ c = cur) \/ Waits(c)

\* No commit is lost.
Accounted == /\ Fresh
             /\ Searching => Search
             /\ Found => Wanted \subseteq Held
             /\ Topo

CompleteInv == TypeInv /\ Marks /\ (~ trouble /\ FewChildren => Accounted)

LEMMA ClosureHolds ==
    ASSUME NEW next, NEW T \in SUBSET Commits
    PROVE  /\ Closure(next, T) \subseteq Commits
           /\ T \subseteq Closure(next, T)
           /\ \A d \in Closure(next, T) : next[d] \subseteq Commits
                                              => next[d] \subseteq Closure(next, T)
  <1>. DEFINE closed == {S \in SUBSET Commits : T \subseteq S /\ \A d \in S : next[d] \subseteq S}
  <1>1. Closure(next, T) = {c \in Commits : \A S \in closed : c \in S}
    BY DEF Closure
  <1>2. \A S \in closed : T \subseteq S /\ \A d \in S : next[d] \subseteq S
    OBVIOUS
  <1>. HIDE DEF closed
  <1>. QED
    BY <1>1, <1>2

LEMMA ClosureLeast ==
    ASSUME NEW next, NEW T \in SUBSET Commits, NEW S \in SUBSET Commits,
           T \subseteq S, \A d \in S : next[d] \subseteq S
    PROVE  Closure(next, T) \subseteq S
  BY DEF Closure

LEMMA InputTyped ==
    ASSUME TypeOK
    PROVE  Hides \in SUBSET Commits /\ Tips \in SUBSET Commits
  <1>. DEFINE Entry == [commit : Commits, hide : BOOLEAN]
  <1>1. input \in Seq(Entry) /\ DOMAIN input = 1 .. Len(input)
    BY DEF TypeOK
  <1>2. \A k \in DOMAIN input : input[k] \in Entry
    BY <1>1, ElementOfSeq, Zenon
  <1>. QED
    BY <1>2 DEF Hides, Tips

\* What is hidden is closed under parents, and grows with what the caller hides.
LEMMA HiddenClosed ==
    ASSUME TypeOK
    PROVE  /\ Hidden \subseteq Commits
           /\ Hides \subseteq Hidden
           /\ \A d \in Hidden : ParentsOf(d) \subseteq Hidden
  <1>. DEFINE next == [c \in Commits |-> ParentsOf(c)]
  <1>1. \A c \in Commits : next[c] = ParentsOf(c) /\ ParentsOf(c) \subseteq Commits
    BY RepoTyped
  <1>2. Hidden = Closure(next, Hides)
    BY DEF Hidden
  <1>. HIDE DEF next
  <1>. QED
    BY <1>1, <1>2, InputTyped, ClosureHolds

LEMMA HiddenGrows ==
    ASSUME repo' = repo, Hides \subseteq Hides'
    PROVE  Hidden \subseteq Hidden'
  <1>. DEFINE next == [c \in Commits |-> ParentsOf(c)]
  <1>1. Hidden = Closure(next, Hides)
    BY DEF Hidden
  <1>2. Hidden' = Closure(next, Hides')
    BY DEF Hidden, ParentsOf, Closure
  <1>. HIDE DEF next
  <1>. QED
    BY <1>1, <1>2 DEF Closure

\* Of the next state.
LEMMA HidesHidden ==
    ASSUME TypeOK'
    PROVE  Hides' \subseteq Hidden'
  <1>1. Hides' \in SUBSET Commits
    <2>. DEFINE Entry == [commit : Commits, hide : BOOLEAN]
    <2>1. input' \in Seq(Entry) /\ DOMAIN input' = 1 .. Len(input')
      BY DEF TypeOK
    <2>2. \A k \in DOMAIN input' : input'[k] \in Entry
      BY <2>1, ElementOfSeq, Zenon
    <2>. QED
      BY <2>2 DEF Hides
  <1>. DEFINE next == [c \in Commits |-> ParentsOf(c)']
  <1>2. Hidden' = Closure(next, Hides')
    BY DEF Hidden, ParentsOf, Closure
  <1>. HIDE DEF next
  <1>. QED
    BY <1>1, <1>2, ClosureHolds

LEMMA HiddenSame ==
    ASSUME UNCHANGED <<repo, input>>
    PROVE  Hidden' = Hidden
  BY DEF Hidden, Hides, Closure, ParentsOf

LEMMA FollowsSame ==
    ASSUME UNCHANGED <<repo, hideCb, firstParent>>
    PROVE  Follows' = Follows
  BY DEF Follows, Followed, Parents

LEMMA WantedSame ==
    ASSUME UNCHANGED <<repo, input, hideCb, firstParent>>
    PROVE  Wanted' = Wanted /\ Tips' = Tips
  <1>1. Hidden' = Hidden /\ Follows' = Follows
    BY HiddenSame, FollowsSame
  <1>2. Tips' = Tips
    BY DEF Tips
  <1>3. Line' = Line
    BY <1>1, <1>2 DEF Line, Follows, Closure
  <1>. QED
    BY <1>1, <1>2, <1>3 DEF Wanted

LEMMA FollowedFacts ==
    ASSUME TypeOK, NEW c \in Commits
    PROVE  /\ Follows[c] \subseteq ParentsOf(c)
           /\ Follows[c] \cap hideCb = {}
           /\ firstParent => \A p \in Follows[c] : \A j \in 1 .. Len(Parents(c)) :
                  Parents(c)[j] \notin hideCb => \E k \in 1 .. j : Parents(c)[k] = p
  <1>1. Follows[c] = Followed(c) /\ DOMAIN Parents(c) = 1 .. Len(Parents(c))
    BY RepoTyped DEF Follows
  <1>2. \A k \in 1 .. Len(Parents(c)) : Parents(c)[k] \in ParentsOf(c)
    BY RepoTyped
  <1>3. \A p \in Followed(c) : \E k \in 1 .. Len(Parents(c)) :
            /\ Parents(c)[k] = p /\ p \notin hideCb
            /\ firstParent => \A j \in 1 .. Len(Parents(c)) :
                                  Parents(c)[j] \notin hideCb => k <= j
    BY <1>1 DEF Followed
  <1>. QED
    BY <1>1, <1>2, <1>3

\* Marking what is hidden marks only what is hidden.
LEMMA MarkedHidden ==
    ASSUME TypeOK, NEW c \in Hidden, NEW hidden, hidden \subseteq Hidden, NEW known
    PROVE  Marked(c, hidden, known) \subseteq Hidden
  <1>. DEFINE rest == Hidden \ hidden
  <1>1. rest \in SUBSET (Commits \ hidden)
    BY HiddenClosed
  <1>2. \A e \in {c} \cup (rest \cap known) : ParentsOf(e) \subseteq rest \cup hidden
    BY HiddenClosed
  <1>3. Marked(c, hidden, known) \subseteq hidden \cup rest
    <2>. HIDE DEF rest
    <2>. QED
      BY <1>1, <1>2 DEF Marked
  <1>. QED
    BY <1>3

LEMMA PushHides ==
    ASSUME TypeOK, NEW c \in Commits, NEW hide \in BOOLEAN, PushCommit(c, hide)
    PROVE  Hides \subseteq Hides' /\ (hide => c \in Hides')
  <1>1. /\ Len(input') = Len(input) + 1
        /\ input'[1] = [commit |-> c, hide |-> hide]
        /\ \A k \in 1 .. Len(input) : input'[k + 1] = input[k] /\ k + 1 \in 1 .. Len(input')
        /\ DOMAIN input = 1 .. Len(input) /\ DOMAIN input' = 1 .. Len(input')
        /\ 1 \in 1 .. Len(input')
    BY DEF TypeOK, PushCommit
  <1>2. ASSUME NEW d \in Hides
        PROVE  d \in Hides'
    <2>1. PICK k \in DOMAIN input : input[k].hide /\ input[k].commit = d
      BY <1>2 DEF Hides
    <2>. QED
      BY <1>1, <2>1, Zenon DEF Hides
  <1>3. hide => c \in Hides'
    BY <1>1 DEF Hides
  <1>. QED
    BY <1>2, <1>3

LEMMA MarksKept ==
    ASSUME TypeInv, Marks, [Next]_vars
    PROVE  Marks'
  <1>. USE DEF Marks, marks, conf, loop, report
  <1>1. ASSUME UNCHANGED <<repo, input, uninteresting>>
        PROVE  Marks'
    BY <1>1, HiddenSame
  <1>2. CASE UNCHANGED vars
    BY <1>1, <1>2 DEF vars
  <1>3. ASSUME NEW c \in Commits, NEW hide \in BOOLEAN, PushCommit(c, hide)
        PROVE  Marks'
    <2>1. Hides \subseteq Hides' /\ (hide => c \in Hides') /\ TypeOK'
      BY <1>3, PushHides, CallerTyped DEF TypeInv
    <2>2. Hidden \subseteq Hidden'
      BY <1>3, <2>1, HiddenGrows DEF PushCommit
    <2>3. Hides' \subseteq Hidden'
      BY <1>3, <2>1, HidesHidden
    <2>. QED
      BY <1>3, <2>1, <2>2, <2>3 DEF PushCommit
  <1>4. CASE Reset \/ EndWalk
    BY <1>4 DEF Reset, EndWalk, Clear
  <1>5. ASSUME NEW s \in Sortings, SetSorting(s)
        PROVE  Marks'
    <2>1. CASE walking
      BY <1>5, <2>1 DEF SetSorting, ClearIfWalking, Clear
    <2>2. CASE ~ walking
      BY <1>1, <1>5, <2>2 DEF SetSorting, ClearIfWalking
    <2>. QED
      BY <2>1, <2>2
  <1>6. ASSUME NEW h \in HideCbs, AddHideCb(h)
        PROVE  Marks'
    <2>1. CASE walking
      BY <1>6, <2>1 DEF AddHideCb, ClearIfWalking, Clear
    <2>2. CASE ~ walking
      BY <1>1, <1>6, <2>2 DEF AddHideCb, ClearIfWalking
    <2>. QED
      BY <2>1, <2>2
  <1>7. CASE Prepare
    <2>1. Hidden' = Hidden
      BY <1>7, HiddenSame DEF Prepare
    <2>2. PICK c : uninteresting' = IF c \in uninteresting
                                    THEN Marked(c, uninteresting, parsed')
                                    ELSE uninteresting
      BY <1>7, Zenon DEF Prepare
    <2>. QED
      BY <2>1, <2>2, MarkedHidden DEF TypeInv
  <1>8. CASE AddHidden \/ AddFails
    <2>1. Hidden' = Hidden
      BY <1>8, HiddenSame DEF AddHidden, AddFails
    <2>2. cur \in uninteresting => Parents(cur)[i] \in Hidden
      <3>1. cur \in Commits /\ i \in 1 .. Len(Parents(cur))
        BY <1>8 DEF AddHidden, AddFails, TypeInv, TypeOK, Control
      <3>2. Parents(cur)[i] \in ParentsOf(cur)
        BY <3>1, RepoTyped DEF TypeInv
      <3>. QED
        BY <3>1, <3>2, HiddenClosed DEF TypeInv
    <2>3. CASE AddHidden
      <3>1. uninteresting' = Marked(Parents(cur)[i], uninteresting \cup {Parents(cur)[i]}, parsed')
            /\ cur \in uninteresting
        BY <2>3 DEF AddHidden
      <3>. QED
        BY <2>1, <2>2, <3>1, MarkedHidden DEF TypeInv
    <2>4. CASE AddFails
      BY <2>1, <2>2, <2>4 DEF AddFails
    <2>. QED
      BY <1>8, <2>3, <2>4
  <1>9. CASE JudgeHidden
    <2>1. Hidden' = Hidden
      BY <1>9, HiddenSame DEF JudgeHidden
    <2>2. uninteresting' = Marked(cur, uninteresting, parsed) /\ cur \in uninteresting
      BY <1>9 DEF JudgeHidden
    <2>. QED
      BY <2>1, <2>2, MarkedHidden DEF TypeInv
  <1>10. CASE SimplifyFirstParent \/ CallNext
    BY <1>1, <1>10 DEF SimplifyFirstParent, CallNext
  <1>11. CASE Prepared \/ LimitPop \/ AddShown \/ AddEnd \/ JudgeShown \/ LimitEnd \/ Sort
    BY <1>1, <1>11 DEF Prepared, LimitPop, AddShown, AddEnd, JudgeShown, LimitEnd, Sort
  <1>12. CASE Tip \/ TipsEnd \/ TopoPop \/ Release \/ ReleaseEnd \/ TopoEnd
    BY <1>1, <1>12 DEF Tip, TipsEnd, TopoPop, Release, ReleaseEnd, TopoEnd
  <1>13. CASE Collect \/ CollectEnd \/ NextPop \/ Emit \/ EmitHidden
    BY <1>1, <1>13 DEF Collect, CollectEnd, NextPop, Emit, EmitHidden
  <1>. QED
    BY <1>2, <1>3, <1>4, <1>5, <1>6, <1>7, <1>8, <1>9, <1>10, <1>11, <1>12, <1>13
       DEF Next, Step

\* A walk has not begun, or has been reset.
LEMMA BeginsAccounted ==
    ASSUME pc' = "idle", ~ walking', seen' = {}, added' = {}, list' = << >>
    PROVE  Accounted'
  BY DEF Accounted, Fresh, Searching, Found, Topo

LEMMA CallerAccounted ==
    ASSUME CompleteInv, FewChildren, ~ trouble',
           \/ \E c \in Commits, hide \in BOOLEAN : PushCommit(c, hide)
           \/ SimplifyFirstParent
           \/ \E s \in Sortings : SetSorting(s)
           \/ \E h \in HideCbs : AddHideCb(h)
           \/ Reset \/ CallNext
    PROVE  Accounted'
  <1>. USE DEF loop, marks, conf, report
  <1>1. ~ trouble /\ pc = "idle" /\ ~ walking => seen = {} /\ added = {} /\ list = << >>
    BY DEF CompleteInv, Accounted, Fresh
  <1>2. ASSUME NEW c \in Commits, NEW hide \in BOOLEAN, PushCommit(c, hide)
        PROVE  Accounted'
    BY <1>1, <1>2, BeginsAccounted DEF PushCommit
  <1>3. CASE SimplifyFirstParent
    BY <1>1, <1>3, BeginsAccounted DEF SimplifyFirstParent
  <1>4. ASSUME NEW s \in Sortings, SetSorting(s)
        PROVE  Accounted'
    BY <1>1, <1>4, BeginsAccounted DEF SetSorting, ClearIfWalking, Clear
  <1>5. ASSUME NEW h \in HideCbs, AddHideCb(h)
        PROVE  Accounted'
    BY <1>1, <1>5, BeginsAccounted DEF AddHideCb, ClearIfWalking, Clear
  <1>6. CASE Reset
    BY <1>6, BeginsAccounted DEF Reset, Clear
  <1>7. CASE CallNext
    <2>1. Accounted
      BY <1>7 DEF CompleteInv, CallNext
    <2>2. Fresh' /\ Topo'
      <3>1. DOMAIN input = 1 .. Len(input)
        BY DEF CompleteInv, TypeInv, TypeOK
      <3>. QED
        BY <1>1, <1>7, <3>1 DEF CallNext, Fresh, Topo
    <2>3. UNCHANGED <<repo, input, hideCb, firstParent>>
      BY <1>7 DEF CallNext
    <2>4. Hidden' = Hidden /\ Wanted' = Wanted /\ Tips' = Tips /\ Follows' = Follows
      BY <2>3, HiddenSame, WantedSame, FollowsSame
    <2>5. Searching' => Search'
      BY <1>7, <2>1, <2>4 DEF CallNext, Accounted, Searching, Search, Held, InHand, CompleteInv
    <2>6. Found' => Wanted' \subseteq Held'
      BY <1>7, <2>1, <2>4 DEF CallNext, Accounted, Found, Held, InHand, CompleteInv
    <2>. QED
      BY <2>2, <2>5, <2>6 DEF Accounted
  <1>. QED
    BY <1>2, <1>3, <1>4, <1>5, <1>6, <1>7

\* The list of the walk, while it is prepared.
LEMMA PrepareAccounted ==
    ASSUME CompleteInv, FewChildren, ~ trouble', Prepare \/ Prepared
    PROVE  Accounted'
  <1>. USE DEF loop, marks, conf, report
  <1>1. Fresh /\ TypeInv
    BY DEF CompleteInv, Accounted, Prepare, Prepared
  <1>2. DOMAIN input = 1 .. Len(input)
    BY <1>1 DEF TypeInv, TypeOK
  <1>3. CASE Prepare
    <2>. DEFINE c == input[i].commit
    <2>1. c \in Commits
      BY <1>1, <1>3, PreparedTyped
    <2>2. /\ seen' = seen \cup {c}
          /\ list' = IF c \in seen THEN list ELSE <<c>> \o list
          /\ UNCHANGED <<added, input, pc, walking>>
          /\ pc = "prepare" /\ i' = i + 1 /\ i \in Nat
      BY <1>1, <1>3 DEF Prepare, TypeInv, TypeOK
    <2>3. seen' \subseteq Range(list')
      <3>1. seen \subseteq Range(list) /\ list \in Seq(Commits)
        BY <1>1, <2>2 DEF Fresh, TypeInv, TypeOK
      <3>2. <<c>> \o list \in Seq(Commits) /\ Range(<<c>> \o list) = {c} \cup Range(list)
        BY <2>1, <3>1, ConsRange
      <3>. QED
        BY <2>2, <3>1, <3>2
    <2>4. \A k \in DOMAIN input : k < i + 1 => input[k].commit \in seen'
      BY <1>1, <1>2, <2>2 DEF Fresh
    <2>5. Fresh'
      BY <1>1, <2>2, <2>3, <2>4 DEF Fresh
    <2>. QED
      BY <2>2, <2>5 DEF Accounted, Searching, Found, Topo
  <1>4. CASE Prepared
    <2>1. UNCHANGED <<repo, input, hideCb, firstParent, seen, added, list, limited>>
          /\ pc' = (IF limited THEN "limit" ELSE "sort") /\ pc = "prepare"
      BY <1>4 DEF Prepared
    <2>2. Hidden' = Hidden /\ Tips' = Tips
      BY <2>1, HiddenSame, WantedSame
    <2>3. Tips \subseteq seen
      BY <1>1, <1>2, <1>4 DEF Prepared, Fresh, Tips, TypeInv, TypeOK
    <2>4. seen \subseteq Range(list) /\ added = {}
      BY <1>1, <2>1 DEF Fresh
    <2>5. Search'
      BY <2>1, <2>2, <2>3, <2>4 DEF Search, Held
    <2>. QED
      BY <2>1, <2>5 DEF Accounted, Fresh, Searching, Found, Topo
  <1>. QED
    BY <1>3, <1>4

\* A search that leaves only hidden commits in its list is over.
LEMMA SearchDone ==
    ASSUME TypeOK, Search, pc # "add", Range(list) \subseteq Hidden
    PROVE  Wanted \subseteq Range(out) \cup Range(shown) \cup InHand
  <1>. DEFINE closed == Hidden \cup seen
  <1>1. closed \in SUBSET Commits /\ Tips \in SUBSET Commits /\ Tips \subseteq closed
    BY HiddenClosed, InputTyped DEF TypeOK, Search
  <1>2. \A d \in closed : Follows[d] \subseteq closed
    <2>1. ASSUME NEW d \in Hidden
          PROVE  Follows[d] \subseteq Hidden
      BY <2>1, HiddenClosed, FollowedFacts
    <2>2. ASSUME NEW d \in seen \ Hidden
          PROVE  Follows[d] \subseteq seen
      <3>1. d \in added
        BY <2>2 DEF Search
      <3>. QED
        BY <2>2, <3>1 DEF Search
    <2>. QED
      BY <2>1, <2>2
  <1>3. Line = Closure(Follows, Tips)
    BY DEF Line, Follows
  <1>4. Line \subseteq closed
    <2>. HIDE DEF closed
    <2>. QED
      BY <1>1, <1>2, <1>3, ClosureLeast
  <1>5. Wanted \subseteq seen \ (Hidden \cup hideCb)
    BY <1>4 DEF Wanted
  <1>. QED
    BY <1>5 DEF Search, Held

\* limit_list, and the parents that a lazy walk adds.
LEMMA SearchAccounted ==
    ASSUME CompleteInv, FewChildren, ~ trouble',
           LimitPop \/ AddHidden \/ AddShown \/ AddEnd \/ JudgeShown
    PROVE  Accounted'
  <1>. USE DEF loop, marks, conf, report
  <1>1. /\ UNCHANGED <<repo, input, hideCb, firstParent, limited, walking, shown>>
        /\ pc \in {"limit", "add", "judge"}
        /\ pc' \in {"limit", "add", "judge", "emit"}
        /\ pc' = "emit" => ~ limited
        /\ Search /\ TypeInv
    BY DEF LimitPop, Visit, AddHidden, AddShown, AddEnd, JudgeShown,
           CompleteInv, Accounted, Searching, TypeInv, Control
  <1>2. Hidden' = Hidden /\ Tips' = Tips /\ Follows' = Follows
    BY <1>1, HiddenSame, WantedSame, FollowsSame
  <1>3. SUFFICES Search'
    BY <1>1 DEF Accounted, Fresh, Searching, Found, Topo
  <1>4. uninteresting \subseteq Hidden
    BY DEF CompleteInv, Marks
  <1>5. CASE LimitPop
    <2>1. Range(list) = {Head(list)} \cup Range(Tail(list))
      BY <1>1, <1>5, TailRange DEF LimitPop, TypeInv, TypeOK
    <2>2. /\ Range(list) = {cur'} \cup Range(list')
          /\ added' = added \cup {cur'} /\ UNCHANGED <<seen, out>> /\ pc = "limit" /\ i' = 1
          /\ pc' = IF cur' \in added THEN "judge" ELSE "add"
      BY <1>5, <2>1 DEF LimitPop, Visit
    <2>. QED
      BY <1>1, <1>2, <2>2 DEF Search, Held, InHand
  <1>6. CASE AddHidden
    <2>. DEFINE p == Parents(cur)[i]
    <2>1. p \in Commits
      BY <1>1, <1>6, RepoTyped DEF AddHidden, TypeInv, TypeOK, Control
    <2>2. Range(list') = Range(list) \cup {p}
      BY <1>1, <1>6, <2>1, InsertRange DEF AddHidden, TypeInv, TypeOK
    <2>3. /\ seen' = seen \cup {p} /\ UNCHANGED <<added, out, cur, pc>> /\ pc = "add"
          /\ cur \in Hidden
      BY <1>4, <1>6 DEF AddHidden
    <2>. HIDE DEF p
    <2>. QED
      BY <1>1, <1>2, <2>2, <2>3 DEF Search, Held, InHand
  <1>7. CASE AddShown
    <2>. DEFINE p == Parents(cur)[i]
    <2>1. cur \in Commits /\ i \in 1 .. Len(Parents(cur)) /\ p \in Commits
      BY <1>1, <1>7, RepoTyped DEF AddShown, TypeInv, TypeOK, Control
    <2>2. \/ p \in hideCb \cup seen /\ seen' = seen /\ Range(list') = Range(list)
          \/ seen' = seen \cup {p} /\ Range(list') = Range(list) \cup {p}
      BY <1>1, <1>7, <2>1, InsertRange DEF AddShown, TypeInv, TypeOK
    <2>3. /\ i' = IF firstParent /\ p \notin hideCb THEN Len(Parents(cur)) + 1 ELSE i + 1
          /\ UNCHANGED <<added, out, cur, pc>> /\ pc = "add"
      BY <1>7 DEF AddShown
    <2>4. Parents(cur)' = Parents(cur)
      BY <1>1, <2>3 DEF Parents
    <2>5. ASSUME cur \notin Hidden, NEW k \in 1 .. Len(Parents(cur)),
                 k < i', Parents(cur)[k] \in Follows[cur]
          PROVE  Parents(cur)[k] \in seen'
      <3>1. \A l \in 1 .. Len(Parents(cur)) :
                l < i /\ Parents(cur)[l] \in Follows[cur] => Parents(cur)[l] \in seen
        BY <1>1, <2>3, <2>5 DEF Search
      <3>2. p \notin hideCb => p \in seen'
        BY <2>2
      <3>3. Follows[cur] \cap hideCb = {}
        BY <1>1, <2>1, FollowedFacts DEF TypeInv
      <3>4. CASE firstParent /\ p \notin hideCb
        <4>1. PICK l \in 1 .. i : Parents(cur)[l] = Parents(cur)[k]
          BY <1>1, <2>1, <2>5, <3>4, FollowedFacts DEF TypeInv
        <4>. QED
          BY <2>1, <2>2, <2>5, <3>1, <3>2, <3>4, <4>1
      <3>5. CASE ~ (firstParent /\ p \notin hideCb)
        BY <2>1, <2>2, <2>3, <2>5, <3>1, <3>2, <3>3, <3>5
      <3>. QED
        BY <3>4, <3>5
    <2>. HIDE DEF p
    <2>6. /\ Tips \subseteq seen'
          /\ seen' \ Hidden \subseteq Range(list') \cup added
          /\ seen' \ (Hidden \cup hideCb) \subseteq Range(list') \cup Range(out) \cup Range(shown) \cup {cur}
          /\ \A c \in added \ Hidden : c = cur \/ Follows[c] \subseteq seen'
      BY <1>1, <2>2, <2>3 DEF Search, Held, InHand
    <2>. QED
      BY <1>1, <1>2, <2>3, <2>4, <2>5, <2>6 DEF Search, Held, InHand
  <1>8. CASE AddEnd
    <2>1. UNCHANGED <<list, seen, added, out, cur, i>> /\ pc = "add" /\ i > Len(Parents(cur))
          /\ pc' \in {"judge", "emit"}
      BY <1>8 DEF AddEnd
    <2>2. cur \notin Hidden => Follows[cur] \subseteq seen
      <3>1. cur \in Commits /\ i \in Nat /\ TypeOK
        BY <1>1, <2>1 DEF TypeInv, TypeOK, Control
      <3>2. /\ Follows[cur] \subseteq ParentsOf(cur)
            /\ \A q \in ParentsOf(cur) : \E k \in 1 .. Len(Parents(cur)) : Parents(cur)[k] = q
            /\ Len(Parents(cur)) \in Nat
        BY <3>1, FollowedFacts, RepoTyped
      <3>. QED
        BY <1>1, <2>1, <3>1, <3>2 DEF Search
    <2>. QED
      BY <1>1, <1>2, <2>1, <2>2 DEF Search, Held, InHand
  <1>9. CASE JudgeShown
    <2>1. cur \in Commits /\ Range(Append(out, cur)) = Range(out) \cup {cur}
      BY <1>1, <1>9, AppendRange DEF JudgeShown, TypeInv, TypeOK, Control
    <2>2. /\ UNCHANGED <<list, seen, added>> /\ pc = "judge" /\ pc' = "limit"
          /\ \/ cur \in hideCb /\ out' = out
             \/ Range(out') = Range(out) \cup {cur}
      BY <1>9, <2>1 DEF JudgeShown
    <2>. QED
      BY <1>1, <1>2, <2>2 DEF Search, Held, InHand
  <1>. QED
    BY <1>5, <1>6, <1>7, <1>8, <1>9

\* limit_list stops: slop' is 0 only when every commit of the list is hidden.
LEMMA LimitAccounted ==
    ASSUME CompleteInv, FewChildren, ~ trouble', JudgeHidden \/ LimitEnd
    PROVE  Accounted'
  <1>. USE DEF loop, marks, conf, report
  <1>1. /\ UNCHANGED <<repo, input, hideCb, firstParent, limited, walking, seen, added,
                       cur, i, shown>>
        /\ pc \in {"limit", "judge"} /\ limited
        /\ Search /\ TypeInv
    BY DEF JudgeHidden, LimitEnd, CompleteInv, Accounted, Searching, TypeInv, Control
  <1>2. Hidden' = Hidden /\ Tips' = Tips /\ Follows' = Follows /\ Wanted' = Wanted
    BY <1>1, HiddenSame, WantedSame, FollowsSame
  <1>3. InHand \subseteq Hidden
    BY <1>1 DEF JudgeHidden, LimitEnd, InHand, CompleteInv, Marks
  <1>4. CASE JudgeHidden /\ pc' = "limit"
    <2>1. Search'
      BY <1>1, <1>2, <1>3, <1>4 DEF JudgeHidden, Search, Held, InHand
    <2>. QED
      BY <1>4, <2>1 DEF Accounted, Fresh, Searching, Found, Topo
  <1>5. CASE pc' = "sort"
    <2>1. Range(list) \subseteq Hidden
      <3>1. CASE JudgeHidden
        <4>1. StillInteresting(uninteresting') = 0
          BY <1>5, <3>1 DEF JudgeHidden
        <4>2. uninteresting' \subseteq Hidden
          <5>1. Marks'
            BY <3>1, MarksKept DEF CompleteInv, Next, Step
          <5>. QED
            BY <1>2, <5>1 DEF Marks
        <4>3. list = << >> \/ \A k \in DOMAIN list : list[k] \in uninteresting'
          BY <1>1, <4>1 DEF StillInteresting, SLOP, TypeInv, TypeOK
        <4>. QED
          BY <4>2, <4>3, EmptyRange DEF Range
      <3>2. CASE LimitEnd
        BY <3>2, EmptyRange DEF LimitEnd
      <3>. QED
        BY <3>1, <3>2
    <2>2. Wanted \subseteq Range(out) \cup Range(shown)
      <3>1. Wanted \cap Hidden = {}
        BY DEF Wanted
      <3>. QED
        BY <1>1, <1>3, <2>1, <3>1, SearchDone DEF TypeInv
    <2>3. list' = out
      BY <1>5 DEF JudgeHidden, LimitEnd
    <2>. QED
      BY <1>1, <1>2, <1>5, <2>2, <2>3 DEF Accounted, Fresh, Searching, Found, Topo, Held
  <1>. QED
    BY <1>4, <1>5 DEF JudgeHidden, LimitEnd

\* A sorted commit that is not in the queue waits for a child, which waits for one of
\* its own: as ranks fall towards children, there is none when the queue is empty.
LEMMA NoneWaits ==
    ASSUME TypeOK, Topo, pc = "topo", queue = << >>
    PROVE  Range(list) \subseteq Range(out)
  <1>. DEFINE left == Range(list) \ Range(out)
  <1>1. Range(list) \subseteq Commits
    BY RangeOfSeq DEF TypeOK
  <1>2. \A c \in left : \E d \in left : c \in ParentsOf(d)
    BY EmptyRange DEF Topo, Waits
  <1>3. \A c, d \in Commits : c \in ParentsOf(d) => Rank[d] < Rank[c]
    BY RevWalkAssumption DEF TypeOK, ParentsOf, Range
  <1>4. ASSUME left # {}
        PROVE  FALSE
    <2>. DEFINE ranks == {Rank[c] : c \in left}
    <2>0. \A c \in left : Rank[c] \in Nat
      BY <1>1, RevWalkAssumption
    <2>1. ranks # {} /\ ranks \subseteq Nat
      BY <1>4, <2>0
    <2>2. PICK m \in ranks : \A n \in ranks : m <= n
      <3>. HIDE DEF ranks
      <3>1. \E m \in ranks : \A n \in ranks : ~ (<<n, m>> \in OpToRel(<, Nat))
        BY <2>1, NatLessThanWellFounded, WFMin, Zenon
      <3>2. \A n, m \in Nat : n < m => <<n, m>> \in OpToRel(<, Nat)
        BY DEF OpToRel
      <3>3. PICK m \in ranks : \A n \in ranks : ~ (<<n, m>> \in OpToRel(<, Nat))
        BY <3>1
      <3>4. \A n \in ranks : ~ (n < m)
        BY <2>1, <3>2, <3>3, Zenon
      <3>. QED
        BY <2>1, <3>4
    <2>3. PICK c \in left : Rank[c] = m
      BY <2>2
    <2>4. PICK d \in left : c \in ParentsOf(d)
      BY <1>2
    <2>5. Rank[d] < Rank[c] /\ Rank[d] \in ranks
      BY <1>1, <1>3, <2>4
    <2>. QED
      <3>1. Rank[d] \in Nat /\ m \in Nat /\ m <= Rank[d] /\ Rank[d] < m
        BY <2>0, <2>1, <2>2, <2>3, <2>5, Zenon
      <3>. QED
        BY <3>1
  <1>. QED
    BY <1>4

LEMMA CountsChildren ==
    ASSUME FewChildren, NEW p \in Commits, list \in Seq(Commits)
    PROVE  Cardinality(ChildrenIn(p, list)) < MaxChildren
  <1>. DEFINE children == {c \in Commits : p \in ParentsOf(c)}
  <1>1. Range(list) \subseteq Commits
    BY RangeOfSeq
  <1>2. ChildrenIn(p, list) \subseteq children /\ children \subseteq Commits
    BY <1>1 DEF ChildrenIn
  <1>3. Cardinality(children) < MaxChildren
    BY DEF FewChildren
  <1>. HIDE DEF children
  <1>4. IsFiniteSet(children)
    BY <1>2, FS_Subset, RevWalkAssumption
  <1>5. /\ Cardinality(ChildrenIn(p, list)) <= Cardinality(children)
        /\ Cardinality(ChildrenIn(p, list)) \in Nat /\ Cardinality(children) \in Nat
    BY <1>2, <1>4, FS_Subset, FS_CardinalityType
  <1>6. MaxChildren \in Nat
    BY RevWalkAssumption
  <1>. QED
    BY <1>3, <1>5, <1>6

\* sort_in_topological_order.
LEMMA TopoAccounted ==
    ASSUME CompleteInv, FewChildren, ~ trouble',
           Tip \/ TipsEnd \/ TopoPop \/ Release \/ ReleaseEnd \/ TopoEnd
    PROVE  Accounted'
  <1>. USE DEF loop, marks, conf, report
  <1>1. /\ UNCHANGED <<repo, input, hideCb, firstParent, limited, walking, shown>>
        /\ pc \in {"tips", "topo", "release"} /\ ~ walking
        /\ pc' \in {"tips", "topo", "release", "collect"}
        /\ Topo /\ Wanted \subseteq Held /\ TypeInv /\ limited
    BY DEF Tip, TipsEnd, TopoPop, Release, ReleaseEnd, TopoEnd,
           CompleteInv, Accounted, Found, TypeInv, Control
  <1>2. Wanted' = Wanted
    BY <1>1, WantedSame
  <1>3. Wanted \subseteq Range(list) \cup Range(out) \cup Range(shown)
    BY <1>1 DEF Held, InHand
  <1>4. list \in Seq(Commits) /\ out \in Seq(Commits) /\ queue \in Seq(Commits) /\ i \in Nat
        /\ DOMAIN list = 1 .. Len(list)
    BY <1>1 DEF TypeInv, TypeOK
  <1>5. SUFFICES Topo' /\ Wanted' \subseteq Held'
    BY <1>1 DEF Accounted, Fresh, Searching
  <1>6. CASE Tip
    <2>1. list[i] \in Commits
      BY <1>1, <1>4, <1>6, ElementOfSeq DEF Tip, TypeInv, Control
    <2>2. /\ Range(queue) \subseteq Range(queue')
          /\ ChildrenIn(list[i], list) = {} => list[i] \in Range(queue')
      BY <1>4, <1>6, <2>1, AppendRange DEF Tip
    <2>3. UNCHANGED <<repo, list, out>> /\ pc = "tips" /\ pc' = "tips" /\ i' = i + 1
      BY <1>6 DEF Tip
    <2>4. ASSUME NEW k \in DOMAIN list, k < i + 1, ChildrenIn(list[k], list) = {}
          PROVE  list[k] \in Range(queue')
      BY <1>1, <1>4, <2>2, <2>3, <2>4 DEF Topo
    <2>5. Topo'
      BY <2>3, <2>4 DEF Topo, ChildrenIn, ParentsOf
    <2>. QED
      BY <1>1, <1>2, <1>3, <2>3, <2>5 DEF Held
  <1>7. CASE TipsEnd
    <2>1. UNCHANGED <<repo, list, out, queue>> /\ pc = "tips" /\ pc' = "topo" /\ i > Len(list)
          /\ out = << >>
      BY <1>1, <1>7 DEF TipsEnd, TypeInv, Control
    <2>2. ASSUME NEW c \in Range(list)
          PROVE  c \in Range(queue) \/ \E d \in Range(list) : c \in ParentsOf(d)
      <3>1. PICK k \in DOMAIN list : list[k] = c
        BY <2>2 DEF Range
      <3>2. ChildrenIn(c, list) = {} => c \in Range(queue)
        BY <1>1, <1>4, <2>1, <3>1 DEF Topo
      <3>. QED
        BY <3>2 DEF ChildrenIn
    <2>3. Topo'
      BY <2>1, <2>2, EmptyRange DEF Topo, Waits, ParentsOf
    <2>. QED
      BY <1>1, <1>2, <1>3, <2>1, <2>3 DEF Held
  <1>8. CASE TopoPop
    <2>1. PICK k \in DOMAIN queue : cur' = queue[k] /\ queue' = Without(queue, k)
      BY <1>8, Zenon DEF TopoPop
    <2>2. Range(queue) = {cur'} \cup Range(queue') /\ cur' \in Commits
      BY <1>4, <2>1, WithoutRange
    <2>3. UNCHANGED <<repo, list, out>> /\ pc = "topo" /\ pc' = "release" /\ i' = 1
      BY <1>8 DEF TopoPop
    <2>4. \A c \in ParentsOf(cur') : \E l \in 1 .. Len(Parents(cur')) : Parents(cur')[l] = c
      BY <1>1, <2>2, RepoTyped DEF TypeInv
    <2>5. ASSUME NEW c \in Range(list), Waits(c)
          PROVE  Waits(c)'
      BY <2>3, <2>4, <2>5 DEF Waits, ParentsOf, Parents
    <2>6. Topo'
      BY <1>1, <2>2, <2>3, <2>5 DEF Topo
    <2>. QED
      BY <1>1, <1>2, <1>3, <2>3, <2>6 DEF Held
  <1>9. CASE Release
    <2>. DEFINE p == Parents(cur)[i]
    <2>1. cur \in Commits /\ i \in 1 .. Len(Parents(cur)) /\ p \in Commits
          /\ Len(Parents(cur)) \in Nat
      BY <1>1, <1>9, RepoTyped DEF Release, TypeInv, TypeOK, Control
    <2>2. Range(queue) \subseteq Range(queue') /\ (Ready(p) => p \in Range(queue'))
      BY <1>4, <1>9, <2>1, ConsRange DEF Release
    <2>3. UNCHANGED <<repo, list, out, cur>> /\ pc = "release" /\ pc' = "release" /\ i' = i + 1
      BY <1>9 DEF Release
    <2>4. p \in Range(list) /\ ~ Ready(p) =>
             \E d \in Range(list) \ Range(out) : d # cur /\ p \in ParentsOf(d)
      <3>1. Cardinality(ChildrenIn(p, list)) < MaxChildren
        BY <1>4, <2>1, CountsChildren
      <3>. QED
        BY <3>1 DEF Ready, Counted, ChildrenIn
    <2>. HIDE DEF p
    <2>5. ASSUME NEW c \in Range(list), Waits(c)
          PROVE  Waits(c)' \/ c \in Range(queue')
      <3>1. CASE c = p
        BY <2>2, <2>3, <2>4, <3>1 DEF Waits, ParentsOf
      <3>2. CASE c # p
        <4>1. PICK d \in Range(list) \ Range(out) :
                  /\ c \in ParentsOf(d)
                  /\ d = cur => \E k \in i .. Len(Parents(cur)) : Parents(cur)[k] = c
          BY <2>3, <2>5 DEF Waits
        <4>2. d = cur => \E k \in i + 1 .. Len(Parents(cur)) : Parents(cur)[k] = c
          BY <2>1, <3>2, <4>1 DEF p
        <4>. QED
          BY <2>3, <4>1, <4>2 DEF Waits, ParentsOf, Parents
      <3>. QED
        BY <3>1, <3>2
    <2>6. Topo'
      BY <1>1, <2>2, <2>3, <2>5 DEF Topo
    <2>. QED
      BY <1>1, <1>2, <1>3, <2>3, <2>6 DEF Held
  <1>10. CASE ReleaseEnd
    <2>1. cur \in Commits /\ Len(Parents(cur)) \in Nat
      BY <1>1, <1>10, RepoTyped DEF ReleaseEnd, TypeInv, TypeOK, Control
    <2>2. Range(out') = Range(out) \cup {cur}
      BY <1>4, <1>10, <2>1, AppendRange DEF ReleaseEnd
    <2>3. UNCHANGED <<repo, list, queue>> /\ pc = "release" /\ pc' = "topo"
          /\ i > Len(Parents(cur))
      BY <1>10 DEF ReleaseEnd
    <2>4. ASSUME NEW c \in Range(list), Waits(c)
          PROVE  Waits(c)'
      <3>1. PICK d \in Range(list) \ Range(out) :
                /\ c \in ParentsOf(d)
                /\ d = cur => \E k \in i .. Len(Parents(cur)) : Parents(cur)[k] = c
        BY <2>3, <2>4 DEF Waits
      <3>2. d # cur
        BY <1>4, <2>1, <2>3, <3>1
      <3>. QED
        BY <2>2, <2>3, <3>1, <3>2 DEF Waits, ParentsOf
    <2>5. Topo'
      BY <1>1, <2>2, <2>3, <2>4 DEF Topo
    <2>. QED
      BY <1>1, <1>2, <1>3, <2>2, <2>3, <2>5 DEF Held
  <1>11. CASE TopoEnd
    <2>1. Range(list) \subseteq Range(out)
      BY <1>1, <1>11, NoneWaits DEF TopoEnd, TypeInv
    <2>2. list' = out /\ pc' = "collect"
      BY <1>11 DEF TopoEnd
    <2>. QED
      BY <1>1, <1>2, <1>3, <2>1, <2>2 DEF Topo, Held
  <1>. QED
    BY <1>6, <1>7, <1>8, <1>9, <1>10, <1>11

\* What becomes of the list once it is found and sorted, and of the list of a walk
\* that is not limited, whose search goes on.
LEMMA ListAccounted ==
    ASSUME CompleteInv, FewChildren, ~ trouble',
           Sort \/ Collect \/ CollectEnd \/ NextPop \/ Emit \/ EmitHidden
    PROVE  Accounted'
  <1>. USE DEF loop, marks, conf, report
  <1>1. /\ UNCHANGED <<repo, input, hideCb, firstParent, limited, seen>>
        /\ pc \in {"sort", "collect", "next", "emit"}
        /\ pc' \in {"tips", "collect", "next", "emit", "add", "idle"}
        /\ pc' = "idle" => walking'
        /\ Fresh /\ TypeInv
        /\ limited => Wanted \subseteq Held
        /\ ~ limited => Search
        /\ pc' = "tips" => limited /\ i' = 1
        /\ pc' = "add" => ~ limited
    BY DEF Sort, Collect, CollectEnd, NextPop, Visit, Emit, Return, EmitHidden,
           CompleteInv, Accounted, Searching, Found, TypeInv, Control
  <1>2. Hidden' = Hidden /\ Tips' = Tips /\ Follows' = Follows /\ Wanted' = Wanted
    BY <1>1, HiddenSame, WantedSame, FollowsSame
  <1>3. list \in Seq(Commits) /\ out \in Seq(Commits) /\ shown \in Seq(Commits)
        /\ DOMAIN list = 1 .. Len(list)
    BY <1>1 DEF TypeInv, TypeOK
  <1>4. Fresh' /\ Topo'
    <2>1. pc' = "tips" => UNCHANGED list
      BY <1>1 DEF Sort, Collect, CollectEnd, NextPop, Visit, Emit, Return, EmitHidden
    <2>. QED
      BY <1>1, <1>3, <2>1 DEF Fresh, Topo
  <1>5. uninteresting \subseteq Hidden /\ Wanted \cap Hidden = {}
    BY DEF CompleteInv, Marks, Wanted
  <1>6. SUFFICES /\ limited => Wanted \subseteq Held'
                 /\ ~ limited => Search'
    BY <1>1, <1>2, <1>4 DEF Accounted, Searching, Found
  <1>7. CASE Sort
    BY <1>1, <1>2, <1>7 DEF Sort, Search, Held, InHand
  <1>8. CASE Collect
    <2>1. limited
      BY <1>1, <1>8 DEF Collect, TypeInv, Control
    <2>2. PICK k \in DOMAIN list :
              /\ list' = Without(list, k)
              /\ out' = IF list[k] \in uninteresting THEN out ELSE <<list[k]>> \o out
      BY <1>8, Zenon DEF Collect
    <2>3. Range(list) = {list[k]} \cup Range(list') /\ list[k] \in Commits
      <3>1. list' = Without(list, k)
        BY <2>2
      <3>2. /\ list[k] \in Commits
            /\ Range(list) = {list[k]} \cup Range(Without(list, k))
        BY <1>3, WithoutRange
      <3>. QED
        BY <3>1, <3>2, Zenon
    <2>4. <<list[k]>> \o out \in Seq(Commits)
          /\ Range(<<list[k]>> \o out) = {list[k]} \cup Range(out)
      BY <1>3, <2>3, ConsRange
    <2>5. Range(out) \subseteq Range(out')
          /\ (list[k] \notin uninteresting => list[k] \in Range(out'))
      BY <2>2, <2>4
    <2>6. UNCHANGED shown /\ pc = "collect"
      BY <1>8 DEF Collect
    <2>. QED
      BY <1>1, <1>5, <2>1, <2>3, <2>5, <2>6 DEF Held, InHand
  <1>9. CASE CollectEnd
    <2>1. /\ UNCHANGED <<added, shown>> /\ pc = "collect" /\ pc' = "next"
          /\ \/ list = << >> /\ list' = out /\ limited
             \/ out = << >> /\ list' = list
      BY <1>1, <1>9 DEF CollectEnd, TypeInv, Control
    <2>. QED
      BY <1>1, <1>2, <2>1, EmptyRange DEF Search, Held, InHand
  <1>10. CASE NextPop
    <2>1. PICK k \in DOMAIN list :
              /\ list' = Without(list, k)
              /\ \/ ~ limited /\ Visit(list[k], "emit")
                 \/ limited /\ cur' = list[k] /\ pc' = "emit" /\ UNCHANGED <<added, i>>
      BY <1>10, Zenon DEF NextPop
    <2>2. Range(list) = {list[k]} \cup Range(list')
      BY <1>3, <2>1, WithoutRange
    <2>3. UNCHANGED <<shown, out>> /\ pc = "next" /\ cur' = list[k]
      BY <1>10, <2>1 DEF NextPop, Visit
    <2>4. limited => Wanted \subseteq Held'
      BY <1>1, <2>1, <2>2, <2>3 DEF Held, InHand
    <2>5. ASSUME ~ limited
          PROVE  Search'
      <3>1. /\ added' = added \cup {cur'} /\ i' = 1
            /\ pc' = IF cur' \in added THEN "emit" ELSE "add"
        BY <2>1, <2>3, <2>5 DEF Visit
      <3>. QED
        BY <1>1, <1>2, <2>2, <2>3, <2>5, <3>1 DEF Search, Held, InHand
    <2>. QED
      BY <2>4, <2>5
  <1>11. CASE Emit
    <2>1. cur \in Commits /\ out = << >>
      BY <1>1, <1>11 DEF Emit, TypeInv, Control
    <2>2. Range(shown') = Range(shown) \cup {cur}
      BY <1>3, <1>11, <2>1, AppendRange DEF Emit
    <2>3. UNCHANGED <<list, added>> /\ pc = "emit" /\ pc' = "idle" /\ out' = << >>
      BY <1>11 DEF Emit, Return
    <2>. QED
      BY <1>1, <1>2, <2>1, <2>2, <2>3 DEF Search, Held, InHand
  <1>12. CASE EmitHidden
    <2>1. UNCHANGED <<list, added, out, shown>> /\ pc = "emit" /\ pc' = "next"
          /\ cur \in Hidden
      BY <1>5, <1>12 DEF EmitHidden
    <2>. QED
      BY <1>1, <1>2, <1>5, <2>1 DEF Search, Held, InHand
  <1>. QED
    BY <1>7, <1>8, <1>9, <1>10, <1>11, <1>12

LEMMA RepoSame ==
    ASSUME [Next]_vars
    PROVE  repo' = repo
  BY DEF Next, Step, vars, marks, conf, loop, report, PushCommit, SimplifyFirstParent,
         SetSorting, AddHideCb, Reset, CallNext, Prepare, Prepared, LimitPop, AddHidden,
         AddShown, AddFails, AddEnd, JudgeHidden, JudgeShown, LimitEnd, Sort, Tip, TipsEnd,
         TopoPop, Release, ReleaseEnd, TopoEnd, Collect, CollectEnd, NextPop, Emit,
         EmitHidden, EndWalk

LEMMA NextComplete == CompleteInv /\ [Next]_vars => CompleteInv'
  <1>. SUFFICES ASSUME CompleteInv, [Next]_vars
                PROVE  CompleteInv'
    OBVIOUS
  <1>1. TypeInv' /\ Marks'
    BY NextTyped, MarksKept DEF CompleteInv
  <1>2. ASSUME ~ trouble', FewChildren'
        PROVE  Accounted'
    <2>0. FewChildren
      BY <1>2, RepoSame DEF FewChildren, ParentsOf
    <2>1. CASE UNCHANGED vars
      <3>1. /\ UNCHANGED <<repo, input, hideCb, firstParent, limited, walking, shown>>
            /\ UNCHANGED <<seen, added, list, pc, cur, i, out, queue, trouble>>
        BY <2>1 DEF vars, marks, conf, loop, report
      <3>2. Hidden' = Hidden /\ Tips' = Tips /\ Follows' = Follows /\ Wanted' = Wanted
        BY <3>1, HiddenSame, WantedSame, FollowsSame
      <3>. QED
        BY <1>2, <2>0, <3>1, <3>2 DEF CompleteInv, Accounted, Fresh, Searching, Search, Found, Topo,
                                Waits, ChildrenIn, ParentsOf, Parents, Held, InHand
    <2>2. CASE AddFails
      BY <1>2, <2>2 DEF AddFails
    <2>3. CASE EndWalk
      BY <2>3, BeginsAccounted DEF EndWalk, Clear, Return
    <2>. QED
      BY <1>2, <2>0, <2>1, <2>2, <2>3, CallerAccounted, PrepareAccounted, SearchAccounted,
         LimitAccounted, TopoAccounted, ListAccounted DEF Next, Step
  <1>. QED
    BY <1>1, <1>2 DEF CompleteInv

\* Complete holds of every walk over every history, whatever the dates, the callback
\* and the order, as long as in_degree can count the children: git_revwalk_next
\* never loses a commit, although limit_list stops before it has seen the whole
\* history and the topological sort drops what it never releases.
THEOREM NothingLost == Spec => []Complete
  <1>1. Init => CompleteInv
    <2>1. ASSUME Init
          PROVE  Marks /\ Accounted
      BY <2>1 DEF Init, Marks, Accounted, Fresh, Searching, Found, Topo
    <2>. QED
      BY <2>1, InitTyped DEF CompleteInv
  <1>2. CompleteInv => Complete
    <2>. SUFFICES ASSUME CompleteInv, Over, ~ trouble, FewChildren
                  PROVE  Wanted \subseteq Range(shown)
      BY DEF Complete
    <2>1. pc = "next" /\ list = << >> /\ out = << >> /\ TypeOK
      BY DEF Over, CompleteInv, TypeInv, Control
    <2>2. Range(list) = {} /\ Range(out) = {} /\ InHand = {}
      BY <2>1, EmptyRange DEF InHand
    <2>3. CASE limited
      BY <2>1, <2>2, <2>3 DEF CompleteInv, Accounted, Found, Held
    <2>4. CASE ~ limited
      BY <2>1, <2>2, <2>4, SearchDone DEF CompleteInv, Accounted, Searching
    <2>. QED
      BY <2>3, <2>4
  <1>. QED
    BY <1>1, <1>2, NextComplete, PTL DEF Spec

-----------------------------------------------------------------------------
(* Lists whose elements stand in a relation R, each to those behind it.    *)

Arranged(s, R) == \A j, k \in DOMAIN s : j < k => <<s[j], s[k]>> \in R

LEMMA ArrangedEmpty == ASSUME NEW R PROVE Arranged(<< >>, R)
  BY DEF Arranged

LEMMA ArrangedAppend ==
    ASSUME NEW S, NEW s \in Seq(S), NEW e \in S, NEW R, Arranged(s, R),
           \A a \in Range(s) : <<a, e>> \in R
    PROVE  Arranged(Append(s, e), R)
  <1>1. /\ DOMAIN s = 1 .. Len(s) /\ Len(s) \in Nat
        /\ DOMAIN Append(s, e) = 1 .. Len(s) + 1
        /\ \A k \in 1 .. Len(s) : Append(s, e)[k] = s[k] /\ s[k] \in Range(s)
        /\ Append(s, e)[Len(s) + 1] = e
    BY DEF Range
  <1>. SUFFICES ASSUME NEW j \in 1 .. Len(s) + 1, NEW k \in 1 .. Len(s) + 1, j < k
                PROVE  <<Append(s, e)[j], Append(s, e)[k]>> \in R
    BY <1>1 DEF Arranged
  <1>2. j \in 1 .. Len(s)
    BY <1>1
  <1>3. CASE k = Len(s) + 1
    BY <1>1, <1>2, <1>3
  <1>4. CASE k \in 1 .. Len(s)
    BY <1>1, <1>2, <1>4 DEF Arranged
  <1>. QED
    BY <1>1, <1>3, <1>4

LEMMA ArrangedCons ==
    ASSUME NEW S, NEW s \in Seq(S), NEW e \in S, NEW R, Arranged(s, R),
           \A a \in Range(s) : <<e, a>> \in R
    PROVE  Arranged(<<e>> \o s, R)
  <1>. DEFINE t == <<e>> \o s
  <1>1. /\ DOMAIN s = 1 .. Len(s) /\ Len(s) \in Nat
        /\ DOMAIN t = 1 .. Len(s) + 1
        /\ \A k \in 1 .. Len(s) : s[k] \in Range(s)
        /\ \A k \in 2 .. Len(s) + 1 : t[k] = s[k - 1]
        /\ t[1] = e
    BY DEF Range
  <1>. HIDE DEF t
  <1>. SUFFICES ASSUME NEW j \in 1 .. Len(s) + 1, NEW k \in 1 .. Len(s) + 1, j < k
                PROVE  <<t[j], t[k]>> \in R
    BY <1>1 DEF Arranged, t
  <1>3. k \in 2 .. Len(s) + 1 /\ k - 1 \in 1 .. Len(s)
    BY <1>1
  <1>4. t[k] = s[k - 1] /\ s[k - 1] \in Range(s)
    BY <1>1, <1>3
  <1>5. CASE j = 1
    BY <1>1, <1>4, <1>5
  <1>6. CASE j # 1
    <2>1. j \in 2 .. Len(s) + 1 /\ j - 1 \in 1 .. Len(s) /\ j - 1 < k - 1
      BY <1>1, <1>6
    <2>2. <<s[j - 1], s[k - 1]>> \in R
      BY <1>1, <1>3, <2>1 DEF Arranged
    <2>. QED
      BY <1>1, <1>4, <2>1, <2>2
  <1>. QED
    BY <1>5, <1>6

\* Where the elements are once one is taken out.
LEMMA WithoutElements ==
    ASSUME NEW S, NEW s \in Seq(S), NEW k \in 1 .. Len(s)
    PROVE  /\ DOMAIN Without(s, k) = 1 .. Len(s) - 1
           /\ \A j \in 1 .. k - 1 : Without(s, k)[j] = s[j]
           /\ \A j \in k .. Len(s) - 1 : Without(s, k)[j] = s[j + 1]
  <1>. DEFINE t == SubSeq(s, 1, k - 1)
              u == SubSeq(s, k + 1, Len(s))
  <1>1. /\ t \in Seq(S) /\ Len(t) = k - 1
        /\ \A j \in 1 .. k - 1 : t[j] = s[j]
    OBVIOUS
  <1>2. /\ u \in Seq(S) /\ Len(u) = Len(s) - k
        /\ \A j \in 1 .. Len(s) - k : u[j] = s[k + j]
    OBVIOUS
  <1>3. Without(s, k) = t \o u
    BY DEF Without
  <1>. HIDE DEF t, u
  <1>4. /\ t \o u \in Seq(S) /\ Len(t \o u) = Len(s) - 1
        /\ \A j \in 1 .. Len(s) - 1 : (t \o u)[j] = IF j <= k - 1 THEN t[j] ELSE u[j - (k - 1)]
    <2>1. /\ t \o u \in Seq(S) /\ Len(t \o u) = Len(t) + Len(u)
          /\ \A j \in 1 .. Len(t) + Len(u) : (t \o u)[j] = IF j <= Len(t) THEN t[j] ELSE u[j - Len(t)]
      BY <1>1, <1>2, ConcatProperties
    <2>2. Len(t) + Len(u) = Len(s) - 1
      BY <1>1, <1>2
    <2>. QED
      BY <1>1, <2>1, <2>2
  <1>5. DOMAIN (t \o u) = 1 .. Len(s) - 1
    BY <1>4
  <1>6. ASSUME NEW j \in 1 .. k - 1 PROVE (t \o u)[j] = s[j]
    BY <1>1, <1>4
  <1>7. ASSUME NEW j \in k .. Len(s) - 1 PROVE (t \o u)[j] = s[j + 1]
    <2>1. j \in 1 .. Len(s) - 1 /\ ~ (j <= k - 1) /\ j - (k - 1) \in 1 .. Len(s) - k
          /\ k + (j - (k - 1)) = j + 1
      OBVIOUS
    <2>2. (t \o u)[j] = u[j - (k - 1)]
      BY <1>4, <2>1
    <2>. QED
      BY <1>2, <2>1, <2>2
  <1>. QED
    BY <1>3, <1>5, <1>6, <1>7

LEMMA ArrangedWithout ==
    ASSUME NEW S, NEW s \in Seq(S), NEW k \in DOMAIN s, NEW R, Arranged(s, R)
    PROVE  /\ Arranged(Without(s, k), R)
           /\ \A a \in Range(Without(s, k)) : <<s[k], a>> \in R \/ <<a, s[k]>> \in R
           /\ k = 1 => \A a \in Range(Without(s, k)) : <<s[k], a>> \in R
  <1>. DEFINE t == Without(s, k)
              from(j) == IF j < k THEN j ELSE j + 1
  <1>1. DOMAIN s = 1 .. Len(s) /\ Len(s) \in Nat /\ k \in 1 .. Len(s)
    OBVIOUS
  <1>2. /\ DOMAIN t = 1 .. Len(s) - 1
        /\ \A j \in 1 .. k - 1 : t[j] = s[j]
        /\ \A j \in k .. Len(s) - 1 : t[j] = s[j + 1]
    BY <1>1, WithoutElements
  <1>. HIDE DEF t
  <1>3. ASSUME NEW j \in 1 .. Len(s) - 1
        PROVE  from(j) \in 1 .. Len(s) /\ from(j) # k /\ t[j] = s[from(j)]
    <2>1. CASE j < k
      BY <1>1, <1>2, <2>1
    <2>2. CASE ~ (j < k)
      <3>1. j \in k .. Len(s) - 1 /\ j + 1 \in 1 .. Len(s) /\ j + 1 # k
        BY <1>1, <2>2
      <3>. QED
        BY <1>2, <2>2, <3>1
    <2>. QED
      BY <2>1, <2>2
  <1>4. Arranged(t, R)
    <2>. SUFFICES ASSUME NEW j \in 1 .. Len(s) - 1, NEW l \in 1 .. Len(s) - 1, j < l
                  PROVE  <<t[j], t[l]>> \in R
      BY <1>2 DEF Arranged
    <2>1. from(j) < from(l)
      BY <1>1
    <2>2. /\ from(j) \in DOMAIN s /\ t[j] = s[from(j)]
          /\ from(l) \in DOMAIN s /\ t[l] = s[from(l)]
      BY <1>1, <1>3
    <2>. HIDE DEF from
    <2>. QED
      BY <2>1, <2>2 DEF Arranged
  <1>5. ASSUME NEW a \in Range(t)
        PROVE  /\ <<s[k], a>> \in R \/ <<a, s[k]>> \in R
               /\ k = 1 => <<s[k], a>> \in R
    <2>1. PICK j \in 1 .. Len(s) - 1 : a = t[j]
      BY <1>2, <1>5 DEF Range
    <2>2. PICK l \in 1 .. Len(s) : l # k /\ a = s[l]
      BY <1>3, <2>1
    <2>3. CASE l < k
      BY <1>1, <2>2, <2>3 DEF Arranged
    <2>4. CASE k < l
      BY <1>1, <2>2, <2>4 DEF Arranged
    <2>. QED
      BY <1>1, <2>2, <2>3, <2>4
  <1>. QED
    BY <1>4, <1>5 DEF t

LEMMA ArrangedTail ==
    ASSUME NEW S, NEW s \in Seq(S), s # << >>, NEW R, Arranged(s, R)
    PROVE  Arranged(Tail(s), R) /\ \A a \in Range(Tail(s)) : <<Head(s), a>> \in R
  <1>. DEFINE t == Tail(s)
  <1>1. DOMAIN s = 1 .. Len(s) /\ Len(s) \in Nat /\ 1 \in 1 .. Len(s) /\ Head(s) = s[1]
    OBVIOUS
  <1>2. DOMAIN t = 1 .. Len(s) - 1 /\ \A j \in 1 .. Len(s) - 1 : t[j] = s[j + 1]
    OBVIOUS
  <1>. HIDE DEF t
  <1>3. Arranged(t, R)
    <2>. SUFFICES ASSUME NEW j \in 1 .. Len(s) - 1, NEW l \in 1 .. Len(s) - 1, j < l
                  PROVE  <<t[j], t[l]>> \in R
      BY <1>2 DEF Arranged
    <2>1. j + 1 \in DOMAIN s /\ l + 1 \in DOMAIN s /\ j + 1 < l + 1
      BY <1>1
    <2>2. <<s[j + 1], s[l + 1]>> \in R
      BY <2>1 DEF Arranged
    <2>. QED
      BY <1>2, <2>2
  <1>4. ASSUME NEW a \in Range(t) PROVE <<Head(s), a>> \in R
    <2>1. PICK j \in 1 .. Len(s) - 1 : a = t[j]
      BY <1>2, <1>4 DEF Range
    <2>2. j + 1 \in DOMAIN s /\ 1 < j + 1 /\ 1 \in DOMAIN s /\ a = s[j + 1]
      BY <1>1, <1>2, <2>1
    <2>3. <<s[1], s[j + 1]>> \in R
      BY <2>2 DEF Arranged
    <2>. QED
      BY <1>1, <2>2, <2>3
  <1>. QED
    BY <1>3, <1>4 DEF t

\* c comes to stand at k, where it fits.
Inserted(c, k) == list' = SubSeq(list, 1, k - 1) \o <<c>> \o SubSeq(list, k, Len(list))

Fits(c, k, R) == /\ \A j \in 1 .. k - 1 : <<list[j], c>> \in R
                 /\ \A j \in k .. Len(list) : <<c, list[j]>> \in R

LEMMA ArrangedInsertAt ==
    ASSUME list \in Seq(Commits), NEW c \in Commits, NEW k \in 1 .. Len(list) + 1,
           Inserted(c, k), NEW R, Arranged(list, R), Fits(c, k, R)
    PROVE  Arranged(list', R)
  <1>1. list' = SubSeq(list, 1, k - 1) \o <<c>> \o SubSeq(list, k, Len(list))
    BY DEF Inserted
  <1>. DEFINE t == SubSeq(list, 1, k - 1)
              u == SubSeq(list, k, Len(list))
              v == t \o <<c>>
  <1>2. DOMAIN list = 1 .. Len(list) /\ Len(list) \in Nat
        /\ \A j \in 1 .. Len(list) : list[j] \in Range(list)
    BY DEF Range
  <1>3. t \in Seq(Commits) /\ Len(t) = k - 1 /\ \A j \in 1 .. k - 1 : t[j] = list[j]
    BY <1>2
  <1>4. /\ u \in Seq(Commits) /\ Len(u) = Len(list) - k + 1
        /\ \A j \in 1 .. Len(list) - k + 1 : u[j] = list[k + j - 1]
    BY <1>2
  <1>5. list' = v \o u
    BY <1>1
  <1>. HIDE DEF t, u
  <1>6. /\ v \in Seq(Commits) /\ Len(v) = k
        /\ \A j \in 1 .. k - 1 : v[j] = list[j]
        /\ v[k] = c
    BY <1>2, <1>3
  <1>. HIDE DEF v
  <1>7. /\ v \o u \in Seq(Commits) /\ Len(v \o u) = Len(list) + 1
        /\ \A j \in 1 .. Len(list) + 1 : (v \o u)[j] = IF j <= k THEN v[j] ELSE u[j - k]
    <2>1. /\ v \o u \in Seq(Commits) /\ Len(v \o u) = Len(v) + Len(u)
          /\ \A j \in 1 .. Len(v) + Len(u) :
                 (v \o u)[j] = IF j <= Len(v) THEN v[j] ELSE u[j - Len(v)]
      BY <1>4, <1>6, ConcatProperties
    <2>2. Len(v) + Len(u) = Len(list) + 1 /\ Len(v) = k
      BY <1>2, <1>4, <1>6
    <2>. QED
      BY <2>1, <2>2
  <1>8. DOMAIN list' = 1 .. Len(list) + 1
    BY <1>5, <1>7
  <1>9. ASSUME NEW j \in 1 .. Len(list) + 1
        PROVE  \/ j < k /\ list'[j] = list[j] /\ j \in 1 .. Len(list)
               \/ j = k /\ list'[j] = c
               \/ j > k /\ list'[j] = list[j - 1] /\ j - 1 \in 1 .. Len(list)
    <2>0. j <= k => list'[j] = v[j]
      BY <1>5, <1>7
    <2>1. CASE j < k
      <3>1. j \in 1 .. k - 1 /\ j \in 1 .. Len(list)
        BY <1>2, <2>1
      <3>. QED
        BY <1>6, <2>0, <2>1, <3>1
    <2>2. CASE j = k
      BY <1>6, <2>0, <2>2
    <2>3. CASE j > k
      <3>1. ~ (j <= k) /\ j - k \in 1 .. Len(list) - k + 1 /\ k + (j - k) - 1 = j - 1
            /\ j - 1 \in 1 .. Len(list)
        BY <1>2, <2>3
      <3>2. (v \o u)[j] = u[j - k]
        BY <1>7, <3>1
      <3>3. u[j - k] = list[j - 1]
        BY <1>4, <3>1
      <3>. QED
        BY <1>5, <2>3, <3>1, <3>2, <3>3
    <2>. QED
      BY <1>2, <2>1, <2>2, <2>3
  <1>. SUFFICES ASSUME NEW j \in 1 .. Len(list) + 1, NEW l \in 1 .. Len(list) + 1, j < l
                PROVE  <<list'[j], list'[l]>> \in R
    BY <1>8 DEF Arranged
  <1>10. CASE j = k
    <2>1. list'[j] = c /\ list'[l] = list[l - 1] /\ l - 1 \in k .. Len(list)
      BY <1>9, <1>10
    <2>. QED
      BY <2>1 DEF Fits
  <1>11. CASE l = k
    <2>1. list'[l] = c /\ list'[j] = list[j] /\ j \in 1 .. k - 1
      BY <1>9, <1>11
    <2>. QED
      BY <2>1 DEF Fits
  <1>12. CASE j # k /\ l # k
    <2>1. PICK m \in 1 .. Len(list) : list'[j] = list[m] /\ m = (IF j < k THEN j ELSE j - 1)
      BY <1>9, <1>12
    <2>2. PICK n \in 1 .. Len(list) : list'[l] = list[n] /\ n = (IF l < k THEN l ELSE l - 1)
      BY <1>9, <1>12
    <2>3. m < n
      BY <1>12, <2>1, <2>2
    <2>. QED
      BY <1>2, <2>1, <2>2, <2>3 DEF Arranged
  <1>. QED
    BY <1>10, <1>11, <1>12

LEMMA ArrangedInsert ==
    ASSUME list \in Seq(Commits), NEW c \in Commits, Insert(c), NEW R, Arranged(list, R),
           \A a \in Range(list) : <<a, c>> \in R /\ <<c, a>> \in R
    PROVE  Arranged(list', R)
  <1>1. PICK k \in 1 .. Len(list) + 1 : Inserted(c, k)
    BY Zenon DEF Insert, Inserted
  <1>2. Len(list) \in Nat /\ \A j \in 1 .. Len(list) : list[j] \in Range(list)
    BY DEF Range
  <1>3. Fits(c, k, R)
    <2>1. ASSUME NEW j \in 1 .. k - 1 PROVE <<list[j], c>> \in R
      <3>1. list[j] \in Range(list)
        BY <1>2
      <3>. QED
        BY <3>1
    <2>2. ASSUME NEW j \in k .. Len(list) PROVE <<c, list[j]>> \in R
      <3>1. list[j] \in Range(list)
        BY <1>2
      <3>. QED
        BY <3>1
    <2>. QED
      BY <2>1, <2>2 DEF Fits
  <1>. QED
    BY <1>1, <1>3, ArrangedInsertAt

-----------------------------------------------------------------------------
(* No commit is returned twice, and children come before their parents.    *)

\* While limit_list runs a hidden commit may be in the list several times; it is not
\* taken from there.
Dull == IF pc \in {"limit", "judge"} \/ (pc = "add" /\ limited) THEN uninteresting ELSE {}

Differ(U) == {e \in Commits \X Commits : e[1] # e[2] \/ e[1] \in U}

Taken == Range(out) \cup Range(shown)

Plain ==
    /\ ~ walking => shown = << >>
    /\ pc = "idle" /\ ~ walking => list = << >>
    /\ ~ limited => uninteresting = {}
    /\ pc \notin {"tips", "topo", "release"} => queue = << >>

\* Each commit is in one place, and there once.
Placed ==
    /\ Range(list) \cup Taken \cup InHand \subseteq seen
    /\ Arranged(list, Differ(Dull))
    /\ Arranged(out, Differ({}))
    /\ Arranged(shown, Differ({}))
    /\ pc \notin {"topo", "release"} => (Taken \cup InHand) \cap Range(list) \subseteq Dull
    /\ Taken \cap InHand \subseteq Dull

ChildFirst  == {e \in Commits \X Commits : e[1] \notin ParentsOf(e[2])}
ParentFirst == {e \in Commits \X Commits : e[2] \notin ParentsOf(e[1])}

\* The child whose parents are being released, for those that have been already.
Releasing(c) == IF pc = "release" /\ \E k \in 1 .. i - 1 : Parents(cur)[k] = c THEN {cur} ELSE {}

\* The topological sort: what is in the queue has all its children in out.
Sorted ==
    /\ pc = "tips" => /\ Arranged(queue, Differ({}))
                      /\ \A c \in Range(queue) : \E k \in DOMAIN list : k < i /\ list[k] = c
                      /\ \A c \in Range(queue) : ChildrenIn(c, list) = {}
    /\ pc \in {"topo", "release"} =>
          /\ Range(queue) \cup Range(out) \subseteq Range(list)
          /\ Arranged(queue, Differ({}))
          /\ Range(queue) \cap Range(out) = {}
          /\ \A c \in Range(out) : ChildrenIn(c, list) \subseteq Range(out)
          /\ \A c \in Range(queue) : ChildrenIn(c, list) \subseteq Range(out) \cup Releasing(c)
          /\ Arranged(out, ChildFirst)
    /\ pc = "release" => /\ cur \in Range(list) \ (Range(queue) \cup Range(out))
                         /\ ChildrenIn(cur, list) \subseteq Range(out)

OnceInv == TypeInv /\ Plain /\ Placed /\ Sorted

LEMMA DifferFacts ==
    ASSUME NEW U, NEW a \in Commits, NEW b \in Commits
    PROVE  <<a, b>> \in Differ(U) <=> (a # b \/ a \in U)
  BY DEF Differ

\* More copies may be made of more commits.
LEMMA DifferGrows ==
    ASSUME NEW s, NEW U, NEW W, U \subseteq W, Arranged(s, Differ(U))
    PROVE  Arranged(s, Differ(W))
  BY DEF Arranged, Differ

LEMMA OnceFacts ==
    ASSUME OnceInv
    PROVE  /\ list \in Seq(Commits) /\ out \in Seq(Commits) /\ shown \in Seq(Commits)
           /\ queue \in Seq(Commits)
           /\ Range(list) \subseteq Commits /\ Range(out) \subseteq Commits
           /\ Range(shown) \subseteq Commits /\ Range(queue) \subseteq Commits
           /\ uninteresting \subseteq Commits /\ seen \subseteq Commits
  <1>1. /\ list \in Seq(Commits) /\ out \in Seq(Commits) /\ shown \in Seq(Commits)
        /\ queue \in Seq(Commits)
    BY DEF OnceInv, TypeInv, TypeOK
  <1>2. ASSUME NEW s \in Seq(Commits) PROVE Range(s) \subseteq Commits
    BY RangeOfSeq
  <1>. QED
    BY <1>1, <1>2 DEF OnceInv, TypeInv, TypeOK

\* What the caller does, the start of a call, and the reset at its end.
LEMMA CallerOnce ==
    ASSUME OnceInv, TypeInv',
           \/ \E c \in Commits, hide \in BOOLEAN : PushCommit(c, hide)
           \/ SimplifyFirstParent
           \/ \E s \in Sortings : SetSorting(s)
           \/ \E h \in HideCbs : AddHideCb(h)
           \/ Reset \/ CallNext \/ EndWalk
    PROVE  OnceInv'
  <1>. USE DEF loop, marks, conf, report
  <1>1. CASE Clear /\ pc' = "idle" /\ queue' = << >> /\ out' = << >>
    BY <1>1, EmptyRange, ArrangedEmpty DEF Clear, OnceInv, Plain, Placed, Sorted, Taken, InHand
  <1>2. ASSUME UNCHANGED <<list, out, shown, queue, seen, walking>>, pc = "idle",
               pc' \in {"idle", "prepare", "next"}, pc' = "next" => walking,
               ~ limited' => ~ limited /\ UNCHANGED uninteresting
        PROVE  OnceInv'
    <2>1. Dull = {} /\ Dull' = {} /\ InHand = {} /\ InHand' = {}
      BY <1>2 DEF Dull, InHand
    <2>. QED
      BY <1>2, <2>1 DEF OnceInv, Plain, Placed, Sorted, Taken
  <1>3. pc = "idle" => queue = << >> /\ out = << >>
    BY DEF OnceInv, Plain, TypeInv, Control
  <1>4. ASSUME NEW c \in Commits, NEW hide \in BOOLEAN, PushCommit(c, hide)
        PROVE  OnceInv'
    BY <1>2, <1>4 DEF PushCommit
  <1>5. ASSUME NEW s \in Sortings, SetSorting(s)
        PROVE  OnceInv'
    <2>1. CASE walking /\ Clear
      BY <1>1, <1>3, <1>5, <2>1 DEF SetSorting
    <2>2. CASE ~ walking
      BY <1>2, <1>5, <2>2 DEF SetSorting, ClearIfWalking
    <2>. QED
      BY <1>5, <2>1, <2>2 DEF SetSorting, ClearIfWalking
  <1>6. ASSUME NEW h \in HideCbs, AddHideCb(h)
        PROVE  OnceInv'
    <2>1. CASE walking /\ Clear
      BY <1>1, <1>3, <1>6, <2>1 DEF AddHideCb
    <2>2. CASE ~ walking
      BY <1>2, <1>6, <2>2 DEF AddHideCb, ClearIfWalking
    <2>. QED
      BY <1>6, <2>1, <2>2 DEF AddHideCb, ClearIfWalking
  <1>7. CASE SimplifyFirstParent
    BY <1>2, <1>7 DEF SimplifyFirstParent
  <1>8. CASE Reset
    BY <1>1, <1>3, <1>8 DEF Reset
  <1>9. CASE CallNext
    BY <1>2, <1>9 DEF CallNext
  <1>10. CASE EndWalk
    BY <1>1, <1>10 DEF EndWalk, Return
  <1>. QED
    BY <1>4, <1>5, <1>6, <1>7, <1>8, <1>9, <1>10

\* prepare_walk takes each input once.
LEMMA PrepareOnce ==
    ASSUME OnceInv, TypeInv', Prepare \/ Prepared
    PROVE  OnceInv'
  <1>. USE DEF loop, marks, conf, report
  <1>0. pc = "prepare" /\ ~ walking /\ shown = << >> /\ out = << >> /\ Dull = {} /\ InHand = {}
        /\ Taken = {} /\ queue = << >>
    BY EmptyRange DEF OnceInv, TypeInv, Control, Plain, Prepare, Prepared, Dull, InHand, Taken
  <1>1. list \in Seq(Commits) /\ Range(list) \subseteq Commits /\ Range(list) \subseteq seen
    BY OnceFacts DEF OnceInv, Placed
  <1>2. Arranged(list, Differ({}))
    BY <1>0 DEF OnceInv, Placed
  <1>3. CASE Prepare
    <2>. DEFINE c == input[i].commit
    <2>1. c \in Commits
      BY <1>3, PreparedTyped DEF OnceInv
    <2>2. /\ seen' = seen \cup {c}
          /\ list' = IF c \in seen THEN list ELSE <<c>> \o list
          /\ UNCHANGED <<pc, limited, walking, out, queue, shown>>
      BY <1>3 DEF Prepare
    <2>3. ~ limited' => uninteresting' = {}
      BY <1>3 DEF Prepare, OnceInv, Plain
    <2>. HIDE DEF c
    <2>4. Range(list') \subseteq seen' /\ Arranged(list', Differ({}))
      <3>1. CASE c \in seen
        BY <1>1, <1>2, <2>2, <3>1
      <3>2. CASE c \notin seen
        <4>1. Range(<<c>> \o list) = {c} \cup Range(list)
          BY <1>1, <2>1, ConsRange
        <4>2. \A a \in Range(list) : <<c, a>> \in Differ({})
          BY <1>1, <2>1, <3>2, DifferFacts
        <4>3. Arranged(<<c>> \o list, Differ({}))
          BY <1>1, <1>2, <2>1, <4>2, ArrangedCons
        <4>. QED
          BY <1>1, <2>2, <3>2, <4>1, <4>3
      <3>. QED
        BY <3>1, <3>2
    <2>5. Dull' = {} /\ InHand' = {} /\ Taken' = {} /\ pc' = "prepare"
      BY <1>0, <2>2, EmptyRange DEF Dull, InHand, Taken
    <2>. QED
      BY <1>0, <2>2, <2>3, <2>4, <2>5, ArrangedEmpty DEF OnceInv, Plain, Placed, Sorted
  <1>4. CASE Prepared
    <2>1. UNCHANGED <<seen, list, out, shown, queue, walking, limited, uninteresting>>
          /\ pc' \in {"limit", "sort"}
      BY <1>4 DEF Prepared
    <2>2. InHand' = {} /\ Taken' = {}
      BY <1>0, <2>1, EmptyRange DEF InHand, Taken
    <2>3. Arranged(list', Differ(Dull'))
      BY <1>2, <2>1, DifferGrows
    <2>. QED
      BY <1>0, <1>1, <2>1, <2>2, <2>3, ArrangedEmpty DEF OnceInv, Plain, Placed, Sorted
  <1>. QED
    BY <1>3, <1>4

\* limit_list takes a commit from its list.
LEMMA LimitPopOnce ==
    ASSUME OnceInv, TypeInv', LimitPop
    PROVE  OnceInv'
  <1>. USE DEF loop, marks, conf, report
  <1>0. /\ pc = "limit" /\ limited /\ ~ walking /\ shown = << >> /\ queue = << >> /\ InHand = {}
        /\ Dull = uninteresting
    BY DEF LimitPop, OnceInv, TypeInv, Control, Plain, Dull, InHand
  <1>1. /\ cur' = Head(list) /\ list' = Tail(list) /\ list # << >> /\ pc' \in {"judge", "add"}
        /\ UNCHANGED <<seen, uninteresting, limited, walking, out, queue, shown>>
    BY DEF LimitPop, Visit
  <1>2. InHand' = {cur'} /\ Dull' = Dull /\ Taken' = Taken
    BY <1>0, <1>1 DEF InHand, Dull, Taken
  <1>3. list \in Seq(Commits) /\ Range(list) \subseteq Commits
    BY OnceFacts
  <1>4. /\ Range(list) = {cur'} \cup Range(list') /\ cur' \in Commits
        /\ Range(list') \subseteq Commits
    BY <1>1, <1>3, TailRange
  <1>5. Arranged(list', Differ(Dull)) /\ \A a \in Range(list') : <<cur', a>> \in Differ(Dull)
    BY <1>1, <1>3, ArrangedTail DEF OnceInv, Placed
  <1>6. cur' \in Range(list') => cur' \in Dull
    BY <1>4, <1>5, DifferFacts
  <1>7. Placed'
    BY <1>0, <1>1, <1>2, <1>4, <1>5, <1>6 DEF OnceInv, Placed
  <1>. QED
    BY <1>0, <1>1, <1>7 DEF OnceInv, Plain, Sorted

\* A parent is added: once, or hidden.
LEMMA AddOnce ==
    ASSUME OnceInv, TypeInv', AddHidden \/ AddShown
    PROVE  OnceInv'
  <1>. USE DEF loop, marks, conf, report
  <1>0. pc = "add" /\ queue = << >> /\ cur \in Commits /\ InHand = {cur}
        /\ (~ limited => uninteresting = {}) /\ (~ walking => shown = << >>)
    BY DEF AddHidden, AddShown, OnceInv, TypeInv, Control, Plain, InHand
  <1>. DEFINE p == Parents(cur)[i]
  <1>1. p \in Commits
    BY <1>0, RepoTyped DEF AddHidden, AddShown, OnceInv, TypeInv, TypeOK, Control
  <1>2. /\ UNCHANGED <<pc, cur, limited, walking, out, queue, shown>>
        /\ uninteresting \subseteq uninteresting'
        /\ ~ limited => uninteresting' = {}
        /\ \/ seen' = seen /\ list' = list
           \/ seen' = seen \cup {p} /\ Insert(p) /\ (p \in seen => limited /\ p \in uninteresting')
    <2>1. CASE AddHidden
      <3>1. limited
        BY <1>0, <2>1 DEF AddHidden
      <3>. QED
        BY <2>1, <3>1 DEF AddHidden, Marked
    <2>2. CASE AddShown
      BY <1>0, <2>2 DEF AddShown
    <2>. QED
      BY <2>1, <2>2
  <1>. HIDE DEF p
  <1>3. /\ Dull \subseteq Dull' /\ InHand' = InHand /\ Taken' = Taken
        /\ limited => Dull' = uninteresting'
    BY <1>0, <1>2 DEF Dull, InHand, Taken
  <1>4. list \in Seq(Commits) /\ Range(list) \subseteq Commits
    BY OnceFacts
  <1>5. Range(list) \cup Taken \cup InHand \subseteq seen /\ Arranged(list, Differ(Dull'))
        /\ (Taken \cup InHand) \cap Range(list) \subseteq Dull /\ Taken \cap InHand \subseteq Dull
    BY <1>0, <1>3, DifferGrows DEF OnceInv, Placed
  <1>6. CASE seen' = seen /\ list' = list
    <2>1. Placed'
      BY <1>0, <1>2, <1>3, <1>5, <1>6 DEF OnceInv, Placed
    <2>. QED
      BY <1>0, <1>2, <2>1 DEF OnceInv, Plain, Sorted
  <1>7. CASE seen' = seen \cup {p} /\ Insert(p) /\ (p \in seen => limited /\ p \in uninteresting')
    <2>1. Range(list') = Range(list) \cup {p}
      BY <1>1, <1>4, <1>7, InsertRange
    <2>2. p \in seen => p \in Dull'
      BY <1>3, <1>7
    <2>3. \A a \in Range(list) : <<a, p>> \in Differ(Dull') /\ <<p, a>> \in Differ(Dull')
      <3>. SUFFICES ASSUME NEW a \in Range(list)
                    PROVE  <<a, p>> \in Differ(Dull') /\ <<p, a>> \in Differ(Dull')
        OBVIOUS
      <3>1. a \in Commits /\ (a = p => p \in Dull')
        BY <1>4, <1>5, <2>2
      <3>. QED
        BY <1>1, <3>1, DifferFacts
    <2>4. Arranged(list', Differ(Dull'))
      <3>. DEFINE R == Differ(Dull')
      <3>1. Arranged(list, R) /\ \A a \in Range(list) : <<a, p>> \in R /\ <<p, a>> \in R
        BY <1>5, <2>3
      <3>. HIDE DEF R
      <3>2. Arranged(list', R)
        BY <1>1, <1>4, <1>7, <3>1, ArrangedInsert
      <3>. QED
        BY <3>2 DEF R
    <2>5. Placed'
      BY <1>0, <1>2, <1>3, <1>5, <1>7, <2>1, <2>2, <2>4 DEF OnceInv, Placed
    <2>. QED
      BY <1>0, <1>2, <2>5 DEF OnceInv, Plain, Sorted
  <1>. QED
    BY <1>2, <1>6, <1>7

\* The other turns of limit_list, and the end of the parents of a commit.
LEMMA LimitOnce ==
    ASSUME OnceInv, TypeInv', AddFails \/ AddEnd \/ JudgeHidden \/ JudgeShown \/ LimitEnd
    PROVE  OnceInv'
  <1>. USE DEF loop, marks, conf, report
  <1>0. /\ pc \in {"add", "judge", "limit"} /\ queue = << >>
        /\ pc \in {"judge", "limit"} => limited /\ ~ walking
        /\ pc = "add" => (limited <=> ~ walking)
        /\ pc # "limit" => InHand = {cur} /\ cur \in Commits
        /\ (~ limited => uninteresting = {}) /\ (~ walking => shown = << >>)
    BY DEF AddFails, AddEnd, JudgeHidden, JudgeShown, LimitEnd, OnceInv, TypeInv, Control, Plain,
           InHand
  <1>1. /\ list \in Seq(Commits) /\ out \in Seq(Commits) /\ Range(out) \subseteq Commits
        /\ Range(list) \cup Taken \cup InHand \subseteq seen
        /\ Arranged(list, Differ(Dull)) /\ Arranged(out, Differ({})) /\ Arranged(shown, Differ({}))
        /\ (Taken \cup InHand) \cap Range(list) \subseteq Dull /\ Taken \cap InHand \subseteq Dull
    BY <1>0, OnceFacts DEF OnceInv, Placed
  <1>2. CASE AddFails
    <2>1. /\ list' = (IF walking THEN list ELSE << >>) /\ pc' = "idle" /\ out' = << >>
          /\ queue' = << >> /\ UNCHANGED <<seen, shown, walking, limited>> /\ pc = "add"
          /\ ~ limited => uninteresting' = {}
      BY <1>0, <1>2 DEF AddFails, Return
    <2>2. Dull' = {} /\ InHand' = {} /\ Taken' = Range(shown)
      BY <2>1, EmptyRange DEF Dull, InHand, Taken
    <2>3. walking => Dull = {}
      BY <1>0, <2>1 DEF Dull
    <2>4. Placed'
      BY <1>0, <1>1, <2>1, <2>2, <2>3, EmptyRange, ArrangedEmpty DEF Placed, Taken
    <2>. QED
      BY <1>0, <2>1, <2>4 DEF OnceInv, Plain, Sorted
  <1>3. CASE AddEnd
    <2>1. /\ pc = "add" /\ pc' = (IF limited THEN "judge" ELSE "emit")
          /\ UNCHANGED <<seen, uninteresting, list, out, shown, queue, cur, walking, limited>>
      BY <1>3 DEF AddEnd
    <2>2. Dull' = Dull /\ InHand' = InHand /\ Taken' = Taken
      BY <2>1 DEF Dull, InHand, Taken
    <2>3. Placed'
      BY <1>1, <2>1, <2>2 DEF Placed
    <2>. QED
      BY <1>0, <2>1, <2>3 DEF OnceInv, Plain, Sorted
  <1>4. CASE JudgeHidden
    <2>1. /\ pc = "judge" /\ uninteresting \subseteq uninteresting'
          /\ \/ pc' = "limit" /\ UNCHANGED <<list, out>>
             \/ pc' = "sort" /\ list' = out /\ out' = << >>
          /\ UNCHANGED <<seen, shown, queue, walking, limited>>
      BY <1>4 DEF JudgeHidden, Marked
    <2>2. Dull = uninteresting /\ InHand' = {}
      BY <2>1 DEF Dull, InHand
    <2>3. CASE pc' = "limit" /\ UNCHANGED <<list, out>>
      <3>1. Dull \subseteq Dull' /\ Taken' = Taken
        BY <2>1, <2>2, <2>3 DEF Dull, Taken
      <3>2. Placed'
        BY <1>1, <2>1, <2>2, <2>3, <3>1, DifferGrows DEF Placed
      <3>. QED
        BY <1>0, <2>1, <2>3, <3>2 DEF OnceInv, Plain, Sorted
    <2>4. CASE pc' = "sort" /\ list' = out /\ out' = << >>
      <3>1. Dull' = {} /\ Taken' = {}
        BY <1>0, <2>1, <2>4, EmptyRange DEF Dull, Taken
      <3>2. Placed'
        BY <1>1, <2>1, <2>2, <2>4, <3>1, ArrangedEmpty DEF Placed, Taken
      <3>. QED
        BY <1>0, <2>1, <2>4, <3>2 DEF OnceInv, Plain, Sorted
    <2>. QED
      BY <2>1, <2>3, <2>4
  <1>5. CASE JudgeShown
    <2>1. /\ pc = "judge" /\ pc' = "limit" /\ cur \notin uninteresting
          /\ out' = out \/ out' = Append(out, cur)
          /\ UNCHANGED <<seen, uninteresting, list, shown, queue, walking, limited>>
      BY <1>5 DEF JudgeShown
    <2>2. Dull = uninteresting /\ Dull' = Dull /\ InHand' = {} /\ InHand = {cur}
      BY <1>0, <2>1 DEF Dull, InHand
    <2>3. cur \notin Range(out) /\ cur \notin Range(list) /\ cur \in seen
      BY <1>1, <2>1, <2>2 DEF Taken
    <2>4. Range(Append(out, cur)) = Range(out) \cup {cur}
      BY <1>0, <1>1, <2>1, AppendRange
    <2>5. Arranged(Append(out, cur), Differ({}))
      <3>1. \A a \in Range(out) : <<a, cur>> \in Differ({})
        BY <1>0, <1>1, <2>1, <2>3, DifferFacts
      <3>. QED
        BY <1>0, <1>1, <2>1, <3>1, ArrangedAppend
    <2>6. Taken' \subseteq Taken \cup {cur}
      BY <2>1, <2>4 DEF Taken
    <2>7. Placed'
      BY <1>1, <2>1, <2>2, <2>3, <2>5, <2>6 DEF Placed
    <2>. QED
      BY <1>0, <2>1, <2>7 DEF OnceInv, Plain, Sorted
  <1>6. CASE LimitEnd
    <2>1. /\ pc = "limit" /\ pc' = "sort" /\ list' = out /\ out' = << >>
          /\ UNCHANGED <<seen, uninteresting, shown, queue, walking, limited>>
      BY <1>6 DEF LimitEnd
    <2>2. Dull' = {} /\ Taken' = {} /\ InHand' = {}
      BY <1>0, <2>1, EmptyRange DEF Dull, Taken, InHand
    <2>3. Placed'
      BY <1>1, <2>1, <2>2, ArrangedEmpty DEF Placed, Taken
    <2>. QED
      BY <1>0, <2>1, <2>3 DEF OnceInv, Plain, Sorted
  <1>. QED
    BY <1>2, <1>3, <1>4, <1>5, <1>6

\* A commit is no parent of itself and names no parent twice.
LEMMA ParentsOnce ==
    ASSUME TypeOK, NEW c \in Commits
    PROVE  /\ c \notin ParentsOf(c)
           /\ \A k, l \in 1 .. Len(Parents(c)) : Parents(c)[k] = Parents(c)[l] => k = l
  <1>1. /\ DOMAIN Parents(c) = 1 .. Len(Parents(c))
        /\ \A p \in ParentsOf(c) : \E k \in 1 .. Len(Parents(c)) : Parents(c)[k] = p
    BY RepoTyped
  <1>2. repo \in Repositories /\ Parents(c) = repo.parents[c] /\ Rank[c] \in Nat
    BY RevWalkAssumption DEF TypeOK, Parents
  <1>3. \A k \in DOMAIN Parents(c) :
            /\ Rank[c] < Rank[Parents(c)[k]]
            /\ \A l \in DOMAIN Parents(c) : Parents(c)[k] = Parents(c)[l] => k = l
    BY <1>2, RevWalkAssumption
  <1>4. c \notin ParentsOf(c)
    BY <1>1, <1>2, <1>3
  <1>. QED
    BY <1>1, <1>3, <1>4

LEMMA ChildFirstFacts ==
    ASSUME NEW a \in Commits, NEW b \in Commits
    PROVE  /\ <<a, b>> \in ChildFirst <=> a \notin ParentsOf(b)
           /\ <<a, b>> \in ParentFirst <=> b \notin ParentsOf(a)
  BY DEF ChildFirst, ParentFirst

\* The topological sort takes each commit once, after its children.
LEMMA TopoOnce ==
    ASSUME OnceInv, TypeInv',
           Sort \/ Tip \/ TipsEnd \/ TopoPop \/ Release \/ ReleaseEnd \/ TopoEnd
    PROVE  OnceInv'
  <1>. USE DEF loop, marks, conf, report
  <1>0. /\ pc \in {"sort", "tips", "topo", "release"} /\ ~ walking /\ ~ walking' /\ shown = << >>
        /\ pc' \in {"tips", "topo", "release", "collect"}
        /\ InHand = {} /\ InHand' = {} /\ Dull = {} /\ Dull' = {}
        /\ UNCHANGED <<repo, seen, shown, limited, uninteresting>>
        /\ (~ limited => uninteresting = {})
    BY DEF Sort, Tip, TipsEnd, TopoPop, Release, ReleaseEnd, TopoEnd, OnceInv, TypeInv, Control,
           Plain, InHand, Dull
  <1>1. /\ list \in Seq(Commits) /\ out \in Seq(Commits) /\ queue \in Seq(Commits)
        /\ Range(list) \subseteq Commits /\ Range(out) \subseteq Commits /\ Range(queue) \subseteq Commits
        /\ DOMAIN list = 1 .. Len(list) /\ i \in Nat
        /\ Range(list) \subseteq seen /\ Range(out) \subseteq seen
        /\ Arranged(list, Differ({})) /\ Arranged(out, Differ({})) /\ Arranged(shown, Differ({}))
        /\ TypeOK
    BY <1>0, OnceFacts DEF OnceInv, Placed, Taken, TypeInv, TypeOK
  <1>2. Taken = Range(out) /\ Taken' = Range(out')
    BY <1>0, EmptyRange DEF Taken
  <1>3. ASSUME UNCHANGED list, out' = out \/ out' = << >>,
               pc' \notin {"topo", "release"} => out' = << >>,
               pc' \in {"tips", "topo", "release"} \/ queue' = << >>
        PROVE  Placed' /\ Plain'
    <2>1. Placed'
      BY <1>0, <1>1, <1>2, <1>3, EmptyRange, ArrangedEmpty DEF Placed
    <2>2. Plain'
      BY <1>0, <1>3 DEF Plain
    <2>. QED
      BY <2>1, <2>2
  <1>4. CASE Sort
    <2>1. UNCHANGED <<list, out, queue>> /\ pc' \in {"tips", "collect"} /\ out = << >> /\ queue = << >>
      BY <1>4 DEF Sort, OnceInv, TypeInv, Control, Plain
    <2>2. Sorted'
      BY <2>1, EmptyRange, ArrangedEmpty DEF Sorted
    <2>. QED
      BY <1>3, <2>1, <2>2 DEF OnceInv
  <1>5. CASE Tip
    <2>1. /\ pc = "tips" /\ pc' = "tips" /\ UNCHANGED <<list, out>> /\ i \in 1 .. Len(list)
          /\ i' = i + 1
          /\ queue' = IF ChildrenIn(list[i], list) = {} THEN Append(queue, list[i]) ELSE queue
          /\ out = << >>
      BY <1>1, <1>5 DEF Tip, OnceInv, TypeInv, Control
    <2>2. /\ Arranged(queue, Differ({}))
          /\ \A c \in Range(queue) : \E k \in DOMAIN list : k < i /\ list[k] = c
          /\ \A c \in Range(queue) : ChildrenIn(c, list) = {}
      BY <2>1 DEF OnceInv, Sorted
    <2>3. list[i] \in Commits /\ list[i] \in Range(list)
      BY <1>1, <2>1 DEF Range
    <2>4. \A c \in Range(queue) : <<c, list[i]>> \in Differ({})
      <3>. SUFFICES ASSUME NEW c \in Range(queue) PROVE <<c, list[i]>> \in Differ({})
        OBVIOUS
      <3>1. PICK k \in DOMAIN list : k < i /\ list[k] = c
        BY <2>2
      <3>. QED
        BY <1>1, <2>1, <3>1 DEF Arranged
    <2>5. /\ Arranged(Append(queue, list[i]), Differ({}))
          /\ Range(Append(queue, list[i])) = Range(queue) \cup {list[i]}
      BY <1>1, <2>2, <2>3, <2>4, ArrangedAppend, AppendRange
    <2>6. ASSUME NEW c \in Commits PROVE ChildrenIn(c, list)' = ChildrenIn(c, list)
      BY <1>0, <2>1 DEF ChildrenIn, ParentsOf
    <2>7. Range(queue') \subseteq Commits
      BY <1>1, <2>1, <2>3, <2>5
    <2>8. \A c \in Range(queue') : /\ \E k \in DOMAIN list' : k < i' /\ list'[k] = c
                                   /\ ChildrenIn(c, list)' = {}
      <3>. SUFFICES ASSUME NEW c \in Range(queue')
                    PROVE  /\ \E k \in DOMAIN list : k < i + 1 /\ list[k] = c
                           /\ ChildrenIn(c, list) = {}
        BY <2>1, <2>6, <2>7
      <3>1. CASE c \in Range(queue)
        <4>1. PICK k \in DOMAIN list : k < i /\ list[k] = c
          BY <2>2, <3>1
        <4>. QED
          BY <1>1, <2>2, <3>1, <4>1
      <3>2. CASE c \notin Range(queue)
        <4>1. c = list[i] /\ ChildrenIn(list[i], list) = {}
          BY <2>1, <2>5, <3>2
        <4>. QED
          BY <1>1, <2>1, <4>1
      <3>. QED
        BY <3>1, <3>2
    <2>9. Arranged(queue', Differ({}))
      BY <2>1, <2>2, <2>5
    <2>10. Sorted'
      BY <2>1, <2>8, <2>9 DEF Sorted
    <2>. QED
      BY <1>3, <2>1, <2>10 DEF OnceInv
  <1>6. CASE TipsEnd
    <2>1. pc = "tips" /\ pc' = "topo" /\ UNCHANGED <<list, out, queue>> /\ out = << >>
      BY <1>6 DEF TipsEnd, OnceInv, TypeInv, Control
    <2>2. /\ Arranged(queue, Differ({})) /\ Range(queue) \subseteq Range(list)
          /\ \A c \in Range(queue) : ChildrenIn(c, list) = {}
      BY <2>1 DEF OnceInv, Sorted, Range
    <2>3. \A c : ChildrenIn(c, list)' = ChildrenIn(c, list)
      BY <1>0, <2>1 DEF ChildrenIn, ParentsOf
    <2>4. Sorted'
      BY <2>1, <2>2, <2>3, EmptyRange, ArrangedEmpty DEF Sorted
    <2>. QED
      BY <1>3, <2>1, <2>4 DEF OnceInv
  <1>7. CASE TopoPop
    <2>1. PICK k \in DOMAIN queue : cur' = queue[k] /\ queue' = Without(queue, k)
      BY <1>7, Zenon DEF TopoPop
    <2>2. pc = "topo" /\ pc' = "release" /\ i' = 1 /\ UNCHANGED <<list, out>>
      BY <1>7 DEF TopoPop
    <2>3. /\ Range(queue) = {cur'} \cup Range(queue') /\ cur' \in Commits
          /\ queue' \in Seq(Commits)
      BY <1>1, <2>1, WithoutRange
    <2>4. /\ Range(queue) \cup Range(out) \subseteq Range(list)
          /\ Arranged(queue, Differ({}))
          /\ Range(queue) \cap Range(out) = {}
          /\ \A c \in Range(out) \cup Range(queue) : ChildrenIn(c, list) \subseteq Range(out)
          /\ Arranged(out, ChildFirst)
      BY <2>2 DEF OnceInv, Sorted, Releasing
    <2>5. /\ Arranged(queue', Differ({}))
          /\ \A a \in Range(queue') : <<cur', a>> \in Differ({}) \/ <<a, cur'>> \in Differ({})
      BY <1>1, <2>1, <2>4, ArrangedWithout
    <2>6. cur' \notin Range(queue')
      <3>1. \A a \in Range(queue') : cur' # a
        BY <2>5 DEF Differ
      <3>. QED
        BY <3>1
    <2>7. \A c : ChildrenIn(c, list)' = ChildrenIn(c, list)
      BY <1>0, <2>2 DEF ChildrenIn, ParentsOf
    <2>8. ChildrenIn(cur, list)' = ChildrenIn(cur', list)
      BY <1>0, <2>2 DEF ChildrenIn, ParentsOf
    <2>9. ChildFirst' = ChildFirst
      BY <1>0 DEF ChildFirst, ParentsOf
    <2>10. Sorted'
      BY <2>2, <2>3, <2>4, <2>5, <2>6, <2>7, <2>8, <2>9 DEF Sorted
    <2>. QED
      BY <1>3, <2>2, <2>10 DEF OnceInv
  <1>8. CASE Release
    <2>. DEFINE p == Parents(cur)[i]
    <2>1. /\ pc = "release" /\ pc' = "release" /\ i' = i + 1 /\ UNCHANGED <<list, out, cur>>
          /\ queue' = IF Ready(p) THEN <<p>> \o queue ELSE queue
          /\ i \in 1 .. Len(Parents(cur)) /\ cur \in Commits
      BY <1>1, <1>8 DEF Release, OnceInv, TypeInv, Control
    <2>2. p \in Commits /\ p \in ParentsOf(cur) /\ Len(Parents(cur)) \in Nat
      BY <1>1, <2>1, RepoTyped
    <2>3. /\ Range(queue) \cup Range(out) \subseteq Range(list)
          /\ Arranged(queue, Differ({}))
          /\ Range(queue) \cap Range(out) = {}
          /\ \A c \in Range(out) : ChildrenIn(c, list) \subseteq Range(out)
          /\ \A c \in Range(queue) : ChildrenIn(c, list) \subseteq Range(out) \cup Releasing(c)
          /\ Arranged(out, ChildFirst)
          /\ cur \in Range(list) \ (Range(queue) \cup Range(out))
          /\ ChildrenIn(cur, list) \subseteq Range(out)
      BY <2>1 DEF OnceInv, Sorted
    <2>4. \A k \in 1 .. i - 1 : Parents(cur)[k] # p
      BY <1>1, <2>1, ParentsOnce
    <2>5. p # cur
      BY <1>1, <2>1, <2>2, ParentsOnce
    <2>. HIDE DEF p
    <2>6. cur \in ChildrenIn(p, list) /\ Releasing(p) = {}
      BY <2>2, <2>3, <2>4 DEF ChildrenIn, Releasing
    <2>7. p \notin Range(queue) \cup Range(out)
      BY <2>3, <2>6
    <2>8. Ready(p) => p \in Range(list) /\ ChildrenIn(p, list) \subseteq Range(out) \cup {cur}
      BY DEF Ready, Counted
    <2>9. /\ Range(<<p>> \o queue) = {p} \cup Range(queue)
          /\ Arranged(<<p>> \o queue, Differ({}))
      <3>1. \A a \in Range(queue) : <<p, a>> \in Differ({})
        BY <1>1, <2>2, <2>7, DifferFacts
      <3>. QED
        BY <1>1, <2>2, <2>3, <3>1, ConsRange, ArrangedCons
    <2>10. \A c : ChildrenIn(c, list)' = ChildrenIn(c, list)
      BY <1>0, <2>1 DEF ChildrenIn, ParentsOf
    <2>11. ChildrenIn(cur, list)' = ChildrenIn(cur, list) /\ ChildFirst' = ChildFirst
      BY <1>0, <2>1 DEF ChildrenIn, ParentsOf, ChildFirst
    <2>12. \A c : Releasing(c) \subseteq Releasing(c)'
      BY <1>0, <2>1 DEF Releasing, Parents
    <2>13. \A c : c = p => Releasing(c)' = {cur}
      <3>1. i \in 1 .. (i + 1) - 1 /\ Parents(cur)[i] = p
        BY <2>1 DEF p
      <3>. QED
        BY <1>0, <2>1, <3>1 DEF Releasing, Parents
    <2>14. CASE Ready(p)
      <3>1. /\ Range(queue') = {p} \cup Range(queue) /\ Arranged(queue', Differ({}))
            /\ \A c : c = p => ChildrenIn(c, list) \subseteq Range(out) \cup Releasing(c)'
            /\ p \in Range(list)
        BY <2>1, <2>8, <2>9, <2>13, <2>14
      <3>2. \A c \in Range(queue') : ChildrenIn(c, list)' \subseteq Range(out) \cup Releasing(c)'
        <4>. SUFFICES ASSUME NEW c \in Range(queue')
                      PROVE  ChildrenIn(c, list) \subseteq Range(out) \cup Releasing(c)'
          BY <2>10
        <4>1. CASE c = p
          BY <3>1, <4>1
        <4>2. CASE c \in Range(queue)
          BY <2>3, <2>12, <4>2
        <4>. QED
          BY <3>1, <4>1, <4>2
      <3>3. Sorted'
        BY <2>1, <2>3, <2>5, <2>7, <2>10, <2>11, <3>1, <3>2 DEF Sorted
      <3>. QED
        BY <1>3, <2>1, <3>3 DEF OnceInv
    <2>15. CASE ~ Ready(p)
      <3>1. queue' = queue
        BY <2>1, <2>15
      <3>2. \A c \in Range(queue) : ChildrenIn(c, list)' \subseteq Range(out) \cup Releasing(c)'
        BY <2>3, <2>10, <2>12
      <3>3. Sorted'
        BY <2>1, <2>3, <2>10, <2>11, <3>1, <3>2 DEF Sorted
      <3>. QED
        BY <1>3, <2>1, <3>3 DEF OnceInv
    <2>. QED
      BY <2>14, <2>15
  <1>9. CASE ReleaseEnd
    <2>1. /\ pc = "release" /\ pc' = "topo" /\ UNCHANGED <<list, queue>>
          /\ out' = Append(out, cur) /\ cur \in Commits
      BY <1>9 DEF ReleaseEnd, OnceInv, TypeInv, Control
    <2>2. /\ Range(queue) \cup Range(out) \subseteq Range(list)
          /\ Arranged(queue, Differ({}))
          /\ Range(queue) \cap Range(out) = {}
          /\ \A c \in Range(out) : ChildrenIn(c, list) \subseteq Range(out)
          /\ \A c \in Range(queue) : ChildrenIn(c, list) \subseteq Range(out) \cup Releasing(c)
          /\ Arranged(out, ChildFirst)
          /\ cur \in Range(list) \ (Range(queue) \cup Range(out))
          /\ ChildrenIn(cur, list) \subseteq Range(out)
      BY <2>1 DEF OnceInv, Sorted
    <2>3. Range(out') = Range(out) \cup {cur}
      BY <1>1, <2>1, AppendRange
    <2>4. \A a \in Range(out) : <<a, cur>> \in Differ({}) /\ <<a, cur>> \in ChildFirst
      <3>. SUFFICES ASSUME NEW a \in Range(out)
                    PROVE  a # cur /\ a \notin ParentsOf(cur)
        BY <1>1, <2>1, DifferFacts, ChildFirstFacts
      <3>1. a \in ParentsOf(cur) => cur \in ChildrenIn(a, list)
        BY <2>2 DEF ChildrenIn
      <3>. QED
        BY <2>2, <3>1
    <2>5. Arranged(out', Differ({})) /\ Arranged(out', ChildFirst)
      BY <1>1, <2>1, <2>2, <2>4, ArrangedAppend
    <2>6. \A c : ChildrenIn(c, list)' = ChildrenIn(c, list)
      BY <1>0, <2>1 DEF ChildrenIn, ParentsOf
    <2>7. ChildFirst' = ChildFirst
      BY <1>0 DEF ChildFirst, ParentsOf
    <2>8. \A c \in Range(queue) : ChildrenIn(c, list) \subseteq Range(out')
      BY <2>2, <2>3 DEF Releasing
    <2>9. Sorted'
      BY <2>1, <2>2, <2>3, <2>5, <2>6, <2>7, <2>8 DEF Sorted
    <2>10. Range(list) \cup Range(out') \subseteq seen
      BY <1>1, <2>2, <2>3
    <2>11. Placed'
      BY <1>0, <1>1, <1>2, <2>1, <2>5, <2>10 DEF Placed
    <2>12. Plain'
      BY <1>0, <2>1 DEF Plain
    <2>. QED
      BY <2>9, <2>11, <2>12 DEF OnceInv
  <1>10. CASE TopoEnd
    <2>1. pc = "topo" /\ pc' = "collect" /\ list' = out /\ out' = << >> /\ queue' = << >>
      BY <1>10 DEF TopoEnd
    <2>2. Placed'
      BY <1>0, <1>1, <1>2, <2>1, EmptyRange, ArrangedEmpty DEF Placed
    <2>3. Plain' /\ Sorted'
      BY <1>0, <2>1 DEF Plain, Sorted
    <2>. QED
      BY <2>2, <2>3 DEF OnceInv
  <1>. QED
    BY <1>4, <1>5, <1>6, <1>7, <1>8, <1>9, <1>10

\* What is popped is not in the list any more.
LEMMA PopOnce ==
    ASSUME NEW s \in Seq(Commits), NEW k \in DOMAIN s, Arranged(s, Differ({}))
    PROVE  /\ s[k] \in Commits /\ Without(s, k) \in Seq(Commits)
           /\ Range(s) = {s[k]} \cup Range(Without(s, k))
           /\ Arranged(Without(s, k), Differ({}))
           /\ s[k] \notin Range(Without(s, k))
  <1>1. /\ s[k] \in Commits /\ Without(s, k) \in Seq(Commits)
        /\ Range(s) = {s[k]} \cup Range(Without(s, k))
    BY WithoutRange
  <1>2. /\ Arranged(Without(s, k), Differ({}))
        /\ \A a \in Range(Without(s, k)) : <<s[k], a>> \in Differ({}) \/ <<a, s[k]>> \in Differ({})
    BY ArrangedWithout
  <1>3. \A a \in Range(Without(s, k)) : s[k] # a
    BY <1>2 DEF Differ
  <1>. QED
    BY <1>1, <1>2, <1>3

\* The list is reversed, and returned.
LEMMA ListOnce ==
    ASSUME OnceInv, TypeInv', Collect \/ CollectEnd \/ NextPop \/ Emit \/ EmitHidden
    PROVE  OnceInv'
  <1>. USE DEF loop, marks, conf, report
  <1>0. /\ pc \in {"collect", "next", "emit"} /\ queue = << >> /\ queue' = << >>
        /\ pc' \in {"collect", "next", "emit", "add", "idle"}
        /\ pc' = "add" => ~ limited
        /\ Dull = {} /\ Dull' = {}
        /\ UNCHANGED <<seen, limited, uninteresting>>
        /\ ~ limited => uninteresting = {}
        /\ ~ walking => shown = << >>
    BY DEF Collect, CollectEnd, NextPop, Visit, Emit, Return, EmitHidden, OnceInv, TypeInv, Control,
           Plain, Dull
  <1>1. /\ list \in Seq(Commits) /\ out \in Seq(Commits) /\ shown \in Seq(Commits)
        /\ Range(list) \subseteq Commits /\ Range(out) \subseteq Commits /\ Range(shown) \subseteq Commits
        /\ Range(list) \cup Taken \cup InHand \subseteq seen
        /\ Arranged(list, Differ({})) /\ Arranged(out, Differ({})) /\ Arranged(shown, Differ({}))
        /\ (Taken \cup InHand) \cap Range(list) = {} /\ Taken \cap InHand = {}
    BY <1>0, OnceFacts DEF OnceInv, Placed
  <1>2. CASE Collect
    <2>1. PICK k \in DOMAIN list :
              /\ list' = Without(list, k)
              /\ out' = IF list[k] \in uninteresting THEN out ELSE <<list[k]>> \o out
      BY <1>2, Zenon DEF Collect
    <2>2. pc = "collect" /\ pc' = "collect" /\ UNCHANGED <<shown, walking>> /\ ~ walking
      BY <1>2 DEF Collect, OnceInv, TypeInv, Control
    <2>3. /\ list[k] \in Commits /\ Range(list) = {list[k]} \cup Range(list')
          /\ Arranged(list', Differ({})) /\ list[k] \notin Range(list')
      BY <1>1, <2>1, PopOnce
    <2>4. /\ Range(<<list[k]>> \o out) = {list[k]} \cup Range(out)
          /\ Arranged(<<list[k]>> \o out, Differ({}))
      <3>1. \A a \in Range(out) : <<list[k], a>> \in Differ({})
        BY <1>1, <2>3, DifferFacts DEF Taken
      <3>. QED
        BY <1>1, <2>3, <3>1, ConsRange, ArrangedCons
    <2>5. Arranged(out', Differ({})) /\ Range(out') \subseteq Range(out) \cup {list[k]}
      BY <1>1, <2>1, <2>4
    <2>6. Taken' \subseteq Taken \cup {list[k]} /\ InHand' = {}
      BY <2>2, <2>5 DEF Taken, InHand
    <2>7. Placed'
      BY <1>0, <1>1, <2>2, <2>3, <2>5, <2>6 DEF Placed
    <2>. QED
      BY <1>0, <2>2, <2>7 DEF OnceInv, Plain, Sorted
  <1>3. CASE CollectEnd
    <2>1. /\ pc = "collect" /\ pc' = "next" /\ walking' /\ out' = << >> /\ UNCHANGED shown
          /\ \/ list' = out
             \/ list' = list
      BY <1>3 DEF CollectEnd
    <2>2. shown = << >> /\ InHand' = {} /\ Taken' = {}
      BY <1>0, <2>1, EmptyRange DEF OnceInv, TypeInv, Control, InHand, Taken
    <2>3. Arranged(list', Differ({})) /\ Range(list') \subseteq seen
      BY <1>1, <2>1 DEF Taken
    <2>4. Placed'
      BY <1>0, <1>1, <2>1, <2>2, <2>3, ArrangedEmpty DEF Placed
    <2>. QED
      BY <1>0, <2>1, <2>4 DEF OnceInv, Plain, Sorted
  <1>4. CASE NextPop
    <2>1. PICK k \in DOMAIN list : list' = Without(list, k) /\ cur' = list[k]
      BY <1>4, Zenon DEF NextPop, Visit
    <2>2. pc = "next" /\ pc' \in {"emit", "add"} /\ UNCHANGED <<out, shown, walking>> /\ walking
      BY <1>4 DEF NextPop, Visit, OnceInv, TypeInv, Control
    <2>3. /\ cur' \in Commits /\ Range(list) = {cur'} \cup Range(list')
          /\ Arranged(list', Differ({})) /\ cur' \notin Range(list')
      BY <1>1, <2>1, PopOnce
    <2>4. Taken' = Taken /\ InHand' = {cur'}
      BY <2>2 DEF Taken, InHand
    <2>5. Placed'
      BY <1>0, <1>1, <2>2, <2>3, <2>4 DEF Placed
    <2>. QED
      BY <1>0, <2>2, <2>5 DEF OnceInv, Plain, Sorted
  <1>5. CASE Emit
    <2>1. /\ pc = "emit" /\ pc' = "idle" /\ shown' = Append(shown, cur) /\ UNCHANGED <<list, walking>>
          /\ out' = << >> /\ cur \in Commits /\ walking
      BY <1>5 DEF Emit, Return, OnceInv, TypeInv, Control
    <2>2. InHand = {cur} /\ InHand' = {}
      BY <2>1 DEF InHand
    <2>3. Range(shown') = Range(shown) \cup {cur}
      BY <1>1, <2>1, AppendRange
    <2>4. Arranged(shown', Differ({}))
      <3>1. \A a \in Range(shown) : <<a, cur>> \in Differ({})
        BY <1>1, <2>1, <2>2, DifferFacts DEF Taken
      <3>. QED
        BY <1>1, <2>1, <3>1, ArrangedAppend
    <2>5. Taken' \subseteq Taken \cup InHand
      BY <2>1, <2>2, <2>3, EmptyRange DEF Taken
    <2>6. Placed'
      BY <1>0, <1>1, <2>1, <2>2, <2>4, <2>5, ArrangedEmpty DEF Placed
    <2>. QED
      BY <1>0, <2>1, <2>6 DEF OnceInv, Plain, Sorted
  <1>6. CASE EmitHidden
    <2>1. pc = "emit" /\ pc' = "next" /\ UNCHANGED <<list, out, shown, walking>>
      BY <1>6 DEF EmitHidden
    <2>2. InHand' = {} /\ Taken' = Taken
      BY <2>1 DEF InHand, Taken
    <2>3. Placed'
      BY <1>0, <1>1, <2>1, <2>2 DEF Placed
    <2>. QED
      BY <1>0, <2>1, <2>3 DEF OnceInv, Plain, Sorted
  <1>. QED
    BY <1>2, <1>3, <1>4, <1>5, <1>6

LEMMA NextOnce == OnceInv /\ [Next]_vars => OnceInv'
  <1>. SUFFICES ASSUME OnceInv, [Next]_vars PROVE OnceInv'
    OBVIOUS
  <1>1. TypeInv'
    BY NextTyped DEF OnceInv
  <1>2. CASE UNCHANGED vars
    <2>1. UNCHANGED <<repo, seen, uninteresting, list, out, shown, queue, pc, cur, i, limited, walking>>
      BY <1>2 DEF vars, marks, conf, loop, report
    <2>2. Plain' = Plain
      BY <2>1 DEF Plain
    <2>3. Placed' = Placed
      BY <2>1 DEF Placed, Taken, InHand, Dull
    <2>4. /\ ChildFirst' = ChildFirst
          /\ \A c : Releasing(c)' = Releasing(c) /\ ChildrenIn(c, list)' = ChildrenIn(c, list)
          /\ ChildrenIn(cur, list)' = ChildrenIn(cur, list)
      BY <2>1 DEF ChildFirst, Releasing, ChildrenIn, ParentsOf, Parents
    <2>5. Sorted' = Sorted
      BY <2>1, <2>4 DEF Sorted
    <2>. QED
      BY <1>1, <2>2, <2>3, <2>5 DEF OnceInv
  <1>. QED
    BY <1>1, <1>2, CallerOnce, PrepareOnce, LimitPopOnce, AddOnce, LimitOnce, TopoOnce, ListOnce
       DEF Next, Step

LEMMA InitOnce == Init => OnceInv
  <1>. SUFFICES ASSUME Init PROVE Plain /\ Placed /\ Sorted
    BY InitTyped DEF OnceInv
  <1>1. Plain /\ Sorted
    BY DEF Init, Plain, Sorted
  <1>2. Placed
    BY EmptyRange, ArrangedEmpty DEF Init, Placed, Taken, InHand, Dull
  <1>. QED
    BY <1>1, <1>2

LEMMA OnceAlways == Spec => []OnceInv
  BY InitOnce, NextOnce, PTL DEF Spec

\* Whatever the caller does in between, and whatever was hidden or failed, no commit is
\* returned twice in a walk: marks make every commit enter the walk once, and only what
\* is hidden may enter it again.
THEOREM NoneTwice == Spec => []ShownOnce
  <1>1. OnceInv => ShownOnce
    <2>. SUFFICES ASSUME OnceInv, NEW j \in DOMAIN shown, NEW k \in DOMAIN shown,
                         shown[j] = shown[k], j # k
                  PROVE  FALSE
      BY DEF ShownOnce
    <2>1. Arranged(shown, Differ({})) /\ shown \in Seq(Commits)
      BY OnceFacts DEF OnceInv, Placed
    <2>2. j \in Nat /\ k \in Nat
      BY <2>1
    <2>3. j < k => shown[j] # shown[k]
      BY <2>1 DEF Arranged, Differ
    <2>4. k < j => shown[k] # shown[j]
      BY <2>1 DEF Arranged, Differ
    <2>. QED
      BY <2>2, <2>3, <2>4
  <1>. QED
    BY <1>1, OnceAlways, PTL

\* The order in which git_revwalk_next returns a list that has been sorted.
Way == IF walking /\ "reverse" \in sorting THEN ParentFirst ELSE ChildFirst

OrderInv ==
    "topo" \in sorting =>
        /\ pc = "collect" \/ walking => Arranged(list, Way)
        /\ pc = "collect" =>
              /\ Arranged(out, ParentFirst)
              /\ \A a \in Range(out) : \A b \in Range(list) : <<a, b>> \in ChildFirst
        /\ walking =>
              /\ Arranged(shown, Way)
              /\ \A a \in Range(shown) : \A b \in Range(list) \cup InHand : <<a, b>> \in Way
              /\ \A a \in InHand : \A b \in Range(list) : <<a, b>> \in Way

LEMMA NextOrder == OnceInv /\ OrderInv /\ [Next]_vars => OrderInv'
  <1>. SUFFICES ASSUME OnceInv, OrderInv, [Next]_vars, "topo" \in sorting', pc' = "collect" \/ walking'
                PROVE  OrderInv'
    BY DEF OrderInv
  <1>. USE DEF loop, marks, conf, report
  <1>1. /\ list \in Seq(Commits) /\ out \in Seq(Commits) /\ shown \in Seq(Commits)
        /\ Range(list) \subseteq Commits /\ Range(out) \subseteq Commits /\ Range(shown) \subseteq Commits
        /\ ~ limited => sorting = {}
        /\ pc \in {"emit", "add", "judge"} => cur \in Commits
    BY OnceFacts DEF OnceInv, TypeInv, Control
  <1>2. repo' = repo /\ ChildFirst' = ChildFirst /\ ParentFirst' = ParentFirst
    BY RepoSame DEF ChildFirst, ParentFirst, ParentsOf
  <1>3. ASSUME walking, walking', UNCHANGED <<sorting, list, shown>>, InHand' \subseteq InHand,
               pc' # "collect"
        PROVE  OrderInv'
    <2>1. Way' = Way
      BY <1>2, <1>3 DEF Way
    <2>. QED
      BY <1>2, <1>3, <2>1 DEF OrderInv
  <1>4. CASE UNCHANGED vars
    <2>1. UNCHANGED <<sorting, list, out, shown, walking, pc, cur>>
      BY <1>4 DEF vars
    <2>2. Way' = Way /\ InHand' = InHand
      BY <1>2, <2>1 DEF Way, InHand
    <2>. QED
      BY <1>2, <2>1, <2>2 DEF OrderInv
  <1>5. ASSUME \/ \E c \in Commits, hide \in BOOLEAN : PushCommit(c, hide)
               \/ SimplifyFirstParent \/ CallNext
        PROVE  OrderInv'
    <2>1. UNCHANGED <<sorting, list, shown, walking>> /\ pc = "idle" /\ pc' # "collect"
          /\ InHand' = {}
      BY <1>5 DEF PushCommit, SimplifyFirstParent, CallNext, InHand
    <2>. QED
      BY <1>3, <2>1
  <1>6. ASSUME \/ \E s \in Sortings : SetSorting(s)
               \/ \E h \in HideCbs : AddHideCb(h)
               \/ Reset \/ EndWalk
        PROVE  FALSE
    <2>1. pc' = "idle" /\ ~ walking'
      BY <1>6, Zenon DEF SetSorting, AddHideCb, Reset, EndWalk, ClearIfWalking, Clear, Return, Over
    <2>. QED
      BY <2>1
  <1>7. ASSUME \/ Prepare \/ Prepared \/ LimitPop \/ AddHidden \/ AddShown \/ AddFails \/ AddEnd
               \/ JudgeHidden \/ JudgeShown \/ LimitEnd \/ Sort \/ Tip \/ TipsEnd \/ TopoPop
               \/ Release \/ ReleaseEnd
        PROVE  FALSE
    <2>1. /\ pc \in {"prepare", "limit", "add", "judge", "sort", "tips", "topo", "release"}
          /\ UNCHANGED <<sorting, walking, limited>>
          /\ pc' = "collect" => "topo" \notin sorting
      BY <1>7 DEF Prepare, Prepared, LimitPop, Visit, AddHidden, AddShown, AddFails, AddEnd, Return,
         JudgeHidden, JudgeShown, LimitEnd, Sort, Tip, TipsEnd, TopoPop, Release, ReleaseEnd
    <2>2. ~ walking
      BY <1>1, <2>1 DEF OnceInv, TypeInv, Control
    <2>. QED
      BY <2>1, <2>2
  <1>8. CASE TopoEnd
    <2>1. /\ pc = "topo" /\ pc' = "collect" /\ list' = out /\ out' = << >> /\ ~ walking'
      BY <1>8 DEF TopoEnd, OnceInv, TypeInv, Control
    <2>2. Arranged(out, ChildFirst) /\ Way' = ChildFirst
      BY <1>2, <2>1 DEF OnceInv, Sorted, Way
    <2>. QED
      BY <1>2, <2>1, <2>2, EmptyRange, ArrangedEmpty DEF OrderInv
  <1>9. CASE Collect
    <2>1. /\ pc = "collect" /\ pc' = "collect" /\ ~ walking /\ ~ walking' /\ sorting' = sorting
          /\ "topo" \in sorting
      BY <1>9 DEF Collect, OnceInv, TypeInv, Control
    <2>2. /\ 1 \in DOMAIN list /\ list' = Without(list, 1)
          /\ out' = IF list[1] \in uninteresting THEN out ELSE <<list[1]>> \o out
      BY <1>9, <2>1 DEF Collect, Pops
    <2>3. /\ list[1] \in Commits /\ Range(list) = {list[1]} \cup Range(list')
      BY <1>1, <2>2, WithoutRange
    <2>4. /\ Arranged(list, ChildFirst) /\ Arranged(out, ParentFirst)
          /\ \A a \in Range(out) : \A b \in Range(list) : <<a, b>> \in ChildFirst
          /\ Way' = ChildFirst
      BY <1>2, <2>1 DEF OrderInv, Way
    <2>5. Arranged(list', ChildFirst) /\ \A a \in Range(list') : <<list[1], a>> \in ChildFirst
      BY <1>1, <2>2, <2>4, ArrangedWithout
    <2>6. /\ Range(<<list[1]>> \o out) = {list[1]} \cup Range(out)
          /\ Arranged(<<list[1]>> \o out, ParentFirst)
      <3>1. \A a \in Range(out) : <<list[1], a>> \in ParentFirst
        BY <1>1, <2>3, <2>4, ChildFirstFacts
      <3>. QED
        BY <1>1, <2>3, <2>4, <3>1, ConsRange, ArrangedCons
    <2>7. /\ Range(out') \subseteq {list[1]} \cup Range(out) /\ Arranged(out', ParentFirst)
      BY <2>2, <2>4, <2>6
    <2>8. \A a \in Range(out') : \A b \in Range(list') : <<a, b>> \in ChildFirst
      BY <2>3, <2>4, <2>5, <2>7
    <2>. QED
      BY <1>2, <2>1, <2>4, <2>5, <2>7, <2>8 DEF OrderInv
  <1>10. CASE CollectEnd
    <2>1. /\ pc = "collect" /\ pc' = "next" /\ walking' /\ sorting' = sorting /\ "topo" \in sorting
          /\ UNCHANGED shown /\ shown = << >> /\ InHand' = {}
          /\ IF "reverse" \in sorting THEN list' = out ELSE list' = list
          /\ ~ walking
      BY <1>10 DEF CollectEnd, OnceInv, TypeInv, Control, Plain, InHand
    <2>2. Arranged(list, ChildFirst) /\ Arranged(out, ParentFirst)
      BY <2>1 DEF OrderInv, Way
    <2>3. Arranged(list', Way')
      BY <1>2, <2>1, <2>2 DEF Way
    <2>. QED
      BY <2>1, <2>3, EmptyRange, ArrangedEmpty DEF OrderInv
  <1>11. CASE NextPop
    <2>1. /\ pc = "next" /\ pc' = "emit" /\ walking /\ walking' /\ UNCHANGED <<sorting, shown>>
          /\ "topo" \in sorting /\ InHand = {}
      BY <1>1, <1>11 DEF NextPop, OnceInv, TypeInv, Control, InHand
    <2>2. 1 \in DOMAIN list /\ list' = Without(list, 1) /\ cur' = list[1]
      BY <1>1, <1>11, <2>1 DEF NextPop, Pops, Visit
    <2>3. Way' = Way /\ InHand' = {cur'}
      BY <1>2, <2>1 DEF Way, InHand
    <2>4. /\ Arranged(list, Way) /\ Arranged(shown, Way)
          /\ \A a \in Range(shown) : \A b \in Range(list) : <<a, b>> \in Way
      BY <2>1 DEF OrderInv
    <2>5. Range(list) = {cur'} \cup Range(list')
      BY <1>1, <2>2, WithoutRange
    <2>6. Arranged(list', Way) /\ \A a \in Range(list') : <<cur', a>> \in Way
      <3>. DEFINE R == Way
      <3>1. Arranged(list, R)
        BY <2>4
      <3>. HIDE DEF R
      <3>2. Arranged(Without(list, 1), R) /\ \A a \in Range(Without(list, 1)) : <<list[1], a>> \in R
        BY <1>1, <2>2, <3>1, ArrangedWithout
      <3>. QED
        BY <2>2, <3>2 DEF R
    <2>. QED
      BY <2>1, <2>3, <2>4, <2>5, <2>6 DEF OrderInv
  <1>12. CASE Emit
    <2>1. /\ pc = "emit" /\ pc' = "idle" /\ walking /\ walking' /\ UNCHANGED <<sorting, list>>
          /\ "topo" \in sorting /\ InHand = {cur} /\ InHand' = {} /\ cur \in Commits
          /\ shown' = Append(shown, cur)
      BY <1>1, <1>12 DEF Emit, Return, OnceInv, TypeInv, Control, InHand
    <2>2. Way' = Way
      BY <1>2, <2>1 DEF Way
    <2>3. /\ Arranged(list, Way) /\ Arranged(shown, Way)
          /\ \A a \in Range(shown) : \A b \in Range(list) \cup {cur} : <<a, b>> \in Way
          /\ \A b \in Range(list) : <<cur, b>> \in Way
      BY <2>1 DEF OrderInv
    <2>4. Range(shown') = Range(shown) \cup {cur}
      BY <1>1, <2>1, AppendRange
    <2>5. Arranged(shown', Way)
      <3>. DEFINE R == Way
      <3>1. Arranged(shown, R) /\ \A a \in Range(shown) : <<a, cur>> \in R
        BY <2>3
      <3>. HIDE DEF R
      <3>2. Arranged(Append(shown, cur), R)
        BY <1>1, <2>1, <3>1, ArrangedAppend
      <3>. QED
        BY <2>1, <3>2 DEF R
    <2>. QED
      BY <2>1, <2>2, <2>3, <2>4, <2>5 DEF OrderInv
  <1>13. CASE EmitHidden
    <2>1. UNCHANGED <<sorting, list, shown, walking>> /\ walking /\ InHand' = {} /\ pc' = "next"
      BY <1>13 DEF EmitHidden, OnceInv, TypeInv, Control, InHand
    <2>. QED
      BY <1>3, <2>1
  <1>. QED
    BY <1>4, <1>5, <1>6, <1>7, <1>8, <1>9, <1>10, <1>11, <1>12, <1>13 DEF Next, Step

\* GIT_SORT_TOPOLOGICAL returns every commit before its parents, and reversed after
\* them, whatever the dates, and even when in_degree wraps.
THEOREM TopologicalOrder == Spec => []ChildrenFirst
  <1>1. Init => OrderInv
    BY DEF Init, OrderInv
  <1>2. OnceInv /\ OrderInv => ChildrenFirst
    <2>. SUFFICES ASSUME OnceInv, OrderInv, "topo" \in sorting,
                         NEW j \in DOMAIN shown, NEW k \in DOMAIN shown,
                         shown[j] \in ParentsOf(shown[k])
                  PROVE  IF "reverse" \in sorting THEN j < k ELSE k < j
      BY DEF ChildrenFirst
    <2>1. shown \in Seq(Commits) /\ TypeOK
      BY OnceFacts DEF OnceInv, TypeInv
    <2>2. walking
      BY DEF OnceInv, Plain
    <2>3. shown[j] \in Commits /\ shown[k] \in Commits /\ j \in Nat /\ k \in Nat
      BY <2>1
    <2>4. j # k
      BY <2>1, <2>3, ParentsOnce
    <2>5. \A l, m \in DOMAIN shown : l < m => <<shown[l], shown[m]>> \in Way
      BY <2>2 DEF OrderInv, Arranged
    <2>6. CASE "reverse" \in sorting
      <3>1. Way = ParentFirst
        BY <2>2, <2>6 DEF Way
      <3>2. ~ <<shown[k], shown[j]>> \in ParentFirst
        BY DEF ParentFirst
      <3>3. ~ k < j
        BY <2>5, <3>1, <3>2
      <3>. QED
        BY <2>3, <2>4, <2>6, <3>3
    <2>7. CASE "reverse" \notin sorting
      <3>1. Way = ChildFirst
        BY <2>7 DEF Way
      <3>2. ~ <<shown[j], shown[k]>> \in ChildFirst
        BY DEF ChildFirst
      <3>3. ~ j < k
        BY <2>5, <3>1, <3>2
      <3>. QED
        BY <2>3, <2>4, <2>7, <3>3
    <2>. QED
      BY <2>6, <2>7
  <1>. QED
    BY <1>1, <1>2, OnceAlways, NextOrder, PTL DEF Spec

-----------------------------------------------------------------------------
(* Dates.                                                                  *)

\* The first is not older than the second, unless the second is in U.
Newer(U) == {e \in Commits \X Commits : e[2] \in U \/ Time(e[1]) >= Time(e[2])}

LEMMA NewerFacts ==
    ASSUME NEW U, NEW a \in Commits, NEW b \in Commits
    PROVE  <<a, b>> \in Newer(U) <=> (b \in U \/ Time(a) >= Time(b))
  BY DEF Newer

LEMMA NewerGrows ==
    ASSUME NEW s, NEW U, NEW W, U \subseteq W, Arranged(s, Newer(U))
    PROVE  Arranged(s, Newer(W))
  BY DEF Arranged, Newer

\* git_commit_list_insert_by_date keeps the order, even among commits that have none.
LEMMA InsertByDate ==
    ASSUME TypeOK, NEW c \in Commits, Insert(c), NEW U, Arranged(list, Newer(U))
    PROVE  Arranged(list', Newer(U))
  <1>1. list \in Seq(Commits) /\ DOMAIN list = 1 .. Len(list) /\ Len(list) \in Nat
        /\ \A j \in 1 .. Len(list) : list[j] \in Commits
    BY DEF TypeOK
  <1>2. \A d \in Commits : Time(d) \in Int
    BY RepoTyped
  <1>3. PICK k \in 1 .. Len(list) + 1 :
            /\ \A j \in 1 .. k - 1 : Time(list[j]) >= Time(c)
            /\ k <= Len(list) => Time(list[k]) < Time(c)
            /\ Inserted(c, k)
    BY Zenon DEF Insert, Inserted
  <1>. DEFINE R == Newer(U)
  <1>4. ASSUME NEW j \in 1 .. k - 1 PROVE <<list[j], c>> \in R
    BY <1>1, <1>3, NewerFacts
  <1>5. ASSUME NEW j \in k .. Len(list) PROVE <<c, list[j]>> \in R
    <2>1. /\ j \in 1 .. Len(list) /\ k \in 1 .. Len(list) /\ Time(list[k]) < Time(c)
          /\ list[j] \in Commits /\ list[k] \in Commits
      BY <1>1, <1>3
    <2>2. CASE j = k
      BY <1>2, <2>1, <2>2, NewerFacts
    <2>3. CASE k < j
      <3>1. list[j] \in U \/ Time(list[k]) >= Time(list[j])
        BY <1>1, <2>1, <2>3, NewerFacts DEF Arranged
      <3>. QED
        BY <1>2, <2>1, <3>1, NewerFacts
    <2>. QED
      BY <2>1, <2>2, <2>3
  <1>6. Arranged(list, R)
    OBVIOUS
  <1>7. Fits(c, k, R)
    BY <1>4, <1>5 DEF Fits
  <1>. HIDE DEF R
  <1>8. Arranged(list', R)
    BY <1>1, <1>3, <1>6, <1>7, ArrangedInsertAt
  <1>. QED
    BY <1>8 DEF R

\* A walk of which Exact speaks, and an unsorted one of which Chronological does.
Dated    == ~ trouble /\ OneTip /\ GrowingDates
Unsorted == sorting = {} /\ Dated

\* limit_list begins with a list that is not sorted.  What is hidden may be anywhere in
\* it, and so may the tip, as long as it is the only commit there that is not hidden.
Gathered ==
    /\ Tips \subseteq seen
    /\ Arranged(list, Newer(uninteresting \cup Tips))
    /\ Arranged(out, Newer({}))
    /\ \A a \in Range(out) : \A b \in (Range(list) \cup InHand) \ uninteresting :
           <<a, b>> \in Newer({})
    /\ \A a \in InHand \ uninteresting : \A b \in Range(list) \ uninteresting :
           <<a, b>> \in Newer({})
    /\ (Range(list) \cap Tips) \ uninteresting # {} =>
           /\ out = << >>
           /\ InHand \subseteq uninteresting
           /\ Range(list) \ uninteresting \subseteq Tips

\* The walk: what has been returned, what is in hand, what is left.
Outgoing ==
    /\ Arranged(shown, Newer({}))
    /\ \A a \in Range(shown) : \A b \in Range(list) \cup InHand : <<a, b>> \in Newer({})
    /\ \A a \in InHand : \A b \in Range(list) : <<a, b>> \in Newer({})

DateInv ==
    /\ Hides \subseteq uninteresting
    /\ pc = "prepare" => /\ Range(list) \subseteq Tips \cup uninteresting
                         /\ \A k \in DOMAIN input : k < i => input[k].commit \in seen
    /\ pc \in {"tips", "topo", "release"} => sorting # {}
    /\ Dated /\ (pc \in {"limit", "judge"} \/ (pc = "add" /\ limited)) => Gathered
    /\ Unsorted /\ (pc \in {"sort", "collect"} \/ walking) => Arranged(list, Newer({}))
    /\ (Unsorted \/ sorting = {"time"}) /\ walking => Outgoing

LEMMA DateFacts ==
    ASSUME OnceInv
    PROVE  /\ TypeOK /\ Control /\ Tips \subseteq Commits
           /\ list \in Seq(Commits) /\ out \in Seq(Commits) /\ shown \in Seq(Commits)
           /\ Range(list) \subseteq Commits /\ Range(out) \subseteq Commits
           /\ Range(shown) \subseteq Commits /\ uninteresting \subseteq Commits
           /\ (~ walking => shown = << >>) /\ (~ limited => uninteresting = {})
           /\ pc = "idle" /\ ~ walking => list = << >>
           /\ \A c \in Commits : Time(c) \in Int
  BY OnceFacts, InputTyped, RepoTyped DEF OnceInv, TypeInv, Plain

\* Nothing but what the caller pushes and resets changes what the dates are asked of.
LEMMA DatesSame ==
    ASSUME repo' = repo
    PROVE  /\ \A U : Newer(U)' = {e \in Commits \X Commits : e[2] \in U' \/ Time(e[1]) >= Time(e[2])}
           /\ Newer({})' = Newer({})
           /\ GrowingDates' = GrowingDates
           /\ \A c : Time(c)' = Time(c) /\ ParentsOf(c)' = ParentsOf(c)
  BY DEF Newer, GrowingDates, Time, ParentsOf, Parents

LEMMA InputSame ==
    ASSUME repo' = repo, input' = input
    PROVE  Tips' = Tips /\ Hides' = Hides /\ OneTip' = OneTip /\ GrowingDates' = GrowingDates
  BY DatesSame DEF Tips, Hides, OneTip

\* Between two calls.
LEMMA CallerDates ==
    ASSUME OnceInv, OnceInv', DateInv, repo' = repo,
           \/ \E c \in Commits, hide \in BOOLEAN : PushCommit(c, hide)
           \/ SimplifyFirstParent
           \/ \E s \in Sortings : SetSorting(s)
           \/ \E h \in HideCbs : AddHideCb(h)
           \/ Reset \/ CallNext \/ EndWalk
    PROVE  DateInv'
  <1>. USE DEF loop, marks, conf, report
  <1>1. Newer({})' = Newer({})
    BY DatesSame
  <1>2. CASE Clear /\ pc' = "idle"
    <2>1. Hides' = {}
      BY <1>2 DEF Clear, Hides
    <2>. QED
      BY <1>2, <2>1 DEF Clear, DateInv
  <1>3. ASSUME pc = "idle", pc' \in {"idle", "prepare", "next"}, pc' = "next" => walking,
               pc' = "prepare" => ~ walking /\ i' = 1 /\ input' = input,
               UNCHANGED <<list, shown, walking>>, walking => sorting' = sorting,
               walking /\ ~ trouble' => ~ trouble /\ input' = input,
               Hides' \subseteq uninteresting'
        PROVE  DateInv'
    <2>1. InHand = {} /\ InHand' = {}
      BY <1>3 DEF InHand
    <2>2. pc' = "prepare" => Range(list') = {}
      BY <1>3, DateFacts, EmptyRange
    <2>3. pc' = "prepare" => \A k \in DOMAIN input' : ~ (k < i')
      <3>. SUFFICES ASSUME pc' = "prepare", NEW k \in DOMAIN input'
                    PROVE  ~ (k < i')
        OBVIOUS
      <3>1. k \in 1 .. Len(input)
        BY <1>3, DateFacts DEF TypeOK
      <3>. QED
        BY <1>3, <3>1
    <2>4. Unsorted' /\ walking' => Unsorted /\ walking
      BY <1>3, InputSame DEF Unsorted, Dated
    <2>5. walking' => /\ Unsorted' => Arranged(list', Newer({})')
                      /\ (Unsorted' \/ sorting' = {"time"}) => Outgoing'
      BY <1>1, <1>3, <2>1, <2>4 DEF DateInv, Outgoing
    <2>. QED
      BY <1>3, <2>2, <2>3, <2>5 DEF DateInv
  <1>4. ASSUME NEW c \in Commits, NEW hide \in BOOLEAN, PushCommit(c, hide)
        PROVE  DateInv'
    <2>1. Hides' \subseteq uninteresting'
      <3>. SUFFICES ASSUME NEW d \in Hides' PROVE d \in uninteresting'
        OBVIOUS
      <3>1. PICK k \in DOMAIN input' : input'[k].hide /\ input'[k].commit = d
        BY DEF Hides
      <3>2. /\ DOMAIN input = 1 .. Len(input) /\ Len(input) \in Nat
            /\ DOMAIN input' = 1 .. Len(input) + 1
            /\ input'[1] = [commit |-> c, hide |-> hide]
            /\ \A l \in 2 .. Len(input) + 1 : input'[l] = input[l - 1]
        BY <1>4, DateFacts DEF PushCommit, TypeOK
      <3>3. CASE k = 1
        BY <1>4, <3>1, <3>2, <3>3 DEF PushCommit
      <3>4. CASE k # 1
        <4>1. k \in 2 .. Len(input) + 1 /\ k - 1 \in DOMAIN input /\ input[k - 1] = input'[k]
          BY <3>2, <3>4
        <4>2. d \in Hides
          BY <3>1, <4>1 DEF Hides
        <4>. QED
          BY <1>4, <4>2 DEF PushCommit, DateInv
      <3>. QED
        BY <3>3, <3>4
    <2>. QED
      BY <1>3, <1>4, <2>1 DEF PushCommit
  <1>5. ASSUME input' = input, uninteresting' = uninteresting
        PROVE  Hides' \subseteq uninteresting'
    BY <1>5, InputSame DEF DateInv
  <1>6. CASE SimplifyFirstParent
    BY <1>3, <1>5, <1>6 DEF SimplifyFirstParent
  <1>7. ASSUME NEW s \in Sortings, SetSorting(s)
        PROVE  DateInv'
    <2>1. CASE walking
      BY <1>2, <1>7, <2>1 DEF SetSorting, ClearIfWalking
    <2>2. CASE ~ walking
      BY <1>3, <1>5, <1>7, <2>2 DEF SetSorting, ClearIfWalking
    <2>. QED
      BY <2>1, <2>2
  <1>8. ASSUME NEW h \in HideCbs, AddHideCb(h)
        PROVE  DateInv'
    <2>1. CASE walking
      BY <1>2, <1>8, <2>1 DEF AddHideCb, ClearIfWalking
    <2>2. CASE ~ walking
      BY <1>3, <1>5, <1>8, <2>2 DEF AddHideCb, ClearIfWalking
    <2>. QED
      BY <2>1, <2>2
  <1>9. CASE Reset
    BY <1>2, <1>9 DEF Reset
  <1>10. CASE CallNext
    BY <1>3, <1>5, <1>10 DEF CallNext
  <1>11. CASE EndWalk
    BY <1>2, <1>11 DEF EndWalk, Return
  <1>. QED
    BY <1>4, <1>6, <1>7, <1>8, <1>9, <1>10, <1>11

\* prepare_walk hands limit_list the tip and what is hidden.
LEMMA PrepareDates ==
    ASSUME OnceInv, OnceInv', DateInv, repo' = repo, Prepare \/ Prepared
    PROVE  DateInv'
  <1>. USE DEF loop, marks, conf, report
  <1>1. /\ pc = "prepare" /\ ~ walking /\ ~ walking' /\ out = << >> /\ out' = << >>
        /\ input' = input /\ sorting' = sorting /\ trouble' = trouble
        /\ uninteresting \subseteq uninteresting' /\ seen \subseteq seen'
        /\ DOMAIN input = 1 .. Len(input) /\ i \in Nat /\ i >= 1
    BY DateFacts DEF Prepare, Prepared, Marked, Control, TypeOK
  <1>2. Tips' = Tips /\ Hides' = Hides /\ OneTip' = OneTip
    BY <1>1, InputSame
  <1>3. Hides' \subseteq uninteresting' /\ Hides \subseteq uninteresting
    BY <1>1, <1>2 DEF DateInv
  <1>4. CASE Prepare
    <2>. DEFINE c == input[i].commit
    <2>1. i \in DOMAIN input /\ c \in Commits /\ pc' = "prepare"
      BY <1>1, <1>4, PreparedTyped DEF Prepare, OnceInv
    <2>2. c \in Tips \cup Hides
      BY <2>1 DEF Tips, Hides
    <2>3. Range(list') \subseteq {c} \cup Range(list)
      <3>. HIDE DEF c
      <3>1. Range(<<c>> \o list) = {c} \cup Range(list)
        BY <2>1, DateFacts, ConsRange
      <3>. QED
        BY <1>4, <3>1 DEF Prepare, c
    <2>4. ASSUME NEW k \in DOMAIN input, k < i + 1 PROVE input[k].commit \in seen'
      <3>1. k < i \/ k = i
        BY <1>1, <2>4
      <3>. QED
        BY <1>1, <1>4, <3>1 DEF Prepare, DateInv
    <2>5. i' = i + 1
      BY <1>4 DEF Prepare
    <2>. HIDE DEF c
    <2>. QED
      BY <1>1, <1>2, <1>3, <2>1, <2>2, <2>3, <2>4, <2>5 DEF DateInv
  <1>5. CASE Prepared
    <2>1. /\ i > Len(input) /\ UNCHANGED <<list, seen, uninteresting, limited>>
          /\ pc' = IF limited THEN "limit" ELSE "sort"
      BY <1>5 DEF Prepared
    <2>2. Range(list) \subseteq Tips \cup uninteresting
      BY <1>1 DEF DateInv
    <2>3. Tips \subseteq seen
      <3>1. \A k \in DOMAIN input : k < i
        BY <1>1, <2>1, DateFacts DEF TypeOK
      <3>. QED
        BY <1>1, <3>1 DEF DateInv, Tips
    <2>4. \A k \in DOMAIN list : list[k] \in Range(list)
      BY DEF Range
    <2>5. ASSUME limited PROVE Gathered'
      <3>1. InHand' = {} /\ Range(out') = {}
        BY <1>1, <2>1, <2>5, EmptyRange DEF InHand
      <3>2. Arranged(list', Newer(uninteresting \cup Tips)')
        <4>. SUFFICES ASSUME NEW j \in DOMAIN list, NEW k \in DOMAIN list
                      PROVE  <<list[j], list[k]>> \in Newer(uninteresting \cup Tips)'
          BY <2>1 DEF Arranged
        <4>1. list[j] \in Commits /\ list[k] \in Commits /\ list[k] \in uninteresting' \cup Tips'
          BY <1>2, <2>1, <2>2, <2>4, DateFacts
        <4>. QED
          BY <4>1, DatesSame
      <3>3. Arranged(out', Newer({})')
        BY <1>1, ArrangedEmpty
      <3>. QED
        BY <1>1, <1>2, <2>1, <2>2, <2>3, <3>1, <3>2, <3>3 DEF Gathered
    <2>6. ASSUME ~ limited, Unsorted' PROVE Arranged(list', Newer({})')
      <3>1. uninteresting = {}
        BY <2>6, DateFacts
      <3>. SUFFICES ASSUME NEW j \in DOMAIN list, NEW k \in DOMAIN list
                    PROVE  <<list[j], list[k]>> \in Newer({})'
        BY <2>1 DEF Arranged
      <3>2. list[j] = list[k] /\ list[j] \in Commits
        BY <1>2, <2>2, <2>4, <2>6, <3>1, DateFacts DEF Unsorted, Dated, OneTip
      <3>3. Time(list[j]) >= Time(list[k])
        BY <3>2, DateFacts
      <3>. QED
        BY <3>2, <3>3, DatesSame
    <2>. QED
      BY <1>1, <1>3, <2>1, <2>5, <2>6 DEF DateInv
  <1>. QED
    BY <1>4, <1>5

\* limit_list takes the head of its list, which no commit behind it is newer than, but
\* for the tip and what is hidden.
LEMMA LimitPopDates ==
    ASSUME OnceInv, OnceInv', DateInv, repo' = repo, LimitPop
    PROVE  DateInv'
  <1>. USE DEF loop, marks, conf, report
  <1>1. /\ pc = "limit" /\ pc' \in {"judge", "add"} /\ limited /\ ~ walking
        /\ UNCHANGED <<walking, limited, input, sorting, trouble, uninteresting, seen, out>>
        /\ list # << >> /\ cur' = Head(list) /\ list' = Tail(list)
    BY DateFacts DEF LimitPop, Visit, Control
  <1>2. Tips' = Tips /\ Hides' = Hides /\ Unsorted' = Unsorted /\ Dated' = Dated /\ Newer({})' = Newer({})
        /\ Newer(uninteresting \cup Tips)' = Newer(uninteresting \cup Tips)
    BY <1>1, InputSame, DatesSame DEF Unsorted, Dated, Newer
  <1>3. /\ Range(list) = {cur'} \cup Range(list') /\ cur' \in Commits /\ InHand' = {cur'}
    BY <1>1, DateFacts, TailRange DEF InHand
  <1>4. cur' \in Range(list') => cur' \in uninteresting
    BY <1>1, <1>3 DEF OnceInv, Placed, Dull
  <1>5. ASSUME Dated PROVE Gathered'
    <2>1. Gathered /\ OneTip
      BY <1>1, <1>5 DEF DateInv, Unsorted, Dated
    <2>2. /\ Arranged(list', Newer(uninteresting \cup Tips))
          /\ \A a \in Range(list') : <<cur', a>> \in Newer(uninteresting \cup Tips)
      <3>. DEFINE R == Newer(uninteresting \cup Tips)
      <3>1. Arranged(list, R)
        BY <2>1 DEF Gathered
      <3>. HIDE DEF R
      <3>2. Arranged(list', R) /\ \A a \in Range(list') : <<cur', a>> \in R
        BY <1>1, <3>1, DateFacts, ArrangedTail
      <3>. QED
        BY <3>2 DEF R
    <2>3. ASSUME NEW b \in (Range(list') \cap Tips) \ uninteresting
          PROVE  out = << >> /\ cur' \in uninteresting /\ Range(list) \ uninteresting \subseteq Tips
      <3>1. out = << >> /\ Range(list) \ uninteresting \subseteq Tips
        BY <1>3, <2>1, <2>3 DEF Gathered
      <3>2. cur' \notin uninteresting => cur' = b
        BY <1>3, <2>1, <2>3, <3>1 DEF OneTip
      <3>. QED
        BY <1>4, <2>3, <3>1, <3>2
    <2>4. ASSUME cur' \notin uninteresting, NEW b \in Range(list') \ uninteresting
          PROVE  <<cur', b>> \in Newer({})
      <3>1. b \in Commits /\ b \notin uninteresting \cup Tips
        BY <1>3, <2>3, <2>4, DateFacts
      <3>2. Time(cur') >= Time(b)
        BY <1>3, <2>2, <3>1, NewerFacts
      <3>. QED
        BY <1>3, <3>1, <3>2, NewerFacts
    <2>5. \A a \in Range(out) : \A b \in (Range(list') \cup {cur'}) \ uninteresting :
             <<a, b>> \in Newer({})
      BY <1>3, <2>1 DEF Gathered
    <2>6. Tips \subseteq seen /\ Arranged(out, Newer({}))
      BY <2>1 DEF Gathered
    <2>. QED
      BY <1>1, <1>2, <1>3, <2>2, <2>3, <2>4, <2>5, <2>6 DEF Gathered
  <1>. QED
    BY <1>1, <1>2, <1>5 DEF DateInv

\* A parent is older than its child, and comes where its date says.
LEMMA AddDates ==
    ASSUME OnceInv, OnceInv', DateInv, repo' = repo, AddHidden \/ AddShown
    PROVE  DateInv'
  <1>. USE DEF loop, marks, conf, report
  <1>. DEFINE p == Parents(cur)[i]
  <1>1. /\ pc = "add" /\ pc' = "add" /\ (limited <=> ~ walking) /\ cur \in Commits
        /\ UNCHANGED <<walking, limited, input, sorting, trouble, out, shown, cur>>
        /\ uninteresting \subseteq uninteresting' /\ seen \subseteq seen'
        /\ (~ limited => sorting = {})
    BY DateFacts DEF AddHidden, AddShown, Marked, Control
  <1>2. Tips' = Tips /\ Hides' = Hides /\ Unsorted' = Unsorted /\ Dated' = Dated /\ Newer({})' = Newer({})
    BY <1>1, InputSame, DatesSame DEF Unsorted, Dated
  <1>3. p \in Commits /\ p \in ParentsOf(cur)
    <2>1. i \in 1 .. Len(Parents(cur))
      BY DateFacts DEF AddHidden, AddShown, Control, TypeOK
    <2>. QED
      BY <1>1, <2>1, DateFacts, RepoTyped
  <1>4. \/ list' = list
        \/ /\ Insert(p)
           /\ (cur \in uninteresting => p \in uninteresting')
           /\ (cur \notin uninteresting => p \notin seen /\ uninteresting' = uninteresting)
    BY DEF AddHidden, AddShown, Marked
  <1>5. InHand = {cur} /\ InHand' = {cur}
    BY <1>1 DEF InHand
  <1>6. Dated => Time(cur) > Time(p)
    BY <1>1, <1>3, DateFacts DEF Unsorted, Dated, GrowingDates
  <1>. HIDE DEF p
  <1>7. Insert(p) => Range(list') = Range(list) \cup {p}
    BY <1>3, DateFacts, InsertRange
  <1>8. ASSUME NEW U, Arranged(list, Newer(U)) PROVE Arranged(list', Newer(U))
    BY <1>3, <1>4, <1>8, DateFacts, InsertByDate
  <1>9. \A a \in Commits : Dated /\ Time(a) >= Time(cur) => <<a, p>> \in Newer({})
    BY <1>1, <1>3, <1>6, DateFacts, NewerFacts
  <1>10. ASSUME Dated, limited PROVE Gathered'
    <2>1. Gathered
      BY <1>1, <1>10 DEF DateInv
    <2>2. Arranged(list', Newer(uninteresting \cup Tips)')
      <3>1. Arranged(list', Newer(uninteresting \cup Tips))
        BY <1>8, <2>1 DEF Gathered
      <3>2. Newer(uninteresting \cup Tips)' = Newer(uninteresting' \cup Tips)
        BY <1>2, DatesSame DEF Newer
      <3>3. Arranged(list', Newer(uninteresting' \cup Tips))
        <4>1. uninteresting \cup Tips \subseteq uninteresting' \cup Tips
          BY <1>1
        <4>. QED
          BY <3>1, <4>1, NewerGrows
      <3>. QED
        BY <3>2, <3>3
    <2>3. CASE list' = list \/ p \in uninteresting'
      <3>1. Range(list') \ uninteresting' \subseteq Range(list) \ uninteresting
        BY <1>1, <1>4, <1>7, <2>3
      <3>. QED
        BY <1>1, <1>2, <1>5, <2>1, <2>2, <3>1 DEF Gathered
    <2>4. CASE Insert(p) /\ cur \notin uninteresting /\ p \notin seen /\ uninteresting' = uninteresting
      <3>1. p \notin Tips /\ (Range(list) \cap Tips) \ uninteresting = {}
        BY <1>5, <2>1, <2>4 DEF Gathered
      <3>2. (Range(list') \cap Tips') \ uninteresting' = {}
        BY <1>2, <1>7, <2>4, <3>1
      <3>3. ASSUME NEW a \in Range(out) \cup {cur} PROVE <<a, p>> \in Newer({})
        <4>1. a \in Commits /\ (a = cur \/ <<a, cur>> \in Newer({}))
          BY <1>1, <1>5, <2>1, <2>4, <3>3, DateFacts DEF Gathered
        <4>2. Time(a) >= Time(cur)
          BY <1>1, <4>1, DateFacts, NewerFacts
        <4>. QED
          BY <1>9, <1>10, <4>1, <4>2
      <3>4. /\ \A a \in Range(out) : \A b \in (Range(list') \cup {cur}) \ uninteresting :
                  <<a, b>> \in Newer({})
            /\ \A b \in Range(list') \ uninteresting : <<cur, b>> \in Newer({})
        BY <1>5, <1>7, <2>1, <2>4, <3>3 DEF Gathered
      <3>5. Tips \subseteq seen /\ Arranged(out, Newer({}))
        BY <2>1 DEF Gathered
      <3>. QED
        BY <1>1, <1>2, <1>5, <2>2, <2>4, <3>2, <3>4, <3>5 DEF Gathered
    <2>. QED
      BY <1>4, <2>3, <2>4
  <1>11. ASSUME Unsorted, walking PROVE Arranged(list', Newer({})) /\ Outgoing'
    <2>1. Arranged(list, Newer({})) /\ Outgoing
      BY <1>11 DEF DateInv
    <2>2. Arranged(list', Newer({}))
      BY <1>8, <2>1
    <2>3. Range(list') \subseteq Range(list) \cup {p}
      BY <1>4, <1>7
    <2>4. ASSUME NEW a \in Range(shown) \cup {cur} PROVE <<a, p>> \in Newer({})
      <3>1. a \in Commits /\ (a = cur \/ <<a, cur>> \in Newer({}))
        BY <1>1, <1>5, <2>1, <2>4, DateFacts DEF Outgoing
      <3>2. Time(a) >= Time(cur)
        BY <1>1, <3>1, DateFacts, NewerFacts
      <3>. QED
        BY <1>9, <1>11, <3>1, <3>2 DEF Unsorted
    <2>. QED
      BY <1>1, <1>2, <1>5, <2>1, <2>2, <2>3, <2>4 DEF Outgoing
  <1>. QED
    BY <1>1, <1>2, <1>10, <1>11 DEF DateInv

\* The other turns of limit_list, and the end of the parents of a commit.
LEMMA LimitDates ==
    ASSUME OnceInv, OnceInv', DateInv, repo' = repo,
           AddFails \/ AddEnd \/ JudgeHidden \/ JudgeShown \/ LimitEnd
    PROVE  DateInv'
  <1>. USE DEF loop, marks, conf, report
  <1>1. /\ pc \in {"add", "judge", "limit"} /\ (walking => ~ limited /\ sorting = {})
        /\ (pc # "add" => limited) /\ (pc = "add" => (limited <=> ~ walking))
        /\ UNCHANGED <<walking, limited, input, sorting>> /\ (trouble => trouble')
        /\ uninteresting \subseteq uninteresting' /\ (pc # "limit" => cur \in Commits)
    BY DateFacts DEF AddFails, AddEnd, JudgeHidden, JudgeShown, LimitEnd, Marked, Control
  <1>2. Tips' = Tips /\ Hides' = Hides /\ (Unsorted' => Unsorted) /\ (Dated' => Dated) /\ Newer({})' = Newer({})
    BY <1>1, InputSame, DatesSame DEF Unsorted, Dated
  <1>3. Hides' \subseteq uninteresting'
    BY <1>1, <1>2 DEF DateInv
  <1>4. limited /\ Dated => Gathered
    BY <1>1 DEF DateInv
  <1>5. ASSUME Gathered, UNCHANGED <<list, out, seen>>, InHand' \subseteq InHand
        PROVE  Gathered'
    <2>1. Newer(uninteresting \cup Tips)' = Newer(uninteresting' \cup Tips)
      BY <1>2, DatesSame DEF Newer
    <2>2. Arranged(list', Newer(uninteresting' \cup Tips))
      <3>1. uninteresting \cup Tips \subseteq uninteresting' \cup Tips
        BY <1>1
      <3>2. Arranged(list', Newer(uninteresting \cup Tips))
        BY <1>5 DEF Gathered
      <3>. QED
        BY <3>1, <3>2, NewerGrows
    <2>. QED
      BY <1>1, <1>2, <1>5, <2>1, <2>2 DEF Gathered
  <1>6. CASE AddFails
    <2>1. trouble' /\ pc' = "idle" /\ UNCHANGED sorting /\ pc = "add"
      BY <1>6 DEF AddFails, Return
    <2>. QED
      BY <1>1, <1>3, <2>1 DEF DateInv, Unsorted, Dated
  <1>7. CASE AddEnd
    <2>1. /\ pc = "add" /\ pc' = (IF limited THEN "judge" ELSE "emit")
          /\ UNCHANGED <<list, out, seen, uninteresting, shown, cur, trouble>>
      BY <1>7 DEF AddEnd
    <2>2. InHand' = InHand
      BY <2>1 DEF InHand
    <2>3. walking /\ Unsorted => Arranged(list, Newer({})) /\ Outgoing
      BY DEF DateInv
    <2>4. walking /\ Unsorted => Outgoing'
      BY <1>2, <2>1, <2>2, <2>3 DEF Outgoing
    <2>. QED
      BY <1>1, <1>2, <1>3, <1>4, <1>5, <2>1, <2>2, <2>3, <2>4 DEF DateInv
  <1>8. CASE JudgeHidden
    <2>1. /\ pc = "judge" /\ UNCHANGED seen
          /\ \/ pc' = "limit" /\ UNCHANGED <<list, out>>
             \/ pc' = "sort" /\ list' = out
      BY <1>8 DEF JudgeHidden
    <2>2. InHand' = {}
      BY <2>1 DEF InHand
    <2>3. Dated' /\ pc' = "limit" => Gathered'
      BY <1>1, <1>2, <1>4, <1>5, <2>1, <2>2
    <2>4. Unsorted' /\ pc' = "sort" => Arranged(list', Newer({})')
      BY <1>1, <1>2, <1>4, <2>1 DEF Gathered, Unsorted
    <2>. QED
      BY <1>1, <1>3, <2>1, <2>3, <2>4 DEF DateInv
  <1>9. CASE JudgeShown
    <2>1. /\ pc = "judge" /\ pc' = "limit" /\ cur \notin uninteresting
          /\ out' = out \/ out' = Append(out, cur)
          /\ UNCHANGED <<list, seen, uninteresting>>
      BY <1>9 DEF JudgeShown
    <2>2. InHand' = {} /\ InHand = {cur}
      BY <2>1 DEF InHand
    <2>3. ASSUME Dated', out' = Append(out, cur) PROVE Gathered'
      <3>1. Gathered
        BY <1>1, <1>2, <1>4, <2>1, <2>3
      <3>2. Range(out') = Range(out) \cup {cur}
        BY <1>1, <2>1, <2>3, DateFacts, AppendRange
      <3>3. Arranged(out', Newer({}))
        <4>1. Arranged(out, Newer({})) /\ \A a \in Range(out) : <<a, cur>> \in Newer({})
          BY <2>1, <2>2, <3>1 DEF Gathered
        <4>. DEFINE R == Newer({})
        <4>. HIDE DEF R
        <4>2. Arranged(out, R) /\ (\A a \in Range(out) : <<a, cur>> \in R) => Arranged(out', R)
          BY <1>1, <2>1, <2>3, DateFacts, ArrangedAppend
        <4>. QED
          BY <4>1, <4>2 DEF R
      <3>4. (Range(list) \cap Tips) \ uninteresting = {}
        BY <2>1, <2>2, <3>1 DEF Gathered
      <3>5. \A a \in Range(out') : \A b \in Range(list) \ uninteresting : <<a, b>> \in Newer({})
        BY <2>1, <2>2, <3>1, <3>2 DEF Gathered
      <3>6. Newer(uninteresting \cup Tips)' = Newer(uninteresting \cup Tips)
        BY <1>2, <2>1, DatesSame DEF Newer
      <3>7. Tips \subseteq seen /\ Arranged(list, Newer(uninteresting \cup Tips))
        BY <3>1 DEF Gathered
      <3>. QED
        BY <1>2, <2>1, <2>2, <3>3, <3>4, <3>5, <3>6, <3>7 DEF Gathered
    <2>4. Dated' /\ out' = out => Gathered'
      BY <1>1, <1>2, <1>4, <1>5, <2>1, <2>2
    <2>. QED
      BY <1>1, <1>3, <2>1, <2>3, <2>4 DEF DateInv
  <1>10. CASE LimitEnd
    <2>1. pc = "limit" /\ pc' = "sort" /\ list' = out
      BY <1>10 DEF LimitEnd
    <2>2. Unsorted' => Arranged(list', Newer({})')
      BY <1>1, <1>2, <1>4, <2>1 DEF Gathered, Unsorted
    <2>. QED
      BY <1>1, <1>3, <2>1, <2>2 DEF DateInv
  <1>. QED
    BY <1>6, <1>7, <1>8, <1>9, <1>10

\* From the sort to the first commit that is returned.
LEMMA SortDates ==
    ASSUME OnceInv, OnceInv', DateInv, repo' = repo,
           \/ Sort \/ Tip \/ TipsEnd \/ TopoPop \/ Release \/ ReleaseEnd \/ TopoEnd
           \/ Collect \/ CollectEnd
    PROVE  DateInv'
  <1>. USE DEF loop, marks, conf, report
  <1>1. /\ pc \in {"sort", "tips", "topo", "release", "collect"}
        /\ ~ walking /\ shown = << >> /\ shown' = << >>
        /\ UNCHANGED <<input, sorting, trouble, uninteresting>>
        /\ pc' \in {"tips", "topo", "release", "collect", "next"}
    BY DateFacts DEF Sort, Tip, TipsEnd, TopoPop, Release, ReleaseEnd, TopoEnd, Collect,
       CollectEnd, Control
  <1>2. Hides' = Hides /\ Unsorted' = Unsorted /\ Dated' = Dated /\ Newer({})' = Newer({})
    BY <1>1, InputSame, DatesSame DEF Unsorted, Dated
  <1>3. pc' \in {"tips", "topo", "release"} => sorting' # {}
    BY <1>1 DEF Sort, Tip, TipsEnd, TopoPop, Release, ReleaseEnd, TopoEnd, Collect, CollectEnd,
       DateInv
  <1>4. ASSUME Unsorted PROVE Arranged(list', Newer({}))
    <2>1. sorting = {} /\ pc \in {"sort", "collect"}
      BY <1>1, <1>4 DEF Unsorted, Dated, DateInv
    <2>2. list' = list
      BY <2>1 DEF Sort, Tip, TipsEnd, TopoPop, Release, ReleaseEnd, TopoEnd, Collect, CollectEnd
    <2>. QED
      BY <1>4, <2>1, <2>2 DEF DateInv
  <1>5. walking' => InHand' = {} /\ Range(shown') = {} /\ Arranged(shown', Newer({})')
    BY <1>1, EmptyRange, ArrangedEmpty DEF Sort, Tip, TipsEnd, TopoPop, Release, ReleaseEnd,
       TopoEnd, Collect, CollectEnd, InHand
  <1>6. walking' => Outgoing'
    BY <1>5 DEF Outgoing
  <1>. QED
    BY <1>1, <1>2, <1>3, <1>4, <1>6 DEF DateInv

\* get_revision: the heap and the sorted list pop one of the newest commits.
LEMMA WalkDates ==
    ASSUME OnceInv, OnceInv', DateInv, repo' = repo, NextPop \/ Emit \/ EmitHidden
    PROVE  DateInv'
  <1>. USE DEF loop, marks, conf, report
  <1>1. /\ pc \in {"next", "emit"} /\ walking /\ walking'
        /\ UNCHANGED <<input, sorting, trouble, uninteresting, limited>>
        /\ pc' \in {"emit", "add", "idle", "next"} /\ (pc' = "add" => ~ limited)
        /\ (~ limited => sorting = {})
    BY DateFacts DEF NextPop, Visit, Emit, EmitHidden, Return, Control
  <1>2. Hides' = Hides /\ Unsorted' = Unsorted /\ Dated' = Dated /\ Newer({})' = Newer({})
    BY <1>1, InputSame, DatesSame DEF Unsorted, Dated
  <1>3. SUFFICES ASSUME Unsorted \/ sorting = {"time"}
                 PROVE  Outgoing' /\ (Unsorted => Arranged(list', Newer({})))
    BY <1>1, <1>2 DEF DateInv
  <1>. DEFINE R == Newer({})
  <1>4. /\ Unsorted => Arranged(list, R)
        /\ Arranged(shown, R)
        /\ \A a \in Range(shown) : \A b \in Range(list) \cup InHand : <<a, b>> \in R
        /\ \A a \in InHand : \A b \in Range(list) : <<a, b>> \in R
    BY <1>1, <1>3 DEF DateInv, Outgoing
  <1>5. R' = R
    BY <1>2
  <1>6. ASSUME NEW a \in Commits, NEW b \in Commits
        PROVE  <<a, b>> \in R <=> Time(a) >= Time(b)
    BY <1>6, NewerFacts
  <1>7. SUFFICES /\ Unsorted => Arranged(list', R)
                 /\ Arranged(shown', R)
                 /\ \A a \in Range(shown') : \A b \in Range(list') \cup InHand' : <<a, b>> \in R
                 /\ \A a \in InHand' : \A b \in Range(list') : <<a, b>> \in R
    BY <1>5 DEF Outgoing
  <1>. HIDE DEF R
  <1>8. CASE NextPop
    <2>1. PICK k \in DOMAIN list : Pops(k) /\ list' = Without(list, k) /\ cur' = list[k]
      BY <1>8 DEF NextPop, Visit
    <2>2. pc = "next" /\ pc' \in {"emit", "add"} /\ shown' = shown
      BY <1>8 DEF NextPop, Visit
    <2>3. InHand = {} /\ InHand' = {cur'}
      BY <2>2 DEF InHand
    <2>4. list[k] \in Commits /\ Range(list) = {cur'} \cup Range(list')
      BY <2>1, DateFacts, WithoutRange
    <2>5. CASE Unsorted
      <3>1. k = 1
        BY <2>1, <2>5 DEF Pops, Unsorted, Dated
      <3>2. Arranged(list', R) /\ \A b \in Range(list') : <<cur', b>> \in R
        BY <1>4, <2>1, <2>5, <3>1, DateFacts, ArrangedWithout
      <3>. QED
        BY <1>4, <2>2, <2>3, <2>4, <3>2
    <2>6. CASE ~ Unsorted
      <3>1. Newest(list, k)
        BY <1>3, <2>1, <2>6 DEF Pops
      <3>2. ASSUME NEW b \in Range(list') PROVE <<cur', b>> \in R
        <4>1. PICK j \in DOMAIN list : b = list[j]
          BY <2>4, <3>2 DEF Range
        <4>2. b \in Commits /\ Time(b) <= Time(cur')
          BY <2>1, <2>4, <3>1, <3>2, <4>1, DateFacts DEF Newest
        <4>. QED
          BY <1>6, <2>1, <2>4, <4>2, DateFacts
      <3>. QED
        BY <1>4, <2>2, <2>3, <2>4, <2>6, <3>2
    <2>. QED
      BY <2>5, <2>6
  <1>9. CASE Emit
    <2>1. /\ pc = "emit" /\ pc' = "idle" /\ list' = list /\ cur \in Commits
          /\ shown' = Append(shown, cur)
      BY <1>9, DateFacts DEF Emit, Return, Control
    <2>2. InHand = {cur} /\ InHand' = {} /\ Range(shown') = Range(shown) \cup {cur}
      BY <2>1, DateFacts, AppendRange DEF InHand
    <2>3. \A a \in Range(shown) : <<a, cur>> \in R
      BY <1>4, <2>2
    <2>4. Arranged(shown', R)
      BY <1>4, <2>1, <2>3, DateFacts, ArrangedAppend
    <2>. QED
      BY <1>4, <2>1, <2>2, <2>4
  <1>10. CASE EmitHidden
    <2>1. InHand' = {} /\ UNCHANGED <<list, shown>>
      BY <1>10 DEF EmitHidden, InHand
    <2>. QED
      BY <1>4, <2>1
  <1>. QED
    BY <1>8, <1>9, <1>10

LEMMA NextDates == OnceInv /\ DateInv /\ [Next]_vars => DateInv'
  <1>. SUFFICES ASSUME OnceInv, DateInv, [Next]_vars PROVE DateInv'
    OBVIOUS
  <1>1. OnceInv' /\ repo' = repo
    BY NextOnce, RepoSame
  <1>2. CASE UNCHANGED vars
    <2>1. UNCHANGED <<input, sorting, trouble, uninteresting, seen, limited, walking, list, out,
                      shown, pc, cur, i>>
      BY <1>2 DEF vars, marks, conf, loop, report
    <2>2. Tips' = Tips /\ Hides' = Hides /\ Unsorted' = Unsorted /\ Dated' = Dated /\ InHand' = InHand
          /\ Newer({})' = Newer({})
          /\ Newer(uninteresting \cup Tips)' = Newer(uninteresting \cup Tips)
      BY <1>1, <2>1, InputSame, DatesSame DEF Unsorted, Dated, InHand, Newer
    <2>3. Gathered' = Gathered /\ Outgoing' = Outgoing
      BY <2>1, <2>2 DEF Gathered, Outgoing
    <2>. QED
      BY <2>1, <2>2, <2>3 DEF DateInv
  <1>. QED
    BY <1>1, <1>2, CallerDates, PrepareDates, LimitPopDates, AddDates, LimitDates, SortDates,
       WalkDates DEF Next, Step

\* Chronological holds of every history: walks sorted by time are in reverse chronological
\* order whatever the dates are, and unsorted walks from one commit where dates grow, also
\* when limit_list begins with a list in which hidden commits stand anywhere.
THEOREM ByDate == Spec => []Chronological
  <1>1. Init => DateInv
    BY DEF Init, DateInv, Hides
  <1>2. OnceInv /\ DateInv => Chronological
    <2>. SUFFICES ASSUME OnceInv, DateInv, Unsorted \/ sorting = {"time"},
                         NEW j \in DOMAIN shown, NEW k \in DOMAIN shown, j < k
                  PROVE  Time(shown[j]) >= Time(shown[k])
      BY DEF Chronological, Unsorted, Dated
    <2>1. shown[j] \in Commits /\ shown[k] \in Commits /\ walking
      BY DateFacts
    <2>2. <<shown[j], shown[k]>> \in Newer({})
      BY <2>1 DEF DateInv, Outgoing, Arranged
    <2>. QED
      BY <2>1, <2>2, NewerFacts
  <1>. QED
    BY <1>1, <1>2, InitOnce, NextOnce, NextDates, PTL DEF Spec

-----------------------------------------------------------------------------
(* Exactness.  Each commit that limit_list has expanded has passed on what *)
(* it knows: if it is hidden, to all its parents.  So a hidden commit of   *)
(* the line that is not marked is behind a marked one that is still in the *)
(* list, and older; still_interesting stops when those are all older than  *)
(* what has been collected.                                                *)

Exacting == OneTip /\ GrowingDates /\ NoDetour

Limiting == pc \in {"limit", "judge"} \/ (pc = "add" /\ limited)

Limited == \/ pc \in {"sort", "tips", "topo", "release", "collect", "next", "emit"}
           \/ pc = "add" /\ ~ limited
           \/ pc = "idle" /\ walking

\* The commit whose parents are being added.
Hand == IF pc = "add" THEN {cur} ELSE {}

Reach == added \cup Range(list)

\* What the commits of A have passed on, U being marked and reach in the list or out of it:
\* a commit that was hidden too late to add all its parents is one of the line.
PassedOn(A, U, reach) ==
    \A e \in A : /\ Follows[e] \subseteq reach
                 /\ e \in U => /\ ParentsOf(e) \subseteq U
                               /\ e \in Line \/ ParentsOf(e) \subseteq reach

Limits ==
    /\ Hides \subseteq Reach
    /\ seen \subseteq Reach /\ Reach \subseteq parsed /\ Hand \subseteq added
    /\ Reach \subseteq Line \cup uninteresting
    /\ PassedOn(added \ Hand, uninteresting, Reach)
    /\ pc = "add" => \A k \in 1 .. Len(Parents(cur)) : k < i =>
          /\ cur \in uninteresting => Parents(cur)[k] \in uninteresting \cap Reach
          /\ Parents(cur)[k] \in Follows[cur] => Parents(cur)[k] \in Reach
    /\ Exacting => \A c \in Range(out) : time <= Time(c)

\* Of a simplified history only the first parent that the callback leaves is followed.
Turned ==
    pc = "add" /\ cur \notin uninteresting /\ firstParent =>
        \A k \in 1 .. Len(Parents(cur)) :
            k < i /\ i <= Len(Parents(cur)) => Parents(cur)[k] \in hideCb

\* What may still be returned.
Harvest == Range(list) \cup Range(out) \cup InHand

Pure(S) == S \subseteq Line \cup uninteresting /\ (Exacting => S \cap Hidden \subseteq uninteresting)

Exacted ==
    /\ pc = "idle" /\ ~ walking => seen = {} /\ added = {}
    /\ pc = "prepare" => seen \subseteq Range(list) /\ added = {} /\ Range(list) \subseteq parsed
    /\ Turned
    /\ Limiting => Limits
    /\ Limited => Pure(Harvest)
    /\ pc = "collect" => Range(out) \cap uninteresting = {}
    /\ walking /\ "reverse" \in sorting => (Range(list) \cup InHand) \cap uninteresting = {}
    /\ Range(shown) \subseteq Line /\ (Exacting => Range(shown) \cap Hidden = {})

ExactInv == ~ trouble => Exacted

\* mark_parents_uninteresting passes the mark on to the parents of c, and of what it marks
\* if that is parsed.
LEMMA MarkedPasses ==
    ASSUME TypeOK, NEW c \in Commits, NEW hidden \in SUBSET Commits, NEW known
    PROVE  LET M == Marked(c, hidden, known)
           IN  /\ M \in SUBSET Commits /\ hidden \subseteq M
               /\ ParentsOf(c) \subseteq M
               /\ \A e \in M \ hidden : e \in known => ParentsOf(e) \subseteq M
  <1>. DEFINE closed == {S \in SUBSET (Commits \ hidden) :
                             \A e \in {c} \cup (S \cap known) : ParentsOf(e) \subseteq S \cup hidden}
  <1>1. Marked(c, hidden, known) = hidden \cup {d \in Commits : \A S \in closed : d \in S}
    BY DEF Marked
  <1>2. ASSUME NEW S \in closed, NEW e \in {c} \cup (S \cap known)
        PROVE  ParentsOf(e) \subseteq S \cup hidden
    OBVIOUS
  <1>3. \A e \in Commits : ParentsOf(e) \subseteq Commits
    BY RepoTyped
  <1>. HIDE DEF closed
  <1>4. ParentsOf(c) \subseteq Marked(c, hidden, known)
    BY <1>1, <1>2, <1>3
  <1>5. ASSUME NEW e \in Marked(c, hidden, known) \ hidden, e \in known
        PROVE  ParentsOf(e) \subseteq Marked(c, hidden, known)
    <2>1. e \in Commits /\ \A S \in closed : e \in S
      BY <1>1, <1>5
    <2>2. \A S \in closed : ParentsOf(e) \subseteq S \cup hidden
      BY <1>2, <1>5, <2>1
    <2>. QED
      BY <1>1, <1>3, <2>1, <2>2
  <1>. QED
    BY <1>1, <1>4, <1>5

\* The other direction of FollowedFacts.
LEMMA FollowedIs ==
    ASSUME TypeOK, NEW c \in Commits, NEW k \in 1 .. Len(Parents(c)),
           Parents(c)[k] \notin hideCb,
           firstParent => \A j \in 1 .. Len(Parents(c)) : j < k => Parents(c)[j] \in hideCb
    PROVE  Parents(c)[k] \in Follows[c]
  <1>1. Follows[c] = Followed(c) /\ DOMAIN Parents(c) = 1 .. Len(Parents(c)) /\ Len(Parents(c)) \in Nat
    BY RepoTyped DEF Follows
  <1>2. \A j \in 1 .. Len(Parents(c)) : firstParent /\ Parents(c)[j] \notin hideCb => k <= j
    BY <1>1
  <1>. QED
    BY <1>1, <1>2 DEF Followed

LEMMA LineClosed ==
    ASSUME TypeOK
    PROVE  /\ Line \subseteq Commits /\ Tips \subseteq Line
           /\ \A c \in Line : Follows[c] \subseteq Line
  <1>1. Line = Closure(Follows, Tips)
    BY DEF Line, Follows
  <1>2. \A c \in Commits : Follows[c] \subseteq Commits
    BY FollowedFacts, RepoTyped
  <1>. HIDE DEF Follows
  <1>. QED
    BY <1>1, <1>2, InputTyped, ClosureHolds

\* Where nothing is hidden there is nothing to mark.
LEMMA NothingHidden ==
    ASSUME OnceInv, DateInv, ~ limited
    PROVE  uninteresting = {} /\ Hidden = {}
  <1>1. uninteresting = {} /\ Hides = {}
    BY DateFacts DEF DateInv
  <1>. DEFINE next == [c \in Commits |-> ParentsOf(c)]
  <1>2. Hidden = Closure(next, {})
    BY <1>1 DEF Hidden
  <1>. HIDE DEF next
  <1>3. Closure(next, {}) \subseteq {}
    BY ClosureLeast
  <1>. QED
    BY <1>1, <1>2, <1>3

\* Of the next state, while a call runs.
LEMMA LineSame ==
    ASSUME UNCHANGED <<repo, input, hideCb, firstParent>>
    PROVE  /\ Line' = Line /\ Tips' = Tips /\ Hides' = Hides /\ Hidden' = Hidden
           /\ Follows' = Follows
           /\ Exacting' = Exacting
           /\ \A c : ParentsOf(c)' = ParentsOf(c) /\ Parents(c)' = Parents(c) /\ Time(c)' = Time(c)
  <1>1. Hidden' = Hidden /\ Follows' = Follows /\ Tips' = Tips
    BY HiddenSame, FollowsSame, WantedSame
  <1>2. Line' = Line
    BY <1>1 DEF Line, Follows, Closure
  <1>3. \A c : ParentsOf(c)' = ParentsOf(c) /\ Parents(c)' = Parents(c) /\ Time(c)' = Time(c)
    BY DEF ParentsOf, Parents, Time
  <1>4. NoDetour' = NoDetour
    BY <1>1, <1>2 DEF NoDetour, Closure, ParentsOf, Followed, Parents
  <1>. QED
    BY <1>1, <1>2, <1>3, <1>4, InputSame DEF Exacting

\* A hidden commit of the line is marked or is older than a marked one in the list: L is in
\* the list, A has been expanded.
LEMMA HiddenBehind ==
    ASSUME TypeOK, Exacting, NEW U \in SUBSET Commits, NEW A \in SUBSET Commits,
           NEW L \in SUBSET Commits, Hides \subseteq U \cap (A \cup L),
           PassedOn(A, U, A \cup L), NEW y \in Line \cap Hidden, y \notin U
    PROVE  \E l \in U \cap L : Time(y) < Time(l)
  <1>. DEFINE Up == [c \in Commits |-> ParentsOf(c)]
              Low == {e \in Commits : e \in U \cap L \/ \E l \in U \cap L : Time(e) < Time(l)}
              Behind(c) == Closure(Up, {c})
              W == Low \cup (U \cap A) \cup {e \in Commits : \E c \in Line \cap U \cap A : e \in Behind(c)}
  <1>1. \A c \in Commits : Up[c] = ParentsOf(c) /\ ParentsOf(c) \subseteq Commits /\ Time(c) \in Int
    BY RepoTyped
  <1>2. \A e \in Low : ParentsOf(e) \subseteq Low
    BY <1>1 DEF Exacting, GrowingDates
  <1>3. \A c \in Commits : /\ Behind(c) \subseteq Commits /\ c \in Behind(c)
                           /\ \A d \in Behind(c) : Up[d] \subseteq Behind(c)
    <2>. HIDE DEF Up
    <2>. QED
      BY <1>1, ClosureHolds
  <1>. HIDE DEF Up
  <1>4. Hidden \subseteq W
    <2>1. W \in SUBSET Commits /\ Hides \subseteq W
      OBVIOUS
    <2>2. ASSUME NEW e \in W PROVE Up[e] \subseteq W
      <3>1. CASE e \in Low
        BY <1>1, <1>2, <3>1
      <3>2. CASE e \in U \cap A
        <4>1. CASE e \in Line
          BY <1>1, <1>3, <3>2, <4>1
        <4>2. CASE e \notin Line
          BY <1>1, <3>2, <4>2 DEF PassedOn
        <4>. QED
          BY <4>1, <4>2
      <3>3. ASSUME NEW c \in Line \cap U \cap A, e \in Behind(c)
            PROVE  Up[e] \subseteq W
        BY <1>1, <1>3, <3>3
      <3>. QED
        BY <2>2, <3>1, <3>2, <3>3
    <2>3. Hidden = Closure(Up, Hides)
      BY DEF Hidden, Up
    <2>. HIDE DEF W
    <2>. QED
      BY <2>1, <2>2, <2>3, InputTyped, ClosureLeast
  <1>5. ASSUME NEW c \in Line \cap U \cap A, y \in Behind(c)
        PROVE  y \in Low
    <2>. DEFINE V == Low \cup (U \cap A)
    <2>1. y \in Closure(Follows, {c})
      BY <1>5 DEF Exacting, NoDetour, Follows, Up
    <2>2. V \in SUBSET Commits /\ {c} \subseteq V /\ {c} \in SUBSET Commits
      OBVIOUS
    <2>3. ASSUME NEW e \in V PROVE Follows[e] \subseteq V
      <3>1. Follows[e] \subseteq ParentsOf(e) /\ ParentsOf(e) \subseteq Commits
        BY FollowedFacts, RepoTyped
      <3>2. e \in Low => Follows[e] \subseteq Low
        BY <1>2, <3>1
      <3>3. e \in U \cap A => Follows[e] \subseteq U \cap (A \cup L)
        BY <3>1 DEF PassedOn
      <3>. QED
        BY <2>3, <3>1, <3>2, <3>3
    <2>. HIDE DEF V
    <2>4. Closure(Follows, {c}) \subseteq V
      BY <2>2, <2>3, ClosureLeast
    <2>. QED
      BY <2>1, <2>4 DEF V
  <1>6. y \in Low
    BY <1>4, <1>5
  <1>. QED
    BY <1>6


\* Between two calls, at the start of one, and at the end of a walk.
LEMMA CallerExact ==
    ASSUME OnceInv, OnceInv', ExactInv, repo' = repo,
           \/ \E c \in Commits, hide \in BOOLEAN : PushCommit(c, hide)
           \/ SimplifyFirstParent
           \/ \E s \in Sortings : SetSorting(s)
           \/ \E h \in HideCbs : AddHideCb(h)
           \/ Reset \/ CallNext \/ EndWalk
    PROVE  ExactInv'
  <1>. USE DEF loop, marks, conf, report
  <1>1. ASSUME pc' = "idle", ~ walking', seen' = {}, added' = {}
        PROVE  ExactInv'
    <2>1. Range(shown') = {}
      BY <1>1, EmptyRange DEF OnceInv, Plain
    <2>. QED
      BY <1>1, <2>1 DEF ExactInv, Exacted, Turned, Limiting, Limited
  <1>2. pc = "idle" /\ ~ walking /\ ~ trouble => seen = {} /\ added = {}
    BY DEF ExactInv, Exacted
  <1>3. CASE trouble'
    BY <1>3 DEF ExactInv
  <1>4. ASSUME NEW c \in Commits, NEW hide \in BOOLEAN, PushCommit(c, hide), ~ trouble'
        PROVE  ExactInv'
    BY <1>1, <1>2, <1>4 DEF PushCommit
  <1>5. CASE SimplifyFirstParent /\ ~ trouble'
    BY <1>1, <1>2, <1>5 DEF SimplifyFirstParent
  <1>6. ASSUME NEW s \in Sortings, SetSorting(s), ~ trouble'
        PROVE  ExactInv'
    BY <1>1, <1>2, <1>6 DEF SetSorting, ClearIfWalking, Clear
  <1>7. ASSUME NEW h \in HideCbs, AddHideCb(h), ~ trouble'
        PROVE  ExactInv'
    BY <1>1, <1>2, <1>7 DEF AddHideCb, ClearIfWalking, Clear
  <1>8. CASE Reset
    BY <1>1, <1>8 DEF Reset, Clear
  <1>9. CASE CallNext /\ ~ trouble'
    <2>1. /\ pc = "idle" /\ ~ trouble /\ walking' = walking
          /\ UNCHANGED <<seen, added, list, out, shown, sorting, uninteresting>>
          /\ UNCHANGED <<repo, input, hideCb, firstParent>>
          /\ pc' = IF walking THEN "next" ELSE "prepare"
      BY <1>9 DEF CallNext
    <2>2. Line' = Line /\ Hidden' = Hidden /\ Exacting' = Exacting
      BY <2>1, LineSame
    <2>3. InHand = {} /\ InHand' = {} /\ Exacted
      BY <2>1 DEF InHand, ExactInv
    <2>4. CASE walking
      <3>1. Pure(Harvest)
        BY <2>1, <2>3, <2>4 DEF Exacted, Limited
      <3>2. Pure(Harvest)'
        BY <2>1, <2>2, <2>3, <3>1 DEF Pure, Harvest
      <3>. QED
        BY <2>1, <2>2, <2>3, <2>4, <3>2 DEF ExactInv, Exacted, Turned, Limiting
    <2>5. CASE ~ walking
      <3>1. seen = {} /\ added = {} /\ Range(list) = {} /\ Range(shown) = {}
        BY <1>2, <2>1, <2>5, EmptyRange DEF OnceInv, Plain
      <3>. QED
        BY <2>1, <2>5, <3>1 DEF ExactInv, Exacted, Turned, Limiting, Limited
    <2>. QED
      BY <2>4, <2>5
  <1>10. CASE EndWalk
    BY <1>1, <1>10 DEF EndWalk, Clear, Return
  <1>. QED
    BY <1>3, <1>4, <1>5, <1>6, <1>7, <1>8, <1>9, <1>10

\* prepare_walk puts all that was pushed or hidden into the list.
LEMMA PrepareExact ==
    ASSUME OnceInv, OnceInv', DateInv, ExactInv, repo' = repo, Prepare \/ Prepared
    PROVE  ExactInv'
  <1>. SUFFICES ASSUME ~ trouble'
                PROVE  Exacted'
    BY DEF ExactInv
  <1>. USE DEF loop, marks, conf, report
  <1>1. /\ pc = "prepare" /\ ~ walking /\ ~ walking' /\ out = << >> /\ out' = << >>
        /\ UNCHANGED <<repo, input, hideCb, firstParent>> /\ added' = added
        /\ Range(shown') = {} /\ Range(out') = {} /\ ~ trouble
        /\ DOMAIN input = 1 .. Len(input) /\ i \in Nat
    BY DateFacts, EmptyRange DEF Prepare, Prepared, Control, TypeOK
  <1>2. seen \subseteq Range(list) /\ added = {} /\ Range(list) \subseteq parsed
    BY <1>1 DEF ExactInv, Exacted
  <1>3. Line' = Line /\ Hidden' = Hidden /\ Hides' = Hides /\ Exacting' = Exacting
    BY <1>1, LineSame
  <1>4. CASE Prepare
    <2>. DEFINE c == input[i].commit
    <2>1. c \in Commits /\ pc' = "prepare"
      BY <1>4, PreparedTyped DEF Prepare, OnceInv
    <2>2. /\ list' = (IF c \in seen THEN list ELSE <<c>> \o list)
          /\ seen' = seen \cup {c} /\ parsed' = parsed \cup {c}
      BY <1>4 DEF Prepare
    <2>. HIDE DEF c
    <2>3. Range(<<c>> \o list) = {c} \cup Range(list)
      BY <2>1, DateFacts, ConsRange
    <2>4. Range(list') = {c} \cup Range(list)
      BY <1>2, <2>2, <2>3
    <2>. QED
      BY <1>1, <1>2, <2>1, <2>2, <2>4 DEF Exacted, Turned, Limiting, Limited
  <1>5. CASE Prepared
    <2>1. /\ i > Len(input) /\ UNCHANGED <<list, seen, parsed, uninteresting, limited>>
          /\ pc' = IF limited THEN "limit" ELSE "sort"
      BY <1>5 DEF Prepared
    <2>2. Range(list) \subseteq Line \cup uninteresting
      <3>1. Range(list) \subseteq Tips \cup uninteresting
        BY <1>1 DEF DateInv
      <3>. QED
        BY <3>1, DateFacts, LineClosed
    <2>3. Hides \subseteq seen
      <3>1. \A k \in DOMAIN input : k < i
        BY <1>1, <2>1, DateFacts DEF TypeOK
      <3>. QED
        BY <1>1, <3>1 DEF DateInv, Hides
    <2>4. Limiting' => Limits'
      BY <1>1, <1>2, <1>3, <2>1, <2>2, <2>3 DEF Limiting, Limits, Reach, Hand, PassedOn
    <2>5. ~ limited => Pure(Harvest)'
      <3>1. ~ limited => Hidden = {}
        BY NothingHidden
      <3>2. Harvest' = Range(list)
        BY <1>1, <2>1 DEF Harvest, InHand
      <3>. QED
        BY <1>3, <2>1, <2>2, <3>1, <3>2 DEF Pure
    <2>. QED
      BY <1>1, <2>1, <2>4, <2>5 DEF Exacted, Turned, Limited
  <1>. QED
    BY <1>4, <1>5

\* limit_list takes a commit and begins to expand it.
LEMMA LimitPopExact ==
    ASSUME OnceInv, OnceInv', DateInv, ExactInv, repo' = repo, LimitPop
    PROVE  ExactInv'
  <1>. SUFFICES ASSUME ~ trouble'
                PROVE  Exacted'
    BY DEF ExactInv
  <1>. USE DEF loop, marks, conf, report
  <1>1. /\ pc = "limit" /\ limited /\ limited' /\ ~ walking /\ ~ walking' /\ ~ trouble
        /\ UNCHANGED <<repo, input, hideCb, firstParent, parsed, seen, uninteresting, out, time>>
        /\ list # << >> /\ cur' = Head(list) /\ list' = Tail(list)
        /\ added' = added \cup {cur'} /\ i' = 1
        /\ pc' = IF cur' \in added THEN "judge" ELSE "add"
    BY DateFacts DEF LimitPop, Visit, Control
  <1>2. Line' = Line /\ Hides' = Hides /\ Exacting' = Exacting /\ Follows' = Follows
        /\ \A c : ParentsOf(c)' = ParentsOf(c) /\ Time(c)' = Time(c)
    BY <1>1, LineSame
  <1>3. Range(list) = {cur'} \cup Range(list') /\ cur' \in Commits
    BY <1>1, DateFacts, TailRange
  <1>4. Limits /\ Hand = {}
    BY <1>1 DEF ExactInv, Exacted, Limiting, Hand
  <1>5. Reach' = Reach /\ added' \ Hand' = added /\ Hand' \subseteq added'
    BY <1>1, <1>3 DEF Reach, Hand
  <1>6. PassedOn(added \ Hand, uninteresting, Reach)'
    BY <1>1, <1>2, <1>4, <1>5 DEF Limits, PassedOn
  <1>7. Limits'
    BY <1>1, <1>2, <1>4, <1>5, <1>6 DEF Limits
  <1>8. Range(shown') = {}
    BY <1>1, EmptyRange DEF OnceInv, Plain
  <1>. QED
    BY <1>1, <1>7, <1>8 DEF Exacted, Turned, Limited

\* What is marked anew among the commits that have been expanded passes the mark on.
LEMMA MarksPassOn ==
    ASSUME TypeOK, NEW c \in Commits, NEW U \in SUBSET Commits, NEW hidden \in SUBSET Commits,
           hidden = U \/ hidden = U \cup {c}, NEW known, NEW A \in SUBSET Commits, A \subseteq known,
           NEW reach, NEW wider, reach \subseteq wider, A \subseteq Line \cup U, PassedOn(A, U, reach)
    PROVE  PassedOn(A, Marked(c, hidden, known), wider)
  <1>. DEFINE M == Marked(c, hidden, known)
  <1>1. /\ hidden \subseteq M /\ ParentsOf(c) \subseteq M
        /\ \A e \in M \ hidden : e \in known => ParentsOf(e) \subseteq M
    BY MarkedPasses
  <1>. HIDE DEF M
  <1>2. ASSUME NEW e \in A, e \in M
        PROVE  ParentsOf(e) \subseteq M /\ (e \in Line \/ ParentsOf(e) \subseteq reach)
    <2>1. CASE e \in U
      BY <1>1, <2>1 DEF PassedOn
    <2>2. CASE e \notin U
      BY <1>1, <1>2, <2>2
    <2>. QED
      BY <2>1, <2>2
  <1>3. PassedOn(A, M, wider)
    BY <1>2 DEF PassedOn
  <1>. QED
    BY <1>3 DEF M

\* add_parents_to_list, in limit_list: a hidden commit adds every parent and marks it.
LEMMA AddHiddenExact ==
    ASSUME OnceInv, OnceInv', DateInv, ExactInv, repo' = repo, AddHidden
    PROVE  ExactInv'
  <1>. SUFFICES ASSUME ~ trouble'
                PROVE  Exacted'
    BY DEF ExactInv
  <1>. USE DEF loop, marks, conf, report
  <1>. DEFINE q == Parents(cur)[i]
  <1>1. /\ pc = "add" /\ pc' = "add" /\ cur \in uninteresting
        /\ UNCHANGED <<repo, input, hideCb, firstParent, limited, walking, added, cur, out, time, shown>>
        /\ i \in 1 .. Len(Parents(cur)) /\ i' = i + 1
        /\ cur \in Commits /\ ~ trouble /\ (limited <=> ~ walking)
    BY DateFacts DEF AddHidden, Control, TypeOK
  <1>2. PICK p \in Commits : p = q
    BY <1>1, DateFacts, RepoTyped
  <1>3. /\ parsed' = parsed \cup {p} /\ seen' = seen \cup {p} /\ Insert(p)
        /\ uninteresting' = Marked(p, uninteresting \cup {p}, parsed')
    BY <1>2 DEF AddHidden
  <1>4. Line' = Line /\ Hides' = Hides /\ Exacting' = Exacting /\ Follows' = Follows
        /\ \A c : ParentsOf(c)' = ParentsOf(c) /\ Time(c)' = Time(c) /\ Parents(c)' = Parents(c)
    BY <1>1, LineSame
  <1>5. Range(list') = Range(list) \cup {p}
    BY <1>3, DateFacts, InsertRange
  <1>6. limited /\ ~ walking
    BY <1>1, NothingHidden
  <1>7. Limits /\ Hand = {cur} /\ Hand' = {cur} /\ Reach' = Reach \cup {p}
    BY <1>1, <1>5, <1>6 DEF ExactInv, Exacted, Limiting, Hand, Reach
  <1>8. uninteresting \cup {p} \subseteq uninteresting' /\ uninteresting \subseteq Commits
    BY <1>3, DateFacts DEF Marked
  <1>9. PassedOn(added \ Hand, uninteresting, Reach)'
    <2>1. PassedOn(added \ {cur}, Marked(p, uninteresting \cup {p}, parsed'), Reach \cup {p})
      <3>1. added \in SUBSET Commits /\ TypeOK
        BY DateFacts DEF TypeOK
      <3>2. added \ {cur} \subseteq parsed' /\ added \ {cur} \subseteq Line \cup uninteresting
        BY <1>3, <1>7 DEF Limits, Reach
      <3>3. PassedOn(added \ {cur}, uninteresting, Reach)
        BY <1>7 DEF Limits
      <3>. QED
        BY <1>8, <3>1, <3>2, <3>3, MarksPassOn
    <2>2. PassedOn(added \ {cur}, uninteresting', Reach \cup {p})
      BY <1>3, <2>1
    <2>. QED
      BY <1>1, <1>4, <1>7, <2>2 DEF PassedOn
  <1>10. ASSUME NEW k \in 1 .. Len(Parents(cur)), k < i + 1
         PROVE  Parents(cur)[k] \in uninteresting' \cap Reach'
    <2>1. k < i \/ k = i
      BY <1>1, <1>10
    <2>2. CASE k < i
      BY <1>1, <1>7, <1>8, <2>2 DEF Limits
    <2>3. CASE k = i
      BY <1>2, <1>7, <1>8, <2>3
    <2>. QED
      BY <2>1, <2>2, <2>3
  <1>11. /\ Hides' \subseteq Reach' /\ seen' \subseteq Reach' /\ Reach' \subseteq parsed'
         /\ Hand' \subseteq added' /\ Reach' \subseteq Line' \cup uninteresting'
         /\ Exacting' => \A c \in Range(out') : time' <= Time(c)'
    BY <1>1, <1>3, <1>4, <1>7, <1>8 DEF Limits
  <1>12. Limits'
    BY <1>1, <1>4, <1>9, <1>10, <1>11 DEF Limits
  <1>13. Range(shown') = {} /\ cur' \in uninteresting'
    BY <1>1, <1>6, <1>8, EmptyRange DEF OnceInv, Plain
  <1>. QED
    BY <1>1, <1>6, <1>12, <1>13 DEF Exacted, Turned, Limited

\* A commit that is not hidden adds what is followed from it.
LEMMA AddShownExact ==
    ASSUME OnceInv, OnceInv', DateInv, ExactInv, repo' = repo, AddShown
    PROVE  ExactInv'
  <1>. SUFFICES ASSUME ~ trouble'
                PROVE  Exacted'
    BY DEF ExactInv
  <1>. USE DEF loop, marks, conf, report
  <1>. DEFINE q == Parents(cur)[i]
              n == Len(Parents(cur))
  <1>1. /\ pc = "add" /\ pc' = "add" /\ cur \notin uninteresting
        /\ UNCHANGED <<repo, input, hideCb, firstParent, sorting, limited, walking, added, cur,
                       out, time, shown, uninteresting>>
        /\ i \in 1 .. n /\ n \in Nat /\ firstParent \in BOOLEAN
        /\ cur \in Commits /\ ~ trouble /\ (limited <=> ~ walking) /\ (~ limited => sorting = {})
    BY DateFacts, RepoTyped DEF AddShown, Control, TypeOK
  <1>2. PICK p \in Commits : p = q
    BY <1>1, DateFacts, RepoTyped
  <1>3. /\ parsed' = parsed \cup {p}
        /\ \/ p \in hideCb \cup seen /\ UNCHANGED <<seen, list>>
           \/ p \notin hideCb \cup seen /\ seen' = seen \cup {p} /\ Insert(p)
        /\ i' = IF firstParent /\ p \notin hideCb THEN n + 1 ELSE i + 1
    BY <1>2 DEF AddShown
  <1>4. Line' = Line /\ Hides' = Hides /\ Hidden' = Hidden /\ Exacting' = Exacting /\ Follows' = Follows
        /\ \A c : ParentsOf(c)' = ParentsOf(c) /\ Time(c)' = Time(c) /\ Parents(c)' = Parents(c)
    BY <1>1, LineSame
  <1>5. Insert(p) => Range(list') = Range(list) \cup {p}
    BY DateFacts, InsertRange
  <1>6. firstParent => \A k \in 1 .. n : k < i => Parents(cur)[k] \in hideCb
    BY <1>1 DEF ExactInv, Exacted, Turned
  <1>7. p \notin hideCb => p \in Follows[cur]
    <2>1. Parents(cur)[i] = p
      BY <1>2
    <2>. QED
      BY <1>1, <1>6, <2>1, DateFacts, FollowedIs
  <1>8. Turned'
    BY <1>1, <1>2, <1>3, <1>4, <1>6 DEF Turned
  <1>9. ASSUME limited PROVE Limits'
    <2>1. Limits /\ Hand = {cur} /\ Hand' = {cur}
      BY <1>1, <1>9 DEF ExactInv, Exacted, Limiting, Hand
    <2>2. cur \in Line
      BY <1>1, <2>1 DEF Limits, Reach
    <2>3. p \notin hideCb => p \in Line
      BY <1>7, <2>2, DateFacts, LineClosed
    <2>4. Reach \subseteq Reach' /\ Reach' \subseteq Reach \cup {p} /\ seen' \subseteq Reach'
          /\ (p \in hideCb => Reach' = Reach) /\ (p \notin hideCb => p \in Reach')
      BY <1>1, <1>3, <1>5, <2>1 DEF Limits, Reach
    <2>5. ASSUME NEW k \in 1 .. n, k < i', Parents(cur)[k] \in Follows[cur]
          PROVE  Parents(cur)[k] \in Reach'
      <3>1. \A j \in 1 .. i : Parents(cur)[j] \in Follows[cur] => Parents(cur)[j] \in Reach'
        <4>1. \A j \in 1 .. i : j \in 1 .. n /\ (j < i \/ j = i)
          BY <1>1
        <4>2. \A j \in 1 .. n : j < i /\ Parents(cur)[j] \in Follows[cur] => Parents(cur)[j] \in Reach
          BY <1>1, <2>1 DEF Limits
        <4>3. p \in Follows[cur] => p \notin hideCb
          BY <1>1, DateFacts, FollowedFacts
        <4>. QED
          BY <1>2, <2>4, <4>1, <4>2, <4>3
      <3>2. CASE firstParent /\ p \notin hideCb
        <4>1. i \in 1 .. n /\ Parents(cur)[i] \notin hideCb
          BY <1>1, <1>2, <3>2
        <4>2. PICK j \in 1 .. i : Parents(cur)[j] = Parents(cur)[k]
          BY <1>1, <2>5, <3>2, <4>1, DateFacts, FollowedFacts
        <4>. QED
          BY <2>5, <3>1, <4>2
      <3>3. CASE ~ (firstParent /\ p \notin hideCb)
        BY <1>1, <1>3, <2>5, <3>1, <3>3
      <3>. QED
        BY <3>2, <3>3
    <2>6. PassedOn(added \ Hand, uninteresting, Reach)'
      BY <1>1, <1>4, <2>1, <2>4 DEF Limits, PassedOn
    <2>7. /\ Hides' \subseteq Reach' /\ seen' \subseteq Reach' /\ Reach' \subseteq parsed'
          /\ Hand' \subseteq added' /\ Reach' \subseteq Line' \cup uninteresting'
          /\ Exacting' => \A c \in Range(out') : time' <= Time(c)'
      BY <1>1, <1>3, <1>4, <2>1, <2>3, <2>4 DEF Limits
    <2>. QED
      BY <1>1, <1>4, <2>5, <2>6, <2>7 DEF Limits
  <1>10. ASSUME ~ limited PROVE Pure(Harvest)'
    <2>1. Pure(Harvest) /\ cur \in Harvest
      BY <1>1, <1>10 DEF ExactInv, Exacted, Limited, Harvest, InHand
    <2>2. uninteresting = {} /\ Hidden = {}
      BY <1>10, NothingHidden
    <2>3. p \notin hideCb => p \in Line
      BY <1>7, <2>1, <2>2, DateFacts, LineClosed DEF Pure
    <2>4. Harvest' \subseteq Harvest \cup {p} /\ (p \in hideCb => Harvest' \subseteq Harvest)
      BY <1>1, <1>3, <1>5 DEF Harvest, InHand
    <2>. QED
      BY <1>1, <1>4, <2>1, <2>2, <2>3, <2>4 DEF Pure
  <1>11. Range(shown') \subseteq Line' /\ (Exacting' => Range(shown') \cap Hidden' = {})
    BY <1>1, <1>4 DEF ExactInv, Exacted
  <1>. QED
    BY <1>1, <1>8, <1>9, <1>10, <1>11 DEF Exacted, Limiting, Limited

\* All parents have been added.
LEMMA AddEndExact ==
    ASSUME OnceInv, OnceInv', DateInv, ExactInv, repo' = repo, AddEnd
    PROVE  ExactInv'
  <1>. SUFFICES ASSUME ~ trouble'
                PROVE  Exacted'
    BY DEF ExactInv
  <1>. USE DEF loop, marks, conf, report
  <1>1. /\ pc = "add" /\ pc' = (IF limited THEN "judge" ELSE "emit") /\ i > Len(Parents(cur))
        /\ UNCHANGED <<repo, input, hideCb, firstParent, sorting, limited, walking, list, cur, out,
                       time, shown, parsed, seen, added, uninteresting>>
        /\ cur \in Commits /\ ~ trouble /\ (limited <=> ~ walking) /\ (~ limited => sorting = {})
    BY DateFacts DEF AddEnd, Control
  <1>2. Line' = Line /\ Hides' = Hides /\ Hidden' = Hidden /\ Exacting' = Exacting /\ Follows' = Follows
        /\ \A c : ParentsOf(c)' = ParentsOf(c) /\ Time(c)' = Time(c)
    BY <1>1, LineSame
  <1>3. ASSUME limited PROVE Limits'
    <2>1. Limits /\ Hand = {cur} /\ Hand' = {} /\ Reach' = Reach
      BY <1>1, <1>3 DEF ExactInv, Exacted, Limiting, Hand, Reach
    <2>2. \A p \in ParentsOf(cur) : /\ cur \in uninteresting => p \in uninteresting \cap Reach
                                    /\ p \in Follows[cur] => p \in Reach
      <3>. SUFFICES ASSUME NEW p \in ParentsOf(cur)
                    PROVE  /\ cur \in uninteresting => p \in uninteresting \cap Reach
                           /\ p \in Follows[cur] => p \in Reach
        OBVIOUS
      <3>1. PICK k \in 1 .. Len(Parents(cur)) : Parents(cur)[k] = p
        BY <1>1, DateFacts, RepoTyped
      <3>2. k < i
        BY <1>1, DateFacts, RepoTyped DEF TypeOK
      <3>. QED
        BY <1>1, <2>1, <3>1, <3>2 DEF Limits
    <2>3. Follows[cur] \subseteq ParentsOf(cur)
      BY <1>1, DateFacts, FollowedFacts
    <2>4. PassedOn(added, uninteresting, Reach)
      BY <2>1, <2>2, <2>3 DEF Limits, PassedOn
    <2>5. PassedOn(added \ Hand, uninteresting, Reach)'
      BY <1>1, <1>2, <2>1, <2>4 DEF PassedOn
    <2>. QED
      BY <1>1, <1>2, <1>3, <2>1, <2>5 DEF Limits
  <1>4. ASSUME ~ limited PROVE Pure(Harvest)'
    <2>1. Pure(Harvest) /\ Harvest' = Harvest
      BY <1>1, <1>4 DEF ExactInv, Exacted, Limited, Harvest, InHand
    <2>. QED
      BY <1>1, <1>2, <2>1 DEF Pure
  <1>5. Range(shown') \subseteq Line' /\ (Exacting' => Range(shown') \cap Hidden' = {})
    BY <1>1, <1>2 DEF ExactInv, Exacted
  <1>. QED
    BY <1>1, <1>3, <1>4, <1>5 DEF Exacted, Turned, Limiting, Limited

\* A hidden commit: limit_list goes on, or stops with nothing in its list that is newer than
\* what it has collected.
LEMMA JudgeHiddenExact ==
    ASSUME OnceInv, OnceInv', DateInv, ExactInv, repo' = repo, JudgeHidden
    PROVE  ExactInv'
  <1>. SUFFICES ASSUME ~ trouble'
                PROVE  Exacted'
    BY DEF ExactInv
  <1>. USE DEF loop, marks, conf, report
  <1>1. /\ pc = "judge" /\ cur \in uninteresting /\ limited /\ ~ walking
        /\ UNCHANGED <<repo, input, hideCb, firstParent, sorting, limited, walking, cur,
                       time, shown, parsed, seen, added>>
        /\ cur \in Commits /\ ~ trouble
        /\ uninteresting' = Marked(cur, uninteresting, parsed)
        /\ \/ slop' # 0 /\ pc' = "limit" /\ UNCHANGED <<list, out>>
           \/ slop' = 0 /\ pc' = "sort" /\ list' = out /\ out' = << >>
    BY DateFacts DEF JudgeHidden, Control
  <1>2. Line' = Line /\ Hides' = Hides /\ Hidden' = Hidden /\ Exacting' = Exacting /\ Follows' = Follows
        /\ \A c : ParentsOf(c)' = ParentsOf(c) /\ Time(c)' = Time(c)
    BY <1>1, LineSame
  <1>3. Limits /\ Hand = {} /\ Hand' = {}
    BY <1>1 DEF ExactInv, Exacted, Limiting, Hand
  <1>4. uninteresting \subseteq uninteresting' /\ uninteresting' \in SUBSET Commits
    BY <1>1, DateFacts, MarkedTyped DEF Marked
  <1>5. PassedOn(added, uninteresting', Reach)
    <2>1. PassedOn(added, Marked(cur, uninteresting, parsed), Reach)
      <3>1. added \in SUBSET Commits /\ TypeOK /\ uninteresting \in SUBSET Commits
        BY DateFacts DEF TypeOK
      <3>2. added \subseteq parsed /\ added \subseteq Line \cup uninteresting
        BY <1>3 DEF Limits, Reach
      <3>3. PassedOn(added, uninteresting, Reach)
        BY <1>3 DEF Limits
      <3>. QED
        BY <1>1, <3>1, <3>2, <3>3, MarksPassOn
    <2>. QED
      BY <1>1, <2>1
  <1>6. Range(shown') = {} /\ Range(<< >>) = {}
    BY <1>1, EmptyRange DEF OnceInv, Plain
  <1>7. CASE pc' = "limit"
    <2>1. Reach' = Reach /\ UNCHANGED <<list, out>>
      BY <1>1, <1>7 DEF Reach
    <2>2. PassedOn(added \ Hand, uninteresting, Reach)'
      BY <1>1, <1>2, <1>3, <1>5, <2>1 DEF PassedOn
    <2>3. Limits'
      BY <1>1, <1>2, <1>3, <1>4, <1>7, <2>1, <2>2 DEF Limits
    <2>. QED
      BY <1>1, <1>6, <1>7, <2>3 DEF Exacted, Turned, Limited
  <1>8. CASE pc' = "sort"
    <2>1. slop' = 0 /\ list' = out /\ out' = << >>
      BY <1>1, <1>8
    <2>2. Harvest' = Range(out)
      BY <1>6, <1>8, <2>1 DEF Harvest, InHand
    <2>3. Range(out) \subseteq Line \cup uninteresting'
      BY <1>3, <1>4 DEF OnceInv, Placed, Taken, Limits
    <2>4. \A l \in Range(list) : Time(l) <= time
      <3>1. StillInteresting(uninteresting') = 0 /\ slop \in 1 .. SLOP
        BY <1>1, <2>1, DateFacts DEF JudgeHidden, Control, TypeOK, SLOP
      <3>2. list # << >> => \A k \in DOMAIN list : ~ (Time(list[k]) > time)
        BY <3>1 DEF StillInteresting, SLOP
      <3>3. \A l \in Range(list) : l \in Commits /\ Time(l) \in Int /\ time \in Int
        BY DateFacts DEF TypeOK
      <3>4. \A l \in Range(list) : \E k \in DOMAIN list : list[k] = l
        BY DEF Range
      <3>5. list = << >> => Range(list) = {}
        BY <1>6
      <3>. QED
        BY <3>2, <3>3, <3>4, <3>5
    <2>5. ASSUME Exacting, NEW y \in Range(out) \cap Hidden, y \notin uninteresting'
          PROVE  FALSE
      <3>1. y \in Line \cap Hidden
        BY <2>3, <2>5
      <3>2. /\ added \in SUBSET Commits /\ Range(list) \in SUBSET Commits
            /\ Reach = added \cup Range(list)
            /\ Hides \subseteq uninteresting' \cap (added \cup Range(list))
        BY <1>3, <1>4, DateFacts DEF TypeOK, Reach, Limits, DateInv
      <3>3. PICK l \in uninteresting' \cap Range(list) : Time(y) < Time(l)
        BY <1>4, <1>5, <2>5, <3>1, <3>2, DateFacts, HiddenBehind
      <3>4. time <= Time(y) /\ Time(l) <= time
        BY <1>3, <2>4, <2>5, <3>3 DEF Limits
      <3>5. Time(y) \in Int /\ Time(l) \in Int /\ time \in Int
        BY <2>5, <3>3, DateFacts DEF TypeOK
      <3>. QED
        BY <3>3, <3>4, <3>5
    <2>6. Pure(Harvest)'
      BY <1>2, <2>2, <2>3, <2>5 DEF Pure
    <2>. QED
      BY <1>1, <1>6, <1>8, <2>6 DEF Exacted, Turned, Limiting
  <1>. QED
    BY <1>1, <1>7, <1>8

\* A commit that is collected, and the end of the list.
LEMMA LimitExact ==
    ASSUME OnceInv, OnceInv', DateInv, ExactInv, repo' = repo, JudgeShown \/ LimitEnd
    PROVE  ExactInv'
  <1>. SUFFICES ASSUME ~ trouble'
                PROVE  Exacted'
    BY DEF ExactInv
  <1>. USE DEF loop, marks, conf, report
  <1>1. /\ pc \in {"judge", "limit"} /\ limited /\ ~ walking /\ ~ trouble
        /\ UNCHANGED <<repo, input, hideCb, firstParent, sorting, limited, walking, cur,
                       shown, parsed, seen, added, uninteresting>>
    BY DateFacts DEF JudgeShown, LimitEnd, Control
  <1>2. Line' = Line /\ Hides' = Hides /\ Hidden' = Hidden /\ Exacting' = Exacting /\ Follows' = Follows
        /\ \A c : ParentsOf(c)' = ParentsOf(c) /\ Time(c)' = Time(c)
    BY <1>1, LineSame
  <1>3. Limits /\ Hand = {}
    BY <1>1 DEF ExactInv, Exacted, Limiting, Hand
  <1>4. Range(shown') = {} /\ Range(<< >>) = {}
    BY <1>1, EmptyRange DEF OnceInv, Plain
  <1>5. CASE JudgeShown
    <2>1. /\ pc = "judge" /\ pc' = "limit" /\ cur \notin uninteresting /\ list' = list
          /\ cur \in Commits
          /\ \/ UNCHANGED <<time, out>>
             \/ time' = Time(cur) /\ out' = Append(out, cur)
      BY <1>5, DateFacts DEF JudgeShown, Control
    <2>2. Reach' = Reach /\ Hand' = {}
      BY <1>1, <2>1 DEF Reach, Hand
    <2>3. PassedOn(added \ Hand, uninteresting, Reach)'
      BY <1>1, <1>2, <1>3, <2>2 DEF Limits, PassedOn
    <2>4. ASSUME Exacting, NEW c \in Range(out')
          PROVE  time' <= Time(c)
      <3>1. CASE UNCHANGED <<time, out>>
        BY <1>3, <2>4, <3>1 DEF Limits
      <3>2. CASE time' = Time(cur) /\ out' = Append(out, cur)
        <4>1. Range(out') = Range(out) \cup {cur}
          BY <2>1, <3>2, DateFacts, AppendRange
        <4>2. c \in Range(out) => <<c, cur>> \in Newer({})
          BY <1>1, <2>1, <2>4 DEF DateInv, Dated, Gathered, Exacting, InHand
        <4>3. c \in Commits /\ Time(c) \in Int /\ Time(cur) \in Int
          BY <2>1, <2>4, <4>1, DateFacts
        <4>. QED
          BY <2>1, <2>4, <3>2, <4>1, <4>2, <4>3, NewerFacts
      <3>. QED
        BY <2>1, <3>1, <3>2
    <2>5. Limits'
      BY <1>1, <1>2, <1>3, <2>1, <2>2, <2>3, <2>4 DEF Limits
    <2>. QED
      BY <1>1, <1>4, <2>1, <2>5 DEF Exacted, Turned, Limited
  <1>6. CASE LimitEnd
    <2>1. pc = "limit" /\ pc' = "sort" /\ list = << >> /\ list' = out /\ out' = << >>
      BY <1>6 DEF LimitEnd
    <2>2. Harvest' = Range(out) /\ Range(list) = {}
      BY <1>4, <2>1 DEF Harvest, InHand
    <2>3. Range(out) \subseteq Line \cup uninteresting
      BY <1>3 DEF OnceInv, Placed, Taken, Limits
    <2>4. ASSUME Exacting, NEW y \in Range(out) \cap Hidden, y \notin uninteresting
          PROVE  FALSE
      <3>1. /\ added \in SUBSET Commits /\ uninteresting \in SUBSET Commits /\ Range(list) \in SUBSET Commits
            /\ Hides \subseteq uninteresting \cap (added \cup Range(list))
            /\ PassedOn(added, uninteresting, added \cup Range(list))
        BY <1>3, DateFacts DEF TypeOK, Reach, Limits, DateInv
      <3>2. PICK l \in uninteresting \cap Range(list) : TRUE
        BY <2>3, <2>4, <3>1, DateFacts, HiddenBehind
      <3>. QED
        BY <2>2, <3>2
    <2>5. Pure(Harvest)'
      BY <1>1, <1>2, <2>2, <2>3, <2>4 DEF Pure
    <2>. QED
      BY <1>1, <1>4, <2>1, <2>5 DEF Exacted, Turned, Limiting
  <1>. QED
    BY <1>5, <1>6

\* The sort, the reversal and the walk only move what is left.
LEMMA MovedExact ==
    ASSUME OnceInv, OnceInv', ExactInv, repo' = repo,
           \/ Sort \/ Tip \/ TipsEnd \/ TopoPop \/ Release \/ ReleaseEnd \/ TopoEnd
           \/ Collect \/ CollectEnd
    PROVE  ExactInv'
  <1>. SUFFICES ASSUME ~ trouble'
                PROVE  Exacted'
    BY DEF ExactInv
  <1>. USE DEF loop, marks, conf, report
  <1>1. /\ pc \in {"sort", "tips", "topo", "release", "collect"}
        /\ pc' \in {"tips", "topo", "release", "collect", "next"}
        /\ pc' = "collect" => pc \in {"sort", "topo", "collect"}
        /\ (pc' = "next" <=> walking')
        /\ UNCHANGED <<repo, input, hideCb, firstParent, sorting, limited, shown, uninteresting>>
        /\ ~ walking /\ ~ trouble
    BY DateFacts DEF Sort, Tip, TipsEnd, TopoPop, Release, ReleaseEnd, TopoEnd, Collect, CollectEnd,
       Control
  <1>2. Line' = Line /\ Hidden' = Hidden /\ Exacting' = Exacting
    BY <1>1, LineSame
  <1>3. Range(shown') = {} /\ Range(<< >>) = {}
    BY <1>1, EmptyRange DEF OnceInv, Plain
  <1>4. Pure(Harvest) /\ InHand = {} /\ InHand' = {}
    BY <1>1 DEF ExactInv, Exacted, Limited, InHand
  <1>5. /\ Range(list') \cup Range(out') \subseteq Range(list) \cup Range(out)
        /\ pc' = "collect" => Range(out') \cap uninteresting = {}
        /\ pc' = "next" /\ "reverse" \in sorting => Range(list') \cap uninteresting = {}
    <2>1. CASE Sort \/ Tip \/ TipsEnd \/ TopoPop \/ Release
      <3>1. UNCHANGED <<list, out>> /\ pc' # "next"
        BY <2>1 DEF Sort, Tip, TipsEnd, TopoPop, Release
      <3>2. pc' = "collect" => out' = << >>
        BY <2>1, DateFacts DEF Sort, Tip, TipsEnd, TopoPop, Release, Control
      <3>. QED
        BY <1>3, <3>1, <3>2
    <2>2. CASE ReleaseEnd
      <3>1. pc' = "topo" /\ list' = list /\ out' = Append(out, cur) /\ cur \in Range(list) /\ cur \in Commits
        BY <2>2, DateFacts DEF ReleaseEnd, OnceInv, Sorted
      <3>2. Range(out') = Range(out) \cup {cur}
        BY <3>1, DateFacts, AppendRange
      <3>. QED
        BY <3>1, <3>2
    <2>3. CASE TopoEnd
      BY <1>3, <2>3 DEF TopoEnd
    <2>4. CASE Collect
      <3>1. PICK k \in DOMAIN list :
                /\ list' = Without(list, k)
                /\ out' = IF list[k] \in uninteresting THEN out ELSE <<list[k]>> \o out
        BY <2>4 DEF Collect
      <3>2. pc = "collect" /\ pc' = "collect"
        BY <2>4 DEF Collect
      <3>3. list[k] \in Commits /\ Range(list) = {list[k]} \cup Range(list')
        BY <3>1, DateFacts, WithoutRange
      <3>4. Range(<<list[k]>> \o out) = {list[k]} \cup Range(out)
        BY <3>3, DateFacts, ConsRange
      <3>5. Range(out) \cap uninteresting = {}
        BY <1>1, <3>2 DEF ExactInv, Exacted
      <3>. QED
        BY <3>1, <3>2, <3>3, <3>4, <3>5
    <2>5. CASE CollectEnd
      <3>1. pc = "collect" /\ pc' = "next" /\ out' = << >>
            /\ list' = IF "reverse" \in sorting THEN out ELSE list
        BY <2>5 DEF CollectEnd
      <3>2. Range(out) \cap uninteresting = {}
        BY <1>1, <3>1 DEF ExactInv, Exacted
      <3>. QED
        BY <1>3, <3>1, <3>2
    <2>. QED
      BY <2>1, <2>2, <2>3, <2>4, <2>5
  <1>6. Pure(Harvest)'
    BY <1>1, <1>2, <1>4, <1>5 DEF Pure, Harvest
  <1>. QED
    BY <1>1, <1>3, <1>4, <1>5, <1>6 DEF Exacted, Turned, Limiting

LEMMA WalkExact ==
    ASSUME OnceInv, OnceInv', ExactInv, repo' = repo, NextPop \/ Emit \/ EmitHidden
    PROVE  ExactInv'
  <1>. SUFFICES ASSUME ~ trouble'
                PROVE  Exacted'
    BY DEF ExactInv
  <1>. USE DEF loop, marks, conf, report
  <1>1. /\ pc \in {"next", "emit"} /\ pc' \in {"add", "emit", "idle", "next"}
        /\ (pc' = "add" => ~ limited /\ i' = 1) /\ walking /\ walking' /\ ~ trouble
        /\ UNCHANGED <<repo, input, hideCb, firstParent, sorting, limited, uninteresting>>
    BY DateFacts DEF NextPop, Visit, Emit, EmitHidden, Return, Control
  <1>2. Line' = Line /\ Hidden' = Hidden /\ Exacting' = Exacting
    BY <1>1, LineSame
  <1>3. Exacted /\ Pure(Harvest)
    BY <1>1 DEF ExactInv, Exacted, Limited
  <1>4. /\ Range(list') \cup InHand' \subseteq Range(list) \cup InHand
        /\ Range(out') \subseteq Range(out)
        /\ shown' = shown \/ /\ Range(shown') = Range(shown) \cup {cur} /\ cur \in InHand
                             /\ cur \notin uninteresting \/ "reverse" \in sorting
    <2>1. CASE NextPop
      <3>1. PICK k \in DOMAIN list : list' = Without(list, k) /\ cur' = list[k]
        BY <2>1 DEF NextPop, Visit
      <3>2. list[k] \in Commits /\ Range(list) = {list[k]} \cup Range(list')
        BY <3>1, DateFacts, WithoutRange
      <3>3. InHand' \subseteq {cur'}
        BY DEF InHand
      <3>. QED
        BY <2>1, <3>1, <3>2, <3>3 DEF NextPop
    <2>2. CASE Emit
      <3>1. cur \in Commits /\ shown' = Append(shown, cur) /\ list' = list /\ out' = << >>
            /\ InHand = {cur} /\ InHand' = {} /\ (cur \notin uninteresting \/ "reverse" \in sorting)
        BY <2>2, DateFacts DEF Emit, Return, Control, InHand
      <3>. QED
        BY <3>1, DateFacts, AppendRange, EmptyRange
    <2>3. CASE EmitHidden
      BY <2>3 DEF EmitHidden, InHand
    <2>. QED
      BY <2>1, <2>2, <2>3
  <1>5. Pure(Harvest)'
    BY <1>1, <1>2, <1>3, <1>4 DEF Pure, Harvest
  <1>6. Range(shown') \subseteq Line' /\ (Exacting' => Range(shown') \cap Hidden' = {})
    <2>1. cur \in InHand /\ (cur \notin uninteresting \/ "reverse" \in sorting)
              => cur \in Harvest /\ cur \notin uninteresting
      BY <1>1, <1>3 DEF Exacted, Harvest
    <2>. QED
      BY <1>2, <1>3, <1>4, <2>1 DEF Exacted, Pure
  <1>. QED
    BY <1>1, <1>3, <1>4, <1>5, <1>6 DEF Exacted, Turned, Limiting

LEMMA NextExact == OnceInv /\ DateInv /\ ExactInv /\ [Next]_vars => ExactInv'
  <1>. SUFFICES ASSUME OnceInv, DateInv, ExactInv, [Next]_vars
                PROVE  ExactInv'
    OBVIOUS
  <1>1. OnceInv' /\ repo' = repo
    BY NextOnce, RepoSame
  <1>2. CASE UNCHANGED vars
    <2>1. UNCHANGED <<repo, input, hideCb, firstParent, sorting, trouble, uninteresting, seen, added,
                      parsed, limited, walking, list, out, shown, time, pc, cur, i>>
      BY <1>2 DEF vars, marks, conf, loop, report
    <2>2. Line' = Line /\ Hides' = Hides /\ Hidden' = Hidden /\ Exacting' = Exacting /\ Follows' = Follows
          /\ \A c : ParentsOf(c)' = ParentsOf(c) /\ Time(c)' = Time(c) /\ Parents(c)' = Parents(c)
      BY <2>1, LineSame
    <2>3. Limits' = Limits /\ Turned' = Turned /\ Pure(Harvest)' = Pure(Harvest) /\ InHand' = InHand
      BY <2>1, <2>2 DEF Limits, PassedOn, Reach, Hand, Turned, Pure, Harvest, InHand
    <2>. QED
      BY <2>1, <2>2, <2>3 DEF ExactInv, Exacted, Limiting, Limited
  <1>3. CASE AddFails
    BY <1>3 DEF AddFails, ExactInv
  <1>. QED
    BY <1>1, <1>2, <1>3, CallerExact, PrepareExact, LimitPopExact, AddHiddenExact, AddShownExact,
       AddEndExact, JudgeHiddenExact, LimitExact, MovedExact, WalkExact DEF Next, Step

LEMMA ExactAlways == Spec => []ExactInv
  <1>1. Init => DateInv /\ ExactInv
    BY EmptyRange DEF Init, DateInv, Hides, ExactInv, Exacted, Turned, Limiting, Limited
  <1>. QED
    BY <1>1, InitOnce, NextOnce, NextDates, NextExact, PTL DEF Spec

\* Exact holds of every history, callback and order, for any number of commits that the caller
\* hides: limit_list, whose list is not sorted at first and which stops before it has seen all
\* that is hidden, leaves no hidden ancestor in a walk from one commit where dates grow.
THEOREM OnlyWanted == Spec => []Exact
  <1>1. ExactInv => Exact
    BY DEF ExactInv, Exacted, Exact, Exacting
  <1>. QED
    BY <1>1, ExactAlways, PTL

\* Without a callback there are no detours: all parents are followed, or the first ones make
\* a chain of the line.
LEMMA NoCallbackNoDetour ==
    ASSUME TypeOK, OneTip, hideCb = {}
    PROVE  NoDetour
  <1>. DEFINE Up == [d \in Commits |-> ParentsOf(d)]
              Behind(c) == Closure(Up, {c})
              On(c) == Closure(Follows, {c})
  <1>1. \A c \in Commits : /\ ParentsOf(c) \subseteq Commits /\ Follows[c] \subseteq ParentsOf(c)
                           /\ Up[c] = ParentsOf(c)
    BY RepoTyped, FollowedFacts
  <1>2. SUFFICES ASSUME NEW c \in Line, NEW y \in Line, y \in Behind(c)
                 PROVE  y \in On(c)
    BY DEF NoDetour, Follows
  <1>. HIDE DEF Up
  <1>3. c \in Commits /\ y \in Commits
    BY LineClosed
  <1>4. CASE ~ firstParent
    <2>1. ASSUME NEW d \in Commits PROVE ParentsOf(d) \subseteq Follows[d]
      <3>1. \A p \in ParentsOf(d) : \E k \in 1 .. Len(Parents(d)) : Parents(d)[k] = p
        BY RepoTyped
      <3>. QED
        BY <1>4, <3>1, FollowedIs
    <2>2. On(c) \in SUBSET Commits /\ {c} \subseteq On(c) /\ \A d \in On(c) : Up[d] \subseteq On(c)
      BY <1>1, <1>3, <2>1, ClosureHolds
    <2>3. Behind(c) \subseteq On(c)
      BY <1>3, <2>2, ClosureLeast
    <2>. QED
      BY <1>2, <2>3
  <1>5. CASE firstParent
    <2>1. \A d \in Commits : \A p, q \in Follows[d] : p = q
      <3>. SUFFICES ASSUME NEW d \in Commits, NEW p \in Follows[d], NEW q \in Follows[d]
                    PROVE  p = q
        OBVIOUS
      <3>1. Follows[d] = Followed(d) /\ DOMAIN Parents(d) = 1 .. Len(Parents(d)) /\ Len(Parents(d)) \in Nat
        BY RepoTyped DEF Follows
      <3>. DEFINE visible == {k \in DOMAIN Parents(d) : Parents(d)[k] \notin hideCb}
      <3>2. PICK k \in visible : p = Parents(d)[k] /\ \A j \in visible : k <= j
        BY <1>5, <3>1 DEF Followed
      <3>3. PICK l \in visible : q = Parents(d)[l] /\ \A j \in visible : l <= j
        BY <1>5, <3>1 DEF Followed
      <3>4. k \in Nat /\ l \in Nat /\ k <= l /\ l <= k
        BY <3>1, <3>2, <3>3
      <3>. QED
        BY <3>2, <3>3, <3>4
    <2>2. ASSUME NEW d \in Commits
          PROVE  /\ On(d) \subseteq Commits /\ d \in On(d)
                 /\ \A e \in On(d) : Follows[e] \subseteq On(d)
      BY <1>1, ClosureHolds
    <2>3. ASSUME NEW e \in Commits, NEW f \in Follows[e], c \in On(e), c # e
          PROVE  c \in On(f)
      <3>. DEFINE S == {e} \cup On(f)
      <3>1. f \in Commits /\ S \in SUBSET Commits /\ {e} \subseteq S
        BY <1>1, <2>2
      <3>2. \A d \in S : Follows[d] \subseteq S
        BY <2>1, <2>2, <3>1
      <3>. HIDE DEF S
      <3>3. On(e) \subseteq S
        BY <3>1, <3>2, ClosureLeast
      <3>. QED
        BY <2>3, <3>3 DEF S
    <2>4. y \in On(c) \/ c \in On(y)
      <3>. DEFINE S == {d \in Commits : d \in On(c) \/ c \in On(d)}
      <3>1. ASSUME NEW d \in S PROVE Follows[d] \subseteq S
        <4>1. CASE d \in On(c)
          BY <1>1, <1>3, <2>2, <4>1
        <4>2. CASE d = c
          BY <1>1, <1>3, <2>2, <4>2
        <4>3. CASE c \in On(d) /\ d # c
          BY <1>1, <2>3, <4>3
        <4>. QED
          BY <3>1, <4>1, <4>2, <4>3
      <3>2. Line = Closure(Follows, Tips) /\ Tips \in SUBSET Commits
        BY InputTyped DEF Line, Follows
      <3>3. Tips \subseteq S
        <4>. SUFFICES ASSUME NEW t \in Tips PROVE c \in On(t)
          BY <3>2
        <4>1. On(t) \in SUBSET Commits /\ Tips \subseteq On(t) /\ \A e \in On(t) : Follows[e] \subseteq On(t)
          BY <2>2, <3>2 DEF OneTip
        <4>2. Closure(Follows, Tips) \subseteq On(t)
          BY <3>2, <4>1, ClosureLeast
        <4>. QED
          BY <3>2, <4>2
      <3>4. S \in SUBSET Commits
        OBVIOUS
      <3>. HIDE DEF S
      <3>5. Line \subseteq S
        BY <3>1, <3>2, <3>3, <3>4, ClosureLeast
      <3>. QED
        BY <3>5 DEF S
    <2>5. ASSUME NEW d \in Commits
          PROVE  \A e \in Behind(d) : e = d \/ Rank[d] < Rank[e]
      <3>. DEFINE S == {e \in Commits : e = d \/ Rank[d] < Rank[e]}
      <3>1. \A e \in Commits : Rank[e] \in Nat
        BY RevWalkAssumption
      <3>2. \A e \in Commits : \A p \in ParentsOf(e) : p \in Commits /\ Rank[e] < Rank[p]
        <4>. SUFFICES ASSUME NEW e \in Commits, NEW p \in ParentsOf(e)
                      PROVE  p \in Commits /\ Rank[e] < Rank[p]
          OBVIOUS
        <4>1. PICK k \in 1 .. Len(Parents(e)) : Parents(e)[k] = p
          BY RepoTyped
        <4>2. k \in DOMAIN repo.parents[e] /\ repo.parents[e][k] = p /\ repo \in Repositories
          BY <4>1, RepoTyped DEF Parents, TypeOK
        <4>. QED
          BY <1>1, <4>2, RevWalkAssumption
      <3>3. \A e \in S : Up[e] \subseteq S
        BY <1>1, <3>1, <3>2
      <3>4. S \in SUBSET Commits /\ {d} \subseteq S
        OBVIOUS
      <3>. HIDE DEF S
      <3>5. Behind(d) \subseteq S
        BY <3>3, <3>4, ClosureLeast
      <3>. QED
        BY <3>5 DEF S
    <2>6. On(y) \subseteq Behind(y)
      <3>1. Behind(y) \in SUBSET Commits /\ {y} \subseteq Behind(y) /\ \A e \in Behind(y) : Follows[e] \subseteq Behind(y)
        BY <1>1, <1>3, ClosureHolds
      <3>. QED
        BY <1>3, <3>1, ClosureLeast
    <2>7. c \in On(y) => y = c
      <3>1. Rank[c] \in Nat /\ Rank[y] \in Nat
        BY <1>3, RevWalkAssumption
      <3>2. c \in On(y) => c = y \/ Rank[y] < Rank[c]
        BY <1>3, <2>5, <2>6
      <3>3. y = c \/ Rank[c] < Rank[y]
        BY <1>2, <1>3, <2>5
      <3>. QED
        BY <3>1, <3>2, <3>3
    <2>. QED
      BY <1>3, <2>2, <2>4, <2>7
  <1>. QED
    BY <1>4, <1>5

\* So a caller that installs no callback and pushes one commit, where dates grow, never gets
\* a commit that it hid or an ancestor of one.
THEOREM HiddenWithoutCallback ==
    Spec => [](~ trouble /\ OneTip /\ GrowingDates /\ hideCb = {} => Range(shown) \cap Hidden = {})
  <1>1. TypeOK /\ ExactInv => (~ trouble /\ OneTip /\ GrowingDates /\ hideCb = {}
                                 => Range(shown) \cap Hidden = {})
    BY NoCallbackNoDetour DEF ExactInv, Exacted, Exacting
  <1>. QED
    BY <1>1, TypeCorrect, ExactAlways, PTL

=============================================================================
