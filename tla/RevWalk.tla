------------------------------ MODULE RevWalk -------------------------------
(***************************************************************************)
(* The revision walker of libgit2 (revwalk.c, commit_list.c): the caller   *)
(* pushes and hides commits, chooses an order and asks for commits one at  *)
(* a time.  The first git_revwalk_next prepares the walk: a walk that      *)
(* hides or sorts is limited first (limit_list visits the history by date  *)
(* and marks what is hidden), then sorted; any other walk is lazy and      *)
(* finds parents as it goes.                                               *)
(*                                                                         *)
(* One action is one turn of a loop.  A walker has one caller, which may   *)
(* push, hide or reset between two calls of git_revwalk_next, and may call *)
(* again after an error: the marks on commits outlive both.                *)
(*                                                                         *)
(* Abstractions: a commit is a model value with parents and a date; no     *)
(* commit names a parent twice; memory does not run out; the heap of       *)
(* pqueue.c pops any of the newest commits; the callback that hides        *)
(* commits is the set it hides.                                            *)
(***************************************************************************)
EXTENDS Naturals, Sequences, FiniteSets, Functions

CONSTANTS Commits,
          Rank,          \* numbers commits, the children before their parents
          Repositories,  \* the histories a walker may be opened on
          Sortings,      \* the modes the caller may choose
          HideCbs,       \* the callbacks the caller may install
          MaxInput,      \* how many commits the caller pushes or hides
          MaxTime,       \* INT64_MAX
          MaxChildren,   \* UINT16_MAX: as many children make in_degree wrap to 0
          None           \* no commit

\* heads: the commits that references name; missing: those that the history names
\* as parents but does not have.
Repository == [parents : [Commits -> Seq(Commits)],
               time    : [Commits -> 0 .. MaxTime],
               heads   : SUBSET Commits,
               missing : SUBSET Commits]

\* A commit contains the hashes of its parents, so there is no cycle, whatever the
\* dates say.
ASSUME RevWalkAssumption ==
    /\ MaxTime \in Nat /\ MaxChildren \in Nat
    /\ IsFiniteSet(Commits)
    /\ None \notin Commits
    /\ MaxInput \in Nat
    /\ Rank \in [Commits -> Nat]
    /\ \A r \in Repositories :
          /\ r \in Repository
          /\ \A c \in Commits : \A k \in DOMAIN r.parents[c] :
                /\ Rank[c] < Rank[r.parents[c][k]]
                /\ \A l \in DOMAIN r.parents[c] :
                      r.parents[c][k] = r.parents[c][l] => k = l
    /\ Sortings \subseteq SUBSET {"topo", "time", "reverse"}
    /\ HideCbs \subseteq SUBSET Commits

VARIABLES
    repo,           \* the history
    \* the marks on commits, each as the set of commits that have it
    parsed, seen, added, uninteresting,
    \* the walker
    input,          \* user_input, the newest first
    sorting, firstParent, hideCb, limited, didPush, walking,
    list,           \* commits, then the iterator that git_revwalk_next pops
    \* the call that runs
    pc, cur, i,
    out,            \* the list that a loop builds
    time, slop,     \* of limit_list
    queue,          \* of sort_in_topological_order
    \* history
    shown,          \* the commits returned since the walker was reset
    trouble         \* has a call failed, or come while walking, since then?

marks  == <<parsed, seen, added, uninteresting>>
conf   == <<sorting, firstParent, hideCb, limited, didPush>>
loop   == <<cur, i, out, time, slop, queue>>
report == <<shown, trouble>>
vars   == <<repo, marks, input, conf, walking, list, pc, loop, report>>

Calling == {"prepare", "limit", "add", "judge", "sort", "tips", "topo",
            "release", "collect", "next", "emit"}
SLOP == 5

Parents(c)   == repo.parents[c]
ParentsOf(c) == Range(repo.parents[c])
Time(c)      == repo.time[c]
Newest(l, k) == \A j \in DOMAIN l : Time(l[j]) <= Time(l[k])
Without(l, k) == SubSeq(l, 1, k - 1) \o SubSeq(l, k + 1, Len(l))

TypeOK ==
    /\ repo \in Repositories
    /\ parsed \in SUBSET Commits /\ seen \in SUBSET Commits
    /\ added \in SUBSET Commits /\ uninteresting \in SUBSET Commits
    /\ input \in Seq([commit : Commits, hide : BOOLEAN])
    /\ sorting \in SUBSET {"topo", "time", "reverse"}
    /\ firstParent \in BOOLEAN
    /\ hideCb \in SUBSET Commits
    /\ limited \in BOOLEAN /\ didPush \in BOOLEAN /\ walking \in BOOLEAN
    /\ list \in Seq(Commits) /\ out \in Seq(Commits) /\ queue \in Seq(Commits)
    /\ pc \in Calling \cup {"idle"}
    /\ cur \in Commits \cup {None}
    /\ i \in Nat
    /\ time \in 0 .. MaxTime
    /\ slop \in 0 .. SLOP
    /\ shown \in Seq(Commits)
    /\ trouble \in BOOLEAN

-----------------------------------------------------------------------------
(* What the caller does between two calls of git_revwalk_next.             *)

\* git_revwalk_push and git_revwalk_hide; the range, glob and reference forms
\* come down to several of them.  A commit that is already uninteresting is
\* ignored, a missing one is an error, and neither changes anything.
PushCommit(c, hide) ==
    /\ pc = "idle"
    /\ Len(input) < MaxInput
    /\ c \in repo.heads \ (uninteresting \cup repo.missing)
    /\ input' = <<[commit |-> c, hide |-> hide]>> \o input
    /\ uninteresting' = IF hide THEN uninteresting \cup {c} ELSE uninteresting
    /\ limited' = (limited \/ hide)
    /\ didPush' = (didPush \/ ~ hide)
    /\ trouble' = (trouble \/ walking)
    /\ UNCHANGED <<repo, parsed, seen, added, sorting, firstParent, hideCb,
                   walking, list, pc, loop, shown>>

SimplifyFirstParent ==
    /\ pc = "idle"
    /\ firstParent' = TRUE
    /\ trouble' = (trouble \/ walking)
    /\ UNCHANGED <<repo, marks, input, sorting, hideCb, limited, didPush,
                   walking, list, pc, loop, shown>>

\* git_revwalk_reset but for sorting and limited.  The callback stays.
Clear ==
    /\ seen' = {}
    /\ added' = {}
    /\ uninteresting' = {}
    /\ list' = << >>
    /\ input' = << >>
    /\ firstParent' = FALSE
    /\ walking' = FALSE
    /\ didPush' = FALSE
    /\ shown' = << >>
    /\ trouble' = FALSE

ClearIfWalking ==
    \/ walking /\ Clear
    \/ ~ walking /\ UNCHANGED <<seen, added, uninteresting, list, input,
                                firstParent, walking, didPush, shown, trouble>>

Reset ==
    /\ pc = "idle"
    /\ Clear
    /\ sorting' = {}
    /\ limited' = FALSE
    /\ UNCHANGED <<repo, parsed, hideCb, pc, loop>>

SetSorting(s) ==
    /\ pc = "idle"
    /\ ClearIfWalking
    /\ sorting' = s
    /\ limited' = (s # {} \/ (limited /\ ~ walking))
    /\ UNCHANGED <<repo, parsed, hideCb, pc, loop>>

AddHideCb(h) ==
    /\ pc = "idle"
    /\ ClearIfWalking
    /\ hideCb' = h
    /\ sorting' = IF walking THEN {} ELSE sorting
    /\ limited' = (h # {} \/ (limited /\ ~ walking))
    /\ UNCHANGED <<repo, parsed, pc, loop>>

Init ==
    /\ repo \in Repositories
    /\ parsed = {} /\ seen = {} /\ added = {} /\ uninteresting = {}
    /\ input = << >>
    /\ sorting = {} /\ firstParent = FALSE /\ hideCb = {}
    /\ limited = FALSE /\ didPush = FALSE /\ walking = FALSE
    /\ list = << >>
    /\ pc = "idle"
    /\ cur = None /\ i = 0 /\ out = << >> /\ time = 0 /\ slop = 0 /\ queue = << >>
    /\ shown = << >> /\ trouble = FALSE

-----------------------------------------------------------------------------
(* git_revwalk_next.                                                       *)

\* The locals of a call are gone when it returns.
Return ==
    /\ pc' = "idle"
    /\ cur' = None /\ i' = 0 /\ out' = << >> /\ time' = 0 /\ slop' = 0 /\ queue' = << >>

\* With nothing pushed the call returns GIT_ITEROVER and changes nothing.
CallNext ==
    /\ pc = "idle"
    /\ walking \/ didPush
    /\ pc' = IF walking THEN "next" ELSE "prepare"
    /\ i' = 1
    /\ UNCHANGED <<repo, marks, input, conf, walking, list, cur, out, time, slop,
                   queue, report>>

\* mark_parents_uninteresting: what is uninteresting once the parents of c are,
\* and theirs, as far as commits are parsed and not uninteresting already.
Marked(c, hidden, known) ==
    LET closed == {S \in SUBSET (Commits \ hidden) :
                      \A e \in {c} \cup (S \cap known) : ParentsOf(e) \subseteq S \cup hidden}
    IN  hidden \cup {d \in Commits : \A S \in closed : d \in S}

\* One turn of the loop over user_input.  What was pushed exists, so it parses.
Prepare ==
    /\ pc = "prepare"
    /\ i <= Len(input)
    /\ LET c == input[i].commit
       IN  /\ parsed' = parsed \cup {c}
           /\ uninteresting' = IF c \in uninteresting
                               THEN Marked(c, uninteresting, parsed')
                               ELSE uninteresting
           /\ seen' = seen \cup {c}
           /\ list' = IF c \in seen THEN list ELSE <<c>> \o list
    /\ i' = i + 1
    /\ UNCHANGED <<repo, added, input, conf, walking, pc, cur, out, time, slop,
                   queue, report>>

Prepared ==
    /\ pc = "prepare"
    /\ i > Len(input)
    /\ pc' = IF limited THEN "limit" ELSE "sort"
    /\ time' = MaxTime
    /\ slop' = SLOP
    /\ UNCHANGED <<repo, marks, input, conf, walking, list, cur, i, out, queue,
                   report>>

\* A commit leaves the list and, the first time, adds its parents to it.
Visit(c, then) ==
    /\ cur' = c
    /\ added' = added \cup {c}
    /\ i' = 1
    /\ pc' = IF c \in added THEN then ELSE "add"

LimitPop ==
    /\ pc = "limit"
    /\ list # << >>
    /\ Visit(Head(list), "judge")
    /\ list' = Tail(list)
    /\ UNCHANGED <<repo, parsed, seen, uninteresting, input, conf, walking, out,
                   time, slop, queue, report>>

\* Insert at the head, as git_commit_list_insert does.
Insert_Front(c) == list' = <<c>> \o list

\* git_commit_list_insert_by_date: behind every commit that is not older, up to
\* the first one that is.
Insert(c) ==
    \E k \in 1 .. Len(list) + 1 :
        /\ \A j \in 1 .. k - 1 : Time(list[j]) >= Time(c)
        /\ k <= Len(list) => Time(list[k]) < Time(c)
        /\ list' = SubSeq(list, 1, k - 1) \o <<c>> \o SubSeq(list, k, Len(list))

\* add_parents_to_list, one parent in each step.
AddHidden ==
    /\ pc = "add"
    /\ i <= Len(Parents(cur))
    /\ cur \in uninteresting
    /\ LET p == Parents(cur)[i]
       IN  /\ p \notin repo.missing
           /\ parsed' = parsed \cup {p}
           /\ uninteresting' = Marked(p, uninteresting \cup {p}, parsed')
           /\ seen' = seen \cup {p}
           /\ Insert(p)
    /\ i' = i + 1
    /\ UNCHANGED <<repo, added, input, conf, walking, pc, cur, out, time, slop,
                   queue, report>>

\* AddShown without asking whether the parent was seen.
AddShown_Again ==
    /\ pc = "add"
    /\ i <= Len(Parents(cur))
    /\ cur \notin uninteresting
    /\ LET p == Parents(cur)[i]
       IN  /\ p \notin repo.missing
           /\ parsed' = parsed \cup {p}
           /\ \/ p \in hideCb /\ UNCHANGED <<seen, list>>
              \/ p \notin hideCb /\ seen' = seen \cup {p} /\ Insert(p)
           /\ i' = IF firstParent /\ p \notin hideCb THEN Len(Parents(cur)) + 1
                                                     ELSE i + 1
    /\ UNCHANGED <<repo, added, uninteresting, input, conf, walking, pc, cur, out,
                   time, slop, queue, report>>

AddShown ==
    /\ pc = "add"
    /\ i <= Len(Parents(cur))
    /\ cur \notin uninteresting
    /\ LET p == Parents(cur)[i]
       IN  /\ p \notin repo.missing
           /\ parsed' = parsed \cup {p}
           /\ \/ p \in hideCb \cup seen /\ UNCHANGED <<seen, list>>
              \/ p \notin hideCb \cup seen /\ seen' = seen \cup {p} /\ Insert(p)
           /\ i' = IF firstParent /\ p \notin hideCb THEN Len(Parents(cur)) + 1
                                                     ELSE i + 1
    /\ UNCHANGED <<repo, added, uninteresting, input, conf, walking, pc, cur, out,
                   time, slop, queue, report>>

\* The list of limit_list is lost, the iterator of a walk is not; the marks stay.
AddFails ==
    /\ pc = "add"
    /\ i <= Len(Parents(cur))
    /\ LET p == Parents(cur)[i]
       IN  /\ p \in repo.missing
           /\ uninteresting' = IF cur \in uninteresting THEN uninteresting \cup {p}
                                                        ELSE uninteresting
    /\ list' = IF walking THEN list ELSE << >>
    /\ trouble' = TRUE
    /\ Return
    /\ UNCHANGED <<repo, parsed, seen, added, input, conf, walking, shown>>

AddEnd ==
    /\ pc = "add"
    /\ i > Len(Parents(cur))
    /\ pc' = IF limited THEN "judge" ELSE "emit"
    /\ UNCHANGED <<repo, marks, input, conf, walking, list, loop, report>>

\* Mutants: the head alone decides, the dates do not count, the slop is added up.
StillInteresting_Head(hidden) ==
    IF list # << >> /\ (time <= Time(Head(list)) \/ Head(list) \notin hidden)
    THEN SLOP ELSE 0

StillInteresting_NoDates(hidden) ==
    IF list = << >> THEN 0
    ELSE IF \E k \in DOMAIN list : list[k] \notin hidden THEN SLOP ELSE slop - 1

StillInteresting_Grows(hidden) ==
    IF list = << >> THEN 0
    ELSE IF \/ time <= Time(Head(list))
            \/ \E k \in DOMAIN list : list[k] \notin hidden \/ Time(list[k]) > time
         THEN slop + SLOP ELSE slop - 1

\* still_interesting: the slop that is left when hidden is uninteresting.
StillInteresting(hidden) ==
    IF list = << >> THEN 0
    ELSE IF \/ time <= Time(Head(list))
            \/ \E k \in DOMAIN list : list[k] \notin hidden \/ Time(list[k]) > time
         THEN SLOP ELSE slop - 1

JudgeHidden ==
    /\ pc = "judge"
    /\ cur \in uninteresting
    /\ uninteresting' = Marked(cur, uninteresting, parsed)
    /\ slop' = StillInteresting(uninteresting')
    /\ \/ slop' # 0 /\ pc' = "limit" /\ UNCHANGED <<list, out>>
       \/ slop' = 0 /\ pc' = "sort" /\ list' = out /\ out' = << >>
    /\ UNCHANGED <<repo, parsed, seen, added, input, conf, walking, cur, i, time,
                   queue, report>>

JudgeShown ==
    /\ pc = "judge"
    /\ cur \notin uninteresting
    /\ pc' = "limit"
    /\ \/ cur \in hideCb /\ UNCHANGED <<time, out>>
       \/ cur \notin hideCb /\ time' = Time(cur) /\ out' = Append(out, cur)
    /\ UNCHANGED <<repo, marks, input, conf, walking, list, cur, i, slop, queue,
                   report>>

LimitEnd ==
    /\ pc = "limit"
    /\ list = << >>
    /\ pc' = "sort"
    /\ list' = out
    /\ out' = << >>
    /\ UNCHANGED <<repo, marks, input, conf, walking, cur, i, time, slop, queue,
                   report>>

Sort ==
    /\ pc = "sort"
    /\ pc' = IF "topo" \in sorting THEN "tips" ELSE "collect"
    /\ i' = 1
    /\ UNCHANGED <<repo, marks, input, conf, walking, list, cur, out, time, slop,
                   queue, report>>

\* sort_in_topological_order.  in_degree is one more than the number of children
\* that are in the list and not in out, and 0 for a commit that is not in the list
\* (or has so many children that it wrapped, and stays 0); the head of queue is the
\* end of the vector.
ChildrenIn(p, s) == {c \in Range(s) : p \in ParentsOf(c)}

Counted(p) == p \in Range(list) /\ Cardinality(ChildrenIn(p, list)) < MaxChildren

Tip ==
    /\ pc = "tips"
    /\ i <= Len(list)
    /\ queue' = IF ChildrenIn(list[i], list) = {} THEN Append(queue, list[i]) ELSE queue
    /\ i' = i + 1
    /\ UNCHANGED <<repo, marks, input, conf, walking, list, pc, cur, out, time, slop,
                   report>>

TipsEnd ==
    /\ pc = "tips"
    /\ i > Len(list)
    /\ pc' = "topo"
    /\ UNCHANGED <<repo, marks, input, conf, walking, list, loop, report>>

TopoPop ==
    /\ pc = "topo"
    /\ \E k \in DOMAIN queue :
          /\ IF "time" \in sorting THEN Newest(queue, k) ELSE k = 1
          /\ cur' = queue[k]
          /\ queue' = Without(queue, k)
    /\ i' = 1
    /\ pc' = "release"
    /\ UNCHANGED <<repo, marks, input, conf, walking, list, out, time, slop, report>>

\* Ready without counting the children.
Ready_AtOnce(p) == Counted(p) /\ p \notin Range(out)

Ready(p) == Counted(p) /\ ChildrenIn(p, list) \subseteq Range(out) \cup {cur}

Release ==
    /\ pc = "release"
    /\ i <= Len(Parents(cur))
    /\ LET p == Parents(cur)[i]
       IN  queue' = IF Ready(p) THEN <<p>> \o queue ELSE queue
    /\ i' = i + 1
    /\ UNCHANGED <<repo, marks, input, conf, walking, list, pc, cur, out, time, slop,
                   report>>

ReleaseEnd ==
    /\ pc = "release"
    /\ i > Len(Parents(cur))
    /\ out' = Append(out, cur)
    /\ pc' = "topo"
    /\ UNCHANGED <<repo, marks, input, conf, walking, list, cur, i, time, slop,
                   queue, report>>

TopoEnd ==
    /\ pc = "topo"
    /\ queue = << >>
    /\ list' = out
    /\ out' = << >>
    /\ pc' = "collect"
    /\ UNCHANGED <<repo, marks, input, conf, walking, cur, i, time, slop, queue,
                   report>>

\* What get_next pops: a heap by date, or the head of a list.
Pops(k) == IF sorting = {"time"} \/ (sorting = {"time", "reverse"} /\ ~ walking)
           THEN Newest(list, k) ELSE k = 1

\* The end of prepare_walk: a reversed walk is run to its end first.
Collect ==
    /\ pc = "collect"
    /\ "reverse" \in sorting
    /\ \E k \in DOMAIN list :
          /\ Pops(k)
          /\ list' = Without(list, k)
          /\ out' = IF list[k] \in uninteresting THEN out ELSE <<list[k]>> \o out
    /\ UNCHANGED <<repo, marks, input, conf, walking, pc, cur, i, time, slop, queue,
                   report>>

CollectEnd ==
    /\ pc = "collect"
    /\ \/ "reverse" \in sorting /\ list = << >> /\ list' = out
       \/ "reverse" \notin sorting /\ UNCHANGED list
    /\ out' = << >>
    /\ walking' = TRUE
    /\ pc' = "next"
    /\ UNCHANGED <<repo, marks, input, conf, cur, i, time, slop, queue, report>>

\* get_revision and the pop of the heap: a walk that was not limited adds the
\* parents now.
NextPop ==
    /\ pc = "next"
    /\ \E k \in DOMAIN list :
          /\ Pops(k)
          /\ list' = Without(list, k)
          /\ \/ ~ limited /\ Visit(list[k], "emit")
             \/ limited /\ cur' = list[k] /\ pc' = "emit" /\ UNCHANGED <<added, i>>
    /\ UNCHANGED <<repo, parsed, seen, uninteresting, input, conf, walking, out,
                   time, slop, queue, report>>

\* Only the reversed list is not asked again whether the commit is interesting.
Emit ==
    /\ pc = "emit"
    /\ cur \notin uninteresting \/ "reverse" \in sorting
    /\ shown' = Append(shown, cur)
    /\ Return
    /\ UNCHANGED <<repo, marks, input, conf, walking, list, trouble>>

\* EmitHidden that looks at the same commit again.
EmitHidden_Again ==
    /\ pc = "emit"
    /\ cur \in uninteresting /\ "reverse" \notin sorting
    /\ UNCHANGED vars

EmitHidden ==
    /\ pc = "emit"
    /\ cur \in uninteresting /\ "reverse" \notin sorting
    /\ pc' = "next"
    /\ UNCHANGED <<repo, marks, input, conf, walking, list, loop, report>>

\* The walk is over: git_revwalk_next resets the walker.
Over == pc = "next" /\ list = << >>

EndWalk ==
    /\ Over
    /\ Clear
    /\ sorting' = {}
    /\ limited' = FALSE
    /\ Return
    /\ UNCHANGED <<repo, parsed, hideCb>>

Step == \/ Prepare \/ Prepared \/ LimitPop \/ AddHidden \/ AddShown \/ AddFails
        \/ AddEnd \/ JudgeHidden \/ JudgeShown \/ LimitEnd \/ Sort \/ Tip
        \/ TipsEnd \/ TopoPop \/ Release \/ ReleaseEnd \/ TopoEnd \/ Collect
        \/ CollectEnd \/ NextPop \/ Emit \/ EmitHidden \/ EndWalk

Next == \/ \E c \in Commits, hide \in BOOLEAN : PushCommit(c, hide)
        \/ SimplifyFirstParent
        \/ \E s \in Sortings : SetSorting(s)
        \/ \E h \in HideCbs : AddHideCb(h)
        \/ Reset
        \/ CallNext
        \/ Step

\* A call that has begun runs on; what the caller does is up to it.
Spec == Init /\ [][Next]_vars /\ WF_vars(Step)

-----------------------------------------------------------------------------
(* What a walk promises.                                                   *)

Tips  == {input[k].commit : k \in {k \in DOMAIN input : ~ input[k].hide}}
Hides == {input[k].commit : k \in {k \in DOMAIN input : input[k].hide}}

\* T and all that it leads to: the least set with T that is closed under next.
Closure(next, T) ==
    LET closed == {S \in SUBSET Commits : T \subseteq S /\ \A d \in S : next[d] \subseteq S}
    IN  {c \in Commits : \A S \in closed : c \in S}

\* The parents a commit leads to: those the callback does not hide, and the
\* first of them alone when the history is simplified.
Followed(c) ==
    LET visible == {k \in DOMAIN Parents(c) : Parents(c)[k] \notin hideCb}
    IN  {Parents(c)[k] : k \in {k \in visible : firstParent => \A j \in visible : k <= j}}

\* What a walk hides: the hidden commits and their ancestors.
Hidden == Closure([c \in Commits |-> ParentsOf(c)], Hides)

\* What can be reached from the commits that were pushed.
Line == Closure([c \in Commits |-> Followed(c)], Tips)

GrowingDates == \A c \in Commits : \A p \in ParentsOf(c) : Time(p) < Time(c)
OneTip == \A c, d \in Tips : c = d

\* No commit has so many children that in_degree wraps.
FewChildren == \A p \in Commits :
                  Cardinality({c \in Commits : p \in ParentsOf(c)}) < MaxChildren

Wanted == Line \ (Hidden \cup hideCb)

\* A walk that ends, no call having failed or come in its middle, has returned
\* every commit that can be reached and is not hidden, whatever the dates are
\* and whichever order was asked for (limit_list stops early, marks come late), as
\* long as in_degree can count the children.
Complete == Over /\ ~ trouble /\ FewChildren => Wanted \subseteq Range(shown)

\* A commit of the line that another of them is behind is also followed from it, not
\* only reached through what the callback hides or the simplification leaves out.
NoDetour == \A c \in Line :
    Line \cap Closure([d \in Commits |-> ParentsOf(d)], {c})
        \subseteq Closure([d \in Commits |-> Followed(d)], {c})

\* What git_revwalk_next has returned can be reached.  With one pushed commit and dates
\* that grow, SLOP more commits suffice for limit_list: nothing is returned that a hidden
\* commit leads to, however many are hidden and however late one of them comes up,
\* as long as the callback makes no detour.
Exact == pc = "idle" /\ ~ trouble =>
    /\ Range(shown) \subseteq Line
    /\ OneTip /\ GrowingDates => Range(shown) \cap Hidden = {} \/ ~ NoDetour

\* Whatever the caller does in between, no commit is returned twice in a walk.
ShownOnce == \A j, k \in DOMAIN shown : shown[j] = shown[k] => j = k

\* GIT_SORT_TOPOLOGICAL: no parent before one of its children, or after it when
\* the order is reversed.
ChildrenFirst ==
    "topo" \in sorting => \A j, k \in DOMAIN shown :
        shown[j] \in ParentsOf(shown[k]) => IF "reverse" \in sorting THEN j < k ELSE k < j

\* Unsorted walks from one commit are in reverse chronological order when dates
\* grow, the lazy ones too; walks sorted by time are whatever the dates.
Chronological ==
    ~ trouble /\ (sorting = {"time"} \/ (sorting = {} /\ OneTip /\ GrowingDates))
        => \A j, k \in DOMAIN shown : j < k => Time(shown[j]) >= Time(shown[k])

\* git_revwalk_next returns: neither the marks nor the slop make it run for ever.
NextReturns == pc # "idle" ~> pc = "idle"

\* revwalk.h says of git_revwalk_hide that "The resolved commit and all its parents
\* will be hidden from the output"; here for dates that grow.
HiddenStaysHidden == Over /\ ~ trouble /\ GrowingDates
                        => Range(shown) \cap Hidden = {}

=============================================================================
