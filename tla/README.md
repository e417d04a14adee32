# A TLA+ model of hxLibGit2

hxLibGit2 is a Haxe binding (`src/libgit2/*.hx`) of libgit2 0.28.0, which it
compiles from source (`libgit2/src`, about 105 000 lines of C). `Build.xml` does
not define `GIT_THREADS`: inside a process nothing is concurrent, and the
concurrency that remains is that of several processes on one repository, which
share nothing but its files. That is where this project starts: what keeps
references and other repository files correct when processes interleave, fail
and die. The object database, whose packs come and go under a process that has listed
them, is of the same kind. The commit graph, which every log, merge and fetch walks, is
the other part: one caller, but marks that arrive late and dates that may lie. In this
file paths are relative to `libgit2/src` unless they start otherwise.

## Inventory

| component | state | operations | hard behaviour | what makes it correct | status |
|---|---|---|---|---|---|
| reference database, `refdb_fs.c` | loose files, `packed-refs`, reflogs, one lock file each; per process the cache of `packed-refs` with its stamp | lookup, exists, write, delete, rename, compress, iterate, reflog read/write/rename/delete, lock/unlock | two files hold one value; the cache is stale; checks and updates are several file accesses apart; deaths leave locks | one value per reference that changes in one step under its lock; compare-and-swap; lookups tell the truth; the log follows the value | modelled, but for the iterator and a few calls |
| lock files, `filebuf.c` | the file, `<file>.lock`, the struct `git_filebuf` | open, write, printf, reserve, hash, commit, cleanup | any system call fails; clean-up by name; deaths | exclusive; all or nothing; errors are not forgotten | modelled |
| stamped cache, `sortedcache.c` | entries, stamp | lockandload, updated, upsert, remove | stale stamp | the cache is the file when the stamp says so | inside RefdbFs |
| references API, transactions, `refs.c`, `transaction.c` | locked nodes with new values | lock_ref, set_target, remove, commit, free | commit stops half-way | every node is applied or unlocked, once | not modelled |
| commit graph, `revwalk.c`, `commit_list.c`, `graph.c`, `merge.c` (merge-base) | flags, dates and degrees of commit nodes, work lists | push, hide, next; merge_base; ahead_behind | marks arrive late; dates lie; the search stops early; errors leave marks | output is all that is reachable and not hidden, once, in order; merge bases are the best common ancestors; the counts are right | modelled |
| object database, `odb*.c`, `pack.c`, `mwindow.c`, `cache.c` | loose objects, packs, alternates, object cache | read, write, exists, refresh, freshen | another process repacks and prunes between two tries | an object that is stored is missed only if it moves under the lookup; a write that is skipped has left the object young | modelled, but for prefixes, alternates and formats |
| index, `index.c`, `tree-cache.c` | entries, conflicts, stamp | add, remove, read, write, write_tree | racy entries, stale stamp | no lost entry, conflicts exclude stage 0 | not modelled |
| working tree, `checkout.c`, `diff*.c`, `iterator.c`, `stash.c`, `rebase.c`, ... | trees, work tree | checkout, diff, status, stash, rebase | large sequential algorithms | | not modelled |
| configuration, `config*.c` | files, levels, entries | get, set, lock, unlock | include cycles, lock files | | not modelled (its lock files are) |
| remotes and transports | refspecs, connections | fetch, push, clone | the network | | not modelled |
| repository, worktrees, submodules | paths, states | open, init, add | I/O, text | | not modelled |
| containers, text, start-up | vectors, pools, buffers, paths | | sequential | | not modelled |
| Haxe wrapper, `../../src/libgit2/*.hx` | native pointers | lookup, free, createCommit, push, iterators | error exits, aliasing, double free | each pointer freed once, after its last use | not modelled |
| vendored dependencies | | | third-party | | not modelled |

How they interact: the Haxe classes call the C API; `refs.c`, `branch.c`,
`transaction.c` and `remote.c` call `refdb.c`, which calls the backend
`refdb_fs.c` through function pointers; the backend uses `sortedcache.c` for
`packed-refs` and `filebuf.c` for every file it replaces, as do the index, the
configuration, FETCH_HEAD, MERGE_HEAD, the loose objects and the pack indexer.
The processes interact through those files alone.

## Modules

| module | what it is |
|---|---|
| `RefStore` | the abstract reference store: a value and a lock per name |
| `RefdbFs` | `refdb_fs.c` over files, one action per access to a shared file |
| `RefdbFsReader` | `RefdbFs` with a history variable for what a lookup could have seen |
| `RefdbFsProof`, `RefdbFsRefines` | types and locks of `RefdbFs`, and that it implements `RefStore`; the second extends the first |
| `RefdbFsUpdates`, `RefdbFsReaderProof` | updates and the log; lookups. Both extend `RefdbFsRefines` |
| `Filebuf` | `filebuf.c` over inodes, names and descriptors |
| `FilebufProof` | the proofs about `Filebuf` |
| `RevWalk` | `revwalk.c` over a commit graph, one action per turn of a loop |
| `RevWalkProof` | the proofs about `RevWalk` |
| `MergeBase` | merge bases (`merge.c`) and ahead/behind (`graph.c`), one action per turn of a loop |
| `MergeBaseProof` | the proofs about `MergeBase` |
| `ObjectStore` | `odb.c` with its two backends over a directory that others change |
| `ObjectStoreProof` | the proofs about `ObjectStore` |
| `MCRefdbFs`, `MCRefdbFsReader`, `MCFilebuf`, `MCRevWalk`, `MCMergeBase`, `MCObjectStore` | the instances TLC checks |

### RefdbFs

State. `loose[r]`, `packed[r]` and `reflog[r]` are the contents of the files of
reference `r` (the reflog is its newest entry), `packedFile` tells whether
`packed-refs` exists, `refLock[r]` and `packLock` who created the lock files.
Per process: `cache`, `wasLoose` and `fresh` are `backend->refcache`, the flag
`PACKREF_WAS_LOOSE` and whether the stamp still matches; `pc` and `op` are the
call it executes, `todo` and `cur` the loops over references, `ret` what it
returns.

Actions. A call is a chain of labels; between two labels any other process may
run. Each action accesses the shared files once:

| code | labels |
|---|---|
| `loose_lookup`, `packed_lookup` | `get`/`getPacked`, and the same pair wherever a call looks a value up |
| `reference_path_available` | `avail`, `exists`, `existsPacked` |
| `loose_lock`, `cmp_old_ref` twice, `reflog_append`, `loose_commit` | `lock`, `old`, `new`, `log`, `commit` |
| `refdb_fs_backend__delete` and `_tail` | `lock`, `dropLog`, `old`, `packedDelete`, `packed_write`, `unlink`, `unlock` |
| `refdb_fs_backend__rename` | `avail`, `find`, all of delete, `lockTo`, `moveLog`, `commit` |
| `compress`, `packed_loadloose` | `reload`, `load`, one file at a time |
| `packed_write`, `packed_remove_loose` | `packLock`, `packWrite`, then `prune`, `pruneCheck`, `pruneUnlock` per reference |

`packed_reload` is the operator `View`/`Reload`: keep the cache when the stamp
matches, empty it when there is no file, else read it.

Abstractions: an id or a symbolic target is a model value; names do not lie under
one another, so directories never collide; the stamp identifies the contents (no
two versions of equal size, inode and second); HEAD's own reflog is left out;
`core.logAllRefUpdates` is true, `LogRefs` being the names it covers; a failing
write of a lock file is in `Filebuf`, not here, and neither is a failing
`packed_find_peel`.

### Filebuf

State. `target` and `lock` are the inodes that `path` and `path.lock` name,
`data` the contents of each inode as a set of blocks, and per process the fields
of `git_filebuf` (`file`, `append`, `created`, `renamed`, `failed`, `buf`), where
it is, what the caller asked for (`want`) and what was returned. Every system
call of `git_filebuf_commit` is an action that succeeds or, if it is in
`Faults`, fails. `Copy` and `CopyFails` are the append path of `lock_file`, which
reads a file nobody changes in place, so one step is enough. `CopyFails` leaves
the lock file behind, as the code does: `created_lock` is not yet set.

`Filebuf` says what `RefdbFs` takes for granted when it makes `TakeLock` and
`Commit` one step each: `LockSpec` is `RefStore` with a single name.

### RevWalk

State. `repo` is the history (parents, dates, the commits that references name, the
objects that are missing). `parsed`, `seen`, `added` and `uninteresting` are the bits
of `git_commit_list_node`, each as the set of commits that have it. `input`,
`sorting`, `firstParent`, `hideCb`, `limited`, `didPush` and `walking` are the fields
of `git_revwalk`; `list` is the work list and then whichever iterator
`git_revwalk_next` pops. `out`, `time`, `slop` and `queue` are the locals of the loop
that runs. Two variables are history: `shown`, what has been returned since the last
reset, and `trouble`, whether a call failed or a push, hide or simplification came in
the middle of the walk.

| code | actions |
|---|---|
| `git_revwalk_push`, `_hide` and the range, glob and ref forms | `PushCommit` |
| `git_revwalk_sorting`, `_add_hide_cb`, `_reset`, `_simplify_first_parent` | `SetSorting`, `AddHideCb`, `Reset`, `SimplifyFirstParent` |
| `prepare_walk` | `Prepare` per pushed commit, `Prepared`, `Sort`, `Collect`, `CollectEnd` |
| `limit_list` | `LimitPop`, `JudgeHidden`, `JudgeShown`, `LimitEnd` |
| `add_parents_to_list` | `AddHidden`, `AddShown`, `AddFails` per parent, `AddEnd` |
| `still_interesting`, `mark_parents_uninteresting` | operators `StillInteresting`, `Marked` |
| `sort_in_topological_order` | `Tip`, `TipsEnd`, `TopoPop`, `Release`, `ReleaseEnd`, `TopoEnd` |
| `git_revwalk_next`, `get_revision`, `revwalk_next_*` | `CallNext`, `NextPop`, `Emit`, `EmitHidden`, `EndWalk` |

Abstractions: `Marked` is the set the stack of `mark_parents_uninteresting` reaches;
a heap pops any of the newest commits; the callback is the set it hides; no commit
names a parent twice; allocation does not fail. The in-degrees are what they count,
the children in the list that are not sorted yet, but for their width: with
`MaxChildren` (65535) children the counter wraps to 0 and `Counted` fails.
`insert_by_date` of `smart_protocol.c` is left out.

### MergeBase

State. `repo` is the history and `query` what was asked: the bases of two or more
commits, whether one descends from another, an octopus base, or ahead and behind.
`flags` are the mark bits of each node and `queue` the heap, as the number of times
each commit is in it. `left` and `k` are the loop of `git_merge_base_octopus`; `one`,
`twos`, `cands`, `tried`, `redundant` the painting and the loop of `remove_redundant`;
`pending` the list of `clear_commit_marks`; `roots` that of `mark_parents`. A query
opens a walker of its own and frees it, so a behaviour is one query.

| code | actions |
|---|---|
| `git_merge__bases_many` | `AskRepeated`, `AskBases`, `PaintedBases` |
| `paint_down_to_common` | `PaintPop`, with `Common`, `Passed`, `Lacking`, `PassOn` |
| `clear_commit_marks`, `_many`, `_1` | `ClearMarks`, `Cleared` |
| `remove_redundant` | `Candidate`, `PaintedCandidate`, `CandidatesEnd` |
| `git_merge_base(s)(_many)`, `_octopus`, `git_graph_descendant_of` | `Answer`, `AskSelf` |
| `mark_parents`, `ahead_behind` | `AskGraph`, `MarkPop`, `Marked`, `CountPop`, `CountEnd` |

Abstractions: the heap pops any of the newest commits, candidates are compared in any
order; allocation does not fail, and no commit names a parent twice.

### ObjectStore

State. `loose`, `idx` and `pack` are the directory. Of the process: `listed`, `mapped`
and `opened` are the vector of packs and what of each is mapped and open, `age` how
long ago `last_freshen` was, `cache` the object cache; `pc`, `kind`, `obj`, `todo`,
`entry`, `again` the call. The other processes are the environment: between any two
steps they add or remove any loose object and either file of a pack. History
variables are `stamp` and `recent`, the newest time stamp on a file with each object,
and `owed`: the number of times a copy of the object asked for must still be removed
under the lookup before a miss is excused.

| code | actions |
|---|---|
| `git_odb_read`, `_read_header`, `_exists`, `_write`, `_stream_finalize_write`, `_refresh` | `Ask`, `AskRefresh`, `Refreshed`, `Store` |
| `pack_entry_find`, `git_pack_entry_find`, `packfile_open`, `pack_index_open` | `Find`, `NoPack` |
| `pack_backend__freshen` | `Touch` |
| `loose_backend__read`, `__exists`, `__freshen` | `Loose` |
| `pack_backend__refresh`, `packfile_load__cb` | `List` per name |
| `git_indexer_commit` | `AskInstall`, `InstallIndex`, `InstallPack` |
| a death and `git_odb_backend_pack` | `Reopen` |

Abstractions: the name of a pack is the hash of its contents (`indexer.c` takes the
trailer hash, although `git2/indexer.h` speaks of the sorted object names), so a pack
that comes back under its name is the same; packs are tried in any order;
time is counted in ticks up to `FreshenFrequency`.

## Runs

| run | bounds | result |
|---|---|---|
| `one_packer` | 2 processes, the first packs, deletes, renames and writes, the second writes, looks up and may die; 2 names (one always logged), 2 ids, 1 symbolic target; 7 calls; every initial content of the files; 5 million states | passes |
| `two_packers` | 2 processes that do everything, one may die; 1 name, 1 id; weak fairness of each process; 548 000 states | passes |
| `lost_ref`, `delete_retry`, `rename_log`, `create_race` | as small as the counterexample allows | violated, see Findings |
| `lock_file` | 2 processes, one may die, 4 inodes, 2 blocks, five system calls that may fail; 890 000 states, symmetric in the inodes | passes |
| `parent_sync` | the same with the directory sync failing | violated |
| `revision_walk` | 8 commits: a chain, and two merges over a criss-cross with growing dates, jumping dates or a missing root; two pushes or hides (`MaxInput`); five orders; one callback; 442 000 states | passes |
| `hidden_leak` | a chain of 8 and a newer commit beside it, three pushes or hides | violated |
| `merge_bases` | all 616 histories of 5 commits with at most two parents, under a clock that grows, stands still, runs backward or jumps (three ways), and with the first commit missing; 14 queries; 701 000 states | passes |
| `object_store` | one object, loose or in either of two packs, `FreshenFrequency` 2, an environment that does anything; 485 000 states, depth 34 | passes |

Why the bounds are enough: the interference is between a process in the middle of
a call and one other, so two processes meet every race of two; two names are the
least for which `packed_remove_loose` prunes one reference under the lock of
another and rename has a second lock; two ids and a symbolic target tell an old
value from a new one and a packable value from one that is skipped. One call at a
time per process, but unboundedly many of them: nothing in the model is counted.
Four inodes let both processes hold an orphan next to the file and the lock.
A chain of 8 is longer than `SLOP`, so the search stops before its end; the
criss-cross is the least graph where a commit is reached twice with different marks,
and the two merges above it give the topological sort a choice; two pushes or hides
are a range, or two tips. A walk may be followed by another on the same walker.
Five commits hold a criss-cross with something below it, the least history with two
candidates of which one is redundant when dates lie, and all smaller shapes. A call to
the object database is about one object, so one is enough; two packs let it move from
one to another, which is what repacking does, while the loose copy comes and goes.

What the properties say:

- `StoreSpec`: seen from outside, a reference changes by one step of the holder
  of its lock; packing and pruning change nothing. `LookupWasTrue`: a lookup
  answers with a value of that moment or an earlier one of the call.
- `CasRespected`, `ReflogTip`: what is checked or logged early is still true
  when the value is published.
- `NoLeakedLock`, `LooseUnderLock`, `EveryCallReturns`: error exits and races of
  two packers.
- `LockIsExclusive`, `CommitIsWhole`, `ErrorChangesNothing`, `LockSpec`: the lock
  file protocol.
- `Complete`, `Exact`: what a walk has returned, from below for every history when it
  ends, and from above at any time: only what can be reached, and nothing hidden where
  dates grow and one commit was pushed (finding 6 is why not two). The callback is why
  `Exact` also asks for `NoDetour`: a commit the callback skips is not parsed, so a mark
  that arrives late stops there, and a commit behind it that is reached another way is
  returned. For example, with the parents of 5, 6, 7, 8 being 3, 5, 6 and 5, 1, of 2 and
  3 being 1 and 2, and dates as numbered: push 8, hide 4 (a root), hide 7, with a callback
  that skips 3; the walk returns 1, an ancestor of 7. `ShownOnce` holds whatever is done in the middle of a walk.
  `ChildrenFirst` and `Chronological` are the orders `git2/revwalk.h` promises.
- `BasesExact`, `DescendantExact`: exact whatever the dates. `OctopusShared` is all that
  can be said: the fold keeps the newest of several bases, so it may answer "not found"
  although all inputs share an ancestor. `CountsExact` needs dates that grow from parent
  to child; with equal or backward dates the early end of `mark_parents` may leave a
  shared commit with one mark, and it is counted. `NoneMissed`: never too few.
  `CleanSlate`: `clear_commit_marks`, which stops at the first clean commit, misses none.
- `NothingMissed`: one retry cannot make a lookup safe against a directory that changes
  all the time, and the code does not promise that. What it gives is a number: an object
  that stays stored is missed only if a copy of it is removed under the lookup, once if
  no copy is where the process knows to look, twice if one is. The order
  packs, loose, directory, packs is what makes the number right. `Freshened`: a skipped
  write has left some file with the object not older than `FreshenFrequency`.

Fairness: `EveryCallReturns` assumes weak fairness of the steps of every process,
that is, the operating system keeps running it, and nothing for calls (`Call`) or
deaths. No action waits: a lock that is held is an error. So a process is never
blocked by a dead one. `NextReturns` assumes weak fairness of `Step`, the loops of a
call that has begun, and nothing of the caller: C code that is running runs on.
`QueryAnswered` and `Returns` assume the same; the environment of `ObjectStore` has no
fairness, and no action of the process waits for it.

## Findings

1. `lost_ref`: `refdb_fs_backend__compress` loads before it locks, and a packer
   that overtakes another loses references for good (refdb_fs.c:1084, 1089).
   That is why `StoreSpec`, `CasRespected` and `ReflogTip` are stated for one
   packer (`SinglePacker`).
2. `delete_retry`: a deletion that failed because `packed-refs.lock` was there has
   changed the cache; tried again, it succeeds and removes nothing but the loose
   file (refdb_fs.c:1116).
3. `rename_log`: renaming deletes the reflog (refdb_fs.c:1408, refs.h:368).
4. `create_race`: creation without force is not exclusive (refdb_fs.c:751).
5. `parent_sync`: a failed directory sync makes the clean-up remove another
   process's lock (filebuf.c:445). It takes `GIT_FILEBUF_FSYNC`
   (`core.fsyncObjectFiles`, or `git_libgit2_opts`).
6. `hidden_leak`: `prepare_walk` does not sort by date what it hands to `limit_list`,
   which assumes it: an old commit that was pushed before a newer one is returned
   although a hidden commit leads to it (revwalk.c:612, git2/revwalk.h:141).

Also met: after a call of `git_revwalk_next` that failed while preparing, the next
one finds every commit seen and ends the walk with `GIT_ITEROVER` and no commits;
and refdb_fs.c:1000 means to skip a locked reference while pruning, but the
lock file reports `GIT_ELOCKED`, not `GIT_EEXISTS`, so compress fails after it has
replaced `packed-refs`. The model does what the code does.

## Proofs

`tlapm` checks them for every value of the constants, any number of processes and
references included; the assumptions are `ConstantsAssumption` and
`FilebufAssumption`, which only keep the special values apart, and those named below.
Every invariant and action property of the passing runs is proved.

RefdbFs, in four modules (`ConstantsAssumption` also says that no id or target is one of
the answers, `"notfound"` and the like, with which a lookup shares a variable):

- `TypeCorrect`: `TypeOK` is inductive.
- `LocksOwned`, `NoLeak`, `LooseLocked`: whether a call holds a lock depends on its
  label and its kind, so the invariant is an equivalence, `refLock[r] = p <=>
  Holds(p, r)` (`LockInv`), with `KindInv`, which says what calls reach which
  label. The disjointness it implies is what makes the two-packer runs safe.
- `Refinement` assumes `SinglePacker`. `PackInv` is the reason it holds: the cache
  that is about to become `packed-refs` differs from it only at names with a loose
  file, which hide the difference, and at the name being deleted, whose lock is
  held. The commit of `packed-refs` therefore changes no other value, and pruning
  unlinks only files whose value is packed.
- `PruneIsSafe`: the same invariant, of the step that unlinks. Finding 1 needs two packers.
- `Cas` and `LogFollows` add `CasInv` (from the comparison to the update the value
  is the expected one) and `TipInv` (the log is ahead of the value only at
  `commit`).
- `LookupsAreTrue`: `LookupWasTrue`, for the specification with the history variable
  `seen`. A lookup finds no loose file and then reads `packed-refs`, with no lock held and
  a packer at work in between. `LookInv`: once it has found no loose file, the entry in
  `packed-refs` is a value the reference has had since, and so is whatever entry the
  packer holds ready; the packer differs only at the name it deletes, which
  is then missing.

Filebuf, assuming `"parent" \notin Faults` (finding 5 is why):

- `TypeCorrect`: `TypeOK` needs `NameInv`, which says that a process that writes has its
  file open.
- `Exclusive` from `NameInv`, which says which inode each name and descriptor
  refers to at each label; the point is that no two processes share an inode and
  nobody writes to the one `path` names.
- `ErrorSafe`, `Whole` add `WholeInv`: unless an error is remembered, what the
  caller asked for is in the file or in the buffer.
- `Implements`: every step is a step of `RefStore` or a stutter.

RevWalk, for every history, dates, callback and order (`RevWalkAssumption`: parents
have a greater `Rank` than their children, which is that there is no cycle):

- `TypeCorrect`: `TypeOK` with `Control`, what holds at each label.
- `NothingLost`: `Complete`. While it searches (`Search`), what was seen and is not
  hidden is in a list, and what was taken from the list has had its parents added;
  `Marks` says that only the hidden commits and their ancestors are ever marked. When
  `limit_list` stops, only marked commits are left in the list (that is what
  `StillInteresting` returning 0 means, wherever the slop stands), so the seen and the
  hidden commits together are closed and contain everything reachable
  (`SearchDone`). In the topological sort (`Topo`) a commit that is not sorted is in
  the queue or waits for a child in the list that is not sorted; ranks fall from
  parent to child, so with an empty queue nobody waits (`NoneWaits`, by the
  well-foundedness of <).
- `NoneTwice`: `ShownOnce`. `Placed`: every commit is in one of the lists, in hand or
  returned, and once; only hidden ones, which are never returned, may be in the list of
  `limit_list` several times. A commit that is pushed or found again has `seen`.
  `Sorted` is the same of the topological queue, which a commit enters when the last of
  its children in the list has been taken from it.
- `TopologicalOrder`: `ChildrenFirst`. By `Sorted` the children of a commit that enters
  the queue are in `out` already, so `out` has no parent before its child; `OrderInv`
  carries that through the collection, the reversal and the walk.
- `ByDate`: `Chronological`. The list that `prepare_walk` hands to `limit_list` is not
  sorted, but until the pushed commit leaves it everything else in it is hidden, and
  from then on `git_commit_list_insert_by_date` puts no commit that is not hidden behind
  an older one (`Gathered`, by `InsertByDate`); parents are older than what has been
  taken. `Outgoing` says the same of the walk, lazy or from the heap.
- `OnlyWanted`: `Exact`. `PassedOn`: a commit that `limit_list` has expanded has put what
  it follows into the list and, if it is marked, has marked its parents; if it was marked
  before it was expanded all its parents are in the list, otherwise it is of the line.
  So a hidden commit of the line that is not marked lies behind a marked one that is
  still in the list, and is older (`HiddenBehind`; this is where dates and
  `NoDetour` enter). `still_interesting` lets the search stop only when nothing in the list
  is newer than `time`, the date of the last commit collected, and by `Gathered` that is
  the oldest: so no collected commit is hidden without a mark, and what is marked is
  filtered when it is popped. `Turned` says which parents a simplified walk has left out.
- `HiddenWithoutCallback`: without a callback `NoDetour` holds (`NoCallbackNoDetour`: all
  parents are followed or, in a simplified history, the line is a chain).

MergeBase, for every history, dates and query (`MergeBaseAssumption`: as for RevWalk,
and each query has at least two inputs):

- `BasesAreExact`, `DescendantIsExact`, `OctopusIsShared`, `SlateIsClean` from one
  invariant. `Painted`: marks are only on ancestors of where they started, a stale commit
  lies below a common one (`Low`), and a commit that is not queued has passed its marks
  on. When only stale commits are queued, the marked commits together with `Low` are
  closed under parents, so they are all the ancestors (`PaintedEnd`): no common ancestor
  lacks its marks unless it lies below another one, which is why dates do not matter.
  `Narrowed`: the candidates contain all the best ones, each redundant one is below
  another, and one that was compared is below none that is left; at the end that
  is the set of the best. `ClearInv`: a marked commit is about to be cleared or has a
  marked child, and with an empty list there is no highest one left.
- `NoneIsMissed`, by `CountInv`: a counter is at least the number of commits of its side
  alone that bear `result` (`Tally`), and each of them is counted, queued, or below one
  that is not counted yet, so an empty queue leaves none (`OnlyLeast`).
- `CountsAreExact`: never too many either, where every commit is newer than its parents.
  Nothing in the queue is newer than a marked commit that has left it (`ByTime`). When
  `mark_parents` ends, what is queued has both marks; a shared commit that the counting
  can meet (`Met`) and that lacked one would get it from a queued commit, which would be
  newer. So counting meets no shared commit without both marks.

ObjectStore, for any objects, packs and contents:

- `NothingMissedAlways` from `MissInv`, which says at each label how many removals are
  still owed if the object is in a place the call has already passed, and
  `FreshenedAlways` from `FreshInv`: the time stamp on a pack is never older than
  the process takes it to be.

Only model-checked: the liveness properties (`EveryCallReturns`, `NextReturns`,
`QueryAnswered`, `Returns`), which are out of the prover's reach, and the counterexamples.

## Not modelled

The two caches of state under concurrent change, references and objects, the lock
files under every file, and the commit graph are modelled. What is left:

- `transaction.c` over the reference database (its partial commit is in the hazards),
  and the life cycle of native pointers in the Haxe classes: the next two modules to
  write, the first over `RefStore`.
- Abbreviated names and alternates of the object database: the former ask the same
  questions of every pack instead of the first that answers.
- The index and the configuration: users of `Filebuf`; what is theirs is parsing,
  formatting and sorted vectors.
- Three-way merge, diff, checkout, status, stash, rebase: large sequential functions of
  trees and files. A model of them would be as long as they are, since nearly all of
  their state is data.
- Transports, submodules, worktrees: the network, the file system and text.
- Containers, the delta and pack encodings, vendored code.
