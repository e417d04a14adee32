---------------------------- MODULE ObjectStore -----------------------------
(***************************************************************************)
(* The object database of libgit2 over a directory that others change:     *)
(* odb.c with its two backends, packs (odb_pack.c, pack.c) and loose       *)
(* objects (odb_loose.c), and the two renames that install a pack          *)
(* (indexer.c).  The process modelled asks one thing at a time; all others *)
(* that use the directory (other libgit2 processes, git gc, git prune) are *)
(* the environment, which may add and remove any file between two steps.   *)
(*                                                                         *)
(* The process keeps a list of the packs it knows.  A pack enters the list *)
(* when the directory is read again, which happens only when a lookup has  *)
(* failed, and never leaves it: a listed pack may be long gone, and a new  *)
(* one unknown.                                                            *)
(*                                                                         *)
(* Abstractions: memory does not run out and the pack directory can be     *)
(* read; no alternates, no abbreviated names, no corrupt file.  The name   *)
(* of a pack is the hash of its contents, so what a pack contains is given *)
(* by its name.  Packs are tried in any order, once each (the code tries   *)
(* last_found first, and again when it misses); reading a name of the pack *)
(* directory and looking for its .pack is one step.  Time is counted from  *)
(* stamp to stamp: an age is a number of ticks, and FreshenFrequency       *)
(* stands for all that is older.                                           *)
(***************************************************************************)
EXTENDS Naturals, FiniteSets

CONSTANTS Objects, Packs,
          Contents,           \* the objects in each pack
          FreshenFrequency,   \* FRESHEN_FREQUENCY, in ticks
          None                \* no pack

ASSUME ObjectStoreAssumption ==
    /\ Contents \in [Packs -> SUBSET Objects]
    /\ FreshenFrequency \in Nat \ {0}
    /\ None \notin Packs

VARIABLES
    \* the directory: the loose objects, and the packs whose .idx or .pack is there
    loose, idx, pack,
    \* the process: the packs it lists, those whose index it has mapped and whose
    \* .pack it has open, the age of last_freshen of each, and the object cache
    listed, mapped, opened, age, cache,
    \* the call: its step, what is asked about what, the packs still to be tried or
    \* the names still to be read, the pack found, and whether the list is refreshed
    pc, kind, obj, todo, entry, again,
    status,            \* the answer of the last call
    \* history: the removals a miss is still owed, the age of the newest time stamp on
    \* a file with each object, and whether the call has seen a recent one
    owed, stamp, recent

disk    == <<loose, idx, pack>>
process == <<listed, mapped, opened, age, cache>>
call    == <<kind, obj, again>>
history == <<owed, stamp, recent>>
vars    == <<disk, process, pc, call, todo, entry, status, history>>

Lookups == {"read", "header", "exists"}

\* A pack is of use once both of its files are there.
Whole     == idx \cap pack
Holders(o) == {q \in Packs : o \in Contents[q]}
Stored(o) == o \in loose \/ Whole \cap Holders(o) # {}

TypeOK ==
    /\ loose \in SUBSET Objects /\ idx \in SUBSET Packs /\ pack \in SUBSET Packs
    /\ listed \in SUBSET Packs
    /\ mapped \in SUBSET listed /\ opened \in SUBSET mapped
    /\ age \in [Packs -> 0 .. FreshenFrequency]
    /\ cache \in SUBSET Objects
    /\ pc \in {"idle", "packs", "touch", "loose", "refresh", "store", "index", "pack"}
    /\ kind \in Lookups \cup {"write", "install", "refresh"}
    /\ obj \in Objects
    /\ todo \in SUBSET Packs
    /\ pc = "packs" => todo \subseteq listed
    /\ entry \in Packs \cup {None}
    /\ pc \in {"touch", "index", "pack"} => entry \in Packs
    /\ again \in BOOLEAN
    /\ status \in {"none", "ok", "notfound", "error"}
    /\ owed \in 0 .. 2
    /\ stamp \in [Objects -> 0 .. FreshenFrequency]
    /\ recent \in BOOLEAN

-----------------------------------------------------------------------------
(* History.  A lookup may miss an object that is stored only if others     *)
(* move it while the lookup runs: it is owed one removal of a copy if the  *)
(* list is out of date when the call begins, and two if it is not.         *)

\* A copy that the process finds without reading the directory again.
Known(o) == o \in loose \/ Whole \cap listed \cap Holders(o) # {}

Owed(o) == IF ~Stored(o) THEN 0 ELSE IF Known(o) THEN 2 ELSE 1

Removed(o) == \/ o \in loose \ loose'
              \/ (Whole \ Whole') \cap Holders(o) # {}

\* What a change of the directory does to the history; fresh are the objects in
\* the file that now has a new time stamp.
Changed(fresh) ==
    /\ owed' = IF ~Stored(obj)' THEN 0
               ELSE IF Removed(obj) /\ owed > 0 THEN owed - 1 ELSE owed
    /\ stamp' = [o \in Objects |-> IF o \in fresh THEN 0 ELSE stamp[o]]
    /\ recent' = (recent \/ obj \in fresh)

-----------------------------------------------------------------------------
(* The calls.                                                              *)

Answer(s) ==
    /\ pc' = "idle"
    /\ status' = s
    /\ todo' = {}
    /\ entry' = None

\* git_odb_read, git_odb_read_header and git_odb_exists look into the cache first;
\* git_odb_write and git_odb_stream_finalize_write freshen first, and do not.
Cached_Always(k, o) == o \in cache   \* mutant: a write believes the cache

Cached(k, o) == k \in Lookups /\ o \in cache

Ask(k, o) ==
    /\ pc = "idle"
    /\ k \in Lookups \cup {"write"}
    /\ kind' = k /\ obj' = o
    /\ again' = FALSE
    /\ owed' = Owed(o)
    /\ recent' = (stamp[o] < FreshenFrequency)
    /\ \/ Cached(k, o) /\ Answer("ok")
       \/ /\ ~Cached(k, o)
          /\ pc' = "packs"
          /\ todo' = listed
          /\ status' = "none"
          /\ UNCHANGED entry
    /\ UNCHANGED <<disk, process, stamp>>

\* git_odb_refresh
AskRefresh ==
    /\ pc = "idle"
    /\ kind' = "refresh"
    /\ pc' = "refresh"
    /\ todo' = Packs
    /\ status' = "none"
    /\ UNCHANGED <<disk, process, obj, again, entry, history>>

\* git_indexer_commit
AskInstall(q) ==
    /\ pc = "idle"
    /\ kind' = "install"
    /\ entry' = q
    /\ pc' = "index"
    /\ status' = "none"
    /\ UNCHANGED <<disk, process, obj, again, todo, history>>

-----------------------------------------------------------------------------
(* The packs.                                                              *)

\* pack_index_open and packfile_open: what is mapped and open stays so when the
\* file is removed.
Mappable(q) == q \in mapped \cup idx
Openable(q) == q \in opened \cup pack

Has(q) == Mappable(q) /\ obj \in Contents[q] /\ Openable(q)

\* On to the next backend.  The second time only those that can be refreshed are
\* asked, which are the packs.
Miss ==
    /\ pc' = IF again THEN "store" ELSE "loose"
    /\ todo' = {}
    /\ entry' = None
    /\ UNCHANGED status

\* cache_store: the cache may refuse an object, and evict others.
Found ==
    /\ Answer("ok")
    /\ \/ kind = "read" /\ cache' \in SUBSET (cache \cup {obj})
       \/ kind # "read" /\ UNCHANGED cache

\* pack_entry_find, for one pack; any error leads to the next pack.
Find(q) ==
    /\ pc = "packs"
    /\ q \in todo
    /\ mapped' = IF Mappable(q) THEN mapped \cup {q} ELSE mapped
    /\ \/ /\ ~Has(q)
          /\ todo' = todo \ {q}
          /\ UNCHANGED <<pc, entry, status, opened, cache>>
       \/ /\ Has(q)
          /\ opened' = opened \cup {q}
          /\ \/ kind \in Lookups /\ Found
             \/ /\ kind = "write"
                /\ pc' = "touch"
                /\ entry' = q
                /\ UNCHANGED <<todo, status, cache>>
    /\ UNCHANGED <<disk, listed, age, call, history>>

NoPack ==
    /\ pc = "packs"
    /\ todo = {}
    /\ Miss
    /\ UNCHANGED <<disk, process, call, history>>

Shortcut_Always == age[entry] <= FreshenFrequency   \* mutant: once found, a pack is kept

Shortcut == age[entry] < FreshenFrequency

\* pack_backend__freshen, after it has found the pack.
Touch ==
    /\ pc = "touch"
    /\ UNCHANGED <<disk, listed, mapped, opened, cache, call>>
    /\ \/ Shortcut /\ Answer("ok") /\ UNCHANGED <<age, history>>
       \/ /\ ~Shortcut /\ entry \in pack
          /\ age' = [age EXCEPT ![entry] = 0]
          /\ Changed(Contents[entry])
          /\ Answer("ok")
       \/ ~Shortcut /\ entry \notin pack /\ Miss /\ UNCHANGED <<age, history>>

-----------------------------------------------------------------------------
(* Loose objects, the second attempt, and the end of a call.               *)

LooseMissing_End ==   \* mutant: a miss is an answer
    pc' = "store" /\ UNCHANGED <<todo, entry, status>>

\* git_odb_refresh: read the pack directory again.
LooseMissing ==
    /\ pc' = "refresh"
    /\ todo' = Packs
    /\ UNCHANGED <<entry, status>>

\* loose_backend__read, loose_backend__exists and loose_backend__freshen
Loose ==
    /\ pc = "loose"
    /\ UNCHANGED <<disk, listed, mapped, opened, age, call>>
    /\ \/ obj \in loose /\ kind \in Lookups /\ Found /\ UNCHANGED history
       \/ /\ obj \in loose /\ kind = "write"
          /\ Changed({obj})
          /\ Answer("ok")
          /\ UNCHANGED cache
       \/ obj \notin loose /\ LooseMissing /\ UNCHANGED <<cache, history>>

\* packfile_load__cb: a name in the pack directory.  A pack that is listed is left
\* alone, and an .idx without its .pack is ignored.
List(q) ==
    /\ pc = "refresh"
    /\ q \in todo
    /\ listed' = IF q \in Whole THEN listed \cup {q} ELSE listed
    /\ todo' = todo \ {q}
    /\ UNCHANGED <<disk, mapped, opened, age, cache, pc, call, entry, status, history>>

Retry_Again == again' = FALSE   \* mutant: the second attempt is like the first

Retry == again' = TRUE

Refreshed ==
    /\ pc = "refresh"
    /\ todo = {}
    /\ \/ kind = "refresh" /\ Answer("ok") /\ UNCHANGED again
       \/ /\ kind # "refresh"
          /\ Retry
          /\ pc' = "packs"
          /\ todo' = listed
          /\ UNCHANGED <<entry, status>>
    /\ UNCHANGED <<disk, process, kind, obj, history>>

\* A lookup has failed; a write writes the object as a loose one (a temporary file
\* that is renamed), which may fail, before the rename or after it (fsync).
Store ==
    /\ pc = "store"
    /\ UNCHANGED <<idx, pack, process, call>>
    /\ \/ kind \in Lookups /\ Answer("notfound") /\ UNCHANGED <<loose, history>>
       \/ kind = "write" /\ Answer("error") /\ UNCHANGED <<loose, history>>
       \/ /\ kind = "write"
          /\ loose' = loose \cup {obj}
          /\ Changed({obj})
          /\ \E s \in {"ok", "error"} : Answer(s)

\* git_indexer_commit renames the .idx into place and then the .pack; each may fail
\* before the rename or after it.
InstallIndex ==
    /\ pc = "index"
    /\ UNCHANGED <<loose, pack, process, call>>
    /\ \/ /\ idx' = idx \cup {entry}
          /\ pc' = "pack"
          /\ Changed({})
          /\ UNCHANGED <<todo, entry, status>>
       \/ /\ idx' = idx \cup {entry}
          /\ Changed({})
          /\ Answer("error")
       \/ Answer("error") /\ UNCHANGED <<idx, history>>

InstallPack ==
    /\ pc = "pack"
    /\ UNCHANGED <<loose, idx, process, call>>
    /\ \/ /\ pack' = pack \cup {entry}
          /\ Changed(Contents[entry])
          /\ \E s \in {"ok", "error"} : Answer(s)
       \/ Answer("error") /\ UNCHANGED <<pack, history>>

-----------------------------------------------------------------------------
(* The process ends, at any step, and another one opens the database.      *)

Reopen ==
    /\ listed' = {} /\ mapped' = {} /\ opened' = {} /\ cache' = {}
    /\ age' = [q \in Packs |-> FreshenFrequency]
    /\ kind' = "refresh"
    /\ pc' = "refresh"
    /\ todo' = Packs
    /\ entry' = None
    /\ again' = FALSE
    /\ status' = "none"
    /\ UNCHANGED <<disk, obj, history>>

(* The environment.                                                        *)

Environment(fresh) ==
    /\ UNCHANGED <<process, pc, call, todo, entry, status>>
    /\ Changed(fresh)

OthersStore(o) ==
    /\ loose' = loose \cup {o}
    /\ UNCHANGED <<idx, pack>>
    /\ Environment({o})

OthersUnlink(o) ==
    /\ o \in loose
    /\ loose' = loose \ {o}
    /\ UNCHANGED <<idx, pack>>
    /\ Environment({})

OthersPut(q) ==
    /\ UNCHANGED loose
    /\ \/ idx' = idx \cup {q} /\ UNCHANGED pack /\ Environment({})
       \/ pack' = pack \cup {q} /\ UNCHANGED idx /\ Environment(Contents[q])

OthersDrop(q) ==
    /\ \/ q \in idx /\ idx' = idx \ {q} /\ UNCHANGED pack
       \/ q \in pack /\ pack' = pack \ {q} /\ UNCHANGED idx
    /\ UNCHANGED loose
    /\ Environment({})

Older_Unbounded(a) == a + 1   \* mutant: the age is not capped

Older(a) == IF a < FreshenFrequency THEN a + 1 ELSE a

Tick ==
    /\ age' = [q \in Packs |-> Older(age[q])]
    /\ stamp' = [o \in Objects |-> Older(stamp[o])]
    /\ UNCHANGED <<disk, listed, mapped, opened, cache, pc, call, todo, entry, status,
                   owed, recent>>

-----------------------------------------------------------------------------
Init ==
    /\ loose \in SUBSET Objects
    /\ \E q \in SUBSET Packs : idx = q /\ pack = q
    /\ listed = {} /\ mapped = {} /\ opened = {} /\ cache = {}
    /\ age = [q \in Packs |-> FreshenFrequency]
    /\ pc = "refresh" /\ kind = "refresh"
    /\ obj \in Objects
    /\ todo = Packs
    /\ entry = None
    /\ again = FALSE
    /\ status = "none"
    /\ owed = 0
    /\ stamp = [o \in Objects |-> FreshenFrequency]
    /\ recent = FALSE

Next ==
    \/ \E k \in Lookups \cup {"write"}, o \in Objects : Ask(k, o)
    \/ AskRefresh
    \/ \E q \in Packs : AskInstall(q)
    \/ \E q \in Packs : Find(q)
    \/ NoPack
    \/ Touch
    \/ Loose
    \/ \E q \in Packs : List(q)
    \/ Refreshed
    \/ Store
    \/ InstallIndex
    \/ InstallPack
    \/ Reopen
    \/ \E o \in Objects : OthersStore(o)
    \/ \E o \in Objects : OthersUnlink(o)
    \/ \E q \in Packs : OthersPut(q)
    \/ \E q \in Packs : OthersDrop(q)
    \/ Tick

\* A call runs to its end: the loops have no wait in them.
Step ==
    \/ \E q \in Packs : Find(q) \/ List(q)
    \/ NoPack \/ Touch \/ Loose \/ Refreshed \/ Store \/ InstallIndex \/ InstallPack

Spec == Init /\ [][Next]_vars /\ WF_vars(Step)

-----------------------------------------------------------------------------
(* What the object database promises.                                      *)

\* A lookup answers "not found" of an object that is stored all the while only if
\* others have moved it while the lookup ran: once when the list of packs was out
\* of date, twice when it was not.  That rests on the order packs, loose objects,
\* packs read again: an object that goes from loose to pack is met in either place.
NothingMissed == status = "notfound" => owed = 0

\* When a write says that the object is stored, a file with the object has got a
\* time stamp not more than FreshenFrequency before the write began: a prune that
\* looks later finds it young.  A cached object, a pack that is open and deleted,
\* and a touch that fails are no reason to skip the write.
Freshened == status = "ok" /\ kind = "write" => recent

\* A call on a directory that others keep changing comes to an end: a miss leads to
\* one more attempt, not to another miss and another attempt.
Returns == pc # "idle" /\ kind # "refresh" ~> pc = "idle" \/ kind = "refresh"

=============================================================================
