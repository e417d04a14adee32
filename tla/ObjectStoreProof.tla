-------------------------- MODULE ObjectStoreProof --------------------------
(***************************************************************************)
(* What ObjectStore promises, proved for any objects, packs and contents,  *)
(* and any FreshenFrequency.                                               *)
(*                                                                         *)
(* NothingMissed: a lookup that owes its miss to nobody has a copy ahead   *)
(* of it.  With two removals outstanding that is a copy it knew when it    *)
(* began; with one, a pack that is listed already or will be listed by the *)
(* second attempt.  A removal of the copy ahead is one removal less.       *)
(*                                                                         *)
(* Freshened: a pack was last touched by this process no later than the    *)
(* newest time stamp on any of its objects.                                *)
(***************************************************************************)
EXTENDS ObjectStore, TLAPS

\* A file whose copy the lookup has still to come to.
Ahead == Whole \cap todo \cap Holders(obj) # {}

MissInv ==
    /\ owed > 0 => Stored(obj)
    /\ pc = "packs" /\ kind \in Lookups /\ ~again /\ owed = 2 => obj \in loose \/ Ahead
    /\ pc = "loose" /\ kind \in Lookups /\ owed = 2 => obj \in loose
    /\ pc = "refresh" /\ kind \in Lookups =>
          /\ owed # 2
          /\ owed = 1 => Whole \cap (listed \cup todo) \cap Holders(obj) # {}
    /\ pc = "packs" /\ kind \in Lookups /\ again => owed # 2 /\ (owed = 1 => Ahead)
    /\ pc = "store" /\ kind \in Lookups => owed = 0
    /\ status = "notfound" => owed = 0

AgesInv   == \A q \in Packs : \A o \in Contents[q] : stamp[o] <= age[q]
RecentInv == stamp[obj] < FreshenFrequency => recent
TouchInv  == /\ pc = "touch" => kind = "write" /\ obj \in Contents[entry]
             /\ pc \in {"index", "pack"} => kind = "install"

FreshInv == AgesInv /\ RecentInv /\ TouchInv /\ Freshened

IInv == TypeOK /\ FreshInv /\ MissInv

-----------------------------------------------------------------------------
(* Every variable has its type: the operations of one call, and the steps  *)
(* of the environment.                                                     *)

LEMMA ContentsType == \A q \in Packs : Contents[q] \in SUBSET Objects
<1> QED  BY ObjectStoreAssumption

LEMMA OldAge == FreshenFrequency \in 0 .. FreshenFrequency
<1> QED  BY ObjectStoreAssumption

LEMMA InitType == Init => TypeOK
<1> SUFFICES ASSUME Init PROVE TypeOK
  OBVIOUS
<1>1. age \in [Packs -> 0 .. FreshenFrequency] /\ stamp \in [Objects -> 0 .. FreshenFrequency]
  BY OldAge DEF Init
<1>2. mapped \in SUBSET listed /\ opened \in SUBSET mapped
  BY DEF Init
<1>3. loose \in SUBSET Objects /\ idx \in SUBSET Packs /\ pack \in SUBSET Packs
  BY DEF Init
<1>4. todo \in SUBSET Packs /\ entry \in Packs \cup {None} /\ cache \in SUBSET Objects
      /\ listed \in SUBSET Packs
  BY DEF Init
<1>5. /\ pc = "refresh" /\ kind = "refresh" /\ status = "none" /\ owed = 0
      /\ again \in BOOLEAN /\ recent \in BOOLEAN /\ obj \in Objects
  BY DEF Init
<1> QED  BY <1>1, <1>2, <1>3, <1>4, <1>5 DEF TypeOK

\* The history keeps its type whatever file changes.
LEMMA ChangedType ==
    ASSUME TypeOK, NEW fresh \in SUBSET Objects, Changed(fresh)
    PROVE  /\ owed' \in 0 .. 2
           /\ stamp' \in [Objects -> 0 .. FreshenFrequency]
           /\ recent' \in BOOLEAN
<1>1. owed' \in 0 .. 2
  BY DEF TypeOK, Changed
<1>2. stamp' \in [Objects -> 0 .. FreshenFrequency]
  BY ObjectStoreAssumption DEF TypeOK, Changed
<1>3. recent' \in BOOLEAN
  BY DEF TypeOK, Changed
<1> QED  BY <1>1, <1>2, <1>3

LEMMA CallType ==
    ASSUME TypeOK,
           \/ \E k \in Lookups \cup {"write"}, o \in Objects : Ask(k, o)
           \/ AskRefresh
           \/ \E q \in Packs : AskInstall(q) \/ Find(q) \/ List(q)
           \/ NoPack \/ Refreshed \/ Reopen
    PROVE  TypeOK'
<1>1. ASSUME NEW k \in Lookups \cup {"write"}, NEW o \in Objects, Ask(k, o)
      PROVE  TypeOK'
  <2>1. UNCHANGED <<loose, idx, pack, listed, mapped, opened, age, cache, stamp>>
    BY <1>1 DEF Ask, disk, process
  <2>2. kind' = k /\ obj' = o /\ again' = FALSE
    BY <1>1 DEF Ask
  <2>3. owed' \in 0 .. 2
    BY <1>1 DEF Ask, Owed
  <2>4. recent' \in BOOLEAN
    BY <1>1 DEF Ask
  <2>5. /\ pc' \in {"idle", "packs"} /\ status' \in {"ok", "none"}
        /\ (pc' = "packs" => todo' = listed)
        /\ todo' \in SUBSET Packs /\ entry' \in Packs \cup {None}
    BY <1>1 DEF Ask, Answer, TypeOK
  <2> QED  BY <2>1, <2>2, <2>3, <2>4, <2>5 DEF TypeOK
<1>2. CASE AskRefresh
  BY <1>2 DEF TypeOK, AskRefresh, disk, process, history
<1>3. ASSUME NEW q \in Packs, AskInstall(q)
      PROVE  TypeOK'
  BY <1>3 DEF TypeOK, AskInstall, disk, process, history
<1>4. ASSUME NEW q \in Packs, Find(q)
      PROVE  TypeOK'
  <2>1. listed' = listed /\ mapped' \in SUBSET listed /\ q \in todo /\ pc = "packs"
    <3>1. UNCHANGED listed /\ q \in todo /\ pc = "packs"
      BY <1>4 DEF Find
    <3>2. mapped' = IF Mappable(q) THEN mapped \cup {q} ELSE mapped
      BY <1>4 DEF Find
    <3>3. mapped \in SUBSET listed /\ (pc = "packs" => todo \subseteq listed)
      BY DEF TypeOK
    <3> QED  BY <3>1, <3>2, <3>3
  <2>2. CASE ~Has(q)
    BY <1>4, <2>1, <2>2 DEF TypeOK, Find, Has, disk, call, history
  <2>3. CASE Has(q)
    BY <1>4, <2>1, <2>3
       DEF TypeOK, Find, Has, Mappable, Openable, Found, Answer, disk, call, history
  <2> QED  BY <2>2, <2>3
<1>5. ASSUME NEW q \in Packs, List(q)
      PROVE  TypeOK'
  BY <1>5 DEF TypeOK, List, call, disk, history
<1>6. CASE NoPack
  BY <1>6 DEF TypeOK, NoPack, Miss, disk, process, call, history
<1>7. CASE Refreshed
  BY <1>7 DEF TypeOK, Refreshed, Retry, Answer, disk, process, history
<1>8. CASE Reopen
  <2>1. age' \in [Packs -> 0 .. FreshenFrequency]
    BY <1>8, OldAge DEF Reopen
  <2>2. mapped' \in SUBSET listed' /\ opened' \in SUBSET mapped' /\ listed' \in SUBSET Packs
        /\ cache' \in SUBSET Objects
    BY <1>8 DEF Reopen
  <2>3. UNCHANGED <<loose, idx, pack, obj, owed, stamp, recent>>
    BY <1>8 DEF Reopen, disk, history
  <2>4. /\ kind' = "refresh" /\ pc' = "refresh" /\ todo' = Packs /\ entry' = None
        /\ again' = FALSE /\ status' = "none"
    BY <1>8 DEF Reopen
  <2> QED  BY <2>1, <2>2, <2>3, <2>4 DEF TypeOK
<1> QED  BY <1>1, <1>2, <1>3, <1>4, <1>5, <1>6, <1>7, <1>8

LEMMA WorkType ==
    ASSUME TypeOK, Touch \/ Loose \/ Store \/ InstallIndex \/ InstallPack
    PROVE  TypeOK'
<1>1. CASE Touch
  <2>0. pc = "touch" /\ entry \in Packs
    BY <1>1 DEF TypeOK, Touch
  <2>1. UNCHANGED <<loose, idx, pack, listed, mapped, opened, cache, kind, obj, again>>
    BY <1>1 DEF Touch, disk, call
  <2>2. owed' \in 0 .. 2 /\ stamp' \in [Objects -> 0 .. FreshenFrequency] /\ recent' \in BOOLEAN
    <3>1. CASE UNCHANGED history
      BY <3>1 DEF TypeOK, history
    <3>2. CASE Changed(Contents[entry])
      <4>1. Contents[entry] \in SUBSET Objects
        BY <2>0, ContentsType
      <4> QED  BY <3>2, <4>1, ChangedType
    <3> QED  BY <1>1, <3>1, <3>2 DEF Touch
  <2>3. age' \in [Packs -> 0 .. FreshenFrequency]
    BY <1>1, ObjectStoreAssumption DEF Touch, TypeOK
  <2>4. /\ pc' \in {"idle", "store", "loose"} /\ todo' = {} /\ entry' = None
        /\ status' \in {"none", "ok", "notfound", "error"}
    BY <1>1 DEF Touch, Answer, Miss, TypeOK
  <2> QED  BY <2>1, <2>2, <2>3, <2>4 DEF TypeOK
<1>2. CASE Loose
  <2>1. UNCHANGED <<loose, idx, pack, listed, mapped, opened, age, kind, obj, again>>
    BY <1>2 DEF Loose, disk, call
  <2>2. owed' \in 0 .. 2 /\ stamp' \in [Objects -> 0 .. FreshenFrequency] /\ recent' \in BOOLEAN
    <3>1. CASE UNCHANGED history
      BY <3>1 DEF TypeOK, history
    <3>2. CASE Changed({obj})
      <4>1. {obj} \in SUBSET Objects
        BY DEF TypeOK
      <4> QED  BY <3>2, <4>1, ChangedType
    <3> QED  BY <1>2, <3>1, <3>2 DEF Loose
  <2>3. cache' \in SUBSET Objects
    BY <1>2 DEF Loose, Found, TypeOK
  <2>4. /\ pc' \in {"idle", "refresh"} /\ todo' \in SUBSET Packs /\ entry' \in Packs \cup {None}
        /\ status' \in {"none", "ok", "notfound", "error"}
    BY <1>2 DEF Loose, LooseMissing, Found, Answer, TypeOK
  <2> QED  BY <2>1, <2>2, <2>3, <2>4, <1>2 DEF TypeOK, Loose
<1>3. CASE Store
  <2>1. UNCHANGED <<idx, pack, listed, mapped, opened, age, cache, kind, obj, again>>
    BY <1>3 DEF Store, process, call
  <2>2. owed' \in 0 .. 2 /\ stamp' \in [Objects -> 0 .. FreshenFrequency] /\ recent' \in BOOLEAN
    <3>1. CASE UNCHANGED history
      BY <3>1 DEF TypeOK, history
    <3>2. CASE Changed({obj})
      <4>1. {obj} \in SUBSET Objects
        BY DEF TypeOK
      <4> QED  BY <3>2, <4>1, ChangedType
    <3> QED  BY <1>3, <3>1, <3>2 DEF Store
  <2>3. loose' \in SUBSET Objects
    BY <1>3 DEF Store, TypeOK
  <2>4. /\ pc' = "idle" /\ todo' = {} /\ entry' = None
        /\ status' \in {"none", "ok", "notfound", "error"}
    BY <1>3 DEF Store, Answer
  <2> QED  BY <2>1, <2>2, <2>3, <2>4 DEF TypeOK
<1>4. CASE InstallIndex
  <2>0. pc = "index" /\ entry \in Packs
    BY <1>4 DEF TypeOK, InstallIndex
  <2>1. UNCHANGED <<loose, pack, listed, mapped, opened, age, cache, kind, obj, again>>
    BY <1>4 DEF InstallIndex, process, call
  <2>2. owed' \in 0 .. 2 /\ stamp' \in [Objects -> 0 .. FreshenFrequency] /\ recent' \in BOOLEAN
    <3>1. CASE UNCHANGED history
      BY <3>1 DEF TypeOK, history
    <3>2. CASE Changed({})
      BY <3>2, ChangedType
    <3> QED  BY <1>4, <3>1, <3>2 DEF InstallIndex
  <2>3. idx' \in SUBSET Packs
    BY <1>4, <2>0 DEF InstallIndex, TypeOK
  <2>4. \/ pc' = "pack" /\ UNCHANGED <<todo, entry, status>>
        \/ pc' = "idle" /\ todo' = {} /\ entry' = None /\ status' = "error"
    BY <1>4 DEF InstallIndex, Answer
  <2> QED  BY <2>0, <2>1, <2>2, <2>3, <2>4 DEF TypeOK
<1>5. CASE InstallPack
  <2>0. pc = "pack" /\ entry \in Packs
    BY <1>5 DEF TypeOK, InstallPack
  <2>1. UNCHANGED <<loose, idx, listed, mapped, opened, age, cache, kind, obj, again>>
    BY <1>5 DEF InstallPack, process, call
  <2>2. owed' \in 0 .. 2 /\ stamp' \in [Objects -> 0 .. FreshenFrequency] /\ recent' \in BOOLEAN
    <3>1. CASE UNCHANGED history
      BY <3>1 DEF TypeOK, history
    <3>2. CASE Changed(Contents[entry])
      <4>1. Contents[entry] \in SUBSET Objects
        BY <2>0, ContentsType
      <4> QED  BY <3>2, <4>1, ChangedType
    <3> QED  BY <1>5, <3>1, <3>2 DEF InstallPack
  <2>3. pack' \in SUBSET Packs
    BY <1>5, <2>0 DEF InstallPack, TypeOK
  <2>4. pc' = "idle" /\ todo' = {} /\ entry' = None /\ status' \in {"ok", "error"}
    BY <1>5 DEF InstallPack, Answer
  <2> QED  BY <2>1, <2>2, <2>3, <2>4 DEF TypeOK
<1> QED  BY <1>1, <1>2, <1>3, <1>4, <1>5

LEMMA EnvironmentType ==
    ASSUME TypeOK,
           \/ \E o \in Objects : OthersStore(o) \/ OthersUnlink(o)
           \/ \E q \in Packs : OthersPut(q) \/ OthersDrop(q)
           \/ Tick
    PROVE  TypeOK'
<1>0. ASSUME NEW fresh \in SUBSET Objects, Environment(fresh),
             loose' \in SUBSET Objects, idx' \in SUBSET Packs, pack' \in SUBSET Packs
      PROVE  TypeOK'
  <2>1. owed' \in 0 .. 2 /\ stamp' \in [Objects -> 0 .. FreshenFrequency] /\ recent' \in BOOLEAN
    BY <1>0, ChangedType DEF Environment
  <2>2. UNCHANGED <<process, pc, call, todo, entry, status>>
    BY <1>0 DEF Environment
  <2> QED  BY <1>0, <2>1, <2>2 DEF TypeOK, process, call
<1>1. ASSUME NEW o \in Objects, OthersStore(o) \/ OthersUnlink(o)
      PROVE  TypeOK'
  <2>1. loose' \in SUBSET Objects /\ UNCHANGED <<idx, pack>>
    BY <1>1 DEF TypeOK, OthersStore, OthersUnlink
  <2>2. \E fresh \in SUBSET Objects : Environment(fresh)
    BY <1>1 DEF OthersStore, OthersUnlink
  <2> QED  BY <1>0, <2>1, <2>2 DEF TypeOK
<1>2. ASSUME NEW q \in Packs, OthersPut(q) \/ OthersDrop(q)
      PROVE  TypeOK'
  <2>1. UNCHANGED loose /\ idx' \in SUBSET Packs /\ pack' \in SUBSET Packs
    BY <1>2 DEF TypeOK, OthersPut, OthersDrop
  <2>2. \E fresh \in SUBSET Objects : Environment(fresh)
    BY <1>2, ContentsType DEF OthersPut, OthersDrop
  <2> QED  BY <1>0, <2>1, <2>2 DEF TypeOK
<1>3. CASE Tick
  <2>1. \A a \in 0 .. FreshenFrequency : Older(a) \in 0 .. FreshenFrequency
    BY ObjectStoreAssumption DEF Older
  <2>2. age' \in [Packs -> 0 .. FreshenFrequency] /\ stamp' \in [Objects -> 0 .. FreshenFrequency]
    BY <1>3, <2>1 DEF Tick, TypeOK
  <2> QED  BY <1>3, <2>2 DEF Tick, TypeOK, disk, call
<1> QED  BY <1>1, <1>2, <1>3

LEMMA TypeStep == TypeOK /\ Next => TypeOK'
<1> QED  BY CallType, WorkType, EnvironmentType DEF Next

\* Every variable keeps its type: no call leaves the process with a pack it has not
\* listed, and no age runs past what FreshenFrequency can tell apart.
THEOREM TypeCorrect == Spec => []TypeOK
<1>1. TypeOK /\ [Next]_vars => TypeOK'
  <2>1. CASE UNCHANGED vars
    BY <2>1 DEF TypeOK, vars, disk, process, call, history
  <2> QED  BY <2>1, TypeStep
<1> QED  BY InitType, <1>1, PTL DEF Spec

-----------------------------------------------------------------------------
(* A write that answers "ok" has seen a recent time stamp.                 *)

\* A new time stamp makes objects younger, and the call that sees it knows.
LEMMA ChangedFresh ==
    ASSUME TypeOK, AgesInv, RecentInv, NEW fresh \in SUBSET Objects, Changed(fresh),
           UNCHANGED <<age, obj>>
    PROVE  AgesInv' /\ RecentInv'
<1>1. \A o \in Objects : stamp'[o] = IF o \in fresh THEN 0 ELSE stamp[o]
  BY DEF Changed
<1>2. AgesInv'
  <2> SUFFICES ASSUME NEW q \in Packs, NEW o \in Contents[q]
               PROVE  stamp'[o] <= age[q]
    BY DEF AgesInv
  <2>1. o \in Objects
    BY ContentsType
  <2>2. stamp[o] <= age[q] /\ age[q] \in 0 .. FreshenFrequency
    BY DEF AgesInv, TypeOK
  <2> QED  BY <1>1, <2>1, <2>2, ObjectStoreAssumption
<1>3. RecentInv'
  <2>1. obj \in Objects
    BY DEF TypeOK
  <2>2. recent' = (recent \/ obj \in fresh)
    BY DEF Changed
  <2> QED  BY <1>1, <2>1, <2>2 DEF RecentInv
<1> QED  BY <1>2, <1>3

\* A step that leaves the time stamps and the answer of a write alone.
LEMMA FreshFrame ==
    ASSUME FreshInv, UNCHANGED <<age, obj, stamp, recent>>, pc' # "touch",
           pc' \in {"index", "pack"} => kind' = "install",
           status' = "ok" /\ kind' = "write" =>
               \/ status = "ok" /\ kind = "write"
               \/ recent
    PROVE  FreshInv'
<1> QED  BY DEF FreshInv, AgesInv, RecentInv, TouchInv, Freshened

\* The shortcut and the touch of pack_backend__freshen.
LEMMA TouchFresh == ASSUME TypeOK, FreshInv, Touch PROVE FreshInv'
<1>0. pc = "touch" /\ entry \in Packs /\ kind = "write" /\ obj \in Contents[entry]
  BY DEF Touch, TypeOK, FreshInv, TouchInv
<1>1. UNCHANGED <<kind, obj>> /\ pc' \notin {"touch", "index", "pack"}
  BY DEF Touch, call, Answer, Miss
<1>2. CASE Shortcut /\ Answer("ok") /\ UNCHANGED <<age, history>>
  <2>1. stamp[obj] <= age[entry] /\ age[entry] < FreshenFrequency
    BY <1>0, <1>2 DEF FreshInv, AgesInv, Shortcut
  <2>2. stamp[obj] \in 0 .. FreshenFrequency /\ age[entry] \in 0 .. FreshenFrequency
    BY <1>0 DEF TypeOK
  <2>3. recent
    BY <2>1, <2>2, ObjectStoreAssumption DEF FreshInv, RecentInv
  <2> QED  BY <1>1, <1>2, <2>3, FreshFrame DEF history
<1>3. CASE ~Shortcut /\ entry \in pack /\ age' = [age EXCEPT ![entry] = 0]
           /\ Changed(Contents[entry]) /\ Answer("ok")
  <2>1. \A o \in Objects : stamp'[o] = IF o \in Contents[entry] THEN 0 ELSE stamp[o]
    BY <1>3 DEF Changed
  <2>2. recent'
    BY <1>0, <1>3 DEF Changed
  <2>3. AgesInv'
    <3> SUFFICES ASSUME NEW q \in Packs, NEW o \in Contents[q]
                 PROVE  stamp'[o] <= age'[q]
      BY DEF AgesInv
    <3>1. o \in Objects
      BY ContentsType
    <3>2. stamp[o] <= age[q] /\ age[q] \in 0 .. FreshenFrequency
      BY DEF FreshInv, AgesInv, TypeOK
    <3>3. age'[q] = IF q = entry THEN 0 ELSE age[q]
      BY <1>3 DEF TypeOK
    <3> QED  BY <2>1, <3>1, <3>2, <3>3, ObjectStoreAssumption
  <2> QED  BY <1>1, <2>2, <2>3 DEF FreshInv, RecentInv, TouchInv, Freshened
<1>4. CASE ~Shortcut /\ entry \notin pack /\ Miss /\ UNCHANGED <<age, history>>
  BY <1>1, <1>4, FreshFrame DEF Miss, history
<1> QED  BY <1>2, <1>3, <1>4 DEF Touch

\* The other steps that give a file a new time stamp: the object asked for is in
\* the file, or the call is not a write.
LEMMA ChangedStep ==
    ASSUME TypeOK, FreshInv, NEW fresh \in SUBSET Objects, Changed(fresh),
           UNCHANGED <<age, obj, kind>>, pc' = "touch" => pc = "touch" /\ UNCHANGED entry,
           pc' \in {"index", "pack"} => pc \in {"index", "pack"},
           status' = "ok" /\ kind' = "write" => status = "ok" \/ obj \in fresh
    PROVE  FreshInv'
<1>1. AgesInv' /\ RecentInv'
  BY ChangedFresh DEF FreshInv
<1>2. TouchInv'
  BY DEF FreshInv, TouchInv
<1>3. recent' = (recent \/ obj \in fresh)
  BY DEF Changed
<1>4. Freshened'
  BY <1>3 DEF FreshInv, Freshened
<1> QED  BY <1>1, <1>2, <1>4 DEF FreshInv

LEMMA FreshStep == ASSUME TypeOK, FreshInv, Next PROVE FreshInv'
<1>1. ASSUME NEW k \in Lookups \cup {"write"}, NEW o \in Objects, Ask(k, o)
      PROVE  FreshInv'
  <2>1. AgesInv' /\ RecentInv'
    BY <1>1 DEF Ask, process, FreshInv, AgesInv, RecentInv
  <2>2. pc' \notin {"touch", "index", "pack"} /\ (kind' = "write" => status' = "none")
    BY <1>1 DEF Ask, Answer, Cached, Lookups
  <2> QED  BY <2>1, <2>2 DEF FreshInv, TouchInv, Freshened
<1>2. CASE AskRefresh
  BY <1>2, FreshFrame DEF AskRefresh, process, history
<1>3. ASSUME NEW q \in Packs, AskInstall(q)
      PROVE  FreshInv'
  BY <1>3, FreshFrame DEF AskInstall, process, history
<1>4. ASSUME NEW q \in Packs, Find(q)
      PROVE  FreshInv'
  <2>1. UNCHANGED <<age, obj, kind, stamp, recent>> /\ pc = "packs"
    BY <1>4 DEF Find, call, history
  <2>2. CASE ~Has(q)
    BY <1>4, <2>1, <2>2, FreshFrame DEF Find, Has
  <2>3. CASE Has(q) /\ kind \in Lookups /\ Found
    BY <2>1, <2>3, FreshFrame DEF Found, Answer, Lookups
  <2>4. CASE Has(q) /\ kind = "write" /\ pc' = "touch" /\ entry' = q /\ UNCHANGED status
    BY <2>1, <2>4 DEF Has, FreshInv, AgesInv, RecentInv, TouchInv, Freshened
  <2> QED  BY <1>4, <2>2, <2>3, <2>4 DEF Find
<1>5. CASE NoPack
  BY <1>5, FreshFrame DEF NoPack, Miss, process, call, history
<1>6. CASE Touch
  BY <1>6, TouchFresh
<1>7. CASE Loose
  <2>1. UNCHANGED <<age, obj, kind>> /\ pc' \notin {"touch", "index", "pack"}
    BY <1>7 DEF Loose, call, Found, Answer, LooseMissing
  <2>2. CASE kind \in Lookups /\ Found /\ UNCHANGED history
    BY <2>1, <2>2, FreshFrame DEF Lookups, history
  <2>3. CASE Changed({obj})
    <3>1. {obj} \in SUBSET Objects
      BY DEF TypeOK
    <3> QED  BY <2>1, <2>3, <3>1, ChangedStep
  <2>4. CASE LooseMissing /\ UNCHANGED history
    BY <2>1, <2>4, FreshFrame DEF LooseMissing, history
  <2> QED  BY <1>7, <2>2, <2>3, <2>4 DEF Loose
<1>8. ASSUME NEW q \in Packs, List(q)
      PROVE  FreshInv'
  BY <1>8, FreshFrame DEF List, call, history
<1>9. CASE Refreshed
  BY <1>9, FreshFrame DEF Refreshed, Answer, process, history
<1>10. CASE Store
  <2>1. UNCHANGED <<age, obj, kind>> /\ pc' \notin {"touch", "index", "pack"}
    BY <1>10 DEF Store, process, call, Answer
  <2>2. CASE Answer("notfound") /\ UNCHANGED history
    BY <2>1, <2>2, FreshFrame DEF Answer, history
  <2>3. CASE Answer("error") /\ UNCHANGED history
    BY <2>1, <2>3, FreshFrame DEF Answer, history
  <2>4. CASE Changed({obj})
    <3>1. {obj} \in SUBSET Objects
      BY DEF TypeOK
    <3> QED  BY <2>1, <2>4, <3>1, ChangedStep
  <2> QED  BY <1>10, <2>2, <2>3, <2>4 DEF Store
<1>11. CASE InstallIndex
  <2>1. UNCHANGED <<age, obj, kind>> /\ kind = "install" /\ pc' # "touch"
    BY <1>11 DEF InstallIndex, process, call, Answer, FreshInv, TouchInv
  <2>2. CASE Changed({})
    BY <1>11, <2>1, <2>2, ChangedStep DEF InstallIndex
  <2>3. CASE Answer("error") /\ UNCHANGED history
    BY <2>1, <2>3, FreshFrame DEF history
  <2> QED  BY <1>11, <2>2, <2>3 DEF InstallIndex
<1>12. CASE InstallPack
  <2>1. UNCHANGED <<age, obj, kind>> /\ kind = "install" /\ pc' # "touch" /\ entry \in Packs
    BY <1>12 DEF InstallPack, process, call, Answer, FreshInv, TouchInv, TypeOK
  <2>2. CASE Changed(Contents[entry])
    <3>1. Contents[entry] \in SUBSET Objects
      BY <2>1, ContentsType
    <3> QED  BY <1>12, <2>1, <2>2, <3>1, ChangedStep DEF InstallPack
  <2>3. CASE Answer("error") /\ UNCHANGED history
    BY <2>1, <2>3, FreshFrame DEF history
  <2> QED  BY <1>12, <2>2, <2>3 DEF InstallPack
<1>13. CASE Reopen
  <2>1. AgesInv'
    <3> SUFFICES ASSUME NEW q \in Packs, NEW o \in Contents[q]
                 PROVE  stamp'[o] <= age'[q]
      BY DEF AgesInv
    <3>1. stamp[o] \in 0 .. FreshenFrequency
      BY ContentsType DEF TypeOK
    <3>2. stamp' = stamp /\ age'[q] = FreshenFrequency
      BY <1>13 DEF Reopen, history
    <3> QED  BY <3>1, <3>2, ObjectStoreAssumption
  <2>2. RecentInv' /\ TouchInv' /\ Freshened'
    BY <1>13 DEF Reopen, history, FreshInv, RecentInv, TouchInv, Freshened
  <2> QED  BY <2>1, <2>2 DEF FreshInv
<1>14. ASSUME NEW fresh \in SUBSET Objects, Environment(fresh)
       PROVE  FreshInv'
  BY <1>14, ChangedStep DEF Environment, process, call
<1>15. ASSUME NEW o \in Objects, OthersStore(o) \/ OthersUnlink(o)
       PROVE  FreshInv'
  BY <1>14, <1>15 DEF OthersStore, OthersUnlink
<1>16. ASSUME NEW q \in Packs, OthersPut(q) \/ OthersDrop(q)
       PROVE  FreshInv'
  <2>1. \E fresh \in SUBSET Objects : Environment(fresh)
    BY <1>16, ContentsType DEF OthersPut, OthersDrop
  <2> QED  BY <1>14, <2>1
<1>17. CASE Tick
  <2>1. AgesInv'
    <3> SUFFICES ASSUME NEW q \in Packs, NEW o \in Contents[q]
                 PROVE  stamp'[o] <= age'[q]
      BY DEF AgesInv
    <3>1. o \in Objects
      BY ContentsType
    <3>2. /\ stamp[o] \in 0 .. FreshenFrequency /\ age[q] \in 0 .. FreshenFrequency
          /\ stamp[o] <= age[q]
      BY <3>1 DEF FreshInv, AgesInv, TypeOK
    <3>3. stamp'[o] = Older(stamp[o]) /\ age'[q] = Older(age[q])
      BY <1>17, <3>1 DEF Tick
    <3> QED  BY <3>2, <3>3, ObjectStoreAssumption DEF Older
  <2>2. RecentInv'
    <3>1. stamp[obj] \in 0 .. FreshenFrequency /\ stamp'[obj] = Older(stamp[obj])
      BY <1>17 DEF TypeOK, Tick
    <3>2. obj' = obj /\ recent' = recent
      BY <1>17 DEF Tick, call
    <3> QED  BY <3>1, <3>2, ObjectStoreAssumption DEF Older, FreshInv, RecentInv
  <2>3. TouchInv' /\ Freshened'
    BY <1>17 DEF Tick, call, FreshInv, TouchInv, Freshened
  <2> QED  BY <2>1, <2>2, <2>3 DEF FreshInv
<1> QED  BY <1>1, <1>2, <1>3, <1>4, <1>5, <1>6, <1>7, <1>8, <1>9, <1>10, <1>11, <1>12,
            <1>13, <1>15, <1>16, <1>17 DEF Next

LEMMA InitFresh == Init => FreshInv
<1> SUFFICES ASSUME Init PROVE FreshInv
  OBVIOUS
<1>1. AgesInv
  BY ContentsType, ObjectStoreAssumption DEF Init, AgesInv
<1>2. stamp[obj] = FreshenFrequency
  BY DEF Init
<1>3. RecentInv
  BY <1>2, ObjectStoreAssumption DEF RecentInv
<1> QED  BY <1>1, <1>3 DEF Init, FreshInv, TouchInv, Freshened

\* Whatever others do to the directory, a write answers "ok" only when a file with
\* the object has got a time stamp since FreshenFrequency before it began.
THEOREM FreshenedAlways == Spec => []Freshened
<1>1. Init => TypeOK /\ FreshInv
  BY InitType, InitFresh
<1>2. TypeOK /\ FreshInv /\ [Next]_vars => (TypeOK /\ FreshInv)'
  <2>1. CASE UNCHANGED vars
    BY <2>1 DEF TypeOK, FreshInv, AgesInv, RecentInv, TouchInv, Freshened,
                vars, disk, process, call, history
  <2>2. CASE Next
    BY <2>2, FreshStep, TypeStep
  <2> QED  BY <2>1, <2>2
<1>3. FreshInv => Freshened
  BY DEF FreshInv
<1> QED  BY <1>1, <1>2, <1>3, PTL DEF Spec

-----------------------------------------------------------------------------
(* A lookup misses a stored object only after it has been moved.           *)

\* A change of the directory takes a removal from what is owed, or leaves every
\* copy where it was.
LEMMA ChangedOwed ==
    ASSUME TypeOK, NEW fresh, Changed(fresh), UNCHANGED obj
    PROVE  /\ owed' \in 0 .. owed
           /\ owed' > 0 => Stored(obj)'
           /\ owed' > 0 => \/ owed' < owed
                            \/ /\ obj \in loose => obj \in loose'
                               /\ Whole \cap Holders(obj) \subseteq Whole'
<1>1. owed \in 0 .. 2
  BY DEF TypeOK
<1>2. CASE ~Stored(obj)'
  BY <1>1, <1>2 DEF Changed
<1>3. CASE Stored(obj)' /\ Removed(obj) /\ owed > 0
  BY <1>1, <1>3 DEF Changed
<1>4. CASE Stored(obj)' /\ ~Removed(obj)
  BY <1>1, <1>4 DEF Changed, Removed, Holders
<1>5. CASE Stored(obj)' /\ ~(owed > 0)
  BY <1>1, <1>5 DEF Changed
<1> QED  BY <1>2, <1>3, <1>4, <1>5

\* While the call stands still, that is all a lookup has to know.
LEMMA ChangedMiss ==
    ASSUME TypeOK, MissInv, NEW fresh, Changed(fresh),
           UNCHANGED <<listed, pc, kind, obj, again, todo, status>>
    PROVE  MissInv'
<1>1. owed \in 0 .. 2
  BY DEF TypeOK
<1>2. /\ owed' \in 0 .. owed
      /\ owed' > 0 => Stored(obj)'
      /\ owed' > 0 => \/ owed' < owed
                       \/ /\ obj \in loose => obj \in loose'
                          /\ Whole \cap Holders(obj) \subseteq Whole'
  BY ChangedOwed
<1>3. Holders(obj)' = Holders(obj)
  BY DEF Holders
<1>4. owed' = 2 => owed = 2 /\ (obj \in loose => obj \in loose')
                   /\ Whole \cap Holders(obj) \subseteq Whole'
  BY <1>1, <1>2
<1>5. owed' = 1 /\ owed # 2 => owed = 1 /\ Whole \cap Holders(obj) \subseteq Whole'
  BY <1>1, <1>2
<1>6. owed = 0 => owed' = 0
  BY <1>2
<1>7. pc = "packs" /\ kind \in Lookups /\ ~again /\ owed' = 2 => obj \in loose' \/ Ahead'
  BY <1>3, <1>4 DEF MissInv, Ahead
<1>8. pc = "loose" /\ kind \in Lookups /\ owed' = 2 => obj \in loose'
  BY <1>4 DEF MissInv
<1>9. pc = "refresh" /\ kind \in Lookups =>
          /\ owed' # 2
          /\ owed' = 1 => Whole' \cap (listed \cup todo) \cap Holders(obj) # {}
  BY <1>4, <1>5 DEF MissInv
<1>10. pc = "packs" /\ kind \in Lookups /\ again => owed' # 2 /\ (owed' = 1 => Ahead')
  BY <1>3, <1>4, <1>5 DEF MissInv, Ahead
<1> QED  BY <1>2, <1>3, <1>6, <1>7, <1>8, <1>9, <1>10 DEF MissInv

\* A step after which the call looks nothing up any more.
LEMMA OtherMiss ==
    ASSUME TypeOK, MissInv, owed' \in 0 .. owed, owed' > 0 => Stored(obj)',
           kind' \in Lookups => pc' \notin {"packs", "loose", "refresh", "store"},
           status' = "notfound" => status = "notfound" \/ owed = 0
    PROVE  MissInv'
<1> QED  BY DEF MissInv, TypeOK

LEMMA MissStep == ASSUME TypeOK, TouchInv, MissInv, Next PROVE MissInv'
<1>0. owed \in 0 .. 2 /\ (owed > 0 => Stored(obj))
  BY DEF TypeOK, MissInv
<1>1. ASSUME NEW k \in Lookups \cup {"write"}, NEW o \in Objects, Ask(k, o)
      PROVE  MissInv'
  <2>1. UNCHANGED <<loose, idx, pack, listed>> /\ obj' = o /\ ~again' /\ owed' = Owed(o)
    BY <1>1 DEF Ask, disk, process
  <2>2. (owed' > 0 => Stored(o)) /\ (owed' = 2 => Known(o)) /\ Whole' = Whole
    BY <2>1 DEF Owed, Whole
  <2>3. Stored(obj)' = Stored(o) /\ Holders(obj)' = Holders(o)
    BY <2>1, <2>2 DEF Stored, Holders
  <2>4. \/ pc' = "idle" /\ status' = "ok"
        \/ pc' = "packs" /\ todo' = listed /\ status' = "none"
    BY <1>1 DEF Ask, Answer
  <2>5. pc' = "packs" /\ owed' = 2 => obj' \in loose' \/ Ahead'
    BY <2>1, <2>2, <2>3, <2>4 DEF Known, Ahead
  <2> QED  BY <2>1, <2>2, <2>3, <2>4, <2>5 DEF MissInv
<1>2. CASE AskRefresh
  <2>1. UNCHANGED <<loose, idx, pack, obj, owed>> /\ pc' = "refresh" /\ kind' = "refresh"
        /\ status' = "none"
    BY <1>2 DEF AskRefresh, disk, history
  <2> QED  BY <1>0, <2>1 DEF MissInv, Lookups, Stored, Whole, Holders
<1>3. ASSUME NEW q \in Packs, AskInstall(q)
      PROVE  MissInv'
  <2>1. UNCHANGED <<loose, idx, pack, obj, owed>> /\ pc' = "index" /\ status' = "none"
    BY <1>3 DEF AskInstall, disk, history
  <2> QED  BY <1>0, <2>1 DEF MissInv, Lookups, Stored, Whole, Holders
<1>4. ASSUME NEW q \in Packs, Find(q)
      PROVE  MissInv'
  <2>1. UNCHANGED <<loose, idx, pack, obj, owed, kind, again, listed>> /\ pc = "packs"
    BY <1>4 DEF Find, disk, call, history
  <2>2. Whole' = Whole /\ Stored(obj)' = Stored(obj) /\ Holders(obj)' = Holders(obj)
    BY <2>1 DEF Whole, Stored, Holders
  <2>3. CASE ~Has(q)
    <3>1. UNCHANGED <<pc, status>> /\ todo' = todo \ {q}
      BY <1>4, <2>3 DEF Find
    <3>2. q \notin Whole \cap Holders(obj)
      BY <2>3 DEF Has, Mappable, Openable, Whole, Holders
    <3>3. Ahead' = Ahead
      BY <2>2, <3>1, <3>2 DEF Ahead
    <3> QED  BY <2>1, <2>2, <3>1, <3>3 DEF MissInv
  <2>4. CASE Has(q)
    <3>1. \/ pc' = "idle" /\ status' = "ok"
          \/ pc' = "touch" /\ UNCHANGED status
      BY <1>4, <2>4 DEF Find, Found, Answer
    <3> QED  BY <1>0, <2>1, <2>2, <3>1 DEF MissInv
  <2> QED  BY <2>3, <2>4
<1>5. CASE NoPack
  <2>1. UNCHANGED <<loose, idx, pack, obj, owed, kind, again, listed, status>>
        /\ pc = "packs" /\ todo = {}
    BY <1>5 DEF NoPack, Miss, disk, process, call, history
  <2>2. Whole' = Whole /\ Stored(obj)' = Stored(obj) /\ Holders(obj)' = Holders(obj)
    BY <2>1 DEF Whole, Stored, Holders
  <2>3. ~Ahead
    BY <2>1 DEF Ahead
  <2>4. CASE again
    <3>1. pc' = "store"
      BY <1>5, <2>4 DEF NoPack, Miss
    <3> QED  BY <1>0, <2>1, <2>2, <2>3, <2>4, <3>1 DEF MissInv
  <2>5. CASE ~again
    <3>1. pc' = "loose"
      BY <1>5, <2>5 DEF NoPack, Miss
    <3> QED  BY <1>0, <2>1, <2>2, <2>3, <2>5, <3>1 DEF MissInv
  <2> QED  BY <2>4, <2>5
<1>6. CASE Touch
  <2>1. UNCHANGED <<loose, idx, pack, obj, kind>> /\ kind = "write"
    BY <1>6 DEF Touch, disk, call, TouchInv
  <2>2. status' # "notfound" \/ UNCHANGED status
    BY <1>6 DEF Touch, Answer, Miss
  <2>3. Stored(obj)' = Stored(obj)
    BY <2>1 DEF Stored, Whole, Holders
  <2>4. CASE UNCHANGED history
    BY <1>0, <2>1, <2>2, <2>3, <2>4, OtherMiss DEF history, Lookups
  <2>5. CASE Changed(Contents[entry])
    <3>1. owed' \in 0 .. owed /\ (owed' > 0 => Stored(obj)')
      BY <2>1, <2>5, ChangedOwed
    <3> QED  BY <2>1, <2>2, <3>1, OtherMiss DEF Lookups
  <2> QED  BY <1>6, <2>4, <2>5 DEF Touch
<1>7. CASE Loose
  <2>1. UNCHANGED <<loose, idx, pack, listed, obj, kind, again>> /\ pc = "loose"
    BY <1>7 DEF Loose, disk, call
  <2>2. Whole' = Whole /\ Stored(obj)' = Stored(obj) /\ Holders(obj)' = Holders(obj)
    BY <2>1 DEF Stored, Whole, Holders
  <2>3. CASE Found /\ UNCHANGED history
    BY <1>0, <2>1, <2>2, <2>3, OtherMiss DEF Found, Answer, history
  <2>4. CASE Changed({obj}) /\ Answer("ok")
    <3>1. owed' \in 0 .. owed /\ (owed' > 0 => Stored(obj)')
      BY <2>1, <2>4, ChangedOwed
    <3> QED  BY <2>4, <3>1, OtherMiss DEF Answer
  <2>5. CASE obj \notin loose /\ LooseMissing /\ UNCHANGED history
    <3>1. pc' = "refresh" /\ todo' = Packs /\ UNCHANGED <<status, owed>>
      BY <2>5 DEF LooseMissing, history
    <3>2. owed = 1 => Whole \cap Holders(obj) # {}
      BY <1>0, <2>5 DEF Stored
    <3>3. Whole \subseteq Packs
      BY DEF TypeOK, Whole
    <3>4. kind \in Lookups => owed # 2
      BY <2>1, <2>5 DEF MissInv
    <3>5. owed' = 1 => Whole' \cap (listed' \cup todo') \cap Holders(obj)' # {}
      BY <2>2, <3>1, <3>2, <3>3
    <3> QED  BY <1>0, <2>1, <2>2, <3>1, <3>4, <3>5 DEF MissInv
  <2> QED  BY <1>7, <2>3, <2>4, <2>5 DEF Loose
<1>8. ASSUME NEW q \in Packs, List(q)
      PROVE  MissInv'
  <2>1. UNCHANGED <<loose, idx, pack, obj, kind, again, pc, status, owed>> /\ pc = "refresh"
    BY <1>8 DEF List, disk, call, history
  <2>2. Whole' = Whole /\ Stored(obj)' = Stored(obj) /\ Holders(obj)' = Holders(obj)
    BY <2>1 DEF Stored, Whole, Holders
  <2>3. Whole \cap (listed' \cup todo') = Whole \cap (listed \cup todo)
    BY <1>8 DEF List
  <2> QED  BY <2>1, <2>2, <2>3 DEF MissInv
<1>9. CASE Refreshed
  <2>1. UNCHANGED <<loose, idx, pack, listed, obj, kind, owed>> /\ pc = "refresh" /\ todo = {}
    BY <1>9 DEF Refreshed, disk, process, history
  <2>2. Whole' = Whole /\ Stored(obj)' = Stored(obj) /\ Holders(obj)' = Holders(obj)
    BY <2>1 DEF Stored, Whole, Holders
  <2>3. CASE kind = "refresh" /\ Answer("ok")
    BY <1>0, <2>1, <2>2, <2>3, OtherMiss DEF Answer
  <2>4. CASE again' /\ pc' = "packs" /\ todo' = listed /\ UNCHANGED status
    <3>1. kind \in Lookups => owed # 2 /\ (owed = 1 => Ahead')
      BY <2>1, <2>2, <2>4 DEF MissInv, Ahead
    <3> QED  BY <1>0, <2>1, <2>2, <2>4, <3>1 DEF MissInv
  <2> QED  BY <1>9, <2>3, <2>4 DEF Refreshed, Retry
<1>10. CASE Store
  <2>1. UNCHANGED <<obj, kind>> /\ pc = "store" /\ pc' = "idle"
    BY <1>10 DEF Store, call, Answer
  <2>2. kind \in Lookups => owed = 0
    BY <2>1 DEF MissInv
  <2>3. status' = "notfound" => owed = 0
    BY <1>10, <2>2 DEF Store, Answer
  <2>4. CASE UNCHANGED <<loose, history>>
    <3>1. UNCHANGED <<idx, pack, owed>>
      BY <1>10, <2>4 DEF Store, history
    <3>2. Stored(obj)' = Stored(obj)
      BY <2>1, <2>4, <3>1 DEF Stored, Whole, Holders
    <3> QED  BY <1>0, <2>1, <2>3, <3>1, <3>2, OtherMiss
  <2>5. CASE Changed({obj})
    <3>1. owed' \in 0 .. owed /\ (owed' > 0 => Stored(obj)')
      BY <2>1, <2>5, ChangedOwed
    <3> QED  BY <2>1, <2>3, <3>1, OtherMiss
  <2> QED  BY <1>10, <2>4, <2>5 DEF Store
<1>11. CASE InstallIndex \/ InstallPack
  <2>1. UNCHANGED <<loose, obj, kind>> /\ pc' \in {"idle", "pack"}
    BY <1>11 DEF InstallIndex, InstallPack, call, Answer
  <2>2. status' # "notfound" \/ UNCHANGED status
    BY <1>11 DEF InstallIndex, InstallPack, Answer
  <2>3. CASE UNCHANGED <<idx, pack, history>>
    <3>1. Stored(obj)' = Stored(obj) /\ owed' = owed
      BY <2>1, <2>3 DEF Stored, Whole, Holders, history
    <3> QED  BY <1>0, <2>1, <2>2, <3>1, OtherMiss
  <2>4. ASSUME NEW fresh, Changed(fresh)
        PROVE  MissInv'
    <3>1. owed' \in 0 .. owed /\ (owed' > 0 => Stored(obj)')
      BY <2>1, <2>4, ChangedOwed
    <3> QED  BY <2>1, <2>2, <3>1, OtherMiss
  <2> QED  BY <1>11, <2>3, <2>4 DEF InstallIndex, InstallPack
<1>12. CASE Reopen
  <2>1. UNCHANGED <<loose, idx, pack, obj, owed>> /\ pc' = "refresh" /\ kind' = "refresh"
        /\ status' = "none"
    BY <1>12 DEF Reopen, disk, history
  <2> QED  BY <1>0, <2>1 DEF MissInv, Lookups, Stored, Whole, Holders
<1>13. ASSUME NEW fresh, Environment(fresh)
       PROVE  MissInv'
  BY <1>13, ChangedMiss DEF Environment, process, call
<1>14. ASSUME NEW o \in Objects, OthersStore(o) \/ OthersUnlink(o)
       PROVE  MissInv'
  BY <1>13, <1>14 DEF OthersStore, OthersUnlink
<1>15. ASSUME NEW q \in Packs, OthersPut(q) \/ OthersDrop(q)
       PROVE  MissInv'
  BY <1>13, <1>15 DEF OthersPut, OthersDrop
<1>16. CASE Tick
  BY <1>16 DEF Tick, disk, call, MissInv, Ahead, Stored, Whole, Holders
<1> QED  BY <1>1, <1>2, <1>3, <1>4, <1>5, <1>6, <1>7, <1>8, <1>9, <1>10, <1>11, <1>12,
            <1>14, <1>15, <1>16 DEF Next

\* A lookup answers "not found" of an object that is stored throughout only if a copy
\* was removed while it ran, and two copies if it knew one when it began: the order
\* packs, loose objects, packs again leaves no other way past the object.
THEOREM NothingMissedAlways == Spec => []NothingMissed
<1>1. Init => IInv
  BY InitType, InitFresh DEF IInv, Init, MissInv, Lookups
<1>2. IInv /\ [Next]_vars => IInv'
  <2>1. CASE UNCHANGED vars
    BY <2>1 DEF IInv, TypeOK, FreshInv, AgesInv, RecentInv, TouchInv, Freshened, MissInv,
                Ahead, Stored, Whole, Holders, vars, disk, process, call, history
  <2>2. CASE Next
    BY <2>2, TypeStep, FreshStep, MissStep DEF IInv, FreshInv
  <2> QED  BY <2>1, <2>2
<1>3. IInv => NothingMissed
  BY DEF IInv, MissInv, NothingMissed
<1> QED  BY <1>1, <1>2, <1>3, PTL DEF Spec

=============================================================================
