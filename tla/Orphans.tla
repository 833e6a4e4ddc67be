------------------------------- MODULE Orphans -------------------------------
(***************************************************************************)
(* tsk_fs_dir_find_orphans (sleuthkit/tsk/fs/fs_dir.c): threads open the   *)
(* virtual directory $OrphanFiles of one file system while others walk it. *)
(* A search holds orphan_dir_lock from end to end.  It has the root walked *)
(* if no walk has left a list of named inodes behind, goes through the     *)
(* unallocated inodes, adds those without a name, and has every directory  *)
(* among them walked to mark what is in it; entries that were added before *)
(* the directory they are in are taken out again, and the result is kept   *)
(* for the next search.                                                    *)
(*                                                                         *)
(* The walks are those of DirWalk, entry by entry, with the callback the   *)
(* search gives them.  A walk that enters $OrphanFiles searches as a       *)
(* thread of its own, which it waits for; the walks of the users here keep *)
(* out of it.  An entry is the address it leads to; an inode of which no   *)
(* metadata can be read makes the inode walk skip it or fail, as the file  *)
(* systems differ in that.                                                 *)
(*                                                                         *)
(* A FAT12, FAT16 or FAT32 file system also remembers where directories    *)
(* were found: opening one looks its parent up (sleuthkit/tsk/fs/          *)
(* fatxxfs_dent.c, fatfs_dent.cpp), under a lock that is held for no more  *)
(* than that.                                                              *)
(***************************************************************************)
EXTENDS DirWalk

CONSTANTS
    FatImages,          \* the images of FAT file systems
    MaxSearches,        \* bound: searches in a behaviour
    TSK_ERR             \* what a search that fails returns

ASSUME SearchesAssumption == MaxSearches \in Nat
ASSUME NullAssumption == Null \notin Threads \cup Inodes
\* "FAT only knows DIR and FILE" (fatxxfs_dent.c:324); walks of FAT file systems
\* that do not start at the root may have to look for a parent first.
ASSUME FatAssumption ==
    /\ FatImages \subseteq Images
    /\ \A m \in FatImages : \A d \in Inodes : \A i \in DOMAIN m.names[d] : m.names[d][i].type # "undef"
    /\ FatImages # {} => Starts \subseteq {Root}
\* The metadata made up for $OrphanFiles (fs_dir.c:777).
ASSUME OrphanAssumption == \A m \in Images : m.meta[Orphan].alloc
ASSUME UserWalksAssumption == \A f \in Flags : f.noorphan
ASSUME CallbackAssumption == {"CONT", "STOP"} \subseteq Answers

VARIABLES
    orphan_dir_lock,    \* the thread that holds it
    orphan_dir,         \* a_fs->orphan_dir
    inum2par,           \* fatfs->inum2par: where the ".." of a directory leads
    searches,           \* searches begun, for the bound
    \* per thread: where its search is; the unallocated inodes the inode walk
    \* has still to come to; a_fs_dir; orphan_subdir_list; the last result
    at, todo, dir, subdirs, answer

search == <<at, todo, dir, subdirs, answer>>
shared == <<orphan_dir_lock, orphan_dir>>
orphanVars == <<shared, searches, search>>
allVars == <<vars, orphanVars, inum2par>>

-------------------------------------------------------------------------------
\* The flags of the walks a search makes.
Marking == [alloc |-> FALSE, unalloc |-> TRUE, recurse |-> TRUE, noorphan |-> TRUE]

\* What the inode walk with UNALLOC and USED is to come to.
Unallocated == {a \in Inodes : ~img.meta[a].alloc}

\* names[i] is replaced by the last name.
DropAt(s, i) == SubSeq([s EXCEPT ![i] = Top(s)], 1, Len(s) - 1)

\* Mutant of DeDup: a file that is marked stays, its directory goes.
DeDupInverted(s, marked) ==
    LET left[i \in 0..Len(s)] ==
            IF i = 0 THEN s
            ELSE IF i <= Len(left[i - 1]) /\ left[i - 1][i] \notin marked
                 THEN DropAt(left[i - 1], i) ELSE left[i - 1]
    IN left[Len(s)]

\* The loop that takes out what can be reached from a subdirectory: what is
\* left after i rounds.
DeDup(s, marked) ==
    LET left[i \in 0..Len(s)] ==
            IF i = 0 THEN s
            ELSE IF i <= Len(left[i - 1]) /\ left[i - 1][i] \in marked
                 THEN DropAt(left[i - 1], i) ELSE left[i - 1]
    IN left[Len(s)]

-------------------------------------------------------------------------------
(* What FAT knows of the parents of directories.                           *)

\* fatfs_dir_buf_add.
WithParent(a, d) == IF img \in FatImages THEN [inum2par EXCEPT ![a] = d] ELSE inum2par

\* An entry the parser notes for the directory it names.
IsSubdir(e) == e.type = "dir" /\ ~e.dot /\ e.addr # Orphan

\* To open a directory is to note it for all directories listed in it.  (Its
\* own ".." is looked up too: OpenedAreKnown.)
Parsed(par, d) ==
    LET Lists(a) == \E i \in DOMAIN img.names[d] :
                        IsSubdir(img.names[d][i]) /\ img.names[d][i].addr = a
    IN IF img \in FatImages THEN [a \in Inodes |-> IF Lists(a) THEN d ELSE par[a]] ELSE par

\* What a step of a walk adds to par: it may open a directory.
Opens(t, par) ==
    inum2par' = IF Len(frames'[t]) > Len(frames[t]) THEN Parsed(par, Top(frames'[t]).dir) ELSE par

-------------------------------------------------------------------------------
InitOrphans ==
    /\ Init
    /\ orphan_dir_lock = Null
    /\ orphan_dir = Null
    /\ inum2par = [a \in Inodes |-> Null]
    /\ searches = 0
    /\ at = [t \in Threads |-> "out"]
    /\ todo = [t \in Threads |-> {}]
    /\ dir = [t \in Threads |-> <<>>]
    /\ subdirs = [t \in Threads |-> {}]
    /\ answer = [t \in Threads |-> Null]

\* $OrphanFiles is opened; no walk of this thread is on its way.
OpenOrphans(t) ==
    /\ at[t] = "out" /\ pc[t] = "idle" /\ searches < MaxSearches
    /\ searches' = searches + 1
    /\ at' = [at EXCEPT ![t] = "waiting"]
    /\ answer' = [answer EXCEPT ![t] = Null]
    /\ UNCHANGED <<vars, shared, inum2par, todo, dir, subdirs>>

TakeOrphanLock(t) ==
    /\ at[t] = "waiting" /\ orphan_dir_lock = Null
    /\ orphan_dir_lock' = t
    /\ at' = [at EXCEPT ![t] = "locked"]
    /\ dir' = [dir EXCEPT ![t] = <<>>]
    /\ subdirs' = [subdirs EXCEPT ![t] = {}]
    /\ UNCHANGED <<vars, orphan_dir, inum2par, searches, todo, answer>>

\* The search returns r and lets go of the lock.
SearchReturns(t, r) ==
    /\ orphan_dir_lock' = Null
    /\ at' = [at EXCEPT ![t] = "out"]
    /\ todo' = [todo EXCEPT ![t] = {}]
    /\ dir' = [dir EXCEPT ![t] = <<>>]
    /\ subdirs' = [subdirs EXCEPT ![t] = {}]
    /\ answer' = [answer EXCEPT ![t] = r]

\* An earlier search has left its result, which is copied.
Cached(t) ==
    /\ at[t] = "locked" /\ orphan_dir # Null
    /\ \E r \in {orphan_dir} \cup {e \in {TSK_ERR} : img \in OutOfMemory} : SearchReturns(t, r)
    /\ UNCHANGED <<vars, orphan_dir, inum2par, searches>>

\* The inode walk starts from the first inode.
ToInodes(t) ==
    /\ at' = [at EXCEPT ![t] = "inodes"]
    /\ todo' = [todo EXCEPT ![t] = Unallocated]

\* tsk_fs_dir_load_inum_named: either there is a list already ...
ListIsThere(t) ==
    /\ at[t] = "locked" /\ orphan_dir = Null /\ list # Null
    /\ ToInodes(t)
    /\ UNCHANGED <<vars, shared, inum2par, searches, dir, subdirs, answer>>

\* ... or a walk of everything is to make one;
NoListYet(t) ==
    /\ at[t] = "locked" /\ orphan_dir = Null /\ list = Null
    /\ at' = [at EXCEPT ![t] = "naming"]
    /\ UNCHANGED <<vars, shared, inum2par, searches, todo, dir, subdirs, answer>>

\* its callback does nothing.  Another walk may have come first: then it
\* collects nothing.
LoadNamed(t) ==
    /\ at[t] = "naming"
    /\ WalkFrom(t, Root, Marking)
    /\ Opens(t, inum2par)
    /\ at' = [at EXCEPT ![t] = "loading"]
    /\ UNCHANGED <<walks, shared, searches, todo, dir, subdirs, answer>>

\* A walk of the search goes on; to open $OrphanFiles is to take the lock.
Walks(t) ==
    \/ PassBy(t)
    \/ Descend(t) /\ (Entry(t).addr = Orphan => orphan_dir_lock = Null)
    \/ Leave(t)

LoadStep(t) ==
    /\ at[t] = "loading"
    /\ Walks(t)
    /\ Opens(t, inum2par)
    /\ UNCHANGED orphanVars

LoadEnds(t) ==
    /\ at[t] = "loading" /\ Finish(t)
    /\ IF retval[t] = "ERROR"
       THEN SearchReturns(t, TSK_ERR)
       ELSE ToInodes(t) /\ UNCHANGED <<orphan_dir_lock, dir, subdirs, answer>>
    /\ UNCHANGED <<orphan_dir, inum2par, searches>>

-------------------------------------------------------------------------------
(* find_orphan_meta_walk_cb: the next unallocated inode.                   *)

\* No memory for the name all inodes are added with.
NameFails(t) ==
    /\ at[t] = "inodes" /\ todo[t] = Unallocated /\ img \in OutOfMemory
    /\ SearchReturns(t, TSK_ERR)
    /\ UNCHANGED <<vars, orphan_dir, inum2par, searches>>

\* The inode walk is at a; every file system goes through its inodes upwards
\* (ext2fs_inode_walk, ext2fs.c:1088-1169).
Comes(t, a) == at[t] = "inodes" /\ a \in todo[t] /\ \A b \in todo[t] : a <= b

GoesOn(t, a) == todo' = [todo EXCEPT ![t] = @ \ {a}]

\* Mutant of Known: only this search's own marks are looked at.
KnownByMarks(t, a) == a \in subdirs[t]

\* It has a name, or is in a directory that is an orphan.
Known(t, a) == (list # Null /\ a \in list) \/ a \in subdirs[t]

SkipInode(t, a) ==
    /\ Comes(t, a)
    /\ a \in img.unloadable \/ Known(t, a)
    /\ GoesOn(t, a)
    /\ UNCHANGED <<vars, shared, inum2par, searches, at, dir, subdirs, answer>>

\* The walk fails, at metadata that cannot be read or without memory to add
\* the inode or to note its parent.
InodeFails(t, a) ==
    /\ Comes(t, a)
    /\ a \in img.unloadable \/ (img \in OutOfMemory /\ ~Known(t, a))
    /\ SearchReturns(t, TSK_ERR)
    /\ UNCHANGED <<vars, orphan_dir, inum2par, searches>>

AddFile(t, a) ==
    /\ Comes(t, a)
    /\ a \notin img.unloadable /\ ~Known(t, a) /\ img.meta[a].type # "dir"
    /\ dir' = [dir EXCEPT ![t] = Append(@, a)]
    /\ GoesOn(t, a)
    /\ inum2par' = WithParent(a, Orphan)
    /\ UNCHANGED <<vars, shared, searches, at, subdirs, answer>>

\* Mutant of AddDirectory: its parent is noted after it has been walked.
AddDirectoryUnknown(t, a) ==
    /\ Comes(t, a)
    /\ a \notin img.unloadable /\ ~Known(t, a) /\ img.meta[a].type = "dir"
    /\ dir' = [dir EXCEPT ![t] = Append(@, a)]
    /\ GoesOn(t, a)
    /\ WalkFrom(t, a, Marking)
    /\ Opens(t, inum2par)
    /\ at' = [at EXCEPT ![t] = "marking"]
    /\ UNCHANGED <<walks, shared, searches, subdirs, answer>>

\* A directory is added and walked, to mark what is in it.
AddDirectory(t, a) ==
    /\ Comes(t, a)
    /\ a \notin img.unloadable /\ ~Known(t, a) /\ img.meta[a].type = "dir"
    /\ dir' = [dir EXCEPT ![t] = Append(@, a)]
    /\ GoesOn(t, a)
    /\ WalkFrom(t, a, Marking)
    /\ Opens(t, WithParent(a, Orphan))
    /\ at' = [at EXCEPT ![t] = "marking"]
    /\ UNCHANGED <<walks, shared, searches, subdirs, answer>>

-------------------------------------------------------------------------------
(* load_orphan_dir_walk_cb: an entry below an orphan directory.            *)

\* An entry the callback has something to do with.
Counts(t) == AtEntry(t) /\ Called(t) /\ ~Entry(t).dot /\ HasMeta(Entry(t))

\* It stops the walk at an allocated file and at one that is marked.
Refused(t) == Counts(t) /\ (~Deleted(Entry(t)) \/ Entry(t).addr \in subdirs[t])

\* What orphan_subdir_list may be after the entry: nobody looks whether it
\* could grow.
AfterMark(t) ==
    IF Counts(t)
    THEN {subdirs[t] \cup {Entry(t).addr}} \cup {s \in {subdirs[t]} : img \in OutOfMemory}
    ELSE {subdirs[t]}

MarkStop(t) ==
    /\ at[t] = "marking" /\ Refused(t)
    /\ VisitStop(t)
    /\ UNCHANGED <<orphanVars, inum2par>>

MarkStep(t) ==
    /\ at[t] = "marking" /\ ~Refused(t)
    /\ Walks(t)
    /\ Opens(t, IF Counts(t) /\ img.meta[Entry(t).addr].type = "dir"
                THEN WithParent(Entry(t).addr, Here(t).dir) ELSE inum2par)
    /\ \E s \in AfterMark(t) : subdirs' = [subdirs EXCEPT ![t] = s]
    /\ UNCHANGED <<shared, searches, at, todo, dir, answer>>

\* Mutant of MarkEnds: the lock is kept when the walk fails.
MarkEndsKeepingLock(t) ==
    /\ at[t] = "marking" /\ Finish(t)
    /\ IF retval[t] = "ERROR"
       THEN /\ at' = [at EXCEPT ![t] = "out"]
            /\ answer' = [answer EXCEPT ![t] = TSK_ERR]
       ELSE at' = [at EXCEPT ![t] = "inodes"] /\ UNCHANGED answer
    /\ UNCHANGED <<shared, inum2par, searches, todo, dir, subdirs>>

MarkEnds(t) ==
    /\ at[t] = "marking" /\ Finish(t)
    /\ IF retval[t] = "ERROR"
       THEN SearchReturns(t, TSK_ERR)
       ELSE /\ at' = [at EXCEPT ![t] = "inodes"]
            /\ UNCHANGED <<orphan_dir_lock, todo, dir, subdirs, answer>>
    /\ UNCHANGED <<orphan_dir, inum2par, searches>>

-------------------------------------------------------------------------------
\* All inodes seen: the result is cleaned up and a copy kept.
Result(t) == DeDup(dir[t], subdirs[t])
Seen(t) == at[t] = "inodes" /\ todo[t] = {}

\* Mutant of Keep: the copy is made before the names are cleaned up.
KeepEarly(t) ==
    /\ Seen(t)
    /\ orphan_dir' = dir[t]
    /\ SearchReturns(t, Result(t))
    /\ UNCHANGED <<vars, inum2par, searches>>

Keep(t) ==
    /\ Seen(t)
    /\ orphan_dir' = Result(t)
    /\ SearchReturns(t, Result(t))
    /\ UNCHANGED <<vars, inum2par, searches>>

\* No memory for the copy, for the names in it, or for the metadata of
\* $OrphanFiles, with the copy made.
KeepFails(t) ==
    /\ Seen(t) /\ img \in OutOfMemory
    /\ \E kept \in {Null, Result(t)} \cup {c \in {<<>>} : Result(t) # <<>>} : orphan_dir' = kept
    /\ SearchReturns(t, TSK_ERR)
    /\ UNCHANGED <<vars, inum2par, searches>>

-------------------------------------------------------------------------------
Searching(t) ==
    \/ TakeOrphanLock(t) \/ Cached(t) \/ ListIsThere(t) \/ NoListYet(t) \/ LoadNamed(t)
    \/ LoadStep(t) \/ LoadEnds(t) \/ NameFails(t)
    \/ \E a \in Inodes : SkipInode(t, a) \/ InodeFails(t, a) \/ AddFile(t, a) \/ AddDirectory(t, a)
    \/ MarkStop(t) \/ MarkStep(t) \/ MarkEnds(t)
    \/ Keep(t) \/ KeepFails(t)

UserWalk(t) ==
    /\ at[t] = "out"
    /\ Begin(t) \/ Walking(t)
    /\ Opens(t, inum2par)
    /\ UNCHANGED orphanVars

AllDone == AllIdle /\ searches = MaxSearches /\ \A t \in Threads : at[t] = "out"

NextOrphans ==
    \/ \E t \in Threads : OpenOrphans(t) \/ Searching(t) \/ UserWalk(t)
    \/ AllDone /\ UNCHANGED allVars

OrphansSpec == InitOrphans /\ [][NextOrphans]_allVars

\* A thread inside the library keeps running.
FairOrphansSpec ==
    /\ OrphansSpec
    /\ \A t \in Threads : WF_allVars(Searching(t)) /\ WF_allVars(UserWalk(t) /\ pc[t] # "idle")

-------------------------------------------------------------------------------
(* Properties.                                                             *)

\* Type correctness; who has a search on the way holds the lock.
OrphansTypeOK ==
    /\ TypeOK
    /\ orphan_dir = Null \/ orphan_dir \in Seq(Inodes)
    /\ \A t \in Threads :
        /\ at[t] \in {"out", "waiting", "locked", "naming", "loading", "inodes", "marking"}
        /\ orphan_dir_lock = t <=> at[t] \notin {"out", "waiting"}
        /\ at[t] \in {"loading", "marking"} => pc[t] # "idle"
        /\ todo[t] \subseteq Unallocated /\ subdirs[t] \subseteq Inodes
        /\ dir[t] \in Seq(Inodes)
        /\ answer[t] \in {Null, TSK_ERR} \cup Seq(Inodes)

Answered(t) == answer[t] \notin {Null, TSK_ERR}
Listed(t) == {answer[t][k] : k \in DOMAIN answer[t]}

\* The unallocated inodes that no name leads to.
TrueOrphans == (Unallocated \ img.unloadable) \ NamedDeleted

\* What a directory contains; what can be reached from the files S through
\* what directories contain.
Contents(d) ==
    IF CanOpen(d)
    THEN {img.names[d][i].addr : i \in {i \in DOMAIN img.names[d] : ~img.names[d][i].dot}}
    ELSE {}

Reached(S) ==
    LET Closed(T) == \A d \in T : Contents(d) \subseteq T
    IN {a \in Inodes : \A T \in SUBSET Inodes : S \subseteq T /\ Closed(T) => a \in T}

\* No directory contains one it is in: of any files there is one that none of
\* the others contains.
NoCycles ==
    \A S \in SUBSET Inodes : S # {} => \E a \in S : \A d \in S : a \notin Contents(d)

\* No orphan is lost: each is in $OrphanFiles or below a directory in it,
\* whatever the inode order, and wherever the marking of a directory was
\* stopped (fs_dir.c:887-944, 1121-1134), as long as memory lasts: without it
\* the first search may keep a copy that lists nothing.
EveryOrphanIsReached ==
    \A t \in Threads : Answered(t) /\ img \notin OutOfMemory => TrueOrphans \subseteq Reached(Listed(t))

\* $OrphanFiles lists only orphans: no file that some walk has found a name
\* for, however the walks of other threads come between, and none twice; as
\* long as memory lasts: without it the list of names may not be made.
OnlyOrphansAreListed ==
    \A t \in Threads : Answered(t) /\ img \notin OutOfMemory =>
        /\ Listed(t) \subseteq TrueOrphans
        /\ \A j, k \in DOMAIN answer[t] : answer[t][j] = answer[t][k] => j = k

\* All searches that succeed agree, from the first on; with one lock from end
\* to end the search is made once.
SearchesAgree ==
    \A t \in Threads : Answered(t) => answer[t] = orphan_dir

\* The parent of every FAT directory on the stack of a walk is known.
OpenedAreKnown ==
    img \in FatImages =>
        \A t \in Threads : \A k \in DOMAIN frames[t] :
            frames[t][k].dir # Root => inum2par[frames[t][k].dir] # Null

\* A search and a walk from the root know the parent of every FAT directory they
\* open, from the file that leads to it: the walk of everything that looks for an
\* unknown one (fatxxfs_dent.c:365-395), which enters $OrphanFiles, is never begun
\* by a thread that holds the lock (fs_dir.c:929-940, 995-999).  And what is known
\* of a directory is right: it is listed in its parent, or, as long as memory
\* lasts, an orphan.
ParentsAreKnown ==
    /\ OpenedAreKnown
    /\ img \in FatImages =>
        \A a \in Inodes :
            CASE inum2par[a] = Null -> TRUE
              [] inum2par[a] = Orphan -> a \in TrueOrphans \/ img \in OutOfMemory
              [] OTHER -> \E i \in DOMAIN img.names[inum2par[a]] :
                              img.names[inum2par[a]][i].addr = a

\* Every search comes to an end, and so does the waiting for it, on every error
\* path.  That no thread waits for the lock it holds itself is the reason for
\* TSK_FS_DIR_WALK_FLAG_NOORPHAN in fs_dir.c:868 and 1011.
SearchesEnd == \A t \in Threads : at[t] # "out" ~> at[t] = "out"

===============================================================================
