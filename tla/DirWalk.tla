------------------------------- MODULE DirWalk -------------------------------
(***************************************************************************)
(* tsk_fs_dir_walk (sleuthkit/tsk/fs/fs_dir.c): several threads walk the   *)
(* directories of one open file system, each with a DENT_DINFO of its own. *)
(* A walk of everything from the root also collects, on the way, the       *)
(* addresses of deleted inodes that still have a name, and a walk that     *)
(* ends well hands its list over to the file system, where the search for  *)
(* orphan files looks it up.                                               *)
(*                                                                         *)
(* The recursion of tsk_fs_dir_walk_lcl is the stack frames.  Each entry   *)
(* of a directory is one step; what is shared, list_inum_named, is read    *)
(* and set in one step each, as list_inum_named_lock makes it.  A TSK_LIST *)
(* is the set TskList shows it to be, NULL when nothing was added; a name  *)
(* on the path is the address it leads to.  DIR_STRSZ is never reached.    *)
(***************************************************************************)
EXTENDS Integers, Sequences

CONSTANTS
    Threads,
    Inodes, Root, Orphan,  \* metadata addresses, root_inum, TSK_FS_ORPHANDIR_INUM
    Images,                \* the file systems looked at
    Answers,               \* what callbacks may return
    Flags,                 \* a_flags of the walks
    Starts,                \* a_addr of the walks
    OutOfMemory,           \* those on which memory may run out on the way
    MaxDepth,              \* MAX_DEPTH, 128
    MaxWalks,              \* bound: walks in a behaviour
    Null

ASSUME AddressesAssumption == Root \in Inodes /\ Orphan \in Inodes /\ Root # Orphan
ASSUME AnswersAssumption == Answers \subseteq {"CONT", "STOP", "ERROR"}
ASSUME MaxDepthAssumption == MaxDepth \in Nat /\ MaxWalks \in Nat
ASSUME MemoryAssumption == OutOfMemory \subseteq Images
ASSUME NoListAssumption == \A S \in SUBSET Inodes : S # Null

Names == [addr : Inodes, alloc : BOOLEAN, type : {"dir", "reg", "undef"}, dot : BOOLEAN]
Metas == [type : {"dir", "reg"}, alloc : BOOLEAN]

\* The names in a directory, the metadata, the directories that cannot be
\* opened, the inodes whose metadata cannot be loaded.
ImageType ==
    [names : [Inodes -> Seq(Names)], meta : [Inodes -> Metas],
     unreadable : SUBSET Inodes, unloadable : SUBSET Inodes]

FlagType == [alloc : BOOLEAN, unalloc : BOOLEAN, recurse : BOOLEAN, noorphan : BOOLEAN]

ASSUME ImagesAssumption == Images \subseteq ImageType
ASSUME WalksAssumption == Flags \subseteq FlagType /\ Starts \subseteq Inodes

VARIABLES
    img,
    list,       \* a_fs->list_inum_named
    walks,      \* walks begun, for the bound
    \* per thread: where it is, its arguments, the calls of dir_walk_lcl on
    \* its stack, the fields of its DENT_DINFO, what dir_walk_lcl returned
    pc, start, flags, frames, stack_seen, dirs, save, collected, retval,
    \* history: entries given to the callback; whether it ever answered ERROR
    called, refused,
    sets        \* history: how often list was set

local == <<pc, start, flags, frames, stack_seen, dirs, save, collected, retval>>
vars == <<img, list, sets, walks, local, called, refused>>

-------------------------------------------------------------------------------
(* The file system.                                                        *)

CanOpen(a) == img.meta[a].type = "dir" /\ a \notin img.unreadable

HasMeta(e) == e.addr \notin img.unloadable

\* The names of files whose metadata is not allocated are worth keeping.
Deleted(e) == HasMeta(e) /\ ~img.meta[e.addr].alloc

\* (flags & a_flags) == flags of a name.
Matches(e, f) == IF e.alloc THEN f.alloc ELSE f.unalloc

\* Whether the walk goes into the directory an entry names.
Recurses(e, f) ==
    /\ e.type \in {"dir", "undef"}
    /\ HasMeta(e) /\ img.meta[e.addr].type = "dir"
    /\ f.recurse
    /\ e.alloc \/ Deleted(e)
    /\ ~e.dot
    /\ e.addr # Orphan \/ ~f.noorphan

\* With neither kind of name asked for, both are.
Sane(f) == IF ~f.alloc /\ ~f.unalloc THEN [f EXCEPT !.alloc = TRUE, !.unalloc = TRUE] ELSE f

-------------------------------------------------------------------------------
(* A thread's place in its walk.                                           *)

Frame(d, bak) == [dir |-> d, i |-> 1, bak |-> bak]
Top(s) == s[Len(s)]
PopOf(s) == SubSeq(s, 1, Len(s) - 1)

Here(t) == Top(frames[t])
Entry(t) == img.names[Here(t).dir][Here(t).i]
AtEntry(t) == pc[t] = "walking" /\ Here(t).i <= Len(img.names[Here(t).dir])
AtEnd(t) == pc[t] = "walking" /\ Here(t).i > Len(img.names[Here(t).dir])

\* i++ in the topmost of some frames.
Advanced(fs) == [fs EXCEPT ![Len(fs)].i = @ + 1]

\* Mutant of Called: only files whose metadata was loaded are shown.
CalledIfLoaded(t) == Matches(Entry(t), flags[t]) /\ HasMeta(Entry(t))

\* The entry goes to the callback; what it answers is up to the caller.
Called(t) == Matches(Entry(t), flags[t])
Note(t) ==
    called' = [called EXCEPT ![t] = IF Called(t) THEN @ \cup {<<Here(t).dir, Here(t).i>>} ELSE @]

-------------------------------------------------------------------------------
Init ==
    /\ img \in Images
    /\ list = Null
    /\ sets = 0
    /\ walks = 0
    /\ pc = [t \in Threads |-> "idle"]
    /\ start = [t \in Threads |-> Root]
    /\ flags = [t \in Threads |-> CHOOSE f \in Flags : TRUE]
    /\ frames = [t \in Threads |-> <<>>]
    /\ stack_seen = [t \in Threads |-> <<>>]
    /\ dirs = [t \in Threads |-> <<>>]
    /\ save = [t \in Threads |-> FALSE]
    /\ collected = [t \in Threads |-> Null]
    /\ retval = [t \in Threads |-> "CONT"]
    /\ called = [t \in Threads |-> {}]
    /\ refused = [t \in Threads |-> FALSE]

\* A walk of a with flags f.  The list is collected if the file system has
\* none and everything is walked.
WalkFrom(t, a, f) ==
    /\ start' = [start EXCEPT ![t] = a]
    /\ flags' = [flags EXCEPT ![t] = Sane(f)]
    /\ save' = [save EXCEPT ![t] = list = Null /\ a = Root /\ f.recurse]
    /\ IF CanOpen(a)
       THEN /\ pc' = [pc EXCEPT ![t] = "walking"]
            /\ frames' = [frames EXCEPT ![t] = <<Frame(a, FALSE)>>]
            /\ retval' = [retval EXCEPT ![t] = "CONT"]
       ELSE /\ pc' = [pc EXCEPT ![t] = "walked"]
            /\ retval' = [retval EXCEPT ![t] = "ERROR"]
            /\ UNCHANGED frames
    /\ called' = [called EXCEPT ![t] = {}]
    /\ UNCHANGED <<img, list, sets, stack_seen, dirs, collected, refused>>

Begin(t) ==
    /\ pc[t] = "idle" /\ walks < MaxWalks
    /\ walks' = walks + 1
    /\ \E a \in Starts, f \in Flags : WalkFrom(t, a, f)

\* The outermost call of dir_walk_lcl returns r; the stack is freed.
Returns(t, r) ==
    /\ pc' = [pc EXCEPT ![t] = "walked"]
    /\ retval' = [retval EXCEPT ![t] = r]
    /\ frames' = [frames EXCEPT ![t] = <<>>]
    /\ stack_seen' = [stack_seen EXCEPT ![t] = <<>>]
    /\ dirs' = [dirs EXCEPT ![t] = <<>>]

\* Mutant of Back: the name is taken off the path though it was not put on.
BackTrimming(t) ==
    /\ frames' = [frames EXCEPT ![t] = Advanced(PopOf(@))]
    /\ stack_seen' = [stack_seen EXCEPT ![t] = PopOf(@)]
    /\ dirs' = [dirs EXCEPT ![t] = SubSeq(@, 1, Len(@) - 1)]
    /\ save' = [save EXCEPT ![t] = IF Here(t).dir = Orphan THEN Here(t).bak ELSE @]
    /\ UNCHANGED <<pc, retval>>

\* An inner call returns to the one that made it, whatever it returns: the
\* address comes off the stack, the name off the path if it was put on it,
\* and after $OrphanFiles the flag is what it was.
Back(t) ==
    /\ frames' = [frames EXCEPT ![t] = Advanced(PopOf(@))]
    /\ stack_seen' = [stack_seen EXCEPT ![t] = PopOf(@)]
    /\ dirs' = [dirs EXCEPT ![t] = SubSeq(@, 1, IF Len(@) < Len(stack_seen[t]) THEN Len(@) ELSE Len(@) - 1)]
    /\ save' = [save EXCEPT ![t] = IF Here(t).dir = Orphan THEN Here(t).bak ELSE @]
    /\ UNCHANGED <<pc, retval>>

\* Mutant of VisitStop: the partial list is kept.
VisitStopKeeping(t) ==
    /\ AtEntry(t) /\ Called(t) /\ "STOP" \in Answers
    /\ Note(t)
    /\ Returns(t, "CONT")
    /\ UNCHANGED <<img, list, sets, walks, start, flags, save, collected, refused>>

\* STOP from the callback: the list is freed if it was being made, and every
\* call on the stack returns at once.
VisitStop(t) ==
    /\ AtEntry(t) /\ Called(t) /\ "STOP" \in Answers
    /\ Note(t)
    /\ collected' = [collected EXCEPT ![t] = IF save[t] THEN Null ELSE @]
    /\ save' = [save EXCEPT ![t] = FALSE]
    /\ Returns(t, "STOP")
    /\ UNCHANGED <<img, list, sets, walks, start, flags, refused>>

\* ERROR from the callback: only this call returns.
VisitError(t) ==
    /\ AtEntry(t) /\ Called(t) /\ "ERROR" \in Answers
    /\ Note(t)
    /\ refused' = [refused EXCEPT ![t] = TRUE]
    /\ IF Len(frames[t]) = 1 THEN Returns(t, "ERROR") /\ UNCHANGED save ELSE Back(t)
    /\ UNCHANGED <<img, list, sets, walks, start, flags, collected>>

\* What save_inum_named and list_inum_named may be after the entry; without
\* memory for a new bucket collecting is given up.
AfterAdd(t) ==
    IF save[t] /\ Deleted(Entry(t))
    THEN {[save |-> TRUE,
           list |-> (IF collected[t] = Null THEN {} ELSE collected[t]) \cup {Entry(t).addr}]}
         \cup {r \in {[save |-> FALSE, list |-> Null]} : img \in OutOfMemory}
    ELSE {[save |-> save[t], list |-> collected[t]]}

\* Whether the walk goes down from here; what is on the way from the start
\* is not entered again.
Enters(t) ==
    /\ Recurses(Entry(t), flags[t])
    /\ ~\E k \in DOMAIN stack_seen[t] : stack_seen[t][k] = Entry(t).addr

\* The callback answers CONT, or is not called: the entry is collected ...
Goes(t) == AtEntry(t) /\ (Called(t) => "CONT" \in Answers) /\ Note(t)

\* Mutant of PassBy: the entry is tried again when it cannot be opened.
PassByRetrying(t) ==
    /\ Goes(t)
    /\ ~Enters(t) \/ ~CanOpen(Entry(t).addr)
    /\ \E c \in AfterAdd(t) :
        /\ collected' = [collected EXCEPT ![t] = c.list]
        /\ save' = [save EXCEPT ![t] = c.save]
    /\ frames' = [frames EXCEPT ![t] = IF Enters(t) THEN @ ELSE Advanced(@)]
    /\ UNCHANGED <<img, list, sets, walks, pc, start, flags, stack_seen, dirs, retval, refused>>

\* ... and the walk goes on to the next, past a directory that it has on its
\* stack or that cannot be opened too.
PassBy(t) ==
    /\ Goes(t)
    /\ ~Enters(t) \/ ~CanOpen(Entry(t).addr)
    /\ \E c \in AfterAdd(t) :
        /\ collected' = [collected EXCEPT ![t] = c.list]
        /\ save' = [save EXCEPT ![t] = c.save]
    /\ frames' = [frames EXCEPT ![t] = Advanced(@)]
    /\ UNCHANGED <<img, list, sets, walks, pc, start, flags, stack_seen, dirs, retval, refused>>

\* ... and the walk goes into the directory; nothing is collected in
\* $OrphanFiles.
Descend(t) ==
    /\ Goes(t)
    /\ Enters(t) /\ CanOpen(Entry(t).addr)
    /\ \E c \in AfterAdd(t) :
        /\ collected' = [collected EXCEPT ![t] = c.list]
        /\ save' = [save EXCEPT ![t] = c.save /\ Entry(t).addr # Orphan]
        /\ frames' = [frames EXCEPT ![t] = Append(@, Frame(Entry(t).addr, c.save))]
    /\ stack_seen' = [stack_seen EXCEPT ![t] = Append(@, Entry(t).addr)]
    /\ dirs' = [dirs EXCEPT ![t] =
                   IF Len(stack_seen[t]) < MaxDepth THEN Append(@, Entry(t).addr) ELSE @]
    /\ UNCHANGED <<img, list, sets, walks, pc, start, flags, retval, refused>>

\* A directory is through.
Leave(t) ==
    /\ AtEnd(t)
    /\ IF Len(frames[t]) = 1 THEN Returns(t, "CONT") /\ UNCHANGED save ELSE Back(t)
    /\ UNCHANGED <<img, list, sets, walks, start, flags, collected, called, refused>>

\* Mutant of Finish: the file system's list is set without another look.
FinishOverwriting(t) ==
    /\ pc[t] = "walked"
    /\ IF save[t] /\ retval[t] = "CONT"
       THEN list' = collected[t] /\ sets' = sets + 1
       ELSE UNCHANGED <<list, sets>>
    /\ collected' = [collected EXCEPT ![t] = Null]
    /\ pc' = [pc EXCEPT ![t] = "idle"]
    /\ UNCHANGED <<img, walks, start, flags, frames, stack_seen, dirs, save, retval, called, refused>>

\* Back in tsk_fs_dir_walk: the list made on the way becomes the file
\* system's if the walk went through and no other has come first.
Finish(t) ==
    /\ pc[t] = "walked"
    /\ IF save[t] /\ retval[t] = "CONT" /\ list = Null
       THEN list' = collected[t] /\ sets' = sets + 1
       ELSE UNCHANGED <<list, sets>>
    /\ collected' = [collected EXCEPT ![t] = Null]
    /\ pc' = [pc EXCEPT ![t] = "idle"]
    /\ UNCHANGED <<img, walks, start, flags, frames, stack_seen, dirs, save, retval, called, refused>>

Walking(t) ==
    VisitStop(t) \/ VisitError(t) \/ PassBy(t) \/ Descend(t) \/ Leave(t) \/ Finish(t)

AllIdle == walks = MaxWalks /\ \A t \in Threads : pc[t] = "idle"

Next ==
    \/ \E t \in Threads : Begin(t) \/ Walking(t)
    \/ AllIdle /\ UNCHANGED vars

Spec == Init /\ [][Next]_vars

\* A thread inside tsk_fs_dir_walk keeps running; its callbacks return.
FairSpec == Spec /\ \A t \in Threads : WF_vars(Walking(t))

-------------------------------------------------------------------------------
(* Properties.                                                             *)

\* Type correctness.
TypeOK ==
    /\ list = Null \/ list \in SUBSET Inodes
    /\ \A t \in Threads :
        /\ pc[t] \in {"idle", "walking", "walked"}
        /\ pc[t] = "walking" <=> frames[t] # <<>>
        /\ \A k \in DOMAIN frames[t] :
            /\ frames[t][k].dir \in Inodes /\ CanOpen(frames[t][k].dir)
            /\ frames[t][k].i \in 1..(Len(img.names[frames[t][k].dir]) + 1)
        /\ collected[t] = Null \/ collected[t] \in SUBSET Inodes
        /\ retval[t] \in {"CONT", "STOP", "ERROR"}

\* The directories a walk from a with flags f is to go through.
Through(a, f) ==
    LET Closed(S) == \A d \in S : \A i \in DOMAIN img.names[d] :
            Recurses(img.names[d][i], f) /\ CanOpen(img.names[d][i].addr)
                => img.names[d][i].addr \in S
    IN {d \in Inodes : \A S \in SUBSET Inodes : a \in S /\ Closed(S) => d \in S}

\* The deleted inodes that have a name outside $OrphanFiles.
NamedDeleted ==
    {img.names[p[1]][p[2]].addr : p \in {p \in UNION {{d} \X DOMAIN img.names[d] :
        d \in Through(Root, [alloc |-> TRUE, unalloc |-> TRUE, recurse |-> TRUE, noorphan |-> TRUE])} :
        Deleted(img.names[p[1]][p[2]])}}

\* The file system's list names every deleted inode that has a name and no
\* other: it is never the list of a walk that was stopped or went another way
\* (fs_dir.c:695-697), nor one that $OrphanFiles has been counted into
\* (fs_dir.c:592-595).  With less in it named files show up as orphans, with
\* more orphans are lost.  An ERROR of the callback below the start is the one
\* thing that spoils it: the walk goes on without the rest of that directory.
ListIsComplete == list # Null /\ (\A t \in Threads : ~refused[t]) => list = NamedDeleted

\* Once the file system has its list no later walk replaces it: a search for
\* orphans that looks it up inode by inode sees one list throughout.
ListIsSetOnce == [][list # Null => UNCHANGED <<list, sets>>]_vars

\* A walk that returns CONT, of a thread that met with no ERROR, has shown the callback every
\* name of the kind asked for, in every directory it is to go through, however
\* the directories point at each other.
EveryNameIsShown ==
    \A t \in Threads : pc[t] = "walked" /\ retval[t] = "CONT" /\ ~refused[t] =>
        called[t] = {p \in UNION {{d} \X DOMAIN img.names[d] : d \in Through(start[t], flags[t])} :
                        Matches(img.names[p[1]][p[2]], flags[t])}

\* The path the callback gets is the way down from the start, cut at MAX_DEPTH.
PathIsTheWayDown ==
    \A t \in Threads :
        dirs[t] = [k \in 1..(IF Len(frames[t]) - 1 < MaxDepth THEN
                                 IF frames[t] = <<>> THEN 0 ELSE Len(frames[t]) - 1
                             ELSE MaxDepth) |-> frames[t][k + 1].dir]

\* Every walk ends, on directories that contain each other too.
WalksEnd == \A t \in Threads : pc[t] = "walking" ~> pc[t] = "idle"

===============================================================================
