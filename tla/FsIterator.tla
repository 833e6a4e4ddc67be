------------------------------ MODULE FsIterator ------------------------------
(***************************************************************************)
(* Tsk::Fs::Iterator (lib/Tsk/Fs/Iterator.pm): one call of next returns    *)
(* one node of the file system, driving three stacks.  fdstack holds       *)
(* handles of directories and files still to return; a directory is put    *)
(* back when it is entered and popped again when its contents are through. *)
(* inumstack holds the addresses of the directories entered, for good.     *)
(* pathstack holds the names that get_current_path joins.                  *)
(*                                                                         *)
(* The library underneath is a directory graph: which entries a directory  *)
(* lists and which directories cannot be opened.  A directory the library  *)
(* cannot open is a handle all the same, whose address is 0.  The name     *)
(* pushed on pathstack is looked up by address, so it is the address here. *)
(***************************************************************************)
EXTENDS Integers, Sequences

CONSTANTS
    Inodes,  \* metadata addresses of directories
    Volumes  \* the volumes looked at, see VolumeType

\* What getMetaAddr says of a directory that was not opened (tsk_fs.h:2985).
NoAddr == 0

\* A directory that can be opened has another address than one that cannot.
ASSUME InodesAssumption == Inodes \subseteq Nat \ {NoAddr}

\* What a directory lists: "." and "..", directories, and everything else,
\* entries whose metadata cannot be loaded included.
Dot == [kind |-> "dot"]
SubDir(a) == [kind |-> "dir", addr |-> a]
Leaf == [kind |-> "file"]
Entries == {Dot, Leaf} \cup {SubDir(a) : a \in Inodes}

VolumeType == [root : Inodes \cup {NoAddr}, entries : [Inodes -> Seq(Entries)],
               unreadable : SUBSET Inodes]

ASSUME VolumesAssumption == Volumes \subseteq VolumeType

VARIABLES
    vol,        \* fs_info: the volume
    fdstack,
    pathstack,
    inumstack,  \* only ever pushed to and searched: a set
    result,     \* what the last call of next returned
    files       \* history: how often each file entry was returned

vars == <<vol, fdstack, pathstack, inumstack, result, files>>

DirHandle(a) == [type |-> "dir", addr |-> a]
FileHandle(d, i) == [type |-> "file", dir |-> d, nr |-> i]
None == [type |-> "undef"]

-------------------------------------------------------------------------------
(* The library: what the handles of a volume v see.                        *)

\* tsk_fs_dir_open_meta failed: the wrapper keeps NULL, its address reads 0.
INumToDir(v, a) ==
    DirHandle(IF a \in Inodes \ v.unreadable THEN a ELSE NoAddr)

\* getSize of a NULL directory is 0.
Listing(v, a) == IF a \in Inodes \ v.unreadable THEN v.entries[a] ELSE <<>>

FileEntries(v, a) == {i \in DOMAIN Listing(v, a) : Listing(v, a)[i] = Leaf}
DirEntries(v, a) == {i \in DOMAIN Listing(v, a) : Listing(v, a)[i].kind = "dir"}

\* The members of S up to n, as a loop over 1..n comes to them.
InOrder(n, S) ==
    LET upto[i \in 0..n] ==
            IF i = 0 THEN <<>>
            ELSE IF i \in S THEN Append(upto[i - 1], i) ELSE upto[i - 1]
    IN upto[n]

\* get_separated: handles for the directories and for the files of a
\* directory, in order, "." and ".." left out.
SeparatedDirs(v, a) ==
    LET listed == InOrder(Len(Listing(v, a)), DirEntries(v, a))
    IN [k \in DOMAIN listed |-> INumToDir(v, Listing(v, a)[listed[k]].addr)]

\* Mutant of SeparatedFiles: the loop ends at a directory that cannot be opened.
SeparatedFilesUpToFailure(v, a) ==
    LET failed == {i \in DirEntries(v, a) : Listing(v, a)[i].addr \in v.unreadable}
        listed == InOrder(Len(Listing(v, a)), {i \in FileEntries(v, a) : \A j \in failed : i < j})
    IN [k \in DOMAIN listed |-> FileHandle(a, listed[k])]

SeparatedFiles(v, a) ==
    LET listed == InOrder(Len(Listing(v, a)), FileEntries(v, a))
    IN [k \in DOMAIN listed |-> FileHandle(a, listed[k])]

\* The handles of dirs, in order, whose address is not in seen.
NewDirs(dirs, seen) ==
    LET left == InOrder(Len(dirs), {k \in DOMAIN dirs : dirs[k].addr \notin seen})
    IN [k \in DOMAIN left |-> dirs[left[k]]]

-------------------------------------------------------------------------------
Top(s) == s[Len(s)]
PopOf(s) == SubSeq(s, 1, Len(s) - 1)

\* init_stacks.
StartOf(v) == <<INumToDir(v, v.root)>>

NoFilesYet(v) == [e \in UNION {{a} \X FileEntries(v, a) : a \in Inodes} |-> 0]

Init ==
    /\ vol \in Volumes
    /\ fdstack = StartOf(vol)
    /\ pathstack = <<>>
    /\ inumstack = {}
    /\ result = None
    /\ files = NoFilesYet(vol)

\* Mutants of Enter: the directory is not remembered; its files are put below
\* it, as if it were done with them.
EnterForgetting ==
    /\ fdstack # <<>>
    /\ LET f == Top(fdstack) IN
        /\ f.type = "dir" /\ f.addr \notin inumstack
        /\ pathstack' = Append(pathstack, f.addr)
        /\ fdstack' = fdstack
             \o NewDirs(SeparatedDirs(vol, f.addr), inumstack)
             \o SeparatedFiles(vol, f.addr)
        /\ result' = f
    /\ UNCHANGED <<vol, inumstack, files>>

EnterFilesBelow ==
    /\ fdstack # <<>>
    /\ LET f == Top(fdstack)
           seen == inumstack \cup {f.addr}
       IN
        /\ f.type = "dir" /\ f.addr \notin inumstack
        /\ pathstack' = Append(pathstack, f.addr)
        /\ inumstack' = seen
        /\ fdstack' = PopOf(fdstack)
             \o SeparatedFiles(vol, f.addr) \o <<f>>
             \o NewDirs(SeparatedDirs(vol, f.addr), seen)
        /\ result' = f
    /\ UNCHANGED <<vol, files>>

\* The first time a directory is on top it stays there, and those of its
\* directories not entered before, then its files, are put on top of it.
Enter ==
    /\ fdstack # <<>>
    /\ LET f == Top(fdstack)
           seen == inumstack \cup {f.addr}
       IN
        /\ f.type = "dir" /\ f.addr \notin inumstack
        /\ pathstack' = Append(pathstack, f.addr)
        /\ inumstack' = seen
        /\ fdstack' = fdstack
             \o NewDirs(SeparatedDirs(vol, f.addr), seen)
             \o SeparatedFiles(vol, f.addr)
        /\ result' = f
    /\ UNCHANGED <<vol, files>>

\* Any other time it is popped, and one name with it; pop of an empty Perl
\* array changes nothing.
Exit ==
    /\ fdstack # <<>>
    /\ LET f == Top(fdstack) IN
        /\ f.type = "dir" /\ f.addr \in inumstack
        /\ result' = f
    /\ fdstack' = PopOf(fdstack)
    /\ pathstack' = IF pathstack = <<>> THEN <<>> ELSE PopOf(pathstack)
    /\ UNCHANGED <<vol, inumstack, files>>

ReturnFile ==
    /\ fdstack # <<>>
    /\ LET f == Top(fdstack) IN
        /\ f.type = "file"
        /\ result' = f
        /\ files' = [files EXCEPT ![<<f.dir, f.nr>>] = @ + 1]
    /\ fdstack' = PopOf(fdstack)
    /\ UNCHANGED <<vol, pathstack, inumstack>>

\* done: undef from then on.
Exhausted ==
    /\ fdstack = <<>>
    /\ result' = None
    /\ UNCHANGED <<vol, fdstack, pathstack, inumstack, files>>

Next == Enter \/ Exit \/ ReturnFile \/ Exhausted

Spec == Init /\ [][Next]_vars

\* A caller that loops until undef, as the synopsis does.
FairSpec == Spec /\ WF_vars(Next)

-------------------------------------------------------------------------------
(* Properties.                                                             *)

IsHandle(h) ==
    \/ h.type = "dir" /\ h.addr \in Inodes \cup {NoAddr}
    \/ h.type = "file" /\ h.dir \in inumstack /\ h.nr \in FileEntries(vol, h.dir)

\* Type correctness; a file on the stack is in a directory that was entered.
TypeOK ==
    /\ vol \in VolumeType
    /\ \A k \in DOMAIN fdstack : IsHandle(fdstack[k])
    /\ pathstack \in Seq(Inodes \cup {NoAddr})
    /\ inumstack \subseteq Inodes \cup {NoAddr}
    /\ result = None \/ IsHandle(result)
    /\ files \in [UNION {{a} \X FileEntries(vol, a) : a \in Inodes} -> Nat]

\* No file entry is returned twice (Iterator.pm:185-219), whatever cycles or
\* second names the directories have.
NoFileTwice == \A e \in DOMAIN files : files[e] <= 1

\* The directories that can be got to and opened, starting from v's root.
Reached(v) ==
    LET Children(a) == {SeparatedDirs(v, a)[i].addr : i \in DOMAIN SeparatedDirs(v, a)}
        Closed(S) == \A a \in S : Children(a) \subseteq S
        Start == INumToDir(v, v.root).addr
    IN {a \in Inodes \cup {NoAddr} :
            \A S \in SUBSET (Inodes \cup {NoAddr}) : Start \in S /\ Closed(S) => a \in S}

\* When the loop ends every file entry of every directory that can be got to
\* has been returned: skipping directories seen before loses nothing.
EveryFileInTheEnd ==
    fdstack = <<>> => \A e \in DOMAIN files : e[1] \in Reached(vol) => files[e] = 1

\* Each directory is listed once, none cannot be opened, none is its own
\* ancestor: a tree.
IsTree(v) ==
    /\ v.unreadable = {} /\ v.root \in Inodes
    /\ \A a, b \in Inodes : \A i \in DOMAIN v.entries[a], j \in DOMAIN v.entries[b] :
        v.entries[a][i].kind = "dir" /\ v.entries[a][i] = v.entries[b][j] => <<a, i>> = <<b, j>>
    /\ \A a \in Inodes : \A i \in DOMAIN v.entries[a] : v.entries[a][i] # SubDir(v.root)

\* Names from the root down, each listed in the one before it.
IsPath(v, p) ==
    /\ p # <<>> => p[1] = v.root
    /\ \A k \in 1..(Len(p) - 1) :
        \E i \in DOMAIN Listing(v, p[k]) : Listing(v, p[k])[i] = SubDir(p[k + 1])

\* On a tree get_current_path is, when a file is returned, the path of its
\* directory, as samples/list-files-dirs.pl prints it.
PathLeadsToFile ==
    IsTree(vol) =>
        /\ IsPath(vol, pathstack)
        /\ result.type = "file" => pathstack # <<>> /\ Top(pathstack) = result.dir
===============================================================================
