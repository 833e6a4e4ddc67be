---------------------------- MODULE VolumeIterator ----------------------------
(***************************************************************************)
(* Tsk::Fs::Iterator2 (lib/Tsk/Fs/Iterator2.pm): one Tsk::Fs::Iterator     *)
(* after the other, over the volumes of a disk image.  The iterator in use *)
(* is the one of FsIterator, whose variables are its state; next_volume    *)
(* replaces it by a new one, that is it sets them anew.                    *)
(***************************************************************************)
EXTENDS FsIterator

\* A partition: its flags, its start in bytes, what its file system looks
\* like.  A volume without a file system is one whose root cannot be opened.
NoVolume == [root |-> NoAddr, entries |-> [a \in Inodes |-> <<>>], unreadable |-> {}]
PartType == [flags : {"alloc", "unalloc", "meta"}, start : Nat, volume : Volumes \cup {NoVolume}]

VARIABLES
    disk,     \* the partitions of the image, <<>> before the constructor
    pending,  \* volume_offsets: partitions still to look at, last one first
    visited,  \* history: the partitions iterated over
    looped,   \* history: those until next first returned undef, {} before
    dropped   \* history: what next_node took from an iterator and did not return

fsVars == <<vol, fdstack, pathstack, inumstack, result, files>>
allVars == <<fsVars, disk, pending, visited, looped, dropped>>

\* Mutant of find_volumes: the flags are not looked at.
find_all_volumes(d) == [k \in DOMAIN d |-> k]

\* find_volumes, by partition number: an image without a partition table has
\* none.
find_volumes(d) == InOrder(Len(d), {k \in DOMAIN d : d[k].flags = "alloc"})

\* Mutant of CanSwitch: the last offset left is never used.
CanSwitchBeforeLast(d, offsets) == Len(offsets) > 1 /\ d[Top(offsets)].start # 0

\* next_volume takes the last offset, and takes an offset of 0 for none.
CanSwitch(d, offsets) == offsets # <<>> /\ d[Top(offsets)].start # 0

InitVolumes ==
    /\ disk = <<>> /\ pending = <<>>
    /\ visited = {} /\ looped = {} /\ dropped = None
    /\ vol = NoVolume
    /\ fdstack = <<>> /\ pathstack = <<>> /\ inumstack = {}
    /\ result = None /\ files = NoFilesYet(vol)

\* The constructor, on an image whose partitions are d.  What it does next,
\* next_volume, is a Switch from no iterator.
FindVolumes(d) ==
    /\ disk = <<>>
    /\ disk' = d
    /\ pending' = find_volumes(d)
    /\ UNCHANGED <<fsVars, visited, looped, dropped>>

\* The iterator's own call of next, after which it is not done.
WithinVolume ==
    /\ Enter \/ Exit \/ ReturnFile
    /\ fdstack' # <<>>
    /\ UNCHANGED <<disk, pending, visited, looped, dropped>>

\* After its own call of next the iterator is done: it was before, or this
\* call takes the last node off.
LastCall ==
    \/ fdstack = <<>>
    \/ Len(fdstack) = 1 /\ (Top(fdstack).type = "dir" => Top(fdstack).addr \in inumstack)

TakenLast == IF fdstack = <<>> THEN None ELSE Top(fdstack)

\* This call's undef, if it is the first.
FirstUndef == IF looped = {} THEN visited ELSE looped

\* Mutant of Switch: asks for another volume when one node is left.
SwitchEarly ==
    /\ Len(fdstack) <= 2
    /\ CanSwitch(disk, pending)
    /\ dropped' = TakenLast
    /\ pending' = PopOf(pending)
    /\ visited' = visited \cup {Top(pending)}
    /\ looped' = FirstUndef
    /\ vol' = disk[Top(pending)].volume
    /\ fdstack' = StartOf(vol')
    /\ pathstack' = <<>>
    /\ inumstack' = {}
    /\ files' = NoFilesYet(vol')
    /\ result' = None
    /\ UNCHANGED disk

\* next_node with another volume to go to: the new iterator is put in place,
\* then $iter, still the old one, is asked once more and has nothing.  (From no
\* iterator it is the constructor's, which has visited nothing yet.)
Switch ==
    /\ LastCall
    /\ CanSwitch(disk, pending)
    /\ dropped' = TakenLast
    /\ pending' = PopOf(pending)
    /\ visited' = visited \cup {Top(pending)}
    /\ looped' = FirstUndef
    /\ vol' = disk[Top(pending)].volume
    /\ fdstack' = StartOf(vol')
    /\ pathstack' = <<>>
    /\ inumstack' = {}
    /\ files' = NoFilesYet(vol')
    /\ result' = None
    /\ UNCHANGED disk

\* next_node with none: undef, though the iterator may just have given a node.
\* If the constructor found no volume there is no iterator, and next dies.
Finish ==
    /\ visited # {}
    /\ LastCall
    /\ ~CanSwitch(disk, pending)
    /\ dropped' = IF fdstack = <<>> THEN dropped ELSE TakenLast
    /\ pending' = IF pending = <<>> THEN <<>> ELSE PopOf(pending)
    /\ fdstack' = <<>>
    /\ pathstack' = IF fdstack # <<>> /\ Top(fdstack).type = "dir" /\ pathstack # <<>>
                    THEN PopOf(pathstack) ELSE pathstack
    /\ looped' = FirstUndef
    /\ result' = None
    /\ UNCHANGED <<vol, inumstack, files, disk, visited>>

NextNode == WithinVolume \/ Switch \/ Finish

-------------------------------------------------------------------------------
(* Properties.                                                             *)

\* Type correctness, with what Iterator2 adds.
VolumesTypeOK ==
    /\ TypeOK
    /\ \A k \in DOMAIN pending : disk[pending[k]].flags = "alloc"
    /\ visited \subseteq DOMAIN disk /\ looped \subseteq visited
    /\ dropped = None \/ dropped.type = "dir"

\* The node next_node has in $i when it changes volume is thrown away.  It is
\* never a file's: by then every file of the volume left has been returned.
NoFileLostAtSwitch ==
    [][visited' # visited =>
        \A e \in DOMAIN files : e[1] \in Reached(vol) => files[e] = 1]_allVars
===============================================================================
