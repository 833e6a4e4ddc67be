------------------------------- MODULE DiskImage -------------------------------
(***************************************************************************)
(* A disk image from its partition tables to its files: Tsk::Fs::Iterator2 *)
(* opens the volume system (Partitions), takes the list of allocated       *)
(* partitions from it and iterates over their files (VolumeIterator).      *)
(***************************************************************************)
EXTENDS Partitions, VolumeIterator

\* What is on the partitions of an image, by the sector where they start.
ASSUME DiskAssumption == \A m \in Images : \A s \in DOMAIN m.volumes : m.volumes[s] \in Volumes

VolumeAt(s) == IF s \in DOMAIN image.volumes THEN image.volumes[s] ELSE NoVolume

SectorSize == 512

diskVars == <<partsVars, allVars>>

InitDisk == InitParts /\ InitVolumes

Open == OpenParts /\ UNCHANGED allVars

\* find_volumes asks for the partitions by number.
New ==
    /\ status = "open"
    /\ LET PartNr(i) ==
               LET p == part_get(i) IN
               [flags |-> p.flags, start |-> p.start * SectorSize, volume |-> VolumeAt(p.start)]
       IN FindVolumes([k \in 1..Len(list) |-> PartNr(k - 1)])
    /\ UNCHANGED partsVars

Iterate == NextNode /\ UNCHANGED partsVars

NextOfDisk == Open \/ New \/ Iterate

\* Once the volume system is open, the constructor returns and its caller calls
\* next until it gets undef, as the synopsis does (Iterator2.pm:25-29).  It may
\* go on then, or not.
InLoop == looped = {}
DiskSpec == InitDisk /\ [][NextOfDisk]_diskVars /\ WF_diskVars(New \/ (InLoop /\ Iterate))

-------------------------------------------------------------------------------
(* Properties.                                                             *)

\* The documented loop comes to its end, whatever cycles directories have, and
\* has then been over one volume, that of the partition that starts last: the
\* switch to the next one is an undef (Iterator2.pm:25-29, 71-86).
LoopEndsAfterOneVolume ==
    status = "open" /\ LinksAreLast(image) /\ DataStarts(image) \ {0} # {} ~>
        \E last \in DataStarts(image) :
            /\ \A s \in DataStarts(image) : s <= last
            /\ {disk[k].start : k \in looped} = {last * SectorSize}

\* From a table in a chain to the last file: when no iterator is left, which a
\* caller sees who goes on after undef, every partition of every chain has been
\* iterated over, and nothing else, but for one at offset 0, which next_volume
\* takes for none (dos.c:767-795, Iterator2.pm:54-84, 105-127).
OnlyOffsetZeroIsLost ==
    visited # {} /\ fdstack = <<>> /\ LinksAreLast(image) =>
        {disk[k].start : k \in visited} = {s * SectorSize : s \in DataStarts(image) \ {0}}
===============================================================================
