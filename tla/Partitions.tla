------------------------------ MODULE Partitions ------------------------------
(***************************************************************************)
(* Opening a DOS volume system: the primary table and the chains of        *)
(* extended tables are read (sleuthkit/tsk/vs/dos.c) into one sorted list  *)
(* of partitions, and what they leave free is added to it                  *)
(* (sleuthkit/tsk/vs/mm_part.c).  Addresses and lengths are in sectors,    *)
(* the volume system starts at sector 0, and memory does not run out.      *)
(***************************************************************************)
EXTENDS Integers, Sequences, FiniteSets, SequencesExt

CONSTANT Images  \* see ImageType

Primary == 0     \* DOS_PART_SOFFSET

\* A slot of a table.  An entry of size 0 is none.
EntryType == [type : {"ext", "data"}, start : Nat, size : Nat]

\* An image: its size, and the sectors that can be read and have the magic of
\* a table.  (What is on its partitions is for DiskImage.)
IsImage(m) ==
    /\ m.size \in Nat /\ DOMAIN m.tables \subseteq 0..(m.size - 1)
    /\ \A s \in DOMAIN m.tables : m.tables[s] \in Seq(EntryType) /\ Len(m.tables[s]) <= 4

\* The sectors the entries of a type lead to from the table in s, relative to b.
StartsIn(m, s, b, type) ==
    LET table == IF s \in DOMAIN m.tables THEN m.tables[s] ELSE <<>>
    IN {b + e.start : e \in {e \in ToSet(table) : e.type = type /\ e.size # 0}}

\* The tables of the chain that begins in sector b, as far as links lead to one.
Chain(m, b) ==
    LET Closed(S) == \A s \in S : StartsIn(m, s, b, "ext") \cap DOMAIN m.tables \subseteq S
    IN {s \in DOMAIN m.tables : \A S \in SUBSET DOMAIN m.tables : b \in S /\ Closed(S) => s \in S}

ChainsOf(m) == StartsIn(m, Primary, Primary, "ext") \cap DOMAIN m.tables

\* A link may lead anywhere, but the primary table's not to itself.  (Chains may
\* lead in circles: such an image is never done with, as the code's recursion is
\* not before its stack is full.)
ASSUME ImagesAssumption == \A m \in Images : IsImage(m) /\ Primary \notin ChainsOf(m)

VARIABLES
    image,   \* what is being opened
    list,    \* part_list, in the order it is linked in
    tables,  \* the tables being loaded, the recursion's last: where, and the next slot
    base,    \* sect_ext_base, of the chain being loaded
    status   \* "closed", "loading", "loaded", "open" or "failed"

partsVars == <<image, list, tables, base, status>>

Part(start, len, flags) == [start |-> start, len |-> len, flags |-> flags, addr |-> 0]

\* Mutant of Added: the partitions behind keep their addresses.
AddedUnnumbered(l, p) ==
    LET behind == {i \in DOMAIN l : l[i].start > p.start}
        k == IF behind = {} THEN Len(l) + 1 ELSE Min(behind)
        at == IF k > 1 THEN l[k - 1].addr + 1 ELSE IF l = <<>> THEN 0 ELSE l[1].addr
    IN SubSeq(l, 1, k - 1) \o <<[p EXCEPT !.addr = at]>> \o SubSeq(l, k, Len(l))

\* tsk_vs_part_add: in front of the first that starts behind it, which gives
\* its address up to it and moves up like all that follow.
Added(l, p) ==
    LET behind == {i \in DOMAIN l : l[i].start > p.start}
        k == IF behind = {} THEN Len(l) + 1 ELSE Min(behind)
        at == IF k > 1 THEN l[k - 1].addr + 1 ELSE IF l = <<>> THEN 0 ELSE l[1].addr
    IN SubSeq(l, 1, k - 1) \o <<[p EXCEPT !.addr = at]>>
         \o [i \in 1..(Len(l) - k + 1) |-> [l[k + i - 1] EXCEPT !.addr = @ + 1]]

InitParts ==
    /\ image \in Images
    /\ list = <<>> /\ tables = <<>> /\ base = Primary
    /\ status = "closed"

-------------------------------------------------------------------------------
(* dos_load_prim_table and dos_load_ext_table.                             *)

\* The table's own sector is a partition of its own.
Load(s) == [sector |-> s, slot |-> 1]

\* A first sector that is no table is an error.
LoadPrimary ==
    /\ status = "closed"
    /\ IF Primary \in DOMAIN image.tables
       THEN /\ status' = "loading"
            /\ list' = Added(list, Part(Primary, 1, "meta"))
            /\ tables' = <<Load(Primary)>>
       ELSE status' = "failed" /\ UNCHANGED <<list, tables>>
    /\ UNCHANGED <<image, base>>

InPrimary == Len(tables) = 1
Sector == Last(tables).sector
Slot == Last(tables).slot
Table == image.tables[Sector]
SlotsLeft == status = "loading" /\ Slot <= Len(Table)
Entry == Table[Slot]
Advanced == [tables EXCEPT ![Len(tables)].slot = @ + 1]

SkipEmpty ==
    /\ SlotsLeft /\ Entry.size = 0
    /\ tables' = Advanced
    /\ UNCHANGED <<image, list, base, status>>

\* The first two slots of the primary table, and only they, are held against
\* the image; the whole open fails.
OutOfImage ==
    /\ SlotsLeft /\ Entry.size # 0
    /\ InPrimary /\ Slot <= 2 /\ Entry.start > image.size
    /\ status' = "failed" /\ list' = <<>> /\ tables' = <<>>
    /\ UNCHANGED <<image, base>>

Accepted == SlotsLeft /\ Entry.size # 0 /\ ~(InPrimary /\ Slot <= 2 /\ Entry.start > image.size)

\* A partition starts where its entry says, from its table on.
AddData ==
    /\ Accepted /\ Entry.type = "data"
    /\ list' = Added(list, Part(Sector + Entry.start, Entry.size, "alloc"))
    /\ tables' = Advanced
    /\ UNCHANGED <<image, base, status>>

\* Mutant of LinkBase: a link is relative to the table it is in.
LinkFromTable == Sector

\* A link to an extended table is relative to the chain's first table.
LinkBase == IF InPrimary THEN Primary ELSE base
Linked == LinkBase + Entry.start
WithLink == Added(list, Part(Linked, Entry.size, "meta"))

\* The recursive call; in the primary table it begins a chain.
EnterExtended ==
    /\ Accepted /\ Entry.type = "ext"
    /\ Linked <= image.size /\ Linked \in DOMAIN image.tables
    /\ list' = Added(WithLink, Part(Linked, 1, "meta"))
    /\ tables' = Append(Advanced, Load(Linked))
    /\ base' = IF InPrimary THEN Linked ELSE base
    /\ UNCHANGED <<image, status>>

\* A link out of the image, in an extended table, is added and passed over.
PassExtended ==
    /\ Accepted /\ Entry.type = "ext"
    /\ ~InPrimary /\ Linked > image.size
    /\ list' = WithLink
    /\ tables' = Advanced
    /\ UNCHANGED <<image, base, status>>

\* Any other link to no table is an error of every table of the chain, which
\* ends: the primary one moves on.  What has been added stays.
Unwound == <<[tables[1] EXCEPT !.slot = IF InPrimary THEN @ + 1 ELSE @]>>

LoseChain ==
    /\ Accepted /\ Entry.type = "ext"
    /\ Linked \notin DOMAIN image.tables /\ (InPrimary \/ Linked <= image.size)
    /\ list' = WithLink
    /\ tables' = Unwound
    /\ UNCHANGED <<image, base, status>>

\* A table's last slot is behind it.  A primary one without entries is an error.
TableDone ==
    /\ status = "loading" /\ Slot > Len(Table)
    /\ tables' = Front(tables)
    /\ IF ~InPrimary THEN UNCHANGED <<list, status>>
       ELSE IF \E i \in DOMAIN Table : Table[i].size # 0
            THEN status' = "loaded" /\ UNCHANGED list
            ELSE status' = "failed" /\ list' = <<>>
    /\ UNCHANGED <<image, base>>

-------------------------------------------------------------------------------
\* Mutant of EndBefore: the space behind a partition's container counts as taken.
EndBeforeOfAll(l, i) == IF i = 1 THEN 0 ELSE l[i - 1].start + l[i - 1].len

\* Where the last partition before l[i] ends, tables and containers ignored.
EndBefore(l, i) ==
    LET before == {j \in 1..(i - 1) : l[j].flags # "meta"}
    IN IF before = {} THEN 0 ELSE l[Max(before)].start + l[Max(before)].len

\* Between there and l[i], or the end of the image, may be a gap.
NextStart(l, i) == IF i <= Len(l) THEN l[i].start ELSE image.size
HasGap(l, i) == (i <= Len(l) => l[i].flags # "meta") /\ EndBefore(l, i) < NextStart(l, i)
Gap(l, i) == Part(EndBefore(l, i), NextStart(l, i) - EndBefore(l, i), "unalloc")

\* tsk_vs_part_unused.  A gap is added before the partition the walk is at, so
\* does not disturb it.
Filled(l) ==
    LET upto[i \in 0..(Len(l) + 1)] ==
            IF i = 0 THEN l
            ELSE IF HasGap(l, i) THEN Added(upto[i - 1], Gap(l, i)) ELSE upto[i - 1]
    IN upto[Len(l) + 1]

FillUnused ==
    /\ status = "loaded"
    /\ list' = Filled(list)
    /\ status' = "open"
    /\ UNCHANGED <<image, tables, base>>

OpenParts ==
    \/ LoadPrimary \/ SkipEmpty \/ OutOfImage \/ AddData
    \/ EnterExtended \/ PassExtended \/ LoseChain \/ TableDone \/ FillUnused

PartsSpec == InitParts /\ [][OpenParts]_partsVars

\* tsk_vs_part_get; NULL for none.
part_get(idx) == CHOOSE p \in ToSet(list) : p.addr = idx

-------------------------------------------------------------------------------
(* Properties.                                                             *)

\* In whatever order tables name partitions, and wherever gaps are put in
\* between, the list is sorted by start and a partition's address is its place:
\* so getPart(i) finds one for every i below getPartCount (mm_part.c:29-114).
PartsInOrder ==
    \A i \in DOMAIN list :
        /\ list[i].addr = i - 1
        /\ i > 1 => list[i - 1].start <= list[i].start

Sectors(p) == p.start..(p.start + p.len - 1)
Allocated == {i \in DOMAIN list : list[i].flags = "alloc"}
Content == {i \in DOMAIN list : list[i].flags # "meta"}

\* An open volume system accounts for every sector of the image; with disjoint
\* partitions, for each of them once (mm_part.c:124-170).
EverySectorHasAPart ==
    status = "open" =>
        LET Of(s) == {i \in Content : s \in Sectors(list[i])}
            disjoint == \A i, j \in Allocated : i # j => Sectors(list[i]) \cap Sectors(list[j]) = {}
        IN \A s \in 0..(image.size - 1) :
            Of(s) # {} /\ (disjoint => Cardinality(Of(s)) = 1)

\* Where the partitions of an image start.
DataStarts(m) ==
    StartsIn(m, Primary, Primary, "data") \cup
    UNION {UNION {StartsIn(m, s, s, "data") : s \in Chain(m, b)} : b \in ChainsOf(m)}

\* As partitioning tools write them: no extended table names a partition behind
\* its link.  (The code loses such a partition when the chain breaks.)
LinksAreLast(m) ==
    \A s \in DOMAIN m.tables \ {Primary} : \A i, j \in DOMAIN m.tables[s] :
        i < j /\ m.tables[s][j].size # 0 => m.tables[s][i].type # "ext"

\* What is listed as allocated are the partitions of all tables a chain leads
\* to, a break in one chain costs nothing of it nor of another (dos.c:767-795,
\* 975-992).
ChainsAreListed ==
    status \in {"loaded", "open"} /\ LinksAreLast(image) =>
        {list[i].start : i \in Allocated} = DataStarts(image)
===============================================================================
