------------------------------- MODULE AttrRuns -------------------------------
(***************************************************************************)
(* The run list of a non-resident attribute (sleuthkit/tsk/fs/fs_attr.c):  *)
(* it is set and added to, in whatever order the file system stores its    *)
(* pieces, and then read and walked.  A gap that a piece may still fill is *)
(* a run too, a filler.                                                    *)
(*                                                                         *)
(* A byte is named by its address in the file system, one made up by Zero. *)
(***************************************************************************)
EXTENDS Integers, Sequences, FiniteSetsExt

CONSTANTS
    BlockSize,  \* fs->block_size
    Files       \* see FileType

\* A run: the first cluster in the file, how many, the first on the device.
RunType == [offset : Nat, len : Nat \ {0}, addr : Nat, kind : {"data", "sparse", "filler"}]

End(r) == r.offset + r.len
Chained(c) == c # <<>> /\ \A i \in 2..Len(c) : c[i].offset = End(c[i - 1])
StartOf(c) == c[1].offset
EndOf(c) == End(c[Len(c)])

\* What a file is read from: the last block of the file system, how many bytes
\* of it the image holds, and those that cannot be read.
FsType == [last_block : Nat, held : Nat, unreadable : SUBSET Nat]

\* A file: how its driver starts the list, the pieces it finds, its sizes.
\* NTFS sets the first piece it comes to; YAFFS sets a filler for it all; HFS
\* and ext set nothing, ext then appends in order.
FileType == [start : {"piece", "filler", "none", "append"}, pieces : SUBSET Seq(RunType),
             size : Nat, initsize : Nat, allocsize : Nat, skiplen : Nat, fs : FsType]

ASSUME BlockSizeAssumption == BlockSize \in Nat \ {0}

\* No two pieces of a file overlap, and only the list makes fillers.  YAFFS adds
\* chunk by chunk and leaves out those behind the filler (yaffs.cpp:2832-2855);
\* what is appended comes run by run, without gaps (unix_misc.c:77-88).  A file
\* system is only opened when the image has its first block.
ASSUME FilesAssumption ==
    /\ Files \subseteq FileType
    /\ \A f \in Files :
        /\ f.initsize <= f.size /\ f.size <= f.allocsize
        /\ f.fs.held >= BlockSize /\ 0 \notin f.fs.unreadable
        /\ \A c \in f.pieces : Chained(c) /\ \A i \in DOMAIN c : c[i].kind # "filler"
        /\ \A c, d \in f.pieces : c # d => EndOf(c) <= StartOf(d) \/ EndOf(d) <= StartOf(c)
        /\ f.start = "filler" => \A c \in f.pieces :
                Len(c) = 1 /\ EndOf(c) <= f.allocsize \div BlockSize
        /\ f.start = "append" => \A c \in f.pieces :
                Len(c) = 1 /\ (StartOf(c) = 0 \/ \E d \in f.pieces : EndOf(d) = StartOf(c))

VARIABLES
    file,     \* the file on disk
    set,      \* has tsk_fs_attr_set_run been called?
    run,      \* nrd.run
    run_end,  \* where nrd.run_end is in it, 0 for NULL
    overlaid  \* history: has what is left of a filler been laid over runs?

vars == <<file, set, run, run_end, overlaid>>

Filler(from, to) == [offset |-> from, len |-> to - from, addr |-> 0, kind |-> "filler"]
FillerIf(from, to) == IF from < to THEN <<Filler(from, to)>> ELSE <<>>
ListEnd == IF run = <<>> THEN 0 ELSE End(run[Len(run)])

Init ==
    /\ file \in Files
    /\ set = FALSE
    /\ run = <<>> /\ run_end = 0
    /\ overlaid = FALSE

\* tsk_fs_attr_set_run: with a filler before a piece that is not the first.
SetRun ==
    /\ ~set /\ set' = TRUE
    /\ \/ file.start \in {"none", "append"} /\ run' = <<>>
       \/ file.start = "filler" /\ run' = FillerIf(0, file.allocsize \div BlockSize)
       \/ /\ file.start = "piece"
          /\ \E c \in file.pieces : run' = FillerIf(0, StartOf(c)) \o c
    /\ run_end' = Len(run')
    /\ UNCHANGED <<file, overlaid>>

-------------------------------------------------------------------------------
(* tsk_fs_attr_add_run, for a set of consecutive runs.                     *)

FitsAtEnd(c) == run_end # 0 /\ End(run[run_end]) = StartOf(c)

AddAtEnd(c) ==
    /\ FitsAtEnd(c)
    /\ run' = SubSeq(run, 1, run_end) \o c
    /\ run_end' = Len(run')

\* Fillers that end behind where the runs start; the first one decides.
FillersFor(c) == {i \in DOMAIN run : run[i].kind = "filler" /\ End(run[i]) > StartOf(c)}
FirstFiller(c) == CHOOSE i \in FillersFor(c) : \A j \in FillersFor(c) : i <= j

\* Mutant of Rest: what is left of the filler still begins where it did.
RestFromItsStart(f, c) ==
    LET left == End(f) - StartOf(c) - (EndOf(c) - StartOf(c))
    IN IF left = 0 THEN <<>> ELSE <<[f EXCEPT !.len = left]>>

\* The filler that is left behind the runs: it is as long as it should be, but
\* goes on from the end of the first of them.
Rest(f, c) ==
    LET left == End(f) - StartOf(c) - (EndOf(c) - StartOf(c))
    IN IF left = 0 THEN <<>> ELSE <<Filler(End(c[1]), End(c[1]) + left)>>

\* Mutant of AddInFiller: the runs are not linked to what follows the filler.
AddInFillerUnlinked(c) ==
    /\ ~FitsAtEnd(c) /\ FillersFor(c) # {}
    /\ LET i == FirstFiller(c) IN
        /\ run[i].offset <= StartOf(c)
        /\ run' = SubSeq(run, 1, i - 1) \o FillerIf(run[i].offset, StartOf(c)) \o c \o Rest(run[i], c)
        /\ run_end' = Len(run')

\* The runs are several and what is left of the filler is put behind them: it
\* begins at the end of the first (516-518) and lies over the others.
LaidOver(c) ==
    /\ ~FitsAtEnd(c) /\ FillersFor(c) # {}
    /\ Len(c) # 1 /\ EndOf(c) # End(run[FirstFiller(c)])

\* The filler gives way to a shorter one before, the runs, and the rest.
AddInFiller(c) ==
    /\ ~FitsAtEnd(c) /\ FillersFor(c) # {}
    /\ LET i == FirstFiller(c)
           before == FillerIf(run[i].offset, StartOf(c))
           after == Rest(run[i], c)
       IN
        /\ run[i].offset <= StartOf(c)
        /\ run' = SubSeq(run, 1, i - 1) \o before \o c \o after \o SubSeq(run, i + 1, Len(run))
        /\ run_end' = IF after = <<>> /\ i = Len(run) THEN Len(run')
                      ELSE run_end + Len(before) + Len(c) + Len(after) - 1

\* No filler holds the place: behind the list, after a filler if need be.
AddBehind(c) ==
    /\ ~FitsAtEnd(c) /\ FillersFor(c) = {} /\ ListEnd <= StartOf(c)
    /\ run' = run \o FillerIf(ListEnd, StartOf(c)) \o c
    /\ run_end' = Len(run')

AddRun ==
    /\ set /\ file.start # "append"
    /\ \E c \in file.pieces :
        /\ AddAtEnd(c) \/ AddInFiller(c) \/ AddBehind(c)
        /\ overlaid' = (overlaid \/ LaidOver(c))
    /\ UNCHANGED <<file, set>>

\* The place is taken, an error unless it is let pass for a duplicate, or the
\* filler before the runs cannot be allocated.
AddRefused ==
    /\ set /\ file.start # "append"
    /\ \E c \in file.pieces :
        /\ ~FitsAtEnd(c)
        /\ (IF FillersFor(c) # {} THEN run[FirstFiller(c)].offset ELSE ListEnd) # StartOf(c)
    /\ UNCHANGED vars

\* tsk_fs_attr_append_run, for the next run in the file: its offset is set to
\* where the list ends, and the end is only looked for the next time.
AppendRun ==
    /\ set /\ file.start = "append"
    /\ \E c \in file.pieces :
        /\ StartOf(c) >= ListEnd
        /\ \A d \in file.pieces : StartOf(d) >= ListEnd => StartOf(c) <= StartOf(d)
        /\ run' = Append(run, [c[1] EXCEPT !.offset = ListEnd])
    /\ run_end' = Len(run)
    /\ UNCHANGED <<file, set, overlaid>>

Next == SetRun \/ AddRun \/ AddRefused \/ AppendRun

Spec == Init /\ [][Next]_vars

-------------------------------------------------------------------------------
(* Reading.                                                                *)

Zero == 0
Zeros(n) == [k \in 1..n |-> Zero]
Limit(slack) == IF slack THEN file.allocsize ELSE file.size

\* fs->last_block_act: the last block that the image holds.
LastBlockAct == Min({file.fs.last_block, (file.fs.held \div BlockSize) - 1})

\* tsk_fs_read of n bytes: none behind the last block, or what the image gives.
Given(from, n) ==
    IF \/ LastBlockAct > 0 /\ from >= (LastBlockAct + 1) * BlockSize
       \/ from >= file.fs.held
       \/ \E d \in file.fs.unreadable : from <= d /\ d < from + n
    THEN -1 ELSE Min({n, file.fs.held - from})

\* tsk_fs_attr_read, one turn of its loop: s.byteoff is byteoffset_toread,
\* which only a run that is read from the device sets back to 0, and s.count
\* what the read returns.  That is the last run's alone when it comes short,
\* and then nothing is wiped either.
ReadTurn(s, r, blk, slack) ==
    LET inrun == Max({blk - r.offset, 0})
        n == Min({(r.len - inrun) * BlockSize - s.byteoff, s.remain})
        at == (r.offset + inrun) * BlockSize
        from == (r.addr + inrun) * BlockSize + s.byteoff
        zeros == r.kind # "data" \/ (at + s.byteoff >= file.initsize /\ ~slack)
        given == IF zeros THEN n ELSE Given(from, n)
        got == IF zeros THEN Zeros(n)
               ELSE [k \in 1..n |-> IF at + k > file.initsize /\ ~slack THEN Zero ELSE from + k - 1]
    IN IF s.short \/ s.remain = 0 \/ End(r) <= blk THEN s
       ELSE IF given # n
       THEN [remain |-> s.remain, buf |-> s.buf \o [k \in 1..given |-> from + k - 1],
             short |-> TRUE, count |-> given, byteoff |-> 0]
       ELSE [remain |-> s.remain - n, buf |-> s.buf \o got, short |-> FALSE,
             count |-> s.count + n, byteoff |-> IF zeros THEN s.byteoff ELSE 0]

\* Where a read of n bytes begins.
ReadStart(off, n) ==
    [remain |-> n, buf |-> <<>>, short |-> FALSE, count |-> 0, byteoff |-> off % BlockSize]

Refused == [count |-> -1, buf |-> <<>>]

\* Mutant of Read: the bytes before the offset are not taken off the size.
ReadPastTheEnd(off, len, slack) ==
    LET asked == Min({len, Limit(slack)})
        after[i \in 0..Len(run)] ==
            IF i = 0 THEN ReadStart(off, asked)
            ELSE ReadTurn(after[i - 1], run[i], off \div BlockSize, slack)
        end == after[Len(run)]
    IN IF off >= Limit(slack) THEN Refused ELSE [count |-> end.count, buf |-> end.buf]

\* How many bytes are returned, and the buffer; after[i] is where the read
\* stands after i turns.  It knows nothing of skiplen.
Read(off, len, slack) ==
    LET asked == Min({len, Limit(slack) - off})
        after[i \in 0..Len(run)] ==
            IF i = 0 THEN ReadStart(off, asked)
            ELSE ReadTurn(after[i - 1], run[i], off \div BlockSize, slack)
        end == after[Len(run)]
    IN IF off >= Limit(slack) THEN Refused ELSE [count |-> end.count, buf |-> end.buf]

-------------------------------------------------------------------------------
(* Walking: tsk_fs_attr_walk_nonres goes from block to block, run by run.   *)

BlocksOf(r) == [k \in 1..r.len |-> [addr |-> r.addr + k - 1, kind |-> r.kind]]

\* The blocks it comes to, in their order.
Blocks ==
    LET upto[i \in 0..Len(run)] == IF i = 0 THEN <<>> ELSE upto[i - 1] \o BlocksOf(run[i])
    IN upto[Len(run)]

\* off and skip_remain at the b-th block, as long as all before were shown as
\* a whole.
Off(b) == Max({(b - 1) * BlockSize - file.skiplen, 0})
SkipRemain(b) == Max({file.skiplen - (b - 1) * BlockSize, 0})

\* Is the callback called for the block, and with how many bytes (ret_len)?
Called(b) == SkipRemain(b) < BlockSize
RetLen(b, slack) == Min({BlockSize - SkipRemain(b), Limit(slack) - Off(b)})

\* The address is too large, whatever the run, or tsk_fs_read_block fails.
Fails(b, slack) ==
    LET at == Blocks[b].addr IN
    \/ at > file.fs.last_block
    \/ /\ Blocks[b].kind = "data" /\ (Off(b) < file.initsize \/ slack)
       /\ at > LastBlockAct \/ \E d \in file.fs.unreadable : d \div BlockSize = at

\* The loop ends: it fails, the callback does not answer CONT, or all is shown.
Ends(b, slack, stop) ==
    \/ Fails(b, slack)
    \/ Called(b) /\ (b = stop \/ Off(b) + RetLen(b, slack) >= Limit(slack))

\* Mutant of Shown: what is not initialized is shown as it is on the device.
ShownUninitialized(p, slack) ==
    LET b == ((p + file.skiplen) \div BlockSize) + 1
        k == (p + file.skiplen) % BlockSize
    IN IF Blocks[b].kind # "data" THEN Zero ELSE Blocks[b].addr * BlockSize + k

\* The p-th byte shown: the block is wiped from initsize - off on, counted from
\* where the block begins and not from where what is skipped ends.
Shown(p, slack) ==
    LET b == ((p + file.skiplen) \div BlockSize) + 1
        k == (p + file.skiplen) % BlockSize
    IN IF Blocks[b].kind # "data" \/ (k >= file.initsize - Off(b) /\ ~slack) THEN Zero
       ELSE Blocks[b].addr * BlockSize + k

\* A walk whose callback answers STOP or ERROR at the block stop, CONT before:
\* the bytes it has shown, and whether it returns an error.
Walk(slack, stop, answer) ==
    LET ends == {b \in DOMAIN Blocks : Ends(b, slack, stop)}
        last == IF ends = {} THEN Len(Blocks) ELSE Min(ends)
        failed == last # 0 /\ Fails(last, slack)
        shown == IF last = 0 \/ ~Called(last) THEN 0
                 ELSE Off(last) + (IF failed THEN 0 ELSE RetLen(last, slack))
    IN [shown |-> [k \in 1..shown |-> Shown(k - 1, slack)],
        error |-> failed \/ (last # 0 /\ last = stop /\ Called(last) /\ answer = "ERROR")]

-------------------------------------------------------------------------------
(* Properties.                                                             *)

\* The runs begin at 0, follow each other without gap or overlap, and run_end
\* is the last one, but for what tsk_fs_attr_append_run leaves to the next call.
\* fs_attr.c:374 says of tsk_fs_attr_add_run: "Add a set of consecutive runs to
\* an attribute. This will add and remove FILLER entries as needed and update
\* internal variables."
RunsAreConsecutive ==
    /\ run # <<>> => StartOf(run) = 0 /\ Chained(run)
    /\ \A i \in DOMAIN run : run[i].len > 0
    /\ file.start # "append" => run_end = Len(run)

\* They do so in whatever order pieces come, before, behind or in the fillers
\* of others, as long as nothing was laid over runs (fs_attr.c:405-651).
ConsecutiveUnlessLaidOver == ~overlaid => RunsAreConsecutive

\* In whatever order pieces come, each is there as a whole at its place, none
\* moves or is lost when others are put before it or in the filler it is
\* beside, and what fails changes nothing: the list is AttrContent.
Placed == {run[i] : i \in {j \in DOMAIN run : run[j].kind # "filler"}}
Content == INSTANCE AttrContent WITH
    clusters <- UNION {{[vcn |-> r.offset + k, addr |-> r.addr + k, sparse |-> r.kind = "sparse"] :
                        k \in 0..(r.len - 1)} : r \in Placed}
ContentSpec == Content!Spec

\* The file's bytes, from the pieces that have been added; what is skipped at
\* the beginning is not among them.
ByteAt(p, slack) ==
    LET q == p + file.skiplen
        here == {c \in UNION {Content!OfRun(r) : r \in {r \in Placed : r.kind = "data"}} :
                    c.vcn = q \div BlockSize}
    IN IF here = {} \/ (p >= file.initsize /\ ~slack) THEN Zero
       ELSE (CHOOSE c \in here : TRUE).addr * BlockSize + (q % BlockSize)

Expected(off, len, slack) ==
    LET last == Min({Limit(slack), off + len, ListEnd * BlockSize - file.skiplen})
    IN [k \in 1..Max({last - off, 0}) |-> ByteAt(off + k - 1, slack)]

\* Can the byte be had from the device?
InReach(d) == d < (LastBlockAct + 1) * BlockSize /\ d \notin file.fs.unreadable

\* As many bytes as there are, and the right ones; or fewer, since one of them
\* is out of reach, and right up to the end of what is initialized.
ReadGivesContent(off, len, slack) ==
    LET got == Read(off, len, slack)
        bytes == Expected(off, len, slack)
    IN /\ got.count <= Len(bytes)
       /\ \A k \in 1..got.count :
            \/ got.buf[k] = bytes[k]
            \/ got.count < Len(bytes) /\ off + k > file.initsize /\ ~slack
       /\ got.count < Len(bytes) => \E k \in DOMAIN bytes : ~InReach(ByteAt(off + k - 1, TRUE))

\* A read that begins with a block returns the file's bytes, as many as there
\* are, over any number of data, sparse and filler runs and the ends of what is
\* initialized, used and allocated (fs_attr.c:1055-1200).  When it returns fewer
\* the device has not all of what was asked for, initialized or not, and what
\* is returned is right up to the end of what is initialized.
BlockReadIsContent ==
    ~overlaid /\ file.skiplen = 0 =>
        \A off \in 0..(file.allocsize + 1), len \in 1..(file.allocsize + 1), slack \in BOOLEAN :
            off % BlockSize = 0 /\ off < Limit(slack) => ReadGivesContent(off, len, slack)

\* Blocks that a walk cannot show: behind the file system, as those of a long
\* hole are too, or not to be had from the device.
Bad(b) ==
    \/ Blocks[b].addr > file.fs.last_block
    \/ Blocks[b].kind = "data" /\ \E k \in 0..(BlockSize - 1) : ~InReach(Blocks[b].addr * BlockSize + k)

\* The file's bytes from the first on, all of them unless the walk is stopped;
\* an error is the callback's, or that of a block before the end that is bad.
WalkGivesContent(slack, stop, answer) ==
    LET walk == Walk(slack, stop, answer)
        bytes == Expected(0, file.allocsize, slack)
    IN /\ Len(walk.shown) <= Len(bytes)
       /\ \A k \in DOMAIN walk.shown : walk.shown[k] = bytes[k]
       /\ ~walk.error /\ (stop = 0 \/ answer = "ERROR") => Len(walk.shown) = Len(bytes)
       /\ walk.error =>
            \/ stop # 0 /\ answer = "ERROR"
            \/ \E b \in DOMAIN Blocks :
                  /\ Bad(b)
                  /\ \/ (b - 1) * BlockSize <= file.skiplen
                     \/ (b - 1) * BlockSize < file.skiplen + Limit(slack)

\* A walk shows the file's bytes from the first on, none twice and none left
\* out.  It shows them all unless it is stopped, and returns an error only for
\* a block before the end that is bad or for the callback's (fs_attr.c:745-919).
\* The exception are files that have part of a block to be skipped and less
\* than a block initialized: see Shown.
WalkIsContent ==
    ~overlaid /\ (file.skiplen % BlockSize = 0 \/ file.initsize >= BlockSize) =>
        \A slack \in BOOLEAN, stop \in 0..Len(Blocks), answer \in {"STOP", "ERROR"} :
            WalkGivesContent(slack, stop, answer)

-------------------------------------------------------------------------------
(* What the documentation says.                                            *)

\* fs_attr.c:994-995: "Read the contents of a given attribute using a typical
\* read() type interface.  0s are returned for missing runs."  From any offset.
ReadIsContent ==
    ~overlaid /\ file.skiplen = 0 =>
        \A off \in 0..(file.allocsize + 1), len \in 1..(file.allocsize + 1), slack \in BOOLEAN :
            LET got == Read(off, len, slack)
                bytes == Expected(off, len, slack)
            IN off < Limit(slack) /\ got.count = Len(bytes) => got.buf = bytes

===============================================================================
