# Tsk: a TLA+ verification project

Tsk is a Perl binding of The Sleuth Kit: XS classes over a vendored C library
that reads disk images, volume systems and file systems, and two Perl classes
that iterate over the files of a file system and of a whole disk. This
directory holds TLA+ models of the parts with logic of their own, TLC runs that
check them on small instances, and TLAPS proofs of what matters most.

- `*.tla` beginning with `MC`: instances for TLC; `*Proofs.tla`: theorems.
- `<Module>_<question>.cfg`: one run per question. `tlc -config X.cfg MCModule`
  (`TskList_find.cfg` has no `MC` module).
- `PROJECT.json`: components, runs, which definition stands for which lines of
  the source (`map`), known disagreements (`findings`), hazards, theorems.

## 1. Inventory

| component | source (under `src/`) | state | operations | status |
|---|---|---|---|---|
| Image read cache | `sleuthkit/tsk/img/img_io.c` | slots (offset, length, age, bytes), `cache_lock` | `tsk_img_read` | modelled, proved |
| Raw and split image driver | `sleuthkit/tsk/img/raw.c` | `max_off`, `cptr`, slots of open files, `next_slot`, the kernel's descriptors | `raw_read`, `raw_read_segment`, `raw_close` | modelled, proved |
| Volume systems | `sleuthkit/tsk/vs/mm_part.c`, `dos.c`, ... | partition list | `tsk_vs_part_add`, `tsk_vs_part_unused`, `tsk_vs_part_get`, DOS tables | partly: DOS; proved |
| File system iterator | `lib/Tsk/Fs/Iterator.pm` | `fdstack`, `pathstack`, `inumstack` | `new`, `next` | modelled, without `DESTROY`; proved |
| Volume iterator | `lib/Tsk/Fs/Iterator2.pm` | iterator in use, `volume_offsets` | `new`, `next` | modelled, proved |
| Number list | `sleuthkit/tsk/base/tsk_list.c` | linked buckets | `add`, `find`, `free` | modelled, proved |
| Directory walk | `sleuthkit/tsk/fs/fs_dir.c` 428-741 | `DENT_DINFO` per walk, `list_inum_named` of the file system | `tsk_fs_dir_walk` | modelled, proved |
| Orphan file search | `sleuthkit/tsk/fs/fs_dir.c` 828-1163, `fatfs_dent.cpp` 93-104 | `orphan_dir`, `orphan_dir_lock`, `inum2par` | `tsk_fs_dir_find_orphans`, `tsk_fs_dir_load_inum_named`, `fatfs_dir_buf_add` | modelled, proved |
| File attributes and files | `sleuthkit/tsk/fs/fs_attr.c`, `fs_attrlist.c`, `fs_file.c`, `fs_io.c` | run list, `run_end` | set, add, append runs; read, walk | partly: non-resident runs; proved |
| Hash databases | `sleuthkit/tsk/hashdb/` | `hIdx`, `idx_offsets`, `hash_type`, `base.lock` | lazy opening, look-up | partly: text index; proved |
| Directory buffers | `sleuthkit/tsk/fs/fs_dir.c` 1-427 | `names`, `names_used`, `names_alloc` | alloc, add, copy, open, get, close | not modelled |
| Stack | `sleuthkit/tsk/base/tsk_stack.c`, `TskStack.xs` | `vals`, `top`, `len` | push, pop, find | its use is in the walks |
| Image opening, other formats | `sleuthkit/tsk/img/` | | adapters | not modelled |
| File system drivers | `sleuthkit/tsk/fs/ext2fs.c`, `ntfs.c`, ... | on-disk structures, small caches under locks | | not modelled |
| Opening, blocks, inodes, names | `sleuthkit/tsk/fs/fs_open.c`, ... | | dispatch | not modelled |
| Case database | `sleuthkit/tsk/auto/` | transaction | add image | not modelled |
| Perl bindings | `*.xs`, `lib/Tsk.pm`, `typemap` | handles | open, close, getters | not modelled |
| Locks, errors | `sleuthkit/tsk/base/tsk_lock.c`, `tsk_error.c` | mutexes | | mutexes are variables of the models that use them |
| Framework, Java, tools, libewf, AFFLIBv3 | vendored | | | not modelled |

How they interact. A Perl caller drives `Iterator2`, which opens the volume
system, asks it for its partitions by number, and drives one `Iterator` per
volume, which opens directories and files through the XS classes. Those call
`tsk_fs_*`; the file system driver reads metadata and the runs of attributes
through `tsk_fs_read`, which comes down to `tsk_img_read`, the one cache all
readers of an image share, and from there, under the cache's lock, to an image
driver such as `raw.c`. `tsk_fs_dir_walk` calls back into its user for every
name; the orphan search is such a user, and the result of a search is what a walk
finds when it opens `$OrphanFiles`. A walk from the root leaves a list of named
deleted inodes in the file system, which the search looks up: that list is a
`TSK_LIST`. A hash database is opened by its first look-up. The library is built
thread-safe (`TSK_MULTITHREAD_LIB`) when pthreads are there: one `TSK_IMG_INFO`,
one `TSK_FS_INFO` and one `TSK_HDB_INFO` may be used by several threads.

What is hard.

- *Concurrency*: one cache per image behind one lock, held over the driver's
  read; two locks per file system, of which the search holds one while its walks
  take the other (`orphan_dir_lock`, then `list_inum_named_lock`); one lock per
  hash database, released by callees on their own error paths; none of the
  mutexes is recursive.
- *Partial failure*: the driver fails after the slot has been given its new
  offset; a segment cannot be opened after the slot was emptied for it; memory
  fails for a bucket, for a copy, for a buffer; a directory cannot be opened in
  the middle of a walk; a chain of extended tables breaks; a callback stops or
  refuses.
- *Bounded pools*: slots of the read cache, slots of open segment files.
- *Graphs that are not trees*: deleted entries point anywhere, so directories
  contain each other and themselves, and have several names.
- *Order*: runs, partitions, inodes and numbers come in any order into
  structures that are sorted or consecutive.
- *Width and edges*: `key - len` of a bucket that goes down to 0 wraps; a read
  ends at the first of what is asked, used, initialized and allocated; the window
  of a binary search.

What makes the components correct.

- *Read cache*: no reader gets other bytes than those it asked for, through any
  mix of hits, loads, short loads and failed loads of other readers; the lock is
  let go on every path.
- *Raw driver*: slots, `cptr` and the kernel agree, and the bytes are those of
  the image whatever was closed or failed in between.
- *Volume system*: the list is sorted and numbered without a hole, every sector
  of the image is in it, and no partition of a chain is lost.
- *Iterators*: every file once and all of them; the path printed is the file's;
  what is lost of the partitions is known.
- *Number list*: the answer of `tsk_list_find` is membership, whatever the order
  of the additions.
- *Walk*: every name is shown, walks end, and the list left behind is exactly
  that of the deleted inodes with a name, set once.
- *Orphan search*: what `$OrphanFiles` lists is orphans only, and every orphan
  can be got to from it; all searches agree; every search ends, which on FAT needs
  the parent of each directory to be known before it is opened.
- *Runs*: the list is consecutive and has each piece at its place; reads and walks
  give the file's bytes.
- *Hash look-up*: the answer is membership, every equal line is shown, the index
  is opened once, every look-up returns.

## 2. Plan

Done, in this order: (1) `ImageReads`, `ImgCache` and their proofs; (2)
`FsIterator`, and `VolumeIterator` composed on it; (3) `TskList` and its proofs;
(4) `DirWalk`, whose shared list is the set that (3) proves a `TSK_LIST` to be;
(5) `Orphans`, composed on `DirWalk`; (6) `RawImage` and its proofs; (7)
`Partitions`, and `DiskImage`, which composes it with `VolumeIterator`; (8)
`AttrRuns` with its abstract specification `AttrContent`; (9) `HashIndex` and its
proofs; (10) the proofs of `DirWalk`: the path, then what a walk shows and
collects; (11) those of `Orphans`: the lock, then what a search finds; (12) those
of `DiskImage`, from the partition list to the last file; (13) those of `AttrRuns`:
the list, then its reads and walks. Every safety property a passing run checks is now
stated by a theorem, except `OnlyOffsetZeroIsLost`.

Left, the most important first:

1. The FAT buffers of `fatfs.c` (136-207, 265-309) with their lock, reading through
   `ImageReads`: which buffer is given up, and what a load that fails leaves; and
   FAT directories opened by their address, whose parser begins a walk that enters
   `$OrphanFiles` (`fatxxfs_dent.c:365-395`).
2. `tsk_fs_attrlist` (`fs_attrlist.c`): attributes that are reused while a file
   is opened again, and resident attributes.
3. Handles of the XS files: who owns what they give out, and when it dies.
4. The other volume systems (`bsd.c`, `gpt.c`, `mac.c`, `sun.c`), and the search
   for the one an image has (`mm_open.c`).
5. The states of a case database transaction (`auto_db.cpp`), SQLite being
   external.

Runs are kept few and broad: a run of a module is merged into that of the module
that composes it.

## 3. Models, runs and bounds

`PROJECT.json` maps every definition to its lines. Counts are TLC's distinct
states.

### ImageReads, ImgCache, MCImgCache

`ImageReads` is what callers of `tsk_img_read` are promised: a range is asked
for, one reply comes, -1 or a count, and the bytes are the image's. It knows
nothing of cache, lock or driver. The bytes of a read of a partial last sector
that does not fit the cache are left open, because the code leaves them so (see
`ImgCache_masked_error` below).

`ImgCache` is the function. A call is cut where shared state is touched:

| action | `img_io.c` |
|---|---|
| `Refuse`, `Call` | argument checks 34-66, entry |
| `TakeLock` | 68-72 |
| `ReadAround`, `NoBuffer` | 74-104: ranges that do not fit a slot |
| `PastEnd` | 106-114 |
| `Hit` | 126-172 with a slot that covers the range |
| `Miss` | 126-179: the loop, the choice of the victim, its offset overwritten |
| `Load`, `LoadFails` | 188-232: the driver's read and what follows |
| `Release` | 235-236 |

`cacheOff`, `cacheLen`, `cacheAge`, `cache` are the arrays of `TSK_IMG_INFO`;
`lookups`, `lastUse` and `driver` are history. A byte is named by the image
offset it came from, so "the right bytes" can be said. The driver returns any
count up to what it was asked for, or -1, at every call. A failing driver may
have written to the buffer or not.

| run | shows |
|---|---|
| `ImgCache_threads` (608 000) | `TypeOK`, `LockExcludes`, `CacheMirrorsImage`, `AnswersAreImageBytes`, `ShortOnlyByDriver`, `VictimIsLeastRecentlyUsed`; refinement of `ImageReads` (`ReadsSpec`); under fairness `EveryCallReturns` |
| `ImgCache_masked_error` | violated: an error of the driver is answered as a full read |

Bounds. A unit is 2 bytes for 512 and a slot 4 bytes for 65536, so a range can
be aligned or not, straddle two units, fit a slot by length and not by its start,
or not fit; a sector is larger than a unit, so that the rounding of a read around
the cache differs from the unit of a load. The image is 7 bytes: its last unit is
partial, a slot reaches past its end, and it takes more loads to cover than there
are slots, two. With two threads and three calls the third meets what the second
left of what the first loaded, and a victim is chosen among used slots.
`CacheAge` is 3 for 1000: three calls bring ages to the floor but not below it,
which takes longer sequences; `Replacement` (section 5) covers those of any length.
The proofs cover all values.

### RawImage, MCRawImage

One read at a time, as the driver is called under `cache_lock`. `Call` finds the
segment (`raw_read`), `Open`/`OpenFails` empty the next slot and open the segment
in it, `Read`/`ReadFails` seek if the remembered position is another, read any
count up to what was asked, and go on to the next segment; `Close` is
`raw_close`. `files` is the kernel's side: what each descriptor is, and where.
Bytes are named by their offset in the image and come from where the descriptor
really stands, so a wrong file or position is seen as wrong bytes.

`RawImage_reads` (99 289): `PoolAgrees`, `BytesAreTheImages`. Four segments, the
third of them empty, for two slots and three descriptors, four reads: a slot is
given to a third segment, a segment is opened again in another slot, opens fail
after the slot was emptied, and a read crosses the empty segment. Assumptions
named in the module: descriptor 0 is never returned by `open`, as the driver takes
it for a slot not in use; requests end at the end of the image; sizes of the
segments are known. Only the Unix side is modelled.

### FsIterator, VolumeIterator, Partitions, DiskImage, MCDiskImage

`FsIterator` is `next`: `Enter` (a directory on top for the first time), `Exit`
(any other time), `ReturnFile`, `Exhausted`. The library below is a directory
graph. `VolumeIterator` extends it with the partitions still to come:
`WithinVolume`, `Switch` (`next_volume` puts a new iterator in place and the old
one is asked again), `Finish`.

`Partitions` opens a DOS volume system: `LoadPrimary`, then one action per kind
of slot (`SkipEmpty`, `OutOfImage`, `AddData`, `EnterExtended`, `PassExtended`,
`LoseChain`), `TableDone`, `FillUnused`. The recursion over extended tables is
the stack `tables`. `Added` is `tsk_vs_part_add`, `Filled`
`tsk_vs_part_unused`, whose gaps end where `EndBefore` has the last partition end.

`DiskImage` composes them: `Open` reads the tables, `New` is the constructor of
`Iterator2`, which asks for the partitions by number, `Iterate` its `next`. The
caller is the loop of the synopsis (`Iterator2.pm:25-29`), which calls `next` until it
first returns `undef` (`InLoop`); it may go on after that, or not. `looped` keeps the
partitions iterated over until then.

`DiskImage_files` (66 547): `PartsInOrder`, `EverySectorHasAPart`,
`ChainsAreListed`; `NoFileTwice`, `EveryFileInTheEnd`, `PathLeadsToFile`,
`NoFileLostAtSwitch`; and, from the tables to the last file, what the module's two
kinds of callers get. `LoopEndsAfterOneVolume`: the documented loop comes to its end,
and has then been over one volume only, that of the partition that starts last
(section 6). `OnlyOffsetZeroIsLost`: one who goes on after `undef`, until no iterator is
left, has been over every partition of every chain and nothing else, but for one at
offset 0. Images of 16 sectors: a chain of three tables, one whose second link leads
back to a lower sector, one that breaks in the middle, one with a link out of the
image, two chains of which the first breaks, a partition at offset 0 with others and
alone, nested, overlapping and unordered partitions, partitions past the end, tables
that are refused; on each partition one of three small volumes (none that can be
opened among them). One of the images has a single partition with any graph of four
directories, with up to three, one, one and no subdirectories, some unreadable: enough
for a cycle, a second name in one directory and in two, and an unreadable directory
beside a readable one. Left out: links that go in a circle (`ImagesAssumption`), the
recursion over which does not end (`dos.c:774`); a volume system that does not begin at
sector 0; exhausted memory; disks on which the constructor finds no volume, for which
`next` dies; and directories that can be opened though their address is 0, the address
a handle has that could not be (`InodesAssumption`). The types of the iterators are proved
(`VolumesTypes`).

### TskList

One action per branch of `tsk_list_add` (`AddFirst`, `GrowHead`, `NewHead`,
`Known`, `GrowDown`, `NewTail`, `GrowNext`, `NewBetween`, `NoMemory`) and `Free`;
`Found` is `tsk_list_find`. Numbers wrap at `Word`. `TskList_find` takes every
sequence of additions over 0..7 in up to four buckets: `LargestFirst`,
`NoBucketBelowZero` and `FindIsMembership` (types are proved). A number can come to stand in two
buckets (section 6); the search answers right all the same. Not all numbers of a
word are ever in one list (`NeverAll`): with all 2^64 the length itself would wrap.

### DirWalk, MCDirWalk

`tsk_fs_dir_walk` by several threads. The recursion is the stack `frames`; each
directory entry is one step: `VisitStop`, `VisitError` (what the callback
answers), `PassBy`, `Descend`, then `Leave` and `Finish`. `save`, `collected`,
`stack_seen`, `dirs` are the fields of `DENT_DINFO`; `list` is
`list_inum_named`. Reading it at the start and setting it at the end are one
step each, which is what `list_inum_named_lock` makes of them; in between the
walk touches only what is its own, and the image. On the file systems in
`OutOfMemory` the list may fail to grow, at any entry or at none.

`DirWalk_walk` (146 585): `ListIsComplete`, `EveryNameIsShown`,
`PathIsTheWayDown`, and under fairness `WalksEnd`; one walk from either of two
directories, with callbacks that continue, stop or fail anywhere. Root listings
of up to two names of six kinds (allocated and deleted directories, an allocated
name of a deleted directory, a loop to the root, `$OrphanFiles`) and of three in
every order of a directory, a deleted one and `$OrphanFiles`; below, directories
that contain each other or the root, unreadable directories and inodes that cannot
be loaded. `MaxDepth` is 2, so that paths are cut. Several threads whose walks
race to set the list are in `Orphans_searches`, with `ListIsSetOnce`; the proofs take
any number. `ListIsComplete` and `EveryNameIsShown` say nothing of a walk whose
callback answered ERROR (section 6). Left out: `DIR_STRSZ` (the path never fills
its buffer), and a failing `tsk_stack_push`.

### Orphans, MCOrphans

Composes with `DirWalk`: the walks a search makes are its steps (`WalkFrom`,
`PassBy`, `Descend`, `Leave`, `VisitStop`, `Finish`) with the callback of the
search: `NoListYet` and `LoadNamed` (the look whether there is a list, and that of the
walk, are two steps, between which another walk may set it), `LoadStep`/`LoadEnds` for
`load_inum_named`, `MarkStep`/`MarkStop`/`MarkEnds` for the walks below an orphan
directory. The inode walk is `SkipInode`, `InodeFails`, `AddFile`, `AddDirectory`; the
cleanup is `DeDup`; the result is copied by `Keep`. Users walk the same file system in
between (`UserWalk`).

Where memory may run out: in the list of names (`DirWalk`); for the name all orphans
are added with (`NameFails`); for adding one, or noting its parent (`InodeFails`); for a
mark, which nobody looks at (`AfterMark`); for the copy, its names, or the metadata of
`$OrphanFiles`, which leaves no `orphan_dir`, one without names, or the whole of it
(`KeepFails`); for the copy of an earlier result (`Cached`).

`inum2par` is the map in which FAT12, FAT16 and FAT32 (`FatImages`) keep the
parent of every directory. The parser fills it with the directories listed in the
one it opens (`Opens`, `Parsed`), the callbacks of the search with what they come
to (`WithParent` in `AddFile`, `AddDirectory`, `MarkStep`). To open a directory
also looks up its own parent, and when it is not there walks everything, with
`$OrphanFiles` (`fatxxfs_dent.c:373`): a search would wait for its own lock.
`ParentsAreKnown` says that it never comes to that, and that the parents are the
right ones. Two assumptions of the module draw the line: FAT names have a type
(`fatxxfs_dent.c:324`), and walks of users start at the root.

| run | shows |
|---|---|
| `Orphans_searches` (141 010) | two threads, two searches and a walk that comes anywhere between, with memory failing on some of the file systems: `OrphansTypeOK` (who searches holds the lock, and nobody else), `SearchesAgree`, `ListIsSetOnce`, `ParentsAreKnown`, and under fairness `SearchesEnd`; where memory lasts, `EveryOrphanIsReached` and `OnlyOrphansAreListed` |

Bounds. Two orphan directories, of which the one with the larger address may
contain the other, and two files: the inode walk then comes to an entry before
and after the directory it is in, which is what the marks and the cleanup are
for. A second search meets what the first has left. No directory contains one it is in:
the cleanup can take out all of a ring (section 6). On three of the file systems, with
an orphan directory, a name and directories that cannot be opened, memory may fail, at
every place named above; a list that could not be kept makes named files look like
orphans there, which is why the two properties about what is found leave them out.
TLC checks deadlock: if the search's walks entered `$OrphanFiles` (without
`TSK_FS_DIR_WALK_FLAG_NOORPHAN`, `fs_dir.c:868` and `1011`), the thread would wait
for the lock it holds, and the run stops there. A walk that enters
`$OrphanFiles` is the search of a thread of its own that the walk waits for. The
images whose metadata all loads stand for FAT, the others for the rest. Left out: the
walk for an unknown parent, which no search and no walk from the root begins; a FAT32
root with a `..` that is not at the first data sector; exFAT, whose parser does
not use the map; and failures of memory elsewhere in a walk or its callbacks, such as
that of `fatfs_dir_buf_add` below an orphan directory, which ends the marking with an
ERROR (`fs_dir.c:935`).

### AttrContent, AttrRuns, MCAttrRuns

`AttrContent` is what those who add runs are promised: a set of clusters, each
with its place in the file, to which the clusters of a piece are added together or
not at all. `AttrRuns` is the run list: `SetRun` (`tsk_fs_attr_set_run`), the
three ways of `tsk_fs_attr_add_run` (`AddAtEnd`, `AddInFiller`, `AddBehind`),
what it refuses (`AddRefused`), `AppendRun` (`tsk_fs_attr_append_run`). `overlaid` is
history: it says that what was left of a filler has been laid over runs (`LaidOver`,
section 6). The refinement maps the clusters of all runs that are no filler.

`Read` takes one turn per run (`ReadTurn`, a recursive function of the number of turns)
and ends early when the device gives less than was asked for. `Walk` goes through the
`Blocks` of all runs: `Ends` is the first that is behind the file system or cannot be
read (`Fails`), at which the callback answers STOP or ERROR, or with which everything
is shown. What is skipped at the beginning of an attribute (`skiplen`) is in `Off`,
`SkipRemain`, `Called` and `RetLen`. Of the device a file has the last block of the file
system, the bytes the image holds, and those that cannot be read (`FsType`, `Given`,
which is `tsk_fs_read`). Failures are those that `tsk_img_read` passes on: an error it
masks (`ImgCache_masked_error`) is not one.

`FilesAssumption` says what drivers hand over: pieces are consecutive runs, none of
them fillers, that do not overlap; a file that begins as one filler is filled run by
run (`yaffs.cpp:2832-2855`), and what is appended comes without gaps
(`unix_misc.c:77-88`).

| run | shows |
|---|---|
| `AttrRuns_reads` (1 308) | `ConsecutiveUnlessLaidOver`; refinement of `AttrContent` (`ContentSpec`); `BlockReadIsContent` for every offset at a block and length, `WalkIsContent` for every block at which the callback stops or refuses, both with and without slack |
| `AttrRuns_laid_over` | violated: `RunsAreConsecutive`, whatever pieces come |
| `AttrRuns_unaligned` | violated: `ReadIsContent`, the same from any offset |

Bounds. Files of five clusters of two bytes in up to five pieces, which come in
every order; a file starts with any of them, with a filler for all of it, or
with nothing, or is only appended to. Pieces of several runs come into fillers that
end with them and into such as go on. Sizes and initialized sizes end in the
middle of a block and on its edge. Devices are whole, have bytes that cannot be read,
hold half of a run, or end before a run or a hole; what is skipped is part of a block,
a block, or more. The states are few because each stands for a whole list; the
properties quantify over all reads of it.

What the properties say nothing of, each for something the code does (section 6): a
list in which something was laid over runs; reads of an attribute with a `skiplen`, which
they ignore; walks of one that skips part of a block and has less than a block
initialized. Not modelled: the flags `NOSPARSE` and `AONLY` of a walk.

### HashIndex, MCHashIndex

A call goes through `entering`, `opening` (under the lock: `AlreadyOpen`,
`OpenIndex`, `OpenFails` and `ReleaseAgain`), `opened` (no lock: `WrongType`,
`Bounds`), `bounded`, and `searching` (under the lock: `Halve`, `NotThere`,
`Found`, `SearchFails`). The table of the index of the index is `TableOf`; what becomes
of `idx_offsets` is `OffsetsLoaded`: that table, nothing when its file is not there or is
refused, and zeros when it cannot be read (`binsrch_index.cpp:265-275`). After such a
failure the index is open, and later look-ups search the windows that zeros make;
`AnswersAreMembership` has their "not found" as its one exception (section 6).

| run | shows |
|---|---|
| `HashIndex_lookups` (224 619) | `AnswersAreMembership`, `LazyLoadIsLocked`, and under fairness `LookUpsReturn` |
| `HashIndex_double_unlock` | violated: `LazyLoadIsLocked`, when there is no index |

Bounds. Six hashes in three prefixes, five indexes with gaps within and between
prefixes and equal lines at the start and end of a prefix and of the index, with
the table whole, missing, short or unreadable; two threads, two calls, either of them for
either type. In the passing run two threads share a database that has its indexes,
and one thread may find none; two threads without an index are the second run.

## 4. Fairness

`WF` per thread, on the steps inside the library only: a thread that is inside
keeps running and its callbacks return (`ImgCache`, `DirWalk`, `Orphans`,
`HashIndex`). Nobody is made to call. No fairness of mutexes is assumed, since
pthreads promise none: that a waiting thread gets the lock in the end rests on
the bound of calls (`MaxCalls`, `MaxWalks`, `MaxSearches`), after which nobody
takes it away. In `DiskImage` `WF` of `New`, and of `Iterate` until the first `undef`,
is the constructor and the loop its synopsis shows (`Iterator2.pm:25-29`); nobody is made
to call `next` after it. `RawImage` and
`AttrRuns` promise nothing in time: they state no fairness.

`CHECK_DEADLOCK FALSE` stands where the system stops: an image that failed to
open, a closed driver, a file whose pieces have all come, threads that have made
all their calls.

## 5. Proofs

Eight modules. Every theorem holds for all values of the constants, from the named
`ASSUME`s of the modules: sizes positive, sets not empty, `NoThread` and `Null`
no thread, segments in ascending order, indexes sorted, images as their types say.
Where a theorem has a hypothesis besides, it is named below.

`ImgCacheProofs`. `Invariance` proves the inductive `IInv`. The properties alone
are not inductive: what a thread knows between its steps has to be added.
`ArgumentsChecked` (inside the library arguments are not negative), `LoadPlaced`
(a load is under way at the unit the request begins in), `UseIsPast` (last uses
are not in the future), `ReplyPerThread`.

- `CacheFidelity`, `AnswerFidelity`, `AnswerCompleteness`: the bytes. The
  argument is that all that touch the slots hold the lock (`LockExclusion`), so
  the one slot whose offset runs ahead of its length is the loader's own.
- `Replacement`: the age of a used slot is `CacheAge - (lookups - lastUse)`, so
  least age is least recent use; that a least one exists for any number of slots
  is `LeastLemma`.
- `Refinement`: `Spec => ReadsSpec`. Every step is `Ask`, `Answer`, `Refuse` or a
  stutter of `ImageReads`; that `Answer` is allowed is taken from `IInv` and
  from what each action puts into `reply`.

`RawImageProofs`. `IInv` is types, `PoolAgrees`, `SegmentIsOpen` (in
`raw_read_segment` at `read` the segment is in its slot), `InStep` (request,
segment, offset in it and bytes read so far fit together) and `BytesAreTheImages`.
`PoolAgreement` rests on `OneSlotPerFile`: two slots never have one descriptor, so
closing the evicted one takes nothing from another. `ByteFidelity` follows, since
the descriptor of the slot stands where `seek_pos` says.

`TskListProofs`. `IInv` is types, `LargestFirst`, `NoBucketBelowZero` and that the
buckets stand for just the members. `NoBucketBelowZero` needs the member part: a
bucket that goes down to 0 cannot grow, because `Below` is then the largest
number, which the list would have to hold for the key to be refused;
`Membership` needs the order, because `tsk_list_find` stops at the first smaller
key.

`HashIndexProofs`. `IInv` says that `idx_offsets` is the table of the index that is open,
nothing, or, if the read of it failed, zeros; and that the window of a search has every
line equal to the hash, except with zeros, when all that is known is that it is within
the index. That it does at first is `OffsetsLemma` and `NextStartLemma`, about `TableOf` of any sorted
sequence; each turn keeps it because the lines are sorted. `Membership` is then a
window that has shrunk to nothing, or a line and its neighbours. (With zeros every
window begins at the first line; the lines shown are all the equal ones in it.) It
needs no lock,
`low` and `up` being the thread's own and the index the same once it is open.
`LazyLoad` does, and holds when every type's index is there, the hypothesis the
second run shows to be necessary.

`DirWalkProofs`. `IInv` is `InStep` of every thread: the addresses seen are the
directories of the calls below the first (`Way`), the path is as many of them as
there is room for (`Path`), and every call is in a directory that could be opened,
at one of its entries (`Placed`). `PushLemma` and `PopLemma` say how a call and a
return keep it; they carry `PathOfTheWalk`, whose difficulty is the return from
below `MAX_DEPTH`. `NeverRound`: no address is twice on the stack, so the
recursion is no deeper than there are directories, the start not counted, whatever
contains what. `OneList`: the list is set once.

Its second part is about what a walk comes past. It marks no directory as done,
and may go through one many times, or leave one out because it is on the stack at
that moment. So the invariant says that there is a set of directories, those come
to, in which every entry is done with or still to come in a call on the stack
(`Covers`); with no call left, nothing leads out of the set. One such set is kept for
what is shown (`Shows`), one for the deleted inodes collected outside `$OrphanFiles`
(`Gathers`), one more while inside it, where the list is put aside (`Collects`, with
`Flagged` for where `save` and the flags stand). Sets come to are also within what
can be got to, which gives the other direction. `EveryName` and `CompleteList` hold of
any directory graph. `CompleteList` speaks, as `ListIsComplete` does, of walks that no
callback refused. Memory may fail: the walk then gives its list up as a whole, so
there is none, never a short one. `NoListAssumption` is that `NULL` is no list.

`OrphansProofs`. `SInv`: who is past the lock holds it, and while a result is being
made none is kept. So the result that `Keep` leaves replaces none that was given
out, which is `Agreement`; `Exclusion` is mutual exclusion of searches;
`OneListForAll` carries `OneList` over to the walks of users and searches
together.

`WInv` is the invariant of `DirWalkProofs` kept by searches too, which rests on
what a search does between its walks (`Between`: the thread has none on its way),
and that no walk enters `$OrphanFiles` (`KeepsOut`). On it stands `KInv`: of every
directory on a stack, and of every one listed in it, the FAT parent is known.
`ParentsFirst` follows: a walk goes into nothing but what is listed in the directory
it is in (`WalkingCalls`), and a search notes an orphan before it goes in.

What a search finds is in three more invariants. `TInv`: types, and that the thread
with a search on its way is the one with the lock (`TypesOfSearches`). `NInv`: no walk
enters `$OrphanFiles` below its start, and none of a FAT file system at all. `FInv`
(`Finding`): what is listed are orphans that the inode walk has been past, each once;
every orphan it has been past is listed or marked; and what is marked can be got to
from what is listed. This needs the list to be complete, so
`ListForSearches` carries `CompleteList` over to searches first. That the cleanup
(`DeDup`, a loop that shrinks the list it goes through) takes out only what can be got
to from another is shown for the function of its turns, by a least counterexample.
`OnlyOrphans` and `NoOrphanIsLost` follow; `PInv`, with them, says of `inum2par` that
the parents are the right ones (`RightParentsAreKnown`), as `$OrphanFiles` is the parent
of nothing but orphans. The conditions, each of which is needed:

- memory lasts on the file system looked at (`img \notin OutOfMemory`, in the properties
  themselves; it may fail on others): a failed copy leaves a result without names, and
  after a failed `tsk_list_add` there is no list, so that a search takes files with a
  name for orphans (section 6);
- no callback of a user has answered ERROR (`NeverRefused`): the list of a walk that
  was cut short so is kept;
- for `NoOrphanIsLost`, no directory contains one it is in (`NoCycles`): the cleanup
  can take out every member of a ring.

`OrphanAssumption` is that the metadata of `$OrphanFiles`, which the library makes
up, is allocated.

`DiskImageProofs`. `DiskInv` is `PartsInv`, `ItInv` and `DiskTyped`, the last being the
types of what is between the list of partitions and the iterators. It needs nothing
but the assumptions on the types of images.

- `PartsInv`: the list is sorted and numbered (`Ordered`), and until gaps are filled in
  it has partitions and tables only (`FromTables`). `AddedLemma` says where
  `tsk_vs_part_add` puts a part, and that all others stay in order, which is
  `PartsStayInOrder`. `FilledTo` relates the filled list with what it was filled from:
  a one-to-one map `g` of its places to the old parts and the gaps, for the function of
  the turns of `Filled`, by a least counterexample. A gap lies between where the last
  part before ends and the next begins, so every sector is in one or the other
  (`SourceCovers`), and in disjoint ones just once (`SourcesApart`):
  `SectorsAreAccountedFor`.
- `ChainInv`, for `PartitionsOfChains`: what is listed is named by a table of a chain;
  and while tables are read there is a set of tables, those come to, in which every slot
  is listed or still to be read (`Explored`). A table that is left, or a link that is
  broken, leaves nothing to be read when links come last, so the set is closed, and
  `Chain` is the least such set. Links may lead to lower sectors; circles are left out,
  which `Partitions` assumes of images (`ImagesAssumption`). Breaking one chain touches no other
  (`PrimarySeen`).
- `ItInv`: of a directory that was entered every file has been returned or is on the
  stack, not both, and once (`FilesOnce`); what is listed in one was entered or is on the
  stack (`DirsKept`). So an empty stack means all was returned (`EveryFileReturned`), and
  what is thrown away at a change of volume is no file (`NoFileIsLostAtSwitch`).
- `PathKept`, for `PathIsThatOfTheFile`: on a tree there are places `p` in the stack,
  one for each name of the path, such that all between two places are of the directory at
  the first (`OnThePath`, `OffThePath`), and no directory is on the stack twice.

`AttrRunsProofs`. `IInv` is types, `RunsAreConsecutive`, and four facts about the list
that make it inductive as long as nothing is laid over runs (`~overlaid`): it holds the runs of a set of pieces and nothing else but
fillers (`Added`), no two fillers are neighbours (`Apart`), only a list that was one
filler to begin with ends with a filler (`LastIsPiece`), and it is empty until it is
set. The step that needs them is `AddInFiller`, which tests that the filler begins
before the piece and ends behind where the piece starts, but never that the piece
fits. It does (`RoomLemma`): behind a filler is the first run of a piece that was
added, and pieces do not overlap; or nothing, and then the filler was made for the
whole file. What is put in, before, behind or between is handled by lemmas about chains
of runs (`JoinLemma`, `TakeOutLemma`).

- `ConsecutiveRuns`, and `ImplementsContent`: with nothing laid over runs
  (`[]~overlaid`) the list implements `AttrContent`. A
  piece that comes is in no other's place, since its clusters are apart from those of
  all runs there are.
- `BlockReads`: what the turns of a read have got is, after each run, the bytes of the
  file up to the end of the run, or up to where the device came short, for the function
  of the turns, by a least counterexample. It uses of the list that it is consecutive,
  which makes the run that has a byte the only one (`ByteLemma`). That the offset in the
  block is 0 is part of what is kept; from any other offset the property is false
  (`AttrRuns_unaligned`).
- `Walks`: the b-th block a walk comes to is the one the run that has the b-th cluster
  gives, again for a function of the turns (`Blocks`). Up to the block with which it ends
  none fails and none is the last to be shown, so `Off` and `RetLen` put the bytes of
  each behind those of the block before.

After something was laid over runs (`fs_attr.c:516-518`, section 6) the runs overlap, and
`BlockReadIsContent` and `WalkIsContent`, read without their condition, are false.
`ContentSpec` is not: TLC checks it of those lists too; it is proved without them because
it rests on the same invariant.

Only model-checked: liveness (`EveryCallReturns`, `WalksEnd`, `SearchesEnd`,
`LookUpsReturn`, `LoopEndsAfterOneVolume`), as TLAPS has no `ENABLED` here, and
`OnlyOffsetZeroIsLost`.

## 6. Where code and comments disagree

Four runs end in a violation by design; each checks what a comment or a doc of
the repository says. `PROJECT.json`, `findings`, quotes them.

- `ImgCache_masked_error`: a driver that fails is answered as a full read, of the zeros
  of a buffer that was just allocated (`img_io.c:93`).
- `AttrRuns_laid_over`: when several runs are put into a filler together, what is left of
  the filler goes on from the end of the first of them, and lies over the others
  (`fs_attr.c:516-518`). NTFS makes such fillers (`fs_attr.c:327-344`) and adds pieces of
  several runs.
- `HashIndex_double_unlock`: when the index cannot be opened the lock is released
  twice, the second time perhaps under another thread (`binsrch_index.cpp:543`).
- `AttrRuns_unaligned`: a read that begins inside a block of a run that is not
  read from the device applies the offset in the block again to the next run
  (`fs_attr.c:1163`).

Two more are findings which passing runs show:

- `DiskImage_files`, `LoopEndsAfterOneVolume`: the loop of the synopsis, said to be over
  all volumes, ends at the `undef` between the first and the second (`Iterator2.pm:82`).
- `HashIndex_lookups`, `AnswersAreMembership` but for its last line: after a failed read
  of the table of the index, hashes that are there are answered to be not
  (`binsrch_index.cpp:265-275`).

Seen while modelling, and not kept as runs. The properties above are stated so
that they hold with these, or their instances leave them out where said so.

Images:

- Ages of used slots go below 1, although the comment above the decrement says
  they are kept from it (`img_io.c:157-160`).
- A raw read that crosses the end of the last segment goes on with an index past
  `max_off` (`raw.c:264`). `raw_open` loses `max_off` on some of its errors
  (`raw.c:705-711`).

Volumes and iterators:

- A volume at offset 0 is taken for none (`Iterator2.pm:57`), even if it is the only
  one.
- The second handle of a directory that is listed twice pops a name of the path
  that is not its own (`Iterator.pm:202-205`).
- A partition that an extended table names after its link is lost when the chain
  breaks behind it; `ChainsAreListed` speaks of tables whose links come last.
- Unused space is counted up to the size of the image, also for a volume system
  that does not begin at its start (`mm_part.c:124-170`).

Walks and orphans:

- An ERROR below the start directory does not end the walk, whose list is then
  kept although it is not complete (`fs_dir.c:604`).
- A STOP inside `$OrphanFiles` returns without giving back the list saved on
  entering it (`fs_dir.c:514`, `596-627`).
- The last name is moved to the place of one that was taken out, and is not
  looked at itself (`fs_dir.c:1125-1134`). It stays listed, so no orphan is lost.
- Two orphan directories that contain each other mark each other, and may both
  be taken out of `$OrphanFiles`.
- When `tsk_list_add` fails the walk goes on and its list is cleared, so none is
  kept; the search then lists named files as orphans (`fs_dir.c:533`, `1088`).
- When the copy of the names fails, an `orphan_dir` without names is kept, and
  every later search answers that there are no orphans (`fs_dir.c:1143-1153`).
- A load of FAT sectors that fails leaves a buffer that still counts as the one it
  was (`fatfs.c:179-189`; FAT12 across two sectors, 283-296).
- When the walk for the parent of a FAT directory fails, the parser returns `TSK_OK`
  with the names it has so far (`fatxxfs_dent.c:373-379`).
- In a bucket that goes down to 0 `key - len` wraps to the largest number, so
  its numbers no longer count as contained, and one that is added again comes to
  stand in a second bucket (`tsk_list.c:97-98`).

Attributes:

- The filler `tsk_fs_attr_set_run` allocates is not tested for NULL (`338`).
- A short `tsk_fs_read` in the middle of a read returns the count of the last
  run only (`1176`), and the bytes it leaves that are not initialized are not wiped
  (`1180-1193`).
- Reads ignore `skiplen` (`1070-1071`), which walks honour (`855-872`) and
  `tsk_fs.h:268-291` describes.
- A walk wipes what is not initialized from `initsize - off` on, counted in the block and
  not from where what is skipped ends (`848`).
- A hole longer than the file system makes a walk fail, since its blocks are counted from
  address 0 too (`795`).

Hash databases:

- An index whose header is wrong stays open without a line buffer
  (`binsrch_index.cpp:390-514`).
- The type that is asked for first stays; `hdb_binsrch_has_index` then answers 1
  for another type.
- The index of the index is made, and closed, without the lock; a callback that
  looks up in the same database would wait for itself.

## 7. Not modelled

- *Image formats and opening, file system drivers, opening and dispatch*: on-disk
  formats and adapters; what walks, iterators and runs use of them is in the
  images those models are given. Of the FAT parser only its map of parents is
  modelled, in `Orphans`.
- *Directory buffers, stack*: arrays that grow. Their use is in `FsIterator`,
  `DirWalk` and `Orphans`, where pushes and pops balance.
- *Perl bindings*: wrappers around one call each. What they do with a handle whose
  owner has died is undefined behaviour of the C below.
- *Case database*: the state and its atomicity are in SQLite and PostgreSQL.
- *Windows branches, resident and compressed attributes, making a hash index,
  SQLite hash databases*: other branches of the components above.
- *Framework, Java, tools, build, samples, libewf, AFFLIBv3*: not part of the
  distribution's own logic.
