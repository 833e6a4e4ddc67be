------------------------------- MODULE RawImage -------------------------------
(***************************************************************************)
(* The raw driver below tsk_img_read (sleuthkit/tsk/img/raw.c): an image   *)
(* split into segment files, of which at most SPLIT_CACHE are open at a    *)
(* time.  cptr says in which slot a segment is open, a slot says which     *)
(* segment it holds; the kernel knows what a descriptor really is.         *)
(*                                                                         *)
(* A driver is called under cache_lock, so one read is under way at most.  *)
(* A byte is named by its offset in the whole image.                       *)
(***************************************************************************)
EXTENDS Integers

CONSTANTS
    NumImg,      \* raw_info->num_img
    MaxOff,      \* raw_info->max_off: where each segment ends, by raw_open
    SplitCache,  \* SPLIT_CACHE, 15
    Fds,         \* what open(2) can return
    Offs, Lens,  \* what tsk_img_read asks for
    MaxReads     \* bound: reads in a behaviour

Images == 0..(NumImg - 1)
Slots == 0..(SplitCache - 1)
ImgSize == MaxOff[NumImg - 1]
Start(i) == IF i = 0 THEN 0 ELSE MaxOff[i - 1]

ASSUME SegmentsAssumption ==
    /\ NumImg \in Nat \ {0}
    /\ MaxOff \in [Images -> Nat]
    /\ \A i \in Images : Start(i) <= MaxOff[i]

ASSUME PoolAssumption == SplitCache \in Nat \ {0}

\* Descriptor 0 is taken: to the driver it means a slot not in use.
ASSUME FdsAssumption == Fds \subseteq Nat \ {0}

\* A cached load is cut at the end of the image (img_io.c:182-183).
ASSUME RequestsAssumption ==
    /\ Offs \subseteq Nat /\ Lens \subseteq Nat \ {0}

ASSUME MaxReadsAssumption == MaxReads \in Nat

VARIABLES
    cptr, next_slot,
    cache,   \* the slots: fd, image, seek_pos
    files,   \* the kernel's side of each descriptor
    pc,      \* "idle", in raw_read_segment at "open" or "read", "closed"
    req,     \* offset and len of the read under way
    idx, rel_offset, read_len,  \* arguments of raw_read_segment
    buf,     \* what has been read so far
    reply,   \* the last return, and the bytes up to there
    reads    \* reads made, for the bound

poolVars == <<cptr, next_slot, cache, files>>
callVars == <<req, idx, rel_offset, read_len, buf>>
vars == <<poolVars, callVars, pc, reply, reads>>

Unopened == -1
Closed == [image |-> -1, pos |-> 0]
Error == [ret |-> -1, data |-> <<>>]
NoRequest == [off |-> 0, len |-> 0]
Smaller(a, b) == IF a <= b THEN a ELSE b

Init ==
    /\ cptr = [i \in Images |-> Unopened]
    /\ next_slot = 0
    /\ cache = [s \in Slots |-> [fd |-> 0, image |-> 0, seek_pos |-> 0]]
    /\ files = [f \in Fds |-> Closed]
    /\ pc = "idle"
    /\ req = NoRequest
    /\ idx = 0 /\ rel_offset = 0 /\ read_len = 0
    /\ buf = [n |-> 0, data |-> <<>>]
    /\ reply = Error
    /\ reads = 0

Return(r) == reply' = r /\ pc' = "idle"

\* raw_read_segment begins: is the segment already open?
Segment(i, rel, len) ==
    /\ idx' = i /\ rel_offset' = rel /\ read_len' = len
    /\ pc' = IF cptr[i] = Unopened THEN "open" ELSE "read"

-------------------------------------------------------------------------------
(* raw_read.                                                               *)

\* Too large, or in no segment.
Refuse ==
    /\ pc = "idle" /\ reads < MaxReads
    /\ \E o \in Offs : o >= ImgSize
    /\ Return(Error)
    /\ reads' = reads + 1
    /\ UNCHANGED <<poolVars, callVars>>

\* The first segment that ends behind the offset, for as much as it has.
Call ==
    /\ pc = "idle" /\ reads < MaxReads
    /\ \E o \in Offs, n \in Lens, i \in Images :
        /\ o + n <= ImgSize
        /\ o < MaxOff[i] /\ \A j \in Images : o < MaxOff[j] => i <= j
        /\ req' = [off |-> o, len |-> n]
        /\ Segment(i, o - Start(i), Smaller(n, MaxOff[i] - o))
    /\ buf' = [n |-> 0, data |-> <<>>]
    /\ reads' = reads + 1
    /\ UNCHANGED <<poolVars, reply>>

-------------------------------------------------------------------------------
(* raw_read_segment.                                                       *)

\* The next slot is freed of the segment in it, and given to this one.
Evicted == cache[next_slot]
InUse == Evicted.fd # 0

\* Mutant: the descriptor of the slot is not closed.
FilesWithEvicted == files

FilesWithoutEvicted ==
    IF InUse THEN [files EXCEPT ![Evicted.fd] = Closed] ELSE files

CptrWithoutEvicted ==
    IF InUse THEN [cptr EXCEPT ![Evicted.image] = Unopened] ELSE cptr

Open ==
    /\ pc = "open"
    /\ \E f \in Fds :
        /\ FilesWithoutEvicted[f] = Closed
        /\ files' = [FilesWithoutEvicted EXCEPT ![f] = [image |-> idx, pos |-> 0]]
        /\ cache' = [cache EXCEPT ![next_slot] = [fd |-> f, image |-> idx, seek_pos |-> 0]]
    /\ cptr' = [CptrWithoutEvicted EXCEPT ![idx] = next_slot]
    /\ next_slot' = (next_slot + 1) % SplitCache
    /\ pc' = "read"
    /\ UNCHANGED <<callVars, reply, reads>>

\* open(2) fails when the slot has been freed already.
OpenFails ==
    /\ pc = "open"
    /\ files' = FilesWithoutEvicted
    /\ cptr' = CptrWithoutEvicted
    /\ cache' = [cache EXCEPT ![next_slot].fd = 0]
    /\ Return(Error)
    /\ UNCHANGED <<next_slot, callVars, reads>>

\* Mutant: the seek before a read that fails is not remembered.
ReadFailsForgettingSeek ==
    /\ pc = "read"
    /\ \/ UNCHANGED files
       \/ files' = [files EXCEPT ![cache[cptr[idx]].fd].pos = rel_offset]
    /\ Return(Error)
    /\ UNCHANGED <<cptr, next_slot, cache, callVars, reads>>

\* lseek(2) or read(2) fails.  A seek that was made stays made.
ReadFails ==
    /\ pc = "read"
    /\ LET s == cptr[idx] IN
        \/ UNCHANGED <<cache, files>>
        \/ /\ cache' = [cache EXCEPT ![s].seek_pos = rel_offset]
           /\ files' = [files EXCEPT ![cache[s].fd].pos = rel_offset]
    /\ Return(Error)
    /\ UNCHANGED <<cptr, next_slot, callVars, reads>>

\* What read(2) puts behind the bytes read before, at a descriptor's position.
Extended(file, n) ==
    [n |-> buf.n + n,
     data |-> [k \in 0..(buf.n + n - 1) |->
                 IF k < buf.n THEN buf.data[k] ELSE Start(file.image) + file.pos + (k - buf.n)]]

\* n bytes are read.  All that was asked of this segment, and more asked for:
\* the next one, from its start.
Read ==
    /\ pc = "read"
    /\ \E n \in 0..read_len :
        LET s == cptr[idx]
            fd == cache[s].fd
            at == IF cache[s].seek_pos # rel_offset THEN rel_offset ELSE files[fd].pos
            got == Extended([files[fd] EXCEPT !.pos = at], n)
        IN
        /\ files' = [files EXCEPT ![fd].pos = at + n]
        /\ cache' = [cache EXCEPT ![s].seek_pos = rel_offset + n]
        /\ buf' = got
        /\ IF n = read_len /\ got.n < req.len
           THEN /\ Segment(idx + 1, 0, Smaller(req.len - got.n, MaxOff[idx + 1] - MaxOff[idx]))
                /\ UNCHANGED reply
           ELSE /\ Return([ret |-> got.n, data |-> got.data])
                /\ UNCHANGED <<idx, rel_offset, read_len>>
    /\ UNCHANGED <<cptr, next_slot, req, reads>>

\* raw_close.
Close ==
    /\ pc = "idle"
    /\ files' = [f \in Fds |-> IF \E s \in Slots : cache[s].fd = f THEN Closed ELSE files[f]]
    /\ pc' = "closed"
    /\ UNCHANGED <<cptr, next_slot, cache, callVars, reply, reads>>

Next == Refuse \/ Call \/ Open \/ OpenFails \/ ReadFails \/ Read \/ Close

Spec == Init /\ [][Next]_vars

-------------------------------------------------------------------------------
(* Properties.                                                             *)

\* Two slots hold two segments; a segment is open in the slot that cptr says,
\* under a descriptor that is that file at the position the slot remembers;
\* and no descriptor is left open outside the slots (raw.c:50-105, 349-361).
PoolAgrees ==
    /\ \A f \in Fds : files[f] # Closed <=> pc # "closed" /\ \E s \in Slots : cache[s].fd = f
    /\ \A i \in Images : cptr[i] # Unopened => cache[cptr[i]].fd # 0 /\ cache[cptr[i]].image = i
    /\ pc # "closed" => \A s \in Slots : cache[s].fd # 0 =>
        /\ cptr[cache[s].image] = s
        /\ files[cache[s].fd] = [image |-> cache[s].image, pos |-> cache[s].seek_pos]

\* Whatever segments were closed, failed to open or were read in between, the
\* bytes of a read are those of the image at the offset asked for, no more than
\* asked for; and fewer only if a segment's own read stopped short inside it,
\* never at a seam (raw.c:197-304).
BytesAreTheImages ==
    pc = "idle" /\ reply.ret # -1 =>
        /\ \A k \in 0..(reply.ret - 1) : reply.data[k] = req.off + k
        /\ reply.ret <= req.len
        /\ reply.ret < req.len => req.off + reply.ret < MaxOff[idx]

===============================================================================
