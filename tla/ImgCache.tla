------------------------------- MODULE ImgCache -------------------------------
(***************************************************************************)
(* The read cache of an open disk image: tsk_img_read of                   *)
(* sleuthkit/tsk/img/img_io.c, called by several threads that share one    *)
(* TSK_IMG_INFO.  cache_lock is taken once per call and kept over the      *)
(* driver's read; a call is modelled at the grain of what happens between  *)
(* two touches of shared state: asking, taking the lock, the look through  *)
(* the slots, the driver's read into the chosen slot, the release.         *)
(*                                                                         *)
(* img_info->read is the raw driver (raw.c); all that matters of it here   *)
(* is how many bytes it returns.  A byte is named by its image offset.     *)
(***************************************************************************)
EXTENDS Integers

CONSTANTS
    Threads, NoThread,
    ImgSize,    \* img_info->size
    Unit,       \* the 512 a cached load is rounded down to
    SectorSize, \* img_info->sector_size
    CacheLen,   \* TSK_IMG_INFO_CACHE_LEN, 65536
    NumSlots,   \* TSK_IMG_INFO_CACHE_NUM, 4
    CacheAge,   \* CACHE_AGE, 1000
    Offs, Lens, \* what callers ask for
    MaxCalls    \* bound: calls in a behaviour

ASSUME SizesAssumption ==
    /\ ImgSize \in Nat
    /\ Unit \in Nat \ {0}
    /\ SectorSize \in Nat \ {0}
    /\ CacheLen \in Nat \ {0}
    /\ NumSlots \in Nat \ {0}
    /\ CacheAge \in Nat

ASSUME RequestsAssumption ==
    /\ Offs \subseteq Int /\ Offs # {}
    /\ Lens \subseteq Int /\ Lens # {}

ASSUME ThreadsAssumption == NoThread \notin Threads

ASSUME MaxCallsAssumption == MaxCalls \in Nat

VARIABLES
    lock,       \* the holder of img_info->cache_lock
    cacheOff,   \* img_info->cache_off
    cacheLen,   \* img_info->cache_len, 0 for a slot not in use
    cacheAge,   \* img_info->cache_age
    cache,      \* img_info->cache: the byte at each relative offset
    pc,         \* where each thread is in tsk_img_read
    req,        \* its a_off and a_len
    next,       \* its cache_next
    reply,      \* what its last call returned, and a_buf up to there
    calls,      \* calls made, for the bound
    \* history: how often the slots were looked through, when each slot was
    \* last hit or loaded, what the driver made of the thread's last call
    lookups, lastUse, driver

cacheVars == <<cacheOff, cacheLen, cacheAge, cache>>
history == <<lookups, lastUse, driver>>
vars == <<lock, cacheVars, pc, req, next, reply, calls, history>>

Slots == 0..(NumSlots - 1)
Junk == -1
ByteNames == 0..(ImgSize - 1) \cup {Junk}
Byte(k) == IF k \in 0..(ImgSize - 1) THEN k ELSE Junk
Smaller(a, b) == IF a <= b THEN a ELSE b

Requests == [off : Offs, len : Lens]
AnyRequest == CHOOSE q \in Requests : TRUE
Error == [ret |-> -1, data |-> <<>>]
Bytes(n, d) == [ret |-> n, data |-> [k \in 0..(n - 1) |-> d[k]]]
\* Mutant of CopyOut: the offset into the slot is forgotten.
CopyOutFromStart(buf, rel, n) == [ret |-> n, data |-> [k \in 0..(n - 1) |-> buf[k]]]

\* n bytes of a slot's buffer from relative offset rel on.
CopyOut(buf, rel, n) == [ret |-> n, data |-> [k \in 0..(n - 1) |-> buf[rel + k]]]

-------------------------------------------------------------------------------
(* The driver, raw_read.  Asked for n bytes at o it returns -1 or a count, *)
(* a count below n whenever the file system likes; -1 always when o is not *)
(* in any segment.  What it does past the last segment's end it decides by *)
(* reading max_off[num_img], so any count is possible there too.           *)
DriverReturns(o, n) == IF o >= ImgSize THEN {-1} ELSE -1..n

\* history: bytes asked of the driver, and its return.
NotAsked == [asked |-> 0, got |-> 0]

RoundUp(n) == ((n + SectorSize - 1) \div SectorSize) * SectorSize

-------------------------------------------------------------------------------
(* The look through the slots.                                             *)

\* Mutant of Around: the unaligned start is not counted.
AroundByLengthOnly(q) == q.len > CacheLen

Around(q) == q.len + (q.off % Unit) > CacheLen

\* len2: the length cut off at the end of the image.
Clipped(q) == Smaller(q.len, ImgSize - q.off)

Used(i) == cacheLen[i] > 0

Covers(i, q) ==
    /\ Used(i)
    /\ cacheOff[i] <= q.off
    /\ cacheOff[i] + cacheLen[i] >= q.off + Clipped(q)

\* The loop copies from the first covering slot only, because read_count
\* is set by then; a read of no bytes never sets it.
Hits(q) ==
    {i \in Slots : Covers(i, q) /\
        (Clipped(q) > 0 => \A j \in Slots : Covers(j, q) => i <= j)}

Aged(q) ==
    [i \in Slots |-> IF i \in Hits(q) THEN CacheAge
                     ELSE IF Used(i) THEN cacheAge[i] - 1
                     ELSE cacheAge[i]]

\* Mutant of Victim: the highest age.
VictimHighest(q) ==
    IF \E i \in Slots : ~Used(i)
    THEN CHOOSE i \in Slots : ~Used(i) /\ \A j \in Slots : ~Used(j) => j <= i
    ELSE LET Eligible == {0} \cup (Slots \ Hits(q))
         IN CHOOSE i \in Eligible : \A j \in Eligible :
                \/ Aged(q)[i] > Aged(q)[j]
                \/ Aged(q)[i] = Aged(q)[j] /\ i <= j

\* cache_next after the loop: the last slot not in use, or else the first of
\* the lowest age among slot 0 and those passed over.
Victim(q) ==
    IF \E i \in Slots : ~Used(i)
    THEN CHOOSE i \in Slots : ~Used(i) /\ \A j \in Slots : ~Used(j) => j <= i
    ELSE LET Eligible == {0} \cup (Slots \ Hits(q))
         IN CHOOSE i \in Eligible : \A j \in Eligible :
                \/ Aged(q)[i] < Aged(q)[j]
                \/ Aged(q)[i] = Aged(q)[j] /\ i <= j

FoundIn(q) == CHOOSE i \in Hits(q) : TRUE

-------------------------------------------------------------------------------
Init ==
    /\ lock = NoThread
    /\ cacheOff = [i \in Slots |-> 0]
    /\ cacheLen = [i \in Slots |-> 0]
    /\ cacheAge = [i \in Slots |-> 0]
    /\ cache = [i \in Slots |-> [k \in 0..(CacheLen - 1) |-> Junk]]
    /\ pc = [t \in Threads |-> "idle"]
    /\ req = [t \in Threads |-> AnyRequest]
    /\ next = [t \in Threads |-> 0]
    /\ reply = [t \in Threads |-> Error]
    /\ calls = 0
    /\ lookups = 0
    /\ lastUse = [i \in Slots |-> 0]
    /\ driver = [t \in Threads |-> NotAsked]

\* A negative offset or length is an error before anything is touched.
Refuse(t) ==
    /\ pc[t] = "idle" /\ calls < MaxCalls
    /\ \E q \in Requests : q.off < 0 \/ q.len < 0
    /\ calls' = calls + 1
    /\ reply' = [reply EXCEPT ![t] = Error]
    /\ UNCHANGED <<lock, cacheVars, pc, req, next, history>>

Call(t) ==
    /\ pc[t] = "idle" /\ calls < MaxCalls
    /\ \E q \in Requests :
        /\ q.off >= 0 /\ q.len >= 0
        /\ req' = [req EXCEPT ![t] = q]
    /\ pc' = [pc EXCEPT ![t] = "waiting"]
    /\ calls' = calls + 1
    /\ UNCHANGED <<lock, cacheVars, next, reply, history>>

TakeLock(t) ==
    /\ pc[t] = "waiting" /\ lock = NoThread
    /\ lock' = t
    /\ pc' = [pc EXCEPT ![t] = "locked"]
    /\ UNCHANGED <<cacheVars, req, next, reply, calls, history>>

\* More than a slot holds: the driver reads into the caller's buffer, or, for
\* a length of no whole sectors, into a longer one that is then copied.  The
\* copy is cut to the driver's count only if that is between 1 and a_len - 1.
ReadAround(t) ==
    LET q == req[t]
        whole == q.len % SectorSize = 0
        size == IF whole THEN q.len ELSE RoundUp(q.len)
        d(n) == [k \in 0..(q.len - 1) |-> IF k < n THEN Byte(q.off + k) ELSE Junk]
    IN
    /\ pc[t] = "locked" /\ Around(q)
    /\ \E n \in DriverReturns(q.off, size) :
        /\ reply' = [reply EXCEPT ![t] =
                IF whole /\ n < 0 THEN Error
                ELSE IF whole \/ n \in 1..(q.len - 1) THEN Bytes(n, d(n))
                ELSE Bytes(q.len, d(n))]
        /\ driver' = [driver EXCEPT ![t] = [asked |-> size, got |-> n]]
    /\ pc' = [pc EXCEPT ![t] = "answered"]
    /\ UNCHANGED <<lock, cacheVars, req, next, calls, lookups, lastUse>>

\* Mutant of PastEnd: the early return forgets the lock.
PastEndKeepingLock(t) ==
    /\ pc[t] = "locked" /\ ~Around(req[t]) /\ req[t].off >= ImgSize
    /\ reply' = [reply EXCEPT ![t] = Error]
    /\ pc' = [pc EXCEPT ![t] = "idle"]
    /\ UNCHANGED <<lock, cacheVars, req, next, calls, history>>

\* An early return with the lock held: it is released and the call fails.
GivesUp(t) ==
    /\ reply' = [reply EXCEPT ![t] = Error]
    /\ lock' = NoThread
    /\ pc' = [pc EXCEPT ![t] = "idle"]
    /\ UNCHANGED <<cacheVars, req, next, calls, history>>

\* Past the end of the image.
PastEnd(t) ==
    /\ pc[t] = "locked" /\ ~Around(req[t]) /\ req[t].off >= ImgSize
    /\ GivesUp(t)

\* No memory for the longer buffer of ReadAround.
NoBuffer(t) ==
    /\ pc[t] = "locked" /\ Around(req[t]) /\ req[t].len % SectorSize # 0
    /\ GivesUp(t)

\* history: when each slot was last of use, after the loop.
UseAfter(q) == [i \in Slots |-> IF i \in Hits(q) THEN lookups + 1 ELSE lastUse[i]]

\* Ages and the history of use change with every look through the slots.
LookThrough(q) ==
    /\ cacheAge' = Aged(q)
    /\ lookups' = lookups + 1
    /\ lastUse' = UseAfter(q)

Hit(t) ==
    LET q == req[t]
        i == FoundIn(q)
    IN
    /\ pc[t] = "locked" /\ ~Around(q) /\ q.off < ImgSize
    /\ Clipped(q) > 0 /\ Hits(q) # {}
    /\ LookThrough(q)
    /\ reply' = [reply EXCEPT ![t] =
           CopyOut(cache[i], q.off - cacheOff[i], Clipped(q))]
    /\ driver' = [driver EXCEPT ![t] = NotAsked]
    /\ pc' = [pc EXCEPT ![t] = "answered"]
    /\ UNCHANGED <<lock, cacheOff, cacheLen, cache, req, next, calls>>

\* The victim's offset is overwritten before the driver is called, its
\* length and data only after.
Miss(t) ==
    LET q == req[t]
        i == Victim(q)
    IN
    /\ pc[t] = "locked" /\ ~Around(q) /\ q.off < ImgSize
    /\ Clipped(q) = 0 \/ Hits(q) = {}
    /\ LookThrough(q)
    /\ next' = [next EXCEPT ![t] = i]
    /\ cacheOff' = [cacheOff EXCEPT ![i] = (q.off \div Unit) * Unit]
    /\ pc' = [pc EXCEPT ![t] = "loading"]
    /\ UNCHANGED <<lock, cacheLen, cache, req, reply, calls, driver>>

\* Mutant of LoadSize: everything up to the end of the image.
LoadSizeToEnd(i) == ImgSize - cacheOff[i]

\* read_size: a full slot, or what is left of the image.
LoadSize(i) == Smaller(CacheLen, ImgSize - cacheOff[i])

Load(t) ==
    LET q == req[t]
        i == next[t]
        rel == q.off - cacheOff[i]
        filled(n) == [k \in 0..(CacheLen - 1) |->
                         IF k < n THEN Byte(cacheOff[i] + k) ELSE cache[i][k]]
    IN
    /\ pc[t] = "loading"
    /\ \E n \in DriverReturns(cacheOff[i], LoadSize(i)) :
        /\ n > 0
        /\ cacheAge' = [cacheAge EXCEPT ![i] = CacheAge]
        /\ cacheLen' = [cacheLen EXCEPT ![i] = n]
        /\ cache' = [cache EXCEPT ![i] = filled(n)]
        /\ reply' = [reply EXCEPT ![t] =
               CopyOut(filled(n), rel, IF rel > n THEN 0 ELSE Smaller(Clipped(q), n - rel))]
        /\ driver' = [driver EXCEPT ![t] = [asked |-> LoadSize(i), got |-> n]]
    /\ lastUse' = [lastUse EXCEPT ![i] = lookups]
    /\ pc' = [pc EXCEPT ![t] = "answered"]
    /\ UNCHANGED <<lock, cacheOff, req, next, calls, lookups>>

\* Mutant of LoadFails: the slot keeps the length of what it held before.
LoadFailsKeepingLength(t) ==
    LET i == next[t]
    IN
    /\ pc[t] = "loading"
    /\ \E n \in DriverReturns(cacheOff[i], LoadSize(i)) :
        /\ n <= 0
        /\ reply' = [reply EXCEPT ![t] = IF n < 0 THEN Error ELSE Bytes(0, <<>>)]
        /\ driver' = [driver EXCEPT ![t] = [asked |-> LoadSize(i), got |-> n]]
    /\ pc' = [pc EXCEPT ![t] = "answered"]
    /\ UNCHANGED <<lock, cacheVars, req, next, calls, lookups, lastUse>>

\* The driver's failure is the caller's, and it empties the slot; the buffer
\* may have been written to or not.
LoadFails(t) ==
    LET i == next[t]
    IN
    /\ pc[t] = "loading"
    /\ \E n \in DriverReturns(cacheOff[i], LoadSize(i)) :
        /\ n <= 0
        /\ reply' = [reply EXCEPT ![t] = IF n < 0 THEN Error ELSE Bytes(0, <<>>)]
        /\ driver' = [driver EXCEPT ![t] = [asked |-> LoadSize(i), got |-> n]]
    /\ \E d \in {cache[i], [k \in 0..(CacheLen - 1) |-> Junk]} :
        cache' = [cache EXCEPT ![i] = d]
    /\ cacheLen' = [cacheLen EXCEPT ![i] = 0]
    /\ cacheAge' = [cacheAge EXCEPT ![i] = 0]
    /\ cacheOff' = [cacheOff EXCEPT ![i] = 0]
    /\ pc' = [pc EXCEPT ![t] = "answered"]
    /\ UNCHANGED <<lock, req, next, calls, lookups, lastUse>>

Release(t) ==
    /\ pc[t] = "answered"
    /\ lock' = NoThread
    /\ pc' = [pc EXCEPT ![t] = "idle"]
    /\ UNCHANGED <<cacheVars, req, next, reply, calls, history>>

InLibrary(t) ==
    \/ TakeLock(t) \/ ReadAround(t) \/ NoBuffer(t) \/ PastEnd(t) \/ Hit(t)
    \/ Miss(t) \/ Load(t) \/ LoadFails(t) \/ Release(t)

AllIdle == calls = MaxCalls /\ \A t \in Threads : pc[t] = "idle"

Next ==
    \/ \E t \in Threads : Call(t) \/ Refuse(t) \/ InLibrary(t)
    \/ AllIdle /\ UNCHANGED vars

Spec == Init /\ [][Next]_vars

\* A thread inside the library keeps running.  No order among the threads
\* that wait for the mutex is assumed, pthreads promises none: a call can
\* wait only as long as others keep coming, and there are MaxCalls of them.
FairSpec == Spec /\ \A t \in Threads : WF_vars(InLibrary(t))

-------------------------------------------------------------------------------
(* Properties.                                                             *)

\* Type correctness.
TypeOK ==
    /\ lock \in Threads \cup {NoThread}
    /\ cacheOff \in [Slots -> Nat]
    /\ cacheLen \in [Slots -> 0..CacheLen]
    /\ cacheAge \in [Slots -> Int]
    /\ cache \in [Slots -> [0..(CacheLen - 1) -> ByteNames]]
    /\ pc \in [Threads -> {"idle", "waiting", "locked", "loading", "answered"}]
    /\ req \in [Threads -> Requests]
    /\ next \in [Threads -> Slots]
    /\ calls \in Nat
    /\ lookups \in Nat
    /\ lastUse \in [Slots -> Nat]
    /\ driver \in [Threads -> [asked : Nat, got : Int]]

InCritical(t) == pc[t] \in {"locked", "loading", "answered"}

\* The cache and the driver's own state are only touched by the holder of
\* cache_lock, on every path through the function (img_io.c:68-72).
LockExcludes ==
    \A t \in Threads : InCritical(t) <=> lock = t

Loading(i) == \E t \in Threads : pc[t] = "loading" /\ next[t] = i

\* A slot in use holds the bytes of the image its offset and length say,
\* except while the holder of the lock is between overwriting the offset and
\* setting the length.  Every later hit relies on it.
CacheMirrorsImage ==
    \A i \in Slots : Used(i) /\ ~Loading(i) =>
        /\ cacheOff[i] + cacheLen[i] <= ImgSize
        /\ \A k \in 0..(cacheLen[i] - 1) : cache[i][k] = cacheOff[i] + k

\* A read through the cache returns the bytes asked for, never those of
\* another range or of an earlier failed load.
AnswersAreImageBytes ==
    \A t \in Threads : pc[t] = "answered" /\ ~Around(req[t]) =>
        LET r == reply[t] IN
        r.ret >= 0 =>
            /\ r.ret <= Clipped(req[t])
            /\ \A k \in 0..(r.ret - 1) : r.data[k] = req[t].off + k

\* A read through the cache comes back short only when the driver fell short
\* in this very call: an earlier short or failed load is never remembered,
\* and what the test of line 75 lets in always fits into a slot.
ShortOnlyByDriver ==
    \A t \in Threads :
        pc[t] = "answered" /\ ~Around(req[t]) /\ driver[t].got >= driver[t].asked =>
            reply[t].ret = Clipped(req[t])

\* The slot given up for a load is one not in use or, when all are, one that
\* no other was used longer ago than: the ages order the slots by last use.
VictimIsLeastRecentlyUsed ==
    \A t \in Threads : pc[t] = "loading" =>
        \/ ~Used(next[t])
        \/ \A i \in Slots : Used(i) /\ lastUse[next[t]] <= lastUse[i]

\* The age of a slot in use says how many look-ups ago it was last used.
AgeIsTimeSinceUse ==
    \A i \in Slots : Used(i) =>
        cacheAge[i] = CacheAge - (lookups - lastUse[i])

\* Every thread that calls tsk_img_read gets out again, whatever the driver
\* answers: no path leaves the function with the lock held.
EveryCallReturns ==
    \A t \in Threads : pc[t] = "waiting" ~> pc[t] = "idle"

\* The calls, as callers see them, are the abstract reads of ImageReads.
Reads == INSTANCE ImageReads WITH
    phase <- [t \in Threads |-> IF pc[t] \in {"idle", "answered"} THEN "idle" ELSE "asked"]

ReadsSpec == Reads!Spec

-------------------------------------------------------------------------------
(* What comments in the source say of this function.                       *)

\* img_io.c:22: "@returns -1 on error or number of bytes read".  An error of
\* the driver is an error of the call.
DriverErrorIsReported ==
    \A t \in Threads : pc[t] = "answered" /\ driver[t].got = -1 => reply[t].ret = -1
===============================================================================
