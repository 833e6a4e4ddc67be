------------------------------ MODULE ImageReads ------------------------------
(***************************************************************************)
(* What tsk_img_read promises its callers, whatever cache, lock and driver *)
(* stand behind it: a thread asks for a range of the image and, some time  *)
(* later, gets one reply, either the error -1 or a count of bytes.  The    *)
(* bytes of a reply that fall inside the image are the image's own.        *)
(*                                                                         *)
(* A byte of data is named by the image offset it came from, and Junk is a *)
(* byte that came from no place of the image.  The constants are those of   *)
(* ImgCache, which says what is assumed of them.                           *)
(***************************************************************************)
EXTENDS Integers

CONSTANTS
    Threads,    \* the callers that share one TSK_IMG_INFO
    ImgSize,    \* img_info->size
    Unit,       \* 512, what a cached load is aligned to
    SectorSize, \* img_info->sector_size
    CacheLen,   \* TSK_IMG_INFO_CACHE_LEN
    Offs, Lens  \* the offsets and lengths callers ask for

VARIABLES
    phase,  \* "idle" or "asked", per thread
    req,    \* the range the thread asked for last
    reply   \* the last reply the thread got

vars == <<phase, req, reply>>

Junk == -1
Byte(k) == IF k \in 0..(ImgSize - 1) THEN k ELSE Junk

Requests == [off : Offs, len : Lens]
AnyRequest == CHOOSE q \in Requests : TRUE

\* The error return, and the return of n bytes d[0], ..., d[n - 1].
Error == [ret |-> -1, data |-> <<>>]
Bytes(n, d) == [ret |-> n, data |-> [k \in 0..(n - 1) |-> d[k]]]

\* A range that does not fit a cached load is read around the cache.
Around(q) == q.len + (q.off % Unit) > CacheLen
\* Such a read of a partial last sector goes through a second buffer, and
\* its reply vouches for nothing.
Rounded(q) == Around(q) /\ q.len % SectorSize # 0

Honest(q, r) ==
    /\ r.ret \in 0..q.len
    /\ \A k \in 0..(r.ret - 1) : Byte(q.off + k) # Junk => r.data[k] = q.off + k
    /\ ~Around(q) => q.off + r.ret <= ImgSize

Allowed(q, r) == r = Error \/ Rounded(q) \/ Honest(q, r)

Init ==
    /\ phase = [t \in Threads |-> "idle"]
    /\ req = [t \in Threads |-> AnyRequest]
    /\ reply = [t \in Threads |-> Error]

Ask(t) ==
    /\ phase[t] = "idle"
    /\ \E q \in Requests : req' = [req EXCEPT ![t] = q]
    /\ phase' = [phase EXCEPT ![t] = "asked"]
    /\ UNCHANGED reply

Answer(t) ==
    /\ phase[t] = "asked"
    /\ phase' = [phase EXCEPT ![t] = "idle"]
    /\ UNCHANGED req
    /\ reply' = [reply EXCEPT ![t] = reply'[t]]
    /\ Allowed(req[t], reply'[t])

\* Arguments that are refused at the door never enter the library.
Refuse(t) ==
    /\ phase[t] = "idle"
    /\ reply' = [reply EXCEPT ![t] = Error]
    /\ UNCHANGED <<phase, req>>

Next == \E t \in Threads : Ask(t) \/ Answer(t) \/ Refuse(t)

Spec == Init /\ [][Next]_vars
===============================================================================
