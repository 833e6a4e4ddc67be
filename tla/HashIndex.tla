------------------------------ MODULE HashIndex ------------------------------
(***************************************************************************)
(* Look-ups in a text hash database by several threads                     *)
(* (sleuthkit/tsk/hashdb/binsrch_index.cpp).  The index is opened by the   *)
(* first thread that needs it, and searched with one line buffer and one   *)
(* file handle; base.lock is there for both.  Between the opening and the  *)
(* search, the bounds are looked up without it.                            *)
(*                                                                         *)
(* An offset into the index is a line number here, a hash is its type and  *)
(* a number, the higher part of which stands for its first three digits.   *)
(***************************************************************************)
EXTENDS Integers, Sequences

CONSTANTS
    Threads, NoThread,
    Types, NoType,  \* MD5 and SHA1, TSK_HDB_HTYPE_INVALID_ID
    Hashes,         \* what is looked up: records of type and val
    Disks,          \* see DiskType
    MaxCalls        \* bound: calls in a behaviour

Vals == {h.val : h \in Hashes}
Prefix(v) == v \div 2
Prefixes == {Prefix(v) : v \in Vals}

Sorted(s) == \A i, j \in DOMAIN s : i <= j => s[i] <= s[j]
Absent == [there |-> FALSE, lines |-> <<>>]

\* The sorted index of each type; for each its index of the index, which may be
\* missing, refused (of the wrong size, not to be opened, or more than there is
\* memory for) or unread (the read of it fails); and who uses the database.
DiskType ==
    [index : [Types -> {Absent} \cup [there : {TRUE}, lines : {s \in Seq(Vals) : Sorted(s)}]],
     idx_idx : [Types -> {"none", "whole", "refused", "unread"}],
     callers : SUBSET Threads]

ASSUME NamesAssumption == NoThread \notin Threads /\ NoType \notin Types
ASSUME HashesAssumption == Hashes \subseteq [type : Types, val : Nat] /\ Hashes # {}
ASSUME DisksAssumption == Disks \subseteq DiskType
ASSUME MaxCallsAssumption == MaxCalls \in Nat

VARIABLES
    disk,         \* the files
    lock,         \* the holder of base.lock
    hash_type,    \* what idx_fname was made for
    hIdx,         \* is the index open?
    idx_offsets,  \* the index of the index, or NoTable
    pc, arg,      \* where each thread is, and what it asks
    low, up,      \* its window
    reply,        \* its last return, and the lines it was shown
    opens,        \* history: how often the index was opened
    calls         \* calls made, for the bound

dbVars == <<disk, hash_type, hIdx, idx_offsets, opens>>
vars == <<dbVars, lock, pc, arg, low, up, reply, calls>>

NotSet == -1
NoTable == <<>>
Requests == [hash : Hashes, op : {"has", "quick", "all"}]
Silent == [ret |-> -1, shown |-> {}]

Init ==
    /\ disk \in Disks
    /\ lock = NoThread
    /\ hash_type = NoType /\ hIdx = FALSE /\ idx_offsets = NoTable /\ opens = 0
    /\ pc = [t \in Threads |-> "idle"]
    /\ arg = [t \in Threads |-> CHOOSE r \in Requests : TRUE]
    /\ low = [t \in Threads |-> 0] /\ up = [t \in Threads |-> 0]
    /\ reply = [t \in Threads |-> Silent]
    /\ calls = 0

Goto(t, l) == pc' = [pc EXCEPT ![t] = l]
Release == lock' = NoThread
Return(t, ret, shown) ==
    Goto(t, "idle") /\ reply' = [reply EXCEPT ![t] = [ret |-> ret, shown |-> shown]]

\* hdb_binsrch_lookup_str, hdb_binsrch_has_index.
Call(t) ==
    /\ pc[t] = "idle" /\ t \in disk.callers /\ calls < MaxCalls
    /\ \E r \in Requests : arg' = [arg EXCEPT ![t] = r]
    /\ reply' = [reply EXCEPT ![t] = Silent]
    /\ Goto(t, "entering")
    /\ calls' = calls + 1
    /\ UNCHANGED <<dbVars, lock, low, up>>

TakeLock(t) ==
    /\ lock = NoThread /\ lock' = t
    /\ \/ pc[t] = "entering" /\ Goto(t, "opening")
       \/ pc[t] = "bounded" /\ Goto(t, "searching")
    /\ UNCHANGED <<dbVars, arg, low, up, reply, calls>>

-------------------------------------------------------------------------------
(* hdb_binsrch_open_idx, under the lock.                                   *)

\* hdb_binsrch_idx_init_hash_type_info: the type that came first stays.
TypeOpened(t) == IF hash_type = NoType THEN arg[t].hash.type ELSE hash_type

Lines == disk.index[hash_type].lines

Succeed(t) ==
    IF arg[t].op = "has" THEN Return(t, 1, {}) ELSE Goto(t, "opened") /\ UNCHANGED reply

AlreadyOpen(t) ==
    /\ pc[t] = "opening" /\ hIdx
    /\ Release
    /\ Succeed(t)
    /\ UNCHANGED <<dbVars, arg, low, up, calls>>

\* hdb_binsrch_make_idx_idx: where the hashes of each prefix begin.
TableOf(s) ==
    [p \in Prefixes |->
        LET Of(i) == i \in DOMAIN s /\ Prefix(s[i]) = p
        IN IF \E i \in DOMAIN s : Of(i)
           THEN (CHOOSE i \in DOMAIN s : Of(i) /\ \A j \in DOMAIN s : Of(j) => i <= j) - 1
           ELSE NotSet]

\* Mutant of OpenIndex: a thread that waited opens it once more.
OpenIndexAgain(t) ==
    /\ pc[t] = "opening"
    /\ disk.index[TypeOpened(t)].there
    /\ hash_type' = TypeOpened(t) /\ hIdx' = TRUE /\ opens' = opens + 1
    /\ idx_offsets' = NoTable
    /\ Succeed(t)
    /\ Release
    /\ UNCHANGED <<disk, arg, low, up, calls>>

\* tsk_malloc's zeros.
ZeroTable == [p \in Prefixes |-> 0]

\* hdb_binsrch_load_index_offsets: what idx_offsets is set to.  A table that
\* cannot be read is an error, and yet set.
OffsetsLoaded(ty) ==
    CASE disk.idx_idx[ty] = "whole" -> TableOf(disk.index[ty].lines)
      [] disk.idx_idx[ty] = "unread" -> ZeroTable
      [] OTHER -> NoTable

\* The index is opened; then its index, without which a search is slower.  An
\* error in that leaves the index open.
OpenIndex(t) ==
    /\ pc[t] = "opening" /\ ~hIdx
    /\ disk.index[TypeOpened(t)].there
    /\ hash_type' = TypeOpened(t) /\ hIdx' = TRUE /\ opens' = opens + 1
    /\ idx_offsets' = OffsetsLoaded(hash_type')
    /\ IF disk.idx_idx[hash_type'] \in {"refused", "unread"}
       THEN Return(t, IF arg[t].op = "has" THEN 0 ELSE -1, {})
       ELSE Succeed(t)
    /\ Release
    /\ UNCHANGED <<disk, arg, low, up, calls>>

\* The file is not there (other failures leave hIdx set and no line buffer, and
\* are not modelled).  hdb_binsrch_open_idx_file releases the lock ...
OpenFails(t) ==
    /\ pc[t] = "opening" /\ ~hIdx
    /\ ~disk.index[TypeOpened(t)].there
    /\ hash_type' = TypeOpened(t)
    /\ Release
    /\ Goto(t, "failed")
    /\ UNCHANGED <<disk, hIdx, idx_offsets, opens, arg, low, up, reply, calls>>

\* ... and so does hdb_binsrch_open_idx: a default mutex does not look whose
\* it is.
ReleaseAgain(t) ==
    /\ pc[t] = "failed"
    /\ Release
    /\ Return(t, IF arg[t].op = "has" THEN 0 ELSE -1, {})
    /\ UNCHANGED <<dbVars, arg, low, up, calls>>

-------------------------------------------------------------------------------
(* hdb_binsrch_lookup_str, the index being open.                           *)

WrongType(t) ==
    /\ pc[t] = "opened" /\ arg[t].hash.type # hash_type
    /\ Return(t, -1, {})
    /\ UNCHANGED <<dbVars, lock, arg, low, up, calls>>

\* Up to where the next prefix begins that has any hash.
NextStart(p) ==
    LET later == {q \in Prefixes : q > p /\ idx_offsets[q] # NotSet}
    IN IF later = {} THEN Len(Lines)
       ELSE idx_offsets[CHOOSE q \in later : \A r \in later : q <= r]

\* The window to search, by the table if there is one.
Bounds(t) ==
    LET p == Prefix(arg[t].hash.val) IN
    /\ pc[t] = "opened" /\ arg[t].hash.type = hash_type
    /\ IF idx_offsets = NoTable
       THEN /\ low' = [low EXCEPT ![t] = 0]
            /\ up' = [up EXCEPT ![t] = Len(Lines)]
            /\ Goto(t, "bounded") /\ UNCHANGED reply
       ELSE IF idx_offsets[p] = NotSet
       THEN Return(t, 0, {}) /\ UNCHANGED <<low, up>>
       ELSE /\ low' = [low EXCEPT ![t] = idx_offsets[p]]
            /\ up' = [up EXCEPT ![t] = NextStart(p)]
            /\ Goto(t, "bounded") /\ UNCHANGED reply
    /\ UNCHANGED <<dbVars, lock, arg, calls>>

Middle(t) == low[t] + (up[t] - low[t]) \div 2
Line(k) == Lines[k + 1]

\* Mutant of NotThere: the return from the loop does not release the lock.
NotThereKeepingLock(t) ==
    /\ pc[t] = "searching" /\ low[t] = up[t]
    /\ Return(t, 0, {})
    /\ UNCHANGED <<dbVars, lock, arg, low, up, calls>>

\* A window from offset 0, that is by a table never read, starts in the header:
\* when that is shorter than a line the middle of one line is 0, which the code
\* takes for one that has not moved.  (No other turn leaves the middle where it
\* was.)
NotMoved(t) == disk.idx_idx[hash_type] = "unread" /\ low[t] = 0 /\ up[t] = 1

NotThere(t) ==
    /\ pc[t] = "searching" /\ (low[t] = up[t] \/ NotMoved(t))
    /\ Release
    /\ Return(t, 0, {})
    /\ UNCHANGED <<dbVars, arg, low, up, calls>>

\* A line cannot be read, or is none, as when the window starts in the header.
\* (That the file ends, which answers 0, takes one that has shrunk.)
SearchFails(t) ==
    /\ pc[t] = "searching" /\ low[t] # up[t]
    /\ Release
    /\ Return(t, -1, {})
    /\ UNCHANGED <<dbVars, arg, low, up, calls>>

\* One turn of the binary search.
Halve(t) ==
    /\ pc[t] = "searching" /\ low[t] # up[t]
    /\ \/ /\ Line(Middle(t)) < arg[t].hash.val
          /\ low' = [low EXCEPT ![t] = Middle(t) + 1] /\ UNCHANGED up
       \/ /\ Line(Middle(t)) > arg[t].hash.val
          /\ up' = [up EXCEPT ![t] = Middle(t)] /\ UNCHANGED low
    /\ UNCHANGED <<dbVars, lock, pc, arg, reply, calls>>

\* Mutant of Duplicates: the first line of the window is left out.
DuplicatesAbove(t) ==
    {k \in (low[t] + 1)..(up[t] - 1) :
        \A j \in (k..Middle(t)) \cup (Middle(t)..k) : Line(j) = arg[t].hash.val}

\* Equal lines next to the one found, within the window.
Duplicates(t) ==
    {k \in low[t]..(up[t] - 1) :
        \A j \in (k..Middle(t)) \cup (Middle(t)..k) : Line(j) = arg[t].hash.val}

\* It is there.  get_entry, which reads the database, may fail.
Found(t) ==
    /\ pc[t] = "searching" /\ low[t] # up[t]
    /\ Line(Middle(t)) = arg[t].hash.val
    /\ Release
    /\ \/ arg[t].op = "quick" /\ Return(t, 1, {})
       \/ arg[t].op = "all" /\ Return(t, 1, Duplicates(t))
       \/ arg[t].op = "all" /\ Return(t, -1, {})
    /\ UNCHANGED <<dbVars, arg, low, up, calls>>

Inside(t) ==
    \/ TakeLock(t) \/ AlreadyOpen(t) \/ OpenIndex(t) \/ OpenFails(t) \/ ReleaseAgain(t)
    \/ WrongType(t) \/ Bounds(t) \/ NotThere(t) \/ SearchFails(t) \/ Halve(t) \/ Found(t)

Next == \E t \in Threads : Call(t) \/ Inside(t)

Spec == Init /\ [][Next]_vars

\* Threads inside the library keep running.
FairSpec == Spec /\ \A t \in Threads : WF_vars(Inside(t))

-------------------------------------------------------------------------------
(* Properties.                                                             *)

\* A look-up says whether the hash is in the index, and shows every one of its
\* lines, whatever window the table gives and whoever opened the index
\* (binsrch_index.cpp:1098-1411).  Only after a failed read of the table, which
\* leaves zeros for it (265-275), may a hash that is there be answered to be not.
AnswersAreMembership ==
    \A t \in Threads :
        LET lines == disk.index[arg[t].hash.type].lines
            at == {k \in 0..(Len(lines) - 1) : lines[k + 1] = arg[t].hash.val}
        IN
        pc[t] = "idle" /\ arg[t].op # "has" /\ reply[t].ret # -1 =>
            \/ reply[t].ret = 1 /\ at # {} /\ (arg[t].op = "all" => reply[t].shown = at)
            \/ reply[t].ret = 0 /\ at = {} /\ reply[t].shown = {}
            \/ reply[t].ret = 0 /\ disk.idx_idx[arg[t].hash.type] = "unread"

\* "Lock for lazy load of hIdx and lazy alloc of idx_lbuf"
\* (binsrch_index.cpp:532), "We have to lock access to idx_lbuf" (1152): who
\* opens or searches holds the lock, and the index is opened once.
LazyLoadIsLocked ==
    /\ \A t \in Threads : pc[t] \in {"opening", "searching"} => lock = t
    /\ opens <= 1

\* Every look-up comes to an end: windows shrink, and nobody keeps the lock.
LookUpsReturn == \A t \in Threads : pc[t] # "idle" ~> pc[t] = "idle"

===============================================================================
