------------------------------- MODULE TskList -------------------------------
(***************************************************************************)
(* TSK_LIST (sleuthkit/tsk/base/tsk_list.c): a set of unsigned numbers as  *)
(* a list of buckets, largest first; a bucket of key k and length n stands *)
(* for k - n + 1 .. k.  Keys, lengths and their differences are uint64_t,  *)
(* so they wrap at Word; what a bucket down to 0 does to key - len is why  *)
(* the width is kept.                                                      *)
(***************************************************************************)
EXTENDS Integers, Sequences

CONSTANTS
    Word,      \* 2^64
    MaxLength  \* bound: buckets in the list

ASSUME WordAssumption == Word \in Nat \ {0}
ASSUME MaxLengthAssumption == MaxLength \in Nat \ {0}

VARIABLES
    list,
    members,  \* history: the keys added
    ret       \* what the last tsk_list_add returned

vars == <<list, members, ret>>

Keys == 0..(Word - 1)
Buckets == [key : Keys, len : 1..(Word - 1)]

\* tsk_list_create.
Bucket(k) == [key |-> k, len |-> 1]

InsertAfter(l, i, b) ==
    [j \in 1..(Len(l) + 1) |-> IF j <= i THEN l[j] ELSE IF j = i + 1 THEN b ELSE l[j - 1]]

AboveHead(k) == list # <<>> /\ k > list[1].key
IsHead(k) == list # <<>> /\ k = list[1].key
BelowHead(k) == list # <<>> /\ k < list[1].key

-------------------------------------------------------------------------------
(* The loop of tsk_list_add, for a key below the head's.                   *)

\* Mutant of Below: as if a bucket were key - len .. key.
BelowOffByOne(b) == (b.key + 1 - b.len) % Word

\* key - len: the number just below a bucket, or Word - 1 below one that
\* goes down to 0.
Below(b) == (b.key - b.len) % Word

HasNext(i) == i < Len(list)

\* The conditions of the loop's branches at bucket i; where there are
\* several the first in this order counts.
Contained(i, k) == k > Below(list[i])
JustBelow(i, k) == k = Below(list[i])
JustAboveNext(i, k) == HasNext(i) /\ k = (list[i + 1].key + 1) % Word
AboveNext(i, k) == HasNext(i) /\ k > list[i + 1].key
IsNext(i, k) == HasNext(i) /\ k = list[i + 1].key

Stops(i, k) ==
    \/ Contained(i, k) \/ JustBelow(i, k) \/ ~HasNext(i)
    \/ JustAboveNext(i, k) \/ AboveNext(i, k) \/ IsNext(i, k)

\* The bucket the loop ends at.
StopsFirstAt(i, k) == Stops(i, k) /\ \A j \in 1..(i - 1) : ~Stops(j, k)

-------------------------------------------------------------------------------
Init ==
    /\ list = <<>>
    /\ members = {}
    /\ ret = 0

Add(k) ==
    /\ members' = members \cup {k}
    /\ ret' = 0

\* Onto an empty list.
AddFirst(k) ==
    /\ list = <<>>
    /\ list' = <<Bucket(k)>>
    /\ Add(k)

\* Mutant of GrowHead: the length is not counted up.
GrowHeadKeyOnly(k) ==
    /\ AboveHead(k)
    /\ k = (list[1].key + 1) % Word
    /\ list' = [list EXCEPT ![1].key = k]
    /\ Add(k)

\* The number above the head's.
GrowHead(k) ==
    /\ AboveHead(k)
    /\ k = (list[1].key + 1) % Word
    /\ list' = [list EXCEPT ![1] = [key |-> k, len |-> (@.len + 1) % Word]]
    /\ Add(k)

NewHead(k) ==
    /\ AboveHead(k)
    /\ k # (list[1].key + 1) % Word
    /\ list' = InsertAfter(list, 0, Bucket(k))
    /\ Add(k)

\* A key the list is found to have.
Known(k) ==
    /\ \/ IsHead(k)
       \/ /\ BelowHead(k)
          /\ \E i \in DOMAIN list : StopsFirstAt(i, k) /\
                \/ Contained(i, k)
                \/ IsNext(i, k)
    /\ UNCHANGED list
    /\ Add(k)

GrowDown(k) ==
    /\ BelowHead(k)
    /\ \E i \in DOMAIN list :
        /\ StopsFirstAt(i, k)
        /\ JustBelow(i, k) /\ ~IsNext(i, k)
        /\ list' = [list EXCEPT ![i].len = (@ + 1) % Word]
    /\ Add(k)

NewTail(k) ==
    /\ BelowHead(k)
    /\ \E i \in DOMAIN list :
        /\ StopsFirstAt(i, k)
        /\ ~Contained(i, k) /\ ~JustBelow(i, k) /\ ~HasNext(i)
        /\ list' = InsertAfter(list, i, Bucket(k))
    /\ Add(k)

GrowNext(k) ==
    /\ BelowHead(k)
    /\ \E i \in DOMAIN list :
        /\ StopsFirstAt(i, k)
        /\ ~Contained(i, k) /\ ~JustBelow(i, k) /\ JustAboveNext(i, k)
        /\ list' = [list EXCEPT ![i + 1] =
                       [key |-> k, len |-> (@.len + 1) % Word]]
    /\ Add(k)

\* Mutant of NewBetween: the new bucket goes in front of bucket i.
NewBetweenInFront(k) ==
    /\ BelowHead(k)
    /\ \E i \in DOMAIN list :
        /\ StopsFirstAt(i, k)
        /\ ~Contained(i, k) /\ ~JustBelow(i, k) /\ ~JustAboveNext(i, k) /\ AboveNext(i, k)
        /\ list' = InsertAfter(list, i - 1, Bucket(k))
    /\ Add(k)

NewBetween(k) ==
    /\ BelowHead(k)
    /\ \E i \in DOMAIN list :
        /\ StopsFirstAt(i, k)
        /\ ~Contained(i, k) /\ ~JustBelow(i, k) /\ ~JustAboveNext(i, k) /\ AboveNext(i, k)
        /\ list' = InsertAfter(list, i, Bucket(k))
    /\ Add(k)

\* Wherever a bucket would be made there may be no memory for it.
NoMemory(k) ==
    /\ \/ list = <<>>
       \/ AboveHead(k) /\ k # (list[1].key + 1) % Word
       \/ BelowHead(k) /\ \E i \in DOMAIN list :
            /\ StopsFirstAt(i, k)
            /\ ~Contained(i, k) /\ ~JustBelow(i, k)
            /\ ~JustAboveNext(i, k)
            /\ ~HasNext(i) \/ AboveNext(i, k)
    /\ ret' = 1
    /\ UNCHANGED <<list, members>>

\* tsk_list_free.
Free ==
    /\ list' = <<>>
    /\ members' = {}
    /\ UNCHANGED ret

\* Bound: not all of the 2^64 numbers are ever in one list.
NeverAll(k) == members \cup {k} # Keys

Next ==
    \/ \E k \in Keys :
       /\ NeverAll(k)
       /\ \/ /\ Len(list) < MaxLength
             /\ AddFirst(k) \/ NewHead(k) \/ NewTail(k) \/ NewBetween(k)
          \/ GrowHead(k) \/ Known(k) \/ GrowDown(k) \/ GrowNext(k) \/ NoMemory(k)
    \/ Free

Spec == Init /\ [][Next]_vars

-------------------------------------------------------------------------------
(* tsk_list_find: the first bucket that holds k, unless one whose key is   *)
(* already below k comes before it.                                        *)

Covers(b, k) == k <= b.key /\ k >= (b.key + 1 - b.len) % Word

Found(k) ==
    \E i \in DOMAIN list :
        /\ Covers(list[i], k)
        /\ \A j \in 1..(i - 1) : k <= list[j].key

-------------------------------------------------------------------------------
(* Properties.                                                             *)

\* Type correctness: no bucket is empty, no length wraps to 0.
TypeOK ==
    /\ list \in Seq(Buckets)
    /\ members \subseteq Keys
    /\ ret \in {0, 1}

\* The order tsk_list_find's early return relies on (tsk_list.c:181).
LargestFirst ==
    \A i, j \in DOMAIN list : i < j => list[i].key > list[j].key

\* No bucket reaches below 0, whatever was added and in whatever order, its
\* numbers added again included.
NoBucketBelowZero == \A i \in DOMAIN list : list[i].len <= list[i].key + 1

\* tsk_list_find says of every number whether it was added, though what the
\* list looks like depends on the order of the additions.
FindIsMembership == \A k \in Keys : Found(k) <=> k \in members

===============================================================================
