------------------------------ MODULE MCOrphans ------------------------------
(* Small file systems for TLC.  1 is the root; 3, 4, 5 and 6 are inodes      *)
(* that are not allocated, 4 and 6 of them directories; 9 is $OrphanFiles.   *)
EXTENDS Orphans

CONSTANTS t1, t2

MCInodes == {1, 3, 4, 5, 6, 9}

Name(a, type) == [addr |-> a, alloc |-> FALSE, type |-> type, dot |-> FALSE]
Dot(a) == [addr |-> a, alloc |-> FALSE, type |-> "dir", dot |-> TRUE]
OrphanFiles == [addr |-> 9, alloc |-> TRUE, type |-> "dir", dot |-> FALSE]

\* four and six are what directories 4 and 6 contain, used what has been
\* allocated again.  FAT names have a type, others may not.
Image(root, four, six, used, unreadable, unloadable) ==
    LET TypeOf(a) == IF unloadable # {} THEN "undef" ELSE IF a \in {4, 6} THEN "dir" ELSE "reg"
        NamesOf(s) == [i \in DOMAIN s |-> Name(s[i], TypeOf(s[i]))]
    IN
    [names |-> [a \in MCInodes |->
        CASE a = 1 -> NamesOf(root) \o <<OrphanFiles>>
          [] a = 4 -> <<Dot(4)>> \o NamesOf(four)
          [] a = 6 -> <<Dot(6)>> \o NamesOf(six)
          [] OTHER -> <<>>],
     meta |-> [a \in MCInodes |->
        [type |-> IF a \in {1, 4, 6, 9} THEN "dir" ELSE "reg", alloc |-> a \in {1, 9} \cup used]],
     unreadable |-> unreadable, unloadable |-> unloadable]

UpTo(n, S) == UNION {[1..k -> S] : k \in 0..n}
Once(S) == {s \in S : \A j, k \in DOMAIN s : s[j] = s[k] => j = k}

\* Memory may run out on these.
ForgetfulImages ==
    {Image(<<4>>, <<5>>, <<5>>, {}, {}, {}), Image(<<3>>, <<>>, <<5>>, {}, {6}, {}),
     Image(<<3>>, <<>>, <<>>, {}, {1}, {})}

\* No directory contains one it is in.  A directory that cannot be opened, and
\* one with a file before another that has been allocated again, are in a
\* second one, or have a name, or neither.
Sixes == Once(UpTo(2, {3, 4}))
MCImages ==
    {Image(r, f, s, {}, {}, {}) :
        r \in {<<>>, <<6, 3>>}, f \in UpTo(1, {3, 5}), s \in Sixes} \cup
    {Image(r, <<5, 3>>, s, {5}, {}, {}) : r \in {<<>>, <<4>>}, s \in Sixes} \cup
    {Image(r, <<>>, s, {}, {4}, {}) : r \in {<<>>, <<4>>}, s \in Sixes} \cup
    {Image(<<>>, <<3>>, <<4, 5>>, {}, {}, bad) : bad \in {{3}, {4}, {6}}} \cup
    {Image(<<3, 4>>, <<3, 5>>, <<4, 3>>, {5}, {}, {6})} \cup
    ForgetfulImages

MCFatImages == {m \in MCImages : m.unloadable = {}}

Everything == [alloc |-> TRUE, unalloc |-> TRUE, recurse |-> TRUE, noorphan |-> TRUE]
MCFlags == {Everything}
FromRoot == {1}
TwoThreads == {t1, t2}
NoErrors == {"CONT", "STOP"}
=============================================================================
