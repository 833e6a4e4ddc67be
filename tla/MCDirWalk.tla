------------------------------ MODULE MCDirWalk ------------------------------
(* Small file systems for TLC.  1 is the root, 2 a directory, 3 a deleted    *)
(* directory, 4 and 6 deleted files, 9 $OrphanFiles.                         *)
EXTENDS DirWalk

CONSTANT t1

MCInodes == {1, 2, 3, 4, 6, 9}

Name(a, alloc, type) == [addr |-> a, alloc |-> alloc, type |-> type, dot |-> FALSE]
Dot(a) == [addr |-> a, alloc |-> TRUE, type |-> "dir", dot |-> TRUE]

Dir2 == Name(2, TRUE, "dir")
Dir2Deleted == Name(2, FALSE, "dir")
Dir3 == Name(3, FALSE, "undef")
Dir3Stale == Name(3, TRUE, "dir")
File4 == Name(4, FALSE, "reg")
Loop == Name(1, TRUE, "dir")
OrphanFiles == Name(9, TRUE, "dir")

Meta == [a \in MCInodes |->
    [type |-> IF a \in {1, 2, 3, 9} THEN "dir" ELSE "reg", alloc |-> a \in {1, 2, 9}]]

Image(root, two, three, orphans, unreadable, unloadable) ==
    [names |-> [a \in MCInodes |-> CASE a = 1 -> root [] a = 2 -> two [] a = 3 -> three
                                     [] a = 9 -> orphans [] OTHER -> <<>>],
     meta |-> Meta, unreadable |-> unreadable, unloadable |-> unloadable]

UpTo(n, S) == UNION {[1..k -> S] : k \in 0..n}

\* Root listings of up to two names of every kind, and of three, before and
\* after $OrphanFiles; directories that contain each other.
Roots == UpTo(2, {Dir2, Dir2Deleted, Dir3, Dir3Stale, Loop, OrphanFiles}) \cup
         [1..3 -> {Dir2, Dir3, OrphanFiles}]

MCImages ==
    {Image(r, two, three, <<Name(6, FALSE, "undef")>>, bad, {}) :
        r \in Roots, two \in UpTo(1, {Dir3, File4, Loop}),
        three \in {<<Dot(3), File4>>, <<Dir2>>}, bad \in {{}, {3}}} \cup
    {Image(<<Dir2, Dir3>>, <<File4>>, <<Dir2>>, <<>>, {}, bad) : bad \in {{2}, {3}, {4}}}

Flag(alloc, unalloc, recurse, noorphan) ==
    [alloc |-> alloc, unalloc |-> unalloc, recurse |-> recurse, noorphan |-> noorphan]

\* Those load_inum_named and the tools use, and a walk of one directory.
MCFlags == {Flag(FALSE, TRUE, TRUE, TRUE), Flag(TRUE, TRUE, TRUE, FALSE),
            Flag(FALSE, FALSE, FALSE, FALSE)}

Everywhere == {1, 2}
OneThread == {t1}
AllAnswers == {"CONT", "STOP", "ERROR"}
=============================================================================
