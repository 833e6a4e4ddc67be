---------------------------- MODULE MCHashIndex ----------------------------
(* Indexes of up to five lines over six hashes in three prefixes. *)
EXTENDS HashIndex

CONSTANTS t1, t2, md5, sha1

TwoThreads == {t1, t2}
BothTypes == {md5, sha1}
Hash(ty, v) == [type |-> ty, val |-> v]
MCHashes == {Hash(md5, v) : v \in 0..5} \cup {Hash(sha1, 0)}

Index(s) == [there |-> TRUE, lines |-> s]
Disk(md5Index, sha1Index, i, c) ==
    [index |-> [ty \in BothTypes |-> IF ty = md5 THEN md5Index ELSE sha1Index],
     idx_idx |-> [ty \in BothTypes |-> i], callers |-> c]

\* Gaps within a prefix and between prefixes, equal lines at a prefix's start
\* and end, at the index's start and end.
MCLines == {<<>>, <<0, 0, 1, 5>>, <<1, 1, 1, 4, 5>>, <<2, 3, 3>>, <<0, 4, 4, 4, 4>>}

\* Both indexes are there for two threads; one thread may find none.
MCDisks ==
    {Disk(Index(s), Index(<<0>>), i, TwoThreads) : s \in MCLines, i \in {"none", "whole", "refused", "unread"}} \cup
    {Disk(Absent, Absent, "none", {t1}), Disk(Index(<<1, 1, 1>>), Absent, "whole", {t1})}

\* No index for two threads.
NoIndex == {Disk(Absent, Absent, "none", TwoThreads)}
=============================================================================
