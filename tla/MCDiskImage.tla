------------------------------ MODULE MCDiskImage ------------------------------
(* Images of 16 sectors. *)
EXTENDS DiskImage

MCInodes == 1..4

UpTo(n) == UNION {[1..k -> MCInodes] : k \in 0..n}
List(s) == <<Dot>> \o [i \in DOMAIN s |-> SubDir(s[i])] \o <<Leaf>>
Volume(lists, bad) ==
    [root |-> 1, entries |-> [a \in MCInodes |-> List(lists[a])], unreadable |-> bad]

\* Every directory lists one file.  The root lists two directories or three
\* different ones, two others up to one: cycles, second names in one directory
\* and in two, directories that cannot be opened.
Different(n) == {r \in [1..n -> MCInodes] : \A i, j \in 1..n : i # j => r[i] # r[j]}
Graphs ==
    {Volume(<<r, s, t, <<>>>>, bad) :
        r \in UpTo(2) \cup Different(3), s \in UpTo(1), t \in UpTo(1), bad \in {{}, {2}, {2, 3}}}

\* One file, a second name, a root that cannot be opened.
Small ==
    {Volume(<< <<>>, <<>>, <<>>, <<>> >>, {}), Volume(<< <<2, 2>>, <<3>>, <<>>, <<>> >>, {}),
     Volume(<< <<>>, <<>>, <<>>, <<>> >>, {1})}

MCVolumes == Graphs \cup Small

Data(start, size) == [type |-> "data", start |-> start, size |-> size]
Ext(start, size) == [type |-> "ext", start |-> start, size |-> size]
Empty == Data(0, 0)

\* A primary table with two partitions and a chain of up to three tables at 4;
\* their links are relative to 4, their partitions to the table.
Chained(first, second, third) ==
    [s \in {0, 4} |-> IF s = 0 THEN <<Data(1, 3), Ext(4, 11), Empty, Data(15, 1)>> ELSE first]
    @@ (8 :> second) @@ (12 :> third)
OfChain == <<Data(1, 2), Ext(4, 4)>>
Tables ==
    {Chained(OfChain, <<Data(1, 3), Ext(8, 3)>>, <<Data(1, 2)>>),
     \* The second link leads back to a lower sector.
     [s \in {0, 4, 8, 12} |-> IF s = 0 THEN <<Ext(4, 11), Data(1, 2)>>
                              ELSE IF s = 4 THEN <<Data(1, 2), Ext(8, 4)>>
                              ELSE IF s = 12 THEN <<Data(2, 1), Ext(4, 4)>> ELSE <<Data(1, 2)>>],
     \* A partition at the image's first sector, with others and alone.
     0 :> <<Data(0, 4), Data(8, 4), Data(4, 4)>>,
     0 :> <<Data(0, 4)>>,
     \* The chain breaks; leads out of the image; names a partition too late.
     [s \in {0, 4} |-> IF s = 0 THEN <<Ext(4, 11), Data(1, 3)>> ELSE OfChain],
     [s \in {0, 4} |-> IF s = 0 THEN <<Data(1, 3), Ext(4, 11)>> ELSE <<Ext(20, 4), Data(1, 2)>>],
     [s \in {0, 4} |-> IF s = 0 THEN <<Ext(4, 11)>> ELSE <<Ext(4, 4), Data(1, 2)>>],
     \* Two chains, the first broken.
     [s \in {0, 4, 12} |-> IF s = 0 THEN <<Ext(4, 6), Ext(12, 4), Data(1, 3)>>
                           ELSE IF s = 4 THEN OfChain ELSE <<Data(2, 2)>>],
     \* Nested, overlapping, out of order, past the end of the image.
     0 :> <<Data(1, 10), Data(3, 2)>>,
     0 :> <<Data(8, 9), Data(1, 8)>>,
     0 :> <<Data(6, 2), Data(2, 2), Ext(30, 2), Data(20, 4)>>,
     \* Refused.
     0 :> <<Data(1, 2), Data(20, 4)>>,
     0 :> <<Empty, Empty>>,
     4 :> <<Data(1, 2)>>}

Image(t, v) == [size |-> 16, tables |-> t, volumes |-> v]
StartsOf(t) == DataStarts(Image(t, <<>>))

MCImages ==
    UNION {{Image(t, v) : v \in [StartsOf(t) -> Small]} : t \in Tables} \cup
    {Image(0 :> <<Data(1, 8)>>, 1 :> v) : v \in Graphs}
===============================================================================
