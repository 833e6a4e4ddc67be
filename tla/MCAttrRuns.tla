----------------------------- MODULE MCAttrRuns -----------------------------
(* Files of up to five clusters of two bytes. *)
EXTENDS AttrRuns

\* Clusters of different runs are not neighbours on the device.
Run(o, n, k) == [offset |-> o, len |-> n, addr |-> IF k = "sparse" THEN 0 ELSE 10 + 3 * o, kind |-> k]
D(o, n) == Run(o, n, "data")
S(o, n) == Run(o, n, "sparse")

\* The device: all of it, with bytes that cannot be read, an image that ends
\* in the middle of a run, a file system that ends before a run, or before a
\* hole.
Whole == [last_block |-> 30, held |-> 62, unreadable |-> {}]
Faulty == [Whole EXCEPT !.unreadable = {27, 35}]
Partial == [Whole EXCEPT !.held = 23]
Small == [Whole EXCEPT !.last_block = 16]
Tiny == [Whole EXCEPT !.last_block = 1]

File(s, p, size, init) ==
    [start |-> s, pieces |-> p, size |-> size, initsize |-> init, allocsize |-> 10,
     skiplen |-> 0, fs |-> Whole]
On(f, fs) == [f EXCEPT !.fs = fs]
Skipping(f, n) == [f EXCEPT !.skiplen = n]

\* Pieces for a filler are single runs.
Layouts ==
    {{<<D(0, 1)>>, <<D(1, 1)>>, <<D(2, 1)>>, <<D(3, 1)>>, <<D(4, 1)>>},
     {<<D(0, 2)>>, <<S(2, 1)>>, <<D(3, 1)>>, <<D(4, 1)>>},
     {<<S(0, 1)>>, <<D(1, 2)>>, <<D(4, 1)>>},
     {<<D(1, 1)>>, <<D(3, 2)>>}}

\* Pieces of several runs, the last two of them in a filler that goes on too.
Chains ==
    {{<<D(0, 1)>>, <<D(2, 1)>>, <<D(3, 1), S(4, 1)>>},
     {<<D(0, 2), D(2, 2)>>, <<D(4, 1)>>},
     {<<D(0, 1)>>, <<D(1, 1), S(2, 1)>>, <<D(3, 1)>>, <<D(4, 1)>>}}

InOrder == {<<D(0, 2)>>, <<S(2, 1)>>, <<D(3, 2)>>}

MCFiles ==
    {File(s, p, size, init) : s \in {"piece", "none"}, p \in Layouts \cup Chains,
                              size \in {7, 10}, init \in {3, 4, 7}} \cup
    {File("filler", p, 9, 9) : p \in Layouts} \cup
    {File("append", {<<D(0, 1)>>, <<S(1, 2)>>, <<D(3, 1)>>}, 7, 7)} \cup
    {On(File("none", InOrder, 9, init), fs) : init \in {2, 9}, fs \in {Faulty, Partial, Small, Tiny}} \cup
    {Skipping(File("none", {<<D(0, 5)>>}, size, size), n) : size \in {1, 5, 7}, n \in {1, 2, 3, 5}} \cup
    {On(Skipping(File("none", {<<D(0, 2), D(2, 2)>>}, 7, 7), 1), fs) : fs \in {Faulty, Partial, Small}}
=============================================================================
