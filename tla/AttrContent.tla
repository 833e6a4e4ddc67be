------------------------------ MODULE AttrContent ------------------------------
(***************************************************************************)
(* What a non-resident attribute is to those who add runs and read it: a   *)
(* set of clusters, each with its place in the file, and zeros everywhere  *)
(* else.  It knows nothing of run lists, fillers and their order.          *)
(***************************************************************************)
EXTENDS Integers, Sequences

CONSTANT Files  \* see AttrRuns

VARIABLES file, clusters

\* A cluster: its number in the file, its address, and whether it is sparse.
OfRun(r) ==
    {[vcn |-> r.offset + k, addr |-> r.addr + k, sparse |-> r.kind = "sparse"] : k \in 0..(r.len - 1)}
OfRuns(c) == UNION {OfRun(c[i]) : i \in DOMAIN c}

Init ==
    /\ file \in Files
    /\ clusters = {}

\* The clusters of a piece of the file come in, together and where they belong.
Place ==
    /\ \E c \in file.pieces :
        /\ OfRuns(c) \cap clusters = {}
        /\ clusters' = clusters \cup OfRuns(c)
    /\ UNCHANGED file

Spec == Init /\ [][Place]_<<file, clusters>>
===============================================================================
