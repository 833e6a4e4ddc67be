--------------------------- MODULE RawImageProofs ---------------------------
(***************************************************************************)
(* Why RawImage is right for any layout of segments and any number of      *)
(* slots.  PoolAgrees is inductive with the types and with what pc says of *)
(* cptr; that the bytes are the image's needs besides that the position in *)
(* the segment and what has been read stay in step with the request.       *)
(***************************************************************************)
EXTENDS RawImage, TLAPS

Types ==
    /\ cptr \in [Images -> Slots \cup {Unopened}]
    /\ next_slot \in Slots
    /\ cache \in [Slots -> [fd : Fds \cup {0}, image : Images, seek_pos : Nat]]
    /\ files \in [Fds -> [image : Images \cup {-1}, pos : Nat]]
    /\ pc \in {"idle", "open", "read", "closed"}
    /\ req \in [off : Nat, len : Nat]
    /\ idx \in Images /\ rel_offset \in Nat /\ read_len \in Nat
    /\ buf.n \in Nat

\* raw_read_segment goes to read(2) with the segment open, and only then.
SegmentIsOpen ==
    /\ pc = "open" => cptr[idx] = Unopened
    /\ pc = "read" => cptr[idx] # Unopened

\* The segment and the offset in it are where the request has got to, what is
\* read next stays in the segment and the request, and stops before the end of
\* the request only at the end of the segment.
InStep ==
    pc \in {"open", "read"} =>
        /\ req.off + buf.n = Start(idx) + rel_offset
        /\ Start(idx) + rel_offset + read_len <= MaxOff[idx]
        /\ buf.n + read_len <= req.len
        /\ buf.n + read_len < req.len => Start(idx) + rel_offset + read_len = MaxOff[idx]
        /\ req.off + req.len <= ImgSize
        /\ \A k \in 0..(buf.n - 1) : buf.data[k] = req.off + k

PoolInv == Types /\ PoolAgrees /\ SegmentIsOpen
IInv == PoolInv /\ InStep /\ BytesAreTheImages

-------------------------------------------------------------------------------
(* Segments.                                                               *)

LEMMA ImagesAreNumbers ==
    /\ NumImg - 1 \in Images
    /\ \A i \in Images : i \in Nat /\ i <= NumImg - 1
    /\ \A i \in Images : i # 0 => i - 1 \in Images
    /\ \A i \in Images : i # NumImg - 1 => i + 1 \in Images
BY SegmentsAssumption DEF Images

\* A segment begins inside the image, and not behind its own end.
LEMMA StartIsANumber ==
    ASSUME NEW i \in Images
    PROVE Start(i) \in Nat /\ MaxOff[i] \in Nat /\ Start(i) <= MaxOff[i]
<1>1. MaxOff[i] \in Nat /\ Start(i) <= MaxOff[i] BY SegmentsAssumption
<1>2. i # 0 => MaxOff[i - 1] \in Nat BY SegmentsAssumption, ImagesAreNumbers
<1> QED BY <1>1, <1>2 DEF Start

\* The segment behind one that ends before the image does is there, and begins
\* where that one ends.
LEMMA NextSegment ==
    ASSUME NEW i \in Images, MaxOff[i] < ImgSize
    PROVE i + 1 \in Images /\ Start(i + 1) = MaxOff[i]
<1>1. MaxOff[i] \in Nat BY SegmentsAssumption
<1>2. i # NumImg - 1 BY <1>1 DEF ImgSize
<1> QED BY <1>2, ImagesAreNumbers DEF Start

\* raw_read finds the segment the offset is in.
LEMMA SegmentOfOffset ==
    ASSUME NEW o \in Nat, NEW i \in Images, o < MaxOff[i],
           \A j \in Images : o < MaxOff[j] => i <= j
    PROVE Start(i) <= o
<1>1. CASE i = 0 BY <1>1 DEF Start
<1>2. CASE i # 0
    <2>1. i - 1 \in Images /\ i \in Nat BY <1>2, ImagesAreNumbers
    <2>2. ~(i <= i - 1) BY <2>1
    <2>3. ~(o < MaxOff[i - 1]) BY <2>1, <2>2
    <2>4. MaxOff[i - 1] \in Nat BY <2>1, SegmentsAssumption
    <2> QED BY <1>2, <2>3, <2>4 DEF Start
<1> QED BY <1>1, <1>2

LEMMA SmallerOfTwo ==
    ASSUME NEW a \in Nat, NEW b \in Nat
    PROVE Smaller(a, b) \in Nat /\ Smaller(a, b) <= a /\ Smaller(a, b) <= b
          /\ (Smaller(a, b) = a \/ Smaller(a, b) = b)
BY DEF Smaller

-------------------------------------------------------------------------------
(* The pool of open segments.                                              *)

LEMMA SlotTypes ==
    ASSUME Types, NEW s \in Slots
    PROVE cache[s].fd \in Fds \cup {0} /\ cache[s].image \in Images /\ cache[s].seek_pos \in Nat
BY DEF Types

\* The open slots agree with cptr and with the kernel.
LEMMA SlotInUse ==
    ASSUME Types, PoolAgrees, pc # "closed", NEW s \in Slots, cache[s].fd # 0
    PROVE /\ cptr[cache[s].image] = s
          /\ cache[s].fd \in Fds
          /\ files[cache[s].fd].image = cache[s].image
          /\ files[cache[s].fd].pos = cache[s].seek_pos
<1>1. cptr[cache[s].image] = s BY DEF PoolAgrees
<1>2. files[cache[s].fd] = [image |-> cache[s].image, pos |-> cache[s].seek_pos] BY DEF PoolAgrees
<1>3. cache[s].fd \in Fds BY SlotTypes
<1> QED BY <1>1, <1>2, <1>3

\* A descriptor belongs to one slot.
LEMMA OneSlotPerFile ==
    ASSUME Types, PoolAgrees, pc # "closed",
           NEW s \in Slots, NEW t \in Slots, cache[s].fd # 0, cache[s].fd = cache[t].fd
    PROVE s = t
BY SlotInUse

\* What the driver frees: no descriptor stays open for the next slot, no segment
\* is said to be in it.
LEMMA Freed ==
    ASSUME PoolInv, pc = "open"
    PROVE /\ FilesWithoutEvicted \in [Fds -> [image : Images \cup {-1}, pos : Nat]]
          /\ CptrWithoutEvicted \in [Images -> Slots \cup {Unopened}]
          /\ \A i \in Images : CptrWithoutEvicted[i] # next_slot
          /\ \A i \in Images : CptrWithoutEvicted[i] # Unopened => CptrWithoutEvicted[i] = cptr[i]
          /\ \A f \in Fds : FilesWithoutEvicted[f] # Closed
                <=> \E s \in Slots \ {next_slot} : cache[s].fd = f
          /\ \A s \in Slots \ {next_slot} : cache[s].fd # 0 =>
                /\ CptrWithoutEvicted[cache[s].image] = s
                /\ FilesWithoutEvicted[cache[s].fd] = files[cache[s].fd]
<1> USE DEF PoolInv
<1>1. next_slot \in Slots /\ Evicted = cache[next_slot] /\ InUse = (Evicted.fd # 0)
    BY DEF Types, Evicted, InUse
<1>2. Unopened \notin Slots BY DEF Unopened, Slots
<1>3. CASE ~InUse
    <2>1. FilesWithoutEvicted = files /\ CptrWithoutEvicted = cptr
        BY <1>3 DEF FilesWithoutEvicted, CptrWithoutEvicted
    <2>0. cache[next_slot].fd = 0 BY <1>1, <1>3
    <2>2. \A i \in Images : cptr[i] # next_slot
        <3> TAKE i \in Images
        <3>1. cptr[i] # Unopened => cache[cptr[i]].fd # 0 BY DEF PoolAgrees
        <3> QED BY <3>1, <2>0, <1>1, <1>2
    <2>3. \A f \in Fds : files[f] # Closed <=> \E s \in Slots \ {next_slot} : cache[s].fd = f
        <3> TAKE f \in Fds
        <3>1. f # 0 BY FdsAssumption
        <3>2. files[f] # Closed <=> \E s \in Slots : cache[s].fd = f BY DEF PoolAgrees
        <3> QED BY <3>1, <3>2, <2>0
    <2> QED BY <2>1, <2>2, <2>3 DEF PoolAgrees, Types
<1>4. CASE InUse
    <2> DEFINE fd == Evicted.fd
               im == Evicted.image
    <2>1. fd \in Fds /\ im \in Images /\ cptr[im] = next_slot /\ fd # 0
        BY <1>1, <1>4, SlotInUse, SlotTypes
    <2>2. FilesWithoutEvicted = [files EXCEPT ![fd] = Closed]
          /\ CptrWithoutEvicted = [cptr EXCEPT ![im] = Unopened]
        BY <1>4 DEF FilesWithoutEvicted, CptrWithoutEvicted
    <2>3. \A s \in Slots \ {next_slot} : cache[s].fd # 0 => cache[s].fd # fd /\ cache[s].image # im
        BY <1>1, <2>1, OneSlotPerFile DEF PoolAgrees
    <2>4. FilesWithoutEvicted \in [Fds -> [image : Images \cup {-1}, pos : Nat]]
        BY <2>1, <2>2 DEF Types, Closed
    <2>5. CptrWithoutEvicted \in [Images -> Slots \cup {Unopened}]
        BY <2>1, <2>2 DEF Types
    <2>6. \A i \in Images : cptr[i] = next_slot => i = im
        BY <1>1, <1>2, <2>1 DEF PoolAgrees
    <2>7. \A i \in Images : CptrWithoutEvicted[i] = IF i = im THEN Unopened ELSE cptr[i]
        BY <2>2 DEF Types
    <2>8. \A f \in Fds : FilesWithoutEvicted[f] = IF f = fd THEN Closed ELSE files[f]
        BY <2>2 DEF Types
    <2>9. \A f \in Fds : FilesWithoutEvicted[f] # Closed
                <=> \E s \in Slots \ {next_slot} : cache[s].fd = f
        <3> TAKE f \in Fds
        <3>1. f # 0 BY FdsAssumption
        <3>2. CASE f = fd BY <3>1, <3>2, <2>3, <2>8
        <3>3. CASE f # fd BY <3>3, <2>8, <1>1 DEF PoolAgrees
        <3> QED BY <3>2, <3>3
    <2>10. \A s \in Slots \ {next_slot} : cache[s].fd # 0 =>
                /\ CptrWithoutEvicted[cache[s].image] = s
                /\ FilesWithoutEvicted[cache[s].fd] = files[cache[s].fd]
        BY <2>3, <2>7, <2>8, SlotInUse, SlotTypes
    <2>11. \A i \in Images : CptrWithoutEvicted[i] # next_slot BY <1>1, <1>2, <2>6, <2>7
    <2>12. \A i \in Images : CptrWithoutEvicted[i] # Unopened => CptrWithoutEvicted[i] = cptr[i]
        BY <2>7
    <2> QED BY <2>4, <2>5, <2>9, <2>10, <2>11, <2>12
<1> QED BY <1>3, <1>4

-------------------------------------------------------------------------------
(* The steps.                                                              *)

LEMMA InitHolds == Init => IInv
<1> SUFFICES ASSUME Init PROVE IInv OBVIOUS
<1> USE DEF Init
<1>1. 0 \in Slots /\ 0 \in Images BY PoolAssumption, SegmentsAssumption DEF Slots, Images
<1>2. Types BY <1>1 DEF Types, Closed, NoRequest
<1>3. PoolAgrees BY <1>1, FdsAssumption DEF PoolAgrees, Unopened
<1>4. SegmentIsOpen /\ InStep /\ BytesAreTheImages
    BY DEF SegmentIsOpen, InStep, BytesAreTheImages, Error
<1> QED BY <1>2, <1>3, <1>4 DEF IInv, PoolInv

\* The pool does not depend on what a call keeps.
LEMMA PoolStutters ==
    ASSUME PoolAgrees, UNCHANGED poolVars, pc # "closed", pc' # "closed"
    PROVE PoolAgrees'
BY DEF PoolAgrees, poolVars

LEMMA RefuseKeeps == IInv /\ Refuse => IInv'
<1> SUFFICES ASSUME IInv, Refuse PROVE IInv' OBVIOUS
<1> USE DEF IInv, PoolInv, Refuse, Return, poolVars, callVars
<1>1. Types' BY DEF Types
<1>2. PoolAgrees' BY PoolStutters
<1>3. SegmentIsOpen' /\ InStep' /\ BytesAreTheImages'
    BY DEF SegmentIsOpen, InStep, BytesAreTheImages, Error
<1> QED BY <1>1, <1>2, <1>3

LEMMA CallKeeps == IInv /\ Call => IInv'
<1> SUFFICES ASSUME IInv, Call PROVE IInv' OBVIOUS
<1>1. PICK o \in Offs, n \in Lens, i \in Images :
        /\ o + n <= ImgSize
        /\ o < MaxOff[i] /\ \A j \in Images : o < MaxOff[j] => i <= j
        /\ req' = [off |-> o, len |-> n]
        /\ Segment(i, o - Start(i), Smaller(n, MaxOff[i] - o))
    BY DEF Call
<1>2. o \in Nat /\ n \in Nat /\ n # 0 BY RequestsAssumption
<1>3. Start(i) \in Nat /\ MaxOff[i] \in Nat /\ Start(i) <= o
    BY <1>1, <1>2, StartIsANumber, SegmentOfOffset
<1>4. /\ pc' \in {"open", "read"} /\ UNCHANGED poolVars /\ pc = "idle"
      /\ buf' = [n |-> 0, data |-> <<>>]
      /\ pc' = IF cptr[i] = Unopened THEN "open" ELSE "read"
      /\ idx' = i /\ rel_offset' = o - Start(i) /\ read_len' = Smaller(n, MaxOff[i] - o)
    BY <1>1 DEF Call, Segment
<1>5. /\ Smaller(n, MaxOff[i] - o) \in Nat
      /\ Smaller(n, MaxOff[i] - o) <= n
      /\ Smaller(n, MaxOff[i] - o) <= MaxOff[i] - o
      /\ Smaller(n, MaxOff[i] - o) = n \/ Smaller(n, MaxOff[i] - o) = MaxOff[i] - o
    <2>1. MaxOff[i] - o \in Nat BY <1>1, <1>2, <1>3
    <2> QED BY <2>1, <1>2, SmallerOfTwo
<1>6. Types' BY <1>1, <1>2, <1>3, <1>4, <1>5 DEF IInv, PoolInv, Types, poolVars
<1>7. PoolAgrees' BY <1>4, PoolStutters DEF IInv, PoolInv
<1>8. SegmentIsOpen' BY <1>4 DEF SegmentIsOpen, poolVars
<1>9. InStep'
    <2>1. Start(idx') = Start(i) BY <1>4
    <2>2. buf'.n = 0 /\ req'.off = o /\ req'.len = n BY <1>1, <1>4
    <2>3. o + 0 = Start(i) + (o - Start(i)) /\ 0 + Smaller(n, MaxOff[i] - o) <= n BY <1>2, <1>3, <1>5
    <2>4. Start(i) + (o - Start(i)) + Smaller(n, MaxOff[i] - o) <= MaxOff[i] BY <1>2, <1>3, <1>5
    <2>5. 0 + Smaller(n, MaxOff[i] - o) < n
            => Start(i) + (o - Start(i)) + Smaller(n, MaxOff[i] - o) = MaxOff[i]
        BY <1>2, <1>3, <1>5
    <2>6. o + n <= ImgSize BY <1>1
    <2>7. \A k \in 0..(buf'.n - 1) : buf'.data[k] = req'.off + k BY <2>2
    <2> QED BY <1>4, <2>1, <2>2, <2>3, <2>4, <2>5, <2>6, <2>7 DEF InStep
<1>10. BytesAreTheImages' BY <1>4 DEF BytesAreTheImages
<1> QED BY <1>6, <1>7, <1>8, <1>9, <1>10 DEF IInv, PoolInv

LEMMA OpenKeeps == IInv /\ Open => IInv'
<1> SUFFICES ASSUME IInv, Open PROVE IInv' OBVIOUS
<1>1. PICK f \in Fds :
        /\ FilesWithoutEvicted[f] = Closed
        /\ files' = [FilesWithoutEvicted EXCEPT ![f] = [image |-> idx, pos |-> 0]]
        /\ cache' = [cache EXCEPT ![next_slot] = [fd |-> f, image |-> idx, seek_pos |-> 0]]
    BY DEF Open
<1>2. /\ pc = "open" /\ pc' = "read" /\ UNCHANGED callVars /\ reply' = reply
      /\ cptr' = [CptrWithoutEvicted EXCEPT ![idx] = next_slot]
      /\ next_slot' = (next_slot + 1) % SplitCache
    BY DEF Open
<1>3. PoolInv /\ InStep BY DEF IInv
<1>4. Types BY <1>3 DEF PoolInv
<1>5. next_slot' \in Slots BY <1>2, <1>4, PoolAssumption DEF Types, Slots
<1>6. f # 0 /\ idx \in Images /\ next_slot \in Slots BY <1>4, FdsAssumption DEF Types
<1>7. Types'
    <2>1. files' \in [Fds -> [image : Images \cup {-1}, pos : Nat]]
        BY <1>1, <1>2, <1>3, <1>6, Freed
    <2>2. cptr' \in [Images -> Slots \cup {Unopened}] BY <1>2, <1>3, <1>6, Freed
    <2>3. cache' \in [Slots -> [fd : Fds \cup {0}, image : Images, seek_pos : Nat]]
        BY <1>1, <1>4, <1>6 DEF Types
    <2> QED BY <1>2, <1>4, <1>5, <2>1, <2>2, <2>3 DEF Types, callVars
<1>8. \A s \in Slots : cache'[s] = IF s = next_slot
                                  THEN [fd |-> f, image |-> idx, seek_pos |-> 0] ELSE cache[s]
    BY <1>1, <1>4 DEF Types
<1>9. \A i \in Images : cptr'[i] = IF i = idx THEN next_slot ELSE CptrWithoutEvicted[i]
    BY <1>2, <1>3, Freed
<1>10. \A g \in Fds : files'[g] = IF g = f THEN [image |-> idx, pos |-> 0]
                                  ELSE FilesWithoutEvicted[g]
    BY <1>1, <1>2, <1>3, Freed
<1>11. [image |-> idx, pos |-> 0] # Closed
    <2>1. idx # -1 BY <1>6, ImagesAreNumbers
    <2> QED BY <2>1 DEF Closed
<1>12. \A s \in Slots \ {next_slot} : cache[s].fd # 0 => cache[s].fd # f /\ cache[s].image # idx
    <2> TAKE s \in Slots \ {next_slot}
    <2> HAVE cache[s].fd # 0
    <2>1. cache[s].fd # f BY <1>1, <1>2, <1>3, Freed
    <2>2. cptr[cache[s].image] = s BY <1>2, <1>3, SlotInUse DEF PoolInv
    <2>3. cptr[idx] = Unopened BY <1>2, <1>3 DEF PoolInv, SegmentIsOpen
    <2>4. s # Unopened BY DEF Slots, Unopened
    <2> QED BY <2>1, <2>2, <2>3, <2>4
<1>13. PoolAgrees'
    <2>1. \A g \in Fds : files'[g] # Closed <=> \E s \in Slots : cache'[s].fd = g
        <3> TAKE g \in Fds
        <3>1. CASE g = f BY <3>1, <1>6, <1>8, <1>10, <1>11
        <3>2. CASE g # f
            <4>1. files'[g] # Closed <=> \E s \in Slots \ {next_slot} : cache[s].fd = g
                BY <3>2, <1>2, <1>3, <1>10, Freed
            <4> QED BY <3>2, <4>1, <1>6, <1>8
        <3> QED BY <3>1, <3>2
    <2>2. \A i \in Images : cptr'[i] # Unopened => cache'[cptr'[i]].fd # 0 /\ cache'[cptr'[i]].image = i
        <3> TAKE i \in Images
        <3> HAVE cptr'[i] # Unopened
        <3>1. CASE i = idx BY <3>1, <1>6, <1>8, <1>9
        <3>2. CASE i # idx
            <4>1. cptr'[i] = cptr[i] /\ cptr[i] # next_slot /\ cptr[i] # Unopened
                BY <3>2, <1>2, <1>3, <1>9, Freed
            <4>2. cptr[i] \in Slots BY <4>1, <1>4 DEF Types
            <4>3. cache'[cptr[i]] = cache[cptr[i]] BY <4>1, <4>2, <1>8
            <4>4. cache[cptr[i]].fd # 0 /\ cache[cptr[i]].image = i
                BY <4>1, <1>3 DEF PoolInv, PoolAgrees
            <4> QED BY <4>1, <4>3, <4>4
        <3> QED BY <3>1, <3>2
    <2>3. \A s \in Slots : cache'[s].fd # 0 =>
            /\ cptr'[cache'[s].image] = s
            /\ files'[cache'[s].fd] = [image |-> cache'[s].image, pos |-> cache'[s].seek_pos]
        <3> TAKE s \in Slots
        <3> HAVE cache'[s].fd # 0
        <3>1. CASE s = next_slot BY <3>1, <1>6, <1>8, <1>9, <1>10
        <3>2. CASE s # next_slot
            <4>1. cache'[s] = cache[s] /\ cache[s].fd # 0 /\ cache[s].fd # f /\ cache[s].image # idx
                BY <3>2, <1>8, <1>12
            <4>2. cache[s].image \in Images /\ cache[s].fd \in Fds BY <4>1, <1>4, SlotTypes
            <4>3. cptr'[cache[s].image] = s BY <3>2, <4>1, <4>2, <1>2, <1>3, <1>9, Freed
            <4>4. files'[cache[s].fd] = files[cache[s].fd]
                BY <3>2, <4>1, <4>2, <1>2, <1>3, <1>10, Freed
            <4>5. files[cache[s].fd] = [image |-> cache[s].image, pos |-> cache[s].seek_pos]
                BY <4>1, <1>2, <1>3 DEF PoolInv, PoolAgrees
            <4> QED BY <4>1, <4>3, <4>4, <4>5
        <3> QED BY <3>1, <3>2
    <2> QED BY <2>1, <2>2, <2>3, <1>2 DEF PoolAgrees
<1>14. SegmentIsOpen'
    <2>1. next_slot # Unopened BY <1>6 DEF Slots, Unopened
    <2> QED BY <2>1, <1>2, <1>6, <1>9 DEF SegmentIsOpen, callVars
<1>15. InStep' BY <1>2, <1>3 DEF InStep, callVars
<1>16. BytesAreTheImages' BY <1>2 DEF BytesAreTheImages
<1> QED BY <1>7, <1>13, <1>14, <1>15, <1>16 DEF IInv, PoolInv

LEMMA OpenFailsKeeps == IInv /\ OpenFails => IInv'
<1> SUFFICES ASSUME IInv, OpenFails PROVE IInv' OBVIOUS
<1>1. /\ pc = "open" /\ pc' = "idle" /\ UNCHANGED callVars /\ next_slot' = next_slot
      /\ files' = FilesWithoutEvicted /\ cptr' = CptrWithoutEvicted
      /\ cache' = [cache EXCEPT ![next_slot].fd = 0] /\ reply' = Error
    BY DEF OpenFails, Return
<1>2. PoolInv BY DEF IInv
<1>3. Types /\ next_slot \in Slots BY <1>2 DEF PoolInv, Types
<1>4. \A s \in Slots : cache'[s] = IF s = next_slot THEN [cache[s] EXCEPT !.fd = 0] ELSE cache[s]
    BY <1>1, <1>3 DEF Types
<1>5. cache'[next_slot].fd = 0 /\ cache'[next_slot].image = cache[next_slot].image
    BY <1>3, <1>4 DEF Types
<1>6. Types'
    <2>1. cache' \in [Slots -> [fd : Fds \cup {0}, image : Images, seek_pos : Nat]]
        BY <1>1, <1>3 DEF Types
    <2> QED BY <1>1, <1>2, <1>3, <2>1, Freed DEF Types, callVars
<1>7. PoolAgrees'
    <2>1. \A g \in Fds : files'[g] # Closed <=> \E s \in Slots : cache'[s].fd = g
        <3> TAKE g \in Fds
        <3>1. g # 0 BY FdsAssumption
        <3>2. files'[g] # Closed <=> \E s \in Slots \ {next_slot} : cache[s].fd = g
            BY <1>1, <1>2, Freed
        <3> QED BY <3>1, <3>2, <1>4, <1>5
    <2>2. \A i \in Images : cptr'[i] # Unopened => cache'[cptr'[i]].fd # 0 /\ cache'[cptr'[i]].image = i
        <3> TAKE i \in Images
        <3> HAVE cptr'[i] # Unopened
        <3>1. cptr'[i] = cptr[i] /\ cptr[i] # next_slot /\ cptr[i] # Unopened
            BY <1>1, <1>2, Freed
        <3>2. cptr[i] \in Slots BY <3>1, <1>3 DEF Types
        <3>3. cache'[cptr[i]] = cache[cptr[i]] BY <3>1, <3>2, <1>4
        <3>4. cache[cptr[i]].fd # 0 /\ cache[cptr[i]].image = i
            BY <3>1, <1>2 DEF PoolInv, PoolAgrees
        <3> QED BY <3>1, <3>3, <3>4
    <2>3. \A s \in Slots : cache'[s].fd # 0 =>
            /\ cptr'[cache'[s].image] = s
            /\ files'[cache'[s].fd] = [image |-> cache'[s].image, pos |-> cache'[s].seek_pos]
        <3> TAKE s \in Slots
        <3> HAVE cache'[s].fd # 0
        <3>1. s # next_slot /\ cache'[s] = cache[s] /\ cache[s].fd # 0 BY <1>4, <1>5
        <3>2. cptr'[cache[s].image] = s /\ files'[cache[s].fd] = files[cache[s].fd]
            BY <3>1, <1>1, <1>2, Freed
        <3>3. files[cache[s].fd] = [image |-> cache[s].image, pos |-> cache[s].seek_pos]
            BY <3>1, <1>1, <1>2 DEF PoolInv, PoolAgrees
        <3> QED BY <3>1, <3>2, <3>3
    <2> QED BY <2>1, <2>2, <2>3, <1>1 DEF PoolAgrees
<1>8. SegmentIsOpen' /\ InStep' /\ BytesAreTheImages'
    BY <1>1 DEF SegmentIsOpen, InStep, BytesAreTheImages, Error
<1> QED BY <1>6, <1>7, <1>8 DEF IInv, PoolInv

\* The slot of the segment that is read, moved together with its descriptor.
LEMMA MovedTogether ==
    ASSUME PoolInv, pc = "read", NEW p \in Nat,
           cache' = [cache EXCEPT ![cptr[idx]].seek_pos = p],
           files' = [files EXCEPT ![cache[cptr[idx]].fd].pos = p],
           UNCHANGED <<cptr, next_slot, req>>, pc' \in {"idle", "open", "read"}
    PROVE PoolAgrees'
<1> DEFINE s == cptr[idx]
           fd == cache[s].fd
<1>1. Types BY DEF PoolInv
<1>2. s \in Slots /\ fd # 0 /\ cache[s].image = idx /\ fd \in Fds /\ idx \in Images
    <2>1. idx \in Images /\ cptr[idx] # Unopened BY <1>1 DEF PoolInv, SegmentIsOpen, Types
    <2>2. s \in Slots BY <1>1, <2>1 DEF Types
    <2>3. fd # 0 /\ cache[s].image = idx BY <2>1 DEF PoolInv, PoolAgrees
    <2> QED BY <1>1, <2>1, <2>2, <2>3, SlotTypes
<1>3. \A t \in Slots : cache'[t] = IF t = s THEN [cache[t] EXCEPT !.seek_pos = p] ELSE cache[t]
    BY <1>1 DEF Types
<1>4. \A g \in Fds : files'[g] = IF g = fd THEN [files[g] EXCEPT !.pos = p] ELSE files[g]
    BY <1>1 DEF Types
<1>5. files[fd] = [image |-> idx, pos |-> cache[s].seek_pos] BY <1>2 DEF PoolInv, PoolAgrees
<1>6. files'[fd] = [image |-> idx, pos |-> p] BY <1>2, <1>4, <1>5
<1>7. files[fd] # Closed /\ files'[fd] # Closed
    <2>1. idx # -1 BY <1>2, ImagesAreNumbers
    <2> QED BY <1>5, <1>6, <2>1 DEF Closed
<1>8. \A t \in Slots : cache'[t].fd = cache[t].fd /\ cache'[t].image = cache[t].image
                       /\ (t # s => cache'[t] = cache[t]) /\ (t = s => cache'[t].seek_pos = p)
    BY <1>1, <1>3, SlotTypes DEF Types
<1>9. \A g \in Fds : files'[g] # Closed <=> \E t \in Slots : cache'[t].fd = g
    <2> TAKE g \in Fds
    <2>1. files'[g] # Closed <=> files[g] # Closed BY <1>4, <1>7
    <2>2. files[g] # Closed <=> \E t \in Slots : cache[t].fd = g BY DEF PoolInv, PoolAgrees
    <2> QED BY <2>1, <2>2, <1>8
<1>10. \A i \in Images : cptr'[i] # Unopened => cache'[cptr'[i]].fd # 0 /\ cache'[cptr'[i]].image = i
    <2> TAKE i \in Images
    <2> HAVE cptr'[i] # Unopened
    <2>1. cptr[i] \in Slots /\ cptr'[i] = cptr[i] BY <1>1 DEF Types
    <2> QED BY <2>1, <1>8 DEF PoolInv, PoolAgrees
<1>11. \A t \in Slots : cache'[t].fd # 0 =>
        /\ cptr'[cache'[t].image] = t
        /\ files'[cache'[t].fd] = [image |-> cache'[t].image, pos |-> cache'[t].seek_pos]
    <2> TAKE t \in Slots
    <2> HAVE cache'[t].fd # 0
    <2>1. CASE t = s BY <2>1, <1>2, <1>6, <1>8
    <2>2. CASE t # s
        <3>1. cache[t].fd # fd BY <2>2, <1>2, <1>8, OneSlotPerFile DEF PoolInv
        <3>2. cache[t].fd \in Fds BY <1>1, <1>8, SlotTypes
        <3>3. files'[cache[t].fd] = files[cache[t].fd] BY <3>1, <3>2, <1>4
        <3>4. /\ cptr[cache[t].image] = t
              /\ files[cache[t].fd] = [image |-> cache[t].image, pos |-> cache[t].seek_pos]
            BY <1>8 DEF PoolInv, PoolAgrees
        <3> QED BY <2>2, <3>3, <3>4, <1>8
    <2> QED BY <2>1, <2>2
<1> QED BY <1>9, <1>10, <1>11 DEF PoolAgrees

\* Moving slot and descriptor keeps their types.
LEMMA MovedTypes ==
    ASSUME Types, NEW p \in Nat, NEW s \in Slots, NEW fd \in Fds
    PROVE /\ [cache EXCEPT ![s].seek_pos = p]
                \in [Slots -> [fd : Fds \cup {0}, image : Images, seek_pos : Nat]]
          /\ [files EXCEPT ![fd].pos = p] \in [Fds -> [image : Images \cup {-1}, pos : Nat]]
BY DEF Types

\* The segment that is read is open.
LEMMA ReadSlot ==
    ASSUME PoolInv, pc = "read"
    PROVE /\ cptr[idx] \in Slots
          /\ cache[cptr[idx]].fd \in Fds
          /\ files[cache[cptr[idx]].fd] = [image |-> idx, pos |-> cache[cptr[idx]].seek_pos]
<1>1. Types /\ idx \in Images /\ cptr[idx] # Unopened BY DEF PoolInv, SegmentIsOpen, Types
<1>2. cptr[idx] \in Slots BY <1>1 DEF Types
<1>3. cache[cptr[idx]].fd # 0 /\ cache[cptr[idx]].image = idx BY <1>1 DEF PoolInv, PoolAgrees
<1>4. cache[cptr[idx]].fd \in Fds BY <1>1, <1>2, <1>3, SlotTypes
<1> QED BY <1>2, <1>3, <1>4 DEF PoolInv, PoolAgrees

LEMMA ReadFailsKeeps == IInv /\ ReadFails => IInv'
<1> SUFFICES ASSUME IInv, ReadFails PROVE IInv' OBVIOUS
<1> DEFINE s == cptr[idx]
<1>1. /\ pc = "read" /\ pc' = "idle" /\ reply' = Error
      /\ UNCHANGED <<cptr, next_slot, callVars, reads>>
      /\ \/ UNCHANGED <<cache, files>>
         \/ /\ cache' = [cache EXCEPT ![s].seek_pos = rel_offset]
            /\ files' = [files EXCEPT ![cache[s].fd].pos = rel_offset]
    BY DEF ReadFails, Return
<1>2. PoolInv /\ Types /\ rel_offset \in Nat BY DEF IInv, PoolInv, Types
<1>3. PoolAgrees'
    <2>1. CASE UNCHANGED <<cache, files>>
        BY <2>1, <1>1, <1>2, PoolStutters DEF PoolInv, poolVars
    <2>2. CASE /\ cache' = [cache EXCEPT ![s].seek_pos = rel_offset]
               /\ files' = [files EXCEPT ![cache[s].fd].pos = rel_offset]
        <3>1. UNCHANGED <<cptr, next_slot, req>> BY <1>1 DEF callVars
        <3> QED BY <2>2, <3>1, <1>1, <1>2, MovedTogether
    <2> QED BY <1>1, <2>1, <2>2
<1>4. Types'
    <2>1. /\ cache' \in [Slots -> [fd : Fds \cup {0}, image : Images, seek_pos : Nat]]
          /\ files' \in [Fds -> [image : Images \cup {-1}, pos : Nat]]
        <3>1. s \in Slots /\ cache[s].fd \in Fds BY <1>1, <1>2, ReadSlot
        <3>2. CASE UNCHANGED <<cache, files>> BY <3>2, <1>2 DEF Types
        <3>3. CASE /\ cache' = [cache EXCEPT ![s].seek_pos = rel_offset]
                   /\ files' = [files EXCEPT ![cache[s].fd].pos = rel_offset]
            BY <3>1, <3>3, <1>2, MovedTypes
        <3> QED BY <3>2, <3>3, <1>1
    <2> QED BY <2>1, <1>1, <1>2 DEF Types, callVars
<1>5. SegmentIsOpen' /\ InStep' /\ BytesAreTheImages'
    BY <1>1 DEF SegmentIsOpen, InStep, BytesAreTheImages, Error
<1> QED BY <1>2, <1>3, <1>4, <1>5 DEF IInv, PoolInv

LEMMA ReadKeeps == IInv /\ Read => IInv'
<1> SUFFICES ASSUME IInv, Read PROVE IInv' OBVIOUS
<1> DEFINE s == cptr[idx]
           fd == cache[s].fd
           at == IF cache[s].seek_pos # rel_offset THEN rel_offset ELSE files[fd].pos
<1>1. pc = "read" /\ PoolInv /\ InStep /\ Types BY DEF Read, IInv, PoolInv
<1>2. s \in Slots /\ fd \in Fds /\ files[fd] = [image |-> idx, pos |-> cache[s].seek_pos]
    BY <1>1, ReadSlot
<1>3. at = rel_offset /\ rel_offset \in Nat /\ read_len \in Nat /\ idx \in Images
      /\ buf.n \in Nat /\ req.off \in Nat /\ req.len \in Nat
    BY <1>1, <1>2 DEF Types
<1> HIDE DEF at
<1>4. PICK n \in 0..read_len :
        LET got == Extended([files[fd] EXCEPT !.pos = at], n) IN
        /\ files' = [files EXCEPT ![fd].pos = at + n]
        /\ cache' = [cache EXCEPT ![s].seek_pos = rel_offset + n]
        /\ buf' = got
        /\ IF n = read_len /\ got.n < req.len
           THEN /\ Segment(idx + 1, 0, Smaller(req.len - got.n, MaxOff[idx + 1] - MaxOff[idx]))
                /\ UNCHANGED reply
           ELSE /\ Return([ret |-> got.n, data |-> got.data])
                /\ UNCHANGED <<idx, rel_offset, read_len>>
    BY DEF Read, at
<1>5. UNCHANGED <<cptr, next_slot, req, reads>> BY DEF Read
<1>6. n \in Nat /\ n <= read_len BY <1>3
<1>7. /\ files' = [files EXCEPT ![fd].pos = rel_offset + n]
      /\ cache' = [cache EXCEPT ![s].seek_pos = rel_offset + n]
      /\ rel_offset + n \in Nat
    BY <1>3, <1>4, <1>6
<1>8. [files[fd] EXCEPT !.pos = at] = [image |-> idx, pos |-> rel_offset] BY <1>2, <1>3
<1>9. buf'.n = buf.n + n
      /\ buf'.data = [k \in 0..(buf.n + n - 1) |->
                        IF k < buf.n THEN buf.data[k] ELSE Start(idx) + rel_offset + (k - buf.n)]
    BY <1>4, <1>8 DEF Extended
<1>10. /\ req.off + buf.n = Start(idx) + rel_offset
       /\ Start(idx) + rel_offset + read_len <= MaxOff[idx]
       /\ buf.n + read_len <= req.len
       /\ buf.n + read_len < req.len => Start(idx) + rel_offset + read_len = MaxOff[idx]
       /\ req.off + req.len <= ImgSize
       /\ \A k \in 0..(buf.n - 1) : buf.data[k] = req.off + k
    BY <1>1 DEF InStep
<1>11. Start(idx) \in Nat /\ MaxOff[idx] \in Nat BY <1>3, StartIsANumber
<1>12. \A k \in 0..(buf'.n - 1) : buf'.data[k] = req.off + k
    <2> TAKE k \in 0..(buf'.n - 1)
    <2>1. k \in 0..(buf.n + n - 1) /\ k \in Int
        <3>1. buf'.n = buf.n + n BY <1>9
        <3>2. buf.n \in Nat /\ buf'.n \in Nat /\ n \in Nat BY <3>1, <1>3, <1>6
        <3>3. k \in Int /\ 0 <= k /\ k <= buf'.n - 1 BY <3>2
        <3> QED BY <3>1, <3>2, <3>3
    <2>2. CASE k < buf.n
        <3>1. k \in 0..(buf.n - 1) BY <2>1, <2>2, <1>3
        <3> QED BY <2>1, <2>2, <3>1, <1>9, <1>10
    <2>3. CASE ~(k < buf.n)
        <3>1. buf'.data[k] = Start(idx) + rel_offset + (k - buf.n) BY <2>1, <2>3, <1>9
        <3> QED BY <2>1, <3>1, <1>3, <1>10, <1>11
    <2> QED BY <2>2, <2>3
<1>13. /\ cache' \in [Slots -> [fd : Fds \cup {0}, image : Images, seek_pos : Nat]]
       /\ files' \in [Fds -> [image : Images \cup {-1}, pos : Nat]]
    BY <1>1, <1>2, <1>7, MovedTypes
<1>14. CASE n = read_len /\ buf'.n < req.len
    <2>1. /\ idx' = idx + 1 /\ rel_offset' = 0
          /\ read_len' = Smaller(req.len - buf'.n, MaxOff[idx + 1] - MaxOff[idx])
          /\ pc' = IF cptr[idx + 1] = Unopened THEN "open" ELSE "read"
          /\ reply' = reply
        BY <1>4, <1>14 DEF Segment
    <2>2. req.off + buf'.n = MaxOff[idx] /\ MaxOff[idx] < ImgSize
        <3> HIDE DEF s, fd
        <3>1. ImgSize \in Nat BY SegmentsAssumption, ImagesAreNumbers DEF ImgSize
        <3>2. buf'.n = buf.n + read_len /\ buf.n + read_len < req.len BY <1>9, <1>14
        <3>3. Start(idx) + rel_offset + read_len = MaxOff[idx] BY <3>2, <1>10
        <3>4. req.off + (buf.n + read_len) = MaxOff[idx]
            <4>1. req.off + buf.n = Start(idx) + rel_offset BY <1>10
            <4> QED BY <4>1, <3>3, <1>3, <1>11
        <3>5. req.off + (buf.n + read_len) < ImgSize
            <4>1. req.off + req.len <= ImgSize BY <1>10
            <4> QED BY <4>1, <3>1, <3>2, <1>3
        <3> QED BY <3>2, <3>4, <3>5
    <2>3. idx + 1 \in Images /\ Start(idx + 1) = MaxOff[idx] BY <1>3, <2>2, NextSegment
    <2>4. MaxOff[idx + 1] \in Nat /\ MaxOff[idx] <= MaxOff[idx + 1]
        BY <2>3, StartIsANumber
    <2>5. /\ read_len' \in Nat
          /\ read_len' <= req.len - buf'.n
          /\ read_len' <= MaxOff[idx + 1] - MaxOff[idx]
          /\ read_len' = req.len - buf'.n \/ read_len' = MaxOff[idx + 1] - MaxOff[idx]
        <3>1. req.len - buf'.n \in Nat BY <1>3, <1>6, <1>9, <1>14
        <3>2. MaxOff[idx + 1] - MaxOff[idx] \in Nat BY <2>4, <1>11
        <3> QED BY <3>1, <3>2, <2>1, SmallerOfTwo
    <2>6. pc' \in {"open", "read"} BY <2>1
    <2>7. Types'
        <3> HIDE DEF s, fd
        <3>1. buf'.n \in Nat BY <1>3, <1>6, <1>9
        <3>2. idx' \in Images /\ rel_offset' \in Nat /\ read_len' \in Nat BY <2>1, <2>3, <2>5
        <3> QED BY <3>1, <3>2, <1>1, <1>5, <1>13, <2>6 DEF Types
    <2>8. PoolAgrees' BY <1>1, <1>5, <1>7, <2>6, MovedTogether
    <2>9. SegmentIsOpen' BY <1>5, <2>1, <2>6 DEF SegmentIsOpen
    <2>10. InStep'
        <3>1. Start(idx') = MaxOff[idx] BY <2>1, <2>3
        <3> HIDE DEF s, fd
        <3>2. buf'.n \in Nat BY <1>3, <1>6, <1>9
        <3> QED BY <3>1, <3>2, <1>3, <1>5, <1>10, <1>11, <1>12, <2>1, <2>2, <2>4, <2>5 DEF InStep
    <2>11. BytesAreTheImages' BY <2>6 DEF BytesAreTheImages
    <2> QED BY <2>7, <2>8, <2>9, <2>10, <2>11 DEF IInv, PoolInv
<1>15. CASE ~(n = read_len /\ buf'.n < req.len)
    <2>1. /\ UNCHANGED <<idx, rel_offset, read_len>> /\ pc' = "idle"
          /\ reply' = [ret |-> buf'.n, data |-> buf'.data]
        BY <1>4, <1>15 DEF Return
    <2>2. Types'
        <3> HIDE DEF s, fd
        <3>1. buf'.n \in Nat BY <1>3, <1>6, <1>9
        <3> QED BY <3>1, <1>1, <1>5, <1>13, <2>1 DEF Types
    <2>3. PoolAgrees' BY <1>1, <1>5, <1>7, <2>1, MovedTogether
    <2>4. SegmentIsOpen' /\ InStep' BY <2>1 DEF SegmentIsOpen, InStep
    <2>5. buf'.n <= req.len BY <1>3, <1>6, <1>9, <1>10
    <2>6. buf'.n < req.len => req.off + buf'.n < MaxOff[idx]
        <3> HAVE buf'.n < req.len
        <3>1. n < read_len BY <1>6, <1>3, <1>15
        <3>2. req.off + buf'.n = Start(idx) + rel_offset + n BY <1>3, <1>6, <1>9, <1>10, <1>11
        <3> QED BY <3>1, <3>2, <1>3, <1>6, <1>10, <1>11
    <2>7. BytesAreTheImages' BY <1>5, <1>12, <2>1, <2>5, <2>6 DEF BytesAreTheImages
    <2> QED BY <2>2, <2>3, <2>4, <2>7 DEF IInv, PoolInv
<1> QED BY <1>14, <1>15

LEMMA CloseKeeps == IInv /\ Close => IInv'
<1> SUFFICES ASSUME IInv, Close PROVE IInv' OBVIOUS
<1>1. /\ files' = [f \in Fds |-> IF \E t \in Slots : cache[t].fd = f THEN Closed ELSE files[f]]
      /\ pc = "idle" /\ pc' = "closed" /\ UNCHANGED <<cptr, next_slot, cache, callVars, reply>>
    BY DEF Close
<1>2. PoolInv /\ Types BY DEF IInv, PoolInv
<1>3. \A f \in Fds : files'[f] = Closed BY <1>1, <1>2 DEF PoolInv, PoolAgrees
<1>4. Types' BY <1>1, <1>2 DEF Types, callVars, Closed
<1>5. PoolAgrees' BY <1>1, <1>2, <1>3 DEF PoolInv, PoolAgrees
<1>6. SegmentIsOpen' /\ InStep' /\ BytesAreTheImages'
    BY <1>1 DEF SegmentIsOpen, InStep, BytesAreTheImages
<1> QED BY <1>4, <1>5, <1>6 DEF IInv, PoolInv

LEMMA StutterKeeps == IInv /\ UNCHANGED vars => IInv'
BY DEF IInv, PoolInv, Types, PoolAgrees, SegmentIsOpen, InStep, BytesAreTheImages,
       vars, poolVars, callVars

-------------------------------------------------------------------------------
(* The theorems.                                                           *)

\* Every step of the driver keeps the invariant above, whatever the segments,
\* the slots and the requests (raw.c:42-304, 349-374).
THEOREM Invariance == Spec => []IInv
<1>1. IInv /\ [Next]_vars => IInv'
    BY RefuseKeeps, CallKeeps, OpenKeeps, OpenFailsKeeps, ReadFailsKeeps, ReadKeeps,
       CloseKeeps, StutterKeeps DEF Next
<1> QED BY <1>1, InitHolds, PTL DEF Spec

\* Slots, cptr and the open descriptors agree at every moment, and raw_close
\* leaves no descriptor open (raw.c:50-105, 349-361).
THEOREM PoolAgreement == Spec => []PoolAgrees
<1>1. IInv => PoolAgrees BY DEF IInv, PoolInv
<1> QED BY <1>1, Invariance, PTL

\* raw_read answers with the image's bytes, and short only where the read of a
\* segment stopped inside it (raw.c:197-304).
THEOREM ByteFidelity == Spec => []BytesAreTheImages
<1>1. IInv => BytesAreTheImages BY DEF IInv
<1> QED BY <1>1, Invariance, PTL
=============================================================================
