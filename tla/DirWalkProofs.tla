---------------------------- MODULE DirWalkProofs ----------------------------
(***************************************************************************)
(* Proofs about DirWalk, for any directories, however they contain each    *)
(* other, any callbacks, threads and walks: where a walk is, and what it   *)
(* comes past.                                                             *)
(***************************************************************************)
EXTENDS DirWalk, SequenceTheorems, TLAPS

-------------------------------------------------------------------------------
(* The stack of calls and the way down.                                    *)

FrameType == [dir : Inodes, i : Nat, bak : BOOLEAN]

\* The directories below the start, and as many of them as the path has.
Way(fs) == [k \in 1..(Len(fs) - 1) |-> fs[k + 1].dir]

Path(fs) ==
    [k \in 1..(IF Len(fs) - 1 < MaxDepth THEN IF fs = <<>> THEN 0 ELSE Len(fs) - 1
               ELSE MaxDepth) |-> fs[k + 1].dir]

LEMMA WayLemma ==
    ASSUME NEW fs \in Seq(FrameType)
    PROVE  /\ Way(fs) \in Seq(Inodes) /\ Path(fs) \in Seq(Inodes)
           /\ Len(Way(fs)) = IF fs = <<>> THEN 0 ELSE Len(fs) - 1
           /\ Len(Path(fs)) = IF Len(Way(fs)) < MaxDepth THEN Len(Way(fs)) ELSE MaxDepth
           /\ \A k \in 1..Len(Way(fs)) : Way(fs)[k] = fs[k + 1].dir
           /\ \A k \in 1..Len(Path(fs)) : Path(fs)[k] = fs[k + 1].dir
<1>. DEFINE w == IF fs = <<>> THEN 0 ELSE Len(fs) - 1
            p == IF w < MaxDepth THEN w ELSE MaxDepth
<1>1. Len(fs) \in Nat /\ (fs # <<>> => Len(fs) # 0) /\ (fs = <<>> => Len(fs) = 0)
  OBVIOUS
<1>2. w \in Nat /\ w <= Len(fs) /\ p \in Nat /\ p <= w
  BY <1>1, MaxDepthAssumption
<1>3. \A k \in 1..w : k + 1 \in 1..Len(fs) /\ fs[k + 1] \in FrameType
  BY <1>1
<1>4. \A k \in 1..w : fs[k + 1].dir \in Inodes
  BY <1>3 DEF FrameType
<1>5. Way(fs) = [k \in 1..w |-> fs[k + 1].dir]
  BY <1>1 DEF Way
<1>6. Path(fs) = [k \in 1..p |-> fs[k + 1].dir]
  BY <1>1, MaxDepthAssumption DEF Path
<1>. HIDE DEF w, p
<1>7. Way(fs) \in Seq(Inodes) /\ Len(Way(fs)) = w
  BY <1>2, <1>4, <1>5
<1>8. Path(fs) \in Seq(Inodes) /\ Len(Path(fs)) = p
  BY <1>2, <1>4, <1>6
<1>. QED  BY <1>1, <1>5, <1>6, <1>7, <1>8 DEF w, p

\* A call goes on with the next entry.
LEMMA AdvancedLemma ==
    ASSUME NEW fs \in Seq(FrameType), fs # <<>>
    PROVE  /\ Advanced(fs) \in Seq(FrameType) /\ Advanced(fs) # <<>>
           /\ Len(Advanced(fs)) = Len(fs)
           /\ \A k \in 1..(Len(fs) - 1) : Advanced(fs)[k] = fs[k]
           /\ Advanced(fs)[Len(fs)].dir = fs[Len(fs)].dir
           /\ Advanced(fs)[Len(fs)].i = fs[Len(fs)].i + 1
           /\ Way(Advanced(fs)) = Way(fs) /\ Path(Advanced(fs)) = Path(fs)
<1>. DEFINE n == Len(fs)
            f == [fs[n] EXCEPT !.i = @ + 1]
<1>1. n \in Nat /\ n # 0 /\ n \in 1..n /\ fs[n] \in FrameType
  OBVIOUS
<1>2. f \in FrameType /\ f.dir = fs[n].dir /\ f.i = fs[n].i + 1
  BY <1>1 DEF FrameType
<1>3. Advanced(fs) = [fs EXCEPT ![n] = f]
  BY DEF Advanced
<1>. HIDE DEF f
<1>4. /\ Advanced(fs) \in Seq(FrameType) /\ Len(Advanced(fs)) = n
      /\ \A j \in 1..n : Advanced(fs)[j] = IF j = n THEN f ELSE fs[j]
  BY <1>1, <1>2, <1>3, ExceptSeq
<1>5. \A j \in 1..n : Advanced(fs)[j].dir = fs[j].dir
  BY <1>2, <1>4
<1>6. Advanced(fs) # <<>>
  BY <1>1, <1>4
<1>7. Way(Advanced(fs)) = Way(fs)
  BY <1>1, <1>4, <1>5 DEF Way
<1>8. Path(Advanced(fs)) = Path(fs)
  <2>1. \A k \in 1..(IF n - 1 < MaxDepth THEN n - 1 ELSE MaxDepth) : k + 1 \in 1..n
    BY <1>1, MaxDepthAssumption
  <2>. QED  BY <1>1, <1>4, <1>5, <1>6, <2>1 DEF Path
<1>. QED  BY <1>1, <1>2, <1>4, <1>6, <1>7, <1>8

\* A call is made.
LEMMA PushLemma ==
    ASSUME NEW fs \in Seq(FrameType), fs # <<>>, NEW f \in FrameType
    PROVE  /\ Append(fs, f) \in Seq(FrameType) /\ Append(fs, f) # <<>>
           /\ Way(Append(fs, f)) = Append(Way(fs), f.dir)
           /\ Path(Append(fs, f)) = IF Len(Way(fs)) < MaxDepth THEN Append(Path(fs), f.dir)
                                    ELSE Path(fs)
<1>. DEFINE gs == Append(fs, f)
            n == Len(fs)
<1>1. /\ gs \in Seq(FrameType) /\ gs # <<>> /\ n \in Nat /\ n # 0 /\ Len(gs) = n + 1
      /\ \A k \in 1..n : gs[k] = fs[k]
      /\ gs[n + 1] = f
  OBVIOUS
<1>2. f.dir \in Inodes
  BY DEF FrameType
<1>. HIDE DEF gs, n
<1>3. /\ Len(Way(fs)) = n - 1 /\ Len(Way(gs)) = n
      /\ Way(fs) \in Seq(Inodes) /\ Way(gs) \in Seq(Inodes)
      /\ Path(fs) \in Seq(Inodes) /\ Path(gs) \in Seq(Inodes)
      /\ Len(Path(fs)) = IF n - 1 < MaxDepth THEN n - 1 ELSE MaxDepth
      /\ Len(Path(gs)) = IF n < MaxDepth THEN n ELSE MaxDepth
  BY <1>1, WayLemma DEF n
<1>4. Way(gs) = Append(Way(fs), f.dir)
  <2>1. Append(Way(fs), f.dir) \in Seq(Inodes) /\ Len(Append(Way(fs), f.dir)) = n
    BY <1>1, <1>2, <1>3
  <2>2. \A k \in 1..n : Way(gs)[k] = Append(Way(fs), f.dir)[k]
    <3>1. ASSUME NEW k \in 1..n  PROVE Way(gs)[k] = Append(Way(fs), f.dir)[k]
      <4>1. Way(gs)[k] = gs[k + 1].dir
        BY <1>1, <1>3, WayLemma
      <4>2. CASE k = n
        BY <1>1, <1>3, <4>1, <4>2
      <4>3. CASE k # n
        <5>1. k \in 1..(n - 1) /\ k + 1 \in 1..n
          BY <1>1, <4>3
        <5>2. Append(Way(fs), f.dir)[k] = Way(fs)[k] /\ Way(fs)[k] = fs[k + 1].dir
          BY <1>2, <1>3, <5>1, WayLemma
        <5>. QED  BY <1>1, <4>1, <5>1, <5>2
      <4>. QED  BY <4>2, <4>3
    <3>. QED  BY <3>1
  <2>. QED  BY <1>3, <2>1, <2>2, SeqEqual
<1>5. Path(gs) = IF Len(Way(fs)) < MaxDepth THEN Append(Path(fs), f.dir) ELSE Path(fs)
  <2>. DEFINE p == IF n - 1 < MaxDepth THEN n - 1 ELSE MaxDepth
  <2>1. \A k \in 1..Len(Path(gs)) : Path(gs)[k] = gs[k + 1].dir
    BY <1>1, WayLemma
  <2>2. \A k \in 1..Len(Path(fs)) : Path(fs)[k] = fs[k + 1].dir
    BY WayLemma
  <2>3. CASE n - 1 < MaxDepth
    <3>1. Len(Path(fs)) = n - 1 /\ Len(Path(gs)) = n
      BY <1>1, <1>3, <2>3, MaxDepthAssumption
    <3>2. /\ Append(Path(fs), f.dir) \in Seq(Inodes) /\ Len(Append(Path(fs), f.dir)) = n
          /\ \A k \in 1..(n - 1) : Append(Path(fs), f.dir)[k] = Path(fs)[k]
          /\ Append(Path(fs), f.dir)[n] = f.dir
      BY <1>1, <1>2, <1>3, <3>1
    <3>3. \A k \in 1..n : Path(gs)[k] = Append(Path(fs), f.dir)[k]
      <4>1. ASSUME NEW k \in 1..n  PROVE Path(gs)[k] = Append(Path(fs), f.dir)[k]
        <5>1. CASE k = n
          BY <1>1, <2>1, <3>1, <3>2, <5>1
        <5>2. CASE k # n
          <6>1. k \in 1..(n - 1) /\ k + 1 \in 1..n
            BY <1>1, <5>2
          <6>2. Append(Path(fs), f.dir)[k] = Path(fs)[k] /\ Path(fs)[k] = fs[k + 1].dir
            BY <2>2, <3>1, <3>2, <6>1
          <6>3. Path(gs)[k] = gs[k + 1].dir
            BY <2>1, <3>1
          <6>. QED  BY <1>1, <6>1, <6>2, <6>3
        <5>. QED  BY <5>1, <5>2
      <4>. QED  BY <4>1
    <3>4. Path(gs) = Append(Path(fs), f.dir)
      BY <1>3, <3>1, <3>2, <3>3, SeqEqual
    <3>. QED  BY <1>3, <2>3, <3>4
  <2>4. CASE ~(n - 1 < MaxDepth)
    <3>1. Len(Path(fs)) = MaxDepth /\ Len(Path(gs)) = MaxDepth
      BY <1>1, <1>3, <2>4, MaxDepthAssumption
    <3>2. \A k \in 1..MaxDepth : k + 1 \in 1..n
      BY <1>1, <2>4, MaxDepthAssumption
    <3>3. \A k \in 1..MaxDepth : Path(gs)[k] = Path(fs)[k]
      BY <1>1, <2>1, <2>2, <3>1, <3>2
    <3>4. Path(gs) = Path(fs)
      BY <1>3, <3>1, <3>3, SeqEqual
    <3>. QED  BY <1>3, <2>4, <3>4
  <2>. QED  BY <2>3, <2>4
<1>. QED  BY <1>1, <1>4, <1>5 DEF gs

\* A call returns to the one that made it.
LEMMA PopLemma ==
    ASSUME NEW fs \in Seq(FrameType), Len(fs) > 1
    PROVE  /\ PopOf(fs) \in Seq(FrameType) /\ PopOf(fs) # <<>>
           /\ Len(PopOf(fs)) = Len(fs) - 1
           /\ \A k \in 1..(Len(fs) - 1) : PopOf(fs)[k] = fs[k]
           /\ Way(PopOf(fs)) = PopOf(Way(fs))
           /\ Path(PopOf(fs)) = SubSeq(Path(fs), 1, IF Len(Path(fs)) < Len(Way(fs))
                                                    THEN Len(Path(fs)) ELSE Len(Path(fs)) - 1)
<1>. DEFINE gs == PopOf(fs)
            n == Len(fs)
<1>1. n \in Nat /\ n > 1
  OBVIOUS
<1>2. /\ gs \in Seq(FrameType) /\ Len(gs) = n - 1 /\ gs # <<>>
      /\ \A k \in 1..(n - 1) : gs[k] = fs[k]
  <2>1. \A k \in 1..(n - 1) : fs[k] \in FrameType
    BY <1>1
  <2>2. /\ gs \in Seq(FrameType) /\ Len(gs) = n - 1
        /\ \A k \in 1..(n - 1) : gs[k] = fs[k]
    BY <1>1, <2>1, SubSeqProperties DEF PopOf
  <2>. QED  BY <1>1, <2>2
<1>. HIDE DEF gs, n
<1>3. /\ Len(Way(fs)) = n - 1 /\ Len(Way(gs)) = n - 2
      /\ Way(fs) \in Seq(Inodes) /\ Way(gs) \in Seq(Inodes)
      /\ Path(fs) \in Seq(Inodes) /\ Path(gs) \in Seq(Inodes)
      /\ Len(Path(fs)) = IF n - 1 < MaxDepth THEN n - 1 ELSE MaxDepth
      /\ Len(Path(gs)) = IF n - 2 < MaxDepth THEN n - 2 ELSE MaxDepth
  <2>1. fs # <<>>
    BY <1>1 DEF n
  <2>. QED  BY <1>1, <1>2, <2>1, WayLemma DEF n
<1>4. /\ \A k \in 1..(n - 1) : Way(fs)[k] = fs[k + 1].dir
      /\ \A k \in 1..(n - 2) : Way(gs)[k] = gs[k + 1].dir
      /\ \A k \in 1..Len(Path(fs)) : Path(fs)[k] = fs[k + 1].dir
      /\ \A k \in 1..Len(Path(gs)) : Path(gs)[k] = gs[k + 1].dir
  BY <1>2, <1>3, WayLemma
<1>5. Way(gs) = PopOf(Way(fs))
  <2>1. \A k \in 1..(n - 2) : Way(fs)[k] \in Inodes
    BY <1>1, <1>3
  <2>2. /\ PopOf(Way(fs)) \in Seq(Inodes) /\ Len(PopOf(Way(fs))) = n - 2
        /\ \A k \in 1..(n - 2) : PopOf(Way(fs))[k] = Way(fs)[k]
    <3>1. Len(Way(fs)) - 1 = n - 2 /\ n - 2 \in Nat
      BY <1>1, <1>3
    <3>2. PopOf(Way(fs)) = SubSeq(Way(fs), 1, n - 2)
      BY <3>1 DEF PopOf
    <3>. QED  BY <2>1, <3>1, <3>2, SubSeqProperties
  <2>. HIDE DEF PopOf
  <2>3. \A k \in 1..(n - 2) : Way(gs)[k] = Way(fs)[k]
    <3>1. ASSUME NEW k \in 1..(n - 2)  PROVE Way(gs)[k] = Way(fs)[k]
      <4>1. k \in 1..(n - 1) /\ k + 1 \in 1..(n - 1)
        BY <1>1
      <4>2. gs[k + 1] = fs[k + 1]
        BY <1>2, <4>1
      <4>. QED  BY <1>4, <4>1, <4>2
    <3>. QED  BY <3>1
  <2>4. \A k \in 1..Len(Way(gs)) : Way(gs)[k] = PopOf(Way(fs))[k]
    BY <1>3, <2>2, <2>3
  <2>5. /\ Way(gs) \in Seq(Inodes) /\ PopOf(Way(fs)) \in Seq(Inodes)
        /\ Len(Way(gs)) = Len(PopOf(Way(fs)))
    BY <1>3, <2>2
  <2>. QED  BY <2>4, <2>5, SeqEqual
<1>6. Path(gs) = SubSeq(Path(fs), 1, IF Len(Path(fs)) < Len(Way(fs))
                                     THEN Len(Path(fs)) ELSE Len(Path(fs)) - 1)
  <2>. DEFINE m == IF Len(Path(fs)) < Len(Way(fs)) THEN Len(Path(fs)) ELSE Len(Path(fs)) - 1
  <2>1. m = Len(Path(gs)) /\ m \in Nat /\ m <= Len(Path(fs)) /\ m <= n - 2
    BY <1>1, <1>3, MaxDepthAssumption
  <2>. HIDE DEF m
  <2>2. \A k \in 1..m : Path(fs)[k] \in Inodes
    BY <1>3, <2>1
  <2>3. /\ SubSeq(Path(fs), 1, m) \in Seq(Inodes) /\ Len(SubSeq(Path(fs), 1, m)) = m
        /\ \A k \in 1..m : SubSeq(Path(fs), 1, m)[k] = Path(fs)[k]
    BY <2>1, <2>2, SubSeqProperties
  <2>4. \A k \in 1..m : Path(gs)[k] = Path(fs)[k]
    <3>1. ASSUME NEW k \in 1..m  PROVE Path(gs)[k] = Path(fs)[k]
      <4>1. k \in 1..Len(Path(fs)) /\ k \in 1..Len(Path(gs)) /\ k + 1 \in 1..(n - 1)
        BY <1>1, <1>3, <2>1
      <4>2. gs[k + 1] = fs[k + 1]
        BY <1>2, <4>1
      <4>. QED  BY <1>4, <4>1, <4>2
    <3>. QED  BY <3>1
  <2>5. Path(gs) = SubSeq(Path(fs), 1, m)
    BY <1>3, <2>1, <2>3, <2>4, SeqEqual
  <2>. QED  BY <2>5 DEF m
<1>. QED  BY <1>2, <1>5, <1>6 DEF gs, n

-------------------------------------------------------------------------------
(* The inductive invariant: where each thread is, its stack of calls, the  *)
(* addresses it has seen and its path say the same.                        *)

\* Every call is in a directory that can be opened, at one of its entries; the
\* last one may be past them.
Placed(im, fs) ==
    \A k \in 1..Len(fs) :
        /\ im.meta[fs[k].dir].type = "dir" /\ fs[k].dir \notin im.unreadable
        /\ fs[k].i \in 1..(Len(im.names[fs[k].dir]) + 1)
        /\ k < Len(fs) => fs[k].i <= Len(im.names[fs[k].dir])

InStep(im, p, fs, seen, path) ==
    /\ fs \in Seq(FrameType)
    /\ p \in {"idle", "walking", "walked"}
    /\ p = "walking" <=> fs # <<>>
    /\ seen = Way(fs) /\ path = Path(fs)
    /\ Placed(im, fs)

Functions ==
    /\ pc \in [Threads -> {"idle", "walking", "walked"}]
    /\ frames \in [Threads -> Seq(FrameType)]
    /\ stack_seen \in [Threads -> Seq(Inodes)]
    /\ dirs \in [Threads -> Seq(Inodes)]

Collecting ==
    /\ list \in (SUBSET Inodes) \cup {Null}
    /\ save \in [Threads -> BOOLEAN]
    /\ collected \in [Threads -> (SUBSET Inodes) \cup {Null}]
    /\ retval \in [Threads -> {"CONT", "STOP", "ERROR"}]

AllInStep == \A t \in Threads : InStep(img, pc[t], frames[t], stack_seen[t], dirs[t])

IInv == img \in Images /\ Functions /\ Collecting /\ AllInStep

-------------------------------------------------------------------------------
(* The moves of one thread.                                                *)

\* Outside dir_walk_lcl there is no call, nothing seen and no path.
LEMMA OutsideLemma ==
    ASSUME NEW im, NEW p \in {"idle", "walked"}
    PROVE  InStep(im, p, <<>>, <<>>, <<>>)
<1>1. <<>> \in Seq(FrameType) /\ Len(<<>>) = 0
  OBVIOUS
<1>2. Way(<<>>) = <<>> /\ Path(<<>>) = <<>>
  <2>1. /\ Way(<<>>) \in Seq(Inodes) /\ Path(<<>>) \in Seq(Inodes)
        /\ Len(Way(<<>>)) = IF <<>> = <<>> THEN 0 ELSE Len(<<>>) - 1
        /\ Len(Path(<<>>)) = IF Len(Way(<<>>)) < MaxDepth THEN Len(Way(<<>>)) ELSE MaxDepth
    BY ONLY <1>1, WayLemma, Zenon
  <2>2. Len(Way(<<>>)) = 0
    BY <1>1, <2>1
  <2>3. Len(Path(<<>>)) = 0
    BY <2>1, <2>2, MaxDepthAssumption
  <2>. QED  BY <2>1, <2>2, <2>3
<1>. QED  BY <1>1, <1>2 DEF InStep, Placed

\* A walk starts in a directory it could open.
LEMMA StartLemma ==
    ASSUME NEW im \in ImageType, NEW a \in Inodes,
           im.meta[a].type = "dir", a \notin im.unreadable
    PROVE  InStep(im, "walking", <<Frame(a, FALSE)>>, <<>>, <<>>)
<1>. DEFINE f == Frame(a, FALSE)
            fs == <<f>>
<1>1. f \in FrameType /\ f.dir = a /\ f.i = 1
  BY DEF Frame, FrameType
<1>. HIDE DEF f
<1>2. fs \in Seq(FrameType) /\ Len(fs) = 1 /\ fs[1] = f /\ fs # <<>>
  BY <1>1
<1>3. Way(fs) = <<>> /\ Path(fs) = <<>>
  <2>1. /\ Way(fs) \in Seq(Inodes) /\ Path(fs) \in Seq(Inodes)
        /\ Len(Way(fs)) = IF fs = <<>> THEN 0 ELSE Len(fs) - 1
        /\ Len(Path(fs)) = IF Len(Way(fs)) < MaxDepth THEN Len(Way(fs)) ELSE MaxDepth
    BY ONLY <1>2, WayLemma, Zenon
  <2>2. Len(Way(fs)) = 0
    BY <1>2, <2>1
  <2>3. Len(Path(fs)) = 0
    BY <2>1, <2>2, MaxDepthAssumption
  <2>. QED  BY <2>1, <2>2, <2>3
<1>4. Len(im.names[a]) \in Nat
  BY DEF ImageType
<1>5. Placed(im, fs)
  BY <1>1, <1>2, <1>4 DEF Placed
<1>6. InStep(im, "walking", fs, <<>>, <<>>)
  BY <1>2, <1>3, <1>5 DEF InStep
<1>. QED  BY <1>6 DEF f

\* The walk passes an entry.
LEMMA PassLemma ==
    ASSUME NEW im \in ImageType, NEW fs, NEW seen, NEW path,
           InStep(im, "walking", fs, seen, path),
           Top(fs).i <= Len(im.names[Top(fs).dir])
    PROVE  InStep(im, "walking", Advanced(fs), seen, path)
<1>. DEFINE gs == Advanced(fs)
            n == Len(fs)
<1>1. /\ fs \in Seq(FrameType) /\ fs # <<>> /\ n \in Nat /\ n > 0
      /\ seen = Way(fs) /\ path = Path(fs) /\ Placed(im, fs)
  BY DEF InStep
<1>2. /\ gs \in Seq(FrameType) /\ gs # <<>> /\ Len(gs) = n
      /\ \A k \in 1..(n - 1) : gs[k] = fs[k]
      /\ gs[n].dir = fs[n].dir /\ gs[n].i = fs[n].i + 1
      /\ Way(gs) = seen /\ Path(gs) = path
  BY <1>1, AdvancedLemma
<1>. HIDE DEF gs
<1>3. ASSUME NEW k \in 1..n
      PROVE  /\ im.meta[gs[k].dir].type = "dir" /\ gs[k].dir \notin im.unreadable
             /\ gs[k].i \in 1..(Len(im.names[gs[k].dir]) + 1)
             /\ k < n => gs[k].i <= Len(im.names[gs[k].dir])
  <2>1. /\ im.meta[fs[k].dir].type = "dir" /\ fs[k].dir \notin im.unreadable
        /\ fs[k].i \in 1..(Len(im.names[fs[k].dir]) + 1)
        /\ k < n => fs[k].i <= Len(im.names[fs[k].dir])
    BY <1>1 DEF Placed
  <2>2. CASE k < n
    <3>1. k \in 1..(n - 1)
      BY <1>1, <2>2
    <3>. QED  BY <1>2, <2>1, <3>1
  <2>3. CASE k = n
    <3>1. fs[n].i <= Len(im.names[fs[n].dir]) /\ Len(im.names[fs[n].dir]) \in Nat
      <4>1. fs[n].dir \in Inodes
        <5>1. fs[n] \in FrameType
          BY <1>1
        <5>. QED  BY <5>1 DEF FrameType
      <4>. QED  BY <4>1 DEF Top, ImageType
    <3>2. gs[k].dir = fs[n].dir /\ gs[k].i = fs[n].i + 1
      BY <1>2, <2>3
    <3>3. fs[n].i \in Nat \ {0}
      BY <2>1, <2>3, <3>1
    <3>. QED  BY <2>1, <2>3, <3>1, <3>2, <3>3
  <2>. QED  BY <1>1, <2>2, <2>3
<1>4. Placed(im, gs)
  BY <1>2, <1>3 DEF Placed
<1>. QED  BY <1>2, <1>4 DEF InStep, gs

\* The walk goes down into a directory it could open.
LEMMA DownLemma ==
    ASSUME NEW im \in ImageType, NEW fs, NEW seen, NEW path,
           InStep(im, "walking", fs, seen, path),
           Top(fs).i <= Len(im.names[Top(fs).dir]),
           NEW a \in Inodes, NEW b \in BOOLEAN,
           im.meta[a].type = "dir", a \notin im.unreadable
    PROVE  InStep(im, "walking", Append(fs, Frame(a, b)), Append(seen, a),
                  IF Len(seen) < MaxDepth THEN Append(path, a) ELSE path)
<1>. DEFINE f == Frame(a, b)
            gs == Append(fs, f)
            n == Len(fs)
<1>1. /\ fs \in Seq(FrameType) /\ fs # <<>> /\ n \in Nat /\ n > 0
      /\ seen = Way(fs) /\ path = Path(fs) /\ Placed(im, fs)
  BY DEF InStep
<1>2. f \in FrameType /\ f.dir = a /\ f.i = 1
  BY DEF Frame, FrameType
<1>. HIDE DEF f
<1>3. /\ gs \in Seq(FrameType) /\ gs # <<>> /\ Len(gs) = n + 1 /\ gs[n + 1] = f
      /\ \A k \in 1..n : gs[k] = fs[k]
  BY <1>1, <1>2
<1>4. /\ Way(gs) = Append(seen, a)
      /\ Path(gs) = IF Len(seen) < MaxDepth THEN Append(path, a) ELSE path
  BY <1>1, <1>2, PushLemma
<1>. HIDE DEF gs
<1>5. ASSUME NEW k \in 1..(n + 1)
      PROVE  /\ im.meta[gs[k].dir].type = "dir" /\ gs[k].dir \notin im.unreadable
             /\ gs[k].i \in 1..(Len(im.names[gs[k].dir]) + 1)
             /\ k < n + 1 => gs[k].i <= Len(im.names[gs[k].dir])
  <2>1. CASE k = n + 1
    <3>1. Len(im.names[a]) \in Nat
      BY DEF ImageType
    <3>. QED  BY <1>1, <1>2, <1>3, <2>1, <3>1
  <2>2. CASE k # n + 1
    <3>1. k \in 1..n
      BY <1>1, <2>2
    <3>2. /\ im.meta[fs[k].dir].type = "dir" /\ fs[k].dir \notin im.unreadable
          /\ fs[k].i \in 1..(Len(im.names[fs[k].dir]) + 1)
          /\ k < n => fs[k].i <= Len(im.names[fs[k].dir])
      BY <1>1, <3>1 DEF Placed
    <3>3. fs[n].i <= Len(im.names[fs[n].dir])
      BY DEF Top
    <3>4. k < n \/ k = n
      BY <1>1, <3>1
    <3>. QED  BY <1>3, <3>1, <3>2, <3>3, <3>4
  <2>. QED  BY <2>1, <2>2
<1>6. Placed(im, gs)
  BY <1>3, <1>5 DEF Placed
<1>. QED  BY <1>3, <1>4, <1>6 DEF InStep, gs, f

\* An inner call returns; the outer one goes on with its next entry.
LEMMA UpLemma ==
    ASSUME NEW im \in ImageType, NEW fs, NEW seen, NEW path,
           InStep(im, "walking", fs, seen, path), Len(fs) # 1
    PROVE  InStep(im, "walking", Advanced(PopOf(fs)), PopOf(seen),
                  SubSeq(path, 1, IF Len(path) < Len(seen) THEN Len(path) ELSE Len(path) - 1))
<1>. DEFINE gs == PopOf(fs)
            n == Len(fs)
            up == SubSeq(path, 1, IF Len(path) < Len(seen) THEN Len(path) ELSE Len(path) - 1)
<1>1. /\ fs \in Seq(FrameType) /\ fs # <<>> /\ n \in Nat /\ n > 1
      /\ seen = Way(fs) /\ path = Path(fs) /\ Placed(im, fs)
  <2>1. fs \in Seq(FrameType) /\ fs # <<>> /\ seen = Way(fs) /\ path = Path(fs) /\ Placed(im, fs)
    BY DEF InStep
  <2>2. n \in Nat /\ n # 0 /\ n # 1
    BY <2>1
  <2>3. n > 1 /\ n > 0
    <3>. HIDE DEF n
    <3>. QED  BY ONLY <2>2
  <2>. QED  BY <2>1, <2>2, <2>3
<1>2. /\ gs \in Seq(FrameType) /\ gs # <<>> /\ Len(gs) = n - 1
      /\ \A k \in 1..(n - 1) : gs[k] = fs[k]
      /\ Way(gs) = PopOf(seen) /\ Path(gs) = up
  BY <1>1, PopLemma
<1>. HIDE DEF gs, up
<1>3. ASSUME NEW k \in 1..(n - 1)
      PROVE  /\ im.meta[gs[k].dir].type = "dir" /\ gs[k].dir \notin im.unreadable
             /\ gs[k].i \in 1..(Len(im.names[gs[k].dir]) + 1)
             /\ gs[k].i <= Len(im.names[gs[k].dir])
  <2>1. k \in 1..n /\ k < n
    BY <1>1
  <2>. QED  BY <1>1, <1>2, <2>1 DEF Placed
<1>4. Placed(im, gs)
  BY <1>2, <1>3 DEF Placed
<1>5. Top(gs).i <= Len(im.names[Top(gs).dir])
  <2>1. Len(gs) \in 1..(n - 1)
    BY <1>1, <1>2
  <2>. QED  BY <1>3, <2>1 DEF Top
<1>6. InStep(im, "walking", gs, PopOf(seen), up)
  BY <1>2, <1>4 DEF InStep
<1>7. InStep(im, "walking", Advanced(gs), PopOf(seen), up)
  BY <1>5, <1>6, PassLemma
<1>. QED  BY <1>7 DEF gs, up

-------------------------------------------------------------------------------
(* The steps of the specification.                                         *)

\* A thread that moves leaves the others where they are.
LEMMA OthersLemma ==
    ASSUME IInv, NEW t \in Threads, UNCHANGED img, Functions',
           \A u \in Threads \ {t} : /\ pc'[u] = pc[u] /\ frames'[u] = frames[u]
                                   /\ stack_seen'[u] = stack_seen[u] /\ dirs'[u] = dirs[u],
           Collecting', InStep(img, pc'[t], frames'[t], stack_seen'[t], dirs'[t])
    PROVE  IInv'
<1>1. ASSUME NEW u \in Threads
      PROVE  InStep(img', pc'[u], frames'[u], stack_seen'[u], dirs'[u])
  <2>1. CASE u = t
    BY <2>1
  <2>2. CASE u # t
    BY <2>2 DEF IInv, AllInStep
  <2>. QED  BY <2>1, <2>2
<1>2. AllInStep'
  BY <1>1 DEF AllInStep
<1>. QED  BY <1>2 DEF IInv

LEMMA InitIInv == Init => IInv
<1>. SUFFICES ASSUME Init  PROVE IInv
  OBVIOUS
<1>1. Functions
  BY DEF Init, Functions
<1>2. Collecting
  BY DEF Init, Collecting
<1>3. AllInStep
  <2>1. ASSUME NEW t \in Threads
        PROVE  InStep(img, pc[t], frames[t], stack_seen[t], dirs[t])
    <3>1. InStep(img, "idle", <<>>, <<>>, <<>>)
      BY OutsideLemma
    <3>. QED  BY <3>1 DEF Init
  <2>. QED  BY <2>1 DEF AllInStep
<1>. QED  BY <1>1, <1>2, <1>3 DEF IInv, Init

\* What the invariant says of a thread.
LEMMA ThreadLemma ==
    ASSUME IInv, NEW t \in Threads
    PROVE  /\ img \in ImageType
           /\ InStep(img, pc[t], frames[t], stack_seen[t], dirs[t])
           /\ pc[t] # "walking" => frames[t] = <<>> /\ stack_seen[t] = <<>> /\ dirs[t] = <<>>
           /\ InStep(img, "walked", <<>>, <<>>, <<>>) /\ InStep(img, "idle", <<>>, <<>>, <<>>)
<1>1. img \in ImageType /\ InStep(img, pc[t], frames[t], stack_seen[t], dirs[t])
  BY ImagesAssumption DEF IInv, AllInStep
<1>2. /\ InStep(img, "walked", <<>>, <<>>, <<>>) /\ InStep(img, "idle", <<>>, <<>>, <<>>)
  BY OutsideLemma
<1>3. <<>> = Way(<<>>) /\ <<>> = Path(<<>>)
  BY <1>2 DEF InStep
<1>. QED  BY <1>1, <1>2, <1>3 DEF InStep

\* A walk's first call returns.
LEMMA ReturnsLemma ==
    ASSUME IInv, NEW t \in Threads, NEW r \in {"CONT", "STOP", "ERROR"},
           Returns(t, r), UNCHANGED <<img, list>>,
           save' \in [Threads -> BOOLEAN],
           collected' \in [Threads -> (SUBSET Inodes) \cup {Null}]
    PROVE  IInv'
<1>1. /\ pc'[t] = "walked" /\ frames'[t] = <<>> /\ stack_seen'[t] = <<>> /\ dirs'[t] = <<>>
      /\ \A u \in Threads \ {t} : /\ pc'[u] = pc[u] /\ frames'[u] = frames[u]
                                 /\ stack_seen'[u] = stack_seen[u] /\ dirs'[u] = dirs[u]
  BY DEF Returns, IInv, Functions
<1>2. Functions'
  BY DEF Returns, IInv, Functions
<1>3. Collecting'
  BY DEF Returns, IInv, Collecting
<1>4. InStep(img, pc'[t], frames'[t], stack_seen'[t], dirs'[t])
  BY <1>1, ThreadLemma
<1>. QED  BY <1>1, <1>2, <1>3, <1>4, OthersLemma

\* An inner call returns.
LEMMA BackLemma ==
    ASSUME IInv, NEW t \in Threads, pc[t] = "walking", Len(frames[t]) # 1,
           Back(t), UNCHANGED <<img, list>>,
           UNCHANGED collected
    PROVE  IInv'
<1>. DEFINE fs == Advanced(PopOf(frames[t]))
            seen == PopOf(stack_seen[t])
            path == SubSeq(dirs[t], 1, IF Len(dirs[t]) < Len(stack_seen[t])
                                       THEN Len(dirs[t]) ELSE Len(dirs[t]) - 1)
<1>1. InStep(img, "walking", fs, seen, path)
  BY ThreadLemma, UpLemma
<1>2. fs \in Seq(FrameType) /\ seen \in Seq(Inodes) /\ path \in Seq(Inodes)
  BY <1>1, WayLemma DEF InStep
<1>. HIDE DEF fs, seen, path
<1>3. /\ frames' = [frames EXCEPT ![t] = fs] /\ stack_seen' = [stack_seen EXCEPT ![t] = seen]
      /\ dirs' = [dirs EXCEPT ![t] = path] /\ UNCHANGED pc
  BY DEF Back, fs, seen, path
<1>4. Functions'
  BY <1>2, <1>3 DEF IInv, Functions
<1>5. /\ pc'[t] = "walking" /\ frames'[t] = fs /\ stack_seen'[t] = seen /\ dirs'[t] = path
      /\ \A u \in Threads \ {t} : /\ pc'[u] = pc[u] /\ frames'[u] = frames[u]
                                 /\ stack_seen'[u] = stack_seen[u] /\ dirs'[u] = dirs[u]
  BY <1>3 DEF IInv, Functions
<1>6. Collecting'
  <2>1. Here(t).bak \in BOOLEAN
    <3>1. frames[t] \in Seq(FrameType) /\ frames[t] # <<>>
      BY ThreadLemma DEF InStep
    <3>2. Top(frames[t]) \in FrameType
      BY <3>1 DEF Top
    <3>. QED  BY <3>2 DEF Here, FrameType
  <2>2. save' \in [Threads -> BOOLEAN]
    BY <2>1 DEF Back, IInv, Collecting
  <2>. QED  BY <2>2 DEF Back, IInv, Collecting
<1>. QED  BY <1>1, <1>4, <1>5, <1>6, OthersLemma

\* Where the thread is when it looks at an entry.
LEMMA EntryLemma ==
    ASSUME IInv, NEW t \in Threads, AtEntry(t)
    PROVE  /\ InStep(img, "walking", frames[t], stack_seen[t], dirs[t])
           /\ Top(frames[t]).i <= Len(img.names[Top(frames[t]).dir])
           /\ Entry(t).addr \in Inodes
<1>1. InStep(img, "walking", frames[t], stack_seen[t], dirs[t]) /\ img \in ImageType
  BY ThreadLemma DEF AtEntry
<1>2. Top(frames[t]).i <= Len(img.names[Top(frames[t]).dir])
  BY DEF AtEntry, Here
<1>3. /\ frames[t] \in Seq(FrameType) /\ Len(frames[t]) \in 1..Len(frames[t])
      /\ Placed(img, frames[t])
  <2>1. frames[t] \in Seq(FrameType) /\ frames[t] # <<>> /\ Placed(img, frames[t])
    BY <1>1 DEF InStep
  <2>. QED  BY <2>1
<1>4. /\ Top(frames[t]) \in FrameType
      /\ Top(frames[t]).i \in 1..(Len(img.names[Top(frames[t]).dir]) + 1)
  BY <1>3 DEF Top, Placed
<1>5. img.names[Top(frames[t]).dir] \in Seq(Names)
  BY <1>1, <1>4 DEF FrameType, ImageType
<1>6. Top(frames[t]).i \in 1..Len(img.names[Top(frames[t]).dir])
  BY <1>2, <1>4, <1>5
<1>7. Entry(t) \in Names
  BY <1>5, <1>6 DEF Entry, Here
<1>. QED  BY <1>1, <1>2, <1>7 DEF Names

\* What may have been collected.
LEMMA AddLemma ==
    ASSUME IInv, NEW t \in Threads, AtEntry(t), NEW c \in AfterAdd(t)
    PROVE  c.save \in BOOLEAN /\ c.list \in (SUBSET Inodes) \cup {Null}
<1>1. /\ Entry(t).addr \in Inodes /\ save[t] \in BOOLEAN
      /\ collected[t] \in (SUBSET Inodes) \cup {Null}
  BY EntryLemma DEF IInv, Collecting
<1>2. CASE save[t] /\ Deleted(Entry(t))
  <2>1. \/ c = [save |-> TRUE,
                list |-> (IF collected[t] = Null THEN {} ELSE collected[t]) \cup {Entry(t).addr}]
        \/ c = [save |-> FALSE, list |-> Null]
    BY <1>2 DEF AfterAdd
  <2>2. CASE c = [save |-> FALSE, list |-> Null]
    BY <2>2
  <2>3. CASE c = [save |-> TRUE,
                list |-> (IF collected[t] = Null THEN {} ELSE collected[t]) \cup {Entry(t).addr}]
    <3>1. (IF collected[t] = Null THEN {} ELSE collected[t]) \cup {Entry(t).addr} \in SUBSET Inodes
      BY <1>1
    <3>. QED  BY <2>3, <3>1
  <2>. QED  BY <2>1, <2>2, <2>3
<1>3. CASE ~(save[t] /\ Deleted(Entry(t)))
  <2>1. c = [save |-> save[t], list |-> collected[t]]
    BY <1>3 DEF AfterAdd
  <2>. QED  BY <1>1, <2>1
<1>. QED  BY <1>2, <1>3

\* A walk begins.
LEMMA BeginLemma ==
    ASSUME IInv, NEW t \in Threads, pc[t] = "idle", NEW a \in Inodes, NEW f, WalkFrom(t, a, f)
    PROVE  IInv'
<1>1. /\ pc[t] = "idle" /\ frames[t] = <<>> /\ stack_seen[t] = <<>> /\ dirs[t] = <<>>
      /\ img \in ImageType
  BY ThreadLemma
<1>2. save' \in [Threads -> BOOLEAN]
  BY DEF WalkFrom, IInv, Collecting
<1>3. UNCHANGED <<img, list, stack_seen, dirs, collected>>
  BY DEF WalkFrom
<1>4. CASE CanOpen(a)
  <2>1. InStep(img, "walking", <<Frame(a, FALSE)>>, <<>>, <<>>)
    BY <1>1, <1>4, StartLemma DEF CanOpen
  <2>2. <<Frame(a, FALSE)>> \in Seq(FrameType)
    BY <2>1 DEF InStep
  <2>3. /\ pc' = [pc EXCEPT ![t] = "walking"] /\ retval' = [retval EXCEPT ![t] = "CONT"]
        /\ frames' = [frames EXCEPT ![t] = <<Frame(a, FALSE)>>]
    BY <1>4 DEF WalkFrom
  <2>4. Functions'
    BY <1>3, <2>2, <2>3 DEF IInv, Functions
  <2>5. Collecting'
    BY <1>2, <1>3, <2>3 DEF IInv, Collecting
  <2>6. /\ pc'[t] = "walking" /\ frames'[t] = <<Frame(a, FALSE)>>
        /\ stack_seen'[t] = <<>> /\ dirs'[t] = <<>>
        /\ \A u \in Threads \ {t} : /\ pc'[u] = pc[u] /\ frames'[u] = frames[u]
                                   /\ stack_seen'[u] = stack_seen[u] /\ dirs'[u] = dirs[u]
    BY <1>1, <1>3, <2>3 DEF IInv, Functions
  <2>. QED  BY <1>3, <2>1, <2>4, <2>5, <2>6, OthersLemma
<1>5. CASE ~CanOpen(a)
  <2>1. /\ pc' = [pc EXCEPT ![t] = "walked"] /\ retval' = [retval EXCEPT ![t] = "ERROR"]
        /\ UNCHANGED frames
    BY <1>5 DEF WalkFrom
  <2>2. Functions'
    BY <1>3, <2>1 DEF IInv, Functions
  <2>3. Collecting'
    BY <1>2, <1>3, <2>1 DEF IInv, Collecting
  <2>4. /\ pc'[t] = "walked" /\ frames'[t] = <<>> /\ stack_seen'[t] = <<>> /\ dirs'[t] = <<>>
        /\ \A u \in Threads \ {t} : /\ pc'[u] = pc[u] /\ frames'[u] = frames[u]
                                   /\ stack_seen'[u] = stack_seen[u] /\ dirs'[u] = dirs[u]
    BY <1>1, <1>3, <2>1 DEF IInv, Functions
  <2>. QED  BY <1>3, <2>2, <2>3, <2>4, ThreadLemma, OthersLemma
<1>. QED  BY <1>4, <1>5

\* A walk goes on, or is over.
LEMMA WalkingLemma ==
    ASSUME IInv, NEW t \in Threads, Walking(t)
    PROVE  IInv'
<1>1. CASE VisitStop(t)
  <2>1. save' \in [Threads -> BOOLEAN] /\ collected' \in [Threads -> (SUBSET Inodes) \cup {Null}]
    BY <1>1 DEF VisitStop, IInv, Collecting
  <2>2. Returns(t, "STOP") /\ UNCHANGED <<img, list>>
    BY <1>1 DEF VisitStop
  <2>. QED  BY <2>1, <2>2, ReturnsLemma
<1>2. CASE VisitError(t)
  <2>1. pc[t] = "walking" /\ UNCHANGED <<img, list, collected>>
    BY <1>2 DEF VisitError, AtEntry
  <2>2. CASE Len(frames[t]) = 1
    <3>1. Returns(t, "ERROR") /\ UNCHANGED save
      BY <1>2, <2>2 DEF VisitError
    <3>. QED  BY <2>1, <3>1, ReturnsLemma DEF IInv, Collecting
  <2>3. CASE Len(frames[t]) # 1
    BY <1>2, <2>1, <2>3, BackLemma DEF VisitError
  <2>. QED  BY <2>2, <2>3
<1>3. CASE PassBy(t)
  <2>1. AtEntry(t) /\ pc[t] = "walking"
    BY <1>3 DEF PassBy, Goes, AtEntry
  <2>2. PICK c \in AfterAdd(t) : /\ collected' = [collected EXCEPT ![t] = c.list]
                               /\ save' = [save EXCEPT ![t] = c.save]
    BY <1>3 DEF PassBy
  <2>3. c.save \in BOOLEAN /\ c.list \in (SUBSET Inodes) \cup {Null}
    BY <2>1, AddLemma
  <2>4. /\ frames' = [frames EXCEPT ![t] = Advanced(@)]
        /\ UNCHANGED <<img, list, pc, stack_seen, dirs, retval>>
    BY <1>3 DEF PassBy
  <2>5. InStep(img, "walking", Advanced(frames[t]), stack_seen[t], dirs[t])
    BY <2>1, EntryLemma, ThreadLemma, PassLemma
  <2>6. Advanced(frames[t]) \in Seq(FrameType)
    BY <2>5 DEF InStep
  <2>7. Functions'
    BY <2>4, <2>6 DEF IInv, Functions
  <2>8. Collecting'
    BY <2>2, <2>3, <2>4 DEF IInv, Collecting
  <2>9. /\ pc'[t] = "walking" /\ frames'[t] = Advanced(frames[t])
        /\ stack_seen'[t] = stack_seen[t] /\ dirs'[t] = dirs[t]
        /\ \A u \in Threads \ {t} : /\ pc'[u] = pc[u] /\ frames'[u] = frames[u]
                                   /\ stack_seen'[u] = stack_seen[u] /\ dirs'[u] = dirs[u]
    BY <2>1, <2>4 DEF IInv, Functions
  <2>. QED  BY <2>4, <2>5, <2>7, <2>8, <2>9, OthersLemma
<1>4. CASE Descend(t)
  <2>. DEFINE a == Entry(t).addr
              seen == Append(stack_seen[t], a)
              path == IF Len(stack_seen[t]) < MaxDepth THEN Append(dirs[t], a) ELSE dirs[t]
  <2>1. AtEntry(t) /\ pc[t] = "walking" /\ CanOpen(a)
    BY <1>4 DEF Descend, Goes, AtEntry
  <2>2. a \in Inodes
    BY <2>1, EntryLemma
  <2>3. PICK c \in AfterAdd(t) :
          /\ collected' = [collected EXCEPT ![t] = c.list]
          /\ save' = [save EXCEPT ![t] = c.save /\ a # Orphan]
          /\ frames' = [frames EXCEPT ![t] = Append(@, Frame(a, c.save))]
    BY <1>4 DEF Descend
  <2>. DEFINE fs == Append(frames[t], Frame(a, c.save))
  <2>4. c.save \in BOOLEAN /\ c.list \in (SUBSET Inodes) \cup {Null}
    BY <2>1, AddLemma
  <2>5. InStep(img, "walking", fs, seen, path)
    BY <2>1, <2>2, <2>4, EntryLemma, ThreadLemma, DownLemma DEF CanOpen
  <2>6. fs \in Seq(FrameType) /\ seen \in Seq(Inodes) /\ path \in Seq(Inodes)
    BY <2>5, WayLemma DEF InStep
  <2>7. /\ frames' = [frames EXCEPT ![t] = fs] /\ stack_seen' = [stack_seen EXCEPT ![t] = seen]
        /\ dirs' = [dirs EXCEPT ![t] = path] /\ UNCHANGED <<img, list, pc, retval>>
    BY <1>4, <2>3 DEF Descend
  <2>. HIDE DEF fs, seen, path
  <2>8. Functions'
    BY <2>6, <2>7 DEF IInv, Functions
  <2>9. Collecting'
    <3>. HIDE DEF a
    <3>. QED  BY <2>3, <2>4, <2>7 DEF IInv, Collecting
  <2>10. /\ pc'[t] = "walking" /\ frames'[t] = fs /\ stack_seen'[t] = seen /\ dirs'[t] = path
         /\ \A u \in Threads \ {t} : /\ pc'[u] = pc[u] /\ frames'[u] = frames[u]
                                    /\ stack_seen'[u] = stack_seen[u] /\ dirs'[u] = dirs[u]
    BY <2>1, <2>7 DEF IInv, Functions
  <2>. QED  BY <2>5, <2>7, <2>8, <2>9, <2>10, OthersLemma
<1>5. CASE Leave(t)
  <2>1. pc[t] = "walking" /\ UNCHANGED <<img, list, collected>>
    BY <1>5 DEF Leave, AtEnd
  <2>2. CASE Len(frames[t]) = 1
    <3>1. Returns(t, "CONT") /\ UNCHANGED save
      BY <1>5, <2>2 DEF Leave
    <3>. QED  BY <2>1, <3>1, ReturnsLemma DEF IInv, Collecting
  <2>3. CASE Len(frames[t]) # 1
    BY <1>5, <2>1, <2>3, BackLemma DEF Leave
  <2>. QED  BY <2>2, <2>3
<1>6. CASE Finish(t)
  <2>1. /\ pc[t] = "walked" /\ pc' = [pc EXCEPT ![t] = "idle"]
        /\ collected' = [collected EXCEPT ![t] = Null]
        /\ UNCHANGED <<img, frames, stack_seen, dirs, save, retval>>
        /\ list' = list \/ list' = collected[t]
    BY <1>6 DEF Finish
  <2>2. Functions'
    BY <2>1 DEF IInv, Functions
  <2>3. Collecting'
    BY <2>1 DEF IInv, Collecting
  <2>4. /\ pc'[t] = "idle" /\ frames'[t] = <<>> /\ stack_seen'[t] = <<>> /\ dirs'[t] = <<>>
        /\ \A u \in Threads \ {t} : /\ pc'[u] = pc[u] /\ frames'[u] = frames[u]
                                   /\ stack_seen'[u] = stack_seen[u] /\ dirs'[u] = dirs[u]
    BY <2>1, ThreadLemma DEF IInv, Functions
  <2>. QED  BY <2>1, <2>2, <2>3, <2>4, ThreadLemma, OthersLemma
<1>. QED  BY <1>1, <1>2, <1>3, <1>4, <1>5, <1>6 DEF Walking

LEMMA NextIInv == IInv /\ [Next]_vars => IInv'
<1>. SUFFICES ASSUME IInv, [Next]_vars  PROVE IInv'
  OBVIOUS
<1>1. ASSUME NEW t \in Threads, Begin(t)  PROVE IInv'
  BY <1>1, BeginLemma, WalksAssumption DEF Begin
<1>2. CASE UNCHANGED vars
  BY <1>2 DEF vars, local, IInv, Functions, Collecting, AllInStep
<1>. QED  BY <1>1, <1>2, WalkingLemma DEF Next

-------------------------------------------------------------------------------
(* The theorems.                                                           *)

\* The invariant holds of every walk.
THEOREM Invariance == Spec => []IInv
<1>. QED  BY InitIInv, NextIInv, PTL DEF Spec

LEMMA TypesLemma == IInv => TypeOK
<1>. SUFFICES ASSUME IInv  PROVE TypeOK
  OBVIOUS
<1>1. ASSUME NEW t \in Threads
      PROVE  /\ pc[t] \in {"idle", "walking", "walked"}
             /\ pc[t] = "walking" <=> frames[t] # <<>>
             /\ \A k \in DOMAIN frames[t] :
                 /\ frames[t][k].dir \in Inodes /\ CanOpen(frames[t][k].dir)
                 /\ frames[t][k].i \in 1..(Len(img.names[frames[t][k].dir]) + 1)
             /\ collected[t] = Null \/ collected[t] \in SUBSET Inodes
             /\ retval[t] \in {"CONT", "STOP", "ERROR"}
  <2>1. InStep(img, pc[t], frames[t], stack_seen[t], dirs[t])
    BY ThreadLemma
  <2>2. ASSUME NEW k \in DOMAIN frames[t]
        PROVE  /\ frames[t][k].dir \in Inodes /\ CanOpen(frames[t][k].dir)
               /\ frames[t][k].i \in 1..(Len(img.names[frames[t][k].dir]) + 1)
    <3>1. k \in 1..Len(frames[t]) /\ frames[t][k] \in FrameType
      BY <2>1 DEF InStep
    <3>. QED  BY <2>1, <3>1 DEF InStep, Placed, CanOpen, FrameType
  <2>3. /\ collected[t] = Null \/ collected[t] \in SUBSET Inodes
        /\ retval[t] \in {"CONT", "STOP", "ERROR"}
    BY DEF IInv, Collecting
  <2>. QED  BY <2>1, <2>2, <2>3 DEF InStep
<1>2. list = Null \/ list \in SUBSET Inodes
  BY DEF IInv, Collecting
<1>. QED  BY <1>1, <1>2 DEF TypeOK

\* Type correctness, with the place of every call in a directory that was
\* opened.
THEOREM TypeCorrectness == Spec => []TypeOK
BY TypesLemma, Invariance, PTL

\* The path a callback is given is the way down from the start, cut at the
\* depth the array has room for, however the calls below came and went.
THEOREM PathOfTheWalk == Spec => []PathIsTheWayDown
<1>1. IInv => PathIsTheWayDown
  BY ThreadLemma DEF PathIsTheWayDown, InStep, Path
<1>. QED  BY <1>1, Invariance, PTL

\* The list of the file system is set once, by the first walk that went
\* through.
THEOREM OneList == Spec => ListIsSetOnce
<1>1. [Next]_vars => [list # Null => UNCHANGED <<list, sets>>]_vars
  BY DEF Next, Walking, Begin, WalkFrom, VisitStop, VisitError, PassBy, Descend, Leave, Finish,
         vars, local
<1>. QED  BY <1>1, PTL DEF Spec, ListIsSetOnce

-------------------------------------------------------------------------------
(* The recursion has an end.                                               *)

Distinct(s) == \A j, k \in 1..Len(s) : s[j] = s[k] => j = k

\* No directory is twice on the stack of addresses the walk has gone through,
\* so the calls on the stack are at most as many as the file system has
\* directories, and the start.
NoneTwice == \A t \in Threads : Distinct(stack_seen[t])

\* However the directories contain each other, themselves or the start, the
\* walk never goes round: the depth of its recursion is bounded.
THEOREM NeverRound == Spec => []NoneTwice
<1>1. Init => NoneTwice
  BY DEF Init, NoneTwice, Distinct
<1>2. IInv /\ NoneTwice /\ [Next]_vars => NoneTwice'
  <2>. SUFFICES ASSUME IInv, NoneTwice, [Next]_vars, NEW u \in Threads
                PROVE  Distinct(stack_seen'[u])
    BY DEF NoneTwice, Distinct
  <2>1. stack_seen[u] \in Seq(Inodes) /\ Distinct(stack_seen[u]) /\ Distinct(<<>>)
    BY DEF IInv, Functions, NoneTwice, Distinct
  <2>2. Distinct(PopOf(stack_seen[u])) \/ stack_seen[u] = <<>>
    <3>1. SUFFICES ASSUME stack_seen[u] # <<>>  PROVE Distinct(PopOf(stack_seen[u]))
      OBVIOUS
    <3>. DEFINE n == Len(stack_seen[u]) - 1
    <3>2. n \in Nat
      BY <2>1, <3>1
    <3>3. /\ Len(PopOf(stack_seen[u])) = n
          /\ \A k \in 1..n : PopOf(stack_seen[u])[k] = stack_seen[u][k]
      <4>1. \A k \in 1..n : stack_seen[u][k] \in Inodes
        BY <2>1, <3>2
      <4>. QED  BY <3>2, <4>1, SubSeqProperties DEF PopOf
    <3>. QED  BY <2>1, <3>2, <3>3 DEF Distinct
  <2>3. ASSUME NEW t \in Threads, \/ VisitStop(t)
                                  \/ VisitError(t) /\ Len(frames[t]) = 1
                                  \/ Leave(t) /\ Len(frames[t]) = 1
        PROVE  Distinct(stack_seen'[u])
    <3>1. stack_seen' = [stack_seen EXCEPT ![t] = <<>>]
      BY <2>3 DEF VisitStop, VisitError, Leave, Returns
    <3>. QED  BY <2>1, <3>1 DEF IInv, Functions
  <2>4. ASSUME NEW t \in Threads, (VisitError(t) \/ Leave(t)) /\ Len(frames[t]) # 1
        PROVE  Distinct(stack_seen'[u])
    <3>1. stack_seen' = [stack_seen EXCEPT ![t] = PopOf(@)] /\ pc[t] = "walking"
      BY <2>4 DEF VisitError, Leave, Back, AtEntry, AtEnd
    <3>2. stack_seen[t] # <<>>
      <4>1. /\ frames[t] \in Seq(FrameType) /\ frames[t] # <<>>
            /\ stack_seen[t] = Way(frames[t])
        BY <3>1, ThreadLemma DEF InStep
      <4>2. Len(stack_seen[t]) = Len(frames[t]) - 1
        BY <4>1, WayLemma
      <4>3. Len(frames[t]) \in Nat /\ Len(frames[t]) # 0 /\ Len(frames[t]) # 1
        BY <2>4, <4>1
      <4>4. Len(frames[t]) - 1 # 0
        BY ONLY <4>3
      <4>. QED  BY <4>2, <4>4
    <3>. QED  BY <2>1, <2>2, <3>1, <3>2 DEF IInv, Functions
  <2>5. ASSUME NEW t \in Threads, Descend(t)  PROVE Distinct(stack_seen'[u])
    <3>. DEFINE a == Entry(t).addr
    <3>1. /\ stack_seen' = [stack_seen EXCEPT ![t] = Append(@, a)]
          /\ \A k \in DOMAIN stack_seen[t] : stack_seen[t][k] # a
          /\ a \in Inodes
      BY <2>5, EntryLemma DEF Descend, Goes, Enters
    <3>. HIDE DEF a
    <3>2. CASE u = t
      <4>. DEFINE s == stack_seen[u]
      <4>1. stack_seen'[u] = Append(s, a)
        BY <3>1, <3>2 DEF IInv, Functions
      <4>2. /\ Len(Append(s, a)) = Len(s) + 1 /\ Len(s) \in Nat
            /\ \A k \in 1..Len(s) : Append(s, a)[k] = s[k] /\ s[k] # a
            /\ Append(s, a)[Len(s) + 1] = a
        BY <2>1, <3>1, <3>2
      <4>3. Distinct(Append(s, a))
        BY <2>1, <4>2 DEF Distinct
      <4>. QED  BY <4>1, <4>3
    <3>3. CASE u # t
      BY <2>1, <3>1, <3>3 DEF IInv, Functions
    <3>. QED  BY <3>2, <3>3
  <2>6. ASSUME NEW t \in Threads, Begin(t) \/ PassBy(t) \/ Finish(t)
        PROVE  Distinct(stack_seen'[u])
    BY <2>1, <2>6 DEF Begin, WalkFrom, PassBy, Finish
  <2>7. CASE UNCHANGED vars
    BY <2>1, <2>7 DEF vars, local
  <2>. QED  BY <2>3, <2>4, <2>5, <2>6, <2>7 DEF Next, Walking
<1>. QED  BY <1>1, <1>2, Invariance, PTL DEF Spec

-------------------------------------------------------------------------------
(***************************************************************************)
(* What a walk comes past: it shows its callback every name it should, and *)
(* the list it collects on the way is the list of the deleted inodes with  *)
(* a name.                                                                 *)
(*                                                                         *)
(* The walk marks no directory as done, it only keeps off those on its     *)
(* stack, and may go through one many times.  The invariant says that      *)
(* there is a set of directories, those the walk has come to, in which     *)
(* every entry is either done with, or still to come in a call on the      *)
(* stack.  With no call left the set is closed under what leads down, and  *)
(* no directory is in it that is not below the start.                      *)
(***************************************************************************)

-------------------------------------------------------------------------------
(* What leads where, in a file system im.                                  *)

\* Entry i of directory d leads a walk with flags f on.
Leads(im, d, i, f) ==
    LET e == im.names[d][i] IN
    /\ e.type \in {"dir", "undef"}
    /\ e.addr \notin im.unloadable
    /\ im.meta[e.addr].type = "dir" /\ e.addr \notin im.unreadable
    /\ f.recurse
    /\ e.alloc \/ ~im.meta[e.addr].alloc
    /\ ~e.dot
    /\ e.addr # Orphan \/ ~f.noorphan

ClosedIn(im, S, f) ==
    \A d \in S : \A i \in DOMAIN im.names[d] : Leads(im, d, i, f) => im.names[d][i].addr \in S

ThroughIn(im, a, f) ==
    {d \in Inodes : \A S \in SUBSET Inodes : a \in S /\ ClosedIn(im, S, f) => d \in S}

LEMMA LeadsLemma ==
    ASSUME NEW d, NEW i, NEW f
    PROVE  Leads(img, d, i, f) <=> Recurses(img.names[d][i], f) /\ CanOpen(img.names[d][i].addr)
BY DEF Leads, Recurses, CanOpen, Deleted, HasMeta

LEMMA ThroughLemma ==
    ASSUME NEW a, NEW f
    PROVE  Through(a, f) = ThroughIn(img, a, f)
<1>1. ASSUME NEW S
      PROVE  ClosedIn(img, S, f) <=>
                \A d \in S : \A i \in DOMAIN img.names[d] :
                    Recurses(img.names[d][i], f) /\ CanOpen(img.names[d][i].addr)
                        => img.names[d][i].addr \in S
  BY LeadsLemma DEF ClosedIn
<1>. QED  BY <1>1 DEF Through, ThroughIn

\* What a walk is to go through is the least closed set: the start is in it,
\* where an entry in it leads is in it, and it is in every closed set.
LEMMA ReachLemma ==
    ASSUME NEW im \in ImageType, NEW a \in Inodes, NEW f
    PROVE  /\ a \in ThroughIn(im, a, f) /\ ThroughIn(im, a, f) \subseteq Inodes
           /\ ClosedIn(im, ThroughIn(im, a, f), f)
           /\ \A S \in SUBSET Inodes : a \in S /\ ClosedIn(im, S, f) => ThroughIn(im, a, f) \subseteq S
<1>1. ASSUME NEW d \in ThroughIn(im, a, f), NEW i \in DOMAIN im.names[d], Leads(im, d, i, f)
      PROVE  im.names[d][i].addr \in ThroughIn(im, a, f)
  <2>1. d \in Inodes
    BY DEF ThroughIn
  <2>2. im.names[d] \in Seq(Names)
    BY <2>1 DEF ImageType
  <2>3. im.names[d][i] \in Names
    BY <2>2
  <2>4. im.names[d][i].addr \in Inodes
    BY <2>3 DEF Names
  <2>5. ASSUME NEW S \in SUBSET Inodes, a \in S, ClosedIn(im, S, f)
        PROVE  im.names[d][i].addr \in S
    <3>1. d \in S
      BY <2>5 DEF ThroughIn
    <3>. QED  BY <1>1, <2>5, <3>1 DEF ClosedIn
  <2>. QED  BY <2>4, <2>5 DEF ThroughIn
<1>2. ClosedIn(im, ThroughIn(im, a, f), f)
  BY <1>1 DEF ClosedIn
<1>. QED  BY <1>2 DEF ThroughIn

-------------------------------------------------------------------------------
(* A set of directories the walk has come to.                              *)

\* Of the first m calls of fs, none has an entry of a directory of V behind it
\* that is not in Done, or leads out of V.
Pending(fs, m, d, i) == \E k \in 1..m : fs[k].dir = d /\ fs[k].i <= i

DoneWith(im, V, f, d, i, Done) ==
    <<d, i>> \in Done /\ (Leads(im, d, i, f) => im.names[d][i].addr \in V)

Covers(im, V, f, fs, m, Done) ==
    /\ \A k \in 1..m : fs[k].dir \in V
    /\ \A d \in V : \A i \in DOMAIN im.names[d] :
            DoneWith(im, V, f, d, i, Done) \/ Pending(fs, m, d, i)
    /\ \A k \in 1..m : k < Len(fs) => DoneWith(im, V, f, fs[k].dir, fs[k].i, Done)

\* The walk starts.
LEMMA CoverStart ==
    ASSUME NEW im \in ImageType, NEW a \in Inodes, NEW f, NEW Done
    PROVE  Covers(im, {a}, f, <<Frame(a, FALSE)>>, 1, Done)
<1>. DEFINE fs == <<Frame(a, FALSE)>>
<1>1. Len(fs) = 1 /\ fs[1].dir = a /\ fs[1].i = 1
  BY DEF Frame
<1>. HIDE DEF fs
<1>2. ASSUME NEW i \in DOMAIN im.names[a]  PROVE Pending(fs, 1, a, i)
  <2>1. im.names[a] \in Seq(Names)
    BY DEF ImageType
  <2>2. i \in Nat /\ 1 <= i
    BY <2>1
  <2>. QED  BY <1>1, <2>2 DEF Pending
<1>3. \A k \in 1..1 : k = 1
  OBVIOUS
<1>4. \A k \in 1..1 : ~(k < Len(fs))
  BY <1>1, <1>3
<1>5. \A k \in 1..1 : fs[k].dir \in {a}
  BY <1>1, <1>3
<1>6. Covers(im, {a}, f, fs, 1, Done)
  BY <1>2, <1>4, <1>5 DEF Covers
<1>. QED  BY <1>6 DEF fs

\* More entries are done with.
LEMMA CoverMore ==
    ASSUME NEW im, NEW V, NEW f, NEW fs, NEW m, NEW Done, NEW More,
           Done \subseteq More, Covers(im, V, f, fs, m, Done)
    PROVE  Covers(im, V, f, fs, m, More)
BY DEF Covers, DoneWith

\* The innermost of the calls is done with its entry.
LEMMA CoverPass ==
    ASSUME NEW im \in ImageType, NEW V, NEW f, NEW fs \in Seq(FrameType), fs # <<>>, NEW Done,
           Covers(im, V, f, fs, Len(fs), Done),
           DoneWith(im, V, f, Top(fs).dir, Top(fs).i, Done),
           V \subseteq Inodes
    PROVE  Covers(im, V, f, Advanced(fs), Len(fs), Done)
<1>. DEFINE n == Len(fs)
            gs == Advanced(fs)
<1>1. n \in Nat /\ n # 0 /\ n \in 1..n /\ Top(fs) = fs[n] /\ fs[n].i \in Nat
  <2>1. n \in Nat /\ n # 0 /\ n \in 1..n
    OBVIOUS
  <2>2. fs[n] \in FrameType
    BY <2>1
  <2>. QED  BY <2>1, <2>2 DEF Top, FrameType
<1>2. /\ Len(gs) = n /\ \A k \in 1..(n - 1) : gs[k] = fs[k]
      /\ gs[n].dir = fs[n].dir /\ gs[n].i = fs[n].i + 1
  BY AdvancedLemma
<1>. HIDE DEF n, gs
<1>3. \A k \in 1..n : k \in 1..(n - 1) \/ k = n
  BY <1>1
<1>4. \A k \in 1..n : gs[k].dir = fs[k].dir
  BY <1>2, <1>3
<1>5. /\ \A k \in 1..n : fs[k].dir \in V
      /\ \A d \in V : \A i \in DOMAIN im.names[d] :
            DoneWith(im, V, f, d, i, Done) \/ Pending(fs, n, d, i)
      /\ \A k \in 1..n : k < n => DoneWith(im, V, f, fs[k].dir, fs[k].i, Done)
  BY DEF Covers, n
<1>6. ASSUME NEW d \in V, NEW i \in DOMAIN im.names[d], ~DoneWith(im, V, f, d, i, Done)
      PROVE  Pending(gs, n, d, i)
  <2>1. PICK k \in 1..n : fs[k].dir = d /\ fs[k].i <= i
    BY <1>5, <1>6 DEF Pending
  <2>2. i \in Nat
    <3>1. im.names[d] \in Seq(Names)
      BY DEF ImageType
    <3>. QED  BY <3>1
  <2>3. CASE k = n
    <3>1. fs[n].i # i
      BY <1>1, <1>6, <2>1, <2>3
    <3>2. fs[n].i + 1 <= i
      BY <1>1, <2>1, <2>2, <2>3, <3>1
    <3>. QED  BY <1>1, <1>2, <2>1, <2>3, <3>2 DEF Pending
  <2>4. CASE k # n
    BY <1>2, <1>3, <2>1, <2>4 DEF Pending
  <2>. QED  BY <2>3, <2>4
<1>7. \A k \in 1..n : k < n => DoneWith(im, V, f, gs[k].dir, gs[k].i, Done)
  <2>1. \A k \in 1..n : k < n => gs[k] = fs[k]
    BY <1>1, <1>2, <1>3
  <2>. QED  BY <1>5, <2>1
<1>. QED  BY <1>2, <1>4, <1>5, <1>6, <1>7 DEF Covers, n, gs

\* The innermost call goes down from its entry into directory a, of which all
\* is still to come.
LEMMA CoverDown ==
    ASSUME NEW im \in ImageType, NEW V, NEW f, NEW fs \in Seq(FrameType), fs # <<>>, NEW Done,
           NEW a \in Inodes, NEW bak \in BOOLEAN,
           Covers(im, V, f, fs, Len(fs), Done),
           <<Top(fs).dir, Top(fs).i>> \in Done,
           im.names[Top(fs).dir][Top(fs).i].addr = a
    PROVE  Covers(im, V \cup {a}, f, Append(fs, Frame(a, bak)), Len(fs) + 1, Done)
<1>. DEFINE n == Len(fs)
            x == Frame(a, bak)
            gs == Append(fs, x)
            W == V \cup {a}
<1>1. n \in Nat /\ n # 0 /\ n \in 1..n /\ Top(fs) = fs[n]
  BY DEF Top
<1>2. x \in FrameType /\ x.dir = a /\ x.i = 1
  BY DEF Frame, FrameType
<1>. HIDE DEF x
<1>3. Len(gs) = n + 1 /\ gs[n + 1] = x /\ \A k \in 1..n : gs[k] = fs[k]
  BY <1>2
<1>. HIDE DEF n, gs
<1>4. \A k \in 1..(n + 1) : k \in 1..n \/ k = n + 1
  BY <1>1
<1>5. n + 1 \in 1..(n + 1) /\ \A k \in 1..n : k \in 1..(n + 1) /\ k < n + 1
  BY <1>1
<1>6. /\ \A k \in 1..n : fs[k].dir \in V
      /\ \A d \in V : \A i \in DOMAIN im.names[d] :
            DoneWith(im, V, f, d, i, Done) \/ Pending(fs, n, d, i)
      /\ \A k \in 1..n : k < n => DoneWith(im, V, f, fs[k].dir, fs[k].i, Done)
  BY DEF Covers, n
<1>7. \A d, i : DoneWith(im, V, f, d, i, Done) => DoneWith(im, W, f, d, i, Done)
  BY DEF DoneWith
<1>8. ASSUME NEW d \in W, NEW i \in DOMAIN im.names[d]
      PROVE  DoneWith(im, W, f, d, i, Done) \/ Pending(gs, n + 1, d, i)
  <2>1. CASE d \in V
    <3>1. Pending(fs, n, d, i) => Pending(gs, n + 1, d, i)
      BY <1>3, <1>5 DEF Pending
    <3>. QED  BY <1>6, <1>7, <2>1, <3>1
  <2>2. CASE d = a
    <3>1. im.names[a] \in Seq(Names)
      BY DEF ImageType
    <3>2. 1 <= i
      BY <2>2, <3>1
    <3>. QED  BY <1>2, <1>3, <1>5, <2>2, <3>2 DEF Pending
  <2>. QED  BY <2>1, <2>2
<1>9. \A k \in 1..(n + 1) : gs[k].dir \in W
  BY <1>2, <1>3, <1>4, <1>6
<1>10. ASSUME NEW k \in 1..(n + 1), k < n + 1
       PROVE  DoneWith(im, W, f, gs[k].dir, gs[k].i, Done)
  <2>1. k \in 1..n /\ gs[k] = fs[k]
    BY <1>1, <1>3, <1>10
  <2>2. CASE k < n
    BY <1>6, <1>7, <2>1, <2>2
  <2>3. CASE k = n
    BY <1>1, <2>1, <2>3 DEF DoneWith
  <2>. QED  BY <1>1, <2>1, <2>2, <2>3
<1>. HIDE DEF W
<1>11. Covers(im, W, f, gs, n + 1, Done)
  BY <1>3, <1>8, <1>9, <1>10 DEF Covers
<1>. QED  BY <1>11 DEF n, gs, W, x

\* The innermost call has come to the end of its directory; the one that made
\* it goes on with its next entry.
LEMMA CoverUp ==
    ASSUME NEW im \in ImageType, NEW V, NEW f, NEW fs \in Seq(FrameType), Len(fs) > 1, NEW Done,
           V \subseteq Inodes,
           Covers(im, V, f, fs, Len(fs), Done), Top(fs).i > Len(im.names[Top(fs).dir])
    PROVE  Covers(im, V, f, Advanced(PopOf(fs)), Len(fs) - 1, Done)
<1>. DEFINE n == Len(fs)
            gs == PopOf(fs)
<1>1. n \in Nat /\ n > 1 /\ n - 1 \in Nat /\ n - 1 # 0 /\ n \in 1..n /\ n - 1 \in 1..n /\ Top(fs) = fs[n]
  BY DEF Top
<1>2. /\ gs \in Seq(FrameType) /\ gs # <<>> /\ Len(gs) = n - 1
      /\ \A k \in 1..(n - 1) : gs[k] = fs[k]
  BY <1>1, PopLemma
<1>. HIDE DEF n, gs
<1>3. \A k \in 1..n : k \in 1..(n - 1) \/ k = n
  BY <1>1
<1>4. \A k \in 1..(n - 1) : k \in 1..n /\ k < n
  BY <1>1
<1>5. /\ \A k \in 1..n : fs[k].dir \in V
      /\ \A d \in V : \A i \in DOMAIN im.names[d] :
            DoneWith(im, V, f, d, i, Done) \/ Pending(fs, n, d, i)
      /\ \A k \in 1..n : k < n => DoneWith(im, V, f, fs[k].dir, fs[k].i, Done)
  BY DEF Covers, n
<1>6. ASSUME NEW d \in V, NEW i \in DOMAIN im.names[d], ~DoneWith(im, V, f, d, i, Done)
      PROVE  Pending(gs, n - 1, d, i)
  <2>1. PICK k \in 1..n : fs[k].dir = d /\ fs[k].i <= i
    BY <1>5, <1>6 DEF Pending
  <2>2. k # n
    <3>. SUFFICES ASSUME k = n  PROVE FALSE
      OBVIOUS
    <3>1. im.names[d] \in Seq(Names)
      BY DEF ImageType
    <3>2. i \in Nat /\ i <= Len(im.names[d]) /\ Len(im.names[d]) \in Nat
      BY <3>1
    <3>3. fs[n] \in FrameType
      BY <1>1 DEF n
    <3>4. fs[n].i \in Nat
      BY <3>3 DEF FrameType
    <3>5. fs[n].i > Len(im.names[d]) /\ fs[n].i <= i
      BY <1>1, <2>1
    <3>. QED  BY <3>2, <3>4, <3>5
  <2>. QED  BY <1>2, <1>3, <2>1, <2>2 DEF Pending
<1>7. Covers(im, V, f, gs, n - 1, Done)
  <2>1. \A k \in 1..(n - 1) : k < n - 1 => DoneWith(im, V, f, gs[k].dir, gs[k].i, Done)
    BY <1>2, <1>4, <1>5
  <2>2. \A k \in 1..(n - 1) : gs[k].dir \in V
    BY <1>2, <1>4, <1>5
  <2>. QED  BY <1>2, <1>6, <2>1, <2>2 DEF Covers
<1>8. DoneWith(im, V, f, Top(gs).dir, Top(gs).i, Done)
  BY <1>1, <1>2, <1>4, <1>5 DEF Top
<1>. QED  BY <1>2, <1>7, <1>8, CoverPass DEF n, gs

\* The calls that are counted are the same and none of them is the innermost.
LEMMA CoverKept ==
    ASSUME NEW im, NEW V, NEW f, NEW fs, NEW gs, NEW m \in Nat, NEW Done,
           Covers(im, V, f, fs, m, Done), \A k \in 1..m : gs[k] = fs[k], Len(fs) \in Nat, m < Len(fs)
    PROVE  Covers(im, V, f, gs, m, Done)
<1>1. \A k \in 1..m : k < Len(fs)
  OBVIOUS
<1>2. \A d, i : Pending(fs, m, d, i) => Pending(gs, m, d, i)
  BY DEF Pending
<1>. QED  BY <1>1, <1>2 DEF Covers

\* The first call returns: nothing is left, the set is closed.
LEMMA CoverEnd ==
    ASSUME NEW im \in ImageType, NEW V, NEW f, NEW fs \in Seq(FrameType), Len(fs) = 1, NEW Done,
           V \subseteq Inodes,
           Covers(im, V, f, fs, 1, Done), Top(fs).i > Len(im.names[Top(fs).dir])
    PROVE  Covers(im, V, f, <<>>, 0, Done)
<1>1. fs[1] \in FrameType /\ Top(fs) = fs[1]
  <2>1. 1 \in 1..Len(fs)
    OBVIOUS
  <2>2. fs[1] \in FrameType
    BY <2>1, ElementOfSeq
  <2>. QED  BY <2>2 DEF Top
<1>2. ASSUME NEW d \in V, NEW i \in DOMAIN im.names[d]
      PROVE  DoneWith(im, V, f, d, i, Done)
  <2>. SUFFICES ASSUME Pending(fs, 1, d, i)  PROVE FALSE
    BY DEF Covers
  <2>1. PICK k \in 1..1 : fs[k].dir = d /\ fs[k].i <= i
    BY DEF Pending
  <2>2. im.names[d] \in Seq(Names)
    BY DEF ImageType
  <2>3. i \in Nat /\ i <= Len(im.names[d]) /\ Len(im.names[d]) \in Nat
    BY <2>2
  <2>4. fs[1].i > Len(im.names[d]) /\ fs[1].i <= i
    BY <1>1, <2>1
  <2>5. fs[1].i \in Nat
    BY <1>1 DEF FrameType
  <2>. QED  BY <2>3, <2>4, <2>5
<1>. QED  BY <1>2 DEF Covers

\* With no call left all is done with, and the directories are those the walk
\* was to go through.
LEMMA CoverAll ==
    ASSUME NEW im \in ImageType, NEW V \in SUBSET Inodes, NEW f, NEW a \in V, NEW Done,
           Covers(im, V, f, <<>>, 0, Done), V \subseteq ThroughIn(im, a, f)
    PROVE  /\ V = ThroughIn(im, a, f)
           /\ \A d \in V : \A i \in DOMAIN im.names[d] : <<d, i>> \in Done
<1>1. \A d \in V : \A i \in DOMAIN im.names[d] : DoneWith(im, V, f, d, i, Done)
  BY DEF Covers, Pending
<1>2. ClosedIn(im, V, f)
  BY <1>1 DEF ClosedIn, DoneWith
<1>3. ThroughIn(im, a, f) \subseteq V
  BY <1>2, ReachLemma
<1>. QED  BY <1>1, <1>3 DEF DoneWith

-------------------------------------------------------------------------------
(* What a walk from a with flags f, with the calls fs, has shown.          *)

Shown(im, f, seen) ==
    {p \in Inodes \X Nat : Matches(im.names[p[1]][p[2]], f) => p \in seen}

\* The names of the kind asked for in the directories V.
NamesIn(im, V, f) ==
    {p \in UNION {{d} \X DOMAIN im.names[d] : d \in V} : Matches(im.names[p[1]][p[2]], f)}

Shows(im, a, f, fs, seen) ==
    \E V \in SUBSET Inodes :
        /\ a \in V /\ V \subseteq ThroughIn(im, a, f)
        /\ Covers(im, V, f, fs, Len(fs), Shown(im, f, seen))
        /\ seen \subseteq NamesIn(im, V, f)

LEMMA NamesInLemma ==
    ASSUME NEW im, NEW V, NEW f, NEW d, NEW i
    PROVE  <<d, i>> \in NamesIn(im, V, f)
              <=> d \in V /\ i \in DOMAIN im.names[d] /\ Matches(im.names[d][i], f)
BY DEF NamesIn

\* More directories, more names.
LEMMA NamesGrow ==
    ASSUME NEW im, NEW V, NEW W, NEW f, V \subseteq W
    PROVE  NamesIn(im, V, f) \subseteq NamesIn(im, W, f)
BY DEF NamesIn

\* What has been shown when entry i of directory d has been.
Noted(im, f, seen, d, i) == IF Matches(im.names[d][i], f) THEN seen \cup {<<d, i>>} ELSE seen

\* An entry has been noted, if it is of the kind asked for.
LEMMA NoteLemma ==
    ASSUME NEW im \in ImageType, NEW V, NEW f, NEW seen, NEW d \in V, NEW i \in DOMAIN im.names[d],
           V \subseteq Inodes, seen \subseteq NamesIn(im, V, f)
    PROVE  /\ Shown(im, f, seen) \subseteq Shown(im, f, Noted(im, f, seen, d, i))
           /\ <<d, i>> \in Shown(im, f, Noted(im, f, seen, d, i))
           /\ Noted(im, f, seen, d, i) \subseteq NamesIn(im, V, f)
<1>. DEFINE more == Noted(im, f, seen, d, i)
<1>1. i \in Nat
  <2>1. im.names[d] \in Seq(Names)
    BY DEF ImageType
  <2>. QED  BY <2>1
<1>2. <<d, i>> \in Shown(im, f, more)
  BY <1>1 DEF Shown, Noted
<1>3. Shown(im, f, seen) \subseteq Shown(im, f, more)
  BY DEF Shown, Noted
<1>4. more \subseteq NamesIn(im, V, f)
  BY NamesInLemma DEF Noted
<1>. QED  BY <1>2, <1>3, <1>4

LEMMA ShowsStart ==
    ASSUME NEW im \in ImageType, NEW a \in Inodes, NEW f
    PROVE  Shows(im, a, f, <<Frame(a, FALSE)>>, {})
<1>1. Covers(im, {a}, f, <<Frame(a, FALSE)>>, 1, Shown(im, f, {}))
  BY CoverStart
<1>2. Len(<<Frame(a, FALSE)>>) = 1
  OBVIOUS
<1>3. {a} \subseteq ThroughIn(im, a, f)
  BY ReachLemma
<1>. QED  BY <1>1, <1>2, <1>3 DEF Shows

\* The walk goes past the entry it is at; if that leads down it leads to where
\* the walk is already.
LEMMA ShowsPass ==
    ASSUME NEW im \in ImageType, NEW a \in Inodes, NEW f, NEW fs \in Seq(FrameType), fs # <<>>,
           NEW seen, Shows(im, a, f, fs, seen), NEW d, NEW i, d = Top(fs).dir, i = Top(fs).i,
           i \in DOMAIN im.names[d],
           Leads(im, d, i, f) => \E k \in 1..Len(fs) : fs[k].dir = im.names[d][i].addr
    PROVE  Shows(im, a, f, Advanced(fs), Noted(im, f, seen, d, i))
<1>. DEFINE more == Noted(im, f, seen, d, i)
<1>1. PICK V \in SUBSET Inodes :
        /\ a \in V /\ V \subseteq ThroughIn(im, a, f)
        /\ Covers(im, V, f, fs, Len(fs), Shown(im, f, seen))
        /\ seen \subseteq NamesIn(im, V, f)
  BY DEF Shows
<1>2. \A k \in 1..Len(fs) : fs[k].dir \in V
  BY <1>1 DEF Covers
<1>3. d \in V
  <2>1. Len(fs) \in 1..Len(fs)
    OBVIOUS
  <2>. QED  BY <1>2, <2>1 DEF Top
<1>4. /\ Shown(im, f, seen) \subseteq Shown(im, f, more)
      /\ <<d, i>> \in Shown(im, f, more) /\ more \subseteq NamesIn(im, V, f)
  <2>1. V \subseteq Inodes /\ seen \subseteq NamesIn(im, V, f)
    BY <1>1
  <2>. QED  BY <1>3, <2>1, NoteLemma
<1>. HIDE DEF more
<1>5. Covers(im, V, f, fs, Len(fs), Shown(im, f, more))
  BY <1>1, <1>4, CoverMore
<1>6. DoneWith(im, V, f, d, i, Shown(im, f, more))
  BY <1>2, <1>4 DEF DoneWith
<1>7. Covers(im, V, f, Advanced(fs), Len(fs), Shown(im, f, more))
  BY <1>5, <1>6, CoverPass
<1>8. Len(Advanced(fs)) = Len(fs)
  BY AdvancedLemma
<1>9. Shows(im, a, f, Advanced(fs), more)
  BY <1>1, <1>4, <1>7, <1>8 DEF Shows
<1>. QED  BY <1>9 DEF more

\* The walk goes down.
LEMMA ShowsDown ==
    ASSUME NEW im \in ImageType, NEW a \in Inodes, NEW f, NEW fs \in Seq(FrameType), fs # <<>>,
           NEW seen, Shows(im, a, f, fs, seen), NEW d, NEW i, d = Top(fs).dir, i = Top(fs).i,
           i \in DOMAIN im.names[d], NEW b \in Inodes, im.names[d][i].addr = b,
           Leads(im, d, i, f), NEW bak \in BOOLEAN
    PROVE  Shows(im, a, f, Append(fs, Frame(b, bak)), Noted(im, f, seen, d, i))
<1>. DEFINE more == Noted(im, f, seen, d, i)
<1>1. PICK V \in SUBSET Inodes :
        /\ a \in V /\ V \subseteq ThroughIn(im, a, f)
        /\ Covers(im, V, f, fs, Len(fs), Shown(im, f, seen))
        /\ seen \subseteq NamesIn(im, V, f)
  BY DEF Shows
<1>2. d \in V
  <2>1. Len(fs) \in 1..Len(fs)
    OBVIOUS
  <2>. QED  BY <1>1, <2>1 DEF Top, Covers
<1>3. /\ Shown(im, f, seen) \subseteq Shown(im, f, more)
      /\ <<d, i>> \in Shown(im, f, more) /\ more \subseteq NamesIn(im, V, f)
  <2>1. V \subseteq Inodes /\ seen \subseteq NamesIn(im, V, f)
    BY <1>1
  <2>. QED  BY <1>2, <2>1, NoteLemma
<1>. HIDE DEF more
<1>4. Covers(im, V, f, fs, Len(fs), Shown(im, f, more))
  BY <1>1, <1>3, CoverMore
<1>5. Covers(im, V \cup {b}, f, Append(fs, Frame(b, bak)), Len(fs) + 1, Shown(im, f, more))
  BY <1>3, <1>4, CoverDown
<1>6. b \in ThroughIn(im, a, f)
  BY <1>1, <1>2, ReachLemma DEF ClosedIn
<1>7. Len(Append(fs, Frame(b, bak))) = Len(fs) + 1
  OBVIOUS
<1>8. more \subseteq NamesIn(im, V \cup {b}, f)
  BY <1>3, NamesGrow
<1>9. Shows(im, a, f, Append(fs, Frame(b, bak)), more)
  <2>1. a \in V \cup {b} /\ V \cup {b} \in SUBSET Inodes /\ V \cup {b} \subseteq ThroughIn(im, a, f)
    BY <1>1, <1>6
  <2>. QED  BY <1>5, <1>7, <1>8, <2>1 DEF Shows
<1>. QED  BY <1>9 DEF more

\* A directory is through; the walk goes on above, or is over.
LEMMA ShowsUp ==
    ASSUME NEW im \in ImageType, NEW a \in Inodes, NEW f, NEW fs \in Seq(FrameType), fs # <<>>,
           NEW seen, Shows(im, a, f, fs, seen), Top(fs).i > Len(im.names[Top(fs).dir])
    PROVE  /\ Len(fs) # 1 => Shows(im, a, f, Advanced(PopOf(fs)), seen)
           /\ Len(fs) = 1 => Shows(im, a, f, <<>>, seen)
<1>1. PICK V \in SUBSET Inodes :
        /\ a \in V /\ V \subseteq ThroughIn(im, a, f)
        /\ Covers(im, V, f, fs, Len(fs), Shown(im, f, seen))
        /\ seen \subseteq NamesIn(im, V, f)
  BY DEF Shows
<1>2. ASSUME Len(fs) # 1  PROVE Shows(im, a, f, Advanced(PopOf(fs)), seen)
  <2>1. Len(fs) \in Nat /\ Len(fs) > 1
    <3>1. Len(fs) \in Nat /\ Len(fs) # 0
      OBVIOUS
    <3>. QED  BY ONLY <1>2, <3>1
  <2>2. Covers(im, V, f, Advanced(PopOf(fs)), Len(fs) - 1, Shown(im, f, seen))
    BY <1>1, <2>1, CoverUp
  <2>3. Len(Advanced(PopOf(fs))) = Len(fs) - 1
    <3>1. PopOf(fs) \in Seq(FrameType) /\ PopOf(fs) # <<>> /\ Len(PopOf(fs)) = Len(fs) - 1
      BY <2>1, PopLemma
    <3>. QED  BY <3>1, AdvancedLemma
  <2>. QED  BY <1>1, <2>2, <2>3 DEF Shows
<1>3. ASSUME Len(fs) = 1  PROVE Shows(im, a, f, <<>>, seen)
  <2>1. Covers(im, V, f, <<>>, 0, Shown(im, f, seen))
    BY <1>1, <1>3, CoverEnd
  <2>2. Len(<<>>) = 0
    OBVIOUS
  <2>. QED  BY <1>1, <2>1, <2>2 DEF Shows
<1>. QED  BY <1>2, <1>3

\* A walk that is over has shown all.
LEMMA ShowsAll ==
    ASSUME NEW im \in ImageType, NEW a \in Inodes, NEW f, NEW seen, Shows(im, a, f, <<>>, seen)
    PROVE  seen = NamesIn(im, ThroughIn(im, a, f), f)
<1>1. PICK V \in SUBSET Inodes :
        /\ a \in V /\ V \subseteq ThroughIn(im, a, f)
        /\ Covers(im, V, f, <<>>, 0, Shown(im, f, seen))
        /\ seen \subseteq NamesIn(im, V, f)
  <2>1. Len(<<>>) = 0
    OBVIOUS
  <2>. QED  BY <2>1 DEF Shows
<1>2. V = ThroughIn(im, a, f) /\ \A d \in V : \A i \in DOMAIN im.names[d] : <<d, i>> \in Shown(im, f, seen)
  BY <1>1, CoverAll
<1>3. NamesIn(im, V, f) \subseteq seen
  BY <1>2 DEF NamesIn, Shown
<1>. QED  BY <1>1, <1>2, <1>3

-------------------------------------------------------------------------------
(* What the callbacks were shown, in the steps of the specification.       *)

Noting ==
    /\ start \in [Threads -> Inodes] /\ DOMAIN flags = Threads
    /\ called \in [Threads -> SUBSET (Inodes \X Nat)]
    /\ refused \in [Threads -> BOOLEAN]

\* A walk that is on its way or has been through, and met with no ERROR.
Going(p, r) == p = "walking" \/ (p = "walked" /\ r = "CONT")
Well(t) == Going(pc[t], retval[t]) /\ ~refused[t]

\* The inductive invariant: a walk has shown the names of the directories it
\* has come to, but for those still to come in the calls on its stack.
AllShown == \A t \in Threads : Well(t) => Shows(img, start[t], flags[t], frames[t], called[t])

\* What has to be shown of a step of one thread.
LEMMA ShownOthers ==
    ASSUME AllShown, NEW t \in Threads, UNCHANGED img,
           \A u \in Threads \ {t} :
               /\ pc'[u] = pc[u] /\ retval'[u] = retval[u] /\ start'[u] = start[u]
               /\ flags'[u] = flags[u] /\ frames'[u] = frames[u]
               /\ called'[u] = called[u] /\ refused'[u] = refused[u],
           Going(pc'[t], retval'[t]) /\ ~refused'[t] =>
               Shows(img, start'[t], flags'[t], frames'[t], called'[t])
    PROVE  AllShown'
<1>1. ASSUME NEW u \in Threads, Going(pc'[u], retval'[u]) /\ ~refused'[u]
      PROVE  Shows(img, start'[u], flags'[u], frames'[u], called'[u])
  <2>1. CASE u = t
    BY <1>1, <2>1
  <2>2. CASE u # t
    <3>1. Well(u)
      BY <1>1, <2>2 DEF Well
    <3>. QED  BY <2>2, <3>1 DEF AllShown
  <2>. QED  BY <2>1, <2>2
<1>. QED  BY <1>1 DEF AllShown, Well

LEMMA ShownInit == Init => AllShown
BY DEF Init, AllShown, Well, Going

LEMMA NotingInit == Init => Noting
<1>. SUFFICES ASSUME Init  PROVE Noting
  OBVIOUS
<1>1. Root \in Inodes
  BY AddressesAssumption
<1>. QED  BY <1>1 DEF Init, Noting

\* A step of a walk leaves its start and flags alone, and the other threads.
LEMMA StaysLemma ==
    ASSUME IInv, Noting, NEW t \in Threads, Walking(t)
    PROVE  /\ UNCHANGED <<img, start, flags>>
           /\ \A u \in Threads \ {t} :
               /\ pc'[u] = pc[u] /\ retval'[u] = retval[u] /\ frames'[u] = frames[u]
               /\ called'[u] = called[u] /\ refused'[u] = refused[u]
               /\ save'[u] = save[u] /\ collected'[u] = collected[u]
<1>. USE DEF IInv, Functions, Collecting, Noting, Note
<1>1. CASE VisitStop(t)
  BY <1>1 DEF VisitStop, Returns
<1>2. CASE VisitError(t)
  BY <1>2 DEF VisitError, Returns, Back
<1>3. CASE PassBy(t)
  BY <1>3 DEF PassBy, Goes
<1>4. CASE Descend(t)
  BY <1>4 DEF Descend, Goes
<1>5. CASE Leave(t)
  BY <1>5 DEF Leave, Returns, Back
<1>6. CASE Finish(t)
  BY <1>6 DEF Finish
<1>. QED  BY <1>1, <1>2, <1>3, <1>4, <1>5, <1>6 DEF Walking

\* The entry the walk is at.
LEMMA AtLemma ==
    ASSUME IInv, NEW t \in Threads, AtEntry(t)
    PROVE  /\ img \in ImageType /\ frames[t] \in Seq(FrameType) /\ frames[t] # <<>>
           /\ Top(frames[t]).dir \in Inodes
           /\ Top(frames[t]).i \in DOMAIN img.names[Top(frames[t]).dir]
           /\ Entry(t) = img.names[Top(frames[t]).dir][Top(frames[t]).i]
           /\ Entry(t).addr \in Inodes
<1>1. /\ InStep(img, "walking", frames[t], stack_seen[t], dirs[t]) /\ img \in ImageType
      /\ Top(frames[t]).i <= Len(img.names[Top(frames[t]).dir])
      /\ Entry(t).addr \in Inodes
  BY EntryLemma, ThreadLemma
<1>2. frames[t] \in Seq(FrameType) /\ frames[t] # <<>> /\ Placed(img, frames[t])
  BY <1>1 DEF InStep
<1>3. Len(frames[t]) \in 1..Len(frames[t]) /\ Top(frames[t]) \in FrameType
  BY <1>2 DEF Top
<1>4. /\ Top(frames[t]).dir \in Inodes /\ Top(frames[t]).i \in Nat
      /\ Top(frames[t]).i \in 1..(Len(img.names[Top(frames[t]).dir]) + 1)
  BY <1>2, <1>3 DEF FrameType, Placed, Top
<1>5. img.names[Top(frames[t]).dir] \in Seq(Names)
  BY <1>1, <1>4 DEF ImageType
<1>6. Top(frames[t]).i \in DOMAIN img.names[Top(frames[t]).dir]
  BY <1>1, <1>4, <1>5
<1>. QED  BY <1>1, <1>2, <1>4, <1>6 DEF Entry, Here

\* Noting an entry.
LEMMA CalledLemma ==
    ASSUME IInv, Noting, NEW t \in Threads, AtEntry(t), Note(t)
    PROVE  /\ called'[t] = Noted(img, flags[t], called[t], Top(frames[t]).dir, Top(frames[t]).i)
           /\ called' \in [Threads -> SUBSET (Inodes \X Nat)]
<1>1. /\ Entry(t) = img.names[Top(frames[t]).dir][Top(frames[t]).i]
      /\ Top(frames[t]).dir \in Inodes /\ Top(frames[t]).i \in Nat
  <2>1. /\ img \in ImageType /\ Top(frames[t]).dir \in Inodes
        /\ Top(frames[t]).i \in DOMAIN img.names[Top(frames[t]).dir]
        /\ Entry(t) = img.names[Top(frames[t]).dir][Top(frames[t]).i]
    BY AtLemma
  <2>2. img.names[Top(frames[t]).dir] \in Seq(Names)
    BY <2>1 DEF ImageType
  <2>. QED  BY <2>1, <2>2
<1>2. called' = [called EXCEPT ![t] =
                   IF Called(t) THEN @ \cup {<<Top(frames[t]).dir, Top(frames[t]).i>>} ELSE @]
  BY DEF Note, Here
<1>3. Called(t) <=> Matches(Entry(t), flags[t])
  BY DEF Called
<1>4. <<Top(frames[t]).dir, Top(frames[t]).i>> \in Inodes \X Nat
  BY <1>1
<1>. QED  BY <1>1, <1>2, <1>3, <1>4 DEF Noting, Noted

\* The walk passes by what leads on only if it is there already.
LEMMA PassedLemma ==
    ASSUME IInv, NEW t \in Threads, AtEntry(t), ~Enters(t) \/ ~CanOpen(Entry(t).addr),
           Leads(img, Top(frames[t]).dir, Top(frames[t]).i, flags[t])
    PROVE  \E k \in 1..Len(frames[t]) :
               frames[t][k].dir = img.names[Top(frames[t]).dir][Top(frames[t]).i].addr
<1>. DEFINE fs == frames[t]
<1>1. /\ fs \in Seq(FrameType) /\ fs # <<>>
      /\ Entry(t) = img.names[Top(fs).dir][Top(fs).i]
  BY AtLemma
<1>2. Recurses(Entry(t), flags[t]) /\ CanOpen(Entry(t).addr)
  BY <1>1, LeadsLemma
<1>3. PICK k \in DOMAIN stack_seen[t] : stack_seen[t][k] = Entry(t).addr
  BY <1>2 DEF Enters
<1>4. stack_seen[t] = Way(fs)
  BY ThreadLemma DEF InStep
<1>5. k + 1 \in 1..Len(fs) /\ Way(fs)[k] = fs[k + 1].dir
  <2>1. /\ Way(fs) \in Seq(Inodes) /\ Len(Way(fs)) = Len(fs) - 1
        /\ \A j \in 1..Len(Way(fs)) : Way(fs)[j] = fs[j + 1].dir
    BY <1>1, WayLemma
  <2>2. k \in 1..(Len(fs) - 1) /\ Len(fs) \in Nat
    BY <1>1, <1>3, <1>4, <2>1
  <2>. QED  BY <2>1, <2>2
<1>. QED  BY <1>1, <1>3, <1>4, <1>5

LEMMA ShownBegin ==
    ASSUME IInv, Noting, AllShown, NEW t \in Threads, pc[t] = "idle",
           NEW a \in Inodes, NEW f, WalkFrom(t, a, f)
    PROVE  Noting' /\ AllShown'
<1>1. /\ start' = [start EXCEPT ![t] = a] /\ flags' = [flags EXCEPT ![t] = Sane(f)]
      /\ called' = [called EXCEPT ![t] = {}] /\ UNCHANGED <<img, refused>>
  BY DEF WalkFrom
<1>2. Noting'
  BY <1>1 DEF Noting
<1>3. \A u \in Threads \ {t} :
          /\ pc'[u] = pc[u] /\ retval'[u] = retval[u] /\ start'[u] = start[u]
          /\ flags'[u] = flags[u] /\ frames'[u] = frames[u]
          /\ called'[u] = called[u] /\ refused'[u] = refused[u]
  <2>1. CASE CanOpen(a)
    <3>1. /\ pc' = [pc EXCEPT ![t] = "walking"] /\ retval' = [retval EXCEPT ![t] = "CONT"]
          /\ frames' = [frames EXCEPT ![t] = <<Frame(a, FALSE)>>]
      BY <2>1 DEF WalkFrom
    <3>. QED  BY <1>1, <3>1 DEF IInv, Functions, Collecting, Noting
  <2>2. CASE ~CanOpen(a)
    <3>1. /\ pc' = [pc EXCEPT ![t] = "walked"] /\ retval' = [retval EXCEPT ![t] = "ERROR"]
          /\ UNCHANGED frames
      BY <2>2 DEF WalkFrom
    <3>. QED  BY <1>1, <3>1 DEF IInv, Functions, Collecting, Noting
  <2>. QED  BY <2>1, <2>2
<1>4. start'[t] = a /\ flags'[t] = Sane(f) /\ called'[t] = {}
  BY <1>1 DEF Noting
<1>5. CASE CanOpen(a)
  <2>1. frames'[t] = <<Frame(a, FALSE)>>
    BY <1>5 DEF WalkFrom, IInv, Functions
  <2>2. img \in ImageType
    BY ThreadLemma
  <2>3. Shows(img, a, Sane(f), <<Frame(a, FALSE)>>, {})
    BY <2>2, ShowsStart
  <2>. QED  BY <1>1, <1>2, <1>3, <1>4, <2>1, <2>3, ShownOthers
<1>6. CASE ~CanOpen(a)
  <2>1. pc'[t] = "walked" /\ retval'[t] = "ERROR"
    BY <1>6 DEF WalkFrom, IInv, Functions, Collecting
  <2>2. ~Going(pc'[t], retval'[t])
    BY <2>1 DEF Going
  <2>. QED  BY <1>1, <1>2, <1>3, <2>2, ShownOthers
<1>. QED  BY <1>5, <1>6

LEMMA ShownWalking ==
    ASSUME IInv, Noting, AllShown, NEW t \in Threads, Walking(t)
    PROVE  Noting' /\ AllShown'
<1>. DEFINE fs == frames[t]
            d == Top(frames[t]).dir
            i == Top(frames[t]).i
            more == Noted(img, flags[t], called[t], d, i)
<1>1. /\ UNCHANGED <<img, start, flags>>
      /\ \A u \in Threads \ {t} :
          /\ pc'[u] = pc[u] /\ retval'[u] = retval[u] /\ start'[u] = start[u]
          /\ flags'[u] = flags[u] /\ frames'[u] = frames[u]
          /\ called'[u] = called[u] /\ refused'[u] = refused[u]
  BY StaysLemma
<1>2. SUFFICES ASSUME TRUE
               PROVE  /\ called' \in [Threads -> SUBSET (Inodes \X Nat)]
                      /\ refused' \in [Threads -> BOOLEAN]
                      /\ Going(pc'[t], retval'[t]) /\ ~refused'[t] =>
                            Shows(img, start[t], flags[t], frames'[t], called'[t])
  BY <1>1, ShownOthers DEF Noting
<1>3. img \in ImageType /\ start[t] \in Inodes
  BY ThreadLemma DEF Noting
<1>4. CASE VisitStop(t)
  <2>1. AtEntry(t) /\ Note(t) /\ UNCHANGED refused
    BY <1>4 DEF VisitStop
  <2>2. retval'[t] = "STOP" /\ pc'[t] = "walked"
    BY <1>4 DEF VisitStop, Returns, IInv, Functions, Collecting
  <2>. QED  BY <2>1, <2>2, CalledLemma DEF Going, Noting
<1>5. CASE VisitError(t)
  <2>1. AtEntry(t) /\ Note(t) /\ refused' = [refused EXCEPT ![t] = TRUE]
    BY <1>5 DEF VisitError
  <2>. QED  BY <2>1, CalledLemma DEF Noting
<1>6. CASE PassBy(t)
  <2>1. /\ AtEntry(t) /\ Note(t) /\ pc[t] = "walking"
        /\ ~Enters(t) \/ ~CanOpen(Entry(t).addr)
        /\ frames' = [frames EXCEPT ![t] = Advanced(@)] /\ UNCHANGED <<pc, retval, refused>>
    BY <1>6 DEF PassBy, Goes, AtEntry
  <2>2. /\ called'[t] = more /\ called' \in [Threads -> SUBSET (Inodes \X Nat)]
    BY <2>1, CalledLemma
  <2>3. /\ fs \in Seq(FrameType) /\ fs # <<>> /\ i \in DOMAIN img.names[d]
        /\ Entry(t) = img.names[d][i]
    BY <2>1, AtLemma
  <2>4. frames'[t] = Advanced(fs)
    BY <2>1 DEF IInv, Functions
  <2>5. Leads(img, d, i, flags[t]) => \E k \in 1..Len(fs) : fs[k].dir = img.names[d][i].addr
    BY <2>1, PassedLemma
  <2>6. Well(t) => Shows(img, start[t], flags[t], Advanced(fs), more)
    <3>1. Well(t) => Shows(img, start[t], flags[t], fs, called[t])
      BY DEF AllShown
    <3>. QED  BY <1>3, <2>3, <2>5, <3>1, ShowsPass
  <2>. QED  BY <2>1, <2>2, <2>4, <2>6 DEF Well, Noting
<1>7. CASE Descend(t)
  <2>. DEFINE b == Entry(t).addr
  <2>1. /\ AtEntry(t) /\ Note(t) /\ pc[t] = "walking" /\ Enters(t) /\ CanOpen(b)
        /\ UNCHANGED <<pc, retval, refused>>
    BY <1>7 DEF Descend, Goes, AtEntry
  <2>2. PICK c \in AfterAdd(t) : frames' = [frames EXCEPT ![t] = Append(@, Frame(b, c.save))]
    BY <1>7 DEF Descend
  <2>3. c.save \in BOOLEAN
    BY <2>1, AddLemma
  <2>4. /\ called'[t] = more /\ called' \in [Threads -> SUBSET (Inodes \X Nat)]
    BY <2>1, CalledLemma
  <2>5. /\ fs \in Seq(FrameType) /\ fs # <<>> /\ i \in DOMAIN img.names[d]
        /\ Entry(t) = img.names[d][i] /\ b \in Inodes
    BY <2>1, AtLemma
  <2>6. frames'[t] = Append(fs, Frame(b, c.save))
    BY <2>2 DEF IInv, Functions
  <2>7. Leads(img, d, i, flags[t])
    BY <2>1, <2>5, LeadsLemma DEF Enters
  <2>8. img.names[d][i].addr = b
    BY <2>5
  <2>. HIDE DEF b
  <2>9. Well(t) => Shows(img, start[t], flags[t], Append(fs, Frame(b, c.save)), more)
    <3>1. Well(t) => Shows(img, start[t], flags[t], fs, called[t])
      BY DEF AllShown
    <3>. QED  BY <1>3, <2>3, <2>5, <2>7, <2>8, <3>1, ShowsDown
  <2>. QED  BY <2>1, <2>4, <2>6, <2>9 DEF Well, Noting
<1>8. CASE Leave(t)
  <2>1. pc[t] = "walking" /\ i > Len(img.names[d]) /\ UNCHANGED <<called, refused>>
    BY <1>8 DEF Leave, AtEnd, Here
  <2>2. fs \in Seq(FrameType) /\ fs # <<>>
    BY <2>1, ThreadLemma DEF InStep
  <2>3. Well(t) => Shows(img, start[t], flags[t], fs, called[t])
    BY DEF AllShown
  <2>4. Well(t) => /\ Len(fs) # 1 => Shows(img, start[t], flags[t], Advanced(PopOf(fs)), called[t])
                   /\ Len(fs) = 1 => Shows(img, start[t], flags[t], <<>>, called[t])
    BY <1>3, <2>1, <2>2, <2>3, ShowsUp
  <2>5. frames'[t] = IF Len(fs) = 1 THEN <<>> ELSE Advanced(PopOf(fs))
    BY <1>8 DEF Leave, Returns, Back, IInv, Functions
  <2>6. Well(t) <=> ~refused[t]
    BY <2>1 DEF Well, Going
  <2>. QED  BY <2>1, <2>4, <2>5, <2>6 DEF Noting
<1>9. CASE Finish(t)
  <2>1. pc'[t] = "idle" /\ UNCHANGED <<called, refused>>
    BY <1>9 DEF Finish, IInv, Functions
  <2>. QED  BY <2>1 DEF Going, Noting
<1>. QED  BY <1>4, <1>5, <1>6, <1>7, <1>8, <1>9 DEF Walking

\* The steps of threads that walk, whoever has them walk.
WalkSteps ==
    \/ \E t \in Threads : Walking(t)
    \/ \E t \in Threads, a \in Inodes, f \in FlagType : pc[t] = "idle" /\ WalkFrom(t, a, f)
    \/ UNCHANGED vars

LEMMA NextWalks == [Next]_vars => WalkSteps
BY WalksAssumption DEF Next, WalkSteps, Begin, vars, local

LEMMA ShownStep ==
    ASSUME IInv, Noting, AllShown, WalkSteps
    PROVE  Noting' /\ AllShown'
<1>1. CASE UNCHANGED vars
  BY <1>1 DEF vars, local, Noting, AllShown, Well
<1>. QED  BY <1>1, ShownBegin, ShownWalking DEF WalkSteps

\* A walk that returns CONT and met with no ERROR has shown its callback every
\* name of the kind asked for in every directory that can be reached from its
\* start, once or more, and no other, however the directories contain each
\* other and in whatever order the threads take turns.
THEOREM EveryName == Spec => []EveryNameIsShown
<1>1. Init => Noting /\ AllShown
  BY NotingInit, ShownInit
<1>2. IInv /\ Noting /\ AllShown /\ [Next]_vars => Noting' /\ AllShown'
  BY NextWalks, ShownStep
<1>3. IInv /\ Noting /\ AllShown => EveryNameIsShown
  <2>. SUFFICES ASSUME IInv, Noting, AllShown, NEW t \in Threads,
                       pc[t] = "walked", retval[t] = "CONT", ~refused[t]
                PROVE  called[t] = {p \in UNION {{d} \X DOMAIN img.names[d] : d \in Through(start[t], flags[t])} :
                                       Matches(img.names[p[1]][p[2]], flags[t])}
    BY DEF EveryNameIsShown
  <2>1. frames[t] = <<>> /\ img \in ImageType /\ start[t] \in Inodes
    BY ThreadLemma DEF Noting
  <2>2. Shows(img, start[t], flags[t], <<>>, called[t])
    BY <2>1 DEF AllShown, Well, Going
  <2>3. called[t] = NamesIn(img, ThroughIn(img, start[t], flags[t]), flags[t])
    BY <2>1, <2>2, ShowsAll
  <2>. QED  BY <2>3, ThroughLemma DEF NamesIn
<1>. QED  BY <1>1, <1>2, <1>3, Invariance, PTL DEF Spec

-------------------------------------------------------------------------------
(* What a walk of everything has collected.                                *)

\* The flags that NamedDeleted goes by: $OrphanFiles is kept out of.
Outside == [alloc |-> TRUE, unalloc |-> TRUE, recurse |-> TRUE, noorphan |-> TRUE]

DeletedIn(im, e) == e.addr \notin im.unloadable /\ ~im.meta[e.addr].alloc

\* The entries that are in the list C if they have to be.
Kept(im, C) ==
    {p \in Inodes \X Nat :
        DeletedIn(im, im.names[p[1]][p[2]]) => im.names[p[1]][p[2]].addr \in C}

\* The deleted inodes that the directories V name.
DeletedOf(im, V) ==
    {im.names[p[1]][p[2]].addr : p \in {p \in UNION {{d} \X DOMAIN im.names[d] : d \in V} :
        DeletedIn(im, im.names[p[1]][p[2]])}}

\* The list with entry i of directory d in it, if it has to be.
Gathered(im, C, d, i) ==
    IF DeletedIn(im, im.names[d][i]) THEN C \cup {im.names[d][i].addr} ELSE C

\* The first m calls of fs have collected C.
Gathers(im, fs, m, C) ==
    \E V \in SUBSET Inodes :
        /\ Root \in V /\ V \subseteq ThroughIn(im, Root, Outside)
        /\ Covers(im, V, Outside, fs, m, Kept(im, C))
        /\ C \subseteq DeletedOf(im, V)

LEMMA DeletedOfLemma ==
    ASSUME NEW im, NEW V, NEW d \in V, NEW i \in DOMAIN im.names[d], DeletedIn(im, im.names[d][i])
    PROVE  im.names[d][i].addr \in DeletedOf(im, V)
<1>1. <<d, i>> \in {p \in UNION {{c} \X DOMAIN im.names[c] : c \in V} :
                       DeletedIn(im, im.names[p[1]][p[2]])}
  OBVIOUS
<1>2. \E p \in {p \in UNION {{c} \X DOMAIN im.names[c] : c \in V} :
                    DeletedIn(im, im.names[p[1]][p[2]])} :
          im.names[d][i].addr = im.names[p[1]][p[2]].addr
  BY <1>1
<1>. QED  BY <1>2 DEF DeletedOf

LEMMA DeletedGrow ==
    ASSUME NEW im, NEW V, NEW W, V \subseteq W
    PROVE  DeletedOf(im, V) \subseteq DeletedOf(im, W)
BY DEF DeletedOf

\* An entry has been put on the list.
LEMMA GatheredLemma ==
    ASSUME NEW im \in ImageType, NEW V, NEW C, NEW d \in V, NEW i \in DOMAIN im.names[d],
           V \subseteq Inodes, C \subseteq DeletedOf(im, V)
    PROVE  /\ Kept(im, C) \subseteq Kept(im, Gathered(im, C, d, i))
           /\ <<d, i>> \in Kept(im, Gathered(im, C, d, i))
           /\ Gathered(im, C, d, i) \subseteq DeletedOf(im, V)
<1>1. i \in Nat
  <2>1. im.names[d] \in Seq(Names)
    BY DEF ImageType
  <2>. QED  BY <2>1
<1>2. <<d, i>> \in Kept(im, Gathered(im, C, d, i))
  BY <1>1 DEF Kept, Gathered
<1>3. Kept(im, C) \subseteq Kept(im, Gathered(im, C, d, i))
  BY DEF Kept, Gathered
<1>4. Gathered(im, C, d, i) \subseteq DeletedOf(im, V)
  BY DeletedOfLemma DEF Gathered
<1>. QED  BY <1>2, <1>3, <1>4

LEMMA GathersStart ==
    ASSUME NEW im \in ImageType
    PROVE  Gathers(im, <<Frame(Root, FALSE)>>, 1, {})
<1>1. Root \in Inodes
  BY AddressesAssumption
<1>2. Covers(im, {Root}, Outside, <<Frame(Root, FALSE)>>, 1, Kept(im, {}))
  BY <1>1, CoverStart
<1>3. {Root} \subseteq ThroughIn(im, Root, Outside)
  BY <1>1, ReachLemma
<1>. QED  BY <1>1, <1>2, <1>3 DEF Gathers

LEMMA GathersPass ==
    ASSUME NEW im \in ImageType, NEW fs \in Seq(FrameType), fs # <<>>, NEW C,
           Gathers(im, fs, Len(fs), C), NEW d, NEW i, d = Top(fs).dir, i = Top(fs).i,
           i \in DOMAIN im.names[d],
           Leads(im, d, i, Outside) => \E k \in 1..Len(fs) : fs[k].dir = im.names[d][i].addr
    PROVE  Gathers(im, Advanced(fs), Len(fs), Gathered(im, C, d, i))
<1>. DEFINE D == Gathered(im, C, d, i)
<1>1. PICK V \in SUBSET Inodes :
        /\ Root \in V /\ V \subseteq ThroughIn(im, Root, Outside)
        /\ Covers(im, V, Outside, fs, Len(fs), Kept(im, C))
        /\ C \subseteq DeletedOf(im, V)
  BY DEF Gathers
<1>2. \A k \in 1..Len(fs) : fs[k].dir \in V
  BY <1>1 DEF Covers
<1>3. d \in V
  <2>1. Len(fs) \in 1..Len(fs)
    OBVIOUS
  <2>. QED  BY <1>2, <2>1 DEF Top
<1>4. Kept(im, C) \subseteq Kept(im, D) /\ <<d, i>> \in Kept(im, D) /\ D \subseteq DeletedOf(im, V)
  BY <1>1, <1>3, GatheredLemma
<1>. HIDE DEF D
<1>5. Covers(im, V, Outside, fs, Len(fs), Kept(im, D))
  BY <1>1, <1>4, CoverMore
<1>6. DoneWith(im, V, Outside, d, i, Kept(im, D))
  BY <1>2, <1>4 DEF DoneWith
<1>7. Covers(im, V, Outside, Advanced(fs), Len(fs), Kept(im, D))
  BY <1>5, <1>6, CoverPass
<1>8. Gathers(im, Advanced(fs), Len(fs), D)
  BY <1>1, <1>4, <1>7 DEF Gathers
<1>. QED  BY <1>8 DEF D

LEMMA GathersDown ==
    ASSUME NEW im \in ImageType, NEW fs \in Seq(FrameType), fs # <<>>, NEW C,
           Gathers(im, fs, Len(fs), C), NEW d, NEW i, d = Top(fs).dir, i = Top(fs).i,
           i \in DOMAIN im.names[d], NEW b \in Inodes, im.names[d][i].addr = b,
           Leads(im, d, i, Outside), NEW bak \in BOOLEAN
    PROVE  Gathers(im, Append(fs, Frame(b, bak)), Len(fs) + 1, Gathered(im, C, d, i))
<1>. DEFINE D == Gathered(im, C, d, i)
<1>1. PICK V \in SUBSET Inodes :
        /\ Root \in V /\ V \subseteq ThroughIn(im, Root, Outside)
        /\ Covers(im, V, Outside, fs, Len(fs), Kept(im, C))
        /\ C \subseteq DeletedOf(im, V)
  BY DEF Gathers
<1>2. d \in V
  <2>1. Len(fs) \in 1..Len(fs)
    OBVIOUS
  <2>. QED  BY <1>1, <2>1 DEF Top, Covers
<1>3. Kept(im, C) \subseteq Kept(im, D) /\ <<d, i>> \in Kept(im, D) /\ D \subseteq DeletedOf(im, V)
  <2>1. V \subseteq Inodes /\ C \subseteq DeletedOf(im, V)
    BY <1>1
  <2>. QED  BY <1>2, <2>1, GatheredLemma
<1>. HIDE DEF D
<1>4. Covers(im, V, Outside, fs, Len(fs), Kept(im, D))
  BY <1>1, <1>3, CoverMore
<1>5. Covers(im, V \cup {b}, Outside, Append(fs, Frame(b, bak)), Len(fs) + 1, Kept(im, D))
  BY <1>3, <1>4, CoverDown
<1>6. b \in ThroughIn(im, Root, Outside)
  BY <1>1, <1>2, ReachLemma, AddressesAssumption DEF ClosedIn
<1>7. D \subseteq DeletedOf(im, V \cup {b})
  BY <1>3, DeletedGrow
<1>8. Gathers(im, Append(fs, Frame(b, bak)), Len(fs) + 1, D)
  <2>1. Root \in V \cup {b} /\ V \cup {b} \in SUBSET Inodes
        /\ V \cup {b} \subseteq ThroughIn(im, Root, Outside)
    BY <1>1, <1>6
  <2>. QED  BY <1>5, <1>7, <2>1 DEF Gathers
<1>. QED  BY <1>8 DEF D

\* Calls below those that are counted come and go.
LEMMA GathersKept ==
    ASSUME NEW im, NEW fs, NEW gs, NEW m \in Nat, NEW C, Gathers(im, fs, m, C),
           \A k \in 1..m : gs[k] = fs[k], Len(fs) \in Nat, m < Len(fs)
    PROVE  Gathers(im, gs, m, C)
BY CoverKept DEF Gathers

LEMMA GathersUp ==
    ASSUME NEW im \in ImageType, NEW fs \in Seq(FrameType), Len(fs) > 1, NEW C,
           Gathers(im, fs, Len(fs), C), Top(fs).i > Len(im.names[Top(fs).dir])
    PROVE  Gathers(im, Advanced(PopOf(fs)), Len(fs) - 1, C)
BY CoverUp DEF Gathers

LEMMA GathersEnd ==
    ASSUME NEW im \in ImageType, NEW fs \in Seq(FrameType), Len(fs) = 1, NEW C,
           Gathers(im, fs, 1, C), Top(fs).i > Len(im.names[Top(fs).dir])
    PROVE  Gathers(im, <<>>, 0, C)
BY CoverEnd DEF Gathers

\* A walk that is over has collected all.
LEMMA GathersAll ==
    ASSUME NEW im \in ImageType, NEW C, Gathers(im, <<>>, 0, C)
    PROVE  C = DeletedOf(im, ThroughIn(im, Root, Outside))
<1>1. PICK V \in SUBSET Inodes :
        /\ Root \in V /\ V \subseteq ThroughIn(im, Root, Outside)
        /\ Covers(im, V, Outside, <<>>, 0, Kept(im, C))
        /\ C \subseteq DeletedOf(im, V)
  BY DEF Gathers
<1>2. V = ThroughIn(im, Root, Outside) /\ \A d \in V : \A i \in DOMAIN im.names[d] : <<d, i>> \in Kept(im, C)
  BY <1>1, CoverAll
<1>3. DeletedOf(im, V) \subseteq C
  BY <1>2 DEF DeletedOf, Kept
<1>. QED  BY <1>1, <1>2, <1>3

\* The innermost call goes into $OrphanFiles; those above wait at its entry.
LEMMA GathersInto ==
    ASSUME NEW im \in ImageType, NEW fs \in Seq(FrameType), fs # <<>>, NEW C,
           Gathers(im, fs, Len(fs), C), NEW d, NEW i, d = Top(fs).dir, i = Top(fs).i,
           i \in DOMAIN im.names[d], im.names[d][i].addr = Orphan, NEW x \in FrameType
    PROVE  Gathers(im, Append(fs, x), Len(fs), Gathered(im, C, d, i))
<1>. DEFINE D == Gathered(im, C, d, i)
            n == Len(fs)
            gs == Append(fs, x)
<1>1. PICK V \in SUBSET Inodes :
        /\ Root \in V /\ V \subseteq ThroughIn(im, Root, Outside)
        /\ Covers(im, V, Outside, fs, n, Kept(im, C))
        /\ C \subseteq DeletedOf(im, V)
  BY DEF Gathers
<1>2. n \in Nat /\ n \in 1..n /\ d = fs[n].dir /\ i = fs[n].i
  BY DEF Top
<1>3. /\ \A k \in 1..n : gs[k] = fs[k]
      /\ Len(gs) = n + 1
  OBVIOUS
<1>. HIDE DEF n, gs
<1>4. d \in V
  BY <1>1, <1>2 DEF Covers
<1>5. Kept(im, C) \subseteq Kept(im, D) /\ <<d, i>> \in Kept(im, D) /\ D \subseteq DeletedOf(im, V)
  BY <1>1, <1>4, GatheredLemma
<1>. HIDE DEF D
<1>6. Covers(im, V, Outside, fs, n, Kept(im, D))
  BY <1>1, <1>5, CoverMore
<1>7. ~Leads(im, d, i, Outside)
  BY DEF Leads, Outside
<1>8. \A k \in 1..n : DoneWith(im, V, Outside, gs[k].dir, gs[k].i, Kept(im, D))
  <2>1. ASSUME NEW k \in 1..n
        PROVE  DoneWith(im, V, Outside, fs[k].dir, fs[k].i, Kept(im, D))
    <3>1. CASE k = n
      BY <1>2, <1>5, <1>7, <3>1 DEF DoneWith
    <3>2. CASE k # n
      <4>1. k < n
        BY <1>2, <3>2
      <4>. QED  BY <1>6, <4>1 DEF Covers, n
    <3>. QED  BY <3>1, <3>2
  <2>. QED  BY <1>3, <2>1
<1>9. \A a, j : Pending(fs, n, a, j) => Pending(gs, n, a, j)
  BY <1>3 DEF Pending
<1>10. \A k \in 1..n : gs[k].dir \in V
  BY <1>3, <1>6 DEF Covers
<1>11. Covers(im, V, Outside, gs, n, Kept(im, D))
  BY <1>6, <1>8, <1>9, <1>10 DEF Covers
<1>12. Gathers(im, gs, n, D)
  BY <1>1, <1>5, <1>11 DEF Gathers
<1>. QED  BY <1>12 DEF D, n, gs

\* The calls of the walk, of which the last but one is in front of the entry
\* it has been through.
LEMMA GathersOut ==
    ASSUME NEW im \in ImageType, NEW fs \in Seq(FrameType), Len(fs) > 1, NEW C,
           Gathers(im, fs, Len(fs) - 1, C)
    PROVE  Gathers(im, Advanced(PopOf(fs)), Len(fs) - 1, C)
<1>. DEFINE n == Len(fs)
            gs == PopOf(fs)
<1>1. PICK V \in SUBSET Inodes :
        /\ Root \in V /\ V \subseteq ThroughIn(im, Root, Outside)
        /\ Covers(im, V, Outside, fs, n - 1, Kept(im, C))
        /\ C \subseteq DeletedOf(im, V)
  BY DEF Gathers
<1>2. n \in Nat /\ n > 1
  OBVIOUS
<1>3. /\ gs \in Seq(FrameType) /\ gs # <<>> /\ Len(gs) = n - 1
      /\ \A k \in 1..(n - 1) : gs[k] = fs[k]
  BY PopLemma
<1>4. \A k \in 1..(n - 1) : DoneWith(im, V, Outside, fs[k].dir, fs[k].i, Kept(im, C))
  <2>1. \A k \in 1..(n - 1) : k < n
    BY <1>2
  <2>. QED  BY <1>1, <2>1 DEF Covers
<1>. HIDE DEF n, gs
<1>5. Covers(im, V, Outside, gs, n - 1, Kept(im, C))
  <2>1. \A k \in 1..(n - 1) : gs[k].dir \in V
    BY <1>1, <1>3 DEF Covers
  <2>2. \A a, j : Pending(fs, n - 1, a, j) => Pending(gs, n - 1, a, j)
    BY <1>3 DEF Pending
  <2>3. \A k \in 1..(n - 1) : DoneWith(im, V, Outside, gs[k].dir, gs[k].i, Kept(im, C))
    BY <1>3, <1>4
  <2>. QED  BY <1>1, <2>1, <2>2, <2>3 DEF Covers
<1>6. DoneWith(im, V, Outside, Top(gs).dir, Top(gs).i, Kept(im, C))
  <2>1. n - 1 \in 1..(n - 1)
    BY <1>2
  <2>. QED  BY <1>3, <1>4, <2>1 DEF Top
<1>7. Covers(im, V, Outside, Advanced(gs), n - 1, Kept(im, C))
  BY <1>3, <1>5, <1>6, CoverPass
<1>8. Gathers(im, Advanced(gs), n - 1, C)
  BY <1>1, <1>7 DEF Gathers
<1>. QED  BY <1>8 DEF n, gs


-------------------------------------------------------------------------------
(* The list while the walk is in $OrphanFiles and out of it.               *)

\* The calls up to m are those that are not made in $OrphanFiles.
Outer(fs, m) ==
    /\ \A k \in 1..m : fs[k].dir # Orphan
    /\ m < Len(fs) => fs[m + 1].dir = Orphan

\* Out of $OrphanFiles what is collected is right if the flag is set; in it
\* the flag is not set, and what is collected is right if it will be again.
Collects(im, fs, sv, C) ==
    IF fs = <<>> THEN sv => Gathers(im, <<>>, 0, C)
    ELSE \A m \in 1..Len(fs) : Outer(fs, m) =>
            IF m = Len(fs) THEN sv => Gathers(im, fs, m, C)
            ELSE ~sv /\ (fs[m + 1].bak => Gathers(im, fs, m, C))

\* Below the start $OrphanFiles is not entered twice.
OnceOrphan(fs) ==
    \A j, k \in 2..Len(fs) : fs[j].dir = Orphan /\ fs[k].dir = Orphan => j = k

\* With the flag sv and the list C before entry i of directory d, nsv and D
\* may be what there is after it.
Adds(im, sv, C, d, i, nsv, D) ==
    /\ nsv => sv /\ D = Gathered(im, C, d, i)
    /\ ~sv => ~nsv /\ D = C

LEMMA AdvancedBak ==
    ASSUME NEW fs \in Seq(FrameType), fs # <<>>
    PROVE  \A k \in 1..Len(fs) : /\ Advanced(fs)[k].dir = fs[k].dir
                                 /\ Advanced(fs)[k].bak = fs[k].bak
<1>. DEFINE n == Len(fs)
            f == [fs[n] EXCEPT !.i = @ + 1]
<1>1. n \in Nat /\ n # 0 /\ n \in 1..n /\ fs[n] \in FrameType
  OBVIOUS
<1>2. f \in FrameType /\ f.dir = fs[n].dir /\ f.bak = fs[n].bak
  BY <1>1 DEF FrameType
<1>3. Advanced(fs) = [fs EXCEPT ![n] = f]
  BY DEF Advanced
<1>. HIDE DEF f
<1>4. \A k \in 1..n : Advanced(fs)[k] = IF k = n THEN f ELSE fs[k]
  BY <1>1, <1>2, <1>3, ExceptSeq
<1>. QED  BY <1>2, <1>4

LEMMA CollectsStart ==
    ASSUME NEW im \in ImageType, NEW a \in Inodes, NEW sv, sv => a = Root
    PROVE  Collects(im, <<Frame(a, FALSE)>>, sv, {})
<1>. DEFINE fs == <<Frame(a, FALSE)>>
<1>1. Len(fs) = 1 /\ fs # <<>>
  OBVIOUS
<1>2. sv => Gathers(im, fs, 1, {})
  BY GathersStart
<1>. HIDE DEF fs
<1>3. \A m \in 1..Len(fs) : m = 1
  BY <1>1
<1>4. Collects(im, fs, sv, {})
  BY <1>1, <1>2, <1>3 DEF Collects
<1>. QED  BY <1>4 DEF fs

\* The walk goes past an entry.
LEMMA CollectsPass ==
    ASSUME NEW im \in ImageType, NEW fs \in Seq(FrameType), fs # <<>>, NEW sv, NEW C,
           Collects(im, fs, sv, C), NEW d, NEW i, d = Top(fs).dir, i = Top(fs).i,
           i \in DOMAIN im.names[d], NEW nsv, NEW D, Adds(im, sv, C, d, i, nsv, D),
           nsv /\ Leads(im, d, i, Outside) => \E k \in 1..Len(fs) : fs[k].dir = im.names[d][i].addr
    PROVE  Collects(im, Advanced(fs), nsv, D)
<1>. DEFINE n == Len(fs)
            gs == Advanced(fs)
<1>1. /\ gs # <<>> /\ Len(gs) = n
      /\ \A k \in 1..(n - 1) : gs[k] = fs[k]
      /\ \A k \in 1..n : gs[k].dir = fs[k].dir /\ gs[k].bak = fs[k].bak
  BY AdvancedLemma, AdvancedBak
<1>2. n \in Nat
  OBVIOUS
<1>3. nsv /\ Gathers(im, fs, n, C) => Gathers(im, gs, n, D)
  BY GathersPass DEF Adds
<1>. HIDE DEF n, gs
<1>4. ASSUME NEW m \in 1..n, Outer(gs, m)
      PROVE  IF m = n THEN nsv => Gathers(im, gs, m, D)
             ELSE ~nsv /\ (gs[m + 1].bak => Gathers(im, gs, m, D))
  <2>1. \A k \in 1..m : k \in 1..n
    BY <1>2
  <2>2. m # n => m + 1 \in 1..n /\ m < n /\ m \in Nat
    BY <1>2
  <2>3. Outer(fs, m)
    BY <1>1, <1>2, <1>4, <2>1, <2>2 DEF Outer, n
  <2>4. IF m = n THEN sv => Gathers(im, fs, m, C)
        ELSE ~sv /\ (fs[m + 1].bak => Gathers(im, fs, m, C))
    BY <2>3 DEF Collects, n
  <2>5. CASE m = n
    BY <1>3, <2>4, <2>5 DEF Adds
  <2>6. CASE m # n
    <3>1. \A k \in 1..m : gs[k] = fs[k]
      BY <1>1, <1>2, <2>2, <2>6
    <3>2. Gathers(im, fs, m, C) => Gathers(im, gs, m, C)
      BY <1>2, <2>2, <2>6, <3>1, GathersKept DEF n
    <3>. QED  BY <1>1, <2>2, <2>4, <2>6, <3>2 DEF Adds
  <2>. QED  BY <2>5, <2>6
<1>. QED  BY <1>1, <1>4 DEF Collects, n, gs

\* The walk goes into a directory that is not $OrphanFiles.
LEMMA CollectsDown ==
    ASSUME NEW im \in ImageType, NEW fs \in Seq(FrameType), fs # <<>>, NEW sv, NEW C,
           Collects(im, fs, sv, C), NEW d, NEW i, d = Top(fs).dir, i = Top(fs).i,
           i \in DOMAIN im.names[d], NEW nsv \in BOOLEAN, NEW D, Adds(im, sv, C, d, i, nsv, D),
           NEW b \in Inodes, im.names[d][i].addr = b, b # Orphan,
           nsv => Leads(im, d, i, Outside)
    PROVE  Collects(im, Append(fs, Frame(b, nsv)), nsv, D)
<1>. DEFINE n == Len(fs)
            gs == Append(fs, Frame(b, nsv))
<1>1. /\ gs # <<>> /\ Len(gs) = n + 1
      /\ \A k \in 1..n : gs[k] = fs[k]
      /\ gs[n + 1].dir = b
  <2>1. Frame(b, nsv).dir = b
    BY DEF Frame
  <2>. QED  BY <2>1
<1>2. n \in Nat
  OBVIOUS
<1>3. nsv /\ Gathers(im, fs, n, C) => Gathers(im, gs, n + 1, D)
  BY GathersDown DEF Adds
<1>. HIDE DEF n, gs
<1>4. ASSUME NEW m \in 1..(n + 1), Outer(gs, m)
      PROVE  IF m = n + 1 THEN nsv => Gathers(im, gs, m, D)
             ELSE ~nsv /\ (gs[m + 1].bak => Gathers(im, gs, m, D))
  <2>1. CASE m = n + 1
    <3>1. n # 0 => n \in 1..n /\ \A k \in 1..n : k \in 1..m
      BY <1>2, <2>1
    <3>2. n # 0
      BY DEF n
    <3>3. Outer(fs, n)
      BY <1>1, <1>2, <1>4, <3>1, <3>2 DEF Outer, n
    <3>4. sv => Gathers(im, fs, n, C)
      BY <3>1, <3>2, <3>3 DEF Collects, n
    <3>. QED  BY <1>3, <2>1, <3>4 DEF Adds
  <2>2. CASE m # n + 1
    <3>1. m < n + 1 /\ m \in Nat /\ m \in 1..n /\ (m = n \/ (m < n /\ m + 1 \in 1..n))
      BY <1>2, <2>2
    <3>2. gs[m + 1].dir = Orphan
      BY <1>1, <1>4, <3>1 DEF Outer
    <3>3. m < n /\ m + 1 \in 1..n
      BY <1>1, <3>1, <3>2
    <3>4. Outer(fs, m)
      <4>1. \A k \in 1..m : k \in 1..n
        BY <1>2, <3>1
      <4>. QED  BY <1>1, <1>4, <3>2, <3>3, <4>1 DEF Outer
    <3>5. ~sv /\ (fs[m + 1].bak => Gathers(im, fs, m, C))
      BY <1>2, <3>1, <3>3, <3>4 DEF Collects, n
    <3>6. \A k \in 1..m : gs[k] = fs[k]
      BY <1>1, <1>2, <3>1
    <3>7. Gathers(im, fs, m, C) => Gathers(im, gs, m, C)
      BY <1>2, <3>1, <3>3, <3>6, GathersKept DEF n
    <3>. QED  BY <1>1, <2>2, <3>3, <3>5, <3>7 DEF Adds
  <2>. QED  BY <2>1, <2>2
<1>. QED  BY <1>1, <1>4 DEF Collects, n, gs

\* The walk goes into $OrphanFiles, with the flag put by.
LEMMA CollectsInto ==
    ASSUME NEW im \in ImageType, NEW fs \in Seq(FrameType), fs # <<>>, NEW sv, NEW C,
           Collects(im, fs, sv, C), NEW d, NEW i, d = Top(fs).dir, i = Top(fs).i,
           i \in DOMAIN im.names[d], im.names[d][i].addr = Orphan,
           NEW nsv \in BOOLEAN, NEW D, Adds(im, sv, C, d, i, nsv, D),
           OnceOrphan(Append(fs, Frame(Orphan, nsv)))
    PROVE  Collects(im, Append(fs, Frame(Orphan, nsv)), FALSE, D)
<1>. DEFINE n == Len(fs)
            x == Frame(Orphan, nsv)
            gs == Append(fs, x)
<1>1. x \in FrameType /\ x.dir = Orphan /\ x.bak = nsv
  BY AddressesAssumption DEF Frame, FrameType
<1>. HIDE DEF x
<1>2. /\ gs # <<>> /\ Len(gs) = n + 1
      /\ \A k \in 1..n : gs[k] = fs[k]
      /\ gs[n + 1] = x
  BY <1>1
<1>3. n \in Nat
  OBVIOUS
<1>4. nsv /\ Gathers(im, fs, n, C) => Gathers(im, gs, n, D)
  BY <1>1, GathersInto DEF Adds
<1>5. OnceOrphan(gs)
  BY DEF x
<1>. HIDE DEF n, gs
<1>6. ASSUME NEW m \in 1..(n + 1), Outer(gs, m)
      PROVE  IF m = n + 1 THEN FALSE => Gathers(im, gs, m, D)
             ELSE ~FALSE /\ (gs[m + 1].bak => Gathers(im, gs, m, D))
  <2>1. CASE m = n
    <3>1. n \in 1..n /\ \A k \in 1..n : k \in 1..m
      BY <1>3, <2>1
    <3>2. Outer(fs, n)
      BY <1>2, <1>3, <1>6, <3>1 DEF Outer, n
    <3>3. sv => Gathers(im, fs, n, C)
      BY <3>1, <3>2 DEF Collects, n
    <3>4. m # n + 1
      BY <1>3, <2>1
    <3>. QED  BY <1>1, <1>2, <1>4, <2>1, <3>3, <3>4 DEF Adds
  <2>2. CASE m < n
    <3>1. m + 1 \in 2..(n + 1) /\ n + 1 \in 2..(n + 1) /\ m + 1 # n + 1 /\ m < n + 1
      BY <1>3, <2>2
    <3>2. gs[m + 1].dir = Orphan
      BY <1>2, <1>6, <3>1 DEF Outer
    <3>. QED  BY <1>1, <1>2, <1>5, <3>1, <3>2 DEF OnceOrphan
  <2>. QED  BY <1>3, <2>1, <2>2
<1>7. Collects(im, gs, FALSE, D)
  BY <1>2, <1>6 DEF Collects
<1>. QED  BY <1>7 DEF n, gs, x


\* Whether an inner call is made in $OrphanFiles or elsewhere, when it returns
\* the flag is what it is to be.
LEMMA CollectsUp ==
    ASSUME NEW im \in ImageType, NEW fs \in Seq(FrameType), Len(fs) > 1, NEW sv, NEW C,
           Collects(im, fs, sv, C), Top(fs).i > Len(im.names[Top(fs).dir]), OnceOrphan(fs)
    PROVE  Collects(im, Advanced(PopOf(fs)), IF Top(fs).dir = Orphan THEN Top(fs).bak ELSE sv, C)
<1>. DEFINE n == Len(fs)
            gs == Advanced(PopOf(fs))
            nsv == IF Top(fs).dir = Orphan THEN Top(fs).bak ELSE sv
<1>1. n \in Nat /\ n > 1 /\ n \in 2..n /\ n \in 1..n /\ n - 1 \in 1..n /\ n - 1 # n /\ Top(fs) = fs[n]
      /\ fs # <<>>
  BY DEF Top
<1>2. /\ gs # <<>> /\ Len(gs) = n - 1
      /\ \A k \in 1..(n - 1) : gs[k].dir = fs[k].dir /\ gs[k].bak = fs[k].bak
      /\ \A k \in 1..(n - 2) : gs[k] = fs[k]
  <2>1. /\ PopOf(fs) \in Seq(FrameType) /\ PopOf(fs) # <<>> /\ Len(PopOf(fs)) = n - 1
        /\ \A k \in 1..(n - 1) : PopOf(fs)[k] = fs[k]
    BY PopLemma
  <2>. DEFINE hs == PopOf(fs)
  <2>2. /\ gs # <<>> /\ Len(gs) = Len(hs)
        /\ \A k \in 1..(Len(hs) - 1) : gs[k] = hs[k]
        /\ \A k \in 1..Len(hs) : gs[k].dir = hs[k].dir /\ gs[k].bak = hs[k].bak
    BY <2>1, AdvancedLemma, AdvancedBak
  <2>. HIDE DEF hs, gs, n
  <2>3. Len(hs) - 1 = n - 2 /\ Len(hs) = n - 1 /\ \A k \in 1..(n - 2) : k \in 1..(n - 1)
    BY <1>1, <2>1 DEF hs
  <2>. QED  BY <2>1, <2>2, <2>3 DEF hs
<1>3. Gathers(im, fs, n, C) => Gathers(im, gs, n - 1, C)
  BY GathersUp
<1>4. Gathers(im, fs, n - 1, C) => Gathers(im, gs, n - 1, C)
  BY GathersOut
<1>5. nsv = IF fs[n].dir = Orphan THEN fs[n].bak ELSE sv
  BY <1>1
<1>. HIDE DEF n, gs, nsv
<1>6. ASSUME NEW m \in 1..(n - 1), Outer(gs, m)
      PROVE  IF m = n - 1 THEN nsv => Gathers(im, gs, m, C)
             ELSE ~nsv /\ (gs[m + 1].bak => Gathers(im, gs, m, C))
  <2>1. \A k \in 1..m : k \in 1..(n - 1) /\ fs[k].dir # Orphan
    <3>1. \A k \in 1..m : k \in 1..(n - 1)
      BY <1>1
    <3>. QED  BY <1>2, <1>6, <3>1 DEF Outer
  <2>2. CASE m = n - 1 /\ fs[n].dir = Orphan
    <3>1. m + 1 = n /\ m \in 1..n /\ m # n
      BY <1>1, <2>2
    <3>2. Outer(fs, m)
      BY <2>1, <2>2, <3>1 DEF Outer
    <3>3. fs[n].bak => Gathers(im, fs, m, C)
      BY <1>1, <3>1, <3>2 DEF Collects, n
    <3>. QED  BY <1>4, <1>5, <2>2, <3>3
  <2>3. CASE m = n - 1 /\ fs[n].dir # Orphan
    <3>1. \A k \in 1..n : k \in 1..m \/ k = n
      BY <1>1, <2>3
    <3>2. Outer(fs, n)
      BY <1>1, <2>1, <2>3, <3>1 DEF Outer, n
    <3>3. sv => Gathers(im, fs, n, C)
      BY <1>1, <3>2 DEF Collects, n
    <3>. QED  BY <1>3, <1>5, <2>3, <3>3
  <2>4. CASE m # n - 1
    <3>1. m \in Nat /\ m < n - 1 /\ m < n /\ m \in 1..n /\ m + 1 \in 1..(n - 1) /\ m + 1 \in 2..n /\ m + 1 # n
          /\ m # n
      BY <1>1, <2>4
    <3>2. fs[m + 1].dir = Orphan
      BY <1>2, <1>6, <3>1 DEF Outer
    <3>3. fs[n].dir # Orphan
      BY <1>1, <3>1, <3>2 DEF OnceOrphan, n
    <3>4. Outer(fs, m)
      BY <2>1, <3>2 DEF Outer
    <3>5. ~sv /\ (fs[m + 1].bak => Gathers(im, fs, m, C))
      BY <1>1, <3>1, <3>4 DEF Collects, n
    <3>6. \A k \in 1..m : k \in 1..(n - 2)
      BY <1>1, <3>1
    <3>7. \A k \in 1..m : gs[k] = fs[k]
      BY <1>2, <3>6
    <3>8. Gathers(im, fs, m, C) => Gathers(im, gs, m, C)
      BY <1>1, <3>1, <3>7, GathersKept DEF n
    <3>. QED  BY <1>2, <1>5, <2>4, <3>1, <3>3, <3>5, <3>8
  <2>. QED  BY <2>2, <2>3, <2>4
<1>7. Collects(im, gs, nsv, C)
  BY <1>2, <1>6 DEF Collects
<1>. QED  BY <1>7 DEF gs, nsv

\* The first call returns.
LEMMA CollectsEnd ==
    ASSUME NEW im \in ImageType, NEW fs \in Seq(FrameType), Len(fs) = 1, NEW sv, NEW C,
           Collects(im, fs, sv, C), Top(fs).i > Len(im.names[Top(fs).dir]), sv => fs[1].dir # Orphan
    PROVE  Collects(im, <<>>, sv, C)
<1>1. fs # <<>> /\ 1 \in 1..1 /\ \A k \in 1..1 : k = 1
  OBVIOUS
<1>2. sv => Outer(fs, 1)
  BY <1>1 DEF Outer
<1>3. sv => Gathers(im, fs, 1, C)
  BY <1>1, <1>2 DEF Collects
<1>. QED  BY <1>3, GathersEnd DEF Collects

\* A walk that is over has collected all that is named, if it has collected.
LEMMA CollectsAll ==
    ASSUME NEW im \in ImageType, NEW C, Collects(im, <<>>, TRUE, C)
    PROVE  C = DeletedOf(im, ThroughIn(im, Root, Outside))
BY GathersAll DEF Collects


\* What is known of the flag of a walk from a, besides: only a walk of
\* everything has it set or put by.
Flagged(a, f, fs, sv) ==
    /\ fs # <<>> => fs[1].dir = a
    /\ sv \/ (\E k \in 1..Len(fs) : fs[k].bak) => a = Root /\ f.recurse
    /\ OnceOrphan(fs)

LEMMA FlaggedNone ==
    ASSUME NEW a, NEW f, NEW sv, sv => a = Root /\ f.recurse
    PROVE  Flagged(a, f, <<>>, sv)
BY DEF Flagged, OnceOrphan

LEMMA FlaggedStart ==
    ASSUME NEW a \in Inodes, NEW f, NEW sv, sv => a = Root /\ f.recurse
    PROVE  Flagged(a, f, <<Frame(a, FALSE)>>, sv)
<1>. DEFINE fs == <<Frame(a, FALSE)>>
<1>1. Len(fs) = 1 /\ fs[1].dir = a /\ fs[1].bak = FALSE
  BY DEF Frame
<1>. HIDE DEF fs
<1>2. (\A k \in 1..Len(fs) : k = 1) /\ \A j, k \in 2..Len(fs) : j = k
  BY <1>1
<1>3. Flagged(a, f, fs, sv)
  BY <1>1, <1>2 DEF Flagged, OnceOrphan
<1>. QED  BY <1>3 DEF fs

LEMMA FlaggedPass ==
    ASSUME NEW a, NEW f, NEW fs \in Seq(FrameType), fs # <<>>, NEW sv, Flagged(a, f, fs, sv),
           NEW nsv, nsv => sv
    PROVE  Flagged(a, f, Advanced(fs), nsv)
<1>. DEFINE gs == Advanced(fs)
            n == Len(fs)
<1>1. /\ Len(gs) = n
      /\ \A k \in 1..n : gs[k].dir = fs[k].dir /\ gs[k].bak = fs[k].bak
  BY AdvancedLemma, AdvancedBak
<1>2. 1 \in 1..n /\ \A k \in 2..n : k \in 1..n
  OBVIOUS
<1>. HIDE DEF gs, n
<1>3. gs # <<>> => gs[1].dir = a
  BY <1>1, <1>2 DEF Flagged
<1>4. nsv \/ (\E k \in 1..n : gs[k].bak) => a = Root /\ f.recurse
  BY <1>1 DEF Flagged, n
<1>5. OnceOrphan(gs)
  BY <1>1, <1>2 DEF Flagged, OnceOrphan, n
<1>6. Flagged(a, f, gs, nsv)
  BY <1>1, <1>3, <1>4, <1>5 DEF Flagged
<1>. QED  BY <1>6 DEF gs

LEMMA FlaggedDown ==
    ASSUME NEW a, NEW f, NEW fs \in Seq(FrameType), fs # <<>>, NEW sv, Flagged(a, f, fs, sv),
           NEW b \in Inodes, NEW nsv \in BOOLEAN, nsv => sv, \A k \in 2..Len(fs) : fs[k].dir # b
    PROVE  Flagged(a, f, Append(fs, Frame(b, nsv)), nsv /\ b # Orphan)
<1>. DEFINE n == Len(fs)
            gs == Append(fs, Frame(b, nsv))
<1>1. /\ gs # <<>> /\ Len(gs) = n + 1
      /\ \A k \in 1..n : gs[k] = fs[k]
      /\ gs[n + 1].dir = b /\ gs[n + 1].bak = nsv
  <2>1. Frame(b, nsv).dir = b /\ Frame(b, nsv).bak = nsv
    BY DEF Frame
  <2>. QED  BY <2>1
<1>2. n \in Nat /\ 1 \in 1..n
  OBVIOUS
<1>. HIDE DEF n, gs
<1>3. /\ \A k \in 1..(n + 1) : k \in 1..n \/ k = n + 1
      /\ \A k \in 2..(n + 1) : (k \in 2..n /\ k \in 1..n) \/ k = n + 1
  BY <1>2
<1>4. gs[1].dir = a
  BY <1>1, <1>2 DEF Flagged
<1>5. (nsv /\ b # Orphan) \/ (\E k \in 1..(n + 1) : gs[k].bak) => a = Root /\ f.recurse
  <2>1. \A k \in 1..(n + 1) : gs[k].bak => nsv \/ (k \in 1..n /\ fs[k].bak)
    BY <1>1, <1>3
  <2>. QED  BY <2>1 DEF Flagged, n
<1>6. OnceOrphan(gs)
  <2>1. \A k \in 2..(n + 1) : gs[k].dir = Orphan =>
            \/ k = n + 1 /\ b = Orphan
            \/ k \in 2..n /\ fs[k].dir = Orphan /\ b # Orphan
    BY <1>1, <1>3 DEF n
  <2>. QED  BY <1>1, <2>1 DEF OnceOrphan, Flagged, n
<1>7. Flagged(a, f, gs, nsv /\ b # Orphan)
  BY <1>1, <1>4, <1>5, <1>6 DEF Flagged
<1>. QED  BY <1>7 DEF gs

LEMMA FlaggedUp ==
    ASSUME NEW a, NEW f, NEW fs \in Seq(FrameType), Len(fs) > 1, NEW sv, Flagged(a, f, fs, sv)
    PROVE  Flagged(a, f, Advanced(PopOf(fs)), IF Top(fs).dir = Orphan THEN Top(fs).bak ELSE sv)
<1>. DEFINE n == Len(fs)
            hs == PopOf(fs)
            nsv == IF Top(fs).dir = Orphan THEN Top(fs).bak ELSE sv
<1>1. n \in Nat /\ n > 1 /\ n \in 1..n /\ Top(fs) = fs[n] /\ fs # <<>>
  BY DEF Top
<1>2. /\ hs \in Seq(FrameType) /\ hs # <<>> /\ Len(hs) = n - 1
      /\ \A k \in 1..(n - 1) : hs[k] = fs[k]
  BY PopLemma
<1>. HIDE DEF n, hs, nsv
<1>3. /\ 1 \in 1..(n - 1) /\ \A k \in 1..(n - 1) : k \in 1..n
      /\ \A k \in 2..(n - 1) : k \in 2..n /\ k \in 1..(n - 1)
  BY <1>1
<1>4. hs[1].dir = a
  BY <1>1, <1>2, <1>3 DEF Flagged
<1>5. nsv \/ (\E k \in 1..(n - 1) : hs[k].bak) => a = Root /\ f.recurse
  <2>1. nsv => sv \/ fs[n].bak
    BY <1>1 DEF nsv
  <2>2. \A k \in 1..(n - 1) : hs[k].bak => k \in 1..n /\ fs[k].bak
    BY <1>2, <1>3
  <2>. QED  BY <1>1, <2>1, <2>2 DEF Flagged, n
<1>6. OnceOrphan(hs)
  BY <1>2, <1>3 DEF OnceOrphan, Flagged, n
<1>7. Flagged(a, f, hs, nsv)
  BY <1>2, <1>4, <1>5, <1>6 DEF Flagged
<1>8. Flagged(a, f, Advanced(hs), nsv)
  BY <1>2, <1>7, FlaggedPass
<1>. QED  BY <1>8 DEF hs, nsv


-------------------------------------------------------------------------------
(* The list, in the steps of the specification.                            *)

\* What is on a list; NULL is the list of none.
Got(l) == IF l = Null THEN {} ELSE l

\* Of the thread t: its flag is one that a walk of everything has, and a walk
\* that met with no ERROR has collected what it has come past.
ListingOf(t) ==
    /\ Flagged(start[t], flags[t], frames[t], save[t])
    /\ pc[t] = "idle" => collected[t] = Null
    /\ Well(t) => Collects(img, frames[t], save[t], Got(collected[t]))

AllListing == \A t \in Threads : ListingOf(t)

\* The deleted inodes with a name, by what leads where.
Named == DeletedOf(img, ThroughIn(img, Root, Outside))

ListIsNamed == list # Null /\ (\A t \in Threads : ~refused[t]) => list = Named

\* The inductive invariant.
ListInv == AllListing /\ ListIsNamed

LEMMA ListingOthers ==
    ASSUME AllListing, NEW t \in Threads, UNCHANGED img,
           \A u \in Threads \ {t} :
               /\ pc'[u] = pc[u] /\ retval'[u] = retval[u] /\ start'[u] = start[u]
               /\ flags'[u] = flags[u] /\ frames'[u] = frames[u] /\ refused'[u] = refused[u]
               /\ save'[u] = save[u] /\ collected'[u] = collected[u],
           Flagged(start'[t], flags'[t], frames'[t], save'[t]),
           pc'[t] = "idle" => collected'[t] = Null,
           Going(pc'[t], retval'[t]) /\ ~refused'[t] =>
               Collects(img, frames'[t], save'[t], Got(collected'[t]))
    PROVE  AllListing'
<1>1. ASSUME NEW u \in Threads
      PROVE  /\ Flagged(start'[u], flags'[u], frames'[u], save'[u])
             /\ pc'[u] = "idle" => collected'[u] = Null
             /\ Going(pc'[u], retval'[u]) /\ ~refused'[u] =>
                    Collects(img, frames'[u], save'[u], Got(collected'[u]))
  <2>1. CASE u = t
    BY <2>1
  <2>2. CASE u # t
    <3>1. ListingOf(u)
      BY DEF AllListing
    <3>. QED  BY <2>2, <3>1 DEF ListingOf, Well
  <2>. QED  BY <2>1, <2>2
<1>. QED  BY <1>1 DEF AllListing, ListingOf, Well

LEMMA ListInit == Init => ListInv
<1>. SUFFICES ASSUME Init  PROVE ListInv
  OBVIOUS
<1>1. ASSUME NEW t \in Threads  PROVE Flagged(start[t], flags[t], frames[t], save[t])
  <2>1. frames[t] = <<>> /\ save[t] = FALSE
    BY DEF Init
  <2>. QED  BY <2>1, FlaggedNone
<1>. QED  BY <1>1 DEF Init, ListInv, AllListing, ListingOf, ListIsNamed, Well, Going

\* A list that is not touched stays right.
LEMMA ListStays ==
    ASSUME ListIsNamed, UNCHANGED <<img, list>>, \A t \in Threads : refused[t] => refused'[t]
    PROVE  ListIsNamed'
BY DEF ListIsNamed, Named

\* What is on the list after the entry.
LEMMA GotLemma ==
    ASSUME IInv, NEW t \in Threads, AtEntry(t), NEW c \in AfterAdd(t)
    PROVE  /\ c.save \in BOOLEAN
           /\ Adds(img, save[t], Got(collected[t]), Top(frames[t]).dir, Top(frames[t]).i,
                   c.save, Got(c.list))
<1>1. /\ Entry(t) = img.names[Top(frames[t]).dir][Top(frames[t]).i]
      /\ Entry(t).addr \in Inodes
  BY AtLemma
<1>2. Deleted(Entry(t)) <=> DeletedIn(img, Entry(t))
  BY DEF Deleted, DeletedIn, HasMeta
<1>3. save[t] \in BOOLEAN /\ collected[t] \in (SUBSET Inodes) \cup {Null}
  BY DEF IInv, Collecting
<1>4. CASE save[t] /\ Deleted(Entry(t))
  <2>1. \/ c = [save |-> TRUE, list |-> Got(collected[t]) \cup {Entry(t).addr}]
        \/ c = [save |-> FALSE, list |-> Null]
    BY <1>4 DEF AfterAdd, Got
  <2>2. CASE c = [save |-> TRUE, list |-> Got(collected[t]) \cup {Entry(t).addr}]
    <3>1. Got(collected[t]) \cup {Entry(t).addr} \in SUBSET Inodes
      BY <1>1, <1>3 DEF Got
    <3>2. Got(c.list) = Got(collected[t]) \cup {Entry(t).addr}
      BY <2>2, <3>1, NoListAssumption DEF Got
    <3>. QED  BY <1>1, <1>2, <1>4, <2>2, <3>2 DEF Gathered, Adds
  <2>3. CASE c = [save |-> FALSE, list |-> Null]
    BY <1>4, <2>3 DEF Adds
  <2>. QED  BY <2>1, <2>2, <2>3
<1>5. CASE ~(save[t] /\ Deleted(Entry(t)))
  <2>1. c = [save |-> save[t], list |-> collected[t]]
    BY <1>5 DEF AfterAdd
  <2>. QED  BY <1>1, <1>2, <1>3, <1>5, <2>1 DEF Gathered, Adds
<1>. QED  BY <1>4, <1>5

LEMMA ListBegin ==
    ASSUME IInv, Noting, ListInv, NEW t \in Threads, pc[t] = "idle",
           NEW a \in Inodes, NEW f \in FlagType, WalkFrom(t, a, f)
    PROVE  ListInv'
<1>1. /\ start' = [start EXCEPT ![t] = a] /\ flags' = [flags EXCEPT ![t] = Sane(f)]
      /\ save' = [save EXCEPT ![t] = list = Null /\ a = Root /\ f.recurse]
      /\ UNCHANGED <<img, list, refused, collected>>
  BY DEF WalkFrom
<1>2. \A u \in Threads \ {t} :
          /\ pc'[u] = pc[u] /\ retval'[u] = retval[u] /\ start'[u] = start[u]
          /\ flags'[u] = flags[u] /\ frames'[u] = frames[u] /\ refused'[u] = refused[u]
          /\ save'[u] = save[u] /\ collected'[u] = collected[u]
  <2>1. CASE CanOpen(a)
    <3>1. /\ pc' = [pc EXCEPT ![t] = "walking"] /\ retval' = [retval EXCEPT ![t] = "CONT"]
          /\ frames' = [frames EXCEPT ![t] = <<Frame(a, FALSE)>>]
      BY <2>1 DEF WalkFrom
    <3>. QED  BY <1>1, <3>1 DEF IInv, Functions, Collecting, Noting
  <2>2. CASE ~CanOpen(a)
    <3>1. /\ pc' = [pc EXCEPT ![t] = "walked"] /\ retval' = [retval EXCEPT ![t] = "ERROR"]
          /\ UNCHANGED frames
      BY <2>2 DEF WalkFrom
    <3>. QED  BY <1>1, <3>1 DEF IInv, Functions, Collecting, Noting
  <2>. QED  BY <2>1, <2>2
<1>3. start'[t] = a /\ flags'[t] = Sane(f) /\ save'[t] = (list = Null /\ a = Root /\ f.recurse)
  BY <1>1 DEF Noting, IInv, Collecting
<1>4. save'[t] => a = Root /\ Sane(f).recurse
  BY <1>3 DEF Sane, FlagType
<1>5. collected'[t] = Null
  BY <1>1 DEF ListInv, AllListing, ListingOf
<1>6. AllListing'
  <2>1. CASE CanOpen(a)
    <3>1. frames'[t] = <<Frame(a, FALSE)>>
      BY <2>1 DEF WalkFrom, IInv, Functions
    <3>2. img \in ImageType
      BY ThreadLemma
    <3>3. Flagged(a, Sane(f), <<Frame(a, FALSE)>>, save'[t])
      BY <1>4, FlaggedStart
    <3>4. Collects(img, <<Frame(a, FALSE)>>, save'[t], {})
      BY <1>4, <3>2, CollectsStart
    <3>. QED  BY <1>1, <1>2, <1>3, <1>5, <3>1, <3>3, <3>4, ListingOthers DEF Got, ListInv
  <2>2. CASE ~CanOpen(a)
    <3>1. pc'[t] = "walked" /\ retval'[t] = "ERROR" /\ frames'[t] = frames[t]
      BY <2>2 DEF WalkFrom, IInv, Functions, Collecting
    <3>2. frames[t] = <<>>
      BY ThreadLemma
    <3>3. Flagged(a, Sane(f), <<>>, save'[t])
      BY <1>4, FlaggedNone
    <3>4. ~Going(pc'[t], retval'[t])
      BY <3>1 DEF Going
    <3>. QED  BY <1>1, <1>2, <1>3, <1>5, <3>1, <3>2, <3>3, <3>4, ListingOthers DEF ListInv
  <2>. QED  BY <2>1, <2>2
<1>. QED  BY <1>1, <1>6, ListStays DEF ListInv


\* With a flag that has it go down, the walk goes where the list is made from,
\* and where it goes, except into $OrphanFiles, the list is made from.
LEMMA OutsideLeads ==
    ASSUME NEW im, NEW d, NEW i, NEW f, f.recurse
    PROVE  /\ Leads(im, d, i, Outside) => Leads(im, d, i, f)
           /\ Leads(im, d, i, f) /\ im.names[d][i].addr # Orphan => Leads(im, d, i, Outside)
BY DEF Leads, Outside

LEMMA MoreThanOne ==
    ASSUME NEW S, NEW s \in Seq(S), s # <<>>, Len(s) # 1
    PROVE  Len(s) > 1
<1>1. Len(s) \in Nat /\ Len(s) # 0 /\ Len(s) # 1
  OBVIOUS
<1>2. \A n \in Nat : n # 0 /\ n # 1 => n > 1
  OBVIOUS
<1>. QED  BY <1>1, <1>2

LEMMA ListPassing ==
    ASSUME IInv, Noting, ListInv, NEW t \in Threads, PassBy(t)
    PROVE  /\ Flagged(start[t], flags[t], frames'[t], save'[t]) /\ pc'[t] = "walking"
           /\ Going(pc'[t], retval'[t]) /\ ~refused'[t] =>
                  Collects(img, frames'[t], save'[t], Got(collected'[t]))
<1>. DEFINE fs == frames[t]
            d == Top(frames[t]).dir
            i == Top(frames[t]).i
<1>1. /\ AtEntry(t) /\ pc[t] = "walking"
      /\ ~Enters(t) \/ ~CanOpen(Entry(t).addr)
      /\ frames' = [frames EXCEPT ![t] = Advanced(@)] /\ UNCHANGED <<pc, retval, refused>>
  BY DEF PassBy, Goes, AtEntry
<1>2. PICK c \in AfterAdd(t) : /\ collected' = [collected EXCEPT ![t] = c.list]
                               /\ save' = [save EXCEPT ![t] = c.save]
  BY DEF PassBy
<1>3. /\ c.save \in BOOLEAN
      /\ Adds(img, save[t], Got(collected[t]), d, i, c.save, Got(c.list))
      /\ c.save => save[t]
  BY <1>1, GotLemma DEF Adds
<1>4. /\ img \in ImageType /\ fs \in Seq(FrameType) /\ fs # <<>>
      /\ i \in DOMAIN img.names[d]
  BY <1>1, AtLemma
<1>5. frames'[t] = Advanced(fs) /\ save'[t] = c.save /\ collected'[t] = c.list
  BY <1>1, <1>2 DEF IInv, Functions, Collecting
<1>6. Flagged(start[t], flags[t], fs, save[t])
  BY DEF ListInv, AllListing, ListingOf
<1>7. Flagged(start[t], flags[t], Advanced(fs), c.save)
  BY <1>3, <1>4, <1>6, FlaggedPass
<1>8. c.save /\ Leads(img, d, i, Outside) => \E k \in 1..Len(fs) : fs[k].dir = img.names[d][i].addr
  <2>1. c.save => flags[t].recurse
    BY <1>3, <1>6 DEF Flagged
  <2>. QED  BY <1>1, <2>1, OutsideLeads, PassedLemma
<1>9. Well(t) => Collects(img, fs, save[t], Got(collected[t]))
  BY DEF ListInv, AllListing, ListingOf
<1>10. Well(t) => Collects(img, Advanced(fs), c.save, Got(c.list))
  BY <1>3, <1>4, <1>8, <1>9, CollectsPass
<1>. QED  BY <1>1, <1>5, <1>7, <1>10 DEF Well

LEMMA ListGoingDown ==
    ASSUME IInv, Noting, ListInv, NEW t \in Threads, Descend(t)
    PROVE  /\ Flagged(start[t], flags[t], frames'[t], save'[t]) /\ pc'[t] = "walking"
           /\ Going(pc'[t], retval'[t]) /\ ~refused'[t] =>
                  Collects(img, frames'[t], save'[t], Got(collected'[t]))
<1>. DEFINE fs == frames[t]
            d == Top(frames[t]).dir
            i == Top(frames[t]).i
            b == Entry(t).addr
<1>1. /\ AtEntry(t) /\ pc[t] = "walking" /\ Enters(t) /\ CanOpen(b)
      /\ UNCHANGED <<pc, retval, refused>>
  BY DEF Descend, Goes, AtEntry
<1>2. PICK c \in AfterAdd(t) :
        /\ collected' = [collected EXCEPT ![t] = c.list]
        /\ save' = [save EXCEPT ![t] = c.save /\ b # Orphan]
        /\ frames' = [frames EXCEPT ![t] = Append(@, Frame(b, c.save))]
  BY DEF Descend
<1>3. /\ c.save \in BOOLEAN
      /\ Adds(img, save[t], Got(collected[t]), d, i, c.save, Got(c.list))
      /\ c.save => save[t]
  BY <1>1, GotLemma DEF Adds
<1>4. /\ img \in ImageType /\ fs \in Seq(FrameType) /\ fs # <<>>
      /\ i \in DOMAIN img.names[d] /\ img.names[d][i].addr = b /\ b \in Inodes
      /\ Entry(t) = img.names[d][i]
  BY <1>1, AtLemma
<1>5. /\ frames'[t] = Append(fs, Frame(b, c.save)) /\ collected'[t] = c.list
      /\ save'[t] = (c.save /\ b # Orphan)
  BY <1>2 DEF IInv, Functions, Collecting
<1>6. Flagged(start[t], flags[t], fs, save[t])
  BY DEF ListInv, AllListing, ListingOf
<1>7. \A k \in 2..Len(fs) : fs[k].dir # b
  <2>1. stack_seen[t] = Way(fs)
    BY ThreadLemma DEF InStep
  <2>2. ASSUME NEW k \in 2..Len(fs)  PROVE k - 1 \in DOMAIN Way(fs) /\ Way(fs)[k - 1] = fs[k].dir
    <3>1. /\ Way(fs) \in Seq(Inodes) /\ Len(Way(fs)) = Len(fs) - 1
          /\ \A j \in 1..Len(Way(fs)) : Way(fs)[j] = fs[j + 1].dir
      BY <1>4, WayLemma
    <3>2. Len(fs) \in Nat
      BY <1>4
    <3>3. k - 1 \in 1..(Len(fs) - 1) /\ (k - 1) + 1 = k
      BY <3>2
    <3>. QED  BY <3>1, <3>3
  <2>. QED  BY <1>1, <2>1, <2>2 DEF Enters
<1>8. Leads(img, d, i, flags[t])
  BY <1>1, <1>4, LeadsLemma DEF Enters
<1>. HIDE DEF b
<1>9. Flagged(start[t], flags[t], Append(fs, Frame(b, c.save)), c.save /\ b # Orphan)
  BY <1>3, <1>4, <1>6, <1>7, FlaggedDown
<1>10. Well(t) => Collects(img, fs, save[t], Got(collected[t]))
  BY DEF ListInv, AllListing, ListingOf
<1>11. Well(t) => Collects(img, Append(fs, Frame(b, c.save)), c.save /\ b # Orphan, Got(c.list))
  <2>1. CASE b = Orphan
    <3>1. OnceOrphan(Append(fs, Frame(b, c.save)))
      BY <1>9 DEF Flagged
    <3>2. Well(t) => Collects(img, Append(fs, Frame(Orphan, c.save)), FALSE, Got(c.list))
      BY <1>3, <1>4, <1>10, <2>1, <3>1, CollectsInto
    <3>. QED  BY <2>1, <3>2
  <2>2. CASE b # Orphan
    <3>1. c.save => Leads(img, d, i, Outside)
      <4>1. c.save => flags[t].recurse
        BY <1>3, <1>6 DEF Flagged
      <4>. QED  BY <1>4, <1>8, <2>2, <4>1, OutsideLeads
    <3>2. Well(t) => Collects(img, Append(fs, Frame(b, c.save)), c.save, Got(c.list))
      BY <1>3, <1>4, <1>10, <2>2, <3>1, CollectsDown
    <3>3. (c.save /\ b # Orphan) = c.save
      BY <1>3, <2>2
    <3>. QED  BY <3>2, <3>3
  <2>. QED  BY <2>1, <2>2
<1>. QED  BY <1>1, <1>5, <1>9, <1>11 DEF Well

LEMMA ListGoingUp ==
    ASSUME IInv, Noting, ListInv, NEW t \in Threads, Leave(t)
    PROVE  /\ Flagged(start[t], flags[t], frames'[t], save'[t]) /\ pc'[t] # "idle"
           /\ Going(pc'[t], retval'[t]) /\ ~refused'[t] =>
                  Collects(img, frames'[t], save'[t], Got(collected'[t]))
<1>. DEFINE fs == frames[t]
<1>1. /\ pc[t] = "walking" /\ Top(fs).i > Len(img.names[Top(fs).dir])
      /\ UNCHANGED <<collected, refused>>
  BY DEF Leave, AtEnd, Here
<1>2. img \in ImageType /\ fs \in Seq(FrameType) /\ fs # <<>>
  BY <1>1, ThreadLemma DEF InStep
<1>3. Flagged(start[t], flags[t], fs, save[t])
  BY DEF ListInv, AllListing, ListingOf
<1>4. Well(t) => Collects(img, fs, save[t], Got(collected[t]))
  BY DEF ListInv, AllListing, ListingOf
<1>5. Well(t) <=> ~refused[t]
  BY <1>1 DEF Well, Going
<1>6. CASE Len(fs) = 1
  <2>1. frames'[t] = <<>> /\ save'[t] = save[t] /\ pc'[t] = "walked"
    BY <1>6 DEF Leave, Returns, IInv, Functions
  <2>2. save[t] => start[t] = Root /\ flags[t].recurse /\ fs[1].dir = Root
    BY <1>2, <1>3 DEF Flagged
  <2>3. Flagged(start[t], flags[t], <<>>, save[t])
    BY <2>2, FlaggedNone
  <2>4. Well(t) => Collects(img, <<>>, save[t], Got(collected[t]))
    BY <1>1, <1>2, <1>4, <1>6, <2>2, CollectsEnd, AddressesAssumption
  <2>. QED  BY <1>1, <1>5, <2>1, <2>3, <2>4
<1>7. CASE Len(fs) # 1
  <2>1. Len(fs) > 1
    <3>. HIDE DEF fs
    <3>. QED  BY <1>2, <1>7, MoreThanOne
  <2>. DEFINE nsv == IF Top(fs).dir = Orphan THEN Top(fs).bak ELSE save[t]
  <2>2. frames'[t] = Advanced(PopOf(fs)) /\ save'[t] = nsv /\ pc'[t] = "walking"
    BY <1>1, <1>7 DEF Leave, Back, Here, IInv, Functions, Collecting
  <2>3. Flagged(start[t], flags[t], Advanced(PopOf(fs)), nsv)
    BY <1>2, <1>3, <2>1, FlaggedUp
  <2>4. Well(t) => Collects(img, Advanced(PopOf(fs)), nsv, Got(collected[t]))
    <3>1. OnceOrphan(fs)
      BY <1>3 DEF Flagged
    <3>. QED  BY <1>1, <1>2, <1>4, <2>1, <3>1, CollectsUp
  <2>. QED  BY <1>1, <1>5, <2>2, <2>3, <2>4
<1>. QED  BY <1>6, <1>7

\* A callback that stops the walk, or refuses an entry.
LEMMA ListBroken ==
    ASSUME IInv, Noting, ListInv, NEW t \in Threads, VisitStop(t) \/ VisitError(t)
    PROVE  /\ Flagged(start[t], flags[t], frames'[t], save'[t]) /\ pc'[t] # "idle"
           /\ ~Going(pc'[t], retval'[t]) \/ refused'[t]
<1>. DEFINE fs == frames[t]
<1>1. Flagged(start[t], flags[t], fs, save[t])
  BY DEF ListInv, AllListing, ListingOf
<1>2. CASE VisitStop(t)
  <2>1. frames'[t] = <<>> /\ save'[t] = FALSE /\ pc'[t] = "walked" /\ retval'[t] = "STOP"
    BY <1>2 DEF VisitStop, Returns, IInv, Functions, Collecting
  <2>. QED  BY <2>1, FlaggedNone DEF Going
<1>3. CASE VisitError(t)
  <2>1. refused'[t] /\ pc[t] = "walking"
    BY <1>3 DEF VisitError, AtEntry, Noting
  <2>2. fs \in Seq(FrameType) /\ fs # <<>>
    BY <2>1, ThreadLemma DEF InStep
  <2>3. CASE Len(fs) = 1
    <3>1. frames'[t] = <<>> /\ save'[t] = save[t] /\ pc'[t] = "walked"
      BY <1>3, <2>3 DEF VisitError, Returns, IInv, Functions
    <3>2. Flagged(start[t], flags[t], <<>>, save[t])
      BY <1>1, FlaggedNone DEF Flagged
    <3>. QED  BY <2>1, <3>1, <3>2
  <2>4. CASE Len(fs) # 1
    <3>1. Len(fs) > 1
      <4>. HIDE DEF fs
      <4>. QED  BY <2>2, <2>4, MoreThanOne
    <3>2. /\ frames'[t] = Advanced(PopOf(fs)) /\ pc'[t] = "walking"
          /\ save'[t] = IF Top(fs).dir = Orphan THEN Top(fs).bak ELSE save[t]
      BY <1>3, <2>1, <2>4 DEF VisitError, Back, Here, IInv, Functions, Collecting
    <3>. QED  BY <1>1, <2>1, <2>2, <3>1, <3>2, FlaggedUp
  <2>. QED  BY <2>3, <2>4
<1>. QED  BY <1>2, <1>3

LEMMA ListWalking ==
    ASSUME IInv, Noting, ListInv, NEW t \in Threads, Walking(t)
    PROVE  ListInv'
<1>1. /\ UNCHANGED <<img, start, flags>>
      /\ \A u \in Threads \ {t} :
          /\ pc'[u] = pc[u] /\ retval'[u] = retval[u] /\ start'[u] = start[u]
          /\ flags'[u] = flags[u] /\ frames'[u] = frames[u] /\ refused'[u] = refused[u]
          /\ save'[u] = save[u] /\ collected'[u] = collected[u]
  BY StaysLemma
<1>2. AllListing
  BY DEF ListInv
<1>3. CASE VisitStop(t) \/ VisitError(t)
  <2>1. UNCHANGED list /\ \A u \in Threads : refused[u] => refused'[u]
    BY <1>3 DEF VisitStop, VisitError, Noting
  <2>2. AllListing'
    BY <1>1, <1>2, <1>3, ListBroken, ListingOthers
  <2>. QED  BY <1>1, <2>1, <2>2, ListStays DEF ListInv
<1>4. CASE PassBy(t)
  <2>1. UNCHANGED <<list, refused>>
    BY <1>4 DEF PassBy
  <2>2. AllListing'
    BY <1>1, <1>2, <1>4, ListPassing, ListingOthers
  <2>. QED  BY <1>1, <2>1, <2>2, ListStays DEF ListInv
<1>5. CASE Descend(t)
  <2>1. UNCHANGED <<list, refused>>
    BY <1>5 DEF Descend
  <2>2. AllListing'
    BY <1>1, <1>2, <1>5, ListGoingDown, ListingOthers
  <2>. QED  BY <1>1, <2>1, <2>2, ListStays DEF ListInv
<1>6. CASE Leave(t)
  <2>1. UNCHANGED <<list, refused>>
    BY <1>6 DEF Leave
  <2>2. AllListing'
    BY <1>1, <1>2, <1>6, ListGoingUp, ListingOthers
  <2>. QED  BY <1>1, <2>1, <2>2, ListStays DEF ListInv
<1>7. CASE Finish(t)
  <2>1. /\ pc[t] = "walked" /\ pc'[t] = "idle" /\ collected'[t] = Null
        /\ UNCHANGED <<frames, save, refused>>
        /\ list' # list => save[t] /\ retval[t] = "CONT" /\ list' = collected[t]
    BY <1>7 DEF Finish, IInv, Functions, Collecting
  <2>2. ~Going(pc'[t], retval'[t])
    BY <2>1 DEF Going
  <2>3. Flagged(start[t], flags[t], frames[t], save[t])
    BY <1>2 DEF AllListing, ListingOf
  <2>4. AllListing'
    BY <1>1, <1>2, <2>1, <2>2, <2>3, ListingOthers
  <2>5. ASSUME list' # list, list' # Null, \A u \in Threads : ~refused[u]
        PROVE  list' = Named
    <3>1. save[t] = TRUE /\ Got(collected[t]) = list' /\ Well(t)
      BY <2>1, <2>5 DEF Got, Well, Going, IInv, Collecting
    <3>2. frames[t] = <<>> /\ img \in ImageType
      BY <2>1, ThreadLemma
    <3>3. Collects(img, <<>>, TRUE, list')
      BY <1>2, <3>1, <3>2 DEF AllListing, ListingOf
    <3>. QED  BY <3>2, <3>3, CollectsAll DEF Named
  <2>6. ListIsNamed'
    BY <1>1, <2>1, <2>5 DEF ListIsNamed, Named, ListInv
  <2>. QED  BY <2>4, <2>6 DEF ListInv
<1>. QED  BY <1>3, <1>4, <1>5, <1>6, <1>7 DEF Walking

LEMMA ListStep ==
    ASSUME IInv, Noting, ListInv, WalkSteps
    PROVE  ListInv'
<1>1. CASE UNCHANGED vars
  BY <1>1 DEF vars, local, ListInv, AllListing, ListingOf, ListIsNamed, Named, Well
<1>. QED  BY <1>1, ListBegin, ListWalking DEF WalkSteps

\* By what leads where, or as the property has it, the named files are the same.
LEMMA NamedLemma == NamedDeleted = Named
<1>1. Through(Root, Outside) = ThroughIn(img, Root, Outside)
  BY ThroughLemma
<1>2. \A d, i : Deleted(img.names[d][i]) <=> DeletedIn(img, img.names[d][i])
  BY DEF Deleted, DeletedIn, HasMeta
<1>. QED  BY <1>1, <1>2 DEF NamedDeleted, Named, DeletedOf, Outside

\* The list a file system is left with names every deleted inode that has a name
\* outside $OrphanFiles and no other, whichever of the walks has made it, however
\* the directories contain each other, and whatever memory gave out; only an ERROR
\* of a callback can spoil it.
THEOREM CompleteList == Spec => []ListIsComplete
<1>1. Init => Noting /\ AllShown /\ ListInv
  BY NotingInit, ShownInit, ListInit
<1>2. IInv /\ Noting /\ AllShown /\ ListInv /\ [Next]_vars => Noting' /\ AllShown' /\ ListInv'
  BY NextWalks, ShownStep, ListStep
<1>3. ListInv => ListIsComplete
  BY NamedLemma DEF ListInv, ListIsNamed, ListIsComplete
<1>. QED  BY <1>1, <1>2, <1>3, Invariance, PTL DEF Spec


===============================================================================
