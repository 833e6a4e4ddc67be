---------------------------- MODULE AttrRunsProofs ----------------------------
(***************************************************************************)
(* Proofs about AttrRuns, for any files and devices, the pieces in any     *)
(* order: as long as nothing is laid over runs the list is consecutive and *)
(* implements AttrContent, and what is read from it or shown by a walk are *)
(* the bytes of the file, but for what the device fails to give.           *)
(***************************************************************************)
EXTENDS AttrRuns, SequenceTheorems, WellFoundedInduction, TLAPS

-------------------------------------------------------------------------------
(* Sequences.                                                              *)

\* A set of naturals that is not empty has a least one.
LEMMA LeastOne ==
    ASSUME NEW S \in SUBSET Nat, S # {}
    PROVE  \E n \in S : \A m \in S : n <= m
<1>1. PICK n \in S : \A m \in S : ~ (<<m, n>> \in OpToRel(<, Nat))
  BY WFMin, NatLessThanWellFounded
<1>2. ASSUME NEW m \in S
      PROVE  n <= m
  <2>1. ~ (m < n)
    BY <1>1 DEF OpToRel
  <2>. QED  BY <2>1
<1>. QED  BY <1>2

\* A sequence after another.
LEMMA ConcatLemma ==
    ASSUME NEW S, NEW s \in Seq(S), NEW t \in Seq(S)
    PROVE  /\ s \o t \in Seq(S) /\ Len(s \o t) = Len(s) + Len(t)
           /\ \A i \in 1..Len(s) : (s \o t)[i] = s[i] /\ i \in 1..Len(s \o t)
           /\ \A i \in 1..Len(t) : (s \o t)[Len(s) + i] = t[i] /\ Len(s) + i \in 1..Len(s \o t)
           /\ \A i \in 1..Len(s \o t) :
                 \/ i \in 1..Len(s) /\ (s \o t)[i] = s[i]
                 \/ i - Len(s) \in 1..Len(t) /\ (s \o t)[i] = t[i - Len(s)]
<1>1. /\ Len(s) \in Nat /\ Len(t) \in Nat /\ s \o t \in Seq(S) /\ Len(s \o t) = Len(s) + Len(t)
      /\ \A i \in 1..(Len(s) + Len(t)) :
            (s \o t)[i] = IF i <= Len(s) THEN s[i] ELSE t[i - Len(s)]
  OBVIOUS
<1>2. ASSUME NEW i \in 1..Len(s)
      PROVE  (s \o t)[i] = s[i] /\ i \in 1..Len(s \o t)
  BY <1>1
<1>3. ASSUME NEW i \in 1..Len(t)
      PROVE  (s \o t)[Len(s) + i] = t[i] /\ Len(s) + i \in 1..Len(s \o t)
  <2>1. /\ Len(s) + i \in 1..(Len(s) + Len(t)) /\ ~(Len(s) + i <= Len(s))
        /\ Len(s) + i - Len(s) = i
    BY <1>1
  <2>. QED  BY <1>1, <2>1
<1>4. ASSUME NEW i \in 1..Len(s \o t)
      PROVE  \/ i \in 1..Len(s) /\ (s \o t)[i] = s[i]
             \/ i - Len(s) \in 1..Len(t) /\ (s \o t)[i] = t[i - Len(s)]
  BY <1>1
<1>. QED  BY <1>1, <1>2, <1>3, <1>4

\* What is before place i of a sequence, and what is behind it.
IsSplit(S, s, i, f, b) ==
    /\ f \in Seq(S) /\ Len(f) = i - 1 /\ \A k \in 1..(i - 1) : f[k] = s[k]
    /\ b \in Seq(S) /\ Len(b) = Len(s) - i /\ \A k \in 1..(Len(s) - i) : b[k] = s[i + k]

LEMMA SplitLemma ==
    ASSUME NEW S, NEW s \in Seq(S), NEW i \in 1..Len(s)
    PROVE  IsSplit(S, s, i, SubSeq(s, 1, i - 1), SubSeq(s, i + 1, Len(s)))
<1>. DEFINE f == SubSeq(s, 1, i - 1)
            b == SubSeq(s, i + 1, Len(s))
<1>1. Len(s) \in Nat /\ i \in Nat
  OBVIOUS
<1>2. f \in Seq(S) /\ Len(f) = i - 1 /\ \A k \in 1..(i - 1) : f[k] = s[k]
  BY <1>1
<1>3. b \in Seq(S) /\ Len(b) = Len(s) - i /\ \A k \in 1..(Len(s) - i) : b[k] = s[i + k]
  BY <1>1
<1>. QED  BY <1>2, <1>3 DEF IsSplit

-------------------------------------------------------------------------------
(* Chains of runs.                                                         *)

\* The runs of s follow each other from a to b.
Spans(s, a, b) ==
    /\ s \in Seq(RunType) /\ a \in Nat /\ b \in Nat
    /\ s = <<>> => a = b
    /\ s # <<>> => Chained(s) /\ StartOf(s) = a /\ EndOf(s) = b

\* What is there of the pieces.
Real(s) == {s[i] : i \in {j \in DOMAIN s : s[j].kind # "filler"}}

Apart(s) == \A i \in 2..Len(s) : s[i].kind = "filler" => s[i - 1].kind # "filler"
FillerFirst(s) == s # <<>> /\ s[1].kind = "filler"
FillerLast(s) == s # <<>> /\ s[Len(s)].kind = "filler"

LEMMA RunLemma ==
    ASSUME NEW s \in Seq(RunType), NEW i \in 1..Len(s)
    PROVE  /\ s[i] \in RunType /\ s[i].offset \in Nat /\ s[i].len \in Nat \ {0} /\ s[i].addr \in Nat
           /\ End(s[i]) \in Nat /\ s[i].offset < End(s[i]) /\ End(s[i]) = s[i].offset + s[i].len
<1>1. s[i] \in RunType
  OBVIOUS
<1>. QED  BY <1>1 DEF RunType, End

LEMMA EmptyLemma == Spans(<<>>, 0, 0) /\ Apart(<<>>) /\ Real(<<>>) = {}
BY DEF Spans, Apart, Real

\* In a chain runs are in order, and all are between its ends.
LEMMA OrderLemma ==
    ASSUME NEW s, NEW a, NEW b, Spans(s, a, b)
    PROVE  /\ \A i, j \in 1..Len(s) : i < j => End(s[i]) <= s[j].offset
           /\ \A i \in 1..Len(s) : a <= s[i].offset /\ End(s[i]) <= b
           /\ a <= b
<1>1. s \in Seq(RunType) /\ Len(s) \in Nat /\ a \in Nat /\ b \in Nat
  BY DEF Spans
<1>2. CASE s = <<>>
  BY <1>1, <1>2 DEF Spans
<1>3. CASE s # <<>>
  <2>1. /\ Len(s) # 0 /\ 1 \in 1..Len(s) /\ Len(s) \in 1..Len(s)
        /\ s[1].offset = a /\ End(s[Len(s)]) = b
        /\ \A i \in 2..Len(s) : s[i].offset = End(s[i - 1])
    BY <1>1, <1>3 DEF Spans, Chained, StartOf, EndOf
  <2>2. ASSUME NEW i \in 1..Len(s), NEW j \in 1..Len(s), i < j
        PROVE  End(s[i]) <= s[j].offset
    <3>. DEFINE Failing == {k \in 1..Len(s) : i < k /\ ~(End(s[i]) <= s[k].offset)}
    <3>1. ASSUME Failing # {}  PROVE FALSE
      <4>1. Failing \in SUBSET Nat
        BY <1>1
      <4>2. PICK k \in Failing : \A m \in Failing : k <= m
        BY <3>1, <4>1, LeastOne
      <4>3. k \in 2..Len(s) /\ k - 1 \in 1..Len(s) /\ i <= k - 1 /\ k - 1 < k
        BY <1>1, <4>2
      <4>4. s[k].offset = End(s[k - 1]) /\ End(s[i]) \in Nat /\ End(s[k - 1]) \in Nat
            /\ s[k - 1].offset < End(s[k - 1]) /\ s[k - 1].offset \in Nat
        BY <1>1, <2>1, <4>3, RunLemma
      <4>5. k - 1 \notin Failing
        BY <1>1, <4>2, <4>3
      <4>6. i = k - 1 \/ End(s[i]) <= s[k - 1].offset
        BY <4>3, <4>5
      <4>7. End(s[i]) <= s[k].offset
        BY <4>4, <4>6
      <4>. QED  BY <4>2, <4>7
    <3>. QED  BY <2>2, <3>1
  <2>3. ASSUME NEW i \in 1..Len(s)
        PROVE  a <= s[i].offset /\ End(s[i]) <= b
    <3>1. /\ s[i].offset \in Nat /\ End(s[i]) \in Nat
          /\ End(s[1]) \in Nat /\ s[1].offset < End(s[1]) /\ s[1].offset \in Nat
          /\ s[Len(s)].offset \in Nat /\ s[Len(s)].offset < End(s[Len(s)]) /\ End(s[Len(s)]) \in Nat
      BY <1>1, <2>1, RunLemma
    <3>2. a <= s[i].offset
      <4>1. i = 1 \/ End(s[1]) <= s[i].offset
        BY <2>1, <2>2
      <4>. QED  BY <2>1, <3>1, <4>1
    <3>3. End(s[i]) <= b
      <4>1. i = Len(s) \/ End(s[i]) <= s[Len(s)].offset
        BY <1>1, <2>1, <2>2
      <4>. QED  BY <2>1, <3>1, <4>1
    <3>. QED  BY <3>2, <3>3
  <2>4. a <= b
    <3>1. s[1].offset \in Nat /\ End(s[1]) \in Nat /\ s[1].offset < End(s[1])
      BY <1>1, <2>1, RunLemma
    <3>. QED  BY <1>1, <2>1, <2>3, <3>1
  <2>. QED  BY <2>2, <2>3, <2>4
<1>. QED  BY <1>2, <1>3

\* A chain after another is one.
LEMMA JoinLemma ==
    ASSUME NEW s, NEW t, NEW a, NEW b, NEW c, Spans(s, a, b), Spans(t, b, c),
           Apart(s), Apart(t), ~(FillerLast(s) /\ FillerFirst(t))
    PROVE  /\ Spans(s \o t, a, c) /\ Apart(s \o t) /\ Real(s \o t) = Real(s) \cup Real(t)
           /\ FillerLast(s \o t) => FillerLast(t) \/ (t = <<>> /\ FillerLast(s))
           /\ s \o t = <<>> => s = <<>> /\ t = <<>>
<1>. DEFINE l == s \o t
            m == Len(s)
            n == Len(t)
<1>1. s \in Seq(RunType) /\ t \in Seq(RunType) /\ m \in Nat /\ n \in Nat
      /\ a \in Nat /\ b \in Nat /\ c \in Nat
  BY DEF Spans
<1>2. /\ l \in Seq(RunType) /\ Len(l) = m + n
      /\ \A i \in 1..m : l[i] = s[i] /\ i \in 1..Len(l)
      /\ \A i \in 1..n : l[m + i] = t[i] /\ m + i \in 1..Len(l)
      /\ \A i \in 1..Len(l) : \/ i \in 1..m /\ l[i] = s[i]
                              \/ i - m \in 1..n /\ l[i] = t[i - m]
  BY <1>1, ConcatLemma, Zenon
<1>3. (s = <<>> <=> m = 0) /\ (t = <<>> <=> n = 0)
  BY <1>1
<1>. HIDE DEF l, m, n
<1>4. l = <<>> <=> Len(l) = 0
  BY <1>2
<1>5. /\ m # 0 => /\ s[1].offset = a /\ End(s[m]) = b /\ 1 \in 1..m /\ m \in 1..m
                  /\ \A i \in 2..m : s[i].offset = End(s[i - 1])
      /\ n # 0 => /\ t[1].offset = b /\ End(t[n]) = c /\ 1 \in 1..n /\ n \in 1..n
                  /\ \A i \in 2..n : t[i].offset = End(t[i - 1])
  BY <1>1, <1>3 DEF Spans, Chained, StartOf, EndOf, m, n
<1>6. (m = 0 => a = b) /\ (n = 0 => b = c)
  BY <1>3 DEF Spans
<1>7. Spans(l, a, c)
  <2>1. CASE l = <<>>
    BY <1>1, <1>2, <1>4, <1>6, <2>1 DEF Spans
  <2>2. CASE l # <<>>
    <3>1. l[1].offset = a
      <4>1. CASE m # 0
        BY <1>2, <1>5, <4>1
      <4>2. CASE m = 0
        <5>1. n # 0 /\ 1 \in 1..n /\ m + 1 = 1
          BY <1>1, <1>2, <1>4, <2>2, <4>2
        <5>. QED  BY <1>2, <1>5, <1>6, <4>2, <5>1
      <4>. QED  BY <4>1, <4>2
    <3>2. End(l[Len(l)]) = c
      <4>1. CASE n # 0
        <5>1. l[m + n] = t[n]
          BY <1>2, <1>5, <4>1
        <5>. QED  BY <1>2, <1>5, <4>1, <5>1
      <4>2. CASE n = 0
        <5>1. m # 0 /\ Len(l) = m
          BY <1>1, <1>2, <1>4, <2>2, <4>2
        <5>. QED  BY <1>2, <1>5, <1>6, <4>2, <5>1
      <4>. QED  BY <4>1, <4>2
    <3>3. ASSUME NEW i \in 2..Len(l)
          PROVE  l[i].offset = End(l[i - 1])
      <4>1. CASE i \in 2..m
        <5>1. i \in 1..m /\ i - 1 \in 1..m /\ m # 0
          BY <1>1, <4>1
        <5>. QED  BY <1>2, <1>5, <4>1, <5>1
      <4>2. CASE i = m + 1
        <5>1. m # 0 /\ n # 0 /\ i - 1 = m
          BY <1>1, <1>2, <4>2
        <5>. QED  BY <1>2, <1>5, <4>2, <5>1
      <4>3. CASE i - m \in 2..n
        <5>1. /\ i - m \in 1..n /\ i - m - 1 \in 1..n /\ n # 0
              /\ m + (i - m) = i /\ m + (i - m - 1) = i - 1
          BY <1>1, <4>3
        <5>2. l[i] = t[i - m] /\ l[i - 1] = t[i - m - 1]
          BY <1>2, <5>1
        <5>. QED  BY <1>5, <4>3, <5>1, <5>2
      <4>. QED  BY <1>1, <1>2, <4>1, <4>2, <4>3
    <3>. QED  BY <1>1, <1>2, <2>2, <3>1, <3>2, <3>3 DEF Spans, Chained, StartOf, EndOf
  <2>. QED  BY <2>1, <2>2
<1>8. Apart(l)
  <2>. SUFFICES ASSUME NEW i \in 2..Len(l), l[i].kind = "filler"
                PROVE  l[i - 1].kind # "filler"
    BY DEF Apart
  <2>1. CASE i \in 2..m
    <3>1. i \in 1..m /\ i - 1 \in 1..m
      BY <1>1, <2>1
    <3>. QED  BY <1>2, <2>1, <3>1 DEF Apart, m
  <2>2. CASE i = m + 1
    <3>1. m # 0 /\ n # 0 /\ i - 1 = m
      BY <1>1, <1>2, <2>2
    <3>2. l[i] = t[1] /\ l[i - 1] = s[m] /\ s # <<>> /\ t # <<>>
      BY <1>2, <1>3, <1>5, <2>2, <3>1
    <3>. QED  BY <3>2 DEF FillerLast, FillerFirst, m
  <2>3. CASE i - m \in 2..n
    <3>1. /\ i - m \in 1..n /\ i - m - 1 \in 1..n
          /\ m + (i - m) = i /\ m + (i - m - 1) = i - 1
      BY <1>1, <2>3
    <3>2. l[i] = t[i - m] /\ l[i - 1] = t[i - m - 1]
      BY <1>2, <3>1
    <3>. QED  BY <2>3, <3>2 DEF Apart, n
  <2>. QED  BY <1>1, <1>2, <2>1, <2>2, <2>3
<1>9. Real(l) = Real(s) \cup Real(t)
  <2>0. DOMAIN l = 1..Len(l) /\ DOMAIN s = 1..m /\ DOMAIN t = 1..n
    BY <1>1, <1>2 DEF m, n
  <2>1. ASSUME NEW r \in Real(l)  PROVE r \in Real(s) \cup Real(t)
    <3>1. PICK i \in 1..Len(l) : l[i].kind # "filler" /\ r = l[i]
      BY <2>0, <2>1 DEF Real
    <3>. QED  BY <1>2, <2>0, <3>1 DEF Real
  <2>2. ASSUME NEW r \in Real(s)  PROVE r \in Real(l)
    <3>1. PICK i \in 1..m : s[i].kind # "filler" /\ r = s[i]
      BY <2>0, <2>2 DEF Real
    <3>. QED  BY <1>2, <2>0, <3>1 DEF Real
  <2>3. ASSUME NEW r \in Real(t)  PROVE r \in Real(l)
    <3>1. PICK i \in 1..n : t[i].kind # "filler" /\ r = t[i]
      BY <2>0, <2>3 DEF Real
    <3>. QED  BY <1>2, <2>0, <3>1 DEF Real
  <2>. QED  BY <2>1, <2>2, <2>3
<1>10. ASSUME FillerLast(l)  PROVE FillerLast(t) \/ (t = <<>> /\ FillerLast(s))
  <2>1. CASE n # 0
    <3>1. l[Len(l)] = t[n] /\ t # <<>> /\ n = Len(t)
      BY <1>2, <1>3, <1>5, <2>1 DEF n
    <3>2. l[Len(l)].kind = "filler"
      BY <1>10 DEF FillerLast
    <3>3. t[Len(t)].kind = "filler"
      BY <3>1, <3>2
    <3>. QED  BY <3>1, <3>3 DEF FillerLast
  <2>2. CASE n = 0
    <3>1. m # 0 /\ Len(l) = m
      BY <1>1, <1>2, <1>4, <1>10, <2>2 DEF FillerLast
    <3>2. l[Len(l)] = s[m] /\ s # <<>> /\ t = <<>>
      BY <1>2, <1>3, <1>5, <2>2, <3>1
    <3>. QED  BY <1>10, <3>2 DEF FillerLast, m
  <2>. QED  BY <2>1, <2>2
<1>11. l = <<>> => s = <<>> /\ t = <<>>
  BY <1>1, <1>2, <1>3, <1>4
<1>. QED  BY <1>7, <1>8, <1>9, <1>10, <1>11 DEF l

\* A chain without its filler i is two chains, and has all that was real.
LEMMA TakeOutLemma ==
    ASSUME NEW s, NEW a, NEW b, Spans(s, a, b), Apart(s), NEW i \in 1..Len(s), s[i].kind = "filler",
           NEW f, NEW g, IsSplit(RunType, s, i, f, g)
    PROVE  /\ Spans(f, a, s[i].offset) /\ Spans(g, End(s[i]), b) /\ Apart(f) /\ Apart(g)
           /\ Real(s) = Real(f) \cup Real(g)
           /\ ~FillerLast(f) /\ ~FillerFirst(g)
           /\ FillerLast(g) => FillerLast(s)
           /\ g = <<>> <=> i = Len(s)
<1>. DEFINE n == Len(s)
<1>1. s \in Seq(RunType) /\ a \in Nat /\ b \in Nat /\ n \in Nat /\ i \in 1..n /\ s # <<>> /\ i \in Nat
  BY DEF Spans
<1>. HIDE DEF n
<1>2. /\ f \in Seq(RunType) /\ Len(f) = i - 1 /\ \A k \in 1..(i - 1) : f[k] = s[k]
      /\ g \in Seq(RunType) /\ Len(g) = n - i /\ \A k \in 1..(n - i) : g[k] = s[i + k]
  BY DEF IsSplit, n
<1>3. (f = <<>> <=> i = 1) /\ (g = <<>> <=> i = n)
  <2>1. (f = <<>> <=> Len(f) = 0) /\ (g = <<>> <=> Len(g) = 0)
    BY <1>2
  <2>2. (i - 1 = 0 <=> i = 1) /\ (n - i = 0 <=> i = n)
    BY ONLY <1>1
  <2>. QED  BY <1>2, <2>1, <2>2
<1>4. /\ s[1].offset = a /\ End(s[n]) = b
      /\ \A k \in 2..n : s[k].offset = End(s[k - 1])
  BY <1>1 DEF Spans, Chained, StartOf, EndOf, n
<1>5. s[i].offset \in Nat /\ End(s[i]) \in Nat
  BY <1>1, RunLemma DEF n
<1>6. Spans(f, a, s[i].offset)
  <2>1. CASE f = <<>>
    BY <1>1, <1>2, <1>3, <1>4, <1>5, <2>1 DEF Spans
  <2>2. CASE f # <<>>
    <3>1. /\ 1 \in 1..(i - 1) /\ i - 1 \in 1..(i - 1) /\ i \in 2..n
          /\ \A k \in 2..(i - 1) : k \in 1..(i - 1) /\ k - 1 \in 1..(i - 1) /\ k \in 2..n
      BY <1>1, <1>3, <2>2
    <3>2. /\ f[1].offset = a /\ End(f[Len(f)]) = s[i].offset
          /\ \A k \in 2..Len(f) : f[k].offset = End(f[k - 1])
      BY <1>2, <1>4, <3>1
    <3>. QED  BY <1>1, <1>2, <1>5, <2>2, <3>2 DEF Spans, Chained, StartOf, EndOf
  <2>. QED  BY <2>1, <2>2
<1>7. Spans(g, End(s[i]), b)
  <2>1. CASE g = <<>>
    BY <1>1, <1>2, <1>3, <1>4, <1>5, <2>1 DEF Spans
  <2>2. CASE g # <<>>
    <3>1. /\ 1 \in 1..(n - i) /\ n - i \in 1..(n - i) /\ i + 1 \in 2..n /\ i + (n - i) = n
          /\ i + 1 - 1 = i
          /\ \A k \in 2..(n - i) : /\ k \in 1..(n - i) /\ k - 1 \in 1..(n - i) /\ i + k \in 2..n
                                   /\ i + (k - 1) = i + k - 1
      BY <1>1, <1>3, <2>2
    <3>2. g[1].offset = End(s[i]) /\ End(g[Len(g)]) = b
      <4>1. g[1] = s[i + 1] /\ g[Len(g)] = s[n]
        BY <1>2, <3>1
      <4>2. s[i + 1].offset = End(s[i + 1 - 1])
        BY ONLY <1>4, <3>1
      <4>. QED  BY <1>4, <3>1, <4>1, <4>2
    <3>3. ASSUME NEW k \in 2..Len(g)
          PROVE  g[k].offset = End(g[k - 1])
      <4>1. g[k] = s[i + k] /\ g[k - 1] = s[i + k - 1]
        BY <1>2, <3>1
      <4>. QED  BY <1>2, <1>4, <3>1, <4>1
    <3>. QED  BY <1>1, <1>2, <1>5, <2>2, <3>2, <3>3 DEF Spans, Chained, StartOf, EndOf
  <2>. QED  BY <2>1, <2>2
<1>8. Apart(f)
  <2>. SUFFICES ASSUME NEW k \in 2..Len(f), f[k].kind = "filler"  PROVE f[k - 1].kind # "filler"
    BY DEF Apart
  <2>1. k \in 1..(i - 1) /\ k - 1 \in 1..(i - 1) /\ k \in 2..n
    BY <1>1, <1>2
  <2>. QED  BY <1>2, <2>1 DEF Apart, n
<1>9. Apart(g)
  <2>. SUFFICES ASSUME NEW k \in 2..Len(g), g[k].kind = "filler"  PROVE g[k - 1].kind # "filler"
    BY DEF Apart
  <2>1. k \in 1..(n - i) /\ k - 1 \in 1..(n - i) /\ i + k \in 2..n /\ i + (k - 1) = i + k - 1
    <3>1. k \in 2..(n - i)
      BY <1>2
    <3>. QED  BY ONLY <1>1, <3>1
  <2>2. g[k] = s[i + k] /\ g[k - 1] = s[i + k - 1]
    BY <1>2, <2>1
  <2>. QED  BY <2>1, <2>2 DEF Apart, n
<1>10. Real(s) = Real(f) \cup Real(g)
  <2>0. DOMAIN s = 1..n /\ DOMAIN f = 1..(i - 1) /\ DOMAIN g = 1..(n - i)
    BY <1>1, <1>2 DEF n
  <2>1. ASSUME NEW r \in Real(s)  PROVE r \in Real(f) \cup Real(g)
    <3>1. PICK k \in 1..n : s[k].kind # "filler" /\ r = s[k]
      BY <2>0, <2>1 DEF Real
    <3>2. CASE k < i
      <4>1. k \in 1..(i - 1)
        BY <1>1, <3>2
      <4>. QED  BY <1>2, <2>0, <3>1, <4>1 DEF Real
    <3>3. CASE k > i
      <4>1. k - i \in 1..(n - i) /\ i + (k - i) = k
        BY <1>1, <3>3
      <4>2. g[k - i] = s[k]
        BY <1>2, <4>1
      <4>. QED  BY <2>0, <3>1, <4>1, <4>2 DEF Real
    <3>4. k # i
      BY <3>1
    <3>. QED  BY <1>1, <3>2, <3>3, <3>4
  <2>2. ASSUME NEW r \in Real(f)  PROVE r \in Real(s)
    <3>1. PICK k \in 1..(i - 1) : f[k].kind # "filler" /\ r = f[k]
      BY <2>0, <2>2 DEF Real
    <3>2. k \in 1..n
      BY <1>1
    <3>. QED  BY <1>2, <2>0, <3>1, <3>2 DEF Real
  <2>3. ASSUME NEW r \in Real(g)  PROVE r \in Real(s)
    <3>1. PICK k \in 1..(n - i) : g[k].kind # "filler" /\ r = g[k]
      BY <2>0, <2>3 DEF Real
    <3>2. i + k \in 1..n
      BY <1>1
    <3>. QED  BY <1>2, <2>0, <3>1, <3>2 DEF Real
  <2>. QED  BY <2>1, <2>2, <2>3
<1>11. ~FillerLast(f)
  <2>1. ASSUME f # <<>>  PROVE f[Len(f)].kind # "filler"
    <3>1. i \in 2..n /\ i - 1 \in 1..(i - 1)
      BY <1>1, <1>3, <2>1
    <3>. QED  BY <1>2, <3>1 DEF Apart, n
  <2>. QED  BY <2>1 DEF FillerLast
<1>12. ~FillerFirst(g)
  <2>1. ASSUME g # <<>>  PROVE g[1].kind # "filler"
    <3>1. i + 1 \in 2..n /\ 1 \in 1..(n - i) /\ i + 1 - 1 = i
      BY <1>1, <1>3, <2>1
    <3>2. g[1] = s[i + 1]
      BY <1>2, <3>1
    <3>. QED  BY <3>1, <3>2 DEF Apart, n
  <2>. QED  BY <2>1 DEF FillerFirst
<1>13. ASSUME FillerLast(g)  PROVE FillerLast(s)
  <2>1. g # <<>> /\ g[Len(g)].kind = "filler"
    BY <1>13 DEF FillerLast
  <2>2. n - i \in 1..(n - i) /\ i + (n - i) = n
    <3>1. i # n
      BY <1>3, <2>1
    <3>. QED  BY ONLY <1>1, <3>1
  <2>3. g[Len(g)] = s[n]
    BY <1>2, <2>2
  <2>. QED  BY <1>1, <2>1, <2>3 DEF FillerLast, n
<1>. QED  BY <1>3, <1>6, <1>7, <1>8, <1>9, <1>10, <1>11, <1>12, <1>13 DEF n

\* A filler, where there is room for one.
LEMMA FillerLemma ==
    ASSUME NEW from \in Nat, NEW to \in Nat, from <= to
    PROVE  LET s == FillerIf(from, to) IN
           Spans(s, from, to) /\ Apart(s) /\ Real(s) = {} /\ (s = <<>> <=> from = to)
<1>. DEFINE r == Filler(from, to)
            s == FillerIf(from, to)
<1>1. CASE from = to
  <2>1. s = <<>>
    BY <1>1 DEF FillerIf
  <2>. QED  BY <1>1, <2>1 DEF Spans, Apart, Real
<1>2. CASE from < to
  <2>1. s = <<r>>
    BY <1>2 DEF FillerIf
  <2>2. /\ r \in RunType /\ r.offset = from /\ r.len = to - from /\ r.kind = "filler"
        /\ to - from \in Nat \ {0} /\ from + (to - from) = to
    BY <1>2 DEF Filler, RunType
  <2>. HIDE DEF r, s
  <2>3. s \in Seq(RunType) /\ Len(s) = 1 /\ s[1] = r /\ DOMAIN s = 1..1 /\ s # <<>>
    BY <2>1, <2>2
  <2>4. Spans(s, from, to)
    <3>1. s[1].offset = from /\ End(s[1]) = to /\ \A i \in 2..Len(s) : FALSE
      BY <2>2, <2>3 DEF End
    <3>. QED  BY <2>3, <3>1 DEF Spans, Chained, StartOf, EndOf
  <2>5. Apart(s)
    <3>1. \A i \in 2..Len(s) : FALSE
      BY <2>3
    <3>. QED  BY <3>1 DEF Apart
  <2>6. Real(s) = {}
    <3>1. \A j \in DOMAIN s : s[j].kind = "filler"
      BY <2>2, <2>3
    <3>. QED  BY <3>1 DEF Real
  <2>7. from # to
    BY <1>2
  <2>. QED  BY <2>3, <2>4, <2>5, <2>6, <2>7 DEF s
<1>. QED  BY <1>1, <1>2

-------------------------------------------------------------------------------
(* The inductive invariant.                                                *)

\* The pieces in P have been added.  Those that are appended come in order.
RunsIn(c) == {c[k] : k \in DOMAIN c}

Added(P) ==
    /\ Placed = UNION {RunsIn(c) : c \in P}
    /\ file.start = "append" => \A d \in file.pieces \ P : ListEnd <= StartOf(d)

RunsTyped ==
    /\ file \in Files /\ set \in BOOLEAN
    /\ run \in Seq(RunType) /\ run_end \in Nat

\* Only a list that was one filler to begin with ends with a filler.
LastIsPiece ==
    /\ FillerLast(run) => file.start = "filler"
    /\ file.start = "filler" /\ set => ListEnd = file.allocsize \div BlockSize

\* What lies behind a filler was added, the first run of a piece, and another
\* piece cannot reach into it: so what is put into the filler fits.
IInv ==
    /\ RunsTyped
    /\ RunsAreConsecutive
    /\ \E P \in SUBSET file.pieces : Added(P)
    /\ Apart(run)
    /\ LastIsPiece
    /\ ~set => run = <<>>

LEMMA FileLemma ==
    ASSUME NEW f \in Files
    PROVE  /\ f.pieces \in SUBSET Seq(RunType)
           /\ f.start \in {"piece", "filler", "none", "append"}
           /\ f.size \in Nat /\ f.initsize \in Nat /\ f.allocsize \in Nat
           /\ f.initsize <= f.size /\ f.size <= f.allocsize
           /\ f.allocsize \div BlockSize \in Nat /\ f.skiplen \in Nat
<1>1. f \in FileType
  BY FilesAssumption
<1>2. /\ f.pieces \in SUBSET Seq(RunType) /\ f.start \in {"piece", "filler", "none", "append"}
      /\ f.size \in Nat /\ f.initsize \in Nat /\ f.allocsize \in Nat /\ f.skiplen \in Nat
  BY <1>1 DEF FileType
<1>3. f.allocsize \div BlockSize \in Nat
  BY <1>2, BlockSizeAssumption
<1>. QED  BY <1>2, <1>3, FilesAssumption

\* A piece is a chain of its own without fillers.
LEMMA PieceLemma ==
    ASSUME NEW f \in Files, NEW c \in f.pieces
    PROVE  /\ c \in Seq(RunType) /\ c # <<>> /\ Len(c) \in Nat \ {0}
           /\ Spans(c, StartOf(c), EndOf(c)) /\ Apart(c) /\ Real(c) = RunsIn(c)
           /\ ~FillerFirst(c) /\ ~FillerLast(c)
           /\ StartOf(c) \in Nat /\ EndOf(c) \in Nat /\ StartOf(c) < EndOf(c)
           /\ \A r \in RunsIn(c) : r \in RunType /\ StartOf(c) <= r.offset /\ End(r) <= EndOf(c)
<1>1. c \in Seq(RunType)
  BY FileLemma
<1>2. Chained(c) /\ \A i \in DOMAIN c : c[i].kind # "filler"
  BY FilesAssumption
<1>3. c # <<>> /\ Len(c) \in Nat \ {0} /\ DOMAIN c = 1..Len(c) /\ 1 \in 1..Len(c) /\ Len(c) \in 1..Len(c)
  BY <1>1, <1>2 DEF Chained
<1>4. c[1].offset \in Nat /\ End(c[1]) \in Nat /\ c[1].offset < End(c[1]) /\ End(c[Len(c)]) \in Nat
  BY <1>1, <1>3, RunLemma
<1>5. Spans(c, StartOf(c), EndOf(c))
  BY <1>1, <1>2, <1>3, <1>4 DEF Spans, StartOf, EndOf
<1>6. Apart(c)
  <2>1. \A i \in 2..Len(c) : i \in 1..Len(c)
    BY <1>3
  <2>. QED  BY <1>2, <1>3, <2>1 DEF Apart
<1>7. Real(c) = RunsIn(c)
  BY <1>2 DEF Real, RunsIn
<1>8. ~FillerFirst(c) /\ ~FillerLast(c)
  BY <1>2, <1>3 DEF FillerFirst, FillerLast
<1>9. ASSUME NEW r \in RunsIn(c)
      PROVE  r \in RunType /\ StartOf(c) <= r.offset /\ End(r) <= EndOf(c)
  <2>1. PICK k \in 1..Len(c) : r = c[k]
    BY <1>3 DEF RunsIn
  <2>. QED  BY <1>1, <1>5, <2>1, OrderLemma
<1>10. StartOf(c) < EndOf(c)
  <2>1. End(c[1]) <= EndOf(c)
    BY <1>3, <1>5, OrderLemma
  <2>2. EndOf(c) \in Nat
    BY <1>4 DEF EndOf
  <2>. QED  BY <1>4, <2>1, <2>2 DEF StartOf
<1>. QED  BY <1>1, <1>3, <1>4, <1>5, <1>6, <1>7, <1>8, <1>9, <1>10 DEF StartOf, EndOf

\* The list in terms of chains, and back.
LEMMA ListLemma ==
    ASSUME RunsTyped, RunsAreConsecutive
    PROVE  Spans(run, 0, ListEnd) /\ Placed = Real(run) /\ ListEnd \in Nat
<1>1. run # <<>> => /\ Len(run) \in 1..Len(run)
                    /\ End(run[Len(run)]) \in Nat
  BY RunLemma DEF RunsTyped
<1>. QED  BY <1>1 DEF RunsTyped, RunsAreConsecutive, Spans, ListEnd, EndOf, Placed, Real

LEMMA ListOfChain ==
    ASSUME NEW b, Spans(run', 0, b)
    PROVE  /\ ListEnd' = b /\ Placed' = Real(run')
           /\ run' # <<>> => StartOf(run') = 0 /\ Chained(run')
           /\ \A i \in DOMAIN run' : run'[i].len > 0
<1>1. run' \in Seq(RunType)
  BY DEF Spans
<1>2. \A i \in DOMAIN run' : run'[i].len > 0
  BY <1>1, RunLemma
<1>. QED  BY <1>2 DEF Spans, ListEnd, EndOf, Placed, Real

-------------------------------------------------------------------------------
(* What a step does.                                                       *)

\* c comes into the list, and nothing is there yet where it comes.
Comes(c) ==
    /\ Placed' = Placed \cup RunsIn(c)
    /\ \A r \in Placed : End(r) <= StartOf(c) \/ EndOf(c) <= r.offset

\* A list with c in it keeps the invariant.
LEMMA AddedLemma ==
    ASSUME IInv, NEW c \in file.pieces, file' = file, set' = TRUE,
           NEW b, Spans(run', 0, b), Apart(run'),
           run_end' \in Nat, file.start # "append" => run_end' = Len(run'),
           Real(run') = Real(run) \cup RunsIn(c),
           FillerLast(run') => file.start = "filler",
           file.start = "filler" => b = file.allocsize \div BlockSize,
           file.start = "append" =>
               \A d \in file.pieces : d = c \/ b <= StartOf(d) \/ StartOf(d) < ListEnd
    PROVE  IInv' /\ Placed' = Placed \cup RunsIn(c)
<1>1. /\ ListEnd' = b /\ Placed' = Real(run') /\ Placed = Real(run)
      /\ run' # <<>> => StartOf(run') = 0 /\ Chained(run')
      /\ \A i \in DOMAIN run' : run'[i].len > 0
  BY ListOfChain, ListLemma DEF IInv
<1>2. RunsTyped'
  <2>1. run' \in Seq(RunType) /\ Len(run') \in Nat
    BY DEF Spans
  <2>. QED  BY <2>1 DEF IInv, RunsTyped
<1>3. RunsAreConsecutive'
  BY <1>1 DEF RunsAreConsecutive
<1>4. PICK P \in SUBSET file.pieces : Added(P)
  BY DEF IInv
<1>5. \E Q \in SUBSET file'.pieces : Added(Q)'
  <2>. DEFINE Q == P \cup {c}
  <2>1. Placed' = UNION {RunsIn(d) : d \in Q}
    BY <1>1, <1>4 DEF Added
  <2>2. ASSUME file.start = "append", NEW d \in file.pieces \ Q
        PROVE  b <= StartOf(d)
    <3>1. ListEnd <= StartOf(d) /\ d # c /\ d \in file.pieces
      BY <1>4, <2>2 DEF Added
    <3>2. StartOf(d) \in Nat /\ ListEnd \in Nat
      BY <2>2, PieceLemma, ListLemma DEF IInv, RunsTyped
    <3>3. ~(StartOf(d) < ListEnd)
      BY <3>1, <3>2
    <3>. QED  BY <2>2, <3>1, <3>3
  <2>3. Q \in SUBSET file'.pieces
    BY <1>4
  <2>4. Added(Q)'
    BY <1>1, <2>1, <2>2 DEF Added
  <2>. QED  BY <2>3, <2>4
<1>6. LastIsPiece'
  BY <1>1 DEF LastIsPiece, FillerLast
<1>. QED  BY <1>1, <1>2, <1>3, <1>5, <1>6 DEF IInv, Apart

LEMMA SetRunStep ==
    ASSUME IInv, SetRun
    PROVE  /\ IInv'
           /\ Placed' = Placed \/ \E c \in file.pieces : Comes(c)
<1>1. run = <<>> /\ file' = file /\ set' = TRUE /\ run_end' = Len(run') /\ file \in Files
  BY DEF SetRun, IInv, RunsTyped
<1>2. Placed = {} /\ ListEnd = 0 /\ Real(run) = {}
  BY <1>1 DEF Placed, ListEnd, Real
<1>3. CASE file.start = "piece" /\ \E c \in file.pieces : run' = FillerIf(0, StartOf(c)) \o c
  <2>1. PICK c \in file.pieces : run' = FillerIf(0, StartOf(c)) \o c
    BY <1>3
  <2>. DEFINE s == FillerIf(0, StartOf(c))
  <2>2. /\ Spans(c, StartOf(c), EndOf(c)) /\ Apart(c) /\ Real(c) = RunsIn(c)
        /\ ~FillerFirst(c) /\ ~FillerLast(c) /\ c # <<>> /\ StartOf(c) \in Nat
    BY <1>1, PieceLemma
  <2>3. Spans(s, 0, StartOf(c)) /\ Apart(s) /\ Real(s) = {}
    BY <2>2, FillerLemma
  <2>. HIDE DEF s
  <2>4. /\ Spans(run', 0, EndOf(c)) /\ Apart(run') /\ Real(run') = Real(s) \cup Real(c)
        /\ FillerLast(run') => FillerLast(c) \/ (c = <<>> /\ FillerLast(s))
    BY <2>1, <2>2, <2>3, JoinLemma DEF s
  <2>5. file.start = "piece" /\ ~FillerLast(run')
    BY <1>3, <2>2, <2>4
  <2>6. Real(run') = Real(run) \cup RunsIn(c)
    BY <1>2, <2>2, <2>3, <2>4
  <2>7. IInv' /\ Placed' = Placed \cup RunsIn(c)
    <3>1. Len(run') \in Nat
      BY <2>4 DEF Spans
    <3>. QED  BY <1>1, <2>4, <2>5, <2>6, <3>1, AddedLemma
  <2>. QED  BY <1>2, <2>7 DEF Comes
<1>4. CASE \/ file.start \in {"none", "append"} /\ run' = <<>>
           \/ file.start = "filler" /\ run' = FillerIf(0, file.allocsize \div BlockSize)
  <2>. DEFINE b == IF file.start = "filler" THEN file.allocsize \div BlockSize ELSE 0
  <2>1. b \in Nat
    BY <1>1, FileLemma
  <2>2. Spans(run', 0, b) /\ Apart(run') /\ Real(run') = {}
    <3>1. CASE file.start = "filler"
      BY <1>4, <2>1, <3>1, FillerLemma
    <3>2. CASE file.start # "filler"
      <4>1. run' = <<>> /\ b = 0
        BY <1>4, <3>2
      <4>. HIDE DEF b
      <4>. QED  BY <4>1, EmptyLemma
    <3>. QED  BY <3>1, <3>2
  <2>3. FillerLast(run') => file.start = "filler"
    BY <1>4 DEF FillerLast
  <2>4. file.start = "filler" => b = file.allocsize \div BlockSize
    OBVIOUS
  <2>5. file.start # "filler" => b = 0
    OBVIOUS
  <2>. HIDE DEF b
  <2>6. /\ ListEnd' = b /\ Placed' = {}
        /\ run' # <<>> => StartOf(run') = 0 /\ Chained(run')
        /\ \A i \in DOMAIN run' : run'[i].len > 0
    BY <2>2, ListOfChain
  <2>7. RunsTyped'
    <3>1. run' \in Seq(RunType) /\ Len(run') \in Nat
      BY <2>2 DEF Spans
    <3>. QED  BY <1>1, <3>1 DEF RunsTyped
  <2>8. RunsAreConsecutive'
    BY <1>1, <2>6 DEF RunsAreConsecutive
  <2>9. \E Q \in SUBSET file'.pieces : Added(Q)'
    <3>1. \A d \in file.pieces : StartOf(d) \in Nat
      BY <1>1, PieceLemma
    <3>2. file.start = "append" => ListEnd' = 0
      BY <2>5, <2>6
    <3>3. Added({})'
      BY <1>1, <2>6, <3>1, <3>2 DEF Added
    <3>. QED  BY <3>3
  <2>10. LastIsPiece'
    BY <1>1, <2>3, <2>4, <2>6 DEF LastIsPiece, FillerLast
  <2>11. IInv'
    BY <1>1, <2>2, <2>7, <2>8, <2>9, <2>10 DEF IInv, Apart
  <2>. QED  BY <1>2, <2>6, <2>11
<1>. QED  BY <1>3, <1>4 DEF SetRun

\* What is in the list is between 0 and its end.
LEMMA PlacedLemma ==
    ASSUME IInv, NEW r \in Placed
    PROVE  \E m \in 1..Len(run) : r = run[m] /\ run[m].kind # "filler" /\ End(r) <= ListEnd
<1>1. Spans(run, 0, ListEnd) /\ run \in Seq(RunType)
  BY ListLemma DEF IInv, RunsTyped
<1>2. PICK m \in DOMAIN run : r = run[m] /\ run[m].kind # "filler"
  BY DEF Placed
<1>3. m \in 1..Len(run) /\ End(run[m]) <= ListEnd
  BY <1>1, <1>2, OrderLemma
<1>. QED  BY <1>2, <1>3

LEMMA AddAtEndStep ==
    ASSUME IInv, NEW c \in file.pieces, AddAtEnd(c), set, file.start # "append", UNCHANGED <<file, set>>
    PROVE  IInv' /\ Comes(c)
<1>1. /\ run \in Seq(RunType) /\ file \in Files /\ set = TRUE /\ run_end = Len(run) /\ run # <<>>
      /\ Spans(run, 0, ListEnd) /\ ListEnd \in Nat /\ ListEnd = StartOf(c) /\ Apart(run)
  <2>1. run \in Seq(RunType) /\ file \in Files /\ set = TRUE /\ run_end = Len(run) /\ Apart(run)
    BY DEF IInv, RunsTyped, RunsAreConsecutive
  <2>2. run # <<>> /\ ListEnd = StartOf(c)
    BY <2>1 DEF AddAtEnd, FitsAtEnd, ListEnd
  <2>. QED  BY <2>1, <2>2, ListLemma DEF IInv
<1>2. /\ Spans(c, StartOf(c), EndOf(c)) /\ Apart(c) /\ Real(c) = RunsIn(c)
      /\ ~FillerFirst(c) /\ ~FillerLast(c) /\ c # <<>> /\ EndOf(c) \in Nat /\ StartOf(c) < EndOf(c)
  BY <1>1, PieceLemma
<1>3. file.start # "filler"
  <2>1. file.start = "filler" => /\ ListEnd = file.allocsize \div BlockSize
                                 /\ EndOf(c) <= file.allocsize \div BlockSize
    BY <1>1, FilesAssumption DEF IInv, LastIsPiece
  <2>. QED  BY <1>1, <1>2, <2>1
<1>4. run' = run \o c /\ run_end' = Len(run')
  <2>1. SubSeq(run, 1, Len(run)) = run
    BY <1>1
  <2>. QED  BY <1>1, <2>1 DEF AddAtEnd
<1>5. /\ Spans(run', 0, EndOf(c)) /\ Apart(run') /\ Real(run') = Real(run) \cup RunsIn(c)
      /\ FillerLast(run') => FillerLast(c) \/ (c = <<>> /\ FillerLast(run))
  BY <1>1, <1>2, <1>4, JoinLemma
<1>6. IInv' /\ Placed' = Placed \cup RunsIn(c)
  <2>1. Len(run') \in Nat
    BY <1>5 DEF Spans
  <2>. QED  BY <1>1, <1>2, <1>3, <1>4, <1>5, <2>1, AddedLemma
<1>7. \A r \in Placed : End(r) <= StartOf(c)
  BY <1>1, PlacedLemma
<1>. QED  BY <1>6, <1>7 DEF Comes

LEMMA AddBehindStep ==
    ASSUME IInv, NEW c \in file.pieces, AddBehind(c), set, file.start # "append", UNCHANGED <<file, set>>
    PROVE  IInv' /\ Comes(c)
<1>. DEFINE s == FillerIf(ListEnd, StartOf(c))
<1>1. /\ run \in Seq(RunType) /\ file \in Files /\ set = TRUE /\ Apart(run)
      /\ Spans(run, 0, ListEnd) /\ ListEnd \in Nat
  BY ListLemma DEF IInv, RunsTyped
<1>2. /\ Spans(c, StartOf(c), EndOf(c)) /\ Apart(c) /\ Real(c) = RunsIn(c) /\ StartOf(c) \in Nat
      /\ ~FillerFirst(c) /\ ~FillerLast(c) /\ c # <<>> /\ EndOf(c) \in Nat /\ StartOf(c) < EndOf(c)
  BY <1>1, PieceLemma
<1>3. ListEnd <= StartOf(c) /\ run' = run \o s \o c /\ run_end' = Len(run')
  BY DEF AddBehind
<1>4. file.start # "filler"
  <2>1. file.start = "filler" => /\ ListEnd = file.allocsize \div BlockSize
                                 /\ EndOf(c) <= file.allocsize \div BlockSize
    BY <1>1, FilesAssumption DEF IInv, LastIsPiece
  <2>. QED  BY <1>1, <1>2, <1>3, <2>1
<1>5. ~FillerLast(run)
  BY <1>4 DEF IInv, LastIsPiece
<1>6. Spans(s, ListEnd, StartOf(c)) /\ Apart(s) /\ Real(s) = {}
  BY <1>1, <1>2, <1>3, FillerLemma
<1>. HIDE DEF s
<1>7. /\ Spans(run \o s, 0, StartOf(c)) /\ Apart(run \o s) /\ Real(run \o s) = Real(run) \cup Real(s)
  BY <1>1, <1>5, <1>6, JoinLemma
<1>8. /\ Spans(run', 0, EndOf(c)) /\ Apart(run') /\ Real(run') = Real(run) \cup RunsIn(c)
      /\ FillerLast(run') => FillerLast(c) \/ (c = <<>> /\ FillerLast(run \o s))
  <2>. DEFINE l == run \o s
  <2>1. run' = l \o c /\ Spans(l, 0, StartOf(c)) /\ Apart(l) /\ Real(l) = Real(run)
    BY <1>3, <1>6, <1>7
  <2>. HIDE DEF l
  <2>2. /\ Spans(l \o c, 0, EndOf(c)) /\ Apart(l \o c) /\ Real(l \o c) = Real(l) \cup Real(c)
        /\ FillerLast(l \o c) => FillerLast(c) \/ (c = <<>> /\ FillerLast(l))
    BY <1>2, <2>1, JoinLemma
  <2>. QED  BY <1>2, <2>1, <2>2 DEF l
<1>9. IInv' /\ Placed' = Placed \cup RunsIn(c)
  <2>1. Len(run') \in Nat
    BY <1>8 DEF Spans
  <2>. QED  BY <1>1, <1>2, <1>3, <1>4, <1>8, <2>1, AddedLemma
<1>10. ASSUME NEW r \in Placed  PROVE End(r) <= StartOf(c)
  <2>1. PICK m \in 1..Len(run) : r = run[m] /\ End(r) <= ListEnd
    BY PlacedLemma
  <2>2. End(r) \in Nat
    BY <1>1, <2>1, RunLemma
  <2>. QED  BY <1>1, <1>2, <1>3, <2>1, <2>2
<1>. QED  BY <1>9, <1>10 DEF Comes

\* The filler for c, and that c fits in it.
LEMMA RoomLemma ==
    ASSUME IInv, NEW c \in file.pieces, set, FillersFor(c) # {},
           NEW i, i = FirstFiller(c), run[i].offset <= StartOf(c)
    PROVE  /\ i \in 1..Len(run) /\ run[i].kind = "filler" /\ StartOf(c) < End(run[i])
           /\ EndOf(c) <= End(run[i])
           /\ \A r \in Placed : End(r) <= StartOf(c) \/ EndOf(c) <= r.offset
<1>1. /\ run \in Seq(RunType) /\ file \in Files /\ Len(run) \in Nat /\ DOMAIN run = 1..Len(run)
      /\ Spans(run, 0, ListEnd) /\ ListEnd \in Nat /\ Placed = Real(run) /\ Apart(run)
  BY ListLemma DEF IInv, RunsTyped
<1>2. i \in FillersFor(c)
  <2>1. FillersFor(c) \in SUBSET Nat
    BY <1>1 DEF FillersFor
  <2>2. \E j \in FillersFor(c) : \A k \in FillersFor(c) : j <= k
    BY <2>1, LeastOne
  <2>. QED  BY <2>2 DEF FirstFiller
<1>3. i \in 1..Len(run) /\ run[i].kind = "filler" /\ StartOf(c) < End(run[i])
  <2>1. i \in 1..Len(run) /\ run[i].kind = "filler" /\ End(run[i]) > StartOf(c)
    BY <1>1, <1>2 DEF FillersFor
  <2>2. End(run[i]) \in Nat /\ StartOf(c) \in Nat
    BY <1>1, <2>1, RunLemma, PieceLemma
  <2>. QED  BY <2>1, <2>2
<1>4. /\ StartOf(c) \in Nat /\ EndOf(c) \in Nat /\ StartOf(c) < EndOf(c)
      /\ run[i].offset \in Nat /\ End(run[i]) \in Nat
  BY <1>1, <1>3, RunLemma, PieceLemma
<1>5. EndOf(c) <= End(run[i])
  <2>1. CASE i = Len(run)
    <3>1. run # <<>> /\ FillerLast(run) /\ ListEnd = End(run[i])
      BY <1>1, <1>3, <2>1 DEF FillerLast, ListEnd
    <3>2. file.start = "filler" /\ ListEnd = file.allocsize \div BlockSize
      BY <3>1 DEF IInv, LastIsPiece
    <3>. QED  BY <1>1, <3>1, <3>2, FilesAssumption
  <2>2. CASE i # Len(run)
    <3>1. i + 1 \in 2..Len(run) /\ i + 1 \in 1..Len(run) /\ i + 1 - 1 = i
      BY <1>1, <1>3, <2>2
    <3>2. run[i + 1].kind # "filler" /\ run[i + 1].offset = End(run[i])
      <4>1. Chained(run)
        BY <1>1, <3>1 DEF Spans
      <4>. QED  BY <1>1, <1>3, <3>1, <4>1 DEF Apart, Chained
    <3>3. run[i + 1] \in Placed
      BY <1>1, <3>1, <3>2 DEF Real
    <3>4. PICK P \in SUBSET file.pieces : Added(P)
      BY DEF IInv
    <3>5. PICK d \in P : run[i + 1] \in RunsIn(d)
      BY <3>3, <3>4 DEF Added
    <3>6. PICK k \in DOMAIN d : run[i + 1] = d[k]
      BY <3>5 DEF RunsIn
    <3>7. /\ d \in file.pieces /\ d \in Seq(RunType) /\ Spans(d, StartOf(d), EndOf(d))
          /\ StartOf(d) \in Nat /\ EndOf(d) \in Nat /\ StartOf(d) < EndOf(d)
          /\ k \in 1..Len(d) /\ Len(d) \in Nat /\ Real(d) = RunsIn(d)
      BY <1>1, <3>4, <3>5, <3>6, PieceLemma
    <3>8. k = 1
      <4>1. SUFFICES ASSUME k # 1  PROVE FALSE
        OBVIOUS
      <4>2. k \in 2..Len(d) /\ k - 1 \in 1..Len(d) /\ Chained(d)
        BY <3>7, <4>1 DEF Spans
      <4>3. d[k].offset = End(d[k - 1])
        BY <4>2 DEF Chained
      <4>4. d[k - 1] \in Placed
        BY <3>4, <3>5, <3>7, <4>2 DEF Added, RunsIn
      <4>5. PICK m \in 1..Len(run) : run[m] = d[k - 1] /\ run[m].kind # "filler"
        BY <1>1, <4>4 DEF Real
      <4>6. End(run[m]) = End(run[i]) /\ m # i
        BY <1>3, <3>2, <3>6, <4>3, <4>5
      <4>7. /\ m < i => End(run[m]) <= run[i].offset
            /\ i < m => End(run[i]) <= run[m].offset
        BY <1>1, <1>3, OrderLemma
      <4>8. /\ run[i].offset < End(run[i]) /\ run[m].offset < End(run[m])
            /\ run[m].offset \in Nat /\ End(run[m]) \in Nat
        BY <1>1, <1>3, <4>5, RunLemma
      <4>9. m \in Nat /\ i \in Nat
        BY <1>3, <4>5
      <4>. QED  BY <1>4, <4>6, <4>7, <4>8, <4>9
    <3>9. StartOf(d) = End(run[i])
      BY <3>2, <3>6, <3>8 DEF StartOf
    <3>10. c # d
      BY <1>3, <1>4, <3>9
    <3>11. EndOf(c) <= StartOf(d) \/ EndOf(d) <= StartOf(c)
      BY <1>1, <3>7, <3>10, FilesAssumption
    <3>. QED  BY <1>3, <1>4, <3>7, <3>9, <3>11
  <2>. QED  BY <2>1, <2>2
<1>6. ASSUME NEW r \in Placed
      PROVE  End(r) <= StartOf(c) \/ EndOf(c) <= r.offset
  <2>1. PICK m \in 1..Len(run) : r = run[m] /\ run[m].kind # "filler"
    BY PlacedLemma
  <2>2. m # i /\ m \in Nat /\ i \in Nat
    BY <1>3, <2>1
  <2>3. /\ m < i => End(run[m]) <= run[i].offset
        /\ i < m => End(run[i]) <= run[m].offset
    BY <1>1, <1>3, OrderLemma
  <2>4. run[m].offset \in Nat /\ End(run[m]) \in Nat
    BY <1>1, <2>1, RunLemma
  <2>. QED  BY <1>4, <1>5, <2>1, <2>2, <2>3, <2>4
<1>. QED  BY <1>3, <1>5, <1>6

\* What is left of the filler, when the runs are but one or end it.
LEMMA RestLemma ==
    ASSUME NEW f \in RunType, NEW c \in Seq(RunType), Len(c) \in Nat \ {0},
           EndOf(c) \in Nat, StartOf(c) \in Nat, End(f) \in Nat, EndOf(c) <= End(f),
           Len(c) = 1 \/ EndOf(c) = End(f)
    PROVE  Rest(f, c) = FillerIf(EndOf(c), End(f))
<1>. DEFINE left == End(f) - StartOf(c) - (EndOf(c) - StartOf(c))
<1>1. left = End(f) - EndOf(c) /\ left \in Int
  OBVIOUS
<1>2. CASE EndOf(c) = End(f)
  <2>1. left = 0 /\ ~(EndOf(c) < End(f))
    BY <1>1, <1>2
  <2>. QED  BY <2>1 DEF Rest, FillerIf
<1>3. CASE EndOf(c) # End(f)
  <2>1. left # 0 /\ EndOf(c) < End(f) /\ EndOf(c) + left = End(f)
    BY <1>1, <1>3
  <2>2. End(c[1]) = EndOf(c)
    BY <1>3 DEF EndOf
  <2>3. Rest(f, c) = <<Filler(End(c[1]), End(c[1]) + left)>>
    BY <2>1 DEF Rest
  <2>. HIDE DEF left
  <2>4. Rest(f, c) = <<Filler(EndOf(c), End(f))>>
    BY <2>1, <2>2, <2>3
  <2>. QED  BY <2>1, <2>4 DEF FillerIf
<1>. QED  BY <1>2, <1>3

LEMMA AddInFillerStep ==
    ASSUME IInv, NEW c \in file.pieces, AddInFiller(c), ~LaidOver(c), set,
           file.start # "append", UNCHANGED <<file, set>>
    PROVE  IInv' /\ Comes(c)
<1>. DEFINE i == FirstFiller(c)
            A == SubSeq(run, 1, i - 1)
            B == FillerIf(run[i].offset, StartOf(c))
            D == FillerIf(EndOf(c), End(run[i]))
            E == SubSeq(run, i + 1, Len(run))
<1>1. FillersFor(c) # {} /\ run[i].offset <= StartOf(c)
  BY DEF AddInFiller
<1>2. /\ i \in 1..Len(run) /\ run[i].kind = "filler" /\ StartOf(c) < End(run[i])
      /\ EndOf(c) <= End(run[i])
      /\ \A r \in Placed : End(r) <= StartOf(c) \/ EndOf(c) <= r.offset
  BY <1>1, RoomLemma
<1>3. /\ run \in Seq(RunType) /\ file \in Files /\ set = TRUE /\ Len(run) \in Nat
      /\ run_end = Len(run) /\ Spans(run, 0, ListEnd) /\ ListEnd \in Nat /\ Apart(run)
  BY ListLemma DEF IInv, RunsTyped, RunsAreConsecutive
<1>4. /\ Spans(c, StartOf(c), EndOf(c)) /\ Apart(c) /\ Real(c) = RunsIn(c) /\ StartOf(c) \in Nat
      /\ ~FillerFirst(c) /\ ~FillerLast(c) /\ c # <<>> /\ EndOf(c) \in Nat /\ StartOf(c) < EndOf(c)
      /\ c \in Seq(RunType) /\ Len(c) \in Nat \ {0}
  BY <1>3, PieceLemma
<1>5. run[i] \in RunType /\ run[i].offset \in Nat /\ End(run[i]) \in Nat
  BY <1>2, <1>3, RunLemma
<1>6. Rest(run[i], c) = D
  <2>1. Len(c) = 1 \/ EndOf(c) = End(run[i])
    BY DEF LaidOver, AddInFiller
  <2>. QED  BY <1>2, <1>4, <1>5, <2>1, RestLemma
<1>7. /\ run' = A \o B \o c \o D \o E
      /\ run_end' = IF D = <<>> /\ i = Len(run) THEN Len(run')
                    ELSE run_end + Len(B) + Len(c) + Len(D) - 1
  BY <1>6 DEF AddInFiller
<1>8. IsSplit(RunType, run, i, A, E)
  BY <1>2, <1>3, SplitLemma
<1>9. /\ Spans(B, run[i].offset, StartOf(c)) /\ Apart(B) /\ Real(B) = {}
      /\ Spans(D, EndOf(c), End(run[i])) /\ Apart(D) /\ Real(D) = {}
  BY <1>1, <1>2, <1>4, <1>5, FillerLemma
<1>. HIDE DEF i, A, B, D, E
<1>10. /\ Spans(A, 0, run[i].offset) /\ Spans(E, End(run[i]), ListEnd) /\ Apart(A) /\ Apart(E)
       /\ Real(run) = Real(A) \cup Real(E)
       /\ ~FillerLast(A) /\ ~FillerFirst(E)
       /\ FillerLast(E) => FillerLast(run)
       /\ E = <<>> <=> i = Len(run)
  BY <1>2, <1>3, <1>8, TakeOutLemma
<1>. DEFINE AB == A \o B
            ABc == AB \o c
            ABcD == ABc \o D
<1>11. Spans(AB, 0, StartOf(c)) /\ Apart(AB) /\ Real(AB) = Real(A)
  <2>1. Spans(A \o B, 0, StartOf(c)) /\ Apart(A \o B) /\ Real(A \o B) = Real(A) \cup Real(B)
    BY <1>9, <1>10, JoinLemma
  <2>. QED  BY <1>9, <2>1
<1>. HIDE DEF AB
<1>12. /\ Spans(ABc, 0, EndOf(c)) /\ Apart(ABc) /\ Real(ABc) = Real(A) \cup RunsIn(c)
       /\ ~FillerLast(ABc)
  <2>1. FillerLast(ABc) => FillerLast(c) \/ (c = <<>> /\ FillerLast(AB))
    BY <1>4, <1>11, JoinLemma
  <2>. QED  BY <1>4, <1>11, <2>1, JoinLemma
<1>. HIDE DEF ABc
<1>13. Spans(ABcD, 0, End(run[i])) /\ Apart(ABcD) /\ Real(ABcD) = Real(A) \cup RunsIn(c)
  <2>1. /\ Spans(ABc \o D, 0, End(run[i])) /\ Apart(ABc \o D)
        /\ Real(ABc \o D) = Real(ABc) \cup Real(D)
    BY <1>9, <1>12, JoinLemma
  <2>. QED  BY <1>9, <1>12, <2>1
<1>. HIDE DEF ABcD
<1>14. run' = ABcD \o E
  BY <1>7 DEF AB, ABc, ABcD
<1>15. /\ Spans(run', 0, ListEnd) /\ Apart(run') /\ Real(run') = Real(ABcD) \cup Real(E)
       /\ FillerLast(run') => FillerLast(E) \/ (E = <<>> /\ FillerLast(ABcD))
  BY <1>10, <1>13, <1>14, JoinLemma
<1>16. Real(run') = Real(run) \cup RunsIn(c)
  BY <1>10, <1>13, <1>15
<1>17. FillerLast(run') => file.start = "filler"
  <2>1. i = Len(run) => FillerLast(run)
    BY <1>2, <1>3 DEF FillerLast
  <2>. QED  BY <1>10, <1>15, <2>1 DEF IInv, LastIsPiece
<1>18. run_end' = Len(run')
  <2>1. /\ A \in Seq(RunType) /\ B \in Seq(RunType) /\ D \in Seq(RunType) /\ E \in Seq(RunType)
        /\ AB \in Seq(RunType) /\ ABc \in Seq(RunType) /\ ABcD \in Seq(RunType)
        /\ Len(B) \in Nat /\ Len(D) \in Nat
    BY <1>9, <1>10, <1>11, <1>12, <1>13 DEF Spans
  <2>2. Len(A) = i - 1 /\ Len(E) = Len(run) - i
    BY <1>8 DEF IsSplit
  <2>3. /\ Len(AB) = Len(A) + Len(B) /\ Len(ABc) = Len(AB) + Len(c)
        /\ Len(ABcD) = Len(ABc) + Len(D) /\ Len(run') = Len(ABcD) + Len(E)
    BY <1>4, <1>14, <2>1, ConcatLemma DEF AB, ABc, ABcD
  <2>4. Len(run') = Len(run) + Len(B) + Len(c) + Len(D) - 1
    BY ONLY <1>2, <1>3, <1>4, <2>1, <2>2, <2>3
  <2>. QED  BY <1>3, <1>7, <2>4
<1>19. file.start = "filler" => ListEnd = file.allocsize \div BlockSize
  BY DEF IInv, LastIsPiece
<1>20. IInv' /\ Placed' = Placed \cup RunsIn(c)
  <2>1. Len(run') \in Nat
    BY <1>15 DEF Spans
  <2>. QED  BY <1>3, <1>15, <1>16, <1>17, <1>18, <1>19, <2>1, AddedLemma
<1>. QED  BY <1>2, <1>20 DEF Comes

\* What is appended next comes where the list ends.
LEMMA AppendStep ==
    ASSUME IInv, AppendRun
    PROVE  IInv' /\ \E c \in file.pieces : Comes(c)
<1>1. /\ run \in Seq(RunType) /\ file \in Files /\ set = TRUE /\ Apart(run)
      /\ Spans(run, 0, ListEnd) /\ ListEnd \in Nat /\ file.start = "append"
      /\ UNCHANGED <<file, set>> /\ run_end' = Len(run)
  BY ListLemma DEF IInv, RunsTyped, AppendRun
<1>2. PICK c \in file.pieces :
        /\ StartOf(c) >= ListEnd
        /\ \A d \in file.pieces : StartOf(d) >= ListEnd => StartOf(c) <= StartOf(d)
        /\ run' = Append(run, [c[1] EXCEPT !.offset = ListEnd])
  BY DEF AppendRun
<1>3. \A d \in file.pieces :
        StartOf(d) \in Nat /\ EndOf(d) \in Nat /\ StartOf(d) < EndOf(d)
  BY <1>1, PieceLemma
<1>4. /\ Spans(c, StartOf(c), EndOf(c)) /\ Apart(c) /\ Real(c) = RunsIn(c)
      /\ ~FillerFirst(c) /\ ~FillerLast(c) /\ c \in Seq(RunType) /\ c # <<>>
  BY <1>1, PieceLemma
<1>5. Len(c) = 1 /\ (StartOf(c) = 0 \/ \E d \in file.pieces : EndOf(d) = StartOf(c))
  BY <1>1, FilesAssumption
<1>6. PICK P \in SUBSET file.pieces : Added(P)
  BY DEF IInv
<1>7. \A d \in P : EndOf(d) <= ListEnd
  <2>. SUFFICES ASSUME NEW d \in P  PROVE EndOf(d) <= ListEnd
    OBVIOUS
  <2>1. d \in Seq(RunType) /\ Len(d) \in 1..Len(d) /\ DOMAIN d = 1..Len(d)
    BY <1>1, <1>6, PieceLemma
  <2>2. d[Len(d)] \in Placed
    BY <1>6, <2>1 DEF Added, RunsIn
  <2>. QED  BY <2>2, PlacedLemma DEF EndOf
<1>8. StartOf(c) = ListEnd
  <2>1. CASE StartOf(c) = 0
    BY <1>1, <1>2, <2>1
  <2>2. CASE \E d \in file.pieces : EndOf(d) = StartOf(c)
    <3>1. PICK d \in file.pieces : EndOf(d) = StartOf(c)
      BY <2>2
    <3>2. CASE d \in P
      BY <1>1, <1>2, <1>3, <1>7, <3>1, <3>2
    <3>3. CASE d \notin P
      <4>1. ListEnd <= StartOf(d)
        BY <1>1, <1>6, <3>3 DEF Added
      <4>. QED  BY <1>1, <1>2, <1>3, <3>1, <4>1
    <3>. QED  BY <3>2, <3>3
  <2>. QED  BY <1>5, <2>1, <2>2
<1>9. run' = run \o c
  <2>1. c[1] \in RunType /\ c[1].offset = ListEnd /\ c = <<c[1]>>
    BY <1>4, <1>5, <1>8 DEF StartOf
  <2>2. [c[1] EXCEPT !.offset = ListEnd] = c[1]
    BY <2>1 DEF RunType
  <2>3. run' = Append(run, c[1])
    BY <1>2, <2>2
  <2>4. Append(run, c[1]) = run \o <<c[1]>>
    BY <1>1, <2>1
  <2>. QED  BY <2>1, <2>3, <2>4
<1>10. /\ Spans(run', 0, EndOf(c)) /\ Apart(run') /\ Real(run') = Real(run) \cup RunsIn(c)
       /\ FillerLast(run') => FillerLast(c) \/ (c = <<>> /\ FillerLast(run))
  <2>1. /\ Spans(run, 0, ListEnd) /\ Spans(c, ListEnd, EndOf(c)) /\ Apart(run) /\ Apart(c)
        /\ ~(FillerLast(run) /\ FillerFirst(c)) /\ Real(c) = RunsIn(c)
    BY ONLY <1>1, <1>4, <1>8, Zenon
  <2>2. /\ Spans(run \o c, 0, EndOf(c)) /\ Apart(run \o c) /\ Real(run \o c) = Real(run) \cup Real(c)
        /\ FillerLast(run \o c) => FillerLast(c) \/ (c = <<>> /\ FillerLast(run))
    BY ONLY <2>1, JoinLemma
  <2>. QED  BY ONLY <1>9, <2>1, <2>2, Zenon
<1>11. \A d \in file.pieces : d = c \/ EndOf(c) <= StartOf(d) \/ StartOf(d) < ListEnd
  <2>. SUFFICES ASSUME NEW d \in file.pieces, d # c, ListEnd <= StartOf(d)
                PROVE  EndOf(c) <= StartOf(d)
    BY <1>1, <1>3
  <2>1. EndOf(c) <= StartOf(d) \/ EndOf(d) <= StartOf(c)
    BY <1>1, FilesAssumption
  <2>. QED  BY <1>1, <1>2, <1>3, <2>1
<1>12. \A r \in Placed : End(r) <= StartOf(c)
  BY <1>8, PlacedLemma
<1>13. /\ run_end' \in Nat /\ ~FillerLast(run')
       /\ file.start # "filler"
  BY <1>1, <1>4, <1>10
<1>14. IInv' /\ Placed' = Placed \cup RunsIn(c)
  BY <1>1, <1>10, <1>11, <1>13, AddedLemma
<1>. QED  BY <1>12, <1>14 DEF Comes

-------------------------------------------------------------------------------
(* The list keeps the invariant and implements AttrContent.                *)

LEMMA InitLemma == Init => IInv
<1>. SUFFICES ASSUME Init  PROVE IInv
  OBVIOUS
<1>1. /\ file \in Files /\ set = FALSE /\ run = <<>> /\ run_end = 0
      /\ Len(run) = 0 /\ DOMAIN run = {}
  BY DEF Init
<1>2. RunsTyped /\ RunsAreConsecutive
  <2>1. run \in Seq(RunType)
    BY <1>1
  <2>2. RunsTyped
    BY <1>1, <2>1 DEF RunsTyped
  <2>3. RunsAreConsecutive
    BY <1>1 DEF RunsAreConsecutive
  <2>. QED  BY <2>2, <2>3
<1>3. Placed = {} /\ ListEnd = 0 /\ ~FillerLast(run) /\ Apart(run)
  BY <1>1 DEF Placed, ListEnd, FillerLast, Apart
<1>4. Added({})
  <2>1. \A d \in file.pieces : StartOf(d) \in Nat
    BY <1>1, PieceLemma
  <2>. QED  BY <1>3, <2>1 DEF Added
<1>. QED  BY <1>1, <1>2, <1>3, <1>4 DEF IInv, LastIsPiece

LEMMA StepLemma ==
    ASSUME IInv, [Next]_vars, ~overlaid'
    PROVE  /\ IInv'
           /\ file' = file
           /\ Placed' = Placed \/ \E c \in file.pieces : Comes(c)
<1>1. CASE UNCHANGED vars
  BY <1>1 DEF vars, IInv, RunsTyped, RunsAreConsecutive, Added, Placed, ListEnd, Apart,
              LastIsPiece, FillerLast
<1>2. CASE SetRun
  BY <1>2, SetRunStep DEF SetRun
<1>3. CASE AddRun /\ ~UNCHANGED vars
  <2>1. PICK c \in file.pieces :
            /\ (AddAtEnd(c) \/ AddInFiller(c) \/ AddBehind(c))
            /\ overlaid' = (overlaid \/ LaidOver(c))
    BY <1>3 DEF AddRun
  <2>2. ~LaidOver(c)
    BY <2>1
  <2>3. set /\ file.start # "append" /\ UNCHANGED <<file, set>>
    BY <1>3 DEF AddRun
  <2>4. IInv' /\ Comes(c)
    BY <2>1, <2>2, <2>3, AddAtEndStep, AddInFillerStep, AddBehindStep
  <2>. QED  BY <2>3, <2>4
<1>4. CASE AppendRun
  BY <1>4, AppendStep DEF AppendRun
<1>. QED  BY <1>1, <1>2, <1>3, <1>4 DEF Next, AddRefused

\* What was laid over runs remains so.
LEMMA LaidOverStays ==
    ASSUME [Next]_vars, ~overlaid'
    PROVE  ~overlaid
BY DEF Next, vars, SetRun, AddRun, AddRefused, AppendRun

\* The run list keeps its invariant, in whatever order the pieces of a file
\* come (fs_attr.c:405-651), until a piece of several runs is put into a filler
\* that goes on behind it: fs_attr.c:516-518 gets that one wrong.
THEOREM ListInvariance == Spec => [](~overlaid => IInv)
<1>1. Init => (~overlaid => IInv)
  BY InitLemma
<1>2. (~overlaid => IInv) /\ [Next]_vars => (~overlaid => IInv)'
  <2>. SUFFICES ASSUME ~overlaid => IInv, [Next]_vars, ~overlaid'
                PROVE  IInv'
    OBVIOUS
  <2>1. ~overlaid
    BY LaidOverStays
  <2>. QED  BY <2>1, StepLemma
<1>. QED  BY <1>1, <1>2, PTL DEF Spec

\* The runs follow each other without gap or overlap and run_end is the last
\* of them, as long as nothing was laid over runs (fs_attr.c:405-651).
THEOREM ConsecutiveRuns == Spec => []ConsecutiveUnlessLaidOver
<1>1. (~overlaid => IInv) => ConsecutiveUnlessLaidOver
  BY DEF IInv, ConsecutiveUnlessLaidOver
<1>. QED  BY <1>1, ListInvariance, PTL

Clusters(r) ==
    {[vcn |-> r.offset + k, addr |-> r.addr + k, sparse |-> r.kind = "sparse"] : k \in 0..(r.len - 1)}

\* The clusters of a run are in its place.
LEMMA ClusterLemma ==
    ASSUME NEW r \in RunType, NEW e \in Clusters(r)
    PROVE  e.vcn \in Nat /\ r.offset <= e.vcn /\ e.vcn < End(r)
<1>1. r.offset \in Nat /\ r.len \in Nat \ {0}
  BY DEF RunType
<1>2. PICK k \in 0..(r.len - 1) :
        e = [vcn |-> r.offset + k, addr |-> r.addr + k, sparse |-> r.kind = "sparse"]
  BY DEF Clusters
<1>3. e.vcn = r.offset + k
  BY <1>2
<1>. QED  BY <1>1, <1>3 DEF End

\* A step in which a piece comes is one of AttrContent.
LEMMA PlaceLemma ==
    ASSUME IInv, NEW c \in file.pieces, Comes(c), file' = file
    PROVE  Content!Place
<1>1. c \in Seq(RunType) /\ \A r \in RunsIn(c) : r \in RunType /\ StartOf(c) <= r.offset /\ End(r) <= EndOf(c)
  BY PieceLemma DEF IInv, RunsTyped
<1>2. Content!OfRuns(c) = UNION {Clusters(r) : r \in RunsIn(c)}
  BY DEF Content!OfRuns, Content!OfRun, Clusters, RunsIn
<1>3. UNION {Clusters(r) : r \in Placed'} = (UNION {Clusters(r) : r \in Placed}) \cup Content!OfRuns(c)
  <2>1. Placed' = Placed \cup RunsIn(c)
    BY DEF Comes
  <2>2. UNION {Clusters(r) : r \in Placed \cup RunsIn(c)} =
            (UNION {Clusters(r) : r \in Placed}) \cup (UNION {Clusters(r) : r \in RunsIn(c)})
    OBVIOUS
  <2>. QED  BY <1>2, <2>1, <2>2
<1>4. Content!OfRuns(c) \cap (UNION {Clusters(r) : r \in Placed}) = {}
  <2>. SUFFICES ASSUME NEW q \in RunsIn(c), NEW r \in Placed, NEW e \in Clusters(q), e \in Clusters(r)
                PROVE  FALSE
    BY <1>2
  <2>1. r \in RunType
    BY PlacedLemma DEF IInv, RunsTyped
  <2>2. /\ e.vcn \in Nat /\ q.offset <= e.vcn /\ e.vcn < End(q)
        /\ r.offset <= e.vcn /\ e.vcn < End(r)
    BY <1>1, <2>1, ClusterLemma
  <2>3. End(r) <= StartOf(c) \/ EndOf(c) <= r.offset
    BY DEF Comes
  <2>4. /\ StartOf(c) <= q.offset /\ End(q) <= EndOf(c)
        /\ StartOf(c) \in Nat /\ EndOf(c) \in Nat /\ q.offset \in Nat /\ q.len \in Nat
        /\ r.offset \in Nat /\ r.len \in Nat
    BY <1>1, <2>1, PieceLemma DEF IInv, RunsTyped, RunType
  <2>5. End(r) \in Nat /\ End(q) \in Nat
    BY <2>4 DEF End
  <2>. QED  BY <2>2, <2>3, <2>4, <2>5
<1>5. /\ Content!OfRuns(c) \cap
           (UNION {{[vcn |-> r.offset + k, addr |-> r.addr + k, sparse |-> r.kind = "sparse"] :
                    k \in 0..(r.len - 1)} : r \in Placed}) = {}
      /\ UNION {{[vcn |-> r.offset + k, addr |-> r.addr + k, sparse |-> r.kind = "sparse"] :
                    k \in 0..(r.len - 1)} : r \in Placed'} =
        (UNION {{[vcn |-> r.offset + k, addr |-> r.addr + k, sparse |-> r.kind = "sparse"] :
                    k \in 0..(r.len - 1)} : r \in Placed}) \cup Content!OfRuns(c)
  BY <1>3, <1>4 DEF Clusters
<1>. QED  BY <1>5 DEF Content!Place

\* The list implements the set of clusters it stands for: a piece comes in as a
\* whole, where it belongs and where nothing is yet, and nothing that came in is
\* moved or lost when others are put before it or beside it
\* (fs_attr.c:383-612, 614-651), as long as nothing is laid over runs.
THEOREM ImplementsContent == Spec /\ []~overlaid => ContentSpec
<1>1. Init => Content!Init
  <2>1. Init => file \in Files /\ Placed = {}
    BY DEF Init, Placed
  <2>. QED  BY <2>1 DEF Content!Init
<1>2. ASSUME IInv, [Next]_vars, ~overlaid'
      PROVE  [Content!Place]_<<file, UNION {{[vcn |-> r.offset + k, addr |-> r.addr + k,
                                             sparse |-> r.kind = "sparse"] :
                                             k \in 0..(r.len - 1)} : r \in Placed}>>
  <2>1. file' = file /\ (Placed' = Placed \/ \E c \in file.pieces : Comes(c))
    BY <1>2, StepLemma
  <2>. QED  BY <1>2, <2>1, PlaceLemma
<1>. QED  BY <1>1, <1>2, ListInvariance, PTL DEF Spec, ContentSpec, Content!Spec

-------------------------------------------------------------------------------
(* Bytes.                                                                  *)

\* The smaller and the larger of two.
LEMMA MinMaxLemma ==
    ASSUME NEW a \in Int, NEW b \in Int
    PROVE  /\ Min({a, b}) = IF a <= b THEN a ELSE b
           /\ Max({a, b}) = IF a >= b THEN a ELSE b
<1>. DEFINE lo == IF a <= b THEN a ELSE b
            hi == IF a >= b THEN a ELSE b
<1>1. lo \in {a, b} /\ \A y \in {a, b} : lo <= y
  OBVIOUS
<1>2. \A x \in {a, b} : (\A y \in {a, b} : x <= y) => x = lo
  OBVIOUS
<1>3. hi \in {a, b} /\ \A y \in {a, b} : hi >= y
  OBVIOUS
<1>4. \A x \in {a, b} : (\A y \in {a, b} : x >= y) => x = hi
  OBVIOUS
<1>. HIDE DEF lo, hi
<1>5. Min({a, b}) = lo
  BY <1>1, <1>2 DEF Min
<1>6. Max({a, b}) = hi
  BY <1>3, <1>4 DEF Max
<1>. QED  BY <1>5, <1>6 DEF lo, hi

\* The smallest of three.
LEMMA MinLemma ==
    ASSUME NEW a \in Int, NEW b \in Int, NEW c \in Int
    PROVE  /\ Min({a, b, c}) \in Int /\ Min({a, b, c}) \in {a, b, c}
           /\ Min({a, b, c}) <= a /\ Min({a, b, c}) <= b /\ Min({a, b, c}) <= c
<1>1. \E x \in {a, b, c} : \A y \in {a, b, c} : x <= y
  <2>1. CASE a <= b /\ a <= c
    BY <2>1
  <2>2. CASE b <= a /\ b <= c
    BY <2>2
  <2>3. CASE c <= a /\ c <= b
    BY <2>3
  <2>. QED  BY <2>1, <2>2, <2>3
<1>2. Min({a, b, c}) \in {a, b, c} /\ \A y \in {a, b, c} : Min({a, b, c}) <= y
  BY <1>1 DEF Min
<1>. QED  BY <1>2

\* The bytes of n blocks; a name for the product keeps it out of the arithmetic.
Bytes(n) == n * BlockSize

LEMMA BytesNat ==
    ASSUME NEW a \in Nat
    PROVE  Bytes(a) \in Nat
BY BlockSizeAssumption DEF Bytes

LEMMA BytesSum ==
    ASSUME NEW a \in Nat, NEW b \in Nat
    PROVE  Bytes(a + b) = Bytes(a) + Bytes(b)
BY BlockSizeAssumption DEF Bytes

LEMMA BytesOrder ==
    ASSUME NEW a \in Nat, NEW b \in Nat
    PROVE  /\ a <= b => Bytes(a) <= Bytes(b)
           /\ a < b => Bytes(a) + BlockSize <= Bytes(b) /\ Bytes(a) < Bytes(b)
<1>1. BlockSize \in Nat /\ BlockSize >= 1
  BY BlockSizeAssumption
<1>2. ASSUME NEW x \in Nat, NEW y \in Nat
      PROVE  x * BlockSize \in Nat /\ (x + y) * BlockSize = x * BlockSize + y * BlockSize
             /\ 1 * BlockSize = BlockSize
  BY <1>1
<1>3. ASSUME NEW x \in Nat, NEW y \in Nat, x <= y
      PROVE  x * BlockSize <= y * BlockSize
  <2>. DEFINE d == y - x
  <2>1. d \in Nat /\ y = x + d
    BY <1>3
  <2>. HIDE DEF d
  <2>2. d * BlockSize \in Nat /\ x * BlockSize \in Nat /\ y * BlockSize = x * BlockSize + d * BlockSize
    BY <1>2, <2>1
  <2>. QED  BY <2>2
<1>4. ASSUME NEW x \in Nat, NEW y \in Nat, x < y
      PROVE  x * BlockSize + BlockSize <= y * BlockSize /\ x * BlockSize < y * BlockSize
  <2>1. x + 1 \in Nat /\ x + 1 <= y
    BY <1>4
  <2>2. (x + 1) * BlockSize <= y * BlockSize
    BY <1>3, <2>1
  <2>3. (x + 1) * BlockSize = x * BlockSize + BlockSize
    BY <1>1
  <2>4. x * BlockSize \in Nat /\ y * BlockSize \in Nat
    BY <1>2
  <2>. QED  BY ONLY <1>1, <2>2, <2>3, <2>4
<1>. QED  BY <1>3, <1>4 DEF Bytes

LEMMA BytesZero == Bytes(0) = 0
BY BlockSizeAssumption DEF Bytes

\* Bytes behind others.
LEMMA ConcatBytes ==
    ASSUME NEW s \in Seq(Nat), NEW t \in Seq(Nat)
    PROVE  /\ s \o t \in Seq(Nat) /\ Len(s \o t) = Len(s) + Len(t)
           /\ \A i \in 1..(Len(s) + Len(t)) :
                 \/ i \in 1..Len(s) /\ (s \o t)[i] = s[i]
                 \/ i - Len(s) \in 1..Len(t) /\ (s \o t)[i] = t[i - Len(s)]
BY ConcatLemma

\* The block a byte is in, and its place there.
LEMMA DivLemma ==
    ASSUME NEW p \in Nat
    PROVE  /\ p \div BlockSize \in Nat /\ p % BlockSize \in 0..(BlockSize - 1)
           /\ p = Bytes(p \div BlockSize) + (p % BlockSize)
BY BlockSizeAssumption DEF Bytes

\* A byte of a run that is read from the device.
FromDevice(r, p, slack) == r.kind = "data" /\ (p < file.initsize \/ slack)

\* A byte of the file is where the run that has its place says.
LEMMA ByteLemma ==
    ASSUME RunsTyped, RunsAreConsecutive, NEW slack \in BOOLEAN, NEW i \in 1..Len(run), NEW p \in Nat,
           NEW q \in Nat, q = p + file.skiplen,
           Bytes(run[i].offset) <= q, q < Bytes(End(run[i]))
    PROVE  ByteAt(p, slack) = IF FromDevice(run[i], p, slack)
                              THEN Bytes(run[i].addr) + (q - Bytes(run[i].offset))
                              ELSE Zero
<1>. DEFINE r == run[i]
            vcn == q \div BlockSize
            here == {c \in UNION {Content!OfRun(d) : d \in {d \in Placed : d.kind = "data"}} : c.vcn = vcn}
<1>1. /\ r \in RunType /\ r.offset \in Nat /\ r.len \in Nat /\ r.addr \in Nat /\ End(r) \in Nat
      /\ End(r) = r.offset + r.len
  BY RunLemma DEF RunsTyped
<1>2. vcn \in Nat /\ q % BlockSize \in 0..(BlockSize - 1) /\ q = Bytes(vcn) + (q % BlockSize)
  BY DivLemma
<1>3. r.offset <= vcn /\ vcn < End(r)
  <2>1. /\ vcn < r.offset => Bytes(vcn) + BlockSize <= Bytes(r.offset)
        /\ End(r) <= vcn => Bytes(End(r)) <= Bytes(vcn)
        /\ Bytes(vcn) \in Nat /\ Bytes(r.offset) \in Nat /\ Bytes(End(r)) \in Nat
    <3>. HIDE DEF vcn, r
    <3>. QED  BY ONLY <1>1, <1>2, BytesNat, BytesOrder, Zenon
  <2>2. BlockSize \in Nat /\ q % BlockSize \in Int
    BY <1>2, BlockSizeAssumption
  <2>3. Bytes(r.offset) <= q /\ q < Bytes(End(r))
    OBVIOUS
  <2>4. Bytes(vcn) <= q /\ q < Bytes(vcn) + BlockSize
    <3>. DEFINE rest == q % BlockSize
    <3>. HIDE DEF rest, vcn
    <3>. QED  BY ONLY <1>2, <2>1, <2>2, q \in Nat DEF rest
  <2>. HIDE DEF vcn, r
  <2>5. ~(vcn < r.offset)
    BY ONLY <2>1, <2>2, <2>3, <2>4, q \in Nat
  <2>6. ~(End(r) <= vcn)
    BY ONLY <2>1, <2>3, <2>4, q \in Nat
  <2>. QED  BY ONLY <1>1, <1>2, <2>5, <2>6
<1>4. Spans(run, 0, ListEnd) /\ run \in Seq(RunType) /\ DOMAIN run = 1..Len(run)
  BY ListLemma DEF RunsTyped
<1>5. file.initsize \in Nat
  BY FileLemma DEF RunsTyped
<1>6. ASSUME NEW c \in here
      PROVE  r.kind = "data" /\ c.addr = r.addr + (vcn - r.offset)
  <2>1. PICK d \in Placed : d.kind = "data" /\ c \in Content!OfRun(d)
    OBVIOUS
  <2>2. PICK m \in 1..Len(run) : d = run[m]
    BY <1>4 DEF Placed
  <2>3. PICK k \in 0..(d.len - 1) :
            c = [vcn |-> d.offset + k, addr |-> d.addr + k, sparse |-> d.kind = "sparse"]
    BY <2>1 DEF Content!OfRun
  <2>4. c.vcn = d.offset + k /\ c.addr = d.addr + k /\ c.vcn = vcn
    BY <2>3
  <2>5. d.offset \in Nat /\ d.len \in Nat /\ d.addr \in Nat /\ End(d) \in Nat /\ End(d) = d.offset + d.len
    BY <1>4, <2>2, RunLemma
  <2>6. /\ i < m => End(r) <= d.offset
        /\ m < i => End(d) <= r.offset
    BY <1>4, <2>2, OrderLemma
  <2>7. m = i
    <3>. HIDE DEF r, vcn
    <3>1. d.offset <= vcn /\ vcn < End(d)
      BY ONLY <1>2, <2>3, <2>4, <2>5
    <3>2. ~(i < m)
      BY ONLY <1>1, <1>2, <1>3, <2>5, <2>6, <3>1
    <3>3. ~(m < i)
      BY ONLY <1>1, <1>2, <1>3, <2>5, <2>6, <3>1
    <3>4. i \in Nat /\ m \in Nat
      BY <2>2
    <3>. QED  BY ONLY <3>2, <3>3, <3>4
  <2>. QED  BY <2>1, <2>2, <2>3, <2>4, <2>5, <2>7
<1>7. CASE FromDevice(r, p, slack)
  <2>. DEFINE k == vcn - r.offset
              e == [vcn |-> r.offset + k, addr |-> r.addr + k, sparse |-> r.kind = "sparse"]
  <2>1. k \in 0..(r.len - 1) /\ r.offset + k = vcn
    BY <1>1, <1>2, <1>3
  <2>2. r \in Placed /\ r.kind = "data"
    BY <1>4, <1>7 DEF Placed, FromDevice
  <2>3. e \in Content!OfRun(r) /\ e.vcn = vcn
    BY <2>1 DEF Content!OfRun
  <2>4. e \in here
    BY <2>2, <2>3
  <2>. HIDE DEF here
  <2>. DEFINE c == CHOOSE c \in here : TRUE
  <2>5. c \in here
    BY <2>4
  <2>6. c.addr = r.addr + (vcn - r.offset)
    BY <1>6, <2>5
  <2>7. ByteAt(p, slack) = Bytes(c.addr) + (q % BlockSize)
    <3>1. ~(here = {} \/ (p >= file.initsize /\ ~slack))
      BY <1>5, <1>7, <2>4 DEF FromDevice
    <3>. QED  BY <3>1 DEF ByteAt, here, Bytes
  <2>8. /\ Bytes(r.addr + (vcn - r.offset)) = Bytes(r.addr) + Bytes(vcn - r.offset)
        /\ Bytes(vcn - r.offset) = Bytes(vcn) - Bytes(r.offset)
        /\ Bytes(r.addr) \in Nat /\ Bytes(vcn) \in Nat /\ Bytes(r.offset) \in Nat
    <3>. HIDE DEF vcn, r
    <3>. DEFINE d == vcn - r.offset
    <3>1. d \in Nat /\ r.offset + d = vcn
      BY ONLY <1>1, <1>2, <1>3
    <3>2. Bytes(r.addr + d) = Bytes(r.addr) + Bytes(d) /\ Bytes(r.offset + d) = Bytes(r.offset) + Bytes(d)
      <4>. HIDE DEF d
      <4>. QED  BY ONLY <1>1, <3>1, BytesSum, Zenon
    <3>3. Bytes(r.addr) \in Nat /\ Bytes(vcn) \in Nat /\ Bytes(r.offset) \in Nat /\ Bytes(d) \in Nat
      <4>. HIDE DEF d
      <4>. QED  BY ONLY <1>1, <1>2, <3>1, BytesNat, Zenon
    <3>4. Bytes(d) = Bytes(vcn) - Bytes(r.offset)
      <4>. HIDE DEF d
      <4>. QED  BY ONLY <3>1, <3>2, <3>3
    <3>. QED  BY <3>2, <3>3, <3>4
  <2>9. q % BlockSize \in Int
    BY <1>2, BlockSizeAssumption
  <2>10. Bytes(c.addr) + (q % BlockSize) = Bytes(r.addr) + (q - Bytes(r.offset))
    <3>. HIDE DEF c, r, vcn
    <3>. QED  BY <1>2, <2>6, <2>8, <2>9
  <2>. QED  BY <1>7, <2>7, <2>10
<1>8. CASE ~FromDevice(r, p, slack)
  <2>1. here = {} \/ (p >= file.initsize /\ ~slack)
    <3>. HIDE DEF here
    <3>. QED  BY <1>5, <1>6, <1>8 DEF FromDevice
  <2>. QED  BY <1>8, <2>1 DEF ByteAt
<1>. QED  BY <1>7, <1>8

\* Nothing is skipped.
LEMMA PlainByteLemma ==
    ASSUME RunsTyped, RunsAreConsecutive, file.skiplen = 0, NEW slack \in BOOLEAN,
           NEW i \in 1..Len(run), NEW p \in Nat,
           Bytes(run[i].offset) <= p, p < Bytes(End(run[i]))
    PROVE  ByteAt(p, slack) = IF FromDevice(run[i], p, slack)
                              THEN Bytes(run[i].addr) + (p - Bytes(run[i].offset))
                              ELSE Zero
<1>1. p = p + file.skiplen
  OBVIOUS
<1>. QED  BY <1>1, ByteLemma

-------------------------------------------------------------------------------
(* Reading.                                                                *)

\* A read of asked bytes from off has come to x: it has the bytes up to there,
\* or all of them.
ReadTo(s, x, off, asked, slack) ==
    /\ s.byteoff = 0 /\ s.remain \in Nat /\ s.short = FALSE /\ s.count = Len(s.buf)
    /\ s.buf \in Seq(Nat) /\ Len(s.buf) + s.remain = asked
    /\ x <= off => Len(s.buf) = 0
    /\ x > off => off + Len(s.buf) <= x /\ (s.remain # 0 => off + Len(s.buf) = x)
    /\ \A k \in 1..Len(s.buf) : s.buf[k] = ByteAt(off + k - 1, slack)

\* A read has come short: of the m bytes it should have had by then one is out
\* of reach, it returns fewer, and what it returns is right as far as the file
\* is initialized.
CameShort(s, off, asked, slack) ==
    /\ s.short = TRUE /\ s.count \in Int
    /\ \E m \in Nat :
          /\ m <= asked /\ off + m <= Bytes(ListEnd) /\ s.count < m
          /\ \E k \in 1..m : ~InReach(ByteAt(off + k - 1, TRUE))
    /\ \A k \in 1..s.count : \/ s.buf[k] = ByteAt(off + k - 1, slack)
                             \/ off + k > file.initsize /\ ~slack

\* The blocks the image holds.
LEMMA HeldLemma ==
    ASSUME RunsTyped
    PROVE  /\ LastBlockAct \in Nat /\ file.fs.held \in Nat /\ file.fs.last_block \in Nat
           /\ file.fs.unreadable \subseteq Nat
           /\ (LastBlockAct + 1) * BlockSize = Bytes(LastBlockAct + 1)
           /\ Bytes(LastBlockAct + 1) \in Nat /\ Bytes(LastBlockAct + 1) <= file.fs.held
<1>. DEFINE held == file.fs.held
            whole == held \div BlockSize
            last == file.fs.last_block
<1>1. /\ held \in Nat /\ last \in Nat /\ file.fs.unreadable \subseteq Nat /\ held >= BlockSize
  <2>1. file \in FileType /\ file.fs.held >= BlockSize
    BY FilesAssumption DEF RunsTyped
  <2>2. file.fs \in FsType
    BY <2>1 DEF FileType
  <2>. QED  BY <2>1, <2>2 DEF FsType
<1>2. BlockSize \in Nat \ {0}
  BY BlockSizeAssumption
<1>3. whole \in Nat /\ held % BlockSize \in 0..(BlockSize - 1) /\ held = Bytes(whole) + (held % BlockSize)
  BY <1>1, DivLemma
<1>4. Bytes(whole) \in Nat
  BY <1>3, BytesNat
<1>. HIDE DEF whole, held, last
<1>5. Bytes(whole) <= held /\ whole # 0
  <2>1. whole = 0 => Bytes(whole) = 0
    BY BytesZero
  <2>. DEFINE rest == held % BlockSize
  <2>. HIDE DEF rest
  <2>2. rest \in Nat /\ rest < BlockSize /\ held = Bytes(whole) + rest
    BY ONLY <1>2, <1>3 DEF rest
  <2>. QED  BY ONLY <1>1, <1>2, <1>4, <2>1, <2>2
<1>6. LastBlockAct = IF last <= whole - 1 THEN last ELSE whole - 1
  <2>1. last \in Int /\ whole - 1 \in Int
    BY <1>1, <1>3
  <2>. QED  BY <2>1, MinMaxLemma DEF LastBlockAct, last, whole, held
<1>7. LastBlockAct \in Nat /\ LastBlockAct + 1 \in Nat /\ LastBlockAct + 1 <= whole
  BY ONLY <1>1, <1>3, <1>5, <1>6
<1>8. Bytes(LastBlockAct + 1) <= Bytes(whole) /\ Bytes(LastBlockAct + 1) \in Nat
  BY <1>3, <1>7, BytesOrder, BytesNat
<1>9. Bytes(LastBlockAct + 1) <= held
  BY ONLY <1>1, <1>4, <1>5, <1>8
<1>. QED  BY <1>1, <1>7, <1>8, <1>9 DEF held, last, Bytes

\* The device gives all that is asked of it, or fewer and then one of the bytes
\* is out of reach.
LEMMA GivenLemma ==
    ASSUME RunsTyped, NEW from \in Nat, NEW n \in Nat \ {0}, Given(from, n) # n
    PROVE  /\ Given(from, n) \in Int /\ Given(from, n) < n
           /\ \E d \in from..(from + n - 1) : ~InReach(d)
<1>. DEFINE held == file.fs.held
            z == Bytes(LastBlockAct + 1)
<1>1. /\ held \in Nat /\ z \in Nat /\ z <= held /\ (LastBlockAct + 1) * BlockSize = z
      /\ file.fs.unreadable \subseteq Nat
  BY HeldLemma
<1>2. \A d \in Nat : d >= z \/ d \in file.fs.unreadable => ~InReach(d)
  <2>. HIDE DEF z
  <2>. QED  BY <1>1 DEF InReach
<1>. HIDE DEF z, held
<1>3. CASE from >= z \/ from >= held \/ \E d \in file.fs.unreadable : from <= d /\ d < from + n
  <2>1. from..(from + n - 1) \in SUBSET Nat /\ from \in from..(from + n - 1)
    OBVIOUS
  <2>2. \E d \in from..(from + n - 1) : ~InReach(d)
    <3>1. CASE from >= z \/ from >= held
      <4>1. from >= z
        BY <1>1, <3>1
      <4>. QED  BY <1>2, <2>1, <4>1
    <3>2. CASE \E d \in file.fs.unreadable : from <= d /\ d < from + n
      <4>1. PICK d \in file.fs.unreadable : from <= d /\ d < from + n
        BY <3>2
      <4>2. d \in Nat
        BY <1>1
      <4>3. d \in from..(from + n - 1)
        BY <4>1, <4>2
      <4>. QED  BY <1>2, <4>2, <4>3
    <3>. QED  BY <1>3, <3>1, <3>2
  <2>3. CASE Given(from, n) = -1
    BY <2>2, <2>3
  <2>4. CASE Given(from, n) # -1
    <3>1. Given(from, n) = Min({n, held - from}) /\ from < held
      BY <1>1, <2>4 DEF Given, held
    <3>2. Given(from, n) \in Int /\ Given(from, n) <= n
      <4>1. held - from \in Int
        BY <1>1
      <4>. QED  BY <3>1, <4>1, MinMaxLemma
    <3>. QED  BY <2>2, <3>2
  <2>. QED  BY <2>3, <2>4
<1>4. CASE ~(from >= z \/ from >= held \/ \E d \in file.fs.unreadable : from <= d /\ d < from + n)
  <2>1. Given(from, n) = Min({n, held - from})
    BY <1>1, <1>4 DEF Given, held
  <2>2. held - from \in Int /\ held > from
    BY <1>1, <1>4
  <2>3. Min({n, held - from}) = IF n <= held - from THEN n ELSE held - from
    BY <2>2, MinMaxLemma
  <2>4. held - from < n /\ Given(from, n) = held - from
    BY <2>1, <2>2, <2>3
  <2>5. held \in from..(from + n - 1) /\ ~InReach(held)
    BY <1>1, <1>2, <2>2, <2>4
  <2>. QED  BY <2>2, <2>4, <2>5
<1>. QED  BY <1>3, <1>4

\* What one turn gets, n bytes from a place in the file, are the file's.
Got(r, at, n, from, slack) ==
    IF r.kind # "data" \/ (at >= file.initsize /\ ~slack) THEN Zeros(n)
    ELSE [k \in 1..n |-> IF at + k > file.initsize /\ ~slack THEN Zero ELSE from + k - 1]

LEMMA GotLemma ==
    ASSUME RunsTyped, RunsAreConsecutive, file.skiplen = 0, NEW slack \in BOOLEAN, NEW i \in 1..Len(run),
           NEW at \in Nat, NEW n \in Nat, NEW from \in Nat,
           Bytes(run[i].offset) <= at, at + n <= Bytes(End(run[i])),
           from = Bytes(run[i].addr) + (at - Bytes(run[i].offset))
    PROVE  /\ Got(run[i], at, n, from, slack) \in Seq(Nat) /\ Len(Got(run[i], at, n, from, slack)) = n
           /\ \A k \in 1..n : Got(run[i], at, n, from, slack)[k] = ByteAt(at + k - 1, slack)
<1>. DEFINE r == run[i]
            got == IF run[i].kind # "data" \/ (at >= file.initsize /\ ~slack) THEN Zeros(n)
                   ELSE [k \in 1..n |-> IF at + k > file.initsize /\ ~slack THEN Zero ELSE from + k - 1]
<1>1. Bytes(r.offset) \in Nat /\ Bytes(r.addr) \in Nat /\ Bytes(End(r)) \in Nat
  <2>1. r.offset \in Nat /\ r.addr \in Nat /\ End(r) \in Nat
    BY RunLemma DEF RunsTyped
  <2>. HIDE DEF r
  <2>. QED  BY ONLY <2>1, BytesNat, Zenon
<1>2. file.initsize \in Nat
  BY FileLemma DEF RunsTyped
<1>3. got \in [1..n -> Nat]
  <2>1. \A k \in 1..n : from + k - 1 \in Nat
    OBVIOUS
  <2>. QED  BY <2>1 DEF Zeros, Zero
<1>4. got \in Seq(Nat) /\ Len(got) = n
  BY <1>3
<1>5. ASSUME NEW k \in 1..n
      PROVE  got[k] = ByteAt(at + k - 1, slack)
  <2>. DEFINE p == at + k - 1
  <2>1. p \in Nat /\ at <= p /\ p < at + n /\ (at + k > file.initsize <=> ~(p < file.initsize))
    BY <1>2
  <2>2. Bytes(r.offset) <= p /\ p < Bytes(End(r))
    <3>1. Bytes(r.offset) <= at /\ at + n <= Bytes(End(r))
      OBVIOUS
    <3>. HIDE DEF r, p
    <3>. QED  BY ONLY <1>1, <2>1, <3>1, at \in Nat, n \in Nat
  <2>3. ByteAt(p, slack) = IF FromDevice(r, p, slack)
                           THEN Bytes(r.addr) + (p - Bytes(r.offset)) ELSE Zero
    BY <2>1, <2>2, PlainByteLemma
  <2>4. from + k - 1 = Bytes(r.addr) + (p - Bytes(r.offset))
    <3>. HIDE DEF r
    <3>1. from = Bytes(r.addr) + (at - Bytes(r.offset))
      BY DEF r
    <3>. QED  BY <1>1, <3>1
  <2>5. CASE r.kind # "data" \/ (at >= file.initsize /\ ~slack)
    <3>1. got[k] = Zero
      BY <2>5 DEF Zeros
    <3>2. ~FromDevice(r, p, slack)
      BY <1>2, <2>1, <2>5 DEF FromDevice
    <3>. QED  BY <2>3, <3>1, <3>2
  <2>6. CASE ~(r.kind # "data" \/ (at >= file.initsize /\ ~slack))
    <3>1. got[k] = IF at + k > file.initsize /\ ~slack THEN Zero ELSE from + k - 1
      BY <2>6
    <3>2. FromDevice(r, p, slack) <=> ~(at + k > file.initsize /\ ~slack)
      BY <2>1, <2>6 DEF FromDevice
    <3>. QED  BY <2>3, <2>4, <3>1, <3>2
  <2>. QED  BY <2>5, <2>6
<1>. QED  BY <1>4, <1>5 DEF Got

\* A turn takes a read on to the end of its run, or the read comes short.
LEMMA ReadTurnLemma ==
    ASSUME RunsTyped, RunsAreConsecutive, file.skiplen = 0, NEW slack \in BOOLEAN, NEW i \in 1..Len(run),
           NEW blk \in Nat, NEW off \in Nat, off = Bytes(blk), NEW asked \in Nat \ {0},
           NEW s, ReadTo(s, Bytes(run[i].offset), off, asked, slack)
    PROVE  \/ ReadTo(ReadTurn(s, run[i], blk, slack), Bytes(End(run[i])), off, asked, slack)
           \/ CameShort(ReadTurn(s, run[i], blk, slack), off, asked, slack)
<1>. DEFINE r == run[i]
            have == Len(s.buf)
            x == Bytes(r.offset)
            y == Bytes(End(r))
            inrun == Max({blk - r.offset, 0})
            at == Bytes(r.offset + inrun)
            n == Min({Bytes(r.len - inrun) - s.byteoff, s.remain})
            from == Bytes(r.addr + inrun) + s.byteoff
            zeros == r.kind # "data" \/ (at + s.byteoff >= file.initsize /\ ~slack)
            given == IF zeros THEN n ELSE Given(from, n)
            got == IF zeros THEN Zeros(n)
                   ELSE [k \in 1..n |-> IF at + k > file.initsize /\ ~slack THEN Zero ELSE from + k - 1]
<1>1. /\ r.offset \in Nat /\ r.len \in Nat /\ r.addr \in Nat /\ End(r) \in Nat
      /\ r.offset < End(r) /\ End(r) = r.offset + r.len
  BY RunLemma DEF RunsTyped
<1>2. /\ x \in Nat /\ y \in Nat /\ Bytes(r.addr) \in Nat /\ x < y
      /\ r.offset <= blk => x <= off
      /\ blk < r.offset => off < x
      /\ End(r) <= blk => y <= off
      /\ blk < End(r) => off < y
  <2>. HIDE DEF r
  <2>1. /\ Bytes(r.offset) \in Nat /\ Bytes(End(r)) \in Nat /\ Bytes(r.addr) \in Nat
        /\ Bytes(r.offset) < Bytes(End(r))
        /\ r.offset <= blk => Bytes(r.offset) <= Bytes(blk)
        /\ blk < r.offset => Bytes(blk) < Bytes(r.offset)
        /\ End(r) <= blk => Bytes(End(r)) <= Bytes(blk)
        /\ blk < End(r) => Bytes(blk) < Bytes(End(r))
    BY ONLY <1>1, blk \in Nat, BytesNat, BytesOrder, Zenon
  <2>2. off = Bytes(blk)
    OBVIOUS
  <2>. QED  BY ONLY <2>1, <2>2
<1>3. /\ s.byteoff = 0 /\ s.remain \in Nat /\ s.buf \in Seq(Nat) /\ have \in Nat
      /\ s.short = FALSE /\ s.count = have
      /\ have + s.remain = asked
      /\ x <= off => have = 0
      /\ x > off => off + have <= x /\ (s.remain # 0 => off + have = x)
  BY DEF ReadTo
<1>4. \A k \in 1..have : s.buf[k] = ByteAt(off + k - 1, slack)
  BY DEF ReadTo
<1>5. CASE s.remain = 0 \/ End(r) <= blk
  <2>1. ReadTurn(s, r, blk, slack) = s
    BY <1>5 DEF ReadTurn
  <2>. HIDE DEF have, x, y, r
  <2>2. y <= off => have = 0
    BY <1>2, <1>3
  <2>3. y > off => off + have <= y /\ (s.remain # 0 => off + have = y)
    BY ONLY <1>2, <1>3, <1>5, blk \in Nat, off \in Nat, <1>1
  <2>4. ReadTo(s, y, off, asked, slack)
    BY <1>3, <1>4, <2>2, <2>3 DEF ReadTo, have
  <2>. QED  BY <2>1, <2>4 DEF r, y
<1>6. CASE ~(s.remain = 0 \/ End(r) <= blk)
  <2>1. inrun = IF blk >= r.offset THEN blk - r.offset ELSE 0
    <3>. DEFINE d == blk - r.offset
    <3>1. d \in Int /\ 0 \in Int /\ (d >= 0 <=> blk >= r.offset)
      BY ONLY <1>1, blk \in Nat
    <3>. HIDE DEF d
    <3>2. Max({d, 0}) = IF d >= 0 THEN d ELSE 0
      BY ONLY <3>1, MinMaxLemma, Zenon
    <3>. QED  BY ONLY <3>1, <3>2 DEF d, inrun
  <2>. HIDE DEF inrun
  <2>2. inrun \in Nat /\ inrun <= r.len /\ r.offset + inrun \in Nat
    <3>. HIDE DEF r
    <3>. QED  BY ONLY <1>1, <1>6, <2>1, blk \in Nat
  <2>3. at = off + have
    <3>1. CASE blk >= r.offset
      <4>1. r.offset + inrun = blk
        BY ONLY <1>1, <2>1, <3>1, blk \in Nat
      <4>2. x <= off
        BY ONLY <1>1, <1>2, <3>1, blk \in Nat
      <4>3. at = off
        BY <4>1
      <4>. HIDE DEF at, x
      <4>. QED  BY ONLY <1>3, <4>2, <4>3, off \in Nat
    <3>2. CASE blk < r.offset
      <4>1. inrun = 0 /\ r.offset + inrun = r.offset
        BY ONLY <1>1, <2>1, <3>2, blk \in Nat
      <4>2. off < x
        BY <1>2, <3>2
      <4>3. at = x
        BY <4>1
      <4>. HIDE DEF at, x
      <4>. QED  BY ONLY <1>2, <1>3, <1>6, <4>2, <4>3, off \in Nat
    <3>. QED  BY ONLY <1>1, <3>1, <3>2, blk \in Nat
  <2>4. /\ at \in Nat /\ Bytes(inrun) \in Nat /\ at = x + Bytes(inrun)
        /\ Bytes(r.addr + inrun) = Bytes(r.addr) + Bytes(inrun)
        /\ Bytes(r.len - inrun) \in Nat
        /\ Bytes(r.len - inrun) = y - at
    <3>. DEFINE d == r.len - inrun
    <3>. HIDE DEF r
    <3>1. d \in Nat /\ (r.offset + inrun) + d = End(r)
      BY ONLY <1>1, <2>2
    <3>. HIDE DEF d
    <3>2. Bytes((r.offset + inrun) + d) = Bytes(r.offset + inrun) + Bytes(d)
      BY ONLY <2>2, <3>1, BytesSum, Zenon
    <3>3. /\ Bytes(r.offset + inrun) \in Nat /\ Bytes(inrun) \in Nat /\ Bytes(d) \in Nat
          /\ Bytes(r.offset + inrun) = Bytes(r.offset) + Bytes(inrun)
          /\ Bytes(r.addr + inrun) = Bytes(r.addr) + Bytes(inrun)
      BY ONLY <1>1, <2>2, <3>1, BytesNat, BytesSum, Zenon
    <3>4. Bytes(End(r)) = Bytes(r.offset + inrun) + Bytes(d)
      BY ONLY <3>1, <3>2
    <3>5. Bytes(d) = y - at
      BY ONLY <3>3, <3>4
    <3>. QED  BY ONLY <3>3, <3>5 DEF d
  <2>5. n = IF y - at <= s.remain THEN y - at ELSE s.remain
    <3>. DEFINE d == y - at
                e == s.remain
    <3>1. Bytes(r.len - inrun) - s.byteoff = d /\ d \in Int
      <4>. HIDE DEF y, at, x
      <4>. QED  BY ONLY <1>2, <1>3, <2>4
    <3>2. e \in Int
      BY ONLY <1>3
    <3>. HIDE DEF d, e
    <3>3. Min({d, e}) = IF d <= e THEN d ELSE e
      BY ONLY <3>1, <3>2, MinMaxLemma, Zenon
    <3>4. n = Min({d, e})
      BY <3>1 DEF e
    <3>. QED  BY ONLY <3>3, <3>4 DEF d, e
  <2>. HIDE DEF n, at, x, y
  <2>5a. at < y
    <3>. HIDE DEF r
    <3>1. inrun < r.len
      BY ONLY <1>1, <1>6, <2>1, blk \in Nat
    <3>2. Bytes(inrun) < Bytes(r.len)
      BY ONLY <1>1, <2>2, <3>1, BytesOrder, Zenon
    <3>3. y = x + Bytes(r.len) /\ Bytes(r.len) \in Nat
      BY ONLY <1>1, BytesSum, BytesNat, Zenon DEF x, y
    <3>. QED  BY ONLY <1>2, <2>4, <3>2, <3>3
  <2>6. n \in Nat /\ n # 0 /\ x <= at /\ at + n <= y /\ n <= s.remain /\ (n # s.remain => at + n = y) /\ y > off
    <3>. HIDE DEF r
    <3>1. y > off
      BY ONLY <1>1, <1>2, <1>6, blk \in Nat, off \in Nat
    <3>2. at <= y /\ x <= at /\ at < y
      BY ONLY <1>2, <2>4, <2>5a
    <3>. DEFINE d == y - at
                e == s.remain
    <3>3. d \in Nat /\ e \in Nat /\ at + d = y
      BY ONLY <1>2, <1>3, <2>4, <3>2
    <3>4. n = IF d <= e THEN d ELSE e
      BY ONLY <2>5
    <3>. HIDE DEF d, e
    <3>5. n \in Nat /\ n <= e /\ (n # e => n = d) /\ n <= d /\ n # 0
      <4>1. d # 0 /\ e # 0
        BY ONLY <1>2, <1>6, <2>4, <3>2 DEF d, e
      <4>. QED  BY ONLY <3>3, <3>4, <4>1
    <3>6. at + n <= y /\ (n # e => at + n = y)
      <4>1. at \in Nat /\ y \in Nat
        BY ONLY <1>2, <2>4
      <4>. HIDE DEF n, at, y
      <4>. QED  BY ONLY <3>3, <3>5, <4>1
    <3>. QED  BY ONLY <3>1, <3>2, <3>5, <3>6 DEF e
  <2>7. from \in Nat /\ from = Bytes(r.addr) + (at - x)
    <3>. HIDE DEF r
    <3>1. from = (Bytes(r.addr) + Bytes(inrun)) + 0
      BY ONLY <1>3, <2>4 DEF from
    <3>2. Bytes(r.addr) \in Nat /\ Bytes(inrun) \in Nat /\ x \in Nat /\ at = x + Bytes(inrun)
      BY ONLY <1>2, <2>4
    <3>. HIDE DEF from
    <3>. QED  BY ONLY <3>1, <3>2
  <2>8. got = Got(r, at, n, from, slack)
    <3>1. at + s.byteoff = at
      BY <1>3, <2>4
    <3>. QED  BY <3>1 DEF Got
  <2>. HIDE DEF from, got
  <2>9. /\ got \in Seq(Nat) /\ Len(got) = n
        /\ \A k \in 1..n : got[k] = ByteAt(at + k - 1, slack)
    <3>1. at \in Nat /\ n \in Nat /\ from \in Nat
      BY ONLY <2>4, <2>6, <2>7
    <3>2. /\ Bytes(run[i].offset) <= at /\ at + n <= Bytes(End(run[i]))
          /\ from = Bytes(run[i].addr) + (at - Bytes(run[i].offset))
      BY ONLY <2>6, <2>7 DEF x, y, r
    <3>3. got = Got(run[i], at, n, from, slack)
      BY ONLY <2>8 DEF r
    <3>4. /\ Got(run[i], at, n, from, slack) \in Seq(Nat)
          /\ Len(Got(run[i], at, n, from, slack)) = n
          /\ \A k \in 1..n : Got(run[i], at, n, from, slack)[k] = ByteAt(at + k - 1, slack)
      BY <3>1, <3>2, GotLemma
    <3>. QED  BY ONLY <3>3, <3>4, Zenon
  <2>10. CASE given # n
    <3>1. CameShort(ReadTurn(s, r, blk, slack), off, asked, slack)
      <4>. DEFINE u == [k \in 1..given |-> from + k - 1]
                  t == [remain |-> s.remain, buf |-> s.buf \o u, short |-> TRUE, count |-> given, byteoff |-> 0]
      <4>1. ReadTurn(s, r, blk, slack) = t
        BY <1>3, <1>6, <2>10 DEF ReadTurn, n, at, from, inrun, Bytes
      <4>2. ~zeros /\ given = Given(from, n)
        BY <2>10
      <4>. HIDE DEF zeros, given
      <4>3. /\ given \in Int /\ given < n
            /\ \E d \in from..(from + n - 1) : ~InReach(d)
        BY <2>6, <2>7, <2>10, <4>2, GivenLemma
      <4>4. ASSUME NEW d \in Nat, d < n, NEW b \in BOOLEAN
            PROVE  ByteAt(off + have + d, b) = IF at + d < file.initsize \/ b THEN from + d ELSE Zero
        <5>. DEFINE p == at + d
        <5>1. p \in Nat /\ p = off + have + d /\ x <= p /\ p < y
          <6>1. x \in Nat /\ y \in Nat /\ at \in Nat /\ n \in Nat /\ have \in Nat
            BY ONLY <1>2, <1>3, <2>4, <2>6
          <6>2. x <= at /\ at + n <= y /\ at = off + have
            BY ONLY <2>3, <2>6
          <6>. HIDE DEF have
          <6>. QED  BY ONLY <6>1, <6>2, d \in Nat, d < n, off \in Nat
        <5>2. ByteAt(p, b) = IF FromDevice(r, p, b) THEN Bytes(r.addr) + (p - x) ELSE Zero
          <6>. HIDE DEF p
          <6>. QED  BY <5>1, PlainByteLemma DEF x, y
        <5>3. Bytes(r.addr) + (p - x) = from + d
          <6>. DEFINE w == Bytes(r.addr)
          <6>1. w \in Nat /\ x \in Nat /\ at \in Nat /\ from \in Nat
            BY ONLY <1>2, <2>4, <2>7
          <6>2. from = w + (at - x) /\ p = at + d
            BY ONLY <2>7
          <6>. HIDE DEF w, p
          <6>3. w + (p - x) = from + d
            BY ONLY <6>1, <6>2, d \in Nat
          <6>. QED  BY <6>3 DEF w
        <5>4. FromDevice(r, p, b) <=> p < file.initsize \/ b
          BY <4>2 DEF FromDevice, zeros
        <5>5. off + have + d = p
          BY ONLY <5>1
        <5>. HIDE DEF p
        <5>6. ByteAt(off + have + d, b) = IF p < file.initsize \/ b THEN from + d ELSE Zero
          BY ONLY <5>2, <5>3, <5>4, <5>5
        <5>. QED  BY ONLY <5>6 DEF p
      <4>5. t.short = TRUE /\ t.count = given /\ t.buf = s.buf \o u
        OBVIOUS
      <4>6. \E m \in Nat :
              /\ m <= asked /\ off + m <= Bytes(ListEnd) /\ given < m
              /\ \E k \in 1..m : ~InReach(ByteAt(off + k - 1, TRUE))
        <5>. DEFINE m == have + n
        <5>1. m \in Nat /\ m <= asked /\ given < m
          <6>1. have \in Nat /\ s.remain \in Nat /\ have + s.remain = asked
            BY ONLY <1>3
          <6>2. n \in Nat /\ n <= s.remain /\ given \in Int /\ given < n
            BY ONLY <2>6, <4>3
          <6>. HIDE DEF have
          <6>. QED  BY ONLY <6>1, <6>2
        <5>2. off + m <= Bytes(ListEnd)
          <6>1. y <= Bytes(ListEnd)
            <7>1. End(r) <= ListEnd /\ ListEnd \in Nat
              BY ListLemma, OrderLemma
            <7>. HIDE DEF r
            <7>. QED  BY ONLY <1>1, <7>1, BytesOrder, Zenon DEF y
          <6>2. Bytes(ListEnd) \in Nat
            BY ListLemma, BytesNat
          <6>3. y \in Nat /\ at \in Nat /\ n \in Nat /\ have \in Nat
            BY ONLY <1>2, <1>3, <2>4, <2>6
          <6>4. at = off + have /\ at + n <= y
            BY ONLY <2>3, <2>6
          <6>. HIDE DEF have
          <6>5. off + (have + n) <= y
            BY ONLY <6>3, <6>4, off \in Nat
          <6>. QED  BY ONLY <6>1, <6>2, <6>3, <6>5, off \in Nat
        <5>3. PICK d \in from..(from + n - 1) : ~InReach(d)
          BY <4>3
        <5>. DEFINE e == d - from
        <5>4. e \in Nat /\ e < n /\ from + e = d
          BY ONLY <2>6, <2>7, <5>3
        <5>. HIDE DEF e
        <5>5. ByteAt(off + have + e, TRUE) = d
          BY <4>4, <5>4
        <5>6. have + e + 1 \in 1..m /\ off + (have + e + 1) - 1 = off + have + e
          BY ONLY <1>3, <2>6, <5>4, off \in Nat DEF m
        <5>7. ~InReach(ByteAt(off + (have + e + 1) - 1, TRUE))
          BY <5>3, <5>5, <5>6
        <5>. HIDE DEF m
        <5>. QED  BY <5>1, <5>2, <5>6, <5>7
      <4>7. ASSUME NEW k \in 1..given
            PROVE  t.buf[k] = ByteAt(off + k - 1, slack) \/ (off + k > file.initsize /\ ~slack)
        <5>1. given \in Nat
          BY <4>3
        <5>2. u \in Seq(Nat) /\ Len(u) = given
          <6>1. \A l \in 1..given : from + l - 1 \in Nat
            BY <2>7, <5>1
          <6>2. u \in [1..given -> Nat]
            BY <6>1
          <6>. HIDE DEF u
          <6>. QED  BY ONLY <5>1, <6>2
        <5>. HIDE DEF u, t
        <5>3. k \in 1..(Len(s.buf) + Len(u))
          BY <1>3, <5>1, <5>2
        <5>4. \/ k \in 1..Len(s.buf) /\ (s.buf \o u)[k] = s.buf[k]
              \/ k - Len(s.buf) \in 1..Len(u) /\ (s.buf \o u)[k] = u[k - Len(s.buf)]
          BY <1>3, <5>2, <5>3, ConcatBytes
        <5>5. CASE k \in 1..have /\ t.buf[k] = s.buf[k]
          BY <1>4, <5>5
        <5>6. CASE k - have \in 1..given /\ t.buf[k] = u[k - have]
          <6>. DEFINE d == k - have - 1
          <6>1. d \in Nat /\ d < n /\ k - have = d + 1 /\ off + have + d = off + k - 1 /\ at + d = off + k - 1
            <7>1. k \in Int /\ k - have \in 1..given /\ given \in Int /\ given < n
              BY ONLY <4>3, <5>1, <5>6, k \in 1..given
            <7>2. at \in Nat /\ n \in Nat /\ have \in Nat /\ at = off + have
              BY ONLY <1>3, <2>3, <2>4, <2>6
            <7>. HIDE DEF have
            <7>. QED  BY ONLY <7>1, <7>2, off \in Nat
          <6>2. t.buf[k] = from + d
            <7>1. u[d + 1] = from + (d + 1) - 1
              BY <5>6, <6>1 DEF u
            <7>. HIDE DEF d
            <7>2. from + (d + 1) - 1 = from + d
              BY ONLY <2>7, <6>1
            <7>. QED  BY <5>6, <6>1, <7>1, <7>2
          <6>. HIDE DEF d
          <6>3. ByteAt(off + have + d, slack) = IF at + d < file.initsize \/ slack THEN from + d ELSE Zero
            BY <4>4, <6>1
          <6>4. file.initsize \in Nat
            BY FileLemma DEF RunsTyped
          <6>5. ~(at + d < file.initsize) => off + k > file.initsize
            <7>1. k \in Int
              BY ONLY <5>1, k \in 1..given
            <7>2. at \in Nat /\ d \in Nat /\ at + d = off + k - 1
              BY ONLY <2>4, <6>1
            <7>. QED  BY ONLY <6>4, <7>1, <7>2, off \in Nat
          <6>. QED  BY <6>1, <6>2, <6>3, <6>5
        <5>. QED  BY <4>5, <5>2, <5>4, <5>5, <5>6 DEF have
      <4>. HIDE DEF t
      <4>. QED  BY <4>1, <4>3, <4>5, <4>6, <4>7 DEF CameShort
    <3>. QED  BY <3>1 DEF r
  <2>11. CASE given = n
    <3>. DEFINE t == [remain |-> s.remain - n, buf |-> s.buf \o got, short |-> FALSE,
                      count |-> s.count + n, byteoff |-> IF zeros THEN s.byteoff ELSE 0]
    <3>1. ReadTurn(s, r, blk, slack) = t
      BY <1>3, <1>6, <2>11 DEF ReadTurn, n, at, from, got, inrun, Bytes
    <3>. HIDE DEF zeros, r, have
    <3>2. /\ t.byteoff = 0 /\ t.remain = s.remain - n /\ t.buf = s.buf \o got
          /\ t.short = FALSE /\ t.count = have + n
      BY <1>3
    <3>3. /\ t.buf \in Seq(Nat) /\ Len(t.buf) = have + n
           /\ \A k \in 1..(have + n) : \/ k \in 1..have /\ t.buf[k] = s.buf[k]
                                       \/ k - have \in 1..n /\ t.buf[k] = got[k - have]
      <4>. HIDE DEF t
      <4>1. /\ s.buf \o got \in Seq(Nat) /\ Len(s.buf \o got) = Len(s.buf) + Len(got)
            /\ \A k \in 1..(Len(s.buf) + Len(got)) :
                  \/ k \in 1..Len(s.buf) /\ (s.buf \o got)[k] = s.buf[k]
                  \/ k - Len(s.buf) \in 1..Len(got) /\ (s.buf \o got)[k] = got[k - Len(s.buf)]
        BY ONLY <1>3, <2>9, ConcatBytes, Zenon
      <4>2. Len(s.buf) = have /\ Len(got) = n
        BY ONLY <2>9 DEF have
      <4>. QED  BY ONLY <3>2, <4>1, <4>2, Zenon
    <3>. HIDE DEF t
    <3>4. \A k \in 1..(have + n) : t.buf[k] = ByteAt(off + k - 1, slack)
      <4>. SUFFICES ASSUME NEW k \in 1..(have + n)
                    PROVE  t.buf[k] = ByteAt(off + k - 1, slack)
        OBVIOUS
      <4>1. CASE k \in 1..have /\ t.buf[k] = s.buf[k]
        BY <1>4, <4>1
      <4>2. CASE k - have \in 1..n /\ t.buf[k] = got[k - have]
        <5>1. at + (k - have) - 1 = off + k - 1
          BY <1>3, <2>3, <2>6
        <5>. QED  BY <2>9, <4>2, <5>1
      <4>. QED  BY <3>3, <4>1, <4>2
    <3>5. t.remain \in Nat /\ Len(t.buf) + t.remain = asked
      <4>1. Len(t.buf) = have + n
        BY ONLY <3>3
      <4>2. /\ have \in Nat /\ s.remain \in Nat /\ have + s.remain = asked
            /\ n \in Nat /\ n <= s.remain /\ t.remain = s.remain - n
        BY ONLY <1>3, <2>6, <3>2
      <4>. QED  BY ONLY <4>1, <4>2
    <3>6. off + Len(t.buf) <= y /\ (t.remain # 0 => off + Len(t.buf) = y)
      <4>1. off + Len(t.buf) = at + n
        BY ONLY <1>3, <2>3, <2>6, <3>3, off \in Nat
      <4>2. t.remain # 0 => n # s.remain
        BY ONLY <1>3, <2>6, <3>2
      <4>. QED  BY ONLY <2>6, <4>1, <4>2
    <3>7. ~(y <= off)
      BY <1>2, <2>6
    <3>8. ReadTo(t, y, off, asked, slack)
      BY <3>2, <3>3, <3>4, <3>5, <3>6, <3>7 DEF ReadTo
    <3>. QED  BY <3>1, <3>8 DEF r, y
  <2>. QED  BY <2>10, <2>11
<1>. QED  BY <1>5, <1>6

\* Where a read that begins with s stands after each of n turns.
ReadTurns(f, n, s, blk, slack) ==
    [i \in 0..n |-> IF i = 0 THEN s ELSE ReadTurn(f[i - 1], run[i], blk, slack)]

LEMMA ReadTurnsExist ==
    ASSUME NEW s, NEW blk, NEW slack, NEW n \in Nat
    PROVE  \E f : f = ReadTurns(f, n, s, blk, slack)
<1>. DEFINE Failing == {m \in Nat : ~\E f : f = ReadTurns(f, m, s, blk, slack)}
<1>1. SUFFICES ASSUME Failing # {}  PROVE FALSE
  BY <1>1
<1>2. PICK m \in Failing : \A k \in Failing : m <= k
  BY <1>1, LeastOne
<1>3. CASE m = 0
  <2>. DEFINE f == [i \in 0..0 |-> s]
  <2>1. f = ReadTurns(f, 0, s, blk, slack)
    BY DEF ReadTurns
  <2>. QED  BY <1>2, <1>3, <2>1
<1>4. CASE m # 0
  <2>1. m \in Nat /\ m - 1 \in Nat /\ m - 1 \notin Failing
    BY <1>2, <1>4
  <2>2. PICK g : g = ReadTurns(g, m - 1, s, blk, slack)
    BY <2>1
  <2>. DEFINE f == [i \in 0..m |-> IF i = m THEN ReadTurn(g[m - 1], run[m], blk, slack) ELSE g[i]]
  <2>3. ASSUME NEW i \in 0..m
        PROVE  f[i] = IF i = 0 THEN s ELSE ReadTurn(f[i - 1], run[i], blk, slack)
    <3>1. CASE i = m
      <4>1. m - 1 \in 0..m /\ m - 1 # m /\ m # 0 /\ m \in 0..m
        BY <1>4, <2>1
      <4>. QED  BY <3>1, <4>1
    <3>2. CASE i # m
      <4>1. i \in 0..(m - 1) /\ f[i] = g[i]
        BY <2>1, <3>2
      <4>2. g[i] = IF i = 0 THEN s ELSE ReadTurn(g[i - 1], run[i], blk, slack)
        BY <2>2, <4>1 DEF ReadTurns
      <4>3. i # 0 => i - 1 \in 0..m /\ i - 1 # m
        BY <2>1
      <4>4. i # 0 => f[i - 1] = g[i - 1]
        BY <4>3
      <4>. QED  BY <4>1, <4>2, <4>4
    <3>. QED  BY <3>1, <3>2
  <2>4. f = ReadTurns(f, m, s, blk, slack)
    <3>1. f = [i \in 0..m |-> f[i]]
      OBVIOUS
    <3>. HIDE DEF f
    <3>. QED  BY <2>3, <3>1 DEF ReadTurns
  <2>. QED  BY <1>2, <2>4
<1>. QED  BY <1>3, <1>4

\* The place in the file to which the first i runs go.
EndAfter(i) == IF i = 0 THEN 0 ELSE End(run[i])
PlaceAfter(i) == Bytes(EndAfter(i))

LEMMA EndAfterLemma ==
    ASSUME RunsTyped, RunsAreConsecutive
    PROVE  /\ \A i \in 0..Len(run) : EndAfter(i) \in Nat
           /\ \A i \in 1..Len(run) : run[i].offset = EndAfter(i - 1)
           /\ EndAfter(Len(run)) = ListEnd
           /\ Len(run) \in Nat /\ 0 \in 0..Len(run) /\ Len(run) \in 0..Len(run)
<1>1. run \in Seq(RunType) /\ Len(run) \in Nat
  BY DEF RunsTyped
<1>2. ASSUME NEW i \in 0..Len(run)
      PROVE  EndAfter(i) \in Nat
  BY <1>1, RunLemma DEF EndAfter
<1>3. ASSUME NEW i \in 1..Len(run)
      PROVE  run[i].offset = EndAfter(i - 1)
  <2>1. run # <<>> /\ run[1].offset = 0 /\ Chained(run)
    BY <1>1 DEF RunsAreConsecutive, StartOf
  <2>2. CASE i = 1
    BY <2>1, <2>2 DEF EndAfter
  <2>3. CASE i # 1
    <3>1. i \in 2..Len(run) /\ i - 1 # 0
      BY <1>1, <2>3
    <3>2. run[i].offset = End(run[i - 1])
      BY <2>1, <3>1 DEF Chained
    <3>. QED  BY <3>1, <3>2 DEF EndAfter
  <2>. QED  BY <2>2, <2>3
<1>4. EndAfter(Len(run)) = ListEnd
  <2>1. run = <<>> <=> Len(run) = 0
    BY <1>1
  <2>. QED  BY <2>1 DEF EndAfter, ListEnd
<1>. QED  BY <1>1, <1>2, <1>3, <1>4

LEMMA PlaceAfterLemma ==
    ASSUME RunsTyped, RunsAreConsecutive
    PROVE  /\ \A i \in 0..Len(run) : PlaceAfter(i) \in Nat
           /\ \A i \in 1..Len(run) : /\ Bytes(run[i].offset) = PlaceAfter(i - 1)
                                      /\ Bytes(End(run[i])) = PlaceAfter(i)
           /\ PlaceAfter(0) = 0 /\ PlaceAfter(Len(run)) = Bytes(ListEnd)
           /\ Len(run) \in Nat /\ 0 \in 0..Len(run) /\ Len(run) \in 0..Len(run)
<1>1. PlaceAfter(0) = 0
  BY BytesZero DEF PlaceAfter, EndAfter
<1>2. \A i \in 1..Len(run) : i # 0
  OBVIOUS
<1>3. \A i \in 1..Len(run) : Bytes(End(run[i])) = PlaceAfter(i)
  BY <1>2 DEF PlaceAfter, EndAfter
<1>4. \A i \in 0..Len(run) : PlaceAfter(i) \in Nat
  <2>. SUFFICES ASSUME NEW i \in 0..Len(run)  PROVE PlaceAfter(i) \in Nat
    OBVIOUS
  <2>1. EndAfter(i) \in Nat
    BY EndAfterLemma
  <2>. QED  BY <2>1, BytesNat DEF PlaceAfter
<1>. QED  BY <1>1, <1>3, <1>4, EndAfterLemma DEF PlaceAfter

\* A read that begins with a block, before the limit.
LEMMA ReadLemma ==
    ASSUME RunsTyped, RunsAreConsecutive, file.skiplen = 0,
           NEW slack \in BOOLEAN, NEW off \in Nat, off % BlockSize = 0,
           NEW len \in Nat \ {0}, off < Limit(slack), Limit(slack) \in Nat,
           NEW asked, asked = Min({len, Limit(slack) - off})
    PROVE  \E s : /\ Read(off, len, slack) = [count |-> s.count, buf |-> s.buf]
                  /\ \/ ReadTo(s, Bytes(ListEnd), off, asked, slack)
                     \/ CameShort(s, off, asked, slack)
<1>. DEFINE blk == off \div BlockSize
            start == ReadStart(off, asked)
            n == Len(run)
            f == CHOOSE f : f = ReadTurns(f, n, start, blk, slack)
<1>1. Read(off, len, slack) = [count |-> f[n].count, buf |-> f[n].buf]
  <2>1. ~(off >= Limit(slack))
    OBVIOUS
  <2>. QED  BY <2>1 DEF Read, ReadTurns
<1>2. n \in Nat /\ 0 \in 0..n /\ n \in 0..n
  BY PlaceAfterLemma
<1>3. blk \in Nat /\ off = Bytes(blk)
  <2>1. blk \in Nat /\ off = Bytes(blk) + (off % BlockSize)
    BY DivLemma
  <2>2. Bytes(blk) \in Nat
    BY <2>1, BytesNat
  <2>. HIDE DEF blk
  <2>. QED  BY <2>1, <2>2
<1>4. asked \in Nat \ {0}
  <2>1. len \in Int /\ Limit(slack) - off \in Int /\ Limit(slack) - off > 0
    OBVIOUS
  <2>2. asked = IF len <= Limit(slack) - off THEN len ELSE Limit(slack) - off
    BY <2>1, MinMaxLemma
  <2>. QED  BY <2>1, <2>2
<1>. HIDE DEF n, blk
<1>5. f = ReadTurns(f, n, start, blk, slack)
  BY <1>2, ReadTurnsExist
<1>. HIDE DEF f
<1>6. \A i \in 0..n : f[i] = IF i = 0 THEN start ELSE ReadTurn(f[i - 1], run[i], blk, slack)
  BY <1>5 DEF ReadTurns
<1>. DEFINE Holds(i) == \/ ReadTo(f[i], PlaceAfter(i), off, asked, slack)
                        \/ CameShort(f[i], off, asked, slack)
            Failing == {i \in 0..n : ~Holds(i)}
<1>7. ASSUME Failing # {}  PROVE FALSE
  <2>1. Failing \in SUBSET Nat
    BY <1>2
  <2>2. PICK m \in Failing : \A k \in Failing : m <= k
    BY <1>7, <2>1, LeastOne
  <2>3. CASE m = 0
    <3>1. f[0] = [remain |-> asked, buf |-> <<>>, short |-> FALSE, count |-> 0, byteoff |-> 0]
      BY <1>2, <1>6 DEF ReadStart
    <3>2. /\ f[0].remain = asked /\ f[0].buf = <<>> /\ f[0].byteoff = 0
          /\ f[0].short = FALSE /\ f[0].count = 0
      BY ONLY <3>1
    <3>3. <<>> \in Seq(Nat) /\ Len(<<>>) = 0
      OBVIOUS
    <3>4. PlaceAfter(0) = 0
      BY PlaceAfterLemma
    <3>5. Holds(0)
      <4>. HIDE DEF start
      <4>1. Len(f[0].buf) = 0 /\ f[0].buf \in Seq(Nat)
        BY <3>2, <3>3
      <4>. QED  BY <1>4, <3>2, <3>4, <4>1 DEF ReadTo
    <3>. QED  BY <2>2, <2>3, <3>5
  <2>4. CASE m # 0
    <3>1. m \in 1..n /\ m - 1 \in 0..n /\ m - 1 \notin Failing
      BY <1>2, <2>2, <2>4
    <3>2. Holds(m - 1) /\ f[m] = ReadTurn(f[m - 1], run[m], blk, slack)
      BY <1>6, <3>1
    <3>3. Bytes(run[m].offset) = PlaceAfter(m - 1) /\ PlaceAfter(m) = Bytes(End(run[m]))
      BY <3>1, PlaceAfterLemma DEF n
    <3>4. CASE ReadTo(f[m - 1], PlaceAfter(m - 1), off, asked, slack)
      <4>1. \/ ReadTo(ReadTurn(f[m - 1], run[m], blk, slack), Bytes(End(run[m])), off, asked, slack)
            \/ CameShort(ReadTurn(f[m - 1], run[m], blk, slack), off, asked, slack)
        BY <1>3, <1>4, <3>1, <3>3, <3>4, ReadTurnLemma DEF n
      <4>. QED  BY <2>2, <3>2, <3>3, <4>1
    <3>5. CASE CameShort(f[m - 1], off, asked, slack)
      <4>1. ReadTurn(f[m - 1], run[m], blk, slack) = f[m - 1]
        BY <3>5 DEF CameShort, ReadTurn
      <4>. QED  BY <2>2, <3>2, <3>5, <4>1
    <3>. QED  BY <3>2, <3>4, <3>5
  <2>. QED  BY <2>3, <2>4
<1>8. \/ ReadTo(f[n], Bytes(ListEnd), off, asked, slack)
      \/ CameShort(f[n], off, asked, slack)
  BY <1>2, <1>7, PlaceAfterLemma DEF n
<1>. QED  BY <1>1, <1>8

LEMMA LimitLemma ==
    ASSUME RunsTyped, NEW slack \in BOOLEAN
    PROVE  Limit(slack) \in Nat /\ Limit(slack) <= file.allocsize /\ file.allocsize \in Nat
BY FileLemma DEF RunsTyped, Limit

\* How many bytes are expected.
LEMMA ExpectedLemma ==
    ASSUME RunsTyped, RunsAreConsecutive, NEW slack \in BOOLEAN, NEW off \in Nat, NEW len \in Nat
    PROVE  \E n \in Nat :
              /\ Expected(off, len, slack) = [k \in 1..n |-> ByteAt(off + k - 1, slack)]
              /\ n = 0 \/ (off + n <= Limit(slack) /\ n <= len /\ off + n <= Bytes(ListEnd) - file.skiplen)
              /\ off + n >= Limit(slack) \/ n >= len \/ off + n >= Bytes(ListEnd) - file.skiplen
<1>. DEFINE a == Limit(slack)
            b == off + len
            c == Bytes(ListEnd) - file.skiplen
            last == Min({a, b, c})
            n == Max({last - off, 0})
<1>1. a \in Nat /\ b \in Nat /\ c \in Int
  <2>1. ListEnd \in Nat /\ file.skiplen \in Nat
    BY ListLemma, FileLemma DEF RunsTyped
  <2>. QED  BY <2>1, BytesNat, LimitLemma
<1>2. Expected(off, len, slack) = [k \in 1..n |-> ByteAt(off + k - 1, slack)]
  BY DEF Expected, Bytes
<1>. HIDE DEF a, c
<1>3. last \in Int /\ last \in {a, b, c} /\ last <= a /\ last <= b /\ last <= c
  <2>1. a \in Int /\ b \in Int /\ c \in Int
    BY <1>1
  <2>. HIDE DEF b
  <2>. QED  BY ONLY <2>1, MinLemma, Zenon DEF last
<1>. HIDE DEF last
<1>4. n = IF last - off >= 0 THEN last - off ELSE 0
  <2>. DEFINE d == last - off
  <2>1. d \in Int /\ 0 \in Int
    BY <1>3
  <2>. HIDE DEF d
  <2>2. Max({d, 0}) = IF d >= 0 THEN d ELSE 0
    BY ONLY <2>1, MinMaxLemma, Zenon
  <2>. QED  BY ONLY <2>2 DEF d, n
<1>. HIDE DEF n
<1>5. n \in Nat
  BY <1>3, <1>4
<1>6. n = 0 \/ (off + n <= a /\ n <= len /\ off + n <= c)
  BY <1>1, <1>3, <1>4
<1>7. off + n >= a \/ n >= len \/ off + n >= c
  BY <1>1, <1>3, <1>4
<1>. QED  BY <1>2, <1>5, <1>6, <1>7 DEF a, c

\* What is read from the beginning of a block is what is in the list.
LEMMA BlockReadLemma ==
    ASSUME RunsTyped, RunsAreConsecutive, file.skiplen = 0,
           NEW off \in Nat, off % BlockSize = 0, NEW len \in Nat \ {0},
           NEW slack \in BOOLEAN, off < Limit(slack)
    PROVE  ReadGivesContent(off, len, slack)
<1>. DEFINE got == Read(off, len, slack)
            bytes == Expected(off, len, slack)
            lim == Limit(slack)
            asked == Min({len, lim - off})
            x == Bytes(ListEnd)
<1>1. lim \in Nat /\ x \in Nat /\ off < lim
  BY LimitLemma, ListLemma, BytesNat
<1>2. PICK n \in Nat :
              /\ bytes = [k \in 1..n |-> ByteAt(off + k - 1, slack)]
              /\ n = 0 \/ (off + n <= lim /\ n <= len /\ off + n <= x - file.skiplen)
              /\ off + n >= lim \/ n >= len \/ off + n >= x - file.skiplen
  BY ExpectedLemma
<1>3. Len(bytes) = n /\ DOMAIN bytes = 1..n /\ \A k \in 1..n : bytes[k] = ByteAt(off + k - 1, slack)
  BY <1>2
<1>4. /\ n = 0 \/ (off + n <= lim /\ n <= len /\ off + n <= x)
      /\ off + n >= lim \/ n >= len \/ off + n >= x
  <2>1. x - file.skiplen = x
    BY <1>1
  <2>. QED  BY <1>2, <2>1
<1>5. asked = IF len <= lim - off THEN len ELSE lim - off
  <2>1. lim - off \in Int
    BY <1>1
  <2>. QED  BY <2>1, MinMaxLemma
<1>6. PICK s : /\ got = [count |-> s.count, buf |-> s.buf]
               /\ \/ ReadTo(s, x, off, asked, slack)
                  \/ CameShort(s, off, asked, slack)
  BY <1>1, ReadLemma
<1>7. got.count = s.count /\ got.buf = s.buf
  BY <1>6
<1>. HIDE DEF got, bytes, asked, lim
<1>8. CASE ReadTo(s, x, off, asked, slack)
  <2>. HIDE DEF x
  <2>1. /\ s.remain \in Nat /\ s.buf \in Seq(Nat) /\ Len(s.buf) + s.remain = asked
        /\ x <= off => Len(s.buf) = 0
        /\ x > off => off + Len(s.buf) <= x /\ (s.remain # 0 => off + Len(s.buf) = x)
        /\ s.count = Len(s.buf)
    BY <1>8 DEF ReadTo
  <2>2. \A k \in 1..Len(s.buf) : s.buf[k] = ByteAt(off + k - 1, slack)
    BY <1>8 DEF ReadTo
  <2>3. Len(s.buf) = n
    <3>1. Len(s.buf) \in Nat
      BY <2>1
    <3>2. CASE x <= off
      BY <1>1, <1>4, <2>1, <3>1, <3>2
    <3>3. CASE x > off
      <4>1. /\ s.remain \in Nat /\ Len(s.buf) + s.remain = asked
            /\ off + Len(s.buf) <= x /\ (s.remain # 0 => off + Len(s.buf) = x)
        BY ONLY <2>1, <3>3
      <4>2. CASE s.remain = 0
        <5>1. Len(s.buf) = asked
          BY ONLY <3>1, <4>1, <4>2
        <5>2. off + asked <= x /\ asked <= len /\ off + asked <= lim /\ asked > 0
              /\ (asked = len \/ off + asked = lim)
          BY ONLY <1>1, <1>5, <4>1, <5>1, off \in Nat, len \in Nat \ {0}
        <5>. QED  BY ONLY <1>1, <1>4, <3>1, <5>1, <5>2, n \in Nat, off \in Nat, len \in Nat \ {0}
      <4>3. CASE s.remain # 0
        <5>1. off + Len(s.buf) = x /\ Len(s.buf) < asked /\ Len(s.buf) > 0
          BY ONLY <1>1, <1>5, <3>1, <3>3, <4>1, <4>3, off \in Nat, len \in Nat \ {0}
        <5>2. Len(s.buf) < len /\ off + Len(s.buf) < lim
          BY ONLY <1>1, <1>5, <3>1, <5>1, off \in Nat, len \in Nat \ {0}
        <5>. QED  BY ONLY <1>1, <1>4, <3>1, <5>1, <5>2, n \in Nat, off \in Nat, len \in Nat \ {0}
      <4>. QED  BY <4>2, <4>3
    <3>. QED  BY <1>1, <3>2, <3>3
  <2>4. got.count = n /\ \A k \in 1..n : got.buf[k] = bytes[k]
    BY <1>3, <1>7, <2>1, <2>2, <2>3
  <2>5. /\ got.count <= Len(bytes) /\ ~(got.count < Len(bytes))
        /\ \A k \in 1..got.count : got.buf[k] = bytes[k]
    BY <1>3, <2>4
  <2>. QED  BY ONLY <2>5 DEF ReadGivesContent, got, bytes
<1>9. CASE CameShort(s, off, asked, slack)
  <2>1. PICK m \in Nat : /\ m <= asked /\ off + m <= x /\ s.count < m
                         /\ \E k \in 1..m : ~InReach(ByteAt(off + k - 1, TRUE))
    BY <1>9 DEF CameShort
  <2>2. /\ s.count \in Int
        /\ \A k \in 1..s.count : \/ s.buf[k] = ByteAt(off + k - 1, slack)
                                 \/ off + k > file.initsize /\ ~slack
    BY <1>9 DEF CameShort
  <2>. HIDE DEF x
  <2>3. m <= n
    <3>1. m <= asked /\ off + m <= x
      BY <2>1
    <3>2. m <= len /\ off + m <= lim
      BY ONLY <1>1, <1>5, <3>1, off \in Nat, len \in Nat \ {0}, m \in Nat
    <3>. QED  BY ONLY <1>1, <1>4, <3>1, <3>2, off \in Nat, len \in Nat \ {0}, m \in Nat, n \in Nat
  <2>4. s.count < n
    BY ONLY <2>1, <2>2, <2>3, m \in Nat, n \in Nat
  <2>5. PICK k \in 1..m : ~InReach(ByteAt(off + k - 1, TRUE))
    BY <2>1
  <2>6. k \in 1..n
    BY <2>3
  <2>7. \A l \in 1..s.count : l \in 1..n
    BY <2>2, <2>4
  <2>8. got.count <= Len(bytes) /\ got.count < Len(bytes)
    BY <1>3, <1>7, <2>2, <2>4
  <2>9. \A l \in 1..got.count : got.buf[l] = bytes[l] \/ (off + l > file.initsize /\ ~slack)
    BY <1>3, <1>7, <2>2, <2>7
  <2>10. \E l \in DOMAIN bytes : ~InReach(ByteAt(off + l - 1, TRUE))
    BY <1>3, <2>5, <2>6
  <2>. QED  BY ONLY <2>8, <2>9, <2>10 DEF ReadGivesContent, got, bytes
<1>. QED  BY <1>6, <1>8, <1>9

\* A read that begins with a block returns the bytes of the runs that have been
\* added, over any number of runs and the ends of the file, and fewer only if
\* the device has not all of them, whatever the device (fs_attr.c:1055-1198).
THEOREM BlockReads == Spec => []BlockReadIsContent
<1>1. (~overlaid => IInv) => BlockReadIsContent
  <2>. SUFFICES ASSUME ~overlaid => IInv, ~overlaid, file.skiplen = 0,
                       NEW off \in 0..(file.allocsize + 1), NEW len \in 1..(file.allocsize + 1),
                       NEW slack \in BOOLEAN, off % BlockSize = 0, off < Limit(slack)
                PROVE  ReadGivesContent(off, len, slack)
    BY DEF BlockReadIsContent
  <2>1. RunsTyped /\ RunsAreConsecutive
    BY DEF IInv
  <2>2. file.allocsize \in Nat
    BY <2>1, FileLemma DEF RunsTyped
  <2>3. off \in Nat /\ len \in Nat \ {0}
    BY <2>2
  <2>. QED  BY <2>1, <2>3, BlockReadLemma
<1>. QED  BY <1>1, ListInvariance, PTL

-------------------------------------------------------------------------------
(* Walking.                                                                *)

BlockType == [addr : Nat, kind : {"data", "sparse", "filler"}]

\* A block of a run, the b-th of the file.
IsBlock(x, r, b) ==
    /\ r.offset <= b - 1 /\ b - 1 < End(r)
    /\ x.addr = r.addr + (b - 1 - r.offset) /\ x.kind = r.kind

\* The blocks of the runs up to v.
BlocksTo(s, v) ==
    /\ s \in Seq(BlockType) /\ Len(s) = v
    /\ \A b \in 1..v : \E i \in 1..Len(run) : IsBlock(s[b], run[i], b)

LEMMA BlocksTurnLemma ==
    ASSUME RunsTyped, NEW i \in 1..Len(run), NEW s, BlocksTo(s, run[i].offset)
    PROVE  BlocksTo(s \o BlocksOf(run[i]), End(run[i]))
<1>. DEFINE r == run[i]
            t == BlocksOf(r)
            m == r.offset
            n == r.len
            l == s \o t
<1>1. /\ m \in Nat /\ n \in Nat /\ r.addr \in Nat /\ End(r) = m + n
      /\ r.kind \in {"data", "sparse", "filler"}
  <2>1. r \in RunType
    BY RunLemma DEF RunsTyped
  <2>. QED  BY <2>1, RunLemma DEF RunsTyped, RunType
<1>2. s \in Seq(BlockType) /\ Len(s) = m
  BY DEF BlocksTo
<1>3. t = [k \in 1..n |-> [addr |-> r.addr + k - 1, kind |-> r.kind]]
  BY DEF BlocksOf
<1>4. \A k \in 1..n : t[k] \in BlockType /\ t[k].addr = r.addr + k - 1 /\ t[k].kind = r.kind
  <2>. SUFFICES ASSUME NEW k \in 1..n
                PROVE  t[k] \in BlockType /\ t[k].addr = r.addr + k - 1 /\ t[k].kind = r.kind
    OBVIOUS
  <2>1. t[k] = [addr |-> r.addr + k - 1, kind |-> r.kind]
    BY <1>3
  <2>2. r.addr + k - 1 \in Nat
    BY <1>1
  <2>. QED  BY <1>1, <2>1, <2>2 DEF BlockType
<1>5. t \in Seq(BlockType) /\ Len(t) = n
  <2>1. t \in [1..n -> BlockType]
    BY <1>3, <1>4
  <2>. QED  BY <1>1, <2>1
<1>. HIDE DEF t
<1>6. /\ l \in Seq(BlockType) /\ Len(l) = m + n
      /\ \A b \in 1..Len(l) : \/ b \in 1..m /\ l[b] = s[b]
                              \/ b - m \in 1..n /\ l[b] = t[b - m]
  <2>1. /\ l \in Seq(BlockType) /\ Len(l) = Len(s) + Len(t)
        /\ \A b \in 1..Len(l) : \/ b \in 1..Len(s) /\ l[b] = s[b]
                                \/ b - Len(s) \in 1..Len(t) /\ l[b] = t[b - Len(s)]
    <3>. HIDE DEF m, n
    <3>1. s \in Seq(BlockType) /\ t \in Seq(BlockType)
      BY <1>2, <1>5
    <3>. QED  BY ONLY <3>1, ConcatLemma, Zenon
  <2>. QED  BY ONLY <1>2, <1>5, <2>1
<1>. HIDE DEF l
<1>7. ASSUME NEW b \in 1..(m + n)
      PROVE  \E j \in 1..Len(run) : IsBlock(l[b], run[j], b)
  <2>1. CASE b \in 1..m /\ l[b] = s[b]
    BY <2>1 DEF BlocksTo
  <2>2. CASE b - m \in 1..n /\ l[b] = t[b - m]
    <3>1. l[b].addr = r.addr + (b - m) - 1 /\ l[b].kind = r.kind
      BY <1>4, <2>2
    <3>2. IsBlock(l[b], r, b)
      <4>. HIDE DEF r
      <4>1. m <= b - 1 /\ b - 1 < m + n /\ r.addr + (b - m) - 1 = r.addr + (b - 1 - m)
        BY <1>1, <2>2
      <4>. QED  BY <1>1, <3>1, <4>1 DEF IsBlock
    <3>. QED  BY <3>2
  <2>. QED  BY <1>6, <2>1, <2>2
<1>8. BlocksTo(l, m + n)
  BY <1>6, <1>7 DEF BlocksTo
<1>. QED  BY <1>1, <1>8 DEF l, t

\* The blocks after each of n runs.
BlocksTurns(f, n) == [i \in 0..n |-> IF i = 0 THEN <<>> ELSE f[i - 1] \o BlocksOf(run[i])]

LEMMA BlocksTurnsExist ==
    ASSUME NEW n \in Nat
    PROVE  \E f : f = BlocksTurns(f, n)
<1>. DEFINE Failing == {m \in Nat : ~\E f : f = BlocksTurns(f, m)}
<1>1. SUFFICES ASSUME Failing # {}  PROVE FALSE
  BY <1>1
<1>2. PICK m \in Failing : \A k \in Failing : m <= k
  BY <1>1, LeastOne
<1>3. CASE m = 0
  <2>. DEFINE f == [i \in 0..0 |-> <<>>]
  <2>1. f = BlocksTurns(f, 0)
    BY DEF BlocksTurns
  <2>. QED  BY <1>2, <1>3, <2>1
<1>4. CASE m # 0
  <2>1. m \in Nat /\ m - 1 \in Nat /\ m - 1 \notin Failing
    BY <1>2, <1>4
  <2>2. PICK g : g = BlocksTurns(g, m - 1)
    BY <2>1
  <2>. DEFINE f == [i \in 0..m |-> IF i = m THEN g[m - 1] \o BlocksOf(run[m]) ELSE g[i]]
  <2>3. ASSUME NEW i \in 0..m
        PROVE  f[i] = IF i = 0 THEN <<>> ELSE f[i - 1] \o BlocksOf(run[i])
    <3>1. CASE i = m
      <4>1. m - 1 \in 0..m /\ m - 1 # m /\ m # 0 /\ m \in 0..m
        BY <1>4, <2>1
      <4>. QED  BY <3>1, <4>1
    <3>2. CASE i # m
      <4>1. i \in 0..(m - 1) /\ f[i] = g[i]
        BY <2>1, <3>2
      <4>2. g[i] = IF i = 0 THEN <<>> ELSE g[i - 1] \o BlocksOf(run[i])
        BY <2>2, <4>1 DEF BlocksTurns
      <4>3. i # 0 => i - 1 \in 0..m /\ i - 1 # m
        BY <2>1
      <4>4. i # 0 => f[i - 1] = g[i - 1]
        BY <4>3
      <4>. QED  BY <4>1, <4>2, <4>4
    <3>. QED  BY <3>1, <3>2
  <2>4. f = BlocksTurns(f, m)
    <3>1. f = [i \in 0..m |-> f[i]]
      OBVIOUS
    <3>. HIDE DEF f
    <3>. QED  BY <2>3, <3>1 DEF BlocksTurns
  <2>. QED  BY <1>2, <2>4
<1>. QED  BY <1>3, <1>4

\* The walk comes to the blocks of the list, each of its run.
LEMMA BlocksLemma ==
    ASSUME RunsTyped, RunsAreConsecutive
    PROVE  BlocksTo(Blocks, ListEnd)
<1>. DEFINE n == Len(run)
            f == CHOOSE f : f = BlocksTurns(f, n)
<1>1. Blocks = f[n]
  BY DEF Blocks, BlocksTurns
<1>2. n \in Nat /\ 0 \in 0..n /\ n \in 0..n
  BY EndAfterLemma
<1>. HIDE DEF n
<1>3. f = BlocksTurns(f, n)
  BY <1>2, BlocksTurnsExist
<1>. HIDE DEF f
<1>4. \A i \in 0..n : f[i] = IF i = 0 THEN <<>> ELSE f[i - 1] \o BlocksOf(run[i])
  BY <1>3 DEF BlocksTurns
<1>. DEFINE Failing == {i \in 0..n : ~BlocksTo(f[i], EndAfter(i))}
<1>5. ASSUME Failing # {}  PROVE FALSE
  <2>1. Failing \in SUBSET Nat
    BY <1>2
  <2>2. PICK j \in Failing : \A k \in Failing : j <= k
    BY <1>5, <2>1, LeastOne
  <2>3. CASE j = 0
    <3>1. f[0] = <<>> /\ EndAfter(0) = 0
      BY <1>2, <1>4 DEF EndAfter
    <3>2. <<>> \in Seq(BlockType) /\ Len(<<>>) = 0
      OBVIOUS
    <3>3. BlocksTo(<<>>, 0)
      BY <3>2 DEF BlocksTo
    <3>. QED  BY <2>2, <2>3, <3>1, <3>3
  <2>4. CASE j # 0
    <3>1. j \in 1..n /\ j - 1 \in 0..n /\ j - 1 \notin Failing
      BY <1>2, <2>2, <2>4
    <3>2. BlocksTo(f[j - 1], EndAfter(j - 1)) /\ f[j] = f[j - 1] \o BlocksOf(run[j])
      <4>1. j \in 0..n
        BY <2>2
      <4>2. f[j] = f[j - 1] \o BlocksOf(run[j])
        BY <1>4, <2>4, <4>1
      <4>. QED  BY <3>1, <4>2
    <3>3. run[j].offset = EndAfter(j - 1) /\ EndAfter(j) = End(run[j])
      BY <2>4, <3>1, EndAfterLemma DEF n, EndAfter
    <3>4. BlocksTo(f[j - 1] \o BlocksOf(run[j]), End(run[j]))
      BY <3>1, <3>2, <3>3, BlocksTurnLemma DEF n
    <3>. QED  BY <2>2, <3>2, <3>3, <3>4
  <2>. QED  BY <2>3, <2>4
<1>6. BlocksTo(f[n], EndAfter(n))
  BY <1>2, <1>5
<1>. QED  BY <1>1, <1>6, EndAfterLemma DEF n

\* Where a block is in the file and on the device.
LEMMA BlockPlaceLemma ==
    ASSUME RunsTyped, RunsAreConsecutive, NEW b \in 1..ListEnd
    PROVE  /\ Blocks[b].addr \in Nat
           /\ \E i \in 1..Len(run) :
                 /\ Blocks[b].kind = run[i].kind
                 /\ Bytes(run[i].offset) \in Nat /\ Bytes(run[i].addr) \in Nat /\ Bytes(End(run[i])) \in Nat
                 /\ Bytes(run[i].offset) <= Bytes(b - 1) /\ Bytes(b) <= Bytes(End(run[i]))
                 /\ Bytes(Blocks[b].addr) = Bytes(run[i].addr) + (Bytes(b - 1) - Bytes(run[i].offset))
<1>1. PICK i \in 1..Len(run) : IsBlock(Blocks[b], run[i], b)
  BY BlocksLemma DEF BlocksTo
<1>. DEFINE o == run[i].offset
            a == run[i].addr
            z == End(run[i])
            at == Blocks[b].addr
            d == b - 1 - o
<1>2. o \in Nat /\ a \in Nat /\ z \in Nat
  BY RunLemma DEF RunsTyped
<1>3. o <= b - 1 /\ b - 1 < z /\ at = a + (b - 1 - o) /\ Blocks[b].kind = run[i].kind
  BY <1>1 DEF IsBlock
<1>. HIDE DEF o, a, z, at
<1>4. b - 1 \in Nat /\ b \in Nat /\ d \in Nat /\ o + d = b - 1 /\ a + d = at /\ at \in Nat /\ b <= z
  <2>1. ListEnd \in Nat
    BY ListLemma
  <2>. QED  BY <1>2, <1>3, <2>1
<1>. HIDE DEF d
<1>5. Bytes(o + d) = Bytes(o) + Bytes(d) /\ Bytes(a + d) = Bytes(a) + Bytes(d)
  BY ONLY <1>2, <1>4, BytesSum, Zenon
<1>6. /\ Bytes(o) \in Nat /\ Bytes(d) \in Nat /\ Bytes(a) \in Nat /\ Bytes(z) \in Nat
      /\ Bytes(o) <= Bytes(b - 1) /\ Bytes(b) <= Bytes(z)
  BY ONLY <1>2, <1>3, <1>4, BytesNat, BytesOrder, Zenon
<1>7. Bytes(at) = Bytes(a) + (Bytes(b - 1) - Bytes(o))
  <2>. DEFINE u == Bytes(b - 1)
              v == Bytes(at)
  <2>1. u = Bytes(o) + Bytes(d) /\ v = Bytes(a) + Bytes(d)
    BY ONLY <1>4, <1>5
  <2>. HIDE DEF u, v
  <2>2. v = Bytes(a) + (u - Bytes(o))
    BY ONLY <1>6, <2>1
  <2>. QED  BY <2>2 DEF u, v
<1>. QED  BY <1>3, <1>4, <1>6, <1>7 DEF o, a, z, at

\* A block is shown when it ends behind what is skipped, up to its end or the
\* limit.
LEMMA CalledLemma ==
    ASSUME RunsTyped, NEW slack \in BOOLEAN, NEW b \in Nat \ {0}
    PROVE  /\ file.skiplen \in Nat /\ Limit(slack) \in Nat
           /\ Bytes(b - 1) \in Nat /\ Bytes(b) = Bytes(b - 1) + BlockSize
           /\ Off(b) = IF Bytes(b - 1) >= file.skiplen THEN Bytes(b - 1) - file.skiplen ELSE 0
           /\ Called(b) <=> Bytes(b) > file.skiplen
           /\ Called(b) => Off(b) + RetLen(b, slack) =
                 IF Bytes(b) - file.skiplen <= Limit(slack) THEN Bytes(b) - file.skiplen ELSE Limit(slack)
<1>. DEFINE s == file.skiplen
            lim == Limit(slack)
            x == Bytes(b - 1)
            y == Bytes(b)
<1>1. s \in Nat /\ lim \in Nat /\ BlockSize \in Nat \ {0}
  BY FileLemma, LimitLemma, BlockSizeAssumption DEF RunsTyped
<1>2. x \in Nat /\ y = x + BlockSize
  <2>1. b - 1 \in Nat /\ 1 \in Nat /\ (b - 1) + 1 = b
    OBVIOUS
  <2>2. Bytes((b - 1) + 1) = Bytes(b - 1) + Bytes(1) /\ Bytes(b - 1) \in Nat
    BY <2>1, BytesSum, BytesNat
  <2>3. Bytes(1) = BlockSize
    BY <1>1 DEF Bytes
  <2>. QED  BY <2>1, <2>2, <2>3
<1>3. Off(b) = Max({x - s, 0}) /\ SkipRemain(b) = Max({s - x, 0})
  BY DEF Off, SkipRemain, Bytes
<1>4. RetLen(b, slack) = Min({BlockSize - SkipRemain(b), lim - Off(b)})
  BY DEF RetLen
<1>5. Called(b) <=> SkipRemain(b) < BlockSize
  BY DEF Called
<1>. HIDE DEF x, y, s, lim
<1>6. /\ Off(b) = IF x - s >= 0 THEN x - s ELSE 0
      /\ SkipRemain(b) = IF s - x >= 0 THEN s - x ELSE 0
  <2>1. x - s \in Int /\ s - x \in Int /\ 0 \in Int
    BY <1>1, <1>2
  <2>. DEFINE c == x - s
              d == s - x
  <2>. HIDE DEF c, d
  <2>2. Max({c, 0}) = (IF c >= 0 THEN c ELSE 0) /\ Max({d, 0}) = (IF d >= 0 THEN d ELSE 0)
    BY ONLY <2>1, MinMaxLemma, Zenon DEF c, d
  <2>. QED  BY ONLY <1>3, <2>2 DEF c, d
<1>7. Off(b) \in Int /\ SkipRemain(b) \in Int
  BY ONLY <1>1, <1>2, <1>6
<1>8. RetLen(b, slack) = IF BlockSize - SkipRemain(b) <= lim - Off(b) THEN BlockSize - SkipRemain(b)
                         ELSE lim - Off(b)
  <2>. DEFINE c == BlockSize - SkipRemain(b)
              d == lim - Off(b)
  <2>1. c \in Int /\ d \in Int
    BY ONLY <1>1, <1>7
  <2>. HIDE DEF c, d
  <2>2. Min({c, d}) = IF c <= d THEN c ELSE d
    BY ONLY <2>1, MinMaxLemma, Zenon
  <2>. QED  BY ONLY <1>4, <2>2 DEF c, d
<1>9. Off(b) = IF x >= s THEN x - s ELSE 0
  BY ONLY <1>1, <1>2, <1>6
<1>10. Called(b) <=> y > s
  BY ONLY <1>1, <1>2, <1>5, <1>6
<1>11. y > s => Off(b) + RetLen(b, slack) = IF y - s <= lim THEN y - s ELSE lim
  BY ONLY <1>1, <1>2, <1>6, <1>7, <1>8
<1>. QED  BY <1>1, <1>2, <1>9, <1>10, <1>11 DEF x, y, s, lim

\* After a block that does not end the walk there is something left to show, or
\* to skip.
LEMMA GoesOnLemma ==
    ASSUME RunsTyped, NEW slack \in BOOLEAN, NEW b \in Nat \ {0}, NEW stop, ~Ends(b, slack, stop)
    PROVE  Bytes(b) <= file.skiplen \/ Bytes(b) < file.skiplen + Limit(slack)
<1>. DEFINE y == Bytes(b)
            s == file.skiplen
            lim == Limit(slack)
            shown == Off(b) + RetLen(b, slack)
<1>1. /\ s \in Nat /\ lim \in Nat /\ y \in Nat
      /\ Called(b) <=> y > s
      /\ Called(b) => shown = IF y - s <= lim THEN y - s ELSE lim
  <2>1. BlockSize \in Nat
    BY BlockSizeAssumption
  <2>2. Bytes(b - 1) \in Nat /\ Bytes(b) = Bytes(b - 1) + BlockSize
    BY CalledLemma
  <2>3. y \in Nat
    BY <2>1, <2>2
  <2>. QED  BY <2>3, CalledLemma
<1>2. ~Called(b) \/ ~(shown >= lim)
  BY DEF Ends
<1>. HIDE DEF y, s, lim, shown
<1>3. y <= s \/ y < s + lim
  BY ONLY <1>1, <1>2
<1>. QED  BY <1>3 DEF y, s, lim

\* A byte that is shown is the file's.  Only when the block has bytes to be
\* skipped is the place in it more than the place in the file; then either all
\* of the block is initialized or there is no such block.
LEMMA ShownLemma ==
    ASSUME RunsTyped, RunsAreConsecutive, NEW slack \in BOOLEAN, NEW p \in Nat,
           file.skiplen % BlockSize = 0 \/ file.initsize >= BlockSize,
           p + file.skiplen < Bytes(ListEnd)
    PROVE  Shown(p, slack) = ByteAt(p, slack)
<1>. DEFINE s == file.skiplen
            init == file.initsize
            q == p + s
            v == q \div BlockSize
            k == q % BlockSize
            b == v + 1
            x == Bytes(v)
            off == Off(b)
<1>1. s \in Nat /\ init \in Nat /\ BlockSize \in Nat \ {0}
  BY FileLemma, BlockSizeAssumption DEF RunsTyped
<1>2. q \in Nat /\ q = p + s /\ q < Bytes(ListEnd)
  BY <1>1
<1>3. v \in Nat /\ k \in 0..(BlockSize - 1) /\ q = x + k /\ x \in Nat
  <2>. HIDE DEF q
  <2>. QED  BY <1>2, DivLemma, BytesNat
<1>4. Shown(p, slack) = IF Blocks[b].kind # "data" \/ (k >= init - off /\ ~slack) THEN Zero
                        ELSE Bytes(Blocks[b].addr) + k
  BY DEF Shown, Bytes
<1>. HIDE DEF q, v, k
<1>5. b \in 1..ListEnd /\ b - 1 = v /\ b \in Nat \ {0}
  <2>1. ListEnd \in Nat
    BY ListLemma
  <2>2. ListEnd <= v => Bytes(ListEnd) <= x
    BY <1>3, <2>1, BytesOrder
  <2>3. Bytes(ListEnd) \in Nat
    BY <2>1, BytesNat
  <2>4. x <= q
    BY <1>3
  <2>5. ~(ListEnd <= v)
    BY ONLY <1>2, <1>3, <2>2, <2>3, <2>4
  <2>. QED  BY <1>3, <2>1, <2>5
<1>6. off = (IF x >= s THEN x - s ELSE 0) /\ Bytes(b) = x + BlockSize
  BY <1>5, CalledLemma
<1>7. k \in Nat /\ k < BlockSize
  BY <1>1, <1>3
<1>8. k >= init - off <=> p >= init
  <2>1. CASE x >= s
    <3>1. off = x - s /\ k + x = p + s
      BY <1>2, <1>3, <1>6, <2>1
    <3>. HIDE DEF off, x, s, init
    <3>. QED  BY ONLY <1>1, <1>3, <1>7, <2>1, <3>1, p \in Nat
  <2>2. CASE x < s
    <3>1. off = 0 /\ k + x = p + s
      BY <1>1, <1>2, <1>3, <1>6, <2>2
    <3>2. init >= BlockSize
      <4>. SUFFICES ASSUME s % BlockSize = 0  PROVE FALSE
        OBVIOUS
      <4>. DEFINE u == s \div BlockSize
      <4>1. u \in Nat /\ s = Bytes(u) + 0
        BY <1>1, DivLemma
      <4>. HIDE DEF u
      <4>2. Bytes(u) \in Nat
        BY <4>1, BytesNat
      <4>3. s = Bytes(u)
        BY <4>1, <4>2
      <4>. HIDE DEF s
      <4>4. u <= v => Bytes(u) <= x
        BY <1>3, <4>1, BytesOrder
      <4>5. v < u => x + BlockSize <= Bytes(u)
        BY <1>3, <4>1, BytesOrder
      <4>. HIDE DEF x
      <4>6. ~(u <= v)
        BY ONLY <1>1, <1>3, <2>2, <4>2, <4>3, <4>4
      <4>7. v < u
        BY ONLY <1>3, <4>1, <4>6
      <4>. QED  BY ONLY <1>1, <1>2, <1>3, <1>7, <4>2, <4>3, <4>5, <4>7, p \in Nat
    <3>. HIDE DEF off, x, s, init
    <3>3. p < k
      BY ONLY <1>1, <1>3, <1>7, <2>2, <3>1, p \in Nat
    <3>4. ~(p >= init) /\ ~(k >= init - off)
      BY ONLY <1>1, <1>7, <3>1, <3>2, <3>3, p \in Nat
    <3>. QED  BY <3>4
  <2>3. x >= s \/ x < s
    BY ONLY <1>1, <1>3
  <2>. QED  BY <2>1, <2>2, <2>3
<1>9. PICK i \in 1..Len(run) :
          /\ Blocks[b].kind = run[i].kind
          /\ Bytes(run[i].offset) \in Nat /\ Bytes(run[i].addr) \in Nat /\ Bytes(End(run[i])) \in Nat
          /\ Bytes(run[i].offset) <= Bytes(b - 1) /\ Bytes(b) <= Bytes(End(run[i]))
          /\ Bytes(Blocks[b].addr) = Bytes(run[i].addr) + (Bytes(b - 1) - Bytes(run[i].offset))
  BY <1>5, BlockPlaceLemma
<1>. DEFINE o == Bytes(run[i].offset)
            a == Bytes(run[i].addr)
            z == Bytes(End(run[i]))
<1>10. o \in Nat /\ a \in Nat /\ z \in Nat /\ o <= x /\ x + BlockSize <= z
  BY <1>5, <1>6, <1>9
<1>11. Bytes(Blocks[b].addr) = a + (x - o)
  BY <1>5, <1>9
<1>. HIDE DEF x, off, s
<1>12. o <= q /\ q < z
  <2>. HIDE DEF o, z
  <2>. QED  BY ONLY <1>1, <1>2, <1>3, <1>7, <1>10
<1>13. ByteAt(p, slack) = IF FromDevice(run[i], p, slack) THEN a + (q - o) ELSE Zero
  BY <1>2, <1>12, ByteLemma DEF s
<1>14. Bytes(Blocks[b].addr) + k = a + (q - o)
  <2>. DEFINE w == Bytes(Blocks[b].addr)
  <2>1. w = a + (x - o)
    BY <1>11
  <2>. HIDE DEF w, a, o
  <2>2. w + k = a + (q - o)
    BY ONLY <1>3, <1>7, <1>10, <2>1
  <2>. QED  BY <2>2 DEF w
<1>15. FromDevice(run[i], p, slack) <=> ~(Blocks[b].kind # "data" \/ (k >= init - off /\ ~slack))
  BY <1>1, <1>8, <1>9 DEF FromDevice
<1>. QED  BY <1>4, <1>13, <1>14, <1>15

\* A block that fails is bad.
LEMMA FailsLemma ==
    ASSUME RunsTyped, RunsAreConsecutive, NEW slack \in BOOLEAN, NEW b \in 1..ListEnd, Fails(b, slack)
    PROVE  Bad(b)
<1>. DEFINE at == Blocks[b].addr
            z == Bytes(LastBlockAct + 1)
<1>1. at \in Nat /\ Bytes(at) \in Nat /\ at * BlockSize = Bytes(at)
  BY BlockPlaceLemma, BytesNat DEF Bytes
<1>2. /\ LastBlockAct \in Nat /\ (LastBlockAct + 1) * BlockSize = z /\ z \in Nat
      /\ file.fs.unreadable \subseteq Nat
  BY HeldLemma
<1>3. BlockSize \in Nat \ {0}
  BY BlockSizeAssumption
<1>4. CASE at > file.fs.last_block
  BY <1>4 DEF Bad
<1>5. CASE Blocks[b].kind = "data" /\ at > LastBlockAct
  <2>1. z <= Bytes(at)
    <3>1. LastBlockAct + 1 \in Nat /\ LastBlockAct + 1 <= at
      BY <1>1, <1>2, <1>5
    <3>. QED  BY <1>1, <3>1, BytesOrder
  <2>2. ~InReach(Bytes(at) + 0)
    <3>. DEFINE d == Bytes(at) + 0
    <3>1. ~(d < z)
      <4>. HIDE DEF z, at
      <4>. QED  BY <1>1, <1>2, <2>1
    <3>. QED  BY <1>2, <3>1 DEF InReach
  <2>3. 0 \in 0..(BlockSize - 1)
    BY <1>3
  <2>. QED  BY <1>1, <1>5, <2>2, <2>3 DEF Bad
<1>6. CASE Blocks[b].kind = "data" /\ \E d \in file.fs.unreadable : d \div BlockSize = at
  <2>1. PICK d \in file.fs.unreadable : d \div BlockSize = at
    BY <1>6
  <2>2. d \in Nat
    BY <1>2
  <2>3. d = Bytes(at) + (d % BlockSize) /\ d % BlockSize \in 0..(BlockSize - 1)
    BY <2>1, <2>2, DivLemma
  <2>4. ~InReach(Bytes(at) + (d % BlockSize))
    BY <2>3 DEF InReach
  <2>. QED  BY <1>1, <1>6, <2>3, <2>4 DEF Bad
<1>. QED  BY <1>4, <1>5, <1>6 DEF Fails

\* How many bytes are expected of a walk.
LEMMA AllExpectedLemma ==
    ASSUME RunsTyped, RunsAreConsecutive, NEW slack \in BOOLEAN
    PROVE  \E e \in Nat :
              /\ Expected(0, file.allocsize, slack) = [k \in 1..e |-> ByteAt(k - 1, slack)]
              /\ e = IF Bytes(ListEnd) <= file.skiplen THEN 0
                     ELSE IF Bytes(ListEnd) - file.skiplen <= Limit(slack) THEN Bytes(ListEnd) - file.skiplen
                     ELSE Limit(slack)
<1>. DEFINE x == Bytes(ListEnd)
            s == file.skiplen
            lim == Limit(slack)
            all == file.allocsize
<1>1. x \in Nat /\ s \in Nat /\ lim \in Nat /\ all \in Nat /\ lim <= all
  BY ListLemma, BytesNat, LimitLemma, FileLemma DEF RunsTyped
<1>2. PICK e \in Nat :
          /\ Expected(0, all, slack) = [k \in 1..e |-> ByteAt(0 + k - 1, slack)]
          /\ e = 0 \/ (0 + e <= lim /\ e <= all /\ 0 + e <= x - s)
          /\ 0 + e >= lim \/ e >= all \/ 0 + e >= x - s
  BY <1>1, 0 \in Nat, ExpectedLemma
<1>. HIDE DEF x, s, lim, all
<1>3. Expected(0, all, slack) = [k \in 1..e |-> ByteAt(k - 1, slack)]
  <2>1. \A k \in 1..e : 0 + k - 1 = k - 1
    OBVIOUS
  <2>2. [k \in 1..e |-> ByteAt(0 + k - 1, slack)] = [k \in 1..e |-> ByteAt(k - 1, slack)]
    BY <2>1
  <2>. QED  BY <1>2, <2>2
<1>4. e = IF x <= s THEN 0 ELSE IF x - s <= lim THEN x - s ELSE lim
  BY ONLY <1>1, <1>2, e \in Nat
<1>. QED  BY <1>3, <1>4 DEF x, s, lim, all

\* The block a walk ends with.
LastOf(slack, stop) ==
    LET ends == {b \in DOMAIN Blocks : Ends(b, slack, stop)}
    IN IF ends = {} THEN Len(Blocks) ELSE Min(ends)

LEMMA LastLemma ==
    ASSUME RunsTyped, RunsAreConsecutive, NEW slack, NEW stop
    PROVE  /\ LastOf(slack, stop) \in 0..ListEnd /\ ListEnd \in Nat
           /\ LastOf(slack, stop) = ListEnd \/ (LastOf(slack, stop) # 0 /\ Ends(LastOf(slack, stop), slack, stop))
           /\ \A b \in 1..ListEnd : b < LastOf(slack, stop) => ~Ends(b, slack, stop)
<1>. DEFINE ends == {b \in DOMAIN Blocks : Ends(b, slack, stop)}
            last == LastOf(slack, stop)
<1>1. Len(Blocks) = ListEnd /\ DOMAIN Blocks = 1..ListEnd /\ ListEnd \in Nat
  BY BlocksLemma, ListLemma DEF BlocksTo
<1>2. CASE ends = {}
  BY <1>1, <1>2 DEF LastOf
<1>3. CASE ends # {}
  <2>1. ends \in SUBSET Nat
    BY <1>1
  <2>2. \E n \in ends : \A m \in ends : n <= m
    BY <1>3, <2>1, LeastOne
  <2>3. last = CHOOSE n \in ends : \A m \in ends : n <= m
    BY <1>3 DEF LastOf, Min
  <2>. HIDE DEF ends, last
  <2>4. last \in ends /\ \A m \in ends : last <= m
    BY ONLY <2>2, <2>3
  <2>5. last \in 1..ListEnd /\ Ends(last, slack, stop)
    BY <1>1, <2>4 DEF ends
  <2>6. \A b \in 1..ListEnd : b < last => ~Ends(b, slack, stop)
    BY <1>1, <2>4, <2>5 DEF ends
  <2>. QED  BY <1>1, <2>5, <2>6 DEF last
<1>. QED  BY <1>2, <1>3

\* What a walk shows is what is in the list.
LEMMA WalkLemma ==
    ASSUME RunsTyped, RunsAreConsecutive, file.skiplen % BlockSize = 0 \/ file.initsize >= BlockSize,
           NEW slack \in BOOLEAN, NEW stop, NEW answer
    PROVE  WalkGivesContent(slack, stop, answer)
<1>. DEFINE walk == Walk(slack, stop, answer)
            bytes == Expected(0, file.allocsize, slack)
            last == LastOf(slack, stop)
            failed == last # 0 /\ Fails(last, slack)
            m == IF last = 0 \/ ~Called(last) THEN 0
                 ELSE Off(last) + (IF failed THEN 0 ELSE RetLen(last, slack))
            x == Bytes(ListEnd)
            s == file.skiplen
            lim == Limit(slack)
            y == Bytes(last)
            z == Bytes(last - 1)
<1>1. /\ walk.shown = [k \in 1..m |-> Shown(k - 1, slack)]
      /\ walk.error <=> failed \/ (last # 0 /\ last = stop /\ Called(last) /\ answer = "ERROR")
  BY DEF Walk, LastOf
<1>2. PICK e \in Nat :
          /\ bytes = [k \in 1..e |-> ByteAt(k - 1, slack)]
          /\ e = IF x <= s THEN 0 ELSE IF x - s <= lim THEN x - s ELSE lim
  BY AllExpectedLemma
<1>3. x \in Nat /\ s \in Nat /\ lim \in Nat /\ BlockSize \in Nat \ {0}
  BY ListLemma, BytesNat, LimitLemma, FileLemma, BlockSizeAssumption DEF RunsTyped
<1>4. /\ last \in 0..ListEnd /\ ListEnd \in Nat
      /\ last = ListEnd \/ (last # 0 /\ Ends(last, slack, stop))
      /\ \A b \in 1..ListEnd : b < last => ~Ends(b, slack, stop)
  BY LastLemma
<1>5. DOMAIN Blocks = 1..ListEnd
  BY BlocksLemma DEF BlocksTo
<1>. HIDE DEF walk, bytes, last, lim, s, x
<1>6. last # 0 => /\ z \in Nat /\ y = z + BlockSize /\ y <= x
                  /\ Off(last) = IF z >= s THEN z - s ELSE 0
                  /\ Called(last) <=> y > s
                  /\ Called(last) => Off(last) + RetLen(last, slack) = IF y - s <= lim THEN y - s ELSE lim
  <2>. SUFFICES ASSUME last # 0
                PROVE  /\ z \in Nat /\ y = z + BlockSize /\ y <= x
                       /\ Off(last) = IF z >= s THEN z - s ELSE 0
                       /\ Called(last) <=> y > s
                       /\ Called(last) => Off(last) + RetLen(last, slack) = IF y - s <= lim THEN y - s ELSE lim
    OBVIOUS
  <2>1. last \in Nat \ {0} /\ last <= ListEnd
    BY <1>4
  <2>2. y <= x
    BY <1>4, <2>1, BytesOrder DEF x
  <2>. QED  BY <2>1, <2>2, CalledLemma DEF s, lim
<1>7. last # 0 => z <= s \/ z < s + lim
  <2>. SUFFICES ASSUME last # 0  PROVE z <= s \/ z < s + lim
    OBVIOUS
  <2>1. CASE last = 1
    <3>1. z = 0
      BY <2>1, BytesZero
    <3>. QED  BY <1>3, <3>1
  <2>2. CASE last # 1
    <3>1. last - 1 \in 1..ListEnd /\ last - 1 < last /\ last - 1 \in Nat \ {0}
      BY <1>4, <2>2
    <3>2. ~Ends(last - 1, slack, stop)
      BY <1>4, <3>1
    <3>. QED  BY <3>1, <3>2, GoesOnLemma DEF s, lim
  <2>. QED  BY <2>1, <2>2
<1>8. last = 0 => x = 0 \/ Ends(last, slack, stop)
  BY <1>4, BytesZero DEF x
<1>9. last = ListEnd => x = y
  BY DEF x
<1>. HIDE DEF y, z
<1>10. last = 0 => x = 0
  BY <1>4, BytesZero DEF x
<1>. DEFINE called == Called(last)
            off == Off(last)
            ret == RetLen(last, slack)
<1>11. m = IF last = 0 \/ ~called THEN 0 ELSE off + (IF failed THEN 0 ELSE ret)
  OBVIOUS
<1>12. last # 0 => /\ z \in Nat /\ y = z + BlockSize /\ y <= x
                   /\ off = IF z >= s THEN z - s ELSE 0
                   /\ called <=> y > s
                   /\ called => off + ret = IF y - s <= lim THEN y - s ELSE lim
  BY <1>6
<1>. HIDE DEF m, called, off, ret, failed
<1>13. m \in Nat /\ m <= e
  <2>1. CASE last = 0 \/ ~called
    BY <1>11, <2>1
  <2>2. CASE last # 0 /\ called /\ failed
    <3>1. m = off + 0
      BY <1>11, <2>2
    <3>2. off \in Nat
      BY ONLY <1>3, <1>12, <2>2
    <3>3. m = off
      BY ONLY <3>1, <3>2
    <3>. QED  BY ONLY <1>2, <1>3, <1>7, <1>12, <2>2, <3>2, <3>3, e \in Nat
  <2>3. CASE last # 0 /\ called /\ ~failed
    <3>1. m = off + ret
      BY <1>11, <2>3
    <3>2. m = IF y - s <= lim THEN y - s ELSE lim
      BY ONLY <1>12, <2>3, <3>1
    <3>. QED  BY ONLY <1>2, <1>3, <1>12, <2>3, <3>2, e \in Nat
  <2>. QED  BY <2>1, <2>2, <2>3
<1>14. Len(walk.shown) = m /\ DOMAIN walk.shown = 1..m /\ Len(bytes) = e
  BY <1>1, <1>2, <1>13
<1>15. ASSUME NEW k \in 1..m
       PROVE  walk.shown[k] = bytes[k]
  <2>1. k - 1 \in Nat /\ k \in 1..e
    BY <1>13
  <2>2. (k - 1) + s < x
    BY ONLY <1>2, <1>3, <2>1, e \in Nat
  <2>3. Shown(k - 1, slack) = ByteAt(k - 1, slack)
    BY <2>1, <2>2, ShownLemma DEF s, x
  <2>. QED  BY <1>1, <1>2, <2>1, <2>3
<1>16. ASSUME ~walk.error, stop = 0 \/ answer = "ERROR"
       PROVE  m = e
  <2>1. ~failed /\ ~(last # 0 /\ last = stop /\ called /\ answer = "ERROR")
    BY <1>1, <1>16 DEF called
  <2>2. CASE last = 0
    BY ONLY <1>2, <1>3, <1>10, <1>11, <2>2
  <2>3. CASE last # 0 /\ ~called
    <3>1. ~Ends(last, slack, stop)
      BY <2>1, <2>3 DEF Ends, called, failed
    <3>2. last = ListEnd
      BY <1>4, <3>1
    <3>3. x = y
      BY <1>9, <3>2
    <3>. QED  BY ONLY <1>2, <1>3, <1>11, <1>12, <2>3, <3>3
  <2>4. CASE last # 0 /\ called
    <3>1. m = off + ret
      BY <1>11, <2>1, <2>4
    <3>2. m = IF y - s <= lim THEN y - s ELSE lim
      BY ONLY <1>12, <2>4, <3>1
    <3>3. CASE last = ListEnd
      <4>1. x = y
        BY <1>9, <3>3
      <4>. QED  BY ONLY <1>2, <1>3, <1>12, <2>4, <3>2, <4>1
    <3>4. CASE Ends(last, slack, stop)
      <4>1. off + ret >= lim
        <5>1. last # stop
          <6>1. stop # last \/ stop # 0
            BY <2>4
          <6>. QED  BY <1>16, <2>1, <2>4, <6>1
        <5>2. ~Fails(last, slack)
          BY <2>1, <2>4 DEF failed
        <5>. QED  BY <3>4, <5>1, <5>2 DEF Ends, off, ret, lim
      <4>. QED  BY ONLY <1>2, <1>3, <1>12, <2>4, <3>1, <3>2, <4>1
    <3>. QED  BY <1>4, <3>3, <3>4
  <2>. QED  BY <2>2, <2>3, <2>4
<1>17. ASSUME walk.error
       PROVE  \/ stop # 0 /\ answer = "ERROR"
              \/ \E b \in DOMAIN Blocks :
                    /\ Bad(b)
                    /\ \/ (b - 1) * BlockSize <= file.skiplen
                       \/ (b - 1) * BlockSize < file.skiplen + Limit(slack)
  <2>1. CASE failed
    <3>1. last # 0 /\ Fails(last, slack)
      BY <2>1 DEF failed
    <3>2. last \in 1..ListEnd
      BY <1>4, <3>1
    <3>3. Bad(last)
      BY <3>1, <3>2, FailsLemma
    <3>4. (last - 1) * BlockSize = z
      BY DEF z, Bytes
    <3>. QED  BY <1>5, <1>7, <3>1, <3>2, <3>3, <3>4 DEF s, lim
  <2>2. CASE ~failed
    BY <1>1, <1>17, <2>2
  <2>. QED  BY <2>1, <2>2
<1>18. /\ Len(walk.shown) <= Len(bytes)
       /\ \A k \in DOMAIN walk.shown : walk.shown[k] = bytes[k]
       /\ ~walk.error /\ (stop = 0 \/ answer = "ERROR") => Len(walk.shown) = Len(bytes)
  BY <1>13, <1>14, <1>15, <1>16
<1>. QED  BY ONLY <1>17, <1>18 DEF WalkGivesContent, walk, bytes

\* A walk shows the same bytes from the first on, all of them unless it is
\* stopped; it fails only on a block that is bad, whatever the device and
\* wherever its callback stops it (fs_attr.c:745-919).
THEOREM Walks == Spec => []WalkIsContent
<1>1. (~overlaid => IInv) => WalkIsContent
  <2>. SUFFICES ASSUME ~overlaid => IInv, ~overlaid,
                       file.skiplen % BlockSize = 0 \/ file.initsize >= BlockSize,
                       NEW slack \in BOOLEAN, NEW stop \in 0..Len(Blocks), NEW answer \in {"STOP", "ERROR"}
                PROVE  WalkGivesContent(slack, stop, answer)
    BY DEF WalkIsContent
  <2>1. RunsTyped /\ RunsAreConsecutive
    BY DEF IInv
  <2>. QED  BY <2>1, WalkLemma
<1>. QED  BY <1>1, ListInvariance, PTL

===============================================================================
