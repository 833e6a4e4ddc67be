---------------------------- MODULE TskListProofs ----------------------------
(***************************************************************************)
(* Proofs about TskList, for every word size: tsk_list_find answers        *)
(* membership, whatever the order of the additions.                        *)
(***************************************************************************)
EXTENDS TskList, TLAPS

\* The numbers a bucket stands for, without wrapping.
Holds(b, k) == b.key - b.len < k /\ k <= b.key

\* What the buckets stand for together is what was added.
CoveredIsMembers ==
    \A k \in Keys : k \in members <=> \E i \in DOMAIN list : Holds(list[i], k)

\* The inductive invariant.
IInv ==
    /\ TypeOK
    /\ LargestFirst
    /\ NoBucketBelowZero
    /\ CoveredIsMembers
    /\ members # Keys

-------------------------------------------------------------------------------
(* Arithmetic modulo Word.                                                  *)

LEMMA WrapLemma ==
    /\ \A n \in Keys : n % Word = n
    /\ (-1) % Word = Word - 1
    /\ Word % Word = 0
  BY WordAssumption, SMT DEF Keys

LEMMA ListLemma ==
    ASSUME IInv
    PROVE  /\ list \in Seq(Buckets) /\ Len(list) \in Nat /\ DOMAIN list = 1..Len(list)
           /\ \A i \in DOMAIN list :
                /\ list[i] \in Buckets
                /\ list[i].key \in Keys /\ list[i].key \in Int
                /\ list[i].len \in 1..(Word - 1) /\ list[i].len \in Int
<1>1. list \in Seq(Buckets) /\ Len(list) \in Nat /\ DOMAIN list = 1..Len(list)
  BY DEF IInv, TypeOK
<1>2. ASSUME NEW i \in DOMAIN list
      PROVE  list[i] \in Buckets
  BY <1>1
<1>3. \A b \in Buckets : /\ b.key \in Keys /\ b.key \in Int
                          /\ b.len \in 1..(Word - 1) /\ b.len \in Int
  BY WordAssumption DEF Buckets, Keys
<1>. QED  BY <1>1, <1>2, <1>3

LEMMA KeysLemma == \A k \in Keys : k \in Int /\ 0 <= k /\ k <= Word - 1
  BY WordAssumption DEF Keys

LEMMA BelowLemma ==
    ASSUME NEW b \in Buckets, b.len <= b.key + 1
    PROVE  Below(b) = IF b.len = b.key + 1 THEN Word - 1 ELSE b.key - b.len
<1>1. b.key \in Keys /\ b.len \in 1..(Word - 1) /\ b.key - b.len \in Int
  BY WordAssumption DEF Buckets, Keys
<1>2. CASE b.len = b.key + 1
  <2>1. b.key - b.len = -1
    BY <1>1, <1>2 DEF Keys
  <2>. QED  BY <1>2, <2>1, WrapLemma DEF Below
<1>3. CASE b.len # b.key + 1
  <2>1. b.key - b.len \in Keys
    BY <1>1, <1>3, WordAssumption DEF Keys
  <2>. QED  BY <1>3, <2>1, WrapLemma DEF Below
<1>. QED  BY <1>2, <1>3

LEMMA CoversLemma ==
    ASSUME NEW b \in Buckets, b.len <= b.key + 1, NEW k \in Keys
    PROVE  Covers(b, k) <=> Holds(b, k)
<1>1. b.key \in Keys /\ b.len \in 1..(Word - 1)
  BY DEF Buckets
<1>2. b.key + 1 - b.len \in Keys
  BY <1>1, WordAssumption DEF Keys
<1>3. (b.key + 1 - b.len) % Word = b.key + 1 - b.len
  BY <1>2, WrapLemma
<1>. QED  BY <1>1, <1>3 DEF Covers, Holds, Keys

LEMMA SuccessorLemma ==
    ASSUME NEW n \in Keys
    PROVE  (n + 1) % Word = IF n = Word - 1 THEN 0 ELSE n + 1
<1>1. CASE n = Word - 1
  <2>1. n + 1 = Word
    BY <1>1, WordAssumption DEF Keys
  <2>. QED  BY <1>1, <2>1, WrapLemma
<1>2. CASE n # Word - 1
  <2>1. n + 1 \in Keys
    BY <1>2, WordAssumption DEF Keys
  <2>. QED  BY <1>2, <2>1, WrapLemma
<1>. QED  BY <1>1, <1>2

-------------------------------------------------------------------------------
(* The two ways a list changes, and the loop.                               *)

\* A bucket grown by one number.
LEMMA GrownLemma ==
    ASSUME IInv, NEW k \in Keys, NeverAll(k), Add(k),
           NEW i \in DOMAIN list, NEW b \in Buckets,
           list' = [list EXCEPT ![i] = b],
           b.len <= b.key + 1,
           \A j \in DOMAIN list : j < i => list[j].key > b.key,
           \A j \in DOMAIN list : j > i => b.key > list[j].key,
           \A n \in Keys : Holds(b, n) <=> (Holds(list[i], n) \/ n = k)
    PROVE  IInv'
<1>1. /\ list \in Seq(Buckets) /\ list' \in Seq(Buckets)
      /\ DOMAIN list' = DOMAIN list
      /\ list'[i] = b
      /\ \A j \in DOMAIN list : j # i => list'[j] = list[j]
      /\ DOMAIN list \subseteq Int
  BY DEF IInv, TypeOK
<1>2. TypeOK'
  BY <1>1 DEF IInv, TypeOK, Add
<1>3. LargestFirst'
  BY <1>1 DEF IInv, LargestFirst
<1>4. NoBucketBelowZero'
  BY <1>1 DEF IInv, NoBucketBelowZero
<1>5. CoveredIsMembers'
  <2>. SUFFICES ASSUME NEW n \in Keys
                PROVE  n \in members' <=> \E j \in DOMAIN list' : Holds(list'[j], n)
    BY DEF CoveredIsMembers
  <2>1. n \in members <=> \E j \in DOMAIN list : Holds(list[j], n)
    BY DEF IInv, CoveredIsMembers
  <2>2. (\E j \in DOMAIN list' : Holds(list'[j], n))
            <=> (n = k \/ \E j \in DOMAIN list : Holds(list[j], n))
    BY <1>1, Zenon
  <2>. QED  BY <2>1, <2>2 DEF Add
<1>6. members' # Keys
  BY DEF Add, NeverAll
<1>. QED  BY <1>2, <1>3, <1>4, <1>5, <1>6 DEF IInv

\* A bucket of its own for the number, put where the order wants it.
LEMMA InsertedLemma ==
    ASSUME IInv, NEW k \in Keys, NeverAll(k), Add(k),
           NEW i \in 0..Len(list),
           list' = InsertAfter(list, i, Bucket(k)),
           \A j \in DOMAIN list : j <= i => list[j].key > k,
           \A j \in DOMAIN list : j > i => k > list[j].key
    PROVE  IInv'
<1>. DEFINE l == list
            n == Len(list)
<1>1. l \in Seq(Buckets) /\ n \in Nat /\ DOMAIN l = 1..n
  BY DEF IInv, TypeOK
<1>2. Word - 1 >= 1
  <2>1. members \cup {k} # Keys
    BY DEF NeverAll
  <2>2. ASSUME Word = 1 PROVE FALSE
    <3>1. Keys = {0}
      BY <2>2 DEF Keys
    <3>. QED  BY <2>1, <3>1 DEF IInv, TypeOK
  <2>. QED  BY <2>2, WordAssumption
<1>3. Bucket(k) \in Buckets /\ Bucket(k).key = k /\ Bucket(k).len = 1
  BY <1>2, WordAssumption DEF Bucket, Buckets
<1>4. /\ DOMAIN list' = 1..(n + 1)
      /\ \A j \in 1..(n + 1) : list'[j] =
            IF j <= i THEN l[j] ELSE IF j = i + 1 THEN Bucket(k) ELSE l[j - 1]
  BY DEF InsertAfter
<1>5. \A j \in 1..(n + 1) : list'[j] \in Buckets
  <2>. TAKE j \in 1..(n + 1)
  <2>1. CASE j <= i
    BY <1>1, <1>4, <2>1
  <2>2. CASE j = i + 1
    BY <1>3, <1>4, <2>2
  <2>3. CASE j > i + 1
    <3>1. j - 1 \in 1..n /\ list'[j] = l[j - 1]
      BY <1>1, <1>4, <2>3
    <3>. QED  BY <1>1, <3>1
  <2>. QED  BY <1>1, <2>1, <2>2, <2>3
<1>6. list' \in Seq(Buckets)
  <2>1. list' \in [1..(n + 1) -> Buckets]
    BY <1>5 DEF InsertAfter
  <2>2. n + 1 \in Nat
    BY <1>1
  <2>. HIDE DEF n
  <2>. QED  BY <2>1, <2>2
<1>7. TypeOK'
  BY <1>6 DEF IInv, TypeOK, Add
<1>8. LargestFirst'
  <2>. SUFFICES ASSUME NEW a \in 1..(n + 1), NEW c \in 1..(n + 1), a < c
                PROVE  list'[a].key > list'[c].key
    BY <1>4 DEF LargestFirst
  <2>1. \A x, y \in 1..n : x < y => l[x].key > l[y].key
    BY <1>1 DEF IInv, LargestFirst
  <2>2. CASE c <= i
    BY <1>1, <1>4, <2>1, <2>2
  <2>3. CASE c = i + 1
    BY <1>1, <1>3, <1>4, <2>3
  <2>4. CASE c > i + 1
    <3>1. c - 1 \in 1..n /\ c - 1 > i /\ list'[c] = l[c - 1]
      BY <1>1, <1>4, <2>4
    <3>2. CASE a <= i
      BY <1>1, <1>4, <2>1, <3>1, <3>2
    <3>3. CASE a = i + 1
      BY <1>1, <1>3, <1>4, <3>1, <3>3
    <3>4. CASE a > i + 1
      <4>1. a - 1 \in 1..n /\ list'[a] = l[a - 1] /\ a - 1 < c - 1
        BY <1>1, <1>4, <3>4
      <4>. QED  BY <2>1, <3>1, <4>1
    <3>. QED  BY <1>1, <3>2, <3>3, <3>4
  <2>. QED  BY <1>1, <2>2, <2>3, <2>4
<1>9. NoBucketBelowZero'
  <2>. SUFFICES ASSUME NEW j \in 1..(n + 1) PROVE list'[j].len <= list'[j].key + 1
    BY <1>4 DEF NoBucketBelowZero
  <2>0. \A x \in 1..n : l[x].len <= l[x].key + 1
    BY <1>1 DEF IInv, NoBucketBelowZero
  <2>1. CASE j <= i
    BY <1>1, <1>4, <2>0, <2>1
  <2>2. CASE j = i + 1
    BY <1>3, <1>4, <2>2 DEF Keys
  <2>3. CASE j > i + 1
    <3>1. j - 1 \in 1..n /\ list'[j] = l[j - 1]
      BY <1>1, <1>4, <2>3
    <3>. QED  BY <2>0, <3>1
  <2>. QED  BY <1>1, <2>1, <2>2, <2>3
<1>10. CoveredIsMembers'
  <2>. SUFFICES ASSUME NEW m \in Keys
                PROVE  m \in members' <=> \E j \in DOMAIN list' : Holds(list'[j], m)
    BY DEF CoveredIsMembers
  <2>1. m \in members <=> \E j \in 1..n : Holds(l[j], m)
    BY <1>1 DEF IInv, CoveredIsMembers
  <2>2. Holds(Bucket(k), m) <=> m = k
    BY <1>3 DEF Holds, Keys
  <2>3. ASSUME NEW j \in 1..(n + 1), Holds(list'[j], m)
        PROVE  m = k \/ \E x \in 1..n : Holds(l[x], m)
    <3>1. CASE j <= i
      BY <1>1, <1>4, <2>3, <3>1
    <3>2. CASE j = i + 1
      <4>1. list'[j] = Bucket(k)
        BY <1>1, <1>4, <3>2
      <4>. QED  BY <2>2, <2>3, <4>1
    <3>3. CASE j > i + 1
      <4>1. j - 1 \in 1..n /\ list'[j] = l[j - 1]
        BY <1>1, <1>4, <3>3
      <4>. QED  BY <2>3, <4>1
    <3>. QED  BY <1>1, <3>1, <3>2, <3>3
  <2>4. ASSUME NEW x \in 1..n, Holds(l[x], m)
        PROVE  \E j \in 1..(n + 1) : Holds(list'[j], m)
    <3>1. CASE x <= i
      <4>1. x \in 1..(n + 1) /\ list'[x] = l[x]
        BY <1>1, <1>4, <3>1
      <4>. QED  BY <2>4, <4>1
    <3>2. CASE x > i
      <4>1. x + 1 \in 1..(n + 1) /\ list'[x + 1] = l[x]
        BY <1>1, <1>4, <3>2
      <4>. QED  BY <2>4, <4>1
    <3>. QED  BY <1>1, <3>1, <3>2
  <2>5. m = k => \E j \in 1..(n + 1) : Holds(list'[j], m)
    <3>1. i + 1 \in 1..(n + 1) /\ list'[i + 1] = Bucket(k)
      BY <1>1, <1>4
    <3>. QED  BY <2>2, <3>1
  <2>6. members' = members \cup {k}
    BY DEF Add
  <2>. QED  BY <1>4, <2>1, <2>3, <2>4, <2>5, <2>6
<1>11. members' # Keys
  BY DEF Add, NeverAll
<1>. QED  BY <1>7, <1>8, <1>9, <1>10, <1>11 DEF IInv

\* The loop never passes a bucket whose key is not above the one to add.
LEMMA ReachedLemma ==
    ASSUME IInv, NEW k \in Keys, BelowHead(k),
           NEW i \in DOMAIN list, StopsFirstAt(i, k)
    PROVE  k < list[i].key
<1>1. list \in Seq(Buckets) /\ DOMAIN list = 1..Len(list) /\ Len(list) \in Nat
  BY DEF IInv, TypeOK
<1>2. CASE i = 1
  BY <1>2 DEF BelowHead
<1>3. CASE i # 1
  <2>1. i - 1 \in 1..(i - 1) /\ i - 1 \in DOMAIN list /\ HasNext(i - 1) /\ (i - 1) + 1 = i
    BY <1>1, <1>3 DEF HasNext
  <2>2. ~Stops(i - 1, k)
    BY <2>1 DEF StopsFirstAt
  <2>3. ~(k > list[i].key) /\ k # list[i].key
    BY <2>1, <2>2 DEF Stops, AboveNext, IsNext
  <2>4. list[i].key \in Int /\ k \in Int
    BY ListLemma, KeysLemma
  <2>. QED  BY <2>3, <2>4
<1>. QED  BY <1>2, <1>3

-------------------------------------------------------------------------------
(* One lemma per action.                                                    *)

LEMMA InitLemma == Init => IInv
<1>. SUFFICES ASSUME Init PROVE IInv
  OBVIOUS
<1>1. 0 \in Keys
  BY WordAssumption DEF Keys
<1>2. list = <<>> /\ DOMAIN list = {}
  BY DEF Init
<1>3. TypeOK
  BY DEF Init, TypeOK
<1>4. LargestFirst /\ NoBucketBelowZero
  BY <1>2 DEF LargestFirst, NoBucketBelowZero
<1>5. CoveredIsMembers
  BY <1>2 DEF Init, CoveredIsMembers
<1>. QED  BY <1>1, <1>3, <1>4, <1>5 DEF Init, IInv

LEMMA AddFirstStep ==
    ASSUME IInv, NEW k \in Keys, NeverAll(k), AddFirst(k)
    PROVE  IInv'
<1>1. list = <<>> /\ Len(list) = 0 /\ DOMAIN list = {}
  BY DEF AddFirst
<1>2. list' = InsertAfter(list, 0, Bucket(k))
  <2>1. <<Bucket(k)>> = [j \in 1..1 |-> Bucket(k)]
    OBVIOUS
  <2>2. InsertAfter(list, 0, Bucket(k)) = [j \in 1..1 |-> Bucket(k)]
    BY <1>1 DEF InsertAfter
  <2>. QED  BY <2>1, <2>2 DEF AddFirst
<1>. QED  BY <1>1, <1>2, InsertedLemma DEF AddFirst

LEMMA NewHeadStep ==
    ASSUME IInv, NEW k \in Keys, NeverAll(k), NewHead(k)
    PROVE  IInv'
<1>1. list \in Seq(Buckets) /\ DOMAIN list = 1..Len(list) /\ Len(list) \in Nat
  BY DEF IInv, TypeOK
<1>2. \A j \in DOMAIN list : k > list[j].key
  <2>. TAKE j \in DOMAIN list
  <2>1. 1 \in DOMAIN list /\ k > list[1].key
    BY <1>1 DEF NewHead, AboveHead
  <2>2. j = 1 \/ list[1].key > list[j].key
    BY <1>1, <2>1 DEF IInv, LargestFirst
  <2>3. k \in Int /\ list[1].key \in Int /\ list[j].key \in Int
    BY <2>1, ListLemma, KeysLemma
  <2>. QED  BY <2>1, <2>2, <2>3
<1>3. \A j \in DOMAIN list : ~(j <= 0) /\ 0 \in 0..Len(list)
  BY <1>1
<1>. QED  BY <1>1, <1>2, <1>3, InsertedLemma DEF NewHead

LEMMA GrowHeadStep ==
    ASSUME IInv, NEW k \in Keys, NeverAll(k), GrowHead(k)
    PROVE  IInv'
<1>. DEFINE h == list[1]
            b == [key |-> k, len |-> (h.len + 1) % Word]
<1>1. list \in Seq(Buckets) /\ DOMAIN list = 1..Len(list) /\ Len(list) \in Nat
  BY DEF IInv, TypeOK
<1>2. 1 \in DOMAIN list /\ h \in Buckets /\ h.key \in Keys /\ h.len \in 1..(Word - 1)
  <2>1. 1 \in DOMAIN list
    BY <1>1 DEF GrowHead, AboveHead
  <2>. QED  BY <2>1, ListLemma
<1>3. k = h.key + 1
  BY <1>2, SuccessorLemma DEF GrowHead, AboveHead, Keys
<1>4. h.len <= h.key + 1
  BY <1>2 DEF IInv, NoBucketBelowZero
<1>5. \A n \in Keys : Holds(h, n) => n \in members
  BY <1>2 DEF IInv, CoveredIsMembers
<1>6. h.len # Word - 1
  <2>. SUFFICES ASSUME h.len = Word - 1 PROVE FALSE
    OBVIOUS
  <2>1. h.key = Word - 2
    BY <1>2, <1>3, <1>4, WordAssumption DEF Keys
  <2>2. \A n \in Keys : n = k \/ Holds(h, n)
    BY <1>2, <1>3, <2>1, WordAssumption DEF Keys, Holds
  <2>3. members \cup {k} = Keys
    BY <1>5, <2>2 DEF IInv, TypeOK
  <2>. QED  BY <2>3 DEF NeverAll
<1>7. (h.len + 1) % Word = h.len + 1 /\ h.len + 1 \in 1..(Word - 1)
  <2>1. h.len \in Keys /\ h.len + 1 \in 1..(Word - 1)
    BY <1>2, <1>6, WordAssumption DEF Keys
  <2>. QED  BY <1>6, <2>1, SuccessorLemma
<1>8. b \in Buckets /\ b.key = k /\ b.len = h.len + 1
  BY <1>7 DEF Buckets
<1>9. b.len <= b.key + 1
  BY <1>2, <1>3, <1>4, <1>8 DEF Keys
<1>10. \A n \in Keys : Holds(b, n) <=> (Holds(h, n) \/ n = k)
  <2>. TAKE n \in Keys
  <2>. HIDE DEF b, h
  <2>. QED  BY <1>2, <1>3, <1>8 DEF Holds, Keys
<1>11. \A j \in DOMAIN list : (j < 1 => list[j].key > b.key) /\ (j > 1 => b.key > list[j].key)
  <2>. TAKE j \in DOMAIN list
  <2>1. j > 1 => h.key > list[j].key
    BY <1>1, <1>2 DEF IInv, LargestFirst
  <2>2. list[j].key \in Int /\ h.key \in Int
    BY <1>2, ListLemma
  <2>3. ~(j < 1)
    BY <1>1
  <2>. HIDE DEF b, h
  <2>. QED  BY <1>3, <1>8, <2>1, <2>2, <2>3
<1>12. list' = [list EXCEPT ![1] = b]
  BY DEF GrowHead
<1>. HIDE DEF b, h
<1>13. Add(k)
  BY DEF GrowHead
<1>14. \A n \in Keys : Holds(b, n) <=> (Holds(list[1], n) \/ n = k)
  BY <1>10 DEF h
<1>. QED  BY <1>2, <1>8, <1>9, <1>11, <1>12, <1>13, <1>14, GrownLemma

LEMMA KnownStep ==
    ASSUME IInv, NEW k \in Keys, NeverAll(k), Known(k)
    PROVE  IInv'
<1>1. k \in members
  <2>1. CASE IsHead(k)
    <3>1. 1 \in DOMAIN list /\ list[1].key = k
      BY <2>1, ListLemma DEF IsHead
    <3>2. Holds(list[1], k)
      BY <3>1, ListLemma, KeysLemma DEF Holds
    <3>. QED  BY <3>1, <3>2 DEF IInv, CoveredIsMembers
  <2>2. ASSUME BelowHead(k), NEW i \in DOMAIN list, StopsFirstAt(i, k), Contained(i, k)
        PROVE  k \in members
    <3>1. k < list[i].key
      BY <2>2, ReachedLemma
    <3>2. list[i].len <= list[i].key + 1 /\ list[i] \in Buckets
      BY ListLemma DEF IInv, NoBucketBelowZero
    <3>3. Holds(list[i], k)
      BY <2>2, <3>1, <3>2, BelowLemma, ListLemma, KeysLemma DEF Contained, Holds
    <3>. QED  BY <3>3 DEF IInv, CoveredIsMembers
  <2>3. ASSUME NEW i \in DOMAIN list, IsNext(i, k)
        PROVE  k \in members
    <3>1. i + 1 \in DOMAIN list /\ list[i + 1].key = k
      BY <2>3, ListLemma DEF IsNext, HasNext
    <3>2. Holds(list[i + 1], k)
      BY <3>1, ListLemma, KeysLemma DEF Holds
    <3>. QED  BY <3>1, <3>2 DEF IInv, CoveredIsMembers
  <2>. QED  BY <2>1, <2>2, <2>3 DEF Known
<1>2. members' = members /\ list' = list /\ ret' = 0
  BY <1>1 DEF Known, Add
<1>. QED  BY <1>2 DEF IInv, TypeOK, LargestFirst, NoBucketBelowZero, CoveredIsMembers

LEMMA GrowDownStep ==
    ASSUME IInv, NEW k \in Keys, NeverAll(k), GrowDown(k)
    PROVE  IInv'
<1>1. PICK i \in DOMAIN list :
        /\ StopsFirstAt(i, k)
        /\ JustBelow(i, k) /\ ~IsNext(i, k)
        /\ list' = [list EXCEPT ![i].len = (@ + 1) % Word]
  BY DEF GrowDown
<1>. DEFINE old == list[i]
            b == [key |-> old.key, len |-> old.key - k + 1]
<1>2. Add(k) /\ BelowHead(k) /\ k < old.key
  BY <1>1, ReachedLemma DEF GrowDown
<1>3. /\ old \in Buckets /\ old.key \in Keys /\ old.len \in 1..(Word - 1)
      /\ old.len <= old.key + 1
  BY ListLemma DEF IInv, NoBucketBelowZero
<1>4. old.len = old.key - k
  <2>1. k = Below(old)
    BY <1>1 DEF JustBelow
  <2>2. k # Word - 1
    BY <1>2, <1>3, KeysLemma
  <2>. HIDE DEF old
  <2>. QED  BY <1>3, <2>1, <2>2, BelowLemma, KeysLemma
<1>5. (old.len + 1) % Word = old.key - k + 1 /\ old.key - k + 1 \in 1..(Word - 1)
  <2>1. \/ old.key # Word - 1
        \/ k # 0
    <3>. SUFFICES ASSUME old.key = Word - 1, k = 0 PROVE FALSE
      OBVIOUS
    <3>0. old.key - old.len = 0 /\ Word - 1 = old.key
      <4>. HIDE DEF b, old
      <4>1. old.key \in Int /\ old.len = old.key - k
        BY <1>3, <1>4, WordAssumption DEF Keys
      <4>. QED  BY <4>1, WordAssumption
    <3>1. \A n \in Keys : n = k \/ Holds(old, n)
      <4>. HIDE DEF old
      <4>. QED  BY <3>0, KeysLemma DEF Holds
    <3>2. \A n \in Keys : Holds(old, n) => n \in members
      BY DEF IInv, CoveredIsMembers
    <3>3. members \cup {k} = Keys
      BY <3>1, <3>2 DEF IInv, TypeOK
    <3>. QED  BY <3>3 DEF NeverAll
  <2>. HIDE DEF old
  <2>2. old.key - k + 1 \in 1..(Word - 1) /\ old.len \in Keys
    BY <1>2, <1>3, <1>4, <2>1, KeysLemma, WordAssumption DEF Keys
  <2>3. old.len # Word - 1
    BY <1>3, <1>4, <2>2, KeysLemma
  <2>. QED  BY <1>4, <2>2, <2>3, SuccessorLemma
<1>6. b \in Buckets /\ b.len <= b.key + 1 /\ b.key = old.key
  <2>. HIDE DEF old
  <2>. QED  BY <1>3, <1>5, KeysLemma DEF Buckets
<1>7. list' = [list EXCEPT ![i] = b]
  <2>1. old = [key |-> old.key, len |-> old.len]
    BY <1>3 DEF Buckets
  <2>2. [old EXCEPT !.len = (old.len + 1) % Word] = b
    BY <1>5, <2>1
  <2>3. list' = [list EXCEPT ![i] = [list[i] EXCEPT !.len = (list[i].len + 1) % Word]]
    BY <1>1
  <2>. QED  BY <2>2, <2>3
<1>8. \A n \in Keys : Holds(b, n) <=> (Holds(list[i], n) \/ n = k)
  <2>1. b.len = old.key - k + 1 /\ b.key = old.key
    OBVIOUS
  <2>2. \A n \in Keys : Holds(b, n) <=> (Holds(old, n) \/ n = k)
    <3>. HIDE DEF b, old
    <3>. QED  BY <1>2, <1>3, <1>4, <2>1, KeysLemma DEF Holds
  <2>. QED  BY <2>2
<1>9. /\ \A j \in DOMAIN list : j < i => list[j].key > b.key
      /\ \A j \in DOMAIN list : j > i => b.key > list[j].key
  <2>1. \A j \in DOMAIN list : (j < i => list[j].key > old.key) /\ (i < j => old.key > list[j].key)
    BY DEF IInv, LargestFirst
  <2>2. DOMAIN list \subseteq Int
    BY ListLemma
  <2>. HIDE DEF b, old
  <2>. QED  BY <1>6, <2>1, <2>2
<1>. HIDE DEF b, old
<1>. QED  BY <1>2, <1>6, <1>7, <1>8, <1>9, GrownLemma

\* Where a bucket can be put after bucket i for k.
LEMMA RoomLemma ==
    ASSUME IInv, NEW k \in Keys, BelowHead(k),
           NEW i \in DOMAIN list, StopsFirstAt(i, k),
           ~HasNext(i) \/ AboveNext(i, k)
    PROVE  /\ \A j \in DOMAIN list : j <= i => list[j].key > k
           /\ \A j \in DOMAIN list : j > i => k > list[j].key
<1>1. k < list[i].key
  BY ReachedLemma
<1>2. ASSUME NEW j \in DOMAIN list, j <= i
      PROVE  list[j].key > k
  <2>1. j = i \/ list[j].key > list[i].key
    BY <1>2, ListLemma DEF IInv, LargestFirst
  <2>. QED  BY <1>1, <2>1, ListLemma, KeysLemma
<1>3. ASSUME NEW j \in DOMAIN list, j > i
      PROVE  k > list[j].key
  <2>1. HasNext(i) /\ i + 1 \in DOMAIN list /\ j >= i + 1
    BY <1>3, ListLemma DEF HasNext
  <2>2. k > list[i + 1].key
    BY <2>1 DEF AboveNext
  <2>3. j = i + 1 \/ list[i + 1].key > list[j].key
    BY <2>1, ListLemma DEF IInv, LargestFirst
  <2>. QED  BY <2>1, <2>2, <2>3, ListLemma, KeysLemma
<1>. QED  BY <1>2, <1>3

LEMMA NewTailStep ==
    ASSUME IInv, NEW k \in Keys, NeverAll(k), NewTail(k)
    PROVE  IInv'
<1>1. PICK i \in DOMAIN list :
        /\ StopsFirstAt(i, k) /\ ~HasNext(i)
        /\ list' = InsertAfter(list, i, Bucket(k))
  BY DEF NewTail
<1>2. Add(k) /\ BelowHead(k)
  BY DEF NewTail
<1>3. i \in 0..Len(list)
  BY ListLemma
<1>. QED  BY <1>1, <1>2, <1>3, RoomLemma, InsertedLemma

LEMMA NewBetweenStep ==
    ASSUME IInv, NEW k \in Keys, NeverAll(k), NewBetween(k)
    PROVE  IInv'
<1>1. PICK i \in DOMAIN list :
        /\ StopsFirstAt(i, k) /\ AboveNext(i, k)
        /\ list' = InsertAfter(list, i, Bucket(k))
  BY DEF NewBetween
<1>2. Add(k) /\ BelowHead(k)
  BY DEF NewBetween
<1>3. i \in 0..Len(list)
  BY ListLemma
<1>. QED  BY <1>1, <1>2, <1>3, RoomLemma, InsertedLemma

LEMMA GrowNextStep ==
    ASSUME IInv, NEW k \in Keys, NeverAll(k), GrowNext(k)
    PROVE  IInv'
<1>1. PICK i \in DOMAIN list :
        /\ StopsFirstAt(i, k) /\ JustAboveNext(i, k)
        /\ list' = [list EXCEPT ![i + 1] = [key |-> k, len |-> (@.len + 1) % Word]]
  BY DEF GrowNext
<1>. DEFINE old == list[i + 1]
            b == [key |-> k, len |-> (old.len + 1) % Word]
<1>2. Add(k) /\ BelowHead(k) /\ k < list[i].key
  BY <1>1, ReachedLemma DEF GrowNext
<1>3. i + 1 \in DOMAIN list /\ i \in Int
  BY <1>1, ListLemma DEF JustAboveNext, HasNext
<1>4. /\ old \in Buckets /\ old.key \in Keys /\ old.len \in 1..(Word - 1)
      /\ old.len <= old.key + 1
  BY <1>3, ListLemma DEF IInv, NoBucketBelowZero
<1>5. list[i].key > old.key
  BY <1>3 DEF IInv, LargestFirst
<1>6. k = old.key + 1
  <2>1. k = (old.key + 1) % Word
    BY <1>1 DEF JustAboveNext
  <2>2. list[i].key \in Keys
    BY ListLemma
  <2>. HIDE DEF old
  <2>3. old.key # Word - 1
    BY <1>4, <1>5, <2>2, KeysLemma
  <2>. QED  BY <1>4, <2>1, <2>3, SuccessorLemma
<1>7. (old.len + 1) % Word = old.len + 1 /\ old.len + 1 \in 1..(Word - 1)
  <2>1. list[i].key \in Keys
    BY ListLemma
  <2>. HIDE DEF old
  <2>2. old.len + 1 \in 1..(Word - 1) /\ old.len \in Keys /\ old.len # Word - 1
    BY <1>2, <1>4, <1>6, <2>1, KeysLemma, WordAssumption DEF Keys
  <2>. QED  BY <2>2, SuccessorLemma
<1>8. b \in Buckets /\ b.key = k /\ b.len = old.len + 1
  BY <1>7 DEF Buckets
<1>9. b.len <= b.key + 1
  <2>. HIDE DEF b, old
  <2>. QED  BY <1>4, <1>6, <1>8, KeysLemma
<1>10. \A n \in Keys : Holds(b, n) <=> (Holds(old, n) \/ n = k)
  <2>. HIDE DEF b, old
  <2>1. old.key \in Int /\ old.len \in Int
    BY <1>4, KeysLemma, WordAssumption
  <2>2. \A n \in Keys : n \in Int
    BY KeysLemma
  <2>3. b.key = old.key + 1 /\ b.len = old.len + 1 /\ k = old.key + 1 /\ old.len >= 1
    BY <1>4, <1>6, <1>8, WordAssumption
  <2>. QED  BY <2>1, <2>2, <2>3 DEF Holds
<1>11. /\ \A j \in DOMAIN list : j < i + 1 => list[j].key > b.key
       /\ \A j \in DOMAIN list : j > i + 1 => b.key > list[j].key
  <2>1. ASSUME NEW j \in DOMAIN list, j < i + 1
        PROVE  list[j].key > k
    <3>1. j = i \/ list[j].key > list[i].key
      BY <1>3, <2>1, ListLemma DEF IInv, LargestFirst
    <3>. QED  BY <1>2, <3>1, ListLemma, KeysLemma
  <2>2. ASSUME NEW j \in DOMAIN list, j > i + 1
        PROVE  k > list[j].key
    <3>1. old.key > list[j].key
      BY <1>3, <2>2, ListLemma DEF IInv, LargestFirst
    <3>2. list[j].key \in Int /\ old.key \in Int
      BY <1>3, <2>2, ListLemma
    <3>. HIDE DEF old
    <3>. QED  BY <1>6, <3>1, <3>2
  <2>. QED  BY <1>8, <2>1, <2>2
<1>12. list' = [list EXCEPT ![i + 1] = b]
  BY <1>1
<1>13. \A n \in Keys : Holds(b, n) <=> (Holds(list[i + 1], n) \/ n = k)
  BY <1>10
<1>. HIDE DEF b, old
<1>. QED  BY <1>2, <1>3, <1>8, <1>9, <1>11, <1>12, <1>13, GrownLemma

LEMMA FreeStep ==
    ASSUME IInv, Free
    PROVE  IInv'
<1>1. list' = <<>> /\ DOMAIN list' = {} /\ members' = {} /\ ret' = ret
  BY DEF Free
<1>2. 0 \in Keys
  BY WordAssumption DEF Keys
<1>3. TypeOK'
  BY <1>1 DEF IInv, TypeOK
<1>4. LargestFirst' /\ NoBucketBelowZero'
  BY <1>1 DEF LargestFirst, NoBucketBelowZero
<1>5. CoveredIsMembers'
  BY <1>1 DEF CoveredIsMembers
<1>. QED  BY <1>1, <1>2, <1>3, <1>4, <1>5 DEF IInv

LEMMA UnchangedStep ==
    ASSUME IInv, UNCHANGED <<list, members>>, ret' \in {0, 1}
    PROVE  IInv'
  BY DEF IInv, TypeOK, LargestFirst, NoBucketBelowZero, CoveredIsMembers

-------------------------------------------------------------------------------
\* The inductive invariant holds in every reachable state.
THEOREM Invariance == Spec => []IInv
<1>1. IInv /\ [Next]_vars => IInv'
  <2>. SUFFICES ASSUME IInv, [Next]_vars PROVE IInv'
    OBVIOUS
  <2>1. ASSUME NEW k \in Keys, NeverAll(k), NoMemory(k)
        PROVE  IInv'
    BY <2>1, UnchangedStep DEF NoMemory
  <2>2. CASE UNCHANGED vars
    <3>1. ret' \in {0, 1}
      BY <2>2 DEF vars, IInv, TypeOK
    <3>. QED  BY <2>2, <3>1, UnchangedStep DEF vars
  <2>3. CASE Next
    BY <2>1, <2>3, AddFirstStep, NewHeadStep, NewTailStep, NewBetweenStep, GrowHeadStep,
       KnownStep, GrowDownStep, GrowNextStep, FreeStep DEF Next
  <2>. QED  BY <2>2, <2>3
<1>. QED  BY <1>1, InitLemma, PTL DEF Spec

\* Type correctness.
THEOREM TypeCorrectness == Spec => []TypeOK
  BY Invariance, PTL DEF IInv

\* The buckets stay in descending order, on which tsk_list_find's early return
\* relies.
THEOREM Order == Spec => []LargestFirst
  BY Invariance, PTL DEF IInv

\* No bucket reaches below 0.
THEOREM NoUnderflow == Spec => []NoBucketBelowZero
  BY Invariance, PTL DEF IInv

\* tsk_list_find answers whether a number was added, for every word size and
\* every order of additions.
THEOREM Membership == Spec => []FindIsMembership
<1>1. IInv => FindIsMembership
  <2>. SUFFICES ASSUME IInv, NEW k \in Keys
                PROVE  Found(k) <=> k \in members
    BY DEF FindIsMembership
  <2>1. \A i \in DOMAIN list : Covers(list[i], k) <=> Holds(list[i], k)
    BY CoversLemma, ListLemma DEF IInv, NoBucketBelowZero
  <2>2. k \in members <=> \E i \in DOMAIN list : Covers(list[i], k)
    BY <2>1 DEF IInv, CoveredIsMembers
  <2>3. ASSUME NEW i \in DOMAIN list, Covers(list[i], k), NEW j \in 1..(i - 1)
        PROVE  k <= list[j].key
    <3>1. j \in DOMAIN list /\ j < i
      BY ListLemma
    <3>2. list[j].key > list[i].key /\ k <= list[i].key
      BY <2>3, <3>1 DEF IInv, LargestFirst, Covers
    <3>. QED  BY <3>1, <3>2, ListLemma, KeysLemma
  <2>. QED  BY <2>2, <2>3 DEF Found
<1>. QED  BY <1>1, Invariance, PTL
===============================================================================
