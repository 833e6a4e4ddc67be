--------------------------- MODULE DiskImageProofs ---------------------------
(***************************************************************************)
(* Proofs about DiskImage, for any disk images: the list of partitions     *)
(* that opening the volume system makes, and the iteration over the files  *)
(* of the partitions in it.                                                *)
(***************************************************************************)
EXTENDS DiskImage, FiniteSetTheorems, SequenceTheorems, WellFoundedInduction, TLAPS

-------------------------------------------------------------------------------
(* Numbers and loops.                                                      *)

\* A set of numbers that is not empty has a least one.
LEMMA LeastNumber ==
    ASSUME NEW S \in SUBSET Nat, S # {}
    PROVE  \E n \in S : \A m \in S : n <= m
<1>1. PICK n \in S : \A m \in S : ~ (<<m, n>> \in OpToRel(<, Nat))
  BY WFMin, NatLessThanWellFounded
<1>2. ASSUME NEW m \in S
      PROVE  n <= m
  <2>1. ~ (m < n)
    BY <1>1 DEF OpToRel
  <2>. QED  BY <2>1
<1>. QED  BY <1>2

\* r has the members of S up to i, each once, in ascending order.
IsInOrder(r, i, S) ==
    /\ r \in Seq(1..i)
    /\ \A j, k \in 1..Len(r) : j < k => r[j] < r[k]
    /\ \A k \in 1..Len(r) : r[k] \in S
    /\ \A m \in 1..i : m \in S => \E k \in 1..Len(r) : r[k] = m

\* A turn of the loop of InOrder.
Turn(r, i, S) == IF i \in S THEN Append(r, i) ELSE r

\* A turn takes in one number more.
LEMMA TurnLemma ==
    ASSUME NEW i \in Nat \ {0}, NEW S, NEW r, IsInOrder(r, i - 1, S)
    PROVE  IsInOrder(Turn(r, i, S), i, S)
<1>1. r \in Seq(1..(i - 1)) /\ Len(r) \in Nat /\ \A k \in 1..Len(r) : r[k] \in 1..(i - 1)
  BY DEF IsInOrder
<1>2. r \in Seq(1..i)
  BY <1>1
<1>3. CASE i \notin S
  <2>1. \A m \in 1..i : m \in S => m \in 1..(i - 1)
    BY <1>3
  <2>. QED  BY <1>2, <1>3, <2>1 DEF IsInOrder, Turn
<1>4. CASE i \in S
  <2>. DEFINE u == Append(r, i)
              n == Len(r)
  <2>1. /\ u \in Seq(1..i) /\ Len(u) = n + 1 /\ u[n + 1] = i
        /\ \A k \in 1..n : u[k] = r[k]
    BY <1>1, <1>2
  <2>2. Turn(r, i, S) = u
    BY <1>4 DEF Turn
  <2>3. n \in Nat /\ \A k \in 1..n : r[k] \in 1..(i - 1) /\ r[k] \in S
    BY <1>1 DEF IsInOrder
  <2>4. \A j, k \in 1..n : j < k => r[j] < r[k]
    BY DEF IsInOrder
  <2>5. \A m \in 1..(i - 1) : m \in S => \E k \in 1..n : r[k] = m
    BY DEF IsInOrder
  <2>. HIDE DEF u, n
  <2>6. \A k \in 1..(n + 1) : k \in 1..n \/ k = n + 1
    BY <2>3
  <2>7. \A j, k \in 1..(n + 1) : j < k => u[j] < u[k]
    <3>1. ASSUME NEW j \in 1..(n + 1), NEW k \in 1..(n + 1), j < k
          PROVE  u[j] < u[k]
      <4>1. j \in 1..n
        BY <2>3, <3>1
      <4>2. u[j] = r[j] /\ r[j] \in 1..(i - 1)
        BY <2>1, <2>3, <4>1
      <4>3. CASE k = n + 1
        BY <2>1, <4>2, <4>3
      <4>4. CASE k \in 1..n
        BY <2>1, <2>4, <3>1, <4>1, <4>4
      <4>. QED  BY <2>6, <4>3, <4>4
    <3>. QED  BY <3>1
  <2>8. \A k \in 1..(n + 1) : u[k] \in S
    BY <1>4, <2>1, <2>3, <2>6
  <2>9. ASSUME NEW m \in 1..i, m \in S
        PROVE  \E k \in 1..(n + 1) : u[k] = m
    <3>1. CASE m = i
      <4>1. n + 1 \in 1..(n + 1)
        BY <2>3
      <4>. QED  BY <2>1, <3>1, <4>1
    <3>2. CASE m # i
      <4>1. m \in 1..(i - 1)
        BY <3>2
      <4>2. PICK k \in 1..n : r[k] = m
        BY <2>5, <2>9, <4>1
      <4>3. k \in 1..(n + 1)
        BY <2>3
      <4>. QED  BY <2>1, <4>2, <4>3
    <3>. QED  BY <3>1, <3>2
  <2>. QED  BY <2>1, <2>2, <2>7, <2>8, <2>9 DEF IsInOrder
<1>. QED  BY <1>3, <1>4

\* The function that InOrder's is the one to be equal to.
Turns(f, n, S) == [i \in 0..n |-> IF i = 0 THEN <<>> ELSE Turn(f[i - 1], i, S)]

\* The function of the turns.
LEMMA TurnsExist ==
    ASSUME NEW S, NEW n \in Nat
    PROVE  \E f : f = Turns(f, n, S)
<1>. DEFINE Bad == {m \in Nat : ~\E f : f = Turns(f, m, S)}
<1>1. SUFFICES ASSUME Bad # {}  PROVE FALSE
  BY <1>1
<1>2. PICK m \in Bad : \A k \in Bad : m <= k
  BY <1>1, LeastNumber
<1>3. CASE m = 0
  <2>. DEFINE f == [i \in 0..0 |-> <<>>]
  <2>1. f = Turns(f, 0, S)
    BY DEF Turns
  <2>. QED  BY <1>2, <1>3, <2>1
<1>4. CASE m # 0
  <2>1. m \in Nat /\ m - 1 \in Nat /\ m - 1 \notin Bad
    BY <1>2, <1>4
  <2>2. PICK g : g = Turns(g, m - 1, S)
    BY <2>1
  <2>. DEFINE f == [i \in 0..m |-> IF i = m THEN Turn(g[m - 1], m, S) ELSE g[i]]
  <2>3. ASSUME NEW i \in 0..m  PROVE f[i] = IF i = 0 THEN <<>> ELSE Turn(f[i - 1], i, S)
    <3>1. CASE i = m
      <4>1. m - 1 \in 0..m /\ m - 1 # m /\ m # 0 /\ m \in 0..m
        BY <1>4, <2>1
      <4>. QED  BY <3>1, <4>1
    <3>2. CASE i # m
      <4>1. i \in 0..(m - 1) /\ f[i] = g[i]
        BY <2>1, <3>2
      <4>2. g[i] = IF i = 0 THEN <<>> ELSE Turn(g[i - 1], i, S)
        BY <2>2, <4>1 DEF Turns
      <4>3. i # 0 => i - 1 \in 0..m /\ i - 1 # m
        BY <2>1
      <4>4. i # 0 => f[i - 1] = g[i - 1]
        BY <4>3
      <4>. QED  BY <4>1, <4>2, <4>4
    <3>. QED  BY <3>1, <3>2
  <2>4. f = Turns(f, m, S)
    <3>1. f = [i \in 0..m |-> f[i]]
      OBVIOUS
    <3>. HIDE DEF f
    <3>. QED  BY <2>3, <3>1 DEF Turns
  <2>. QED  BY <1>2, <2>4
<1>. QED  BY <1>3, <1>4

\* What InOrder returns.
LEMMA InOrderLemma ==
    ASSUME NEW S, NEW n \in Nat
    PROVE  IsInOrder(InOrder(n, S), n, S)
<1>. DEFINE f == CHOOSE f : f = Turns(f, n, S)
<1>1. InOrder(n, S) = f[n]
  BY DEF InOrder, Turns, Turn
<1>2. f = Turns(f, n, S)
  BY TurnsExist
<1>. HIDE DEF f
<1>3. \A i \in 0..n : f[i] = IF i = 0 THEN <<>> ELSE Turn(f[i - 1], i, S)
  BY <1>2 DEF Turns
<1>. DEFINE Bad == {i \in 0..n : ~IsInOrder(f[i], i, S)}
<1>4. ASSUME Bad # {}  PROVE FALSE
  <2>1. Bad \in SUBSET Nat
    OBVIOUS
  <2>2. PICK m \in Bad : \A k \in Bad : m <= k
    BY <1>4, <2>1, LeastNumber
  <2>3. CASE m = 0
    <3>1. IsInOrder(<<>>, 0, S)
      BY DEF IsInOrder
    <3>. QED  BY <1>3, <2>2, <2>3, <3>1
  <2>4. CASE m # 0
    <3>1. m \in 0..n /\ m \in Nat \ {0} /\ m - 1 \in 0..n /\ m - 1 \notin Bad
      BY <2>2, <2>4
    <3>2. IsInOrder(f[m - 1], m - 1, S) /\ f[m] = Turn(f[m - 1], m, S)
      BY <1>3, <3>1
    <3>. QED  BY <2>2, <3>1, <3>2, TurnLemma
  <2>. QED  BY <2>3, <2>4
<1>5. n \in 0..n
  OBVIOUS
<1>. QED  BY <1>1, <1>4, <1>5

-------------------------------------------------------------------------------
(* What a directory lists.                                                 *)

Addrs == Inodes \cup {NoAddr}
Handles == {DirHandle(a) : a \in Addrs} \cup {FileHandle(d, i) : d \in Inodes, i \in Nat}

\* The handle of the directory that entry i of directory a names.
Child(v, a, i) == INumToDir(v, Listing(v, a)[i].addr)

\* What tells handles of files and of directories apart.
LEMMA HandleLemma ==
    ASSUME NEW a, NEW d, NEW i
    PROVE  /\ DirHandle(a).type = "dir" /\ DirHandle(a).addr = a
           /\ FileHandle(d, i).type = "file" /\ FileHandle(d, i).dir = d /\ FileHandle(d, i).nr = i
           /\ DirHandle(a) # FileHandle(d, i) /\ DirHandle(a) # None /\ FileHandle(d, i) # None
           /\ None.type = "undef"
<1>1. DirHandle(a).type = "dir" /\ FileHandle(d, i).type = "file" /\ None.type = "undef"
  BY DEF DirHandle, FileHandle, None
<1>2. DirHandle(a).addr = a /\ FileHandle(d, i).dir = d /\ FileHandle(d, i).nr = i
  BY DEF DirHandle, FileHandle
<1>. QED  BY <1>1, <1>2

\* The entries of a listing that are directories, and where they lead.
LEMMA ListingLemma ==
    ASSUME NEW v \in VolumeType, NEW a
    PROVE  /\ Listing(v, a) \in Seq(Entries) /\ Len(Listing(v, a)) \in Nat
           /\ DirEntries(v, a) \subseteq 1..Len(Listing(v, a))
           /\ FileEntries(v, a) \subseteq 1..Len(Listing(v, a))
           /\ a \notin Inodes => DirEntries(v, a) = {} /\ FileEntries(v, a) = {}
           /\ \A i \in DirEntries(v, a) :
                /\ Listing(v, a)[i].addr \in Inodes
                /\ Listing(v, a)[i] = SubDir(Listing(v, a)[i].addr)
                /\ \E b \in Addrs : Child(v, a, i) = DirHandle(b)
<1>1. Listing(v, a) \in Seq(Entries) /\ Len(Listing(v, a)) \in Nat
  <2>1. <<>> \in Seq(Entries) /\ (a \in Inodes => v.entries[a] \in Seq(Entries))
    BY DEF VolumeType
  <2>2. Listing(v, a) \in Seq(Entries)
    BY <2>1 DEF Listing
  <2>. QED  BY <2>2
<1>2. DOMAIN Listing(v, a) = 1..Len(Listing(v, a))
  BY <1>1
<1>3. a \notin Inodes => Listing(v, a) = <<>>
  BY DEF Listing
<1>4. ASSUME NEW i \in DirEntries(v, a)
      PROVE  \E b \in Inodes : Listing(v, a)[i] = SubDir(b)
  <2>1. Listing(v, a)[i] \in Entries /\ Listing(v, a)[i].kind = "dir"
    BY <1>1, <1>2 DEF DirEntries
  <2>2. Dot.kind = "dot" /\ Leaf.kind = "file"
    BY DEF Dot, Leaf
  <2>. QED  BY <2>1, <2>2 DEF Entries
<1>5. ASSUME NEW i \in DirEntries(v, a)
      PROVE  /\ Listing(v, a)[i].addr \in Inodes
             /\ Listing(v, a)[i] = SubDir(Listing(v, a)[i].addr)
             /\ \E b \in Addrs : Child(v, a, i) = DirHandle(b)
  <2>1. PICK b \in Inodes : Listing(v, a)[i] = SubDir(b)
    BY <1>4
  <2>2. Listing(v, a)[i].addr = b
    BY <2>1 DEF SubDir
  <2>. QED  BY <2>1, <2>2 DEF Child, INumToDir, Addrs
<1>6. a \notin Inodes => DirEntries(v, a) = {} /\ FileEntries(v, a) = {}
  BY <1>3 DEF DirEntries, FileEntries
<1>. QED  BY <1>1, <1>2, <1>5, <1>6 DEF DirEntries, FileEntries

\* dirs has the directories of a, each once.
DirsOf(v, a, dirs, idx) ==
    /\ idx \in Seq(DirEntries(v, a))
    /\ \A j, k \in 1..Len(idx) : idx[j] = idx[k] => j = k
    /\ \A i \in DirEntries(v, a) : \E k \in 1..Len(idx) : idx[k] = i
    /\ dirs = [k \in 1..Len(idx) |-> Child(v, a, idx[k])]

LEMMA SeparatedDirsLemma ==
    ASSUME NEW v \in VolumeType, NEW a
    PROVE  \E idx : DirsOf(v, a, SeparatedDirs(v, a), idx)
<1>. DEFINE n == Len(Listing(v, a))
            idx == InOrder(n, DirEntries(v, a))
<1>1. n \in Nat /\ DirEntries(v, a) \subseteq 1..n
  BY ListingLemma
<1>2. IsInOrder(idx, n, DirEntries(v, a))
  BY <1>1, InOrderLemma
<1>3. SeparatedDirs(v, a) = [k \in DOMAIN idx |-> Child(v, a, idx[k])]
  BY DEF SeparatedDirs, Child
<1>. HIDE DEF idx, n
<1>4. idx \in Seq(1..n) /\ \A k \in 1..Len(idx) : idx[k] \in DirEntries(v, a)
  BY <1>2 DEF IsInOrder
<1>5. DOMAIN idx = 1..Len(idx) /\ Len(idx) \in Nat /\ idx = [k \in 1..Len(idx) |-> idx[k]]
  BY <1>4
<1>6. idx \in Seq(DirEntries(v, a))
  <2>1. [k \in 1..Len(idx) |-> idx[k]] \in [1..Len(idx) -> DirEntries(v, a)]
    BY <1>4
  <2>. QED  BY <1>5, <2>1, SeqDef
<1>7. ASSUME NEW j \in 1..Len(idx), NEW k \in 1..Len(idx), idx[j] = idx[k]
      PROVE  j = k
  <2>1. (j < k => idx[j] < idx[k]) /\ (k < j => idx[k] < idx[j])
    BY <1>2 DEF IsInOrder
  <2>2. idx[j] \in Nat /\ j \in Nat /\ k \in Nat
    BY <1>1, <1>4
  <2>. QED  BY <1>7, <2>1, <2>2
<1>8. \A i \in DirEntries(v, a) : \E k \in 1..Len(idx) : idx[k] = i
  BY <1>1, <1>2 DEF IsInOrder
<1>9. DirsOf(v, a, SeparatedDirs(v, a), idx)
  BY <1>3, <1>5, <1>6, <1>7, <1>8 DEF DirsOf
<1>. QED  BY <1>9

\* D has the directories that a lists and that are not seen.
NewOnes(v, a, seen, D, idx) ==
    /\ D \in Seq(Handles)
    /\ idx \in [1..Len(D) -> DirEntries(v, a)]
    /\ \A j, k \in 1..Len(D) : idx[j] = idx[k] => j = k
    /\ \A k \in 1..Len(D) : D[k] = Child(v, a, idx[k]) /\ D[k].addr \notin seen
    /\ \A i \in DirEntries(v, a) :
        Child(v, a, i).addr \notin seen => \E k \in 1..Len(D) : D[k] = Child(v, a, i)

LEMMA NewDirsLemma ==
    ASSUME NEW v \in VolumeType, NEW a, NEW seen
    PROVE  \E idx : NewOnes(v, a, seen, NewDirs(SeparatedDirs(v, a), seen), idx)
<1>. DEFINE dirs == SeparatedDirs(v, a)
            D == NewDirs(dirs, seen)
<1>. PICK all : DirsOf(v, a, dirs, all)
  BY SeparatedDirsLemma
<1>. HIDE DEF dirs
<1>1. /\ all \in Seq(DirEntries(v, a))
      /\ \A j, k \in 1..Len(all) : all[j] = all[k] => j = k
      /\ \A i \in DirEntries(v, a) : \E k \in 1..Len(all) : all[k] = i
      /\ dirs = [k \in 1..Len(all) |-> Child(v, a, all[k])]
  BY DEF DirsOf
<1>. DEFINE n == Len(all)
            S == {k \in 1..n : Child(v, a, all[k]).addr \notin seen}
            left == InOrder(n, S)
<1>2. n \in Nat /\ DOMAIN dirs = 1..n /\ Len(dirs) = n /\ \A k \in 1..n : all[k] \in DirEntries(v, a)
  BY <1>1
<1>3. {k \in DOMAIN dirs : dirs[k].addr \notin seen} = S
  BY <1>1, <1>2
<1>4. D = [k \in DOMAIN left |-> dirs[left[k]]]
  BY <1>2, <1>3 DEF NewDirs
<1>5. IsInOrder(left, n, S)
  BY <1>2, InOrderLemma
<1>. HIDE DEF left, D
<1>6. left \in Seq(1..n) /\ DOMAIN left = 1..Len(left) /\ Len(left) \in Nat
  BY <1>5 DEF IsInOrder
<1>7. \A k \in 1..Len(left) : left[k] \in 1..n /\ left[k] \in S
  BY <1>5, <1>6 DEF IsInOrder
<1>8. D = [k \in 1..Len(left) |-> Child(v, a, all[left[k]])]
  BY <1>1, <1>4, <1>6, <1>7
<1>9. ASSUME NEW k \in 1..Len(left)
      PROVE  Child(v, a, all[left[k]]) \in Handles
  <2>1. all[left[k]] \in DirEntries(v, a)
    BY <1>2, <1>7
  <2>. QED  BY <2>1, ListingLemma DEF Handles
<1>10. D \in Seq(Handles) /\ Len(D) = Len(left)
  BY <1>6, <1>8, <1>9
<1>. DEFINE idx == [k \in 1..Len(left) |-> all[left[k]]]
<1>11. idx \in [1..Len(D) -> DirEntries(v, a)]
  BY <1>2, <1>7, <1>10
<1>12. ASSUME NEW j \in 1..Len(left), NEW k \in 1..Len(left), idx[j] = idx[k]
       PROVE  j = k
  <2>1. left[j] = left[k]
    BY <1>1, <1>7, <1>12
  <2>2. (j < k => left[j] < left[k]) /\ (k < j => left[k] < left[j])
    BY <1>5 DEF IsInOrder
  <2>3. left[j] \in Nat /\ j \in Nat /\ k \in Nat
    BY <1>6, <1>7
  <2>. QED  BY <2>1, <2>2, <2>3
<1>13. \A k \in 1..Len(left) : D[k] = Child(v, a, idx[k]) /\ D[k].addr \notin seen
  BY <1>7, <1>8
<1>14. ASSUME NEW i \in DirEntries(v, a), Child(v, a, i).addr \notin seen
       PROVE  \E k \in 1..Len(left) : D[k] = Child(v, a, i)
  <2>1. PICK m \in 1..n : all[m] = i
    BY <1>1
  <2>2. m \in S
    BY <1>14, <2>1
  <2>3. PICK k \in 1..Len(left) : left[k] = m
    BY <1>5, <2>2 DEF IsInOrder
  <2>. QED  BY <1>8, <2>1, <2>3
<1>. HIDE DEF idx
<1>15. NewOnes(v, a, seen, D, idx)
  BY <1>10, <1>11, <1>12, <1>13, <1>14 DEF NewOnes
<1>. QED  BY <1>15 DEF D, dirs

\* F has the files of a, each once.
FilesOf(v, a, F) ==
    /\ F \in Seq(Handles)
    /\ \A k \in 1..Len(F) : \E i \in FileEntries(v, a) : F[k] = FileHandle(a, i)
    /\ \A i \in FileEntries(v, a) : \E k \in 1..Len(F) : F[k] = FileHandle(a, i)
    /\ \A j, k \in 1..Len(F) : F[j] = F[k] => j = k

LEMMA SeparatedFilesLemma ==
    ASSUME NEW v \in VolumeType, NEW a
    PROVE  FilesOf(v, a, SeparatedFiles(v, a))
<1>. DEFINE n == Len(Listing(v, a))
            idx == InOrder(n, FileEntries(v, a))
            F == SeparatedFiles(v, a)
<1>1. n \in Nat /\ FileEntries(v, a) \subseteq 1..n
  BY ListingLemma
<1>2. IsInOrder(idx, n, FileEntries(v, a))
  BY <1>1, InOrderLemma
<1>3. F = [k \in DOMAIN idx |-> FileHandle(a, idx[k])]
  BY DEF SeparatedFiles
<1>. HIDE DEF idx, n, F
<1>4. idx \in Seq(1..n) /\ \A k \in 1..Len(idx) : idx[k] \in FileEntries(v, a)
  BY <1>2 DEF IsInOrder
<1>5. DOMAIN idx = 1..Len(idx) /\ Len(idx) \in Nat /\ \A k \in 1..Len(idx) : idx[k] \in Nat
  BY <1>1, <1>4
<1>6. ASSUME NEW k \in 1..Len(idx)  PROVE FileHandle(a, idx[k]) \in Handles
  <2>1. a \in Inodes
    BY <1>4, ListingLemma
  <2>. QED  BY <1>5, <2>1 DEF Handles
<1>7. F \in Seq(Handles) /\ Len(F) = Len(idx) /\ \A k \in 1..Len(idx) : F[k] = FileHandle(a, idx[k])
  BY <1>3, <1>5, <1>6
<1>8. ASSUME NEW j \in 1..Len(idx), NEW k \in 1..Len(idx), F[j] = F[k]
      PROVE  j = k
  <2>1. idx[j] = idx[k]
    BY <1>7, <1>8, HandleLemma
  <2>2. (j < k => idx[j] < idx[k]) /\ (k < j => idx[k] < idx[j])
    BY <1>2 DEF IsInOrder
  <2>. QED  BY <1>5, <2>1, <2>2
<1>9. \A i \in FileEntries(v, a) : \E k \in 1..Len(idx) : F[k] = FileHandle(a, i)
  BY <1>1, <1>2, <1>7 DEF IsInOrder
<1>10. \A k \in 1..Len(idx) : \E i \in FileEntries(v, a) : F[k] = FileHandle(a, i)
  BY <1>4, <1>7
<1>11. FilesOf(v, a, F)
  BY <1>7, <1>8, <1>9, <1>10 DEF FilesOf
<1>. QED  BY <1>11 DEF F


-------------------------------------------------------------------------------
(* The inductive invariant of the iterator of one file system.             *)

IsDir(h) == h.type = "dir"
IsFile(h) == h.type = "file"

OnStack(h) == \E k \in 1..Len(fdstack) : fdstack[k] = h

FilesIn(v) == UNION {{a} \X FileEntries(v, a) : a \in Inodes}

ItTypes ==
    /\ TypeOK
    /\ fdstack \in Seq(Handles)

\* Of a directory that was entered every file has been returned or is on the
\* stack, not both, and on it once; of any other none is either.
FilesOnce ==
    /\ \A e \in FilesIn(vol) : e[1] \notin inumstack => files[e] = 0
    /\ \A k \in 1..Len(fdstack) :
        IsFile(fdstack[k]) => files[<<fdstack[k].dir, fdstack[k].nr>>] = 0
    /\ \A j, k \in 1..Len(fdstack) : IsFile(fdstack[j]) /\ fdstack[j] = fdstack[k] => j = k
    /\ \A e \in FilesIn(vol) : files[e] <= 1
    /\ \A e \in FilesIn(vol) :
        e[1] \in inumstack => files[e] = 1 \/ OnStack(FileHandle(e[1], e[2]))

\* What is listed in a directory that was entered was entered too, or is on the
\* stack, at whose bottom a directory is.
DirsKept ==
    /\ vol = NoVolume \/ INumToDir(vol, vol.root).addr \in inumstack \/ OnStack(INumToDir(vol, vol.root))
    /\ \A a \in inumstack : \A i \in DirEntries(vol, a) :
        Child(vol, a, i).addr \in inumstack \/ OnStack(Child(vol, a, i))
    /\ fdstack # <<>> => IsDir(fdstack[1])

\* A file is a directory and an entry of its listing.
LEMMA FilesInLemma ==
    ASSUME NEW v \in VolumeType
    PROVE  /\ \A a, i : <<a, i>> \in FilesIn(v) <=> a \in Inodes /\ i \in FileEntries(v, a)
           /\ \A a : \A i \in FileEntries(v, a) : <<a, i>> \in FilesIn(v)
           /\ \A e \in FilesIn(v) : e = <<e[1], e[2]>> /\ e[1] \in Inodes /\ e[2] \in FileEntries(v, e[1])
<1>1. \A a, i : <<a, i>> \in FilesIn(v) <=> a \in Inodes /\ i \in FileEntries(v, a)
  BY DEF FilesIn
<1>2. \A e \in FilesIn(v) : e = <<e[1], e[2]>> /\ e[1] \in Inodes /\ e[2] \in FileEntries(v, e[1])
  BY DEF FilesIn
<1>3. \A a : \A i \in FileEntries(v, a) : a \in Inodes
  BY ListingLemma
<1>. QED  BY <1>1, <1>2, <1>3

\* A handle is a directory's or a file's.
LEMMA KindsLemma ==
    ASSUME NEW h \in Handles
    PROVE  /\ IsDir(h) \/ IsFile(h)
           /\ ~(IsDir(h) /\ IsFile(h))
           /\ IsDir(h) => h = DirHandle(h.addr) /\ h.addr \in Addrs
           /\ IsFile(h) => h = FileHandle(h.dir, h.nr)
           /\ h # None
<1>1. CASE h \in {DirHandle(a) : a \in Addrs}
  BY <1>1, HandleLemma DEF IsDir, IsFile
<1>2. CASE h \in {FileHandle(d, i) : d \in Inodes, i \in Nat}
  BY <1>2, HandleLemma DEF IsDir, IsFile
<1>. QED  BY <1>1, <1>2 DEF Handles

\* Three sequences on end.
Joined(c, s, t, u) ==
    /\ Len(c) = Len(s) + Len(t) + Len(u)
    /\ \A k \in 1..Len(s) : k \in 1..Len(c) /\ c[k] = s[k]
    /\ \A k \in 1..Len(t) : Len(s) + k \in 1..Len(c) /\ c[Len(s) + k] = t[k]
    /\ \A k \in 1..Len(u) : Len(s) + Len(t) + k \in 1..Len(c) /\ c[Len(s) + Len(t) + k] = u[k]
    /\ \A k \in 1..Len(c) :
        \/ k \in 1..Len(s)
        \/ \E j \in 1..Len(t) : k = Len(s) + j
        \/ \E j \in 1..Len(u) : k = Len(s) + Len(t) + j

LEMMA JoinedLemma ==
    ASSUME NEW T, NEW s \in Seq(T), NEW t \in Seq(T), NEW u \in Seq(T)
    PROVE  s \o t \o u \in Seq(T) /\ Joined(s \o t \o u, s, t, u)
<1>. DEFINE m == Len(s)
            n == Len(t)
            p == Len(u)
            c == s \o t \o u
<1>1. m \in Nat /\ n \in Nat /\ p \in Nat
  OBVIOUS
<1>2. /\ s \o t \in Seq(T) /\ Len(s \o t) = m + n
      /\ \A k \in 1..m : (s \o t)[k] = s[k]
      /\ \A k \in 1..n : (s \o t)[m + k] = t[k]
  OBVIOUS
<1>3. /\ c \in Seq(T) /\ Len(c) = m + n + p
      /\ \A k \in 1..(m + n) : c[k] = (s \o t)[k]
      /\ \A k \in 1..p : c[m + n + k] = u[k]
  BY <1>2
<1>. HIDE DEF m, n, p, c
<1>4. \A k \in 1..m : k \in 1..(m + n) /\ k \in 1..(m + n + p)
  BY <1>1
<1>5. \A k \in 1..n : m + k \in 1..(m + n) /\ m + k \in 1..(m + n + p)
  BY <1>1
<1>6. \A k \in 1..p : m + n + k \in 1..(m + n + p)
  BY <1>1
<1>7. ASSUME NEW k \in 1..(m + n + p)
      PROVE  k \in 1..m \/ (\E j \in 1..n : k = m + j) \/ (\E j \in 1..p : k = m + n + j)
  <2>1. CASE k <= m
    BY <1>1, <2>1
  <2>2. CASE k > m /\ k <= m + n
    <3>1. k - m \in 1..n /\ k = m + (k - m)
      BY <1>1, <2>2
    <3>. QED  BY <3>1
  <2>3. CASE k > m + n
    <3>1. k - (m + n) \in 1..p /\ k = m + n + (k - (m + n))
      BY <1>1, <2>3
    <3>. QED  BY <3>1
  <2>. QED  BY <1>1, <2>1, <2>2, <2>3
<1>8. Joined(c, s, t, u)
  BY <1>2, <1>3, <1>4, <1>5, <1>6, <1>7 DEF Joined, m, n, p
<1>. QED  BY <1>3, <1>8 DEF c

\* What is left of a stack when its top is taken off.
LEMMA PopLemma ==
    ASSUME NEW T, NEW s \in Seq(T), s # <<>>
    PROVE  /\ Len(s) \in Nat \ {0} /\ PopOf(s) \in Seq(T) /\ Len(PopOf(s)) = Len(s) - 1
           /\ \A k \in 1..(Len(s) - 1) : k \in 1..Len(s) /\ PopOf(s)[k] = s[k]
<1>. DEFINE n == Len(s)
<1>1. n \in Nat /\ n # 0 /\ \A k \in 1..n : s[k] \in T
  OBVIOUS
<1>. HIDE DEF n
<1>2. \A k \in 1..(n - 1) : k \in 1..n /\ s[k] \in T
  BY <1>1
<1>3. /\ SubSeq(s, 1, n - 1) \in Seq(T)
      /\ Len(SubSeq(s, 1, n - 1)) = IF 1 <= n - 1 THEN (n - 1) - 1 + 1 ELSE 0
      /\ \A k \in 1..((n - 1) - 1 + 1) : SubSeq(s, 1, n - 1)[k] = s[1 + k - 1]
  <2>1. 1 \in Int /\ n - 1 \in Int
    BY <1>1
  <2>. QED  BY ONLY <1>2, <2>1, SubSeqProperties
<1>4. (n - 1) - 1 + 1 = n - 1 /\ \A k \in 1..(n - 1) : 1 + k - 1 = k
  BY <1>1
<1>5. Len(SubSeq(s, 1, n - 1)) = n - 1
  BY <1>1, <1>3
<1>6. \A k \in 1..(n - 1) : SubSeq(s, 1, n - 1)[k] = s[k]
  BY <1>3, <1>4
<1>. QED  BY <1>1, <1>2, <1>3, <1>5, <1>6 DEF PopOf, n

\* What Enter does.
EnterIs(a, D, idx, F) ==
    /\ a \in Addrs /\ a \notin inumstack
    /\ fdstack # <<>> /\ Top(fdstack) = DirHandle(a)
    /\ inumstack' = inumstack \cup {a}
    /\ NewOnes(vol, a, inumstack \cup {a}, D, idx)
    /\ FilesOf(vol, a, F)
    /\ fdstack' \in Seq(Handles) /\ Joined(fdstack', fdstack, D, F)
    /\ pathstack' = Append(pathstack, a)
    /\ result' = DirHandle(a)
    /\ vol' = vol /\ files' = files

\* The top of the stack, and what is below it.
LEMMA TopLemma ==
    ASSUME ItTypes, fdstack # <<>>
    PROVE  /\ Len(fdstack) \in Nat \ {0} /\ Len(fdstack) \in 1..Len(fdstack)
           /\ Top(fdstack) = fdstack[Len(fdstack)] /\ Top(fdstack) \in Handles
           /\ PopOf(fdstack) \in Seq(Handles) /\ Len(PopOf(fdstack)) = Len(fdstack) - 1
           /\ \A k \in 1..(Len(fdstack) - 1) : k \in 1..Len(fdstack) /\ PopOf(fdstack)[k] = fdstack[k]
           /\ \A k \in 1..Len(fdstack) : k \in 1..(Len(fdstack) - 1) \/ k = Len(fdstack)
<1>1. fdstack \in Seq(Handles) /\ Len(fdstack) \in Nat
  BY DEF ItTypes
<1>2. Len(fdstack) # 0
  BY <1>1
<1>3. Len(fdstack) \in 1..Len(fdstack)
  BY <1>1, <1>2
<1>4. Top(fdstack) = fdstack[Len(fdstack)] /\ Top(fdstack) \in Handles
  BY <1>1, <1>3, ElementOfSeq DEF Top
<1>5. /\ PopOf(fdstack) \in Seq(Handles) /\ Len(PopOf(fdstack)) = Len(fdstack) - 1
      /\ \A k \in 1..(Len(fdstack) - 1) : PopOf(fdstack)[k] = fdstack[k]
  BY <1>1, PopLemma
<1>. QED  BY <1>1, <1>2, <1>3, <1>4, <1>5

LEMMA EnterLemma ==
    ASSUME ItTypes, Enter
    PROVE  \E a, D, idx, F : EnterIs(a, D, idx, F)
<1>. DEFINE f == Top(fdstack)
            a == f.addr
            D == NewDirs(SeparatedDirs(vol, a), inumstack \cup {a})
            F == SeparatedFiles(vol, a)
<1>1. fdstack # <<>> /\ vol \in VolumeType /\ fdstack \in Seq(Handles)
  BY DEF ItTypes, TypeOK, Enter
<1>2. /\ f.type = "dir" /\ a \notin inumstack
      /\ pathstack' = Append(pathstack, a) /\ inumstack' = inumstack \cup {a}
      /\ fdstack' = fdstack \o D \o F /\ result' = f
      /\ vol' = vol /\ files' = files
  BY DEF Enter
<1>3. f = DirHandle(a) /\ a \in Addrs
  BY <1>1, <1>2, TopLemma, KindsLemma DEF IsDir
<1>4. PICK idx : NewOnes(vol, a, inumstack \cup {a}, D, idx)
  BY <1>1, NewDirsLemma
<1>5. FilesOf(vol, a, F)
  BY <1>1, SeparatedFilesLemma
<1>6. D \in Seq(Handles) /\ F \in Seq(Handles)
  BY <1>4, <1>5 DEF NewOnes, FilesOf
<1>. HIDE DEF D, F, a
<1>7. fdstack' \in Seq(Handles) /\ Joined(fdstack', fdstack, D, F)
  BY <1>1, <1>2, <1>6, JoinedLemma
<1>8. EnterIs(a, D, idx, F)
  BY <1>1, <1>2, <1>3, <1>4, <1>5, <1>7 DEF EnterIs
<1>. QED  BY <1>8


\* What is on the new stack.
LEMMA EnterStack ==
    ASSUME ItTypes, NEW a, NEW D, NEW idx, NEW F, EnterIs(a, D, idx, F), NEW k \in 1..Len(fdstack')
    PROVE  \/ k \in 1..Len(fdstack) /\ fdstack'[k] = fdstack[k]
           \/ \E j \in 1..Len(D) : k = Len(fdstack) + j /\ fdstack'[k] = D[j]
           \/ \E j \in 1..Len(F) : k = Len(fdstack) + Len(D) + j /\ fdstack'[k] = F[j]
BY DEF EnterIs, Joined

LEMMA EnterKeeps ==
    ASSUME ItTypes, NEW a, NEW D, NEW idx, NEW F, EnterIs(a, D, idx, F)
    PROVE  /\ \A h : OnStack(h) => OnStack(h)'
           /\ \A i \in FileEntries(vol, a) : OnStack(FileHandle(a, i))'
           /\ \A i \in DirEntries(vol, a) :
                Child(vol, a, i).addr \in inumstack' \/ OnStack(Child(vol, a, i))'
<1>1. ASSUME NEW h, OnStack(h)  PROVE OnStack(h)'
  <2>1. PICK k \in 1..Len(fdstack) : fdstack[k] = h
    BY <1>1 DEF OnStack
  <2>2. k \in 1..Len(fdstack') /\ fdstack'[k] = h
    BY <2>1 DEF EnterIs, Joined
  <2>. QED  BY <2>2 DEF OnStack
<1>2. ASSUME NEW i \in FileEntries(vol, a)  PROVE OnStack(FileHandle(a, i))'
  <2>1. PICK k \in 1..Len(F) : F[k] = FileHandle(a, i)
    BY DEF EnterIs, FilesOf
  <2>2. Len(fdstack) + Len(D) + k \in 1..Len(fdstack') /\ fdstack'[Len(fdstack) + Len(D) + k] = F[k]
    BY DEF EnterIs, Joined
  <2>. QED  BY <2>1, <2>2 DEF OnStack
<1>3. ASSUME NEW i \in DirEntries(vol, a), Child(vol, a, i).addr \notin inumstack'
      PROVE  OnStack(Child(vol, a, i))'
  <2>1. PICK k \in 1..Len(D) : D[k] = Child(vol, a, i)
    BY <1>3 DEF EnterIs, NewOnes
  <2>2. Len(fdstack) + k \in 1..Len(fdstack') /\ fdstack'[Len(fdstack) + k] = D[k]
    BY DEF EnterIs, Joined
  <2>3. vol' = vol
    BY DEF EnterIs
  <2>. QED  BY <2>1, <2>2, <2>3 DEF OnStack
<1>. QED  BY <1>1, <1>2, <1>3

LEMMA NewOnesAreDirs ==
    ASSUME NEW v \in VolumeType, NEW a, NEW seen, NEW D, NEW idx, NewOnes(v, a, seen, D, idx),
           NEW k \in 1..Len(D)
    PROVE  IsDir(D[k]) /\ ~IsFile(D[k]) /\ D[k].addr \in Addrs /\ D[k] \in Handles
<1>1. idx[k] \in DirEntries(v, a) /\ D[k] = Child(v, a, idx[k]) /\ D \in Seq(Handles)
  BY DEF NewOnes
<1>2. PICK b \in Addrs : D[k] = DirHandle(b)
  BY <1>1, ListingLemma
<1>. QED  BY <1>2, HandleLemma DEF IsDir, IsFile, Handles

\* Enter keeps the types, each file once, and the directories.
LEMMA EnterTypes ==
    ASSUME ItTypes, NEW a, NEW D, NEW idx, NEW F, EnterIs(a, D, idx, F)
    PROVE  ItTypes'
<1>1. vol' \in VolumeType /\ vol' = vol /\ fdstack' \in Seq(Handles)
  BY DEF ItTypes, TypeOK, EnterIs
<1>2. pathstack' \in Seq(Inodes \cup {NoAddr})
  BY DEF ItTypes, TypeOK, EnterIs, Addrs
<1>3. inumstack' \subseteq Inodes \cup {NoAddr}
  BY DEF ItTypes, TypeOK, EnterIs, Addrs
<1>4. IsHandle(result)'
  <2>1. result'.type = "dir" /\ result'.addr = a
    BY HandleLemma DEF EnterIs
  <2>. QED  BY <2>1 DEF IsHandle, EnterIs, Addrs
<1>5. ASSUME NEW k \in 1..Len(fdstack')
      PROVE  IsHandle(fdstack[k])'
  <2>1. CASE k \in 1..Len(fdstack) /\ fdstack'[k] = fdstack[k]
    <3>1. k \in DOMAIN fdstack
      BY <2>1 DEF ItTypes
    <3>2. IsHandle(fdstack[k])
      BY <3>1 DEF ItTypes, TypeOK
    <3>. QED  BY <2>1, <3>2 DEF IsHandle, EnterIs
  <2>2. CASE \E j \in 1..Len(D) : k = Len(fdstack) + j /\ fdstack'[k] = D[j]
    <3>1. PICK j \in 1..Len(D) : fdstack'[k] = D[j]
      BY <2>2
    <3>2. IsDir(D[j]) /\ D[j].addr \in Addrs
      BY NewOnesAreDirs DEF EnterIs, ItTypes, TypeOK
    <3>. QED  BY <3>1, <3>2 DEF IsHandle, IsDir, Addrs
  <2>3. CASE \E j \in 1..Len(F) : k = Len(fdstack) + Len(D) + j /\ fdstack'[k] = F[j]
    <3>1. PICK j \in 1..Len(F) : fdstack'[k] = F[j]
      BY <2>3
    <3>2. PICK i \in FileEntries(vol, a) : F[j] = FileHandle(a, i)
      BY DEF EnterIs, FilesOf
    <3>3. F[j].type = "file" /\ F[j].dir = a /\ F[j].nr = i
      BY <3>2, HandleLemma
    <3>. QED  BY <1>1, <3>1, <3>2, <3>3 DEF IsHandle, EnterIs
  <2>. QED  BY <2>1, <2>2, <2>3, EnterStack
<1>6. DOMAIN fdstack' = 1..Len(fdstack')
  BY <1>1
<1>7. files' \in [UNION {{b} \X FileEntries(vol, b) : b \in Inodes} -> Nat]'
  BY <1>1 DEF ItTypes, TypeOK, EnterIs
<1>. QED  BY <1>1, <1>2, <1>3, <1>4, <1>5, <1>6, <1>7 DEF ItTypes, TypeOK

LEMMA EnterFiles ==
    ASSUME ItTypes, FilesOnce, NEW a, NEW D, NEW idx, NEW F, EnterIs(a, D, idx, F)
    PROVE  FilesOnce'
<1>1. vol \in VolumeType /\ vol' = vol /\ files' = files /\ inumstack' = inumstack \cup {a} /\ a \notin inumstack
  BY DEF ItTypes, TypeOK, EnterIs
<1>2. FilesIn(vol') = FilesIn(vol)
  BY <1>1
<1>3. \A e \in FilesIn(vol) : e[1] \notin inumstack' => files'[e] = 0
  BY <1>1 DEF FilesOnce
<1>4. ASSUME NEW j \in 1..Len(F)
      PROVE  /\ IsFile(F[j]) /\ F[j].dir = a /\ F[j].nr \in FileEntries(vol, a)
             /\ files[<<F[j].dir, F[j].nr>>] = 0
  <2>1. PICK i \in FileEntries(vol, a) : F[j] = FileHandle(a, i)
    BY DEF EnterIs, FilesOf
  <2>2. F[j].type = "file" /\ F[j].dir = a /\ F[j].nr = i
    BY <2>1, HandleLemma
  <2>3. <<a, i>> \in FilesIn(vol) /\ <<a, i>>[1] = a
    BY <1>1, FilesInLemma
  <2>. QED  BY <1>1, <2>2, <2>3 DEF FilesOnce, IsFile
<1>5. ASSUME NEW k \in 1..Len(fdstack'), IsFile(fdstack'[k])
      PROVE  \/ k \in 1..Len(fdstack) /\ fdstack'[k] = fdstack[k] /\ fdstack'[k].dir # a
             \/ \E j \in 1..Len(F) : k = Len(fdstack) + Len(D) + j /\ fdstack'[k] = F[j]
  <2>1. CASE k \in 1..Len(fdstack) /\ fdstack'[k] = fdstack[k]
    <3>1. IsHandle(fdstack[k]) /\ fdstack[k].type = "file"
      BY <1>5, <2>1 DEF ItTypes, TypeOK, IsFile
    <3>2. fdstack[k].dir \in inumstack
      BY <3>1 DEF IsHandle
    <3>. QED  BY <1>1, <2>1, <3>2
  <2>2. ASSUME NEW j \in 1..Len(D), fdstack'[k] = D[j]
        PROVE  FALSE
    BY <1>1, <1>5, <2>2, NewOnesAreDirs DEF EnterIs
  <2>3. \/ k \in 1..Len(fdstack) /\ fdstack'[k] = fdstack[k]
        \/ \E j \in 1..Len(D) : k = Len(fdstack) + j /\ fdstack'[k] = D[j]
        \/ \E j \in 1..Len(F) : k = Len(fdstack) + Len(D) + j /\ fdstack'[k] = F[j]
    BY DEF EnterIs, Joined
  <2>. QED  BY <2>1, <2>2, <2>3
<1>6. ASSUME NEW k \in 1..Len(fdstack'), IsFile(fdstack'[k])
      PROVE  files'[<<fdstack'[k].dir, fdstack'[k].nr>>] = 0
  BY <1>1, <1>4, <1>5, <1>6 DEF FilesOnce
<1>7. ASSUME NEW j \in 1..Len(fdstack'), NEW k \in 1..Len(fdstack'),
             IsFile(fdstack'[j]), fdstack'[j] = fdstack'[k]
      PROVE  j = k
  <2>1. CASE j \in 1..Len(fdstack) /\ fdstack'[j] = fdstack[j] /\ fdstack'[j].dir # a
    <3>1. k \in 1..Len(fdstack) /\ fdstack'[k] = fdstack[k]
      BY <1>4, <1>5, <1>7, <2>1
    <3>. QED  BY <1>7, <2>1, <3>1 DEF FilesOnce
  <2>2. CASE \E i \in 1..Len(F) : j = Len(fdstack) + Len(D) + i /\ fdstack'[j] = F[i]
    <3>1. PICK i \in 1..Len(F) : j = Len(fdstack) + Len(D) + i /\ fdstack'[j] = F[i]
      BY <2>2
    <3>2. PICK m \in 1..Len(F) : k = Len(fdstack) + Len(D) + m /\ fdstack'[k] = F[m]
      BY <1>4, <1>5, <1>7, <3>1
    <3>3. i = m
      BY <1>7, <3>1, <3>2 DEF EnterIs, FilesOf
    <3>. QED  BY <3>1, <3>2, <3>3
  <2>. QED  BY <1>5, <1>7, <2>1, <2>2
<1>8. \A e \in FilesIn(vol) : files'[e] <= 1
  BY <1>1 DEF FilesOnce
<1>9. ASSUME NEW e \in FilesIn(vol), e[1] \in inumstack'
      PROVE  files'[e] = 1 \/ OnStack(FileHandle(e[1], e[2]))'
  <2>1. CASE e[1] = a
    <3>1. e[2] \in FileEntries(vol, a)
      BY <1>1, <2>1, FilesInLemma
    <3>. QED  BY <2>1, <3>1, EnterKeeps
  <2>2. CASE e[1] # a
    <3>1. files[e] = 1 \/ OnStack(FileHandle(e[1], e[2]))
      BY <1>1, <1>9, <2>2 DEF FilesOnce
    <3>. QED  BY <1>1, <3>1, EnterKeeps
  <2>. QED  BY <2>1, <2>2
<1>. QED  BY <1>2, <1>3, <1>6, <1>7, <1>8, <1>9 DEF FilesOnce

LEMMA EnterDirs ==
    ASSUME ItTypes, DirsKept, NEW a, NEW D, NEW idx, NEW F, EnterIs(a, D, idx, F)
    PROVE  DirsKept'
<1>1. vol' = vol /\ inumstack' = inumstack \cup {a} /\ fdstack # <<>>
  BY DEF EnterIs
<1>2. (vol = NoVolume \/ INumToDir(vol, vol.root).addr \in inumstack \/ OnStack(INumToDir(vol, vol.root)))'
  <2>1. OnStack(INumToDir(vol, vol.root)) => OnStack(INumToDir(vol, vol.root))'
    BY <1>1, EnterKeeps DEF OnStack
  <2>. QED  BY <1>1, <2>1 DEF DirsKept
<1>3. ASSUME NEW b \in inumstack', NEW i \in DirEntries(vol, b)
      PROVE  Child(vol, b, i).addr \in inumstack' \/ OnStack(Child(vol, b, i))'
  <2>1. CASE b = a
    BY <2>1, EnterKeeps
  <2>2. CASE b # a
    <3>1. Child(vol, b, i).addr \in inumstack \/ OnStack(Child(vol, b, i))
      BY <1>1, <2>2 DEF DirsKept
    <3>2. OnStack(Child(vol, b, i)) => OnStack(Child(vol, b, i))'
      BY <1>1, EnterKeeps DEF OnStack
    <3>. QED  BY <1>1, <3>1, <3>2
  <2>. QED  BY <2>1, <2>2
<1>4. IsDir(fdstack'[1])
  <2>1. 1 \in 1..Len(fdstack)
    BY <1>1, TopLemma
  <2>2. fdstack'[1] = fdstack[1]
    BY <2>1 DEF EnterIs, Joined
  <2>. QED  BY <1>1, <2>2 DEF DirsKept
<1>5. \A b \in inumstack' : \A i \in DirEntries(vol', b) :
        Child(vol', b, i).addr \in inumstack' \/ OnStack(Child(vol, b, i))'
  BY <1>1, <1>3
<1>. QED  BY <1>1, <1>2, <1>4, <1>5 DEF DirsKept


\* What Exit does, and Finish with a directory left.
ExitIs ==
    /\ fdstack # <<>> /\ IsDir(Top(fdstack)) /\ Top(fdstack).addr \in inumstack
    /\ fdstack' = PopOf(fdstack)
    /\ pathstack' = IF pathstack = <<>> THEN <<>> ELSE PopOf(pathstack)
    /\ result' \in {None, Top(fdstack)}
    /\ vol' = vol /\ inumstack' = inumstack /\ files' = files

LEMMA PopKeeps ==
    ASSUME ItTypes, fdstack # <<>>, fdstack' = PopOf(fdstack)
    PROVE  /\ fdstack' \in Seq(Handles) /\ Len(fdstack') = Len(fdstack) - 1
           /\ \A k \in 1..Len(fdstack') : k \in 1..Len(fdstack) /\ k # Len(fdstack) /\ fdstack'[k] = fdstack[k]
           /\ \A h : OnStack(h) => h = Top(fdstack) \/ OnStack(h)'
<1>1. /\ Len(fdstack) \in Nat \ {0}
      /\ Top(fdstack) = fdstack[Len(fdstack)]
      /\ fdstack' \in Seq(Handles) /\ Len(fdstack') = Len(fdstack) - 1
      /\ \A k \in 1..(Len(fdstack) - 1) : k \in 1..Len(fdstack) /\ fdstack'[k] = fdstack[k]
      /\ \A k \in 1..Len(fdstack) : k \in 1..(Len(fdstack) - 1) \/ k = Len(fdstack)
  BY TopLemma
<1>2. \A k \in 1..(Len(fdstack) - 1) : k # Len(fdstack)
  BY <1>1
<1>3. ASSUME NEW h, OnStack(h)  PROVE h = Top(fdstack) \/ OnStack(h)'
  <2>1. PICK k \in 1..Len(fdstack) : fdstack[k] = h
    BY <1>3 DEF OnStack
  <2>2. CASE k \in 1..(Len(fdstack) - 1)
    <3>1. k \in 1..Len(fdstack') /\ fdstack'[k] = h
      BY <1>1, <2>1, <2>2
    <3>. QED  BY <3>1 DEF OnStack
  <2>3. CASE k = Len(fdstack)
    BY <1>1, <2>1, <2>3
  <2>. QED  BY <1>1, <2>2, <2>3
<1>. QED  BY <1>1, <1>2, <1>3

LEMMA BottomStays ==
    ASSUME ItTypes, DirsKept, fdstack # <<>>, fdstack' = PopOf(fdstack)
    PROVE  fdstack' # <<>> => IsDir(fdstack'[1])
<1>1. ASSUME fdstack' # <<>>  PROVE IsDir(fdstack'[1])
  <2>1. fdstack' \in Seq(Handles) /\ \A k \in 1..Len(fdstack') : fdstack'[k] = fdstack[k]
    BY PopKeeps
  <2>2. 1 \in 1..Len(fdstack')
    BY <1>1, <2>1
  <2>. QED  BY <2>1, <2>2 DEF DirsKept
<1>. QED  BY <1>1

\* Where a name is popped from the path or not, it stays one.
LEMMA PathTypes ==
    ASSUME NEW p \in Seq(Addrs)
    PROVE  (IF p = <<>> THEN <<>> ELSE PopOf(p)) \in Seq(Addrs)
BY DEF PopOf

\* So does Exit ...
LEMMA ExitTypes ==
    ASSUME ItTypes, ExitIs
    PROVE  ItTypes'
<1>1. vol' = vol /\ vol \in VolumeType /\ inumstack' = inumstack /\ inumstack \subseteq Inodes \cup {NoAddr}
  BY DEF ItTypes, TypeOK, ExitIs
<1>2. pathstack' \in Seq(Inodes \cup {NoAddr})
  BY PathTypes DEF ItTypes, TypeOK, ExitIs, Addrs
<1>3. fdstack' \in Seq(Handles) /\ \A k \in 1..Len(fdstack') : k \in 1..Len(fdstack) /\ fdstack'[k] = fdstack[k]
  BY PopKeeps DEF ExitIs
<1>4. ASSUME NEW k \in DOMAIN fdstack'  PROVE IsHandle(fdstack[k])'
  <2>1. k \in 1..Len(fdstack')
    BY <1>3
  <2>2. k \in DOMAIN fdstack /\ fdstack'[k] = fdstack[k]
    BY <1>3, <2>1 DEF ItTypes
  <2>3. IsHandle(fdstack[k])
    BY <2>2 DEF ItTypes, TypeOK
  <2>. QED  BY <1>1, <2>2, <2>3 DEF IsHandle
<1>5. result' = None \/ IsHandle(result)'
  <2>1. ASSUME result' = Top(fdstack)  PROVE IsHandle(result)'
    <3>1. result' \in Handles /\ result'.type = "dir"
      BY <2>1, TopLemma DEF ExitIs, IsDir
    <3>2. result'.addr \in Addrs
      BY <3>1, KindsLemma DEF IsDir
    <3>. QED  BY <3>1, <3>2 DEF IsHandle, Addrs
  <2>. QED  BY <2>1 DEF ExitIs
<1>6. files' \in [UNION {{b} \X FileEntries(vol, b) : b \in Inodes} -> Nat]'
  BY <1>1 DEF ItTypes, TypeOK, ExitIs
<1>7. None' = None
  BY DEF None
<1>. QED  BY <1>1, <1>2, <1>3, <1>4, <1>5, <1>6, <1>7 DEF ItTypes, TypeOK

LEMMA ExitFiles ==
    ASSUME ItTypes, FilesOnce, ExitIs
    PROVE  FilesOnce'
<1>1. vol' = vol /\ inumstack' = inumstack /\ files' = files
  BY DEF ExitIs
<1>2. \A k \in 1..Len(fdstack') : k \in 1..Len(fdstack) /\ fdstack'[k] = fdstack[k]
  BY PopKeeps DEF ExitIs
<1>3. ASSUME NEW e \in FilesIn(vol), e[1] \in inumstack
      PROVE  files[e] = 1 \/ OnStack(FileHandle(e[1], e[2]))'
  <2>1. files[e] = 1 \/ OnStack(FileHandle(e[1], e[2]))
    BY <1>3 DEF FilesOnce
  <2>2. FileHandle(e[1], e[2]) # Top(fdstack)
    BY HandleLemma DEF ExitIs, IsDir
  <2>3. OnStack(FileHandle(e[1], e[2])) => OnStack(FileHandle(e[1], e[2]))'
    BY <2>2, PopKeeps DEF ExitIs
  <2>. QED  BY <2>1, <2>3
<1>4. \A k \in 1..Len(fdstack') : IsFile(fdstack'[k]) => files'[<<fdstack'[k].dir, fdstack'[k].nr>>] = 0
  BY <1>1, <1>2 DEF FilesOnce
<1>5. \A j, k \in 1..Len(fdstack') : IsFile(fdstack'[j]) /\ fdstack'[j] = fdstack'[k] => j = k
  BY <1>2 DEF FilesOnce
<1>6. \A e \in FilesIn(vol) : files'[e] <= 1 /\ (e[1] \notin inumstack' => files'[e] = 0)
  BY <1>1 DEF FilesOnce
<1>. QED  BY <1>1, <1>3, <1>4, <1>5, <1>6 DEF FilesOnce

LEMMA ExitDirs ==
    ASSUME ItTypes, DirsKept, ExitIs
    PROVE  DirsKept'
<1>1. vol' = vol /\ inumstack' = inumstack
  BY DEF ExitIs
<1>2. ASSUME NEW h, h.addr \in inumstack \/ OnStack(h)
      PROVE  h.addr \in inumstack \/ OnStack(h)'
  BY <1>2, PopKeeps DEF ExitIs
<1>3. vol = NoVolume \/ INumToDir(vol, vol.root).addr \in inumstack \/ OnStack(INumToDir(vol, vol.root))'
  <2>1. \/ vol = NoVolume \/ INumToDir(vol, vol.root).addr \in inumstack
        \/ (\E k \in 1..Len(fdstack) : fdstack[k] = INumToDir(vol, vol.root))
    BY DEF DirsKept, OnStack
  <2>. DEFINE h == INumToDir(vol, vol.root)
  <2>2. h.addr \in inumstack \/ OnStack(h) => h.addr \in inumstack \/ \E k \in 1..Len(fdstack') : fdstack'[k] = h
    BY PopKeeps DEF ExitIs, OnStack
  <2>. QED  BY <1>1, <2>1, <2>2 DEF OnStack
<1>4. ASSUME NEW b \in inumstack, NEW i \in DirEntries(vol, b)
      PROVE  Child(vol, b, i).addr \in inumstack \/ \E k \in 1..Len(fdstack') : fdstack'[k] = Child(vol, b, i)
  <2>. DEFINE h == Child(vol, b, i)
  <2>1. h.addr \in inumstack \/ OnStack(h)
    BY DEF DirsKept
  <2>2. h.addr \in inumstack \/ OnStack(h) => h.addr \in inumstack \/ \E k \in 1..Len(fdstack') : fdstack'[k] = h
    BY PopKeeps DEF ExitIs, OnStack
  <2>. QED  BY <2>1, <2>2
<1>5. fdstack' # <<>> => IsDir(fdstack'[1])
  BY BottomStays DEF ExitIs
<1>. QED  BY <1>1, <1>3, <1>4, <1>5 DEF DirsKept, OnStack

\* What ReturnFile does, to the file on top.
LEMMA ReturnFileLemma ==
    ASSUME ItTypes, ReturnFile
    PROVE  /\ fdstack # <<>> /\ fdstack' = PopOf(fdstack)
           /\ IsFile(Top(fdstack)) /\ Top(fdstack) = FileHandle(Top(fdstack).dir, Top(fdstack).nr)
           /\ Top(fdstack).dir \in inumstack /\ Top(fdstack).nr \in FileEntries(vol, Top(fdstack).dir)
           /\ <<Top(fdstack).dir, Top(fdstack).nr>> \in FilesIn(vol)
           /\ files' = [files EXCEPT ![<<Top(fdstack).dir, Top(fdstack).nr>>] = @ + 1]
           /\ result' = Top(fdstack)
           /\ vol' = vol /\ inumstack' = inumstack /\ pathstack' = pathstack
<1>1. /\ fdstack # <<>> /\ fdstack' = PopOf(fdstack) /\ Top(fdstack).type = "file"
      /\ files' = [files EXCEPT ![<<Top(fdstack).dir, Top(fdstack).nr>>] = @ + 1]
      /\ result' = Top(fdstack)
      /\ vol' = vol /\ inumstack' = inumstack /\ pathstack' = pathstack
  BY DEF ReturnFile
<1>2. IsHandle(Top(fdstack))
  <2>1. Len(fdstack) \in DOMAIN fdstack /\ Top(fdstack) = fdstack[Len(fdstack)]
    BY <1>1, TopLemma DEF ItTypes
  <2>. QED  BY <2>1 DEF ItTypes, TypeOK
<1>3. Top(fdstack).dir \in inumstack /\ Top(fdstack).nr \in FileEntries(vol, Top(fdstack).dir)
  BY <1>1, <1>2 DEF IsHandle
<1>4. <<Top(fdstack).dir, Top(fdstack).nr>> \in FilesIn(vol)
  BY <1>3, FilesInLemma DEF ItTypes, TypeOK
<1>5. Top(fdstack) = FileHandle(Top(fdstack).dir, Top(fdstack).nr)
  BY <1>1, TopLemma, KindsLemma DEF IsFile
<1>. QED  BY <1>1, <1>3, <1>4, <1>5 DEF IsFile

\* ... and returning a file.
LEMMA ReturnTypes ==
    ASSUME ItTypes, ReturnFile
    PROVE  ItTypes'
<1>1. /\ vol' = vol /\ vol \in VolumeType /\ inumstack' = inumstack /\ inumstack \subseteq Inodes \cup {NoAddr}
      /\ pathstack' \in Seq(Inodes \cup {NoAddr})
  BY ReturnFileLemma DEF ItTypes, TypeOK
<1>3. fdstack' \in Seq(Handles) /\ \A k \in 1..Len(fdstack') : k \in 1..Len(fdstack) /\ fdstack'[k] = fdstack[k]
  BY PopKeeps, ReturnFileLemma
<1>4. ASSUME NEW k \in DOMAIN fdstack'  PROVE IsHandle(fdstack[k])'
  <2>1. k \in 1..Len(fdstack')
    BY <1>3
  <2>2. k \in DOMAIN fdstack /\ fdstack'[k] = fdstack[k]
    BY <1>3, <2>1 DEF ItTypes
  <2>3. IsHandle(fdstack[k])
    BY <2>2 DEF ItTypes, TypeOK
  <2>. QED  BY <1>1, <2>2, <2>3 DEF IsHandle
<1>5. IsHandle(result)'
  BY <1>1, ReturnFileLemma DEF IsHandle, IsFile
<1>6. files' \in [UNION {{b} \X FileEntries(vol, b) : b \in Inodes} -> Nat]'
  <2>1. files \in [FilesIn(vol) -> Nat]
    BY DEF ItTypes, TypeOK, FilesIn
  <2>2. files' \in [FilesIn(vol) -> Nat]
    BY <2>1, ReturnFileLemma
  <2>. QED  BY <1>1, <2>2 DEF FilesIn
<1>. QED  BY <1>1, <1>3, <1>4, <1>5, <1>6 DEF ItTypes, TypeOK

LEMMA ReturnFiles ==
    ASSUME ItTypes, FilesOnce, ReturnFile
    PROVE  FilesOnce'
<1>. DEFINE t == Top(fdstack)
            x == <<t.dir, t.nr>>
            n == Len(fdstack)
<1>1. /\ vol' = vol /\ inumstack' = inumstack
      /\ x \in FilesIn(vol) /\ IsFile(t) /\ t = FileHandle(t.dir, t.nr) /\ t.dir \in inumstack
      /\ files' = [files EXCEPT ![x] = @ + 1]
  BY ReturnFileLemma
<1>2. t = fdstack[n] /\ n \in 1..n /\ n \in Nat
  BY ReturnFileLemma, TopLemma
<1>3. /\ \A k \in 1..Len(fdstack') : k \in 1..n /\ k # n /\ fdstack'[k] = fdstack[k]
      /\ \A h : OnStack(h) => h = t \/ OnStack(h)'
  BY ReturnFileLemma, PopKeeps
<1>4. files \in [FilesIn(vol) -> Nat]
  BY DEF ItTypes, TypeOK, FilesIn
<1>. HIDE DEF n
<1>5. files[x] = 0
  BY <1>1, <1>2 DEF FilesOnce, n
<1>6. \A e \in FilesIn(vol) : files'[e] = IF e = x THEN 1 ELSE files[e]
  BY <1>1, <1>4, <1>5
<1>7. x[1] = t.dir
  OBVIOUS
<1>8. \A k \in 1..n : fdstack[k] \in Handles
  BY DEF ItTypes, n
<1>. HIDE DEF t
<1>9. ASSUME NEW k \in 1..Len(fdstack'), IsFile(fdstack'[k])
      PROVE  files'[<<fdstack'[k].dir, fdstack'[k].nr>>] = 0
  <2>. DEFINE h == fdstack[k]
  <2>1. k \in 1..n /\ k # n /\ fdstack'[k] = h /\ IsFile(h)
    BY <1>3, <1>9
  <2>2. h # t
    BY <1>2, <2>1 DEF FilesOnce, n
  <2>3. h = FileHandle(h.dir, h.nr)
    BY <1>8, <2>1, KindsLemma
  <2>4. <<h.dir, h.nr>> # x
    BY <1>1, <2>2, <2>3
  <2>5. IsHandle(h)
    BY <2>1 DEF ItTypes, TypeOK, n
  <2>6. <<h.dir, h.nr>> \in FilesIn(vol)
    BY <2>1, <2>5, FilesInLemma DEF IsHandle, IsDir, IsFile, ItTypes, TypeOK
  <2>7. files[<<h.dir, h.nr>>] = 0
    BY <2>1 DEF FilesOnce, n
  <2>. QED  BY <1>6, <2>1, <2>4, <2>6, <2>7
<1>10. ASSUME NEW j \in 1..Len(fdstack'), NEW k \in 1..Len(fdstack'),
              IsFile(fdstack'[j]), fdstack'[j] = fdstack'[k]
       PROVE  j = k
  BY <1>3, <1>10 DEF FilesOnce, n
<1>11. ASSUME NEW e \in FilesIn(vol)
       PROVE  files'[e] <= 1 /\ (e[1] \notin inumstack' => files'[e] = 0)
  <2>1. files[e] <= 1 /\ (e[1] \notin inumstack => files[e] = 0)
    BY DEF FilesOnce
  <2>. QED  BY <1>1, <1>6, <1>7, <2>1
<1>12. ASSUME NEW e \in FilesIn(vol), e[1] \in inumstack
       PROVE  files'[e] = 1 \/ OnStack(FileHandle(e[1], e[2]))'
  <2>1. CASE e = x
    BY <1>6, <2>1
  <2>2. CASE e # x
    <3>1. files[e] = 1 \/ OnStack(FileHandle(e[1], e[2]))
      BY <1>12 DEF FilesOnce
    <3>2. e = <<e[1], e[2]>>
      BY FilesInLemma DEF ItTypes, TypeOK
    <3>3. FileHandle(e[1], e[2]) # t
      <4>1. FileHandle(e[1], e[2]).dir = e[1] /\ FileHandle(e[1], e[2]).nr = e[2]
        BY HandleLemma
      <4>. QED  BY <2>2, <3>2, <4>1
    <3>4. OnStack(FileHandle(e[1], e[2])) => OnStack(FileHandle(e[1], e[2]))'
      BY <1>3, <3>3
    <3>. QED  BY <1>6, <2>2, <3>1, <3>4
  <2>. QED  BY <2>1, <2>2
<1>. QED  BY <1>1, <1>9, <1>10, <1>11, <1>12 DEF FilesOnce

LEMMA ReturnDirs ==
    ASSUME ItTypes, DirsKept, ReturnFile
    PROVE  DirsKept'
<1>1. vol' = vol /\ inumstack' = inumstack /\ fdstack # <<>> /\ fdstack' = PopOf(fdstack) /\ IsFile(Top(fdstack))
  BY ReturnFileLemma
<1>2. ASSUME NEW h, ~IsFile(h)
      PROVE  OnStack(h) => \E k \in 1..Len(fdstack') : fdstack'[k] = h
  BY <1>1, <1>2, PopKeeps DEF OnStack
<1>3. \/ vol = NoVolume \/ INumToDir(vol, vol.root).addr \in inumstack
      \/ \E k \in 1..Len(fdstack') : fdstack'[k] = INumToDir(vol, vol.root)
  <2>1. ~IsFile(INumToDir(vol, vol.root))
    BY HandleLemma DEF INumToDir, IsFile
  <2>. QED  BY <1>2, <2>1 DEF DirsKept
<1>4. ASSUME NEW b \in inumstack, NEW i \in DirEntries(vol, b)
      PROVE  Child(vol, b, i).addr \in inumstack \/ \E k \in 1..Len(fdstack') : fdstack'[k] = Child(vol, b, i)
  <2>1. ~IsFile(Child(vol, b, i))
    BY HandleLemma DEF Child, INumToDir, IsFile
  <2>. QED  BY <1>2, <2>1 DEF DirsKept
<1>5. fdstack' # <<>> => IsDir(fdstack'[1])
  BY <1>1, BottomStays
<1>. QED  BY <1>1, <1>3, <1>4, <1>5 DEF DirsKept, OnStack


-------------------------------------------------------------------------------
(* On a tree, where the names of the path are on the stack.                *)

Entered(h) == IsDir(h) /\ h.addr \in inumstack

Lists(v, a, b) == \E i \in DirEntries(v, a) : Listing(v, a)[i] = SubDir(b)

\* h is of what directory a lists.
Belongs(h, a) ==
    \/ IsDir(h) /\ Lists(vol, a, h.addr)
    \/ IsFile(h) /\ h.dir = a

\* p says where on the stack the directories of the path are: just those that
\* were entered, in this order.
OnThePath(p) ==
    /\ p \in Seq(Nat) /\ Len(p) = Len(pathstack)
    /\ \A j, k \in 1..Len(p) : j < k => p[j] < p[k]
    /\ \A k \in 1..Len(p) :
        /\ p[k] \in 1..Len(fdstack) /\ fdstack[p[k]] = DirHandle(pathstack[k])
        /\ pathstack[k] \in inumstack
    /\ \A j \in 1..Len(fdstack) : Entered(fdstack[j]) => \E k \in 1..Len(p) : p[k] = j

\* h, at place j, is listed in the last directory of the path before it.
ListedBefore(p, j, h) ==
    \E k \in 1..Len(p) :
        /\ p[k] < j /\ \A m \in 1..Len(p) : k < m => j < p[m]
        /\ Belongs(h, pathstack[k])

OffThePath(p) ==
    \A j \in 1..Len(fdstack) : ~Entered(fdstack[j]) =>
        \/ pathstack = <<>> /\ fdstack[j] = DirHandle(vol.root)
        \/ ListedBefore(p, j, fdstack[j])

\* No directory is on the stack twice; but for the root all are listed in one
\* that was entered.
DirsOnce ==
    \A j \in 1..Len(fdstack) : IsDir(fdstack[j]) =>
        /\ \A k \in 1..Len(fdstack) : fdstack[j] = fdstack[k] => j = k
        /\ fdstack[j].addr = vol.root \/ \E a \in inumstack : Lists(vol, a, fdstack[j].addr)

PathOfResult == IsFile(result) => pathstack # <<>> /\ Top(pathstack) = result.dir

Follows(p) == OnThePath(p) /\ OffThePath(p) /\ DirsOnce /\ IsPath(vol, pathstack) /\ PathOfResult

PathKept == IsTree(vol) => \E p : Follows(p)

\* In a tree a directory has one parent and one name, and the root none.
LEMMA TreeLemma ==
    ASSUME NEW v \in VolumeType, IsTree(v), NEW a, NEW i \in DirEntries(v, a)
    PROVE  /\ a \in Inodes
           /\ Child(v, a, i) = DirHandle(Listing(v, a)[i].addr)
           /\ Listing(v, a)[i] = SubDir(Listing(v, a)[i].addr)
           /\ Listing(v, a)[i].addr # v.root
           /\ \A b : \A j \in DirEntries(v, b) : Listing(v, a)[i] = Listing(v, b)[j] => a = b /\ i = j
<1>1. a \in Inodes /\ Listing(v, a)[i].addr \in Inodes /\ Listing(v, a)[i] = SubDir(Listing(v, a)[i].addr)
  BY ListingLemma
<1>2. v.unreadable = {}
  BY DEF IsTree
<1>3. Listing(v, a) = v.entries[a]
  BY <1>1, <1>2 DEF Listing
<1>4. Child(v, a, i) = DirHandle(Listing(v, a)[i].addr)
  BY <1>1, <1>2 DEF Child, INumToDir
<1>5. i \in DOMAIN v.entries[a] /\ v.entries[a][i].kind = "dir"
  BY <1>3 DEF DirEntries
<1>6. Listing(v, a)[i].addr # v.root
  BY <1>1, <1>3, <1>5 DEF IsTree
<1>7. ASSUME NEW b, NEW j \in DirEntries(v, b), Listing(v, a)[i] = Listing(v, b)[j]
      PROVE  a = b /\ i = j
  <2>1. b \in Inodes
    BY ListingLemma
  <2>2. Listing(v, b) = v.entries[b]
    BY <1>2, <2>1 DEF Listing
  <2>3. j \in DOMAIN v.entries[b] /\ v.entries[a][i] = v.entries[b][j]
    BY <1>3, <1>7, <2>2 DEF DirEntries
  <2>4. <<a, i>> = <<b, j>>
    BY <1>1, <1>5, <2>1, <2>3 DEF IsTree
  <2>. QED  BY <2>4
<1>. QED  BY <1>1, <1>4, <1>6, <1>7

\* A sequence with one more at its end.
LEMMA AppendLemma ==
    ASSUME NEW T, NEW s \in Seq(T), NEW x \in T
    PROVE  /\ Append(s, x) \in Seq(T) /\ Append(s, x) # <<>> /\ Len(Append(s, x)) = Len(s) + 1
           /\ Append(s, x)[Len(s) + 1] = x /\ Top(Append(s, x)) = x
           /\ Len(s) \in Nat /\ Len(s) + 1 \in 1..(Len(s) + 1)
           /\ \A k \in 1..Len(s) : k \in 1..(Len(s) + 1) /\ Append(s, x)[k] = s[k]
           /\ \A k \in 1..(Len(s) + 1) : k \in 1..Len(s) \/ k = Len(s) + 1
<1>1. /\ Append(s, x) \in Seq(T) /\ Len(Append(s, x)) = Len(s) + 1 /\ Len(s) \in Nat
      /\ Append(s, x)[Len(s) + 1] = x
      /\ \A k \in 1..Len(s) : Append(s, x)[k] = s[k]
  OBVIOUS
<1>2. Append(s, x) # <<>>
  BY <1>1
<1>. QED  BY <1>1, <1>2 DEF Top

\* With a directory that was not entered on top, the path is empty, or ends in
\* the directory that lists it; likewise for a file.
LEMMA TopIsListed ==
    ASSUME ItTypes, fdstack # <<>>, NEW p, OnThePath(p), OffThePath(p), ~Entered(Top(fdstack))
    PROVE  /\ \A k \in 1..Len(p) : p[k] # Len(fdstack)
           /\ \/ pathstack = <<>> /\ Top(fdstack) = DirHandle(vol.root)
              \/ pathstack # <<>> /\ Len(pathstack) \in 1..Len(pathstack) /\ Belongs(Top(fdstack), Top(pathstack))
<1>. DEFINE n == Len(fdstack)
            l == Len(p)
<1>1. n \in Nat /\ n \in 1..n /\ Top(fdstack) = fdstack[n]
  BY TopLemma
<1>2. l \in Nat /\ l = Len(pathstack) /\ pathstack \in Seq(Addrs)
  BY DEF OnThePath, ItTypes, TypeOK, Addrs
<1>3. ASSUME NEW k \in 1..l  PROVE p[k] # n
  <2>1. fdstack[p[k]] = DirHandle(pathstack[k]) /\ pathstack[k] \in inumstack
    BY DEF OnThePath
  <2>2. Entered(fdstack[p[k]])
    BY <2>1, HandleLemma DEF Entered, IsDir
  <2>. QED  BY <1>1, <2>2
<1>4. \/ pathstack = <<>> /\ Top(fdstack) = DirHandle(vol.root)
      \/ ListedBefore(p, n, Top(fdstack))
  BY <1>1 DEF OffThePath
<1>5. ASSUME ListedBefore(p, n, Top(fdstack))
      PROVE  pathstack # <<>> /\ l \in 1..l /\ Belongs(Top(fdstack), Top(pathstack))
  <2>1. PICK k \in 1..l : (\A m \in 1..l : k < m => n < p[m]) /\ Belongs(Top(fdstack), pathstack[k])
    BY <1>5 DEF ListedBefore
  <2>2. l \in 1..l
    BY <1>2
  <2>3. p[l] \in 1..n
    BY <2>2 DEF OnThePath
  <2>4. ~(n < p[l])
    BY <1>1, <2>3
  <2>5. k = l
    BY <1>2, <2>1, <2>2, <2>4
  <2>6. Top(pathstack) = pathstack[l] /\ pathstack # <<>>
    BY <1>2, <2>2 DEF Top
  <2>. QED  BY <2>1, <2>2, <2>5, <2>6
<1>. QED  BY <1>2, <1>3, <1>4, <1>5


\* What ends with a pushed name is a path still.
LEMMA LongerPath ==
    ASSUME NEW v, NEW s \in Seq(Addrs), NEW a \in Addrs, IsPath(v, s),
           \/ s = <<>> /\ a = v.root
           \/ s # <<>> /\ Lists(v, Top(s), a)
    PROVE  IsPath(v, Append(s, a))
<1>. DEFINE c == Append(s, a)
            n == Len(s)
<1>1. /\ Len(c) = n + 1 /\ c[n + 1] = a /\ n \in Nat
      /\ \A k \in 1..n : c[k] = s[k]
  BY AppendLemma
<1>2. s # <<>> => n # 0 /\ Top(s) = s[n]
  BY DEF Top
<1>3. s = <<>> => n = 0
  OBVIOUS
<1>4. s # <<>> => s[1] = v.root
  BY DEF IsPath
<1>5. \A k \in 1..(n - 1) : \E i \in DOMAIN Listing(v, s[k]) : Listing(v, s[k])[i] = SubDir(s[k + 1])
  BY DEF IsPath
<1>. HIDE DEF c, n
<1>6. c[1] = v.root
  BY <1>1, <1>2, <1>3, <1>4
<1>7. ASSUME NEW k \in 1..n
      PROVE  \E i \in DOMAIN Listing(v, c[k]) : Listing(v, c[k])[i] = SubDir(c[k + 1])
  <2>1. CASE k = n
    <3>1. c[k] = Top(s) /\ c[k + 1] = a /\ s # <<>>
      BY <1>1, <1>2, <1>3, <2>1
    <3>2. Lists(v, c[k], c[k + 1])
      BY <3>1
    <3>. QED  BY <3>2 DEF Lists, DirEntries
  <2>2. CASE k # n
    <3>1. k \in 1..(n - 1) /\ k \in 1..n /\ k + 1 \in 1..n
      BY <1>1, <2>2
    <3>. QED  BY <1>1, <1>5, <3>1
  <2>. QED  BY <2>1, <2>2
<1>8. Len(c) - 1 = n
  BY <1>1
<1>9. IsPath(v, c)
  BY <1>6, <1>7, <1>8 DEF IsPath
<1>. QED  BY <1>9 DEF c

\* A path without its last directory is one.
LEMMA ShorterPath ==
    ASSUME NEW v, NEW s \in Seq(Addrs), IsPath(v, s), s # <<>>
    PROVE  /\ IsPath(v, PopOf(s)) /\ Len(PopOf(s)) = Len(s) - 1 /\ Len(s) \in Nat \ {0}
           /\ \A k \in 1..(Len(s) - 1) : PopOf(s)[k] = s[k]
<1>. DEFINE c == PopOf(s)
            n == Len(s)
<1>1. n \in Nat \ {0} /\ c \in Seq(Addrs) /\ Len(c) = n - 1 /\ \A k \in 1..(n - 1) : c[k] = s[k]
  BY PopLemma
<1>2. s[1] = v.root
  BY DEF IsPath
<1>3. \A k \in 1..(n - 1) : \E i \in DOMAIN Listing(v, s[k]) : Listing(v, s[k])[i] = SubDir(s[k + 1])
  BY DEF IsPath
<1>. HIDE DEF c, n
<1>4. c # <<>> => c[1] = v.root
  <2>1. ASSUME c # <<>>  PROVE 1 \in 1..(n - 1)
    BY <1>1, <2>1
  <2>. QED  BY <1>1, <1>2, <2>1
<1>5. ASSUME NEW k \in 1..(Len(c) - 1)
      PROVE  \E i \in DOMAIN Listing(v, c[k]) : Listing(v, c[k])[i] = SubDir(c[k + 1])
  <2>1. k \in 1..(n - 1) /\ k + 1 \in 1..(n - 1)
    BY <1>1
  <2>. QED  BY <1>1, <1>3, <2>1
<1>6. IsPath(v, c)
  BY <1>4, <1>5 DEF IsPath
<1>. QED  BY <1>1, <1>6 DEF c, n

LEMMA EnterFollows ==
    ASSUME ItTypes, IsTree(vol), NEW p, Follows(p),
           NEW a, NEW D, NEW idx, NEW F, EnterIs(a, D, idx, F)
    PROVE  \E q : Follows(q)'
<1>. DEFINE n == Len(fdstack)
            l == Len(p)
<1>. PICK q : q = Append(p, n)
  OBVIOUS
<1>1. /\ vol' = vol /\ vol \in VolumeType /\ inumstack' = inumstack \cup {a} /\ a \notin inumstack /\ a \in Addrs
      /\ fdstack # <<>> /\ Top(fdstack) = DirHandle(a)
      /\ pathstack' = Append(pathstack, a) /\ result' = DirHandle(a) /\ pathstack \in Seq(Addrs)
  BY DEF EnterIs, ItTypes, TypeOK, Addrs
<1>2. /\ n \in Nat \ {0} /\ n \in 1..n /\ fdstack[n] = DirHandle(a)
      /\ IsDir(fdstack[n]) /\ fdstack[n].addr = a /\ ~Entered(fdstack[n])
  <2>1. n \in Nat \ {0} /\ n \in 1..n /\ fdstack[n] = DirHandle(a)
    BY <1>1, TopLemma
  <2>2. DirHandle(a).type = "dir" /\ DirHandle(a).addr = a
    BY HandleLemma
  <2>. QED  BY <1>1, <2>1, <2>2 DEF Entered, IsDir
<1>3. OnThePath(p) /\ OffThePath(p) /\ DirsOnce /\ IsPath(vol, pathstack)
  BY DEF Follows
<1>4. /\ \A k \in 1..l : p[k] # n
      /\ \/ pathstack = <<>> /\ DirHandle(a) = DirHandle(vol.root)
         \/ pathstack # <<>> /\ Belongs(DirHandle(a), Top(pathstack))
  BY <1>1, <1>2, <1>3, TopLemma, TopIsListed
<1>5. \/ pathstack = <<>> /\ a = vol.root
      \/ pathstack # <<>> /\ Lists(vol, Top(pathstack), a)
  BY <1>4, HandleLemma DEF Belongs, IsFile
<1>6. IsPath(vol, pathstack')
  BY <1>1, <1>3, <1>5, LongerPath
<1>7. p \in Seq(Nat) /\ l \in Nat /\ l = Len(pathstack) /\ \A k \in 1..l : p[k] \in Nat
  BY <1>3 DEF OnThePath
<1>8. /\ q \in Seq(Nat) /\ Len(q) = l + 1 /\ q[l + 1] = n /\ l + 1 \in 1..(l + 1)
      /\ \A k \in 1..l : k \in 1..(l + 1) /\ q[k] = p[k]
      /\ \A k \in 1..(l + 1) : k \in 1..l \/ k = l + 1
  BY <1>2, <1>7, AppendLemma
<1>9. /\ Len(pathstack') = l + 1 /\ pathstack'[l + 1] = a
      /\ \A k \in 1..l : pathstack'[k] = pathstack[k]
  BY <1>1, <1>7, AppendLemma
<1>10. \A k \in 1..n : k \in 1..Len(fdstack') /\ fdstack'[k] = fdstack[k]
  BY DEF EnterIs, Joined
<1>11. \A k \in 1..Len(D) : n + k \in 1..Len(fdstack') /\ fdstack'[n + k] = D[k]
  BY DEF EnterIs, Joined
<1>12. ASSUME NEW k \in 1..Len(F)
       PROVE  IsFile(F[k]) /\ F[k].dir = a /\ ~IsDir(F[k])
  <2>1. PICK i \in FileEntries(vol, a) : F[k] = FileHandle(a, i)
    BY DEF EnterIs, FilesOf
  <2>2. FileHandle(a, i).type = "file" /\ FileHandle(a, i).dir = a
    BY ONLY HandleLemma
  <2>3. F[k].type = "file" /\ F[k].dir = a
    BY ONLY <2>1, <2>2
  <2>. QED  BY <2>3 DEF IsFile, IsDir
<1>13. ASSUME NEW k \in 1..Len(D)
       PROVE  /\ idx[k] \in DirEntries(vol, a) /\ IsDir(D[k]) /\ D[k].addr \notin inumstack'
              /\ D[k] = DirHandle(D[k].addr) /\ Listing(vol, a)[idx[k]] = SubDir(D[k].addr)
              /\ D[k].addr # vol.root
  <2>1. idx[k] \in DirEntries(vol, a) /\ D[k] = Child(vol, a, idx[k]) /\ D[k].addr \notin inumstack \cup {a}
    BY DEF EnterIs, NewOnes
  <2>2. D[k] = DirHandle(Listing(vol, a)[idx[k]].addr)
    BY <1>1, <2>1, TreeLemma
  <2>3. D[k].type = "dir" /\ D[k].addr = Listing(vol, a)[idx[k]].addr
    BY <2>2, HandleLemma
  <2>. QED  BY <1>1, <2>1, <2>2, <2>3, TreeLemma DEF IsDir
<1>14. \A k \in 1..Len(D) : Lists(vol, a, D[k].addr)
  BY <1>13 DEF Lists
<1>15. ASSUME NEW j \in 1..Len(fdstack')
       PROVE  \/ j \in 1..n /\ fdstack'[j] = fdstack[j]
              \/ \E k \in 1..Len(D) : j = n + k /\ fdstack'[j] = D[k]
              \/ \E k \in 1..Len(F) : j = n + Len(D) + k /\ fdstack'[j] = F[k]
  BY EnterStack
<1>16. Len(D) \in Nat
  BY DEF EnterIs, NewOnes
<1>17. OnThePath(q)'
  <2>1. \A j, k \in 1..(l + 1) : j < k => q[j] < q[k]
    <3>1. ASSUME NEW j \in 1..(l + 1), NEW k \in 1..(l + 1), j < k
          PROVE  q[j] < q[k]
      <4>1. j \in 1..l /\ q[j] = p[j]
        BY <1>7, <1>8, <3>1
      <4>2. CASE k \in 1..l
        BY <1>3, <1>8, <3>1, <4>1, <4>2 DEF OnThePath
      <4>3. CASE k = l + 1
        <5>1. p[j] \in 1..n /\ p[j] # n
          BY <1>3, <1>4, <4>1 DEF OnThePath
        <5>. QED  BY <1>2, <1>8, <4>1, <4>3, <5>1
      <4>. QED  BY <1>8, <4>2, <4>3
    <3>. QED  BY <3>1
  <2>2. ASSUME NEW k \in 1..(l + 1)
        PROVE  /\ q[k] \in 1..Len(fdstack') /\ fdstack'[q[k]] = DirHandle(pathstack'[k])
               /\ pathstack'[k] \in inumstack'
    <3>1. CASE k \in 1..l
      <4>1. p[k] \in 1..n /\ fdstack[p[k]] = DirHandle(pathstack[k]) /\ pathstack[k] \in inumstack
        BY <1>3, <3>1 DEF OnThePath
      <4>. QED  BY <1>1, <1>8, <1>9, <1>10, <3>1, <4>1
    <3>2. CASE k = l + 1
      BY <1>1, <1>2, <1>8, <1>9, <1>10, <3>2
    <3>. QED  BY <1>8, <3>1, <3>2
  <2>3. ASSUME NEW j \in 1..Len(fdstack'), Entered(fdstack[j])'
        PROVE  \E k \in 1..(l + 1) : q[k] = j
    <3>1. IsDir(fdstack'[j]) /\ fdstack'[j].addr \in inumstack'
      BY <2>3 DEF Entered
    <3>2. j \in 1..n /\ fdstack'[j] = fdstack[j]
      BY <1>12, <1>13, <1>15, <3>1
    <3>3. CASE fdstack[j].addr = a
      <4>1. fdstack[j] \in Handles
        BY <3>2 DEF ItTypes
      <4>2. fdstack[j] = DirHandle(a)
        BY <3>1, <3>2, <3>3, <4>1, KindsLemma
      <4>3. j = n
        BY <1>2, <1>3, <3>2, <4>2 DEF DirsOnce
      <4>. QED  BY <1>8, <4>3
    <3>4. CASE fdstack[j].addr # a
      <4>1. Entered(fdstack[j])
        BY <1>1, <3>1, <3>2, <3>4 DEF Entered
      <4>2. PICK k \in 1..l : p[k] = j
        BY <1>3, <3>2, <4>1 DEF OnThePath
      <4>. QED  BY <1>8, <4>2
    <3>. QED  BY <3>3, <3>4
  <2>. HIDE DEF l
  <2>. QED  BY <1>8, <1>9, <2>1, <2>2, <2>3 DEF OnThePath
<1>18. ASSUME NEW j \in 1..Len(fdstack'), ~Entered(fdstack[j])'
       PROVE  \E k \in 1..(l + 1) :
                /\ q[k] < j /\ \A m \in 1..(l + 1) : k < m => j < q[m]
                /\ Belongs(fdstack'[j], pathstack'[k])
  <2>1. CASE j \in 1..n /\ fdstack'[j] = fdstack[j]
    <3>1. ~Entered(fdstack[j]) /\ j # n
      BY <1>1, <1>2, <1>18, <2>1 DEF Entered
    <3>2. ~(pathstack = <<>> /\ fdstack[j] = DirHandle(vol.root))
      BY <1>2, <1>3, <1>5, <2>1, <3>1, HandleLemma DEF DirsOnce
    <3>3. ListedBefore(p, j, fdstack[j])
      BY <1>3, <2>1, <3>1, <3>2 DEF OffThePath
    <3>4. PICK k \in 1..l : p[k] < j /\ (\A m \in 1..l : k < m => j < p[m]) /\ Belongs(fdstack[j], pathstack[k])
      BY <3>3 DEF ListedBefore
    <3>5. k \in 1..(l + 1) /\ q[k] = p[k] /\ pathstack'[k] = pathstack[k]
      BY <1>8, <1>9
    <3>6. j < n
      BY <1>2, <2>1, <3>1
    <3>7. \A m \in 1..(l + 1) : k < m => j < q[m]
      BY <1>8, <3>4, <3>6
    <3>. QED  BY <2>1, <3>4, <3>5, <3>7
  <2>2. ASSUME j > n, Belongs(fdstack'[j], a)
        PROVE  \E k \in 1..(l + 1) :
                /\ q[k] < j /\ \A m \in 1..(l + 1) : k < m => j < q[m]
                /\ Belongs(fdstack'[j], pathstack'[k])
    <3>1. \A m \in 1..(l + 1) : ~(l + 1 < m)
      BY <1>7
    <3>2. q[l + 1] < j
      BY <1>2, <1>8, <2>2
    <3>. QED  BY <1>8, <1>9, <2>2, <3>1, <3>2
  <2>3. CASE \E k \in 1..Len(D) : j = n + k /\ fdstack'[j] = D[k]
    <3>1. PICK k \in 1..Len(D) : j = n + k /\ fdstack'[j] = D[k]
      BY <2>3
    <3>2. Belongs(fdstack'[j], a)
      BY <1>13, <1>14, <3>1 DEF Belongs
    <3>3. j > n
      BY <1>2, <3>1
    <3>. QED  BY <2>2, <3>2, <3>3
  <2>4. CASE \E k \in 1..Len(F) : j = n + Len(D) + k /\ fdstack'[j] = F[k]
    <3>1. PICK k \in 1..Len(F) : j = n + Len(D) + k /\ fdstack'[j] = F[k]
      BY <2>4
    <3>2. Belongs(fdstack'[j], a)
      BY <1>12, <3>1 DEF Belongs
    <3>3. j > n
      BY <1>2, <1>16, <3>1
    <3>. QED  BY <2>2, <3>2, <3>3
  <2>. QED  BY <1>15, <2>1, <2>3, <2>4
<1>19. OffThePath(q)'
  <2>1. \A h, b : Belongs(h, b) <=> (IsDir(h) /\ Lists(vol', b, h.addr)) \/ (IsFile(h) /\ h.dir = b)
    BY <1>1 DEF Belongs
  <2>2. ASSUME NEW j \in 1..Len(fdstack'), ~Entered(fdstack[j])'
        PROVE  ListedBefore(q, j, fdstack[j])'
    <3>1. PICK k \in 1..(l + 1) :
            /\ q[k] < j /\ \A m \in 1..(l + 1) : k < m => j < q[m]
            /\ Belongs(fdstack'[j], pathstack'[k])
      BY <1>18, <2>2
    <3>2. Belongs(fdstack[j], pathstack[k])'
      BY <2>1, <3>1 DEF Belongs
    <3>. HIDE DEF l
    <3>3. k \in 1..Len(q) /\ \A m \in 1..Len(q) : k < m => j < q[m]
      BY <1>8, <3>1
    <3>. QED  BY <3>1, <3>2, <3>3 DEF ListedBefore
  <2>. QED  BY <2>2 DEF OffThePath
<1>20. ASSUME NEW j \in 1..Len(fdstack'), IsDir(fdstack'[j])
       PROVE  \/ j \in 1..n /\ fdstack'[j] = fdstack[j]
              \/ \E k \in 1..Len(D) : j = n + k /\ fdstack'[j] = D[k]
  BY <1>12, <1>15, <1>20
<1>21. ASSUME NEW j \in 1..n, IsDir(fdstack[j]), NEW k \in 1..Len(D)
       PROVE  fdstack[j] # D[k]
  <2>1. SUFFICES ASSUME fdstack[j].addr = D[k].addr  PROVE FALSE
    OBVIOUS
  <2>2. PICK b \in inumstack : Lists(vol, b, D[k].addr)
    BY <1>3, <1>13, <1>21, <2>1 DEF DirsOnce
  <2>3. PICK i \in DirEntries(vol, b) : Listing(vol, b)[i] = SubDir(D[k].addr)
    BY <2>2 DEF Lists
  <2>4. idx[k] \in DirEntries(vol, a) /\ Listing(vol, a)[idx[k]] = Listing(vol, b)[i]
    BY <1>13, <2>3
  <2>5. a = b
    BY <1>1, <2>3, <2>4, TreeLemma
  <2>. QED  BY <1>1, <2>5
<1>22. ASSUME NEW j \in 1..Len(D), NEW k \in 1..Len(D), D[j] = D[k]
       PROVE  j = k
  <2>1. idx[j] = idx[k]
    BY <1>1, <1>13, <1>22, TreeLemma
  <2>. QED  BY <2>1 DEF EnterIs, NewOnes
<1>23. ASSUME NEW j \in 1..Len(fdstack'), NEW k \in 1..Len(fdstack'),
              IsDir(fdstack'[j]), fdstack'[j] = fdstack'[k]
       PROVE  j = k
  <2>1. CASE j \in 1..n /\ fdstack'[j] = fdstack[j]
    <3>1. k \in 1..n /\ fdstack'[k] = fdstack[k]
      BY <1>20, <1>21, <1>23, <2>1
    <3>. QED  BY <1>3, <1>23, <2>1, <3>1 DEF DirsOnce
  <2>2. CASE \E i \in 1..Len(D) : j = n + i /\ fdstack'[j] = D[i]
    <3>1. PICK i \in 1..Len(D) : j = n + i /\ fdstack'[j] = D[i]
      BY <2>2
    <3>2. PICK m \in 1..Len(D) : k = n + m /\ fdstack'[k] = D[m]
      BY <1>20, <1>21, <1>23, <3>1
    <3>3. i = m
      BY <1>22, <1>23, <3>1, <3>2
    <3>. QED  BY <3>1, <3>2, <3>3
  <2>. QED  BY <1>20, <1>23, <2>1, <2>2
<1>24. ASSUME NEW j \in 1..Len(fdstack'), IsDir(fdstack'[j])
       PROVE  fdstack'[j].addr = vol.root \/ \E b \in inumstack' : Lists(vol, b, fdstack'[j].addr)
  <2>1. CASE j \in 1..n /\ fdstack'[j] = fdstack[j]
    <3>1. fdstack[j].addr = vol.root \/ \E b \in inumstack : Lists(vol, b, fdstack[j].addr)
      BY <1>3, <1>24, <2>1 DEF DirsOnce
    <3>. QED  BY <1>1, <2>1, <3>1
  <2>2. CASE \E k \in 1..Len(D) : j = n + k /\ fdstack'[j] = D[k]
    BY <1>1, <1>14, <2>2
  <2>. QED  BY <1>20, <1>24, <2>1, <2>2
<1>25. DirsOnce'
  BY <1>1, <1>23, <1>24 DEF DirsOnce
<1>26. PathOfResult'
  BY <1>1, HandleLemma DEF PathOfResult, IsFile
<1>. QED  BY <1>1, <1>6, <1>17, <1>19, <1>25, <1>26 DEF Follows


\* A directory that was entered is taken off with its name, the path's last.
LEMMA ExitFollows ==
    ASSUME ItTypes, NEW p, Follows(p), ExitIs
    PROVE  \E q : Follows(q)'
<1>. DEFINE n == Len(fdstack)
            l == Len(p)
<1>1. /\ vol' = vol /\ inumstack' = inumstack /\ fdstack # <<>> /\ Entered(Top(fdstack))
      /\ fdstack' = PopOf(fdstack) /\ result' \in {None, Top(fdstack)} /\ IsDir(Top(fdstack))
  BY DEF ExitIs, Entered
<1>2. n \in Nat \ {0} /\ n \in 1..n /\ Top(fdstack) = fdstack[n]
  BY <1>1, TopLemma
<1>3. OnThePath(p) /\ OffThePath(p) /\ DirsOnce /\ IsPath(vol, pathstack)
  BY DEF Follows
<1>4. p \in Seq(Nat) /\ l \in Nat /\ l = Len(pathstack) /\ pathstack \in Seq(Addrs)
  BY <1>3 DEF OnThePath, ItTypes, TypeOK, Addrs
<1>5. l \in 1..l /\ p[l] = n
  <2>1. PICK k \in 1..l : p[k] = n
    BY <1>1, <1>2, <1>3 DEF OnThePath
  <2>2. l \in 1..l
    BY <1>4
  <2>3. p[l] \in 1..n /\ (k < l => p[k] < p[l])
    BY <1>3, <2>2 DEF OnThePath
  <2>4. ~(k < l)
    BY <1>2, <2>1, <2>3
  <2>5. k = l
    BY <1>4, <2>4
  <2>. QED  BY <2>1, <2>2, <2>5
<1>6. p # <<>> /\ pathstack # <<>>
  BY <1>4, <1>5
<1>. PICK q : q = PopOf(p)
  OBVIOUS
<1>7. /\ q \in Seq(Nat) /\ Len(q) = l - 1
      /\ \A k \in 1..(l - 1) : k \in 1..l /\ q[k] = p[k]
  BY <1>4, <1>6, PopLemma
<1>8. pathstack' = PopOf(pathstack)
  BY <1>6 DEF ExitIs
<1>9. /\ Len(pathstack') = l - 1 /\ IsPath(vol, pathstack')
      /\ \A k \in 1..(l - 1) : pathstack'[k] = pathstack[k]
  BY <1>3, <1>4, <1>6, <1>8, ShorterPath
<1>10. /\ Len(fdstack') = n - 1
       /\ \A k \in 1..(n - 1) : k \in 1..n /\ k # n /\ fdstack'[k] = fdstack[k]
  <2>1. /\ Len(fdstack') = n - 1
        /\ \A k \in 1..Len(fdstack') : k \in 1..n /\ k # n /\ fdstack'[k] = fdstack[k]
    BY <1>1, PopKeeps
  <2>. QED  BY <2>1
<1>. HIDE DEF n, l
<1>11. \A k \in 1..l : k \in 1..(l - 1) \/ k = l
  BY <1>4
<1>12. OnThePath(q)'
  <2>1. \A j, k \in 1..(l - 1) : j < k => q[j] < q[k]
    <3>1. \A j, k \in 1..l : j < k => p[j] < p[k]
      BY <1>3 DEF OnThePath, l
    <3>. QED  BY <1>7, <3>1
  <2>2. ASSUME NEW k \in 1..(l - 1)
        PROVE  /\ q[k] \in 1..(n - 1) /\ fdstack'[q[k]] = DirHandle(pathstack'[k])
               /\ pathstack'[k] \in inumstack'
    <3>1. k \in 1..l /\ k < l
      BY <1>4
    <3>2. p[k] \in 1..n /\ fdstack[p[k]] = DirHandle(pathstack[k]) /\ pathstack[k] \in inumstack /\ p[k] < p[l]
      BY <1>3, <1>5, <3>1 DEF OnThePath, l, n
    <3>3. p[k] \in 1..(n - 1)
      BY <1>2, <1>5, <3>2
    <3>. QED  BY <1>1, <1>7, <1>9, <1>10, <3>2, <3>3
  <2>3. ASSUME NEW j \in 1..(n - 1), Entered(fdstack[j])'
        PROVE  \E k \in 1..(l - 1) : q[k] = j
    <3>1. Entered(fdstack[j]) /\ j \in 1..n /\ j # n
      BY <1>1, <1>10, <2>3 DEF Entered
    <3>2. PICK k \in 1..l : p[k] = j
      BY <1>3, <3>1 DEF OnThePath, l, n
    <3>3. k \in 1..(l - 1)
      BY <1>5, <1>11, <3>1, <3>2
    <3>. QED  BY <1>7, <3>2, <3>3
  <2>. QED  BY <1>7, <1>9, <1>10, <2>1, <2>2, <2>3 DEF OnThePath
<1>13. OffThePath(q)'
  <2>1. ASSUME NEW j \in 1..(n - 1), ~Entered(fdstack[j])'
        PROVE  ListedBefore(q, j, fdstack[j])'
    <3>1. ~Entered(fdstack[j]) /\ j \in 1..n /\ j # n
      BY <1>1, <1>10, <2>1 DEF Entered
    <3>2. ListedBefore(p, j, fdstack[j])
      BY <1>3, <1>6, <3>1 DEF OffThePath, n
    <3>3. PICK k \in 1..l : /\ p[k] < j /\ \A m \in 1..l : k < m => j < p[m]
                            /\ Belongs(fdstack[j], pathstack[k])
      BY <3>2 DEF ListedBefore, l
    <3>4. k # l
      BY <1>2, <1>5, <3>1, <3>3
    <3>5. k \in 1..(l - 1)
      BY <1>11, <3>4
    <3>6. q[k] < j /\ \A m \in 1..(l - 1) : k < m => j < q[m]
      BY <1>7, <3>3, <3>5
    <3>7. Belongs(fdstack[j], pathstack[k])'
      BY <1>1, <1>9, <1>10, <3>3, <3>5 DEF Belongs
    <3>. QED  BY <1>7, <3>5, <3>6, <3>7 DEF ListedBefore
  <2>. QED  BY <1>10, <2>1 DEF OffThePath
<1>14. DirsOnce'
  <2>1. \A j \in 1..n : IsDir(fdstack[j]) =>
          /\ \A k \in 1..n : fdstack[j] = fdstack[k] => j = k
          /\ fdstack[j].addr = vol.root \/ \E a \in inumstack : Lists(vol, a, fdstack[j].addr)
    BY <1>3 DEF DirsOnce, n
  <2>. QED  BY <1>1, <1>10, <2>1 DEF DirsOnce
<1>15. PathOfResult'
  <2>1. ~IsFile(result')
    BY <1>1, HandleLemma DEF IsFile, IsDir
  <2>. QED  BY <2>1 DEF PathOfResult
<1>. QED  BY <1>1, <1>9, <1>12, <1>13, <1>14, <1>15 DEF Follows

\* A file is taken off, which is in the last directory of the path.
LEMMA ReturnFollows ==
    ASSUME ItTypes, NEW p, Follows(p), ReturnFile
    PROVE  Follows(p)'
<1>. DEFINE n == Len(fdstack)
            l == Len(p)
<1>1. /\ vol' = vol /\ inumstack' = inumstack /\ pathstack' = pathstack
      /\ fdstack # <<>> /\ fdstack' = PopOf(fdstack) /\ result' = Top(fdstack) /\ IsFile(Top(fdstack))
  BY ReturnFileLemma
<1>2. n \in Nat \ {0} /\ n \in 1..n /\ Top(fdstack) = fdstack[n]
  BY <1>1, TopLemma
<1>3. OnThePath(p) /\ OffThePath(p) /\ DirsOnce /\ IsPath(vol, pathstack)
  BY DEF Follows
<1>4. ~IsDir(Top(fdstack)) /\ ~Entered(Top(fdstack))
  BY <1>1 DEF IsDir, IsFile, Entered
<1>5. /\ \A k \in 1..l : p[k] # n
      /\ \/ pathstack = <<>> /\ Top(fdstack) = DirHandle(vol.root)
         \/ pathstack # <<>> /\ Belongs(Top(fdstack), Top(pathstack))
  BY <1>1, <1>3, <1>4, TopIsListed
<1>6. Top(fdstack) # DirHandle(vol.root)
  BY <1>4, HandleLemma DEF IsDir
<1>7. pathstack # <<>> /\ Top(fdstack).dir = Top(pathstack)
  BY <1>4, <1>5, <1>6 DEF Belongs
<1>8. /\ Len(fdstack') = n - 1
      /\ \A k \in 1..(n - 1) : k \in 1..n /\ k # n /\ fdstack'[k] = fdstack[k]
  <2>1. /\ Len(fdstack') = n - 1
        /\ \A k \in 1..Len(fdstack') : k \in 1..n /\ k # n /\ fdstack'[k] = fdstack[k]
    BY <1>1, PopKeeps
  <2>. QED  BY <2>1
<1>9. /\ p \in Seq(Nat) /\ l = Len(pathstack)
      /\ \A j, k \in 1..l : j < k => p[j] < p[k]
      /\ \A k \in 1..l : /\ p[k] \in 1..n /\ fdstack[p[k]] = DirHandle(pathstack[k])
                         /\ pathstack[k] \in inumstack
      /\ \A j \in 1..n : Entered(fdstack[j]) => \E k \in 1..l : p[k] = j
  BY <1>3 DEF OnThePath
<1>10. \A j \in 1..n : ~Entered(fdstack[j]) => ListedBefore(p, j, fdstack[j])
  BY <1>3, <1>7 DEF OffThePath
<1>11. \A j \in 1..n : IsDir(fdstack[j]) =>
          /\ \A k \in 1..n : fdstack[j] = fdstack[k] => j = k
          /\ fdstack[j].addr = vol.root \/ \E a \in inumstack : Lists(vol, a, fdstack[j].addr)
  BY <1>3 DEF DirsOnce
<1>. HIDE DEF n
<1>12. OnThePath(p)'
  <2>1. ASSUME NEW k \in 1..l
        PROVE  p[k] \in 1..(n - 1) /\ fdstack'[p[k]] = DirHandle(pathstack'[k]) /\ pathstack'[k] \in inumstack'
    <3>1. p[k] \in 1..n /\ p[k] # n /\ fdstack[p[k]] = DirHandle(pathstack[k]) /\ pathstack[k] \in inumstack
      BY <1>5, <1>9
    <3>2. p[k] \in 1..(n - 1)
      BY <1>2, <3>1
    <3>. QED  BY <1>1, <1>8, <3>1, <3>2
  <2>2. ASSUME NEW j \in 1..(n - 1), Entered(fdstack[j])'
        PROVE  \E k \in 1..l : p[k] = j
    <3>1. Entered(fdstack[j]) /\ j \in 1..n
      BY <1>1, <1>8, <2>2 DEF Entered
    <3>. QED  BY <1>9, <3>1
  <2>. HIDE DEF l
  <2>. QED  BY <1>1, <1>8, <1>9, <2>1, <2>2 DEF OnThePath, l
<1>13. OffThePath(p)'
  <2>1. ASSUME NEW j \in 1..(n - 1), ~Entered(fdstack[j])'
        PROVE  ListedBefore(p, j, fdstack[j])'
    <3>1. ~Entered(fdstack[j]) /\ j \in 1..n
      BY <1>1, <1>8, <2>1 DEF Entered
    <3>2. ListedBefore(p, j, fdstack[j])
      BY <1>10, <3>1
    <3>. QED  BY <1>1, <1>8, <3>2 DEF ListedBefore, Belongs
  <2>. QED  BY <1>8, <2>1 DEF OffThePath
<1>14. DirsOnce'
  BY <1>1, <1>8, <1>11 DEF DirsOnce
<1>15. PathOfResult'
  BY <1>1, <1>7 DEF PathOfResult
<1>. QED  BY <1>1, <1>3, <1>12, <1>13, <1>14, <1>15 DEF Follows


-------------------------------------------------------------------------------
(* The inductive invariant and the steps of the volume iterator.           *)

ItInv == ItTypes /\ FilesOnce /\ DirsKept /\ PathKept

\* An iterator as it is made for a volume.
Fresh(v) ==
    /\ vol = v /\ fdstack = StartOf(v) /\ pathstack = <<>> /\ inumstack = {}
    /\ result = None /\ files = NoFilesYet(v)

\* A directory number is one, or that of a directory not opened.
LEMMA INumToDirLemma ==
    ASSUME NEW v \in VolumeType, NEW a
    PROVE  /\ INumToDir(v, a) \in Handles /\ IsDir(INumToDir(v, a)) /\ ~IsFile(INumToDir(v, a))
           /\ INumToDir(v, a).addr \in Addrs
<1>1. PICK b \in Addrs : INumToDir(v, a) = DirHandle(b)
  BY DEF INumToDir, Addrs
<1>. QED  BY <1>1, HandleLemma DEF Handles, IsDir, IsFile

\* An iterator whose root is still to be entered.
LEMMA FreshLemma == \A v \in VolumeType : Fresh(v) => ItInv
<1>. SUFFICES ASSUME NEW v \in VolumeType, Fresh(v)
              PROVE  ItInv
  OBVIOUS
<1>. PICK h : h = INumToDir(v, v.root)
  OBVIOUS
<1>1. h \in Handles /\ IsDir(h) /\ ~IsFile(h) /\ h.addr \in Addrs
  BY INumToDirLemma
<1>2. /\ vol = v /\ fdstack = <<h>> /\ pathstack = <<>> /\ inumstack = {}
      /\ result = None /\ files = [e \in FilesIn(v) |-> 0]
  BY DEF Fresh, StartOf, NoFilesYet, FilesIn
<1>3. /\ fdstack \in Seq(Handles) /\ Len(fdstack) = 1 /\ fdstack[1] = h
      /\ DOMAIN fdstack = 1..1 /\ \A k \in 1..1 : k = 1 /\ fdstack[k] = h
  BY <1>1, <1>2
<1>4. ItTypes
  <2>1. IsHandle(h)
    BY <1>1 DEF IsHandle, IsDir, Addrs
  <2>2. files \in [FilesIn(vol) -> Nat]
    BY <1>2
  <2>3. pathstack \in Seq(Inodes \cup {NoAddr})
    BY <1>2
  <2>. QED  BY <1>2, <1>3, <2>1, <2>2, <2>3 DEF ItTypes, TypeOK, FilesIn
<1>5. FilesOnce
  BY <1>1, <1>2, <1>3 DEF FilesOnce
<1>6. DirsKept
  <2>1. OnStack(h)
    BY <1>3 DEF OnStack
  <2>. QED  BY <1>1, <1>2, <1>3, <2>1 DEF DirsKept
<1>7. PathKept
  <2>1. SUFFICES ASSUME IsTree(v)  PROVE \E p : Follows(p)
    BY <1>2 DEF PathKept
  <2>2. h = DirHandle(v.root) /\ h.addr = v.root
    BY <2>1, HandleLemma DEF IsTree, INumToDir
  <2>. PICK p : p = <<>>
    OBVIOUS
  <2>3. p \in Seq(Nat) /\ Len(p) = 0 /\ Len(pathstack) = 0
    BY <1>2
  <2>4. OnThePath(p)
    BY <1>2, <2>3 DEF OnThePath, Entered
  <2>5. OffThePath(p)
    BY <1>2, <1>3, <2>2 DEF OffThePath
  <2>6. DirsOnce
    BY <1>2, <1>3, <2>2 DEF DirsOnce
  <2>7. IsPath(vol, pathstack)
    BY <1>2, <2>3 DEF IsPath
  <2>8. PathOfResult
    BY <1>2, HandleLemma DEF PathOfResult, IsFile
  <2>9. Follows(p)
    BY <2>4, <2>5, <2>6, <2>7, <2>8 DEF Follows
  <2>. QED  BY <2>9
<1>. QED  BY <1>4, <1>5, <1>6, <1>7 DEF ItInv

\* The same of the next state.
LEMMA FreshNext == \A v \in VolumeType : Fresh(v)' => ItInv'
<1>. DEFINE P == \A v \in VolumeType : Fresh(v) => ItInv
<1>1. P
  BY FreshLemma
<1>. HIDE DEF P
<1>2. P'
  BY <1>1, PTL
<1>. QED  BY <1>2 DEF P

LEMMA NoVolumeLemma == NoVolume \in VolumeType /\ ~IsTree(NoVolume) /\ FilesIn(NoVolume) = {}
<1>1. NoVolume \in VolumeType
  <2>1. [a \in Inodes |-> <<>>] \in [Inodes -> Seq(Entries)]
    OBVIOUS
  <2>. QED  BY <2>1 DEF NoVolume, VolumeType
<1>2. ~IsTree(NoVolume)
  BY InodesAssumption DEF IsTree, NoVolume
<1>3. \A a : FileEntries(NoVolume, a) = {}
  <2>1. \A a : Listing(NoVolume, a) = <<>>
    BY DEF Listing, NoVolume
  <2>. QED  BY <2>1 DEF FileEntries
<1>4. FilesIn(NoVolume) = {}
  BY <1>3 DEF FilesIn
<1>. QED  BY <1>1, <1>2, <1>4

\* Before the first volume there is no iterator, and nothing on its stacks.
LEMMA InitLemma ==
    ASSUME InitVolumes
    PROVE  ItInv
<1>1. /\ vol = NoVolume /\ fdstack = <<>> /\ pathstack = <<>> /\ inumstack = {}
      /\ result = None /\ files = [e \in FilesIn(NoVolume) |-> 0]
  BY DEF InitVolumes, NoFilesYet, FilesIn
<1>2. /\ vol \in VolumeType /\ ~IsTree(vol) /\ FilesIn(vol) = {} /\ fdstack \in Seq(Handles)
      /\ Len(fdstack) = 0 /\ DOMAIN fdstack = {}
  BY <1>1, NoVolumeLemma
<1>3. ItTypes
  <2>1. files \in [FilesIn(vol) -> Nat]
    BY <1>1
  <2>2. pathstack \in Seq(Inodes \cup {NoAddr})
    BY <1>1
  <2>. QED  BY <1>1, <1>2, <2>1, <2>2 DEF ItTypes, TypeOK, FilesIn
<1>4. FilesOnce
  BY <1>2 DEF FilesOnce
<1>5. DirsKept
  BY <1>1 DEF DirsKept
<1>. QED  BY <1>2, <1>3, <1>4, <1>5 DEF ItInv, PathKept

\* A step that only takes the result back changes nothing.
LEMMA IdleLemma ==
    ASSUME ItInv, vol' = vol, fdstack' = fdstack, pathstack' = pathstack, inumstack' = inumstack,
           files' = files, result' = result \/ result' = None
    PROVE  ItInv'
<1>1. None' = None /\ ~IsFile(None)
  BY HandleLemma DEF None, IsFile
<1>2. ItTypes'
  <2>1. \A h : IsHandle(h) <=>
               \/ h.type = "dir" /\ h.addr \in Inodes \cup {NoAddr}
               \/ h.type = "file" /\ h.dir \in inumstack' /\ h.nr \in FileEntries(vol', h.dir)
    BY DEF IsHandle
  <2>2. \A k \in DOMAIN fdstack' : IsHandle(fdstack[k])'
    BY <2>1 DEF ItInv, ItTypes, TypeOK, IsHandle
  <2>3. (result = None \/ IsHandle(result))'
    BY <1>1, <2>1 DEF ItInv, ItTypes, TypeOK, IsHandle
  <2>. QED  BY <2>2, <2>3 DEF ItInv, ItTypes, TypeOK
<1>3. FilesOnce'
  BY DEF ItInv, FilesOnce, OnStack
<1>4. DirsKept'
  BY DEF ItInv, DirsKept, OnStack
<1>5. PathKept'
  <2>1. SUFFICES ASSUME IsTree(vol)  PROVE \E p : Follows(p)'
    BY DEF PathKept
  <2>2. PICK p : Follows(p)
    BY <2>1 DEF ItInv, PathKept
  <2>3. OnThePath(p)'
    BY <2>2 DEF Follows, OnThePath, Entered
  <2>4. OffThePath(p)'
    BY <2>2 DEF Follows, OffThePath, Entered, ListedBefore, Belongs
  <2>5. DirsOnce'
    BY <2>2 DEF Follows, DirsOnce
  <2>6. PathOfResult'
    BY <1>1, <2>2 DEF Follows, PathOfResult
  <2>7. IsPath(vol, pathstack)'
    BY <2>2 DEF Follows
  <2>8. Follows(p)'
    BY <2>3, <2>4, <2>5, <2>6, <2>7 DEF Follows
  <2>. QED  BY <2>8
<1>. QED  BY <1>2, <1>3, <1>4, <1>5 DEF ItInv

\* Every step within a volume keeps the invariant.
LEMMA EnterKeepsInv ==
    ASSUME ItInv, Enter
    PROVE  ItInv'
<1>1. PICK a, D, idx, F : EnterIs(a, D, idx, F)
  BY EnterLemma DEF ItInv
<1>2. ItTypes' /\ FilesOnce' /\ DirsKept'
  BY <1>1, EnterTypes, EnterFiles, EnterDirs DEF ItInv
<1>3. PathKept'
  <2>1. SUFFICES ASSUME IsTree(vol')  PROVE \E q : Follows(q)'
    BY DEF PathKept
  <2>2. vol' = vol
    BY DEF Enter
  <2>3. PICK p : Follows(p)
    BY <2>1, <2>2 DEF ItInv, PathKept
  <2>. QED  BY <1>1, <2>1, <2>2, <2>3, EnterFollows DEF ItInv
<1>. QED  BY <1>2, <1>3 DEF ItInv

LEMMA ExitKeepsInv ==
    ASSUME ItInv, ExitIs
    PROVE  ItInv'
<1>1. ItTypes' /\ FilesOnce' /\ DirsKept'
  BY ExitTypes, ExitFiles, ExitDirs DEF ItInv
<1>2. PathKept'
  <2>1. SUFFICES ASSUME IsTree(vol')  PROVE \E q : Follows(q)'
    BY DEF PathKept
  <2>2. PICK p : Follows(p)
    BY <2>1 DEF ItInv, PathKept, ExitIs
  <2>. QED  BY <2>2, ExitFollows DEF ItInv
<1>. QED  BY <1>1, <1>2 DEF ItInv

LEMMA ReturnKeepsInv ==
    ASSUME ItInv, ReturnFile
    PROVE  ItInv'
<1>1. ItTypes' /\ FilesOnce' /\ DirsKept'
  BY ReturnTypes, ReturnFiles, ReturnDirs DEF ItInv
<1>2. PathKept'
  <2>1. SUFFICES ASSUME IsTree(vol')  PROVE \E q : Follows(q)'
    BY DEF PathKept
  <2>2. PICK p : Follows(p)
    BY <2>1 DEF ItInv, PathKept, ReturnFile
  <2>. QED  BY <2>2, ReturnFollows DEF ItInv
<1>. QED  BY <1>1, <1>2 DEF ItInv

\* What a last call leaves on the stack.
LEMMA LastCallLemma ==
    ASSUME ItInv, LastCall, fdstack # <<>>
    PROVE  /\ Len(fdstack) = 1 /\ IsDir(Top(fdstack)) /\ Top(fdstack).addr \in inumstack
           /\ PopOf(fdstack) = <<>>
<1>1. Len(fdstack) = 1 /\ (Top(fdstack).type = "dir" => Top(fdstack).addr \in inumstack)
  BY DEF LastCall
<1>2. Top(fdstack) = fdstack[1] /\ PopOf(fdstack) \in Seq(Handles) /\ Len(PopOf(fdstack)) = 0
  BY <1>1, TopLemma DEF ItInv
<1>3. IsDir(Top(fdstack))
  BY <1>2 DEF ItInv, DirsKept
<1>. QED  BY <1>1, <1>2, <1>3 DEF IsDir

LEMMA FinishKeepsInv ==
    ASSUME ItInv, Finish
    PROVE  ItInv'
<1>1. /\ LastCall /\ fdstack' = <<>> /\ result' = None
      /\ vol' = vol /\ inumstack' = inumstack /\ files' = files
      /\ pathstack' = IF fdstack # <<>> /\ Top(fdstack).type = "dir" /\ pathstack # <<>>
                      THEN PopOf(pathstack) ELSE pathstack
  BY DEF Finish
<1>2. CASE fdstack = <<>>
  <2>1. fdstack' = fdstack /\ pathstack' = pathstack
    BY <1>1, <1>2
  <2>. QED  BY <1>1, <2>1, IdleLemma
<1>3. CASE fdstack # <<>>
  <2>1. IsDir(Top(fdstack)) /\ Top(fdstack).addr \in inumstack /\ fdstack' = PopOf(fdstack)
    BY <1>1, <1>3, LastCallLemma
  <2>2. pathstack' = IF pathstack = <<>> THEN <<>> ELSE PopOf(pathstack)
    BY <1>1, <1>3, <2>1 DEF IsDir
  <2>3. ExitIs
    BY <1>1, <1>3, <2>1, <2>2 DEF ExitIs
  <2>. QED  BY <2>3, ExitKeepsInv
<1>. QED  BY <1>2, <1>3

-------------------------------------------------------------------------------
(* The list of partitions.                                                 *)

Parts == [start : Nat, len : Nat, flags : {"alloc", "unalloc", "meta"}, addr : Nat]

\* By start, and numbered from 0 on.
Ordered(l) ==
    /\ \A i \in 1..Len(l) : l[i].addr = i - 1
    /\ \A i, j \in 1..Len(l) : i <= j => l[i].start <= l[j].start

\* Two that differ in their number at most.
Same(p, q) == p.start = q.start /\ p.len = q.len /\ p.flags = q.flags

\* m is l with p put in at k.
Placed(l, p, k, m) ==
    /\ k \in 1..(Len(l) + 1)
    /\ m \in Seq(Parts) /\ Len(m) = Len(l) + 1
    /\ \A j \in 1..Len(m) : m[j].addr = j - 1
    /\ Same(m[k], p)
    /\ \A j \in 1..Len(l) : j < k =>
        j \in 1..Len(m) /\ Same(m[j], l[j]) /\ l[j].start <= p.start
    /\ \A j \in 1..Len(l) : j >= k =>
        j + 1 \in 1..Len(m) /\ Same(m[j + 1], l[j]) /\ l[j].start > p.start
    /\ \A j \in 1..Len(m) : j = k \/ (j < k /\ j \in 1..Len(l)) \/ (j > k /\ j - 1 \in 1..Len(l) /\ j - 1 >= k)

\* Finite sets of numbers that are not empty have the members Min and Max choose.
LEMMA MinLemma ==
    ASSUME NEW S \in SUBSET Nat, S # {}
    PROVE  Min(S) \in S /\ \A m \in S : Min(S) <= m
<1>1. \E n \in S : \A m \in S : n <= m
  BY LeastNumber
<1>. QED  BY <1>1 DEF Min

\* The greatest of the numbers up to n in a set.
LEMMA MaxLemma ==
    ASSUME NEW b \in Nat, NEW S \in SUBSET (0..b), S # {}
    PROVE  Max(S) \in S /\ \A m \in S : m <= Max(S)
<1>. DEFINE U == {n \in 0..b : \A m \in S : m <= n}
<1>1. U \in SUBSET Nat /\ b \in U
  OBVIOUS
<1>2. PICK n \in U : \A m \in U : n <= m
  BY <1>1, LeastNumber
<1>3. n \in S
  <2>1. SUFFICES ASSUME n \notin S  PROVE FALSE
    OBVIOUS
  <2>2. n \in Nat /\ \A m \in S : m \in Nat /\ m <= n /\ m # n
    BY <2>1
  <2>3. PICK e \in S : TRUE
    OBVIOUS
  <2>4. e \in Nat /\ e < n
    BY <2>2
  <2>5. n - 1 \in U
    BY <2>2, <2>4
  <2>. QED  BY <1>2, <2>2, <2>5
<1>4. \A m \in S : m <= n
  OBVIOUS
<1>. QED  BY <1>3, <1>4 DEF Max

\* What the parts of a list are made of.
LEMMA PartLemma ==
    /\ \A p \in Parts : p.start \in Nat /\ p.len \in Nat /\ p.addr \in Nat
    /\ \A p \in Parts, a \in Nat :
        /\ [p EXCEPT !.addr = a] \in Parts /\ [p EXCEPT !.addr = a].addr = a
        /\ Same([p EXCEPT !.addr = a], p)
    /\ \A s \in Nat, n \in Nat, f \in {"alloc", "unalloc", "meta"} :
        /\ Part(s, n, f) \in Parts
        /\ Part(s, n, f).start = s /\ Part(s, n, f).len = n /\ Part(s, n, f).flags = f
<1>1. \A p \in Parts : p.start \in Nat /\ p.len \in Nat /\ p.addr \in Nat
  BY DEF Parts
<1>2. ASSUME NEW p \in Parts, NEW a \in Nat
      PROVE  /\ [p EXCEPT !.addr = a] \in Parts /\ [p EXCEPT !.addr = a].addr = a
             /\ Same([p EXCEPT !.addr = a], p)
  BY DEF Parts, Same
<1>3. ASSUME NEW s \in Nat, NEW n \in Nat, NEW f \in {"alloc", "unalloc", "meta"}
      PROVE  /\ Part(s, n, f) \in Parts
             /\ Part(s, n, f).start = s /\ Part(s, n, f).len = n /\ Part(s, n, f).flags = f
  BY DEF Part, Parts
<1>. QED  BY <1>1, <1>2, <1>3

\* Where Added puts a partition, and what it does to the others.
LEMMA AddedLemma ==
    ASSUME NEW l \in Seq(Parts), Ordered(l), NEW p \in Parts
    PROVE  \E k : Placed(l, p, k, Added(l, p))
<1>. DEFINE n == Len(l)
            behind == {i \in DOMAIN l : l[i].start > p.start}
            k == IF behind = {} THEN n + 1 ELSE Min(behind)
            at == IF k > 1 THEN l[k - 1].addr + 1 ELSE IF l = <<>> THEN 0 ELSE l[1].addr
            front == SubSeq(l, 1, k - 1)
            mid == <<[p EXCEPT !.addr = at]>>
            back == [i \in 1..(n - k + 1) |-> [l[k + i - 1] EXCEPT !.addr = @ + 1]]
            m == Added(l, p)
<1>1. n \in Nat /\ DOMAIN l = 1..n /\ \A i \in 1..n : l[i] \in Parts /\ l[i].start \in Nat /\ l[i].addr = i - 1
  BY PartLemma DEF Ordered
<1>2. p.start \in Nat
  BY PartLemma
<1>3. m = front \o mid \o back
  BY DEF Added
<1>4. l = <<>> <=> n = 0
  OBVIOUS
<1>. HIDE DEF n, m
<1>5. /\ k \in 1..(n + 1)
      /\ \A j \in 1..n : j < k => l[j].start <= p.start
      /\ \A j \in 1..n : j >= k => l[j].start > p.start
  <2>1. behind \in SUBSET Nat /\ behind \in SUBSET (1..n)
    BY <1>1
  <2>2. CASE behind = {}
    BY <1>1, <1>2, <2>2
  <2>3. CASE behind # {}
    <3>. PICK b : b = Min(behind)
      OBVIOUS
    <3>1. k = b /\ b \in behind /\ \A i \in behind : b <= i
      BY <2>1, <2>3, MinLemma
    <3>2. b \in 1..n /\ l[b].start > p.start
      BY <1>1, <3>1
    <3>3. ASSUME NEW j \in 1..n, j < b  PROVE l[j].start <= p.start
      <4>1. l[j].start > p.start => j \in behind
        BY <1>1
      <4>2. j \in behind => b <= j
        BY <3>1
      <4>3. ~(b <= j)
        BY <1>1, <3>2, <3>3
      <4>4. l[j].start \in Nat
        BY <1>1
      <4>. QED  BY <1>2, <4>1, <4>2, <4>3, <4>4
    <3>4. ASSUME NEW j \in 1..n, j >= b  PROVE l[j].start > p.start
      <4>1. l[b].start <= l[j].start
        BY <3>2, <3>4 DEF Ordered, n
      <4>. QED  BY <1>1, <1>2, <3>2, <4>1
    <3>5. b \in 1..(n + 1)
      BY <1>1, <3>2
    <3>. HIDE DEF k
    <3>. QED  BY <3>1, <3>3, <3>4, <3>5
  <2>. QED  BY <2>2, <2>3
<1>. HIDE DEF k
<1>6. at = k - 1
  <2>1. k > 1 => l[k - 1].addr = k - 2
    <3>1. k > 1 => k - 1 \in 1..n /\ (k - 1) - 1 = k - 2
      BY <1>1, <1>5
    <3>. QED  BY <1>1, <3>1
  <2>2. n # 0 => l[1].addr = 0
    BY <1>1
  <2>. QED  BY <1>1, <1>4, <1>5, <2>1, <2>2
<1>. HIDE DEF at
<1>7. /\ mid \in Seq(Parts) /\ Len(mid) = 1 /\ mid[1].addr = k - 1 /\ Same(mid[1], p)
  <2>1. at \in Nat
    BY <1>1, <1>5, <1>6
  <2>. PICK x : x = [p EXCEPT !.addr = at]
    OBVIOUS
  <2>2. x \in Parts /\ x.addr = at /\ Same(x, p)
    BY <2>1, PartLemma
  <2>3. mid = <<x>>
    OBVIOUS
  <2>. HIDE DEF mid
  <2>4. mid \in Seq(Parts) /\ Len(mid) = 1 /\ mid[1] = x
    BY <2>2, <2>3
  <2>. QED  BY <1>6, <2>2, <2>4
<1>8. front \in Seq(Parts) /\ Len(front) = k - 1 /\ \A j \in 1..(k - 1) : front[j] = l[j] /\ j \in 1..n
  <2>1. 1 \in Int /\ k - 1 \in Int /\ \A j \in 1..(k - 1) : j \in 1..n /\ l[j] \in Parts
    BY <1>1, <1>5
  <2>2. /\ front \in Seq(Parts)
        /\ Len(front) = IF 1 <= k - 1 THEN (k - 1) - 1 + 1 ELSE 0
        /\ \A j \in 1..((k - 1) - 1 + 1) : front[j] = l[1 + j - 1]
    BY ONLY <2>1, SubSeqProperties
  <2>3. (k - 1) - 1 + 1 = k - 1 /\ \A j \in 1..(k - 1) : 1 + j - 1 = j
    BY <1>1, <1>5
  <2>. QED  BY <1>1, <1>5, <2>1, <2>2, <2>3
<1>9. \A i \in 1..(n - k + 1) : k + i - 1 \in 1..n /\ l[k + i - 1].addr + 1 = k + i - 1
  BY <1>1, <1>5
<1>10. ASSUME NEW i \in 1..(n - k + 1)
       PROVE  /\ back[i] \in Parts /\ back[i].addr = k + i - 1
              /\ Same(back[i], l[k + i - 1])
  <2>1. l[k + i - 1] \in Parts /\ l[k + i - 1].addr + 1 = k + i - 1 /\ k + i - 1 \in Nat
    BY <1>1, <1>5, <1>9
  <2>. PICK x : x = l[k + i - 1]
    OBVIOUS
  <2>. PICK a : a = k + i - 1
    OBVIOUS
  <2>2. x \in Parts /\ a \in Nat /\ back[i] = [x EXCEPT !.addr = a]
    BY <2>1
  <2>. PICK y : y = [x EXCEPT !.addr = a]
    OBVIOUS
  <2>3. y \in Parts /\ y.addr = a /\ Same(y, x)
    BY <2>2, PartLemma
  <2>. HIDE DEF back
  <2>. QED  BY <2>2, <2>3
<1>11. n - k + 1 \in Nat
  BY <1>1, <1>5
<1>12. back \in Seq(Parts) /\ Len(back) = n - k + 1
  <2>. PICK r : r = n - k + 1
    OBVIOUS
  <2>1. back = [i \in 1..r |-> back[i]] /\ \A i \in 1..r : back[i] \in Parts
    BY <1>10
  <2>2. r \in Nat
    BY <1>11
  <2>. HIDE DEF back
  <2>3. back \in [1..r -> Parts]
    BY <2>1
  <2>4. back \in Seq(Parts)
    BY <2>2, <2>3, SeqDef
  <2>. QED  BY <2>2, <2>3, <2>4
<1>. HIDE DEF front, mid, back
<1>13. m \in Seq(Parts) /\ Joined(m, front, mid, back)
  BY <1>3, <1>7, <1>8, <1>12, JoinedLemma
<1>14. Len(m) = n + 1
  BY <1>1, <1>5, <1>7, <1>8, <1>12, <1>13 DEF Joined
<1>15. \A j \in 1..(k - 1) : j \in 1..(n + 1) /\ m[j] = l[j]
  BY <1>8, <1>13, <1>14 DEF Joined
<1>16. m[k] = mid[1] /\ k \in 1..(n + 1)
  <2>1. 1 \in 1..Len(mid) /\ Len(front) + 1 = k
    BY <1>1, <1>5, <1>7, <1>8
  <2>. QED  BY <1>5, <1>13, <2>1 DEF Joined
<1>17. ASSUME NEW j \in 1..n, j >= k
       PROVE  j + 1 \in 1..(n + 1) /\ Same(m[j + 1], l[j]) /\ m[j + 1].addr = j
  <2>. PICK i : i = j - k + 1
    OBVIOUS
  <2>1. i \in 1..Len(back) /\ Len(front) + Len(mid) + i = j + 1 /\ k + i - 1 = j
    BY <1>1, <1>5, <1>7, <1>8, <1>12, <1>17
  <2>2. m[j + 1] = back[i]
    BY <1>13, <2>1 DEF Joined
  <2>3. i \in 1..(n - k + 1)
    BY <1>12, <2>1
  <2>4. back[i].addr = k + i - 1 /\ Same(back[i], l[k + i - 1])
    BY <1>10, <2>3
  <2>5. j + 1 \in 1..(n + 1)
    BY <1>1
  <2>. QED  BY <2>1, <2>2, <2>4, <2>5
<1>18. ASSUME NEW j \in 1..(n + 1)
       PROVE  j = k \/ (j < k /\ j \in 1..n) \/ (j > k /\ j - 1 \in 1..n /\ j - 1 >= k)
  BY <1>1, <1>5
<1>19. ASSUME NEW j \in 1..(n + 1)
       PROVE  m[j].addr = j - 1
  <2>1. CASE j = k
    BY <1>7, <1>16, <2>1
  <2>2. CASE j < k
    <3>1. j \in 1..(k - 1) /\ j \in 1..n
      BY <1>5, <1>18, <2>2
    <3>. QED  BY <1>1, <1>15, <3>1
  <2>3. CASE j > k
    <3>1. j - 1 \in 1..n /\ j - 1 >= k /\ (j - 1) + 1 = j
      BY <1>5, <1>18, <2>3
    <3>2. \A i \in 1..n : i >= k => m[i + 1].addr = i
      BY <1>17
    <3>. QED  BY <3>1, <3>2
  <2>. QED  BY <1>5, <2>1, <2>2, <2>3
<1>20. ASSUME NEW j \in 1..n, j < k
       PROVE  j \in 1..(n + 1) /\ Same(m[j], l[j]) /\ l[j].start <= p.start
  <2>1. j \in 1..(k - 1)
    BY <1>5, <1>20
  <2>. QED  BY <1>5, <1>15, <1>20, <2>1 DEF Same
<1>21. \A j \in 1..n : j >= k =>
         j + 1 \in 1..(n + 1) /\ Same(m[j + 1], l[j]) /\ l[j].start > p.start
  BY <1>5, <1>17
<1>22. Placed(l, p, k, m)
  BY <1>5, <1>7, <1>13, <1>14, <1>16, <1>18, <1>19, <1>20, <1>21 DEF Placed, n
<1>. QED  BY <1>22 DEF m

\* The list stays in order.
LEMMA PlacedIsOrdered ==
    ASSUME NEW l \in Seq(Parts), Ordered(l), NEW p \in Parts, NEW k, NEW m, Placed(l, p, k, m)
    PROVE  m \in Seq(Parts) /\ Ordered(m)
<1>. DEFINE n == Len(l)
<1>1. n \in Nat /\ k \in 1..(n + 1) /\ Len(m) = n + 1 /\ m \in Seq(Parts)
  BY DEF Placed
<1>2. \A j \in 1..(n + 1) : m[j].addr = j - 1
  BY <1>1 DEF Placed
<1>3. p.start \in Nat /\ m[k].start = p.start /\ \A j \in 1..n : l[j].start \in Nat
  BY PartLemma DEF Placed, Same
<1>4. \A j \in 1..n : j < k => m[j].start = l[j].start /\ l[j].start <= p.start
  BY DEF Placed, Same
<1>5. \A j \in 1..n : j >= k => m[j + 1].start = l[j].start /\ l[j].start > p.start
  BY DEF Placed, Same
<1>6. \A i, j \in 1..n : i <= j => l[i].start <= l[j].start
  BY DEF Ordered
<1>. HIDE DEF n
<1>7. ASSUME NEW i \in 1..(n + 1), NEW j \in 1..(n + 1), i < j
      PROVE  m[i].start <= m[j].start
  <2>1. CASE j < k
    <3>1. i \in 1..n /\ j \in 1..n /\ i < k /\ i <= j
      BY <1>1, <1>7, <2>1
    <3>. QED  BY <1>4, <1>6, <2>1, <3>1
  <2>2. CASE j = k
    <3>1. i \in 1..n /\ i < k
      BY <1>1, <1>7, <2>2
    <3>. QED  BY <1>3, <1>4, <2>2, <3>1
  <2>3. CASE j > k
    <3>1. j - 1 \in 1..n /\ j - 1 >= k /\ (j - 1) + 1 = j
      BY <1>1, <2>3
    <3>2. m[j].start = l[j - 1].start /\ l[j - 1].start > p.start /\ l[j - 1].start \in Nat
      BY <1>3, <1>5, <3>1
    <3>3. CASE i < k
      <4>1. i \in 1..n /\ i <= j - 1
        BY <1>1, <1>7, <3>3
      <4>. QED  BY <1>4, <1>6, <3>1, <3>2, <3>3, <4>1
    <3>4. CASE i = k
      BY <1>3, <3>2, <3>4
    <3>5. CASE i > k
      <4>1. i - 1 \in 1..n /\ i - 1 >= k /\ (i - 1) + 1 = i /\ i - 1 <= j - 1
        BY <1>1, <1>7, <3>5
      <4>2. m[i].start = l[i - 1].start
        BY <1>5, <4>1
      <4>. QED  BY <1>6, <3>1, <3>2, <4>1, <4>2
    <3>. QED  BY <1>1, <3>3, <3>4, <3>5
  <2>. QED  BY <1>1, <2>1, <2>2, <2>3
<1>8. ASSUME NEW i \in 1..(n + 1)  PROVE m[i].start \in Nat
  BY <1>1, PartLemma
<1>9. \A i, j \in 1..(n + 1) : i <= j => m[i].start <= m[j].start
  BY <1>1, <1>7, <1>8
<1>. QED  BY <1>1, <1>2, <1>9 DEF Ordered

-------------------------------------------------------------------------------
(* What tsk_vs_part_unused adds.                                           *)

IsContent(p) == p.flags # "meta"

\* Where the last of what is not a table's ends, before l[i].
LEMMA EndLemma ==
    ASSUME NEW l \in Seq(Parts), NEW i \in 1..(Len(l) + 1), image.size \in Nat
    PROVE  /\ NextStart(l, i) \in Nat /\ EndBefore(l, i) \in Nat
           /\ HasGap(l, i) =>
                /\ Gap(l, i) \in Parts /\ Gap(l, i).flags = "unalloc"
                /\ Gap(l, i).start = EndBefore(l, i)
                /\ Gap(l, i).len = NextStart(l, i) - EndBefore(l, i)
           /\ \/ EndBefore(l, i) = 0 /\ \A j \in 1..Len(l) : j < i => ~IsContent(l[j])
              \/ \E b \in 1..Len(l) :
                    /\ b < i /\ IsContent(l[b]) /\ EndBefore(l, i) = l[b].start + l[b].len
                    /\ \A j \in 1..Len(l) : j < i /\ IsContent(l[j]) => j <= b
<1>. DEFINE n == Len(l)
            before == {j \in 1..(i - 1) : l[j].flags # "meta"}
<1>1. n \in Nat /\ \A j \in 1..n : l[j] \in Parts /\ l[j].start \in Nat /\ l[j].len \in Nat
  BY PartLemma
<1>2. NextStart(l, i) \in Nat
  BY <1>1 DEF NextStart
<1>3. i \in 1..(n + 1)
  OBVIOUS
<1>. HIDE DEF n
<1>4. \A j \in 1..(i - 1) : j \in 1..n /\ j < i
  BY <1>1, <1>3
<1>5. \A j \in 1..n : j < i => j \in 1..(i - 1)
  BY <1>1, <1>3
<1>6. /\ EndBefore(l, i) \in Nat
      /\ \/ EndBefore(l, i) = 0 /\ \A j \in 1..n : j < i => ~IsContent(l[j])
         \/ \E b \in 1..n :
                /\ b < i /\ IsContent(l[b]) /\ EndBefore(l, i) = l[b].start + l[b].len
                /\ \A j \in 1..n : j < i /\ IsContent(l[j]) => j <= b
  <2>1. CASE before = {}
    <3>1. EndBefore(l, i) = 0
      BY <2>1 DEF EndBefore
    <3>2. \A j \in 1..n : j < i => ~IsContent(l[j])
      BY <1>5, <2>1 DEF IsContent
    <3>. QED  BY <3>1, <3>2
  <2>2. CASE before # {}
    <3>. PICK b : b = Max(before)
      OBVIOUS
    <3>1. EndBefore(l, i) = l[b].start + l[b].len
      BY <2>2 DEF EndBefore
    <3>2. b \in before /\ \A j \in before : j <= b
      <4>1. before \in SUBSET (0..n)
        <5>1. \A j \in 1..n : j \in 0..n
          BY <1>1
        <5>. QED  BY <1>4, <5>1
      <4>. HIDE DEF before
      <4>. QED  BY <1>1, <2>2, <4>1, MaxLemma
    <3>3. b \in 1..n /\ b < i /\ IsContent(l[b])
      BY <1>4, <3>2 DEF IsContent
    <3>4. \A j \in 1..n : j < i /\ IsContent(l[j]) => j <= b
      BY <1>5, <3>2 DEF IsContent
    <3>5. EndBefore(l, i) \in Nat
      BY <1>1, <3>1, <3>3
    <3>. QED  BY <3>1, <3>3, <3>4, <3>5
  <2>. QED  BY <2>1, <2>2
<1>7. ASSUME HasGap(l, i)
      PROVE  /\ Gap(l, i) \in Parts /\ Gap(l, i).flags = "unalloc"
             /\ Gap(l, i).start = EndBefore(l, i)
             /\ Gap(l, i).len = NextStart(l, i) - EndBefore(l, i)
  <2>1. NextStart(l, i) - EndBefore(l, i) \in Nat
    BY <1>2, <1>6, <1>7 DEF HasGap
  <2>. QED  BY <1>6, <2>1, PartLemma DEF Gap
<1>. QED  BY <1>2, <1>6, <1>7 DEF n

\* What a filled list has, up to the gap before l[n]: l[x] for x, the gap before
\* l[x] for -x.
Sources(l, n) == {x \in Int : x \in 1..Len(l) \/ (0 - x \in 1..n /\ HasGap(l, 0 - x))}
Source(l, x) == IF x > 0 THEN l[x] ELSE Gap(l, 0 - x)

\* m has all of them, each in one place, g.
FilledTo(m, l, n, g) ==
    /\ m \in Seq(Parts) /\ Ordered(m)
    /\ g \in [1..Len(m) -> Sources(l, n)]
    /\ \A i, j \in 1..Len(m) : g[i] = g[j] => i = j
    /\ \A x \in Sources(l, n) : \E i \in 1..Len(m) : g[i] = x
    /\ \A i \in 1..Len(m) : Same(m[i], Source(l, g[i]))

\* A turn of the walk of Filled.
FillTurn(r, i, l) == IF HasGap(l, i) THEN Added(r, Gap(l, i)) ELSE r

\* It puts the gap before l[i] in, if there is one.
LEMMA FillTurnLemma ==
    ASSUME NEW l \in Seq(Parts), NEW i \in 1..(Len(l) + 1), image.size \in Nat,
           NEW r, NEW g, FilledTo(r, l, i - 1, g)
    PROVE  \E h : FilledTo(FillTurn(r, i, l), l, i, h)
<1>0. i \in Nat /\ i >= 1 /\ Len(l) \in Nat
  OBVIOUS
<1>1. CASE ~HasGap(l, i)
  <2>1. FillTurn(r, i, l) = r
    BY <1>1 DEF FillTurn
  <2>2. ASSUME NEW x \in Int  PROVE x \in Sources(l, i) <=> x \in Sources(l, i - 1)
    <3>1. 0 - x \in 1..i <=> 0 - x \in 1..(i - 1) \/ 0 - x = i
      BY <1>0
    <3>. QED  BY <1>1, <3>1 DEF Sources
  <2>3. Sources(l, i) = Sources(l, i - 1)
    BY <2>2 DEF Sources
  <2>. QED  BY <2>1, <2>3 DEF FilledTo
<1>2. CASE HasGap(l, i)
  <2>. DEFINE n == Len(r)
  <2>. PICK p : p = Gap(l, i)
    OBVIOUS
  <2>. PICK m : m = FillTurn(r, i, l)
    OBVIOUS
  <2>1. p \in Parts
    BY <1>2, EndLemma
  <2>2. /\ r \in Seq(Parts) /\ Ordered(r) /\ n \in Nat
        /\ g \in [1..n -> Sources(l, i - 1)]
        /\ \A j, k \in 1..n : g[j] = g[k] => j = k
        /\ \A x \in Sources(l, i - 1) : \E j \in 1..n : g[j] = x
        /\ \A j \in 1..n : Same(r[j], Source(l, g[j]))
    BY DEF FilledTo
  <2>3. m = Added(r, p)
    BY <1>2 DEF FillTurn
  <2>4. PICK k : Placed(r, p, k, m)
    BY <2>1, <2>2, <2>3, AddedLemma
  <2>5. m \in Seq(Parts) /\ Ordered(m)
    BY <2>1, <2>2, <2>4, PlacedIsOrdered
  <2>6. /\ k \in 1..(n + 1) /\ Len(m) = n + 1 /\ Same(m[k], p)
        /\ \A j \in 1..n : j < k => j \in 1..(n + 1) /\ Same(m[j], r[j])
        /\ \A j \in 1..n : j >= k => j + 1 \in 1..(n + 1) /\ Same(m[j + 1], r[j])
        /\ \A j \in 1..(n + 1) : j = k \/ (j < k /\ j \in 1..n) \/ (j > k /\ j - 1 \in 1..n /\ j - 1 >= k)
    BY <2>4 DEF Placed
  <2>. HIDE DEF n
  <2>. DEFINE h == [j \in 1..(n + 1) |-> IF j = k THEN 0 - i ELSE IF j < k THEN g[j] ELSE g[j - 1]]
  <2>7. /\ h[k] = 0 - i
        /\ \A j \in 1..n : j < k => h[j] = g[j]
        /\ \A j \in 1..n : j >= k => h[j + 1] = g[j]
    <3>1. ASSUME NEW j \in 1..n, j >= k
          PROVE  h[j + 1] = g[j]
      <4>1. j + 1 \in 1..(n + 1) /\ j + 1 # k /\ ~(j + 1 < k) /\ (j + 1) - 1 = j
        BY <2>2, <2>6, <3>1
      <4>. QED  BY <4>1
    <3>2. ASSUME NEW j \in 1..n, j < k
          PROVE  h[j] = g[j]
      <4>1. j \in 1..(n + 1) /\ j # k
        BY <2>6, <3>2
      <4>. QED  BY <3>2, <4>1
    <3>. QED  BY <2>6, <3>1, <3>2
  <2>8. 0 - i \in Sources(l, i) /\ 0 - i \notin Sources(l, i - 1) /\ Source(l, 0 - i) = p
    <3>1. 0 - i \in Int /\ 0 - (0 - i) = i /\ ~(0 - i > 0) /\ 0 - i \notin 1..Len(l)
          /\ i \in 1..i /\ i \notin 1..(i - 1)
      BY <1>0
    <3>. QED  BY <1>2, <3>1 DEF Sources, Source
  <2>9. ASSUME NEW x \in Int
        PROVE  x \in Sources(l, i) <=> x \in Sources(l, i - 1) \/ x = 0 - i
    <3>1. 0 - x \in 1..i <=> 0 - x \in 1..(i - 1) \/ 0 - x = i
      BY <1>0
    <3>2. 0 - x = i <=> x = 0 - i
      BY <1>0
    <3>. QED  BY <1>2, <2>8, <3>1, <3>2 DEF Sources
  <2>10. \A x \in Sources(l, i - 1) : x \in Sources(l, i) /\ x # 0 - i
    BY <2>8, <2>9 DEF Sources
  <2>11. h = [j \in 1..(n + 1) |-> h[j]]
    OBVIOUS
  <2>. HIDE DEF h
  <2>12. ASSUME NEW j \in 1..(n + 1)
         PROVE  \/ j = k
                \/ \E e \in 1..n : h[j] = g[e] /\ e < k /\ e = j
                \/ \E e \in 1..n : h[j] = g[e] /\ e >= k /\ e + 1 = j
    <3>1. CASE j < k /\ j \in 1..n
      BY <2>7, <3>1
    <3>2. CASE j > k /\ j - 1 \in 1..n /\ j - 1 >= k
      <4>1. (j - 1) + 1 = j
        BY <2>2
      <4>2. h[(j - 1) + 1] = g[j - 1]
        BY <2>7, <3>2
      <4>. QED  BY <3>2, <4>1, <4>2
    <3>. QED  BY <2>6, <3>1, <3>2
  <2>13. h \in [1..(n + 1) -> Sources(l, i)]
    <3>1. \A j \in 1..(n + 1) : h[j] \in Sources(l, i)
      <4>1. \A e \in 1..n : g[e] \in Sources(l, i)
        BY <2>2, <2>10
      <4>2. h[k] \in Sources(l, i)
        BY <2>7, <2>8
      <4>. QED  BY <2>12, <4>1, <4>2
    <3>. QED  BY <2>11, <3>1
  <2>14. ASSUME NEW j \in 1..(n + 1), NEW e \in 1..(n + 1), h[j] = h[e]
         PROVE  j = e
    <3>1. j = k <=> e = k
      <4>1. ASSUME NEW a \in 1..(n + 1), a # k  PROVE h[a] # 0 - i
        <5>1. PICK b \in 1..n : h[a] = g[b]
          BY <2>12, <4>1
        <5>2. g[b] \in Sources(l, i - 1)
          BY <2>2
        <5>. QED  BY <2>8, <5>1, <5>2
      <4>. QED  BY <2>7, <2>14, <4>1
    <3>2. CASE j # k
      <4>1. PICK a \in 1..n : h[j] = g[a] /\ ((a < k /\ a = j) \/ (a >= k /\ a + 1 = j))
        BY <2>12, <3>2
      <4>2. PICK b \in 1..n : h[e] = g[b] /\ ((b < k /\ b = e) \/ (b >= k /\ b + 1 = e))
        BY <2>12, <3>1, <3>2
      <4>3. a = b
        BY <2>2, <2>14, <4>1, <4>2
      <4>4. (a < k /\ ~(b >= k)) \/ (a >= k /\ ~(b < k))
        BY <2>2, <2>6, <4>3
      <4>. QED  BY <4>1, <4>2, <4>3, <4>4
    <3>. QED  BY <3>1, <3>2
  <2>15. ASSUME NEW x \in Sources(l, i)
         PROVE  \E j \in 1..(n + 1) : h[j] = x
    <3>1. CASE x = 0 - i
      BY <2>6, <2>7, <3>1
    <3>2. CASE x # 0 - i
      <4>1. x \in Sources(l, i - 1)
        BY <2>9, <3>2 DEF Sources
      <4>2. PICK e \in 1..n : g[e] = x
        BY <2>2, <4>1
      <4>3. CASE e < k
        BY <2>6, <2>7, <4>2, <4>3
      <4>4. CASE e >= k
        BY <2>6, <2>7, <4>2, <4>4
      <4>. QED  BY <2>2, <2>6, <4>3, <4>4
    <3>. QED  BY <3>1, <3>2
  <2>16. ASSUME NEW j \in 1..(n + 1)
         PROVE  Same(m[j], Source(l, h[j]))
    <3>1. CASE j = k
      BY <2>6, <2>7, <2>8, <3>1
    <3>2. CASE \E e \in 1..n : h[j] = g[e] /\ e < k /\ e = j
      <4>1. PICK e \in 1..n : h[j] = g[e] /\ e < k /\ e = j
        BY <3>2
      <4>2. Same(m[e], r[e]) /\ Same(r[e], Source(l, g[e]))
        BY <2>2, <2>6, <4>1
      <4>. QED  BY <4>1, <4>2 DEF Same
    <3>3. CASE \E e \in 1..n : h[j] = g[e] /\ e >= k /\ e + 1 = j
      <4>1. PICK e \in 1..n : h[j] = g[e] /\ e >= k /\ e + 1 = j
        BY <3>3
      <4>2. Same(m[e + 1], r[e]) /\ Same(r[e], Source(l, g[e]))
        BY <2>2, <2>6, <4>1
      <4>. QED  BY <4>1, <4>2 DEF Same
    <3>. QED  BY <2>12, <3>1, <3>2, <3>3
  <2>17. FilledTo(m, l, i, h)
    BY <2>5, <2>6, <2>13, <2>14, <2>15, <2>16 DEF FilledTo
  <2>. QED  BY <2>17
<1>. QED  BY <1>1, <1>2

\* The function that Filled's is the one to be equal to.
FillTurns(f, n, l) == [i \in 0..n |-> IF i = 0 THEN l ELSE FillTurn(f[i - 1], i, l)]

LEMMA FillTurnsExist ==
    ASSUME NEW l, NEW n \in Nat
    PROVE  \E f : f = FillTurns(f, n, l)
<1>. DEFINE Bad == {m \in Nat : ~\E f : f = FillTurns(f, m, l)}
<1>1. SUFFICES ASSUME Bad # {}  PROVE FALSE
  BY <1>1
<1>2. PICK m \in Bad : \A k \in Bad : m <= k
  BY <1>1, LeastNumber
<1>3. CASE m = 0
  <2>. DEFINE f == [i \in 0..0 |-> l]
  <2>1. f = FillTurns(f, 0, l)
    BY DEF FillTurns
  <2>. QED  BY <1>2, <1>3, <2>1
<1>4. CASE m # 0
  <2>1. m \in Nat /\ m - 1 \in Nat /\ m - 1 \notin Bad
    BY <1>2, <1>4
  <2>2. PICK g : g = FillTurns(g, m - 1, l)
    BY <2>1
  <2>. DEFINE f == [i \in 0..m |-> IF i = m THEN FillTurn(g[m - 1], m, l) ELSE g[i]]
  <2>3. ASSUME NEW i \in 0..m  PROVE f[i] = IF i = 0 THEN l ELSE FillTurn(f[i - 1], i, l)
    <3>1. CASE i = m
      <4>1. m - 1 \in 0..m /\ m - 1 # m /\ m # 0 /\ m \in 0..m
        BY <1>4, <2>1
      <4>. QED  BY <3>1, <4>1
    <3>2. CASE i # m
      <4>1. i \in 0..(m - 1) /\ f[i] = g[i]
        BY <2>1, <3>2
      <4>2. g[i] = IF i = 0 THEN l ELSE FillTurn(g[i - 1], i, l)
        BY <2>2, <4>1 DEF FillTurns
      <4>3. i # 0 => i - 1 \in 0..m /\ i - 1 # m
        BY <2>1
      <4>4. i # 0 => f[i - 1] = g[i - 1]
        BY <4>3
      <4>. QED  BY <4>1, <4>2, <4>4
    <3>. QED  BY <3>1, <3>2
  <2>4. f = FillTurns(f, m, l)
    <3>1. f = [i \in 0..m |-> f[i]]
      OBVIOUS
    <3>. HIDE DEF f
    <3>. QED  BY <2>3, <3>1 DEF FillTurns
  <2>. QED  BY <1>2, <2>4
<1>. QED  BY <1>3, <1>4

\* Filled puts every gap into the list, and keeps what is there.
LEMMA FilledLemma ==
    ASSUME NEW l \in Seq(Parts), Ordered(l), image.size \in Nat
    PROVE  \E g : FilledTo(Filled(l), l, Len(l) + 1, g)
<1>. DEFINE n == Len(l) + 1
            f == CHOOSE f : f = FillTurns(f, n, l)
<1>1. Filled(l) = f[n]
  BY DEF Filled, FillTurns, FillTurn
<1>0. n \in Nat /\ Len(l) \in Nat
  OBVIOUS
<1>2. f = FillTurns(f, n, l)
  BY <1>0, FillTurnsExist
<1>. HIDE DEF f
<1>3. \A i \in 0..n : f[i] = IF i = 0 THEN l ELSE FillTurn(f[i - 1], i, l)
  BY <1>2 DEF FillTurns
<1>. DEFINE Bad == {i \in 0..n : ~\E g : FilledTo(f[i], l, i, g)}
<1>4. ASSUME Bad # {}  PROVE FALSE
  <2>1. Bad \in SUBSET Nat
    BY <1>0
  <2>2. PICK m \in Bad : \A k \in Bad : m <= k
    BY <1>4, <2>1, LeastNumber
  <2>3. CASE m = 0
    <3>. DEFINE g == [i \in 1..Len(l) |-> i]
    <3>1. \A x \in Int : x \in Sources(l, 0) <=> x \in 1..Len(l)
      BY DEF Sources
    <3>2. g \in [1..Len(l) -> Sources(l, 0)]
      BY <1>0, <3>1
    <3>3. \A i \in 1..Len(l) : Source(l, g[i]) = l[i] /\ Same(l[i], Source(l, g[i]))
      BY <1>0 DEF Source, Same
    <3>4. \A x \in Sources(l, 0) : x \in 1..Len(l)
      BY <3>1 DEF Sources
    <3>5. FilledTo(l, l, 0, g)
      BY <3>2, <3>3, <3>4 DEF FilledTo
    <3>6. f[0] = l
      BY <1>0, <1>3
    <3>. QED  BY <2>2, <2>3, <3>5, <3>6
  <2>4. CASE m # 0
    <3>1. m \in 0..n /\ m \in 1..n /\ m - 1 \in 0..n /\ m - 1 \notin Bad
      BY <1>0, <2>2, <2>4
    <3>2. PICK g : FilledTo(f[m - 1], l, m - 1, g)
      BY <3>1
    <3>3. f[m] = FillTurn(f[m - 1], m, l)
      BY <1>3, <3>1
    <3>. QED  BY <2>2, <3>1, <3>2, <3>3, FillTurnLemma
  <2>. QED  BY <2>3, <2>4
<1>5. n \in 0..n
  BY <1>0
<1>. HIDE DEF n
<1>6. \E g : FilledTo(f[n], l, n, g)
  BY <1>4, <1>5
<1>. QED  BY <1>1, <1>6 DEF n

\* What the tables gave the list is tables, links and partitions, none of
\* these empty.
FromTables(l) ==
    \A i \in 1..Len(l) : l[i].flags \in {"alloc", "meta"} /\ (l[i].flags = "alloc" => l[i].len > 0)

Covers(p, s) == IsContent(p) /\ p.start <= s /\ s < p.start + p.len

DisjointParts(l) ==
    \A i, j \in 1..Len(l) : l[i].flags = "alloc" /\ l[j].flags = "alloc" /\ i # j =>
        Sectors(l[i]) \cap Sectors(l[j]) = {}

LEMMA SectorsLemma ==
    ASSUME NEW p \in Parts, NEW s \in Nat
    PROVE  s \in Sectors(p) <=> p.start <= s /\ s < p.start + p.len
BY PartLemma DEF Sectors

\* Each sector is in a partition or in a gap.
LEMMA SourceCovers ==
    ASSUME NEW l \in Seq(Parts), image.size \in Nat, NEW s \in 0..(image.size - 1)
    PROVE  \E x \in Sources(l, Len(l) + 1) : Covers(Source(l, x), s)
<1>. DEFINE n == Len(l)
            U == {i \in 1..(n + 1) : (i <= n => IsContent(l[i])) /\ NextStart(l, i) > s}
<1>1. n \in Nat /\ s \in Nat /\ s < image.size /\ \A j \in 1..n : l[j] \in Parts /\ l[j].start \in Nat /\ l[j].len \in Nat
  BY PartLemma
<1>2. n + 1 \in U
  BY <1>1 DEF NextStart
<1>3. PICK i \in U : \A j \in U : i <= j
  <2>1. U \in SUBSET Nat
    BY <1>1
  <2>. QED  BY <1>2, <2>1, LeastNumber
<1>4. /\ NextStart(l, i) \in Nat /\ EndBefore(l, i) \in Nat
      /\ HasGap(l, i) =>
           /\ Gap(l, i) \in Parts /\ Gap(l, i).flags = "unalloc"
           /\ Gap(l, i).start = EndBefore(l, i)
           /\ Gap(l, i).len = NextStart(l, i) - EndBefore(l, i)
      /\ \/ EndBefore(l, i) = 0
         \/ \E b \in 1..n : b < i /\ IsContent(l[b]) /\ EndBefore(l, i) = l[b].start + l[b].len
  BY <1>3, EndLemma
<1>5. i \in 1..(n + 1) /\ (i <= n => IsContent(l[i])) /\ NextStart(l, i) > s
  BY <1>3
<1>. HIDE DEF n
<1>6. CASE EndBefore(l, i) <= s
  <2>1. HasGap(l, i)
    BY <1>1, <1>4, <1>5, <1>6 DEF HasGap, IsContent, n
  <2>2. Covers(Gap(l, i), s)
    BY <1>1, <1>4, <1>5, <1>6, <2>1 DEF Covers, IsContent
  <2>3. 0 - i \in Int /\ 0 - (0 - i) = i /\ ~(0 - i > 0)
    BY <1>1, <1>5
  <2>4. 0 - i \in Sources(l, n + 1) /\ Source(l, 0 - i) = Gap(l, i)
    BY <1>5, <2>1, <2>3 DEF Sources, Source
  <2>. QED  BY <2>2, <2>4 DEF n
<1>7. CASE EndBefore(l, i) > s
  <2>1. PICK b \in 1..n : b < i /\ IsContent(l[b]) /\ EndBefore(l, i) = l[b].start + l[b].len
    BY <1>1, <1>4, <1>7
  <2>2. b \notin U /\ b \in 1..(n + 1) /\ b \in Nat
    BY <1>1, <1>3, <1>5, <2>1
  <2>3. NextStart(l, b) = l[b].start
    BY <1>1, <2>1 DEF NextStart, n
  <2>4. l[b].start <= s
    BY <1>1, <2>1, <2>2, <2>3
  <2>5. Covers(l[b], s)
    BY <1>7, <2>1, <2>4 DEF Covers
  <2>6. b \in Sources(l, n + 1) /\ Source(l, b) = l[b]
    BY <1>1, <2>1 DEF Sources, Source, n
  <2>. QED  BY <2>5, <2>6 DEF n
<1>. QED  BY <1>1, <1>4, <1>6, <1>7

\* A gap has no sector of another gap.
LEMMA GapsApart ==
    ASSUME NEW l \in Seq(Parts), Ordered(l), image.size \in Nat, NEW s \in Nat,
           NEW i \in 1..(Len(l) + 1), NEW j \in 1..(Len(l) + 1), i < j, HasGap(l, i), HasGap(l, j),
           Covers(Gap(l, i), s), Covers(Gap(l, j), s)
    PROVE  FALSE
<1>. DEFINE n == Len(l)
<1>1. n \in Nat /\ i \in 1..n /\ \A k \in 1..n : l[k] \in Parts /\ l[k].start \in Nat /\ l[k].len \in Nat
  BY PartLemma
<1>2. IsContent(l[i]) /\ NextStart(l, i) = l[i].start
  BY <1>1 DEF HasGap, IsContent, NextStart
<1>3. EndBefore(l, i) \in Nat /\ s < NextStart(l, i)
  <2>1. /\ NextStart(l, i) \in Nat /\ EndBefore(l, i) \in Nat /\ Gap(l, i).start = EndBefore(l, i)
        /\ Gap(l, i).len = NextStart(l, i) - EndBefore(l, i)
    BY EndLemma
  <2>2. s < Gap(l, i).start + Gap(l, i).len
    BY DEF Covers
  <2>3. s < EndBefore(l, i) + (NextStart(l, i) - EndBefore(l, i))
    BY <2>1, <2>2
  <2>. QED  BY <2>1, <2>3
<1>4. s >= EndBefore(l, j) /\ EndBefore(l, j) \in Nat
  BY EndLemma DEF Covers
<1>5. PICK b \in 1..n : /\ EndBefore(l, j) = l[b].start + l[b].len
                        /\ \A k \in 1..n : k < j /\ IsContent(l[k]) => k <= b
  BY <1>1, <1>2, EndLemma
<1>6. i <= b
  BY <1>1, <1>2, <1>5
<1>7. l[i].start <= l[b].start
  BY <1>1, <1>5, <1>6 DEF Ordered
<1>. QED  BY <1>1, <1>2, <1>3, <1>4, <1>5, <1>7

\* Nor, with disjoint partitions, has it one of a partition.
LEMMA PartAndGapApart ==
    ASSUME NEW l \in Seq(Parts), Ordered(l), FromTables(l), DisjointParts(l),
           image.size \in Nat, NEW s \in Nat,
           NEW i \in 1..(Len(l) + 1), NEW j \in 1..Len(l), HasGap(l, i),
           Covers(Gap(l, i), s), Covers(l[j], s)
    PROVE  FALSE
<1>. DEFINE n == Len(l)
<1>1. n \in Nat /\ \A k \in 1..n : l[k] \in Parts /\ l[k].start \in Nat /\ l[k].len \in Nat
  BY PartLemma
<1>2. EndBefore(l, i) \in Nat /\ NextStart(l, i) \in Nat /\ EndBefore(l, i) <= s /\ s < NextStart(l, i)
  BY EndLemma DEF Covers
<1>3. IsContent(l[j]) /\ l[j].start <= s /\ s < l[j].start + l[j].len
  BY DEF Covers
<1>4. CASE j >= i
  <2>1. i \in 1..n /\ NextStart(l, i) = l[i].start
    BY <1>1, <1>4 DEF NextStart
  <2>2. l[i].start <= l[j].start
    BY <1>4, <2>1 DEF Ordered
  <2>. QED  BY <1>1, <1>2, <1>3, <2>1, <2>2
<1>5. CASE j < i
  <2>1. PICK b \in 1..n : /\ IsContent(l[b]) /\ EndBefore(l, i) = l[b].start + l[b].len
                          /\ \A k \in 1..n : k < i /\ IsContent(l[k]) => k <= b
    BY <1>3, <1>5, EndLemma
  <2>2. j <= b
    BY <1>3, <1>5, <2>1
  <2>3. b # j
    BY <1>2, <1>3, <2>1
  <2>4. l[j].flags = "alloc" /\ l[b].flags = "alloc" /\ l[b].len > 0
    BY <1>3, <2>1 DEF FromTables, IsContent
  <2>5. l[j].start <= l[b].start
    BY <2>1, <2>2 DEF Ordered
  <2>6. l[b].start < l[j].start + l[j].len /\ l[b].start < l[b].start + l[b].len
    <3>1. l[b].start \in Nat /\ l[b].len \in Nat /\ l[j].start \in Nat /\ l[j].len \in Nat
      BY <1>1, <2>1
    <3>2. s \in Nat /\ l[b].start + l[b].len <= s
      BY <1>2, <2>1
    <3>3. s < l[j].start + l[j].len /\ l[b].len > 0
      BY <1>3, <2>4
    <3>4. PICK t, u, v, w : t = l[b].start /\ u = l[b].len /\ v = l[j].start /\ w = l[j].len
      OBVIOUS
    <3>5. /\ t \in Nat /\ u \in Nat /\ v \in Nat /\ w \in Nat /\ s \in Nat
          /\ t + u <= s /\ s < v + w /\ u > 0
      BY ONLY <3>1, <3>2, <3>3, <3>4
    <3>6. t < v + w /\ t < t + u
      BY ONLY <3>5
    <3>. QED  BY ONLY <3>4, <3>6
  <2>. PICK t : t = l[b].start
    OBVIOUS
  <2>7. t \in Nat /\ l[b] \in Parts /\ l[j] \in Parts
    BY <1>1, <2>1
  <2>8. t \in Sectors(l[b]) /\ t \in Sectors(l[j])
    BY <1>1, <2>1, <2>5, <2>6, <2>7, SectorsLemma
  <2>. QED  BY <2>1, <2>3, <2>4, <2>8 DEF DisjointParts
<1>. QED  BY <1>1, <1>4, <1>5

\* With disjoint partitions a sector is in one part of the filled list.
LEMMA SourcesApart ==
    ASSUME NEW l \in Seq(Parts), Ordered(l), FromTables(l), DisjointParts(l),
           image.size \in Nat, NEW s \in Nat,
           NEW x \in Sources(l, Len(l) + 1), NEW y \in Sources(l, Len(l) + 1),
           Covers(Source(l, x), s), Covers(Source(l, y), s)
    PROVE  x = y
<1>. DEFINE n == Len(l)
<1>1. n \in Nat /\ x \in Int /\ y \in Int /\ \A k \in 1..n : l[k] \in Parts
  BY DEF Sources
<1>2. ASSUME NEW z \in Sources(l, n + 1)
      PROVE  \/ z \in 1..n /\ Source(l, z) = l[z]
             \/ 0 - z \in 1..(n + 1) /\ HasGap(l, 0 - z) /\ Source(l, z) = Gap(l, 0 - z)
  <2>1. z \in Int /\ (z \in 1..n \/ (0 - z \in 1..(n + 1) /\ HasGap(l, 0 - z)))
    BY <1>2 DEF Sources
  <2>2. z \in 1..n => z > 0
    BY <1>1
  <2>3. 0 - z \in 1..(n + 1) => ~(z > 0)
    BY <1>1, <2>1
  <2>. QED  BY <2>1, <2>2, <2>3 DEF Source
<1>3. CASE x \in 1..n /\ Source(l, x) = l[x] /\ y \in 1..n /\ Source(l, y) = l[y]
  <2>1. l[x].flags = "alloc" /\ l[y].flags = "alloc"
    BY <1>3 DEF FromTables, Covers, IsContent
  <2>2. s \in Sectors(l[x]) /\ s \in Sectors(l[y])
    BY <1>1, <1>3, SectorsLemma DEF Covers
  <2>. QED  BY <1>3, <2>1, <2>2 DEF DisjointParts
<1>4. ASSUME NEW a \in 1..n, NEW i \in 1..(n + 1), HasGap(l, i), Covers(Gap(l, i), s), Covers(l[a], s)
      PROVE  FALSE
  BY <1>4, PartAndGapApart
<1>5. CASE /\ 0 - x \in 1..(n + 1) /\ HasGap(l, 0 - x) /\ Source(l, x) = Gap(l, 0 - x)
           /\ 0 - y \in 1..(n + 1) /\ HasGap(l, 0 - y) /\ Source(l, y) = Gap(l, 0 - y)
  <2>1. ~(0 - x < 0 - y)
    BY <1>5, GapsApart
  <2>2. ~(0 - y < 0 - x)
    BY <1>5, GapsApart
  <2>. QED  BY <1>1, <2>1, <2>2
<1>. QED  BY <1>2, <1>3, <1>4, <1>5

\* What is promised of an open volume system with list m.
EverySector(m) ==
    \A s \in 0..(image.size - 1) :
        /\ \E i \in 1..Len(m) : Covers(m[i], s)
        /\ DisjointParts(m) => \A i, j \in 1..Len(m) : Covers(m[i], s) /\ Covers(m[j], s) => i = j

\* So an open volume system accounts for every sector.
LEMMA FilledCovers ==
    ASSUME NEW l \in Seq(Parts), Ordered(l), FromTables(l), image.size \in Nat,
           NEW m, NEW g, FilledTo(m, l, Len(l) + 1, g)
    PROVE  EverySector(m)
<1>. DEFINE S == Sources(l, Len(l) + 1)
<1>1. /\ m \in Seq(Parts) /\ Len(m) \in Nat
      /\ g \in [1..Len(m) -> S]
      /\ \A i, j \in 1..Len(m) : g[i] = g[j] => i = j
      /\ \A x \in S : \E i \in 1..Len(m) : g[i] = x
      /\ \A i \in 1..Len(m) : Same(m[i], Source(l, g[i]))
  BY DEF FilledTo
<1>. HIDE DEF S
<1>2. \A i \in 1..Len(m) : \A s : Covers(m[i], s) <=> Covers(Source(l, g[i]), s)
  BY <1>1 DEF Same, Covers, IsContent
<1>3. ASSUME NEW s \in 0..(image.size - 1)
      PROVE  \E i \in 1..Len(m) : Covers(m[i], s)
  <2>1. PICK x \in S : Covers(Source(l, x), s)
    BY SourceCovers DEF S
  <2>2. PICK i \in 1..Len(m) : g[i] = x
    BY <1>1
  <2>. QED  BY <1>2, <2>1, <2>2
<1>4. ASSUME DisjointParts(m)
      PROVE  DisjointParts(l)
  <2>1. SUFFICES ASSUME NEW a \in 1..Len(l), NEW b \in 1..Len(l),
                        l[a].flags = "alloc", l[b].flags = "alloc", a # b
                 PROVE  Sectors(l[a]) \cap Sectors(l[b]) = {}
    BY DEF DisjointParts
  <2>2. a \in S /\ b \in S /\ Source(l, a) = l[a] /\ Source(l, b) = l[b]
    BY DEF S, Sources, Source
  <2>3. PICK i \in 1..Len(m) : g[i] = a
    BY <1>1, <2>2
  <2>4. PICK j \in 1..Len(m) : g[j] = b
    BY <1>1, <2>2
  <2>5. Same(m[i], l[a]) /\ Same(m[j], l[b])
    BY <1>1, <2>2, <2>3, <2>4
  <2>6. i # j
    BY <2>1, <2>3, <2>4
  <2>7. Sectors(m[i]) = Sectors(l[a]) /\ Sectors(m[j]) = Sectors(l[b])
    BY <2>5 DEF Same, Sectors
  <2>8. m[i].flags = "alloc" /\ m[j].flags = "alloc"
    BY <2>1, <2>5 DEF Same
  <2>. QED  BY <1>4, <2>6, <2>7, <2>8 DEF DisjointParts
<1>5. ASSUME NEW s \in 0..(image.size - 1), DisjointParts(m),
             NEW i \in 1..Len(m), NEW j \in 1..Len(m), Covers(m[i], s), Covers(m[j], s)
      PROVE  i = j
  <2>1. s \in Nat /\ DisjointParts(l)
    BY <1>4, <1>5
  <2>2. g[i] \in S /\ g[j] \in S /\ Covers(Source(l, g[i]), s) /\ Covers(Source(l, g[j]), s)
    BY <1>1, <1>2, <1>5
  <2>3. g[i] = g[j]
    BY <2>1, <2>2, SourcesApart DEF S
  <2>. QED  BY <1>1, <2>3
<1>. QED  BY <1>3, <1>5 DEF EverySector

\* That is what the property says.
LEMMA EverySectorLemma ==
    ASSUME list \in Seq(Parts), image.size \in Nat, EverySector(list)
    PROVE  EverySectorHasAPart
<1>. DEFINE Of(s) == {i \in Content : s \in Sectors(list[i])}
            disjoint == \A i, j \in Allocated : i # j => Sectors(list[i]) \cap Sectors(list[j]) = {}
<1>1. DOMAIN list = 1..Len(list) /\ \A i \in 1..Len(list) : list[i] \in Parts
  OBVIOUS
<1>2. disjoint <=> DisjointParts(list)
  BY <1>1 DEF Allocated, DisjointParts
<1>3. ASSUME NEW s \in 0..(image.size - 1)
      PROVE  Of(s) = {i \in 1..Len(list) : Covers(list[i], s)}
  <2>1. s \in Nat
    OBVIOUS
  <2>2. \A i \in 1..Len(list) : s \in Sectors(list[i]) <=> list[i].start <= s /\ s < list[i].start + list[i].len
    BY <1>1, <2>1, SectorsLemma
  <2>. QED  BY <1>1, <2>2 DEF Content, Covers, IsContent
<1>4. ASSUME NEW s \in 0..(image.size - 1)
      PROVE  Of(s) # {} /\ (disjoint => Cardinality(Of(s)) = 1)
  <2>1. PICK i \in 1..Len(list) : Covers(list[i], s)
    BY DEF EverySector
  <2>2. i \in Of(s)
    BY <1>3, <2>1
  <2>3. ASSUME disjoint  PROVE Cardinality(Of(s)) = 1
    <3>1. \A j \in 1..Len(list) : Covers(list[j], s) => j = i
      BY <1>2, <2>1, <2>3 DEF EverySector
    <3>2. Of(s) = {i}
      BY <1>3, <2>2, <3>1
    <3>. HIDE DEF Of
    <3>. QED  BY <3>2, FS_Singleton
  <2>. QED  BY <2>2, <2>3
<1>. HIDE DEF Of, disjoint
<1>. QED  BY <1>4 DEF EverySectorHasAPart, Of, disjoint

-------------------------------------------------------------------------------
(* The inductive invariant of the volume system.                           *)

LoadType(m) == [sector : DOMAIN m.tables, slot : Nat \ {0}]

PartsInv ==
    /\ image \in Images
    /\ list \in Seq(Parts) /\ Ordered(list)
    /\ tables \in Seq(LoadType(image))
    /\ base \in Nat
    /\ status = "loading" => tables # <<>>
    /\ status # "open" => FromTables(list)
    /\ status = "open" => EverySector(list)

\* The image, of which the tables are numbered by their sectors.
LEMMA ImageLemma ==
    ASSUME PartsInv
    PROVE  /\ image.size \in Nat /\ Primary \notin ChainsOf(image)
           /\ \A s \in DOMAIN image.tables :
                s \in Nat /\ s < image.size /\ image.tables[s] \in Seq(EntryType)
<1>1. IsImage(image) /\ Primary \notin ChainsOf(image)
  BY ImagesAssumption DEF PartsInv
<1>2. image.size \in Nat /\ DOMAIN image.tables \subseteq 0..(image.size - 1)
  BY <1>1 DEF IsImage
<1>3. \A s \in DOMAIN image.tables : image.tables[s] \in Seq(EntryType)
  BY <1>1 DEF IsImage
<1>. QED  BY <1>1, <1>2, <1>3

\* Where the partitions in a list start.
Listed(l) == {l[i].start : i \in {i \in 1..Len(l) : l[i].flags = "alloc"}}

\* What a partition, a table or a link does to the list.
LEMMA ListLemma ==
    ASSUME NEW l \in Seq(Parts), Ordered(l), FromTables(l),
           NEW s \in Nat, NEW n \in Nat, NEW f \in {"alloc", "meta"}, f = "alloc" => n > 0
    PROVE  /\ Added(l, Part(s, n, f)) \in Seq(Parts) /\ Ordered(Added(l, Part(s, n, f)))
           /\ FromTables(Added(l, Part(s, n, f)))
           /\ Listed(Added(l, Part(s, n, f))) = Listed(l) \cup (IF f = "alloc" THEN {s} ELSE {})
<1>. PICK p : p = Part(s, n, f)
  OBVIOUS
<1>. PICK m : m = Added(l, p)
  OBVIOUS
<1>1. p \in Parts /\ p.start = s /\ p.len = n /\ p.flags = f
  BY PartLemma
<1>2. PICK k : Placed(l, p, k, m)
  BY <1>1, AddedLemma
<1>3. m \in Seq(Parts) /\ Ordered(m)
  BY <1>1, <1>2, PlacedIsOrdered
<1>4. /\ k \in 1..Len(m) /\ m[k].start = s /\ m[k].len = n /\ m[k].flags = f
  BY <1>1, <1>2 DEF Placed, Same
<1>5. \A j \in 1..Len(m) : j = k \/ \E i \in 1..Len(l) : Same(m[j], l[i])
  <2>1. ASSUME NEW j \in 1..Len(m), j # k  PROVE \E i \in 1..Len(l) : Same(m[j], l[i])
    <3>1. CASE j < k /\ j \in 1..Len(l)
      BY <1>2, <3>1 DEF Placed
    <3>2. CASE j > k /\ j - 1 \in 1..Len(l) /\ j - 1 >= k
      <4>1. (j - 1) + 1 = j
        OBVIOUS
      <4>2. Same(m[(j - 1) + 1], l[j - 1])
        BY <1>2, <3>2 DEF Placed
      <4>. QED  BY <3>2, <4>1, <4>2
    <3>. QED  BY <1>2, <2>1, <3>1, <3>2 DEF Placed
  <2>. QED  BY <2>1
<1>6. ASSUME NEW i \in 1..Len(l)  PROVE \E j \in 1..Len(m) : Same(m[j], l[i])
  <2>1. CASE i < k
    BY <1>2, <2>1 DEF Placed
  <2>2. CASE i >= k
    BY <1>2, <2>2 DEF Placed
  <2>3. k \in Nat /\ i \in Nat
    BY <1>2 DEF Placed
  <2>. QED  BY <2>1, <2>2, <2>3
<1>7. FromTables(m)
  BY <1>4, <1>5 DEF FromTables, Same
<1>8. Listed(m) = Listed(l) \cup (IF f = "alloc" THEN {s} ELSE {})
  <2>1. ASSUME NEW x \in Listed(m)  PROVE x \in Listed(l) \cup (IF f = "alloc" THEN {s} ELSE {})
    <3>1. PICK j \in 1..Len(m) : m[j].flags = "alloc" /\ x = m[j].start
      BY <2>1 DEF Listed
    <3>2. CASE j = k
      BY <1>4, <3>1, <3>2
    <3>3. CASE j # k
      <4>1. PICK i \in 1..Len(l) : Same(m[j], l[i])
        BY <1>5, <3>3
      <4>. QED  BY <3>1, <4>1 DEF Same, Listed
    <3>. QED  BY <3>2, <3>3
  <2>2. ASSUME NEW x \in Listed(l)  PROVE x \in Listed(m)
    <3>1. PICK i \in 1..Len(l) : l[i].flags = "alloc" /\ x = l[i].start
      BY <2>2 DEF Listed
    <3>2. PICK j \in 1..Len(m) : Same(m[j], l[i])
      BY <1>6
    <3>. QED  BY <3>1, <3>2 DEF Same, Listed
  <2>3. f = "alloc" => s \in Listed(m)
    BY <1>4 DEF Listed
  <2>. QED  BY <2>1, <2>2, <2>3
<1>. QED  BY <1>3, <1>7, <1>8

\* What a table or a link adds is not allocated.
LEMMA MetaLemma ==
    ASSUME NEW l \in Seq(Parts), Ordered(l), FromTables(l), NEW s \in Nat, NEW n \in Nat
    PROVE  /\ Added(l, Part(s, n, "meta")) \in Seq(Parts) /\ Ordered(Added(l, Part(s, n, "meta")))
           /\ FromTables(Added(l, Part(s, n, "meta")))
           /\ Listed(Added(l, Part(s, n, "meta"))) = Listed(l)
<1>. PICK f : f = "meta"
  OBVIOUS
<1>1. f \in {"alloc", "meta"} /\ f # "alloc"
  OBVIOUS
<1>2. /\ Added(l, Part(s, n, f)) \in Seq(Parts) /\ Ordered(Added(l, Part(s, n, f)))
      /\ FromTables(Added(l, Part(s, n, f)))
      /\ Listed(Added(l, Part(s, n, f))) = Listed(l) \cup (IF f = "alloc" THEN {s} ELSE {})
  BY <1>1, ListLemma
<1>. QED  BY <1>1, <1>2

\* The table that is read, and the next entry of it.
LEMMA TableLemma ==
    ASSUME PartsInv, status = "loading"
    PROVE  /\ tables # <<>> /\ Len(tables) \in Nat \ {0} /\ Len(tables) \in 1..Len(tables)
           /\ \A j \in 1..Len(tables) : /\ tables[j].sector \in DOMAIN image.tables
                                        /\ tables[j].slot \in Nat \ {0}
           /\ Sector = tables[Len(tables)].sector /\ Slot = tables[Len(tables)].slot
           /\ Sector \in DOMAIN image.tables /\ Sector \in Nat /\ Slot \in Nat \ {0}
           /\ Table = image.tables[Sector] /\ Table \in Seq(EntryType) /\ DOMAIN Table = 1..Len(Table)
           /\ Len(Table) \in Nat
           /\ Slot <= Len(Table) =>
                /\ Slot \in 1..Len(Table) /\ Entry = Table[Slot]
                /\ Entry.type \in {"ext", "data"} /\ Entry.start \in Nat /\ Entry.size \in Nat
<1>1. tables # <<>> /\ tables \in Seq(LoadType(image))
  BY DEF PartsInv
<1>2. Len(tables) \in Nat /\ Len(tables) # 0
  BY <1>1
<1>3. Len(tables) \in 1..Len(tables)
  BY <1>2
<1>4. \A j \in 1..Len(tables) : tables[j] \in LoadType(image)
  BY <1>1
<1>5. \A j \in 1..Len(tables) : tables[j].sector \in DOMAIN image.tables /\ tables[j].slot \in Nat \ {0}
  BY <1>4 DEF LoadType
<1>6. Sector = tables[Len(tables)].sector /\ Slot = tables[Len(tables)].slot
  BY DEF Sector, Slot, Last
<1>7. Sector \in DOMAIN image.tables /\ Sector \in Nat /\ Slot \in Nat \ {0} /\ Table \in Seq(EntryType)
  BY <1>3, <1>5, <1>6, ImageLemma DEF Table
<1>8. DOMAIN Table = 1..Len(Table) /\ Len(Table) \in Nat
  BY <1>7
<1>9. ASSUME Slot <= Len(Table)
      PROVE  /\ Slot \in 1..Len(Table) /\ Entry = Table[Slot]
             /\ Entry.type \in {"ext", "data"} /\ Entry.start \in Nat /\ Entry.size \in Nat
  <2>1. Slot \in 1..Len(Table)
    BY <1>7, <1>8, <1>9
  <2>2. Entry = Table[Slot] /\ Entry \in EntryType
    BY <1>7, <2>1 DEF Entry
  <2>. QED  BY <2>1, <2>2 DEF EntryType
<1>. QED  BY <1>1, <1>2, <1>3, <1>5, <1>6, <1>7, <1>8, <1>9 DEF Table

\* Advanced is tables with the last one's slot moved on.
LEMMA AdvancedLemma ==
    ASSUME PartsInv, status = "loading"
    PROVE  /\ Advanced \in Seq(LoadType(image)) /\ Len(Advanced) = Len(tables) /\ Advanced # <<>>
           /\ \A j \in 1..Len(tables) : Advanced[j].sector = tables[j].sector
           /\ \A j \in 1..Len(tables) : j # Len(tables) => Advanced[j] = tables[j]
           /\ Advanced[Len(tables)].slot = Slot + 1
<1>. DEFINE n == Len(tables)
<1>1. /\ tables \in Seq(LoadType(image)) /\ n \in Nat \ {0} /\ n \in 1..n
      /\ tables[n].slot = Slot /\ Slot \in Nat /\ tables[n] \in LoadType(image)
  BY TableLemma DEF PartsInv
<1>. PICK t : t = [tables[n] EXCEPT !.slot = @ + 1]
  OBVIOUS
<1>2. t \in LoadType(image) /\ t.sector = tables[n].sector /\ t.slot = Slot + 1
  BY <1>1 DEF LoadType
<1>3. Advanced = [tables EXCEPT ![n] = t]
  BY DEF Advanced
<1>. HIDE DEF n
<1>4. Advanced \in Seq(LoadType(image)) /\ Len(Advanced) = Len(tables)
  BY <1>1, <1>2, <1>3 DEF n
<1>5. Advanced[n] = t /\ \A j \in 1..n : j # n => Advanced[j] = tables[j]
  BY <1>1, <1>3 DEF n
<1>6. Advanced # <<>>
  BY <1>1, <1>4 DEF n
<1>. QED  BY <1>2, <1>4, <1>5, <1>6 DEF n

\* The link of an extended entry is listed, but not as allocated.
LEMMA LinkedLemma ==
    ASSUME PartsInv, Accepted
    PROVE  /\ status = "loading" /\ Slot <= Len(Table) /\ Entry.size # 0
           /\ LinkBase \in Nat /\ Linked \in Nat /\ Linked = LinkBase + Entry.start
           /\ WithLink \in Seq(Parts) /\ Ordered(WithLink) /\ FromTables(WithLink)
           /\ Listed(WithLink) = Listed(list)
<1>1. status = "loading" /\ Slot <= Len(Table) /\ Entry.size # 0
  BY DEF Accepted, SlotsLeft
<1>2. Entry.start \in Nat /\ Entry.size \in Nat
  BY <1>1, TableLemma
<1>3. LinkBase \in Nat
  BY DEF LinkBase, Primary, PartsInv
<1>4. Linked \in Nat /\ Linked = LinkBase + Entry.start
  BY <1>2, <1>3 DEF Linked
<1>5. list \in Seq(Parts) /\ Ordered(list) /\ FromTables(list)
  BY <1>1 DEF PartsInv
<1>6. /\ WithLink \in Seq(Parts) /\ Ordered(WithLink) /\ FromTables(WithLink)
      /\ Listed(WithLink) = Listed(list)
  <2>. PICK s, n : s = Linked /\ n = Entry.size
    OBVIOUS
  <2>1. s \in Nat /\ n \in Nat /\ WithLink = Added(list, Part(s, n, "meta"))
    BY <1>2, <1>4 DEF WithLink
  <2>. QED  BY <1>5, <2>1, MetaLemma
<1>. QED  BY <1>1, <1>3, <1>4, <1>6

\* The list and the tables after EnterExtended.
LEMMA EnteredTable ==
    ASSUME PartsInv, EnterExtended
    PROVE  /\ list' \in Seq(Parts) /\ Ordered(list') /\ FromTables(list')
           /\ Listed(list') = Listed(list)
           /\ tables' \in Seq(LoadType(image)) /\ tables' # <<>>
           /\ Len(tables') = Len(tables) + 1
           /\ tables'[Len(tables) + 1].sector = Linked /\ tables'[Len(tables) + 1].slot = 1
           /\ \A j \in 1..Len(tables) : j \in 1..(Len(tables) + 1) /\ tables'[j] = Advanced[j]
           /\ \A j \in 1..(Len(tables) + 1) : j \in 1..Len(tables) \/ j = Len(tables) + 1
           /\ base' \in Nat
<1>1. /\ Accepted /\ Linked \in DOMAIN image.tables
      /\ list' = Added(WithLink, Part(Linked, 1, "meta"))
      /\ tables' = Append(Advanced, Load(Linked))
      /\ base' = IF InPrimary THEN Linked ELSE base
  BY DEF EnterExtended
<1>2. /\ status = "loading" /\ Linked \in Nat
      /\ WithLink \in Seq(Parts) /\ Ordered(WithLink) /\ FromTables(WithLink)
      /\ Listed(WithLink) = Listed(list)
  BY <1>1, LinkedLemma
<1>3. /\ list' \in Seq(Parts) /\ Ordered(list') /\ FromTables(list')
      /\ Listed(list') = Listed(list)
  BY <1>1, <1>2, ListLemma
<1>4. Load(Linked) \in LoadType(image) /\ Load(Linked).sector = Linked /\ Load(Linked).slot = 1
  BY <1>1 DEF Load, LoadType
<1>5. Advanced \in Seq(LoadType(image)) /\ Len(Advanced) = Len(tables) /\ Len(tables) \in Nat
  BY <1>2, AdvancedLemma, TableLemma
<1>. HIDE DEF Advanced
<1>. PICK a, t : a = Advanced /\ t = Load(Linked)
  OBVIOUS
<1>6. a \in Seq(LoadType(image)) /\ t \in LoadType(image) /\ tables' = Append(a, t)
  BY <1>1, <1>4, <1>5
<1>7. /\ tables' \in Seq(LoadType(image)) /\ tables' # <<>> /\ Len(tables') = Len(a) + 1
      /\ tables'[Len(a) + 1] = t
      /\ \A j \in 1..Len(a) : j \in 1..(Len(a) + 1) /\ tables'[j] = a[j]
      /\ \A j \in 1..(Len(a) + 1) : j \in 1..Len(a) \/ j = Len(a) + 1
  BY <1>6, AppendLemma
<1>8. base' \in Nat
  BY <1>1, <1>2 DEF PartsInv
<1>9. Len(a) = Len(tables)
  BY <1>5
<1>. QED  BY <1>3, <1>4, <1>7, <1>8, <1>9

\* Every step of opening the volume system keeps its invariant.
LEMMA PartsStep ==
    ASSUME PartsInv, OpenParts
    PROVE  PartsInv'
<1>0. image' = image
  BY DEF OpenParts, LoadPrimary, SkipEmpty, OutOfImage, AddData, EnterExtended, PassExtended,
         LoseChain, TableDone, FillUnused
<1>1. <<>> \in Seq(Parts) /\ Ordered(<<>>) /\ FromTables(<<>>) /\ <<>> \in Seq(LoadType(image))
  BY DEF Ordered, FromTables
<1>2. CASE LoadPrimary
  <2>1. status = "closed" /\ base' = base
    BY <1>2 DEF LoadPrimary
  <2>2. list \in Seq(Parts) /\ Ordered(list) /\ FromTables(list) /\ base \in Nat
    BY <2>1 DEF PartsInv
  <2>3. CASE Primary \in DOMAIN image.tables
    <3>1. /\ status' = "loading" /\ list' = Added(list, Part(Primary, 1, "meta"))
          /\ tables' = <<Load(Primary)>>
      BY <1>2, <2>3 DEF LoadPrimary
    <3>2. list' \in Seq(Parts) /\ Ordered(list') /\ FromTables(list')
      BY <2>2, <3>1, ListLemma DEF Primary
    <3>3. Load(Primary) \in LoadType(image)
      BY <2>3 DEF Load, LoadType
    <3>4. tables' \in Seq(LoadType(image)) /\ tables' # <<>>
      BY <3>1, <3>3
    <3>. QED  BY <1>0, <2>1, <2>2, <3>1, <3>2, <3>4 DEF PartsInv
  <2>4. CASE Primary \notin DOMAIN image.tables
    <3>1. status' = "failed" /\ list' = list /\ tables' = tables
      BY <1>2, <2>4 DEF LoadPrimary
    <3>. QED  BY <1>0, <2>1, <2>2, <3>1 DEF PartsInv
  <2>. QED  BY <2>3, <2>4
<1>3. CASE SkipEmpty
  <2>1. status = "loading" /\ status' = status /\ list' = list /\ base' = base /\ tables' = Advanced
    BY <1>3 DEF SkipEmpty, SlotsLeft
  <2>2. tables' \in Seq(LoadType(image)) /\ tables' # <<>>
    BY <2>1, AdvancedLemma
  <2>. QED  BY <1>0, <2>1, <2>2 DEF PartsInv
<1>4. CASE OutOfImage
  <2>1. status' = "failed" /\ list' = <<>> /\ tables' = <<>> /\ base' = base
    BY <1>4 DEF OutOfImage
  <2>. QED  BY <1>0, <1>1, <2>1 DEF PartsInv
<1>5. CASE AddData
  <2>1. /\ Accepted /\ status' = status /\ base' = base /\ tables' = Advanced
        /\ list' = Added(list, Part(Sector + Entry.start, Entry.size, "alloc"))
    BY <1>5 DEF AddData
  <2>2. status = "loading" /\ Slot <= Len(Table) /\ Entry.size # 0
    BY <2>1, LinkedLemma
  <2>3. Sector + Entry.start \in Nat /\ Entry.size \in Nat /\ Entry.size > 0
    BY <2>2, TableLemma
  <2>4. list \in Seq(Parts) /\ Ordered(list) /\ FromTables(list)
    BY <2>2 DEF PartsInv
  <2>5. list' \in Seq(Parts) /\ Ordered(list') /\ FromTables(list')
    BY <2>1, <2>3, <2>4, ListLemma
  <2>6. tables' \in Seq(LoadType(image)) /\ tables' # <<>>
    BY <2>1, <2>2, AdvancedLemma
  <2>. QED  BY <1>0, <2>1, <2>2, <2>5, <2>6 DEF PartsInv
<1>6. CASE EnterExtended
  <2>1. status = "loading" /\ status' = status
    BY <1>6 DEF EnterExtended, Accepted, SlotsLeft
  <2>. QED  BY <1>0, <1>6, <2>1, EnteredTable DEF PartsInv
<1>7. CASE PassExtended
  <2>1. Accepted /\ status' = status /\ base' = base /\ tables' = Advanced /\ list' = WithLink
    BY <1>7 DEF PassExtended
  <2>2. status = "loading" /\ list' \in Seq(Parts) /\ Ordered(list') /\ FromTables(list')
    BY <2>1, LinkedLemma
  <2>3. tables' \in Seq(LoadType(image)) /\ tables' # <<>>
    BY <2>1, <2>2, AdvancedLemma
  <2>. QED  BY <1>0, <2>1, <2>2, <2>3 DEF PartsInv
<1>8. CASE LoseChain
  <2>1. Accepted /\ status' = status /\ base' = base /\ tables' = Unwound /\ list' = WithLink
    BY <1>8 DEF LoseChain
  <2>2. status = "loading" /\ list' \in Seq(Parts) /\ Ordered(list') /\ FromTables(list')
    BY <2>1, LinkedLemma
  <2>3. tables[1] \in LoadType(image)
    <3>1. tables \in Seq(LoadType(image)) /\ 1 \in 1..Len(tables)
      BY <2>2, TableLemma DEF PartsInv
    <3>. QED  BY <3>1
  <2>. PICK t : t = [tables[1] EXCEPT !.slot = IF InPrimary THEN @ + 1 ELSE @]
    OBVIOUS
  <2>4. t \in LoadType(image) /\ tables' = <<t>>
    BY <2>1, <2>3 DEF LoadType, Unwound
  <2>5. tables' \in Seq(LoadType(image)) /\ tables' # <<>>
    BY <2>4
  <2>. QED  BY <1>0, <2>1, <2>2, <2>5 DEF PartsInv
<1>9. CASE TableDone
  <2>1. status = "loading" /\ base' = base /\ tables' = PopOf(tables)
    BY <1>9 DEF TableDone, Front, PopOf
  <2>2. tables \in Seq(LoadType(image)) /\ tables # <<>>
    BY <2>1 DEF PartsInv
  <2>3. /\ tables' \in Seq(LoadType(image)) /\ Len(tables') = Len(tables) - 1
        /\ Len(tables) \in Nat \ {0}
    BY <2>1, <2>2, PopLemma
  <2>4. list \in Seq(Parts) /\ Ordered(list) /\ FromTables(list) /\ base \in Nat
    BY <2>1 DEF PartsInv
  <2>5. CASE ~InPrimary
    <3>1. list' = list /\ status' = status
      BY <1>9, <2>5 DEF TableDone
    <3>2. tables' # <<>>
      BY <2>3, <2>5 DEF InPrimary
    <3>. QED  BY <1>0, <2>1, <2>3, <2>4, <3>1, <3>2 DEF PartsInv
  <2>6. CASE InPrimary
    <3>1. (status' = "loaded" /\ list' = list) \/ (status' = "failed" /\ list' = <<>>)
      BY <1>9, <2>6 DEF TableDone
    <3>. QED  BY <1>0, <1>1, <2>1, <2>3, <2>4, <3>1 DEF PartsInv
  <2>. QED  BY <2>5, <2>6
<1>10. CASE FillUnused
  <2>1. status = "loaded" /\ list' = Filled(list) /\ status' = "open" /\ tables' = tables /\ base' = base
    BY <1>10 DEF FillUnused
  <2>2. list \in Seq(Parts) /\ Ordered(list) /\ FromTables(list) /\ image.size \in Nat
    BY <2>1, ImageLemma DEF PartsInv
  <2>3. PICK g : FilledTo(list', list, Len(list) + 1, g)
    BY <2>1, <2>2, FilledLemma
  <2>4. EverySector(list')
    BY <2>2, <2>3, FilledCovers
  <2>5. EverySector(list)'
    BY <1>0, <2>4 DEF EverySector
  <2>6. list' \in Seq(Parts) /\ Ordered(list')
    BY <2>3 DEF FilledTo
  <2>. QED  BY <1>0, <2>1, <2>5, <2>6 DEF PartsInv
<1>. QED  BY <1>2, <1>3, <1>4, <1>5, <1>6, <1>7, <1>8, <1>9, <1>10 DEF OpenParts

LEMMA PartsStart ==
    ASSUME InitParts
    PROVE  PartsInv
<1>1. <<>> \in Seq(Parts) /\ Ordered(<<>>) /\ FromTables(<<>>) /\ <<>> \in Seq(LoadType(image))
  BY DEF Ordered, FromTables
<1>. QED  BY <1>1 DEF InitParts, PartsInv, Primary

\* What PartsInv says of the list's order is what the property says.
LEMMA OrderLemma ==
    ASSUME list \in Seq(Parts), Ordered(list)
    PROVE  PartsInOrder
<1>1. DOMAIN list = 1..Len(list) /\ Len(list) \in Nat
  OBVIOUS
<1>2. \A i \in 1..Len(list) : list[i].addr = i - 1
  BY DEF Ordered
<1>3. ASSUME NEW i \in 1..Len(list), i > 1
      PROVE  list[i - 1].start <= list[i].start
  <2>1. i - 1 \in 1..Len(list) /\ i - 1 <= i
    BY <1>1, <1>3
  <2>. QED  BY <2>1 DEF Ordered
<1>. QED  BY <1>1, <1>2, <1>3 DEF PartsInOrder

-------------------------------------------------------------------------------
(* The disk: the volume iterator on what the volume system lists.          *)

DiskTyped ==
    /\ disk \in Seq(PartType)
    /\ pending \in Seq(1..Len(disk))
    /\ \A k \in 1..Len(pending) : disk[pending[k]].flags = "alloc"
    /\ visited \subseteq 1..Len(disk) /\ looped \subseteq visited
    /\ dropped = None \/ IsDir(dropped)

DiskInv == PartsInv /\ ItInv /\ DiskTyped

LEMMA DiskStart ==
    ASSUME InitDisk
    PROVE  DiskInv
<1>1. PartsInv /\ ItInv
  BY PartsStart, InitLemma DEF InitDisk
<1>2. DiskTyped
  BY DEF InitDisk, InitVolumes, DiskTyped
<1>. QED  BY <1>1, <1>2 DEF DiskInv

\* getPart finds a partition for every number below getPartCount.
LEMMA PartGetLemma ==
    ASSUME PartsInv, NEW k \in 1..Len(list)
    PROVE  part_get(k - 1) \in Parts
<1>1. list \in Seq(Parts) /\ Ordered(list) /\ DOMAIN list = 1..Len(list)
  BY DEF PartsInv
<1>2. list[k] \in ToSet(list) /\ list[k].addr = k - 1
  BY <1>1 DEF ToSet, Ordered
<1>3. \A p \in ToSet(list) : p \in Parts
  BY <1>1 DEF ToSet
<1>. QED  BY <1>2, <1>3 DEF part_get

\* The constructor takes over what the volume system lists.
LEMMA NewStep ==
    ASSUME DiskInv, New
    PROVE  DiskInv'
<1>. DEFINE PartNr(i) ==
               LET p == part_get(i) IN
               [flags |-> p.flags, start |-> p.start * SectorSize, volume |-> VolumeAt(p.start)]
            n == Len(list)
<1>. PICK d : d = [k \in 1..n |-> PartNr(k - 1)]
  OBVIOUS
<1>1. /\ disk = <<>> /\ disk' = d /\ pending' = find_volumes(d)
      /\ fsVars' = fsVars /\ visited' = visited /\ looped' = looped /\ dropped' = dropped /\ partsVars' = partsVars
  BY DEF New, FindVolumes
<1>2. /\ image' = image /\ list' = list /\ tables' = tables /\ base' = base /\ status' = status
      /\ vol' = vol /\ fdstack' = fdstack /\ pathstack' = pathstack /\ inumstack' = inumstack
      /\ result' = result /\ files' = files
  BY <1>1 DEF partsVars, fsVars
<1>3. PartsInv'
  BY <1>2 DEF DiskInv, PartsInv, EverySector
<1>4. ItInv'
  BY <1>2, IdleLemma DEF DiskInv
<1>5. n \in Nat
  BY DEF DiskInv, PartsInv
<1>6. \A s : VolumeAt(s) \in Volumes \cup {NoVolume}
  <2>1. image \in Images
    BY DEF DiskInv, PartsInv
  <2>. QED  BY <2>1, DiskAssumption DEF VolumeAt
<1>7. ASSUME NEW k \in 1..n  PROVE PartNr(k - 1) \in PartType
  <2>. PICK p : p = part_get(k - 1)
    OBVIOUS
  <2>1. p \in Parts
    BY PartGetLemma DEF DiskInv
  <2>2. p.flags \in {"alloc", "unalloc", "meta"} /\ p.start \in Nat
    BY <2>1 DEF Parts
  <2>3. p.start * SectorSize \in Nat
    BY <2>2 DEF SectorSize
  <2>. QED  BY <1>6, <2>2, <2>3 DEF PartType
<1>. HIDE DEF PartNr, n
<1>8. d \in Seq(PartType) /\ Len(d) = n /\ DOMAIN d = 1..n
  BY <1>5, <1>7
<1>. PICK S : S = {k \in DOMAIN d : d[k].flags = "alloc"}
  OBVIOUS
<1>9. IsInOrder(InOrder(n, S), n, S)
  BY <1>5, InOrderLemma
<1>10. pending' \in Seq(1..n) /\ \A k \in 1..Len(pending') : d[pending'[k]].flags = "alloc"
  <2>. PICK o : o = InOrder(n, S)
    OBVIOUS
  <2>1. pending' = o
    BY <1>1, <1>8 DEF find_volumes
  <2>2. o \in Seq(1..n) /\ \A k \in 1..Len(o) : o[k] \in S
    BY <1>9 DEF IsInOrder
  <2>. QED  BY <2>1, <2>2
<1>11. visited = {} /\ looped = {}
  BY <1>1 DEF DiskInv, DiskTyped
<1>12. (dropped = None \/ IsDir(dropped))'
  BY <1>1 DEF DiskInv, DiskTyped, None
<1>13. DiskTyped'
  BY <1>1, <1>8, <1>10, <1>11, <1>12 DEF DiskTyped
<1>. QED  BY <1>3, <1>4, <1>13 DEF DiskInv

\* What is taken from the old iterator when its last call was made is a
\* directory or nothing.
LEMMA TakenLemma ==
    ASSUME ItInv, LastCall
    PROVE  TakenLast = None \/ IsDir(TakenLast)
BY LastCallLemma DEF TakenLast

\* What Switch finds in the list of volumes left.
LEMMA SwitchLemma ==
    ASSUME DiskTyped, CanSwitch(disk, pending)
    PROVE  /\ pending # <<>> /\ Top(pending) \in 1..Len(disk) /\ disk[Top(pending)].flags = "alloc"
           /\ disk[Top(pending)].volume \in VolumeType
<1>1. pending # <<>> /\ pending \in Seq(1..Len(disk)) /\ disk \in Seq(PartType)
  BY DEF CanSwitch, DiskTyped
<1>2. Len(pending) \in 1..Len(pending) /\ Top(pending) = pending[Len(pending)]
  BY <1>1 DEF Top
<1>3. Top(pending) \in 1..Len(disk) /\ disk[Top(pending)].flags = "alloc"
  BY <1>1, <1>2 DEF DiskTyped
<1>4. disk[Top(pending)] \in PartType
  BY <1>1, <1>3
<1>5. disk[Top(pending)].volume \in VolumeType
  BY <1>4, VolumesAssumption, NoVolumeLemma DEF PartType
<1>. QED  BY <1>1, <1>3, <1>5

\* The volumes left, when one is taken.
LEMMA PendingLemma ==
    ASSUME DiskTyped, pending # <<>>
    PROVE  /\ PopOf(pending) \in Seq(1..Len(disk))
           /\ \A k \in 1..Len(PopOf(pending)) : disk[PopOf(pending)[k]].flags = "alloc"
<1>1. pending \in Seq(1..Len(disk))
  BY DEF DiskTyped
<1>2. /\ PopOf(pending) \in Seq(1..Len(disk)) /\ Len(PopOf(pending)) = Len(pending) - 1
      /\ \A k \in 1..(Len(pending) - 1) : k \in 1..Len(pending) /\ PopOf(pending)[k] = pending[k]
  BY <1>1, PopLemma
<1>. QED  BY <1>2 DEF DiskTyped

\* Next goes on with the next volume, ends, or goes on within one.
LEMMA SwitchStep ==
    ASSUME ItInv, DiskTyped, Switch
    PROVE  ItInv' /\ DiskTyped'
<1>. PICK v : v = disk[Top(pending)].volume
  OBVIOUS
<1>1. /\ LastCall /\ CanSwitch(disk, pending) /\ dropped' = TakenLast
      /\ pending' = PopOf(pending) /\ visited' = visited \cup {Top(pending)} /\ looped' = FirstUndef /\ disk' = disk
      /\ vol' = v /\ fdstack' = StartOf(vol') /\ pathstack' = <<>> /\ inumstack' = {}
      /\ files' = NoFilesYet(vol') /\ result' = None
  BY DEF Switch
<1>2. /\ pending # <<>> /\ Top(pending) \in 1..Len(disk) /\ v \in VolumeType
  BY <1>1, SwitchLemma
<1>3. Fresh(v)'
  BY <1>1 DEF Fresh, None
<1>4. ItInv'
  BY <1>2, <1>3, FreshNext
<1>5. dropped' = None \/ IsDir(dropped')
  BY <1>1, TakenLemma
<1>6. DiskTyped'
  BY <1>1, <1>2, <1>5, PendingLemma DEF DiskTyped, None, FirstUndef
<1>. QED  BY <1>4, <1>6

LEMMA FinishStep ==
    ASSUME ItInv, DiskTyped, Finish
    PROVE  ItInv' /\ DiskTyped'
<1>1. /\ LastCall /\ disk' = disk /\ visited' = visited /\ looped' = FirstUndef
      /\ dropped' = IF fdstack = <<>> THEN dropped ELSE TakenLast
      /\ pending' = IF pending = <<>> THEN <<>> ELSE PopOf(pending)
  BY DEF Finish
<1>2. dropped' = None \/ IsDir(dropped')
  BY <1>1, TakenLemma DEF DiskTyped
<1>3. pending' \in Seq(1..Len(disk)) /\ \A k \in 1..Len(pending') : disk[pending'[k]].flags = "alloc"
  <2>1. CASE pending = <<>>
    BY <1>1, <2>1
  <2>2. CASE pending # <<>>
    BY <1>1, <2>2, PendingLemma
  <2>. QED  BY <2>1, <2>2
<1>4. DiskTyped'
  BY <1>1, <1>2, <1>3 DEF DiskTyped, None, FirstUndef
<1>. QED  BY <1>4, FinishKeepsInv

LEMMA WithinStep ==
    ASSUME ItInv, DiskTyped, WithinVolume
    PROVE  ItInv' /\ DiskTyped'
<1>1. DiskTyped'
  BY DEF WithinVolume, DiskTyped, None
<1>2. CASE Enter
  BY <1>1, <1>2, EnterKeepsInv
<1>3. CASE Exit
  <2>1. ExitIs
    BY <1>3 DEF Exit, ExitIs, IsDir
  <2>. QED  BY <1>1, <2>1, ExitKeepsInv
<1>4. CASE ReturnFile
  BY <1>1, <1>4, ReturnKeepsInv
<1>. QED  BY <1>2, <1>3, <1>4 DEF WithinVolume

\* Opening, constructing and iterating leave each other their parts.
LEMMA DiskStep ==
    ASSUME DiskInv, [NextOfDisk]_diskVars
    PROVE  DiskInv'
<1>1. CASE Open
  <2>1. PartsInv'
    BY <1>1, PartsStep DEF Open, DiskInv
  <2>2. ItInv'
    BY <1>1, IdleLemma DEF Open, DiskInv, allVars, fsVars
  <2>3. DiskTyped'
    BY <1>1 DEF Open, DiskInv, allVars, DiskTyped, None
  <2>. QED  BY <2>1, <2>2, <2>3 DEF DiskInv
<1>2. CASE New
  BY <1>2, NewStep
<1>3. CASE Iterate
  <2>1. NextNode /\ partsVars' = partsVars
    BY <1>3 DEF Iterate
  <2>2. PartsInv'
    BY <2>1 DEF partsVars, DiskInv, PartsInv, EverySector
  <2>3. ItInv' /\ DiskTyped'
    BY <2>1, WithinStep, SwitchStep, FinishStep DEF NextNode, DiskInv
  <2>. QED  BY <2>2, <2>3 DEF DiskInv
<1>4. CASE UNCHANGED diskVars
  <2>1. PartsInv'
    BY <1>4 DEF diskVars, partsVars, DiskInv, PartsInv, EverySector
  <2>2. ItInv'
    BY <1>4, IdleLemma DEF diskVars, allVars, fsVars, DiskInv
  <2>3. DiskTyped'
    BY <1>4 DEF diskVars, allVars, DiskInv, DiskTyped, None
  <2>. QED  BY <2>1, <2>2, <2>3 DEF DiskInv
<1>. QED  BY <1>1, <1>2, <1>3, <1>4 DEF NextOfDisk

\* The list of partitions being made, the files returned of one of them and the
\* types of both, from opening the volume system on (dos.c, mm_part.c, Iterator.pm).
THEOREM DiskInvariance == DiskSpec => []DiskInv
<1>1. InitDisk => DiskInv
  BY DiskStart
<1>2. DiskInv /\ [NextOfDisk]_diskVars => DiskInv'
  BY DiskStep
<1>. QED  BY <1>1, <1>2, PTL DEF DiskSpec

-------------------------------------------------------------------------------
(* What the invariant shows.                                               *)

\* With nothing left on the stack but directories that were entered, every
\* file that can be got to has been returned.
LEMMA AllReturned ==
    ASSUME ItInv, \A h : OnStack(h) => IsDir(h) /\ h.addr \in inumstack
    PROVE  \A e \in DOMAIN files : e[1] \in Reached(vol) => files[e] = 1
<1>1. /\ vol \in VolumeType /\ inumstack \subseteq Inodes \cup {NoAddr}
      /\ files \in [FilesIn(vol) -> Nat]
  BY DEF ItInv, ItTypes, TypeOK, FilesIn
<1>2. CASE vol = NoVolume
  BY <1>1, <1>2, NoVolumeLemma
<1>3. CASE vol # NoVolume
  <2>1. INumToDir(vol, vol.root).addr \in inumstack
    BY <1>3 DEF ItInv, DirsKept
  <2>2. ASSUME NEW a \in inumstack, NEW i \in DirEntries(vol, a)
        PROVE  Child(vol, a, i).addr \in inumstack
    BY DEF ItInv, DirsKept
  <2>3. ASSUME NEW a \in inumstack, NEW k \in DOMAIN SeparatedDirs(vol, a)
        PROVE  SeparatedDirs(vol, a)[k].addr \in inumstack
    <3>. PICK dirs : dirs = SeparatedDirs(vol, a)
      OBVIOUS
    <3>1. PICK idx : DirsOf(vol, a, dirs, idx)
      BY <1>1, SeparatedDirsLemma
    <3>2. /\ idx \in Seq(DirEntries(vol, a))
          /\ dirs = [j \in 1..Len(idx) |-> Child(vol, a, idx[j])]
      BY <3>1 DEF DirsOf
    <3>3. k \in 1..Len(idx) /\ idx[k] \in DirEntries(vol, a) /\ dirs[k] = Child(vol, a, idx[k])
      BY <3>2
    <3>. QED  BY <2>2, <3>3
  <2>4. Reached(vol) \subseteq inumstack
    BY <1>1, <2>1, <2>3 DEF Reached
  <2>5. ASSUME NEW e \in FilesIn(vol), e[1] \in inumstack
        PROVE  files[e] = 1
    <3>1. ~IsDir(FileHandle(e[1], e[2]))
      BY HandleLemma DEF IsDir
    <3>. QED  BY <2>5, <3>1 DEF ItInv, FilesOnce
  <2>. QED  BY <1>1, <2>4, <2>5
<1>. QED  BY <1>2, <1>3

\* So it is when the last call has been made of an iterator.
LEMMA LastCallReturned ==
    ASSUME ItInv, LastCall
    PROVE  \A e \in DOMAIN files : e[1] \in Reached(vol) => files[e] = 1
<1>1. ASSUME NEW h, OnStack(h)
      PROVE  IsDir(h) /\ h.addr \in inumstack
  <2>1. PICK k \in 1..Len(fdstack) : fdstack[k] = h
    BY <1>1 DEF OnStack
  <2>2. fdstack # <<>>
    BY <2>1
  <2>3. Len(fdstack) = 1 /\ IsDir(Top(fdstack)) /\ Top(fdstack).addr \in inumstack
    BY <2>2, LastCallLemma
  <2>4. h = Top(fdstack)
    BY <2>1, <2>3 DEF Top
  <2>. QED  BY <2>3, <2>4
<1>. QED  BY <1>1, AllReturned

\* mm_part.c:29-114: in whatever order the tables name partitions, the list is
\* sorted, and the number of a partition is its place.
THEOREM PartsStayInOrder == DiskSpec => []PartsInOrder
<1>1. DiskInv => PartsInOrder
  BY OrderLemma DEF DiskInv, PartsInv
<1>. QED  BY <1>1, DiskInvariance, PTL

\* mm_part.c:124-170: an open volume system accounts for every sector of the
\* image, and where partitions do not overlap for each of them once.
THEOREM SectorsAreAccountedFor == DiskSpec => []EverySectorHasAPart
<1>1. DiskInv => EverySectorHasAPart
  <2>1. ASSUME DiskInv, status = "open"  PROVE EverySectorHasAPart
    BY <2>1, EverySectorLemma, ImageLemma DEF DiskInv, PartsInv
  <2>. QED  BY <2>1 DEF EverySectorHasAPart
<1>. QED  BY <1>1, DiskInvariance, PTL

\* Iterator2.pm:54-127: only allocated partitions are left to iterate over, and
\* what next_node throws away between two volumes is a directory.
THEOREM VolumesTypes == DiskSpec => []VolumesTypeOK
<1>1. ASSUME DiskInv  PROVE VolumesTypeOK
  <2>1. /\ TypeOK /\ disk \in Seq(PartType) /\ pending \in Seq(1..Len(disk)) /\ visited \subseteq 1..Len(disk)
        /\ looped \subseteq visited
        /\ dropped = None \/ IsDir(dropped)
    BY <1>1 DEF DiskInv, DiskTyped, ItInv, ItTypes
  <2>2. DOMAIN disk = 1..Len(disk) /\ DOMAIN pending = 1..Len(pending)
    BY <2>1
  <2>3. \A k \in 1..Len(pending) : disk[pending[k]].flags = "alloc"
    BY <1>1 DEF DiskInv, DiskTyped
  <2>. QED  BY <2>1, <2>2, <2>3 DEF VolumesTypeOK, IsDir
<1>. QED  BY <1>1, DiskInvariance, PTL

\* Iterator.pm:185-219: whatever cycles or second names the directories of a
\* volume have, no file entry is returned twice.
THEOREM FilesOnlyOnce == DiskSpec => []NoFileTwice
<1>1. ASSUME DiskInv  PROVE NoFileTwice
  <2>1. DOMAIN files = FilesIn(vol)
    BY <1>1 DEF DiskInv, ItInv, ItTypes, TypeOK, FilesIn
  <2>. QED  BY <1>1, <2>1 DEF DiskInv, ItInv, FilesOnce, NoFileTwice
<1>. QED  BY <1>1, DiskInvariance, PTL

\* Iterator.pm:185-219: that directories seen before are skipped loses no file
\* of a directory that can be got to.
THEOREM EveryFileReturned == DiskSpec => []EveryFileInTheEnd
<1>1. ASSUME DiskInv, fdstack = <<>>
      PROVE  \A e \in DOMAIN files : e[1] \in Reached(vol) => files[e] = 1
  BY <1>1, LastCallReturned DEF DiskInv, LastCall
<1>2. DiskInv => EveryFileInTheEnd
  BY <1>1 DEF EveryFileInTheEnd
<1>. QED  BY <1>2, DiskInvariance, PTL

\* Iterator.pm:230-240: on a tree the names pushed and popped are the path of
\* the directory of the file that is returned.
THEOREM PathIsThatOfTheFile == DiskSpec => []PathLeadsToFile
<1>1. ASSUME DiskInv, IsTree(vol)
      PROVE  /\ IsPath(vol, pathstack)
             /\ result.type = "file" => pathstack # <<>> /\ Top(pathstack) = result.dir
  <2>1. PICK p : Follows(p)
    BY <1>1 DEF DiskInv, ItInv, PathKept
  <2>. QED  BY <2>1 DEF Follows, PathOfResult, IsFile
<1>2. DiskInv => PathLeadsToFile
  BY <1>1 DEF PathLeadsToFile
<1>. QED  BY <1>2, DiskInvariance, PTL

\* Iterator2.pm:105-127: by the time next_node changes volumes, and throws away
\* the node it has, every file of the old volume has been returned.
THEOREM NoFileIsLostAtSwitch == DiskSpec => NoFileLostAtSwitch
<1>1. ASSUME DiskInv, [NextOfDisk]_diskVars, visited' # visited
      PROVE  \A e \in DOMAIN files : e[1] \in Reached(vol) => files[e] = 1
  <2>1. CASE Switch
    BY <1>1, <2>1, LastCallReturned DEF Switch, DiskInv
  <2>2. Switch
    BY <1>1 DEF NextOfDisk, diskVars, allVars, Open, New, FindVolumes, Iterate, NextNode,
                WithinVolume, Finish
  <2>. QED  BY <2>1, <2>2
<1>2. DiskInv /\ [NextOfDisk]_diskVars =>
        [visited' # visited => \A e \in DOMAIN files : e[1] \in Reached(vol) => files[e] = 1]_allVars
  BY <1>1
<1>. QED  BY <1>2, DiskInvariance, PTL DEF DiskSpec, NoFileLostAtSwitch

-------------------------------------------------------------------------------
(* The chains of extended tables.                                          *)

\* What an entry of a table leads to.
LEMMA StartsLemma ==
    ASSUME NEW m, NEW s \in DOMAIN m.tables, m.tables[s] \in Seq(EntryType), NEW b, NEW type
    PROVE  \A x : x \in StartsIn(m, s, b, type) <=>
             \E i \in 1..Len(m.tables[s]) :
                /\ m.tables[s][i].type = type /\ m.tables[s][i].size # 0
                /\ x = b + m.tables[s][i].start
<1>1. DOMAIN m.tables[s] = 1..Len(m.tables[s])
  OBVIOUS
<1>2. ToSet(m.tables[s]) = {m.tables[s][i] : i \in 1..Len(m.tables[s])}
  BY <1>1 DEF ToSet
<1>. QED  BY <1>2 DEF StartsIn

\* A chain is the least set of tables that its first one is in and that links
\* do not lead out of.
LEMMA ChainLemma ==
    ASSUME NEW m, NEW b \in DOMAIN m.tables
    PROVE  /\ b \in Chain(m, b) /\ Chain(m, b) \subseteq DOMAIN m.tables
           /\ \A s \in Chain(m, b) : \A t \in StartsIn(m, s, b, "ext") :
                t \in DOMAIN m.tables => t \in Chain(m, b)
           /\ \A V \in SUBSET DOMAIN m.tables :
                b \in V /\ (\A s \in V : StartsIn(m, s, b, "ext") \cap DOMAIN m.tables \subseteq V) =>
                    Chain(m, b) \subseteq V
<1>. DEFINE Closed(S) == \A s \in S : StartsIn(m, s, b, "ext") \cap DOMAIN m.tables \subseteq S
<1>1. Chain(m, b) = {s \in DOMAIN m.tables :
                        \A S \in SUBSET DOMAIN m.tables : b \in S /\ Closed(S) => s \in S}
  BY DEF Chain
<1>2. ASSUME NEW s \in Chain(m, b), NEW t \in StartsIn(m, s, b, "ext"), t \in DOMAIN m.tables
      PROVE  t \in Chain(m, b)
  <2>1. ASSUME NEW S \in SUBSET DOMAIN m.tables, b \in S, Closed(S)
        PROVE  t \in S
    <3>1. s \in S
      BY <1>1, <2>1
    <3>. QED  BY <1>2, <2>1, <3>1
  <2>. QED  BY <1>1, <1>2, <2>1
<1>. QED  BY <1>1, <1>2

\* Chains begin behind the primary table.
LEMMA ChainStartLemma ==
    ASSUME PartsInv, NEW b \in ChainsOf(image)
    PROVE  b \in DOMAIN image.tables /\ b \in Nat /\ b # Primary
<1>1. b \in DOMAIN image.tables
  BY DEF ChainsOf
<1>. QED  BY <1>1, ImageLemma

\* The tables on the stack t: the primary one, then tables of chain b, and all
\* of these but the last at a link.
Stacked(m, t, b) ==
    /\ t[1].sector = Primary
    /\ Len(t) > 1 => b \in ChainsOf(m)
    /\ \A j \in 2..Len(t) : t[j].sector \in Chain(m, b) /\ t[j].sector # Primary
    /\ \A j \in 2..Len(t) : j < Len(t) =>
        \E i \in 1..Len(m.tables[t[j].sector]) :
            i < t[j].slot /\ m.tables[t[j].sector][i].type = "ext"

\* Slot i of the table in s is still to be read.
Awaits(t, s, i) == \E j \in 2..Len(t) : t[j].sector = s /\ t[j].slot <= i

\* What it names is listed, or among the tables V.
Seen(m, L, b, V, s, i) ==
    /\ m.tables[s][i].type = "data" => s + m.tables[s][i].start \in L
    /\ m.tables[s][i].type = "ext" /\ b + m.tables[s][i].start \in DOMAIN m.tables =>
        b + m.tables[s][i].start \in V

\* V are the tables of chain b come to so far.
Explored(m, t, L, b, V) ==
    /\ b \in V /\ V \subseteq DOMAIN m.tables
    /\ \A s \in V : \A i \in 1..Len(m.tables[s]) :
        m.tables[s][i].size # 0 => Awaits(t, s, i) \/ Seen(m, L, b, V, s, i)

ChainDone(m, L, b) == \A s \in Chain(m, b) : StartsIn(m, s, s, "data") \subseteq L

\* So far the primary table's partitions are listed, and the chains it begins
\* but for that being read.
PrimarySeen(m, t, L, b) ==
    \A i \in 1..Len(m.tables[Primary]) :
        i < t[1].slot /\ m.tables[Primary][i].size # 0 =>
            /\ m.tables[Primary][i].type = "data" => Primary + m.tables[Primary][i].start \in L
            /\ m.tables[Primary][i].type = "ext"
                 /\ Primary + m.tables[Primary][i].start \in DOMAIN m.tables =>
                    \/ ChainDone(m, L, Primary + m.tables[Primary][i].start)
                    \/ Len(t) > 1 /\ b = Primary + m.tables[Primary][i].start

Reading(m, t, L, b) ==
    /\ Stacked(m, t, b)
    /\ LinksAreLast(m) =>
        /\ PrimarySeen(m, t, L, b)
        /\ Len(t) > 1 => \E V : Explored(m, t, L, b, V)

ChainInv ==
    /\ Listed(list) \subseteq DataStarts(image)
    /\ status = "loading" => Reading(image, tables, Listed(list), base)
    /\ status \in {"loaded", "open"} /\ LinksAreLast(image) => DataStarts(image) \subseteq Listed(list)

\* Once nothing of a chain is still to be read, it is listed.
LEMMA ChainDoneLemma ==
    ASSUME PartsInv, NEW t, NEW L, NEW b, NEW V, Explored(image, t, L, b, V),
           \A s \in V : \A i \in 1..Len(image.tables[s]) :
                image.tables[s][i].size # 0 => ~Awaits(t, s, i) \/ Seen(image, L, b, V, s, i)
    PROVE  ChainDone(image, L, b)
<1>1. /\ b \in V /\ V \subseteq DOMAIN image.tables
      /\ \A s \in V : \A i \in 1..Len(image.tables[s]) :
            image.tables[s][i].size # 0 => Seen(image, L, b, V, s, i)
  BY DEF Explored
<1>2. \A s \in V : s \in DOMAIN image.tables /\ image.tables[s] \in Seq(EntryType)
  BY <1>1, ImageLemma
<1>3. ASSUME NEW s \in V  PROVE StartsIn(image, s, b, "ext") \cap DOMAIN image.tables \subseteq V
  <2>1. ASSUME NEW x \in StartsIn(image, s, b, "ext"), x \in DOMAIN image.tables  PROVE x \in V
    <3>1. PICK i \in 1..Len(image.tables[s]) :
            /\ image.tables[s][i].type = "ext" /\ image.tables[s][i].size # 0
            /\ x = b + image.tables[s][i].start
      BY <1>2, StartsLemma
    <3>. QED  BY <1>1, <2>1, <3>1 DEF Seen
  <2>. QED  BY <2>1
<1>4. Chain(image, b) \subseteq V
  BY <1>1, <1>3, ChainLemma
<1>5. ASSUME NEW s \in V  PROVE StartsIn(image, s, s, "data") \subseteq L
  <2>1. ASSUME NEW x \in StartsIn(image, s, s, "data")  PROVE x \in L
    <3>1. PICK i \in 1..Len(image.tables[s]) :
            /\ image.tables[s][i].type = "data" /\ image.tables[s][i].size # 0
            /\ x = s + image.tables[s][i].start
      BY <1>2, StartsLemma
    <3>. QED  BY <1>1, <3>1 DEF Seen
  <2>. QED  BY <2>1
<1>. QED  BY <1>4, <1>5 DEF ChainDone

\* The tables on the stack, when a slot of the last one has been read.
LEMMA MovedOn ==
    ASSUME PartsInv, status = "loading", Slot <= Len(Table)
    PROVE  /\ Len(Advanced) = Len(tables) /\ Len(tables) \in Nat \ {0}
           /\ \A j \in 1..Len(tables) : /\ Advanced[j].sector = tables[j].sector
                                        /\ tables[j].sector \in DOMAIN image.tables
                                        /\ tables[j].slot \in Nat \ {0}
           /\ \A j \in 1..Len(tables) : j # Len(tables) => Advanced[j].slot = tables[j].slot
           /\ Advanced[Len(tables)].slot = Slot + 1 /\ Slot \in Nat \ {0}
           /\ tables[Len(tables)].slot = Slot /\ tables[Len(tables)].sector = Sector
           /\ Sector \in DOMAIN image.tables /\ Sector \in Nat
           /\ Slot \in 1..Len(image.tables[Sector]) /\ image.tables[Sector][Slot] = Entry
           /\ Len(image.tables[Sector]) \in Nat
BY TableLemma, AdvancedLemma

\* More is listed, and entries that were seen stay so.
LEMMA SeenLater ==
    ASSUME NEW m, NEW L, NEW M, L \subseteq M, NEW b
    PROVE  /\ \A V, W, s, i : V \subseteq W /\ Seen(m, L, b, V, s, i) => Seen(m, M, b, W, s, i)
           /\ \A t : ChainDone(m, L, t) => ChainDone(m, M, t)
BY DEF Seen, ChainDone

\* A slot is passed that adds a partition, or that leads to no table.
LEMMA AdvanceReading ==
    ASSUME PartsInv, status = "loading", Slot <= Len(Table),
           NEW L, NEW M, L \subseteq M, Reading(image, tables, L, base),
           Entry.size # 0 /\ Entry.type = "data" => Sector + Entry.start \in M,
           Entry.size # 0 /\ Entry.type = "ext" => Linked \notin DOMAIN image.tables
    PROVE  Reading(image, Advanced, M, base)
<1>. DEFINE n == Len(tables)
<1>. PICK a : a = Advanced
  OBVIOUS
<1>1. /\ Len(a) = n /\ n \in Nat \ {0}
      /\ \A j \in 1..n : a[j].sector = tables[j].sector /\ tables[j].slot \in Nat \ {0}
      /\ \A j \in 1..n : j # n => a[j].slot = tables[j].slot
      /\ a[n].slot = Slot + 1 /\ Slot \in Nat \ {0} /\ tables[n].slot = Slot /\ tables[n].sector = Sector
      /\ Slot \in 1..Len(image.tables[Sector]) /\ image.tables[Sector][Slot] = Entry
      /\ Len(image.tables[Sector]) \in Nat
  BY MovedOn
<1>2. Linked = (IF n = 1 THEN Primary ELSE base) + Entry.start
  BY DEF Linked, LinkBase, InPrimary
<1>3. Stacked(image, tables, base)
  BY DEF Reading
<1>. HIDE DEF n
<1>4. Stacked(image, a, base)
  <2>1. 1 \in 1..n /\ \A j \in 2..n : j \in 1..n /\ (j < n => j # n)
    BY <1>1
  <2>2. a[1].sector = Primary
    BY <1>1, <1>3, <2>1 DEF Stacked
  <2>3. \A j \in 2..n : a[j].sector \in Chain(image, base) /\ a[j].sector # Primary
    BY <1>1, <1>3, <2>1 DEF Stacked, n
  <2>4. ASSUME NEW j \in 2..n, j < n
        PROVE  \E i \in 1..Len(image.tables[a[j].sector]) :
                  i < a[j].slot /\ image.tables[a[j].sector][i].type = "ext"
    <3>1. a[j].sector = tables[j].sector /\ a[j].slot = tables[j].slot
      BY <1>1, <2>1, <2>4
    <3>. QED  BY <1>3, <2>4, <3>1 DEF Stacked, n
  <2>5. n > 1 => base \in ChainsOf(image)
    BY <1>3 DEF Stacked, n
  <2>. QED  BY <1>1, <2>2, <2>3, <2>4, <2>5 DEF Stacked
<1>5. ASSUME LinksAreLast(image)
      PROVE  PrimarySeen(image, a, M, base)
  <2>1. PrimarySeen(image, tables, L, base)
    BY <1>5 DEF Reading
  <2>2. ASSUME NEW i \in 1..Len(image.tables[Primary]), i < a[1].slot, image.tables[Primary][i].size # 0
        PROVE  /\ image.tables[Primary][i].type = "data" => Primary + image.tables[Primary][i].start \in M
               /\ image.tables[Primary][i].type = "ext"
                    /\ Primary + image.tables[Primary][i].start \in DOMAIN image.tables =>
                       \/ ChainDone(image, M, Primary + image.tables[Primary][i].start)
                       \/ n > 1 /\ base = Primary + image.tables[Primary][i].start
    <3>1. CASE i < tables[1].slot
      <4>1. /\ image.tables[Primary][i].type = "data" => Primary + image.tables[Primary][i].start \in L
            /\ image.tables[Primary][i].type = "ext"
                 /\ Primary + image.tables[Primary][i].start \in DOMAIN image.tables =>
                    \/ ChainDone(image, L, Primary + image.tables[Primary][i].start)
                    \/ n > 1 /\ base = Primary + image.tables[Primary][i].start
        BY <2>1, <2>2, <3>1 DEF PrimarySeen, n
      <4>. QED  BY <4>1, SeenLater
    <3>2. CASE ~(i < tables[1].slot)
      <4>1. n = 1
        BY <1>1, <2>2, <3>2
      <4>2. i = Slot /\ Sector = Primary
        BY <1>1, <1>3, <2>2, <3>2, <4>1 DEF Stacked
      <4>3. image.tables[Primary][i] = Entry /\ Linked = Primary + Entry.start
        BY <1>1, <1>2, <4>1, <4>2
      <4>. QED  BY <2>2, <4>2, <4>3
    <3>. QED  BY <3>1, <3>2
  <2>. QED  BY <1>1, <2>2 DEF PrimarySeen
<1>6. ASSUME LinksAreLast(image), n > 1
      PROVE  \E V : Explored(image, a, M, base, V)
  <2>1. PICK V : Explored(image, tables, L, base, V)
    BY <1>6 DEF Reading, n
  <2>2. ASSUME NEW s \in V, NEW i \in 1..Len(image.tables[s]), image.tables[s][i].size # 0
        PROVE  Awaits(a, s, i) \/ Seen(image, M, base, V, s, i)
    <3>1. CASE Seen(image, L, base, V, s, i)
      BY <3>1, SeenLater
    <3>2. CASE Awaits(tables, s, i)
      <4>1. PICK j \in 2..n : tables[j].sector = s /\ tables[j].slot <= i
        BY <3>2 DEF Awaits, n
      <4>2. j \in 1..n /\ a[j].sector = s /\ i \in Nat
        BY <1>1, <4>1
      <4>3. CASE a[j].slot <= i
        BY <1>1, <4>1, <4>2, <4>3 DEF Awaits
      <4>4. CASE ~(a[j].slot <= i)
        <5>1. j = n
          BY <1>1, <4>1, <4>2, <4>4
        <5>2. i = Slot /\ s = Sector
          BY <1>1, <4>1, <4>2, <4>4, <5>1
        <5>3. image.tables[s][i] = Entry /\ Linked = base + Entry.start
          BY <1>1, <1>2, <1>6, <5>2
        <5>. QED  BY <2>2, <5>2, <5>3 DEF Seen
      <4>. QED  BY <4>3, <4>4
    <3>. QED  BY <2>1, <2>2, <3>1, <3>2 DEF Explored
  <2>3. Explored(image, a, M, base, V)
    BY <2>1, <2>2 DEF Explored
  <2>. QED  BY <2>3
<1>. QED  BY <1>1, <1>4, <1>5, <1>6 DEF Reading

\* A chain is begun or gone on with.
LEMMA EnterReading ==
    ASSUME PartsInv, EnterExtended, NEW L, Reading(image, tables, L, base)
    PROVE  Reading(image, tables', L, base')
<1>. DEFINE n == Len(tables)
<1>. PICK t, b : t = tables' /\ b = base'
  OBVIOUS
<1>1. /\ status = "loading" /\ Slot <= Len(Table) /\ Entry.size # 0 /\ Entry.type = "ext"
      /\ Linked \in DOMAIN image.tables /\ b = IF n = 1 THEN Linked ELSE base
  BY LinkedLemma DEF EnterExtended, InPrimary
<1>2. /\ n \in Nat \ {0}
      /\ \A j \in 1..n : tables[j].slot \in Nat \ {0}
      /\ Slot \in Nat \ {0} /\ tables[n].slot = Slot /\ tables[n].sector = Sector
      /\ Sector \in DOMAIN image.tables /\ Sector \in Nat
      /\ Slot \in 1..Len(image.tables[Sector]) /\ image.tables[Sector][Slot] = Entry
      /\ image.tables[Sector] \in Seq(EntryType)
  BY <1>1, MovedOn, TableLemma
<1>3. /\ Len(t) = n + 1 /\ t[n + 1].sector = Linked /\ t[n + 1].slot = 1
      /\ \A j \in 1..n : t[j].sector = tables[j].sector
      /\ \A j \in 1..n : j # n => t[j].slot = tables[j].slot
      /\ t[n].slot = Slot + 1
  <2>1. /\ Len(t) = n + 1 /\ t[n + 1].sector = Linked /\ t[n + 1].slot = 1
        /\ \A j \in 1..n : t[j] = Advanced[j]
    BY EnteredTable
  <2>. PICK a : a = Advanced
    OBVIOUS
  <2>2. /\ \A j \in 1..n : a[j].sector = tables[j].sector
        /\ \A j \in 1..n : j # n => a[j].slot = tables[j].slot
        /\ a[n].slot = Slot + 1 /\ n \in 1..n
    BY <1>1, <1>2, MovedOn
  <2>. QED  BY <2>1, <2>2
<1>4. Linked = (IF n = 1 THEN Primary ELSE base) + Entry.start
  BY DEF Linked, LinkBase, InPrimary
<1>5. Stacked(image, tables, base)
  BY DEF Reading
<1>. HIDE DEF n
<1>6. Linked \in StartsIn(image, Sector, IF n = 1 THEN Primary ELSE base, "ext")
  BY <1>1, <1>2, <1>4, StartsLemma
<1>7. CASE n = 1
  <2>1. b = Linked /\ Sector = Primary /\ Linked \in ChainsOf(image)
    BY <1>1, <1>2, <1>5, <1>6, <1>7 DEF Stacked, ChainsOf
  <2>2. Linked # Primary /\ Linked \in Chain(image, Linked)
    BY <1>1, <2>1, ChainStartLemma, ChainLemma
  <2>3. Len(t) = 2 /\ t[2].sector = Linked /\ t[2].slot = 1 /\ t[1].sector = Primary /\ t[1].slot = Slot + 1
        /\ tables[1].slot = Slot
    BY <1>2, <1>3, <1>5, <1>7 DEF Stacked
  <2>4. Stacked(image, t, b)
    BY <2>1, <2>2, <2>3 DEF Stacked
  <2>5. ASSUME LinksAreLast(image)
        PROVE  PrimarySeen(image, t, L, b)
    <3>1. PrimarySeen(image, tables, L, base)
      BY <2>5 DEF Reading
    <3>2. ASSUME NEW i \in 1..Len(image.tables[Primary]), i < t[1].slot, image.tables[Primary][i].size # 0
          PROVE  /\ image.tables[Primary][i].type = "data" => Primary + image.tables[Primary][i].start \in L
                 /\ image.tables[Primary][i].type = "ext"
                      /\ Primary + image.tables[Primary][i].start \in DOMAIN image.tables =>
                         \/ ChainDone(image, L, Primary + image.tables[Primary][i].start)
                         \/ b = Primary + image.tables[Primary][i].start
      <4>1. CASE i < tables[1].slot
        <5>1. ~(Len(tables) > 1)
          BY <1>7 DEF n
        <5>. QED  BY <3>1, <3>2, <4>1, <5>1 DEF PrimarySeen
      <4>2. CASE ~(i < tables[1].slot)
        <5>1. i = Slot
          BY <1>2, <2>3, <3>2, <4>2
        <5>2. image.tables[Primary][i] = Entry /\ Linked = Primary + Entry.start
          BY <1>2, <1>4, <1>7, <2>1, <5>1
        <5>. QED  BY <1>1, <2>1, <5>2
      <4>. QED  BY <4>1, <4>2
    <3>3. Len(t) > 1
      BY <2>3
    <3>. QED  BY <3>2, <3>3 DEF PrimarySeen
  <2>6. Explored(image, t, L, b, {Linked})
    <3>1. \A i \in 1..Len(image.tables[Linked]) : Awaits(t, Linked, i)
      <4>1. 2 \in 2..Len(t)
        BY <2>3
      <4>. QED  BY <2>3, <4>1 DEF Awaits
    <3>. QED  BY <1>1, <2>1, <3>1 DEF Explored
  <2>7. Reading(image, t, L, b)
    BY <2>4, <2>5, <2>6 DEF Reading
  <2>. QED  BY <2>7
<1>8. CASE n # 1
  <2>1. b = base /\ n > 1 /\ n \in 2..n
    BY <1>1, <1>2, <1>8
  <2>2. base \in ChainsOf(image) /\ Sector \in Chain(image, base) /\ Sector # Primary
    BY <1>2, <1>5, <2>1 DEF Stacked, n
  <2>3. Linked \in StartsIn(image, Sector, base, "ext")
    BY <1>6, <1>8
  <2>4. base \in DOMAIN image.tables /\ base \in Nat /\ base # Primary
    BY <2>2, ChainStartLemma
  <2>5. Linked \in Chain(image, base) /\ Linked \in Nat
    BY <1>1, <2>2, <2>3, <2>4, ChainLemma, ImageLemma
  <2>6. Linked # Primary
    <3>1. Linked = base + Entry.start
      BY <1>4, <1>8
    <3>2. Entry.start \in Nat
      BY <1>1, TableLemma
    <3>. QED  BY <2>4, <3>1, <3>2 DEF Primary
  <2>7. Stacked(image, t, b)
    <3>1. t[1].sector = Primary
      BY <1>2, <1>3, <1>5 DEF Stacked
    <3>2. ASSUME NEW j \in 2..(n + 1)
          PROVE  t[j].sector \in Chain(image, base) /\ t[j].sector # Primary
      <4>1. CASE j = n + 1
        BY <1>3, <2>5, <2>6, <4>1
      <4>2. CASE j # n + 1
        <5>1. j \in 2..n /\ j \in 1..n
          BY <1>2, <4>2
        <5>. QED  BY <1>3, <1>5, <5>1 DEF Stacked, n
      <4>. QED  BY <4>1, <4>2
    <3>3. ASSUME NEW j \in 2..(n + 1), j < n + 1
          PROVE  \E i \in 1..Len(image.tables[t[j].sector]) :
                    i < t[j].slot /\ image.tables[t[j].sector][i].type = "ext"
      <4>1. j \in 2..n /\ j \in 1..n
        BY <1>2, <3>3
      <4>2. CASE j = n
        <5>1. t[j].sector = Sector /\ t[j].slot = Slot + 1 /\ Slot < Slot + 1
          BY <1>2, <1>3, <4>1, <4>2
        <5>. QED  BY <1>1, <1>2, <5>1
      <4>3. CASE j # n
        <5>1. j < n /\ t[j].sector = tables[j].sector /\ t[j].slot = tables[j].slot
          BY <1>2, <1>3, <4>1, <4>3
        <5>. QED  BY <1>5, <4>1, <5>1 DEF Stacked, n
      <4>. QED  BY <4>2, <4>3
    <3>. QED  BY <1>3, <2>1, <2>2, <3>1, <3>2, <3>3 DEF Stacked
  <2>8. ASSUME LinksAreLast(image)
        PROVE  PrimarySeen(image, t, L, b)
    <3>1. PrimarySeen(image, tables, L, base)
      BY <2>8 DEF Reading
    <3>2. t[1].slot = tables[1].slot /\ Len(t) > 1
      BY <1>2, <1>3, <2>1
    <3>. QED  BY <2>1, <3>1, <3>2 DEF PrimarySeen
  <2>9. ASSUME LinksAreLast(image)
        PROVE  \E V : Explored(image, t, L, b, V)
    <3>1. PICK V : Explored(image, tables, L, base, V)
      BY <2>1, <2>9 DEF Reading, n
    <3>. PICK W : W = V \cup {Linked}
      OBVIOUS
    <3>2. ASSUME NEW i \in 1..Len(image.tables[Linked])
          PROVE  Awaits(t, Linked, i)
      <4>1. n + 1 \in 2..Len(t)
        BY <1>2, <1>3, <2>1
      <4>. QED  BY <1>3, <4>1 DEF Awaits
    <3>3. ASSUME NEW s \in V, NEW i \in 1..Len(image.tables[s]), image.tables[s][i].size # 0
          PROVE  Awaits(t, s, i) \/ Seen(image, L, base, W, s, i)
      <4>1. CASE Seen(image, L, base, V, s, i)
        BY <4>1, SeenLater
      <4>2. CASE Awaits(tables, s, i)
        <5>1. PICK j \in 2..n : tables[j].sector = s /\ tables[j].slot <= i
          BY <4>2 DEF Awaits, n
        <5>2. j \in 1..n /\ j \in 2..Len(t) /\ t[j].sector = s /\ i \in Nat
          BY <1>2, <1>3, <5>1
        <5>3. CASE t[j].slot <= i
          BY <5>2, <5>3 DEF Awaits
        <5>4. CASE ~(t[j].slot <= i)
          <6>1. j = n
            BY <1>2, <1>3, <5>1, <5>2, <5>4
          <6>2. i = Slot /\ s = Sector
            BY <1>2, <1>3, <5>1, <5>2, <5>4, <6>1
          <6>3. image.tables[s][i] = Entry /\ Linked = base + Entry.start
            BY <1>2, <1>4, <1>8, <6>2
          <6>. QED  BY <1>1, <6>3 DEF Seen
        <5>. QED  BY <5>3, <5>4
      <4>. QED  BY <3>1, <3>3, <4>1, <4>2 DEF Explored
    <3>4. Explored(image, t, L, b, W)
      BY <1>1, <2>1, <3>1, <3>2, <3>3 DEF Explored
    <3>. QED  BY <3>4
  <2>10. Reading(image, t, L, b)
    BY <2>7, <2>8, <2>9 DEF Reading
  <2>. QED  BY <2>10
<1>. QED  BY <1>7, <1>8

\* A table's last slot is behind it; or its chain is given up, at a link.
LEMMA PopReading ==
    ASSUME PartsInv, status = "loading", ~InPrimary, Slot > Len(Table),
           NEW L, Reading(image, tables, L, base)
    PROVE  Reading(image, PopOf(tables), L, base)
<1>. DEFINE n == Len(tables)
<1>. PICK t : t = PopOf(tables)
  OBVIOUS
<1>1. /\ n \in Nat \ {0} /\ n # 1 /\ tables # <<>> /\ tables \in Seq(LoadType(image))
      /\ tables[n].slot = Slot /\ tables[n].sector = Sector /\ Slot \in Nat
      /\ Slot > Len(image.tables[Sector]) /\ Len(image.tables[Sector]) \in Nat
      /\ \A j \in 1..n : tables[j].sector \in DOMAIN image.tables /\ tables[j].slot \in Nat \ {0}
  BY TableLemma DEF InPrimary, PartsInv
<1>2. Len(t) = n - 1 /\ \A j \in 1..(n - 1) : t[j] = tables[j]
  BY <1>1, PopLemma
<1>3. Stacked(image, tables, base)
  BY DEF Reading
<1>. HIDE DEF n
<1>4. /\ n - 1 \in Nat \ {0} /\ 1 \in 1..(n - 1) /\ \A j \in 2..(n - 1) : j \in 1..(n - 1) /\ j \in 2..n /\ j < n
      /\ n > 1 /\ \A j \in 2..n : j \in 2..(n - 1) \/ j = n
  BY <1>1
<1>5. Stacked(image, t, base)
  <2>1. t[1].sector = Primary
    BY <1>2, <1>3, <1>4 DEF Stacked
  <2>2. ASSUME NEW j \in 2..(n - 1)
        PROVE  /\ t[j].sector \in Chain(image, base) /\ t[j].sector # Primary
               /\ \E i \in 1..Len(image.tables[t[j].sector]) :
                    i < t[j].slot /\ image.tables[t[j].sector][i].type = "ext"
    <3>1. t[j] = tables[j] /\ j \in 2..n /\ j < n
      BY <1>2, <1>4
    <3>. QED  BY <1>3, <3>1 DEF Stacked, n
  <2>3. base \in ChainsOf(image)
    BY <1>3, <1>4 DEF Stacked, n
  <2>. QED  BY <1>2, <2>1, <2>2, <2>3 DEF Stacked
<1>6. ASSUME LinksAreLast(image)
      PROVE  /\ PrimarySeen(image, t, L, base)
             /\ Len(t) > 1 => \E V : Explored(image, t, L, base, V)
  <2>1. PrimarySeen(image, tables, L, base) /\ t[1] = tables[1]
    BY <1>2, <1>4, <1>6 DEF Reading
  <2>2. PICK V : Explored(image, tables, L, base, V)
    BY <1>4, <1>6 DEF Reading, n
  <2>3. ASSUME NEW s, NEW i \in 1..Len(image.tables[s]), Awaits(tables, s, i)
        PROVE  Len(t) > 1 /\ Awaits(t, s, i)
    <3>1. PICK j \in 2..n : tables[j].sector = s /\ tables[j].slot <= i
      BY <2>3 DEF Awaits, n
    <3>2. j # n
      BY <1>1, <3>1
    <3>3. j \in 2..(n - 1) /\ t[j] = tables[j]
      BY <1>2, <1>4, <3>1, <3>2
    <3>4. n - 1 > 1
      BY <1>4, <3>3
    <3>. QED  BY <1>2, <3>1, <3>3, <3>4 DEF Awaits
  <2>4. CASE Len(t) > 1
    <3>1. PrimarySeen(image, t, L, base)
      BY <1>4, <2>1, <2>4 DEF PrimarySeen, n
    <3>2. Explored(image, t, L, base, V)
      BY <2>2, <2>3 DEF Explored
    <3>. QED  BY <3>1, <3>2
  <2>5. CASE ~(Len(t) > 1)
    <3>1. ChainDone(image, L, base)
      BY <2>2, <2>3, <2>5, ChainDoneLemma
    <3>. QED  BY <2>1, <2>5, <3>1 DEF PrimarySeen
  <2>. QED  BY <2>4, <2>5
<1>7. Reading(image, t, L, base)
  BY <1>5, <1>6 DEF Reading
<1>. QED  BY <1>7

\* A broken link: the primary table goes on, with all of the chain listed.
LEMMA LoseReading ==
    ASSUME PartsInv, LoseChain, NEW L, Reading(image, tables, L, base)
    PROVE  Reading(image, tables', L, base)
<1>. DEFINE n == Len(tables)
<1>1. /\ status = "loading" /\ Slot <= Len(Table) /\ Entry.size # 0 /\ Entry.type = "ext"
      /\ Linked \notin DOMAIN image.tables /\ tables' = Unwound
  BY LinkedLemma DEF LoseChain
<1>2. /\ n \in Nat \ {0} /\ tables \in Seq(LoadType(image))
      /\ \A j \in 1..n : tables[j].slot \in Nat \ {0} /\ tables[j].sector \in DOMAIN image.tables
      /\ Slot \in Nat \ {0} /\ tables[n].slot = Slot /\ tables[n].sector = Sector
      /\ Slot \in 1..Len(image.tables[Sector]) /\ image.tables[Sector][Slot] = Entry
  BY <1>1, MovedOn DEF PartsInv
<1>3. CASE InPrimary
  <2>1. Reading(image, Advanced, L, base)
    BY <1>1, AdvanceReading
  <2>2. tables' = Advanced
    <3>. PICK x : x = tables[1]
      OBVIOUS
    <3>. PICK y : y = [x EXCEPT !.slot = @ + 1]
      OBVIOUS
    <3>1. tables' = <<y>>
      BY <1>1, <1>3 DEF Unwound
    <3>2. Advanced = [tables EXCEPT ![1] = y] /\ n = 1
      BY <1>3 DEF Advanced, InPrimary
    <3>3. tables = <<x>>
      BY <1>2, <3>2
    <3>. QED  BY <3>1, <3>2, <3>3
  <2>. QED  BY <2>1, <2>2
<1>4. CASE ~InPrimary
  <2>. PICK t : t = tables'
    OBVIOUS
  <2>1. n # 1 /\ n > 1 /\ n \in 2..n /\ \A j \in 2..n : j \in 1..n
    <3>1. n # 1 /\ n \in Nat \ {0}
      BY <1>2, <1>4 DEF InPrimary
    <3>. HIDE DEF n
    <3>. QED  BY <3>1
  <2>2. t = <<tables[1]>>
    <3>1. 1 \in 1..n
      BY <1>2
    <3>2. tables[1] \in LoadType(image)
      BY <1>2, <3>1
    <3>3. [tables[1] EXCEPT !.slot = @] = tables[1]
      BY <3>2 DEF LoadType
    <3>4. t = <<[tables[1] EXCEPT !.slot = @]>>
      BY <1>1, <1>4 DEF Unwound
    <3>. QED  BY <3>3, <3>4
  <2>3. Len(t) = 1 /\ t[1] = tables[1]
    BY <2>2
  <2>4. Stacked(image, tables, base)
    BY DEF Reading
  <2>5. Stacked(image, t, base)
    BY <2>3, <2>4 DEF Stacked
  <2>. HIDE DEF n
  <2>6. ASSUME LinksAreLast(image)
        PROVE  PrimarySeen(image, t, L, base)
    <3>1. PICK V : Explored(image, tables, L, base, V)
      BY <2>1, <2>6 DEF Reading, n
    <3>2. ASSUME NEW s \in V, NEW i \in 1..Len(image.tables[s]), image.tables[s][i].size # 0,
                 Awaits(tables, s, i)
          PROVE  Seen(image, L, base, V, s, i)
      <4>1. PICK j \in 2..n : tables[j].sector = s /\ tables[j].slot <= i
        BY <3>2 DEF Awaits, n
      <4>2. s \in DOMAIN image.tables /\ s # Primary /\ image.tables[s] \in Seq(EntryType)
        BY <1>2, <2>1, <2>4, <4>1, ImageLemma DEF Stacked, n
      <4>3. DOMAIN image.tables[s] = 1..Len(image.tables[s])
        BY <4>2
      <4>4. \A k \in 1..Len(image.tables[s]) : k < i => image.tables[s][k].type # "ext"
        BY <2>6, <3>2, <4>2, <4>3 DEF LinksAreLast
      <4>5. CASE j = n
        <5>1. s = Sector /\ Slot <= i
          BY <1>2, <4>1, <4>5
        <5>2. ~(Slot < i)
          BY <1>1, <1>2, <4>4, <5>1
        <5>3. i = Slot
          BY <1>2, <5>1, <5>2
        <5>4. image.tables[s][i] = Entry /\ Linked = base + Entry.start
          BY <1>2, <2>1, <5>1, <5>3 DEF Linked, LinkBase, InPrimary, n
        <5>. QED  BY <1>1, <5>4 DEF Seen
      <4>6. CASE j # n
        <5>1. j < n
          BY <1>2, <4>1, <4>6
        <5>2. PICK k \in 1..Len(image.tables[s]) : k < tables[j].slot /\ image.tables[s][k].type = "ext"
          BY <2>4, <4>1, <5>1 DEF Stacked, n
        <5>3. k < i
          BY <1>2, <2>1, <4>1, <5>2
        <5>. QED  BY <4>4, <5>2, <5>3
      <4>. QED  BY <4>5, <4>6
    <3>3. ChainDone(image, L, base)
      BY <3>1, <3>2, ChainDoneLemma
    <3>4. PrimarySeen(image, tables, L, base)
      BY <2>6 DEF Reading
    <3>. QED  BY <2>3, <3>3, <3>4 DEF PrimarySeen
  <2>7. Reading(image, t, L, base)
    BY <2>3, <2>5, <2>6 DEF Reading
  <2>. QED  BY <2>7
<1>. QED  BY <1>3, <1>4

\* A partition in a table that is read is one of those that the image has.
LEMMA DataStartsLemma ==
    ASSUME PartsInv, status = "loading", Slot <= Len(Table), Stacked(image, tables, base),
           Entry.size # 0, Entry.type = "data"
    PROVE  Sector + Entry.start \in DataStarts(image)
<1>. DEFINE n == Len(tables)
<1>1. /\ n \in Nat \ {0} /\ tables[n].sector = Sector
      /\ Sector \in DOMAIN image.tables /\ image.tables[Sector] \in Seq(EntryType)
      /\ Slot \in 1..Len(image.tables[Sector]) /\ image.tables[Sector][Slot] = Entry
  BY MovedOn, TableLemma
<1>2. Sector + Entry.start \in StartsIn(image, Sector, Sector, "data")
  BY <1>1, StartsLemma
<1>3. CASE n = 1
  <2>1. Sector = Primary
    BY <1>1, <1>3 DEF Stacked
  <2>. QED  BY <1>2, <2>1 DEF DataStarts
<1>4. CASE n # 1
  <2>1. n > 1 /\ n \in 2..n
    <3>. HIDE DEF n
    <3>. QED  BY <1>1, <1>4
  <2>2. base \in ChainsOf(image) /\ Sector \in Chain(image, base)
    BY <1>1, <2>1 DEF Stacked
  <2>. QED  BY <1>2, <2>2 DEF DataStarts
<1>. QED  BY <1>3, <1>4

\* When the last slot of the primary table is behind it, everything is listed.
LEMMA AllListed ==
    ASSUME PartsInv, status = "loading", InPrimary, Slot > Len(Table),
           NEW L, Reading(image, tables, L, base), LinksAreLast(image)
    PROVE  DataStarts(image) \subseteq L
<1>1. /\ tables[1].sector = Primary /\ tables[1].slot = Slot /\ Slot \in Nat
      /\ Primary \in DOMAIN image.tables /\ image.tables[Primary] \in Seq(EntryType)
      /\ Slot > Len(image.tables[Primary]) /\ Len(image.tables[Primary]) \in Nat
  BY TableLemma DEF InPrimary, Reading, Stacked
<1>2. PrimarySeen(image, tables, L, base) /\ ~(Len(tables) > 1)
  BY DEF Reading, InPrimary
<1>3. \A i \in 1..Len(image.tables[Primary]) : i < tables[1].slot
  BY <1>1
<1>4. StartsIn(image, Primary, Primary, "data") \subseteq L
  <2>1. ASSUME NEW x \in StartsIn(image, Primary, Primary, "data")  PROVE x \in L
    <3>1. PICK i \in 1..Len(image.tables[Primary]) :
            /\ image.tables[Primary][i].type = "data" /\ image.tables[Primary][i].size # 0
            /\ x = Primary + image.tables[Primary][i].start
      BY <1>1, StartsLemma
    <3>. QED  BY <1>2, <1>3, <3>1 DEF PrimarySeen
  <2>. QED  BY <2>1
<1>5. ASSUME NEW b \in ChainsOf(image)
      PROVE  ChainDone(image, L, b)
  <2>1. b \in StartsIn(image, Primary, Primary, "ext") /\ b \in DOMAIN image.tables
    BY DEF ChainsOf
  <2>2. PICK i \in 1..Len(image.tables[Primary]) :
          /\ image.tables[Primary][i].type = "ext" /\ image.tables[Primary][i].size # 0
          /\ b = Primary + image.tables[Primary][i].start
    BY <1>1, <2>1, StartsLemma
  <2>. QED  BY <1>2, <1>3, <2>1, <2>2 DEF PrimarySeen
<1>6. ASSUME NEW b \in ChainsOf(image), NEW s \in Chain(image, b)
      PROVE  StartsIn(image, s, s, "data") \subseteq L
  BY <1>5, <1>6 DEF ChainDone
<1>. QED  BY <1>4, <1>6 DEF DataStarts

\* No gap is listed as allocated, and filling them in loses nothing.
LEMMA FilledListed ==
    ASSUME NEW l \in Seq(Parts), NEW m, NEW g, FilledTo(m, l, Len(l) + 1, g)
    PROVE  Listed(m) = Listed(l)
<1>. DEFINE S == Sources(l, Len(l) + 1)
<1>1. /\ g \in [1..Len(m) -> S] /\ \A x \in S : \E i \in 1..Len(m) : g[i] = x
      /\ \A i \in 1..Len(m) : Same(m[i], Source(l, g[i]))
  BY DEF FilledTo
<1>2. Len(l) \in Nat /\ \A i \in 1..Len(l) : i \in S /\ Source(l, i) = l[i]
  BY DEF Sources, Source
<1>3. ASSUME NEW x \in S  PROVE x \in 1..Len(l) \/ Source(l, x).flags = "unalloc"
  BY DEF Sources, Source, Gap, Part
<1>. HIDE DEF S
<1>4. ASSUME NEW x \in Listed(m)  PROVE x \in Listed(l)
  <2>1. PICK j \in 1..Len(m) : m[j].flags = "alloc" /\ x = m[j].start
    BY DEF Listed
  <2>2. Same(m[j], Source(l, g[j])) /\ g[j] \in S
    BY <1>1
  <2>3. g[j] \in 1..Len(l)
    BY <1>3, <2>1, <2>2 DEF Same
  <2>. QED  BY <1>2, <2>1, <2>2, <2>3 DEF Same, Listed
<1>5. ASSUME NEW x \in Listed(l)  PROVE x \in Listed(m)
  <2>1. PICK i \in 1..Len(l) : l[i].flags = "alloc" /\ x = l[i].start
    BY DEF Listed
  <2>2. PICK j \in 1..Len(m) : g[j] = i
    BY <1>1, <1>2
  <2>3. Same(m[j], l[i])
    BY <1>1, <1>2, <2>2
  <2>4. m[j].flags = "alloc" /\ m[j].start = x
    BY <2>1, <2>3 DEF Same
  <2>. QED  BY <2>4 DEF Listed
<1>. QED  BY <1>4, <1>5

\* Every step of opening the volume system keeps the list to what the tables
\* have, and loses nothing of what it has read.
LEMMA ChainStep ==
    ASSUME PartsInv, ChainInv, OpenParts
    PROVE  ChainInv'
<1>0. image' = image
  BY DEF OpenParts, LoadPrimary, SkipEmpty, OutOfImage, AddData, EnterExtended, PassExtended,
         LoseChain, TableDone, FillUnused
<1>. DEFINE K == Listed(list)
            D == DataStarts(image)
<1>1. K \subseteq D /\ (status = "loading" => Reading(image, tables, K, base))
  BY DEF ChainInv
\* What there is to show of a step.
<1>2. ASSUME NEW N, Listed(list') = N, N \subseteq D,
             status' = "loading" => Reading(image, tables', N, base'),
             status' \in {"loaded", "open"} /\ LinksAreLast(image) => D \subseteq N
      PROVE  ChainInv'
  <2>1. DataStarts(image)' = D /\ (LinksAreLast(image)' <=> LinksAreLast(image))
    BY <1>0
  <2>. QED  BY <1>0, <1>2, <2>1 DEF ChainInv
<1>3. Listed(<<>>) = {}
  BY DEF Listed
<1>4. CASE LoadPrimary
  <2>1. status = "closed" /\ base' = base /\ list \in Seq(Parts) /\ Ordered(list) /\ FromTables(list)
    BY <1>4 DEF LoadPrimary, PartsInv
  <2>2. CASE Primary \in DOMAIN image.tables
    <3>1. /\ status' = "loading" /\ list' = Added(list, Part(Primary, 1, "meta"))
          /\ tables' = <<Load(Primary)>>
      BY <1>4, <2>2 DEF LoadPrimary
    <3>2. Listed(list') = K
      BY <2>1, <3>1, ListLemma DEF Primary
    <3>. PICK t : t = Load(Primary)
      OBVIOUS
    <3>3. t.sector = Primary /\ t.slot = 1
      BY DEF Load
    <3>4. Len(<<t>>) = 1 /\ <<t>>[1] = t
      OBVIOUS
    <3>5. Stacked(image, <<t>>, base)
      BY <3>3, <3>4 DEF Stacked
    <3>6. PrimarySeen(image, <<t>>, K, base)
      BY <3>3, <3>4 DEF PrimarySeen
    <3>7. Reading(image, <<t>>, K, base)
      BY <3>4, <3>5, <3>6 DEF Reading
    <3>8. Reading(image, tables', K, base')
      BY <2>1, <3>1, <3>7
    <3>9. status' \notin {"loaded", "open"}
      BY <3>1
    <3>. HIDE DEF K, D
    <3>. QED  BY <1>1, <1>2, <3>2, <3>8, <3>9
  <2>3. CASE Primary \notin DOMAIN image.tables
    <3>1. status' = "failed" /\ list' = list
      BY <1>4, <2>3 DEF LoadPrimary
    <3>2. Listed(list') = K
      BY <3>1
    <3>. HIDE DEF K, D
    <3>. QED  BY <1>1, <1>2, <3>1, <3>2
  <2>. QED  BY <2>2, <2>3
<1>5. CASE SkipEmpty
  <2>1. status = "loading" /\ Slot <= Len(Table) /\ status' = status /\ list' = list /\ base' = base
        /\ tables' = Advanced /\ Entry.size = 0
    BY <1>5 DEF SkipEmpty, SlotsLeft
  <2>2. Reading(image, Advanced, K, base)
    BY <1>1, <2>1, AdvanceReading
  <2>3. Listed(list') = K /\ Reading(image, tables', K, base')
    BY <2>1, <2>2
  <2>. HIDE DEF K, D
  <2>. QED  BY <1>1, <1>2, <2>1, <2>3
<1>6. CASE OutOfImage
  <2>1. status' = "failed" /\ list' = <<>>
    BY <1>6 DEF OutOfImage
  <2>2. Listed(list') = {}
    BY <1>3, <2>1
  <2>. HIDE DEF K, D
  <2>. QED  BY <1>2, <2>1, <2>2
<1>7. CASE AddData
  <2>1. /\ Accepted /\ status' = status /\ base' = base /\ tables' = Advanced
        /\ list' = Added(list, Part(Sector + Entry.start, Entry.size, "alloc"))
        /\ Entry.type = "data"
    BY <1>7 DEF AddData
  <2>2. status = "loading" /\ Slot <= Len(Table) /\ Entry.size # 0
    BY <2>1, LinkedLemma
  <2>3. Sector + Entry.start \in Nat /\ Entry.size \in Nat /\ Entry.size > 0
    BY <2>2, TableLemma
  <2>4. list \in Seq(Parts) /\ Ordered(list) /\ FromTables(list)
    BY <2>2 DEF PartsInv
  <2>. PICK N : N = K \cup {Sector + Entry.start}
    OBVIOUS
  <2>5. Listed(list') = N
    BY <2>1, <2>3, <2>4, ListLemma
  <2>6. Reading(image, tables, K, base)
    BY <1>1, <2>2
  <2>7. Sector + Entry.start \in D
    BY <2>1, <2>2, <2>6, DataStartsLemma DEF Reading
  <2>8. Reading(image, Advanced, N, base)
    BY <2>1, <2>2, <2>6, AdvanceReading
  <2>9. Reading(image, tables', N, base')
    BY <2>1, <2>8
  <2>10. N \subseteq D /\ status' = "loading"
    BY <1>1, <2>1, <2>2, <2>7
  <2>. HIDE DEF K, D
  <2>. QED  BY <1>2, <2>5, <2>9, <2>10
<1>8. CASE EnterExtended
  <2>1. status = "loading" /\ status' = status
    BY <1>8 DEF EnterExtended, Accepted, SlotsLeft
  <2>2. Listed(list') = K
    BY <1>8, EnteredTable
  <2>3. Reading(image, tables', K, base')
    BY <1>1, <1>8, <2>1, EnterReading
  <2>. HIDE DEF K, D
  <2>. QED  BY <1>1, <1>2, <2>1, <2>2, <2>3
<1>9. CASE PassExtended
  <2>1. /\ Accepted /\ status' = status /\ base' = base /\ tables' = Advanced /\ list' = WithLink
        /\ Entry.type = "ext" /\ Linked > image.size
    BY <1>9 DEF PassExtended
  <2>2. status = "loading" /\ Slot <= Len(Table) /\ Linked \in Nat /\ Listed(WithLink) = K
    BY <2>1, LinkedLemma
  <2>3. Linked \notin DOMAIN image.tables
    BY <2>1, <2>2, ImageLemma
  <2>4. Reading(image, Advanced, K, base)
    BY <1>1, <2>1, <2>2, <2>3, AdvanceReading
  <2>5. Listed(list') = K /\ Reading(image, tables', K, base')
    BY <2>1, <2>2, <2>4
  <2>. HIDE DEF K, D
  <2>. QED  BY <1>1, <1>2, <2>1, <2>2, <2>5
<1>10. CASE LoseChain
  <2>1. Accepted /\ status' = status /\ base' = base /\ list' = WithLink
    BY <1>10 DEF LoseChain
  <2>2. status = "loading" /\ Listed(list') = K
    BY <2>1, LinkedLemma
  <2>3. Reading(image, tables', K, base)
    BY <1>1, <1>10, <2>2, LoseReading
  <2>4. Reading(image, tables', K, base')
    BY <2>1, <2>3
  <2>. HIDE DEF K, D
  <2>. QED  BY <1>1, <1>2, <2>1, <2>2, <2>4
<1>11. CASE TableDone
  <2>1. status = "loading" /\ base' = base /\ tables' = PopOf(tables) /\ Slot > Len(Table)
    BY <1>11 DEF TableDone, Front, PopOf
  <2>2. Reading(image, tables, K, base)
    BY <1>1, <2>1
  <2>3. CASE ~InPrimary
    <3>1. Listed(list') = K /\ status' = status
      BY <1>11, <2>3 DEF TableDone
    <3>2. Reading(image, PopOf(tables), K, base)
      BY <2>1, <2>2, <2>3, PopReading
    <3>3. Reading(image, tables', K, base')
      BY <2>1, <3>2
    <3>. HIDE DEF K, D
    <3>. QED  BY <1>1, <1>2, <2>1, <3>1, <3>3
  <2>4. CASE InPrimary
    <3>1. LinksAreLast(image) => D \subseteq K
      BY <2>1, <2>2, <2>4, AllListed
    <3>2. \/ status' = "loaded" /\ Listed(list') = K
          \/ status' = "failed" /\ Listed(list') = {}
      BY <1>3, <1>11, <2>4 DEF TableDone
    <3>. HIDE DEF K, D
    <3>3. CASE status' = "loaded" /\ Listed(list') = K
      BY <1>1, <1>2, <3>1, <3>3
    <3>4. CASE status' = "failed" /\ Listed(list') = {}
      BY <1>2, <3>4
    <3>. QED  BY <3>2, <3>3, <3>4
  <2>. QED  BY <2>3, <2>4
<1>12. CASE FillUnused
  <2>1. status = "loaded" /\ list' = Filled(list) /\ status' = "open"
    BY <1>12 DEF FillUnused
  <2>2. list \in Seq(Parts) /\ Ordered(list) /\ FromTables(list) /\ image.size \in Nat
    BY <2>1, ImageLemma DEF PartsInv
  <2>3. PICK g : FilledTo(list', list, Len(list) + 1, g)
    BY <2>1, <2>2, FilledLemma
  <2>4. Listed(list') = K
    BY <2>2, <2>3, FilledListed
  <2>5. LinksAreLast(image) => D \subseteq K
    BY <2>1 DEF ChainInv
  <2>. HIDE DEF K, D
  <2>. QED  BY <1>1, <1>2, <2>1, <2>4, <2>5
<1>. QED  BY <1>4, <1>5, <1>6, <1>7, <1>8, <1>9, <1>10, <1>11, <1>12 DEF OpenParts

\* ChainInv of every state: nothing but what opens the volume system matters.
THEOREM ChainInvariance == DiskSpec => []ChainInv
<1>1. InitDisk => ChainInv
  <2>1. ASSUME InitDisk  PROVE ChainInv
    <3>1. list = <<>> /\ status = "closed"
      BY <2>1 DEF InitDisk, InitParts
    <3>2. Listed(list) = {}
      BY <3>1 DEF Listed
    <3>. QED  BY <3>1, <3>2 DEF ChainInv
  <2>. QED  BY <2>1
<1>2. DiskInv /\ ChainInv /\ [NextOfDisk]_diskVars => ChainInv'
  <2>. SUFFICES ASSUME DiskInv, ChainInv, [NextOfDisk]_diskVars  PROVE ChainInv'
    OBVIOUS
  <2>1. CASE Open
    BY <2>1, ChainStep DEF Open, DiskInv
  <2>2. CASE UNCHANGED partsVars
    BY <2>2 DEF partsVars, ChainInv
  <2>. QED  BY <2>1, <2>2 DEF NextOfDisk, New, Iterate, diskVars
<1>. QED  BY <1>1, <1>2, DiskInvariance, PTL DEF DiskSpec

\* dos.c:767-795, 975-992: once the tables are read, what is listed as
\* allocated are the partitions of every chain, a broken link costs neither the
\* others nor what came before it.
THEOREM PartitionsOfChains == DiskSpec => []ChainsAreListed
<1>1. DiskInv /\ ChainInv => ChainsAreListed
  <2>. SUFFICES ASSUME DiskInv, ChainInv  PROVE ChainsAreListed
    OBVIOUS
  <2>1. DOMAIN list = 1..Len(list)
    BY DEF DiskInv, PartsInv
  <2>2. {list[i].start : i \in Allocated} = Listed(list)
    BY <2>1 DEF Allocated, Listed
  <2>. QED  BY <2>2 DEF ChainInv, ChainsAreListed
<1>. QED  BY <1>1, DiskInvariance, ChainInvariance, PTL

===============================================================================
