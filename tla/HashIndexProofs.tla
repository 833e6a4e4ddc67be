--------------------------- MODULE HashIndexProofs ---------------------------
(***************************************************************************)
(* Proofs about HashIndex, for any threads, hashes, indexes and numbers of *)
(* calls.                                                                  *)
(***************************************************************************)
EXTENDS HashIndex, WellFoundedInduction, TLAPS

-------------------------------------------------------------------------------
(* The index and its table.                                                *)

LEMMA LeastLemma ==
    ASSUME NEW S \in SUBSET Nat, S # {}
    PROVE  \E n \in S : \A m \in S : n <= m
<1>1. PICK n \in S : \A m \in S : ~ (<<m, n>> \in OpToRel(<, Nat))
  BY WFMin, NatLessThanWellFounded
<1>2. ASSUME NEW m \in S
      PROVE  n <= m
  <2>1. ~ (m < n)
    BY <1>1 DEF OpToRel
  <2>. QED  BY <2>1
<1>. QED  BY <1>2

LEMMA ValsLemma ==
    /\ Vals \subseteq Nat
    /\ Prefixes \subseteq Nat
    /\ \A r \in Requests : r.hash.type \in Types /\ r.hash.val \in Vals
<1>1. Vals \subseteq Nat
  BY HashesAssumption DEF Vals
<1>2. \A v \in Nat : v \div 2 \in Nat
  OBVIOUS
<1>3. Prefixes \subseteq Nat
  BY <1>1, <1>2 DEF Prefixes, Prefix
<1>4. \A r \in Requests : r.hash.type \in Types /\ r.hash.val \in Vals
  BY HashesAssumption DEF Vals, Requests
<1>. QED  BY <1>1, <1>3, <1>4

LEMMA PrefixLemma ==
    ASSUME NEW a \in Nat, NEW b \in Nat
    PROVE  /\ Prefix(a) \in Nat
           /\ a <= b => Prefix(a) <= Prefix(b)
BY DEF Prefix

LEMMA RequestsNotEmpty == (CHOOSE r \in Requests : TRUE) \in Requests
<1>1. PICK h \in Hashes : TRUE
  BY HashesAssumption
<1>2. [hash |-> h, op |-> "has"] \in Requests
  BY DEF Requests
<1>. QED  BY <1>2

\* Every index is sorted, the one that is not there too.
LEMMA LinesLemma ==
    ASSUME NEW d \in Disks, NEW ty \in Types
    PROVE  d.index[ty].lines \in Seq(Vals) /\ Sorted(d.index[ty].lines)
<1>1. d.index[ty] \in {Absent} \cup [there : {TRUE}, lines : {s \in Seq(Vals) : Sorted(s)}]
  BY DisksAssumption DEF DiskType
<1>2. CASE d.index[ty] = Absent
  BY <1>2 DEF Absent, Sorted
<1>3. CASE d.index[ty] \in [there : {TRUE}, lines : {s \in Seq(Vals) : Sorted(s)}]
  BY <1>3
<1>. QED  BY <1>1, <1>2, <1>3

\* The table has the first line of every prefix there is.
LEMMA TableLemma ==
    ASSUME NEW s \in Seq(Vals), NEW p \in Prefixes
    PROVE  \/ /\ TableOf(s)[p] = NotSet
              /\ \A i \in DOMAIN s : Prefix(s[i]) # p
           \/ /\ TableOf(s)[p] \in 0..(Len(s) - 1)
              /\ Prefix(s[TableOf(s)[p] + 1]) = p
              /\ \A i \in DOMAIN s : Prefix(s[i]) = p => TableOf(s)[p] < i
<1>. DEFINE Of(i) == i \in DOMAIN s /\ Prefix(s[i]) = p
            S == {i \in DOMAIN s : Prefix(s[i]) = p}
<1>1. TableOf(s)[p] =
        IF \E i \in DOMAIN s : Of(i)
        THEN (CHOOSE i \in DOMAIN s : Of(i) /\ \A j \in DOMAIN s : Of(j) => i <= j) - 1
        ELSE NotSet
  BY DEF TableOf
<1>2. CASE ~\E i \in DOMAIN s : Of(i)
  BY <1>1, <1>2
<1>3. CASE \E i \in DOMAIN s : Of(i)
  <2>1. PICK n \in S : \A m \in S : n <= m
    <3>1. S \in SUBSET Nat /\ S # {}
      BY <1>3
    <3>. HIDE DEF S
    <3>. QED  BY <3>1, LeastLemma
  <2>2. n \in DOMAIN s /\ Of(n) /\ \A j \in DOMAIN s : Of(j) => n <= j
    BY <2>1
  <2>. DEFINE first == CHOOSE i \in DOMAIN s : Of(i) /\ \A j \in DOMAIN s : Of(j) => i <= j
  <2>3. first \in DOMAIN s /\ Of(first) /\ \A j \in DOMAIN s : Of(j) => first <= j
    <3>. HIDE DEF Of
    <3>. QED  BY <2>2, Zenon
  <2>4. TableOf(s)[p] = first - 1
    BY <1>1, <1>3
  <2>. HIDE DEF first
  <2>5. TableOf(s)[p] \in 0..(Len(s) - 1) /\ TableOf(s)[p] + 1 = first
    BY <2>3, <2>4
  <2>6. ASSUME NEW i \in DOMAIN s, Prefix(s[i]) = p
        PROVE  TableOf(s)[p] < i
    <3>1. first <= i
      BY <2>3, <2>6
    <3>. QED  BY <2>3, <2>4, <3>1
  <2>. QED  BY <2>3, <2>5, <2>6
<1>. QED  BY <1>2, <1>3

-------------------------------------------------------------------------------
(* The inductive invariant of the look-ups.                                *)

WellTyped ==
    /\ disk \in Disks
    /\ hash_type \in Types \cup {NoType}
    /\ hIdx \in BOOLEAN
    /\ pc \in [Threads -> {"idle", "entering", "opening", "failed", "opened", "bounded", "searching"}]
    /\ arg \in [Threads -> Requests]
    /\ low \in [Threads -> Nat] /\ up \in [Threads -> Nat]
    /\ \A t \in Threads : reply[t].ret \in {-1, 0, 1}
    /\ reply = [t \in Threads |-> reply[t]]

\* A table that could not be read has been left to be searched by.
Unread == disk.idx_idx[hash_type] = "unread"

\* An open index is that of one type, and its table, if it was read, its own.
OpenIsOpen ==
    /\ hIdx => hash_type \in Types
    /\ \/ idx_offsets = NoTable
       \/ hIdx /\ idx_offsets = IF Unread THEN ZeroTable ELSE TableOf(Lines)
    /\ \A t \in Threads : pc[t] \in {"opened", "bounded", "searching"} => hIdx

Equal(t) == {k \in 0..(Len(Lines) - 1) : Line(k) = arg[t].hash.val}

\* No equal line is outside of the window, unless the zeros that were not read
\* made an empty one.
WindowHasAll ==
    \A t \in Threads : pc[t] \in {"bounded", "searching"} =>
        /\ arg[t].hash.type = hash_type
        /\ low[t] <= up[t] /\ up[t] <= Len(Lines)
        /\ Equal(t) \subseteq low[t]..(up[t] - 1) \/ (Unread /\ low[t] = up[t])

IInv == WellTyped /\ OpenIsOpen /\ WindowHasAll /\ AnswersAreMembership

LEMMA OpenLinesLemma ==
    ASSUME IInv, hIdx
    PROVE  /\ hash_type \in Types
           /\ Lines \in Seq(Vals) /\ Sorted(Lines)
           /\ Len(Lines) \in Nat /\ DOMAIN Lines = 1..Len(Lines)
           /\ \A k \in 0..(Len(Lines) - 1) : Line(k) \in Vals /\ Line(k) \in Nat
<1>1. hash_type \in Types /\ disk \in Disks
  BY DEF IInv, OpenIsOpen, WellTyped
<1>2. Lines \in Seq(Vals) /\ Sorted(Lines)
  BY <1>1, LinesLemma DEF Lines
<1>3. \A k \in 0..(Len(Lines) - 1) : Line(k) \in Vals
  BY <1>2 DEF Line
<1>4. Vals \subseteq Nat
  BY ValsLemma
<1>5. Len(Lines) \in Nat /\ DOMAIN Lines = 1..Len(Lines)
  BY <1>2
<1>. QED  BY <1>1, <1>2, <1>3, <1>4, <1>5

\* The lines are in order.
LEMMA OrderLemma ==
    ASSUME IInv, hIdx, NEW j \in 0..(Len(Lines) - 1), NEW k \in 0..(Len(Lines) - 1), j <= k
    PROVE  Line(j) <= Line(k)
<1>1. j + 1 \in DOMAIN Lines /\ k + 1 \in DOMAIN Lines /\ j + 1 <= k + 1
  BY OpenLinesLemma
<1>. QED  BY <1>1, OpenLinesLemma DEF Sorted, Line

\* What a table that was read says of the prefix looked up.
LEMMA OffsetsLemma ==
    ASSUME IInv, hIdx, idx_offsets # NoTable, ~Unread, NEW p \in Prefixes
    PROVE  \/ /\ idx_offsets[p] = NotSet
              /\ \A k \in 0..(Len(Lines) - 1) : Prefix(Line(k)) # p
           \/ /\ idx_offsets[p] \in 0..(Len(Lines) - 1)
              /\ Prefix(Line(idx_offsets[p])) = p
              /\ \A k \in 0..(Len(Lines) - 1) : Prefix(Line(k)) = p => idx_offsets[p] <= k
<1>1. idx_offsets = TableOf(Lines)
  BY DEF IInv, OpenIsOpen
<1>2. Lines \in Seq(Vals) /\ DOMAIN Lines = 1..Len(Lines) /\ Len(Lines) \in Nat
  BY OpenLinesLemma
<1>3. \A k \in 0..(Len(Lines) - 1) : k + 1 \in DOMAIN Lines /\ Line(k) = Lines[k + 1]
  BY <1>2 DEF Line
<1>. DEFINE T == TableOf(Lines)[p]
<1>4. \/ /\ T = NotSet
         /\ \A i \in DOMAIN Lines : Prefix(Lines[i]) # p
      \/ /\ T \in 0..(Len(Lines) - 1)
         /\ Prefix(Lines[T + 1]) = p
         /\ \A i \in DOMAIN Lines : Prefix(Lines[i]) = p => T < i
  BY <1>2, TableLemma
<1>5. idx_offsets[p] = T
  BY <1>1
<1>. HIDE DEF T
<1>6. CASE T = NotSet /\ \A i \in DOMAIN Lines : Prefix(Lines[i]) # p
  BY <1>3, <1>5, <1>6
<1>7. CASE /\ T \in 0..(Len(Lines) - 1)
           /\ Prefix(Lines[T + 1]) = p
           /\ \A i \in DOMAIN Lines : Prefix(Lines[i]) = p => T < i
  <2>1. ASSUME NEW k \in 0..(Len(Lines) - 1), Prefix(Line(k)) = p
        PROVE  T <= k
    <3>1. T < k + 1
      BY <1>3, <1>7, <2>1
    <3>. QED  BY <1>2, <1>7, <3>1
  <2>2. Prefix(Line(T)) = p
    BY <1>3, <1>7
  <2>. QED  BY <1>5, <1>7, <2>1, <2>2
<1>. QED  BY <1>4, <1>6, <1>7

\* The window for a prefix ends behind its last line.
LEMMA NextStartLemma ==
    ASSUME IInv, hIdx, idx_offsets # NoTable, ~Unread, NEW p \in Prefixes, idx_offsets[p] # NotSet
    PROVE  /\ NextStart(p) \in Nat
           /\ idx_offsets[p] <= NextStart(p) /\ NextStart(p) <= Len(Lines)
           /\ \A k \in 0..(Len(Lines) - 1) : Prefix(Line(k)) = p => k < NextStart(p)
<1>. DEFINE later == {q \in Prefixes : q > p /\ idx_offsets[q] # NotSet}
            Least(q) == \A r \in later : q <= r
<1>1. /\ idx_offsets[p] \in 0..(Len(Lines) - 1)
      /\ Prefix(Line(idx_offsets[p])) = p
  BY OffsetsLemma
<1>2. Len(Lines) \in Nat /\ p \in Nat
  BY OpenLinesLemma, ValsLemma
<1>3. NextStart(p) = IF later = {} THEN Len(Lines) ELSE idx_offsets[CHOOSE q \in later : Least(q)]
  BY DEF NextStart
<1>4. CASE later = {}
  BY <1>1, <1>2, <1>3, <1>4
<1>5. CASE later # {}
  <2>1. \E q \in later : Least(q)
    <3>1. later \in SUBSET Nat
      BY ValsLemma
    <3>. HIDE DEF later
    <3>. QED  BY <1>5, <3>1, LeastLemma
  <2>. DEFINE q == CHOOSE n \in later : Least(n)
  <2>2. q \in later
    <3>. HIDE DEF later, Least
    <3>. QED  BY <2>1, Zenon
  <2>3. NextStart(p) = idx_offsets[q]
    BY <1>3, <1>5
  <2>. HIDE DEF q
  <2>4. q \in Prefixes /\ q \in Nat /\ q > p /\ idx_offsets[q] # NotSet
    BY <2>2, ValsLemma
  <2>5. idx_offsets[q] \in 0..(Len(Lines) - 1) /\ Prefix(Line(idx_offsets[q])) = q
    BY <2>4, OffsetsLemma
  <2>6. ASSUME NEW k \in 0..(Len(Lines) - 1), Prefix(Line(k)) = p
        PROVE  k < idx_offsets[q]
    <3>1. SUFFICES ASSUME idx_offsets[q] <= k  PROVE FALSE
      BY <1>2, <2>5
    <3>2. Line(idx_offsets[q]) <= Line(k)
      BY <2>5, <3>1, OrderLemma
    <3>3. Line(idx_offsets[q]) \in Nat /\ Line(k) \in Nat
      BY <2>5, OpenLinesLemma
    <3>4. q <= p
      BY <2>5, <2>6, <3>2, <3>3, PrefixLemma
    <3>. QED  BY <1>2, <2>4, <3>4
  <2>7. idx_offsets[p] < idx_offsets[q]
    BY <1>1, <2>6
  <2>. QED  BY <1>1, <1>2, <2>3, <2>5, <2>6, <2>7
<1>. QED  BY <1>4, <1>5

\* By a table never read the window is empty, or for the last prefix everything.
LEMMA ZeroLemma ==
    ASSUME IInv, hIdx, idx_offsets # NoTable, Unread, NEW p \in Prefixes
    PROVE  /\ idx_offsets[p] = 0 /\ idx_offsets[p] # NotSet
           /\ NextStart(p) \in {0, Len(Lines)}
<1>. DEFINE later == {q \in Prefixes : q > p /\ idx_offsets[q] # NotSet}
            Least(q) == \A r \in later : q <= r
<1>1. \A q \in Prefixes : idx_offsets[q] = 0
  BY DEF IInv, OpenIsOpen, ZeroTable
<1>2. NextStart(p) = IF later = {} THEN Len(Lines) ELSE idx_offsets[CHOOSE q \in later : Least(q)]
  BY DEF NextStart
<1>3. CASE later = {}
  BY <1>1, <1>2, <1>3 DEF NotSet
<1>4. CASE later # {}
  <2>1. \E q \in later : Least(q)
    <3>1. later \in SUBSET Nat
      BY ValsLemma
    <3>. HIDE DEF later
    <3>. QED  BY <1>4, <3>1, LeastLemma
  <2>2. (CHOOSE q \in later : Least(q)) \in later
    <3>. HIDE DEF later, Least
    <3>. QED  BY <2>1, Zenon
  <2>. QED  BY <1>1, <1>2, <1>4, <2>2 DEF NotSet
<1>. QED  BY <1>3, <1>4

-------------------------------------------------------------------------------
(* Every step preserves the invariant.                                     *)

LEMMA InitLemma == Init => IInv
<1>. SUFFICES ASSUME Init  PROVE IInv
  OBVIOUS
<1>1. WellTyped
  BY RequestsNotEmpty DEF Init, WellTyped, Silent
<1>2. OpenIsOpen /\ WindowHasAll
  BY DEF Init, OpenIsOpen, WindowHasAll
<1>3. AnswersAreMembership
  BY DEF Init, AnswersAreMembership, Silent
<1>. QED  BY <1>1, <1>2, <1>3 DEF IInv

WindowOf(t) ==
    pc[t] \in {"bounded", "searching"} =>
        /\ arg[t].hash.type = hash_type
        /\ low[t] <= up[t] /\ up[t] <= Len(Lines)
        /\ Equal(t) \subseteq low[t]..(up[t] - 1) \/ (Unread /\ low[t] = up[t])

\* The lines of a disk equal to a hash; the right reply to a request.
Places(d, h) ==
    {k \in 0..(Len(d.index[h.type].lines) - 1) : d.index[h.type].lines[k + 1] = h.val}

Right(d, r, rep) ==
    r.op # "has" /\ rep.ret # -1 =>
        \/ rep.ret = 1 /\ Places(d, r.hash) # {} /\ (r.op = "all" => rep.shown = Places(d, r.hash))
        \/ rep.ret = 0 /\ Places(d, r.hash) = {} /\ rep.shown = {}
        \/ rep.ret = 0 /\ d.idx_idx[r.hash.type] = "unread"

AnswerOf(t) == pc[t] = "idle" => Right(disk, arg[t], reply[t])

LEMMA AnswersLemma == AnswersAreMembership <=> \A t \in Threads : AnswerOf(t)
BY DEF AnswersAreMembership, AnswerOf, Right, Places

\* A step of t that leaves the index alone matters to t only.
LEMMA FrameLemma ==
    ASSUME IInv, NEW t \in Threads, UNCHANGED dbVars, WellTyped',
           \A u \in Threads \ {t} :
               /\ pc'[u] = pc[u] /\ arg'[u] = arg[u] /\ reply'[u] = reply[u]
               /\ low'[u] = low[u] /\ up'[u] = up[u],
           pc'[t] \in {"opened", "bounded", "searching"} => hIdx,
           WindowOf(t)', AnswerOf(t)'
    PROVE  IInv'
<1>1. Lines' = Lines
  BY DEF dbVars, Lines
<1>2. TableOf(Lines)' = TableOf(Lines)
  BY <1>1 DEF TableOf
<1>3. OpenIsOpen'
  <2>1. OpenIsOpen /\ Unread' = Unread /\ ZeroTable' = ZeroTable
    BY DEF IInv, Unread, ZeroTable, dbVars
  <2>2. \A u \in Threads : pc'[u] \in {"opened", "bounded", "searching"} => hIdx'
    BY <2>1 DEF OpenIsOpen, dbVars
  <2>. QED  BY <1>2, <2>1, <2>2 DEF OpenIsOpen, dbVars
<1>4. WindowHasAll'
  <2>1. ASSUME NEW u \in Threads \ {t}  PROVE WindowOf(u)'
    <3>1. WindowOf(u)
      BY DEF IInv, WindowHasAll, WindowOf
    <3>. QED  BY <1>1, <3>1 DEF WindowOf, Equal, Line, Unread, dbVars
  <2>. QED  BY <2>1 DEF WindowHasAll, WindowOf
<1>5. AnswersAreMembership'
  <2>1. ASSUME NEW u \in Threads \ {t}  PROVE AnswerOf(u)'
    <3>1. AnswerOf(u)
      BY AnswersLemma DEF IInv
    <3>. QED  BY <3>1 DEF AnswerOf, dbVars
  <2>2. (\A u \in Threads : AnswerOf(u))'
    BY <2>1
  <2>3. (AnswersAreMembership <=> \A u \in Threads : AnswerOf(u))'
    BY DEF AnswersAreMembership, AnswerOf, Right, Places
  <2>. QED  BY <2>2, <2>3
<1>. QED  BY <1>3, <1>4, <1>5 DEF IInv

LEMMA CallLemma ==
    ASSUME IInv, NEW t \in Threads, Call(t)
    PROVE  IInv'
<1>. USE DEF Call, Goto
<1>1. PICK r \in Requests : arg' = [arg EXCEPT ![t] = r]
  OBVIOUS
<1>2. WellTyped'
  BY <1>1 DEF IInv, WellTyped, Silent, dbVars
<1>3. pc'[t] = "entering"
  BY DEF IInv, WellTyped
<1>4. WindowOf(t)' /\ AnswerOf(t)'
  BY <1>3 DEF WindowOf, AnswerOf
<1>5. \A u \in Threads \ {t} :
          /\ pc'[u] = pc[u] /\ arg'[u] = arg[u] /\ reply'[u] = reply[u]
          /\ low'[u] = low[u] /\ up'[u] = up[u]
  BY <1>1 DEF IInv, WellTyped
<1>. QED  BY <1>2, <1>3, <1>4, <1>5, FrameLemma

LEMMA TakeLockLemma ==
    ASSUME IInv, NEW t \in Threads, TakeLock(t)
    PROVE  IInv'
<1>. USE DEF TakeLock, Goto
<1>1. WellTyped'
  BY DEF IInv, WellTyped, dbVars
<1>2. \/ pc'[t] = "opening"
      \/ pc'[t] = "searching" /\ pc[t] = "bounded"
  BY DEF IInv, WellTyped
<1>3. pc'[t] \in {"opened", "bounded", "searching"} => hIdx
  BY <1>2 DEF IInv, OpenIsOpen
<1>4. WindowOf(t)' /\ AnswerOf(t)'
  <2>1. AnswerOf(t)'
    BY <1>2 DEF AnswerOf
  <2>2. pc[t] = "bounded" => WindowOf(t)'
    BY DEF IInv, WindowHasAll, WindowOf, Equal, Line, Lines, Unread, dbVars
  <2>. QED  BY <1>2, <2>1, <2>2 DEF WindowOf
<1>5. \A u \in Threads \ {t} :
          /\ pc'[u] = pc[u] /\ arg'[u] = arg[u] /\ reply'[u] = reply[u]
          /\ low'[u] = low[u] /\ up'[u] = up[u]
  BY DEF IInv, WellTyped
<1>. QED  BY <1>1, <1>3, <1>4, <1>5, FrameLemma

\* A step after which t is where it has neither a window nor an answer but -1
\* or that of has.
LEMMA NoAnswerLemma ==
    ASSUME IInv, NEW t \in Threads, UNCHANGED <<dbVars, arg, low, up>>, WellTyped',
           \A u \in Threads \ {t} : pc'[u] = pc[u] /\ reply'[u] = reply[u],
           pc'[t] \in {"idle", "opened"},
           pc'[t] = "idle" => arg[t].op = "has" \/ reply'[t].ret = -1,
           pc'[t] = "opened" => hIdx
    PROVE  IInv'
<1>1. WindowOf(t)' /\ AnswerOf(t)'
  BY DEF WindowOf, AnswerOf, Right
<1>. QED  BY <1>1, FrameLemma DEF IInv, WellTyped

-------------------------------------------------------------------------------
(* Opening.                                                                *)

\* A step of t that opens, or fails to: nobody has a window yet.
LEMMA OpeningLemma ==
    ASSUME IInv, NEW t \in Threads, OpenIndex(t) \/ OpenFails(t)
    PROVE  IInv'
<1>. DEFINE ty == TypeOpened(t)
<1>1. ty \in Types
  <2>1. arg[t].hash.type \in Types
    BY ValsLemma DEF IInv, WellTyped
  <2>. QED  BY <2>1 DEF TypeOpened, IInv, WellTyped
<1>2. /\ ~hIdx /\ hash_type' = ty /\ disk' = disk
      /\ arg' = arg /\ low' = low /\ up' = up
      /\ pc[t] = "opening"
  BY DEF OpenIndex, OpenFails
<1>3. \/ /\ hIdx' = FALSE /\ idx_offsets' = idx_offsets
         /\ pc' = [pc EXCEPT ![t] = "failed"] /\ reply' = reply
      \/ /\ hIdx' = TRUE
         /\ idx_offsets' = OffsetsLoaded(ty)
         /\ \/ /\ pc' = [pc EXCEPT ![t] = "idle"]
               /\ \E n \in {-1, 0, 1} :
                    /\ n # -1 => arg[t].op = "has"
                    /\ reply' = [reply EXCEPT ![t] = [ret |-> n, shown |-> {}]]
            \/ /\ pc' = [pc EXCEPT ![t] = "opened"] /\ reply' = reply
  <2>1. CASE OpenFails(t)
    BY <1>2, <2>1 DEF OpenFails, Goto
  <2>2. CASE OpenIndex(t)
    <3>1. hIdx' = TRUE /\ idx_offsets' = OffsetsLoaded(ty)
      BY <1>2, <2>2 DEF OpenIndex
    <3>2. Succeed(t) \/ Return(t, IF arg[t].op = "has" THEN 0 ELSE -1, {})
      BY <2>2 DEF OpenIndex
    <3>. QED  BY <3>1, <3>2 DEF Succeed, Return, Goto
  <2>. QED  BY <2>1, <2>2
<1>. HIDE DEF ty
<1>4. WellTyped'
  <2>1. reply' = [u \in Threads |-> reply'[u]] /\ \A u \in Threads : reply'[u].ret \in {-1, 0, 1}
    BY <1>3 DEF IInv, WellTyped
  <2>2. pc' \in [Threads -> {"idle", "entering", "opening", "failed", "opened", "bounded", "searching"}]
    BY <1>3 DEF IInv, WellTyped
  <2>. QED  BY <1>1, <1>2, <1>3, <2>1, <2>2 DEF IInv, WellTyped
<1>5. \A u \in Threads : pc'[u] \notin {"bounded", "searching"}
                          /\ (pc'[u] = "opened" => hIdx')
  BY <1>2, <1>3 DEF IInv, WellTyped, OpenIsOpen
<1>6. OpenIsOpen'
  <2>1. Lines' = disk.index[ty].lines
    BY <1>2 DEF Lines
  <2>2. TableOf(Lines)' = TableOf(disk.index[ty].lines)
    BY <2>1 DEF TableOf
  <2>3. /\ Unread' = (disk.idx_idx[ty] = "unread") /\ ZeroTable' = ZeroTable
        /\ OffsetsLoaded(ty) \in
             {NoTable, IF disk.idx_idx[ty] = "unread" THEN ZeroTable ELSE TableOf(disk.index[ty].lines)}
    BY <1>2 DEF Unread, ZeroTable, OffsetsLoaded
  <2>4. \/ idx_offsets' = NoTable
        \/ hIdx' /\ idx_offsets' = IF Unread' THEN ZeroTable' ELSE TableOf(Lines)'
    BY <1>2, <1>3, <2>2, <2>3 DEF IInv, OpenIsOpen
  <2>. QED  BY <1>1, <1>2, <1>5, <2>4 DEF OpenIsOpen
<1>7. WindowHasAll'
  BY <1>5 DEF WindowHasAll
<1>8. AnswersAreMembership'
  <2>1. ASSUME NEW u \in Threads  PROVE AnswerOf(u)'
    <3>1. AnswerOf(u)
      BY AnswersLemma DEF IInv
    <3>2. CASE u # t
      <4>1. pc'[u] = pc[u] /\ reply'[u] = reply[u]
        BY <1>3, <3>2 DEF IInv, WellTyped
      <4>. QED  BY <1>2, <3>1, <4>1 DEF AnswerOf
    <3>3. CASE u = t
      <4>1. pc'[t] = "idle" => reply'[t].ret = -1 \/ arg[t].op = "has"
        BY <1>3 DEF IInv, WellTyped
      <4>. QED  BY <1>2, <3>3, <4>1 DEF AnswerOf, Right
    <3>. QED  BY <3>2, <3>3
  <2>2. (\A u \in Threads : AnswerOf(u))'
    BY <2>1
  <2>3. (AnswersAreMembership <=> \A u \in Threads : AnswerOf(u))'
    BY DEF AnswersAreMembership, AnswerOf, Right, Places
  <2>. QED  BY <2>2, <2>3
<1>. QED  BY <1>4, <1>6, <1>7, <1>8 DEF IInv

\* The other steps that come to no answer.
LEMMA NoSearchLemma ==
    ASSUME IInv, NEW t \in Threads,
           AlreadyOpen(t) \/ ReleaseAgain(t) \/ WrongType(t) \/ SearchFails(t)
    PROVE  IInv'
<1>1. UNCHANGED <<dbVars, arg, low, up>>
  BY DEF AlreadyOpen, ReleaseAgain, WrongType, SearchFails
<1>2. \/ /\ pc' = [pc EXCEPT ![t] = "idle"]
         /\ \E n \in {-1, 0, 1} :
                    /\ n # -1 => arg[t].op = "has"
                    /\ reply' = [reply EXCEPT ![t] = [ret |-> n, shown |-> {}]]
      \/ /\ hIdx /\ pc' = [pc EXCEPT ![t] = "opened"] /\ reply' = reply
  <2>1. CASE AlreadyOpen(t)
    BY <2>1 DEF AlreadyOpen, Succeed, Return, Goto
  <2>2. CASE ReleaseAgain(t)
    BY <2>2 DEF ReleaseAgain, Return, Goto
  <2>3. CASE WrongType(t) \/ SearchFails(t)
    BY <2>3 DEF WrongType, SearchFails, Return, Goto
  <2>. QED  BY <2>1, <2>2, <2>3
<1>3. /\ \A u \in Threads \ {t} : pc'[u] = pc[u] /\ reply'[u] = reply[u]
      /\ pc'[t] \in {"idle", "opened"}
      /\ pc'[t] = "idle" => arg[t].op = "has" \/ reply'[t].ret = -1
      /\ pc'[t] = "opened" => hIdx
  BY <1>2 DEF IInv, WellTyped
<1>4. WellTyped'
  <2>1. reply' = [u \in Threads |-> reply'[u]] /\ \A u \in Threads : reply'[u].ret \in {-1, 0, 1}
    BY <1>2 DEF IInv, WellTyped
  <2>2. pc' \in [Threads -> {"idle", "entering", "opening", "failed", "opened", "bounded", "searching"}]
    BY <1>2 DEF IInv, WellTyped
  <2>. QED  BY <1>1, <2>1, <2>2 DEF IInv, WellTyped, dbVars
<1>. QED  BY <1>1, <1>3, <1>4, NoAnswerLemma

-------------------------------------------------------------------------------
(* Searching.                                                              *)

\* What t looks up, when the types agree.
LEMMA WantedLemma ==
    ASSUME IInv, NEW t \in Threads
    PROVE  /\ arg[t].hash.type \in Types
           /\ arg[t].hash.val \in Vals /\ arg[t].hash.val \in Nat
           /\ Prefix(arg[t].hash.val) \in Prefixes
           /\ arg[t].hash.type = hash_type => Places(disk, arg[t].hash) = Equal(t)
<1>1. arg[t].hash.type \in Types /\ arg[t].hash.val \in Vals /\ arg[t].hash.val \in Nat
  BY ValsLemma DEF IInv, WellTyped
<1>2. Prefix(arg[t].hash.val) \in Prefixes
  BY <1>1 DEF Prefixes
<1>3. arg[t].hash.type = hash_type => Places(disk, arg[t].hash) = Equal(t)
  BY DEF Places, Equal, Line, Lines
<1>. QED  BY <1>1, <1>2, <1>3

\* Equal lines have the prefix of what is looked up.
LEMMA EqualLemma ==
    ASSUME IInv, hIdx, NEW t \in Threads, NEW k \in Equal(t)
    PROVE  /\ k \in 0..(Len(Lines) - 1) /\ k \in Nat
           /\ Prefix(Line(k)) = Prefix(arg[t].hash.val)
BY OpenLinesLemma DEF Equal

LEMMA BoundsLemma ==
    ASSUME IInv, NEW t \in Threads, Bounds(t)
    PROVE  IInv'
<1>. DEFINE p == Prefix(arg[t].hash.val)
<1>1. /\ UNCHANGED <<dbVars, arg>> /\ UNCHANGED dbVars
      /\ pc[t] = "opened" /\ arg[t].hash.type = hash_type
  BY DEF Bounds
<1>2. hIdx /\ Len(Lines) \in Nat
  BY <1>1, OpenLinesLemma DEF IInv, OpenIsOpen
<1>3. p \in Prefixes
  BY WantedLemma
<1>4. Equal(t)' = Equal(t) /\ Len(Lines)' = Len(Lines)
  BY <1>1 DEF Equal, Line, Lines, dbVars
<1>5. CASE idx_offsets # NoTable /\ idx_offsets[p] = NotSet
  <2>1. /\ pc' = [pc EXCEPT ![t] = "idle"] /\ UNCHANGED <<low, up>>
        /\ reply' = [reply EXCEPT ![t] = [ret |-> 0, shown |-> {}]]
    BY <1>5 DEF Bounds, Return, Goto
  <2>2. WellTyped'
    BY <1>1, <2>1 DEF IInv, WellTyped, dbVars
  <2>3. Equal(t) = {}
    <3>1. ASSUME NEW k \in Equal(t)  PROVE FALSE
      <4>1. k \in 0..(Len(Lines) - 1) /\ Prefix(Line(k)) = p
        BY <1>2, EqualLemma
      <4>2. \A j \in 0..(Len(Lines) - 1) : Prefix(Line(j)) # p
        <5>. HIDE DEF p
        <5>1. ~Unread
          BY <1>2, <1>3, <1>5, ZeroLemma
        <5>. QED  BY <1>2, <1>3, <1>5, <5>1, OffsetsLemma DEF NotSet
      <4>. QED  BY <4>1, <4>2
    <3>. QED  BY <3>1
  <2>4. Places(disk, arg[t].hash) = {}
    BY <1>1, <2>3, WantedLemma
  <2>5. pc'[t] = "idle" /\ reply'[t] = [ret |-> 0, shown |-> {}]
    BY <2>1 DEF IInv, WellTyped
  <2>6. AnswerOf(t)' /\ WindowOf(t)'
    BY <1>1, <2>4, <2>5 DEF AnswerOf, Right, WindowOf, dbVars
  <2>7. \A u \in Threads \ {t} :
          /\ pc'[u] = pc[u] /\ arg'[u] = arg[u] /\ reply'[u] = reply[u]
          /\ low'[u] = low[u] /\ up'[u] = up[u]
    BY <1>1, <2>1 DEF IInv, WellTyped
  <2>. QED  BY <1>1, <1>2, <2>2, <2>6, <2>7, FrameLemma
<1>6. CASE ~(idx_offsets # NoTable /\ idx_offsets[p] = NotSet)
  <2>1. PICK a, b : /\ low' = [low EXCEPT ![t] = a] /\ up' = [up EXCEPT ![t] = b]
                    /\ IF idx_offsets = NoTable THEN a = 0 /\ b = Len(Lines)
                       ELSE a = idx_offsets[p] /\ b = NextStart(p)
    BY <1>6 DEF Bounds
  <2>2. pc' = [pc EXCEPT ![t] = "bounded"] /\ reply' = reply
    BY <1>6 DEF Bounds, Goto
  <2>3. /\ a \in Nat /\ b \in Nat /\ a <= b /\ b <= Len(Lines)
        /\ (\A k \in Equal(t) : a <= k /\ k < b) \/ (Unread /\ a = b)
    <3>1. CASE idx_offsets = NoTable
      BY <1>2, <2>1, <3>1 DEF Equal
    <3>2. CASE idx_offsets # NoTable /\ Unread
      <4>1. a = 0 /\ b \in {0, Len(Lines)}
        <5>. HIDE DEF p
        <5>. QED  BY <1>2, <1>3, <2>1, <3>2, ZeroLemma
      <4>2. \A k \in Equal(t) : k \in Nat /\ k < Len(Lines)
        BY <1>2 DEF Equal
      <4>. QED  BY <1>2, <3>2, <4>1, <4>2
    <3>3. CASE idx_offsets # NoTable /\ ~Unread
      <4>1. a = idx_offsets[p] /\ b = NextStart(p) /\ idx_offsets[p] # NotSet
        BY <1>6, <2>1, <3>3
      <4>2. ASSUME NEW k \in Equal(t)  PROVE k \in 0..(Len(Lines) - 1) /\ Prefix(Line(k)) = p
        BY <1>2, EqualLemma
      <4>. HIDE DEF p
      <4>3. a \in Nat /\ \A k \in 0..(Len(Lines) - 1) : Prefix(Line(k)) = p => a <= k
        BY <1>2, <1>3, <3>3, <4>1, OffsetsLemma
      <4>4. /\ b \in Nat /\ a <= b /\ b <= Len(Lines)
            /\ \A k \in 0..(Len(Lines) - 1) : Prefix(Line(k)) = p => k < b
        BY <1>2, <1>3, <3>3, <4>1, NextStartLemma
      <4>. QED  BY <4>2, <4>3, <4>4
    <3>. QED  BY <3>1, <3>2, <3>3
  <2>4. WellTyped'
    BY <1>1, <2>1, <2>2, <2>3 DEF IInv, WellTyped, dbVars
  <2>5. pc'[t] = "bounded" /\ low'[t] = a /\ up'[t] = b
    BY <2>1, <2>2 DEF IInv, WellTyped
  <2>6. Equal(t) \subseteq a..(b - 1) \/ (Unread /\ a = b)
    <3>1. \A k \in Equal(t) : k \in Nat
      BY <1>2, EqualLemma
    <3>2. (\A k \in Equal(t) : a <= k /\ k < b) => Equal(t) \subseteq a..(b - 1)
      BY <2>3, <3>1
    <3>. QED  BY <2>3, <3>2
  <2>7. WindowOf(t)' /\ AnswerOf(t)'
    BY <1>1, <1>4, <2>3, <2>5, <2>6 DEF WindowOf, AnswerOf, Unread, dbVars
  <2>8. \A u \in Threads \ {t} :
          /\ pc'[u] = pc[u] /\ arg'[u] = arg[u] /\ reply'[u] = reply[u]
          /\ low'[u] = low[u] /\ up'[u] = up[u]
    BY <1>1, <2>1, <2>2 DEF IInv, WellTyped
  <2>. QED  BY <1>1, <1>2, <2>4, <2>7, <2>8, FrameLemma
<1>. QED  BY <1>5, <1>6

\* Who searches has a window in an open index of the type it looks for.
LEMMA SearchingLemma ==
    ASSUME IInv, NEW t \in Threads, pc[t] = "searching"
    PROVE  /\ hIdx /\ Len(Lines) \in Nat
           /\ arg[t].hash.type = hash_type
           /\ low[t] \in Nat /\ up[t] \in Nat
           /\ low[t] <= up[t] /\ up[t] <= Len(Lines)
           /\ low[t] = up[t] => Equal(t) = {} \/ Unread
           /\ low[t] # up[t] =>
                /\ Equal(t) \subseteq low[t]..(up[t] - 1)
                /\ Middle(t) \in low[t]..(up[t] - 1)
                /\ Middle(t) \in 0..(Len(Lines) - 1)
                /\ Line(Middle(t)) \in Nat
<1>1. hIdx
  BY DEF IInv, OpenIsOpen
<1>2. Len(Lines) \in Nat
  BY <1>1, OpenLinesLemma
<1>3. /\ arg[t].hash.type = hash_type
      /\ low[t] \in Nat /\ up[t] \in Nat
      /\ low[t] <= up[t] /\ up[t] <= Len(Lines)
      /\ Equal(t) \subseteq low[t]..(up[t] - 1) \/ (Unread /\ low[t] = up[t])
  BY DEF IInv, WindowHasAll, WellTyped
<1>4. ASSUME low[t] # up[t]
      PROVE  Middle(t) \in low[t]..(up[t] - 1) /\ Middle(t) \in 0..(Len(Lines) - 1)
  <2>1. \A n \in Nat \ {0} : n \div 2 \in Nat /\ n \div 2 < n
    OBVIOUS
  <2>2. up[t] - low[t] \in Nat \ {0}
    BY <1>3, <1>4
  <2>. DEFINE half == (up[t] - low[t]) \div 2
  <2>3. half \in Nat /\ half < up[t] - low[t]
    BY <2>1, <2>2
  <2>4. Middle(t) = low[t] + half
    BY DEF Middle
  <2>. HIDE DEF half
  <2>5. low[t] <= low[t] + half /\ low[t] + half < up[t] /\ low[t] + half \in Nat
    BY <1>3, <2>3
  <2>. QED  BY <1>2, <1>3, <2>4, <2>5
<1>5. low[t] # up[t] => Line(Middle(t)) \in Nat
  BY <1>1, <1>4, OpenLinesLemma
<1>. QED  BY <1>1, <1>2, <1>3, <1>4, <1>5

LEMMA NotThereLemma ==
    ASSUME IInv, NEW t \in Threads, NotThere(t)
    PROVE  IInv'
<1>1. /\ UNCHANGED <<dbVars, arg, low, up>> /\ UNCHANGED dbVars
      /\ pc[t] = "searching" /\ (low[t] = up[t] \/ Unread)
      /\ pc' = [pc EXCEPT ![t] = "idle"]
      /\ reply' = [reply EXCEPT ![t] = [ret |-> 0, shown |-> {}]]
  BY DEF NotThere, NotMoved, Unread, Return, Goto
<1>2. Equal(t) = {} \/ Unread
  BY <1>1, SearchingLemma
<1>3. Places(disk, arg[t].hash) = {} \/ disk.idx_idx[arg[t].hash.type] = "unread"
  BY <1>1, <1>2, SearchingLemma, WantedLemma DEF Unread
<1>4. WellTyped'
  BY <1>1 DEF IInv, WellTyped, dbVars
<1>5. pc'[t] = "idle" /\ reply'[t] = [ret |-> 0, shown |-> {}]
  BY <1>1 DEF IInv, WellTyped
<1>6. AnswerOf(t)' /\ WindowOf(t)'
  BY <1>1, <1>3, <1>5 DEF AnswerOf, Right, WindowOf, dbVars
<1>7. \A u \in Threads \ {t} :
        /\ pc'[u] = pc[u] /\ arg'[u] = arg[u] /\ reply'[u] = reply[u]
        /\ low'[u] = low[u] /\ up'[u] = up[u]
  BY <1>1 DEF IInv, WellTyped
<1>. QED  BY <1>1, <1>4, <1>5, <1>6, <1>7, FrameLemma

\* Half of the window is given up, in which, the lines being in order, none is
\* equal.
LEMMA HalveLemma ==
    ASSUME IInv, NEW t \in Threads, Halve(t)
    PROVE  IInv'
<1>. DEFINE val == arg[t].hash.val
            mid == Middle(t)
<1>1. /\ UNCHANGED <<dbVars, arg, pc, reply>> /\ UNCHANGED dbVars
      /\ pc[t] = "searching" /\ low[t] # up[t]
  BY DEF Halve
<1>2. /\ hIdx /\ low[t] \in Nat /\ up[t] \in Nat /\ Len(Lines) \in Nat
      /\ arg[t].hash.type = hash_type
      /\ up[t] <= Len(Lines)
      /\ mid \in low[t]..(up[t] - 1) /\ mid \in 0..(Len(Lines) - 1)
      /\ Line(mid) \in Nat /\ val \in Nat
  BY <1>1, SearchingLemma, WantedLemma
<1>3. \A k \in Equal(t) : k \in 0..(Len(Lines) - 1) /\ Line(k) = val
                          /\ low[t] <= k /\ k < up[t]
  <2>1. Equal(t) \subseteq low[t]..(up[t] - 1)
    BY <1>1, SearchingLemma
  <2>2. ASSUME NEW k \in low[t]..(up[t] - 1)  PROVE low[t] <= k /\ k < up[t]
    BY <1>2
  <2>3. \A k \in Equal(t) : k \in 0..(Len(Lines) - 1) /\ Line(k) = val
    BY DEF Equal
  <2>. QED  BY <2>1, <2>2, <2>3
<1>4. PICK a, b :
        /\ low' = [low EXCEPT ![t] = a] /\ up' = [up EXCEPT ![t] = b]
        /\ \/ Line(mid) < val /\ a = mid + 1 /\ b = up[t]
           \/ Line(mid) > val /\ a = low[t] /\ b = mid
  <2>1. low = [low EXCEPT ![t] = low[t]] /\ up = [up EXCEPT ![t] = up[t]]
    BY DEF IInv, WellTyped
  <2>. QED  BY <2>1 DEF Halve
<1>. HIDE DEF mid, val
<1>5. a \in Nat /\ b \in Nat /\ a <= b /\ b <= Len(Lines)
  BY <1>2, <1>4
<1>6. ASSUME NEW k \in Equal(t)  PROVE a <= k /\ k < b
  <2>1. k \in 0..(Len(Lines) - 1) /\ Line(k) = val /\ low[t] <= k /\ k < up[t]
    BY <1>3
  <2>2. CASE Line(mid) < val /\ a = mid + 1 /\ b = up[t]
    <3>1. ~(k <= mid)
      <4>1. k <= mid => Line(k) <= Line(mid)
        BY <1>2, <2>1, OrderLemma
      <4>. QED  BY <1>2, <2>1, <2>2, <4>1
    <3>. QED  BY <1>2, <2>1, <2>2, <3>1
  <2>3. CASE Line(mid) > val /\ a = low[t] /\ b = mid
    <3>1. ~(mid <= k)
      <4>1. mid <= k => Line(mid) <= Line(k)
        BY <1>2, <2>1, OrderLemma
      <4>. QED  BY <1>2, <2>1, <2>3, <4>1
    <3>. QED  BY <1>2, <2>1, <2>3, <3>1
  <2>. QED  BY <1>4, <2>2, <2>3
<1>7. Equal(t) \subseteq a..(b - 1)
  BY <1>3, <1>5, <1>6
<1>8. WellTyped'
  BY <1>1, <1>4, <1>5 DEF IInv, WellTyped, dbVars
<1>9. low'[t] = a /\ up'[t] = b
  BY <1>4 DEF IInv, WellTyped
<1>10. Equal(t)' = Equal(t) /\ Len(Lines)' = Len(Lines)
  BY <1>1 DEF Equal, Line, Lines, dbVars
<1>11. WindowOf(t)' /\ AnswerOf(t)'
  BY <1>1, <1>2, <1>5, <1>7, <1>9, <1>10 DEF WindowOf, AnswerOf, dbVars
<1>12. \A u \in Threads \ {t} :
        /\ pc'[u] = pc[u] /\ arg'[u] = arg[u] /\ reply'[u] = reply[u]
        /\ low'[u] = low[u] /\ up'[u] = up[u]
  BY <1>1, <1>4 DEF IInv, WellTyped
<1>. QED  BY <1>1, <1>2, <1>8, <1>11, <1>12, FrameLemma

\* The lines shown are all the equal ones: what is between two of them is equal.
LEMMA DuplicatesLemma ==
    ASSUME IInv, NEW t \in Threads, pc[t] = "searching", low[t] # up[t],
           Line(Middle(t)) = arg[t].hash.val
    PROVE  Duplicates(t) = Equal(t)
<1>. DEFINE val == arg[t].hash.val
            mid == Middle(t)
<1>1. /\ hIdx /\ low[t] \in Nat /\ up[t] \in Nat /\ Len(Lines) \in Nat
      /\ up[t] <= Len(Lines)
      /\ mid \in low[t]..(up[t] - 1) /\ mid \in 0..(Len(Lines) - 1)
      /\ Line(mid) = val /\ val \in Nat
  BY SearchingLemma, WantedLemma
<1>2. \A k \in Equal(t) : k \in 0..(Len(Lines) - 1) /\ Line(k) = val
                          /\ low[t] <= k /\ k < up[t]
  BY <1>1, SearchingLemma DEF Equal
<1>3. \A k \in 0..(Len(Lines) - 1) : Line(k) \in Nat
  BY <1>1, OpenLinesLemma
<1>. HIDE DEF mid, val
<1>4. ASSUME NEW k \in Equal(t), NEW j \in (k..mid) \cup (mid..k)
      PROVE  Line(j) = val
  <2>1. j \in 0..(Len(Lines) - 1) /\ k \in 0..(Len(Lines) - 1) /\ Line(k) = val
    BY <1>1, <1>2
  <2>2. CASE j \in k..mid
    <3>1. k <= j /\ j <= mid
      BY <1>1, <2>1, <2>2
    <3>2. Line(k) <= Line(j) /\ Line(j) <= Line(mid)
      BY <1>1, <2>1, <3>1, OrderLemma
    <3>. QED  BY <1>1, <1>3, <2>1, <3>2
  <2>3. CASE j \in mid..k
    <3>1. mid <= j /\ j <= k
      BY <1>1, <2>1, <2>3
    <3>2. Line(mid) <= Line(j) /\ Line(j) <= Line(k)
      BY <1>1, <2>1, <3>1, OrderLemma
    <3>. QED  BY <1>1, <1>3, <2>1, <3>2
  <2>. QED  BY <2>2, <2>3
<1>5. Equal(t) \subseteq Duplicates(t)
  <2>1. ASSUME NEW k \in Equal(t)  PROVE k \in Duplicates(t)
    <3>1. k \in low[t]..(up[t] - 1)
      BY <1>1, <1>2
    <3>. QED  BY <1>4, <3>1 DEF Duplicates, mid, val
  <2>. QED  BY <2>1
<1>6. Duplicates(t) \subseteq Equal(t)
  <2>1. ASSUME NEW k \in Duplicates(t)  PROVE k \in Equal(t)
    <3>1. /\ k \in low[t]..(up[t] - 1)
          /\ \A j \in (k..mid) \cup (mid..k) : Line(j) = val
      BY DEF Duplicates, mid, val
    <3>2. k \in (k..mid) \cup (mid..k)
      BY <1>1, <3>1
    <3>3. Line(k) = val
      BY <3>1, <3>2
    <3>4. k \in 0..(Len(Lines) - 1)
      BY <1>1, <3>1
    <3>. QED  BY <3>3, <3>4 DEF Equal, val
  <2>. QED  BY <2>1
<1>. QED  BY <1>5, <1>6

LEMMA FoundLemma ==
    ASSUME IInv, NEW t \in Threads, Found(t)
    PROVE  IInv'
<1>1. /\ UNCHANGED <<dbVars, arg, low, up>> /\ UNCHANGED dbVars
      /\ pc[t] = "searching" /\ low[t] # up[t]
      /\ Line(Middle(t)) = arg[t].hash.val
  BY DEF Found
<1>2. PICK r : /\ pc' = [pc EXCEPT ![t] = "idle"]
               /\ reply' = [reply EXCEPT ![t] = r]
               /\ \/ arg[t].op = "quick" /\ r = [ret |-> 1, shown |-> {}]
                  \/ arg[t].op = "all" /\ r = [ret |-> 1, shown |-> Duplicates(t)]
                  \/ r = [ret |-> -1, shown |-> {}]
  BY DEF Found, Return, Goto
<1>3. Middle(t) \in Equal(t)
  BY <1>1, SearchingLemma DEF Equal
<1>4. Places(disk, arg[t].hash) = Equal(t)
  BY <1>1, SearchingLemma, WantedLemma
<1>5. Duplicates(t) = Equal(t)
  BY <1>1, DuplicatesLemma
<1>6. r.ret \in {-1, 0, 1}
  BY <1>2
<1>7. WellTyped'
  BY <1>1, <1>2, <1>6 DEF IInv, WellTyped, dbVars
<1>8. pc'[t] = "idle" /\ reply'[t] = r
  BY <1>2 DEF IInv, WellTyped
<1>9. Right(disk, arg[t], r)
  BY <1>2, <1>3, <1>4, <1>5 DEF Right
<1>10. AnswerOf(t)' /\ WindowOf(t)'
  BY <1>1, <1>8, <1>9 DEF AnswerOf, WindowOf, dbVars
<1>11. \A u \in Threads \ {t} :
        /\ pc'[u] = pc[u] /\ arg'[u] = arg[u] /\ reply'[u] = reply[u]
        /\ low'[u] = low[u] /\ up'[u] = up[u]
  BY <1>1, <1>2 DEF IInv, WellTyped
<1>. QED  BY <1>1, <1>7, <1>8, <1>10, <1>11, FrameLemma

LEMMA StutterLemma == IInv /\ UNCHANGED vars => IInv'
<1>. SUFFICES ASSUME IInv, UNCHANGED vars  PROVE IInv'
  OBVIOUS
<1>1. WellTyped'
  BY DEF IInv, WellTyped, vars, dbVars
<1>2. Lines' = Lines
  BY DEF Lines, vars, dbVars
<1>3. TableOf(Lines)' = TableOf(Lines)
  BY <1>2 DEF TableOf
<1>4. OpenIsOpen'
  BY <1>3 DEF IInv, OpenIsOpen, Unread, ZeroTable, vars, dbVars
<1>5. WindowHasAll'
  BY <1>2 DEF IInv, WindowHasAll, Equal, Line, Unread, vars, dbVars
<1>6. AnswersAreMembership'
  BY DEF IInv, AnswersAreMembership, vars, dbVars
<1>. QED  BY <1>1, <1>4, <1>5, <1>6 DEF IInv

\* The inductive invariant of the look-ups: the table is that of the open index,
\* or zeros if the read of it failed (binsrch_index.cpp:265-275), and then alone
\* a line looked for can be outside of a thread's window (1098-1411).
THEOREM Invariance == Spec => []IInv
<1>1. Init => IInv
  BY InitLemma
<1>2. IInv /\ [Next]_vars => IInv'
  <2>. SUFFICES ASSUME IInv, [Next]_vars  PROVE IInv'
    OBVIOUS
  <2>1. CASE UNCHANGED vars
    BY <2>1, StutterLemma
  <2>2. CASE Next
    <3>1. PICK t \in Threads : Call(t) \/ Inside(t)
      BY <2>2 DEF Next
    <3>2. CASE Call(t)
      BY <3>2, CallLemma
    <3>3. CASE TakeLock(t)
      BY <3>3, TakeLockLemma
    <3>4. CASE OpenIndex(t) \/ OpenFails(t)
      BY <3>4, OpeningLemma
    <3>5. CASE AlreadyOpen(t) \/ ReleaseAgain(t) \/ WrongType(t) \/ SearchFails(t)
      BY <3>5, NoSearchLemma
    <3>6. CASE Bounds(t)
      BY <3>6, BoundsLemma
    <3>7. CASE NotThere(t)
      BY <3>7, NotThereLemma
    <3>8. CASE Halve(t)
      BY <3>8, HalveLemma
    <3>9. CASE Found(t)
      BY <3>9, FoundLemma
    <3>. QED  BY <3>1, <3>2, <3>3, <3>4, <3>5, <3>6, <3>7, <3>8, <3>9 DEF Inside
  <2>. QED  BY <2>1, <2>2
<1>. QED  BY <1>1, <1>2, PTL DEF Spec

\* For any sorted indexes, with a table, without, or with one that is refused,
\* and any threads: what a look-up answers is membership, and what it shows is
\* every equal line.  With one that could not be read, what is found is there,
\* and shown (binsrch_index.cpp:265-275, 1098-1411).
THEOREM Membership == Spec => []AnswersAreMembership
<1>1. IInv => AnswersAreMembership
  BY DEF IInv
<1>. QED  BY <1>1, Invariance, PTL

-------------------------------------------------------------------------------
(* The lock.                                                               *)

\* Nobody has failed to open an index, and so released a lock twice.
LockIsMine ==
    /\ \A t \in Threads : pc[t] # "failed"
    /\ \A t \in Threads : pc[t] \in {"opening", "searching"} <=> lock = t
    /\ opens = IF hIdx THEN 1 ELSE 0

LEMMA LockStepLemma ==
    ASSUME \A d \in Disks : \A ty \in Types : d.index[ty].there,
           IInv, LockIsMine, [Next]_vars
    PROVE  LockIsMine'
<1>. USE NamesAssumption DEF LockIsMine
<1>1. CASE UNCHANGED vars
  BY <1>1 DEF vars, dbVars
<1>2. ASSUME NEW t \in Threads, Call(t) \/ Inside(t)
      PROVE  LockIsMine'
  <2>. USE DEF Goto, Release, dbVars
  <2>0. pc \in [Threads -> {"idle", "entering", "opening", "failed", "opened", "bounded", "searching"}]
    BY DEF IInv, WellTyped
  <2>1. CASE Call(t)
    BY <2>0, <2>1 DEF Call
  <2>2. CASE TakeLock(t)
    BY <2>0, <2>2 DEF TakeLock
  <2>3. CASE AlreadyOpen(t)
    BY <2>0, <2>3 DEF AlreadyOpen, Succeed, Return
  <2>4. CASE OpenIndex(t)
    <3>1. /\ pc[t] = "opening" /\ ~hIdx /\ hIdx' = TRUE /\ opens' = opens + 1 /\ lock' = NoThread
          /\ pc' = [pc EXCEPT ![t] = "idle"] \/ pc' = [pc EXCEPT ![t] = "opened"]
      BY <2>4 DEF OpenIndex, Succeed, Return
    <3>. QED  BY <2>0, <3>1
  <2>5. CASE OpenFails(t)
    <3>1. arg[t].hash.type \in Types
      BY ValsLemma DEF IInv, WellTyped
    <3>2. TypeOpened(t) \in Types
      BY <3>1 DEF TypeOpened, IInv, WellTyped
    <3>. QED  BY <2>5, <3>2 DEF OpenFails, IInv, WellTyped
  <2>6. CASE ReleaseAgain(t)
    BY <2>6 DEF ReleaseAgain
  <2>7. CASE WrongType(t)
    BY <2>0, <2>7 DEF WrongType, Return
  <2>8. CASE Bounds(t)
    <3>1. /\ pc[t] = "opened" /\ UNCHANGED <<hIdx, opens, lock>>
          /\ pc' = [pc EXCEPT ![t] = "idle"] \/ pc' = [pc EXCEPT ![t] = "bounded"]
      BY <2>8 DEF Bounds, Return
    <3>. QED  BY <2>0, <3>1
  <2>9. CASE NotThere(t) \/ SearchFails(t)
    BY <2>0, <2>9 DEF NotThere, SearchFails, Return
  <2>10. CASE Halve(t)
    BY <2>10 DEF Halve
  <2>11. CASE Found(t)
    <3>1. /\ pc[t] = "searching" /\ lock' = NoThread /\ UNCHANGED <<hIdx, opens>>
          /\ pc' = [pc EXCEPT ![t] = "idle"]
      BY <2>11 DEF Found, Return
    <3>. QED  BY <2>0, <3>1
  <2>. QED  BY <1>2, <2>1, <2>2, <2>3, <2>4, <2>5, <2>6, <2>7, <2>8, <2>9, <2>10, <2>11 DEF Inside
<1>. QED  BY <1>1, <1>2 DEF Next

\* With an index for every type a thread that opens or searches holds the lock,
\* and the index is opened once (binsrch_index.cpp:532-549, 1150-1154).  Without
\* one the lock is released twice: HashIndex_double_unlock.
THEOREM LazyLoad ==
    ASSUME \A d \in Disks : \A ty \in Types : d.index[ty].there
    PROVE  Spec => []LazyLoadIsLocked
<1>1. Init => LockIsMine
  BY NamesAssumption DEF Init, LockIsMine
<1>2. IInv /\ LockIsMine /\ [Next]_vars => LockIsMine'
  BY LockStepLemma
<1>3. LockIsMine => LazyLoadIsLocked
  BY DEF LockIsMine, LazyLoadIsLocked
<1>. QED  BY <1>1, <1>2, <1>3, Invariance, PTL DEF Spec

===============================================================================
