---------------------------- MODULE ImgCacheProofs ----------------------------
(***************************************************************************)
(* Proofs about ImgCache, for any number of threads, slots and calls, any  *)
(* image size and any unit.                                                *)
(***************************************************************************)
EXTENDS ImgCache, WellFoundedInduction, TLAPS

-------------------------------------------------------------------------------
(* Arithmetic of a cached load.                                            *)

LEMMA DivisionLemma ==
    ASSUME NEW o \in Nat
    PROVE  /\ (o \div Unit) * Unit \in Nat
           /\ o % Unit \in 0..(Unit - 1)
           /\ o = (o \div Unit) * Unit + (o % Unit)
  BY SizesAssumption, SMT

LEMMA RequestsLemma == AnyRequest \in Requests
<1>1. PICK o \in Offs, l \in Lens : TRUE
  BY RequestsAssumption
<1>2. [off |-> o, len |-> l] \in Requests
  BY DEF Requests
<1>. QED  BY <1>2, Zenon DEF AnyRequest

LEMMA LeastLemma ==
    ASSUME NEW S \in SUBSET Nat, S # {}
    PROVE  \E n \in S : \A m \in S : n <= m
<1>1. PICK n \in S : \A m \in S : ~ (<<m, n>> \in OpToRel(<, Nat))
  BY WFMin, NatLessThanWellFounded
<1>2. ASSUME NEW m \in S
      PROVE  n <= m
  <2>1. ~ (m < n)
    BY <1>1 DEF OpToRel
  <2>. QED  BY <2>1
<1>. QED  BY <1>2

-------------------------------------------------------------------------------
(* The inductive invariant.  Beside the properties it says what a thread    *)
(* remembers between its steps: that its arguments were checked, where its  *)
(* load is placed, and that uses of slots lie in the past.                  *)

ArgumentsChecked ==
    \A t \in Threads : pc[t] # "idle" => req[t].off \in Nat /\ req[t].len \in Nat

LoadPlaced ==
    \A t \in Threads : pc[t] = "loading" =>
        /\ ~Around(req[t])
        /\ req[t].off < ImgSize
        /\ cacheOff[next[t]] = (req[t].off \div Unit) * Unit

ReplyPerThread == reply = [t \in Threads |-> reply[t]]

UseIsPast == \A i \in Slots : lastUse[i] <= lookups

IInv ==
    /\ TypeOK
    /\ ReplyPerThread
    /\ LockExcludes
    /\ ArgumentsChecked
    /\ LoadPlaced
    /\ UseIsPast
    /\ AgeIsTimeSinceUse
    /\ VictimIsLeastRecentlyUsed
    /\ CacheMirrorsImage
    /\ AnswersAreImageBytes
    /\ ShortOnlyByDriver

-------------------------------------------------------------------------------
(* The look through the slots.                                              *)

\* Slots that are all in use after the loop: the age says when each was used.
LEMMA AgedLemma ==
    ASSUME TypeOK, AgeIsTimeSinceUse, NEW q \in Requests, NEW i \in Slots, Used(i)
    PROVE  Aged(q)[i] = CacheAge - (lookups + 1 - UseAfter(q)[i])
<1>1. lookups \in Nat /\ CacheAge \in Nat /\ lastUse[i] \in Nat
  BY SizesAssumption DEF TypeOK
<1>2. cacheAge[i] = CacheAge - (lookups - lastUse[i])
  BY DEF AgeIsTimeSinceUse
<1>3. CASE i \in Hits(q)
  BY <1>1, <1>3 DEF Aged, UseAfter
<1>4. CASE i \notin Hits(q)
  <2>1. Aged(q)[i] = cacheAge[i] - 1 /\ UseAfter(q)[i] = lastUse[i]
    BY <1>4 DEF Aged, UseAfter
  <2>. QED  BY <1>1, <1>2, <2>1
<1>. QED  BY <1>3, <1>4

LEMMA UseAfterLemma ==
    ASSUME TypeOK, UseIsPast, NEW q \in Requests
    PROVE  /\ UseAfter(q) \in [Slots -> Nat]
           /\ \A i \in Slots : UseAfter(q)[i] <= lookups + 1
           /\ \A i \in Hits(q) : i \in Slots /\ UseAfter(q)[i] = lookups + 1
  BY DEF TypeOK, UseIsPast, UseAfter, Hits

LEMMA VictimLemma ==
    ASSUME TypeOK, UseIsPast, AgeIsTimeSinceUse, NEW q \in Requests
    PROVE  /\ Victim(q) \in Slots
           /\ \/ ~Used(Victim(q))
              \/ \A i \in Slots : Used(i) /\ UseAfter(q)[Victim(q)] <= UseAfter(q)[i]
<1>1. CASE \E i \in Slots : ~Used(i)
  <2>. DEFINE Last(i) == ~Used(i) /\ \A j \in Slots : ~Used(j) => j <= i
              S == {NumSlots - i : i \in {j \in Slots : ~Used(j)}}
  <2>1. S \in SUBSET Nat /\ S # {}
    BY <1>1, SizesAssumption DEF Slots
  <2>2. PICK n \in S : \A m \in S : n <= m
    <3>. HIDE DEF S
    <3>. QED  BY <2>1, LeastLemma
  <2>3. PICK i \in Slots : ~Used(i) /\ n = NumSlots - i
    OBVIOUS
  <2>4. ASSUME NEW j \in Slots, ~Used(j)  PROVE j <= i
    <3>1. NumSlots - j \in S
      BY <2>4
    <3>2. n <= NumSlots - j
      BY <2>2, <3>1
    <3>3. i \in Nat /\ j \in Nat /\ NumSlots \in Nat
      BY SizesAssumption DEF Slots
    <3>. HIDE DEF S
    <3>. QED  BY <2>3, <3>2, <3>3
  <2>5. Last(i)
    BY <2>3, <2>4
  <2>6. Victim(q) = CHOOSE k \in Slots : Last(k)
    BY <1>1 DEF Victim
  <2>. QED  BY <2>5, <2>6, Zenon
<1>2. CASE \A i \in Slots : Used(i)
  <2>. DEFINE E == {0} \cup (Slots \ Hits(q))
              a(i) == Aged(q)[i]
              u(i) == UseAfter(q)[i]
              Best(i) == \A j \in E : a(i) < a(j) \/ (a(i) = a(j) /\ i <= j)
  <2>1. E \subseteq Slots /\ 0 \in E
    BY SizesAssumption DEF Slots
  <2>2. \A i \in Slots : u(i) \in Nat /\ u(i) <= lookups + 1
                          /\ a(i) = CacheAge - (lookups + 1 - u(i))
    BY <1>2, AgedLemma, UseAfterLemma
  <2>3. PICK n \in {u(i) : i \in E} : \A m \in {u(i) : i \in E} : n <= m
    <3>1. {u(i) : i \in E} \in SUBSET Nat /\ {u(i) : i \in E} # {}
      BY <2>1, <2>2
    <3>. QED  BY <3>1, LeastLemma
  <2>4. PICK k \in {i \in E : u(i) = n} : \A m \in {i \in E : u(i) = n} : k <= m
    <3>1. {i \in E : u(i) = n} \in SUBSET Nat /\ {i \in E : u(i) = n} # {}
      BY <2>1, <2>3 DEF Slots
    <3>. QED  BY <3>1, LeastLemma
  <2>5. k \in E /\ Best(k)
    <3>1. \A j \in E : u(k) <= u(j) /\ (u(k) = u(j) => k <= j)
      BY <2>3, <2>4
    <3>2. ASSUME NEW j \in E
          PROVE  a(k) < a(j) \/ (a(k) = a(j) /\ k <= j)
      <4>1. j \in Slots /\ k \in Slots /\ lookups \in Nat /\ CacheAge \in Nat
        BY <2>1, <2>4, SizesAssumption DEF TypeOK
      <4>2. /\ u(j) \in Nat /\ a(j) = CacheAge - (lookups + 1 - u(j))
            /\ u(k) \in Nat /\ a(k) = CacheAge - (lookups + 1 - u(k))
        BY <2>2, <4>1
      <4>3. u(k) <= u(j) /\ (u(k) = u(j) => k <= j)
        BY <3>1
      <4>. HIDE DEF a, u, E
      <4>. QED  BY <4>1, <4>2, <4>3
    <3>. QED  BY <3>2, <2>4
  <2>6. Victim(q) = CHOOSE i \in E : Best(i)
    BY <1>2 DEF Victim
  <2>7. Victim(q) \in E /\ Best(Victim(q))
    <3>. HIDE DEF E, Best
    <3>. QED  BY <2>5, <2>6, Zenon
  <2>8. ASSUME NEW i \in Slots  PROVE u(Victim(q)) <= u(i)
    <3>1. CASE i \in E
      <4>. DEFINE v == Victim(q)
      <4>1. v \in Slots /\ lookups \in Nat /\ CacheAge \in Nat
        BY <2>1, <2>7, SizesAssumption DEF TypeOK
      <4>2. /\ u(i) \in Nat /\ a(i) = CacheAge - (lookups + 1 - u(i))
            /\ u(v) \in Nat /\ a(v) = CacheAge - (lookups + 1 - u(v))
        BY <2>2, <4>1
      <4>3. a(v) <= a(i)
        BY <3>1, <2>7, <4>1, <4>2
      <4>. HIDE DEF a, u, v
      <4>4. u(v) <= u(i)
        BY <4>1, <4>2, <4>3
      <4>. QED  BY <4>4 DEF v
    <3>2. CASE i \notin E
      <4>1. u(i) = lookups + 1
        BY <3>2, UseAfterLemma
      <4>. QED  BY <4>1, <2>1, <2>2, <2>7
    <3>. QED  BY <3>1, <3>2
  <2>. QED  BY <1>2, <2>1, <2>7, <2>8
<1>. QED  BY <1>1, <1>2





-------------------------------------------------------------------------------
(* Steps.                                                                   *)

\* A step that gives no new answer through the cache keeps the old ones true.
LEMMA AnswersStableLemma ==
    ASSUME AnswersAreImageBytes, ShortOnlyByDriver,
           \A u \in Threads : pc'[u] = "answered" /\ ~Around(req'[u]) =>
               /\ pc[u] = "answered" /\ req'[u] = req[u]
               /\ reply'[u] = reply[u] /\ driver'[u] = driver[u]
    PROVE  AnswersAreImageBytes' /\ ShortOnlyByDriver'
<1>1. AnswersAreImageBytes'
  BY DEF AnswersAreImageBytes
<1>2. ShortOnlyByDriver'
  BY DEF ShortOnlyByDriver
<1>. QED  BY <1>1, <1>2

\* The types are a part of the invariant; most leaves need no other part.
LEMMA TypeLemma == IInv => TypeOK
BY DEF IInv

LEMMA InitLemma == Init => IInv
<1>. SUFFICES ASSUME Init PROVE IInv
  OBVIOUS
<1>1. TypeOK
  BY RequestsLemma, SizesAssumption
  DEF Init, TypeOK, Slots, ByteNames, Junk, Error, NotAsked
<1>2. LockExcludes /\ ArgumentsChecked /\ LoadPlaced
  BY ThreadsAssumption DEF Init, LockExcludes, InCritical, ArgumentsChecked, LoadPlaced
<1>3. UseIsPast /\ AgeIsTimeSinceUse /\ CacheMirrorsImage
  BY DEF Init, UseIsPast, AgeIsTimeSinceUse, CacheMirrorsImage, Used
<1>4. VictimIsLeastRecentlyUsed /\ AnswersAreImageBytes /\ ShortOnlyByDriver
  BY DEF Init, VictimIsLeastRecentlyUsed, AnswersAreImageBytes, ShortOnlyByDriver
<1>5. ReplyPerThread
  BY DEF Init, ReplyPerThread
<1>. QED  BY <1>1, <1>2, <1>3, <1>4, <1>5 DEF IInv

LEMMA RefuseStep ==
    ASSUME IInv, NEW t \in Threads, Refuse(t)
    PROVE  IInv'
<1>1. TypeOK'
  <2>1. UNCHANGED <<lock, cacheVars, pc, req, next, history>> /\ calls' = calls + 1
    BY DEF Refuse
  <2>2. TypeOK /\ calls' \in Nat
    <3>1. TypeOK
      BY DEF IInv
    <3>2. calls \in Nat
      BY <3>1 DEF TypeOK
    <3>. QED  BY <3>1, <3>2, <2>1
  <2>3. UNCHANGED <<lock, cacheOff, cacheLen, cacheAge, cache, pc, req, next, lookups, lastUse, driver>>
    BY <2>1 DEF cacheVars, history
  <2>. QED  BY <2>2, <2>3 DEF TypeOK
<1>2. LockExcludes'
  BY DEF IInv, TypeOK, LockExcludes, InCritical, Refuse
<1>3. ArgumentsChecked'
  BY DEF IInv, TypeOK, ArgumentsChecked, Refuse
<1>4. LoadPlaced' /\ VictimIsLeastRecentlyUsed' /\ CacheMirrorsImage'
  BY DEF IInv, TypeOK, LoadPlaced, VictimIsLeastRecentlyUsed, CacheMirrorsImage, Loading, Used, Around, Refuse, cacheVars, history
<1>5. UseIsPast' /\ AgeIsTimeSinceUse'
  BY DEF IInv, UseIsPast, AgeIsTimeSinceUse, Used, Refuse, cacheVars, history
<1>6. AnswersAreImageBytes' /\ ShortOnlyByDriver'
  <2>1. ASSUME NEW u \in Threads, pc'[u] = "answered", ~Around(req'[u])
        PROVE  /\ pc[u] = "answered" /\ req'[u] = req[u]
               /\ reply'[u] = reply[u] /\ driver'[u] = driver[u]
    BY <2>1 DEF IInv, TypeOK, ReplyPerThread, Refuse, history
  <2>. QED  BY <2>1, AnswersStableLemma DEF IInv
<1>7. ReplyPerThread'
  BY DEF IInv, ReplyPerThread, Refuse
<1>. QED  BY <1>1, <1>2, <1>3, <1>4, <1>5, <1>6, <1>7 DEF IInv

LEMMA CallStep ==
    ASSUME IInv, NEW t \in Threads, Call(t)
    PROVE  IInv'
<1>1. TypeOK'
  <2>1. TypeOK
    BY DEF IInv
  <2>2. PICK q \in Requests : req' = [req EXCEPT ![t] = q]
    BY DEF Call
  <2>3. req' \in [Threads -> Requests] /\ calls' \in Nat
        /\ pc' \in [Threads -> {"idle", "waiting", "locked", "loading", "answered"}]
    BY <2>1, <2>2 DEF TypeOK, Call
  <2>4. UNCHANGED <<lock, cacheVars, next, history>>
    BY DEF Call, history
  <2>. QED  BY <2>1, <2>3, <2>4 DEF TypeOK, cacheVars, history
<1>2. LockExcludes'
  BY DEF IInv, TypeOK, LockExcludes, InCritical, Call
<1>3. ArgumentsChecked'
  <2>1. PICK q \in Requests : q.off >= 0 /\ q.len >= 0 /\ req' = [req EXCEPT ![t] = q]
    BY DEF Call
  <2>2. q.off \in Nat /\ q.len \in Nat
    <3>1. q.off \in Offs /\ q.len \in Lens
      BY DEF Requests
    <3>2. q.off \in Int /\ q.len \in Int
      BY <3>1, RequestsAssumption
    <3>. QED  BY <3>2, <2>1
  <2>. QED  BY <2>1, <2>2 DEF IInv, TypeOK, ArgumentsChecked, Call
<1>4. LoadPlaced' /\ VictimIsLeastRecentlyUsed' /\ CacheMirrorsImage'
  BY DEF IInv, TypeOK, LoadPlaced, VictimIsLeastRecentlyUsed, CacheMirrorsImage, Loading, Used, Around, Call, cacheVars, history
<1>5. UseIsPast' /\ AgeIsTimeSinceUse'
  BY DEF IInv, UseIsPast, AgeIsTimeSinceUse, Used, Call, cacheVars, history
<1>6. AnswersAreImageBytes' /\ ShortOnlyByDriver'
  <2>1. ASSUME NEW u \in Threads, pc'[u] = "answered", ~Around(req'[u])
        PROVE  /\ pc[u] = "answered" /\ req'[u] = req[u]
               /\ reply'[u] = reply[u] /\ driver'[u] = driver[u]
    BY <2>1 DEF IInv, TypeOK, ReplyPerThread, Call, history
  <2>. QED  BY <2>1, AnswersStableLemma DEF IInv
<1>7. ReplyPerThread'
  BY DEF IInv, ReplyPerThread, Call
<1>. QED  BY <1>1, <1>2, <1>3, <1>4, <1>5, <1>6, <1>7 DEF IInv

LEMMA TakeLockStep ==
    ASSUME IInv, NEW t \in Threads, TakeLock(t)
    PROVE  IInv'
<1>1. TypeOK'
  <2>1. TypeOK
    BY DEF IInv
  <2>. QED  BY <2>1 DEF TypeOK, TakeLock, cacheVars, history
<1>2. LockExcludes'
  BY ThreadsAssumption DEF IInv, TypeOK, LockExcludes, InCritical, TakeLock
<1>3. ArgumentsChecked'
  BY DEF IInv, TypeOK, ArgumentsChecked, TakeLock
<1>4. LoadPlaced' /\ VictimIsLeastRecentlyUsed' /\ CacheMirrorsImage'
  BY DEF IInv, TypeOK, LoadPlaced, VictimIsLeastRecentlyUsed, CacheMirrorsImage, Loading, Used, Around, TakeLock, cacheVars, history
<1>5. UseIsPast' /\ AgeIsTimeSinceUse'
  BY DEF IInv, UseIsPast, AgeIsTimeSinceUse, Used, TakeLock, cacheVars, history
<1>6. AnswersAreImageBytes' /\ ShortOnlyByDriver'
  <2>1. ASSUME NEW u \in Threads, pc'[u] = "answered", ~Around(req'[u])
        PROVE  /\ pc[u] = "answered" /\ req'[u] = req[u]
               /\ reply'[u] = reply[u] /\ driver'[u] = driver[u]
    BY <2>1 DEF IInv, TypeOK, ReplyPerThread, TakeLock, history
  <2>. QED  BY <2>1, AnswersStableLemma DEF IInv
<1>7. ReplyPerThread'
  BY DEF IInv, ReplyPerThread, TakeLock
<1>. QED  BY <1>1, <1>2, <1>3, <1>4, <1>5, <1>6, <1>7 DEF IInv

LEMMA GivesUpStep ==
    ASSUME IInv, NEW t \in Threads, pc[t] = "locked", GivesUp(t)
    PROVE  IInv'
<1>1. TypeOK'
  BY DEF IInv, GivesUp, TypeOK, cacheVars, history, Error
<1>2. LockExcludes'
  BY ThreadsAssumption DEF IInv, TypeOK, LockExcludes, InCritical, GivesUp
<1>3. ArgumentsChecked'
  BY DEF IInv, TypeOK, ArgumentsChecked, GivesUp
<1>4. LoadPlaced' /\ VictimIsLeastRecentlyUsed' /\ CacheMirrorsImage'
  BY DEF IInv, TypeOK, LoadPlaced, VictimIsLeastRecentlyUsed, CacheMirrorsImage, Loading, Used, Around, GivesUp, cacheVars, history
<1>5. UseIsPast' /\ AgeIsTimeSinceUse'
  BY DEF IInv, UseIsPast, AgeIsTimeSinceUse, Used, GivesUp, cacheVars, history
<1>6. AnswersAreImageBytes' /\ ShortOnlyByDriver'
  <2>1. ASSUME NEW u \in Threads, pc'[u] = "answered", ~Around(req'[u])
        PROVE  /\ pc[u] = "answered" /\ req'[u] = req[u]
               /\ reply'[u] = reply[u] /\ driver'[u] = driver[u]
    BY <2>1 DEF IInv, TypeOK, ReplyPerThread, GivesUp, history
  <2>. QED  BY <2>1, AnswersStableLemma DEF IInv
<1>7. ReplyPerThread'
  BY DEF IInv, ReplyPerThread, GivesUp
<1>. QED  BY <1>1, <1>2, <1>3, <1>4, <1>5, <1>6, <1>7 DEF IInv

LEMMA RoundUpLemma ==
    ASSUME NEW n \in Nat
    PROVE  RoundUp(n) \in Nat
  BY SizesAssumption DEF RoundUp

LEMMA ReadAroundStep ==
    ASSUME IInv, NEW t \in Threads, ReadAround(t)
    PROVE  IInv'
<1>1. TypeOK'
  <2>1. req[t].len \in Nat
    BY DEF IInv, ArgumentsChecked, ReadAround
  <2>. DEFINE q == req[t]
              size == IF q.len % SectorSize = 0 THEN q.len ELSE RoundUp(q.len)
  <2>2. size \in Nat
    BY <2>1, RoundUpLemma
  <2>3. PICK n \in DriverReturns(q.off, size) :
            driver' = [driver EXCEPT ![t] = [asked |-> size, got |-> n]]
    BY DEF ReadAround
  <2>4. n \in Int
    BY <2>2 DEF DriverReturns
  <2>5. driver' \in [Threads -> [asked : Nat, got : Int]]
    <3>. HIDE DEF size
    <3>. QED  BY <2>2, <2>3, <2>4, TypeLemma DEF TypeOK
  <2>. QED  BY <2>5 DEF IInv, TypeOK, ReadAround, cacheVars
<1>2. LockExcludes'
  BY DEF IInv, TypeOK, LockExcludes, InCritical, ReadAround
<1>3. ArgumentsChecked'
  BY DEF IInv, TypeOK, ArgumentsChecked, ReadAround
<1>4. LoadPlaced' /\ VictimIsLeastRecentlyUsed' /\ CacheMirrorsImage'
  BY DEF IInv, TypeOK, LoadPlaced, VictimIsLeastRecentlyUsed, CacheMirrorsImage, Loading, Used, Around, ReadAround, cacheVars, history
<1>5. UseIsPast' /\ AgeIsTimeSinceUse'
  BY DEF IInv, UseIsPast, AgeIsTimeSinceUse, Used, ReadAround, cacheVars, history
<1>6. AnswersAreImageBytes' /\ ShortOnlyByDriver'
  <2>1. ASSUME NEW u \in Threads, pc'[u] = "answered", ~Around(req'[u])
        PROVE  /\ pc[u] = "answered" /\ req'[u] = req[u]
               /\ reply'[u] = reply[u] /\ driver'[u] = driver[u]
    BY <2>1 DEF IInv, TypeOK, ReplyPerThread, ReadAround, history
  <2>. QED  BY <2>1, AnswersStableLemma DEF IInv
<1>7. ReplyPerThread'
  BY DEF IInv, ReplyPerThread, ReadAround
<1>. QED  BY <1>1, <1>2, <1>3, <1>4, <1>5, <1>6, <1>7 DEF IInv

LEMMA ReleaseStep ==
    ASSUME IInv, NEW t \in Threads, Release(t)
    PROVE  IInv'
<1>1. TypeOK'
  BY DEF IInv, Release, TypeOK, cacheVars, history
<1>2. LockExcludes'
  BY ThreadsAssumption DEF IInv, TypeOK, LockExcludes, InCritical, Release
<1>3. ArgumentsChecked'
  BY DEF IInv, TypeOK, ArgumentsChecked, Release
<1>4. LoadPlaced' /\ VictimIsLeastRecentlyUsed' /\ CacheMirrorsImage'
  BY DEF IInv, TypeOK, LoadPlaced, VictimIsLeastRecentlyUsed, CacheMirrorsImage, Loading, Used, Around, Release, cacheVars, history
<1>5. UseIsPast' /\ AgeIsTimeSinceUse'
  BY DEF IInv, UseIsPast, AgeIsTimeSinceUse, Used, Release, cacheVars, history
<1>6. AnswersAreImageBytes' /\ ShortOnlyByDriver'
  <2>1. ASSUME NEW u \in Threads, pc'[u] = "answered", ~Around(req'[u])
        PROVE  /\ pc[u] = "answered" /\ req'[u] = req[u]
               /\ reply'[u] = reply[u] /\ driver'[u] = driver[u]
    BY <2>1 DEF IInv, TypeOK, ReplyPerThread, Release, history
  <2>. QED  BY <2>1, AnswersStableLemma DEF IInv
<1>7. ReplyPerThread'
  BY DEF IInv, ReplyPerThread, Release
<1>. QED  BY <1>1, <1>2, <1>3, <1>4, <1>5, <1>6, <1>7 DEF IInv

\* The lock keeps every other thread out of the steps that touch the cache.
LEMMA AloneLemma ==
    ASSUME LockExcludes, NEW t \in Threads, InCritical(t)
    PROVE  lock = t /\ \A u \in Threads \ {t} : ~InCritical(u)
  BY DEF LockExcludes

\* What the look through the slots does to ages and uses.
LEMMA LookThroughLemma ==
    ASSUME IInv, NEW q \in Requests, LookThrough(q), UNCHANGED cacheLen
    PROVE  /\ cacheAge' \in [Slots -> Int]
           /\ lastUse' \in [Slots -> Nat]
           /\ lookups' \in Nat
           /\ UseIsPast'
           /\ AgeIsTimeSinceUse'
<1>1. cacheAge' \in [Slots -> Int]
  <2>1. Aged(q) \in [Slots -> Int]
    BY SizesAssumption, TypeLemma DEF TypeOK, Aged
  <2>. QED  BY <2>1 DEF LookThrough
<1>2. lastUse' \in [Slots -> Nat]
  BY UseAfterLemma DEF IInv, LookThrough
<1>3. lookups' \in Nat
  BY TypeLemma DEF TypeOK, LookThrough
<1>4. UseIsPast'
  BY UseAfterLemma DEF IInv, UseIsPast, LookThrough
<1>5. AgeIsTimeSinceUse'
  <2>1. ASSUME NEW i \in Slots, Used(i)
        PROVE  cacheAge'[i] = CacheAge - (lookups' - lastUse'[i])
    <3>1. Aged(q)[i] = CacheAge - (lookups + 1 - UseAfter(q)[i])
      BY <2>1, AgedLemma DEF IInv
    <3>2. cacheAge' = Aged(q) /\ lookups' = lookups + 1 /\ lastUse' = UseAfter(q)
      BY DEF LookThrough
    <3>3. cacheAge'[i] = Aged(q)[i] /\ lastUse'[i] = UseAfter(q)[i]
      BY <3>2
    <3>4. lookups' - lastUse'[i] = lookups + 1 - UseAfter(q)[i]
      <4>1. lookups \in Nat /\ lastUse'[i] \in Nat /\ UseAfter(q)[i] = lastUse'[i]
        BY <1>2, <3>3, TypeLemma DEF TypeOK
      <4>2. lookups' = lookups + 1
        BY <3>2
      <4>. QED  BY <4>1, <4>2
    <3>. QED  BY <3>1, <3>3, <3>4, Zenon
  <2>2. \A i \in Slots : Used(i)' <=> Used(i)
    BY DEF Used
  <2>. QED  BY <2>1, <2>2 DEF AgeIsTimeSinceUse
<1>. QED  BY <1>1, <1>2, <1>3, <1>4, <1>5

LEMMA HitStep ==
    ASSUME IInv, NEW t \in Threads, Hit(t)
    PROVE  IInv'
<1>. DEFINE q == req[t]
            i == FoundIn(q)
<1>0. /\ q \in Requests /\ q.off \in Nat /\ q.len \in Nat /\ q.off < ImgSize
      /\ ~Around(q) /\ InCritical(t) /\ pc[t] = "locked"
  BY DEF IInv, TypeOK, ArgumentsChecked, Hit, InCritical
<1>1. i \in Hits(q)
  BY Zenon DEF Hit, FoundIn
<1>2. i \in Slots /\ Covers(i, q)
  BY <1>1 DEF Hits
<1>3. TypeOK' /\ UseIsPast' /\ AgeIsTimeSinceUse'
  <2>1. LookThrough(q) /\ UNCHANGED cacheLen
    BY DEF Hit
  <2>2. /\ cacheAge' \in [Slots -> Int] /\ lastUse' \in [Slots -> Nat]
        /\ lookups' \in Nat /\ UseIsPast' /\ AgeIsTimeSinceUse'
    BY <1>0, <2>1, LookThroughLemma
  <2>3. driver' \in [Threads -> [asked : Nat, got : Int]]
    BY DEF IInv, TypeOK, Hit, NotAsked
  <2>. QED  BY <2>2, <2>3, TypeLemma DEF TypeOK, Hit
<1>4. ReplyPerThread' /\ LockExcludes' /\ ArgumentsChecked' /\ LoadPlaced'
  BY DEF IInv, TypeOK, ReplyPerThread, LockExcludes, InCritical, ArgumentsChecked,
         LoadPlaced, Around, Hit
<1>7. VictimIsLeastRecentlyUsed' /\ CacheMirrorsImage'
  <2>1. \A u \in Threads : pc[u] # "loading" /\ pc'[u] # "loading"
    BY <1>0, AloneLemma DEF IInv, TypeOK, InCritical, Hit
  <2>. QED
    BY <2>1 DEF IInv, VictimIsLeastRecentlyUsed, CacheMirrorsImage, Loading, Used, Hit
<1>8. AnswersAreImageBytes' /\ ShortOnlyByDriver'
  <2>. DEFINE n == Clipped(q)
  <2>1. n \in Nat /\ n <= ImgSize - q.off
    BY <1>0, SizesAssumption DEF Clipped, Smaller
  <2>2. \A u \in Threads \ {t} : pc'[u] # "answered"
    BY <1>0, AloneLemma DEF IInv, TypeOK, InCritical, Hit
  <2>3. /\ reply'[t] = CopyOut(cache[i], q.off - cacheOff[i], n)
        /\ req' = req /\ driver'[t].got >= driver'[t].asked
    BY DEF IInv, TypeOK, ReplyPerThread, Hit, NotAsked
  <2>4. reply'[t].ret = n
    BY <2>3 DEF CopyOut
  <2>5. ASSUME NEW k \in 0..(n - 1)  PROVE reply'[t].data[k] = q.off + k
    <3>. DEFINE o == cacheOff[i]
                r == q.off - o + k
    <3>1. o \in Nat /\ cacheLen[i] \in Nat /\ o <= q.off /\ o + cacheLen[i] >= q.off + n
      BY <1>2, SizesAssumption DEF Covers, IInv, TypeOK
    <3>2. r \in 0..(cacheLen[i] - 1) /\ o + r = q.off + k
      BY <3>1, <2>1, <1>0
    <3>3. ~Loading(i) /\ Used(i)
      BY <1>0, <1>2, AloneLemma DEF IInv, InCritical, Loading, Covers
    <3>4. cache[i][r] = o + r
      BY <3>2, <3>3, <1>2 DEF IInv, CacheMirrorsImage
    <3>. QED  BY <2>3, <3>2, <3>4 DEF CopyOut
  <2>6. AnswersAreImageBytes'
    BY <2>1, <2>2, <2>3, <2>4, <2>5 DEF AnswersAreImageBytes
  <2>7. ShortOnlyByDriver'
    BY <2>2, <2>3, <2>4 DEF ShortOnlyByDriver
  <2>. QED  BY <2>6, <2>7
<1>. QED  BY <1>3, <1>4, <1>7, <1>8 DEF IInv

LEMMA MissStep ==
    ASSUME IInv, NEW t \in Threads, Miss(t)
    PROVE  IInv'
<1>. DEFINE q == req[t]
            i == Victim(q)
            o == (q.off \div Unit) * Unit
<1>0. /\ q \in Requests /\ q.off \in Nat /\ q.len \in Nat /\ q.off < ImgSize
      /\ ~Around(q) /\ InCritical(t) /\ pc[t] = "locked"
  BY DEF IInv, TypeOK, ArgumentsChecked, Miss, InCritical
<1>1. /\ i \in Slots
      /\ ~Used(i) \/ \A j \in Slots : Used(j) /\ UseAfter(q)[i] <= UseAfter(q)[j]
  BY <1>0, VictimLemma DEF IInv
<1>2. \A u \in Threads \ {t} : ~InCritical(u) /\ pc'[u] = pc[u]
  BY <1>0, AloneLemma DEF IInv, TypeOK, Miss
<1>3. /\ pc' = [pc EXCEPT ![t] = "loading"] /\ next' = [next EXCEPT ![t] = i]
      /\ cacheOff' = [cacheOff EXCEPT ![i] = o] /\ req' = req /\ cacheLen' = cacheLen
      /\ cache' = cache /\ lastUse' = UseAfter(q)
  BY DEF Miss, LookThrough
<1>4. TypeOK' /\ UseIsPast' /\ AgeIsTimeSinceUse'
  <2>1. LookThrough(q) /\ UNCHANGED cacheLen
    BY DEF Miss
  <2>2. /\ cacheAge' \in [Slots -> Int] /\ lastUse' \in [Slots -> Nat]
        /\ lookups' \in Nat /\ UseIsPast' /\ AgeIsTimeSinceUse'
    BY <1>0, <2>1, LookThroughLemma
  <2>3. o \in Nat
    BY <1>0, DivisionLemma
  <2>4. cacheOff' \in [Slots -> Nat] /\ next' \in [Threads -> Slots]
    <3>. HIDE DEF o, i
    <3>. QED  BY <1>1, <1>3, <2>3, TypeLemma DEF TypeOK
  <2>. QED  BY <2>2, <2>4, TypeLemma DEF TypeOK, Miss
<1>5. ReplyPerThread' /\ LockExcludes' /\ ArgumentsChecked'
  BY DEF IInv, TypeOK, ReplyPerThread, LockExcludes, InCritical, ArgumentsChecked, Miss
<1>6. \A u \in Threads : pc'[u] = "loading" => u = t
  BY <1>2 DEF InCritical
<1>7. next'[t] = i /\ cacheOff'[i] = o /\ \A j \in Slots \ {i} : cacheOff'[j] = cacheOff[j]
  <2>. HIDE DEF o, i
  <2>. QED  BY <1>1, <1>3, TypeLemma DEF TypeOK
<1>8. LoadPlaced'
  BY <1>0, <1>3, <1>6, <1>7 DEF LoadPlaced, Around
<1>9. VictimIsLeastRecentlyUsed'
  <2>. HIDE DEF i
  <2>. QED  BY <1>1, <1>3, <1>6, <1>7 DEF VictimIsLeastRecentlyUsed, Used
<1>10. CacheMirrorsImage'
  <2>1. ASSUME NEW j \in Slots, ~Loading(j)'  PROVE j # i
    <3>1. pc'[t] = "loading"
      BY <1>3, TypeLemma DEF TypeOK
    <3>. HIDE DEF i
    <3>. QED  BY <2>1, <3>1, <1>7 DEF Loading
  <2>2. \A j \in Slots : ~Loading(j)
    BY <1>0, <1>2 DEF Loading, InCritical
  <2>. HIDE DEF i
  <2>. QED  BY <2>1, <2>2, <1>3, <1>7 DEF IInv, CacheMirrorsImage, Used
<1>11. AnswersAreImageBytes' /\ ShortOnlyByDriver'
  <2>1. \A u \in Threads : pc'[u] # "answered"
    BY <1>0, <1>2, <1>3 DEF InCritical, IInv, TypeOK
  <2>. QED  BY <2>1 DEF AnswersAreImageBytes, ShortOnlyByDriver
<1>. QED  BY <1>4, <1>5, <1>8, <1>9, <1>10, <1>11 DEF IInv

\* What a thread that waits for the driver knows of its slot.
LEMMA LoadingLemma ==
    ASSUME IInv, NEW t \in Threads, pc[t] = "loading"
    PROVE  LET q == req[t]
               i == next[t]
               rel == q.off - cacheOff[i]
           IN  /\ i \in Slots /\ q \in Requests
               /\ q.off \in Nat /\ q.len \in Nat /\ q.off < ImgSize /\ ~Around(q)
               /\ cacheOff[i] \in Nat /\ cacheOff[i] < ImgSize
               /\ rel \in Nat /\ rel + q.len <= CacheLen
               /\ LoadSize(i) \in 1..CacheLen /\ LoadSize(i) <= ImgSize - cacheOff[i]
               /\ Clipped(q) \in Nat /\ Clipped(q) <= q.len /\ Clipped(q) <= ImgSize - q.off
               /\ rel + Clipped(q) <= LoadSize(i)
<1>. DEFINE q == req[t]
            i == next[t]
            o == cacheOff[i]
            m == q.off % Unit
<1>1. i \in Slots /\ q \in Requests /\ q.off \in Nat /\ q.len \in Nat
  BY DEF IInv, TypeOK, ArgumentsChecked
<1>2. q.off < ImgSize /\ ~Around(q)
  BY DEF IInv, LoadPlaced
<1>3. o \in Nat /\ m \in Nat /\ q.off = o + m
  <2>1. /\ (q.off \div Unit) * Unit \in Nat
        /\ m \in 0..(Unit - 1)
        /\ q.off = (q.off \div Unit) * Unit + m
    BY <1>1, DivisionLemma
  <2>2. o = (q.off \div Unit) * Unit
    BY DEF IInv, LoadPlaced
  <2>3. m \in Nat
    <3>. HIDE DEF m
    <3>. QED  BY <2>1, SizesAssumption
  <2>. HIDE DEF m, o, q
  <2>. QED  BY <2>1, <2>2, <2>3, Zenon
<1>4. q.len + m <= CacheLen
  <2>1. ~ (q.len + m > CacheLen)
    BY <1>2 DEF Around
  <2>. HIDE DEF m, q
  <2>. QED  BY <2>1, <1>1, <1>3, SizesAssumption
<1>5. LoadSize(i) = Smaller(CacheLen, ImgSize - o) /\ Clipped(q) = Smaller(q.len, ImgSize - q.off)
  BY DEF LoadSize, Clipped
<1>. HIDE DEF q, i, o, m
<1>6. /\ LoadSize(i) \in 1..CacheLen /\ LoadSize(i) <= ImgSize - o
      /\ Clipped(q) \in Nat /\ Clipped(q) <= q.len /\ Clipped(q) <= ImgSize - q.off
      /\ m + Clipped(q) <= LoadSize(i)
  BY <1>1, <1>2, <1>3, <1>4, <1>5, SizesAssumption DEF Smaller
<1>7. q.off - o = m /\ o < ImgSize /\ m + q.len <= CacheLen
  BY <1>1, <1>2, <1>3, <1>4, SizesAssumption
<1>. QED  BY <1>1, <1>2, <1>3, <1>6, <1>7 DEF q, i, o, m

LEMMA LoadStep ==
    ASSUME IInv, NEW t \in Threads, Load(t)
    PROVE  IInv'
<1>. DEFINE q == req[t]
            i == next[t]
            o == cacheOff[i]
            rel == q.off - o
            size == LoadSize(i)
            clip == Clipped(q)
            filled(n) == [k \in 0..(CacheLen - 1) |-> IF k < n THEN Byte(o + k) ELSE cache[i][k]]
            count(n) == IF rel > n THEN 0 ELSE Smaller(clip, n - rel)
<1>0. pc[t] = "loading" /\ InCritical(t)
  BY DEF Load, InCritical
<1>1. /\ i \in Slots /\ q \in Requests /\ q.off \in Nat /\ ~Around(q)
      /\ o \in Nat /\ o < ImgSize /\ rel \in Nat
      /\ size \in 1..CacheLen /\ size <= ImgSize - o
      /\ clip \in Nat /\ clip <= ImgSize - q.off /\ rel + clip <= size
  BY <1>0, LoadingLemma
<1>2. \A u \in Threads \ {t} : ~InCritical(u) /\ pc'[u] = pc[u]
  BY <1>0, AloneLemma DEF IInv, TypeOK, Load
<1>3. PICK n \in DriverReturns(o, size) :
          /\ n > 0
          /\ cacheAge' = [cacheAge EXCEPT ![i] = CacheAge]
          /\ cacheLen' = [cacheLen EXCEPT ![i] = n]
          /\ cache' = [cache EXCEPT ![i] = filled(n)]
          /\ reply' = [reply EXCEPT ![t] = CopyOut(filled(n), rel, count(n))]
          /\ driver' = [driver EXCEPT ![t] = [asked |-> size, got |-> n]]
  BY DEF Load
<1>4. /\ pc' = [pc EXCEPT ![t] = "answered"] /\ lastUse' = [lastUse EXCEPT ![i] = lookups]
      /\ UNCHANGED <<lock, cacheOff, req, next, calls, lookups>>
  BY DEF Load
<1>5. n \in Nat /\ n > 0 /\ n <= size
  BY <1>1, <1>3 DEF DriverReturns
<1>6. /\ count(n) \in Nat /\ count(n) <= clip
      /\ rel + count(n) <= n \/ count(n) = 0
      /\ n = size => count(n) = clip
  <2>1. clip \in Nat /\ rel \in Nat /\ n \in Nat /\ size \in Nat /\ rel + clip <= size
    BY <1>1, <1>5
  <2>. HIDE DEF clip, rel, size
  <2>. QED  BY <2>1 DEF Smaller
<1>7. filled(n) \in [0..(CacheLen - 1) -> ByteNames]
  <2>1. cache[i] \in [0..(CacheLen - 1) -> ByteNames]
    BY <1>1, TypeLemma DEF TypeOK
  <2>2. \A b \in Int : Byte(b) \in ByteNames
    BY DEF Byte, ByteNames
  <2>3. ASSUME NEW k \in 0..(CacheLen - 1)
        PROVE  (IF k < n THEN Byte(o + k) ELSE cache[i][k]) \in ByteNames
    <3>1. o + k \in Int
      BY <1>1
    <3>2. Byte(o + k) \in ByteNames
      BY <2>2, <3>1
    <3>. QED  BY <2>1, <3>2, Zenon
  <2>. HIDE DEF i, o
  <2>. QED  BY <2>3
<1>8. \A k \in 0..(n - 1) : filled(n)[k] = o + k
  <2>1. ASSUME NEW k \in 0..(n - 1)  PROVE filled(n)[k] = o + k
    <3>1. k \in 0..(CacheLen - 1) /\ k < n /\ o + k \in 0..(ImgSize - 1)
      <4>1. o \in Nat /\ size \in 1..CacheLen /\ size <= ImgSize - o
        BY <1>1
      <4>. HIDE DEF o, size
      <4>. QED  BY <4>1, <1>5, SizesAssumption
    <3>. QED  BY <3>1 DEF Byte
  <2>. QED  BY <2>1
<1>. HIDE DEF filled, count, i, o, rel, size, clip, q
<1>9. TypeOK'
  <2>1. cacheAge' \in [Slots -> Int] /\ lastUse' \in [Slots -> Nat]
    <3>1. CacheAge \in Int /\ lookups \in Nat
      BY SizesAssumption, TypeLemma DEF TypeOK
    <3>. QED  BY <3>1, <1>1, <1>3, <1>4, TypeLemma DEF TypeOK
  <2>2. cacheLen' \in [Slots -> 0..CacheLen]
    <3>1. n \in 0..CacheLen
      BY <1>1, <1>5, SizesAssumption
    <3>. QED  BY <3>1, <1>3, TypeLemma DEF TypeOK
  <2>3. cache' \in [Slots -> [0..(CacheLen - 1) -> ByteNames]]
    BY <1>1, <1>3, <1>7, TypeLemma DEF TypeOK
  <2>4. driver' \in [Threads -> [asked : Nat, got : Int]]
    BY <1>1, <1>3, <1>5, TypeLemma DEF TypeOK
  <2>. QED  BY <2>1, <2>2, <2>3, <2>4, <1>4, TypeLemma DEF TypeOK
<1>10. ReplyPerThread' /\ LockExcludes' /\ ArgumentsChecked'
  BY <1>0, <1>3, <1>4 DEF IInv, TypeOK, ReplyPerThread, LockExcludes, InCritical, ArgumentsChecked
<1>11. \A u \in Threads : pc'[u] # "loading"
  BY <1>0, <1>2, <1>4 DEF IInv, TypeOK, InCritical
<1>12. LoadPlaced' /\ VictimIsLeastRecentlyUsed'
  BY <1>11 DEF LoadPlaced, VictimIsLeastRecentlyUsed
<1>13. UseIsPast'
  BY <1>1, <1>4 DEF IInv, TypeOK, UseIsPast
<1>14. AgeIsTimeSinceUse'
  <2>1. CacheAge \in Nat /\ lookups \in Nat
    BY SizesAssumption, TypeLemma DEF TypeOK
  <2>2. ASSUME NEW j \in Slots, Used(j)'
        PROVE  cacheAge'[j] = CacheAge - (lookups - lastUse'[j])
    <3>1. CASE j = i
      BY <3>1, <2>1, <1>1, <1>3, <1>4, TypeLemma DEF TypeOK
    <3>2. CASE j # i
      <4>1. cacheLen'[j] = cacheLen[j] /\ cacheAge'[j] = cacheAge[j] /\ lastUse'[j] = lastUse[j]
        BY <3>2, <1>1, <1>3, <1>4, TypeLemma DEF TypeOK
      <4>. QED  BY <4>1, <2>2 DEF IInv, AgeIsTimeSinceUse, Used
    <3>. QED  BY <3>1, <3>2
  <2>. QED  BY <2>2, <1>4 DEF AgeIsTimeSinceUse
<1>15. CacheMirrorsImage'
  <2>1. ASSUME NEW j \in Slots, Used(j)'
        PROVE  /\ cacheOff[j] + cacheLen'[j] <= ImgSize
               /\ \A k \in 0..(cacheLen'[j] - 1) : cache'[j][k] = cacheOff[j] + k
    <3>1. CASE j = i
      <4>1. cacheLen'[i] = n /\ cache'[i] = filled(n)
        BY <1>1, <1>3, TypeLemma DEF TypeOK
      <4>2. o + n <= ImgSize
        BY <1>1, <1>5, SizesAssumption
      <4>. QED  BY <3>1, <4>1, <4>2, <1>8 DEF o
    <3>2. CASE j # i
      <4>1. cacheLen'[j] = cacheLen[j] /\ cache'[j] = cache[j]
        BY <3>2, <1>1, <1>3, TypeLemma DEF TypeOK
      <4>2. ~Loading(j) /\ Used(j)
        BY <3>2, <4>1, <2>1, <1>2 DEF Loading, InCritical, i, Used
      <4>. QED  BY <4>1, <4>2 DEF IInv, CacheMirrorsImage
    <3>. QED  BY <3>1, <3>2
  <2>. QED  BY <2>1, <1>4 DEF CacheMirrorsImage, Used
<1>16. AnswersAreImageBytes' /\ ShortOnlyByDriver'
  <2>1. \A u \in Threads \ {t} : pc'[u] # "answered"
    BY <1>2 DEF InCritical
  <2>2. /\ reply'[t] = CopyOut(filled(n), rel, count(n)) /\ req'[t] = q
        /\ driver'[t] = [asked |-> size, got |-> n]
    BY <1>3, <1>4 DEF IInv, TypeOK, ReplyPerThread, q
  <2>3. reply'[t].ret = count(n)
    BY <2>2 DEF CopyOut
  <2>4. ASSUME NEW k \in 0..(count(n) - 1)  PROVE reply'[t].data[k] = q.off + k
    <3>1. rel + k \in 0..(n - 1)
      BY <1>1, <1>5, <1>6
    <3>2. filled(n)[rel + k] = o + (rel + k)
      BY <1>8, <3>1
    <3>3. o + (rel + k) = q.off + k
      BY <1>1 DEF rel
    <3>. QED  BY <2>2, <3>2, <3>3 DEF CopyOut
  <2>5. AnswersAreImageBytes'
    BY <2>1, <2>2, <2>3, <2>4, <1>6 DEF AnswersAreImageBytes, clip
  <2>6. ShortOnlyByDriver'
    BY <2>1, <2>2, <2>3, <1>1, <1>5, <1>6 DEF ShortOnlyByDriver, clip
  <2>. QED  BY <2>5, <2>6
<1>. QED  BY <1>9, <1>10, <1>12, <1>13, <1>14, <1>15, <1>16 DEF IInv

LEMMA LoadFailsStep ==
    ASSUME IInv, NEW t \in Threads, LoadFails(t)
    PROVE  IInv'
<1>. DEFINE i == next[t]
            size == LoadSize(i)
<1>0. pc[t] = "loading" /\ InCritical(t) /\ i \in Slots
  BY DEF LoadFails, InCritical, IInv, TypeOK
<1>1. /\ size \in Nat /\ cacheOff[i] \in Nat
      /\ req[t].len \in Nat /\ Clipped(req[t]) <= req[t].len
  <2>1. size \in 1..CacheLen
    BY <1>0, LoadingLemma
  <2>2. size \in Nat
    <3>. HIDE DEF size
    <3>. QED  BY <2>1, SizesAssumption
  <2>. QED  BY <1>0, <2>2, LoadingLemma
<1>2. \A u \in Threads \ {t} : ~InCritical(u) /\ pc'[u] = pc[u]
  BY <1>0, AloneLemma DEF IInv, TypeOK, LoadFails
<1>3. PICK n \in DriverReturns(cacheOff[i], size) :
          /\ n <= 0
          /\ reply' = [reply EXCEPT ![t] = IF n < 0 THEN Error ELSE Bytes(0, <<>>)]
          /\ driver' = [driver EXCEPT ![t] = [asked |-> size, got |-> n]]
  BY DEF LoadFails
<1>4. n \in Int /\ n <= 0 /\ size > 0
  <2>1. size > 0
    <3>1. size \in 1..CacheLen
      BY <1>0, LoadingLemma
    <3>. HIDE DEF size
    <3>. QED  BY <3>1
  <2>2. n \in Int
    BY <1>1, <1>3 DEF DriverReturns
  <2>. QED  BY <1>3, <2>1, <2>2
<1>5. PICK d \in {cache[i], [k \in 0..(CacheLen - 1) |-> Junk]} :
          cache' = [cache EXCEPT ![i] = d]
  BY DEF LoadFails
<1>6. d \in [0..(CacheLen - 1) -> ByteNames]
  BY <1>0, <1>5, TypeLemma DEF TypeOK, ByteNames
<1>7. /\ pc' = [pc EXCEPT ![t] = "answered"]
      /\ cacheLen' = [cacheLen EXCEPT ![i] = 0]
      /\ cacheAge' = [cacheAge EXCEPT ![i] = 0]
      /\ cacheOff' = [cacheOff EXCEPT ![i] = 0]
      /\ UNCHANGED <<lock, req, next, calls, lookups, lastUse>>
  BY DEF LoadFails
<1>. HIDE DEF i, size
<1>8. TypeOK'
  <2>1. cacheOff' \in [Slots -> Nat] /\ cacheAge' \in [Slots -> Int]
    <3>1. cacheOff \in [Slots -> Nat] /\ cacheAge \in [Slots -> Int]
      BY TypeLemma DEF TypeOK
    <3>2. 0 \in Nat /\ 0 \in Int
      OBVIOUS
    <3>. QED  BY <3>1, <3>2, <1>7
  <2>2. cacheLen' \in [Slots -> 0..CacheLen]
    BY <1>0, <1>7, SizesAssumption, TypeLemma DEF TypeOK
  <2>3. cache' \in [Slots -> [0..(CacheLen - 1) -> ByteNames]]
    BY <1>0, <1>5, <1>6, TypeLemma DEF TypeOK
  <2>4. driver' \in [Threads -> [asked : Nat, got : Int]]
    BY <1>1, <1>3, <1>4, TypeLemma DEF TypeOK
  <2>. QED  BY <2>1, <2>2, <2>3, <2>4, <1>7, TypeLemma DEF TypeOK
<1>9. ReplyPerThread' /\ LockExcludes' /\ ArgumentsChecked'
  BY <1>0, <1>3, <1>7 DEF IInv, TypeOK, ReplyPerThread, LockExcludes, InCritical, ArgumentsChecked
<1>10. \A u \in Threads : pc'[u] # "loading"
  BY <1>0, <1>2, <1>7 DEF IInv, TypeOK, InCritical
<1>11. LoadPlaced' /\ VictimIsLeastRecentlyUsed'
  BY <1>10 DEF LoadPlaced, VictimIsLeastRecentlyUsed
<1>12. \A j \in Slots : Used(j)' =>
          /\ j # i /\ Used(j)
          /\ cacheLen'[j] = cacheLen[j] /\ cacheAge'[j] = cacheAge[j]
          /\ cacheOff'[j] = cacheOff[j] /\ cache'[j] = cache[j]
  BY <1>0, <1>5, <1>7 DEF IInv, TypeOK, Used
<1>13. UseIsPast' /\ AgeIsTimeSinceUse'
  <2>1. UseIsPast'
    BY <1>7 DEF IInv, UseIsPast
  <2>2. AgeIsTimeSinceUse'
    BY <1>7, <1>12 DEF IInv, AgeIsTimeSinceUse
  <2>. QED  BY <2>1, <2>2
<1>14. CacheMirrorsImage'
  <2>1. \A j \in Slots : Used(j)' => ~Loading(j)
    BY <1>2, <1>12 DEF Loading, InCritical, i
  <2>. QED  BY <2>1, <1>12 DEF IInv, CacheMirrorsImage
<1>15. AnswersAreImageBytes' /\ ShortOnlyByDriver'
  <2>1. \A u \in Threads \ {t} : pc'[u] # "answered"
    BY <1>2 DEF InCritical
  <2>2. /\ reply'[t] = (IF n < 0 THEN Error ELSE Bytes(0, <<>>)) /\ req'[t] = req[t]
        /\ driver'[t] = [asked |-> size, got |-> n]
    BY <1>3, <1>7 DEF IInv, TypeOK, ReplyPerThread
  <2>3. reply'[t].ret = -1 \/ reply'[t].ret = 0
    BY <2>2 DEF Error, Bytes
  <2>4. Clipped(req[t]) \in Nat
    BY <1>0, LoadingLemma
  <2>5. AnswersAreImageBytes'
    BY <2>1, <2>2, <2>3, <2>4 DEF AnswersAreImageBytes
  <2>6. ShortOnlyByDriver'
    BY <2>1, <2>2, <1>1, <1>4 DEF ShortOnlyByDriver
  <2>. QED  BY <2>5, <2>6
<1>. QED  BY <1>8, <1>9, <1>11, <1>13, <1>14, <1>15 DEF IInv

-------------------------------------------------------------------------------
(* Results.                                                                 *)

\* The invariant holds, whatever the threads, the driver and the sizes:
\* tsk_img_read never leaves the cache in a state it cannot serve from.
THEOREM Invariance == Spec => []IInv
<1>1. Init => IInv
  BY InitLemma
<1>2. IInv /\ [Next]_vars => IInv'
  <2>. SUFFICES ASSUME IInv, [Next]_vars PROVE IInv'
    OBVIOUS
  <2>1. ASSUME NEW t \in Threads, Call(t) \/ Refuse(t) \/ InLibrary(t)
        PROVE  IInv'
    <3>1. CASE Call(t)
      BY <3>1, CallStep
    <3>2. CASE Refuse(t)
      BY <3>2, RefuseStep
    <3>3. CASE InLibrary(t)
      BY <3>3, TakeLockStep, ReadAroundStep, GivesUpStep, HitStep, MissStep, LoadStep,
         LoadFailsStep, ReleaseStep DEF InLibrary, PastEnd, NoBuffer
    <3>. QED  BY <2>1, <3>1, <3>2, <3>3
  <2>2. CASE UNCHANGED vars
    BY <2>2 DEF vars, cacheVars, history, IInv, TypeOK, ReplyPerThread, LockExcludes, InCritical,
       ArgumentsChecked, LoadPlaced, UseIsPast, AgeIsTimeSinceUse, VictimIsLeastRecentlyUsed,
       CacheMirrorsImage, AnswersAreImageBytes, ShortOnlyByDriver, Used, Loading, Around
  <2>. QED  BY <2>1, <2>2 DEF Next
<1>. QED  BY <1>1, <1>2, PTL DEF Spec

\* Every variable keeps its type (tsk_img_read, img_io.c:24-237).
THEOREM TypeCorrectness == Spec => []TypeOK
<1>1. IInv => TypeOK
  BY DEF IInv
<1>. QED  BY <1>1, Invariance, PTL

\* cache_lock is held exactly from its taking to its release, on every path
\* (img_io.c:68-72, 102, 109, 235).
THEOREM LockExclusion == Spec => []LockExcludes
<1>1. IInv => LockExcludes
  BY DEF IInv
<1>. QED  BY <1>1, Invariance, PTL

\* A slot that is in use and not being loaded holds the bytes of the image its
\* offset and length name (img_io.c:175-233).
THEOREM CacheFidelity == Spec => []CacheMirrorsImage
<1>1. IInv => CacheMirrorsImage
  BY DEF IInv
<1>. QED  BY <1>1, Invariance, PTL

\* A read through the cache returns the bytes of the range it was asked for
\* (img_io.c:126-151, 206-227).
THEOREM AnswerFidelity == Spec => []AnswersAreImageBytes
<1>1. IInv => AnswersAreImageBytes
  BY DEF IInv
<1>. QED  BY <1>1, Invariance, PTL

\* ... and all of them, unless the driver fell short in this very call.
THEOREM AnswerCompleteness == Spec => []ShortOnlyByDriver
<1>1. IInv => ShortOnlyByDriver
  BY DEF IInv
<1>. QED  BY <1>1, Invariance, PTL

\* The slot given up is the least recently used one (img_io.c:126-172), as the
\* ages count look-ups since the last use.
THEOREM Replacement == Spec => [](AgeIsTimeSinceUse /\ VictimIsLeastRecentlyUsed)
<1>1. IInv => AgeIsTimeSinceUse /\ VictimIsLeastRecentlyUsed
  BY DEF IInv
<1>. QED  BY <1>1, Invariance, PTL

-------------------------------------------------------------------------------
(* Refinement of ImageReads.                                                *)

\* A true answer through the cache is one the abstract reads allow.
LEMMA CachedAnswerLemma ==
    ASSUME NEW q \in Requests, NEW r, q.off \in Nat, q.len \in Nat, q.off < ImgSize,
           ~Around(q), r.ret \in Nat, r.ret <= Clipped(q),
           \A k \in 0..(r.ret - 1) : r.data[k] = q.off + k
    PROVE  Reads!Allowed(q, r)
<1>1. Clipped(q) \in Nat /\ Clipped(q) <= q.len /\ Clipped(q) <= ImgSize - q.off
  BY SizesAssumption DEF Clipped, Smaller
<1>2. r.ret \in 0..q.len /\ q.off + r.ret <= ImgSize
  BY <1>1, SizesAssumption
<1>. QED  BY <1>2 DEF Reads!Allowed, Reads!Honest

LEMMA AroundAnswerLemma ==
    ASSUME IInv, NEW t \in Threads, ReadAround(t)
    PROVE  Reads!Allowed(req[t], reply'[t])
<1>. DEFINE q == req[t]
            whole == q.len % SectorSize = 0
            size == IF whole THEN q.len ELSE RoundUp(q.len)
            d(n) == [k \in 0..(q.len - 1) |-> IF k < n THEN Byte(q.off + k) ELSE Junk]
<1>1. Around(q) /\ q.len \in Nat
  BY DEF ReadAround, IInv, ArgumentsChecked
<1>2. CASE ~whole
  BY <1>1, <1>2 DEF Reads!Allowed, Reads!Rounded, Reads!Around, Around
<1>3. CASE whole
  <2>1. PICK n \in DriverReturns(q.off, q.len) :
            reply' = [reply EXCEPT ![t] = IF n < 0 THEN Error ELSE Bytes(n, d(n))]
    BY <1>3 DEF ReadAround
  <2>2. n \in Int /\ n <= q.len
    BY <1>1, <2>1 DEF DriverReturns
  <2>3. reply'[t] = IF n < 0 THEN Error ELSE Bytes(n, d(n))
    BY <2>1 DEF IInv, ReplyPerThread
  <2>4. CASE n < 0
    BY <2>3, <2>4 DEF Reads!Allowed, Reads!Error, Error
  <2>5. CASE n >= 0
    <3>1. reply'[t].ret = n /\ \A k \in 0..(n - 1) : reply'[t].data[k] = d(n)[k]
      BY <2>2, <2>3, <2>5 DEF Bytes
    <3>2. ASSUME NEW k \in 0..(n - 1), Reads!Byte(q.off + k) # Reads!Junk
          PROVE  d(n)[k] = q.off + k
      <4>1. k \in 0..(q.len - 1) /\ k < n
        BY <2>2, <1>1
      <4>2. Byte(q.off + k) = q.off + k
        BY <3>2 DEF Reads!Byte, Reads!Junk, Byte, Junk
      <4>. QED  BY <4>1, <4>2
    <3>3. Reads!Around(q)
      BY <1>1 DEF Reads!Around, Around
    <3>4. n \in 0..q.len
      BY <1>1, <2>2, <2>5
    <3>5. \A k \in 0..(n - 1) : Reads!Byte(q.off + k) # Reads!Junk => reply'[t].data[k] = q.off + k
      <4>. HIDE DEF d
      <4>. QED  BY <3>1, <3>2
    <3>6. Reads!Honest(q, reply'[t])
      BY <3>1, <3>3, <3>4, <3>5, Zenon DEF Reads!Honest
    <3>. QED  BY <3>6 DEF Reads!Allowed
  <2>. QED  BY <2>2, <2>4, <2>5
<1>. QED  BY <1>2, <1>3

LEMMA HitOrLoadAnswerLemma ==
    ASSUME IInv, NEW t \in Threads, Hit(t) \/ Load(t) \/ LoadFails(t)
    PROVE  Reads!Allowed(req[t], reply'[t])
<1>. DEFINE q == req[t]
<1>1. IInv'
  BY HitStep, LoadStep, LoadFailsStep
<1>2. req' = req /\ pc'[t] = "answered"
  BY DEF IInv, TypeOK, Hit, Load, LoadFails
<1>3. q \in Requests /\ q.off \in Nat /\ q.len \in Nat /\ q.off < ImgSize /\ ~Around(q)
  BY DEF IInv, TypeOK, ArgumentsChecked, LoadPlaced, Hit, Load, LoadFails
<1>4. reply'[t] = Error \/ reply'[t].ret \in Nat
  <2>1. CASE Hit(t)
    <3>1. Clipped(q) \in Nat
      BY <1>3, SizesAssumption DEF Clipped, Smaller
    <3>2. reply'[t].ret = Clipped(q)
      BY <2>1 DEF Hit, IInv, ReplyPerThread, CopyOut
    <3>. QED  BY <3>1, <3>2
  <2>2. CASE Load(t)
    <3>. DEFINE rel == q.off - cacheOff[next[t]]
                clip == Clipped(q)
    <3>1. rel \in Nat /\ clip \in Nat /\ LoadSize(next[t]) \in Nat
      <4>1. rel \in Nat /\ clip \in Nat /\ LoadSize(next[t]) \in 1..CacheLen
        BY <2>2, LoadingLemma DEF Load
      <4>. QED  BY <4>1, SizesAssumption
    <3>. DEFINE i == next[t]
                filled(n) == [k \in 0..(CacheLen - 1) |->
                                 IF k < n THEN Byte(cacheOff[i] + k) ELSE cache[i][k]]
                count(n) == IF rel > n THEN 0 ELSE Smaller(clip, n - rel)
    <3>2. PICK n \in DriverReturns(cacheOff[i], LoadSize(i)) :
              reply' = [reply EXCEPT ![t] = CopyOut(filled(n), rel, count(n))]
      BY <2>2 DEF Load
    <3>4. reply'[t].ret = count(n)
      <4>. HIDE DEF filled, count, rel
      <4>. QED  BY <3>2 DEF IInv, ReplyPerThread, CopyOut
    <3>3. n \in Int
      BY <3>1, <3>2 DEF DriverReturns
    <3>. HIDE DEF rel, clip
    <3>. QED  BY <3>1, <3>3, <3>4 DEF Smaller
  <2>3. CASE LoadFails(t)
    BY <2>3 DEF LoadFails, IInv, ReplyPerThread, Bytes
  <2>. QED  BY <2>1, <2>2, <2>3
<1>5. CASE reply'[t] = Error
  BY <1>5 DEF Reads!Allowed, Reads!Error, Error
<1>6. CASE reply'[t].ret \in Nat
  <2>1. /\ reply'[t].ret <= Clipped(q)
        /\ \A k \in 0..(reply'[t].ret - 1) : reply'[t].data[k] = q.off + k
    <3>1. AnswersAreImageBytes'
      BY <1>1 DEF IInv
    <3>2. reply'[t].ret >= 0
      BY <1>6
    <3>. QED  BY <3>1, <3>2, <1>2, <1>3 DEF AnswersAreImageBytes
  <2>. QED  BY <1>3, <1>6, <2>1, CachedAnswerLemma
<1>. QED  BY <1>4, <1>5, <1>6

\* What a caller of tsk_img_read sees is an abstract read: a reply after the
\* question, and in it the bytes of the image or the error.
THEOREM Refinement == Spec => ReadsSpec
<1>. DEFINE ph == [t \in Threads |-> IF pc[t] \in {"idle", "answered"} THEN "idle" ELSE "asked"]
<1>1. Init => Reads!Init
  BY DEF Init, Reads!Init, Reads!Error, Error, Reads!AnyRequest, AnyRequest,
         Reads!Requests, Requests
<1>2. IInv /\ [Next]_vars => [Reads!Next]_(Reads!vars)
  <2>. SUFFICES ASSUME IInv, [Next]_vars PROVE Reads!Next \/ UNCHANGED Reads!vars
    OBVIOUS
  <2>1. ASSUME NEW t \in Threads, Call(t)
        PROVE  Reads!Ask(t)
    BY <2>1 DEF Call, Reads!Ask, IInv, TypeOK, Reads!Requests, Requests
  <2>2. ASSUME NEW t \in Threads, Refuse(t)
        PROVE  Reads!Refuse(t)
    BY <2>2 DEF Refuse, Reads!Refuse, IInv, TypeOK, Reads!Error, Error
  <2>3. ASSUME NEW t \in Threads,
               ReadAround(t) \/ NoBuffer(t) \/ PastEnd(t) \/ Hit(t) \/ Load(t) \/ LoadFails(t)
        PROVE  Reads!Answer(t)
    <3>1. Reads!Allowed(req[t], reply'[t])
      <4>1. CASE NoBuffer(t) \/ PastEnd(t)
        BY <4>1 DEF NoBuffer, PastEnd, GivesUp, IInv, ReplyPerThread, Reads!Allowed, Reads!Error, Error
      <4>. QED  BY <4>1, <2>3, AroundAnswerLemma, HitOrLoadAnswerLemma
    <3>2. reply' = [reply EXCEPT ![t] = reply'[t]] /\ req' = req
      BY <2>3 DEF IInv, ReplyPerThread, ReadAround, NoBuffer, PastEnd, GivesUp, Hit, Load, LoadFails
    <3>3. ph[t] = "asked" /\ ph' = [ph EXCEPT ![t] = "idle"]
      BY <2>3 DEF IInv, TypeOK, ReadAround, NoBuffer, PastEnd, GivesUp, Hit, Load, LoadFails
    <3>. QED  BY <3>1, <3>2, <3>3 DEF Reads!Answer
  <2>4. ASSUME NEW t \in Threads, TakeLock(t) \/ Miss(t) \/ Release(t)
        PROVE  UNCHANGED Reads!vars
    BY <2>4 DEF TakeLock, Miss, Release, Reads!vars, IInv, TypeOK
  <2>5. CASE UNCHANGED vars
    BY <2>5 DEF vars, Reads!vars
  <2>. QED  BY <2>1, <2>2, <2>3, <2>4, <2>5 DEF Next, InLibrary, Reads!Next
<1>. QED  BY <1>1, <1>2, Invariance, PTL DEF Spec, ReadsSpec, Reads!Spec
===============================================================================
