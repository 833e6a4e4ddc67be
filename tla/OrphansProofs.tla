---------------------------- MODULE OrphansProofs ----------------------------
(***************************************************************************)
(* Proofs about Orphans, for any file systems, threads, walks and          *)
(* searches: orphan_dir_lock, which a search holds from end to end, makes  *)
(* all searches give one answer; what it lists are orphans only, each can  *)
(* be got to from there, and the FAT parents noted are the right ones.     *)
(***************************************************************************)
EXTENDS Orphans, DirWalkProofs, WellFoundedInduction

-------------------------------------------------------------------------------
(* The inductive invariant.                                                *)

Places == {"out", "waiting", "locked", "naming", "loading", "inodes", "marking"}

\* Past the look at orphan_dir.
Busy == {"naming", "loading", "inodes", "marking"}

SearchTypes ==
    /\ at \in [Threads -> Places]
    /\ answer = [t \in Threads |-> answer[t]]

\* The thread that searches is the one that holds the lock.
LockIsHeld == \A t \in Threads : orphan_dir_lock = t <=> at[t] \notin {"out", "waiting"}

\* No result is kept while one is being made; needed for SearchesAgree: the
\* one that Keep sets replaces none that was given out.
NoneKept == \A t \in Threads : at[t] \in Busy => orphan_dir = Null

SInv == SearchTypes /\ LockIsHeld /\ NoneKept /\ SearchesAgree

-------------------------------------------------------------------------------
(* What a step does to the variables of the invariant.                     *)

\* A search goes from one place to another and keeps the lock.
LEMMA MoveLemma ==
    ASSUME SInv, NEW t \in Threads, NEW p \in {"locked"} \cup Busy,
           at[t] \notin {"out", "waiting"},
           p \in Busy => orphan_dir = Null,
           at' = [at EXCEPT ![t] = p],
           UNCHANGED <<orphan_dir_lock, orphan_dir, answer>>
    PROVE  SInv'
<1>1. \A u \in Threads : at'[u] = IF u = t THEN p ELSE at[u]
  BY DEF SInv, SearchTypes
<1>2. SearchTypes'
  BY DEF SInv, SearchTypes, Places, Busy
<1>3. LockIsHeld'
  BY <1>1 DEF SInv, LockIsHeld, Busy
<1>4. NoneKept'
  BY <1>1 DEF SInv, NoneKept
<1>5. SearchesAgree'
  BY DEF SInv, SearchesAgree, Answered
<1>. QED  BY <1>2, <1>3, <1>4, <1>5 DEF SInv

\* A search returns r; the lock is free, and what it gives out is what is
\* kept.
LEMMA ReturnLemma ==
    ASSUME SInv, NEW t \in Threads, NEW r, SearchReturns(t, r),
           at[t] \notin {"out", "waiting"},
           orphan_dir' = orphan_dir \/ orphan_dir = Null,
           r \in {Null, TSK_ERR} \/ r = orphan_dir'
    PROVE  SInv'
<1>1. \A u \in Threads : /\ at'[u] = IF u = t THEN "out" ELSE at[u]
                        /\ answer'[u] = IF u = t THEN r ELSE answer[u]
  BY DEF SearchReturns, SInv, SearchTypes
<1>2. SearchTypes'
  BY DEF SearchReturns, SInv, SearchTypes, Places
<1>3. \A u \in Threads \ {t} : at[u] \in {"out", "waiting"}
  BY DEF SInv, LockIsHeld
<1>4. LockIsHeld'
  BY <1>1, <1>3, NullAssumption DEF SearchReturns, LockIsHeld
<1>5. NoneKept'
  BY <1>1, <1>3 DEF NoneKept, Busy
<1>6. SearchesAgree'
  <2>1. ASSUME NEW u \in Threads, answer'[u] \notin {Null, TSK_ERR}
        PROVE  answer'[u] = orphan_dir'
    <3>1. CASE u = t
      BY <1>1, <2>1, <3>1
    <3>2. CASE u # t
      BY <1>1, <2>1, <3>2 DEF SInv, SearchesAgree, Answered
    <3>. QED  BY <3>1, <3>2
  <2>. QED  BY <2>1 DEF SearchesAgree, Answered
<1>. QED  BY <1>2, <1>4, <1>5, <1>6 DEF SInv

-------------------------------------------------------------------------------
LEMMA InitSInv == InitOrphans => SInv
<1>. SUFFICES ASSUME InitOrphans  PROVE SInv
  OBVIOUS
<1>1. SearchTypes
  BY DEF InitOrphans, SearchTypes, Places
<1>2. LockIsHeld
  BY NullAssumption DEF InitOrphans, LockIsHeld
<1>3. NoneKept /\ SearchesAgree
  BY DEF InitOrphans, NoneKept, Busy, SearchesAgree, Answered
<1>. QED  BY <1>1, <1>2, <1>3 DEF SInv

LEMMA NextSInv == SInv /\ [NextOrphans]_allVars => SInv'
<1>. SUFFICES ASSUME SInv, [NextOrphans]_allVars  PROVE SInv'
  OBVIOUS
<1>. USE DEF shared, search, orphanVars
<1>0. ASSUME UNCHANGED <<at, orphan_dir_lock, orphan_dir, answer>>  PROVE SInv'
  BY <1>0 DEF SInv, SearchTypes, LockIsHeld, NoneKept, SearchesAgree, Answered
<1>1. ASSUME NEW t \in Threads, OpenOrphans(t)  PROVE SInv'
  <2>1. /\ at[t] = "out" /\ at' = [at EXCEPT ![t] = "waiting"]
        /\ answer' = [answer EXCEPT ![t] = Null] /\ UNCHANGED <<orphan_dir_lock, orphan_dir>>
    BY <1>1 DEF OpenOrphans
  <2>2. \A u \in Threads : /\ at'[u] = IF u = t THEN "waiting" ELSE at[u]
                          /\ answer'[u] = IF u = t THEN Null ELSE answer[u]
    BY <2>1 DEF SInv, SearchTypes
  <2>3. SearchTypes'
    BY <2>1 DEF SInv, SearchTypes, Places
  <2>4. LockIsHeld' /\ NoneKept'
    BY <2>1, <2>2 DEF SInv, LockIsHeld, NoneKept, Busy
  <2>5. SearchesAgree'
    BY <2>1, <2>2 DEF SInv, SearchesAgree, Answered
  <2>. QED  BY <2>3, <2>4, <2>5 DEF SInv
<1>2. ASSUME NEW t \in Threads, TakeOrphanLock(t)  PROVE SInv'
  <2>1. /\ at[t] = "waiting" /\ orphan_dir_lock = Null /\ orphan_dir_lock' = t
        /\ at' = [at EXCEPT ![t] = "locked"] /\ UNCHANGED <<orphan_dir, answer>>
    BY <1>2 DEF TakeOrphanLock
  <2>2. \A u \in Threads : at'[u] = IF u = t THEN "locked" ELSE at[u]
    BY <2>1 DEF SInv, SearchTypes
  <2>3. \A u \in Threads : at[u] \in {"out", "waiting"}
    BY <2>1, NullAssumption DEF SInv, LockIsHeld
  <2>4. SearchTypes'
    BY <2>1 DEF SInv, SearchTypes, Places
  <2>5. LockIsHeld' /\ NoneKept'
    BY <2>1, <2>2, <2>3 DEF LockIsHeld, NoneKept, Busy
  <2>6. SearchesAgree'
    BY <2>1 DEF SInv, SearchesAgree, Answered
  <2>. QED  BY <2>4, <2>5, <2>6 DEF SInv
<1>3. ASSUME NEW t \in Threads, Cached(t)  PROVE SInv'
  <2>1. PICK r \in {orphan_dir} \cup {e \in {TSK_ERR} : img \in OutOfMemory} : SearchReturns(t, r)
    BY <1>3 DEF Cached
  <2>2. at[t] = "locked" /\ orphan_dir' = orphan_dir
    BY <1>3 DEF Cached
  <2>. QED  BY <2>1, <2>2, ReturnLemma
<1>4. ASSUME NEW t \in Threads, ListIsThere(t) \/ NoListYet(t) \/ LoadNamed(t)  PROVE SInv'
  <2>1. /\ at[t] \in {"locked", "naming"} /\ orphan_dir = Null
        /\ UNCHANGED <<orphan_dir_lock, orphan_dir, answer>>
        /\ \E p \in Busy : at' = [at EXCEPT ![t] = p]
    BY <1>4 DEF ListIsThere, NoListYet, LoadNamed, ToInodes, SInv, NoneKept, Busy
  <2>. QED  BY <2>1, MoveLemma
<1>5. ASSUME NEW t \in Threads, LoadEnds(t)  PROVE SInv'
  <2>1. at[t] = "loading" /\ orphan_dir = Null /\ orphan_dir' = orphan_dir
    BY <1>5 DEF LoadEnds, SInv, NoneKept, Busy
  <2>2. CASE retval[t] = "ERROR"
    <3>1. SearchReturns(t, TSK_ERR)
      BY <1>5, <2>2 DEF LoadEnds
    <3>. QED  BY <2>1, <3>1, ReturnLemma
  <2>3. CASE retval[t] # "ERROR"
    <3>1. at' = [at EXCEPT ![t] = "inodes"] /\ UNCHANGED <<orphan_dir_lock, answer>>
      BY <1>5, <2>3 DEF LoadEnds, ToInodes
    <3>. QED  BY <2>1, <3>1, MoveLemma DEF Busy
  <2>. QED  BY <2>2, <2>3
<1>6. ASSUME NEW t \in Threads, NameFails(t) \/ \E a \in Inodes : InodeFails(t, a)  PROVE SInv'
  <2>1. at[t] = "inodes" /\ SearchReturns(t, TSK_ERR) /\ orphan_dir' = orphan_dir
    BY <1>6 DEF NameFails, InodeFails, Comes
  <2>. QED  BY <2>1, ReturnLemma
<1>7. ASSUME NEW t \in Threads, NEW a \in Inodes, AddDirectory(t, a)  PROVE SInv'
  <2>1. at[t] = "inodes" /\ orphan_dir = Null
    BY <1>7 DEF AddDirectory, Comes, SInv, NoneKept, Busy
  <2>2. at' = [at EXCEPT ![t] = "marking"] /\ UNCHANGED <<orphan_dir_lock, orphan_dir, answer>>
    BY <1>7 DEF AddDirectory
  <2>. QED  BY <2>1, <2>2, MoveLemma DEF Busy
<1>8. ASSUME NEW t \in Threads, MarkEnds(t)  PROVE SInv'
  <2>1. at[t] = "marking" /\ orphan_dir = Null /\ orphan_dir' = orphan_dir
    BY <1>8 DEF MarkEnds, SInv, NoneKept, Busy
  <2>2. CASE retval[t] = "ERROR"
    <3>1. SearchReturns(t, TSK_ERR)
      BY <1>8, <2>2 DEF MarkEnds
    <3>. QED  BY <2>1, <3>1, ReturnLemma
  <2>3. CASE retval[t] # "ERROR"
    <3>1. at' = [at EXCEPT ![t] = "inodes"] /\ UNCHANGED <<orphan_dir_lock, answer>>
      BY <1>8, <2>3 DEF MarkEnds
    <3>. QED  BY <2>1, <3>1, MoveLemma DEF Busy
  <2>. QED  BY <2>2, <2>3
<1>9. ASSUME NEW t \in Threads, Keep(t) \/ KeepFails(t)  PROVE SInv'
  <2>1. at[t] = "inodes" /\ orphan_dir = Null
    BY <1>9 DEF Keep, KeepFails, Seen, SInv, NoneKept, Busy
  <2>2. \/ SearchReturns(t, Result(t)) /\ orphan_dir' = Result(t)
        \/ SearchReturns(t, TSK_ERR)
    BY <1>9 DEF Keep, KeepFails
  <2>. QED  BY <2>1, <2>2, ReturnLemma
<1>10. ASSUME NEW t \in Threads, \/ LoadStep(t) \/ MarkStop(t) \/ MarkStep(t) \/ UserWalk(t)
                                 \/ \E a \in Inodes : SkipInode(t, a) \/ AddFile(t, a)
       PROVE  SInv'
  BY <1>0, <1>10 DEF LoadStep, MarkStop, MarkStep, UserWalk, SkipInode, AddFile
<1>11. CASE UNCHANGED allVars
  BY <1>0, <1>11 DEF allVars
<1>. QED
  BY <1>1, <1>2, <1>3, <1>4, <1>5, <1>6, <1>7, <1>8, <1>9, <1>10, <1>11
  DEF NextOrphans, Searching

-------------------------------------------------------------------------------
(* Walks of searches and of users are the walks of DirWalk.                *)

\* No walk enters $OrphanFiles; between the walks of a search the thread has
\* none; needed for a search to begin one.
FlagsKept == flags = [t \in Threads |-> flags[t]]
KeepsOut == \A t \in Threads : pc[t] = "walking" => flags[t].noorphan
Between == \A t \in Threads : at[t] \in {"waiting", "locked", "naming", "inodes"} => pc[t] = "idle"

WInv == IInv /\ FlagsKept /\ KeepsOut /\ Between /\ SearchTypes

\* What thread t may do to the variables of the walks.
WalkPart(t) ==
    \/ UNCHANGED vars
    \/ pc[t] = "idle" /\ \E a \in Inodes, f \in FlagType : f.noorphan /\ WalkFrom(t, a, f)
    \/ Walking(t)

LEMMA WalkPartLemma ==
    ASSUME IInv, FlagsKept, KeepsOut, NEW t \in Threads, WalkPart(t)
    PROVE  /\ IInv' /\ FlagsKept' /\ KeepsOut' /\ img' = img
           /\ \A u \in Threads \ {t} : pc'[u] = pc[u] /\ frames'[u] = frames[u]
<1>1. CASE UNCHANGED vars
  BY <1>1 DEF vars, local, IInv, Functions, Collecting, AllInStep, FlagsKept, KeepsOut
<1>2. CASE pc[t] = "idle" /\ \E a \in Inodes, f \in FlagType : f.noorphan /\ WalkFrom(t, a, f)
  <2>. PICK a \in Inodes, f \in FlagType : f.noorphan /\ WalkFrom(t, a, f)
    BY <1>2
  <2>1. IInv'
    BY <1>2, BeginLemma
  <2>2. img' = img /\ flags' = [flags EXCEPT ![t] = Sane(f)]
    BY DEF WalkFrom
  <2>3. Sane(f).noorphan
    BY DEF Sane, FlagType
  <2>4. \A u \in Threads : flags'[u] = IF u = t THEN Sane(f) ELSE flags[u]
    BY <2>2 DEF FlagsKept
  <2>5. \A u \in Threads \ {t} : pc'[u] = pc[u] /\ frames'[u] = frames[u]
    BY DEF WalkFrom, IInv, Functions
  <2>6. FlagsKept'
    BY <2>2 DEF FlagsKept
  <2>7. KeepsOut'
    BY <2>3, <2>4, <2>5 DEF KeepsOut
  <2>. QED  BY <2>1, <2>2, <2>5, <2>6, <2>7
<1>3. CASE Walking(t)
  <2>1. IInv'
    BY <1>3, WalkingLemma
  <2>2. img' = img /\ flags' = flags
    BY <1>3 DEF Walking, VisitStop, VisitError, PassBy, Descend, Leave, Finish
  <2>3. \A u \in Threads \ {t} : pc'[u] = pc[u] /\ frames'[u] = frames[u]
    BY <1>3 DEF Walking, VisitStop, VisitError, PassBy, Descend, Leave, Finish, Returns, Back,
                IInv, Functions
  <2>4. pc'[t] = "walking" => pc[t] = "walking"
    BY <1>3 DEF Walking, VisitStop, VisitError, PassBy, Descend, Leave, Finish, Returns, Back,
                Goes, AtEntry, AtEnd, IInv, Functions
  <2>5. KeepsOut'
    BY <2>2, <2>3, <2>4 DEF KeepsOut
  <2>. QED  BY <2>1, <2>2, <2>3, <2>5 DEF FlagsKept
<1>. QED  BY <1>1, <1>2, <1>3 DEF WalkPart

\* What each action does, of what the invariants speak of.
Moves(t) ==
    /\ WalkPart(t)
    /\ \A u \in Threads \ {t} : at'[u] = at[u]
    /\ at' \in [Threads -> Places] /\ answer' = [u \in Threads |-> answer'[u]]
    /\ at'[t] \in {"waiting", "locked", "naming", "inodes"} => pc'[t] = "idle"

LEMMA MovesLemma ==
    ASSUME WInv, NEW t \in Threads, Moves(t)
    PROVE  WInv'
<1>1. /\ IInv' /\ FlagsKept' /\ KeepsOut'
      /\ \A u \in Threads \ {t} : pc'[u] = pc[u]
  BY WalkPartLemma DEF WInv, Moves
<1>2. SearchTypes'
  BY DEF Moves, SearchTypes
<1>3. Between'
  BY <1>1 DEF Moves, WInv, Between
<1>. QED  BY <1>1, <1>2, <1>3 DEF WInv

LEMMA InitWInv == InitOrphans => WInv
<1>. SUFFICES ASSUME InitOrphans  PROVE WInv
  OBVIOUS
<1>1. IInv
  BY InitIInv DEF InitOrphans
<1>2. FlagsKept /\ KeepsOut /\ Between
  BY DEF InitOrphans, Init, FlagsKept, KeepsOut, Between
<1>3. SearchTypes
  BY DEF InitOrphans, SearchTypes, Places
<1>. QED  BY <1>1, <1>2, <1>3 DEF WInv

\* Every action of a thread is such a move.
LEMMA ThreadMoves ==
    ASSUME WInv, NEW t \in Threads, OpenOrphans(t) \/ Searching(t) \/ UserWalk(t)
    PROVE  Moves(t)
<1>. USE DEF shared, search, orphanVars
<1>0. /\ at \in [Threads -> Places] /\ answer = [u \in Threads |-> answer[u]]
      /\ at[t] \in {"waiting", "locked", "naming", "inodes"} => pc[t] = "idle"
      /\ pc \in [Threads -> {"idle", "walking", "walked"}]
  BY DEF WInv, SearchTypes, Between, IInv, Functions
<1>1. CASE OpenOrphans(t) \/ TakeOrphanLock(t)
  <2>1. UNCHANGED vars
    BY <1>1 DEF OpenOrphans, TakeOrphanLock
  <2>2. pc'[t] = "idle"
    BY <1>0, <1>1, <2>1 DEF OpenOrphans, TakeOrphanLock, vars, local
  <2>. QED  BY <1>0, <1>1, <2>1, <2>2 DEF OpenOrphans, TakeOrphanLock, Moves, WalkPart, Places
<1>2. ASSUME WalkPart(t), NEW r, SearchReturns(t, r)  PROVE Moves(t)
  BY <1>0, <1>2 DEF SearchReturns, Moves, Places
<1>3. CASE Cached(t) \/ NameFails(t) \/ Keep(t) \/ KeepFails(t) \/ \E a \in Inodes : InodeFails(t, a)
  <2>1. UNCHANGED vars /\ \E r : SearchReturns(t, r)
    BY <1>3 DEF Cached, NameFails, Keep, KeepFails, InodeFails
  <2>. QED  BY <1>2, <2>1 DEF WalkPart
<1>4. CASE ListIsThere(t) \/ NoListYet(t)
  <2>1. /\ UNCHANGED vars /\ pc'[t] = "idle" /\ answer' = answer
        /\ at' = [at EXCEPT ![t] = "inodes"] \/ at' = [at EXCEPT ![t] = "naming"]
    BY <1>0, <1>4 DEF ListIsThere, NoListYet, ToInodes, vars, local
  <2>. QED  BY <1>0, <2>1 DEF Moves, WalkPart, Places
<1>5. CASE LoadNamed(t) \/ \E a \in Inodes : AddDirectory(t, a)
  <2>1. Marking \in FlagType /\ Marking.noorphan /\ Root \in Inodes
    BY AddressesAssumption DEF Marking, FlagType
  <2>2. pc[t] = "idle" /\ \E a \in Inodes : WalkFrom(t, a, Marking)
    BY <1>0, <1>5, <2>1 DEF LoadNamed, AddDirectory, Comes
  <2>3. WalkPart(t)
    BY <2>1, <2>2 DEF WalkPart
  <2>4. /\ answer' = answer
        /\ at' = [at EXCEPT ![t] = "loading"] \/ at' = [at EXCEPT ![t] = "marking"]
    BY <1>5 DEF LoadNamed, AddDirectory
  <2>. QED  BY <1>0, <2>3, <2>4 DEF Moves, Places
<1>6. CASE LoadEnds(t) \/ MarkEnds(t)
  <2>1. Finish(t) /\ pc'[t] = "idle"
    BY <1>0, <1>6 DEF LoadEnds, MarkEnds, Finish
  <2>2. WalkPart(t)
    BY <2>1 DEF WalkPart, Walking
  <2>3. CASE \E r : SearchReturns(t, r)
    BY <1>2, <2>2, <2>3
  <2>4. CASE at' = [at EXCEPT ![t] = "inodes"] /\ answer' = answer
    BY <1>0, <2>1, <2>2, <2>4 DEF Moves, Places
  <2>. QED  BY <1>6, <2>3, <2>4 DEF LoadEnds, MarkEnds, ToInodes
<1>7. CASE LoadStep(t) \/ MarkStop(t) \/ MarkStep(t) \/ UserWalk(t)
  <2>1. at' = at /\ answer' = answer /\ at[t] \notin {"waiting", "locked", "naming", "inodes"}
    BY <1>7 DEF LoadStep, MarkStop, MarkStep, UserWalk
  <2>2. WalkPart(t)
    <3>1. CASE Begin(t)
      BY <3>1, WalksAssumption, UserWalksAssumption DEF Begin, WalkPart
    <3>2. CASE Walking(t)
      BY <3>2 DEF WalkPart
    <3>. QED  BY <1>7, <3>1, <3>2 DEF LoadStep, MarkStop, MarkStep, UserWalk, Walks, Walking
  <2>. QED  BY <1>0, <2>1, <2>2 DEF Moves
<1>8. CASE \E a \in Inodes : SkipInode(t, a) \/ AddFile(t, a)
  <2>1. UNCHANGED vars /\ UNCHANGED <<at, answer>> /\ pc'[t] = pc[t]
    BY <1>8 DEF SkipInode, AddFile, vars, local
  <2>. QED  BY <1>0, <2>1 DEF Moves, WalkPart
<1>. QED
  BY <1>1, <1>3, <1>4, <1>5, <1>6, <1>7, <1>8 DEF Searching

LEMMA NextWInv == WInv /\ [NextOrphans]_allVars => WInv'
<1>. SUFFICES ASSUME WInv, [NextOrphans]_allVars  PROVE WInv'
  OBVIOUS
<1>1. CASE UNCHANGED allVars
  BY <1>1 DEF allVars, orphanVars, search, vars, local, WInv, IInv, Functions, Collecting,
              AllInStep, FlagsKept, KeepsOut, Between, SearchTypes
<1>2. ASSUME NEW t \in Threads, OpenOrphans(t) \/ Searching(t) \/ UserWalk(t)  PROVE WInv'
  BY <1>2, ThreadMoves, MovesLemma
<1>. QED  BY <1>1, <1>2 DEF NextOrphans

-------------------------------------------------------------------------------
(* The parents of FAT directories.                                         *)

Parents == [Inodes -> Inodes \cup {Null}]

\* Every directory on the stack is the root or has a known parent, and so has
\* every directory listed in it.
KnownIn(par, fs) ==
    \A k \in 1..Len(fs) :
        /\ fs[k].dir # Root => par[fs[k].dir] # Null
        /\ \A i \in DOMAIN img.names[fs[k].dir] :
            LET e == img.names[fs[k].dir][i] IN IsSubdir(e) => par[e.addr] # Null

\* The inductive invariant for FAT.
KInv ==
    /\ inum2par \in Parents
    /\ img \in FatImages => \A t \in Threads : KnownIn(inum2par, frames[t])

\* Nothing that is known is forgotten.
Extends(par, old) == par \in Parents /\ \A a \in Inodes : old[a] # Null => par[a] # Null

LEMMA NamesLemma ==
    ASSUME IInv, NEW d \in Inodes, NEW i \in DOMAIN img.names[d]
    PROVE  img.names[d][i] \in Names /\ img.names[d][i].addr \in Inodes
<1>1. img \in ImageType
  BY ImagesAssumption DEF IInv
<1>2. img.names[d] \in Seq(Names)
  BY <1>1 DEF ImageType
<1>3. img.names[d][i] \in Names
  BY <1>2
<1>. QED  BY <1>3 DEF Names

LEMMA ParsedLemma ==
    ASSUME IInv, NEW par \in Parents, NEW d \in Inodes
    PROVE  /\ Extends(Parsed(par, d), par)
           /\ img \in FatImages => \A i \in DOMAIN img.names[d] :
                IsSubdir(img.names[d][i]) => Parsed(par, d)[img.names[d][i].addr] # Null
<1>1. CASE img \notin FatImages
  BY <1>1 DEF Parsed, Extends
<1>2. CASE img \in FatImages
  <2>. DEFINE Lists(a) == \E i \in DOMAIN img.names[d] :
                              IsSubdir(img.names[d][i]) /\ img.names[d][i].addr = a
  <2>1. Parsed(par, d) = [a \in Inodes |-> IF Lists(a) THEN d ELSE par[a]]
    BY <1>2 DEF Parsed
  <2>2. ASSUME NEW i \in DOMAIN img.names[d], IsSubdir(img.names[d][i])
        PROVE  img.names[d][i].addr \in Inodes /\ Lists(img.names[d][i].addr)
    BY <2>2, NamesLemma
  <2>3. d # Null
    BY NullAssumption
  <2>. HIDE DEF Lists
  <2>4. Extends(Parsed(par, d), par)
    BY <2>1, <2>3 DEF Extends, Parents
  <2>. QED  BY <2>1, <2>2, <2>3, <2>4
<1>. QED  BY <1>1, <1>2

LEMMA WithParentLemma ==
    ASSUME inum2par \in Parents, NEW a \in Inodes, NEW d \in Inodes
    PROVE  /\ Extends(WithParent(a, d), inum2par)
           /\ img \in FatImages => WithParent(a, d)[a] # Null
  BY NullAssumption DEF WithParent, Extends, Parents

\* What a step of a walk does to the stack: it calls nothing ...
NoCall(fs, gs) == Len(gs) <= Len(fs) /\ \A k \in 1..Len(gs) : gs[k].dir = fs[k].dir

\* ... or goes into directory d.
Call(fs, gs, d) ==
    Len(gs) = Len(fs) + 1 /\ gs[Len(gs)].dir = d /\ \A k \in 1..Len(fs) : gs[k] = fs[k]

\* The parents stay known on every step that opens a directory of known parent.
LEMMA OpensLemma ==
    ASSUME IInv, IInv', KInv, img' = img, NEW t \in Threads, NEW par,
           Extends(par, inum2par), Opens(t, par),
           \A u \in Threads \ {t} : frames'[u] = frames[u],
           \/ NoCall(frames[t], frames'[t])
           \/ \E d \in Inodes : /\ Call(frames[t], frames'[t], d)
                                /\ img \in FatImages => d = Root \/ par[d] # Null
    PROVE  KInv'
<1>. DEFINE fs == frames[t]
            gs == frames'[t]
<1>1. fs \in Seq(FrameType) /\ gs \in Seq(FrameType) /\ Len(fs) \in Nat /\ Len(gs) \in Nat
  <2>1. fs \in Seq(FrameType) /\ gs \in Seq(FrameType)
    BY DEF IInv, Functions
  <2>. QED  BY <2>1
<1>2. \A u \in Threads : \A k \in 1..Len(frames[u]) : frames[u][k].dir \in Inodes
  <2>1. ASSUME NEW u \in Threads, NEW k \in 1..Len(frames[u])  PROVE frames[u][k].dir \in Inodes
    <3>1. frames[u] \in Seq(FrameType)
      BY DEF IInv, Functions
    <3>2. frames[u][k] \in FrameType
      BY <3>1
    <3>. QED  BY <3>2 DEF FrameType
  <2>. QED  BY <2>1
<1>3. \A u \in Threads : \A k \in 1..Len(frames[u]) :
          \A i \in DOMAIN img.names[frames[u][k].dir] : img.names[frames[u][k].dir][i].addr \in Inodes
  BY <1>2, NamesLemma
<1>4. ASSUME NEW np, Extends(np, inum2par), img \in FatImages, NEW u \in Threads
      PROVE  KnownIn(np, frames[u])
  BY <1>2, <1>3, <1>4 DEF KInv, KnownIn, Extends
<1>. HIDE DEF fs, gs
<1>5. CASE NoCall(fs, gs)
  <2>1. ~(Len(gs) > Len(fs))
    BY <1>1, <1>5 DEF NoCall
  <2>2. inum2par' = par
    BY <2>1 DEF Opens, fs, gs
  <2>3. ASSUME img \in FatImages, NEW u \in Threads  PROVE KnownIn(par, frames'[u])
    <3>1. KnownIn(par, frames[u])
      BY <1>4, <2>3
    <3>2. CASE u = t
      <4>1. KnownIn(par, fs)
        BY <3>1, <3>2 DEF fs
      <4>2. \A k \in 1..Len(gs) : k \in 1..Len(fs) /\ gs[k].dir = fs[k].dir
        <5>1. Len(gs) <= Len(fs) /\ \A k \in 1..Len(gs) : gs[k].dir = fs[k].dir
          BY <1>5 DEF NoCall
        <5>2. \A k \in 1..Len(gs) : k \in 1..Len(fs)
          BY <1>1, <5>1
        <5>. QED  BY <5>1, <5>2
      <4>3. KnownIn(par, gs)
        <5>. SUFFICES ASSUME NEW k \in 1..Len(gs)
                      PROVE  /\ gs[k].dir # Root => par[gs[k].dir] # Null
                             /\ \A i \in DOMAIN img.names[gs[k].dir] :
                                  IsSubdir(img.names[gs[k].dir][i])
                                    => par[img.names[gs[k].dir][i].addr] # Null
          BY DEF KnownIn
        <5>1. k \in 1..Len(fs) /\ gs[k].dir = fs[k].dir
          BY <4>2
        <5>2. /\ fs[k].dir # Root => par[fs[k].dir] # Null
              /\ \A i \in DOMAIN img.names[fs[k].dir] :
                   IsSubdir(img.names[fs[k].dir][i]) => par[img.names[fs[k].dir][i].addr] # Null
          BY <4>1, <5>1 DEF KnownIn
        <5>. QED  BY <5>1, <5>2
      <4>. QED  BY <3>2, <4>3 DEF gs
    <3>. QED  BY <3>1, <3>2
  <2>. QED  BY <2>2, <2>3 DEF KInv, KnownIn, Extends
<1>6. ASSUME NEW d \in Inodes, Call(fs, gs, d), img \in FatImages => d = Root \/ par[d] # Null
      PROVE  KInv'
  <2>. DEFINE np == Parsed(par, d)
  <2>1. Len(gs) > Len(fs) /\ Top(gs).dir = d
    BY <1>1, <1>6 DEF Call, Top
  <2>2. inum2par' = np
    BY <2>1 DEF Opens, fs, gs
  <2>3. /\ Extends(np, par)
        /\ img \in FatImages => \A i \in DOMAIN img.names[d] :
             IsSubdir(img.names[d][i]) => np[img.names[d][i].addr] # Null
    BY ParsedLemma DEF Extends
  <2>4. Extends(np, inum2par)
    BY <2>3 DEF Extends
  <2>. HIDE DEF np
  <2>5. ASSUME img \in FatImages, NEW u \in Threads  PROVE KnownIn(np, frames'[u])
    <3>1. KnownIn(np, frames[u])
      BY <1>4, <2>4, <2>5
    <3>2. CASE u = t
      <4>1. KnownIn(np, fs)
        BY <3>1, <3>2 DEF fs
      <4>2. \A k \in 1..Len(gs) : \/ k \in 1..Len(fs) /\ gs[k] = fs[k]
                                 \/ gs[k].dir = d
        BY <1>1, <1>6 DEF Call
      <4>3. d # Root => np[d] # Null
        BY <1>6, <2>3, <2>5 DEF Extends
      <4>4. KnownIn(np, gs)
        <5>. SUFFICES ASSUME NEW k \in 1..Len(gs)
                      PROVE  /\ gs[k].dir # Root => np[gs[k].dir] # Null
                             /\ \A i \in DOMAIN img.names[gs[k].dir] :
                                  IsSubdir(img.names[gs[k].dir][i])
                                    => np[img.names[gs[k].dir][i].addr] # Null
          BY DEF KnownIn
        <5>1. CASE k \in 1..Len(fs) /\ gs[k] = fs[k]
          BY <5>1, <4>1 DEF KnownIn
        <5>2. CASE gs[k].dir = d
          BY <5>2, <2>3, <2>5, <4>3
        <5>. QED  BY <4>2, <5>1, <5>2
      <4>. QED  BY <3>2, <4>4 DEF gs
    <3>. QED  BY <3>1, <3>2
  <2>. QED  BY <2>2, <2>4, <2>5 DEF KInv, KnownIn, Extends
<1>. QED  BY <1>5, <1>6 DEF fs, gs

\* A walk that begins in a directory.
LEMMA BeginCalls ==
    ASSUME IInv, NEW t \in Threads, pc[t] = "idle", NEW a \in Inodes, NEW f, WalkFrom(t, a, f)
    PROVE  NoCall(frames[t], frames'[t]) \/ Call(frames[t], frames'[t], a)
<1>1. frames[t] = <<>>
  BY ThreadLemma
<1>2. CASE CanOpen(a)
  <2>1. frames'[t] = <<Frame(a, FALSE)>>
    BY <1>2 DEF WalkFrom, IInv, Functions
  <2>. QED  BY <1>1, <2>1 DEF Call, Frame
<1>3. CASE ~CanOpen(a)
  <2>1. frames'[t] = <<>>
    BY <1>1, <1>3 DEF WalkFrom
  <2>. QED  BY <1>1, <2>1 DEF NoCall
<1>. QED  BY <1>2, <1>3

\* A walk that goes on: it goes into nothing but a directory listed in the one
\* it is in.
LEMMA WalkingCalls ==
    ASSUME WInv, KInv, NEW t \in Threads, Walking(t)
    PROVE  \/ NoCall(frames[t], frames'[t])
           \/ \E d \in Inodes : /\ Call(frames[t], frames'[t], d)
                                /\ Descend(t) /\ d = Entry(t).addr
                                /\ img \in FatImages => inum2par[d] # Null
<1>. DEFINE fs == frames[t]
<1>1. IInv /\ fs \in Seq(FrameType) /\ Len(fs) \in Nat
  <2>1. IInv /\ fs \in Seq(FrameType)
    BY DEF WInv, IInv, Functions
  <2>. QED  BY <2>1
<1>2. pc[t] = "walking" => fs # <<>> /\ Len(fs) > 0
  BY <1>1, ThreadLemma DEF InStep
<1>3. CASE Back(t) /\ pc[t] = "walking" /\ Len(fs) # 1
  <2>. DEFINE ps == PopOf(fs)
              n == Len(fs)
  <2>0. n \in Nat /\ n > 0 /\ n # 1
    BY <1>1, <1>2, <1>3
  <2>. HIDE DEF n
  <2>1. n > 1
    BY <2>0
  <2>2. /\ ps \in Seq(FrameType) /\ ps # <<>> /\ Len(ps) = n - 1
        /\ \A k \in 1..(n - 1) : ps[k] = fs[k]
    BY <1>1, <2>1, PopLemma DEF n
  <2>. HIDE DEF ps
  <2>3. /\ Len(Advanced(ps)) = n - 1
        /\ \A k \in 1..(n - 1 - 1) : Advanced(ps)[k] = ps[k]
        /\ Advanced(ps)[n - 1].dir = ps[n - 1].dir
    BY <2>2, AdvancedLemma
  <2>4. frames'[t] = Advanced(ps)
    BY <1>3 DEF Back, WInv, IInv, Functions, ps
  <2>5. \A k \in 1..(n - 1) : Advanced(ps)[k].dir = fs[k].dir
    <3>1. ASSUME NEW k \in 1..(n - 1)  PROVE Advanced(ps)[k].dir = fs[k].dir
      <4>1. k \in 1..(n - 1 - 1) \/ k = n - 1
        BY <2>0, <2>1
      <4>. QED  BY <2>2, <2>3, <4>1
    <3>. QED  BY <3>1
  <2>6. Len(frames'[t]) = n - 1 /\ n - 1 <= n
    BY <2>0, <2>3, <2>4
  <2>7. \A k \in 1..Len(frames'[t]) : frames'[t][k].dir = fs[k].dir
    BY <2>4, <2>5, <2>6
  <2>. QED  BY <2>6, <2>7 DEF NoCall, n
<1>4. CASE VisitStop(t) \/ VisitError(t) \/ Leave(t)
  <2>1. pc[t] = "walking"
    BY <1>4 DEF VisitStop, VisitError, Leave, AtEntry, AtEnd
  <2>2. (\E r : Returns(t, r)) \/ (Back(t) /\ Len(fs) # 1)
    BY <1>4 DEF VisitStop, VisitError, Leave
  <2>3. CASE \E r : Returns(t, r)
    <3>1. frames'[t] = <<>>
      BY <2>3 DEF Returns, WInv, IInv, Functions
    <3>. QED  BY <1>1, <3>1 DEF NoCall
  <2>. QED  BY <1>3, <2>1, <2>2, <2>3
<1>5. CASE PassBy(t)
  <2>1. frames'[t] = Advanced(fs) /\ pc[t] = "walking"
    BY <1>5 DEF PassBy, Goes, AtEntry, WInv, IInv, Functions
  <2>2. /\ Len(Advanced(fs)) = Len(fs)
        /\ \A k \in 1..(Len(fs) - 1) : Advanced(fs)[k] = fs[k]
        /\ Advanced(fs)[Len(fs)].dir = fs[Len(fs)].dir
    BY <1>1, <1>2, <2>1, AdvancedLemma
  <2>3. \A k \in 1..Len(fs) : k \in 1..(Len(fs) - 1) \/ k = Len(fs)
    BY <1>1
  <2>4. \A k \in 1..Len(fs) : Advanced(fs)[k].dir = fs[k].dir
    BY <2>2, <2>3
  <2>. QED  BY <1>1, <2>1, <2>2, <2>4 DEF NoCall
<1>6. CASE Descend(t)
  <2>. DEFINE e == Entry(t)
  <2>1. AtEntry(t) /\ Enters(t) /\ pc[t] = "walking"
    BY <1>6 DEF Descend, Goes, AtEntry
  <2>2. PICK c \in AfterAdd(t) : frames' = [frames EXCEPT ![t] = Append(@, Frame(e.addr, c.save))]
    BY <1>6 DEF Descend
  <2>3. frames'[t] = Append(fs, Frame(e.addr, c.save))
    BY <2>2 DEF WInv, IInv, Functions
  <2>4. Call(fs, frames'[t], e.addr)
    BY <1>1, <2>3 DEF Call, Frame
  <2>5. e.addr \in Inodes
    BY <1>1, <2>1, EntryLemma
  <2>6. ASSUME img \in FatImages  PROVE inum2par[e.addr] # Null
    <3>1. /\ Len(fs) \in 1..Len(fs) /\ Here(t) = fs[Len(fs)] /\ fs[Len(fs)] \in FrameType
          /\ Here(t).dir \in Inodes
      <4>1. Len(fs) \in 1..Len(fs) /\ fs[Len(fs)] \in FrameType
        BY <1>1, <1>2, <2>1
      <4>. QED  BY <4>1 DEF Here, Top, FrameType
    <3>2. Here(t).i \in DOMAIN img.names[Here(t).dir]
      <4>1. img.names[Here(t).dir] \in Seq(Names)
        BY <1>1, <3>1, ThreadLemma DEF ImageType
      <4>2. Here(t).i \in 1..(Len(img.names[Here(t).dir]) + 1)
        BY <1>1, <3>1, ThreadLemma DEF InStep, Placed
      <4>. QED  BY <2>1, <4>1, <4>2 DEF AtEntry
    <3>3. e.type # "undef"
      BY <2>6, <3>1, <3>2, FatAssumption DEF Entry
    <3>4. IsSubdir(e)
      BY <2>1, <3>3 DEF Enters, Recurses, WInv, KeepsOut, IsSubdir
    <3>5. KnownIn(inum2par, fs)
      BY <2>6 DEF KInv
    <3>. QED  BY <3>1, <3>2, <3>4, <3>5 DEF KnownIn, Entry
  <2>. QED  BY <1>6, <2>4, <2>5, <2>6
<1>7. CASE Finish(t)
  <2>1. frames'[t] = fs
    BY <1>7 DEF Finish
  <2>. QED  BY <1>1, <2>1 DEF NoCall
<1>. QED  BY <1>4, <1>5, <1>6, <1>7 DEF Walking

LEMMA NextKInv == WInv /\ KInv /\ [NextOrphans]_allVars => KInv'
<1>. SUFFICES ASSUME WInv, KInv, [NextOrphans]_allVars  PROVE KInv'
  OBVIOUS
<1>1. WInv' /\ IInv /\ IInv'
  BY NextWInv DEF WInv
<1>2. Extends(inum2par, inum2par)
  BY DEF KInv, Extends
<1>3. ASSUME UNCHANGED vars, Extends(inum2par', inum2par)  PROVE KInv'
  <2>1. ASSUME img \in FatImages, NEW t \in Threads  PROVE KnownIn(inum2par', frames[t])
    <3>1. \A k \in 1..Len(frames[t]) : frames[t][k].dir \in Inodes
      <4>1. ASSUME NEW k \in 1..Len(frames[t])  PROVE frames[t][k].dir \in Inodes
        <5>1. frames[t] \in Seq(FrameType)
          BY <1>1 DEF IInv, Functions
        <5>2. frames[t][k] \in FrameType
          BY <5>1
        <5>. QED  BY <5>2 DEF FrameType
      <4>. QED  BY <4>1
    <3>2. \A k \in 1..Len(frames[t]) : \A i \in DOMAIN img.names[frames[t][k].dir] :
              img.names[frames[t][k].dir][i].addr \in Inodes
      BY <1>1, <3>1, NamesLemma
    <3>. QED  BY <1>3, <2>1, <3>1, <3>2 DEF KInv, KnownIn, Extends
  <2>. QED  BY <1>3, <2>1 DEF KInv, KnownIn, Extends, vars, local
<1>4. ASSUME NEW t \in Threads, NEW par, Walking(t), Extends(par, inum2par), Opens(t, par)
      PROVE  KInv'
  <2>1. img' = img /\ \A u \in Threads \ {t} : frames'[u] = frames[u]
    BY <1>4, WalkPartLemma DEF WalkPart, WInv
  <2>2. \/ NoCall(frames[t], frames'[t])
        \/ \E d \in Inodes : /\ Call(frames[t], frames'[t], d)
                             /\ img \in FatImages => par[d] # Null
    BY <1>4, WalkingCalls DEF Extends
  <2>. QED  BY <1>1, <1>4, <2>1, <2>2, OpensLemma
<1>5. ASSUME NEW t \in Threads, NEW par, NEW a \in Inodes, NEW f \in FlagType,
             pc[t] = "idle", f.noorphan, WalkFrom(t, a, f),
             Extends(par, inum2par), Opens(t, par), img \in FatImages => a = Root \/ par[a] # Null
      PROVE  KInv'
  <2>1. img' = img /\ \A u \in Threads \ {t} : frames'[u] = frames[u]
    BY <1>5, WalkPartLemma DEF WalkPart, WInv
  <2>2. NoCall(frames[t], frames'[t]) \/ Call(frames[t], frames'[t], a)
    BY <1>1, <1>5, BeginCalls
  <2>. QED  BY <1>1, <1>5, <2>1, <2>2, OpensLemma
<1>6. Marking \in FlagType /\ Marking.noorphan
  BY DEF Marking, FlagType
<1>7. CASE UNCHANGED allVars
  <2>1. UNCHANGED vars /\ inum2par' = inum2par
    BY <1>7 DEF allVars
  <2>. QED  BY <1>2, <1>3, <2>1
<1>8. ASSUME NEW t \in Threads, \/ OpenOrphans(t) \/ TakeOrphanLock(t) \/ Cached(t) \/ ListIsThere(t)
                                \/ NoListYet(t) \/ NameFails(t) \/ Keep(t) \/ KeepFails(t)
                                \/ \E a \in Inodes : SkipInode(t, a) \/ InodeFails(t, a)
      PROVE  KInv'
  <2>1. UNCHANGED vars /\ inum2par' = inum2par
    BY <1>8 DEF OpenOrphans, TakeOrphanLock, Cached, ListIsThere, NoListYet, NameFails, Keep, KeepFails,
                SkipInode, InodeFails
  <2>. QED  BY <1>2, <1>3, <2>1
<1>9. ASSUME NEW t \in Threads, NEW a \in Inodes, AddFile(t, a)  PROVE KInv'
  <2>1. UNCHANGED vars /\ inum2par' = WithParent(a, Orphan)
    BY <1>9 DEF AddFile
  <2>2. Extends(WithParent(a, Orphan), inum2par)
    BY WithParentLemma, AddressesAssumption DEF KInv
  <2>. QED  BY <1>3, <2>1, <2>2
<1>10. ASSUME NEW t \in Threads, LoadNamed(t)  PROVE KInv'
  <2>1. pc[t] = "idle" /\ WalkFrom(t, Root, Marking) /\ Opens(t, inum2par)
    BY <1>10 DEF LoadNamed, WInv, Between
  <2>. QED  BY <1>2, <1>5, <1>6, <2>1, AddressesAssumption
<1>11. ASSUME NEW t \in Threads, NEW a \in Inodes, AddDirectory(t, a)  PROVE KInv'
  <2>1. pc[t] = "idle" /\ WalkFrom(t, a, Marking) /\ Opens(t, WithParent(a, Orphan))
    BY <1>11 DEF AddDirectory, Comes, WInv, Between
  <2>2. /\ Extends(WithParent(a, Orphan), inum2par)
        /\ img \in FatImages => WithParent(a, Orphan)[a] # Null
    BY WithParentLemma, AddressesAssumption DEF KInv
  <2>. QED  BY <1>5, <1>6, <2>1, <2>2
<1>12. ASSUME NEW t \in Threads, LoadStep(t)  PROVE KInv'
  <2>1. Walking(t) /\ Opens(t, inum2par)
    BY <1>12 DEF LoadStep, Walks, Walking
  <2>. QED  BY <1>2, <1>4, <2>1
<1>13. ASSUME NEW t \in Threads, LoadEnds(t) \/ MarkEnds(t) \/ MarkStop(t)  PROVE KInv'
  <2>1. Walking(t) /\ inum2par' = inum2par
    BY <1>13 DEF LoadEnds, MarkEnds, MarkStop, Walking
  <2>2. frames' = frames \/ frames' = [frames EXCEPT ![t] = <<>>]
    BY <1>13 DEF LoadEnds, MarkEnds, MarkStop, VisitStop, Returns, Finish
  <2>3. frames'[t] = frames[t] \/ frames'[t] = <<>>
    BY <1>1, <2>2 DEF IInv, Functions
  <2>4. frames[t] \in Seq(FrameType)
    BY <1>1 DEF IInv, Functions
  <2>5. Len(frames[t]) \in Nat /\ ~(Len(frames'[t]) > Len(frames[t]))
    BY <2>3, <2>4
  <2>6. Opens(t, inum2par)
    BY <2>1, <2>5 DEF Opens
  <2>. QED  BY <1>2, <1>4, <2>1, <2>6
<1>14. ASSUME NEW t \in Threads, MarkStep(t)  PROVE KInv'
  <2>. DEFINE par == IF Counts(t) /\ img.meta[Entry(t).addr].type = "dir"
                     THEN WithParent(Entry(t).addr, Here(t).dir) ELSE inum2par
  <2>1. Walking(t) /\ Opens(t, par)
    BY <1>14 DEF MarkStep, Walks, Walking
  <2>2. Extends(par, inum2par)
    <3>1. CASE AtEntry(t)
      <4>1. Entry(t).addr \in Inodes
        BY <1>1, <3>1, EntryLemma
      <4>2. Here(t).dir \in Inodes
        <5>1. frames[t] \in Seq(FrameType) /\ frames[t] # <<>>
          BY <1>1, <3>1, ThreadLemma DEF InStep, AtEntry
        <5>2. Top(frames[t]) \in FrameType
          BY <5>1 DEF Top
        <5>. QED  BY <5>2 DEF Here, FrameType
      <4>. QED  BY <1>2, <4>1, <4>2, WithParentLemma DEF KInv
    <3>2. CASE ~AtEntry(t)
      BY <1>2, <3>2 DEF Counts
    <3>. QED  BY <3>1, <3>2
  <2>. HIDE DEF par
  <2>. QED  BY <1>4, <2>1, <2>2
<1>15. ASSUME NEW t \in Threads, UserWalk(t)  PROVE KInv'
  <2>1. Opens(t, inum2par)
    BY <1>15 DEF UserWalk
  <2>2. CASE Walking(t)
    BY <1>2, <1>4, <2>1, <2>2
  <2>3. CASE Begin(t)
    <3>1. PICK a \in Starts, f \in Flags : WalkFrom(t, a, f)
      BY <2>3 DEF Begin
    <3>2. pc[t] = "idle" /\ a \in Inodes /\ f \in FlagType /\ f.noorphan
      BY <2>3, WalksAssumption, UserWalksAssumption DEF Begin
    <3>3. img \in FatImages => a = Root
      BY FatAssumption
    <3>. QED  BY <1>2, <1>5, <2>1, <3>1, <3>2, <3>3
  <2>. QED  BY <1>15, <2>2, <2>3 DEF UserWalk
<1>. QED
  BY <1>7, <1>8, <1>9, <1>10, <1>11, <1>12, <1>13, <1>14, <1>15 DEF NextOrphans, Searching

-------------------------------------------------------------------------------
(* The theorems.                                                           *)

\* The invariant holds of every behaviour.
THEOREM SearchInvariance == OrphansSpec => []SInv
<1>. QED  BY InitSInv, NextSInv, PTL DEF OrphansSpec

\* All searches of a file system that succeed give the same answer, whatever
\* walks, other searches and failures come between.
THEOREM Agreement == OrphansSpec => []SearchesAgree
<1>1. SInv => SearchesAgree
  BY DEF SInv
<1>. QED  BY <1>1, SearchInvariance, PTL

\* At most one thread searches at a time.
OneSearch ==
    \A t, u \in Threads : at[t] \notin {"out", "waiting"} /\ at[u] \notin {"out", "waiting"} => t = u

\* orphan_dir_lock keeps searches apart, on every way out of the function.
THEOREM Exclusion == OrphansSpec => []OneSearch
<1>1. SInv => OneSearch
  BY DEF SInv, LockIsHeld, OneSearch
<1>. QED  BY <1>1, SearchInvariance, PTL

\* The list of named inodes that a search looks up is set once, by a walk of
\* the users or of a search.
THEOREM OneListForAll == OrphansSpec => ListIsSetOnce
<1>1. [NextOrphans]_allVars => [list # Null => UNCHANGED <<list, sets>>]_vars
  <2>. SUFFICES ASSUME [NextOrphans]_allVars, list # Null
                PROVE  UNCHANGED <<list, sets>>
    OBVIOUS
  <2>1. ASSUME UNCHANGED vars  PROVE UNCHANGED <<list, sets>>
    BY <2>1 DEF vars
  <2>2. ASSUME NEW t \in Threads, \/ PassBy(t) \/ Descend(t) \/ Leave(t) \/ Finish(t)
                                 \/ VisitStop(t) \/ VisitError(t) \/ Begin(t)
        PROVE  UNCHANGED <<list, sets>>
    BY <2>2 DEF PassBy, Descend, Leave, Finish, VisitStop, VisitError, Begin, WalkFrom
  <2>3. ASSUME NEW t \in Threads, OpenOrphans(t) \/ Searching(t) \/ UserWalk(t)
        PROVE  UNCHANGED <<list, sets>>
    <3>1. CASE OpenOrphans(t) \/ TakeOrphanLock(t) \/ Cached(t) \/ ListIsThere(t)
               \/ NoListYet(t) \/ NameFails(t) \/ Keep(t) \/ KeepFails(t)
      BY <2>1, <3>1 DEF OpenOrphans, TakeOrphanLock, Cached, ListIsThere, NoListYet, NameFails, Keep,
                        KeepFails
    <3>2. CASE LoadNamed(t)
      BY <3>2 DEF LoadNamed, WalkFrom
    <3>3. CASE LoadStep(t) \/ MarkStep(t)
      BY <2>2, <3>3 DEF LoadStep, MarkStep, Walks
    <3>4. CASE LoadEnds(t) \/ MarkEnds(t) \/ MarkStop(t)
      BY <2>2, <3>4 DEF LoadEnds, MarkEnds, MarkStop
    <3>5. ASSUME NEW a \in Inodes, SkipInode(t, a) \/ InodeFails(t, a) \/ AddFile(t, a)
          PROVE  UNCHANGED <<list, sets>>
      BY <2>1, <3>5 DEF SkipInode, InodeFails, AddFile
    <3>6. ASSUME NEW a \in Inodes, AddDirectory(t, a)  PROVE UNCHANGED <<list, sets>>
      BY <3>6 DEF AddDirectory, WalkFrom
    <3>7. CASE UserWalk(t)
      BY <2>2, <3>7 DEF UserWalk, Walking
    <3>. QED  BY <2>3, <3>1, <3>2, <3>3, <3>4, <3>5, <3>6, <3>7 DEF Searching
  <2>4. CASE UNCHANGED allVars
    BY <2>1, <2>4 DEF allVars
  <2>. QED  BY <2>3, <2>4 DEF NextOrphans
<1>. QED  BY <1>1, PTL DEF OrphansSpec, ListIsSetOnce

\* The invariant of the walks holds with searches among them.
THEOREM WalkInvariance == OrphansSpec => []WInv
<1>. QED  BY InitWInv, NextWInv, PTL DEF OrphansSpec

\* The parents of FAT directories, as far as searches and walks know them, hold
\* at every step.
THEOREM ParentsInvariance == OrphansSpec => []KInv
<1>1. ASSUME InitOrphans  PROVE KInv
  <2>1. inum2par \in Parents
    BY <1>1 DEF InitOrphans, Parents
  <2>2. ASSUME NEW t \in Threads  PROVE KnownIn(inum2par, frames[t])
    <3>1. Len(frames[t]) = 0
      BY <1>1 DEF InitOrphans, Init
    <3>2. 1..Len(frames[t]) = {}
      BY <3>1
    <3>. QED  BY <3>2 DEF KnownIn
  <2>. QED  BY <2>1, <2>2 DEF KInv
<1>. QED  BY <1>1, NextKInv, WalkInvariance, PTL DEF OrphansSpec

\* The parent of every FAT directory that a search or a walk from the root
\* opens is known by then, so that no thread that holds orphan_dir_lock begins
\* the walk that looks for one, which would wait for that lock.
THEOREM ParentsFirst == OrphansSpec => []OpenedAreKnown
<1>1. WInv /\ KInv => OpenedAreKnown
  <2>. SUFFICES ASSUME WInv, KInv, img \in FatImages, NEW t \in Threads,
                       NEW k \in DOMAIN frames[t], frames[t][k].dir # Root
                PROVE  inum2par[frames[t][k].dir] # Null
    BY DEF OpenedAreKnown
  <2>1. frames[t] \in Seq(FrameType)
    BY DEF WInv, IInv, Functions
  <2>2. k \in 1..Len(frames[t])
    BY <2>1
  <2>. QED  BY <2>2 DEF KInv, KnownIn
<1>. QED  BY <1>1, ParentsInvariance, WalkInvariance, PTL

-------------------------------------------------------------------------------
(* What the walks of searches and users have come past.                    *)

\* The invariants of the names in DirWalkProofs.
NamesInv == Noting /\ AllShown /\ ListInv

LEMMA WalkPartSteps ==
    ASSUME NEW t \in Threads, WalkPart(t)
    PROVE  WalkSteps
BY DEF WalkPart, WalkSteps

LEMMA NextWalkSteps ==
    ASSUME WInv, [NextOrphans]_allVars
    PROVE  WalkSteps
<1>1. CASE UNCHANGED allVars
  BY <1>1 DEF allVars, WalkSteps
<1>2. ASSUME NEW t \in Threads, OpenOrphans(t) \/ Searching(t) \/ UserWalk(t)  PROVE WalkSteps
  BY <1>2, ThreadMoves, WalkPartSteps DEF Moves
<1>. QED  BY <1>1, <1>2 DEF NextOrphans

LEMMA NextNamesInv == WInv /\ NamesInv /\ [NextOrphans]_allVars => NamesInv'
BY NextWalkSteps, ShownStep, ListStep DEF WInv, NamesInv

\* The invariants of what walks have come past hold with searches among them.
THEOREM NamesInvariance == OrphansSpec => []NamesInv
<1>1. InitOrphans => NamesInv
  BY NotingInit, ShownInit, ListInit DEF InitOrphans, NamesInv
<1>. QED  BY <1>1, NextNamesInv, WalkInvariance, PTL DEF OrphansSpec

\* The list that a search looks inodes up in names every deleted inode that has
\* a name outside $OrphanFiles and no other, whether a search has had it made
\* or a user's walk has left it behind.
THEOREM ListForSearches == OrphansSpec => []ListIsComplete
<1>1. NamesInv => ListIsComplete
  BY NamedLemma DEF NamesInv, ListInv, ListIsNamed, ListIsComplete
<1>. QED  BY <1>1, NamesInvariance, PTL

-------------------------------------------------------------------------------
(* What the clean-up leaves of the names.                                  *)

Elems(s) == {s[k] : k \in 1..Len(s)}

\* r is s without some that are marked, in another order.
Shrunk(r, s, M) ==
    /\ r \in Seq(Inodes)
    /\ Elems(r) \subseteq Elems(s)
    /\ Distinct(s) => Distinct(r)
    /\ Elems(s) \ M \subseteq Elems(r)

\* A round of the loop.
Round(r, i, M) == IF i <= Len(r) /\ r[i] \in M THEN DropAt(r, i) ELSE r

LEMMA DropLemma ==
    ASSUME NEW s \in Seq(Inodes), NEW i \in 1..Len(s)
    PROVE  /\ DropAt(s, i) \in Seq(Inodes) /\ Len(DropAt(s, i)) = Len(s) - 1
           /\ \A k \in 1..(Len(s) - 1) : DropAt(s, i)[k] = IF k = i THEN s[Len(s)] ELSE s[k]
<1>. DEFINE u == [s EXCEPT ![i] = s[Len(s)]]
<1>1. Len(s) \in Nat /\ Len(s) \in 1..Len(s) /\ s[Len(s)] \in Inodes
  <2>1. Len(s) \in Nat /\ Len(s) \in 1..Len(s)
    OBVIOUS
  <2>. QED  BY <2>1
<1>2. u \in Seq(Inodes) /\ Len(u) = Len(s) /\ \A k \in 1..Len(s) : u[k] = IF k = i THEN s[Len(s)] ELSE s[k]
  BY <1>1
<1>3. DropAt(s, i) = SubSeq(u, 1, Len(s) - 1)
  BY DEF DropAt, Top
<1>. HIDE DEF u
<1>4. /\ SubSeq(u, 1, Len(s) - 1) \in Seq(Inodes) /\ Len(SubSeq(u, 1, Len(s) - 1)) = Len(s) - 1
      /\ \A k \in 1..(Len(s) - 1) : SubSeq(u, 1, Len(s) - 1)[k] = u[k]
  BY <1>1, <1>2
<1>5. \A k \in 1..(Len(s) - 1) : k \in 1..Len(s)
  BY <1>1
<1>. QED  BY <1>2, <1>3, <1>4, <1>5

LEMMA RoundLemma ==
    ASSUME NEW s, NEW M, NEW r, Shrunk(r, s, M), NEW i \in Nat \ {0}
    PROVE  Shrunk(Round(r, i, M), s, M)
<1>1. CASE ~(i <= Len(r) /\ r[i] \in M)
  BY <1>1 DEF Round
<1>2. CASE i <= Len(r) /\ r[i] \in M
  <2>. DEFINE d == DropAt(r, i)
              n == Len(r)
  <2>1. r \in Seq(Inodes) /\ n \in Nat /\ i \in 1..n
    BY <1>2 DEF Shrunk
  <2>2. /\ d \in Seq(Inodes) /\ Len(d) = n - 1
        /\ \A k \in 1..(n - 1) : d[k] = IF k = i THEN r[n] ELSE r[k]
    BY <2>1, DropLemma
  <2>3. Round(r, i, M) = d
    BY <1>2 DEF Round
  <2>. HIDE DEF d, n
  <2>4. n \in 1..n /\ \A k \in 1..(n - 1) : k \in 1..n /\ k # n
    BY <2>1
  <2>5. Elems(r) = {r[k] : k \in 1..n} /\ Elems(d) = {d[k] : k \in 1..(n - 1)}
    BY <2>2 DEF Elems, n
  <2>6. Elems(d) \subseteq Elems(r)
    BY <2>2, <2>4, <2>5
  <2>7. ASSUME Distinct(r)  PROVE Distinct(d)
    <3>1. ASSUME NEW j \in 1..(n - 1), NEW k \in 1..(n - 1), d[j] = d[k]
          PROVE  j = k
      <4>1. \A a, b \in 1..n : r[a] = r[b] => a = b
        BY <2>7 DEF Distinct, n
      <4>. QED  BY <2>2, <2>4, <3>1, <4>1
    <3>. QED  BY <2>2, <3>1 DEF Distinct
  <2>8. ASSUME NEW x \in Elems(r) \ M  PROVE x \in Elems(d)
    <3>1. PICK k \in 1..n : r[k] = x
      BY <2>5
    <3>2. k # i
      BY <1>2, <2>8, <3>1
    <3>3. CASE k = n
      <4>1. i \in 1..(n - 1)
        BY <2>1, <3>2, <3>3
      <4>2. d[i] = x
        BY <2>2, <3>1, <3>3, <4>1
      <4>. QED  BY <2>5, <4>1, <4>2
    <3>4. CASE k # n
      <4>1. k \in 1..(n - 1)
        BY <2>1, <3>4
      <4>2. d[k] = x
        BY <2>2, <3>1, <3>2, <4>1
      <4>. QED  BY <2>5, <4>1, <4>2
    <3>. QED  BY <3>3, <3>4
  <2>. QED  BY <2>2, <2>3, <2>6, <2>7, <2>8 DEF Shrunk
<1>. QED  BY <1>1, <1>2

\* A set of numbers that is not empty has a least one.
LEMMA LeastNumber ==
    ASSUME NEW S \in SUBSET Nat, S # {}
    PROVE  \E n \in S : \A m \in S : n <= m
<1>1. PICK n \in S : \A m \in S : ~ (<<m, n>> \in OpToRel(<, Nat))
  BY WFMin, NatLessThanWellFounded
<1>2. ASSUME NEW m \in S
      PROVE  n <= m
  <2>1. ~ (m < n)
    BY <1>1 DEF OpToRel
  <2>. QED  BY <2>1
<1>. QED  BY <1>2

\* The function that DeDup's is the one to be equal to.
Rounds(f, n, s, M) == [i \in 0..n |-> IF i = 0 THEN s ELSE Round(f[i - 1], i, M)]

LEMMA RoundsExist ==
    ASSUME NEW s, NEW M, NEW n \in Nat
    PROVE  \E f : f = Rounds(f, n, s, M)
<1>. DEFINE Bad == {m \in Nat : ~\E f : f = Rounds(f, m, s, M)}
<1>1. SUFFICES ASSUME Bad # {}  PROVE FALSE
  BY <1>1
<1>2. PICK m \in Bad : \A k \in Bad : m <= k
  BY <1>1, LeastNumber
<1>3. CASE m = 0
  <2>. DEFINE f == [i \in 0..0 |-> s]
  <2>1. f = Rounds(f, 0, s, M)
    BY DEF Rounds
  <2>. QED  BY <1>2, <1>3, <2>1
<1>4. CASE m # 0
  <2>1. m \in Nat /\ m - 1 \in Nat /\ m - 1 \notin Bad
    BY <1>2, <1>4
  <2>2. PICK g : g = Rounds(g, m - 1, s, M)
    BY <2>1
  <2>. DEFINE f == [i \in 0..m |-> IF i = m THEN Round(g[m - 1], m, M) ELSE g[i]]
  <2>3. ASSUME NEW i \in 0..m  PROVE f[i] = IF i = 0 THEN s ELSE Round(f[i - 1], i, M)
    <3>1. CASE i = m
      <4>1. m - 1 \in 0..m /\ m - 1 # m /\ m # 0 /\ m \in 0..m
        BY <1>4, <2>1
      <4>. QED  BY <3>1, <4>1
    <3>2. CASE i # m
      <4>1. i \in 0..(m - 1) /\ f[i] = g[i]
        BY <2>1, <3>2
      <4>2. g[i] = IF i = 0 THEN s ELSE Round(g[i - 1], i, M)
        BY <2>2, <4>1 DEF Rounds
      <4>3. i # 0 => i - 1 \in 0..m /\ i - 1 # m
        BY <2>1
      <4>4. i # 0 => f[i - 1] = g[i - 1]
        BY <4>3
      <4>. QED  BY <4>1, <4>2, <4>4
    <3>. QED  BY <3>1, <3>2
  <2>4. f = Rounds(f, m, s, M)
    <3>1. f = [i \in 0..m |-> f[i]]
      OBVIOUS
    <3>. HIDE DEF f
    <3>. QED  BY <2>3, <3>1 DEF Rounds
  <2>. QED  BY <1>2, <2>4
<1>. QED  BY <1>3, <1>4

\* The clean-up takes out none but marked names, keeps all others, and puts no
\* name twice.
LEMMA DeDupLemma ==
    ASSUME NEW s \in Seq(Inodes), NEW M
    PROVE  Shrunk(DeDup(s, M), s, M)
<1>. DEFINE n == Len(s)
            f == CHOOSE f : f = Rounds(f, n, s, M)
<1>1. DeDup(s, M) = f[n]
  BY DEF DeDup, Rounds, Round
<1>2. n \in Nat
  OBVIOUS
<1>. HIDE DEF n
<1>3. f = Rounds(f, n, s, M)
  BY <1>2, RoundsExist
<1>. HIDE DEF f
<1>4. \A i \in 0..n : f[i] = IF i = 0 THEN s ELSE Round(f[i - 1], i, M)
  BY <1>3 DEF Rounds
<1>. DEFINE Bad == {i \in 0..n : ~Shrunk(f[i], s, M)}
<1>5. ASSUME Bad # {}  PROVE FALSE
  <2>1. Bad \in SUBSET Nat
    BY <1>2
  <2>2. PICK m \in Bad : \A k \in Bad : m <= k
    BY <1>5, <2>1, LeastNumber
  <2>3. CASE m = 0
    <3>1. Shrunk(s, s, M)
      BY DEF Shrunk
    <3>. QED  BY <1>4, <2>2, <2>3, <3>1
  <2>4. CASE m # 0
    <3>1. m \in 0..n /\ m \in Nat \ {0} /\ m - 1 \in 0..n /\ m - 1 \notin Bad
      BY <1>2, <2>2, <2>4
    <3>2. Shrunk(f[m - 1], s, M) /\ f[m] = Round(f[m - 1], m, M)
      BY <1>4, <3>1
    <3>. QED  BY <2>2, <3>1, <3>2, RoundLemma
  <2>. QED  BY <2>3, <2>4
<1>6. n \in 0..n
  BY <1>2
<1>. QED  BY <1>1, <1>5, <1>6

-------------------------------------------------------------------------------
(* Orphans, and what is below what, in a file system im.                   *)

UnallocatedIn(im) == {a \in Inodes : ~im.meta[a].alloc}

OrphansIn(im) == (UnallocatedIn(im) \ im.unloadable) \ DeletedOf(im, ThroughIn(im, Root, Outside))

InsideOf(im, d) ==
    IF im.meta[d].type = "dir" /\ d \notin im.unreadable
    THEN {im.names[d][i].addr : i \in {i \in DOMAIN im.names[d] : ~im.names[d][i].dot}}
    ELSE {}

DownClosed(im, T) == \A d \in T : InsideOf(im, d) \subseteq T

ReachedIn(im, S) == {a \in Inodes : \A T \in SUBSET Inodes : S \subseteq T /\ DownClosed(im, T) => a \in T}

NoCyclesIn(im) ==
    \A S \in SUBSET Inodes : S # {} => \E a \in S : \A d \in S : a \notin InsideOf(im, d)

\* The definitions of Orphans are these, of img.
LEMMA OfImage ==
    /\ Unallocated = UnallocatedIn(img) /\ TrueOrphans = OrphansIn(img)
    /\ \A d : Contents(d) = InsideOf(img, d)
    /\ \A S : Reached(S) = ReachedIn(img, S)
    /\ NoCycles <=> NoCyclesIn(img)
<1>1. Unallocated = UnallocatedIn(img)
  BY DEF Unallocated, UnallocatedIn
<1>2. \A d : Contents(d) = InsideOf(img, d)
  BY DEF Contents, InsideOf, CanOpen
<1>3. TrueOrphans = OrphansIn(img)
  BY <1>1, NamedLemma DEF TrueOrphans, OrphansIn, Named
<1>4. \A S : Reached(S) = ReachedIn(img, S)
  BY <1>2 DEF Reached, ReachedIn, DownClosed
<1>5. NoCycles <=> NoCyclesIn(img)
  BY <1>2 DEF NoCycles, NoCyclesIn
<1>. QED  BY <1>1, <1>2, <1>3, <1>4, <1>5

LEMMA InsideLemma ==
    ASSUME NEW im \in ImageType, NEW d \in Inodes
    PROVE  InsideOf(im, d) \subseteq Inodes
<1>1. im.names[d] \in Seq(Names)
  BY DEF ImageType
<1>2. ASSUME NEW i \in DOMAIN im.names[d]  PROVE im.names[d][i].addr \in Inodes
  <2>1. im.names[d][i] \in Names
    BY <1>1, <1>2
  <2>. QED  BY <2>1 DEF Names
<1>. QED  BY <1>2 DEF InsideOf

\* What is reached is the least set with S in it that is closed.
LEMMA ReachedLemma ==
    ASSUME NEW im \in ImageType, NEW S \in SUBSET Inodes
    PROVE  /\ S \subseteq ReachedIn(im, S) /\ ReachedIn(im, S) \subseteq Inodes
           /\ DownClosed(im, ReachedIn(im, S))
           /\ \A T \in SUBSET Inodes : S \subseteq T /\ DownClosed(im, T) => ReachedIn(im, S) \subseteq T
<1>1. S \subseteq ReachedIn(im, S) /\ ReachedIn(im, S) \subseteq Inodes
  BY DEF ReachedIn
<1>2. ASSUME NEW d \in ReachedIn(im, S), NEW a \in InsideOf(im, d)
      PROVE  a \in ReachedIn(im, S)
  <2>1. a \in Inodes
    BY <1>1, <1>2, InsideLemma
  <2>2. ASSUME NEW T \in SUBSET Inodes, S \subseteq T, DownClosed(im, T)  PROVE a \in T
    <3>1. d \in T
      BY <1>2, <2>2 DEF ReachedIn
    <3>. QED  BY <1>2, <2>2, <3>1 DEF DownClosed
  <2>. QED  BY <2>1, <2>2 DEF ReachedIn
<1>3. DownClosed(im, ReachedIn(im, S))
  BY <1>2 DEF DownClosed
<1>4. ASSUME NEW T \in SUBSET Inodes, S \subseteq T, DownClosed(im, T)
      PROVE  ReachedIn(im, S) \subseteq T
  BY <1>4 DEF ReachedIn
<1>. QED  BY <1>1, <1>3, <1>4

LEMMA ReachedMore ==
    ASSUME NEW im \in ImageType, NEW S \in SUBSET Inodes, NEW R \in SUBSET Inodes, S \subseteq R
    PROVE  ReachedIn(im, S) \subseteq ReachedIn(im, R)
<1>1. /\ R \subseteq ReachedIn(im, R) /\ ReachedIn(im, R) \in SUBSET Inodes
      /\ DownClosed(im, ReachedIn(im, R))
  BY ReachedLemma
<1>. QED  BY <1>1, ReachedLemma

\* All marks M are on files inside directories that are reached from S.
MarkedBelow(im, S, M) == \A a \in M : \E d \in ReachedIn(im, S) : a \in InsideOf(im, d)

\* To take marked files out of S takes nothing out of reach, for the topmost of
\* what would be lost is in S, and neither kept nor inside another.
LEMMA NoneLost ==
    ASSUME NEW im \in ImageType, NoCyclesIn(im), NEW S \in SUBSET Inodes, NEW M,
           MarkedBelow(im, S, M), NEW R \in SUBSET S, S \ M \subseteq R
    PROVE  S \cup M \subseteq ReachedIn(im, R)
<1>. DEFINE A == ReachedIn(im, S)
            B == ReachedIn(im, R)
            Lost == A \ B
<1>1. /\ S \subseteq A /\ A \in SUBSET Inodes /\ DownClosed(im, A)
      /\ \A T \in SUBSET Inodes : S \subseteq T /\ DownClosed(im, T) => A \subseteq T
  BY ReachedLemma
<1>2. R \in SUBSET Inodes /\ R \subseteq B /\ B \in SUBSET Inodes /\ DownClosed(im, B)
  BY ReachedLemma
<1>3. MarkedBelow(im, S, M) <=> \A a \in M : \E d \in A : a \in InsideOf(im, d)
  BY DEF MarkedBelow
<1>. HIDE DEF A, B
<1>4. M \subseteq A
  BY <1>1, <1>3 DEF DownClosed
<1>5. ASSUME Lost # {}  PROVE FALSE
  <2>1. PICK a \in Lost : \A d \in Lost : a \notin InsideOf(im, d)
    BY <1>1, <1>5 DEF NoCyclesIn
  <2>2. \A d \in A : a \notin InsideOf(im, d)
    BY <1>2, <2>1 DEF DownClosed
  <2>3. a \notin M
    BY <1>3, <2>2
  <2>4. a \notin S
    BY <1>2, <2>1, <2>3
  <2>5. S \subseteq A \ {a} /\ DownClosed(im, A \ {a}) /\ A \ {a} \in SUBSET Inodes
    BY <1>1, <2>2, <2>4 DEF DownClosed
  <2>6. A \subseteq A \ {a}
    BY <1>1, <2>5
  <2>. QED  BY <2>1, <2>6
<1>. QED  BY <1>1, <1>4, <1>5 DEF B

-------------------------------------------------------------------------------
(* What a search has found: types.                                         *)

\* What a search has, in terms of where it is and its walk is.
Typed(im, a, p, td, d, sb, ans) ==
    /\ td \in SUBSET UnallocatedIn(im) /\ sb \in SUBSET Inodes /\ d \in Seq(Inodes)
    /\ ans \in {Null, TSK_ERR} \cup Seq(Inodes)
    /\ a \in {"loading", "marking"} => p # "idle"
    /\ a \in {"locked", "naming", "loading"} => d = <<>> /\ sb = {}

PerThread ==
    /\ todo = [t \in Threads |-> todo[t]] /\ dir = [t \in Threads |-> dir[t]]
    /\ subdirs = [t \in Threads |-> subdirs[t]] /\ answer = [t \in Threads |-> answer[t]]

TInv ==
    /\ PerThread
    /\ orphan_dir \in {Null} \cup Seq(Inodes)
    /\ \A t \in Threads : Typed(img, at[t], pc[t], todo[t], dir[t], subdirs[t], answer[t])

\* A step of a thread leaves what the other threads have found alone.
Alone(t) ==
    /\ PerThread'
    /\ \A u \in Threads \ {t} :
        /\ at'[u] = at[u] /\ todo'[u] = todo[u] /\ dir'[u] = dir[u]
        /\ subdirs'[u] = subdirs[u] /\ answer'[u] = answer[u]

LEMMA AloneLemma ==
    ASSUME WInv, PerThread, NEW t \in Threads, OpenOrphans(t) \/ Searching(t) \/ UserWalk(t)
    PROVE  Alone(t)
<1>. USE DEF shared, search, orphanVars, PerThread, WInv, SearchTypes
<1>1. ASSUME UNCHANGED <<at, todo, dir, subdirs, answer>>  PROVE Alone(t)
  BY <1>1 DEF Alone
<1>2. ASSUME NEW r, SearchReturns(t, r)  PROVE Alone(t)
  BY <1>2 DEF SearchReturns, Alone
<1>3. CASE OpenOrphans(t) \/ TakeOrphanLock(t)
  BY <1>3 DEF OpenOrphans, TakeOrphanLock, Alone
<1>4. CASE Cached(t) \/ NameFails(t) \/ Keep(t) \/ KeepFails(t) \/ \E a \in Inodes : InodeFails(t, a)
  <2>1. \E r : SearchReturns(t, r)
    BY <1>4 DEF Cached, NameFails, Keep, KeepFails, InodeFails
  <2>. QED  BY <1>2, <2>1
<1>5. CASE ListIsThere(t) \/ NoListYet(t) \/ LoadNamed(t)
  BY <1>5 DEF ListIsThere, ToInodes, NoListYet, LoadNamed, Alone
<1>6. CASE LoadEnds(t) \/ MarkEnds(t)
  <2>1. CASE \E r : SearchReturns(t, r)
    BY <1>2, <2>1
  <2>2. CASE ToInodes(t) /\ UNCHANGED <<dir, subdirs, answer>>
    BY <2>2 DEF ToInodes, Alone
  <2>3. CASE at' = [at EXCEPT ![t] = "inodes"] /\ UNCHANGED <<todo, dir, subdirs, answer>>
    BY <2>3 DEF Alone
  <2>. QED  BY <1>6, <2>1, <2>2, <2>3 DEF LoadEnds, MarkEnds
<1>7. CASE LoadStep(t) \/ MarkStop(t) \/ UserWalk(t)
  BY <1>1, <1>7 DEF LoadStep, MarkStop, UserWalk
<1>8. CASE MarkStep(t)
  BY <1>8 DEF MarkStep, Alone
<1>9. ASSUME NEW a \in Inodes, SkipInode(t, a) \/ AddFile(t, a) \/ AddDirectory(t, a)
      PROVE  Alone(t)
  BY <1>9 DEF SkipInode, AddFile, AddDirectory, GoesOn, Alone
<1>. QED
  BY <1>3, <1>4, <1>5, <1>6, <1>7, <1>8, <1>9 DEF Searching

\* A walk that begins is not idle, and one that goes on neither.
LEMMA NotIdle ==
    ASSUME IInv, NEW t \in Threads,
           (\E a \in Inodes : \E f : WalkFrom(t, a, f)) \/ VisitStop(t) \/ Walks(t)
    PROVE  pc'[t] # "idle"
<1>1. CASE \E a \in Inodes : \E f : WalkFrom(t, a, f)
  BY <1>1 DEF WalkFrom, IInv, Functions
<1>2. CASE VisitStop(t) \/ Walks(t)
  BY <1>2 DEF VisitStop, Walks, PassBy, Descend, Leave, Goes, AtEntry, AtEnd, Returns, Back,
              IInv, Functions
<1>. QED  BY <1>1, <1>2

\* What a thread has when its search returns.
LEMMA ReturnValues ==
    ASSUME WInv, PerThread, NEW t \in Threads, NEW r, SearchReturns(t, r)
    PROVE  /\ at'[t] = "out" /\ todo'[t] = {} /\ dir'[t] = <<>> /\ subdirs'[t] = {}
           /\ answer'[t] = r
BY DEF SearchReturns, WInv, SearchTypes, PerThread

\* What it has when its search comes to the inodes.
LEMMA InodesValues ==
    ASSUME WInv, PerThread, NEW t \in Threads, ToInodes(t)
    PROVE  at'[t] = "inodes" /\ todo'[t] = UnallocatedIn(img)
BY DEF ToInodes, WInv, SearchTypes, PerThread, Unallocated, UnallocatedIn

\* The image and the other threads, in a step of t.
LEMMA ThreadStep ==
    ASSUME WInv, NEW t \in Threads, OpenOrphans(t) \/ Searching(t) \/ UserWalk(t)
    PROVE  img' = img /\ WInv' /\ \A u \in Threads \ {t} : pc'[u] = pc[u] /\ frames'[u] = frames[u]
BY ThreadMoves, MovesLemma, WalkPartLemma DEF Moves, WInv

LEMMA TypedOthers ==
    ASSUME WInv, TInv, NEW t \in Threads, OpenOrphans(t) \/ Searching(t) \/ UserWalk(t),
           orphan_dir' \in {Null} \cup Seq(Inodes),
           Typed(img, at'[t], pc'[t], todo'[t], dir'[t], subdirs'[t], answer'[t])
    PROVE  TInv'
<1>1. Alone(t) /\ img' = img /\ \A u \in Threads \ {t} : pc'[u] = pc[u]
  BY AloneLemma, ThreadStep DEF TInv
<1>2. ASSUME NEW u \in Threads
      PROVE  Typed(img, at'[u], pc'[u], todo'[u], dir'[u], subdirs'[u], answer'[u])
  <2>1. CASE u = t
    BY <2>1
  <2>2. CASE u # t
    <3>1. Typed(img, at[u], pc[u], todo[u], dir[u], subdirs[u], answer[u])
      BY DEF TInv
    <3>. QED  BY <1>1, <2>2, <3>1 DEF Alone
  <2>. QED  BY <2>1, <2>2
<1>. QED  BY <1>1, <1>2 DEF Alone, TInv

LEMMA TypedThread ==
    ASSUME WInv, TInv, NEW t \in Threads, OpenOrphans(t) \/ Searching(t) \/ UserWalk(t)
    PROVE  TInv'
<1>. USE DEF shared, search, orphanVars
<1>1. /\ PerThread /\ IInv /\ at = [u \in Threads |-> at[u]]
      /\ Typed(img, at[t], pc[t], todo[t], dir[t], subdirs[t], answer[t])
      /\ orphan_dir \in {Null} \cup Seq(Inodes)
  BY DEF TInv, WInv, SearchTypes
<1>2. <<>> \in Seq(Inodes)
  OBVIOUS
<1>3. ASSUME NEW r \in {Null, TSK_ERR} \cup Seq(Inodes), SearchReturns(t, r)
      PROVE  Typed(img, at'[t], pc'[t], todo'[t], dir'[t], subdirs'[t], answer'[t])
  BY <1>1, <1>2, <1>3, ReturnValues DEF Typed
<1>4. CASE OpenOrphans(t)
  <2>1. /\ at'[t] = "waiting" /\ answer'[t] = Null
        /\ UNCHANGED <<orphan_dir, todo, dir, subdirs>>
    BY <1>1, <1>4 DEF OpenOrphans, PerThread
  <2>. QED  BY <1>1, <2>1, TypedOthers DEF Typed
<1>5. CASE TakeOrphanLock(t)
  <2>1. /\ at'[t] = "locked" /\ dir'[t] = <<>> /\ subdirs'[t] = {}
        /\ UNCHANGED <<orphan_dir, todo, answer>>
    BY <1>1, <1>5 DEF TakeOrphanLock, PerThread
  <2>. QED  BY <1>1, <1>2, <2>1, TypedOthers DEF Typed
<1>6. CASE Cached(t)
  <2>1. orphan_dir' = orphan_dir
        /\ \E r \in {Null, TSK_ERR} \cup Seq(Inodes) : SearchReturns(t, r)
    BY <1>1, <1>6 DEF Cached
  <2>. QED  BY <1>1, <1>3, <2>1, TypedOthers
<1>7. CASE ListIsThere(t)
  <2>1. ToInodes(t) /\ at[t] = "locked" /\ UNCHANGED <<orphan_dir, dir, subdirs, answer>>
    BY <1>7 DEF ListIsThere
  <2>2. at'[t] = "inodes" /\ todo'[t] = UnallocatedIn(img)
    BY <1>1, <2>1, InodesValues
  <2>. QED  BY <1>1, <2>1, <2>2, TypedOthers DEF Typed
<1>21. CASE NoListYet(t)
  <2>1. at[t] = "locked" /\ at'[t] = "naming" /\ UNCHANGED <<orphan_dir, todo, dir, subdirs, answer>>
    BY <1>1, <1>21 DEF NoListYet
  <2>. QED  BY <1>1, <2>1, TypedOthers DEF Typed
<1>8. CASE LoadNamed(t)
  <2>1. /\ at[t] = "naming" /\ at'[t] = "loading" /\ WalkFrom(t, Root, Marking)
        /\ UNCHANGED <<orphan_dir, todo, dir, subdirs, answer>>
    BY <1>1, <1>8 DEF LoadNamed
  <2>2. pc'[t] # "idle"
    BY <1>1, <2>1, NotIdle, AddressesAssumption
  <2>. QED  BY <1>1, <2>1, <2>2, TypedOthers DEF Typed
<1>9. CASE LoadStep(t)
  <2>1. at[t] = "loading" /\ Walks(t) /\ UNCHANGED <<orphan_dir, at, todo, dir, subdirs, answer>>
    BY <1>9 DEF LoadStep
  <2>2. pc'[t] # "idle"
    BY <1>1, <2>1, NotIdle
  <2>. QED  BY <1>1, <2>1, <2>2, TypedOthers DEF Typed
<1>10. CASE LoadEnds(t)
  <2>1. orphan_dir' = orphan_dir
    BY <1>10 DEF LoadEnds
  <2>2. CASE SearchReturns(t, TSK_ERR)
    BY <1>1, <1>3, <2>1, <2>2, TypedOthers
  <2>3. CASE ToInodes(t) /\ UNCHANGED <<dir, subdirs, answer>>
    <3>1. at'[t] = "inodes" /\ todo'[t] = UnallocatedIn(img)
      BY <1>1, <2>3, InodesValues
    <3>. QED  BY <1>1, <2>1, <2>3, <3>1, TypedOthers DEF Typed
  <2>. QED  BY <1>10, <2>2, <2>3 DEF LoadEnds
<1>11. ASSUME NEW a \in Inodes, SkipInode(t, a)  PROVE TInv'
  <2>1. /\ at[t] = "inodes" /\ todo' = [todo EXCEPT ![t] = @ \ {a}]
        /\ UNCHANGED <<orphan_dir, at, dir, subdirs, answer>>
    BY <1>11 DEF SkipInode, Comes, GoesOn
  <2>2. todo'[t] = todo[t] \ {a}
    BY <1>1, <2>1 DEF PerThread
  <2>. QED  BY <1>1, <1>11, <2>1, <2>2, TypedOthers DEF Typed, Searching
<1>12. ASSUME NameFails(t) \/ \E a \in Inodes : InodeFails(t, a)  PROVE TInv'
  <2>1. SearchReturns(t, TSK_ERR) /\ orphan_dir' = orphan_dir
    BY <1>12 DEF NameFails, InodeFails
  <2>. QED  BY <1>1, <1>3, <1>12, <2>1, TypedOthers DEF Searching
<1>13. ASSUME NEW a \in Inodes, AddFile(t, a) \/ AddDirectory(t, a)  PROVE TInv'
  <2>1. /\ at[t] = "inodes" /\ todo' = [todo EXCEPT ![t] = @ \ {a}]
        /\ dir' = [dir EXCEPT ![t] = Append(@, a)]
        /\ UNCHANGED <<orphan_dir, subdirs, answer>>
    BY <1>13 DEF AddFile, AddDirectory, Comes, GoesOn
  <2>2. todo'[t] = todo[t] \ {a} /\ dir'[t] = Append(dir[t], a)
    BY <1>1, <2>1 DEF PerThread
  <2>3. at'[t] = "inodes" \/ (at'[t] = "marking" /\ pc'[t] # "idle")
    <3>1. CASE AddFile(t, a)
      BY <2>1, <3>1 DEF AddFile
    <3>2. CASE AddDirectory(t, a)
      <4>1. WalkFrom(t, a, Marking) /\ at' = [at EXCEPT ![t] = "marking"]
        BY <3>2 DEF AddDirectory
      <4>. QED  BY <1>1, <4>1, NotIdle
    <3>. QED  BY <1>13, <3>1, <3>2
  <2>4. Append(dir[t], a) \in Seq(Inodes)
    BY <1>1 DEF Typed
  <2>. QED  BY <1>1, <1>13, <2>1, <2>2, <2>3, <2>4, TypedOthers DEF Typed, Searching
<1>14. CASE MarkStop(t)
  <2>1. at[t] = "marking" /\ VisitStop(t) /\ UNCHANGED <<orphan_dir, at, todo, dir, subdirs, answer>>
    BY <1>14 DEF MarkStop
  <2>2. pc'[t] # "idle"
    BY <1>1, <2>1, NotIdle
  <2>. QED  BY <1>1, <2>1, <2>2, TypedOthers DEF Typed
<1>15. CASE MarkStep(t)
  <2>1. /\ at[t] = "marking" /\ Walks(t) /\ UNCHANGED <<orphan_dir, at, todo, dir, answer>>
        /\ \E s \in AfterMark(t) : subdirs' = [subdirs EXCEPT ![t] = s]
    BY <1>15 DEF MarkStep
  <2>2. subdirs'[t] = subdirs[t] \/ (Counts(t) /\ subdirs'[t] = subdirs[t] \cup {Entry(t).addr})
    BY <1>1, <2>1 DEF PerThread, AfterMark
  <2>3. Counts(t) => Entry(t).addr \in Inodes
    BY <1>1, EntryLemma DEF Counts
  <2>4. subdirs'[t] \in SUBSET Inodes
    BY <1>1, <2>2, <2>3 DEF Typed
  <2>5. pc'[t] # "idle"
    BY <1>1, <2>1, NotIdle
  <2>. QED  BY <1>1, <2>1, <2>4, <2>5, TypedOthers DEF Typed
<1>16. CASE MarkEnds(t)
  <2>1. orphan_dir' = orphan_dir
    BY <1>16 DEF MarkEnds
  <2>2. CASE SearchReturns(t, TSK_ERR)
    BY <1>1, <1>3, <2>1, <2>2, TypedOthers
  <2>3. CASE at' = [at EXCEPT ![t] = "inodes"] /\ UNCHANGED <<todo, dir, subdirs, answer>>
    <3>1. at'[t] = "inodes"
      BY <1>1, <2>3
    <3>. QED  BY <1>1, <2>1, <2>3, <3>1, TypedOthers DEF Typed
  <2>. QED  BY <1>16, <2>2, <2>3 DEF MarkEnds
<1>17. Result(t) \in Seq(Inodes)
  BY <1>1, DeDupLemma DEF Result, Typed, Shrunk
<1>18. CASE Keep(t)
  <2>1. SearchReturns(t, Result(t)) /\ orphan_dir' = Result(t)
    BY <1>18 DEF Keep
  <2>. QED  BY <1>3, <1>17, <2>1, TypedOthers
<1>19. CASE KeepFails(t)
  <2>1. SearchReturns(t, TSK_ERR) /\ orphan_dir' \in {Null, <<>>, Result(t)}
    BY <1>19 DEF KeepFails
  <2>. QED  BY <1>2, <1>3, <1>17, <2>1, TypedOthers
<1>20. CASE UserWalk(t)
  <2>1. at[t] = "out" /\ UNCHANGED <<orphan_dir, at, todo, dir, subdirs, answer>>
    BY <1>20 DEF UserWalk
  <2>. QED  BY <1>1, <2>1, TypedOthers DEF Typed
<1>. QED
  BY <1>4, <1>5, <1>6, <1>7, <1>8, <1>9, <1>10, <1>11, <1>12, <1>13, <1>14, <1>15, <1>16,
     <1>18, <1>19, <1>20, <1>21 DEF Searching

LEMMA NextTInv == WInv /\ TInv /\ [NextOrphans]_allVars => TInv'
<1>. SUFFICES ASSUME WInv, TInv, [NextOrphans]_allVars  PROVE TInv'
  OBVIOUS
<1>1. CASE UNCHANGED allVars
  BY <1>1 DEF allVars, orphanVars, search, shared, vars, local, TInv, PerThread
<1>. QED  BY <1>1, TypedThread DEF NextOrphans

LEMMA InitTInv == InitOrphans => TInv
<1>. SUFFICES ASSUME InitOrphans  PROVE TInv
  OBVIOUS
<1>1. PerThread /\ orphan_dir \in {Null} \cup Seq(Inodes)
  BY DEF InitOrphans, PerThread
<1>2. ASSUME NEW t \in Threads
      PROVE  Typed(img, at[t], pc[t], todo[t], dir[t], subdirs[t], answer[t])
  <2>1. at[t] = "out" /\ todo[t] = {} /\ dir[t] = <<>> /\ subdirs[t] = {} /\ answer[t] = Null
    BY DEF InitOrphans
  <2>2. <<>> \in Seq(Inodes)
    OBVIOUS
  <2>. QED  BY <2>1, <2>2 DEF Typed
<1>. QED  BY <1>1, <1>2 DEF TInv

\* The types, and that a thread has a search on the way exactly when it holds
\* orphan_dir_lock, on every path.
THEOREM TypesOfSearches == OrphansSpec => []OrphansTypeOK
<1>1. WInv /\ SInv /\ TInv => OrphansTypeOK
  <2>. SUFFICES ASSUME WInv, SInv, TInv  PROVE OrphansTypeOK
    OBVIOUS
  <2>1. TypeOK
    BY TypesLemma DEF WInv
  <2>2. ASSUME NEW t \in Threads
        PROVE  /\ at[t] \in {"out", "waiting", "locked", "naming", "loading", "inodes", "marking"}
               /\ orphan_dir_lock = t <=> at[t] \notin {"out", "waiting"}
    BY DEF SInv, SearchTypes, Places, LockIsHeld
  <2>3. ASSUME NEW t \in Threads
        PROVE  /\ at[t] \in {"loading", "marking"} => pc[t] # "idle"
               /\ todo[t] \subseteq Unallocated /\ subdirs[t] \subseteq Inodes
               /\ dir[t] \in Seq(Inodes)
               /\ answer[t] \in {Null, TSK_ERR} \cup Seq(Inodes)
    BY OfImage DEF TInv, Typed
  <2>4. orphan_dir = Null \/ orphan_dir \in Seq(Inodes)
    BY DEF TInv
  <2>. QED  BY <2>1, <2>2, <2>3, <2>4 DEF OrphansTypeOK
<1>. QED  BY <1>1, InitTInv, NextTInv, WalkInvariance, SearchInvariance, PTL DEF OrphansSpec

-------------------------------------------------------------------------------
(* What a search has found.                                                *)

NeverRefused == \A t \in Threads : ~refused[t]

\* Steps of walks: a list stays, and a refusal is not forgotten.
LEMMA SetOnce ==
    ASSUME IInv, NamesInv, WalkSteps
    PROVE  /\ list # Null => list' = list
           /\ \A u \in Threads : refused[u] => refused'[u]
<1>1. CASE UNCHANGED vars
  BY <1>1 DEF vars
<1>2. ASSUME NEW t \in Threads, Walking(t) \/ \E a \in Inodes, f \in FlagType : WalkFrom(t, a, f)
      PROVE  /\ list # Null => list' = list
             /\ \A u \in Threads : refused[u] => refused'[u]
  BY <1>2 DEF Walking, WalkFrom, VisitStop, VisitError, PassBy, Descend, Leave, Finish, NamesInv, Noting
<1>. QED  BY <1>1, <1>2 DEF WalkSteps

\* What a step of one thread's walk leaves of the others.
LEMMA WalkOthers ==
    ASSUME WInv, NamesInv, NEW t \in Threads, WalkPart(t)
    PROVE  \A u \in Threads \ {t} :
               frames'[u] = frames[u] /\ save'[u] = save[u] /\ retval'[u] = retval[u]
<1>. USE DEF WInv, IInv, Functions, Collecting
<1>1. CASE UNCHANGED vars
  BY <1>1 DEF vars, local
<1>2. CASE Walking(t)
  BY <1>2, StaysLemma DEF NamesInv
<1>3. CASE \E a \in Inodes, f \in FlagType : WalkFrom(t, a, f)
  <2>. PICK a \in Inodes, f \in FlagType : WalkFrom(t, a, f)
    BY <1>3
  <2>1. CASE CanOpen(a)
    BY <2>1 DEF WalkFrom
  <2>2. CASE ~CanOpen(a)
    BY <2>2 DEF WalkFrom
  <2>. QED  BY <2>1, <2>2
<1>. QED  BY <1>1, <1>2, <1>3 DEF WalkPart

\* The entry a walk is at is inside the directory it is in, unless it is "." or
\* "..".
LEMMA EntryInside ==
    ASSUME IInv, NEW t \in Threads, AtEntry(t)
    PROVE  /\ Entry(t).addr \in Inodes /\ Here(t) = frames[t][Len(frames[t])]
           /\ Len(frames[t]) \in 1..Len(frames[t])
           /\ ~Entry(t).dot => Entry(t).addr \in InsideOf(img, Here(t).dir)
<1>1. /\ frames[t] \in Seq(FrameType) /\ frames[t] # <<>>
      /\ Top(frames[t]).i \in DOMAIN img.names[Top(frames[t]).dir]
      /\ Entry(t) = img.names[Top(frames[t]).dir][Top(frames[t]).i]
      /\ Entry(t).addr \in Inodes
  BY AtLemma
<1>2. Len(frames[t]) \in 1..Len(frames[t])
  BY <1>1
<1>3. Placed(img, frames[t])
  BY ThreadLemma DEF InStep
<1>4. img.meta[Here(t).dir].type = "dir" /\ Here(t).dir \notin img.unreadable
  BY <1>2, <1>3 DEF Placed, Here, Top
<1>5. ASSUME ~Entry(t).dot  PROVE Entry(t).addr \in InsideOf(img, Here(t).dir)
  <2>1. Here(t).i \in {i \in DOMAIN img.names[Here(t).dir] : ~img.names[Here(t).dir][i].dot}
    BY <1>1, <1>5 DEF Here
  <2>. QED  BY <1>1, <1>4, <2>1 DEF InsideOf, Here
<1>. QED  BY <1>1, <1>2, <1>5 DEF Here, Top

\* No directory below the start of a walk is $OrphanFiles, and of walks of FAT
\* no directory.
KeepsOff(fs) == \A k \in 1..Len(fs) : k # 1 \/ img \in FatImages => fs[k].dir # Orphan
NInv == \A t \in Threads : KeepsOff(frames[t])

LEMMA OffLemma ==
    ASSUME NEW fs \in Seq(FrameType), NEW gs \in Seq(FrameType), KeepsOff(fs),
           \/ NoCall(fs, gs)
           \/ \E d : Call(fs, gs, d) /\ (d # Orphan \/ (fs = <<>> /\ img \notin FatImages))
    PROVE  KeepsOff(gs)
<1>. DEFINE n == Len(fs)
            m == Len(gs)
<1>1. n \in Nat /\ m \in Nat
  OBVIOUS
<1>2. CASE NoCall(fs, gs)
  <2>1. m <= n /\ \A k \in 1..m : gs[k].dir = fs[k].dir
    BY <1>2 DEF NoCall
  <2>2. \A k \in 1..m : k \in 1..n
    BY <1>1, <2>1
  <2>. QED  BY <2>1, <2>2 DEF KeepsOff
<1>3. ASSUME NEW d, Call(fs, gs, d), d # Orphan \/ (fs = <<>> /\ img \notin FatImages)
      PROVE  KeepsOff(gs)
  <2>1. m = n + 1 /\ gs[m].dir = d /\ \A k \in 1..n : gs[k] = fs[k]
    BY <1>3 DEF Call
  <2>2. fs = <<>> => n = 0
    OBVIOUS
  <2>. HIDE DEF n, m
  <2>3. \A k \in 1..m : k \in 1..n \/ (k = m /\ (n = 0 => k = 1))
    BY <1>1, <2>1
  <2>4. ASSUME NEW k \in 1..m, k # 1 \/ img \in FatImages  PROVE gs[k].dir # Orphan
    <3>1. CASE k \in 1..n
      BY <2>1, <2>4, <3>1 DEF KeepsOff, n
    <3>2. CASE k = m /\ (n = 0 => k = 1)
      BY <1>3, <2>1, <2>2, <2>4, <3>2
    <3>. QED  BY <2>3, <3>1, <3>2
  <2>. QED  BY <2>4 DEF KeepsOff, m
<1>. QED  BY <1>2, <1>3

\* A walk begins, of FAT not in $OrphanFiles.
Begun(t) ==
    \E a \in Inodes, f \in FlagType :
        pc[t] = "idle" /\ WalkFrom(t, a, f) /\ (img \in FatImages => a # Orphan)

LEMMA OffStep ==
    ASSUME WInv, KInv, NInv, NEW t \in Threads, OpenOrphans(t) \/ Searching(t) \/ UserWalk(t),
           \/ UNCHANGED vars
           \/ Walking(t)
           \/ Begun(t)
    PROVE  NInv'
<1>1. /\ img' = img /\ \A u \in Threads \ {t} : frames'[u] = frames[u]
      /\ frames[t] \in Seq(FrameType) /\ frames'[t] \in Seq(FrameType) /\ KeepsOff(frames[t])
  BY ThreadStep DEF WInv, IInv, Functions, NInv
<1>2. KeepsOff(frames'[t])
  <2>1. CASE UNCHANGED vars
    BY <1>1, <2>1 DEF vars, local
  <2>2. CASE Walking(t)
    <3>1. ASSUME Descend(t)  PROVE Entry(t).addr # Orphan
      <4>1. pc[t] = "walking" /\ Enters(t)
        BY <3>1 DEF Descend, Goes, AtEntry
      <4>. QED  BY <4>1 DEF Enters, Recurses, WInv, KeepsOut
    <3>2. \/ NoCall(frames[t], frames'[t])
          \/ \E d : Call(frames[t], frames'[t], d) /\ d # Orphan
      BY <2>2, <3>1, WalkingCalls
    <3>. QED  BY <1>1, <3>2, OffLemma
  <2>3. CASE Begun(t)
    <3>. PICK a \in Inodes, f \in FlagType :
             pc[t] = "idle" /\ WalkFrom(t, a, f) /\ (img \in FatImages => a # Orphan)
      BY <2>3 DEF Begun
    <3>1. NoCall(frames[t], frames'[t]) \/ Call(frames[t], frames'[t], a)
      BY <2>3, BeginCalls DEF WInv
    <3>2. frames[t] = <<>>
      BY <2>3, ThreadLemma DEF WInv
    <3>. QED  BY <1>1, <2>3, <3>1, <3>2, OffLemma
  <2>. QED  BY <2>1, <2>2, <2>3
<1>. QED  BY <1>1, <1>2 DEF NInv, KeepsOff

LEMMA NextNInv == WInv /\ KInv /\ TInv /\ NInv /\ [NextOrphans]_allVars => NInv'
<1>. SUFFICES ASSUME WInv, KInv, TInv, NInv, [NextOrphans]_allVars  PROVE NInv'
  OBVIOUS
<1>1. CASE UNCHANGED allVars
  BY <1>1 DEF allVars, vars, local, NInv, KeepsOff
<1>2. ASSUME NEW t \in Threads, OpenOrphans(t) \/ Searching(t) \/ UserWalk(t)  PROVE NInv'
  <2>0. Marking \in FlagType
    BY DEF Marking, FlagType
  <2>1. CASE \/ OpenOrphans(t) \/ TakeOrphanLock(t) \/ Cached(t) \/ ListIsThere(t)
             \/ NoListYet(t) \/ NameFails(t) \/ Keep(t) \/ KeepFails(t)
             \/ \E a \in Inodes : SkipInode(t, a) \/ InodeFails(t, a) \/ AddFile(t, a)
    <3>1. UNCHANGED vars
      BY <2>1 DEF OpenOrphans, TakeOrphanLock, Cached, ListIsThere, NoListYet, NameFails, Keep,
                  KeepFails, SkipInode, InodeFails, AddFile
    <3>. QED  BY <1>2, <3>1, OffStep
  <2>2. CASE LoadNamed(t)
    <3>1. pc[t] = "idle" /\ WalkFrom(t, Root, Marking)
      BY <2>2 DEF LoadNamed, WInv, Between
    <3>2. Begun(t)
      BY <2>0, <3>1, AddressesAssumption DEF Begun
    <3>. QED  BY <1>2, <3>2, OffStep
  <2>3. ASSUME NEW a \in Inodes, AddDirectory(t, a)  PROVE NInv'
    <3>1. pc[t] = "idle" /\ WalkFrom(t, a, Marking) /\ a \in todo[t]
      BY <2>3 DEF AddDirectory, Comes, WInv, Between
    <3>2. a # Orphan
      BY <3>1, OrphanAssumption DEF TInv, Typed, UnallocatedIn, WInv, IInv
    <3>3. Begun(t)
      BY <2>0, <3>1, <3>2 DEF Begun
    <3>. QED  BY <1>2, <3>3, OffStep
  <2>4. CASE Walking(t)
    BY <1>2, <2>4, OffStep
  <2>5. CASE LoadStep(t) \/ LoadEnds(t) \/ MarkStop(t) \/ MarkStep(t) \/ MarkEnds(t)
    BY <2>4, <2>5 DEF LoadStep, LoadEnds, MarkStop, MarkStep, MarkEnds, Walks, Walking
  <2>6. CASE Begin(t)
    <3>1. PICK a \in Starts, f \in Flags : WalkFrom(t, a, f)
      BY <2>6 DEF Begin
    <3>2. pc[t] = "idle" /\ a \in Inodes /\ (img \in FatImages => a # Orphan)
      BY <2>6, WalksAssumption, FatAssumption, AddressesAssumption DEF Begin
    <3>3. Begun(t)
      BY <3>1, <3>2, WalksAssumption DEF Begun
    <3>. QED  BY <1>2, <3>3, OffStep
  <2>. QED
    BY <1>2, <2>1, <2>2, <2>3, <2>4, <2>5, <2>6 DEF Searching, UserWalk
<1>. QED  BY <1>1, <1>2 DEF NextOrphans

-------------------------------------------------------------------------------
(* What a search has found: the orphans among it.                          *)

NamedIn(im) == DeletedOf(im, ThroughIn(im, Root, Outside))

\* What has been listed are orphans, each once, of those that the inode walk has
\* been past; all of these are listed or marked; and what is marked is below what
\* is listed.
Sifted(im, td, d, sb) ==
    /\ Elems(d) \subseteq OrphansIn(im) /\ Distinct(d) /\ Elems(d) \cap td = {}
    /\ OrphansIn(im) \subseteq td \cup sb \cup Elems(d)
    /\ MarkedBelow(im, Elems(d), sb)

\* What a search has, in terms of where it is: the list it needs is complete or
\* being made, by this walk or by one that has come first; the walk that marks is
\* below what is listed.
Finding(im, l, a, fs, sv, rv, td, d, sb) ==
    /\ a \in {"inodes", "marking"} => Got(l) = NamedIn(im) /\ Sifted(im, td, d, sb)
    /\ a = "marking" => \A k \in 1..Len(fs) : fs[k].dir \in ReachedIn(im, Elems(d))
    /\ a = "loading" => l # Null \/ (sv = TRUE /\ rv # "STOP")

\* A result that is right.
RightFor(im, d) ==
    /\ Elems(d) \subseteq OrphansIn(im) /\ Distinct(d)
    /\ NoCyclesIn(im) => OrphansIn(im) \subseteq ReachedIn(im, Elems(d))

AllFinding ==
    \A t \in Threads :
        Finding(img, list, at[t], frames[t], save[t], retval[t], todo[t], dir[t], subdirs[t])

FInv ==
    NeverRefused /\ img \notin OutOfMemory =>
        AllFinding /\ (orphan_dir # Null => RightFor(img, orphan_dir))

LEMMA ElemsAppend ==
    ASSUME NEW d \in Seq(Inodes), NEW a \in Inodes
    PROVE  /\ Append(d, a) \in Seq(Inodes)
           /\ Elems(Append(d, a)) = Elems(d) \cup {a}
           /\ Distinct(d) /\ a \notin Elems(d) => Distinct(Append(d, a))
<1>. DEFINE e == Append(d, a)
            n == Len(d)
<1>1. /\ e \in Seq(Inodes) /\ Len(e) = n + 1 /\ n \in Nat
      /\ e[n + 1] = a /\ \A k \in 1..n : e[k] = d[k]
  OBVIOUS
<1>. HIDE DEF e
<1>2. Elems(d) = {d[k] : k \in 1..n} /\ Elems(e) = {e[k] : k \in 1..(n + 1)}
  BY <1>1 DEF Elems
<1>. HIDE DEF n
<1>3. /\ \A k \in 1..(n + 1) : k \in 1..n \/ k = n + 1
      /\ \A k \in 1..n : k \in 1..(n + 1) /\ k # n + 1
      /\ n + 1 \in 1..(n + 1)
  BY <1>1
<1>4. Elems(e) = Elems(d) \cup {a}
  BY <1>1, <1>2, <1>3
<1>5. ASSUME Distinct(d), a \notin Elems(d)  PROVE Distinct(e)
  <2>1. \A j, k \in 1..n : d[j] = d[k] => j = k
    BY <1>5 DEF Distinct, n
  <2>2. \A k \in 1..n : d[k] # a
    BY <1>2, <1>5
  <2>3. \A j, k \in 1..(n + 1) : e[j] = e[k] => j = k
    BY <1>1, <1>3, <2>1, <2>2
  <2>. QED  BY <1>1, <2>3 DEF Distinct
<1>. QED  BY <1>1, <1>4, <1>5 DEF e

LEMMA ElemsIn ==
    ASSUME NEW d \in Seq(Inodes)
    PROVE  Elems(d) \in SUBSET Inodes
BY DEF Elems

\* A search begins with nothing found.
LEMMA SiftedStart ==
    ASSUME NEW im
    PROVE  Sifted(im, UnallocatedIn(im), <<>>, {})
<1>1. Len(<<>>) = 0
  OBVIOUS
<1>2. Elems(<<>>) = {} /\ Distinct(<<>>)
  BY <1>1 DEF Elems, Distinct
<1>. QED  BY <1>2 DEF Sifted, OrphansIn, MarkedBelow

\* An inode that is skipped is no orphan or is marked.
LEMMA SiftedSkip ==
    ASSUME NEW im, NEW td, NEW d, NEW sb, Sifted(im, td, d, sb), NEW a,
           a \notin OrphansIn(im) \/ a \in sb
    PROVE  Sifted(im, td \ {a}, d, sb)
BY DEF Sifted

\* One that is added is an orphan.
LEMMA SiftedAdd ==
    ASSUME NEW im \in ImageType, NEW td, NEW d \in Seq(Inodes), NEW sb, Sifted(im, td, d, sb),
           NEW a \in td, a \in OrphansIn(im), a \in Inodes
    PROVE  Sifted(im, td \ {a}, Append(d, a), sb)
<1>1. /\ Elems(Append(d, a)) = Elems(d) \cup {a} /\ Append(d, a) \in Seq(Inodes)
      /\ Distinct(d) /\ a \notin Elems(d) => Distinct(Append(d, a))
  BY ElemsAppend
<1>2. a \notin Elems(d)
  BY DEF Sifted
<1>3. Elems(d) \in SUBSET Inodes /\ Elems(Append(d, a)) \in SUBSET Inodes
  BY <1>1, ElemsIn
<1>4. ReachedIn(im, Elems(d)) \subseteq ReachedIn(im, Elems(Append(d, a)))
  BY <1>1, <1>3, ReachedMore
<1>. QED  BY <1>1, <1>2, <1>4 DEF Sifted, MarkedBelow

\* A file that is marked is inside a directory that is reached.
LEMMA SiftedMark ==
    ASSUME NEW im, NEW td, NEW d, NEW sb, Sifted(im, td, d, sb),
           NEW e \in ReachedIn(im, Elems(d)), NEW a \in InsideOf(im, e)
    PROVE  Sifted(im, td, d, sb \cup {a})
BY DEF Sifted, MarkedBelow

\* The cleaned-up result is right.
LEMMA SiftedEnd ==
    ASSUME NEW im \in ImageType, NEW d \in Seq(Inodes), NEW sb, Sifted(im, {}, d, sb)
    PROVE  RightFor(im, DeDup(d, sb))
<1>. DEFINE r == DeDup(d, sb)
<1>1. /\ Elems(r) \subseteq Elems(d) /\ (Distinct(d) => Distinct(r)) /\ Elems(d) \ sb \subseteq Elems(r)
  BY DeDupLemma DEF Shrunk
<1>2. Elems(d) \in SUBSET Inodes
  BY ElemsIn
<1>. HIDE DEF r
<1>3. ASSUME NoCyclesIn(im)  PROVE OrphansIn(im) \subseteq ReachedIn(im, Elems(r))
  <2>1. Elems(d) \cup sb \subseteq ReachedIn(im, Elems(r))
    BY <1>1, <1>2, <1>3, NoneLost DEF Sifted
  <2>. QED  BY <2>1 DEF Sifted
<1>4. RightFor(im, r)
  BY <1>1, <1>3 DEF Sifted, RightFor
<1>. QED  BY <1>4 DEF r

\* A list that is complete, or empty for want of names, stays so.
LEMMA GotStays ==
    ASSUME NEW im, im = img, img' = img, Got(list) = NamedIn(im), NamesInv', NeverRefused',
           list # Null => list' = list
    PROVE  Got(list') = NamedIn(im)
<1>1. ListIsNamed'
  BY DEF NamesInv, ListInv
<1>2. CASE list' = Null
  BY <1>2 DEF Got
<1>3. CASE list' # Null
  <2>1. list' = NamedIn(im)
    BY <1>1, <1>3 DEF ListIsNamed, NeverRefused, Named, NamedIn
  <2>. QED  BY <1>3, <2>1 DEF Got
<1>. QED  BY <1>2, <1>3

LEMMA FindingOthers ==
    ASSUME WInv, TInv, NamesInv, NamesInv', NeverRefused', AllFinding,
           orphan_dir # Null => RightFor(img, orphan_dir),
           NEW t \in Threads, OpenOrphans(t) \/ Searching(t) \/ UserWalk(t),
           orphan_dir' = orphan_dir \/ RightFor(img, orphan_dir'),
           Finding(img, list', at'[t], frames'[t], save'[t], retval'[t], todo'[t], dir'[t], subdirs'[t])
    PROVE  FInv'
<1>1. Alone(t) /\ img' = img /\ WalkPart(t)
  BY AloneLemma, ThreadStep, ThreadMoves DEF TInv, Moves
<1>2. list # Null => list' = list
  BY <1>1, WalkPartSteps, SetOnce DEF WInv
<1>3. \A u \in Threads \ {t} : frames'[u] = frames[u] /\ save'[u] = save[u] /\ retval'[u] = retval[u]
  BY <1>1, WalkOthers
<1>4. Got(list) = NamedIn(img) => Got(list') = NamedIn(img)
  BY <1>1, <1>2, GotStays
<1>5. ASSUME NEW u \in Threads
      PROVE  Finding(img, list', at'[u], frames'[u], save'[u], retval'[u], todo'[u], dir'[u], subdirs'[u])
  <2>1. CASE u = t
    BY <2>1
  <2>2. CASE u # t
    <3>1. Finding(img, list, at[u], frames[u], save[u], retval[u], todo[u], dir[u], subdirs[u])
      BY DEF AllFinding
    <3>2. Finding(img, list', at[u], frames[u], save[u], retval[u], todo[u], dir[u], subdirs[u])
      BY <1>2, <1>4, <3>1 DEF Finding
    <3>. QED  BY <1>1, <1>3, <2>2, <3>2 DEF Alone
  <2>. QED  BY <2>1, <2>2
<1>. QED  BY <1>1, <1>5 DEF FInv, AllFinding

\* A walk that makes the list has its flag set all the way, with no want of
\* memory and $OrphanFiles kept out of.
LEMMA LoadStepLemma ==
    ASSUME WInv, NInv, img \notin OutOfMemory, NEW t \in Threads, Walks(t), save[t] = TRUE, retval[t] # "STOP"
    PROVE  save'[t] = TRUE /\ retval'[t] # "STOP"
<1>. USE DEF WInv, IInv, Functions, Collecting
<1>1. ASSUME NEW c \in AfterAdd(t)  PROVE c.save = TRUE
  <2>1. CASE Deleted(Entry(t))
    <3>1. c = [save |-> TRUE,
               list |-> (IF collected[t] = Null THEN {} ELSE collected[t]) \cup {Entry(t).addr}]
      BY <2>1 DEF AfterAdd
    <3>. QED  BY <3>1
  <2>2. CASE ~Deleted(Entry(t))
    <3>1. c = [save |-> save[t], list |-> collected[t]]
      BY <2>2 DEF AfterAdd
    <3>. QED  BY <3>1
  <2>. QED  BY <2>1, <2>2
<1>2. CASE PassBy(t)
  BY <1>1, <1>2 DEF PassBy
<1>3. CASE Descend(t)
  <2>1. Entry(t).addr # Orphan
    <3>1. pc[t] = "walking" /\ Enters(t)
      BY <1>3 DEF Descend, Goes, AtEntry
    <3>. QED  BY <3>1 DEF Enters, Recurses, KeepsOut
  <2>2. PICK c \in AfterAdd(t) : save' = [save EXCEPT ![t] = c.save /\ Entry(t).addr # Orphan]
    BY <1>3 DEF Descend
  <2>3. retval' = retval
    BY <1>3 DEF Descend
  <2>. QED  BY <1>1, <2>1, <2>2, <2>3
<1>4. CASE Leave(t)
  <2>1. CASE Len(frames[t]) = 1
    BY <1>4, <2>1 DEF Leave, Returns
  <2>2. CASE Len(frames[t]) # 1
    <3>1. pc[t] = "walking" /\ Back(t)
      BY <1>4, <2>2 DEF Leave, AtEnd
    <3>2. frames[t] \in Seq(FrameType) /\ frames[t] # <<>>
      BY <3>1, ThreadLemma DEF InStep
    <3>3. Len(frames[t]) \in 1..Len(frames[t])
      BY <3>2
    <3>4. Here(t).dir # Orphan
      BY <2>2, <3>3 DEF NInv, KeepsOff, Here, Top
    <3>. QED  BY <3>1, <3>4 DEF Back
  <2>. QED  BY <2>1, <2>2
<1>. QED  BY <1>2, <1>3, <1>4 DEF Walks

\* With the walk at its end the file system has the list, or there is nothing to
\* be listed.
LEMMA LoadEndLemma ==
    ASSUME WInv, NamesInv, NeverRefused, NEW t \in Threads, Finish(t), save[t] = TRUE,
           retval[t] \notin {"STOP", "ERROR"}
    PROVE  Got(list') = NamedIn(img)
<1>1. pc[t] = "walked" /\ retval[t] = "CONT"
  BY DEF Finish, WInv, IInv, Collecting
<1>2. CASE list # Null
  <2>1. list' = list
    BY <1>2 DEF Finish
  <2>. QED  BY <1>2, <2>1 DEF NamesInv, ListInv, ListIsNamed, NeverRefused, Named, NamedIn, Got
<1>3. CASE list = Null
  <2>1. list' = collected[t]
    BY <1>1, <1>3 DEF Finish
  <2>2. Well(t)
    BY <1>1 DEF Well, Going, NeverRefused
  <2>3. frames[t] = <<>> /\ img \in ImageType
    BY <1>1, ThreadLemma DEF WInv
  <2>4. Collects(img, <<>>, TRUE, Got(collected[t]))
    BY <2>2, <2>3 DEF NamesInv, ListInv, AllListing, ListingOf
  <2>. QED  BY <2>1, <2>3, <2>4, CollectsAll DEF NamedIn
<1>. QED  BY <1>2, <1>3

\* The walk that marks goes on below what is listed.
LEMMA MarkStepLemma ==
    ASSUME WInv, KInv, NEW t \in Threads, Walking(t), NEW S \in SUBSET Inodes,
           \A k \in 1..Len(frames[t]) : frames[t][k].dir \in ReachedIn(img, S)
    PROVE  \A k \in 1..Len(frames'[t]) : frames'[t][k].dir \in ReachedIn(img, S)
<1>. DEFINE fs == frames[t]
            gs == frames'[t]
            R == ReachedIn(img, S)
<1>1. fs \in Seq(FrameType) /\ Len(fs) \in Nat /\ img \in ImageType
  <2>1. fs \in Seq(FrameType) /\ img \in ImageType
    BY ImagesAssumption DEF WInv, IInv, Functions
  <2>. QED  BY <2>1
<1>2. R \subseteq Inodes /\ DownClosed(img, R)
  BY <1>1, ReachedLemma
<1>3. /\ IInv'
      /\ gs \in Seq(FrameType)
  BY WalkingLemma DEF WInv, IInv, Functions
<1>4. Len(gs) \in Nat
  BY <1>3
<1>5. ASSUME Descend(t)  PROVE Entry(t).addr \in R
  <2>1. AtEntry(t) /\ Enters(t) /\ IInv
    BY <1>5 DEF Descend, Goes, WInv
  <2>2. /\ Here(t) = fs[Len(fs)] /\ Len(fs) \in 1..Len(fs)
        /\ ~Entry(t).dot => Entry(t).addr \in InsideOf(img, Here(t).dir)
    BY <2>1, EntryInside
  <2>3. ~Entry(t).dot
    BY <2>1 DEF Enters, Recurses
  <2>. QED  BY <1>2, <2>2, <2>3 DEF DownClosed
<1>. HIDE DEF R
<1>6. NoCall(fs, gs) \/ \E d \in Inodes : Call(fs, gs, d) /\ Descend(t) /\ d = Entry(t).addr
  BY WalkingCalls
<1>. HIDE DEF fs, gs
<1>7. CASE NoCall(fs, gs)
  <2>1. Len(gs) <= Len(fs) /\ \A k \in 1..Len(gs) : gs[k].dir = fs[k].dir
    BY <1>7 DEF NoCall
  <2>2. \A k \in 1..Len(gs) : k \in 1..Len(fs)
    BY <1>1, <1>4, <2>1
  <2>3. \A k \in 1..Len(gs) : gs[k].dir \in R
    BY <2>1, <2>2 DEF fs, R
  <2>. QED  BY <2>3 DEF gs, R
<1>8. ASSUME NEW d \in R, Call(fs, gs, d)
      PROVE  \A k \in 1..Len(gs) : gs[k].dir \in R
  <2>1. Len(gs) = Len(fs) + 1 /\ gs[Len(gs)].dir = d /\ \A k \in 1..Len(fs) : gs[k] = fs[k]
    BY <1>8 DEF Call
  <2>2. \A k \in 1..Len(gs) : k \in 1..Len(fs) \/ k = Len(gs)
    BY <1>1, <1>4, <2>1
  <2>. QED  BY <2>1, <2>2 DEF fs, R
<1>. QED  BY <1>5, <1>6, <1>7, <1>8 DEF gs, R

\* An inode that is none of the list's, nor marked, is an orphan.
LEMMA UnknownIsOrphan ==
    ASSUME NEW a \in Inodes, NEW t, TInv, t \in Threads, a \in todo[t],
           Got(list) = NamedIn(img), a \notin img.unloadable, ~Known(t, a)
    PROVE  a \in OrphansIn(img) /\ a \notin subdirs[t]
<1>1. a \in UnallocatedIn(img)
  BY DEF TInv, Typed
<1>2. a \notin Got(list)
  BY DEF Known, Got
<1>. QED  BY <1>1, <1>2 DEF OrphansIn, NamedIn, Known

LEMMA FoundThread ==
    ASSUME WInv, KInv, TInv, NInv, NamesInv, WInv', NamesInv', FInv,
           NEW t \in Threads, OpenOrphans(t) \/ Searching(t) \/ UserWalk(t)
    PROVE  FInv'
<1>0. img' = img
  BY ThreadStep
<1>. SUFFICES ASSUME NeverRefused', img \notin OutOfMemory  PROVE FInv'
  BY <1>0 DEF FInv
<1>. USE DEF shared, search, orphanVars
<1>. DEFINE Mine == Finding(img, list', at'[t], frames'[t], save'[t], retval'[t], todo'[t], dir'[t], subdirs'[t])
            Done == orphan_dir' = orphan_dir \/ RightFor(img, orphan_dir')
<1>1. /\ PerThread /\ IInv /\ at = [u \in Threads |-> at[u]]
      /\ todo[t] \in SUBSET UnallocatedIn(img) /\ subdirs[t] \in SUBSET Inodes /\ dir[t] \in Seq(Inodes)
      /\ (at[t] \in {"locked", "naming", "loading"} => dir[t] = <<>> /\ subdirs[t] = {})
      /\ img \in ImageType /\ img' = img
  BY ThreadStep, ImagesAssumption DEF TInv, Typed, WInv, IInv, SearchTypes
<1>2. WalkPart(t) /\ (list # Null => list' = list) /\ NeverRefused
  <2>1. WalkPart(t)
    BY ThreadMoves DEF Moves
  <2>. QED  BY <2>1, WalkPartSteps, SetOnce DEF WInv, NeverRefused
<1>3. /\ AllFinding /\ (orphan_dir # Null => RightFor(img, orphan_dir))
      /\ Finding(img, list, at[t], frames[t], save[t], retval[t], todo[t], dir[t], subdirs[t])
  BY <1>2 DEF FInv, AllFinding
<1>4. Got(list) = NamedIn(img) => Got(list') = NamedIn(img)
  BY <1>1, <1>2, GotStays
<1>5. Mine /\ Done => FInv'
  BY <1>3, FindingOthers
<1>6. ASSUME at'[t] \in {"out", "waiting", "locked"}  PROVE Mine
  BY <1>6 DEF Finding
<1>7. ASSUME NEW r, SearchReturns(t, r)  PROVE Mine
  BY <1>1, <1>6, <1>7, ReturnValues
<1>8. ASSUME Got(list') = NamedIn(img), ToInodes(t), at[t] \in {"locked", "naming", "loading"}, UNCHANGED <<dir, subdirs>>
      PROVE  Mine
  <2>1. at'[t] = "inodes" /\ todo'[t] = UnallocatedIn(img)
    BY <1>1, <1>8, InodesValues
  <2>2. Sifted(img, UnallocatedIn(img), <<>>, {})
    BY SiftedStart
  <2>. QED  BY <1>1, <1>8, <2>1, <2>2 DEF Finding
<1>. HIDE DEF Mine, Done
<1>9. CASE OpenOrphans(t) \/ TakeOrphanLock(t)
  <2>1. at'[t] \in {"waiting", "locked"} /\ orphan_dir' = orphan_dir
    BY <1>1, <1>9 DEF OpenOrphans, TakeOrphanLock
  <2>. QED  BY <1>5, <1>6, <2>1 DEF Done
<1>10. CASE Cached(t) \/ NameFails(t) \/ \E a \in Inodes : InodeFails(t, a)
  <2>1. (\E r : SearchReturns(t, r)) /\ orphan_dir' = orphan_dir
    BY <1>10 DEF Cached, NameFails, InodeFails
  <2>. QED  BY <1>5, <1>7, <2>1 DEF Done
<1>11. CASE ListIsThere(t)
  <2>1. /\ at[t] = "locked" /\ list # Null /\ ToInodes(t)
        /\ UNCHANGED <<orphan_dir, dir, subdirs>>
    BY <1>11 DEF ListIsThere
  <2>2. Got(list) = NamedIn(img)
    BY <1>2, <2>1 DEF NamesInv, ListInv, ListIsNamed, NeverRefused, Named, NamedIn, Got
  <2>. QED  BY <1>4, <1>5, <1>8, <2>1, <2>2 DEF Done
<1>24. CASE NoListYet(t)
  <2>1. at'[t] = "naming" /\ orphan_dir' = orphan_dir
    BY <1>1, <1>24 DEF NoListYet
  <2>2. Mine
    BY <2>1 DEF Mine, Finding
  <2>. QED  BY <1>5, <2>1, <2>2 DEF Done
<1>12. CASE LoadNamed(t)
  <2>1. /\ WalkFrom(t, Root, Marking) /\ at'[t] = "loading" /\ orphan_dir' = orphan_dir
    BY <1>1, <1>12 DEF LoadNamed
  <2>2. list' # Null \/ (save'[t] = TRUE /\ retval'[t] # "STOP")
    BY <1>1, <2>1 DEF WalkFrom, Marking, IInv, Collecting
  <2>3. Mine
    BY <2>1, <2>2 DEF Mine, Finding
  <2>. QED  BY <1>5, <2>1, <2>3 DEF Done
<1>13. CASE LoadStep(t)
  <2>1. at[t] = "loading" /\ Walks(t) /\ at' = at /\ orphan_dir' = orphan_dir
    BY <1>13 DEF LoadStep
  <2>2. list' # Null \/ (save'[t] = TRUE /\ retval'[t] # "STOP")
    BY <1>2, <1>3, <2>1, LoadStepLemma DEF Finding
  <2>3. Mine
    BY <2>1, <2>2 DEF Mine, Finding
  <2>. QED  BY <1>5, <2>1, <2>3 DEF Done
<1>14. CASE LoadEnds(t)
  <2>1. at[t] = "loading" /\ Finish(t) /\ orphan_dir' = orphan_dir
    BY <1>14 DEF LoadEnds
  <2>2. CASE retval[t] = "ERROR"
    <3>1. SearchReturns(t, TSK_ERR)
      BY <1>14, <2>2 DEF LoadEnds
    <3>. QED  BY <1>5, <1>7, <2>1, <3>1 DEF Done
  <2>3. CASE retval[t] # "ERROR"
    <3>1. ToInodes(t) /\ UNCHANGED <<dir, subdirs>>
      BY <1>14, <2>3 DEF LoadEnds
    <3>2. Got(list') = NamedIn(img)
      <4>1. CASE list # Null
        BY <1>2, <1>4, <4>1 DEF NamesInv, ListInv, ListIsNamed, NeverRefused, Named, NamedIn, Got
      <4>2. CASE list = Null
        BY <1>2, <1>3, <2>1, <2>3, <4>2, LoadEndLemma DEF Finding
      <4>. QED  BY <4>1, <4>2
    <3>. QED  BY <1>5, <1>8, <2>1, <3>1, <3>2 DEF Done
  <2>. QED  BY <2>2, <2>3
<1>15. ASSUME NEW a \in Inodes, SkipInode(t, a)  PROVE FInv'
  <2>1. /\ at[t] = "inodes" /\ (a \in img.unloadable \/ Known(t, a))
        /\ todo'[t] = todo[t] \ {a} /\ at' = at /\ UNCHANGED <<orphan_dir, dir, subdirs>>
    BY <1>1, <1>15 DEF SkipInode, Comes, GoesOn, PerThread
  <2>2. Got(list) = NamedIn(img) /\ Sifted(img, todo[t], dir[t], subdirs[t])
    BY <1>3, <2>1 DEF Finding
  <2>3. a \notin OrphansIn(img) \/ a \in subdirs[t]
    BY <2>1, <2>2 DEF Known, Got, OrphansIn, NamedIn
  <2>4. Sifted(img, todo[t] \ {a}, dir[t], subdirs[t])
    BY <2>2, <2>3, SiftedSkip
  <2>5. Mine
    BY <1>4, <2>1, <2>2, <2>4 DEF Mine, Finding
  <2>. QED  BY <1>5, <2>1, <2>5 DEF Done
<1>16. ASSUME NEW a \in Inodes, AddFile(t, a) \/ AddDirectory(t, a)  PROVE FInv'
  <2>1. /\ at[t] = "inodes" /\ a \in todo[t] /\ a \notin img.unloadable /\ ~Known(t, a)
        /\ todo'[t] = todo[t] \ {a} /\ dir'[t] = Append(dir[t], a)
        /\ UNCHANGED <<orphan_dir, subdirs>>
    BY <1>1, <1>16 DEF AddFile, AddDirectory, Comes, GoesOn, PerThread
  <2>2. Got(list) = NamedIn(img) /\ Sifted(img, todo[t], dir[t], subdirs[t])
    BY <1>3, <2>1 DEF Finding
  <2>3. a \in OrphansIn(img)
    BY <2>1, <2>2, UnknownIsOrphan
  <2>4. Sifted(img, todo[t] \ {a}, Append(dir[t], a), subdirs[t])
    BY <1>1, <2>1, <2>2, <2>3, SiftedAdd
  <2>5. CASE AddFile(t, a)
    <3>1. at'[t] = "inodes"
      BY <2>1, <2>5 DEF AddFile
    <3>2. Mine
      BY <1>4, <2>1, <2>2, <2>4, <3>1 DEF Mine, Finding
    <3>. QED  BY <1>5, <2>1, <3>2 DEF Done
  <2>6. CASE AddDirectory(t, a)
    <3>1. at'[t] = "marking" /\ WalkFrom(t, a, Marking) /\ pc[t] = "idle"
      BY <1>1, <2>1, <2>6 DEF AddDirectory, WInv, Between
    <3>2. frames'[t] = <<>> \/ frames'[t] = <<Frame(a, FALSE)>>
      <4>1. frames[t] = <<>>
        BY <1>1, <3>1, ThreadLemma
      <4>. QED  BY <1>1, <3>1, <4>1 DEF WalkFrom, IInv, Functions
    <3>3. \A k \in 1..Len(frames'[t]) : frames'[t][k].dir = a
      <4>1. CASE frames'[t] = <<>>
        BY <4>1
      <4>2. CASE frames'[t] = <<Frame(a, FALSE)>>
        <5>1. Len(frames'[t]) = 1 /\ frames'[t][1] = Frame(a, FALSE)
          BY <4>2
        <5>. QED  BY <5>1 DEF Frame
      <4>. QED  BY <3>2, <4>1, <4>2
    <3>4. a \in ReachedIn(img, Elems(Append(dir[t], a)))
      <4>1. Elems(Append(dir[t], a)) = Elems(dir[t]) \cup {a} /\ Elems(dir[t]) \in SUBSET Inodes
        BY <1>1, ElemsAppend, ElemsIn
      <4>. QED  BY <1>1, <4>1, ReachedLemma
    <3>5. Mine
      BY <1>4, <2>1, <2>2, <2>4, <3>1, <3>3, <3>4 DEF Mine, Finding
    <3>. QED  BY <1>5, <2>1, <3>5 DEF Done
  <2>. QED  BY <1>16, <2>5, <2>6
<1>17. ASSUME at[t] = "marking", Walking(t)
       PROVE  /\ Got(list') = NamedIn(img) /\ Sifted(img, todo[t], dir[t], subdirs[t])
              /\ \A k \in 1..Len(frames'[t]) : frames'[t][k].dir \in ReachedIn(img, Elems(dir[t]))
  <2>1. /\ Got(list) = NamedIn(img) /\ Sifted(img, todo[t], dir[t], subdirs[t])
        /\ \A k \in 1..Len(frames[t]) : frames[t][k].dir \in ReachedIn(img, Elems(dir[t]))
    BY <1>3, <1>17 DEF Finding
  <2>2. Elems(dir[t]) \in SUBSET Inodes
    BY <1>1, ElemsIn
  <2>. QED  BY <1>4, <1>17, <2>1, <2>2, MarkStepLemma
<1>18. CASE MarkStop(t)
  <2>1. at[t] = "marking" /\ Walking(t) /\ UNCHANGED <<orphan_dir, at, todo, dir, subdirs>>
    BY <1>18 DEF MarkStop, Walking
  <2>2. Mine
    BY <1>17, <2>1 DEF Mine, Finding
  <2>. QED  BY <1>5, <2>1, <2>2 DEF Done
<1>19. CASE MarkStep(t)
  <2>1. /\ at[t] = "marking" /\ Walking(t) /\ UNCHANGED <<orphan_dir, at, todo, dir>>
        /\ subdirs'[t] = IF Counts(t) THEN subdirs[t] \cup {Entry(t).addr} ELSE subdirs[t]
    BY <1>1, <1>19 DEF MarkStep, AfterMark, Walks, Walking, PerThread
  <2>2. Sifted(img, todo[t], dir[t], subdirs'[t])
    <3>1. CASE Counts(t)
      <4>1. Here(t).dir \in ReachedIn(img, Elems(dir[t])) /\ Entry(t).addr \in InsideOf(img, Here(t).dir)
        BY <1>1, <1>3, <2>1, <3>1, EntryInside DEF Counts, Finding
      <4>. QED  BY <1>17, <2>1, <3>1, <4>1, SiftedMark
    <3>2. CASE ~Counts(t)
      BY <1>17, <2>1, <3>2
    <3>. QED  BY <3>1, <3>2
  <2>3. Mine
    BY <1>17, <2>1, <2>2 DEF Mine, Finding
  <2>. QED  BY <1>5, <2>1, <2>3 DEF Done
<1>20. CASE MarkEnds(t)
  <2>1. at[t] = "marking" /\ Walking(t) /\ orphan_dir' = orphan_dir
    BY <1>20 DEF MarkEnds, Walking
  <2>2. CASE SearchReturns(t, TSK_ERR)
    BY <1>5, <1>7, <2>1, <2>2 DEF Done
  <2>3. CASE at' = [at EXCEPT ![t] = "inodes"] /\ UNCHANGED <<todo, dir, subdirs>>
    <3>1. at'[t] = "inodes"
      BY <1>1, <2>3
    <3>2. Mine
      BY <1>17, <2>1, <2>3, <3>1 DEF Mine, Finding
    <3>. QED  BY <1>5, <2>1, <3>2 DEF Done
  <2>. QED  BY <1>20, <2>2, <2>3 DEF MarkEnds
<1>21. CASE Keep(t)
  <2>1. /\ at[t] = "inodes" /\ todo[t] = {} /\ orphan_dir' = DeDup(dir[t], subdirs[t])
        /\ SearchReturns(t, Result(t))
    BY <1>21 DEF Keep, Seen, Result
  <2>2. RightFor(img, orphan_dir')
    BY <1>1, <1>3, <2>1, SiftedEnd DEF Finding
  <2>. QED  BY <1>5, <1>7, <2>1, <2>2 DEF Done
<1>22. CASE KeepFails(t)
  BY <1>22 DEF KeepFails
<1>23. CASE UserWalk(t)
  <2>1. at'[t] = "out" /\ orphan_dir' = orphan_dir
    BY <1>23 DEF UserWalk
  <2>. QED  BY <1>5, <1>6, <2>1 DEF Done
<1>. QED
  BY <1>9, <1>10, <1>11, <1>12, <1>13, <1>14, <1>15, <1>16, <1>18, <1>19, <1>20, <1>21, <1>22, <1>23,
     <1>24
  DEF Searching

LEMMA NextFInv ==
    /\ WInv /\ KInv /\ TInv /\ NInv /\ NamesInv /\ WInv' /\ NamesInv' /\ FInv
    /\ [NextOrphans]_allVars
    => FInv'
<1>. SUFFICES ASSUME WInv, KInv, TInv, NInv, NamesInv, WInv', NamesInv', FInv,
                     [NextOrphans]_allVars
              PROVE  FInv'
  OBVIOUS
<1>1. CASE UNCHANGED allVars
  BY <1>1 DEF allVars, orphanVars, search, shared, vars, local, FInv, NeverRefused, AllFinding
<1>. QED  BY <1>1, FoundThread DEF NextOrphans

LEMMA InitFInv == InitOrphans => FInv
<1>. SUFFICES ASSUME InitOrphans  PROVE FInv
  OBVIOUS
<1>1. \A t \in Threads : at[t] = "out"
  BY DEF InitOrphans
<1>. QED  BY <1>1 DEF InitOrphans, FInv, AllFinding, Finding

\* No walk comes to a directory of $OrphanFiles but at its start.
THEOREM OffInvariance == OrphansSpec => [](TInv /\ NInv)
<1>1. InitOrphans => NInv
  <2>1. \A t \in Threads : InitOrphans => Len(frames[t]) = 0
    BY DEF InitOrphans, Init
  <2>. QED  BY <2>1 DEF InitOrphans, NInv, KeepsOff
<1>. QED
  BY <1>1, InitTInv, NextTInv, NextNInv, WalkInvariance, ParentsInvariance, PTL DEF OrphansSpec

\* What searches find is right at every step, as long as memory lasts.
THEOREM FindingInvariance == OrphansSpec => []FInv
BY InitFInv, NextFInv, OffInvariance, WalkInvariance, ParentsInvariance, NamesInvariance, PTL
DEF OrphansSpec

\* What has been answered is what is kept.
LEMMA AnswersAreRight ==
    ASSUME SInv, FInv, NeverRefused, img \notin OutOfMemory, NEW t \in Threads, Answered(t), TInv
    PROVE  RightFor(img, answer[t]) /\ answer[t] \in Seq(Inodes) /\ Listed(t) = Elems(answer[t])
<1>1. answer[t] = orphan_dir /\ answer[t] # Null /\ answer[t] \in Seq(Inodes)
  BY DEF SInv, SearchesAgree, Answered, TInv, Typed
<1>2. DOMAIN answer[t] = 1..Len(answer[t])
  BY <1>1
<1>. QED  BY <1>1, <1>2 DEF FInv, Listed, Elems

\* $OrphanFiles lists no file but unallocated ones that no name leads to, and
\* none twice, whatever other threads walk and search meanwhile, and in whatever
\* order the inodes and directories come, as long as no callback has ever
\* answered ERROR and memory does not give out.
THEOREM OnlyOrphans == OrphansSpec => [](NeverRefused => OnlyOrphansAreListed)
<1>1. SInv /\ TInv /\ FInv => (NeverRefused => OnlyOrphansAreListed)
  <2>. SUFFICES ASSUME SInv, TInv, FInv, NeverRefused, NEW t \in Threads, Answered(t), img \notin OutOfMemory
                PROVE  /\ Listed(t) \subseteq TrueOrphans
                       /\ \A j, k \in DOMAIN answer[t] : answer[t][j] = answer[t][k] => j = k
    BY DEF OnlyOrphansAreListed
  <2>1. RightFor(img, answer[t]) /\ answer[t] \in Seq(Inodes) /\ Listed(t) = Elems(answer[t])
    BY AnswersAreRight
  <2>2. DOMAIN answer[t] = 1..Len(answer[t])
    BY <2>1
  <2>. QED  BY <2>1, <2>2, OfImage DEF RightFor, Distinct
<1>. QED  BY <1>1, SearchInvariance, OffInvariance, FindingInvariance, PTL

\* No orphan is lost: each is in $OrphanFiles or below a directory in it,
\* wherever the marking of a directory was stopped and whatever the clean-up
\* took out, in file systems in which no directory contains one it is in, as long
\* as memory lasts.
THEOREM NoOrphanIsLost == OrphansSpec /\ NoCycles => [](NeverRefused => EveryOrphanIsReached)
<1>1. SInv /\ TInv /\ FInv /\ NoCycles => (NeverRefused => EveryOrphanIsReached)
  <2>. SUFFICES ASSUME SInv, TInv, FInv, NoCycles, NeverRefused, NEW t \in Threads, Answered(t),
                       img \notin OutOfMemory
                PROVE  TrueOrphans \subseteq Reached(Listed(t))
    BY DEF EveryOrphanIsReached
  <2>1. RightFor(img, answer[t]) /\ Listed(t) = Elems(answer[t])
    BY AnswersAreRight
  <2>. QED  BY <2>1, OfImage DEF RightFor
<1>2. WInv /\ [NextOrphans]_allVars /\ NoCycles => NoCycles'
  <2>. SUFFICES ASSUME WInv, [NextOrphans]_allVars, NoCycles  PROVE NoCycles'
    OBVIOUS
  <2>1. img' = img
    <3>1. CASE UNCHANGED allVars
      BY <3>1 DEF allVars, vars
    <3>. QED  BY <3>1, ThreadStep DEF NextOrphans
  <2>2. NoCycles <=> NoCyclesIn(img)
    BY OfImage
  <2>3. NoCycles' <=> NoCyclesIn(img')
    BY <2>1 DEF NoCycles, NoCyclesIn, Contents, InsideOf, CanOpen
  <2>. QED  BY <2>1, <2>2, <2>3
<1>. QED
  BY <1>1, <1>2, WalkInvariance, SearchInvariance, OffInvariance, FindingInvariance, PTL DEF OrphansSpec

-------------------------------------------------------------------------------
(* What is known of the parents of FAT directories is right.               *)

ListedIn(im, d, a) == \E i \in DOMAIN im.names[d] : im.names[d][i].addr = a

RightParent(im, d, a) ==
    d # Null => IF d = Orphan THEN a \in OrphansIn(im) \/ im \in OutOfMemory ELSE ListedIn(im, d, a)

RightParents(im, par) == \A a \in Inodes : RightParent(im, par[a], a)

PInv == NeverRefused /\ img \in FatImages => RightParents(img, inum2par)

\* Opening a directory keeps it right, if that is not $OrphanFiles.
LEMMA ParsedRight ==
    ASSUME NEW par, RightParents(img, par), NEW d \in Inodes, d # Orphan
    PROVE  RightParents(img, Parsed(par, d))
<1>. DEFINE Lists(a) == \E i \in DOMAIN img.names[d] :
                            IsSubdir(img.names[d][i]) /\ img.names[d][i].addr = a
<1>1. \A a : Lists(a) => ListedIn(img, d, a)
  BY DEF ListedIn
<1>2. img \in FatImages => Parsed(par, d) = [a \in Inodes |-> IF Lists(a) THEN d ELSE par[a]]
  BY DEF Parsed
<1>3. img \notin FatImages => Parsed(par, d) = par
  BY DEF Parsed
<1>. HIDE DEF Lists
<1>. QED  BY <1>1, <1>2, <1>3 DEF RightParents, RightParent

LEMMA OpensRight ==
    ASSUME WInv, WInv', NInv', img' = img, img \in FatImages, NEW t \in Threads, NEW par,
           RightParents(img, par), Opens(t, par)
    PROVE  RightParents(img', inum2par')
<1>1. CASE ~(Len(frames'[t]) > Len(frames[t]))
  BY <1>1 DEF Opens
<1>2. CASE Len(frames'[t]) > Len(frames[t])
  <2>1. inum2par' = Parsed(par, Top(frames'[t]).dir)
    BY <1>2 DEF Opens
  <2>2. CASE frames'[t] = <<>>
    <3>1. frames[t] \in Seq(FrameType)
      BY DEF WInv, IInv, Functions
    <3>2. Len(frames[t]) \in Nat
      BY <3>1
    <3>. QED  BY <1>2, <2>2, <3>2
  <2>3. CASE frames'[t] # <<>>
    <3>1. frames'[t] \in Seq(FrameType)
      BY DEF WInv, IInv, Functions
    <3>2. Len(frames'[t]) \in 1..Len(frames'[t]) /\ Top(frames'[t]) \in FrameType
      BY <2>3, <3>1 DEF Top
    <3>3. Top(frames'[t]).dir \in Inodes
      BY <3>2 DEF FrameType
    <3>4. Top(frames'[t]).dir # Orphan
      BY <3>2 DEF NInv, KeepsOff, Top
    <3>. QED  BY <2>1, <3>3, <3>4, ParsedRight
  <2>. QED  BY <2>2, <2>3
<1>. QED  BY <1>1, <1>2

LEMMA ParentThread ==
    ASSUME WInv, KInv, TInv, NInv, NamesInv, FInv, PInv, WInv', NInv', NeverRefused, img \in FatImages,
           NEW t \in Threads, OpenOrphans(t) \/ Searching(t) \/ UserWalk(t)
    PROVE  RightParents(img', inum2par')
<1>. USE DEF shared, search, orphanVars
<1>1. img' = img /\ IInv /\ inum2par \in Parents /\ RightParents(img, inum2par)
  BY ThreadStep DEF WInv, KInv, PInv
<1>2. ASSUME inum2par' = inum2par  PROVE RightParents(img', inum2par')
  BY <1>1, <1>2
<1>3. ASSUME NEW par, RightParents(img, par), Opens(t, par)  PROVE RightParents(img', inum2par')
  BY <1>1, <1>3, OpensRight
<1>4. ASSUME NEW a \in Inodes, NEW d \in Inodes, RightParent(img, d, a)
      PROVE  RightParents(img, WithParent(a, d))
  BY <1>1, <1>4 DEF WithParent, RightParents, Parents
<1>5. CASE \/ OpenOrphans(t) \/ TakeOrphanLock(t) \/ Cached(t) \/ ListIsThere(t) \/ LoadEnds(t)
           \/ NoListYet(t) \/ NameFails(t) \/ MarkStop(t) \/ MarkEnds(t) \/ Keep(t) \/ KeepFails(t)
           \/ \E a \in Inodes : SkipInode(t, a) \/ InodeFails(t, a)
  <2>1. inum2par' = inum2par
    BY <1>5 DEF OpenOrphans, TakeOrphanLock, Cached, ListIsThere, LoadEnds, MarkStop, MarkEnds,
                NoListYet, NameFails, Keep, KeepFails, SkipInode, InodeFails
  <2>. QED  BY <1>2, <2>1
<1>6. CASE LoadNamed(t) \/ LoadStep(t) \/ UserWalk(t)
  <2>1. Opens(t, inum2par)
    BY <1>6 DEF LoadNamed, LoadStep, UserWalk
  <2>. QED  BY <1>1, <1>3, <2>1
<1>7. ASSUME NEW a \in Inodes, AddFile(t, a) \/ AddDirectory(t, a)
      PROVE  RightParents(img', inum2par')
  <2>1. at[t] = "inodes" /\ a \in todo[t] /\ a \notin img.unloadable /\ ~Known(t, a)
    BY <1>7 DEF AddFile, AddDirectory, Comes
  <2>2. img \notin OutOfMemory => Got(list) = NamedIn(img)
    BY <2>1 DEF FInv, AllFinding, Finding
  <2>3. a \in OrphansIn(img) \/ img \in OutOfMemory
    BY <2>1, <2>2, UnknownIsOrphan
  <2>4. RightParent(img, Orphan, a)
    BY <2>3 DEF RightParent
  <2>5. RightParents(img, WithParent(a, Orphan))
    BY <1>4, <2>4, AddressesAssumption
  <2>6. inum2par' = WithParent(a, Orphan) \/ Opens(t, WithParent(a, Orphan))
    BY <1>7 DEF AddFile, AddDirectory
  <2>. QED  BY <1>1, <1>3, <2>5, <2>6
<1>8. CASE MarkStep(t)
  <2>. DEFINE par == IF Counts(t) /\ img.meta[Entry(t).addr].type = "dir"
                     THEN WithParent(Entry(t).addr, Here(t).dir) ELSE inum2par
  <2>1. Opens(t, par)
    BY <1>8 DEF MarkStep
  <2>2. RightParents(img, par)
    <3>1. CASE AtEntry(t)
      <4>1. /\ Top(frames[t]).dir \in Inodes /\ frames[t] \in Seq(FrameType) /\ frames[t] # <<>>
            /\ Top(frames[t]).i \in DOMAIN img.names[Top(frames[t]).dir]
            /\ Entry(t) = img.names[Top(frames[t]).dir][Top(frames[t]).i]
            /\ Entry(t).addr \in Inodes
        BY <1>1, <3>1, AtLemma
      <4>2. Top(frames[t]).dir # Orphan
        <5>1. Len(frames[t]) \in 1..Len(frames[t])
          BY <4>1
        <5>. QED  BY <5>1 DEF NInv, KeepsOff, Top
      <4>3. RightParent(img, Here(t).dir, Entry(t).addr)
        BY <4>1, <4>2 DEF RightParent, ListedIn, Here
      <4>4. RightParents(img, WithParent(Entry(t).addr, Here(t).dir))
        BY <1>4, <4>1, <4>3 DEF Here
      <4>. QED  BY <1>1, <4>4
    <3>2. CASE ~AtEntry(t)
      BY <1>1, <3>2 DEF Counts
    <3>. QED  BY <3>1, <3>2
  <2>. HIDE DEF par
  <2>. QED  BY <1>3, <2>1, <2>2
<1>. QED  BY <1>5, <1>6, <1>7, <1>8 DEF Searching

LEMMA NextPInv ==
    /\ WInv /\ KInv /\ TInv /\ NInv /\ NamesInv /\ FInv /\ PInv /\ WInv' /\ NInv'
    /\ [NextOrphans]_allVars
    => PInv'
<1>. SUFFICES ASSUME WInv, KInv, TInv, NInv, NamesInv, FInv, PInv, WInv', NInv',
                     [NextOrphans]_allVars, NeverRefused', img' \in FatImages
              PROVE  RightParents(img', inum2par')
  BY DEF PInv
<1>1. CASE UNCHANGED allVars
  BY <1>1 DEF allVars, vars, PInv, NeverRefused
<1>2. ASSUME NEW t \in Threads, OpenOrphans(t) \/ Searching(t) \/ UserWalk(t)
      PROVE  RightParents(img', inum2par')
  <2>1. img' = img /\ WalkSteps
    BY <1>2, ThreadStep, ThreadMoves, WalkPartSteps DEF Moves
  <2>2. NeverRefused
    BY <2>1, SetOnce DEF WInv, NeverRefused
  <2>. QED  BY <1>2, <2>1, <2>2, ParentThread
<1>. QED  BY <1>1, <1>2 DEF NextOrphans

\* A search and a walk from the root know the parent of every FAT directory they
\* open before they do, and what is known of a directory is right: it is listed
\* in its parent, or it is, as long as memory lasts, an orphan.
THEOREM RightParentsAreKnown == OrphansSpec => [](NeverRefused => ParentsAreKnown)
<1>1. InitOrphans => PInv
  <2>. SUFFICES ASSUME InitOrphans  PROVE PInv
    OBVIOUS
  <2>1. \A a \in Inodes : inum2par[a] = Null
    BY DEF InitOrphans
  <2>. QED  BY <2>1 DEF PInv, RightParents, RightParent
<1>2. OpenedAreKnown /\ PInv => (NeverRefused => ParentsAreKnown)
  <2>. SUFFICES ASSUME OpenedAreKnown, PInv, NeverRefused, img \in FatImages, NEW a \in Inodes
                PROVE  CASE inum2par[a] = Null -> TRUE
                         [] inum2par[a] = Orphan -> a \in TrueOrphans \/ img \in OutOfMemory
                         [] OTHER -> \E i \in DOMAIN img.names[inum2par[a]] :
                                         img.names[inum2par[a]][i].addr = a
    BY DEF ParentsAreKnown
  <2>1. RightParent(img, inum2par[a], a) /\ Orphan # Null
    BY NullAssumption, AddressesAssumption DEF PInv, RightParents
  <2>. QED  BY <2>1, OfImage DEF RightParent, ListedIn
<1>. QED
  BY <1>1, <1>2, NextPInv, OffInvariance, WalkInvariance, ParentsInvariance, NamesInvariance,
     FindingInvariance, ParentsFirst, PTL DEF OrphansSpec

===============================================================================
