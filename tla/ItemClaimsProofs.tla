-------------------------- MODULE ItemClaimsProofs --------------------------
(***************************************************************************)
(* The claim of an item and the directory lock it is made under, for any   *)
(* number of workers and items.  The lock is a mutex whenever no directory *)
(* is ever reclaimed: stale_after=None, or no holder crashes.  With        *)
(* crashes and reclaims an item still has one owner, until two contenders  *)
(* hold a stale verdict at the same time.                                  *)
(***************************************************************************)
EXTENDS ItemClaims, TLAPS

(* Part one, the directory lock alone.  The inductive invariant: a holder    *)
(* owns the directory; a directory that is not held was left by a crash; an  *)
(* old directory is one left behind.                                         *)
DirHasCreator == (dir <=> creator \in Process) /\ (~ dir => creator = Nobody)
LeftByCrash == dir /\ pc[creator] # "holding" => MayCrash
OldIsLeft == old => dir /\ MayCrash
NobodyReclaims == \A p \in Process : pc[p] # "reclaiming"
DirectoryInv == TypeOK /\ HoldersOwn /\ DirHasCreator /\ LeftByCrash /\ OldIsLeft /\ NobodyReclaims

(* The variables keep their types.                                           *)
THEOREM TypeCorrect == Spec => []TypeOK
<1>1. Init => TypeOK
  BY DEF Init, TypeOK, Place
<1>2. TypeOK /\ [Next]_vars => TypeOK'
  <2> SUFFICES ASSUME TypeOK, [Next]_vars PROVE TypeOK'
    OBVIOUS
  <2> QED
    BY DEF TypeOK, Place, Next, vars, Call, Mkdir, JudgeStale, Reclaim, Timeout, Release,
           Retry, Crash, Restart, Age, Goto, RemoveDir
<1> QED
  BY <1>1, <1>2, PTL DEF Spec

LEMMA DirectoryInit == Init => DirectoryInv
  BY LockAssumption DEF Init, DirectoryInv, TypeOK, Place, HoldersOwn, Holders, DirHasCreator, LeftByCrash,
     OldIsLeft, NobodyReclaims

LEMMA DirectoryStep ==
  ASSUME NeverReclaimed, DirectoryInv, [Next]_vars
  PROVE  DirectoryInv'
<1> USE LockAssumption DEF DirectoryInv, TypeOK, Place, Goto, HoldersOwn, Holders, DirHasCreator,
        LeftByCrash, OldIsLeft, NobodyReclaims
<1>1. ASSUME NEW p \in Process, Call(p) PROVE DirectoryInv'
  BY <1>1 DEF Call
<1>2. ASSUME NEW p \in Process, Mkdir(p) PROVE DirectoryInv'
  BY <1>2 DEF Mkdir
<1>3. ASSUME NEW p \in Process, JudgeStale(p) PROVE DirectoryInv'
  \* an old directory needs a crash to be left behind and reclaim to be judged
  BY <1>3 DEF JudgeStale, NeverReclaimed
<1>4. ASSUME NEW p \in Process, Reclaim(p) PROVE DirectoryInv'
  BY <1>4 DEF Reclaim
<1>5. ASSUME NEW p \in Process, Timeout(p) PROVE DirectoryInv'
  BY <1>5 DEF Timeout
<1>6. ASSUME NEW p \in Process, Release(p) PROVE DirectoryInv'
  <2>1. pc' = [pc EXCEPT ![p] = "idle"] /\ dir' = FALSE /\ old' = FALSE /\ creator' = Nobody
       /\ reclaims' = reclaims
    BY <1>6 DEF Release, RemoveDir
  <2>2. \A q \in Process : pc[q] = "holding" => q = p
    BY <1>6 DEF Release
  <2>3. HoldersOwn'
    BY <2>1, <2>2
  <2> QED
    BY <2>1, <2>3
<1>7. ASSUME NEW p \in Process, Retry(p) PROVE DirectoryInv'
  BY <1>7 DEF Retry
<1>8. ASSUME NEW p \in Process, Crash(p) PROVE DirectoryInv'
  BY <1>8 DEF Crash
<1>9. ASSUME NEW p \in Process, Restart(p) PROVE DirectoryInv'
  BY <1>9 DEF Restart
<1>10. ASSUME Age PROVE DirectoryInv'
  BY <1>10 DEF Age
<1>11. CASE UNCHANGED vars
  BY <1>11 DEF vars
<1> QED
  BY <1>1, <1>2, <1>3, <1>4, <1>5, <1>6, <1>7, <1>8, <1>9, <1>10, <1>11 DEF Next

THEOREM DirectoryInvariance == Spec => [](NeverReclaimed => DirectoryInv)
<1>1. ASSUME NeverReclaimed => DirectoryInv, [Next]_vars PROVE (NeverReclaimed => DirectoryInv)'
  <2>1. reclaims' = reclaims
    BY <1>1 DEF Next, vars, Call, Mkdir, JudgeStale, Reclaim, Timeout, Release, Retry, Crash,
                Restart, Age, RemoveDir
  <2> QED
    BY <1>1, <2>1, DirectoryStep DEF NeverReclaimed
<1> QED
  BY DirectoryInit, <1>1, PTL DEF Spec

(* At most one process is inside the critical section.                       *)
THEOREM MutualExclusion == Spec => []Exclusive
<1>1. (NeverReclaimed => DirectoryInv) => Exclusive
  BY DEF DirectoryInv, Exclusive, HoldersOwn, Holders
<1> QED
  BY <1>1, DirectoryInvariance, PTL

(* A holder's directory is there and its own until it releases it.           *)
THEOREM NoForeignRelease == Spec => []HolderOwnsDirectory
<1>1. (NeverReclaimed => DirectoryInv) => HolderOwnsDirectory
  BY DEF DirectoryInv, HolderOwnsDirectory
<1> QED
  BY <1>1, DirectoryInvariance, PTL

(* Every step is an acquire or a release of the abstract lock, or none.      *)
THEOREM LockIsMutex == Spec => ImplementsMutex
<1>1. Init => (NeverReclaimed => Lock!Init)
  BY DEF Init, Lock!Init
<1>2. ASSUME NeverReclaimed => DirectoryInv, [Next]_vars
      PROVE  [NeverReclaimed => Lock!Next]_(Lock!vars)
  <2> SUFFICES ASSUME NeverReclaimed PROVE [Lock!Next]_creator
    BY DEF Lock!vars
  <2> USE <1>2 DEF DirectoryInv, TypeOK, HoldersOwn, Holders, DirHasCreator, NobodyReclaims,
          Lock!Next, Lock!Acquire, Lock!Release
  <2>1. ASSUME NEW p \in Process, Mkdir(p) PROVE [Lock!Next]_creator
    BY <2>1 DEF Mkdir
  <2>2. ASSUME NEW p \in Process, Release(p) PROVE [Lock!Next]_creator
    BY <2>2 DEF Release, RemoveDir
  <2>3. ASSUME NEW p \in Process, Reclaim(p) PROVE [Lock!Next]_creator
    BY <2>3 DEF Reclaim
  <2>4. ASSUME NEW p \in Process,
               Call(p) \/ JudgeStale(p) \/ Timeout(p) \/ Retry(p) \/ Crash(p) \/ Restart(p)
        PROVE  [Lock!Next]_creator
    BY <2>4 DEF Call, JudgeStale, Timeout, Retry, Crash, Restart
  <2>5. CASE Age
    BY <2>5 DEF Age
  <2>6. CASE UNCHANGED vars
    BY <2>6 DEF vars
  <2> QED
    BY <2>1, <2>2, <2>3, <2>4, <2>5, <2>6 DEF Next
<1> QED
  BY <1>1, <1>2, DirectoryInvariance, PTL DEF Spec, ImplementsMutex

-----------------------------------------------------------------------------
(* Part two, claims under a lock that may be reclaimed.  The lock: a holder  *)
(* owns the directory, an old directory has no holder, and who is about to   *)
(* reclaim one is alone with its verdict.                                    *)
OldIsFree == old => dir /\ Holders = {}
VerdictStands ==
  \A p \in Process : pc[p] = "reclaiming" =>
    old /\ \A q \in Process : pc[q] = "reclaiming" => q = p
LockInv == HoldersOwn /\ OldIsFree /\ VerdictStands

(* The registries: a claim being made has seen what it has read so far.      *)
Disjoint == \A p, q \in Process : p # q => registry[p] \cap registry[q] = {}
Seen(p) ==
  /\ claim[p].mine = registry[p] /\ claim[p].item \notin registry[p]
  /\ \A q \in Process \ {p} :
       claim[p].taken \/ q \in claim[p].todo \/ q = claim[p].open
       \/ claim[p].item \notin registry[q]
ClaimsSeen == \A p \in Process : Inside(p, "scan") => Seen(p)

AskedFor == \A p \in Process : claim[p].phase # "done" => claim[p].item \in Item
ScansInside == \A p \in Process : claim[p].phase = "scan" => pc[p] = "holding"
Inv == ClaimTypeOK /\ AskedFor /\ ScansInside /\ (~ raced => LockInv /\ Disjoint /\ ClaimsSeen)

LEMMA InvInit == ClaimInit => Inv
<1> SUFFICES ASSUME ClaimInit PROVE Inv
  OBVIOUS
<1>1. Returned \in Claim /\ Returned.phase = "done"
  BY DEF Returned, At, Claim
<1>2. ClaimTypeOK /\ AskedFor /\ ScansInside
  BY <1>1, LockAssumption DEF ClaimInit, Init, ClaimTypeOK, TypeOK, Place, AskedFor, ScansInside
<1>3. LockInv
  BY DEF ClaimInit, Init, LockInv, HoldersOwn, Holders, OldIsFree, VerdictStands
<1>4. Disjoint /\ ClaimsSeen
  BY <1>1 DEF ClaimInit, Init, Disjoint, ClaimsSeen, Inside
<1> QED
  BY <1>2, <1>3, <1>4 DEF Inv

(* Looking a registry up and reading it change the local variables only.    *)
LEMMA WasRead ==
  ASSUME NEW c \in Claim, NEW b \in BOOLEAN
  PROVE  LET d == [c EXCEPT !.open = Nobody, !.taken = b]
         IN  /\ d \in Claim /\ d.todo = c.todo /\ d.open = Nobody /\ d.taken = b
             /\ d.item = c.item /\ d.phase = c.phase /\ d.mine = c.mine
  BY DEF Claim

LEMMA LookStep ==
  ASSUME ClaimTypeOK, NEW p \in Process, NEW q \in Process, Look(p, q)
  PROVE  /\ claim[p].open = Nobody
         /\ \E c \in Claim :
              /\ claim' = [claim EXCEPT ![p] = c]
              /\ c.todo = claim[p].todo \ {q}
              /\ c.open = IF registry[q] = {} THEN Nobody ELSE q
              /\ c.item = claim[p].item /\ c.phase = claim[p].phase
              /\ c.mine = claim[p].mine /\ c.taken = claim[p].taken
         /\ UNCHANGED <<vars, registry, raced>>
<1> DEFINE t == claim[p].todo \ {q}
           o == IF registry[q] = {} THEN Nobody ELSE q
           c == [claim[p] EXCEPT !.todo = t, !.open = o]
<1>1. claim[p] \in Claim
  BY DEF ClaimTypeOK
<1>2. t \in SUBSET Process /\ o \in Process \cup {Nobody}
  BY <1>1 DEF Claim
<1>3. claim' = [claim EXCEPT ![p] = c]
  BY DEF Look, ClaimTypeOK
<1> HIDE DEF t, o
<1>4. /\ c \in Claim /\ c.todo = t /\ c.open = o
      /\ c.item = claim[p].item /\ c.phase = claim[p].phase
      /\ c.mine = claim[p].mine /\ c.taken = claim[p].taken
  BY <1>1, <1>2 DEF Claim
<1> HIDE DEF c
<1> QED
  BY <1>3, <1>4 DEF Look, t, o

LEMMA ReadStep ==
  ASSUME ClaimTypeOK, NEW p \in Process, Read(p)
  PROVE  /\ \/ claim' = [claim EXCEPT ![p] = Returned]
            \/ \E c \in Claim :
                 /\ claim' = [claim EXCEPT ![p] = c]
                 /\ c.todo = claim[p].todo /\ c.open = Nobody
                 /\ c.taken = (claim[p].taken \/ claim[p].item \in registry[claim[p].open])
                 /\ c.item = claim[p].item /\ c.phase = claim[p].phase
                 /\ c.mine = claim[p].mine
         /\ UNCHANGED <<vars, registry, raced>>
<1> DEFINE b == claim[p].taken \/ claim[p].item \in registry[claim[p].open]
           c == [claim[p] EXCEPT !.open = Nobody, !.taken = b]
<1>1. claim[p] \in Claim /\ b \in BOOLEAN
  BY DEF ClaimTypeOK, Claim
<1>2. claim' = [claim EXCEPT ![p] = Returned] \/ claim' = [claim EXCEPT ![p] = c]
  <2>1. CASE registry[claim[p].open] = {}
    BY <2>1 DEF Read
  <2>2. CASE registry[claim[p].open] # {}
    BY <2>2 DEF Read
  <2> QED
    BY <2>1, <2>2
<1> HIDE DEF b
<1>3. /\ c \in Claim /\ c.todo = claim[p].todo /\ c.open = Nobody /\ c.taken = b
      /\ c.item = claim[p].item /\ c.phase = claim[p].phase /\ c.mine = claim[p].mine
  BY <1>1, WasRead
<1> HIDE DEF c
<1> QED
  BY <1>2, <1>3 DEF Read, b

(* The variables keep their types: a registry holds items only.              *)
LEMMA TypeStep ==
  ASSUME ClaimTypeOK, AskedFor, [ClaimNext]_claimVars
  PROVE  ClaimTypeOK' /\ AskedFor'
<1> USE DEF ClaimTypeOK, TypeOK, Place, Claim, Returned, Fresh, At, AskedFor, Goto, RemoveDir, vars
<1>1. ASSUME NEW p \in Process, NEW i \in Item, Ask(p, i) PROVE ClaimTypeOK' /\ AskedFor'
  BY <1>1 DEF Ask, Call
<1>2. ASSUME NEW p \in Process, ReadOwn(p) PROVE ClaimTypeOK' /\ AskedFor'
  BY <1>2 DEF ReadOwn, Inside
<1>3. ASSUME NEW p \in Process, NEW q \in Process, Look(p, q) PROVE ClaimTypeOK' /\ AskedFor'
  BY <1>3, LookStep
<1>4. ASSUME NEW p \in Process, Read(p) PROVE ClaimTypeOK' /\ AskedFor'
  <2>1. UNCHANGED <<vars, registry, raced>>
    BY <1>4, ReadStep
  <2>2. CASE claim' = [claim EXCEPT ![p] = Returned]
    BY <2>1, <2>2
  <2>3. CASE \E c \in Claim : claim' = [claim EXCEPT ![p] = c]
                               /\ c.item = claim[p].item /\ c.phase = claim[p].phase
    <3> PICK c \in Claim : claim' = [claim EXCEPT ![p] = c]
                           /\ c.item = claim[p].item /\ c.phase = claim[p].phase
      BY <2>3
    <3> HIDE DEF Claim
    <3> QED
      BY <2>1
  <2> QED
    BY <1>4, <2>2, <2>3, ReadStep
<1>5. ASSUME NEW p \in Process, Refuse(p) PROVE ClaimTypeOK' /\ AskedFor'
  BY <1>5 DEF Refuse
<1>6. ASSUME NEW p \in Process, Write(p) PROVE ClaimTypeOK' /\ AskedFor'
  BY <1>6 DEF Write, AllRead, Inside
<1>7. ASSUME NEW p \in Process, Leave(p) \/ Judge(p) \/ Contend(p) \/ Returns(p)
      PROVE  ClaimTypeOK' /\ AskedFor'
  BY <1>7 DEF Leave, Release, Judge, JudgeStale, Contend, Mkdir, Reclaim, Returns, Retry, Restart
<1>8. ASSUME NEW p \in Process, Clear(p) PROVE ClaimTypeOK' /\ AskedFor'
  BY <1>8 DEF Clear
<1>9. ASSUME NEW p \in Process, GiveUp(p) \/ Die(p) PROVE ClaimTypeOK' /\ AskedFor'
  <2>1. claim' = [claim EXCEPT ![p] = Returned] /\ UNCHANGED <<registry, raced>>
    BY <1>9 DEF GiveUp, Die, Aborted
  <2>2. TypeOK'
    BY <1>9 DEF GiveUp, Die, Timeout, Crash
  <2> QED
    BY <2>1, <2>2
<1>10. CASE LockAges
  BY <1>10 DEF LockAges, Age
<1>11. CASE UNCHANGED claimVars
  BY <1>11 DEF claimVars
<1> QED
  BY <1>1, <1>2, <1>3, <1>4, <1>5, <1>6, <1>7, <1>8, <1>9, <1>10, <1>11 DEF ClaimNext, ClaimItem

LEMMA ScanStep ==
  ASSUME ClaimTypeOK, ScansInside, [ClaimNext]_claimVars
  PROVE  ScansInside'
<1> USE DEF ClaimTypeOK, TypeOK, ScansInside, Inside, Returned, Fresh, At, Goto, vars
<1>1. ASSUME NEW p \in Process, NEW i \in Item, Ask(p, i) PROVE ScansInside'
  BY <1>1 DEF Ask, Call
<1>2. ASSUME NEW p \in Process, ReadOwn(p) PROVE ScansInside'
  BY <1>2 DEF ReadOwn
<1>3. ASSUME NEW p \in Process, NEW q \in Process, Look(p, q) PROVE ScansInside'
  BY <1>3, LookStep
<1>4. ASSUME NEW p \in Process, Read(p) PROVE ScansInside'
  BY <1>4, ReadStep
<1>5. ASSUME NEW p \in Process, Refuse(p) \/ Write(p) \/ Clear(p) PROVE ScansInside'
  BY <1>5 DEF Refuse, Write, Clear
<1>6. ASSUME NEW p \in Process, Leave(p) \/ Judge(p) \/ Contend(p) \/ Returns(p)
      PROVE  ScansInside'
  BY <1>6 DEF Leave, Release, Judge, JudgeStale, Contend, Mkdir, Reclaim, Returns, Retry, Restart
<1>7. ASSUME NEW p \in Process, GiveUp(p) \/ Die(p) PROVE ScansInside'
  BY <1>7 DEF GiveUp, Die, Timeout, Crash, Aborted
<1>8. CASE LockAges \/ UNCHANGED claimVars
  BY <1>8 DEF LockAges, Age, claimVars
<1> QED
  BY <1>1, <1>2, <1>3, <1>4, <1>5, <1>6, <1>7, <1>8 DEF ClaimNext, ClaimItem

(* Only Judge can bring a second verdict, and it then records the race.      *)
LEMMA LockStep ==
  ASSUME ClaimTypeOK, LockInv, [ClaimNext]_claimVars, ~ raced'
  PROVE  LockInv'
<1> USE LockAssumption DEF ClaimTypeOK, TypeOK, Place, LockInv, HoldersOwn, Holders, OldIsFree,
        VerdictStands, Goto, RemoveDir, vars
<1>1. ASSUME NEW p \in Process, Call(p) \/ Timeout(p) \/ Retry(p) \/ Crash(p) \/ Restart(p)
      PROVE  LockInv'
  BY <1>1 DEF Call, Timeout, Retry, Crash, Restart
<1>2. ASSUME NEW p \in Process, Mkdir(p) PROVE LockInv'
  BY <1>2 DEF Mkdir
<1>3. ASSUME NEW p \in Process, Judge(p) PROVE LockInv'
  BY <1>3 DEF Judge, JudgeStale
<1>4. ASSUME NEW p \in Process, Reclaim(p) PROVE LockInv'
  BY <1>4 DEF Reclaim
<1>5. ASSUME NEW p \in Process, Release(p) PROVE LockInv'
  BY <1>5 DEF Release
<1>6. ASSUME Age PROVE LockInv'
  BY <1>6 DEF Age
<1>7. ASSUME UNCHANGED vars PROVE LockInv'
  BY <1>7
<1> QED
  BY <1>1, <1>2, <1>3, <1>4, <1>5, <1>6, <1>7
  DEF ClaimNext, claimVars, ClaimItem, Ask, ReadOwn, Look, Read, Refuse, Write, Leave, Clear,
      Contend, GiveUp, Die, Returns, LockAges

(* A write is safe because its worker is alone inside and has seen the       *)
(* registries of all others without the item.                                *)
LEMMA RegistryStep ==
  ASSUME Inv, [ClaimNext]_claimVars, ~ raced, ClaimTypeOK'
  PROVE  Disjoint' /\ ClaimsSeen'
<1> USE LockAssumption DEF Inv, ClaimTypeOK, ScansInside, TypeOK, Claim, LockInv, HoldersOwn, Holders, Disjoint,
        ClaimsSeen, Seen, Inside, Returned, Fresh, At, Goto, vars
<1>1. ASSUME NEW p \in Process, NEW i \in Item, Ask(p, i) PROVE Disjoint' /\ ClaimsSeen'
  BY <1>1 DEF Ask, Call
<1>2. ASSUME NEW p \in Process, ReadOwn(p) PROVE Disjoint' /\ ClaimsSeen'
  BY <1>2 DEF ReadOwn
<1>3. ASSUME NEW p \in Process, NEW q \in Process, Look(p, q) PROVE Disjoint' /\ ClaimsSeen'
  BY <1>3, LookStep
<1>4. ASSUME NEW p \in Process, Read(p) PROVE Disjoint' /\ ClaimsSeen'
  BY <1>4, ReadStep
<1>5. ASSUME NEW p \in Process, Refuse(p) PROVE Disjoint' /\ ClaimsSeen'
  BY <1>5 DEF Refuse
<1>6. ASSUME NEW p \in Process, Write(p) PROVE Disjoint' /\ ClaimsSeen'
  <2>1. \A q \in Process \ {p} : claim[p].item \notin registry[q] /\ ~ Inside(q, "scan")
    BY <1>6 DEF Write, AllRead
  <2> QED
    BY <1>6, <2>1 DEF Write, AllRead
<1>7. ASSUME NEW p \in Process, Leave(p) \/ Judge(p) \/ Returns(p) PROVE Disjoint' /\ ClaimsSeen'
  BY <1>7 DEF Leave, Release, Judge, JudgeStale, Returns, Retry, Restart
<1>8. ASSUME NEW p \in Process, Contend(p) PROVE Disjoint' /\ ClaimsSeen'
  BY <1>8 DEF Contend, Mkdir, Reclaim
<1>9. ASSUME NEW p \in Process, Clear(p) PROVE Disjoint' /\ ClaimsSeen'
  BY <1>9 DEF Clear
<1>10. ASSUME NEW p \in Process, GiveUp(p) \/ Die(p) PROVE Disjoint' /\ ClaimsSeen'
  BY <1>10 DEF GiveUp, Die, Timeout, Crash, Aborted
<1>11. CASE LockAges
  BY <1>11 DEF LockAges, Age
<1>12. CASE UNCHANGED claimVars
  BY <1>12 DEF claimVars
<1> QED
  BY <1>1, <1>2, <1>3, <1>4, <1>5, <1>6, <1>7, <1>8, <1>9, <1>10, <1>11, <1>12
  DEF ClaimNext, ClaimItem

THEOREM Invariance == ClaimSpec => []Inv
<1>1. ASSUME Inv, [ClaimNext]_claimVars PROVE Inv'
  <2>1. raced => raced'
    BY <1>1 DEF ClaimNext, claimVars, ClaimItem, Ask, ReadOwn, Look, Read, Refuse, Write, Leave,
                Clear, Judge, Contend, GiveUp, Die, Aborted, Returns, LockAges
  <2> QED
    BY <1>1, <2>1, TypeStep, ScanStep, LockStep, RegistryStep DEF Inv
<1> QED
  BY InvInit, <1>1, PTL DEF ClaimSpec

(* No item is in the registries of two workers, unless two contenders judged *)
(* one abandoned lock stale at the same time (claim_item).                   *)
THEOREM ClaimsExclusive == ClaimSpec => []OneOwner
<1>1. Inv => OneOwner
  BY DEF Inv, OneOwner, Disjoint
<1> QED
  BY <1>1, Invariance, PTL
=============================================================================
