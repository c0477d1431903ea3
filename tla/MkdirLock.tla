----------------------------- MODULE MkdirLock -----------------------------
(***************************************************************************)
(* io/mkdir_lock.py: an advisory lock that is a directory.                 *)
(*                                                                         *)
(* One action per file-system call of acquire_mkdir_lock and               *)
(* release_mkdir_lock, so that other processes run between the stat that   *)
(* judges a lock stale and the rmdir that reclaims it.  The directory      *)
(* carries no owner; creator is a history variable that remembers whose    *)
(* mkdir made it.  Its age is one bit: older than stale_after or not.      *)
(* Definitions named Faulty... are plausible bugs that the runs' mutants   *)
(* put in the place of the definition they precede.                        *)
(***************************************************************************)
CONSTANTS
  Process, Nobody,
  MayCrash

ASSUME LockAssumption ==
  Nobody \notin Process /\ MayCrash \in BOOLEAN

VARIABLES
  dir,       \* does lock_path exist?
  old,       \* is its mtime older than stale_after?
  creator,   \* the process whose mkdir made it
  reclaims,  \* is stale_after given?  Every caller of one lock passes the same
  pc         \* where each process is

vars == <<dir, old, creator, reclaims, pc>>

Place == {"idle", "trying", "reclaiming", "holding", "timed_out", "crashed"}

TypeOK ==
  /\ dir \in BOOLEAN /\ old \in BOOLEAN /\ reclaims \in BOOLEAN
  /\ creator \in Process \cup {Nobody}
  /\ pc \in [Process -> Place]

Init ==
  /\ dir = FALSE /\ old = FALSE /\ creator = Nobody /\ reclaims \in BOOLEAN
  /\ pc = [p \in Process |-> "idle"]

Goto(p, place) == pc' = [pc EXCEPT ![p] = place]

Call(p) == pc[p] = "idle" /\ Goto(p, "trying") /\ UNCHANGED <<dir, old, creator, reclaims>>

\* mkdir(exist_ok=True)
FaultyMkdir(p) ==
  /\ pc[p] = "trying"
  /\ dir' = TRUE /\ old' = FALSE /\ creator' = p
  /\ Goto(p, "holding")
  /\ UNCHANGED reclaims

Mkdir(p) ==
  /\ pc[p] = "trying" /\ ~ dir
  /\ dir' = TRUE /\ old' = FALSE /\ creator' = p
  /\ Goto(p, "holding")
  /\ UNCHANGED reclaims

\* the age compared the wrong way round
FaultyJudgeStale(p) ==
  /\ pc[p] = "trying" /\ dir /\ reclaims /\ ~ old
  /\ Goto(p, "reclaiming")
  /\ UNCHANGED <<dir, old, creator, reclaims>>

\* _lock_should_be_reclaimed answers TRUE; what it saw may be gone at the rmdir.
JudgeStale(p) ==
  /\ pc[p] = "trying" /\ dir /\ reclaims /\ old
  /\ Goto(p, "reclaiming")
  /\ UNCHANGED <<dir, old, creator, reclaims>>

\* Removing a directory that is already gone is suppressed.
RemoveDir == dir' = FALSE /\ old' = FALSE /\ creator' = Nobody /\ UNCHANGED reclaims

Reclaim(p) == pc[p] = "reclaiming" /\ RemoveDir /\ Goto(p, "trying")

\* proceeds without the lock
FaultyTimeout(p) ==
  /\ pc[p] = "trying" /\ dir /\ ~ (reclaims /\ old)
  /\ Goto(p, "holding")
  /\ UNCHANGED <<dir, old, creator, reclaims>>

Timeout(p) ==
  /\ pc[p] = "trying" /\ dir /\ ~ (reclaims /\ old)
  /\ Goto(p, "timed_out")
  /\ UNCHANGED <<dir, old, creator, reclaims>>

Release(p) == pc[p] = "holding" /\ RemoveDir /\ Goto(p, "idle")

\* The caller of a lock that timed out decides; here it may try again later.
Retry(p) == pc[p] = "timed_out" /\ Goto(p, "idle") /\ UNCHANGED <<dir, old, creator, reclaims>>

Crash(p) ==
  /\ MayCrash /\ pc[p] \in {"trying", "reclaiming", "holding"}
  /\ Goto(p, "crashed")
  /\ UNCHANGED <<dir, old, creator, reclaims>>

Restart(p) == pc[p] = "crashed" /\ Goto(p, "idle") /\ UNCHANGED <<dir, old, creator, reclaims>>

\* stale_after exceeds every critical section, as the module asks of its callers,
\* so only the directory of a process that left it behind grows old.
Age ==
  /\ dir /\ ~ old
  /\ creator \in Process => pc[creator] # "holding"
  /\ old' = TRUE
  /\ UNCHANGED <<dir, creator, reclaims, pc>>

Next ==
  \/ \E p \in Process :
       \/ Call(p) \/ Mkdir(p) \/ JudgeStale(p) \/ Reclaim(p) \/ Timeout(p)
       \/ Release(p) \/ Retry(p) \/ Crash(p) \/ Restart(p)
  \/ Age

Spec == Init /\ [][Next]_vars

\* A contender keeps polling, a holder leaves its critical section or crashes, and time
\* passes.  Nothing forces a process to ask for the lock, or one that crashed to return.
Fairness ==
  /\ \A p \in Process :
       /\ WF_vars(Mkdir(p) \/ JudgeStale(p) \/ Reclaim(p) \/ Timeout(p))
       /\ WF_vars(Release(p))
  /\ WF_vars(Age)

FairSpec == Spec /\ Fairness

-----------------------------------------------------------------------------
Holders == {p \in Process : pc[p] = "holding"}

(* A lock that is never taken from anybody: no staleness rule is given, or   *)
(* nobody leaves a directory behind to apply it to.                          *)
NeverReclaimed == ~ (reclaims /\ MayCrash)

(* At most one process is inside the critical section ("Exclusive").         *)
Exclusive == NeverReclaimed => \A p, q \in Holders : p = q

(* Nobody works on after losing the directory: a holder's directory exists   *)
(* and is the one it made, so a release removes its own lock and no other.   *)
HoldersOwn == \A p \in Holders : dir /\ creator = p
HolderOwnsDirectory == NeverReclaimed => HoldersOwn

(* Without reclaim the directory is a mutex: every step is a step of the     *)
(* abstract lock or none.                                                    *)
Lock == INSTANCE Mutex WITH holder <- creator
ImplementsMutex ==
  /\ NeverReclaimed => Lock!Init
  /\ [][NeverReclaimed => Lock!Next]_(Lock!vars)

(* A contender that meets a dead holder's lock past its age gets rid of it:  *)
(* it neither polls for ever nor gives up at the deadline first.             *)
Abandoned == dir /\ Holders = {}
StaleLockRecovers ==
  \A p \in Process :
    (reclaims /\ Abandoned /\ old /\ pc[p] = "trying") ~> (~ Abandoned \/ pc[p] = "crashed")
=============================================================================
