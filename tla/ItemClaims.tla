----------------------------- MODULE ItemClaims -----------------------------
(***************************************************************************)
(* io/claimed_items.py: workers claim the items of a mapped step, each in  *)
(* a registry file of its own, under the step's directory lock             *)
(* (MkdirLock).  The registries are read one file at a time, looked up     *)
(* first and opened after; a dispatcher deletes the registry of a worker   *)
(* that is gone without taking the lock.                                   *)
(***************************************************************************)
EXTENDS MkdirLock, FiniteSets

CONSTANTS Item, NoItem

ASSUME ItemAssumption == NoItem \notin Item

VARIABLES
  registry,   \* the items of each worker's registry; {} when it has no file
  claim,      \* the call of claim_item each worker is in
  raced       \* history: two contenders held a stale verdict at once

claimVars == <<vars, registry, claim, raced>>

\* Its argument and local variables: mine is current_items, todo the workers whose registry
\* is still to be read, open one whose file was found and not read yet, and taken whether
\* the item was in one of those read.
Claim ==
  [item : Item \cup {NoItem}, phase : {"own", "scan", "done"}, mine : SUBSET Item,
   todo : SUBSET Process, open : Process \cup {Nobody}, taken : BOOLEAN]

At(i, f) ==
  [item |-> i, phase |-> f, mine |-> {}, todo |-> {}, open |-> Nobody, taken |-> FALSE]
Fresh(i) == At(i, "own")
\* Returning, raising and crashing forget them.
Returned == At(NoItem, "done")

ClaimTypeOK ==
  /\ TypeOK
  /\ registry \in [Process -> SUBSET Item]
  /\ claim \in [Process -> Claim]
  /\ raced \in BOOLEAN

ClaimInit ==
  /\ Init
  /\ registry = [p \in Process |-> {}]
  /\ claim = [p \in Process |-> Returned]
  /\ raced = FALSE

Inside(p, f) == pc[p] = "holding" /\ claim[p].phase = f

Ask(p, i) ==
  /\ Call(p)
  /\ claim' = [claim EXCEPT ![p] = Fresh(i)]
  /\ UNCHANGED <<registry, raced>>

\* read_claimed_items of the worker itself
ReadOwn(p) ==
  /\ Inside(p, "own")
  /\ claim' = [claim EXCEPT ![p] =
       IF @.item \in registry[p] THEN Returned
       ELSE [@ EXCEPT !.phase = "scan", !.mine = registry[p], !.todo = Process \ {p}]]
  /\ UNCHANGED <<vars, registry, raced>>

\* path.exists(): collect_claimed_items passes over a worker without a registry.
Look(p, q) ==
  /\ Inside(p, "scan") /\ claim[p].open = Nobody /\ q \in claim[p].todo
  /\ claim' = [claim EXCEPT ![p].todo = @ \ {q},
                            ![p].open = IF registry[q] = {} THEN Nobody ELSE q]
  /\ UNCHANGED <<vars, registry, raced>>

\* read_yaml_file: a file deleted since it was found raises, and the claim with it.
Read(p) ==
  /\ Inside(p, "scan") /\ claim[p].open # Nobody
  /\ LET found == registry[claim[p].open]
         seen == claim[p].taken \/ claim[p].item \in found
     IN  claim' = [claim EXCEPT ![p] =
           IF found = {} THEN Returned ELSE [@ EXCEPT !.open = Nobody, !.taken = seen]]
  /\ UNCHANGED <<vars, registry, raced>>

AllRead(p) == Inside(p, "scan") /\ claim[p].todo = {} /\ claim[p].open = Nobody

Refuse(p) ==
  /\ AllRead(p) /\ claim[p].taken
  /\ claim' = [claim EXCEPT ![p] = Returned]
  /\ UNCHANGED <<vars, registry, raced>>

\* write_claimed_items
Write(p) ==
  /\ AllRead(p) /\ ~ claim[p].taken
  /\ registry' = [registry EXCEPT ![p] = claim[p].mine \cup {claim[p].item}]
  /\ claim' = [claim EXCEPT ![p] = Returned]
  /\ UNCHANGED <<vars, raced>>

Leave(p) == Inside(p, "done") /\ Release(p) /\ UNCHANGED <<registry, claim, raced>>

\* clear_claimed_items, by a dispatcher that found the worker's job ended.
Clear(p) ==
  /\ pc[p] = "crashed" /\ registry[p] # {}
  /\ registry' = [registry EXCEPT ![p] = {}]
  /\ UNCHANGED <<vars, claim, raced>>

Judge(p) ==
  /\ JudgeStale(p)
  /\ raced' = (raced \/ \E q \in Process : pc[q] = "reclaiming")
  /\ UNCHANGED <<registry, claim>>

Contend(p) == (Mkdir(p) \/ Reclaim(p)) /\ UNCHANGED <<registry, claim, raced>>

Aborted(p) == claim' = [claim EXCEPT ![p] = Returned] /\ UNCHANGED <<registry, raced>>

GiveUp(p) == Timeout(p) /\ Aborted(p)
Die(p) == Crash(p) /\ Aborted(p)

Returns(p) == (Retry(p) \/ Restart(p)) /\ UNCHANGED <<registry, claim, raced>>

LockAges == Age /\ UNCHANGED <<registry, claim, raced>>

ClaimItem(p) ==
  \/ ReadOwn(p) \/ Read(p) \/ Refuse(p) \/ Write(p) \/ Leave(p)
  \/ \E q \in Process : Look(p, q)

ClaimNext ==
  \/ \E p \in Process :
       \/ \E i \in Item : Ask(p, i)
       \/ ClaimItem(p) \/ Clear(p) \/ Judge(p) \/ Contend(p) \/ GiveUp(p)
       \/ Die(p) \/ Returns(p)
  \/ LockAges

ClaimSpec == ClaimInit /\ [][ClaimNext]_claimVars

\* As of MkdirLock: contenders poll, whoever is inside goes on, and time passes.
ClaimFairness ==
  /\ \A p \in Process :
       /\ WF_claimVars(Contend(p) \/ Judge(p) \/ GiveUp(p))
       /\ WF_claimVars(ClaimItem(p))
  /\ WF_claimVars(LockAges)

ClaimFairSpec == ClaimSpec /\ ClaimFairness

-----------------------------------------------------------------------------
(* An item has one owner: it is in the registry of one worker at most,       *)
(* whatever crashes inside a claim, is reclaimed or deleted, unless two      *)
(* contenders judged one abandoned lock stale at the same time (claim_item). *)
OneOwner ==
  ~ raced => \A p, q \in Process : p # q => registry[p] \cap registry[q] = {}
=============================================================================
