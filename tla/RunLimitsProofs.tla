--------------------------- MODULE RunLimitsProofs ---------------------------
(***************************************************************************)
(* What a run may use: agents on its host, and dollars.                    *)
(*                                                                         *)
(* The host (HostAdmission), for any number of pools, launches and slots:  *)
(* until two verdicts on one slot overlap, every child that a slot stands  *)
(* for has a slot of its own. The invariant says who may be changing a     *)
(* slot and what it then holds.                                            *)
(*                                                                         *)
(* The dollars (SpendCap), for any plans, rosters, prices, caps and limits *)
(* and any number of launches and faults: what a run spends over its life  *)
(* is bounded by its cap, and exactly so while priced steps dispatch one   *)
(* at a time. First the laws of sums over finite sets, by the least set of *)
(* tasks that would break one; then an invariant about who owes what.      *)
(***************************************************************************)
EXTENDS HostAdmission, SpendCap, FiniteSetTheorems, WellFoundedInduction, TLAPS

-----------------------------------------------------------------------------
(* The slots of a host *)

\* Who does something to a directory that it relies on; "remaking" relies on nothing.
Claiming == {"unlinking", "removing", "writing", "freeing", "freed"}

Gone(d) == Home[d.lease] \notin up /\ ~ (d.recorded /\ child[d.lease])

\* Where a launch is and whether its pool lives, whatever was raced.
Placed ==
  /\ \A l \in Launch :
       /\ pc[l] \in Changing \cup {"held", "launched"} => at[l] \in Slot
       /\ pc[l] \in Mid \cup Holding \cup {"waiting"} => Home[l] \in up
       /\ child[l] /\ l \notin loose => pc[l] \in {"launched", "running", "dead"}
       /\ pc[l] = "running" /\ at[l] \notin Slot => l \in loose
  /\ \A s \in Slot : ~ slot[s].made => slot[s].lease = Nobody

\* What the slot of a launch holds at each of its steps.
Stands(l) ==
  LET d == slot[at[l]] IN
  /\ pc[l] \in Holding \cup {"freeing"} /\ at[l] \in Slot => d.lease = l
  /\ pc[l] = "running" /\ at[l] \in Slot => d.recorded
  /\ pc[l] \in Claiming => d.made
  /\ pc[l] \in {"removing", "writing", "freed"} => d.lease = Nobody
  /\ pc[l] \in {"writing", "freed"} => d.age = 0
  /\ pc[l] = "unlinking" /\ d.lease # Nobody => Gone(d)

Alone ==
  \A l, m \in Launch :
    l # m /\ pc[l] \in Claiming /\ pc[m] \in Claiming => at[l] # at[m]

\* The recorded child of a pool that died is the lease of some slot.
Survives ==
  \A l \in Launch : pc[l] = "dead" /\ child[l] /\ l \notin loose =>
    \E s \in Slot : slot[s].lease = l /\ slot[s].recorded

Solid == Alone /\ Survives /\ \A l \in Launch : Stands(l)

Inv == TypeOK /\ Placed /\ (~ raced => Solid)

-----------------------------------------------------------------------------
\* The directories that the actions write.
LEMMA Directories ==
  /\ None \in Directory /\ ~ None.made /\ None.lease = Nobody
  /\ Empty \in Directory /\ Empty.made /\ Empty.lease = Nobody /\ Empty.age = 0
  /\ \A l \in Launch :
       /\ Fresh(l) \in Directory /\ Fresh(l).made /\ Fresh(l).lease = l
       /\ Recorded(l) \in Directory /\ Recorded(l).made
       /\ Recorded(l).lease = l /\ Recorded(l).recorded
BY HostAssumption DEF Directory, UnrecordedGrace, None, Empty, Fresh, Recorded, Made

\* The types survive every step.
LEMMA TypeStep ==
  ASSUME TypeOK, Placed, [Next]_vars
  PROVE  TypeOK'
<1>. USE HostAssumption DEF UnrecordedGrace, EmptyGrace
<1>1. ASSUME NEW l \in Launch, Mkdir(l) PROVE TypeOK'
  BY <1>1, Directories
     DEF Mkdir, InSlot, Here, SetSlot, Goto, Placed, TypeOK, Slot, Mid, Changing, Holding,
         Over
<1>2. ASSUME NEW l \in Launch, Pass(l) PROVE TypeOK'
  BY <1>2 DEF Pass, InSlot, Here, Placed, TypeOK, Slot, Mid, Changing, Holding, Over
<1>3. ASSUME NEW l \in Launch, Judge(l) PROVE TypeOK'
  BY <1>3 DEF Judge, InSlot, Here, Goto, Placed, TypeOK, Slot, Mid, Changing, Holding, Over
<1>4. ASSUME NEW l \in Launch, Unlink(l) PROVE TypeOK'
  <2>1. at[l] \in Slot
    BY <1>4 DEF Unlink, Placed, Changing
  <2>2. slot' \in [Slot -> Directory]
    BY <1>4, <2>1, Directories DEF Unlink, SetSlot, Here, TypeOK
  <2>3. pc' \in [Launch -> Mid \cup Holding \cup Over \cup {"idle", "waiting"}]
    BY <1>4 DEF Unlink, Here, SetSlot, Goto, TypeOK, Mid, Changing, Holding, Over
  <2>4. at' \in [Launch -> 0..Limit]
    BY <1>4, <2>1 DEF Unlink, Here, SetSlot, Goto, TypeOK, Slot
  <2>. QED BY <1>4, <2>1, <2>2, <2>3, <2>4 DEF Unlink, Here, SetSlot, Goto, TypeOK
<1>5. ASSUME NEW l \in Launch, Rmdir(l) PROVE TypeOK'
  <2>1. at[l] \in Slot
    BY <1>5 DEF Rmdir, Placed, Changing
  <2>2. slot' \in [Slot -> Directory]
    BY <1>5, <2>1, Directories DEF Rmdir, SetSlot, Here, TypeOK
  <2>3. pc' \in [Launch -> Mid \cup Holding \cup Over \cup {"idle", "waiting"}]
    BY <1>5 DEF Rmdir, Here, SetSlot, Goto, GotoSlot, TypeOK, Mid, Changing, Holding, Over
  <2>4. at' \in [Launch -> 0..Limit]
    <3>1. Limit \in 0..Limit
      OBVIOUS
    <3>. QED BY <1>5, <3>1 DEF Rmdir, GotoSlot, TypeOK
  <2>. QED BY <1>5, <2>1, <2>2, <2>3, <2>4 DEF Rmdir, Here, SetSlot, Goto, GotoSlot, TypeOK
<1>6. ASSUME NEW l \in Launch, RmdirFails(l) PROVE TypeOK'
  <2>1. pc' \in [Launch -> Mid \cup Holding \cup Over \cup {"idle", "waiting"}]
    BY <1>6 DEF RmdirFails, Here, Goto, GotoSlot, TypeOK, Mid, Changing, Holding, Over
  <2>2. at' \in [Launch -> 0..Limit]
    BY SMTT(20), <1>6 DEF RmdirFails, Here, Goto, GotoSlot, TypeOK, Slot, Placed, Changing
  <2>. QED BY <1>6, <2>1, <2>2 DEF RmdirFails, Here, Goto, GotoSlot, TypeOK
<1>7. ASSUME NEW l \in Launch, Remake(l) PROVE TypeOK'
  <2>1. at[l] \in Slot
    BY <1>7 DEF Remake, Placed, Changing
  <2>2. slot' \in [Slot -> Directory]
    BY <1>7, <2>1, Directories DEF Remake, SetSlot, TypeOK
  <2>3. pc' \in [Launch -> Mid \cup Holding \cup Over \cup {"idle", "waiting"}]
    BY <1>7 DEF Remake, Here, SetSlot, Goto, GotoSlot, TypeOK, Mid, Changing, Holding, Over
  <2>4. at' \in [Launch -> 0..Limit]
    <3>1. at[l] + 1 \in 0..Limit
      BY <2>1 DEF Slot
    <3>. QED BY <1>7, <3>1 DEF Remake, GotoSlot, TypeOK
  <2>. QED BY <1>7, <2>1, <2>2, <2>3, <2>4 DEF Remake, Here, SetSlot, Goto, GotoSlot, TypeOK
<1>8. ASSUME NEW l \in Launch, WriteLease(l) PROVE TypeOK'
  BY <1>8, Directories
     DEF WriteLease, SetSlot, Goto, Placed, TypeOK, Slot, Mid, Changing, Holding, Over
<1>9. ASSUME NEW l \in Launch, Sleep(l) PROVE TypeOK'
  BY <1>9 DEF Sleep, Scanned, GotoSlot, Goto, Placed, TypeOK, Slot, Mid, Changing, Holding, Over
<1>10. ASSUME NEW l \in Launch, Scan(l) PROVE TypeOK'
  BY <1>10 DEF Scan, Goto, GotoSlot, Turn, Placed, TypeOK, Slot, Mid, Changing, Holding, Over
<1>11. ASSUME NEW l \in Launch, Start(l) PROVE TypeOK'
  BY <1>11 DEF Start, Goto, Turn, Placed, TypeOK, Slot, Mid, Changing, Holding, Over
<1>12. ASSUME NEW l \in Launch, Record(l) PROVE TypeOK'
  <2>1. slot' \in [Slot -> Directory]
    BY <1>12, Directories DEF Record, SetSlot, Owns, TypeOK
  <2>2. pc' \in [Launch -> Mid \cup Holding \cup Over \cup {"idle", "waiting"}]
    BY <1>12 DEF Record, Goto, Turn, Here, SetSlot, Owns, TypeOK, Mid, Changing, Holding, Over
  <2>3. at' \in [Launch -> 0..Limit]
    BY <1>12 DEF Record, Goto, Turn, Here, SetSlot, Owns, TypeOK, Slot
  <2>. QED BY <1>12, <2>1, <2>2, <2>3 DEF Record, Goto, Turn, Here, SetSlot, Owns, TypeOK
<1>13. ASSUME NEW l \in Launch, Reap(l) PROVE TypeOK'
  BY <1>13 DEF Reap, Goto, Turn, Placed, TypeOK, Slot, Mid, Changing, Holding, Over
<1>14. ASSUME NEW l \in Launch, Release(l) PROVE TypeOK'
  <2>1. Limit \in 0..Limit
    OBVIOUS
  <2>2. at' \in [Launch -> 0..Limit]
    BY <1>14, <2>1 DEF Release, GotoSlot, TypeOK
  <2>3. pc' \in [Launch -> Mid \cup Holding \cup Over \cup {"idle", "waiting"}]
    BY <1>14 DEF Release, Goto, GotoSlot, TypeOK, Mid, Changing, Over
  <2>. QED BY <1>14, <2>2, <2>3 DEF Release, TypeOK
<1>15. ASSUME NEW l \in Launch, WriteFails(l) PROVE TypeOK'
  <2>1. at[l] \in Slot
    BY <1>15 DEF WriteFails, Placed, Changing
  <2>2. slot' \in [Slot -> Directory]
    BY <1>15, <2>1, Directories DEF WriteFails, SetSlot, TypeOK
  <2>3. pc' \in [Launch -> Mid \cup Holding \cup Over \cup {"idle", "waiting"}]
    BY <1>15
       DEF WriteFails, SetSlot, Denied, GotoSlot, Goto, TypeOK, Mid, Changing, Holding,
           Over
  <2>4. at' \in [Launch -> 0..Limit]
    BY <1>15 DEF WriteFails, Denied, GotoSlot, TypeOK
  <2>. QED BY <1>15, <2>1, <2>2, <2>3, <2>4 DEF WriteFails, SetSlot, Denied, GotoSlot, Goto, TypeOK
<1>16. ASSUME NEW l \in Launch, TimeOut(l) PROVE TypeOK'
  <2>1. pc' \in [Launch -> Mid \cup Holding \cup Over \cup {"idle", "waiting"}]
    BY <1>16 DEF TimeOut, Scanned, Denied, GotoSlot, Goto, TypeOK, Mid, Changing, Holding, Over
  <2>2. at' \in [Launch -> 0..Limit]
    BY <1>16 DEF TimeOut, Scanned, Denied, GotoSlot, Goto, TypeOK, Slot
  <2>. QED BY <1>16, <2>1, <2>2 DEF TimeOut, Scanned, Denied, GotoSlot, Goto, TypeOK
<1>17. ASSUME NEW l \in Launch, Stop(l) PROVE TypeOK'
  BY <1>17 DEF Stop, Goto, Turn, Placed, TypeOK, Slot, Mid, Changing, Holding, Over
<1>18. ASSUME NEW l \in Launch, KillFails(l) PROVE TypeOK'
  BY <1>18 DEF KillFails, Goto, Turn, Placed, TypeOK, Slot, Mid, Changing, Holding, Over
<1>19. ASSUME NEW l \in Launch, Cancel(l) PROVE TypeOK'
  BY <1>19 DEF Cancel, Goto, GotoSlot, Turn, Placed, TypeOK, Slot, Mid, Changing, Holding, Over
<1>20. ASSUME NEW l \in Launch, ReleaseFails(l) PROVE TypeOK'
  BY <1>20 DEF ReleaseFails, Goto, GotoSlot, Placed, TypeOK, Slot, Mid, Changing, Holding, Over
<1>21. ASSUME NEW l \in Launch, ChildExits(l) PROVE TypeOK'
  BY <1>21 DEF ChildExits, Placed, TypeOK, Slot, Mid, Changing, Holding, Over
<1>22. ASSUME NEW p \in Pool, Die(p) PROVE TypeOK'
  BY <1>22 DEF Die, Placed, TypeOK, Slot, Mid, Changing, Holding, Over
<1>23. ASSUME NEW s \in Slot, Age(s) PROVE TypeOK'
  <2>1. [slot[s] EXCEPT !.age = slot[s].age + 1] \in Directory
    BY <1>23 DEF Age, TypeOK, Directory
  <2>. QED BY <1>23, <2>1 DEF Age, TypeOK
<1>24. CASE UNCHANGED vars
  BY <1>24 DEF vars, Placed, TypeOK, Slot, Mid, Changing, Holding, Over
<1> QED
  BY <1>1, <1>2, <1>3, <1>4, <1>5, <1>6, <1>7, <1>8, <1>9, <1>10, <1>11, <1>12, <1>13, <1>14,
     <1>15, <1>16, <1>17, <1>18, <1>19, <1>20, <1>21, <1>22, <1>23, <1>24
     DEF Next, InCall, Between, Fault

\* So do the places of the launches.
LEMMA PlacedStep ==
  ASSUME TypeOK, Placed, [Next]_vars
  PROVE  Placed'
<1>. USE HostAssumption DEF UnrecordedGrace, EmptyGrace
<1>1. ASSUME NEW l \in Launch, Mkdir(l) PROVE Placed'
  BY <1>1, Directories
     DEF Mkdir, InSlot, Here, SetSlot, Goto, Placed, TypeOK, Slot, Mid, Changing, Holding,
         Over
<1>2. ASSUME NEW l \in Launch, Pass(l) PROVE Placed'
  BY <1>2 DEF Pass, InSlot, Here, Placed, TypeOK, Slot, Mid, Changing, Holding, Over
<1>3. ASSUME NEW l \in Launch, Judge(l) PROVE Placed'
  BY <1>3 DEF Judge, InSlot, Here, Goto, Placed, TypeOK, Slot, Mid, Changing, Holding, Over
<1>4. ASSUME NEW l \in Launch, Unlink(l) PROVE Placed'
  <2>1. at[l] \in Slot /\ slot \in [Slot -> Directory]
    BY <1>4 DEF Unlink, Placed, Changing, TypeOK
  <2>2. \A s \in Slot : slot'[s].made \/ slot'[s].lease = Nobody
    BY <1>4, <2>1, Directories DEF Unlink, SetSlot, Placed
  <2>3. \A m \in Launch \ {l} : pc'[m] = pc[m]
    BY <1>4 DEF Unlink, Goto, TypeOK
  <2>4. pc'[l] \in {"freed", "removing"} /\ Home[l] \in up /\ (child[l] => l \in loose)
    BY <1>4 DEF Unlink, Goto, TypeOK, Placed, Mid, Changing
  <2>. QED BY <1>4, <2>1, <2>2, <2>3, <2>4 DEF Unlink, Placed, Mid, Changing, Holding
<1>5. ASSUME NEW l \in Launch, Rmdir(l) PROVE Placed'
  BY <1>5, Directories
     DEF Rmdir, Here, SetSlot, Goto, GotoSlot, Placed, TypeOK, Slot, Mid, Changing,
         Holding, Over
<1>6. ASSUME NEW l \in Launch, RmdirFails(l) PROVE Placed'
  BY <1>6, Directories
     DEF RmdirFails, Here, Goto, GotoSlot, Placed, TypeOK, Slot, Mid, Changing, Holding,
         Over
<1>7. ASSUME NEW l \in Launch, Remake(l) PROVE Placed'
  <2>1. at[l] \in Slot /\ slot \in [Slot -> Directory] /\ Home[l] \in up
    BY <1>7 DEF Remake, Placed, Mid, Changing, TypeOK
  <2>2. \A s \in Slot : slot'[s].made \/ slot'[s].lease = Nobody
    BY <1>7, <2>1, Directories DEF Remake, SetSlot, Placed
  <2>3. \A m \in Launch \ {l} : pc'[m] = pc[m] /\ at'[m] = at[m]
    BY <1>7 DEF Remake, Goto, GotoSlot, TypeOK
  <2>4. /\ pc'[l] \in {"scanning", "writing"} /\ (child[l] => l \in loose)
        /\ pc'[l] = "writing" => at'[l] = at[l]
    BY <1>7 DEF Remake, Goto, GotoSlot, TypeOK, Placed
  <2>. QED BY <1>7, <2>1, <2>2, <2>3, <2>4 DEF Remake, Placed, Mid, Changing, Holding
<1>8. ASSUME NEW l \in Launch, WriteLease(l) PROVE Placed'
  BY <1>8, Directories
     DEF WriteLease, SetSlot, Goto, Placed, TypeOK, Slot, Mid, Changing, Holding, Over
<1>9. ASSUME NEW l \in Launch, Sleep(l) PROVE Placed'
  BY <1>9 DEF Sleep, Scanned, GotoSlot, Goto, Placed, TypeOK, Slot, Mid, Changing, Holding, Over
<1>10. ASSUME NEW l \in Launch, Scan(l) PROVE Placed'
  BY <1>10 DEF Scan, Goto, GotoSlot, Turn, Placed, TypeOK, Slot, Mid, Changing, Holding, Over
<1>11. ASSUME NEW l \in Launch, Start(l) PROVE Placed'
  BY <1>11 DEF Start, Goto, Turn, Placed, TypeOK, Slot, Mid, Changing, Holding, Over
<1>12. ASSUME NEW l \in Launch, Record(l) PROVE Placed'
  BY <1>12, Directories
     DEF Record, Goto, Turn, Here, SetSlot, Owns, Placed, TypeOK, Slot, Mid, Changing,
         Holding, Over
<1>13. ASSUME NEW l \in Launch, Reap(l) PROVE Placed'
  BY <1>13 DEF Reap, Goto, Turn, Placed, TypeOK, Slot, Mid, Changing, Holding, Over
<1>14. ASSUME NEW l \in Launch, Release(l) PROVE Placed'
  BY <1>14
     DEF Release, Goto, GotoSlot, Turn, Owns, Here, Placed, TypeOK, Slot, Mid, Changing,
         Holding, Over
<1>15. ASSUME NEW l \in Launch, WriteFails(l) PROVE Placed'
  BY <1>15, Directories
     DEF WriteFails, SetSlot, Denied, GotoSlot, Goto, Placed, TypeOK, Slot, Mid, Changing,
         Holding, Over
<1>16. ASSUME NEW l \in Launch, TimeOut(l) PROVE Placed'
  BY <1>16
     DEF TimeOut, Scanned, Denied, GotoSlot, Goto, Placed, TypeOK, Slot, Mid, Changing,
         Holding, Over
<1>17. ASSUME NEW l \in Launch, Stop(l) PROVE Placed'
  BY <1>17 DEF Stop, Goto, Turn, Placed, TypeOK, Slot, Mid, Changing, Holding, Over
<1>18. ASSUME NEW l \in Launch, KillFails(l) PROVE Placed'
  BY <1>18 DEF KillFails, Goto, Turn, Placed, TypeOK, Slot, Mid, Changing, Holding, Over
<1>19. ASSUME NEW l \in Launch, Cancel(l) PROVE Placed'
  BY <1>19 DEF Cancel, Goto, GotoSlot, Turn, Placed, TypeOK, Slot, Mid, Changing, Holding, Over
<1>20. ASSUME NEW l \in Launch, ReleaseFails(l) PROVE Placed'
  BY <1>20 DEF ReleaseFails, Goto, GotoSlot, Placed, TypeOK, Slot, Mid, Changing, Holding, Over
<1>21. ASSUME NEW l \in Launch, ChildExits(l) PROVE Placed'
  BY <1>21 DEF ChildExits, Placed, TypeOK, Slot, Mid, Changing, Holding, Over
<1>22. ASSUME NEW p \in Pool, Die(p) PROVE Placed'
  BY <1>22 DEF Die, Placed, TypeOK, Slot, Mid, Changing, Holding, Over
<1>23. ASSUME NEW s \in Slot, Age(s) PROVE Placed'
  BY <1>23 DEF Age, Directory, Placed, TypeOK, Slot, Mid, Changing, Holding, Over
<1>24. CASE UNCHANGED vars
  BY <1>24 DEF vars, Placed, TypeOK, Slot, Mid, Changing, Holding, Over
<1> QED
  BY <1>1, <1>2, <1>3, <1>4, <1>5, <1>6, <1>7, <1>8, <1>9, <1>10, <1>11, <1>12, <1>13, <1>14,
     <1>15, <1>16, <1>17, <1>18, <1>19, <1>20, <1>21, <1>22, <1>23, <1>24
     DEF Next, InCall, Between, Fault

\* While no two verdicts have overlapped, so does who stands where.
LEMMA SolidStep ==
  ASSUME TypeOK, TypeOK', Placed, Placed', Solid, ~ raced', [Next]_vars
  PROVE  Solid'
<1>. USE HostAssumption DEF TypeOK, Placed, Directory
<1>. USE Solid DEF Solid
<1>1. ASSUME NEW l \in Launch, Mkdir(l) PROVE Solid'
  <2>1. Alone'
    <3>1. \A m \in Launch : pc[m] \in Claiming => at[m] # at[l]
      BY <1>1 DEF Mkdir, InSlot, Here, Stands
    <3>2. at' = at /\ \A m \in Launch : pc'[m] \in Claiming => m = l \/ pc[m] \in Claiming
      BY <1>1 DEF Mkdir, Goto, Claiming
    <3>. QED BY <3>1, <3>2 DEF Alone
  <2>2. Survives'
    BY <1>1, Directories
       DEF Mkdir, InSlot, Here, SetSlot, Goto, Survives, Stands, Claiming, Mid, Changing,
           Holding, Over
  <2>3. ASSUME NEW m \in Launch PROVE Stands(m)'
    BY <1>1, Directories
       DEF Mkdir, InSlot, Here, SetSlot, Goto, Stands, Alone, Gone, Claiming, Mid,
           Changing, Holding, Over
  <2>. QED BY <2>1, <2>2, <2>3 DEF Solid
<1>2. ASSUME NEW l \in Launch, Pass(l) PROVE Solid'
  <2>1. Alone'
    BY <1>2 DEF Pass, InSlot, Here, Alone, Claiming, Mid, Changing, Holding, Over
  <2>2. Survives'
    BY <1>2 DEF Pass, InSlot, Here, Survives, Stands, Claiming, Mid, Changing, Holding, Over
  <2>3. ASSUME NEW m \in Launch PROVE Stands(m)'
    BY <1>2 DEF Pass, InSlot, Here, Stands, Alone, Gone, Claiming, Mid, Changing, Holding, Over
  <2>. QED BY <2>1, <2>2, <2>3 DEF Solid
<1>3. ASSUME NEW l \in Launch, Judge(l) PROVE Solid'
  <2>1. Alone'
    <3>1. ASSUME NEW m \in Launch, pc[m] \in Claiming PROVE at[m] # at[l]
      BY <1>3, <3>1 DEF Judge, InSlot, Here, Stale, EmptyGrace, Stands, Claiming, Mid, Changing
    <3>2. at' = at /\ \A m \in Launch : pc'[m] \in Claiming => m = l \/ pc[m] \in Claiming
      BY <1>3 DEF Judge, Goto, Claiming
    <3>. QED BY <3>1, <3>2 DEF Alone
  <2>2. Survives'
    BY <1>3
       DEF Judge, InSlot, Here, Goto, Survives, Stands, Claiming, Mid, Changing, Holding,
           Over
  <2>3. ASSUME NEW m \in Launch PROVE Stands(m)'
    <3>1. pc'[l] = "unlinking" /\ Here(l).made /\ (Here(l).lease # Nobody => Gone(Here(l)))
      BY <1>3 DEF Judge, InSlot, Goto, Stale, Gone
    <3>2. m # l => pc'[m] = pc[m]
      BY <1>3 DEF Judge, Goto
    <3>3. UNCHANGED <<slot, up, at, child>>
      BY <1>3 DEF Judge
    <3>. QED BY <3>1, <3>2, <3>3 DEF Stands, Here, Gone, Claiming, Holding
  <2>. QED BY <2>1, <2>2, <2>3 DEF Solid
<1>4. ASSUME NEW l \in Launch, Unlink(l) PROVE Solid'
  <2>1. Alone'
    BY <1>4 DEF Unlink, Here, SetSlot, Goto, Alone, Claiming, Mid, Changing, Holding, Over
  <2>2. Survives'
    <3>1. ASSUME NEW k \in Launch, pc[k] = "dead", child[k], slot[at[l]].lease = k
          PROVE  ~ slot[at[l]].recorded
      <4>1. CASE pc[l] = "freeing"
        BY <3>1, <4>1 DEF Stands, Changing
      <4>2. CASE pc[l] = "unlinking"
        BY <3>1, <4>2 DEF Stands, Gone
      <4>. QED BY <1>4, <4>1, <4>2 DEF Unlink
    <3>2. at[l] \in Slot /\ UNCHANGED <<child, loose>>
      BY <1>4 DEF Unlink, Changing
    <3>3. \A s \in Slot \ {at[l]} : slot'[s] = slot[s]
      BY <1>4 DEF Unlink, SetSlot
    <3>4. \A k \in Launch : pc'[k] = "dead" => pc[k] = "dead"
      BY <1>4 DEF Unlink, Goto
    <3>. QED BY <3>1, <3>2, <3>3, <3>4 DEF Survives
  <2>3. ASSUME NEW m \in Launch PROVE Stands(m)'
    BY <1>4, Directories
       DEF Unlink, Here, SetSlot, Goto, Stands, Alone, Gone, Claiming, Mid, Changing,
           Holding, Over
  <2>. QED BY <2>1, <2>2, <2>3 DEF Solid
<1>5. ASSUME NEW l \in Launch, Rmdir(l) PROVE Solid'
  <2>1. Alone'
    BY <1>5
       DEF Rmdir, Here, SetSlot, Goto, GotoSlot, Alone, Claiming, Mid, Changing, Holding,
           Over
  <2>2. Survives'
    BY <1>5, Directories
       DEF Rmdir, Here, SetSlot, Goto, GotoSlot, Survives, Stands, Claiming, Mid,
           Changing, Holding, Over
  <2>3. ASSUME NEW m \in Launch PROVE Stands(m)'
    BY <1>5, Directories
       DEF Rmdir, Here, SetSlot, Goto, GotoSlot, Stands, Alone, Gone, Claiming, Mid,
           Changing, Holding, Over
  <2>. QED BY <2>1, <2>2, <2>3 DEF Solid
<1>6. ASSUME NEW l \in Launch, RmdirFails(l) PROVE Solid'
  <2>1. Alone'
    BY <1>6 DEF RmdirFails, Here, Goto, GotoSlot, Alone, Claiming, Mid, Changing, Holding, Over
  <2>2. Survives'
    BY <1>6
       DEF RmdirFails, Here, Goto, GotoSlot, Survives, Stands, Claiming, Mid, Changing,
           Holding, Over
  <2>3. ASSUME NEW m \in Launch PROVE Stands(m)'
    BY <1>6
       DEF RmdirFails, Here, Goto, GotoSlot, Stands, Alone, Gone, Claiming, Mid, Changing,
           Holding, Over
  <2>. QED BY <2>1, <2>2, <2>3 DEF Solid
<1>7. ASSUME NEW l \in Launch, Remake(l) PROVE Solid'
  <2>1. Alone'
    <3>1. CASE Here(l).made
      BY <1>7, <3>1 DEF Remake, GotoSlot, Goto, Alone, Claiming
    <3>2. CASE ~ Here(l).made
      <4>1. \A m \in Launch : pc[m] \in Claiming => at[m] # at[l]
        BY <3>2 DEF Here, Stands
      <4>2. at' = at /\ \A m \in Launch : pc'[m] \in Claiming => m = l \/ pc[m] \in Claiming
        BY <1>7, <3>2 DEF Remake, Goto, Claiming
      <4>. QED BY <4>1, <4>2 DEF Alone
    <3>. QED BY <3>1, <3>2
  <2>2. Survives'
    <3>1. at[l] \in Slot /\ UNCHANGED <<child, loose>>
      BY <1>7 DEF Remake, Changing
    <3>2. \A s \in Slot : slot[s].lease # Nobody => slot'[s] = slot[s]
      BY <1>7, <3>1 DEF Remake, SetSlot, Here
    <3>3. \A k \in Launch : pc'[k] = "dead" => pc[k] = "dead"
      BY <1>7 DEF Remake, Goto, GotoSlot
    <3>. QED BY <3>1, <3>2, <3>3 DEF Survives
  <2>3. ASSUME NEW m \in Launch PROVE Stands(m)'
    <3>1. CASE Here(l).made
      BY <1>7, <3>1 DEF Remake, GotoSlot, Goto, Stands, Gone, Claiming, Holding
    <3>2. CASE ~ Here(l).made
      <4>1. /\ slot' = [slot EXCEPT ![at[l]] = Empty] /\ pc' = [pc EXCEPT ![l] = "writing"]
            /\ at[l] \in Slot /\ slot[at[l]].lease = Nobody /\ UNCHANGED <<at, up, child>>
        BY <1>7, <3>2 DEF Remake, SetSlot, Goto, Here, Changing
      <4>2. CASE m = l
        BY <4>1, <4>2, Directories DEF Stands, Claiming, Holding
      <4>3. CASE m # l /\ at[m] = at[l]
        BY <3>2, <4>1, <4>3, Directories DEF Here, Stands, Claiming, Holding
      <4>4. CASE m # l /\ at[m] # at[l]
        BY <4>1, <4>4 DEF Stands, Gone, Claiming, Holding, Changing
      <4>. QED BY <4>2, <4>3, <4>4
    <3>. QED BY <3>1, <3>2
  <2>. QED BY <2>1, <2>2, <2>3 DEF Solid
<1>8. ASSUME NEW l \in Launch, WriteLease(l) PROVE Solid'
  <2>1. Alone'
    BY <1>8 DEF WriteLease, SetSlot, Goto, Alone, Claiming, Mid, Changing, Holding, Over
  <2>2. Survives'
    BY <1>8, Directories
       DEF WriteLease, SetSlot, Goto, Survives, Stands, Claiming, Mid, Changing, Holding,
           Over
  <2>3. ASSUME NEW m \in Launch PROVE Stands(m)'
    BY <1>8, Directories
       DEF WriteLease, SetSlot, Goto, Stands, Alone, Gone, Claiming, Mid, Changing,
           Holding, Over
  <2>. QED BY <2>1, <2>2, <2>3 DEF Solid
<1>9. ASSUME NEW l \in Launch, Sleep(l) PROVE Solid'
  <2>1. Alone'
    BY <1>9 DEF Sleep, Scanned, GotoSlot, Goto, Alone, Claiming, Mid, Changing, Holding, Over
  <2>2. Survives'
    BY <1>9 DEF Sleep, Scanned, GotoSlot, Goto, Survives, Stands, Claiming, Mid, Changing, Holding, Over
  <2>3. ASSUME NEW m \in Launch PROVE Stands(m)'
    BY <1>9 DEF Sleep, Scanned, GotoSlot, Goto, Stands, Gone, Claiming, Holding, Changing, Mid
  <2>. QED BY <2>1, <2>2, <2>3 DEF Solid
<1>10. ASSUME NEW l \in Launch, Scan(l) PROVE Solid'
  <2>1. Alone'
    BY <1>10 DEF Scan, Goto, GotoSlot, Turn, Alone, Claiming, Mid, Changing, Holding, Over
  <2>2. Survives'
    BY <1>10
       DEF Scan, Goto, GotoSlot, Turn, Survives, Stands, Claiming, Mid, Changing, Holding,
           Over
  <2>3. ASSUME NEW m \in Launch PROVE Stands(m)'
    BY <1>10
       DEF Scan, Goto, GotoSlot, Turn, Stands, Alone, Gone, Claiming, Mid, Changing,
           Holding, Over
  <2>. QED BY <2>1, <2>2, <2>3 DEF Solid
<1>11. ASSUME NEW l \in Launch, Start(l) PROVE Solid'
  <2>1. Alone'
    BY <1>11 DEF Start, Goto, Turn, Alone, Claiming, Mid, Changing, Holding, Over
  <2>2. Survives'
    BY <1>11 DEF Start, Goto, Turn, Survives, Stands, Claiming, Mid, Changing, Holding, Over
  <2>3. ASSUME NEW m \in Launch PROVE Stands(m)'
    BY <1>11 DEF Start, Goto, Turn, Stands, Alone, Gone, Claiming, Mid, Changing, Holding, Over
  <2>. QED BY <2>1, <2>2, <2>3 DEF Solid
<1>12. ASSUME NEW l \in Launch, Record(l) PROVE Solid'
  <2>1. Alone'
    BY <1>12
       DEF Record, Goto, Turn, Here, SetSlot, Owns, Alone, Claiming, Mid, Changing,
           Holding, Over
  <2>2. Survives'
    BY <1>12, Directories
       DEF Record, Goto, Turn, Here, SetSlot, Owns, Survives, Stands, Claiming, Mid,
           Changing, Holding, Over
  <2>3. ASSUME NEW m \in Launch PROVE Stands(m)'
    BY <1>12, Directories
       DEF Record, Goto, Turn, Here, SetSlot, Owns, Stands, Alone, Gone, Claiming, Mid,
           Changing, Holding, Over
  <2>. QED BY <2>1, <2>2, <2>3 DEF Solid
<1>13. ASSUME NEW l \in Launch, Reap(l) PROVE Solid'
  <2>1. Alone'
    BY <1>13 DEF Reap, Goto, Turn, Alone, Claiming, Mid, Changing, Holding, Over
  <2>2. Survives'
    BY <1>13 DEF Reap, Goto, Turn, Survives, Stands, Claiming, Mid, Changing, Holding, Over
  <2>3. ASSUME NEW m \in Launch PROVE Stands(m)'
    BY <1>13 DEF Reap, Goto, Turn, Stands, Alone, Gone, Claiming, Mid, Changing, Holding, Over
  <2>. QED BY <2>1, <2>2, <2>3 DEF Solid
<1>14. ASSUME NEW l \in Launch, Release(l) PROVE Solid'
  <2>1. Alone'
    <3>1. CASE ~ Owns(l)
      BY <1>14, <3>1 DEF Release, GotoSlot, Goto, Alone, Claiming
    <3>2. CASE Owns(l)
      <4>1. ASSUME NEW m \in Launch, pc[m] \in Claiming, m # l PROVE at[m] # at[l]
        BY <1>14, <3>2, <4>1 DEF Release, Turn, Owns, Here, Stands, Gone, Claiming
      <4>2. at' = at /\ \A m \in Launch : pc'[m] \in Claiming => m = l \/ pc[m] \in Claiming
        BY <1>14, <3>2 DEF Release, Goto, Claiming
      <4>. QED BY <4>1, <4>2 DEF Alone
    <3>. QED BY <3>1, <3>2
  <2>2. Survives'
    BY <1>14
       DEF Release, Goto, GotoSlot, Turn, Owns, Here, Survives, Stands, Claiming, Mid,
           Changing, Holding, Over
  <2>3. ASSUME NEW m \in Launch PROVE Stands(m)'
    BY <1>14
       DEF Release, Goto, GotoSlot, Turn, Owns, Here, Stands, Alone, Gone, Claiming, Mid,
           Changing, Holding, Over
  <2>. QED BY <2>1, <2>2, <2>3 DEF Solid
<1>15. ASSUME NEW l \in Launch, WriteFails(l) PROVE Solid'
  <2>1. Alone'
    BY <1>15
       DEF WriteFails, SetSlot, Denied, GotoSlot, Goto, Alone, Claiming, Mid, Changing,
           Holding, Over
  <2>2. Survives'
    BY <1>15, Directories
       DEF WriteFails, SetSlot, Denied, GotoSlot, Goto, Survives, Stands, Claiming, Mid,
           Changing, Holding, Over
  <2>3. ASSUME NEW m \in Launch PROVE Stands(m)'
    <3>1. /\ at'[l] = Limit /\ pc'[l] \in {"running", "failed"}
          /\ m # l => pc'[m] = pc[m] /\ at'[m] = at[m]
          /\ \A k \in Launch : child'[k] = child[k] \/ k = l
      BY <1>15 DEF WriteFails, Denied, GotoSlot, Goto
    <3>2. /\ at[l] \in Slot /\ slot[at[l]].lease = Nobody /\ Home[l] \in up /\ up' = up
          /\ slot' = [slot EXCEPT ![at[l]] = None]
      BY <1>15 DEF WriteFails, SetSlot, Stands, Mid, Changing
    <3>3. CASE m = l
      BY <3>1, <3>3 DEF Stands, Claiming, Slot
    <3>4. CASE m # l
      BY <1>15, <3>1, <3>2, <3>4, Directories
         DEF WriteFails, Stands, Alone, Gone, Claiming, Holding, Changing
    <3>. QED BY <3>3, <3>4
  <2>. QED BY <2>1, <2>2, <2>3 DEF Solid
<1>16. ASSUME NEW l \in Launch, TimeOut(l) PROVE Solid'
  <2>1. Alone'
    BY <1>16
       DEF TimeOut, Scanned, Denied, GotoSlot, Goto, Alone, Claiming, Mid, Changing,
           Holding, Over
  <2>2. Survives'
    BY <1>16
       DEF TimeOut, Scanned, Denied, GotoSlot, Goto, Survives, Stands, Claiming, Mid,
           Changing, Holding, Over
  <2>3. ASSUME NEW m \in Launch PROVE Stands(m)'
    <3>1. /\ at'[l] = Limit /\ pc'[l] \in {"running", "failed"}
          /\ m # l => pc'[m] = pc[m] /\ at'[m] = at[m]
          /\ \A k \in Launch : child'[k] = child[k] \/ k = l
          /\ Home[l] \in up /\ UNCHANGED <<slot, up>>
      BY <1>16 DEF TimeOut, Scanned, Denied, GotoSlot, Goto, Mid
    <3>2. CASE m = l
      BY <3>1, <3>2 DEF Stands, Claiming, Slot
    <3>3. CASE m # l
      BY <3>1, <3>3 DEF Stands, Gone, Claiming, Holding, Changing
    <3>. QED BY <3>2, <3>3
  <2>. QED BY <2>1, <2>2, <2>3 DEF Solid
<1>17. ASSUME NEW l \in Launch, Stop(l) PROVE Solid'
  <2>1. Alone'
    BY <1>17 DEF Stop, Goto, Turn, Alone, Claiming, Mid, Changing, Holding, Over
  <2>2. Survives'
    BY <1>17 DEF Stop, Goto, Turn, Survives, Stands, Claiming, Mid, Changing, Holding, Over
  <2>3. ASSUME NEW m \in Launch PROVE Stands(m)'
    BY <1>17 DEF Stop, Goto, Turn, Stands, Alone, Gone, Claiming, Mid, Changing, Holding, Over
  <2>. QED BY <2>1, <2>2, <2>3 DEF Solid
<1>18. ASSUME NEW l \in Launch, KillFails(l) PROVE Solid'
  <2>1. Alone'
    BY <1>18 DEF KillFails, Goto, Turn, Alone, Claiming, Mid, Changing, Holding, Over
  <2>2. Survives'
    BY <1>18 DEF KillFails, Goto, Turn, Survives, Stands, Claiming, Mid, Changing, Holding, Over
  <2>3. ASSUME NEW m \in Launch PROVE Stands(m)'
    BY <1>18
       DEF KillFails, Goto, Turn, Stands, Alone, Gone, Claiming, Mid, Changing, Holding,
           Over
  <2>. QED BY <2>1, <2>2, <2>3 DEF Solid
<1>19. ASSUME NEW l \in Launch, Cancel(l) PROVE Solid'
  <2>1. Alone'
    BY <1>19 DEF Cancel, Goto, GotoSlot, Turn, Alone, Claiming, Mid, Changing, Holding, Over
  <2>2. Survives'
    BY <1>19
       DEF Cancel, Goto, GotoSlot, Turn, Survives, Stands, Claiming, Mid, Changing,
           Holding, Over
  <2>3. ASSUME NEW m \in Launch PROVE Stands(m)'
    BY <1>19
       DEF Cancel, Goto, GotoSlot, Turn, Stands, Alone, Gone, Claiming, Mid, Changing,
           Holding, Over
  <2>. QED BY <2>1, <2>2, <2>3 DEF Solid
<1>20. ASSUME NEW l \in Launch, ReleaseFails(l) PROVE Solid'
  <2>1. Alone'
    BY <1>20 DEF ReleaseFails, Goto, GotoSlot, Alone, Claiming, Mid, Changing, Holding, Over
  <2>2. Survives'
    BY <1>20
       DEF ReleaseFails, Goto, GotoSlot, Survives, Stands, Claiming, Mid, Changing,
           Holding, Over
  <2>3. ASSUME NEW m \in Launch PROVE Stands(m)'
    BY <1>20
       DEF ReleaseFails, Goto, GotoSlot, Stands, Alone, Gone, Claiming, Mid, Changing,
           Holding, Over
  <2>. QED BY <2>1, <2>2, <2>3 DEF Solid
<1>21. ASSUME NEW l \in Launch, ChildExits(l) PROVE Solid'
  <2>1. Alone'
    BY <1>21 DEF ChildExits, Alone, Claiming, Mid, Changing, Holding, Over
  <2>2. Survives'
    BY <1>21 DEF ChildExits, Survives, Stands, Claiming, Mid, Changing, Holding, Over
  <2>3. ASSUME NEW m \in Launch PROVE Stands(m)'
    BY <1>21 DEF ChildExits, Stands, Alone, Gone, Claiming, Mid, Changing, Holding, Over
  <2>. QED BY <2>1, <2>2, <2>3 DEF Solid
<1>22. ASSUME NEW p \in Pool, Die(p) PROVE Solid'
  <2>1. Alone'
    <3>1. \A m \in Launch : pc'[m] \in Claiming => pc[m] \in Claiming /\ at'[m] = at[m]
      BY <1>22 DEF Die, Claiming, Changing, Mid
    <3>. QED BY <3>1 DEF Alone
  <2>2. Survives'
    BY <1>22 DEF Die, Survives, Stands, Holding, Over
  <2>3. ASSUME NEW m \in Launch PROVE Stands(m)'
    BY <1>22 DEF Die, Stands, Gone, Claiming, Holding, Changing, Over
  <2>. QED BY <2>1, <2>2, <2>3 DEF Solid
<1>23. ASSUME NEW s \in Slot, Age(s) PROVE Solid'
  <2>1. Alone'
    BY <1>23 DEF Age, Alone
  <2>2. Survives'
    BY <1>23 DEF Age, Survives
  <2>3. ASSUME NEW m \in Launch PROVE Stands(m)'
    BY <1>23 DEF Age, Stands, Gone, Claiming, Changing
  <2>. QED BY <2>1, <2>2, <2>3 DEF Solid
<1>24. CASE UNCHANGED vars
  BY <1>24 DEF vars, Solid, Alone, Survives, Stands, Gone
<1>. QED
  BY <1>1, <1>2, <1>3, <1>4, <1>5, <1>6, <1>7, <1>8, <1>9, <1>10, <1>11, <1>12, <1>13, <1>14,
     <1>15, <1>16, <1>17, <1>18, <1>19, <1>20, <1>21, <1>22, <1>23, <1>24
     DEF Next, InCall, Between, Fault

LEMMA InvHolds == Spec => []Inv
<1>1. Init => Inv
  <2>. SUFFICES ASSUME Init PROVE Inv
    OBVIOUS
  <2>1. TypeOK
    <3>1. None \in Directory /\ Limit \in 0..Limit
      BY HostAssumption, Directories
    <3>2. slot \in [Slot -> Directory] /\ at \in [Launch -> 0..Limit]
      BY <3>1 DEF Init
    <3>. QED BY <3>2 DEF Init, TypeOK
  <2>2. Placed
    BY Directories DEF Init, Placed, Mid, Changing, Holding
  <2>3. Solid
    BY DEF Init, Solid, Alone, Survives, Stands, Claiming, Holding
  <2>. QED BY <2>1, <2>2, <2>3 DEF Inv
<1>2. Inv /\ [Next]_vars => Inv'
  <2>. SUFFICES ASSUME Inv, [Next]_vars PROVE Inv'
    OBVIOUS
  <2>1. TypeOK' /\ Placed'
    BY TypeStep, PlacedStep DEF Inv
  <2>2. ASSUME ~ raced' PROVE Solid'
    <3>1. ~ raced
      BY <2>2 DEF Next, vars, InCall, Between, Fault, Mkdir, Pass, Judge, Unlink, Rmdir,
         RmdirFails, Remake, WriteLease, Sleep, Scan, Start, Record, Reap, Release, WriteFails,
         TimeOut, Stop, KillFails, Cancel, ReleaseFails, ChildExits, Die, Age
    <3>. QED BY <2>1, <2>2, <3>1, SolidStep DEF Inv
  <2>. QED BY <2>1, <2>2 DEF Inv
<1>. QED BY <1>1, <1>2, PTL DEF Spec

\* The variables keep their types.
THEOREM TypeCorrect == Spec => []TypeOK
<1>1. Inv => TypeOK
  BY DEF Inv
<1>. QED BY <1>1, InvHolds, PTL

\* However many pools share the host, no more children run than there are slots, but for
\* those that no slot stands for, until two verdicts on one slot overlap.
THEOREM ChildrenWithinLimit == Spec => []WithinLimit
<1>1. Inv => WithinLimit
  <2>. SUFFICES ASSUME Inv, ~ raced
                PROVE  Cardinality({l \in Launch \ loose : child[l]}) <= Limit
    BY DEF WithinLimit
  <2>. DEFINE Up == {l \in Launch \ loose : child[l]}
              Leased == {s \in Slot : slot[s].lease \in Up}
              of == [s \in Leased |-> slot[s].lease]
  <2>1. \A l \in Up : \E s \in Slot : slot[s].lease = l
    BY DEF Inv, Placed, Solid, Stands, Survives, Holding, TypeOK
  <2>2. of \in Surjection(Leased, Up)
    BY <2>1 DEF Surjection
  <2>3. IsFiniteSet(Slot) /\ Cardinality(Slot) = Limit
    BY HostAssumption, FS_Interval, 0 \in Int, Limit - 1 \in Int DEF Slot
  <2>4. IsFiniteSet(Leased) /\ Cardinality(Leased) <= Limit
    BY <2>3, FS_Subset
  <2>5. IsFiniteSet(Up) /\ Cardinality(Up) <= Cardinality(Leased)
    BY <2>2, <2>4, FS_Surjection
  <2>. QED BY <2>3, <2>4, <2>5, FS_CardinalityType, HostAssumption
<1>. QED BY <1>1, InvHolds, PTL

\* A slot of a live pool, or with a recorded child that lives, is left alone by all others.
THEOREM LiveSlotsStay == Spec => LiveSlotStays
<1>. DEFINE Left ==
       \A s \in Slot :
         LET o == slot[s].lease IN
         ~ raced /\ o # Nobody /\ slot'[s].lease # o =>
           \/ pc[o] = "freeing"
           \/ Home[o] \notin up /\ ~ (slot[s].recorded /\ child[o])
<1>1. Inv /\ [Next]_vars => Left
  <2>. SUFFICES ASSUME Inv, [Next]_vars, ~ raced, NEW s \in Slot,
                       slot[s].lease # Nobody, slot'[s].lease # slot[s].lease
                PROVE  LET o == slot[s].lease IN
                       \/ pc[o] = "freeing"
                       \/ Home[o] \notin up /\ ~ (slot[s].recorded /\ child[o])
    OBVIOUS
  <2>. USE HostAssumption DEF Inv, TypeOK, Placed, Solid, Stands
  <2>1. ASSUME NEW l \in Launch, Unlink(l)
        PROVE  LET o == slot[s].lease IN
               \/ pc[o] = "freeing"
               \/ Home[o] \notin up /\ ~ (slot[s].recorded /\ child[o])
    <3>1. s = at[l]
      BY <2>1 DEF Unlink, SetSlot
    <3>2. CASE pc[l] = "freeing"
      BY <3>1, <3>2
    <3>3. CASE pc[l] = "unlinking"
      BY <3>1, <3>3 DEF Gone
    <3>. QED BY <2>1, <3>2, <3>3 DEF Unlink
  <2>2. ASSUME NEW l \in Launch, \/ Mkdir(l) \/ Rmdir(l) \/ Remake(l) \/ WriteLease(l)
                                \/ WriteFails(l)
        PROVE  FALSE
    <3>1. InSlot(l) => at[l] \in Slot
      BY DEF InSlot, Slot
    <3>2. \/ at[l] \in Slot /\ slot[at[l]].lease = Nobody
          \/ slot' = slot
      BY <2>2, <3>1 DEF Mkdir, Rmdir, Remake, WriteLease, WriteFails, Here, Claiming, Changing
    <3>3. \A r \in Slot : slot[r].lease # Nobody => slot'[r] = slot[r]
      BY <2>2, <3>2 DEF Mkdir, Rmdir, Remake, WriteLease, WriteFails, SetSlot
    <3>. QED BY <3>3
  <2>3. ASSUME NEW l \in Launch, Record(l) PROVE FALSE
    BY <2>3, Directories DEF Record, Owns, Here, SetSlot
  <2>4. ASSUME NEW r \in Slot, Age(r) PROVE FALSE
    BY <2>4 DEF Age, Directory
  <2>5. slot' # slot
    OBVIOUS
  <2>. QED BY <2>1, <2>2, <2>3, <2>4, <2>5
       DEF Next, vars, InCall, Between, Fault, Pass, Judge, RmdirFails, Sleep, Scan, Start,
           Reap, Release, TimeOut, Stop, KillFails, Cancel, ReleaseFails, ChildExits, Die
<1>2. Spec => [][Left]_vars
  BY <1>1, InvHolds, PTL DEF Spec
<1>. QED BY <1>2 DEF LiveSlotStays
-----------------------------------------------------------------------------
(* Sums over finite sets *)

\* A set of subsets of a finite set has a least one.
LEMMA LeastSubset ==
  ASSUME NEW T, IsFiniteSet(T), NEW F \in SUBSET SUBSET T, F # {}
  PROVE  \E S \in F : \A R \in F : R \subseteq S => R = S
<1>1. IsWellFoundedOn(StrictSubsetOrdering(T), SUBSET T)
  BY FS_StrictSubsetOrderingWellFounded, FS_FiniteSubsetsOfFinite
<1>2. PICK S \in F : \A R \in F : <<R, S>> \notin StrictSubsetOrdering(T)
  BY <1>1, WFMin
<1> QED
  BY <1>2 DEF StrictSubsetOrdering

\* The function that the sum over T is defined by.
Adds(sum, cost, T) ==
  sum = [S \in SUBSET T |->
           IF S = {} THEN 0 ELSE cost[CHOOSE x \in S : TRUE] + sum[S \ {CHOOSE x \in S : TRUE}]]

\* The sum is the value of that function.
LEMMA SumDef == ASSUME NEW cost, NEW T PROVE Sum(cost, T) = (CHOOSE sum : Adds(sum, cost, T))[T]
  BY Zenon DEF Sum, MapThenSumSet, MapThenFoldSet, Adds

\* Such functions agree where both are defined.
LEMMA AddsUnique ==
  ASSUME NEW cost, NEW T, IsFiniteSet(T), NEW U \in SUBSET T, NEW f, NEW g, Adds(f, cost, T), Adds(g, cost, U)
  PROVE  \A S \in SUBSET U : f[S] = g[S]
<1> DEFINE F == {S \in SUBSET U : f[S] # g[S]}
<1> SUFFICES ASSUME F # {} PROVE FALSE
  OBVIOUS
<1>1. PICK S \in F : \A R \in F : R \subseteq S => R = S
  <2>1. F \in SUBSET SUBSET U /\ IsFiniteSet(U)
    BY FS_Subset
  <2> HIDE DEF F
  <2> QED
    BY <2>1, LeastSubset
<1>2. S # {}
  BY <1>1 DEF Adds
<1> DEFINE x == CHOOSE x \in S : TRUE
<1>3. x \in S
  BY <1>2
<1>4. f[S \ {x}] = g[S \ {x}]
  BY <1>1, <1>3
<1>5. f[S] = cost[x] + f[S \ {x}] /\ g[S] = cost[x] + g[S \ {x}]
  BY <1>2 DEF Adds
<1> QED
  BY <1>1, <1>4, <1>5

\* There is one, for every finite set.
LEMMA AddsExists ==
  ASSUME NEW cost, NEW T, IsFiniteSet(T)
  PROVE  \E sum : Adds(sum, cost, T)
<1> DEFINE F == {S \in SUBSET T : ~ \E sum : Adds(sum, cost, S)}
<1> SUFFICES ASSUME F # {} PROVE FALSE
  OBVIOUS
<1>1. PICK S \in F : \A R \in F : R \subseteq S => R = S
  <2>1. F \in SUBSET SUBSET T
    OBVIOUS
  <2> HIDE DEF F
  <2> QED
    BY <2>1, LeastSubset
<1> DEFINE below(R) == CHOOSE sum : Adds(sum, cost, R)
           x(R) == CHOOSE x \in R : TRUE
           sum == [R \in SUBSET S |-> IF R = {} THEN 0 ELSE cost[x(R)] + below(R \ {x(R)})[R \ {x(R)}]]
<1>2. \A R \in SUBSET S : R # S => Adds(below(R), cost, R)
  BY <1>1
<1>3. \A R \in SUBSET S : R # {} => x(R) \in R /\ R \ {x(R)} # S /\ R \ {x(R)} \in SUBSET S
  OBVIOUS
<1>4. ASSUME NEW R \in SUBSET S, R # {} PROVE sum[R \ {x(R)}] = below(R \ {x(R)})[R \ {x(R)}]
  <2> DEFINE Q == R \ {x(R)}
  <2>1. Adds(below(Q), cost, Q) /\ Q \in SUBSET S /\ IsFiniteSet(Q)
    BY <1>2, <1>3, <1>4, FS_Subset
  <2>2. CASE Q = {}
    BY <2>1, <2>2 DEF Adds
  <2>3. CASE Q # {}
    <3>1. x(Q) \in Q /\ Q \ {x(Q)} \in SUBSET Q
      BY <2>3
    <3>2. Adds(below(Q \ {x(Q)}), cost, Q \ {x(Q)})
      BY <1>2, <1>3, <2>1, <3>1
    <3>3. below(Q)[Q \ {x(Q)}] = below(Q \ {x(Q)})[Q \ {x(Q)}]
      BY <2>1, <3>1, <3>2, AddsUnique
    <3>4. below(Q)[Q] = cost[x(Q)] + below(Q)[Q \ {x(Q)}]
      BY <2>1, <2>3 DEF Adds
    <3>5. sum[Q] = cost[x(Q)] + below(Q \ {x(Q)})[Q \ {x(Q)}]
      BY <2>1, <2>3
    <3> QED
      BY <3>3, <3>4, <3>5
  <2> QED
    BY <2>2, <2>3
<1>5. Adds(sum, cost, S)
  <2>1. \A R \in SUBSET S : sum[R] = IF R = {} THEN 0 ELSE cost[x(R)] + sum[R \ {x(R)}]
    <3> SUFFICES ASSUME NEW R \in SUBSET S
                 PROVE  sum[R] = IF R = {} THEN 0 ELSE cost[x(R)] + sum[R \ {x(R)}]
      OBVIOUS
    <3>1. R # {} => sum[R \ {x(R)}] = below(R \ {x(R)})[R \ {x(R)}]
      BY <1>4
    <3>2. sum[R] = IF R = {} THEN 0 ELSE cost[x(R)] + below(R \ {x(R)})[R \ {x(R)}]
      OBVIOUS
    <3> HIDE DEF sum, below, x
    <3> QED
      BY <3>1, <3>2
  <2>2. sum = [R \in SUBSET S |-> sum[R]]
    OBVIOUS
  <2> HIDE DEF sum, below
  <2>3. sum = [R \in SUBSET S |-> IF R = {} THEN 0 ELSE cost[x(R)] + sum[R \ {x(R)}]]
    BY <2>1, <2>2, Zenon
  <2> QED
    BY <2>3 DEF Adds
<1> QED
  BY <1>1, <1>5

\* Nothing costs nothing.
LEMMA SumEmpty == ASSUME NEW cost PROVE Sum(cost, {}) = 0
<1> DEFINE f == CHOOSE sum : Adds(sum, cost, {})
<1>1. Adds(f, cost, {})
  BY AddsExists, FS_EmptySet
<1> QED
  BY <1>1, SumDef DEF Adds

\* The definition takes out some element first.
LEMMA SumChoice ==
  ASSUME NEW cost, NEW T, IsFiniteSet(T), T # {}
  PROVE  \E x \in T : Sum(cost, T) = cost[x] + Sum(cost, T \ {x})
<1> DEFINE x == CHOOSE x \in T : TRUE
           U == T \ {x}
           f == CHOOSE sum : Adds(sum, cost, T)
           g == CHOOSE sum : Adds(sum, cost, U)
<1>1. x \in T /\ IsFiniteSet(U) /\ U \in SUBSET T
  BY FS_Subset
<1>2. Adds(f, cost, T) /\ Adds(g, cost, U)
  BY <1>1, AddsExists
<1>3. f[U] = g[U]
  BY <1>1, <1>2, AddsUnique
<1>4. f[T] = cost[x] + f[U]
  BY <1>2 DEF Adds
<1> QED
  BY <1>1, <1>3, <1>4, SumDef

\* A sum of integers is an integer.
LEMMA SumInt ==
  ASSUME NEW cost, NEW T, IsFiniteSet(T), \A x \in T : cost[x] \in Int
  PROVE  Sum(cost, T) \in Int
<1> DEFINE F == {S \in SUBSET T : Sum(cost, S) \notin Int}
<1> SUFFICES ASSUME F # {} PROVE FALSE
  OBVIOUS
<1>1. PICK S \in F : \A R \in F : R \subseteq S => R = S
  <2>1. F \in SUBSET SUBSET T
    OBVIOUS
  <2> HIDE DEF F
  <2> QED
    BY <2>1, LeastSubset
<1>2. S # {} /\ IsFiniteSet(S)
  <2>1. S = {} => Sum(cost, S) = 0
    BY SumEmpty
  <2> QED
    BY <1>1, <2>1, FS_Subset
<1>3. PICK x \in S : Sum(cost, S) = cost[x] + Sum(cost, S \ {x})
  BY <1>2, SumChoice
<1>4. Sum(cost, S \ {x}) \in Int
  BY <1>1
<1> QED
  BY <1>1, <1>3, <1>4

\* Any element may be taken out first.
LEMMA SumWithout ==
  ASSUME NEW cost, NEW T, IsFiniteSet(T), \A x \in T : cost[x] \in Int, NEW t \in T
  PROVE  Sum(cost, T) = cost[t] + Sum(cost, T \ {t})
<1> DEFINE F == {S \in SUBSET T : \E y \in S : Sum(cost, S) # cost[y] + Sum(cost, S \ {y})}
<1> SUFFICES ASSUME F # {} PROVE FALSE
  OBVIOUS
<1>1. PICK S \in F : \A R \in F : R \subseteq S => R = S
  <2>1. F \in SUBSET SUBSET T
    OBVIOUS
  <2> HIDE DEF F
  <2> QED
    BY <2>1, LeastSubset
<1>2. PICK y \in S : Sum(cost, S) # cost[y] + Sum(cost, S \ {y})
  BY <1>1
<1>3. IsFiniteSet(S) /\ S \subseteq T
  BY <1>1, FS_Subset
<1>4. PICK x \in S : Sum(cost, S) = cost[x] + Sum(cost, S \ {x})
  BY <1>2, <1>3, SumChoice
<1>5. x # y
  BY <1>2, <1>4
<1> DEFINE rest == (S \ {x}) \ {y}
<1>6. Sum(cost, S \ {x}) = cost[y] + Sum(cost, rest)
  <2>1. S \ {x} \notin F /\ S \ {x} \in SUBSET T
    BY <1>1, <1>3
  <2> QED
    BY <1>5, <2>1
<1>7. Sum(cost, S \ {y}) = cost[x] + Sum(cost, rest)
  <2>1. S \ {y} \notin F /\ S \ {y} \in SUBSET T
    BY <1>1, <1>3
  <2>2. (S \ {y}) \ {x} = rest
    OBVIOUS
  <2> QED
    BY <1>5, <2>1, <2>2
<1>8. cost[x] \in Int /\ cost[y] \in Int /\ Sum(cost, rest) \in Int
  <2>1. IsFiniteSet(rest) /\ rest \subseteq T
    BY <1>3, FS_Subset
  <2> QED
    BY <1>3, <2>1, SumInt
<1> QED
  BY <1>2, <1>4, <1>6, <1>7, <1>8
\* What holds of no elements and stays when one is added, holds of a finite set.
LEMMA OneByOne ==
  ASSUME NEW T, IsFiniteSet(T), NEW G, {} \in G,
         \A S \in SUBSET T : \A x \in T \ S : S \in G => S \cup {x} \in G
  PROVE  T \in G
<1> DEFINE F == (SUBSET T) \ G
<1> SUFFICES ASSUME F # {} PROVE FALSE
  OBVIOUS
<1>1. PICK S \in F : \A R \in F : R \subseteq S => R = S
  <2>1. F \in SUBSET SUBSET T
    OBVIOUS
  <2> HIDE DEF F
  <2> QED
    BY <2>1, LeastSubset
<1>2. PICK x \in S : TRUE
  <2>1. S # {}
    BY <1>1, Zenon
  <2> QED
    BY <2>1
<1>3. S \ {x} \in G /\ (S \ {x}) \cup {x} = S /\ x \in T \ (S \ {x}) /\ S \ {x} \in SUBSET T
  BY <1>1, <1>2
<1> QED
  BY ZenonT(30), <1>1, <1>3

\* One more element.
LEMMA SumWith ==
  ASSUME NEW cost, NEW T, IsFiniteSet(T), \A x \in T : cost[x] \in Int,
         NEW S \in SUBSET T, NEW t \in T \ S
  PROVE  Sum(cost, S \cup {t}) = cost[t] + Sum(cost, S) /\ Sum(cost, S) \in Int
<1> DEFINE U == S \cup {t}
<1>1. IsFiniteSet(U) /\ IsFiniteSet(S) /\ U \subseteq T /\ t \in U /\ U \ {t} = S
  BY FS_Subset
<1> QED
  BY <1>1, SumWithout, SumInt

\* A sum is monotone in its terms.
LEMMA SumAtMost ==
  ASSUME NEW a, NEW b, NEW T, IsFiniteSet(T),
         \A x \in T : a[x] \in Int /\ b[x] \in Int /\ a[x] <= b[x]
  PROVE  Sum(a, T) <= Sum(b, T)
<1> DEFINE G == {S \in SUBSET T : Sum(a, S) <= Sum(b, S)}
<1>1. {} \in G
  BY SumEmpty
<1>2. ASSUME NEW S \in SUBSET T, NEW x \in T \ S, S \in G PROVE S \cup {x} \in G
  <2>1. /\ Sum(a, S \cup {x}) = a[x] + Sum(a, S) /\ Sum(a, S) \in Int
        /\ Sum(b, S \cup {x}) = b[x] + Sum(b, S) /\ Sum(b, S) \in Int
    BY SumWith
  <2> QED
    BY <1>2, <2>1
<1> HIDE DEF G
<1>3. T \in G
  BY <1>1, <1>2, OneByOne
<1> QED
  BY <1>3 DEF G

\* A sum depends on its terms only.
LEMMA SumSame ==
  ASSUME NEW a, NEW b, NEW T, IsFiniteSet(T), \A x \in T : a[x] \in Int /\ b[x] = a[x]
  PROVE  Sum(a, T) = Sum(b, T)
<1>1. Sum(a, T) <= Sum(b, T) /\ Sum(b, T) <= Sum(a, T)
  BY SumAtMost
<1> QED
  BY <1>1, SumInt

\* One term changes.
LEMMA SumMoves ==
  ASSUME NEW a, NEW b, NEW T, IsFiniteSet(T), NEW t \in T,
         \A x \in T : a[x] \in Int /\ b[x] \in Int,
         \A x \in T \ {t} : b[x] = a[x]
  PROVE  Sum(b, T) = Sum(a, T) + b[t] - a[t] /\ Sum(a, T) \in Int
<1>1. IsFiniteSet(T \ {t}) /\ Sum(a, T) \in Int
  BY FS_Subset, SumInt
<1>2. Sum(a, T \ {t}) = Sum(b, T \ {t}) /\ Sum(a, T \ {t}) \in Int
  BY <1>1, SumSame, SumInt
<1>3. Sum(a, T) = a[t] + Sum(a, T \ {t}) /\ Sum(b, T) = b[t] + Sum(b, T \ {t})
  BY SumWithout
<1> QED
  BY <1>1, <1>2, <1>3

\* Sums of two costs.
LEMMA SumPlus ==
  ASSUME NEW a, NEW b, NEW c, NEW T, IsFiniteSet(T),
         \A x \in T : a[x] \in Int /\ b[x] \in Int /\ c[x] = a[x] + b[x]
  PROVE  Sum(c, T) = Sum(a, T) + Sum(b, T)
<1>0. \A x \in T : c[x] \in Int
  OBVIOUS
<1> DEFINE G == {S \in SUBSET T : Sum(c, S) = Sum(a, S) + Sum(b, S)}
<1>1. {} \in G
  BY SumEmpty
<1>2. ASSUME NEW S \in SUBSET T, NEW x \in T \ S, S \in G PROVE S \cup {x} \in G
  <2>1. /\ Sum(a, S \cup {x}) = a[x] + Sum(a, S) /\ Sum(a, S) \in Int
        /\ Sum(b, S \cup {x}) = b[x] + Sum(b, S) /\ Sum(b, S) \in Int
        /\ Sum(c, S \cup {x}) = c[x] + Sum(c, S) /\ Sum(c, S) \in Int
    BY ZenonT(30), <1>0, SumWith
  <2> QED
    BY <1>2, <2>1
<1> HIDE DEF G
<1>3. T \in G
  BY <1>1, <1>2, OneByOne
<1> QED
  BY <1>3 DEF G

\* Where the rest is nothing, the sum is that of a part.
LEMMA SumPart ==
  ASSUME NEW a, NEW b, NEW T, IsFiniteSet(T), NEW P \in SUBSET T,
         \A x \in P : a[x] \in Int, \A x \in T : b[x] = IF x \in P THEN a[x] ELSE 0
  PROVE  Sum(a, P) = Sum(b, T)
<1>0. \A x \in T : b[x] \in Int
  OBVIOUS
<1> DEFINE G == {S \in SUBSET T : Sum(a, S \cap P) = Sum(b, S)}
<1>1. {} \in G
  BY SumEmpty
<1>2. ASSUME NEW S \in SUBSET T, NEW x \in T \ S, S \in G PROVE S \cup {x} \in G
  <2>1. Sum(b, S \cup {x}) = b[x] + Sum(b, S) /\ Sum(b, S) \in Int
    BY <1>0, SumWith
  <2>2. CASE x \in P
    <3>1. (S \cup {x}) \cap P = (S \cap P) \cup {x} /\ x \in P \ (S \cap P) /\ IsFiniteSet(P)
      BY <2>2, FS_Subset
    <3>2. Sum(a, (S \cap P) \cup {x}) = a[x] + Sum(a, S \cap P)
      BY <3>1, SumWith
    <3> QED
      BY <1>2, <2>1, <2>2, <3>1, <3>2
  <2>3. CASE x \notin P
    <3>1. (S \cup {x}) \cap P = S \cap P /\ b[x] = 0
      BY <2>3
    <3>2. Sum(b, S \cup {x}) = Sum(b, S)
      BY <2>1, <3>1
    <3>3. Sum(a, S \cap P) = Sum(b, S) /\ S \cup {x} \in SUBSET T
      BY <1>2
    <3> QED
      BY <3>1, <3>2, <3>3
  <2> QED
    BY <2>2, <2>3
<1> HIDE DEF G
<1>3. T \in G
  BY <1>1, <1>2, OneByOne
<1>4. T \cap P = P
  OBVIOUS
<1> QED
  BY <1>3, <1>4 DEF G

\* Sums over two disjoint parts.
LEMMA SumUnion ==
  ASSUME NEW a, NEW T, IsFiniteSet(T), \A x \in T : a[x] \in Int,
         NEW P \in SUBSET T, NEW Q \in SUBSET T, P \cap Q = {}
  PROVE  Sum(a, P \cup Q) = Sum(a, P) + Sum(a, Q)
<1> DEFINE b == [x \in T |-> IF x \in P THEN a[x] ELSE 0]
           c == [x \in T |-> IF x \in Q THEN a[x] ELSE 0]
           d == [x \in T |-> IF x \in P \cup Q THEN a[x] ELSE 0]
<1>1. Sum(a, P) = Sum(b, T)
  BY SumPart
<1>2. Sum(a, Q) = Sum(c, T)
  BY SumPart
<1>3. Sum(a, P \cup Q) = Sum(d, T)
  BY SumPart
<1>4. \A x \in T : b[x] \in Int /\ c[x] \in Int /\ d[x] = b[x] + c[x]
  OBVIOUS
<1> HIDE DEF b, c, d
<1>5. Sum(d, T) = Sum(b, T) + Sum(c, T)
  BY <1>4, SumPlus
<1> QED
  BY <1>1, <1>2, <1>3, <1>5

\* A sum whose terms are bounded.
LEMMA SumEach ==
  ASSUME NEW a, NEW T, IsFiniteSet(T), NEW most \in Int, \A x \in T : a[x] \in Int /\ a[x] <= most
  PROVE  Sum(a, T) <= Cardinality(T) * most
<1> DEFINE G == {S \in SUBSET T : Sum(a, S) <= Cardinality(S) * most}
<1>1. {} \in G
  BY SumEmpty, FS_EmptySet
<1>2. ASSUME NEW S \in SUBSET T, NEW x \in T \ S, S \in G PROVE S \cup {x} \in G
  <2>1. Sum(a, S \cup {x}) = a[x] + Sum(a, S) /\ Sum(a, S) \in Int
    BY SumWith
  <2>2. Cardinality(S \cup {x}) = Cardinality(S) + 1 /\ Cardinality(S) \in Nat
    BY FS_Subset, FS_AddElement, FS_CardinalityType
  <2>3. \A n \in Nat : (n + 1) * most = n * most + most /\ n * most \in Int
    OBVIOUS
  <2>4. Cardinality(S \cup {x}) * most = Cardinality(S) * most + most /\ Cardinality(S) * most \in Int
    BY <2>2, <2>3
  <2> QED
    BY <1>2, <2>1, <2>4
<1> HIDE DEF G
<1>3. T \in G
  BY <1>1, <1>2, OneByOne
<1> QED
  BY <1>3 DEF G

\* A sum over disjoint groups, each bounded.
LEMMA SumGroups ==
  ASSUME NEW a, NEW T, IsFiniteSet(T), \A x \in T : a[x] \in Int,
         NEW L, IsFiniteSet(L), NEW part \in [L -> SUBSET T], NEW most,
         T = UNION {part[s] : s \in L},
         \A r, s \in L : r # s => part[r] \cap part[s] = {},
         \A s \in L : most[s] \in Int /\ Sum(a, part[s]) <= most[s]
  PROVE  Sum(a, T) <= Sum(most, L)
<1> DEFINE of(S) == UNION {part[s] : s \in S}
           G == {S \in SUBSET L : Sum(a, of(S)) <= Sum(most, S)}
<1>1. {} \in G
  <2>1. of({}) = {}
    OBVIOUS
  <2> HIDE DEF of
  <2> QED
    BY <2>1, SumEmpty
<1>2. ASSUME NEW S \in SUBSET L, NEW s \in L \ S, S \in G PROVE S \cup {s} \in G
  <2>1. /\ of(S \cup {s}) = of(S) \cup part[s] /\ of(S) \cap part[s] = {}
        /\ of(S) \subseteq T /\ part[s] \subseteq T /\ of(S \cup {s}) \subseteq T
    OBVIOUS
  <2>2. Sum(most, S \cup {s}) = most[s] + Sum(most, S) /\ Sum(most, S) \in Int
    BY SumWith
  <2>3. Sum(a, of(S) \cup part[s]) = Sum(a, of(S)) + Sum(a, part[s])
    <3> HIDE DEF of
    <3> QED
      BY <2>1, SumUnion
  <2>4. Sum(a, of(S)) \in Int /\ Sum(a, part[s]) \in Int
    <3>1. IsFiniteSet(of(S)) /\ IsFiniteSet(part[s])
      BY <2>1, FS_Subset
    <3> HIDE DEF of
    <3> QED
      BY <2>1, <3>1, SumInt
  <2> HIDE DEF of
  <2>5. Sum(a, of(S)) <= Sum(most, S) /\ most[s] \in Int /\ Sum(a, part[s]) <= most[s]
    BY <1>2
  <2>6. Sum(a, of(S \cup {s})) <= Sum(most, S \cup {s})
    <3>1. Sum(a, of(S \cup {s})) = Sum(a, of(S)) + Sum(a, part[s])
      BY <2>1, <2>3, Zenon
    <3> QED
      BY <2>2, <2>4, <2>5, <3>1
  <2> QED
    BY <2>6
<1> HIDE DEF G
<1>3. L \in G
  BY <1>1, <1>2, OneByOne
<1> QED
  BY <1>3 DEF G

-----------------------------------------------------------------------------
(* The spend of a run *)

Taken  == {"scoped", "running", "ended"}
Closed == {"completed", "failed"}

CapTypeOK ==
  /\ plan \in Plans /\ live \in BOOLEAN
  /\ level \in 1..Len(plan.levels)
  /\ {cap, recorded, carried, told, untold, unseen, faults, launches} \subseteq Nat
  /\ logs \in [Task -> Nat] /\ counted \in [Task -> Nat] /\ unread \in [Task -> Nat]
  /\ leaf \subseteq Task
  /\ step \in [Step -> {"pending", "dispatching", "completed", "failed"}]
  /\ task \in [Task -> Taken \cup Closed \cup {"queued", "held"}]
  /\ tries \in [Task -> Nat]
  /\ finished \in [Step -> Nat] /\ failed \in [Step -> Nat]
  /\ trip \in [Step -> BOOLEAN]
  /\ lost \in BOOLEAN /\ skipped \in BOOLEAN /\ together \in BOOLEAN

\* What an open task has cost and may still cost that the ledger has not seen.
Owes(t) == unread[t] + tries[t] * Price
Due == [t \in Task |-> IF task[t] \in Taken THEN Owes(t) ELSE 0]

\* What the tasks of a step may still cost, those included that have not entered.
Reserve(s) ==
  [t \in Task |-> IF t \in TasksOf(s) /\ task[t] \in Taken THEN Owes(t)
                  ELSE IF t \in TasksOf(s) /\ task[t] = "queued" THEN Attempts[s] * Price ELSE 0]

\* What logs have told and the ledger has read, in this launch or before it.
Known == told - Sum(unread, Task)

\* What is told is in the logs, unless they were lost; the record claims no more, unless a
\* log was left unread at a launch; what the ledger holds, with what it has not read and
\* what it lacked from the start, is all of it.
Booked ==
  /\ Sum(logs, Task) <= told
  /\ ~lost => told = Sum(logs, Task)
  /\ ~live => told <= recorded + unseen
  /\ live => recorded = Measured /\ told <= Measured + Sum(unread, Task) + Unseen
  /\ ~skipped => /\ Measured <= told /\ recorded <= told
                 /\ live => carried + Sum(logs, Task) <= told

\* A task in a launch: what its leaf has run without the ledger's knowledge.
Tasks ==
  \A t \in Task :
    /\ counted[t] + unread[t] <= logs[t]
    /\ task[t] \in {"queued", "held"} => unread[t] = 0
    /\ task[t] \in {"scoped", "running"} => tries[t] > 0
    /\ task[t] = "ended" => tries[t] = 0
    /\ task[t] \in Taken => /\ Owes(t) <= Attempts[StepOf(t)] * Price
                            /\ step[StepOf(t)] = "dispatching"

\* The steps of the level, and how many of their tasks are open.
Steps ==
  \A s \in Step :
    /\ step[s] = "dispatching" => s \in Level
    /\ step[s] = "pending" => \A t \in TasksOf(s) : task[t] \in {"queued", "completed"}
    /\ Cardinality(Open \cap TasksOf(s)) <= Width(s)

\* What is open was admitted below the cap, as far as the ledger knew.
Gated == Open # {} => Known + Sum(Due, Task) < cap + Unseen + InFlight

\* A priced step that dispatches alone has its worst case within the cap.
Prepared ==
  ~together =>
    \A s \in Step : step[s] = "dispatching" =>
      /\ \A r \in Step : step[r] = "dispatching" => r = s
      /\ s \in plan.priced => Known + Sum(Reserve(s), Task) <= cap + Unseen

\* The inductive invariant.
CapInv == CapTypeOK /\ Booked /\ (live => Tasks /\ Steps /\ Gated /\ Prepared)

-----------------------------------------------------------------------------

\* Every task is of one step, and there are finitely many.
LEMMA TaskParts ==
  /\ IsFiniteSet(Task)
  /\ \A s \in Step : TasksOf(s) \subseteq Task /\ IsFiniteSet(TasksOf(s))
  /\ \A t \in Task : StepOf(t) \in Step /\ t \in TasksOf(StepOf(t))
  /\ \A s \in Step : \A t \in TasksOf(s) : StepOf(t) = s
<1> USE SpendAssumption
<1>1. \A s \in Step : IsFiniteSet(TasksOf(s))
  <2> SUFFICES ASSUME NEW s \in Step PROVE IsFiniteSet(TasksOf(s))
    OBVIOUS
  <2> DEFINE D == 1..Len(Roster[s])
             f == [i \in D |-> Roster[s][i]]
  <2>1. IsFiniteSet(D) /\ D = DOMAIN Roster[s]
    <3>1. Len(Roster[s]) \in Int /\ DOMAIN Roster[s] = 1..Len(Roster[s])
      OBVIOUS
    <3>2. \A n \in Int : IsFiniteSet(1..n)
      BY FS_Interval
    <3> QED
      BY <3>1, <3>2
  <2>2. f \in Surjection(D, TasksOf(s))
    BY <2>1 DEF TasksOf, Surjection
  <2> QED
    BY <2>1, <2>2, FS_Surjection
<1>2. \A s \in Step : TasksOf(s) \subseteq Task
  BY DEF Task
<1>3. IsFiniteSet(Task)
  <2> DEFINE R == {TasksOf(s) : s \in Step}
             f == [s \in Step |-> TasksOf(s)]
  <2>1. f \in Surjection(Step, R)
    BY DEF Surjection
  <2>2. IsFiniteSet(R)
    BY <2>1, FS_Surjection
  <2> QED
    BY <1>1, <2>2, FS_UNION DEF Task
<1>4. \A r, s \in Step : \A t \in TasksOf(r) : t \in TasksOf(s) => r = s
  BY DEF TasksOf
<1>5. \A t \in Task : \E s \in Step : t \in TasksOf(s)
  BY DEF Task
<1>6. \A t \in Task : StepOf(t) \in Step /\ t \in TasksOf(StepOf(t))
  BY <1>5 DEF StepOf
<1> QED
  BY <1>1, <1>2, <1>3, <1>4, <1>6

\* What the limits and prices come to are numbers.
LEMMA Numbers ==
  /\ Price \in Nat \ {0}
  /\ \A s \in Step : Attempts[s] \in Nat \ {0} /\ Width(s) \in Nat /\ Attempts[s] * Price \in Nat
  /\ \A s \in Step : Width(s) * (Attempts[s] * Price) \in Nat
  /\ \A usd \in Costs : usd \in 0..Price
<1>1. MappedScopes \in Nat /\ \A s \in Step : Width(s) \in Nat
  <2>1. \A a, b \in Nat : Max({a, b}) \in Nat /\ Min({a, b}) \in Nat
    <3> SUFFICES ASSUME NEW a \in Nat, NEW b \in Nat PROVE Max({a, b}) \in Nat /\ Min({a, b}) \in Nat
      OBVIOUS
    <3>1. \E x \in {a, b} : \A y \in {a, b} : x >= y
      OBVIOUS
    <3>2. \E x \in {a, b} : \A y \in {a, b} : x <= y
      OBVIOUS
    <3> QED
      BY <3>1, <3>2 DEF Max, Min
  <2> QED
    BY <2>1, SpendAssumption DEF MappedScopes, Width
<1>2. \A a, b \in Nat : a * b \in Nat
  OBVIOUS
<1> QED
  BY <1>1, <1>2, SpendAssumption

\* What a number has above zero.
LEMMA Excess == ASSUME NEW d \in Int PROVE Max({0, d}) = IF d > 0 THEN d ELSE 0
<1>1. \E x \in {0, d} : \A y \in {0, d} : x >= y
  OBVIOUS
<1>2. Max({0, d}) \in {0, d} /\ Max({0, d}) >= 0 /\ Max({0, d}) >= d
  BY <1>1 DEF Max
<1> QED
  BY <1>2

\* What the record lacks is a number that makes up for it.
LEMMA LacksNow == told \in Nat /\ recorded \in Nat => Lacks \in Nat /\ told <= recorded + Lacks
<1> SUFFICES ASSUME told \in Nat, recorded \in Nat PROVE Lacks \in Nat /\ told <= recorded + Lacks
  OBVIOUS
<1> DEFINE d == told - recorded
<1>1. d \in Int
  OBVIOUS
<1>2. Lacks = Max({0, d})
  BY DEF Lacks
<1> HIDE DEF d
<1>3. Max({0, d}) = IF d > 0 THEN d ELSE 0
  BY <1>1, Excess
<1> QED
  BY <1>1, <1>2, <1>3 DEF d

\* The same of the next state.
LEMMA LacksNext == (told \in Nat /\ recorded \in Nat => Lacks \in Nat /\ told <= recorded + Lacks)'
  BY LacksNow, PTL

\* The record that OpenLedger starts from is what the logs or the last record have, if more.
LEMMA CarryParts ==
  ASSUME NEW read, recorded \in Nat, Sum(read, Task) \in Int
  PROVE  /\ Carry(read) \in Nat
         /\ Carry(read) = IF recorded > Sum(read, Task) THEN recorded - Sum(read, Task) ELSE 0
<1> DEFINE d == recorded - Sum(read, Task)
<1>1. d \in Int
  OBVIOUS
<1>2. Carry(read) = Max({0, d})
  BY DEF Carry
<1> HIDE DEF d
<1>3. Max({0, d}) = IF d > 0 THEN d ELSE 0
  BY <1>1, Excess
<1> QED
  BY <1>1, <1>2, <1>3 DEF d

\* A sum of naturals is a natural.
LEMMA SumNat ==
  ASSUME NEW a, NEW T, IsFiniteSet(T), \A x \in T : a[x] \in Nat
  PROVE  Sum(a, T) \in Nat
<1> DEFINE G == {S \in SUBSET T : Sum(a, S) \in Nat}
<1>1. {} \in G
  BY SumEmpty
<1>2. ASSUME NEW S \in SUBSET T, NEW x \in T \ S, S \in G PROVE S \cup {x} \in G
  <2>1. Sum(a, S \cup {x}) = a[x] + Sum(a, S)
    BY SumWith
  <2> QED
    BY <1>2, <2>1
<1> HIDE DEF G
<1>3. T \in G
  BY <1>1, <1>2, OneByOne
<1> QED
  BY <1>3 DEF G

\* The sums of a state are integers.
LEMMA Sums ==
  ASSUME CapTypeOK
  PROVE  /\ Sum(logs, Task) \in Nat /\ Sum(counted, Task) \in Nat /\ Measured \in Nat
         /\ Sum(unread, Task) \in Nat /\ Known \in Int /\ Unseen \in Nat
         /\ \A t \in Task : Owes(t) \in Int /\ Due[t] \in Int
         /\ Sum(Due, Task) \in Int
         /\ \A s \in Step : /\ Sum(Reserve(s), Task) \in Int
                            /\ \A t \in Task : Reserve(s)[t] \in Int
<1>1. \A t \in Task : logs[t] \in Nat /\ counted[t] \in Nat /\ unread[t] \in Nat /\ tries[t] \in Nat
  BY DEF CapTypeOK
<1>2. /\ Sum(logs, Task) \in Nat /\ Sum(counted, Task) \in Nat /\ Measured \in Nat
      /\ Sum(unread, Task) \in Nat /\ Known \in Int /\ Unseen \in Nat
  <2>1. Sum(logs, Task) \in Nat /\ Sum(counted, Task) \in Nat /\ Sum(unread, Task) \in Nat
    BY <1>1, TaskParts, SumNat
  <2>2. {carried, told, unseen} \subseteq Nat
    BY DEF CapTypeOK
  <2> QED
    BY <2>1, <2>2 DEF Measured, ScannedUsd, Known, Unseen
<1>3. \A t \in Task : Owes(t) \in Int
  BY <1>1, Numbers DEF Owes
<1>4. \A t \in Task : Due[t] \in Int
  BY <1>3 DEF Due
<1>5. \A s \in Step : \A t \in Task : Reserve(s)[t] \in Int
  BY <1>3, Numbers DEF Reserve
<1> QED
  BY <1>2, <1>3, <1>4, <1>5, TaskParts, SumInt

\* These facts under a name, for the next state too.
SumsOK ==
  /\ Sum(logs, Task) \in Nat /\ Sum(counted, Task) \in Nat /\ Measured \in Nat
  /\ Sum(unread, Task) \in Nat /\ Known \in Int /\ Unseen \in Nat
  /\ \A t \in Task : Owes(t) \in Int /\ Due[t] \in Int
  /\ Sum(Due, Task) \in Int
  /\ \A s \in Step : /\ Sum(Reserve(s), Task) \in Int
                     /\ \A t \in Task : Reserve(s)[t] \in Int

\* They hold in every state of the right types.
LEMMA SumsNow == CapTypeOK => SumsOK
  BY Sums DEF SumsOK

\* The same of the next state.
LEMMA SumsNext == (CapTypeOK => SumsOK)'
  BY SumsNow, PTL

\* A step that concerns one task moves every sum by what it changes of that task.
LEMMA OneTask ==
  ASSUME CapTypeOK, CapTypeOK', NEW t \in Task, carried' = carried,
         \A x \in Task \ {t} : /\ logs'[x] = logs[x] /\ counted'[x] = counted[x]
                               /\ unread'[x] = unread[x]
                               /\ task'[x] = task[x] /\ tries'[x] = tries[x]
  PROVE  /\ Sum(logs, Task)' = Sum(logs, Task) + logs'[t] - logs[t]
         /\ Sum(unread, Task)' = Sum(unread, Task) + unread'[t] - unread[t]
         /\ Known' = Known + (told' - told) - (unread'[t] - unread[t])
         /\ Measured' = Measured + counted'[t] - counted[t]
         /\ Sum(Due, Task)' = Sum(Due, Task) + Due'[t] - Due[t]
         /\ \A s \in Step : Sum(Reserve(s), Task)' = Sum(Reserve(s), Task) + Reserve(s)'[t] - Reserve(s)[t]
<1>1. \A x \in Task : /\ logs[x] \in Int /\ counted[x] \in Int /\ unread[x] \in Int /\ Due[x] \in Int
                      /\ logs'[x] \in Int /\ counted'[x] \in Int /\ unread'[x] \in Int
                      /\ Due'[x] \in Int
  <2>1. SumsOK /\ SumsOK'
    BY SumsNow, SumsNext
  <2> QED
    BY <2>1 DEF CapTypeOK, SumsOK
<1>2. \A s \in Step : \A x \in Task : Reserve(s)[x] \in Int /\ Reserve(s)'[x] \in Int
  BY Sums, SumsNext DEF SumsOK
<1>3. \A x \in Task \ {t} : Due'[x] = Due[x]
  BY DEF Due, Owes
<1>4. \A s \in Step : \A x \in Task \ {t} : Reserve(s)'[x] = Reserve(s)[x]
  BY DEF Reserve, Owes
<1>5. Sum(logs', Task) = Sum(logs, Task) + logs'[t] - logs[t]
  BY <1>1, TaskParts, SumMoves
<1>6. Sum(counted', Task) = Sum(counted, Task) + counted'[t] - counted[t]
  BY <1>1, TaskParts, SumMoves
<1>7. Sum(Due', Task) = Sum(Due, Task) + Due'[t] - Due[t]
  BY <1>1, <1>3, TaskParts, SumMoves
<1>8. ASSUME NEW s \in Step
      PROVE  Sum(Reserve(s)', Task) = Sum(Reserve(s), Task) + Reserve(s)'[t] - Reserve(s)[t]
  BY <1>2, <1>4, TaskParts, SumMoves
<1>9. Measured' = Measured + counted'[t] - counted[t]
  <2>1. Sum(counted, Task) \in Int /\ carried \in Int
    <3>1. Sum(counted, Task) \in Int
      BY Sums
    <3> QED
      BY <3>1 DEF CapTypeOK
  <2> QED
    BY <1>1, <1>6, <2>1 DEF Measured, ScannedUsd
<1>10. Sum(unread', Task) = Sum(unread, Task) + unread'[t] - unread[t]
  BY <1>1, TaskParts, SumMoves
<1>11. Known' = Known + (told' - told) - (unread'[t] - unread[t])
  <2>1. Sum(unread, Task) \in Int /\ told \in Int /\ told' \in Int
    <3>1. Sum(unread, Task) \in Int
      BY Sums
    <3> QED
      BY <3>1 DEF CapTypeOK
  <2> QED
    BY <1>1, <1>10, <2>1 DEF Known
<1> QED
  BY <1>5, <1>7, <1>8, <1>9, <1>10, <1>11

\* The steps of a level.
LEMMA LevelParts == ASSUME CapTypeOK PROVE Level \subseteq Step /\ IsFiniteSet(Level)
<1>1. plan.levels \in Seq(SUBSET Step) /\ level \in 1..Len(plan.levels)
  BY SpendAssumption DEF CapTypeOK
<1>2. Level \subseteq Step
  BY <1>1 DEF Level
<1> QED
  BY <1>2, FS_Subset, SpendAssumption

\* What is open at once is what InFlight allows for.
LEMMA OpenFits ==
  ASSUME CapTypeOK, Tasks, Steps
  PROVE  Sum(Due, Task) <= InFlight /\ InFlight \in Int
<1> DEFINE part == [s \in Level |-> Open \cap TasksOf(s)]
           most == [s \in Step |-> Width(s) * (Attempts[s] * Price)]
<1>1. /\ Level \subseteq Step /\ IsFiniteSet(Level) /\ IsFiniteSet(Open) /\ Open \subseteq Task
      /\ \A t \in Task : Due[t] \in Int
  BY LevelParts, Sums, TaskParts, FS_Subset DEF Open
<1>2. Sum(Due, Open) = Sum(Due, Task)
  <2>1. \A t \in Task : Due[t] = IF t \in Open THEN Due[t] ELSE 0
    BY DEF Due, Open, Taken
  <2> QED
    BY <1>1, <2>1, TaskParts, SumPart
<1>3. part \in [Level -> SUBSET Open] /\ Open = UNION {part[s] : s \in Level}
  <2>1. \A t \in Open : StepOf(t) \in Level /\ t \in TasksOf(StepOf(t))
    BY TaskParts DEF Tasks, Steps, Open, Taken
  <2> QED
    BY <2>1
<1>4. \A r, s \in Level : r # s => part[r] \cap part[s] = {}
  BY <1>1, TaskParts
<1>5. ASSUME NEW s \in Level PROVE most[s] \in Int /\ Sum(Due, part[s]) <= most[s]
  <2> DEFINE e == Attempts[s] * Price  S == Open \cap TasksOf(s)
  <2>1. s \in Step /\ e \in Nat /\ Width(s) \in Nat
    BY <1>1, Numbers
  <2>2. IsFiniteSet(S) /\ Cardinality(S) \in Nat /\ Cardinality(S) <= Width(s)
    BY <1>1, <2>1, FS_Subset, FS_CardinalityType DEF Steps
  <2>3. \A t \in S : Due[t] \in Int /\ Due[t] <= e
    BY <1>1, <2>1, TaskParts DEF Tasks, Due, Open, Taken
  <2>4. most[s] = Width(s) * e
    BY <2>1
  <2> HIDE DEF e, S, most
  <2>5. Sum(Due, S) <= Cardinality(S) * e
    BY <2>1, <2>2, <2>3, SumEach
  <2>6. Sum(Due, S) \in Int
    BY <2>2, <2>3, SumInt
  <2>7. \A m, n, k \in Nat : m <= n => m * k <= n * k /\ m * k \in Nat /\ n * k \in Nat
    OBVIOUS
  <2>8. Sum(Due, S) <= most[s] /\ most[s] \in Int
    BY <2>1, <2>2, <2>4, <2>5, <2>6, <2>7
  <2> QED
    BY <2>8 DEF S
<1>6. InFlight = Sum(most, Level)
  BY DEF InFlight
<1> HIDE DEF part, most
<1>7. Sum(Due, Open) <= Sum(most, Level)
  BY <1>1, <1>3, <1>4, <1>5, SumGroups
<1>8. Sum(most, Level) \in Int
  BY <1>1, <1>5, SumInt
<1> QED
  BY <1>2, <1>6, <1>7, <1>8

\* As an implication, to be read in the next state.
LEMMA OpenFitsNow == CapTypeOK /\ Tasks /\ Steps => Sum(Due, Task) <= InFlight /\ InFlight \in Int
  BY OpenFits

\* The same of the next state.
LEMMA OpenFitsNext == (CapTypeOK /\ Tasks /\ Steps => Sum(Due, Task) <= InFlight /\ InFlight \in Int)'
  BY OpenFitsNow, PTL

\* A cut adds to the logs what it adds to the spend they tell.
LEMMA CutAdds ==
  ASSUME CapTypeOK, Cut
  PROVE  /\ logs' \in [Task -> Nat] /\ Sum(logs', Task) \in Nat /\ told' \in Nat /\ untold' \in Nat
         /\ \A t \in Task : /\ logs[t] <= logs'[t] /\ logs'[t] <= logs[t] + Price
                            /\ task[t] # "running" => logs'[t] = logs[t]
         /\ Sum(logs', Task) - Sum(logs, Task) = told' - told /\ told' >= told
         /\ (spent' > spent => \E t \in Task : task[t] = "running")
<1>1. PICK T \in SUBSET Holders, usd \in [Holders -> Costs \cup {0}] :
        /\ logs' = [t \in Task |-> logs[t] + (IF t \in T THEN usd[t] ELSE 0)]
        /\ told' = told + Sum(usd, T)
        /\ untold' = untold + Sum(usd, Holders \ T)
  BY DEF Cut
<1>2. /\ Holders \subseteq Task /\ IsFiniteSet(Task) /\ T \subseteq Task
      /\ IsFiniteSet(T) /\ IsFiniteSet(Holders \ T)
  <2>1. Holders \subseteq Task /\ IsFiniteSet(Task)
    BY TaskParts DEF Holders
  <2>2. T \subseteq Task /\ Holders \ T \subseteq Task
    BY <2>1
  <2> QED
    BY <2>1, <2>2, FS_Subset
<1>3. \A t \in Holders : usd[t] \in 0..Price /\ usd[t] \in Nat
  BY Numbers
<1>4. Sum(usd, T) \in Nat /\ Sum(usd, Holders \ T) \in Nat
  BY <1>2, <1>3, SumNat
<1> DEFINE paid == [t \in Task |-> IF t \in T THEN usd[t] ELSE 0]
<1>5. \A t \in Task : paid[t] \in 0..Price /\ paid[t] \in Nat
  BY <1>3, Numbers
<1>6. Sum(usd, T) = Sum(paid, Task)
  BY <1>2, <1>3, SumPart
<1>7. \A t \in Task : logs[t] \in Nat /\ logs'[t] = logs[t] + paid[t]
  BY <1>1 DEF CapTypeOK
<1>8. logs' \in [Task -> Nat]
  <2>1. logs' = [t \in Task |-> logs'[t]]
    BY <1>1
  <2> QED
    BY <1>5, <1>7, <2>1
<1>9. \A t \in Task : task[t] # "running" => paid[t] = 0
  BY DEF Holders
<1> HIDE DEF paid
<1>10. Sum(logs', Task) = Sum(logs, Task) + Sum(paid, Task)
  BY <1>2, <1>5, <1>7, SumPlus
<1>11. Sum(logs, Task) \in Nat /\ told \in Nat /\ untold \in Nat
  <2>1. SumsOK
    BY SumsNow
  <2> QED
    BY <2>1 DEF SumsOK, CapTypeOK
<1>12. ASSUME ~ \E t \in Task : task[t] = "running" PROVE Sum(usd, T) = 0 /\ Sum(usd, Holders \ T) = 0
  <2>1. T = {} /\ Holders \ T = {}
    BY <1>12 DEF Holders
  <2> QED
    BY <2>1, SumEmpty
<1>13. \A t \in Task : /\ logs[t] <= logs'[t] /\ logs'[t] <= logs[t] + Price
                       /\ task[t] # "running" => logs'[t] = logs[t]
  BY <1>5, <1>7, <1>9, Numbers
<1>14. /\ told' \in Nat /\ untold' \in Nat /\ told' >= told /\ Sum(logs', Task) \in Nat
       /\ Sum(logs', Task) - Sum(logs, Task) = told' - told
  BY <1>1, <1>4, <1>6, <1>10, <1>11
<1>15. spent' > spent => \E t \in Task : task[t] = "running"
  BY <1>1, <1>11, <1>12 DEF spent
<1> QED
  BY <1>8, <1>13, <1>14, <1>15

\* What is unread is a number, whatever is read.
LEMMA UnreadNat ==
  ASSUME CapTypeOK, logs' \in [Task -> Nat], \A t \in Task : logs[t] <= logs'[t], NEW T
  PROVE  Unread(T) \in [Task -> Nat]
<1>1. \A t \in Task : unread[t] + logs'[t] - logs[t] \in Nat
  BY SMTT(20) DEF CapTypeOK
<1> QED
  BY <1>1 DEF Unread

\* Ctrl-C: what the ledger then holds is no more than was told.
LEMMA ReadOpen ==
  ASSUME CapInv, live, Cut, Read(Open)
  PROVE  /\ counted' \in [Task -> Nat] /\ recorded' \in Nat
         /\ ~skipped => recorded' <= told'
<1>1. /\ logs' \in [Task -> Nat] /\ Sum(logs', Task) \in Nat /\ told' \in Nat
      /\ \A t \in Task : logs[t] <= logs'[t]
      /\ Sum(logs', Task) - Sum(logs, Task) = told' - told
  BY CutAdds DEF CapInv
<1>2. /\ counted' = [t \in Task |-> IF t \in Open THEN logs'[t] ELSE counted[t]]
      /\ recorded' = carried + Sum(counted', Task)
  BY DEF Read
<1>3. /\ counted \in [Task -> Nat] /\ logs \in [Task -> Nat] /\ unread \in [Task -> Nat]
      /\ carried \in Nat /\ told \in Nat
  BY DEF CapInv, CapTypeOK
<1>4. \A t \in Task : counted[t] <= logs[t]
  BY <1>3 DEF CapInv, Tasks
<1>5. counted' \in [Task -> Nat] /\ \A t \in Task : counted'[t] <= logs'[t]
  BY <1>1, <1>2, <1>3, <1>4
<1>6. Sum(counted', Task) \in Nat /\ Sum(counted', Task) <= Sum(logs', Task)
  BY <1>1, <1>5, TaskParts, SumNat, SumAtMost
<1>7. Sum(logs, Task) \in Nat /\ (~skipped => carried + Sum(logs, Task) <= told)
  <2>1. SumsOK
    BY SumsNow DEF CapInv
  <2> QED
    BY <2>1 DEF CapInv, Booked, SumsOK
<1> QED
  BY <1>1, <1>2, <1>3, <1>5, <1>6, <1>7

\* The types survive every step.
LEMMA CapTypeStep == ASSUME CapInv, [CapNext]_capVars PROVE CapTypeOK'
<1>0. /\ SumsOK /\ IsFiniteSet(Task) /\ \A s \in Step : Attempts[s] \in Nat /\ TasksOf(s) \subseteq Task
      /\ \A t \in Task : StepOf(t) \in Step
      /\ Caps \cup {DefaultCap} \subseteq Nat /\ Costs \subseteq Nat
  <2>1. SumsOK
    BY SumsNow DEF CapInv
  <2>2. Costs \subseteq Nat /\ Caps \cup {DefaultCap} \subseteq Nat
    BY SpendAssumption
  <2> QED
    BY <2>1, <2>2, TaskParts, Numbers
<1> USE DEF CapTypeOK, Taken, Closed
<1>1. CASE UNCHANGED capVars
  BY <1>1 DEF capVars, CapInv
<1>2. ASSUME NEW s \in Step, StartStep(s) PROVE CapTypeOK'
  BY <1>2 DEF StartStep, disk, bill, gate, CapInv
<1>3. ASSUME NEW s \in Step, Enter(s) PROVE CapTypeOK'
  <2>1. PICK i \in DOMAIN Roster[s] :
          LET t == Roster[s][i] IN
          /\ trip' = [trip EXCEPT ![s] = Refuses(s)]
          /\ task' = [task EXCEPT ![t] = IF Refuses(s) THEN "held"
                                         ELSE IF t \in leaf THEN "ended" ELSE "scoped"]
          /\ tries' = [tries EXCEPT ![t] = IF task'[t] = "scoped" THEN Attempts[s] ELSE 0]
          /\ UNCHANGED <<disk, ghosts, live, level, recorded, step, carried, counted, finished, failed,
                         faults, bill>>
    BY <1>3 DEF Enter
  <2>2. Refuses(s) \in BOOLEAN
    BY DEF Refuses, Exhausted, FailureRate, CapInv
  <2> QED
    BY <1>0, <2>1, <2>2 DEF disk, bill, ghosts, CapInv
<1>4. ASSUME NEW s \in Step, StepEnds(s) PROVE CapTypeOK'
  BY <1>4 DEF StepEnds, disk, bill, gate, ghosts, CapInv
<1>5. ASSUME NEW t \in Task, Begin(t) PROVE CapTypeOK'
  BY <1>5 DEF Begin, disk, bill, gate, ghosts, CapInv
<1> DEFINE Good == /\ logs' \in [Task -> Nat] /\ counted' \in [Task -> Nat] /\ unread' \in [Task -> Nat]
                  /\ {recorded', carried', faults'} \subseteq Nat
<1>6. ASSUME NEW t \in Task, logs' \in [Task -> Nat], \A x \in Task : logs[x] <= logs'[x],
             NEW n \in {0, 1}, Observe(t, n)
      PROVE  Good
  <2>1. CASE Read({t}) /\ Faults(n)
    <3>1. counted' \in [Task -> Nat] /\ unread' \in [Task -> Nat]
      BY <2>1, <1>6, UnreadNat DEF Read, CapInv
    <3>2. Sum(counted', Task) \in Nat
      BY <1>0, <3>1, SumNat
    <3>3. faults' \in Nat /\ carried' \in Nat /\ carried' = carried
      BY SMTT(20), <1>6, <2>1 DEF Observe, Faults, CapInv
    <3>4. recorded' = carried + Sum(counted', Task)
      BY <2>1 DEF Read
    <3>5. recorded' \in Nat
      BY <3>2, <3>3, <3>4
    <3> QED
      BY <1>6, <3>1, <3>3, <3>5
  <2>2. CASE NoRead /\ Faults(n + 1)
    <3>1. unread' \in [Task -> Nat]
      BY <2>2, <1>6, UnreadNat DEF NoRead, CapInv
    <3>2. carried' = carried /\ faults' = faults + (n + 1) /\ n \in {0, 1}
      BY <1>6, <2>2 DEF Observe, Faults
    <3>3. faults' \in Nat
      <4>1. faults \in Nat
        BY DEF CapInv
      <4> QED
        BY <3>2, <4>1
    <3> QED
      BY <1>6, <2>2, <3>1, <3>2, <3>3 DEF NoRead, CapInv
  <2> QED
    BY <1>6, <2>1, <2>2 DEF Observe
<1>6a. ASSUME NEW t \in Task, NEW usd \in Costs, NEW tells \in BOOLEAN, Pay(t, usd, tells)
       PROVE  /\ logs' \in [Task -> Nat] /\ told' \in Nat /\ untold' \in Nat
              /\ \A x \in Task : logs[x] <= logs'[x]
  <2>1. usd \in Nat /\ logs \in [Task -> Nat] /\ {told, untold} \subseteq Nat
    BY <1>0 DEF CapInv
  <2>2. /\ logs' = [logs EXCEPT ![t] = IF tells THEN logs[t] + usd ELSE logs[t]]
        /\ told' = IF tells THEN told + usd ELSE told
        /\ untold' = IF tells THEN untold ELSE untold + usd
    BY <1>6a DEF Pay
  <2>3. logs' \in [Task -> Nat] /\ \A x \in Task : logs[x] <= logs'[x]
    BY <2>1, <2>2
  <2> QED
    BY <2>1, <2>2, <2>3
<1>6b. \A tells \in BOOLEAN : Untold(tells) \in {0, 1}
  BY DEF Untold
<1>7. ASSUME NEW t \in Task, ScopeEnds(t) PROVE CapTypeOK'
  <2>1. Good
    <3>1. logs' = logs /\ Observe(t, 0) /\ logs \in [Task -> Nat]
      BY <1>7 DEF ScopeEnds, CapInv
    <3>2. \A x \in Task : logs[x] <= logs'[x]
      BY <3>1
    <3> QED
      BY <1>6, <3>1, <3>2
  <2>2. /\ task' = [task EXCEPT ![t] = IF t \in leaf THEN "completed" ELSE "failed"]
        /\ finished' = [finished EXCEPT ![StepOf(t)] = @ + 1]
        /\ failed' = [failed EXCEPT ![StepOf(t)] = IF t \in leaf THEN @ ELSE @ + 1]
    BY <1>7 DEF ScopeEnds
  <2>3. /\ task' \in [Task -> Taken \cup Closed \cup {"queued", "held"}]
        /\ finished' \in [Step -> Nat] /\ failed' \in [Step -> Nat]
    <3>1. task \in [Task -> Taken \cup Closed \cup {"queued", "held"}] /\ finished \in [Step -> Nat] /\ failed \in [Step -> Nat]
      BY DEF CapInv
    <3> QED
      BY <1>0, <2>2, <3>1
  <2>4. UNCHANGED <<plan, cap, launches, leaf, ghosts, live, level, step, tries, trip, told, untold>>
    BY <1>7 DEF ScopeEnds
  <2>5. /\ plan' \in Plans /\ live' \in BOOLEAN /\ level' \in 1..Len(plan'.levels)
        /\ {cap', told', untold', unseen', launches'} \subseteq Nat
        /\ leaf' \subseteq Task /\ tries' \in [Task -> Nat] /\ trip' \in [Step -> BOOLEAN]
        /\ step' \in [Step -> {"pending", "dispatching", "completed", "failed"}]
        /\ lost' \in BOOLEAN /\ skipped' \in BOOLEAN /\ together' \in BOOLEAN
    BY <2>4 DEF ghosts, CapInv
  <2> QED
    BY <2>1, <2>3, <2>5
<1>8. ASSUME NEW t \in Task, NEW usd \in Costs, NEW tells \in BOOLEAN, Retry(t, usd, tells) PROVE CapTypeOK'
  <2>1. Good /\ told' \in Nat /\ untold' \in Nat
    <3>1. /\ logs' \in [Task -> Nat] /\ told' \in Nat /\ untold' \in Nat
          /\ \A x \in Task : logs[x] <= logs'[x]
      BY <1>6a, <1>8 DEF Retry
    <3>2. unread' \in [Task -> Nat] /\ UNCHANGED <<counted, recorded, carried>>
      BY <1>8, <3>1, UnreadNat DEF Retry, NoRead, CapInv
    <3>3. faults' \in Nat
      <4>1. faults' = faults + Untold(tells) /\ Untold(tells) \in {0, 1} /\ faults \in Nat
        BY <1>6b, <1>8 DEF Retry, Faults, CapInv
      <4> QED
        BY <4>1
    <3> QED
      BY <3>1, <3>2, <3>3 DEF CapInv
  <2>2. tries' \in [Task -> Nat] /\ task' \in [Task -> Taken \cup Closed \cup {"queued", "held"}]
    <3>1. tries \in [Task -> Nat] /\ tries[t] > 1 /\ task \in [Task -> Taken \cup Closed \cup {"queued", "held"}]
      BY <1>8 DEF Retry, CapInv
    <3>2. tries[t] - 1 \in Nat
      BY <3>1
    <3>3. tries' = [tries EXCEPT ![t] = tries[t] - 1] /\ task' = [task EXCEPT ![t] = "scoped"]
      BY <1>8 DEF Retry
    <3> QED
      BY <3>1, <3>2, <3>3
  <2>3. UNCHANGED <<plan, cap, launches, leaf, gate, ghosts, live, level, step, carried>>
    BY <1>8 DEF Retry
  <2>4. /\ plan' \in Plans /\ live' \in BOOLEAN /\ level' \in 1..Len(plan'.levels)
        /\ {cap', unseen', launches'} \subseteq Nat
        /\ leaf' \subseteq Task /\ trip' \in [Step -> BOOLEAN]
        /\ finished' \in [Step -> Nat] /\ failed' \in [Step -> Nat]
        /\ step' \in [Step -> {"pending", "dispatching", "completed", "failed"}]
        /\ lost' \in BOOLEAN /\ skipped' \in BOOLEAN /\ together' \in BOOLEAN
    BY <2>3 DEF gate, ghosts, CapInv
  <2> QED
    BY <2>1, <2>2, <2>4
<1>9. ASSUME NEW t \in Task, NEW usd \in Costs, NEW tells \in BOOLEAN, NEW ok \in BOOLEAN,
             LeafEnds(t, usd, tells, ok)
      PROVE  CapTypeOK'
  <2>1. /\ logs' \in [Task -> Nat] /\ told' \in Nat /\ untold' \in Nat
        /\ \A x \in Task : logs[x] <= logs'[x]
    BY <1>6a, <1>9 DEF LeafEnds
  <2>2. Good
    <3>1. Observe(t, Untold(tells)) /\ Untold(tells) \in {0, 1}
      BY <1>6b, <1>9 DEF LeafEnds
    <3> QED
      BY <1>6, <2>1, <3>1
  <2> QED
    BY <1>9, <2>1, <2>2 DEF LeafEnds, gate, ghosts, CapInv
<1>10. CASE LevelEnds
  <2>1. Lacks \in Nat
    BY LacksNow DEF CapInv
  <2>2. level' \in 1..Len(plan.levels)
    <3>1. Len(plan.levels) \in Nat /\ level \in 1..Len(plan.levels)
      BY SMTT(20), SpendAssumption DEF CapInv
    <3>2. level' = level \/ (level < Len(plan.levels) /\ level' = level + 1)
      BY <1>10 DEF LevelEnds
    <3> QED
      BY <3>1, <3>2
  <2>3. live' \in BOOLEAN
    BY <1>10 DEF LevelEnds
  <2> QED
    BY <1>10, <2>1, <2>2, <2>3 DEF LevelEnds, disk, bill, gate, CapInv
<1>11. ASSUME NEW c \in Caps \cup {cap}, RunProcess(c) PROVE CapTypeOK'
  <2>1. PICK S \in SUBSET {t \in Task : logs[t] > 0} :
          /\ Faults(Cardinality(S))
          /\ counted' = [t \in Task |-> IF t \in S THEN 0 ELSE logs[t]]
          /\ carried' = Carry(counted')
          /\ recorded' = carried' + Sum(counted', Task)
          /\ unread' = [t \in Task |-> 0]
          /\ skipped' = (skipped \/ S # {})
    BY <1>11 DEF RunProcess, OpenLedger
  <2>2. 1 \in 1..Len(plan.levels)
    BY DEF CapInv
  <2>3. /\ {carried', recorded', cap', faults'} \subseteq Nat /\ counted' \in [Task -> Nat]
        /\ unread' \in [Task -> Nat] /\ skipped' \in BOOLEAN
    <3>1. counted' \in [Task -> Nat] /\ unread' \in [Task -> Nat] /\ skipped' \in BOOLEAN
      BY <2>1 DEF CapInv
    <3>2. Sum(counted', Task) \in Nat
      BY <1>0, <3>1, SumNat
    <3>3. carried' \in Nat
      BY <2>1, <3>2, CarryParts DEF CapInv
    <3>4. recorded' \in Nat
      BY <2>1, <3>2, <3>3
    <3>5. cap' = c /\ c \in Nat
      BY <1>0, <1>11 DEF RunProcess, CapInv
    <3>6. faults' \in Nat
      <4>1. IsFiniteSet(S)
        BY <1>0, FS_Subset
      <4>2. Cardinality(S) \in Nat
        BY <4>1, FS_CardinalityType
      <4> QED
        BY <2>1, <4>2 DEF Faults, CapInv
    <3> QED
      BY <3>1, <3>3, <3>4, <3>5, <3>6
  <2>4. /\ plan' = plan /\ level' = 1 /\ live' = TRUE /\ logs' = logs /\ leaf' = leaf
        /\ told' = told /\ untold' = untold /\ unseen' = unseen /\ lost' = lost /\ together' = FALSE /\ launches' = launches + 1
    BY <1>11 DEF RunProcess
  <2>5. /\ step' \in [Step -> {"pending", "dispatching", "completed", "failed"}]
        /\ task' \in [Task -> Taken \cup Closed \cup {"queued", "held"}] /\ tries' \in [Task -> Nat]
        /\ finished' \in [Step -> Nat] /\ failed' \in [Step -> Nat] /\ trip' \in [Step -> BOOLEAN]
    BY <1>11 DEF RunProcess
  <2> QED
    <3>1. /\ plan' \in Plans /\ live' \in BOOLEAN /\ lost' \in BOOLEAN /\ together' \in BOOLEAN
          /\ {told', untold', unseen', launches'} \subseteq Nat
          /\ logs' \in [Task -> Nat] /\ leaf' \subseteq Task
          /\ level' \in 1..Len(plan'.levels)
      <4>1. CapTypeOK
        BY DEF CapInv
      <4>2. plan' \in Plans /\ live' \in BOOLEAN /\ lost' \in BOOLEAN /\ together' \in BOOLEAN
        BY <4>1, <2>4
      <4>3. {told', untold', unseen', launches'} \subseteq Nat
        BY <4>1, <2>4
      <4>4. logs' \in [Task -> Nat] /\ leaf' \subseteq Task
        BY <4>1, <2>4
      <4>5. level' \in 1..Len(plan'.levels)
        BY <2>2, <2>4
      <4> QED
        BY <4>2, <4>3, <4>4, <4>5
    <3> QED
      BY <2>3, <2>5, <3>1
<1>12. ASSUME NEW t \in Task, LoseLogs(t) PROVE CapTypeOK'
  <2>1. logs' \in [Task -> Nat] /\ lost' = TRUE /\ faults' = faults + 1 /\ faults \in Nat
    BY <1>12 DEF LoseLogs, Faults, CapInv
  <2>2. UNCHANGED <<plan, cap, launches, leaf, gate, live, level, recorded, step, task, tries, carried,
                    counted, bill, unseen, skipped, together>>
    BY <1>12 DEF LoseLogs
  <2>3. {cap', recorded', carried', told', untold', unseen', faults', launches'} \subseteq Nat
    BY <2>1, <2>2 DEF bill, CapInv
  <2>4. /\ plan' \in Plans /\ live' \in BOOLEAN /\ level' \in 1..Len(plan'.levels)
        /\ leaf' \subseteq Task /\ counted' \in [Task -> Nat] /\ unread' \in [Task -> Nat]
        /\ step' \in [Step -> {"pending", "dispatching", "completed", "failed"}]
        /\ task' \in [Task -> Taken \cup Closed \cup {"queued", "held"}]
        /\ tries' \in [Task -> Nat] /\ finished' \in [Step -> Nat] /\ failed' \in [Step -> Nat]
        /\ trip' \in [Step -> BOOLEAN] /\ skipped' \in BOOLEAN /\ together' \in BOOLEAN
    BY <2>2 DEF bill, gate, CapInv
  <2> QED
    BY <2>1, <2>3, <2>4
<1>13. ASSUME Cut, counted' \in [Task -> Nat], recorded' \in Nat, unread' = Unread({}) \/ unread' = Unread(Open),
              unseen' = Lacks'
       PROVE  CapTypeOK'
  <2>1. logs' \in [Task -> Nat] /\ told' \in Nat /\ untold' \in Nat /\ \A t \in Task : logs[t] <= logs'[t]
    BY <1>13, CutAdds DEF CapInv
  <2>2. carried' = carried /\ live' = FALSE /\ faults' = faults + 1
    BY <1>13 DEF Cut, Faults
  <2>3. unread' \in [Task -> Nat]
    <3>1. Unread({}) \in [Task -> Nat] /\ Unread(Open) \in [Task -> Nat]
      BY <2>1, UnreadNat DEF CapInv
    <3> QED
      BY <1>13, <3>1
  <2>4. unseen' \in Nat
    BY <1>13, <2>1, LacksNext
  <2> QED
    <3>1. /\ plan' = plan /\ cap' = cap /\ launches' = launches /\ leaf' = leaf /\ level' = level
          /\ step' = step /\ task' = task /\ tries' = tries /\ lost' = lost /\ skipped' = skipped
          /\ together' = together /\ finished' = finished /\ failed' = failed /\ trip' = trip
      BY <1>13 DEF Cut, gate
    <3>2. CapTypeOK
      BY DEF CapInv
    <3> QED
      <4>1. {cap', recorded', carried', told', untold', unseen', faults', launches'} \subseteq Nat
        BY SMTT(20), <1>13, <2>1, <2>2, <2>4, <3>1, <3>2
      <4>2. /\ plan' \in Plans /\ live' \in BOOLEAN /\ lost' \in BOOLEAN /\ skipped' \in BOOLEAN
            /\ together' \in BOOLEAN
        BY <2>2, <3>1, <3>2
      <4>3. leaf' \subseteq Task /\ level' \in 1..Len(plan'.levels)
        BY <3>1, <3>2
      <4>4. /\ step' \in [Step -> {"pending", "dispatching", "completed", "failed"}]
            /\ task' \in [Task -> Taken \cup Closed \cup {"queued", "held"}]
            /\ tries' \in [Task -> Nat] /\ finished' \in [Step -> Nat] /\ failed' \in [Step -> Nat]
            /\ trip' \in [Step -> BOOLEAN]
        BY <3>1, <3>2
      <4> QED
        BY <1>13, <2>1, <2>3, <4>1, <4>2, <4>3, <4>4
<1>14. CASE Crash
  <2>1. /\ Cut /\ counted' \in [Task -> Nat] /\ recorded' \in Nat /\ unread' = Unread({})
        /\ unseen' = Lacks'
    BY <1>14 DEF Crash, NoRead, CapInv
  <2> QED
    BY <1>13, <2>1
<1>15. CASE Interrupt
  <2>1. Cut /\ live /\ Read(Open) /\ unread' = Unread(Open) /\ unseen' = Lacks'
    BY <1>15 DEF Interrupt, Cut, Read
  <2>2. counted' \in [Task -> Nat] /\ recorded' \in Nat
    BY <2>1, ReadOpen
  <2> QED
    BY <1>13, <2>1, <2>2
<1> HIDE DEF CapTypeOK
<1> QED
  BY <1>1, <1>2, <1>3, <1>4, <1>5, <1>7, <1>8, <1>9, <1>10, <1>11, <1>12, <1>14, <1>15 DEF CapNext, Work

\* A step of one open task: whatever its agent costs, the ledger reads or misses, the task
\* owes no more than it did before.
LEMMA TaskSettles ==
  ASSUME CapInv, CapTypeOK', live, live', NEW t \in Task, task[t] \in Taken,
         UNCHANGED <<plan, level, cap, carried, lost, skipped, unseen, together, step>>,
         \A x \in Task \ {t} : /\ logs'[x] = logs[x] /\ counted'[x] = counted[x]
                               /\ unread'[x] = unread[x]
                               /\ task'[x] = task[x] /\ tries'[x] = tries[x],
         task'[t] \in Taken \cup Closed,
         counted'[t] + unread'[t] <= logs'[t],
         told' - told = logs'[t] - logs[t],
         logs'[t] - logs[t] <= (counted'[t] - counted[t]) + (unread'[t] - unread[t]),
         recorded = Measured => recorded' = Measured',
         (told' - told) + Due'[t] - unread'[t] <= Due[t] - unread[t],
         task'[t] \in {"scoped", "running"} => tries'[t] > 0,
         task'[t] = "ended" => tries'[t] = 0,
         task'[t] \in Taken => Owes(t)' <= Owes(t)
  PROVE  CapInv'
<1>1. /\ CapTypeOK /\ Booked /\ Tasks /\ Steps /\ Gated /\ Prepared
  BY DEF CapInv
<1>2. /\ Sum(logs, Task)' = Sum(logs, Task) + logs'[t] - logs[t]
      /\ Measured' = Measured + counted'[t] - counted[t]
      /\ Sum(unread, Task)' = Sum(unread, Task) + unread'[t] - unread[t]
      /\ Known' = Known + (told' - told) - (unread'[t] - unread[t])
      /\ Sum(Due, Task)' = Sum(Due, Task) + Due'[t] - Due[t]
      /\ \A s \in Step : Sum(Reserve(s), Task)' = Sum(Reserve(s), Task) + Reserve(s)'[t] - Reserve(s)[t]
  BY <1>1, OneTask
<1>3. SumsOK /\ SumsOK'
  BY <1>1, SumsNow, SumsNext
<1>4. /\ {logs[t], logs'[t], counted[t], counted'[t], unread[t], unread'[t]} \subseteq Nat
      /\ {cap, carried, recorded, told, unseen, recorded', told'} \subseteq Nat
  BY <1>1 DEF CapTypeOK
<1>5. Tasks'
  <2> SUFFICES ASSUME NEW x \in Task
               PROVE  /\ counted'[x] + unread'[x] <= logs'[x]
                      /\ task'[x] \in {"queued", "held"} => unread'[x] = 0
                      /\ task'[x] \in {"scoped", "running"} => tries'[x] > 0
                      /\ task'[x] = "ended" => tries'[x] = 0
                      /\ task'[x] \in Taken => /\ Owes(x)' <= Attempts[StepOf(x)] * Price
                                               /\ step'[StepOf(x)] = "dispatching"
    BY DEF Tasks
  <2>1. CASE x = t
    <3>1. Owes(t) <= Attempts[StepOf(t)] * Price /\ step[StepOf(t)] = "dispatching"
      BY <1>1 DEF Tasks
    <3>2. Owes(t) \in Int /\ Owes(t)' \in Int /\ Attempts[StepOf(t)] * Price \in Int
      BY <1>3, TaskParts, Numbers DEF SumsOK
    <3>3. task'[t] \notin {"queued", "held"}
      BY DEF Taken, Closed
    <3> QED
      BY <2>1, <3>1, <3>2, <3>3
  <2>2. CASE x # t
    <3>1. x \in Task \ {t}
      BY <2>2
    <3> QED
      BY <1>1, <3>1 DEF Tasks, Owes
  <2> QED
    BY <2>1, <2>2
<1>6. Open' \subseteq Open
  BY DEF Open, Taken
<1>7. Steps'
  <2> SUFFICES ASSUME NEW s \in Step
               PROVE  /\ step'[s] = "dispatching" => s \in Level'
                      /\ step'[s] = "pending" => \A x \in TasksOf(s) : task'[x] \in {"queued", "completed"}
                      /\ Cardinality(Open' \cap TasksOf(s)) <= Width(s)
    BY DEF Steps
  <2>1. step'[s] = "dispatching" => s \in Level'
    BY <1>1 DEF Steps, Level
  <2>2. ASSUME step'[s] = "pending", NEW x \in TasksOf(s) PROVE task'[x] \in {"queued", "completed"}
    <3>1. x # t
      BY <1>1, <2>2, TaskParts DEF Tasks
    <3> QED
      BY <1>1, <2>2, <3>1, TaskParts DEF Steps
  <2>3. Cardinality(Open' \cap TasksOf(s)) <= Width(s)
    <3> DEFINE P == Open \cap TasksOf(s)  Q == Open' \cap TasksOf(s)
    <3>1. IsFiniteSet(P) /\ Q \subseteq P /\ Cardinality(P) <= Width(s)
      BY <1>1, <1>6, TaskParts, FS_Subset DEF Steps
    <3> HIDE DEF P, Q
    <3>2. Cardinality(Q) <= Cardinality(P) /\ Cardinality(P) \in Nat /\ Cardinality(Q) \in Nat
      BY <3>1, FS_Subset, FS_CardinalityType
    <3>3. Cardinality(Q) <= Width(s)
      BY <3>1, <3>2, Numbers
    <3> QED
      BY <3>3 DEF Q
  <2> QED
    BY <2>1, <2>2, <2>3
<1>8. InFlight' = InFlight /\ Unseen' = Unseen
  BY DEF InFlight, Level, Unseen
<1>9. Known' + Sum(Due, Task)' <= Known + Sum(Due, Task)
  <2>1. Due[t] \in Int /\ Due'[t] \in Int /\ Sum(Due, Task) \in Int /\ Known \in Int
    BY <1>3 DEF SumsOK
  <2> QED
    BY <1>2, <1>4, <2>1
<1>10. Gated'
  <2> SUFFICES ASSUME Open' # {} PROVE Known' + Sum(Due, Task)' < cap' + Unseen' + InFlight'
    BY DEF Gated
  <2>1. Open # {} /\ InFlight \in Int
    BY <1>1, <1>6, OpenFits
  <2> QED
    BY <1>1, <1>3, <1>4, <1>8, <1>9, <2>1 DEF Gated, SumsOK
<1>11. Prepared'
  <2> SUFFICES ASSUME ~together', NEW s \in Step, step'[s] = "dispatching"
               PROVE  /\ \A r \in Step : step'[r] = "dispatching" => r = s
                      /\ s \in plan'.priced => Known' + Sum(Reserve(s), Task)' <= cap' + Unseen'
    BY DEF Prepared
  <2>1. /\ \A r \in Step : step[r] = "dispatching" => r = s
        /\ s \in plan.priced => Known + Sum(Reserve(s), Task) <= cap + Unseen
    BY <1>1 DEF Prepared
  <2>2. s = StepOf(t) /\ t \in TasksOf(s)
    BY <1>1, <2>1, TaskParts DEF Tasks
  <2>3. Reserve(s)[t] = Due[t] /\ Reserve(s)'[t] = Due'[t]
    BY <2>2 DEF Reserve, Due, Taken, Closed
  <2>4. Due[t] \in Int /\ Due'[t] \in Int /\ Sum(Reserve(s), Task) \in Int /\ Known \in Int
    BY <1>3 DEF SumsOK
  <2>5. Sum(Reserve(s), Task)' = Sum(Reserve(s), Task) + Due'[t] - Due[t]
    BY <1>2, <2>3
  <2>6. Known' + Sum(Reserve(s), Task)' <= Known + Sum(Reserve(s), Task)
    BY <1>2, <1>4, <2>4, <2>5
  <2>7. Sum(Reserve(s), Task)' \in Int /\ Known' \in Int /\ Unseen \in Nat
    BY <1>3 DEF SumsOK
  <2> QED
    BY <1>4, <1>8, <2>1, <2>4, <2>6, <2>7
<1>12. Booked'
  <2>1. Sum(counted, Task)' <= Sum(logs, Task)'
    <3>1. \A x \in Task : counted'[x] \in Int /\ logs'[x] \in Int /\ counted'[x] <= logs'[x]
      <4>1. \A x \in Task : {counted'[x], logs'[x], unread'[x]} \subseteq Nat
        BY DEF CapTypeOK
      <4> QED
        BY <1>5, <4>1 DEF Tasks
    <3> QED
      BY <3>1, TaskParts, SumAtMost
  <2>2. Measured' = carried + Sum(counted, Task)' /\ recorded' = Measured'
    BY <1>1 DEF Measured, ScannedUsd, Booked
  <2>3. /\ {Sum(logs, Task)', Sum(logs, Task), Sum(counted, Task)', Sum(unread, Task)} \subseteq Nat
        /\ {Sum(unread, Task)', Measured, Measured', Unseen} \subseteq Nat
    BY <1>3 DEF SumsOK
  <2>4. /\ Sum(logs, Task) <= told /\ (~lost => told = Sum(logs, Task))
        /\ told <= Measured + Sum(unread, Task) + Unseen
        /\ ~skipped => carried + Sum(logs, Task) <= told
    BY <1>1 DEF Booked
  <2>5. Sum(logs, Task)' - Sum(logs, Task) = told' - told
    BY <1>2, <1>4, <2>3
  <2>6. Sum(logs, Task)' <= told' /\ (~lost' => told' = Sum(logs, Task)')
    BY <1>4, <2>3, <2>4, <2>5
  <2>7. told' <= Measured' + Sum(unread, Task)' + Unseen'
    BY <1>2, <1>4, <1>8, <2>3, <2>4
  <2>8. ASSUME ~skipped' PROVE Measured' <= told' /\ recorded' <= told' /\ carried' + Sum(logs, Task)' <= told'
    <3>1. carried + Sum(logs, Task) <= told
      BY <2>4, <2>8
    <3> QED
      BY <1>4, <2>1, <2>2, <2>3, <2>5, <3>1
  <2> QED
    BY <2>2, <2>6, <2>7, <2>8 DEF Booked
<1> QED
  BY <1>5, <1>7, <1>10, <1>11, <1>12 DEF CapInv

\* The leaf of a task takes a permit.
LEMMA StepBegin == ASSUME CapInv, CapTypeOK', NEW t \in Task, Begin(t) PROVE CapInv'
<1>1. /\ live /\ live' /\ task[t] = "scoped" /\ task' = [task EXCEPT ![t] = "running"]
      /\ UNCHANGED <<plan, level, cap, carried, lost, skipped, unseen, together, step>>
      /\ UNCHANGED <<logs, counted, unread, tries, recorded, told>>
  BY DEF Begin, disk, gate, ghosts, bill
<1>2. /\ CapTypeOK /\ Tasks /\ SumsOK
  BY <1>1, SumsNow DEF CapInv
<1>3. task \in [Task -> Taken \cup Closed \cup {"queued", "held"}] /\ task'[t] = "running"
  BY <1>1, <1>2 DEF CapTypeOK
<1>4. Owes(t)' = Owes(t) /\ Due'[t] = Due[t] /\ Owes(t) \in Int /\ Due[t] \in Int
  BY <1>1, <1>2, <1>3 DEF Owes, Due, Taken, SumsOK
<1>5. tries[t] > 0 /\ counted[t] + unread[t] <= logs[t]
  BY <1>1, <1>2 DEF Tasks
<1>6. {logs[t], counted[t], unread[t], told} \subseteq Nat
  BY <1>2 DEF CapTypeOK
<1>7. Measured' = Measured
  BY <1>1 DEF Measured, ScannedUsd
<1> QED
  BY <1>1, <1>3, <1>4, <1>5, <1>6, <1>7, TaskSettles DEF Taken, Closed

\* An attempt costs no more than what is left for all of them.
LEMMA Product == \A n, p, usd \in Nat : n > 0 /\ usd <= p => /\ (n - 1) * p = n * p - p /\ n * p \in Nat
                                                              /\ usd <= n * p
  OBVIOUS

\* What an attempt adds to the log of its task.
LEMMA Paid ==
  ASSUME CapTypeOK, NEW t \in Task, NEW usd \in Costs, NEW tells \in BOOLEAN, Pay(t, usd, tells)
  PROVE  /\ logs'[t] - logs[t] \in 0..Price /\ told' - told = logs'[t] - logs[t]
         /\ logs' \in [Task -> Nat] /\ \A x \in Task \ {t} : logs'[x] = logs[x]
<1>1. /\ logs' = [logs EXCEPT ![t] = IF tells THEN logs[t] + usd ELSE logs[t]]
      /\ told' = IF tells THEN told + usd ELSE told
  BY DEF Pay
<1>2. logs \in [Task -> Nat] /\ told \in Nat /\ usd \in 0..Price /\ Price \in Nat
  BY Numbers DEF CapTypeOK
<1>3. logs'[t] = (IF tells THEN logs[t] + usd ELSE logs[t]) /\ logs[t] \in Nat
  BY <1>1, <1>2
<1>4. logs' \in [Task -> Nat] /\ \A x \in Task \ {t} : logs'[x] = logs[x]
  BY <1>1, <1>2
<1> QED
  BY <1>1, <1>2, <1>3, <1>4

\* An attempt is paid for out of what the task owes.
LEMMA StepRetry ==
  ASSUME CapInv, CapTypeOK', NEW t \in Task, NEW usd \in Costs, NEW tells \in BOOLEAN, Retry(t, usd, tells)
  PROVE  CapInv'
<1>1. /\ live /\ live' /\ task[t] = "running" /\ task' = [task EXCEPT ![t] = "scoped"] /\ tries[t] > 1
      /\ tries' = [tries EXCEPT ![t] = @ - 1]
      /\ Pay(t, usd, tells) /\ unread' = Unread({})
      /\ UNCHANGED <<plan, level, cap, carried, lost, skipped, unseen, together, step>>
      /\ UNCHANGED <<counted, recorded>>
  BY DEF Retry, NoRead, gate, ghosts
<1>2. /\ CapTypeOK /\ Tasks /\ SumsOK
  BY <1>1, SumsNow DEF CapInv
<1>3. /\ task'[t] = "scoped" /\ tries'[t] = tries[t] - 1
      /\ unread'[t] = unread[t] + logs'[t] - logs[t]
  BY <1>1, <1>2 DEF CapTypeOK, Unread
<1> DEFINE paid == logs'[t] - logs[t]
<1>4. /\ {logs[t], logs'[t], counted[t], unread[t], unread'[t], told, told', tries[t], Price, paid} \subseteq Nat
      /\ paid <= Price /\ told' - told = paid
      /\ \A x \in Task \ {t} : logs'[x] = logs[x]
  <2>1. {logs[t], logs'[t], counted[t], unread[t], unread'[t], told, told', tries[t]} \subseteq Nat
    BY <1>2 DEF CapTypeOK
  <2> QED
    BY <1>1, <1>2, <2>1, Paid, Numbers
<1>5. /\ (tries[t] - 1) * Price = tries[t] * Price - Price /\ tries[t] * Price \in Nat
  BY <1>1, <1>4, Product
<1>6. /\ Owes(t)' = unread[t] + paid + (tries[t] - 1) * Price
      /\ Owes(t) = unread[t] + tries[t] * Price
  <2>1. Owes(t)' = unread'[t] + tries'[t] * Price
    BY DEF Owes
  <2>2. tries'[t] * Price = (tries[t] - 1) * Price
    BY <1>3
  <2>3. unread'[t] = unread[t] + paid
    BY <1>3, <1>4
  <2> QED
    BY <2>1, <2>2, <2>3 DEF Owes
<1> HIDE DEF paid
<1>7. Owes(t)' <= Owes(t) /\ Owes(t) \in Int /\ Owes(t)' \in Int
  BY <1>4, <1>5, <1>6
<1>8. Due'[t] = Owes(t)' /\ Due[t] = Owes(t)
  BY <1>1, <1>3 DEF Due, Taken
<1>9. counted[t] + unread[t] <= logs[t] /\ counted'[t] = counted[t]
  BY <1>1, <1>2 DEF Tasks
<1>10. Measured' = Measured
  BY <1>1 DEF Measured, ScannedUsd
<1>11. \A x \in Task \ {t} : /\ logs'[x] = logs[x] /\ counted'[x] = counted[x]
                             /\ unread'[x] = unread[x]
                             /\ task'[x] = task[x] /\ tries'[x] = tries[x]
  <2>1. \A x \in Task \ {t} : unread[x] \in Nat /\ logs[x] \in Nat
    BY <1>2 DEF CapTypeOK
  <2>2. \A x \in Task \ {t} : unread'[x] = unread[x] + logs'[x] - logs[x]
    BY <1>1 DEF Unread
  <2>3. \A x \in Task \ {t} : unread'[x] = unread[x]
    BY <1>4, <2>1, <2>2
  <2> QED
    BY <1>1, <1>2, <1>4, <2>3 DEF CapTypeOK
<1>12. unread'[t] = unread[t] + paid /\ logs'[t] = logs[t] + paid
  BY <1>3, <1>4 DEF paid
<1>13. /\ counted'[t] + unread'[t] <= logs'[t] /\ told' - told = logs'[t] - logs[t] /\ tries'[t] > 0
       /\ logs'[t] - logs[t] <= (counted'[t] - counted[t]) + (unread'[t] - unread[t])
       /\ (told' - told) + Due'[t] - unread'[t] <= Due[t] - unread[t]
  <2>1. counted'[t] + unread'[t] <= logs'[t] /\ told' - told = logs'[t] - logs[t] /\ tries'[t] > 0
    BY <1>1, <1>3, <1>4, <1>9, <1>12
  <2>2. logs'[t] - logs[t] <= (counted'[t] - counted[t]) + (unread'[t] - unread[t])
    BY <1>4, <1>9, <1>12
  <2>3. (told' - told) + Due'[t] - unread'[t] <= Due[t] - unread[t]
    BY <1>4, <1>5, <1>6, <1>8, <1>12
  <2> QED
    BY <2>1, <2>2, <2>3
<1> QED
  BY <1>1, <1>3, <1>7, <1>10, <1>11, <1>13, TaskSettles DEF Taken, Closed

\* The ledger reads the log of a task, or misses it.
LEMMA Observed ==
  ASSUME CapInv, CapTypeOK', NEW t \in Task, NEW n, Observe(t, n),
         \A x \in Task \ {t} : logs'[x] = logs[x], logs'[t] >= logs[t], live
  PROVE  /\ carried' = carried
         /\ \A x \in Task \ {t} : counted'[x] = counted[x] /\ unread'[x] = unread[x]
         /\ unread'[t] = 0 \/ unread'[t] = unread[t] + logs'[t] - logs[t]
         /\ counted'[t] + unread'[t] <= logs'[t]
         /\ logs'[t] - logs[t] <= (counted'[t] - counted[t]) + (unread'[t] - unread[t])
         /\ recorded = Measured => recorded' = Measured'
<1>1. /\ \A x \in Task : {logs[x], logs'[x], counted[x], unread[x]} \subseteq Nat
      /\ counted[t] + unread[t] <= logs[t]
  BY DEF CapInv, CapTypeOK, Tasks
<1>2. \A x \in Task \ {t} : unread[x] + logs'[x] - logs[x] = unread[x]
  BY <1>1
<1>3. CASE UNCHANGED carried /\ Read({t})
  <2>1. recorded' = Measured'
    BY <1>3 DEF Read, Measured, ScannedUsd
  <2>2. /\ counted'[t] = logs'[t] /\ \A x \in Task \ {t} : counted'[x] = counted[x]
        /\ unread'[t] = 0 /\ \A x \in Task \ {t} : unread'[x] = unread[x] + logs'[x] - logs[x]
    BY <1>3 DEF Read, Unread
  <2>3. \A x \in Task \ {t} : unread'[x] = unread[x]
    BY <1>2, <2>2
  <2>4. /\ counted'[t] + unread'[t] <= logs'[t]
        /\ logs'[t] - logs[t] <= (counted'[t] - counted[t]) + (unread'[t] - unread[t])
    BY <1>1, <2>2
  <2> QED
    BY <1>3, <2>1, <2>2, <2>3, <2>4
<1>4. CASE UNCHANGED carried /\ NoRead
  <2>1. Measured' = Measured /\ recorded' = recorded
    BY <1>4 DEF NoRead, Measured, ScannedUsd
  <2>2. counted' = counted /\ \A x \in Task : unread'[x] = unread[x] + logs'[x] - logs[x]
    BY <1>4 DEF NoRead, Unread
  <2>3. \A x \in Task \ {t} : unread'[x] = unread[x]
    BY <1>2, <2>2
  <2>4. /\ counted'[t] + unread'[t] <= logs'[t]
        /\ logs'[t] - logs[t] <= (counted'[t] - counted[t]) + (unread'[t] - unread[t])
    BY <1>1, <2>2
  <2> QED
    BY <1>4, <2>1, <2>2, <2>3, <2>4
<1> QED
  BY <1>3, <1>4 DEF Observe

\* The last attempt is paid for, and read or missed.
LEMMA StepLeafEnds ==
  ASSUME CapInv, CapTypeOK', NEW t \in Task, NEW usd \in Costs, NEW tells \in BOOLEAN, NEW ok \in BOOLEAN,
         LeafEnds(t, usd, tells, ok)
  PROVE  CapInv'
<1>1. /\ live /\ live' /\ task[t] = "running" /\ task' = [task EXCEPT ![t] = "ended"]
      /\ tries' = [tries EXCEPT ![t] = 0] /\ Observe(t, Untold(tells)) /\ Pay(t, usd, tells)
      /\ UNCHANGED <<plan, level, cap, lost, skipped, unseen, together, step>>
  BY DEF LeafEnds, gate, ghosts
<1>2. /\ CapTypeOK /\ Tasks
  BY <1>1 DEF CapInv
<1>3. /\ task'[t] = "ended" /\ tries'[t] = 0 /\ tries[t] > 0
  BY <1>1, <1>2 DEF CapTypeOK, Tasks
<1> DEFINE paid == logs'[t] - logs[t]
<1>4. /\ {logs[t], logs'[t], counted[t], counted'[t], unread[t], unread'[t], told, told', tries[t], Price, paid} \subseteq Nat
      /\ paid <= Price /\ told' - told = paid /\ logs'[t] >= logs[t]
      /\ \A x \in Task \ {t} : logs'[x] = logs[x]
  <2>1. {logs[t], logs'[t], counted[t], counted'[t], unread[t], unread'[t], told, told', tries[t]} \subseteq Nat
    BY <1>2 DEF CapTypeOK
  <2>2. paid \in 0..Price /\ Price \in Nat /\ told' - told = paid /\ \A x \in Task \ {t} : logs'[x] = logs[x]
    BY <1>1, <1>2, Paid, Numbers
  <2> QED
    BY <2>1, <2>2
<1>5. /\ carried' = carried
      /\ \A x \in Task \ {t} : counted'[x] = counted[x] /\ unread'[x] = unread[x]
      /\ unread'[t] = 0 \/ unread'[t] = unread[t] + paid
      /\ counted'[t] + unread'[t] <= logs'[t]
      /\ logs'[t] - logs[t] <= (counted'[t] - counted[t]) + (unread'[t] - unread[t])
      /\ recorded = Measured => recorded' = Measured'
  <2>1. /\ carried' = carried
        /\ \A x \in Task \ {t} : counted'[x] = counted[x] /\ unread'[x] = unread[x]
        /\ unread'[t] = 0 \/ unread'[t] = unread[t] + logs'[t] - logs[t]
        /\ counted'[t] + unread'[t] <= logs'[t]
        /\ logs'[t] - logs[t] <= (counted'[t] - counted[t]) + (unread'[t] - unread[t])
        /\ recorded = Measured => recorded' = Measured'
    BY <1>1, <1>4, Observed
  <2>2. unread[t] + logs'[t] - logs[t] = unread[t] + paid
    BY <1>4
  <2> QED
    BY <2>1, <2>2
<1>6. Price <= tries[t] * Price /\ tries[t] * Price \in Nat
  BY <1>3, <1>4, Product
<1>7. Owes(t)' = unread'[t] /\ Owes(t) = unread[t] + tries[t] * Price
  <2>1. Owes(t)' = unread'[t] + tries'[t] * Price
    BY DEF Owes
  <2>2. tries'[t] * Price = 0
    BY <1>3, <1>4
  <2>3. Owes(t)' = unread'[t]
    BY <1>4, <2>1, <2>2
  <2> QED
    BY <2>3 DEF Owes
<1> HIDE DEF paid
<1>8. Due'[t] = Owes(t)' /\ Due[t] = Owes(t)
  BY <1>1, <1>3 DEF Due, Taken
<1>9. Owes(t)' <= Owes(t) /\ (told' - told) + Due'[t] - unread'[t] <= Due[t] - unread[t]
  BY <1>4, <1>5, <1>6, <1>7, <1>8
<1>10. told' - told = logs'[t] - logs[t]
  BY <1>4 DEF paid
<1>11. \A x \in Task \ {t} : /\ logs'[x] = logs[x] /\ counted'[x] = counted[x]
                             /\ unread'[x] = unread[x]
                             /\ task'[x] = task[x] /\ tries'[x] = tries[x]
  BY <1>1, <1>2, <1>4, <1>5 DEF CapTypeOK
<1> QED
  BY <1>1, <1>3, <1>5, <1>9, <1>10, <1>11, TaskSettles DEF Taken, Closed

\* The scope settles what its task owes.
LEMMA StepScopeEnds == ASSUME CapInv, CapTypeOK', NEW t \in Task, ScopeEnds(t) PROVE CapInv'
<1>1. /\ live /\ live' /\ task[t] = "ended" /\ Observe(t, 0) /\ logs' = logs
      /\ task' = [task EXCEPT ![t] = IF t \in leaf THEN "completed" ELSE "failed"]
      /\ UNCHANGED <<plan, level, cap, lost, skipped, unseen, together, step, tries, told>>
  BY DEF ScopeEnds, ghosts
<1>2. /\ CapTypeOK /\ Tasks
  BY <1>1 DEF CapInv
<1>3. task'[t] \in Closed /\ tries[t] = 0
  BY <1>1, <1>2 DEF CapTypeOK, Tasks, Closed
<1>4. {logs[t], counted[t], counted'[t], unread[t], unread'[t], told, Price} \subseteq Nat
  BY <1>2, Numbers DEF CapTypeOK
<1>5. /\ carried' = carried
      /\ \A x \in Task \ {t} : counted'[x] = counted[x] /\ unread'[x] = unread[x]
      /\ unread'[t] = 0 \/ unread'[t] = unread[t] + logs'[t] - logs[t]
      /\ counted'[t] + unread'[t] <= logs'[t]
      /\ logs'[t] - logs[t] <= (counted'[t] - counted[t]) + (unread'[t] - unread[t])
      /\ recorded = Measured => recorded' = Measured'
  <2>1. (\A x \in Task \ {t} : logs'[x] = logs[x]) /\ logs'[t] >= logs[t]
    BY <1>1, <1>4
  <2> QED
    BY <1>1, <2>1, Observed
<1>6. Due'[t] = 0 /\ Due[t] = unread[t]
  <2>1. Due[t] = unread[t] + tries[t] * Price
    BY <1>1 DEF Due, Owes, Taken
  <2>2. tries[t] * Price = 0
    BY <1>3, <1>4
  <2>3. Due'[t] = 0
    BY <1>3 DEF Due, Taken, Closed
  <2> QED
    BY <1>4, <2>1, <2>2, <2>3
<1>7. (told' - told) + Due'[t] - unread'[t] <= Due[t] - unread[t] /\ told' - told = logs'[t] - logs[t]
  BY <1>1, <1>4, <1>6
<1>8. \A x \in Task \ {t} : /\ logs'[x] = logs[x] /\ counted'[x] = counted[x]
                             /\ unread'[x] = unread[x]
                             /\ task'[x] = task[x] /\ tries'[x] = tries[x]
  BY <1>1, <1>2, <1>5 DEF CapTypeOK
<1> QED
  BY <1>1, <1>3, <1>5, <1>7, <1>8, TaskSettles DEF Taken, Closed

\* The gate admits a task below the cap, or holds it back.
LEMMA StepEnter == ASSUME CapInv, CapTypeOK', NEW s \in Step, Enter(s) PROVE CapInv'
<1>1. PICK i \in DOMAIN Roster[s] :
        LET t == Roster[s][i] IN
        /\ live /\ step[s] = "dispatching" /\ task[t] = "queued"
        /\ Cardinality(Open \cap TasksOf(s)) < Width(s)
        /\ task' = [task EXCEPT ![t] = IF Refuses(s) THEN "held"
                                       ELSE IF t \in leaf THEN "ended" ELSE "scoped"]
        /\ tries' = [tries EXCEPT ![t] = IF task'[t] = "scoped" THEN Attempts[s] ELSE 0]
        /\ UNCHANGED <<disk, ghosts, live, level, recorded, step, carried, counted, finished, failed,
                       faults, bill>>
  BY DEF Enter
<1> DEFINE t == Roster[s][i]
<1>2. t \in TasksOf(s) /\ t \in Task /\ StepOf(t) = s
  <2>1. t \in TasksOf(s)
    BY DEF TasksOf
  <2> HIDE DEF t
  <2> QED
    BY <2>1, TaskParts
<1>3. /\ live /\ live' /\ step[s] = "dispatching" /\ task[t] = "queued"
      /\ Cardinality(Open \cap TasksOf(s)) < Width(s)
      /\ task' = [task EXCEPT ![t] = IF Refuses(s) THEN "held"
                                     ELSE IF t \in leaf THEN "ended" ELSE "scoped"]
      /\ tries' = [tries EXCEPT ![t] = IF task'[t] = "scoped" THEN Attempts[s] ELSE 0]
      /\ UNCHANGED <<plan, cap, logs, unread, unseen, lost, skipped, together, level, recorded, step, carried,
                     counted, told>>
  BY <1>1 DEF disk, bill, ghosts
<1> HIDE DEF t
<1>4. CapTypeOK /\ Booked /\ Tasks /\ Steps /\ Gated /\ Prepared /\ SumsOK /\ SumsOK'
  BY <1>3, SumsNow, SumsNext DEF CapInv
<1>5. /\ task \in [Task -> Taken \cup Closed \cup {"queued", "held"}] /\ tries \in [Task -> Nat]
      /\ {logs[t], counted[t]} \subseteq Nat /\ unread[t] = 0 /\ counted[t] + unread[t] <= logs[t]
      /\ {cap, carried, recorded, told} \subseteq Nat
  <2>1. unread[t] = 0 /\ counted[t] + unread[t] <= logs[t]
    BY <1>2, <1>3, <1>4 DEF Tasks
  <2>2. /\ task \in [Task -> Taken \cup Closed \cup {"queued", "held"}] /\ tries \in [Task -> Nat]
        /\ {cap, carried, recorded, told} \subseteq Nat
    BY <1>4 DEF CapTypeOK
  <2>3. {logs[t], counted[t]} \subseteq Nat
    BY <1>2, <1>4 DEF CapTypeOK
  <2> QED
    BY <2>1, <2>2, <2>3
<1>6. /\ task'[t] \in {"held", "ended", "scoped"} /\ (Refuses(s) => task'[t] = "held")
      /\ tries'[t] = IF task'[t] = "scoped" THEN Attempts[s] ELSE 0
      /\ \A x \in Task \ {t} : task'[x] = task[x] /\ tries'[x] = tries[x]
  BY <1>2, <1>3, <1>5
<1>7. Attempts[s] \in Nat \ {0} /\ Price \in Nat /\ Attempts[s] * Price \in Nat
  BY Numbers
<1>8. Owes(t)' = (IF task'[t] = "scoped" THEN Attempts[s] * Price ELSE 0)
  <2>1. Owes(t)' = unread[t] + tries'[t] * Price
    BY <1>3 DEF Owes
  <2>2. tries'[t] * Price = IF task'[t] = "scoped" THEN Attempts[s] * Price ELSE 0
    BY <1>6, <1>7
  <2> QED
    BY <1>5, <1>7, <2>1, <2>2
<1>9. Tasks'
  <2> SUFFICES ASSUME NEW x \in Task
               PROVE  /\ counted'[x] + unread'[x] <= logs'[x]
                      /\ task'[x] \in {"queued", "held"} => unread'[x] = 0
                      /\ task'[x] \in {"scoped", "running"} => tries'[x] > 0
                      /\ task'[x] = "ended" => tries'[x] = 0
                      /\ task'[x] \in Taken => /\ Owes(x)' <= Attempts[StepOf(x)] * Price
                                               /\ step'[StepOf(x)] = "dispatching"
    BY DEF Tasks
  <2>1. CASE x = t
    BY <1>2, <1>3, <1>5, <1>6, <1>7, <1>8, <2>1
  <2>2. CASE x # t
    <3>1. x \in Task \ {t}
      BY <2>2
    <3>2. Owes(x)' = Owes(x) /\ task'[x] = task[x] /\ tries'[x] = tries[x]
      BY <1>3, <1>6, <3>1 DEF Owes
    <3> QED
      BY <1>3, <1>4, <3>2 DEF Tasks
  <2> QED
    BY <2>1, <2>2
<1>10. Open' \subseteq Open \cup {t}
  BY <1>6 DEF Open
<1>11. Steps'
  <2> SUFFICES ASSUME NEW r \in Step
               PROVE  /\ step'[r] = "dispatching" => r \in Level'
                      /\ step'[r] = "pending" => \A x \in TasksOf(r) : task'[x] \in {"queued", "completed"}
                      /\ Cardinality(Open' \cap TasksOf(r)) <= Width(r)
    BY DEF Steps
  <2>1. step'[r] = "dispatching" => r \in Level'
    BY <1>3, <1>4 DEF Steps, Level
  <2>2. ASSUME step'[r] = "pending", NEW x \in TasksOf(r) PROVE task'[x] \in {"queued", "completed"}
    <3>1. x # t /\ x \in Task
      BY <1>2, <1>3, <2>2, TaskParts
    <3> QED
      BY <1>3, <1>4, <1>6, <2>2, <3>1 DEF Steps
  <2>3. Cardinality(Open' \cap TasksOf(r)) <= Width(r)
    <3> DEFINE P == Open \cap TasksOf(r)  Q == Open' \cap TasksOf(r)  n == Width(r)
    <3>1. IsFiniteSet(P) /\ Cardinality(P) <= n /\ n \in Nat
      BY <1>4, TaskParts, Numbers, FS_Subset DEF Steps
    <3>2. Q \subseteq P \cup {t} /\ (r # s => Q \subseteq P)
      BY <1>2, <1>10, TaskParts
    <3>3. r = s => Cardinality(P) < n
      BY <1>3
    <3> HIDE DEF P, Q, n
    <3>4. Cardinality(P) \in Nat /\ Cardinality(P \cup {t}) <= Cardinality(P) + 1 /\ IsFiniteSet(P \cup {t})
      <4>1. Cardinality(P) \in Nat /\ IsFiniteSet(P \cup {t})
        BY <3>1, FS_AddElement, FS_CardinalityType
      <4>2. Cardinality(P \cup {t}) = Cardinality(P) \/ Cardinality(P \cup {t}) = Cardinality(P) + 1
        BY <3>1, FS_AddElement
      <4> QED
        BY <4>1, <4>2
    <3>5. IsFiniteSet(Q) /\ Cardinality(Q) <= Cardinality(P \cup {t}) /\ (r # s => Cardinality(Q) <= Cardinality(P))
      BY <3>1, <3>2, <3>4, FS_Subset
    <3>6. Cardinality(Q) \in Nat /\ Cardinality(P \cup {t}) \in Nat
      BY <3>4, <3>5, FS_CardinalityType
    <3>7. Cardinality(Q) <= n
      BY <3>1, <3>3, <3>4, <3>5, <3>6
    <3> QED
      BY <3>7 DEF Q, n
  <2> QED
    BY <2>1, <2>2, <2>3
<1>12. Measured' = Measured /\ Known' = Known /\ InFlight' = InFlight /\ Unseen' = Unseen
  BY <1>3 DEF Measured, ScannedUsd, Known, InFlight, Level, Unseen
<1>13. Gated'
  <2> SUFFICES ASSUME Open' # {} PROVE Known' + Sum(Due, Task)' < cap' + Unseen' + InFlight'
    BY DEF Gated
  <2>1. CASE Refuses(s)
    <3>1. Open' = Open
      BY <1>2, <1>3, <1>6, <2>1 DEF Open
    <3>2. Due' = Due
      <4>1. \A x \in Task : Due'[x] = Due[x]
        BY <1>3, <1>6, <2>1 DEF Due, Owes, Taken
      <4> QED
        BY <4>1 DEF Due
    <3>3. Sum(Due, Task)' = Sum(Due, Task)
      BY <3>2
    <3> QED
      BY <1>3, <1>4, <1>12, <3>1, <3>3 DEF Gated
  <2>2. CASE ~Refuses(s)
    <3>1. Measured < cap
      <4>1. ~(Measured >= cap)
        BY <2>2 DEF Refuses, Exhausted
      <4> QED
        BY <1>4, <1>5, <4>1 DEF SumsOK
    <3>2. Sum(Due, Task)' <= InFlight' /\ InFlight' \in Int
      BY <1>9, <1>11, OpenFitsNext
    <3>3. Sum(Due, Task)' \in Int /\ Measured \in Int /\ Unseen \in Int /\ Sum(unread, Task) \in Int
      BY <1>4 DEF SumsOK
    <3>4. Known \in Int /\ Known <= Measured + Unseen
      <4>1. told <= Measured + Sum(unread, Task) + Unseen
        BY <1>3, <1>4 DEF Booked
      <4> QED
        BY <1>5, <3>3, <4>1 DEF Known
    <3> QED
      BY <1>3, <1>5, <1>12, <3>1, <3>2, <3>3, <3>4
  <2> QED
    BY <2>1, <2>2
<1>14. Prepared'
  <2> SUFFICES ASSUME ~together', NEW r \in Step, step'[r] = "dispatching"
               PROVE  /\ \A q \in Step : step'[q] = "dispatching" => q = r
                      /\ r \in plan'.priced => Known' + Sum(Reserve(r), Task)' <= cap' + Unseen'
    BY DEF Prepared
  <2>1. /\ \A q \in Step : step[q] = "dispatching" => q = r
        /\ r \in plan.priced => Known + Sum(Reserve(r), Task) <= cap + Unseen
    BY <1>3, <1>4 DEF Prepared
  <2>2. r = s
    BY <1>3, <2>1
  <2>3. Reserve(s)[t] = Attempts[s] * Price
    BY <1>2, <1>3 DEF Reserve, Taken
  <2>4. Reserve(s)'[t] = (IF task'[t] = "scoped" THEN Attempts[s] * Price ELSE 0)
    BY <1>2, <1>6, <1>8 DEF Reserve, Taken
  <2>5. Sum(Reserve(s), Task)' = Sum(Reserve(s), Task) + Reserve(s)'[t] - Reserve(s)[t]
    BY <1>2, <1>3, <1>4, <1>6, OneTask
  <2>6. Sum(Reserve(s), Task) \in Int /\ Sum(Reserve(s), Task)' \in Int /\ Known \in Int /\ Unseen \in Int
    BY <1>4 DEF SumsOK
  <2>7. Sum(Reserve(s), Task)' <= Sum(Reserve(s), Task)
    BY <1>7, <2>3, <2>4, <2>5, <2>6
  <2> QED
    BY <1>3, <1>5, <1>12, <2>1, <2>2, <2>6, <2>7
<1>15. Booked'
  <2>1. Sum(logs, Task)' = Sum(logs, Task) /\ Sum(unread, Task)' = Sum(unread, Task)
    BY <1>3
  <2> QED
    BY <1>3, <1>4, <1>12, <2>1 DEF Booked
<1> QED
  BY <1>9, <1>11, <1>13, <1>14, <1>15 DEF CapInv

\* What a step reserves before any of its items has entered is its worst case.
LEMMA ReserveFits ==
  ASSUME CapTypeOK, NEW s \in Step, \A t \in TasksOf(s) : task[t] \in {"queued", "completed"}
  PROVE  Sum(Reserve(s), Task) <= WorstCase(s) /\ WorstCase(s) \in Nat
<1> DEFINE e == Attempts[s] * Price  A == Actionable(s)
<1>1. e \in Nat /\ WorstCase(s) = Cardinality(A) * e
  BY Numbers DEF WorstCase
<1>2. A \subseteq Task /\ IsFiniteSet(A) /\ IsFiniteSet(Task) /\ Cardinality(A) \in Nat
  BY TaskParts, FS_Subset, FS_CardinalityType DEF Actionable
<1>3. \A t \in Task : Reserve(s)[t] = IF t \in A THEN e ELSE 0
  <2> SUFFICES ASSUME NEW t \in Task PROVE Reserve(s)[t] = IF t \in A THEN e ELSE 0
    OBVIOUS
  <2>1. CASE t \notin TasksOf(s)
    BY <2>1 DEF Reserve, Actionable
  <2>2. CASE t \in TasksOf(s) /\ task[t] = "queued"
    BY <2>2 DEF Reserve, Actionable, Taken
  <2>3. CASE t \in TasksOf(s) /\ task[t] = "completed"
    BY <2>3 DEF Reserve, Actionable, Taken
  <2> QED
    BY <2>1, <2>2, <2>3
<1> DEFINE same == [t \in Task |-> e]
<1>4. \A t \in A : same[t] = e /\ same[t] \in Int /\ same[t] <= e
  BY <1>1, <1>2
<1>5. \A t \in Task : Reserve(s)[t] = IF t \in A THEN same[t] ELSE 0
  BY <1>3
<1> HIDE DEF e, A, same
<1>6. Sum(same, A) = Sum(Reserve(s), Task)
  BY <1>2, <1>4, <1>5, SumPart
<1>7. Sum(same, A) <= Cardinality(A) * e
  BY <1>1, <1>2, <1>4, SumEach
<1>8. \A m, n \in Nat : m * n \in Nat
  OBVIOUS
<1> QED
  BY <1>1, <1>2, <1>6, <1>7, <1>8

\* Steps that leave the tasks and the ledger alone.
LEMMA Still ==
  ASSUME UNCHANGED <<logs, counted, unread, task, tries, carried, recorded, told, unseen, lost, skipped, live, plan, level,
                     cap>>
  PROVE  /\ (Booked => Booked') /\ Measured' = Measured /\ Known' = Known /\ Unseen' = Unseen
         /\ Open' = Open /\ InFlight' = InFlight
         /\ Sum(Due, Task)' = Sum(Due, Task) /\ (Gated => Gated')
         /\ \A s \in Step : Sum(Reserve(s), Task)' = Sum(Reserve(s), Task)
         /\ \A t \in Task : Owes(t)' = Owes(t)
         /\ \A s \in Step : Actionable(s)' = Actionable(s)
<1>1. /\ Measured' = Measured /\ Open' = Open /\ InFlight' = InFlight /\ Unseen' = Unseen
      /\ Known' = Known
  BY DEF Measured, ScannedUsd, Known, Open, InFlight, Level, Unseen
<1>2. \A t \in Task : Owes(t)' = Owes(t)
  BY DEF Owes
<1>3. Due' = Due
  BY DEF Due, Owes
<1>4. ASSUME NEW s \in Step PROVE Reserve(s)' = Reserve(s) /\ Actionable(s)' = Actionable(s)
  BY DEF Reserve, Owes, Actionable
<1>5. Sum(Due, Task)' = Sum(Due, Task) /\ \A s \in Step : Sum(Reserve(s), Task)' = Sum(Reserve(s), Task)
  BY <1>3, <1>4
<1>6. Sum(logs, Task)' = Sum(logs, Task) /\ Sum(unread, Task)' = Sum(unread, Task)
  OBVIOUS
<1>7. Booked => Booked'
  BY <1>1, <1>6 DEF Booked
<1>8. Gated => Gated'
  BY <1>1, <1>5 DEF Gated
<1> QED
  BY <1>1, <1>2, <1>4, <1>5, <1>7, <1>8

\* A priced step that starts has its worst case within the cap.
LEMMA StepStart == ASSUME CapInv, CapTypeOK', NEW s \in Step, StartStep(s) PROVE CapInv'
<1>1. /\ live /\ live' /\ s \in Level /\ step[s] = "pending"
      /\ step' = [step EXCEPT ![s] = IF Actionable(s) = {} THEN "completed"
                                     ELSE IF Fits(s) THEN "dispatching" ELSE "failed"]
      /\ together' = (together \/ (/\ step'[s] = "dispatching"
                                   /\ \E r \in Level : step[r] = "dispatching"))
      /\ UNCHANGED <<logs, counted, unread, task, tries, carried, recorded, told, unseen, lost, skipped, live, plan, level,
                     cap>>
  BY DEF StartStep, disk, bill
<1>2. CapTypeOK /\ Booked /\ Tasks /\ Steps /\ Gated /\ Prepared /\ SumsOK
  BY <1>1, SumsNow DEF CapInv
<1>3. /\ step'[s] \in {"completed", "dispatching", "failed"} /\ (step'[s] = "dispatching" => Fits(s))
      /\ \A r \in Step \ {s} : step'[r] = step[r]
  BY <1>1, <1>2 DEF CapTypeOK
<1>4. /\ Booked' /\ Known' = Known /\ Unseen' = Unseen /\ Open' = Open /\ Gated'
      /\ \A r \in Step : Sum(Reserve(r), Task)' = Sum(Reserve(r), Task)
      /\ \A t \in Task : Owes(t)' = Owes(t)
  BY <1>1, <1>2, Still
<1>5. Tasks'
  <2>1. \A t \in Task : task[t] \in Taken => step'[StepOf(t)] = "dispatching"
    <3>1. \A t \in Task : task[t] \in Taken => StepOf(t) # s /\ step[StepOf(t)] = "dispatching" /\ StepOf(t) \in Step
      BY <1>1, <1>2, TaskParts DEF Tasks
    <3> QED
      BY <1>3, <3>1
  <2> QED
    BY <1>1, <1>2, <1>4, <2>1 DEF Tasks
<1>6. Steps'
  <2> SUFFICES ASSUME NEW r \in Step
               PROVE  /\ step'[r] = "dispatching" => r \in Level'
                      /\ step'[r] = "pending" => \A x \in TasksOf(r) : task'[x] \in {"queued", "completed"}
                      /\ Cardinality(Open' \cap TasksOf(r)) <= Width(r)
    BY DEF Steps
  <2>1. Level' = Level
    BY <1>1 DEF Level
  <2>2. step'[r] = "pending" => step[r] = "pending"
    BY <1>3
  <2>3. step'[r] = "dispatching" => r = s \/ step[r] = "dispatching"
    BY <1>3
  <2>4. Cardinality(Open' \cap TasksOf(r)) <= Width(r)
    BY <1>2, <1>4 DEF Steps
  <2> QED
    BY <1>1, <1>2, <2>1, <2>2, <2>3, <2>4 DEF Steps
<1>7. Prepared'
  <2> SUFFICES ASSUME ~together', NEW r \in Step, step'[r] = "dispatching"
               PROVE  /\ \A q \in Step : step'[q] = "dispatching" => q = r
                      /\ r \in plan'.priced => Known' + Sum(Reserve(r), Task)' <= cap' + Unseen'
    BY DEF Prepared
  <2>1. ~together /\ ~(step'[s] = "dispatching" /\ \E q \in Level : step[q] = "dispatching")
    BY <1>1
  <2>2. CASE step'[s] = "dispatching"
    <3>1. \A q \in Step : step[q] # "dispatching"
      BY <1>2, <2>1, <2>2 DEF Steps
    <3>2. \A q \in Step : step'[q] = "dispatching" => q = s
      BY <1>3, <3>1
    <3>3. r = s /\ Fits(s)
      BY <1>3, <3>2
    <3>4. Sum(Reserve(s), Task) <= WorstCase(s) /\ WorstCase(s) \in Nat
      BY <1>1, <1>2, ReserveFits DEF Steps
    <3>5. s \in plan.priced => Known + Sum(Reserve(s), Task) <= cap + Unseen
      <4>1. {Measured, Sum(Reserve(s), Task), cap, told, Sum(unread, Task), Unseen} \subseteq Int
        <5>1. cap \in Int /\ told \in Int
          BY <1>2 DEF CapTypeOK
        <5> QED
          BY <1>2, <5>1 DEF SumsOK
      <4>2. told <= Measured + Sum(unread, Task) + Unseen
        BY <1>1, <1>2 DEF Booked
      <4>3. Known \in Int /\ Known <= Measured + Unseen
        BY <4>1, <4>2 DEF Known
      <4> QED
        BY <3>3, <3>4, <4>1, <4>3 DEF Fits
    <3> QED
      BY <1>1, <1>4, <3>2, <3>3, <3>5
  <2>3. CASE step'[s] # "dispatching"
    <3>1. step[r] = "dispatching" /\ \A q \in Step : step'[q] = "dispatching" => step[q] = "dispatching"
      BY <1>3, <2>3
    <3> QED
      BY <1>1, <1>2, <1>4, <2>1, <3>1 DEF Prepared
  <2> QED
    BY <2>2, <2>3
<1> QED
  BY <1>4, <1>5, <1>6, <1>7 DEF CapInv

\* A step ends with no task open.
LEMMA StepStepEnds == ASSUME CapInv, CapTypeOK', NEW s \in Step, StepEnds(s) PROVE CapInv'
<1>1. /\ live /\ live' /\ step[s] = "dispatching"
      /\ \A t \in TasksOf(s) : task[t] \in {"held", "completed", "failed"}
      /\ step' = [step EXCEPT ![s] = IF Actionable(s) = {} THEN "completed" ELSE "failed"]
      /\ together' = together
      /\ UNCHANGED <<logs, counted, unread, task, tries, carried, recorded, told, unseen, lost, skipped, live, plan, level,
                     cap>>
  BY DEF StepEnds, disk, bill, ghosts
<1>2. CapTypeOK /\ Booked /\ Tasks /\ Steps /\ Gated /\ Prepared
  BY <1>1 DEF CapInv
<1>3. /\ step'[s] \in {"completed", "failed"} /\ \A r \in Step \ {s} : step'[r] = step[r]
  BY <1>1, <1>2 DEF CapTypeOK
<1>4. /\ Booked' /\ Known' = Known /\ Unseen' = Unseen /\ Open' = Open /\ Gated'
      /\ \A r \in Step : Sum(Reserve(r), Task)' = Sum(Reserve(r), Task)
      /\ \A t \in Task : Owes(t)' = Owes(t)
  BY <1>1, <1>2, Still
<1>5. Tasks'
  <2>1. \A t \in Task : task[t] \in Taken => step'[StepOf(t)] = "dispatching"
    <3>1. \A t \in Task : task[t] \in Taken => StepOf(t) # s /\ step[StepOf(t)] = "dispatching" /\ StepOf(t) \in Step
      BY <1>1, <1>2, TaskParts DEF Tasks, Taken
    <3> QED
      BY <1>3, <3>1
  <2> QED
    BY <1>1, <1>2, <1>4, <2>1 DEF Tasks
<1>6. \A r \in Step : step'[r] \in {"pending", "dispatching"} => step'[r] = step[r]
  BY <1>3
<1>7. Steps'
  <2>1. Level' = Level
    BY <1>1 DEF Level
  <2> QED
    BY <1>1, <1>2, <1>4, <1>6, <2>1 DEF Steps
<1>8. Prepared'
  BY <1>1, <1>2, <1>4, <1>6 DEF Prepared
<1> QED
  BY <1>4, <1>5, <1>7, <1>8 DEF CapInv

\* A level ends with no step dispatching.
LEMMA StepLevelEnds == ASSUME CapInv, CapTypeOK', LevelEnds PROVE CapInv'
<1>1. /\ live /\ \A s \in Level : step[s] \in {"completed", "failed"}
      /\ UNCHANGED <<logs, counted, unread, task, tries, carried, recorded, told, lost, skipped, plan, cap, step,
                     together>>
      /\ live' => unseen' = unseen
      /\ ~live' => unseen' = Lacks
  BY DEF LevelEnds, disk, bill
<1>2. CapTypeOK /\ Booked /\ Tasks /\ Steps
  BY <1>1 DEF CapInv
<1>3. \A s \in Step : step[s] # "dispatching"
  BY <1>1, <1>2 DEF Steps
<1>4. Open = {} /\ Open' = {}
  <2>1. \A t \in Task : task[t] \notin Taken
    BY <1>2, <1>3, TaskParts DEF Tasks
  <2> QED
    BY <1>1, <2>1 DEF Open, Taken
<1>5. Tasks'
  <2>1. \A t \in Task : Owes(t)' = Owes(t)
    BY <1>1 DEF Owes
  <2> QED
    BY <1>1, <1>2, <2>1 DEF Tasks
<1>6. Steps'
  <2>1. \A s \in Step : Open' \cap TasksOf(s) = Open \cap TasksOf(s)
    BY <1>4
  <2>2. \A s \in Step : Cardinality(Open' \cap TasksOf(s)) <= Width(s)
    BY <1>2, <2>1 DEF Steps
  <2> QED
    BY <1>1, <1>2, <1>3, <2>2 DEF Steps
<1>7. Gated' /\ Prepared'
  BY <1>1, <1>3, <1>4 DEF Gated, Prepared
<1>8. Booked'
  <2>1. /\ Measured' = Measured /\ Sum(logs, Task)' = Sum(logs, Task)
        /\ Sum(unread, Task)' = Sum(unread, Task)
    BY <1>1 DEF Measured, ScannedUsd
  <2>2. live' => Unseen' = Unseen
    BY <1>1 DEF Unseen
  <2>3. ~live' => told' <= recorded' + unseen'
    <3>1. told \in Nat /\ recorded \in Nat
      BY <1>2 DEF CapTypeOK
    <3> QED
      BY <1>1, <3>1, LacksNow
  <2> QED
    BY <1>1, <1>2, <2>1, <2>2, <2>3 DEF Booked
<1> QED
  BY <1>5, <1>6, <1>7, <1>8 DEF CapInv

\* A sum of zeros.
LEMMA SumZero == ASSUME NEW a, NEW T, IsFiniteSet(T), \A x \in T : a[x] = 0 PROVE Sum(a, T) = 0
<1>1. Sum(a, {}) = Sum(a, T)
  BY SumPart
<1> QED
  BY <1>1, SumEmpty

\* A run begins with nothing spent.
LEMMA CapStarts == ASSUME CapInit PROVE CapInv
<1>1. CapTypeOK
  <2>1. /\ plan \in Plans /\ level = 1 /\ cap = DefaultCap /\ plan.levels \in Seq(SUBSET Step) \ {<<>>}
        /\ Caps \cup {DefaultCap} \subseteq Nat
    BY SpendAssumption DEF CapInit
  <2>2. 1 \in 1..Len(plan.levels)
    BY <2>1
  <2>3. /\ live = FALSE /\ recorded = 0 /\ carried = 0 /\ launches = 0 /\ faults = 0
        /\ told = 0 /\ untold = 0 /\ unseen = 0
        /\ leaf = {} /\ lost = FALSE /\ skipped = FALSE /\ together = FALSE
        /\ logs = [t \in Task |-> 0] /\ unread = [t \in Task |-> 0] /\ counted = [t \in Task |-> 0] /\ tries = [t \in Task |-> 0]
    BY DEF CapInit
  <2>4. /\ step \in [Step -> {"pending", "dispatching", "completed", "failed"}]
        /\ task \in [Task -> Taken \cup Closed \cup {"queued", "held"}]
        /\ finished \in [Step -> Nat] /\ failed \in [Step -> Nat] /\ trip \in [Step -> BOOLEAN]
    BY DEF CapInit
  <2>5. {cap, recorded, carried, told, untold, unseen, faults, launches} \subseteq Nat
    BY <2>1, <2>3
  <2> QED
    BY <2>1, <2>2, <2>3, <2>4, <2>5 DEF CapTypeOK
<1>2. Booked
  <2>1. /\ ~live /\ ~lost /\ carried = 0 /\ recorded = 0 /\ told = 0 /\ unseen = 0
        /\ \A t \in Task : logs[t] = 0 /\ counted[t] = 0
    BY DEF CapInit
  <2>2. Sum(logs, Task) = 0 /\ Sum(counted, Task) = 0
    BY <2>1, TaskParts, SumZero
  <2> QED
    BY <2>1, <2>2 DEF Booked, Measured, ScannedUsd
<1> QED
  BY <1>1, <1>2 DEF CapInv, CapInit

\* A launch opens the ledger with the logs and what the record has besides.
LEMMA StepRunProcess == ASSUME CapInv, CapTypeOK', NEW c \in Caps \cup {cap}, RunProcess(c) PROVE CapInv'
<1>1. /\ ~live /\ live'
      /\ step' = [s \in Step |-> "pending"]
      /\ task' = [t \in Task |-> IF task[t] = "completed" THEN "completed" ELSE "queued"]
      /\ UNCHANGED <<plan, logs, told, unseen, lost>>
  BY DEF RunProcess
<1>2. PICK S \in SUBSET {t \in Task : logs[t] > 0} :
        /\ counted' = [t \in Task |-> IF t \in S THEN 0 ELSE logs[t]]
        /\ carried' = Carry(counted')
        /\ recorded' = carried' + Sum(counted', Task)
        /\ unread' = [t \in Task |-> 0]
        /\ skipped' = (skipped \/ S # {})
  BY DEF RunProcess, OpenLedger
<1>3. CapTypeOK /\ Booked /\ SumsOK /\ SumsOK'
  BY SumsNow, SumsNext DEF CapInv
<1> DEFINE all == Sum(logs, Task)  seen == Sum(counted', Task)
<1>4. {recorded, recorded', carried', told, unseen, all, seen} \subseteq Nat
  BY <1>3 DEF CapTypeOK, SumsOK
<1>5. /\ \A t \in Task : counted'[t] \in Nat /\ logs[t] \in Nat /\ counted'[t] <= logs[t]
      /\ S = {} => \A t \in Task : counted'[t] = logs[t]
  <2>1. \A t \in Task : logs[t] \in Nat
    BY <1>3 DEF CapTypeOK
  <2>2. \A t \in Task : counted'[t] = IF t \in S THEN 0 ELSE logs[t]
    BY <1>2
  <2> QED
    BY <2>1, <2>2
<1>6. seen <= all /\ (S = {} => seen = all)
  <2>1. seen <= all
    BY <1>5, TaskParts, SumAtMost
  <2>2. ASSUME S = {} PROVE all <= seen
    BY <1>5, <2>2, TaskParts, SumAtMost
  <2> QED
    BY <1>4, <2>1, <2>2
<1>7. carried' = IF recorded > seen THEN recorded - seen ELSE 0
  BY <1>2, <1>4, CarryParts
<1> HIDE DEF all, seen
<1>8. recorded' = carried' + seen /\ recorded <= recorded' /\ seen <= recorded'
      /\ (recorded' = recorded \/ recorded' = seen)
  <2>1. recorded' = carried' + seen
    BY <1>2 DEF seen
  <2> QED
    BY <1>4, <1>7, <2>1
<1>9. all <= told /\ (~lost => told = all) /\ told <= recorded + unseen /\ (~skipped => recorded <= told)
  BY <1>1, <1>3 DEF Booked, all
<1>10. Booked'
  <2>1. Measured' = recorded' /\ Sum(logs, Task)' = all /\ Sum(unread, Task)' = 0
    <3>1. \A t \in Task : unread'[t] = 0
      BY <1>2
    <3>2. Sum(unread', Task) = 0
      BY <3>1, TaskParts, SumZero
    <3> QED
      BY <1>1, <1>2, <3>2 DEF Measured, ScannedUsd, all
  <2>2. told <= recorded' + Unseen'
    <3>1. Unseen' = IF lost \/ skipped \/ S # {} THEN unseen ELSE 0
      BY <1>1, <1>2 DEF Unseen
    <3>2. CASE lost \/ skipped \/ S # {}
      BY <1>4, <1>8, <1>9, <3>1, <3>2
    <3>3. CASE ~lost /\ S = {} /\ ~skipped
      BY <1>4, <1>6, <1>8, <1>9, <3>1, <3>3
    <3> QED
      BY <3>2, <3>3
  <2>3. ASSUME ~skipped' PROVE recorded' <= told /\ carried' + all <= told
    <3>1. ~skipped /\ S = {}
      BY <1>2, <2>3
    <3>2. seen = all /\ recorded <= told
      BY <1>6, <1>9, <3>1
    <3> QED
      BY <1>4, <1>8, <1>9, <3>2
  <2>4. Unseen' \in Nat
    BY <1>3 DEF SumsOK
  <2>5. told <= recorded' + 0 + Unseen'
    BY <1>4, <2>2, <2>4
  <2> QED
    BY <1>1, <1>9, <2>1, <2>3, <2>5 DEF Booked
<1>11. \A t \in Task : /\ task'[t] \in {"queued", "completed"}
                      /\ counted'[t] + unread'[t] <= logs'[t] /\ unread'[t] = 0
  BY <1>1, <1>2, <1>5
<1>12. Tasks'
  BY <1>11 DEF Tasks, Taken
<1>13. Open' = {}
  BY <1>11 DEF Open
<1>14. Steps'
  <2>1. \A s \in Step : Open' \cap TasksOf(s) = {} /\ step'[s] = "pending"
    BY <1>1, <1>13
  <2>2. \A s \in Step : Cardinality(Open' \cap TasksOf(s)) <= Width(s)
    <3>1. Cardinality({}) = 0 /\ \A s \in Step : Width(s) >= 0
      BY FS_EmptySet, Numbers
    <3> QED
      BY <2>1, <3>1
  <2> QED
    BY <1>11, <2>1, <2>2, TaskParts DEF Steps
<1>15. Gated' /\ Prepared'
  BY <1>1, <1>13 DEF Gated, Prepared
<1> QED
  BY <1>10, <1>12, <1>14, <1>15 DEF CapInv

\* Lost logs leave the record as it is.
LEMMA StepLoseLogs == ASSUME CapInv, CapTypeOK', NEW t \in Task, LoseLogs(t) PROVE CapInv'
<1>1. /\ ~live /\ ~live' /\ logs' = [logs EXCEPT ![t] = 0] /\ lost'
      /\ UNCHANGED <<carried, counted, recorded, told, unseen, skipped>>
  BY DEF LoseLogs, bill
<1>2. CapTypeOK /\ Booked
  BY DEF CapInv
<1>3. Sum(logs, Task)' <= Sum(logs, Task)
  <2>1. logs \in [Task -> Nat]
    BY <1>2 DEF CapTypeOK
  <2>2. \A x \in Task : logs'[x] \in Int /\ logs[x] \in Int /\ logs'[x] <= logs[x]
    BY <1>1, <2>1
  <2> QED
    BY <2>2, TaskParts, SumAtMost
<1>4. /\ {told, Sum(logs, Task), Sum(logs, Task)'} \subseteq Nat
  <2>1. SumsOK /\ SumsOK'
    BY <1>2, SumsNow, SumsNext
  <2>2. told \in Nat
    BY <1>2 DEF CapTypeOK
  <2> QED
    BY <2>1, <2>2 DEF SumsOK
<1>5. Measured' = Measured
  BY <1>1 DEF Measured, ScannedUsd
<1>6. Sum(logs, Task)' <= told'
  BY <1>1, <1>2, <1>3, <1>4 DEF Booked
<1> QED
  BY <1>1, <1>2, <1>5, <1>6 DEF CapInv, Booked

\* A cut books what it cost.
LEMMA StepCut ==
  ASSUME CapInv, CapTypeOK', Cut, NoRead \/ Read(Open), unseen' = Lacks'
  PROVE  CapInv'
<1>1. live /\ ~live' /\ UNCHANGED <<carried, lost, skipped>>
  BY DEF Cut
<1>2. CapTypeOK /\ Booked /\ Tasks /\ SumsOK /\ SumsOK'
  BY <1>1, SumsNow, SumsNext DEF CapInv
<1>3. /\ {told, told', recorded, recorded', carried, Measured, Measured'} \subseteq Nat
  <2>1. {told, told', recorded, recorded', carried} \subseteq Nat
    BY <1>2 DEF CapTypeOK
  <2> QED
    BY <1>2, <2>1 DEF SumsOK
<1>4. /\ Sum(logs, Task)' - Sum(logs, Task) = told' - told /\ told' >= told
      /\ {Sum(logs, Task), Sum(logs, Task)'} \subseteq Nat
  BY <1>2, CutAdds DEF SumsOK
<1>5. recorded' = Measured' /\ (~skipped' => recorded' <= told')
  <2>1. CASE NoRead
    <3>1. Measured' = Measured /\ recorded' = recorded
      BY <1>1, <2>1 DEF NoRead, Measured, ScannedUsd
    <3>2. recorded = Measured /\ (~skipped => recorded <= told)
      BY <1>1, <1>2 DEF Booked
    <3> QED
      BY <1>1, <1>3, <1>4, <3>1, <3>2
  <2>2. CASE Read(Open)
    <3>1. ~skipped => recorded' <= told'
      BY <1>1, <2>2, ReadOpen
    <3>2. recorded' = Measured'
      BY <1>1, <2>2 DEF Read, Measured, ScannedUsd
    <3> QED
      BY <1>1, <3>1, <3>2
  <2> QED
    BY <2>1, <2>2
<1>6. Sum(logs, Task) <= told /\ (~lost => told = Sum(logs, Task))
  BY <1>2 DEF Booked
<1>7. Sum(logs, Task)' <= told' /\ (~lost' => told' = Sum(logs, Task)')
  BY <1>1, <1>3, <1>4, <1>6
<1>8. told' <= recorded' + unseen'
  BY <1>3, LacksNext
<1> QED
  BY <1>1, <1>5, <1>7, <1>8 DEF CapInv, Booked

\* The invariant survives every step.
LEMMA CapInvStep == ASSUME CapInv, [CapNext]_capVars PROVE CapInv'
<1>1. CapTypeOK'
  BY CapTypeStep
<1>2. CASE UNCHANGED capVars
  <2>1. UNCHANGED <<logs, counted, unread, task, tries, carried, recorded, told, unseen, lost, skipped, live, plan,
                     level, cap, step, together>>
    BY <1>2 DEF capVars
  <2>2. /\ Booked' /\ Known' = Known /\ Unseen' = Unseen /\ Open' = Open /\ (Gated => Gated')
        /\ \A r \in Step : Sum(Reserve(r), Task)' = Sum(Reserve(r), Task)
        /\ \A t \in Task : Owes(t)' = Owes(t)
    BY <2>1, Still DEF CapInv
  <2>3. Tasks => Tasks'
    BY <2>1, <2>2 DEF Tasks
  <2>4. Level' = Level
    BY <2>1 DEF Level
  <2>5. Steps => Steps'
    BY <2>1, <2>2, <2>4 DEF Steps
  <2>6. Prepared => Prepared'
    BY <2>1, <2>2 DEF Prepared
  <2> QED
    BY <1>1, <2>1, <2>2, <2>3, <2>5, <2>6 DEF CapInv
<1>3. CASE Crash
  BY <1>1, <1>3, StepCut DEF Crash
<1>4. CASE Interrupt
  BY <1>1, <1>4, StepCut DEF Interrupt
<1> QED
  BY <1>1, <1>2, <1>3, <1>4, StepStart, StepEnter, StepStepEnds, StepBegin, StepScopeEnds, StepRetry,
     StepLeafEnds, StepLevelEnds, StepRunProcess, StepLoseLogs DEF CapNext, Work

\* What the ledger has missed of the tasks that are done.
Gap == [t \in Task |-> IF task[t] \in Closed THEN unread[t] ELSE 0]

\* Unknown is a sum over all tasks.
LEMMA UnknownNow ==
  CapTypeOK => /\ Unknown = Sum(Gap, Task) + Unseen /\ Sum(Gap, Task) \in Int /\ Unseen \in Nat
               /\ \A t \in Task : Gap[t] \in Int
<1> SUFFICES ASSUME CapTypeOK
             PROVE  /\ Unknown = Sum(Gap, Task) + Unseen /\ Sum(Gap, Task) \in Int /\ Unseen \in Nat
                    /\ \A t \in Task : Gap[t] \in Int
  OBVIOUS
<1> DEFINE P == {t \in Task : task[t] \in {"completed", "failed"}}
<1>1. Unknown = Sum(unread, P) + Unseen /\ Unseen \in Nat
  BY DEF Unknown, Unseen, CapTypeOK
<1>2. \A t \in Task : unread[t] \in Int /\ Gap[t] \in Int
  BY DEF Gap, CapTypeOK
<1>3. \A t \in Task : Gap[t] = IF t \in P THEN unread[t] ELSE 0
  BY DEF Gap, Closed
<1>4. P \subseteq Task
  OBVIOUS
<1> HIDE DEF P
<1>5. Sum(unread, P) = Sum(Gap, Task)
  BY <1>2, <1>3, <1>4, TaskParts, SumPart
<1> QED
  BY <1>1, <1>2, <1>5, TaskParts, SumInt

\* What a launch may have spent by the end of its attempts, in terms of what is known, owed
\* and missed: what each task has unread, with whatever is paid at once, it owes or it is done.
LEMMA SpendFits ==
  ASSUME CapInv, live, NEW paid \in [Task -> Nat],
         \A t \in Task : /\ paid[t] <= Price
                         /\ paid[t] = 0 \/ task[t] = "running"
  PROVE  told + Sum(paid, Task) <= Known + Sum(Due, Task) + Unknown - Unseen
<1>1. CapTypeOK /\ Tasks /\ SumsOK
  BY SumsNow DEF CapInv
<1>2. /\ Unknown = Sum(Gap, Task) + Unseen /\ Sum(Gap, Task) \in Int /\ Unseen \in Nat
      /\ \A t \in Task : Gap[t] \in Int
  BY <1>1, UnknownNow
<1> DEFINE now == [t \in Task |-> unread[t] + paid[t]]
           more == [t \in Task |-> Due[t] + Gap[t]]
<1>3. ASSUME NEW t \in Task PROVE unread[t] + paid[t] <= Due[t] + Gap[t]
  <2>1. /\ unread[t] \in Nat /\ tries[t] \in Nat /\ Price \in Nat /\ paid[t] \in Nat
        /\ task[t] \in Taken \cup Closed \cup {"queued", "held"}
    BY <1>1, Numbers DEF CapTypeOK
  <2>2. /\ task[t] \in {"queued", "held"} => unread[t] = 0
        /\ task[t] = "running" => tries[t] > 0
    BY <1>1 DEF Tasks
  <2>3. tries[t] * Price \in Nat /\ (tries[t] > 0 => Price <= tries[t] * Price)
    BY <2>1, Product
  <2>4. CASE task[t] \in Taken
    <3>1. Due[t] = unread[t] + tries[t] * Price /\ Gap[t] = 0
      BY <2>4 DEF Due, Owes, Gap, Taken, Closed
    <3> QED
      BY <2>1, <2>2, <2>3, <3>1
  <2>5. CASE task[t] \notin Taken
    <3>1. paid[t] = 0 /\ Due[t] = 0
      BY <2>5 DEF Taken, Due
    <3>2. Gap[t] = IF task[t] \in Closed THEN unread[t] ELSE 0
      BY DEF Gap
    <3> QED
      BY <2>1, <2>2, <2>5, <3>1, <3>2
  <2> QED
    BY <2>4, <2>5
<1>4. \A t \in Task : /\ {Due[t], Gap[t], unread[t], paid[t], now[t], more[t]} \subseteq Int
                      /\ now[t] = unread[t] + paid[t] /\ more[t] = Due[t] + Gap[t] /\ now[t] <= more[t]
  <2>1. \A t \in Task : Due[t] \in Int /\ Gap[t] \in Int
    BY <1>1, <1>2 DEF SumsOK
  <2>2. \A t \in Task : unread[t] \in Int /\ paid[t] \in Int
    BY <1>1 DEF CapTypeOK
  <2> QED
    BY <1>3, <2>1, <2>2
<1> HIDE DEF now, more
<1>5. Sum(more, Task) = Sum(Due, Task) + Sum(Gap, Task) /\ Sum(now, Task) = Sum(unread, Task) + Sum(paid, Task)
  BY <1>4, TaskParts, SumPlus
<1>6. Sum(now, Task) <= Sum(more, Task)
  BY <1>4, TaskParts, SumAtMost
<1>7. told \in Nat /\ Sum(unread, Task) \in Nat /\ Sum(Due, Task) \in Int /\ Sum(paid, Task) \in Nat
  <2>1. told \in Nat
    BY <1>1 DEF CapTypeOK
  <2>2. Sum(paid, Task) \in Nat
    BY TaskParts, SumNat
  <2> QED
    BY <1>1, <2>1, <2>2 DEF SumsOK
<1>8. Sum(unread, Task) + Sum(paid, Task) <= Sum(Due, Task) + Sum(Gap, Task)
  BY <1>5, <1>6
<1> QED
  BY <1>2, <1>7, <1>8 DEF Known

\* With an agent open, what is known and owed is below the cap, or by less than what is
\* in flight above it, but for what the ledger lacked from the start.
LEMMA OwedNow ==
  CapInv /\ live /\ Open # {} =>
    /\ Known + Sum(Due, Task) < cap + Unseen + InFlight
    /\ Level \subseteq plan.priced /\ ~together => Known + Sum(Due, Task) <= cap + Unseen
<1> SUFFICES ASSUME CapInv, live, Open # {}
             PROVE  /\ Known + Sum(Due, Task) < cap + Unseen + InFlight
                    /\ Level \subseteq plan.priced /\ ~together => Known + Sum(Due, Task) <= cap + Unseen
  OBVIOUS
<1>1. CapTypeOK /\ Tasks /\ Steps /\ Gated /\ Prepared /\ SumsOK
  BY SumsNow DEF CapInv
<1>2. ASSUME Level \subseteq plan.priced, ~together PROVE Known + Sum(Due, Task) <= cap + Unseen
  <2>1. PICK t \in Open : TRUE
    OBVIOUS
  <2> DEFINE s == StepOf(t)
  <2>2. t \in Task /\ s \in Step /\ step[s] = "dispatching"
    BY <1>1, <2>1, TaskParts DEF Open, Tasks, Taken
  <2> HIDE DEF s
  <2>3. s \in plan.priced
    BY <1>1, <1>2, <2>2 DEF Steps
  <2>4. Known + Sum(Reserve(s), Task) <= cap + Unseen /\ \A r \in Step : step[r] = "dispatching" => r = s
    BY <1>1, <1>2, <2>2, <2>3 DEF Prepared
  <2>5. \A x \in Task : Due[x] \in Int /\ Reserve(s)[x] \in Int /\ Due[x] <= Reserve(s)[x]
    <3> SUFFICES ASSUME NEW x \in Task PROVE Due[x] \in Int /\ Reserve(s)[x] \in Int /\ Due[x] <= Reserve(s)[x]
      OBVIOUS
    <3>1. Due[x] \in Int /\ Reserve(s)[x] \in Int /\ Attempts[s] * Price \in Nat
      BY <1>1, <2>2, Numbers DEF SumsOK
    <3>2. CASE task[x] \in Taken
      <4>1. x \in TasksOf(s)
        BY <1>1, <2>4, <3>2, TaskParts DEF Tasks
      <4>2. Due[x] = Owes(x) /\ Reserve(s)[x] = Owes(x)
        BY <3>2, <4>1 DEF Due, Reserve
      <4> QED
        BY <3>1, <4>2
    <3>3. CASE task[x] \notin Taken
      <4>1. Due[x] = 0 /\ (Reserve(s)[x] = 0 \/ Reserve(s)[x] = Attempts[s] * Price)
        BY <3>3 DEF Due, Reserve
      <4> QED
        BY <3>1, <4>1
    <3> QED
      BY <3>2, <3>3
  <2>6. Sum(Due, Task) <= Sum(Reserve(s), Task)
    BY <2>5, TaskParts, SumAtMost
  <2>7. {Sum(Due, Task), Sum(Reserve(s), Task), Known, cap, Unseen} \subseteq Int
    <3>1. cap \in Int
      BY <1>1 DEF CapTypeOK
    <3> QED
      BY <1>1, <2>2, <3>1 DEF SumsOK
  <2> QED
    BY <2>4, <2>6, <2>7
<1> QED
  BY <1>1, <1>2 DEF Gated

\* What agents are paid stays within the cap and what was in flight.
LEMMA SpendsWithin ==
  ASSUME CapInv, live, logs' \in [Task -> Nat], told' \in Nat,
         \A t \in Task : /\ logs[t] <= logs'[t] /\ logs'[t] <= logs[t] + Price
                         /\ task[t] # "running" => logs'[t] = logs[t],
         Sum(logs', Task) - Sum(logs, Task) = told' - told,
         \E t \in Task : task[t] = "running"
  PROVE  /\ told' < cap + Unknown + InFlight
         /\ Level \subseteq plan.priced /\ ~together => told' <= cap + Unknown
<1>1. CapTypeOK /\ SumsOK /\ Tasks /\ Steps
  BY SumsNow DEF CapInv
<1> DEFINE paid == [t \in Task |-> logs'[t] - logs[t]]
<1>2. /\ paid \in [Task -> Nat]
      /\ \A t \in Task : /\ paid[t] <= Price /\ (paid[t] = 0 \/ task[t] = "running")
                         /\ logs'[t] = logs[t] + paid[t]
  <2>1. \A t \in Task : logs[t] \in Nat /\ logs'[t] \in Nat
    BY <1>1 DEF CapTypeOK
  <2>2. \A t \in Task : paid[t] \in Nat
    BY <2>1
  <2> QED
    BY <2>1, <2>2, Numbers
<1> HIDE DEF paid
<1>3. Sum(logs', Task) = Sum(logs, Task) + Sum(paid, Task)
  <2>1. \A t \in Task : logs[t] \in Int /\ paid[t] \in Int
    BY <1>1, <1>2 DEF CapTypeOK
  <2> QED
    BY <1>2, <2>1, TaskParts, SumPlus
<1>4. told + Sum(paid, Task) <= Known + Sum(Due, Task) + Unknown - Unseen
  BY <1>2, SpendFits
<1>5. /\ Known + Sum(Due, Task) < cap + Unseen + InFlight
      /\ Level \subseteq plan.priced /\ ~together => Known + Sum(Due, Task) <= cap + Unseen
  <2>1. Open # {}
    BY DEF Open
  <2> QED
    BY <2>1, OwedNow
<1>6. /\ {told, told', cap, Unseen, Sum(logs, Task), Sum(paid, Task)} \subseteq Nat
      /\ {Known, Sum(Due, Task), Unknown, InFlight} \subseteq Int
  <2>1. {told, cap} \subseteq Nat
    BY <1>1 DEF CapTypeOK
  <2>2. Sum(paid, Task) \in Nat
    BY <1>2, TaskParts, SumNat
  <2>3. InFlight \in Int
    BY <1>1, OpenFits
  <2>4. Unknown = Sum(Gap, Task) + Unseen /\ Sum(Gap, Task) \in Int /\ Unseen \in Nat
    BY <1>1, UnknownNow
  <2>5. Unknown \in Int
    BY <2>4
  <2> QED
    BY <1>1, <2>1, <2>2, <2>3, <2>4, <2>5 DEF SumsOK
<1>7. told' = told + Sum(paid, Task)
  <2>1. Sum(logs', Task) - Sum(logs, Task) = told' - told
    OBVIOUS
  <2>2. {told, told', Sum(logs, Task), Sum(paid, Task)} \subseteq Nat
    BY <1>6
  <2> HIDE DEF Sum
  <2> QED
    BY <1>3, <2>1, <2>2
<1> QED
  BY <1>4, <1>5, <1>6, <1>7

-----------------------------------------------------------------------------

\* The invariant holds.
LEMMA CapInvHolds == CapSpec => []CapInv
  BY CapStarts, CapInvStep, PTL DEF CapSpec

\* The plan, the ledger, the tasks and what the gate counts keep their types in every run.
THEOREM CapTypeCorrect == CapSpec => []CapTypeOK
<1>1. CapInv => CapTypeOK
  BY DEF CapInv
<1> QED
  BY <1>1, CapInvHolds, PTL

\* A step that spends stays within the cap, as SpendBounded says.
LEMMA SpendStep ==
  ASSUME CapInv, CapInv', [CapNext]_capVars
  PROVE  /\ ~skipped' => Measured' <= told'
         /\ spent' > spent =>
              /\ spent' < cap + untold' + Unknown + InFlight
              /\ Level \subseteq plan.priced /\ ~together => spent' <= cap + untold' + Unknown
<1>1. ~skipped' => Measured' <= told'
  BY DEF CapInv, Booked
<1>2. {told, told', untold, untold', cap} \subseteq Nat /\ Unknown \in Int /\ CapTypeOK /\ SumsOK
  <2>1. CapTypeOK /\ CapTypeOK'
    BY DEF CapInv
  <2>2. Unknown = Sum(Gap, Task) + Unseen /\ Sum(Gap, Task) \in Int /\ Unseen \in Nat
    BY <2>1, UnknownNow
  <2>3. {told, told', untold, untold', cap} \subseteq Nat
    BY <2>1 DEF CapTypeOK
  <2>4. Unknown \in Int
    BY <2>2
  <2> QED
    BY <2>1, <2>3, <2>4, SumsNow
<1> SUFFICES ASSUME spent' > spent
             PROVE  /\ spent' < cap + untold' + Unknown + InFlight
                    /\ Level \subseteq plan.priced /\ ~together => spent' <= cap + untold' + Unknown
  BY <1>1
<1> DEFINE Within == /\ spent' < cap + untold' + Unknown + InFlight
                     /\ Level \subseteq plan.priced /\ ~together => spent' <= cap + untold' + Unknown
<1>3. ASSUME live, /\ told' < cap + Unknown + InFlight
                   /\ Level \subseteq plan.priced /\ ~together => told' <= cap + Unknown
      PROVE  Within
  <2>1. InFlight \in Int
    BY <1>3, OpenFits DEF CapInv
  <2>2. spent' = told' + untold'
    BY DEF spent
  <2> QED
    BY <1>2, <1>3, <2>1, <2>2
<1>4. ASSUME NEW t \in Task, NEW usd \in Costs, NEW tells \in BOOLEAN, live, task[t] = "running",
             Pay(t, usd, tells)
      PROVE  Within
  <2>1. /\ logs'[t] - logs[t] \in 0..Price /\ told' - told = logs'[t] - logs[t]
        /\ logs' \in [Task -> Nat] /\ \A x \in Task \ {t} : logs'[x] = logs[x]
    BY <1>2, <1>4, Paid
  <2>2. logs \in [Task -> Nat] /\ Price \in Nat
    BY <1>2, Numbers DEF CapTypeOK
  <2>3. \A x \in Task : /\ logs[x] <= logs'[x] /\ logs'[x] <= logs[x] + Price
                        /\ task[x] # "running" => logs'[x] = logs[x]
    <3> SUFFICES ASSUME NEW x \in Task
                 PROVE  /\ logs[x] <= logs'[x] /\ logs'[x] <= logs[x] + Price
                        /\ task[x] # "running" => logs'[x] = logs[x]
      OBVIOUS
    <3>1. logs[x] \in Nat /\ logs'[x] \in Nat
      BY <2>1, <2>2
    <3>2. CASE x = t
      BY <1>4, <2>1, <2>2, <3>1, <3>2
    <3>3. CASE x # t
      BY <2>1, <2>2, <3>1, <3>3
    <3> QED
      BY <3>2, <3>3
  <2>4. Sum(logs', Task) - Sum(logs, Task) = told' - told
    <3>1. \A x \in Task : logs[x] \in Int /\ logs'[x] \in Int
      BY <2>1, <2>2
    <3>2. Sum(logs', Task) = Sum(logs, Task) + logs'[t] - logs[t]
      BY <2>1, <3>1, TaskParts, SumMoves
    <3>3. Sum(logs, Task) \in Nat
      BY <1>2 DEF SumsOK
    <3> QED
      BY <2>1, <3>1, <3>2, <3>3
  <2>5. /\ told' < cap + Unknown + InFlight
        /\ Level \subseteq plan.priced /\ ~together => told' <= cap + Unknown
    <3>1. \E x \in Task : task[x] = "running"
      BY <1>4
    <3>2. live /\ logs' \in [Task -> Nat] /\ told' \in Nat
      BY <1>2, <1>4, <2>1
    <3> QED
      BY <2>3, <2>4, <3>1, <3>2, SpendsWithin
  <2> QED
    BY <1>3, <1>4, <2>5
<1>5. ASSUME Cut PROVE Within
  <2>1. live
    BY <1>5 DEF Cut
  <2>2. /\ logs' \in [Task -> Nat] /\ told' \in Nat
        /\ \A t \in Task : /\ logs[t] <= logs'[t] /\ logs'[t] <= logs[t] + Price
                           /\ task[t] # "running" => logs'[t] = logs[t]
        /\ Sum(logs', Task) - Sum(logs, Task) = told' - told
        /\ \E t \in Task : task[t] = "running"
    BY <1>2, <1>5, CutAdds
  <2>3. /\ told' < cap + Unknown + InFlight
        /\ Level \subseteq plan.priced /\ ~together => told' <= cap + Unknown
    BY <2>1, <2>2, SpendsWithin
  <2> QED
    BY <1>3, <2>1, <2>3
<1>6. CASE spent' = spent
  BY <1>2, <1>6 DEF spent
<1>7. ASSUME NEW t \in Task, NEW usd \in Costs, NEW tells \in BOOLEAN, Retry(t, usd, tells) PROVE Within
  BY <1>4, <1>7 DEF Retry
<1>8. ASSUME NEW t \in Task, NEW usd \in Costs, NEW tells \in BOOLEAN, NEW ok \in BOOLEAN,
             LeafEnds(t, usd, tells, ok)
      PROVE  Within
  BY <1>4, <1>8 DEF LeafEnds
<1>9. Crash \/ Interrupt => Cut
  BY DEF Crash, Interrupt
<1>10. UNCHANGED <<told, untold>> => spent' = spent
  BY DEF spent
<1>11. \/ UNCHANGED <<told, untold>>
       \/ \E t \in Task, usd \in Costs, tells \in BOOLEAN :
            Retry(t, usd, tells) \/ \E ok \in BOOLEAN : LeafEnds(t, usd, tells, ok)
       \/ Crash \/ Interrupt
  BY DEF CapNext, Work, capVars, bill, StartStep, Enter, StepEnds, Begin, ScopeEnds, LevelEnds, RunProcess,
         LoseLogs
<1> QED
  BY <1>5, <1>6, <1>7, <1>8, <1>9, <1>10, <1>11

\* Over its whole life, whatever cuts, resumes and misreads it, a run spends no more than
\* its cap but for what was in flight when the cap was reached, what no log tells and what
\* its ledger does not know of, and none of what was in flight while priced steps dispatch
\* one at a time; and no dollar is counted twice until a launch passes over a log
\* (check_worst_case, MappedDispatch.admit, SpendLedger.open).
THEOREM SpendNeverPasses == CapSpec => SpendBounded
  BY CapInvHolds, SpendStep, PTL DEF CapSpec, SpendBounded
=============================================================================
