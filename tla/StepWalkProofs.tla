--------------------------- MODULE StepWalkProofs ---------------------------
(***************************************************************************)
(* Theorems about the level walk, for every plan, every set of command      *)
(* lines and any number of launches, crashes and changes: the variables     *)
(* keep their types, no task runs over needs that do not stand,             *)
(* process-status.yaml vouches for no more than the task records do, no     *)
(* walk invalidates or repeats what is up to date, and a clean walk leaves  *)
(* what a run from nothing would.                                           *)
(*                                                                         *)
(* What a walk knows is said of heads: steps on their own, and the first    *)
(* walked stages of chains, under which the later ones run (HeadReached,    *)
(* HeadUnique).  A head that is open has no step complete, in memory or on  *)
(* disk; one that is past has an answer for each of its steps: done, passed *)
(* over by the operator, or failed, and then what needs it is blocked or    *)
(* tolerates it (Placed, Walked).  Tasks run under running heads            *)
(* (RunningUnder).  Kept and Decided add why a step is to run: its output   *)
(* is lost, it is forced, it was edited, or its documents are others than   *)
(* those that its output was computed from.                                 *)
(*                                                                         *)
(* What an output was computed from is said by Sound, of the outputs that a *)
(* clean walk answers for: always what the parts of Sources name, and under *)
(* a walk also that it is current wherever the walk has ruled (Standing).   *)
(* Ledger says what the disk and the walk's memory owe to the exceptions.   *)
(***************************************************************************)
EXTENDS StepWalk, WellFoundedInduction, TLAPS

-----------------------------------------------------------------------------
(* The graph                                                                 *)

LEMMA TaskParts ==
  /\ \A s \in Step : \A k \in Keys(s) : <<s, k>> \in Task /\ <<s, k>> \in Tasks(s)
  /\ \A t \in Task : t = <<t[1], t[2]>> /\ t[1] \in Step /\ t[2] \in Keys(t[1])
  /\ \A s \in Step : \A t \in Tasks(s) : t \in Task /\ t = <<s, t[2]>> /\ t[2] \in Keys(s)
  BY DEF Task, Tasks

\* Downstream(s, plan) has the dependents in the plan of s and of all it has ...
LEMMA DownstreamClosed ==
  ASSUME NEW s, NEW plan, NEW d \in plan, NEW n \in {s} \cup Downstream(s, plan), n \in Needs[d]
  PROVE  d \in Downstream(s, plan)
<1> SUFFICES ASSUME NEW D \in SUBSET plan, Dependents({s} \cup D, plan) \subseteq D
             PROVE  d \in D
  BY DEF Downstream
<1>1. n \in {s} \cup D
  BY DEF Downstream
<1> QED
  BY <1>1 DEF Dependents

\* ... and is the least such set.
LEMMA DownstreamLeast ==
  ASSUME NEW s, NEW plan, NEW D \in SUBSET plan, Dependents({s} \cup D, plan) \subseteq D
  PROVE  Downstream(s, plan) \subseteq D
  BY DEF Downstream

\* What a walk covers of what depends on one of its steps, it reaches by steps it covers.
LEMMA DownstreamInWalk ==
  ASSUME NEW o \in Option, NEW s \in o.walk, NEW D \in SUBSET o.walk,
         \A d \in o.walk : Needs[d] \cap ({s} \cup D) # {} => d \in D
  PROVE  Downstream(s, o.plan) \cap o.walk \subseteq D
<1> USE OptionAssumption
<1>1. CASE \A d \in o.plan : Needs[d] \cap o.walk # {} => d \in o.walk
  <2>1. Dependents({s} \cup D, o.plan) \subseteq D
    BY <1>1 DEF Dependents
  <2> QED
    BY <2>1, DownstreamLeast
<1>2. CASE \A d \in o.walk : Needs[d] \cap o.plan \subseteq o.walk
  <2> DEFINE E == D \cup (o.plan \ o.walk)
  <2>1. E \subseteq o.plan /\ {s} \cup E \subseteq o.plan
    OBVIOUS
  <2>2. Dependents({s} \cup E, o.plan) \subseteq E
    <3> SUFFICES ASSUME NEW d \in o.plan, NEW n \in Needs[d], n \in {s} \cup E, d \in o.walk
                 PROVE  d \in D
      BY DEF Dependents
    <3>1. n \in o.walk
      BY <1>2, <2>1
    <3> QED
      BY <3>1
  <2>3. Downstream(s, o.plan) \subseteq E
    <3> HIDE DEF E
    <3> QED
      BY <2>1, <2>2, DownstreamLeast
  <2> QED
    BY <2>3
<1> QED
  BY <1>1, <1>2

LEMMA LeastElement ==
  ASSUME NEW T \in SUBSET Nat, T # {}
  PROVE  \E m \in T : \A k \in T : m <= k
<1> DEFINE R == {ss \in Nat \X Nat : ss[1] < ss[2]}
<1>1. IsWellFoundedOn(R, Nat)
  BY NatLessThanWellFounded, Zenon DEF OpToRel
<1>2. PICK m \in T : \A k \in T : <<k, m>> \notin R
  BY <1>1, WFMin
<1>3. \A k \in T : ~ (k < m)
  BY <1>2 DEF R
<1> QED
  BY <1>3

-----------------------------------------------------------------------------
(* Chains: a step absorbed in one needs only the step before it, which runs  *)
(* under the same head.                                                      *)

LEMMA ChainParts ==
  ASSUME NEW c \in Chain
  PROVE  /\ Len(c) \in Nat /\ DOMAIN c = 1 .. Len(c)
         /\ \A i \in DOMAIN c : c[i] \in Mapped /\ c[i] \in Step
  BY ChainAssumption, StepAssumption

LEMMA BeforeParts ==
  ASSUME NEW m, NEW s, Before(m, s)
  PROVE  /\ m \in launch.walk \cap Mapped /\ s \in launch.walk \cap Mapped
         /\ m # s
<1>1. PICK c \in Chain : \E i, j \in DOMAIN c :
        i < j /\ c[i] = m /\ c[j] = s /\ \A k \in i .. j : c[k] \in launch.walk
  BY DEF Before
<1>2. PICK i, j \in DOMAIN c :
        i < j /\ c[i] = m /\ c[j] = s /\ \A k \in i .. j : c[k] \in launch.walk
  BY <1>1
<1>3. i \in i .. j /\ j \in i .. j
  BY <1>2, ChainParts
<1>4. c[i] # c[j]
  BY <1>2, ChainAssumption, ChainParts
<1> QED
  BY <1>2, <1>3, <1>4, ChainParts

LEMMA BeforeTransitive ==
  ASSUME NEW l, NEW m, NEW s, Before(l, m), Before(m, s)
  PROVE  Before(l, s)
<1>1. PICK c \in Chain : \E i, j \in DOMAIN c :
        i < j /\ c[i] = l /\ c[j] = m /\ \A k \in i .. j : c[k] \in launch.walk
  BY DEF Before
<1>2. PICK i, j \in DOMAIN c :
        i < j /\ c[i] = l /\ c[j] = m /\ \A k \in i .. j : c[k] \in launch.walk
  BY <1>1
<1>3. PICK d \in Chain : \E x, y \in DOMAIN d :
        x < y /\ d[x] = m /\ d[y] = s /\ \A k \in x .. y : d[k] \in launch.walk
  BY DEF Before
<1>4. PICK x, y \in DOMAIN d :
        x < y /\ d[x] = m /\ d[y] = s /\ \A k \in x .. y : d[k] \in launch.walk
  BY <1>3
<1>5. c = d
  BY <1>2, <1>4, ChainAssumption
<1>6. x = j
  BY <1>2, <1>4, <1>5, ChainAssumption
<1>7. y \in DOMAIN c /\ i < y /\ c[y] = s /\ \A k \in i .. y : c[k] \in launch.walk
  BY <1>2, <1>4, <1>5, <1>6, ChainParts
<1> QED
  BY <1>2, <1>7 DEF Before

\* Two steps before the same one are one, or one is before the other.
LEMMA BeforeLinear ==
  ASSUME NEW l, NEW m, NEW s, Before(l, s), Before(m, s), l # m
  PROVE  Before(l, m) \/ Before(m, l)
<1>1. PICK c \in Chain : \E i, j \in DOMAIN c :
        i < j /\ c[i] = l /\ c[j] = s /\ \A k \in i .. j : c[k] \in launch.walk
  BY DEF Before
<1>2. PICK i, j \in DOMAIN c :
        i < j /\ c[i] = l /\ c[j] = s /\ \A k \in i .. j : c[k] \in launch.walk
  BY <1>1
<1>3. PICK d \in Chain : \E x, y \in DOMAIN d :
        x < y /\ d[x] = m /\ d[y] = s /\ \A k \in x .. y : d[k] \in launch.walk
  BY DEF Before
<1>4. PICK x, y \in DOMAIN d :
        x < y /\ d[x] = m /\ d[y] = s /\ \A k \in x .. y : d[k] \in launch.walk
  BY <1>3
<1>5. c = d
  BY <1>2, <1>4, ChainAssumption
<1>6. y = j
  BY <1>2, <1>4, <1>5, ChainAssumption
<1>7. i < x \/ x < i
  BY <1>2, <1>4, <1>5, ChainParts
<1>8. CASE i < x
  <2>1. \A k \in i .. x : c[k] \in launch.walk
    BY <1>2, <1>4, <1>5, <1>6, ChainParts
  <2> QED
    BY <1>2, <1>4, <1>5, <1>8, <2>1 DEF Before
<1>9. CASE x < i
  <2>1. \A k \in x .. i : c[k] \in launch.walk
    BY <1>2, <1>4, <1>5, <1>6, ChainParts
  <2> QED
    BY <1>2, <1>4, <1>5, <1>9, <2>1 DEF Before
<1> QED
  BY <1>7, <1>8, <1>9

\* The stage before s, the only thing s needs.
LEMMA Previous ==
  ASSUME NEW s, Absorbed(s)
  PROVE  \E p \in Step : /\ Before(p, s) /\ Needs[s] = {p}
                         /\ \A m : Before(m, s) => m = p \/ Before(m, p)
<1>1. PICK m \in Step : Before(m, s)
  BY DEF Absorbed
<1>2. PICK c \in Chain : \E i, j \in DOMAIN c :
        i < j /\ c[i] = m /\ c[j] = s /\ \A k \in i .. j : c[k] \in launch.walk
  BY <1>1 DEF Before
<1>3. PICK i, j \in DOMAIN c :
        i < j /\ c[i] = m /\ c[j] = s /\ \A k \in i .. j : c[k] \in launch.walk
  BY <1>2
<1>4. j > 1 /\ j - 1 \in DOMAIN c /\ j - 1 \in i .. j
  BY <1>3, ChainParts
<1>5. \A k \in j - 1 .. j : c[k] \in launch.walk
  BY <1>3, <1>4, ChainParts
<1>6. Before(c[j - 1], s)
  BY <1>3, <1>4, <1>5, ChainParts DEF Before
<1>7. Needs[s] = {c[j - 1]}
  BY <1>3, <1>4, ChainAssumption
<1>8. ASSUME NEW n, Before(n, s), n # c[j - 1] PROVE Before(n, c[j - 1])
  <2>1. CASE Before(c[j - 1], n)
    <3>1. Before(n, s) /\ Before(c[j - 1], n)
      BY <1>8, <2>1
    <3>2. PICK d \in Chain : \E x, y \in DOMAIN d :
            x < y /\ d[x] = n /\ d[y] = s /\ \A k \in x .. y : d[k] \in launch.walk
      BY <3>1 DEF Before
    <3>3. PICK x, y \in DOMAIN d : x < y /\ d[x] = n /\ d[y] = s
      BY <3>2
    <3>4. PICK e \in Chain : \E v, w \in DOMAIN e :
            v < w /\ e[v] = c[j - 1] /\ e[w] = n /\ \A k \in v .. w : e[k] \in launch.walk
      BY <3>1 DEF Before
    <3>5. PICK v, w \in DOMAIN e : v < w /\ e[v] = c[j - 1] /\ e[w] = n
      BY <3>4
    <3>6. d = c /\ e = c
      BY <1>3, <1>4, <3>3, <3>5, ChainAssumption
    <3>7. v = j - 1 /\ w = x /\ y = j
      BY <1>3, <1>4, <3>3, <3>5, <3>6, ChainAssumption
    <3> QED
      BY <3>3, <3>5, <3>6, <3>7, ChainParts
  <2> QED
    BY <1>6, <1>8, <2>1, BeforeLinear
<1> QED
  BY <1>4, <1>6, <1>7, <1>8, ChainParts

\* What holds of a step, and of the stage before wherever it holds of an absorbed step,
\* holds of the head.
LEMMA HeadReached ==
  ASSUME NEW X, NEW s \in X, s \in Step,
         \A a \in X : Absorbed(a) => \A p \in Step : Before(p, a) /\ Needs[a] = {p} => p \in X
  PROVE  \E h \in X : h \in Step /\ ~Absorbed(h) /\ s \in Members(h)
<1>1. CASE ~Absorbed(s)
  BY <1>1 DEF Members
<1>2. CASE Absorbed(s)
  <2>1. PICK m \in Step : Before(m, s)
    BY <1>2 DEF Absorbed
  <2>2. PICK c \in Chain : \E i, j \in DOMAIN c :
          i < j /\ c[i] = m /\ c[j] = s /\ \A k \in i .. j : c[k] \in launch.walk
    BY <2>1 DEF Before
  <2>3. PICK j \in DOMAIN c : c[j] = s
    BY <2>2
  <2> DEFINE T == {i \in DOMAIN c : i <= j /\ c[i] \in X /\ (i < j => Before(c[i], s))}
  <2>4. T \in SUBSET Nat /\ j \in T
    BY <2>3, ChainParts
  <2>5. PICK i \in T : \A k \in T : i <= k
    BY <2>4, LeastElement
  <2>6. c[i] \in Step /\ s \in Members(c[i])
    BY <2>3, <2>5, ChainParts DEF Members
  <2>7. ASSUME Absorbed(c[i]) PROVE FALSE
    <3>1. PICK p \in Step : Before(p, c[i]) /\ Needs[c[i]] = {p}
      BY <2>7, Previous
    <3>2. p \in X
      BY <2>5, <2>7, <3>1
    <3>3. PICK d \in Chain : \E v, w \in DOMAIN d :
            v < w /\ d[v] = p /\ d[w] = c[i] /\ \A k \in v .. w : d[k] \in launch.walk
      BY <3>1 DEF Before
    <3>4. PICK v, w \in DOMAIN d : v < w /\ d[v] = p /\ d[w] = c[i]
      BY <3>3
    <3>5. d = c
      BY <2>5, <3>4, ChainAssumption
    <3>6. w = i
      BY <2>5, <3>4, <3>5, ChainAssumption
    <3>7. Before(p, s)
      BY <2>3, <2>5, <3>1, BeforeTransitive, ChainParts
    <3>8. v \in T
      BY <2>3, <2>5, <3>2, <3>4, <3>5, <3>6, <3>7, ChainParts
    <3> QED
      BY <2>5, <3>4, <3>6, <3>8, ChainParts, <3>5
  <2> QED
    BY <2>5, <2>6, <2>7
<1> QED
  BY <1>1, <1>2

LEMMA HeadUnique ==
  ASSUME NEW g \in Step, NEW h \in Step, NEW s, s \in Members(g), s \in Members(h),
         ~Absorbed(g), ~Absorbed(h)
  PROVE  g = h
<1>1. g = s \/ Before(g, s)
  BY DEF Members
<1>2. h = s \/ Before(h, s)
  BY DEF Members
<1> QED
  BY <1>1, <1>2, BeforeLinear DEF Absorbed

\* Every step has its head; one of the walk, in the walk.
LEMMA HeadExists ==
  ASSUME NEW s \in Step
  PROVE  \E h \in Step : ~Absorbed(h) /\ s \in Members(h) /\ (h = s \/ h \in launch.walk)
<1>1. PICK h \in Step : ~Absorbed(h) /\ s \in Members(h)
  BY HeadReached
<1> QED
  BY <1>1, BeforeParts DEF Members

\* Steps outside a chain are passed by no stage.
LEMMA AllReachHead ==
  ASSUME NEW h, ~Absorbed(h)
  PROVE  Reached(h) = Keys(h)
  BY DEF Reached, Absorbed

LEMMA ChainKeys ==
  ASSUME NEW m, NEW s, Before(m, s)
  PROVE  Keys(m) = Item /\ Keys(s) = Item
  BY BeforeParts DEF Keys

\* Once every stage under h has done the items that reached it, each has done them all.
LEMMA AllReached ==
  ASSUME NEW h \in Step, ~Absorbed(h), NEW n \in Members(h),
         \A m \in Members(h) : \A k \in Reached(m) : Done(<<m, k>>)
  PROVE  \A t \in Tasks(n) : Done(t)
<1> SUFFICES ASSUME NEW k \in Keys(n), k \notin Reached(n) \/ ~Done(<<n, k>>)
             PROVE  FALSE
  BY TaskParts, StepAssumption DEF Members
<1>1. CASE h = n
  BY <1>1, AllReachHead
<1>2. CASE Before(h, n)
  <2> DEFINE X == {s \in Step \cap Members(h) : k \notin Reached(s) \/ ~Done(<<s, k>>)}
  <2>1. n \in X
    BY <1>2 DEF Members
  <2>2. ASSUME NEW a \in X, Absorbed(a), NEW p \in Step, Before(p, a), Needs[a] = {p}
        PROVE  p \in X
    <3>1. k \notin Reached(a)
      BY <2>2
    <3>2. k \in Keys(a)
      BY <1>2, <2>2, ChainKeys
    <3>3. PICK m \in Step : Before(m, a) /\ ~Done(<<m, k>>)
      BY <3>1, <3>2 DEF Reached
    <3>4. a # h /\ Before(h, a)
      BY <2>2 DEF Members
    <3>5. p \in Members(h)
      <4>1. h = p \/ Before(h, p) \/ Before(p, h)
        BY <2>2, <3>4, BeforeLinear
      <4> QED
        BY <4>1 DEF Members, Absorbed
    <3>6. m = p \/ Before(m, p)
      BY <2>2, <3>3, Previous
    <3>7. CASE m = p
      BY <3>3, <3>5, <3>7
    <3>8. CASE Before(m, p)
      BY <3>3, <3>5, <3>8 DEF Reached
    <3> QED
      BY <3>6, <3>7, <3>8
  <2>3. PICK g \in X : g \in Step /\ ~Absorbed(g) /\ n \in Members(g)
    <3>1. n \in Step
      BY <2>1
    <3>2. \A a \in X : Absorbed(a) => \A p \in Step : Before(p, a) /\ Needs[a] = {p} => p \in X
      BY <2>2
    <3> HIDE DEF X
    <3> QED
      BY <2>1, <3>1, <3>2, HeadReached
  <2>4. g = h
    BY <2>3, HeadUnique
  <2>5. k \in Keys(h)
    BY <1>2, ChainKeys
  <2> QED
    BY <2>3, <2>4, <2>5, AllReachHead DEF X, Members
<1> QED
  BY <1>1, <1>2 DEF Members

-----------------------------------------------------------------------------
(* What a walk knows                                                         *)

Active == phase # "idle"
Past == launch.walk \ left
Open(h) == st[h].state \in {"pending", "running"}

\* The operator answers for h: --skip, or an override that --force does not set aside.
Passed(h) == h \in launch.skip \cup (overridden \ launch.forced)

\* h failed, or depends on a step that did: what needs h is blocked or tolerates it.
Doomed(h) ==
  \E f \in Step : /\ h \in {f} \cup Downstream(f, launch.plan)
                  /\ PropagateFailure(f, launch.plan) \subseteq blocked

(* The walk goes level by level: what is past needs nothing that is left,    *)
(* what runs is a head that nothing blocks, an invalidation renames records  *)
(* of its root and of what depends on it, and what is blocked has a cause.   *)
Placed ==
  Active =>
    /\ launch \in Option
    /\ \A s \in Past : Needs[s] \cap left = {}
    /\ \A s \in runnable : ~Absorbed(s) /\ s \notin blocked
    /\ phase = "running" => judged = Level /\ cascade.tasks = {}
    /\ cascade.tasks # {} => cascade.root \in runnable
    /\ \A t \in cascade.tasks :
         t[1] \in {cascade.root} \cup Downstream(cascade.root, launch.plan)
    /\ \A b \in blocked : Doomed(b)

(* What step_states says of the head of a chain, or of a step alone.         *)
StateOf(h) ==
  /\ h \in left \ judged => st[h].state = "pending"
  /\ h \in runnable =>
       /\ st[h].state \in {"pending", "running", "completed", "failed"}
       /\ phase = "judging" => st[h].state = "pending"
       /\ ~Open(h) => \A m \in Members(h) : st[m].state \in {"completed", "failed"}

\* A head that is past, or was not run, has an answer for every step under it.
Answered(h) ==
  h \in Past \cup (judged \ runnable) =>
    ~Open(h) /\ (Doomed(h) \/ Passed(h) \/ \A m \in Members(h) : st[m].state = "completed")

\* Until it has one, none of them is complete, on disk either.
Unanswered(h) == Open(h) => \A m \in Members(h) : Open(m) /\ mirror[m].state # "completed"

\* What is complete has done all the items that reached it, and still has.
Complete(h) ==
  ~Open(h) /\ ~Passed(h) =>
    \A m \in Members(h) : st[m].state = "completed" => \A k \in Reached(m) : Done(<<m, k>>)

HeadOk(h) == StateOf(h) /\ Answered(h) /\ Unanswered(h) /\ Complete(h)
Walked == Active => \A h \in launch.walk : ~Absorbed(h) => HeadOk(h)

(* A task runs under a running head, on what the stages before have done.    *)
RunningUnder ==
  Active => \A t \in Task : rec[t] = "running" =>
    /\ phase = "running" /\ t[2] \in Reached(t[1])
    /\ \E h \in runnable : st[h].state = "running" /\ t[1] \in Members(h)

(* Nothing is being invalidated between two walks.                           *)
Quiet == ~Active => cascade.tasks = {}

(* The mirror, and the memory it is written from, claim only what is so.     *)
Backed(x) ==
  \A s \in Step : x[s].state = "completed" /\ s \notin excused =>
    \A k \in owed[s] : rec[<<s, k>>] = "completed"

Vouching ==
  /\ \A s \in Step : owed[s] \subseteq Keys(s)
  /\ overridden \cup launch.skip \subseteq excused
  /\ Backed(mirror) /\ (Active => Backed(st))

-----------------------------------------------------------------------------
(* Types                                                                     *)

LEMMA EntryTypes ==
  ASSUME NEW state \in States
  PROVE  Entry(state) \in [state : States, hash : Nat] /\ Entry(state).state = state
  BY DEF Entry

LEMMA FailureInPlan ==
  ASSUME NEW f, NEW plan
  PROVE  PropagateFailure(f, plan) \subseteq plan
  BY DEF PropagateFailure, Downstream

LEMMA LeaveTypes ==
  ASSUME NEW how \in {"clean", "partial", "failed", "crashed"}, Leave(how)
  PROVE  /\ st' \in Entries /\ prior' \in Entries /\ phase' = "idle"
         /\ left' \subseteq launch'.walk /\ judged' \subseteq Level' /\ runnable' \subseteq judged'
         /\ cascade' \in [root : Step \cup {Whole}, tasks : SUBSET Task]
         /\ blocked' \subseteq launch'.plan /\ tried' \subseteq Task
         /\ outcome' \in {"none", "clean", "partial", "failed", "crashed"}
<1>1. Entry("none") \in [state : States, hash : Nat]
  BY EntryTypes DEF States
<1> QED
  BY <1>1 DEF Leave, NoCascade, NoLaunch, Entries, Level

LEMMA TypeStep == ASSUME TypeOK, [Next]_vars PROVE TypeOK'
<1> USE DEF TypeOK, Entries, Records, Keys
<1>1. CASE Rest \/ UNCHANGED vars
  BY <1>1 DEF Rest, vars, disk, walk, ghost, Level
<1>2. ASSUME NEW o \in Option, Launch(o) PROVE TypeOK'
  <2>1. Entered(o) \in Entries
    BY EntryTypes DEF Entered, States
  <2>2. Reconciled \in [Task -> Records]
    BY DEF Reconciled
  <2>3. LeftBehind(o) \subseteq Step
    BY OptionAssumption DEF LeftBehind
  <2> QED
    BY <1>2, <2>1, <2>2, <2>3, OptionAssumption DEF Launch, EntryWrite, NoCascade, Level
<1>3. ASSUME NEW s \in Step, PassOver(s) PROVE TypeOK'
  <2>1. s \in Level
    BY <1>3 DEF PassOver, CanJudge
  <2>2. \A x \in {"blocked", "skipped", "completed"} : [st EXCEPT ![s] = Entry(x)] \in Entries
    BY EntryTypes DEF States
  <2> QED
    BY <1>3, <2>1, <2>2 DEF PassOver, Judged, Level, disk, ghost
<1>4. ASSUME NEW s \in Step, Consider(s) PROVE TypeOK'
  <2>1. s \in Level
    BY <1>4 DEF Consider, Considered, CanJudge
  <2>2. [st EXCEPT ![s] = [state |-> "completed", hash |-> prior[s].hash]] \in Entries
    BY DEF States
  <2>3. \A keep : ToInvalidate(s, keep) \subseteq Task
    BY DEF ToInvalidate
  <2>4. CASE Judged(s, [state |-> "completed", hash |-> prior[s].hash])
    BY <1>4, <2>1, <2>2, <2>4 DEF Consider, Judged, Level, disk, ghost
  <2>5. ASSUME NEW T \in SUBSET Task, WillRun(s, T) PROVE TypeOK'
    BY <1>4, <2>1, <2>5 DEF Consider, WillRun, Level, disk, ghost
  <2> QED
    BY <1>4, <2>3, <2>4, <2>5 DEF Consider
<1>5. ASSUME NEW t \in Task, Rename(t) PROVE TypeOK'
  <2>1. cascade' \in [root : Step \cup {Whole}, tasks : SUBSET Task]
    BY <1>5 DEF Rename
  <2>2. rec' \in [Task -> {"none", "running", "completed", "failed", "stale"}]
    BY <1>5 DEF Rename
  <2>3. UNCHANGED <<version, overridden, hash, made, delivered, mirror, st, phase, prior,
                    launch, left, judged, runnable, blocked, tried, outcome, ghost>>
    BY <1>5 DEF Rename
  <2> QED
    BY <2>1, <2>2, <2>3 DEF Level, ghost
<1>6. CASE Gather
  BY <1>6 DEF Gather, Level, disk, ghost
<1>7. ASSUME NEW s \in Step, StartStep(s) PROVE TypeOK'
  <2>1. [st EXCEPT ![s] = Entry("running")] \in Entries
    BY EntryTypes DEF States
  <2> QED
    BY <1>7, <2>1 DEF StartStep, Level, walk, ghost
<1>8. ASSUME NEW t \in Task, NEW state \in Records, NEW output, NEW h \in Nat,
             Record(t, state, output, h), tried' = tried \/ tried' = tried \cup {t},
             unsettled' = unsettled \/ unsettled' = unsettled \cup {t[1]}
      PROVE  TypeOK'
  BY <1>8, TaskParts DEF Record, Level
<1>9. ASSUME NEW t \in Task, StartTask(t) \/ RefuseTask(t) \/ EndTask(t) PROVE TypeOK'
  <2>1. version[t[1]] \in Nat /\ rec[t] \in Records /\ hash[t] \in Nat
    BY TaskParts
  <2> QED
    BY <1>8, <1>9, <2>1 DEF StartTask, RefuseTask, EndTask
<1>10. ASSUME NEW s \in Step, EndStep(s) PROVE TypeOK'
  <2>1. \A m \in Step : Ended(m) \in [state : States, hash : Nat]
    BY EntryTypes DEF Ended, States
  <2>2. st' \in Entries
    BY <1>10, <2>1 DEF EndStep
  <2>3. \A m \in Step : Reached(m) \subseteq Item \cup {Whole}
    BY DEF Reached
  <2>4. owed' \in [Step -> SUBSET (Item \cup {Whole})]
    BY <1>10, <2>3 DEF EndStep
  <2> QED
    BY <1>10, <2>2, <2>4 DEF EndStep, disk, walk, Level
<1>11. CASE EndLevel
  <2>1. CASE Leave("failed")
    BY <1>11, <2>1, LeaveTypes DEF EndLevel, disk, ghost
  <2>2. CASE ~(FailedSteps # {} /\ launch.failFast)
    BY <1>11, <2>2, FailureInPlan DEF EndLevel, Level, disk, ghost
  <2> QED
    BY <1>11, <2>1, <2>2 DEF EndLevel
<1>12. CASE EndWalk
  BY <1>12, LeaveTypes DEF EndWalk, disk, ghost
<1>13. CASE Interrupt
  <2>1. mirror' \in Entries
    BY <1>13, EntryTypes DEF Interrupt, States
  <2> QED
    BY <1>13, <2>1, LeaveTypes DEF Interrupt, Reconciled
<1>14. ASSUME NEW cut \in SUBSET Task, Crash(cut) PROVE TypeOK'
  <2>1. {t[1] : t \in cascade.tasks \cup cut} \subseteq Step
    BY TaskParts
  <2> QED
    BY <1>14, <2>1, LeaveTypes DEF Crash
<1>15. ASSUME NEW s \in Step, Edit(s) \/ Override(s) PROVE TypeOK'
  BY <1>15 DEF Edit, Override, Between, walk, Level
<1>16. ASSUME NEW t \in Task, LoseOutput(t) PROVE TypeOK'
  BY <1>16 DEF LoseOutput, Between, walk, Level
<1> QED
  BY <1>1, <1>2, <1>3, <1>4, <1>5, <1>6, <1>7, <1>9, <1>10, <1>11, <1>12, <1>13, <1>14, <1>15,
     <1>16 DEF Next, Judgement, Renaming, Work, Turn

LEMMA TypeInit == Init => TypeOK
<1>1. Entry("none") \in [state : States, hash : Nat]
  BY EntryTypes DEF States
<1> QED
  BY <1>1 DEF Init, TypeOK, Entries, Records, NoLaunch, NoCascade, Level, Keys

(* The files and the memory of the walk keep their shapes.                   *)
THEOREM TypeCorrect == Spec => []TypeOK
  BY TypeInit, TypeStep, PTL DEF Spec

-----------------------------------------------------------------------------
(* Walking                                                                   *)

Inv == TypeOK /\ Placed /\ Walked /\ RunningUnder

LEMMA WalkSteps ==
  ASSUME TypeOK, Placed, Active
  PROVE  /\ launch \in Option /\ launch.plan \subseteq Step /\ launch.walk \subseteq Step
         /\ left \subseteq launch.walk /\ Level \subseteq left
         /\ runnable \subseteq judged /\ judged \subseteq Level
  BY OptionAssumption DEF TypeOK, Placed, Level

\* Chains are what they were while the launch is.
LEMMA Fixed ==
  ASSUME launch' = launch
  PROVE  /\ \A m, s : Before(m, s)' <=> Before(m, s)
         /\ \A s : Absorbed(s)' <=> Absorbed(s)
         /\ \A s : Members(s)' = Members(s)
         /\ \A s : Heads(s)' <=> Heads(s)
<1>1. \A m, s : Before(m, s)' <=> Before(m, s)
  BY DEF Before
<1> QED
  BY <1>1 DEF Absorbed, Members, Heads

LEMMA MembersInWalk ==
  ASSUME NEW h, NEW m \in Members(h)
  PROVE  (h \in launch.walk => m \in launch.walk) /\ (h \in Step => m \in Step)
  BY BeforeParts DEF Members

\* All the stages before one under h are under h.
LEMMA MembersBefore ==
  ASSUME NEW h \in Step, ~Absorbed(h), NEW m \in Members(h), NEW l \in Step, Before(l, m)
  PROVE  l \in Members(h)
<1>1. h # m /\ Before(h, m)
  BY DEF Members, Absorbed
<1>2. h = l \/ Before(h, l) \/ Before(l, h)
  BY <1>1, BeforeLinear
<1> QED
  BY <1>2 DEF Members, Absorbed

LEMMA Disjoint ==
  ASSUME NEW g \in Step, NEW h \in Step, ~Absorbed(g), ~Absorbed(h), g # h
  PROVE  \A m \in Members(g) : m \notin Members(h)
  BY HeadUnique

LEMMA HeadIsMember == \A h : h \in Members(h)
  BY DEF Members

\* The items that reach a stage are those they were if none of its head's tasks changed.
LEMMA SameReached ==
  ASSUME launch' = launch, NEW h \in Step, ~Absorbed(h), NEW m \in Members(h),
         \A l \in Members(h) : \A k : Done(<<l, k>>)' <=> Done(<<l, k>>)
  PROVE  Reached(m)' = Reached(m)
<1>1. \A l \in Step : Before(l, m)' <=> Before(l, m)
  BY Fixed
<1>2. \A l \in Step : Before(l, m) => \A k : Done(<<l, k>>)' <=> Done(<<l, k>>)
  BY MembersBefore
<1> QED
  BY <1>1, <1>2 DEF Reached, Keys

LEMMA DoomedStays ==
  ASSUME launch' = launch, blocked \subseteq blocked', NEW h, Doomed(h)
  PROVE  Doomed(h)'
  BY DEF Doomed

\* What an invalidation renames in the walk is under a head that is yet to run.
LEMMA RenamedOpen ==
  ASSUME Inv, Active, NEW t \in cascade.tasks, t[1] \in launch.walk,
         NEW h \in Step, ~Absorbed(h), t[1] \in Members(h)
  PROVE  h \in launch.walk /\ Open(h)
<1> DEFINE root == cascade.root
           D == {d \in launch.walk :
                  /\ d \in left \ Level
                  /\ \E g \in Step : ~Absorbed(g) /\ d \in Members(g)
                                     /\ (g = root \/ g \in left \ Level)}
<1>1. phase = "judging" /\ root \in runnable /\ ~Absorbed(root) /\ root \in Step
      /\ root \in launch.walk /\ root \in Level
  BY WalkSteps DEF Inv, Placed, Active, TypeOK
<1>2. Open(root)
  BY <1>1 DEF Inv, Walked, HeadOk, StateOf, Open
<1>3. ASSUME NEW d \in launch.walk, NEW n \in Needs[d], n \in {root} \cup D
      PROVE  d \in D
  <2>1. n \in left /\ n \in Step
    BY <1>1, <1>3, WalkSteps DEF Inv
  <2>2. d \in left \ Level
    BY <2>1 DEF Inv, Placed, Past, Level
  <2>3. CASE ~Absorbed(d)
    BY <2>2, <2>3, WalkSteps, HeadIsMember DEF Inv
  <2>4. CASE Absorbed(d)
    <3>1. Before(n, d)
      BY <2>4, Previous
    <3>2. CASE n = root
      BY <1>1, <2>2, <3>1, <3>2, WalkSteps DEF Inv, Members
    <3>3. CASE n \in D
      <4>1. PICK g \in Step : ~Absorbed(g) /\ n \in Members(g) /\ (g = root \/ g \in left \ Level)
        BY <3>3
      <4>2. d \in Step /\ d \in Members(g)
        BY <3>1, <4>1, WalkSteps, BeforeTransitive DEF Inv, Members
      <4> QED
        BY <2>2, <4>1, <4>2
    <3> QED
      BY <1>3, <3>2, <3>3
  <2> QED
    BY <2>3, <2>4
<1>4. Downstream(root, launch.plan) \cap launch.walk \subseteq D
  <2>1. launch \in Option /\ D \in SUBSET launch.walk
    BY WalkSteps DEF Inv
  <2>2. \A d \in launch.walk : Needs[d] \cap ({root} \cup D) # {} => d \in D
    BY <1>3
  <2> HIDE DEF D, root
  <2> QED
    BY <1>1, <2>1, <2>2, DownstreamInWalk
<1>5. t[1] = root \/ t[1] \in D
  BY <1>4 DEF Inv, Placed
<1>6. CASE t[1] = root
  <2>1. h = root
    BY <1>1, <1>6, HeadUnique, HeadIsMember
  <2> QED
    BY <1>1, <1>2, <2>1
<1>7. CASE t[1] \in D
  <2>1. PICK g \in Step : ~Absorbed(g) /\ t[1] \in Members(g) /\ (g = root \/ g \in left \ Level)
    BY <1>7
  <2>2. g = h
    BY <2>1, HeadUnique
  <2>3. h \in launch.walk /\ (h = root \/ h \in left \ judged)
    BY <1>1, <2>1, <2>2, WalkSteps DEF Inv
  <2> QED
    BY <1>2, <2>3 DEF Inv, Walked, HeadOk, StateOf, Open
<1> QED
  BY <1>5, <1>6, <1>7

\* A step that leaves a head where it stands, its states and its tasks alone, leaves what
\* is known of it.
LEMMA HeadFrame ==
  ASSUME launch' = launch, overridden' = overridden, blocked \subseteq blocked',
         NEW h \in Step, ~Absorbed(h), HeadOk(h),
         \A m \in Members(h) : st'[m] = st[m] /\ mirror'[m] \in {mirror[m], st[m]},
         Open(h) \/ \A m \in Members(h) : \A k : Done(<<m, k>>)' <=> Done(<<m, k>>),
         h \in left' \ judged' => h \in left \ judged,
         h \in runnable' => h \in runnable /\ (phase' = "judging" => phase = "judging"),
         h \in Past' \cup (judged' \ runnable') => h \in Past \cup (judged \ runnable)
  PROVE  HeadOk(h)'
<1>1. Members(h)' = Members(h) /\ h \in Members(h)
  BY Fixed, HeadIsMember
<1>2. Open(h)' <=> Open(h)
  BY <1>1 DEF Open
<1>3. Passed(h)' <=> Passed(h)
  BY DEF Passed
<1>4. StateOf(h)'
  BY <1>1, <1>2 DEF HeadOk, StateOf
<1>5. Answered(h)'
  BY <1>1, <1>2, <1>3, DoomedStays DEF HeadOk, Answered
<1>6. Unanswered(h)'
  BY <1>1, <1>2 DEF HeadOk, Unanswered, Open
<1>7. Complete(h)'
  <2> SUFFICES ASSUME ~Open(h), ~Passed(h), NEW m \in Members(h), st[m].state = "completed",
                      NEW k, k \in Reached(m)'
               PROVE  Done(<<m, k>>)'
    BY <1>1, <1>2, <1>3 DEF Complete
  <2>1. k \in Reached(m)
    BY SameReached
  <2>2. Done(<<m, k>>)
    BY <2>1 DEF HeadOk, Complete
  <2> QED
    BY <2>2
<1> QED
  BY <1>4, <1>5, <1>6, <1>7 DEF HeadOk

LEMMA LaunchStep ==
  ASSUME TypeOK, TypeOK', NEW o \in Option, Launch(o)
  PROVE  Inv'
<1> USE DEF Launch
<1>1. Placed'
  BY DEF Placed, Past, NoCascade
<1>2. ASSUME NEW h \in launch'.walk, ~Absorbed(h)' PROVE HeadOk(h)'
  <2>1. o.walk \subseteq Step
    BY OptionAssumption
  <2>2. \A m \in Members(h)' : m \in o.walk
    <3> SUFFICES ASSUME NEW m, Before(h, m)' PROVE m \in launch'.walk
      BY <1>2 DEF Members
    <3>1. PICK c \in Chain : \E i, j \in DOMAIN c :
            i < j /\ c[i] = h /\ c[j] = m /\ \A k \in i .. j : c[k] \in launch'.walk
      BY DEF Before
    <3>2. PICK i, j \in DOMAIN c : i < j /\ c[j] = m /\ \A k \in i .. j : c[k] \in launch'.walk
      BY <3>1
    <3>3. j \in i .. j
      BY <3>2, ChainParts
    <3> QED
      BY <3>2, <3>3
  <2>3. \A m \in o.walk : st'[m].state = "pending" /\ mirror'[m].state = "pending"
    BY <2>1 DEF Entered, EntryWrite, Entry
  <2>4. Open(h)'
    BY <1>2, <2>3 DEF Open
  <2> QED
    BY <1>2, <2>2, <2>3, <2>4 DEF HeadOk, StateOf, Answered, Unanswered, Complete, Open, Past
<1>3. Walked'
  BY <1>2 DEF Walked
<1>4. RunningUnder'
  BY DEF Reconciled, RunningUnder
<1> QED
  BY <1>1, <1>3, <1>4 DEF Inv

\* Judging one head leaves the others where they are.
LEMMA JudgeOthers ==
  ASSUME Inv, NEW s \in Step, CanJudge(s), UNCHANGED <<disk, mirror, phase, launch, left, blocked>>,
         judged' = judged \cup {s}, runnable' \subseteq runnable \cup {s},
         runnable \subseteq runnable',
         \A m \in Step : m # s => st'[m] = st[m], Absorbed(s) => st' = st,
         NEW h \in launch.walk, ~Absorbed(h), h # s
  PROVE  HeadOk(h)'
<1>1. Active /\ h \in Step /\ HeadOk(h)
  BY WalkSteps DEF CanJudge, Active, Inv, Walked
<1>2. \A m \in Members(h) : st'[m] = st[m]
  <2>1. CASE Absorbed(s)
    BY <2>1
  <2>2. CASE ~Absorbed(s)
    BY <1>1, <2>2, Disjoint, HeadIsMember, MembersInWalk
  <2> QED
    BY <2>1, <2>2
<1>3. \A m \in Members(h) : \A k : Done(<<m, k>>)' <=> Done(<<m, k>>)
  BY DEF Done, disk
<1> QED
  BY <1>1, <1>2, <1>3, HeadFrame DEF disk, Past

LEMMA PassOverStep ==
  ASSUME Inv, TypeOK', NEW s \in Step, PassOver(s)
  PROVE  Inv'
<1>1. Active /\ CanJudge(s) /\ phase = "judging" /\ s \in Level /\ s \in launch.walk /\ s \notin judged
  BY WalkSteps DEF PassOver, CanJudge, Active, Inv
<1>2. UNCHANGED <<disk, mirror, phase, launch, left, blocked, runnable, cascade>>
      /\ judged' = judged \cup {s}
  <2>1. CASE judged' = judged \cup {s} /\ UNCHANGED <<st, runnable, cascade>>
    BY <2>1 DEF PassOver
  <2>2. ASSUME NEW state, Judged(s, state)
        PROVE  judged' = judged \cup {s} /\ UNCHANGED <<runnable, cascade>>
    BY <2>2 DEF Judged
  <2> QED
    BY <2>1, <2>2 DEF PassOver
<1>3. Placed'
  BY <1>1, <1>2, Fixed DEF Inv, Placed, Active, Past, Doomed, Level, CanJudge
<1>4. \A m \in Step : m # s => st'[m] = st[m]
  <2>1. ASSUME NEW state, Judged(s, state) PROVE \A m \in Step : m # s => st'[m] = st[m]
    BY <2>1 DEF Judged, Inv, TypeOK, Entries
  <2> QED
    BY <2>1 DEF PassOver
<1>5. ASSUME ~Absorbed(s) PROVE HeadOk(s)'
  <2>1. Members(s)' = Members(s) /\ s \in Members(s)
    BY <1>2, Fixed, HeadIsMember
  <2>2. HeadOk(s) /\ Open(s) /\ s \notin runnable
    BY <1>1, <1>5, WalkSteps DEF Inv, Walked, HeadOk, StateOf, Open
  <2>3. \/ s \in blocked /\ st'[s].state = "blocked"
        \/ s \in launch.skip /\ st'[s].state = "skipped"
        \/ s \in overridden \ launch.forced /\ st'[s].state = "completed"
    BY <1>5 DEF PassOver, Judged, Inv, TypeOK, Entries, Entry
  <2>4. ~Open(s)' /\ (st'[s].state = "completed" => Passed(s)')
    BY <1>2, <2>3 DEF Open, Passed, disk
  <2>5. Answered(s)'
    <3>1. CASE s \in blocked
      <4>1. Doomed(s)
        BY <1>1, <3>1 DEF Inv, Placed
      <4> QED
        BY <1>2, <2>4, <4>1, DoomedStays DEF Answered
    <3>2. CASE s \in launch.skip \/ s \in overridden \ launch.forced
      BY <1>2, <2>4, <3>2 DEF Answered, Passed, disk
    <3> QED
      BY <2>3, <3>1, <3>2
  <2>6. \A m \in Members(s) : m # s => st'[m].state # "completed"
    BY <1>1, <1>4, <2>2, MembersInWalk DEF HeadOk, Unanswered, Open
  <2>7. Complete(s)'
    BY <2>1, <2>4, <2>6 DEF Complete
  <2> QED
    BY <1>2, <2>2, <2>4, <2>5, <2>7 DEF HeadOk, StateOf, Unanswered
<1>6. ASSUME NEW h \in launch.walk, ~Absorbed(h), h # s PROVE HeadOk(h)'
  <2>1. Absorbed(s) => st' = st
    BY DEF PassOver
  <2> QED
    BY <1>1, <1>2, <1>4, <1>6, <2>1, JudgeOthers
<1>7. Walked'
  BY <1>2, <1>5, <1>6, Fixed DEF Walked
<1>8. RunningUnder'
  BY <1>1, <1>2 DEF Inv, RunningUnder, Active, disk
<1> QED
  BY <1>3, <1>7, <1>8 DEF Inv

LEMMA ConsiderStep ==
  ASSUME Inv, TypeOK', NEW s \in Step, Consider(s)
  PROVE  Inv'
<1>1. /\ Active /\ CanJudge(s) /\ phase = "judging" /\ cascade.tasks = {}
      /\ s \in Level /\ s \in launch.walk /\ s \notin judged /\ s \notin runnable
      /\ ~Absorbed(s) /\ s \notin blocked
  BY WalkSteps DEF Consider, Considered, CanJudge, Active, Inv
<1>2. UNCHANGED <<disk, mirror, phase, launch, left, blocked>> /\ judged' = judged \cup {s}
  BY DEF Consider, WillRun, Judged
<1>3. Members(s)' = Members(s) /\ s \in Members(s)
  BY <1>2, Fixed, HeadIsMember
<1>4. HeadOk(s) /\ Open(s) /\ st[s].state = "pending"
  BY <1>1, WalkSteps DEF Inv, Walked, HeadOk, StateOf, Open
<1>5. RunningUnder'
  BY <1>1, <1>2 DEF Inv, RunningUnder, Active, disk
<1>6. ASSUME NEW keep, WillRun(s, ToInvalidate(s, keep)) \/ WillRun(s, {}) PROVE Inv'
  <2>1. runnable' = runnable \cup {s} /\ st' = st /\ cascade'.root = s
        /\ \A t \in cascade'.tasks : t[1] \in {s} \cup Downstream(s, launch.plan)
    BY <1>6 DEF WillRun, ToInvalidate
  <2>2. Placed'
    BY <1>1, <1>2, <2>1, Fixed DEF Inv, Placed, Active, Past, Doomed
  <2>3. HeadOk(s)'
    BY <1>1, <1>2, <1>3, <1>4, <2>1
       DEF HeadOk, StateOf, Answered, Unanswered, Complete, Open, Past, Level
  <2>4. ASSUME NEW h \in launch.walk, ~Absorbed(h), h # s PROVE HeadOk(h)'
    BY <1>1, <1>2, <2>1, <2>4, JudgeOthers
  <2>5. Walked'
    BY <1>2, <2>3, <2>4, Fixed DEF Walked
  <2> QED
    BY <1>5, <2>2, <2>5 DEF Inv
<1>7. ASSUME NEW h, ~Heads(s), IsStepCompleted(s, h),
             Judged(s, [state |-> "completed", hash |-> prior[s].hash])
      PROVE  Inv'
  <2>1. UNCHANGED <<runnable, cascade>>
        /\ st' = [st EXCEPT ![s] = [state |-> "completed", hash |-> prior[s].hash]]
    BY <1>7 DEF Judged
  <2>2. \A m \in Step : m # s => st'[m] = st[m]
    BY <2>1
  <2>3. st'[s].state = "completed"
    BY <2>1 DEF Inv, TypeOK, Entries
  <2>4. Members(s) = {s}
    BY <1>1, <1>7 DEF Heads, Members
  <2>5. mirror[s].state # "completed"
    BY <1>3, <1>4 DEF HeadOk, Unanswered
  <2>6. \A k \in Keys(s) : Done(<<s, k>>)
    BY <1>7, <2>5 DEF IsStepCompleted, Vouched, Done, Keys
  <2>7. \A k \in Reached(s)' : Done(<<s, k>>)'
    BY <1>2, <2>6 DEF Reached, Keys, Done, disk
  <2>8. Placed'
    BY <1>1, <1>2, <2>1, Fixed DEF Inv, Placed, Active, Past, Doomed
  <2>9. HeadOk(s)'
    BY <1>1, <1>2, <1>3, <2>1, <2>3, <2>4, <2>7
       DEF HeadOk, StateOf, Answered, Unanswered, Complete, Open, Past, Level
  <2>10. ASSUME NEW g \in launch.walk, ~Absorbed(g), g # s PROVE HeadOk(g)'
    BY <1>1, <1>2, <2>1, <2>2, <2>10, JudgeOthers
  <2>11. Walked'
    BY <1>2, <2>9, <2>10, Fixed DEF Walked
  <2> QED
    BY <1>5, <2>8, <2>11 DEF Inv
<1> QED
  BY <1>6, <1>7 DEF Consider

LEMMA RenameStep ==
  ASSUME Inv, TypeOK', Active, NEW t \in Task, Rename(t)
  PROVE  Inv'
<1>1. UNCHANGED <<overridden, made, mirror, st, phase, launch, left, judged, runnable, blocked>>
      /\ t \in cascade.tasks /\ rec' = [rec EXCEPT ![t] = "stale"]
      /\ cascade'.root = cascade.root /\ cascade'.tasks = cascade.tasks \ {t}
  BY DEF Rename, Inv, TypeOK
<1>2. phase = "judging"
  BY <1>1 DEF Inv, Placed, TypeOK, Active
<1>3. Placed'
  BY <1>1, <1>2, Fixed DEF Inv, Placed, Active, Past, Doomed
<1>4. ASSUME NEW h \in launch.walk, ~Absorbed(h) PROVE HeadOk(h)'
  <2>1. HeadOk(h) /\ h \in Step
    BY <1>4, WalkSteps DEF Inv, Walked
  <2>2. Open(h) \/ \A m \in Members(h) : \A k : Done(<<m, k>>)' <=> Done(<<m, k>>)
    <3> SUFFICES ASSUME ~Open(h), NEW m \in Members(h), NEW k
                 PROVE  <<m, k>> # t
      BY <1>1 DEF Done, Inv, TypeOK
    <3>1. t[1] \in launch.walk => t[1] \notin Members(h)
      BY <1>1, <1>4, <2>1, RenamedOpen
    <3> QED
      BY <3>1, <1>4, MembersInWalk
  <2> QED
    BY <1>1, <1>4, <2>1, <2>2, HeadFrame DEF Past
<1>5. Walked'
  BY <1>1, <1>4, Fixed DEF Walked, Inv
<1>6. RunningUnder'
  BY <1>1, <1>2 DEF Inv, RunningUnder, Active, TypeOK
<1> QED
  BY <1>3, <1>5, <1>6 DEF Inv

LEMMA GatherStep ==
  ASSUME Inv, TypeOK', Gather
  PROVE  Inv'
<1>1. Active /\ phase = "judging" /\ cascade.tasks = {} /\ judged = Level /\ Active'
      /\ UNCHANGED <<disk, mirror, st, launch, runnable, cascade, blocked>>
  BY DEF Gather, Active
<1>2. \/ runnable # {} /\ phase' = "running" /\ UNCHANGED <<left, judged>>
      \/ runnable = {} /\ left' = left \ Level /\ judged' = {} /\ UNCHANGED phase
  BY DEF Gather
<1>3. \A s \in Past' : Needs[s] \cap left' = {}
  BY <1>1, <1>2 DEF Past, Level, Inv, Placed
<1>4. Placed'
  BY <1>1, <1>2, <1>3, Fixed DEF Inv, Placed, Past, Doomed, Level
<1>5. ASSUME NEW h \in launch.walk, ~Absorbed(h) PROVE HeadOk(h)'
  <2>1. HeadOk(h) /\ h \in Step
    BY <1>1, <1>5, WalkSteps DEF Inv, Walked
  <2>2. h \in left' \ judged' => h \in left \ judged
    BY <1>1, <1>2 DEF Level
  <2>3. h \in Past' \cup (judged' \ runnable') => h \in Past \cup (judged \ runnable)
    BY <1>1, <1>2 DEF Past
  <2>4. \A m \in Members(h) : \A k : Done(<<m, k>>)' <=> Done(<<m, k>>)
    BY <1>1 DEF Done, disk
  <2> QED
    BY <1>1, <1>2, <1>5, <2>1, <2>2, <2>3, <2>4, HeadFrame DEF disk
<1>6. Walked'
  BY <1>1, <1>5, Fixed DEF Walked
<1>7. RunningUnder'
  BY <1>1 DEF Inv, RunningUnder, disk
<1> QED
  BY <1>4, <1>6, <1>7 DEF Inv

LEMMA StartStepStep ==
  ASSUME Inv, TypeOK', NEW s \in Step, StartStep(s)
  PROVE  Inv'
<1>1. /\ Active /\ phase = "running" /\ s \in runnable /\ st[s].state = "pending"
      /\ s \in launch.walk /\ ~Absorbed(s) /\ s \in left /\ s \in judged
      /\ mirror' = st' /\ \A m \in Step : m # s => st'[m] = st[m]
      /\ UNCHANGED <<overridden, rec, made, phase, walk>>
  BY WalkSteps DEF StartStep, Active, Inv, Placed
<1>2. st'[s].state = "running"
  BY DEF StartStep, Inv, TypeOK, Entries, Entry
<1>3. Placed'
  BY <1>1, Fixed DEF Inv, Placed, Active, Past, Doomed, Level, walk
<1>4. Open(s) /\ Open(s)'
  BY <1>1, <1>2 DEF Open
<1>5. HeadOk(s)'
  <2>1. Members(s)' = Members(s) /\ s \in Members(s) /\ HeadOk(s)
    BY <1>1, Fixed, HeadIsMember DEF Inv, Walked, walk
  <2>2. \A m \in Members(s) : m # s => Open(m) /\ st'[m] = st[m]
    BY <1>1, <1>4, <2>1, MembersInWalk DEF HeadOk, Unanswered
  <2>3. \A m \in Members(s) : st'[m].state \in {"pending", "running"}
    BY <1>2, <2>2 DEF Open
  <2>4. Unanswered(s)'
    BY <1>1, <2>1, <2>3 DEF Unanswered, Open
  <2> QED
    BY <1>1, <1>2, <1>4, <2>1, <2>4, WalkSteps
       DEF HeadOk, StateOf, Answered, Complete, Past, walk, Inv
<1>6. ASSUME NEW h \in launch.walk, ~Absorbed(h), h # s PROVE HeadOk(h)'
  <2>1. HeadOk(h) /\ h \in Step
    BY <1>1, <1>6, WalkSteps DEF Inv, Walked
  <2>2. \A m \in Members(h) : m \in Step /\ m # s
    BY <1>1, <1>6, <2>1, Disjoint, HeadIsMember, MembersInWalk
  <2>3. \A m \in Members(h) : st'[m] = st[m] /\ mirror'[m] \in {mirror[m], st[m]}
    BY <1>1, <2>2
  <2>4. \A m \in Members(h) : \A k : Done(<<m, k>>)' <=> Done(<<m, k>>)
    BY <1>1 DEF Done
  <2> QED
    BY <1>1, <1>6, <2>1, <2>3, <2>4, HeadFrame DEF walk, Past
<1>7. Walked'
  BY <1>1, <1>5, <1>6, Fixed DEF Walked, walk
<1>8. RunningUnder'
  <2> SUFFICES ASSUME NEW t \in Task, rec[t] = "running"
               PROVE  /\ t[2] \in Reached(t[1])'
                      /\ \E h \in runnable : st'[h].state = "running" /\ t[1] \in Members(h)
    BY <1>1, Fixed DEF RunningUnder, walk
  <2>1. t[2] \in Reached(t[1])
    BY <1>1 DEF Inv, RunningUnder
  <2>2. PICK h \in runnable : st[h].state = "running" /\ t[1] \in Members(h)
    BY <1>1 DEF Inv, RunningUnder
  <2>3. Reached(t[1])' = Reached(t[1])
    <3>1. \A m \in Step : Before(m, t[1])' <=> Before(m, t[1])
      BY <1>1, Fixed DEF walk
    <3>2. \A m \in Step : \A k : Done(<<m, k>>)' <=> Done(<<m, k>>)
      BY <1>1 DEF Done
    <3> QED
      BY <3>1, <3>2 DEF Reached, Keys
  <2>4. st'[h].state = "running"
    BY <1>1, <2>2, WalkSteps DEF Inv
  <2> QED
    BY <2>1, <2>2, <2>3, <2>4
<1> QED
  BY <1>3, <1>7, <1>8 DEF Inv

\* A record of a task under a running head is written.
LEMMA RecordStep ==
  ASSUME Inv, TypeOK', phase = "running", NEW t \in Task, NEW g \in runnable,
         st[g].state = "running", t[1] \in Members(g), t[1] \in Mapped => ~Done(t),
         NEW state, NEW output, NEW h, Record(t, state, output, h),
         state = "running" => t[2] \in Reached(t[1])
  PROVE  Inv'
<1>1. /\ UNCHANGED <<overridden, mirror, st, phase, launch, left, judged, runnable, cascade, blocked>>
      /\ Active /\ g \in Step /\ ~Absorbed(g) /\ g \in launch.walk /\ Open(g)
  BY WalkSteps DEF Record, Active, Inv, Placed, Open
<1>2. /\ \A u \in Task : u # t => rec'[u] = rec[u]
      /\ rec'[t] = "running" => state = "running"
      /\ \A m \in Step : \A k \in Keys(m) : <<m, k>> # t => (Done(<<m, k>>)' <=> Done(<<m, k>>))
  BY TaskParts DEF Record, Inv, TypeOK, Done
<1>3. Placed'
  BY <1>1, Fixed DEF Inv, Placed, Active, Past, Doomed, Level
<1>4. ASSUME NEW n \in launch.walk, ~Absorbed(n) PROVE HeadOk(n)'
  <2>1. HeadOk(n) /\ n \in Step
    BY <1>1, <1>4, WalkSteps DEF Inv, Walked
  <2>2. Open(n) \/ \A m \in Members(n) : \A k : Done(<<m, k>>)' <=> Done(<<m, k>>)
    <3> SUFFICES ASSUME ~Open(n), NEW m \in Members(n), NEW k
                 PROVE  Done(<<m, k>>)' <=> Done(<<m, k>>)
      OBVIOUS
    <3>1. m \notin Members(g) /\ m \in Step
      BY <1>1, <1>4, <2>1, Disjoint, MembersInWalk
    <3>2. <<m, k>> # t
      BY <3>1
    <3> QED
      BY <3>2 DEF Record, Done, Inv, TypeOK
  <2> QED
    BY <1>1, <1>4, <2>1, <2>2, HeadFrame DEF Past
<1>5. Walked'
  BY <1>1, <1>4, Fixed DEF Walked
<1>6. RunningUnder'
  <2> SUFFICES ASSUME NEW u \in Task, rec'[u] = "running"
               PROVE  /\ u[2] \in Reached(u[1])'
                      /\ \E n \in runnable : st[n].state = "running" /\ u[1] \in Members(n)
    BY <1>1, Fixed DEF RunningUnder
  <2>1. u[2] \in Reached(u[1]) /\ \E n \in runnable : st[n].state = "running" /\ u[1] \in Members(n)
    BY <1>1, <1>2 DEF Inv, RunningUnder
  <2>2. ASSUME NEW m \in Step, Before(m, u[1]) PROVE Done(<<m, u[2]>>)'
    <3>1. u[2] \in Keys(m) /\ m \in Mapped /\ Done(<<m, u[2]>>)
      BY <2>1, <2>2, BeforeParts, ChainKeys DEF Reached
    <3>2. <<m, u[2]>> # t
      BY <3>1
    <3> QED
      BY <1>2, <3>1, <3>2
  <2>3. u[2] \in Reached(u[1])'
    BY <1>1, <2>1, <2>2, Fixed DEF Reached, Keys
  <2> QED
    BY <2>1, <2>3
<1> QED
  BY <1>3, <1>5, <1>6 DEF Inv

LEMMA TaskStep ==
  ASSUME Inv, TypeOK', NEW t \in Task, StartTask(t) \/ RefuseTask(t) \/ EndTask(t)
  PROVE  Inv'
<1>1. ASSUME Due(t)
      PROVE  /\ phase = "running" /\ (t[1] \in Mapped => ~Done(t)) /\ t[2] \in Reached(t[1])
             /\ \E g \in runnable : st[g].state = "running" /\ t[1] \in Members(g)
  BY <1>1 DEF Due, Running
<1>2. CASE StartTask(t)
  BY <1>1, <1>2, RecordStep DEF StartTask
<1>3. CASE RefuseTask(t)
  BY <1>1, <1>3, RecordStep DEF RefuseTask
<1>4. CASE EndTask(t)
  <2>1. phase = "running" /\ rec[t] = "running" /\ ~Done(t)
    BY <1>4 DEF EndTask, Done
  <2>2. PICK g \in runnable : st[g].state = "running" /\ t[1] \in Members(g)
    BY <2>1 DEF Inv, RunningUnder, Active
  <2>3. PICK state \in {"completed", "failed"} : \E output, h : Record(t, state, output, h)
    BY <1>4 DEF EndTask
  <2> QED
    BY <2>1, <2>2, <2>3, RecordStep
<1> QED
  BY <1>2, <1>3, <1>4

LEMMA EndStepStep ==
  ASSUME Inv, TypeOK', NEW s \in Step, EndStep(s)
  PROVE  Inv'
<1>1. /\ Active /\ phase = "running" /\ s \in runnable /\ st[s].state = "running" /\ Open(s)
      /\ s \in launch.walk /\ ~Absorbed(s) /\ s \in left /\ s \in judged
      /\ mirror' \in {mirror, st'} /\ UNCHANGED <<overridden, rec, made, phase, walk>>
  BY WalkSteps DEF EndStep, Running, Active, Inv, Placed, Open, disk
<1>2. /\ \A m \in Step : m \notin Members(s) => st'[m] = st[m]
      /\ \A m \in Members(s) : st'[m] = Ended(m)
  BY MembersInWalk DEF EndStep
<1>3. \A m : /\ Ended(m).state \in {"completed", "failed"}
             /\ Ended(m).state = "completed" => \A k \in Reached(m) : Done(<<m, k>>)
  BY DEF Ended, Entry, StepSucceeded
<1>4. Placed'
  BY <1>1, Fixed DEF Inv, Placed, Active, Past, Doomed, Level, walk
<1>5. ASSUME NEW m PROVE Reached(m)' = Reached(m)
  <2>1. \A l \in Step : Before(l, m)' <=> Before(l, m)
    BY <1>1, Fixed DEF walk
  <2>2. \A l \in Step : \A k : Done(<<l, k>>)' <=> Done(<<l, k>>)
    BY <1>1 DEF Done
  <2> QED
    BY <2>1, <2>2 DEF Reached, Keys
<1>6. HeadOk(s)'
  <2>1. Members(s)' = Members(s) /\ s \in Members(s)
    BY <1>1, Fixed, HeadIsMember DEF walk
  <2>2. ~Open(s)' /\ \A m \in Members(s) : st'[m].state \in {"completed", "failed"}
    BY <1>2, <1>3, <2>1 DEF Open
  <2>3. Complete(s)'
    BY <1>1, <1>2, <1>3, <1>5, <2>1 DEF Complete, Done
  <2> QED
    BY <1>1, <2>1, <2>2, <2>3 DEF HeadOk, StateOf, Answered, Unanswered, Past, walk
<1>7. ASSUME NEW h \in launch.walk, ~Absorbed(h), h # s PROVE HeadOk(h)'
  <2>1. HeadOk(h) /\ h \in Step
    BY <1>1, <1>7, WalkSteps DEF Inv, Walked
  <2>2. \A m \in Members(h) : m \in Step /\ m \notin Members(s)
    BY <1>1, <1>7, <2>1, Disjoint, MembersInWalk
  <2>3. \A m \in Members(h) : st'[m] = st[m] /\ mirror'[m] \in {mirror[m], st[m]}
    BY <1>1, <1>2, <2>2
  <2>4. \A m \in Members(h) : \A k : Done(<<m, k>>)' <=> Done(<<m, k>>)
    BY <1>1 DEF Done
  <2> QED
    BY <1>1, <1>7, <2>1, <2>3, <2>4, HeadFrame DEF walk, Past
<1>8. Walked'
  BY <1>1, <1>6, <1>7, Fixed DEF Walked, walk
<1>9. RunningUnder'
  <2> SUFFICES ASSUME NEW t \in Task, rec[t] = "running"
               PROVE  /\ t[2] \in Reached(t[1])'
                      /\ \E h \in runnable : st'[h].state = "running" /\ t[1] \in Members(h)
    BY <1>1, Fixed DEF RunningUnder, walk
  <2>1. t[2] \in Reached(t[1])
    BY <1>1 DEF Inv, RunningUnder
  <2>2. PICK h \in runnable : st[h].state = "running" /\ t[1] \in Members(h)
    BY <1>1 DEF Inv, RunningUnder
  <2>3. h # s
    <3>1. t \in Tasks(t[1])
      BY DEF Tasks
    <3> QED
      BY <2>2, <3>1 DEF EndStep
  <2>4. h \in Step /\ h \notin Members(s)
    BY <1>1, <2>3, Disjoint, HeadIsMember, WalkSteps DEF Inv, Placed
  <2> QED
    BY <1>2, <1>5, <2>1, <2>2, <2>4
<1> QED
  BY <1>4, <1>8, <1>9 DEF Inv

LEMMA EndLevelStep ==
  ASSUME Inv, TypeOK', EndLevel, phase' # "idle"
  PROVE  Inv'
<1>1. /\ Active /\ phase = "running" /\ judged = Level /\ cascade.tasks = {}
      /\ mirror' = st /\ UNCHANGED <<disk, st, launch, cascade>>
      /\ \A s \in runnable : st[s].state \in {"completed", "failed"}
      /\ blocked' = blocked \cup UNION {PropagateFailure(f, launch.plan) : f \in FailedSteps}
      /\ left' = left \ Level /\ judged' = {} /\ runnable' = {} /\ phase' = "judging"
  BY DEF EndLevel, Leave, Active, Inv, Placed
<1>2. FailedSteps \subseteq runnable /\ runnable \subseteq Step
  BY <1>1, WalkSteps DEF FailedSteps, Inv
<1>3. \A f \in FailedSteps : PropagateFailure(f, launch.plan) \subseteq blocked'
  BY <1>1
<1>4. Placed'
  <2>1. \A s \in Past' : Needs[s] \cap left' = {}
    BY <1>1 DEF Past, Level, Inv, Placed
  <2>2. ASSUME NEW b \in blocked' PROVE Doomed(b)'
    <3>1. CASE b \in blocked
      BY <1>1, <3>1, DoomedStays DEF Inv, Placed
    <3>2. ASSUME NEW f \in FailedSteps, b \in PropagateFailure(f, launch.plan) PROVE Doomed(b)'
      BY <1>1, <1>2, <1>3, <3>2 DEF Doomed, PropagateFailure
    <3> QED
      BY <1>1, <3>1, <3>2
  <2> QED
    BY <1>1, <2>1, <2>2 DEF Inv, Placed
<1>5. ASSUME NEW h \in launch.walk, ~Absorbed(h) PROVE HeadOk(h)'
  <2>1. HeadOk(h) /\ h \in Step /\ h \in Members(h)
    BY <1>1, <1>5, WalkSteps, HeadIsMember DEF Inv, Walked
  <2>2. Members(h)' = Members(h) /\ (Open(h)' <=> Open(h)) /\ (Passed(h)' <=> Passed(h))
    BY <1>1, Fixed DEF Open, Passed, disk
  <2>3. StateOf(h)'
    BY <1>1, <2>1 DEF HeadOk, StateOf, Level
  <2>4. Unanswered(h)'
    BY <1>1, <2>1, <2>2 DEF HeadOk, Unanswered, Open
  <2>5. Complete(h)'
    <3>1. \A m \in Members(h) : \A k : Done(<<m, k>>)' <=> Done(<<m, k>>)
      BY <1>1 DEF Done, disk
    <3>2. \A m \in Members(h) : Reached(m)' = Reached(m)
      BY <1>1, <1>5, <2>1, <3>1, SameReached
    <3> QED
      BY <1>1, <2>1, <2>2, <3>1, <3>2 DEF HeadOk, Complete
  <2>6. Answered(h)'
    <3>1. CASE h \in Past \cup (judged \ runnable)
      <4>1. Doomed(h) => Doomed(h)'
        BY <1>1, DoomedStays
      <4> QED
        BY <1>1, <2>1, <2>2, <3>1, <4>1 DEF HeadOk, Answered
    <3>2. CASE h \in runnable
      <4>1. ~Open(h) /\ \A m \in Members(h) : st[m].state \in {"completed", "failed"}
        BY <1>1, <2>1, <3>2 DEF HeadOk, StateOf, Open
      <4>2. CASE h \in FailedSteps
        <5>1. Doomed(h)'
          BY <1>1, <1>3, <2>1, <4>2 DEF Doomed
        <5> QED
          BY <2>2, <4>1, <5>1 DEF Answered
      <4>3. CASE h \notin FailedSteps
        <5>1. \A m \in Members(h) : st[m].state = "completed"
          BY <2>1, <3>2, <4>1, <4>3, MembersInWalk DEF FailedSteps
        <5> QED
          BY <1>1, <2>2, <4>1, <5>1 DEF Answered
      <4> QED
        BY <4>2, <4>3
    <3>3. h \in Past' \cup (judged' \ runnable') => h \in Past \cup judged
      BY <1>1 DEF Past
    <3> QED
      BY <3>1, <3>2, <3>3 DEF Answered
  <2> QED
    BY <2>3, <2>4, <2>5, <2>6 DEF HeadOk
<1>6. Walked'
  BY <1>1, <1>5, Fixed DEF Walked
<1>7. RunningUnder'
  BY <1>1 DEF Inv, RunningUnder, disk
<1> QED
  BY <1>4, <1>6, <1>7 DEF Inv

LEMMA InvStep == ASSUME Inv, [Next]_vars PROVE Inv'
<1>1. TypeOK'
  BY TypeStep DEF Inv
<1>2. CASE phase' = "idle"
  BY <1>1, <1>2 DEF Inv, Placed, Walked, RunningUnder, Active
<1>3. CASE UNCHANGED vars
  <2>1. UNCHANGED <<disk, mirror, st, phase, walk>>
    BY <1>3 DEF vars
  <2>2. ASSUME Active, NEW h \in launch.walk, ~Absorbed(h) PROVE HeadOk(h)'
    <3>1. HeadOk(h) /\ h \in Step
      BY <2>2, WalkSteps DEF Inv, Walked
    <3>2. \A m \in Members(h) : \A k : Done(<<m, k>>)' <=> Done(<<m, k>>)
      BY <2>1 DEF Done, disk
    <3> QED
      BY <2>1, <2>2, <3>1, <3>2, HeadFrame DEF disk, walk, Past
  <2>3. Walked'
    BY <2>1, <2>2, Fixed DEF Walked, Active, walk
  <2>4. Placed'
    BY <2>1, Fixed DEF Inv, Placed, Active, Past, Doomed, Level, walk
  <2>5. RunningUnder'
    <3>1. \A s : Reached(s)' = Reached(s)
      BY <2>1, Fixed DEF Reached, Keys, Done, disk, walk
    <3> QED
      BY <2>1, <3>1, Fixed DEF Inv, RunningUnder, Active, disk, walk
  <2> QED
    BY <1>1, <2>3, <2>4, <2>5 DEF Inv
<1>4. CASE Next /\ phase' # "idle"
  <2>1. ASSUME NEW t \in Task, Rename(t) PROVE Inv'
    <3>1. Active
      BY <1>4, <2>1 DEF Rename, Active
    <3> QED
      BY <1>1, <2>1, <3>1, RenameStep
  <2>2. ASSUME NEW o \in Option, Launch(o) PROVE Inv'
    BY <1>1, <2>2, LaunchStep DEF Inv
  <2>3. ASSUME NEW s \in Step, PassOver(s) \/ Consider(s) PROVE Inv'
    BY <1>1, <2>3, PassOverStep, ConsiderStep
  <2>4. ASSUME NEW s \in Step, StartStep(s) \/ EndStep(s) PROVE Inv'
    BY <1>1, <2>4, StartStepStep, EndStepStep
  <2>5. ASSUME NEW t \in Task, StartTask(t) \/ RefuseTask(t) \/ EndTask(t) PROVE Inv'
    BY <1>1, <2>5, TaskStep
  <2>6. CASE Gather \/ EndLevel
    BY <1>1, <1>4, <2>6, GatherStep, EndLevelStep
  <2>7. ~Rest /\ ~EndWalk /\ ~Interrupt /\ \A cut : ~Crash(cut)
    BY <1>4 DEF Rest, vars, EndWalk, Interrupt, Crash, Leave
  <2>8. \A s : ~Edit(s) /\ ~Override(s) /\ ~LoseOutput(s)
    BY <1>4 DEF Edit, Override, LoseOutput, Between
  <2> QED
    BY <1>4, <2>1, <2>2, <2>3, <2>4, <2>5, <2>6, <2>7, <2>8
       DEF Next, Judgement, Renaming, Work, Turn
<1> QED
  BY <1>2, <1>3, <1>4

LEMMA Invariance == Spec => []Inv
<1>1. Init => Inv
  BY TypeInit DEF Init, Inv, Placed, Walked, RunningUnder, Active
<1> QED
  BY <1>1, InvStep, PTL DEF Spec

-----------------------------------------------------------------------------
(* What a running task stands on                                             *)

\* What h descends from, all the stages under it descend from.
LEMMA MembersDownstream ==
  ASSUME Inv, Active, NEW h \in launch.walk, ~Absorbed(h), NEW n \in Members(h),
         NEW f, h \in {f} \cup Downstream(f, launch.plan)
  PROVE  n \in {f} \cup Downstream(f, launch.plan)
<1> DEFINE X == {s \in Members(h) : s \notin {f} \cup Downstream(f, launch.plan)}
<1>1. h \in Step /\ n \in Step /\ launch.walk \subseteq launch.plan
  BY WalkSteps, MembersInWalk, OptionAssumption DEF Inv
<1>2. ASSUME NEW a \in X, Absorbed(a), NEW p \in Step, Before(p, a), Needs[a] = {p}
      PROVE  p \in X
  <2>1. a \in launch.plan
    BY <1>1, MembersInWalk
  <2>2. p \notin {f} \cup Downstream(f, launch.plan)
    BY <1>2, <2>1, DownstreamClosed
  <2> QED
    BY <1>1, <1>2, <2>2, MembersBefore
<1>3. n \notin X
  <2> SUFFICES ASSUME n \in X PROVE FALSE
    OBVIOUS
  <2>1. \E g \in X : g \in Step /\ ~Absorbed(g) /\ n \in Members(g)
    <3>1. \A a \in X : Absorbed(a) => \A p \in Step : Before(p, a) /\ Needs[a] = {p} => p \in X
      BY <1>2
    <3> HIDE DEF X
    <3> QED
      BY <1>1, <3>1, HeadReached
  <2> QED
    BY <1>1, <2>1, HeadUnique
<1> QED
  BY <1>3

\* What is past has a head that is past.
LEMMA PastHead ==
  ASSUME Inv, Active, NEW n \in Past
  PROVE  \E h \in Past : h \in Step /\ ~Absorbed(h) /\ n \in Members(h)
<1>1. n \in Step
  BY WalkSteps DEF Inv, Past
<1>2. \A a \in Past : Absorbed(a) => \A p \in Step : Before(p, a) /\ Needs[a] = {p} => p \in Past
  BY BeforeParts DEF Inv, Placed, Past
<1> QED
  BY <1>1, <1>2, HeadReached

(* A task runs on completed needs: the walk reaches a step only when its    *)
(* needs are past, blocks it where one failed that it does not tolerate, and *)
(* hands a stage of a chain only the items that have passed those before.  *)
THEOREM NeedsHonoured == Spec => []NeedsStand
<1>1. ASSUME Inv PROVE NeedsStand
  <2> SUFFICES ASSUME NEW t \in Task, rec[t] = "running", phase = "running",
                      NEW n \in Needs[t[1]] \cap launch.walk
               PROVE  \/ t[1] \in Rollup
                      \/ n \in Collects[t[1]] \ left
                      \/ Before(n, t[1]) /\ Done(<<n, t[2]>>)
                      \/ \E h \in launch.skip \cup (overridden \ launch.forced) :
                           n \in Members(h) /\ ~Absorbed(h)
                      \/ st[n].state = "completed" /\ \A i \in Tasks(n) : Done(i)
    BY DEF NeedsStand
  <2>1. Active
    BY DEF Active
  <2>2. t[2] \in Reached(t[1])
    BY <1>1, <2>1 DEF Inv, RunningUnder
  <2>3. PICK g \in runnable : t[1] \in Members(g)
    BY <1>1, <2>1 DEF Inv, RunningUnder
  <2>4. CASE Absorbed(t[1])
    <3>1. n \in Step /\ Before(n, t[1])
      BY <2>4, Previous
    <3> QED
      BY <2>2, <3>1 DEF Reached
  <2>5. CASE ~Absorbed(t[1])
    <3>1. t[1] = g /\ g \in Level /\ g \notin blocked /\ g \in launch.plan
      BY <1>1, <2>1, <2>3, <2>5, WalkSteps, OptionAssumption DEF Inv, Placed, Members, Absorbed
    <3>2. n \in Past
      BY <3>1 DEF Level, Past
    <3>3. PICK h \in Past : h \in Step /\ ~Absorbed(h) /\ n \in Members(h)
      BY <1>1, <2>1, <3>2, PastHead
    <3>4. HeadOk(h) /\ h \in launch.walk
      BY <1>1, <2>1, <3>3 DEF Inv, Walked, Past
    <3>5. CASE Doomed(h)
      <4>1. PICK f \in Step : /\ h \in {f} \cup Downstream(f, launch.plan)
                              /\ PropagateFailure(f, launch.plan) \subseteq blocked
        BY <3>5 DEF Doomed
      <4>2. n \in {f} \cup Downstream(f, launch.plan)
        BY <1>1, <2>1, <3>3, <3>4, <4>1, MembersDownstream
      <4>3. g \in Downstream(f, launch.plan)
        BY <3>1, <4>2, DownstreamClosed
      <4>4. g \in Rollup \/ ToleratesOnly(g, f, launch.plan)
        BY <3>1, <4>1, <4>3 DEF PropagateFailure
      <4> QED
        BY <3>1, <3>2, <4>2, <4>4 DEF ToleratesOnly, Past
    <3>6. CASE Passed(h)
      BY <3>3, <3>6 DEF Passed
    <3>7. CASE ~Doomed(h) /\ ~Passed(h)
      <4>1. ~Open(h) /\ \A m \in Members(h) : st[m].state = "completed"
        BY <3>3, <3>4, <3>7 DEF HeadOk, Answered
      <4>2. \A m \in Members(h) : \A k \in Reached(m) : Done(<<m, k>>)
        BY <3>4, <3>7, <4>1 DEF HeadOk, Complete
      <4> QED
        BY <3>3, <4>1, <4>2, AllReached
    <3> QED
      BY <3>5, <3>6, <3>7
  <2> QED
    BY <2>4, <2>5
<1> QED
  BY <1>1, Invariance, PTL

LEMMA QuietStep == ASSUME Quiet, [Next]_vars PROVE Quiet'
<1> SUFFICES ASSUME phase' = "idle" PROVE cascade'.tasks = {}
  BY DEF Quiet, Active
<1> USE DEF Quiet, Active
<1>1. CASE phase = "idle"
  <2>1. CASE UNCHANGED cascade
    BY <1>1, <2>1
  <2>2. ~Renaming
    BY <1>1 DEF Renaming, Rename
  <2>3. CASE Next
    BY <1>1, <2>1, <2>2, <2>3
       DEF Next, Rest, vars, walk, Launch, Judgement, PassOver, Consider, Considered, CanJudge,
           Work, StartStep, EndStep, Running, StartTask, RefuseTask, Due, EndTask,
           Turn, Gather, EndLevel, EndWalk, Interrupt, Crash, Edit, Override, LoseOutput, Between
  <2> QED
    BY <2>1, <2>3 DEF vars, walk
<1>2. CASE phase # "idle"
  <2>1. ASSUME NEW how, Leave(how) PROVE cascade'.tasks = {}
    BY <2>1 DEF Leave, NoCascade
  <2>2. CASE Next
    BY <1>2, <2>1, <2>2
       DEF Next, Rest, Launch, Judgement, PassOver, Consider, Renaming, Rename, Work, StartStep,
           EndStep, StartTask, RefuseTask, EndTask, Record, Turn, Gather, EndLevel, EndWalk,
           Interrupt, Crash, Edit, Override, LoseOutput, Between
  <2> QED
    BY <1>2, <2>2 DEF vars
<1> QED
  BY <1>1, <1>2

-----------------------------------------------------------------------------
(* What process-status.yaml vouches for                                      *)

\* No launch selects a nested scope: a mirror of one that does is marked as partial, and
\* nothing is read from it that this is about.
RootScope == \A o \in Option : o.walk = o.plan

\* Steps under an open head are not complete, neither in the mirror nor in memory.
LEMMA OpenStep ==
  ASSUME Inv, Active, NEW h \in launch.walk, ~Absorbed(h), Open(h), NEW m \in Members(h)
  PROVE  m \in Step /\ mirror[m].state # "completed" /\ st[m].state # "completed"
<1>1. h \in Step /\ HeadOk(h)
  BY WalkSteps DEF Inv, Walked
<1> QED
  BY <1>1, MembersInWalk DEF HeadOk, Unanswered, Open

\* Records of tasks that are not complete elsewhere may change.
LEMMA RecordsBacked ==
  ASSUME Vouching, UNCHANGED <<overridden, mirror, st, phase, launch, excused, owed>>,
         NEW t \in Task,
         mirror[t[1]].state # "completed" /\ st[t[1]].state # "completed",
         \A u \in Task : u # t => rec'[u] = rec[u]
  PROVE  Vouching'
<1>1. ASSUME NEW x, Backed(x), x[t[1]].state # "completed",
             NEW s \in Step, x[s].state = "completed", s \notin excused, NEW k \in owed[s]
      PROVE  rec'[<<s, k>>] = "completed"
  <2>1. <<s, k>> \in Task /\ <<s, k>> # t
    BY <1>1, TaskParts DEF Vouching
  <2> QED
    BY <1>1, <2>1 DEF Backed
<1>2. Backed(mirror)'
  BY <1>1 DEF Vouching, Backed
<1>3. Active' => Backed(st)'
  BY <1>1 DEF Vouching, Backed, Active
<1> QED
  BY <1>2, <1>3 DEF Vouching, Active, Keys

LEMMA VouchLaunch ==
  ASSUME TypeOK, Vouching, NEW o \in Option, Launch(o)
  PROVE  Vouching'
<1>1. ASSUME NEW s \in Step, Entered(o)[s].state = "completed"
      PROVE  mirror[s].state = "completed"
  BY <1>1 DEF Entered, Entry
<1>2. \A t \in Task : rec[t] = "completed" => rec'[t] = "completed"
  BY DEF Launch, Reconciled
<1>3. \A s \in Step : \A k \in owed[s] : <<s, k>> \in Task
  BY TaskParts DEF Vouching
<1>4. Backed(mirror)' /\ Backed(st)'
  BY <1>1, <1>2, <1>3 DEF Vouching, Backed, Launch, EntryWrite
<1> QED
  BY <1>4 DEF Vouching, Launch, NoCascade, Keys

LEMMA VouchJudgement ==
  ASSUME Inv, Vouching, NEW s \in Step, PassOver(s) \/ Consider(s)
  PROVE  Vouching'
<1>1. /\ Active /\ s \in launch.walk /\ CanJudge(s)
      /\ UNCHANGED <<disk, mirror, phase, launch, ghost>>
  BY WalkSteps DEF PassOver, Consider, Considered, CanJudge, Active, Inv
<1>2. ASSUME \A m \in Step : \/ st'[m] = st[m]
                             \/ st'[m].state = "completed" =>
                                  m \in excused \/ \A k \in Keys(m) : rec[<<m, k>>] = "completed"
      PROVE  Vouching'
  BY <1>1, <1>2 DEF Vouching, Backed, Active, disk, ghost, Keys
<1>3. ASSUME NEW x, Judged(s, x),
             x.state = "completed" =>
               s \in excused \/ \A k \in Keys(s) : rec[<<s, k>>] = "completed"
      PROVE  Vouching'
  BY <1>2, <1>3 DEF Judged, Inv, TypeOK, Entries
<1>4. CASE UNCHANGED st
  BY <1>2, <1>4
<1>5. CASE PassOver(s)
  <2>1. Entry("blocked").state # "completed" /\ Entry("skipped").state # "completed"
    BY DEF Entry
  <2>2. s \in overridden => s \in excused
    BY DEF Vouching
  <2> QED
    BY <1>3, <1>4, <1>5, <2>1, <2>2 DEF PassOver
<1>6. ASSUME NEW h, Considered(s), ~Heads(s), IsStepCompleted(s, h)
      PROVE  \A k \in Keys(s) : rec[<<s, k>>] = "completed"
  <2>1. ~Absorbed(s) /\ Open(s)
    BY <1>1, <1>6, WalkSteps DEF Considered, CanJudge, Inv, Walked, HeadOk, StateOf, Open
  <2>2. mirror[s].state # "completed"
    BY <1>1, <2>1, HeadIsMember, OpenStep
  <2> QED
    BY <1>6, <2>2 DEF IsStepCompleted, Vouched, Keys
<1>7. CASE Consider(s)
  BY <1>3, <1>4, <1>6, <1>7 DEF Consider, WillRun
<1> QED
  BY <1>5, <1>7

LEMMA VouchRename ==
  ASSUME Inv, Quiet, Vouching, RootScope, NEW t \in Task, Rename(t)
  PROVE  Vouching'
<1>1. Active
  BY DEF Rename, Quiet
<1>2. t[1] \in launch.walk
  <2>1. launch.walk = launch.plan
    BY <1>1 DEF Inv, Placed, RootScope
  <2>2. cascade.root \in launch.walk
    BY <1>1, WalkSteps DEF Rename, Inv, Placed
  <2> QED
    BY <1>1, <2>1, <2>2 DEF Rename, Inv, Placed, Downstream
<1>3. PICK h \in Step : ~Absorbed(h) /\ t[1] \in Members(h)
  BY <1>1, <1>2, HeadExists, WalkSteps DEF Inv
<1>4. h \in launch.walk /\ Open(h)
  BY <1>1, <1>2, <1>3, RenamedOpen DEF Rename
<1>5. mirror[t[1]].state # "completed" /\ st[t[1]].state # "completed"
  BY <1>1, <1>3, <1>4, OpenStep
<1> QED
  BY <1>1, <1>5, RecordsBacked DEF Rename, disk, ghost, Inv, TypeOK

LEMMA VouchTask ==
  ASSUME Inv, Vouching, NEW t \in Task, StartTask(t) \/ RefuseTask(t) \/ EndTask(t)
  PROVE  Vouching'
<1>1. PICK state, output, h : Record(t, state, output, h)
  BY DEF StartTask, RefuseTask, EndTask
<1>2. Active
  BY DEF StartTask, RefuseTask, EndTask, Due, Running, Active
<1>3. \E g \in runnable : st[g].state = "running" /\ t[1] \in Members(g)
  <2>1. CASE Due(t)
    BY <2>1 DEF Due, Running
  <2>2. CASE rec[t] = "running"
    BY <1>2, <2>2 DEF Inv, RunningUnder
  <2> QED
    BY <2>1, <2>2 DEF StartTask, RefuseTask, EndTask
<1>4. PICK g \in launch.walk : ~Absorbed(g) /\ Open(g) /\ t[1] \in Members(g)
  BY <1>2, <1>3, WalkSteps DEF Inv, Placed, Open
<1>5. mirror[t[1]].state # "completed" /\ st[t[1]].state # "completed"
  BY <1>2, <1>4, OpenStep
<1> QED
  BY <1>1, <1>2, <1>5, RecordsBacked DEF Record, ghost, Inv, TypeOK

LEMMA VouchStart ==
  ASSUME Inv, Vouching, NEW s \in Step, StartStep(s)
  PROVE  Vouching'
<1>1. Active
  BY DEF StartStep, Active
<1>2. \A m \in Step : st'[m] = st[m] \/ st'[m].state # "completed"
  BY DEF StartStep, Entry, Inv, TypeOK, Entries
<1> QED
  BY <1>1, <1>2 DEF StartStep, Vouching, Backed, Active, walk, ghost, Keys

LEMMA VouchEnd ==
  ASSUME Inv, Vouching, NEW s \in Step, EndStep(s)
  PROVE  Vouching'
<1>1. /\ Active /\ s \in runnable /\ Open(s) /\ s \in launch.walk /\ ~Absorbed(s)
      /\ mirror' \in {mirror, st'} /\ UNCHANGED <<disk, phase, walk, excused>>
  BY WalkSteps DEF EndStep, Running, Active, Inv, Placed, Open
<1>2. \A m \in Step : IF m \in Members(s) THEN st'[m] = Ended(m) /\ owed'[m] = Reached(m)
                                          ELSE st'[m] = st[m] /\ owed'[m] = owed[m]
  BY DEF EndStep
<1>3. \A m \in Step : Ended(m).state = "completed" =>
        \A k \in Reached(m) : rec[<<m, k>>] = "completed"
  BY DEF Ended, Entry, StepSucceeded, Done
<1>4. \A m \in Members(s) : mirror[m].state # "completed"
  BY <1>1, OpenStep
<1>5. Backed(st)'
  BY <1>1, <1>2, <1>3 DEF Vouching, Backed, disk
<1>6. Backed(mirror)'
  BY <1>1, <1>2, <1>4, <1>5 DEF Vouching, Backed, disk
<1>7. \A m \in Step : owed'[m] \subseteq Keys(m)
  BY <1>2 DEF Vouching, Reached
<1> QED
  BY <1>1, <1>5, <1>6, <1>7 DEF Vouching, Active, disk, walk, Keys

LEMMA VouchLeave ==
  ASSUME Inv, Vouching, NEW how, Leave(how), UNCHANGED <<overridden, excused, owed>>,
         \A t \in Task : rec[t] = "completed" => rec'[t] = "completed",
         \A s \in Step : mirror'[s].state = "completed" =>
           mirror'[s] = mirror[s] \/ (Active /\ st[s].state = "completed")
  PROVE  Vouching'
<1>1. \A s \in Step : \A k \in owed[s] : <<s, k>> \in Task
  BY TaskParts DEF Vouching
<1>2. Backed(mirror)'
  BY <1>1 DEF Vouching, Backed
<1> QED
  BY <1>2 DEF Vouching, Leave, Active, NoLaunch, NoCascade, Keys

LEMMA VouchStep == ASSUME Inv, Quiet, Vouching, RootScope, [Next]_vars PROVE Vouching'
<1>1. CASE Rest \/ UNCHANGED vars
  BY <1>1 DEF Rest, vars, disk, walk, ghost, Vouching, Backed, Active, Keys
<1>2. ASSUME NEW o \in Option, Launch(o) PROVE Vouching'
  BY <1>2, VouchLaunch DEF Inv
<1>3. CASE Judgement
  BY <1>3, VouchJudgement DEF Judgement
<1>4. CASE Renaming
  BY <1>4, VouchRename DEF Renaming
<1>5. CASE Work
  BY <1>5, VouchTask, VouchStart, VouchEnd DEF Work
<1>6. CASE Gather
  BY <1>6 DEF Gather, Vouching, Backed, Active, disk, ghost, Keys
<1>7. CASE EndLevel
  <2>1. CASE Leave("failed")
    BY <1>7, <2>1, VouchLeave DEF EndLevel, disk, ghost, Active
  <2>2. CASE UNCHANGED <<st, launch, cascade>> /\ phase' = "judging"
    BY <1>7, <2>2 DEF EndLevel, Vouching, Backed, Active, disk, ghost, Keys
  <2> QED
    BY <1>7, <2>1, <2>2 DEF EndLevel
<1>8. CASE EndWalk
  BY <1>8, VouchLeave DEF EndWalk, disk, ghost, Active
<1>9. CASE Interrupt
  BY <1>9, VouchLeave DEF Interrupt, Entry, Reconciled, Active
<1>10. ASSUME NEW cut, Crash(cut) PROVE Vouching'
  BY <1>10, VouchLeave DEF Crash
<1>11. ASSUME NEW s \in Step, Edit(s) \/ Override(s) PROVE Vouching'
  BY <1>11 DEF Edit, Override, Between, Vouching, Backed, Active, walk, Keys
<1>12. ASSUME NEW t \in Task, LoseOutput(t) PROVE Vouching'
  BY <1>12 DEF LoseOutput, Between, Vouching, Backed, Active, walk, Keys
<1> QED
  BY <1>1, <1>2, <1>3, <1>4, <1>5, <1>6, <1>7, <1>8, <1>9, <1>10, <1>11, <1>12 DEF Next, Turn

(* What process-status.yaml calls complete has its records: a walk withdraws *)
(* the entry before anything can invalidate the step, and writes it again   *)
(* only once the tasks that reached the step are done.                     *)
THEOREM MirrorHonest == ASSUME RootScope PROVE Spec => []MirrorBacked
<1>1. Init => Vouching /\ Quiet
  BY DEF Init, Vouching, Backed, Active, Entry, NoLaunch, NoCascade, Quiet
<1>2. Inv /\ Quiet /\ Vouching /\ [Next]_vars => Vouching' /\ Quiet'
  BY VouchStep, QuietStep
<1>3. Vouching => MirrorBacked
  BY DEF Vouching, Backed, MirrorBacked
<1> QED
  BY <1>1, <1>2, <1>3, Invariance, PTL DEF Spec

-----------------------------------------------------------------------------
(* What is not repeated                                                      *)

\* The documents of s over the records old.
Report(s, old) == {<<u, [k \in Item |-> old[<<u, k>>]]>> : u \in Collects[s]}

\* The output of t was computed from the documents its step was last handed.
Fits(t) ==
  \E old \in [Task -> Records] :
    /\ delivered[t[1]] = Report(t[1], old)
    /\ \A u \in Collects[t[1]] : <<u, 0, {k \in Item : old[<<u, k>>] = "completed"}>> \in made[t]

(* What is complete was computed from the documents its step has.            *)
Kept ==
  /\ \A s \in Step : Collects[s] = {} => delivered[s] = {}
  /\ \A t \in Task : rec[t] = "completed" /\ made[t] # {} => Fits(t)

(* A step the walk will run has changed documents only if it, too, is        *)
(* invalidated; if it is complete, its output is lost; and an invalidation  *)
(* has its cause in the root.  Until a step is judged, process-status.yaml  *)
(* has no hash for it.                                                     *)
Decided ==
  Active =>
    /\ \A h \in left \ judged : ~Absorbed(h) => st[h].hash = 0 /\ mirror[h].hash = 0
    /\ \A s \in runnable :
         /\ st[s].state = "running" => delivered[s] = Digest(s)
         /\ \A t \in Tasks(s) : rec[t] = "completed" /\ t \notin cascade.tasks =>
              /\ st[s].state = "pending" => ~CollectedChanged(s)
              /\ s \notin Mapped /\ launch.forced = {} /\ t \notin tried => made[t] = {}
    /\ cascade.tasks # {} /\ launch.forced = {} =>
         CollectedChanged(cascade.root) \/ \E t \in Tasks(cascade.root) : hash[t] # version[t[1]]
    /\ \A t \in Task : rec[t] = "running" => t \in tried

\* A walk runs nothing that a step of the level, or one that is past, needs ...
LEMMA RunKeepsNeeds ==
  ASSUME Inv, Active, NEW s \in launch.walk, Needs[s] \cap left = {}, NEW u \in Needs[s],
         NEW g \in runnable
  PROVE  u \notin Members(g)
<1> SUFFICES ASSUME u \in Members(g) PROVE FALSE
  OBVIOUS
<1>1. g \in left /\ g \in Step /\ ~Absorbed(g) /\ g \in launch.walk
  BY WalkSteps DEF Inv, Placed
<1>2. u \in Past
  BY <1>1, MembersInWalk DEF Past
<1>3. PICK h \in Past : h \in Step /\ ~Absorbed(h) /\ u \in Members(h)
  BY <1>2, PastHead
<1> QED
  BY <1>1, <1>3, HeadUnique DEF Past

\* ... nor renames its records.
LEMMA RenameKeepsNeeds ==
  ASSUME Inv, Active, NEW s \in launch.walk, Needs[s] \cap left = {}, NEW u \in Needs[s],
         NEW t \in cascade.tasks
  PROVE  t[1] # u
<1> SUFFICES ASSUME t[1] = u PROVE FALSE
  OBVIOUS
<1>1. /\ u \notin left /\ launch \in Option /\ cascade.root \in launch.walk
      /\ t[1] \in {cascade.root} \cup Downstream(cascade.root, launch.plan)
  BY WalkSteps DEF Inv, Placed
<1>2. u \in launch.walk
  <2>1. CASE \A d \in launch.plan : Needs[d] \cap launch.walk # {} => d \in launch.walk
    <3>1. launch.walk \subseteq launch.plan
      BY <1>1, OptionAssumption
    <3>2. Dependents({cascade.root} \cup launch.walk, launch.plan) \subseteq launch.walk
      BY <1>1, <2>1 DEF Dependents
    <3> QED
      BY <1>1, <3>1, <3>2, DownstreamLeast
  <2>2. CASE Needs[s] \cap launch.plan \subseteq launch.walk
    BY <1>1, <2>2, OptionAssumption DEF Downstream
  <2> QED
    BY <1>1, <2>1, <2>2, OptionAssumption
<1>3. PICK h \in Past : h \in Step /\ ~Absorbed(h) /\ u \in Members(h)
  BY <1>1, <1>2, PastHead DEF Past
<1>4. Open(h)
  BY <1>2, <1>3, RenamedOpen
<1>5. HeadOk(h)
  BY <1>3 DEF Inv, Walked, Past
<1> QED
  BY <1>3, <1>4, <1>5 DEF HeadOk, Answered

LEMMA SameDigest ==
  ASSUME NEW s \in Step, UNCHANGED delivered,
         \A u \in Collects[s] : \A k \in Item : rec'[<<u, k>>] = rec[<<u, k>>]
  PROVE  Digest(s)' = Digest(s) /\ (CollectedChanged(s)' <=> CollectedChanged(s))
<1>1. Digest(s)' = Digest(s)
  BY DEF Digest
<1> QED
  BY <1>1 DEF CollectedChanged

LEMMA ChainCollects ==
  ASSUME NEW m, NEW s, Before(m, s)
  PROVE  Collects[m] = {} /\ Collects[s] = {}
<1>1. PICK c \in Chain : \E i, j \in DOMAIN c : i < j /\ c[i] = m /\ c[j] = s
  BY DEF Before
<1> QED
  BY <1>1, ChainAssumption

\* A task that ends was computed from the documents its step is handed.
LEMMA EndFits ==
  ASSUME Inv, Kept, Decided, Active, NEW t \in Task, rec[t] = "running",
         UNCHANGED delivered, made'[t] = Consumed(t)
  PROVE  Fits(t)'
<1>1. t[1] \in Step /\ rec \in [Task -> Records]
  BY TaskParts DEF Inv, TypeOK
<1>2. PICK g \in runnable : st[g].state = "running" /\ t[1] \in Members(g)
  BY DEF Inv, RunningUnder
<1>3. delivered[t[1]] = Report(t[1], rec)
  <2>1. CASE t[1] = g
    BY <1>2, <2>1 DEF Decided, Digest, Report
  <2>2. CASE Before(g, t[1])
    BY <1>1, <2>2, ChainCollects DEF Kept, Report
  <2> QED
    BY <1>2, <2>1, <2>2 DEF Members
<1>4. \A u \in Collects[t[1]] : <<u, 0, {k \in Item : rec[<<u, k>>] = "completed"}>> \in made'[t]
  <2>1. \A u \in Collects[t[1]] : <<u, 0, Outcomes(u)>> \in made'[t]
    BY DEF Consumed
  <2> QED
    BY <2>1 DEF Outcomes
<1> QED
  BY <1>1, <1>3, <1>4 DEF Fits, Report

\* What else is complete stays as it was.
LEMMA KeptFrame ==
  ASSUME Kept, UNCHANGED delivered,
         \A t \in Task : rec'[t] = "completed" /\ made'[t] # {} =>
           \/ rec[t] = "completed" /\ made'[t] = made[t]
           \/ Fits(t)'
  PROVE  Kept'
<1>1. ASSUME NEW t \in Task, rec[t] = "completed", made'[t] = made[t], made'[t] # {}
      PROVE  Fits(t)'
  BY <1>1 DEF Kept, Fits, Report
<1> QED
  BY <1>1 DEF Kept

LEMMA KeepLaunch ==
  ASSUME TypeOK, Kept, NEW o \in Option, Launch(o)
  PROVE  Kept' /\ Decided'
<1>1. \A t \in Task : rec'[t] = "completed" => rec[t] = "completed"
  BY DEF Launch, Reconciled
<1>2. \A t \in Task : rec'[t] # "running"
  BY DEF Launch, Reconciled
<1>3. Kept'
  BY <1>1, KeptFrame DEF Launch
<1>4. \A h \in o.walk : st'[h].hash = 0 /\ mirror'[h].hash = 0
  BY OptionAssumption DEF Launch, Entered, EntryWrite, Entry
<1> QED
  BY <1>2, <1>3, <1>4 DEF Launch, Decided, NoCascade

LEMMA KeepLeave ==
  ASSUME Inv, Kept, Decided, NEW how, Leave(how), UNCHANGED delivered,
         \A t \in Task : rec'[t] = "completed" =>
           \/ rec[t] = "completed" /\ made'[t] = made[t]
           \/ Active /\ rec[t] = "running" /\ made'[t] = Consumed(t)
  PROVE  Kept' /\ Decided'
<1>1. Kept'
  BY EndFits, KeptFrame
<1> QED
  BY <1>1 DEF Leave, Decided, Active

LEMMA KeepPassOver ==
  ASSUME Inv, Kept, Decided, NEW s \in Step, PassOver(s)
  PROVE  Kept' /\ Decided'
<1>1. /\ Active /\ s \notin judged /\ s \notin runnable /\ launch' = launch
      /\ judged' = judged \cup {s}
      /\ UNCHANGED <<disk, mirror, phase, left, tried, runnable, cascade>>
  BY DEF PassOver, CanJudge, Judged, Active, Inv, TypeOK
<1>2. \A m \in Step : m # s => st'[m] = st[m]
  <2>1. ASSUME NEW state, Judged(s, state) PROVE \A m \in Step : m # s => st'[m] = st[m]
    BY <2>1 DEF Judged, Inv, TypeOK, Entries
  <2> QED
    BY <2>1 DEF PassOver
<1>3. Kept'
  BY <1>1, KeptFrame DEF disk
<1>4. left \subseteq Step /\ runnable \subseteq Step
  BY <1>1, WalkSteps DEF Inv
<1> QED
  BY <1>1, <1>2, <1>3, <1>4, Fixed DEF Decided, Active, disk, Digest, CollectedChanged, Tasks

LEMMA KeepConsider ==
  ASSUME Inv, Kept, Decided, NEW s \in Step, Consider(s)
  PROVE  Kept' /\ Decided'
<1>1. /\ Active /\ phase = "judging" /\ cascade.tasks = {} /\ s \in left \ judged /\ s \notin runnable
      /\ ~Absorbed(s) /\ launch' = launch /\ judged' = judged \cup {s}
      /\ UNCHANGED <<disk, mirror, phase, left, tried>>
      /\ runnable \subseteq Step /\ left \subseteq Step
  BY WalkSteps DEF Consider, Considered, CanJudge, WillRun, Judged, Active, Inv, TypeOK, Level
<1>2. Kept'
  BY <1>1, KeptFrame DEF disk
<1>3. st[s].state = "pending" /\ mirror[s].hash = 0
  BY <1>1, WalkSteps DEF Inv, Walked, HeadOk, StateOf, Decided
<1>4. \A t \in Task : rec[t] # "running"
  BY <1>1 DEF Inv, RunningUnder, Active
<1>5. CASE Judged(s, [state |-> "completed", hash |-> prior[s].hash])
  <2>1. UNCHANGED <<runnable, cascade>> /\ \A m \in Step : m # s => st'[m] = st[m]
    BY <1>5 DEF Judged, Inv, TypeOK, Entries
  <2> QED
    BY <1>1, <1>2, <2>1, Fixed DEF Decided, Active, disk, Digest, CollectedChanged, Tasks
<1>6. ASSUME NEW T, WillRun(s, T),
             \A t \in Tasks(s) : rec[t] = "completed" /\ t \notin T =>
               /\ ~CollectedChanged(s)
               /\ s \notin Mapped /\ launch.forced = {} => made[t] = {},
             T # {} /\ launch.forced = {} =>
               CollectedChanged(s) \/ \E t \in Tasks(s) : hash[t] # version[t[1]]
      PROVE  Kept' /\ Decided'
  <2>1. /\ runnable' = runnable \cup {s} /\ st' = st
        /\ cascade'.root = s /\ cascade'.tasks = T
    BY <1>6 DEF WillRun
  <2>2. \A r \in Step : /\ Tasks(r)' = Tasks(r) /\ Digest(r)' = Digest(r)
                        /\ CollectedChanged(r)' <=> CollectedChanged(r)
    BY <1>1 DEF Tasks, Digest, CollectedChanged, disk
  <2>3. Decided'
    BY <1>1, <1>3, <1>4, <1>6, <2>1, <2>2, Fixed DEF Decided, Active, disk
  <2> QED
    BY <1>2, <2>3
<1>7. \A keep : \A t \in Tasks(s) : rec[t] = "completed" => t \in ToInvalidate(s, keep)
  BY TaskParts DEF ToInvalidate
<1>8. CASE s \in launch.forced
  BY <1>6, <1>7, <1>8 DEF Consider
<1>9. CASE s \notin launch.forced /\ ~Heads(s) /\ CollectedChanged(s) /\ WillRun(s, ToInvalidate(s, TRUE))
  BY <1>6, <1>7, <1>9
<1>10. ASSUME NEW h \in RecordedHashes(s), ~(~Heads(s) /\ IsStepCompleted(s, h)), s \notin launch.forced,
              Heads(s) \/ ~CollectedChanged(s),
              WillRun(s, IF h \in {0, version[s]} THEN {} ELSE ToInvalidate(s, FALSE))
       PROVE  Kept' /\ Decided'
  <2>1. ~CollectedChanged(s)
    BY <1>10, ChainCollects DEF Heads, Kept, CollectedChanged
  <2>2. CASE h \in {0, version[s]}
    <3>1. ASSUME NEW t \in Tasks(s), rec[t] = "completed", s \notin Mapped PROVE made[t] = {}
      <4>1. t = <<s, Whole>>
        BY <3>1, TaskParts DEF Keys
      <4>2. ~Heads(s)
        BY <3>1, BeforeParts DEF Heads
      <4> QED
        BY <1>10, <2>2, <3>1, <4>1, <4>2 DEF IsStepCompleted, Vouched
    <3> QED
      BY <1>6, <1>10, <2>1, <2>2, <3>1
  <2>3. CASE h \notin {0, version[s]}
    <3>1. \E t \in Tasks(s) : hash[t] = h
      BY <1>3, <1>10, <2>3 DEF RecordedHashes
    <3>2. \E t \in Tasks(s) : hash[t] # version[t[1]]
      BY <2>3, <3>1, TaskParts DEF Tasks
    <3> QED
      BY <1>6, <1>7, <1>10, <2>3, <3>2
  <2> QED
    BY <2>2, <2>3
<1> QED
  BY <1>5, <1>8, <1>9, <1>10 DEF Consider

LEMMA KeepRename ==
  ASSUME Inv, Quiet, Kept, Decided, NEW t \in Task, Rename(t)
  PROVE  Kept' /\ Decided'
<1>1. /\ Active /\ launch' = launch /\ t \in cascade.tasks /\ rec' = [rec EXCEPT ![t] = "stale"]
      /\ UNCHANGED <<version, hash, made, delivered, mirror, st, phase, left, judged, runnable, tried>>
      /\ cascade'.root = cascade.root /\ cascade'.tasks = cascade.tasks \ {t}
      /\ runnable \subseteq Level /\ Level \subseteq Step /\ rec \in [Task -> Records]
      /\ cascade.root \in runnable
  BY WalkSteps DEF Rename, Quiet, Active, Inv, TypeOK, Placed
<1>2. Kept'
  BY <1>1, KeptFrame
<1>3. ASSUME NEW s \in runnable
      PROVE  /\ Digest(s)' = Digest(s) /\ (CollectedChanged(s)' <=> CollectedChanged(s))
             /\ Tasks(s)' = Tasks(s)
  <2>1. ASSUME NEW u \in Collects[s], NEW k \in Item PROVE rec'[<<u, k>>] = rec[<<u, k>>]
    <3>1. <<u, k>> # t
      BY <1>1, WalkSteps, StepAssumption, RenameKeepsNeeds DEF Inv, Level
    <3> QED
      BY <1>1, <3>1
  <2> QED
    BY <1>1, <2>1, SameDigest DEF Tasks
<1>4. Decided'
  BY <1>1, <1>3, Fixed DEF Decided, Active, Tasks
<1> QED
  BY <1>2, <1>4

LEMMA KeepRecord ==
  ASSUME Inv, Kept, Decided, phase = "running", NEW t \in Task, NEW g \in runnable,
         st[g].state = "running", t[1] \in Members(g),
         NEW state, NEW output, NEW h, Record(t, state, output, h),
         tried' = tried \cup {t} \/ (tried' = tried /\ t \in tried),
         state = "completed" => \/ output = Consumed(t) /\ rec[t] = "running"
                                \/ output = made[t] /\ state = rec[t]
  PROVE  Kept' /\ Decided'
<1>1. /\ Active /\ Active' /\ launch' = launch /\ cascade.tasks = {} /\ t \in tried'
      /\ tried \subseteq tried'
      /\ UNCHANGED <<version, delivered, mirror, st, phase, left, judged, runnable, cascade>>
      /\ runnable \subseteq Level /\ Level \subseteq Step /\ g \in Step /\ ~Absorbed(g)
  BY WalkSteps DEF Record, Active, Inv, Placed
<1>2. /\ \A u \in Task : u # t => rec'[u] = rec[u] /\ made'[u] = made[u]
      /\ rec'[t] = state /\ made'[t] = output
      /\ \A m, k : <<m, k>> # t => rec'[<<m, k>>] = rec[<<m, k>>]
  BY DEF Record, Inv, TypeOK
<1>3. Kept'
  <2>1. rec[t] = "running" /\ output = Consumed(t) => Fits(t)'
    BY <1>1, <1>2, EndFits
  <2> QED
    BY <1>1, <1>2, <2>1, KeptFrame
<1>4. ASSUME NEW s \in runnable
      PROVE  /\ Digest(s)' = Digest(s) /\ (CollectedChanged(s)' <=> CollectedChanged(s))
             /\ Tasks(s)' = Tasks(s) /\ (st[s].state = "pending" => t \notin Tasks(s))
  <2>1. ASSUME NEW u \in Collects[s], NEW k \in Item PROVE rec'[<<u, k>>] = rec[<<u, k>>]
    <3>1. <<u, k>> # t
      BY <1>1, WalkSteps, StepAssumption, RunKeepsNeeds DEF Inv, Level
    <3> QED
      BY <1>2, <3>1
  <2>2. ASSUME st[s].state = "pending", t \in Tasks(s) PROVE FALSE
    <3>1. s \in Members(g) /\ ~Absorbed(s) /\ s \in Step
      BY <1>1, <2>2 DEF Tasks, Inv, Placed
    <3> QED
      BY <1>1, <2>2, <3>1, HeadUnique, HeadIsMember
  <2> QED
    BY <1>1, <2>1, <2>2, SameDigest DEF Tasks
<1>5. Decided'
  <2>1. \A h2 \in left' \ judged' : ~Absorbed(h2)' => st'[h2].hash = 0 /\ mirror'[h2].hash = 0
    BY <1>1, Fixed DEF Decided
  <2>2. \A s \in runnable' : st'[s].state = "running" => delivered'[s] = Digest(s)'
    BY <1>1, <1>4 DEF Decided
  <2>3. ASSUME NEW s \in runnable, NEW u \in Tasks(s), rec'[u] = "completed"
        PROVE  /\ st[s].state = "pending" => ~CollectedChanged(s)'
               /\ s \notin Mapped /\ launch.forced = {} /\ u \notin tried' => made'[u] = {}
    <3>1. CASE u = t
      BY <1>1, <1>4, <2>3, <3>1
    <3>2. CASE u # t
      BY <1>1, <1>2, <1>4, <2>3, <3>2 DEF Decided, Tasks
    <3> QED
      BY <3>1, <3>2
  <2>4. \A u \in Task : rec'[u] = "running" => u \in tried'
    BY <1>1, <1>2 DEF Decided
  <2> QED
    BY <1>1, <1>4, <2>1, <2>2, <2>3, <2>4 DEF Decided
<1> QED
  BY <1>3, <1>5

LEMMA KeepTask ==
  ASSUME Inv, Kept, Decided, NEW t \in Task, StartTask(t) \/ RefuseTask(t) \/ EndTask(t)
  PROVE  Kept' /\ Decided'
<1>1. CASE Due(t)
  <2>1. PICK g \in runnable : st[g].state = "running" /\ t[1] \in Members(g)
    BY <1>1 DEF Due, Running
  <2>2. CASE StartTask(t)
    <3>1. PICK h : /\ Record(t, "running", {}, h)
                   /\ tried' = tried \cup {t} /\ phase = "running"
      BY <2>2 DEF StartTask, Due, Running
    <3> QED
      BY <2>1, <3>1, KeepRecord
  <2>3. CASE RefuseTask(t)
    <3>1. PICK state, output, h : /\ Record(t, state, output, h) /\ output = made[t]
                                  /\ state = "completed" => state = rec[t]
      BY <2>3 DEF RefuseTask
    <3>2. tried' = tried \cup {t} /\ phase = "running"
      BY <2>3 DEF RefuseTask, Due, Running
    <3> QED
      BY <2>1, <3>1, <3>2, KeepRecord
  <2>4. CASE EndTask(t)
    <3>1. t \in tried
      BY <2>4 DEF EndTask, Decided, Active
    <3> QED
      BY <1>1, <3>1 DEF Due
  <2> QED
    BY <2>2, <2>3, <2>4
<1>2. CASE EndTask(t)
  <2>1. phase = "running" /\ rec[t] = "running" /\ t \in tried /\ tried' = tried
    BY <1>2 DEF EndTask, Decided, Active
  <2>2. PICK g \in runnable : st[g].state = "running" /\ t[1] \in Members(g)
    BY <2>1 DEF Inv, RunningUnder, Active
  <2>3. PICK state, output, h : /\ Record(t, state, output, h)
                                /\ state = "completed" => output = Consumed(t)
    BY <1>2 DEF EndTask
  <2> QED
    BY <2>1, <2>2, <2>3, KeepRecord
<1> QED
  BY <1>1, <1>2 DEF StartTask, RefuseTask

\* The document a step is handed is the one its finished tasks already had.
LEMMA KeepStart ==
  ASSUME Inv, Kept, Decided, NEW s \in Step, StartStep(s)
  PROVE  Kept' /\ Decided'
<1>1. /\ Active /\ Active' /\ s \in runnable /\ st[s].state = "pending" /\ cascade.tasks = {}
      /\ st' = [st EXCEPT ![s] = Entry("running")] /\ mirror' = st'
      /\ delivered' = [delivered EXCEPT ![s] = Digest(s)]
      /\ UNCHANGED <<version, rec, hash, made, left, judged, runnable, launch, cascade, tried>>
      /\ runnable \subseteq judged /\ runnable \subseteq Step /\ left \subseteq Step
      /\ DOMAIN delivered = Step /\ DOMAIN st = Step
  BY WalkSteps DEF StartStep, walk, Active, Inv, Placed, TypeOK, Entries
<1>2. \A r \in Step : /\ Digest(r)' = Digest(r) /\ Tasks(r)' = Tasks(r)
                      /\ r # s => delivered'[r] = delivered[r] /\ st'[r] = st[r]
  BY <1>1 DEF Digest, Tasks
<1>3. delivered'[s] = Digest(s) /\ st'[s].state = "running" /\ st'[s].hash = 0
  BY <1>1 DEF Entry
<1>4. Kept'
  <2>1. ASSUME NEW r \in Step, Collects[r] = {} PROVE delivered'[r] = {}
    BY <1>2, <1>3, <2>1 DEF Kept, Digest
  <2>2. ASSUME NEW t \in Task, rec[t] = "completed", made[t] # {} PROVE Fits(t)'
    <3>1. Fits(t) /\ t[1] \in Step
      BY <2>2, TaskParts DEF Kept
    <3>2. delivered'[t[1]] = delivered[t[1]]
      <4>1. CASE t[1] = s
        <5>1. delivered[s] \in {{}, Digest(s)}
          BY <1>1, <2>2, <4>1 DEF Decided, CollectedChanged, Tasks
        <5>2. ASSUME delivered[s] = {} PROVE Digest(s) = {}
          <6>1. PICK old : delivered[s] = Report(s, old)
            BY <3>1, <4>1 DEF Fits
          <6>2. \A u \in Collects[s] : <<u, [k \in Item |-> old[<<u, k>>]]>> \in delivered[s]
            BY <6>1 DEF Report
          <6> QED
            BY <5>2, <6>2 DEF Digest
        <5> QED
          BY <1>3, <4>1, <5>1, <5>2
      <4> QED
        BY <1>2, <3>1, <4>1
    <3> QED
      BY <1>1, <3>1, <3>2 DEF Fits, Report
  <2> QED
    BY <1>1, <2>1, <2>2 DEF Kept
<1>5. \A r \in runnable : st'[r].state = "pending" => (CollectedChanged(r)' <=> CollectedChanged(r))
  BY <1>1, <1>2, <1>3 DEF CollectedChanged
<1>6. Decided'
  <2>1. \A h \in left' \ judged' : ~Absorbed(h)' => st'[h].hash = 0 /\ mirror'[h].hash = 0
    BY <1>1, <1>2, Fixed DEF Decided
  <2>2. \A r \in runnable' : st'[r].state = "running" => delivered'[r] = Digest(r)'
    BY <1>1, <1>2, <1>3 DEF Decided
  <2>3. \A r \in runnable' : st'[r].state = "pending" => st[r].state = "pending"
    BY <1>1, <1>2, <1>3
  <2> QED
    BY <1>1, <1>2, <1>5, <2>1, <2>2, <2>3 DEF Decided
<1> QED
  BY <1>4, <1>6

LEMMA KeepEnd ==
  ASSUME Inv, Kept, Decided, NEW s \in Step, EndStep(s)
  PROVE  Kept' /\ Decided'
<1>1. /\ Active /\ Active' /\ s \in runnable /\ ~Absorbed(s)
      /\ UNCHANGED <<version, rec, hash, made, delivered>>
      /\ UNCHANGED <<left, judged, runnable, launch, cascade, tried>>
      /\ mirror' \in {mirror, st'} /\ runnable \subseteq judged /\ left \cup runnable \subseteq Step
  BY WalkSteps DEF EndStep, Running, walk, disk, Active, Inv, Placed
<1>2. \A m \in Step : st'[m] = IF m \in Members(s) THEN Ended(m) ELSE st[m]
  BY DEF EndStep
<1>3. Ended(s).state \in {"completed", "failed"}
  BY DEF Ended, Entry
<1>4. \A r \in Step : ~Absorbed(r) /\ r # s => st'[r] = st[r]
  BY <1>2 DEF Members, Absorbed
<1>5. \A r \in runnable : st'[r].state \in {"running", "pending"} => st'[r] = st[r]
  BY <1>1, <1>2, <1>3, <1>4, HeadIsMember DEF Inv, Placed
<1>6. Kept'
  BY <1>1, KeptFrame
<1>7. \A r : Digest(r)' = Digest(r) /\ (CollectedChanged(r)' <=> CollectedChanged(r)) /\ Tasks(r)' = Tasks(r)
  BY <1>1 DEF Digest, CollectedChanged, Tasks
<1>8. Decided'
  <2>1. \A h \in left' \ judged' : ~Absorbed(h)' => st'[h].hash = 0 /\ mirror'[h].hash = 0
    BY <1>1, <1>4, Fixed DEF Decided
  <2> QED
    BY <1>1, <1>5, <1>7, <2>1 DEF Decided
<1> QED
  BY <1>6, <1>8

LEMMA KeepTurn ==
  ASSUME Inv, Kept, Decided, Turn
  PROVE  Kept' /\ Decided'
<1>1. Active
  BY DEF Turn, Gather, EndLevel, EndWalk, Active
<1>2. UNCHANGED <<version, rec, hash, made, delivered>>
  BY DEF Turn, Gather, EndLevel, EndWalk, disk
<1>3. Kept'
  BY <1>2, KeptFrame
<1>4. ASSUME NEW how, Leave(how) PROVE Decided'
  BY <1>4 DEF Leave, Decided, Active
<1>5. judged \subseteq Level /\ runnable \subseteq judged
  BY DEF Inv, TypeOK
<1>6. \A r : Digest(r)' = Digest(r) /\ (CollectedChanged(r)' <=> CollectedChanged(r)) /\ Tasks(r)' = Tasks(r)
  BY <1>2 DEF Digest, CollectedChanged, Tasks
<1>7. CASE Gather
  <2>1. /\ UNCHANGED <<mirror, st, launch, runnable, cascade, tried>>
        /\ left' \ judged' \subseteq left \ judged
    BY <1>5, <1>7 DEF Gather
  <2> QED
    BY <1>1, <1>2, <1>3, <1>6, <2>1, Fixed DEF Decided
<1>8. CASE EndLevel /\ UNCHANGED <<st, launch, cascade, tried>> /\ mirror' = st /\ runnable' = {}
           /\ left' = left \ Level /\ cascade.tasks = {}
  BY <1>1, <1>2, <1>3, <1>5, <1>8, Fixed DEF Decided
<1>9. CASE EndLevel
  BY <1>3, <1>4, <1>8, <1>9, <1>1 DEF EndLevel, Inv, Placed
<1> QED
  BY <1>3, <1>4, <1>7, <1>9 DEF Turn, EndWalk

LEMMA KeepStep ==
  ASSUME Inv, Quiet, Kept, Decided, [Next]_vars
  PROVE  Kept' /\ Decided'
<1>1. CASE UNCHANGED vars
  <2>1. UNCHANGED <<disk, mirror, st, phase, walk>>
    BY <1>1 DEF vars
  <2>2. Kept'
    BY <2>1, KeptFrame DEF disk
  <2>3. \A r : Digest(r)' = Digest(r) /\ (CollectedChanged(r)' <=> CollectedChanged(r)) /\ Tasks(r)' = Tasks(r)
    BY <2>1 DEF Digest, CollectedChanged, Tasks, disk
  <2> QED
    BY <2>1, <2>2, <2>3, Fixed DEF Decided, Active, disk, walk
<1>2. ASSUME NEW o \in Option, Launch(o) PROVE Kept' /\ Decided'
  BY <1>2, KeepLaunch DEF Inv
<1>3. CASE Judgement
  BY <1>3, KeepPassOver, KeepConsider DEF Judgement
<1>4. CASE Renaming
  BY <1>4, KeepRename DEF Renaming
<1>5. CASE Work
  BY <1>5, KeepTask, KeepStart, KeepEnd DEF Work
<1>6. CASE Turn
  BY <1>6, KeepTurn
<1>7. CASE Interrupt
  BY <1>7, KeepLeave DEF Interrupt, Reconciled
<1>8. ASSUME NEW cut, Crash(cut) PROVE Kept' /\ Decided'
  BY <1>8, KeepLeave DEF Crash, Active
<1>9. CASE Between /\ \A t \in Task : made'[t] \in {made[t], {}}
  <2>1. Kept'
    BY <1>9, KeptFrame DEF Between
  <2> QED
    BY <1>9, <2>1 DEF Between, Decided, Active
<1>10. ASSUME NEW s \in Step, Edit(s) \/ Override(s) PROVE Kept' /\ Decided'
  BY <1>9, <1>10 DEF Edit, Override
<1>11. ASSUME NEW t \in Task, LoseOutput(t) PROVE Kept' /\ Decided'
  BY <1>9, <1>11 DEF LoseOutput, Inv, TypeOK
<1> QED
  BY <1>1, <1>2, <1>3, <1>4, <1>5, <1>6, <1>7, <1>8, <1>10, <1>11 DEF Next, Rest

\* A step descends from all that its ancestors need.
LEMMA AncestorsClosed ==
  ASSUME NEW s \in Step, NEW a \in {s} \cup Ancestors(s), NEW n \in Needs[a], n \in Step
  PROVE  n \in Ancestors(s)
<1> DEFINE D == Downstream(n, Step)
<1>1. a \in D
  BY DownstreamClosed DEF Ancestors
<1>2. CASE a = s
  BY <1>1, <1>2 DEF Ancestors
<1>3. CASE s \in Downstream(a, Step)
  <2>1. Dependents({a} \cup D, Step) \subseteq D
    <3> SUFFICES ASSUME NEW d \in Step, NEW x \in Needs[d], x \in {a} \cup D
                 PROVE  d \in D
      BY DEF Dependents
    <3> QED
      BY <1>1, DownstreamClosed
  <2>2. D \in SUBSET Step
    BY DEF Downstream
  <2>3. Downstream(a, Step) \subseteq D
    <3> HIDE DEF D
    <3> QED
      BY <2>1, <2>2, DownstreamLeast
  <2> QED
    BY <1>3, <2>3 DEF Ancestors
<1> QED
  BY <1>2, <1>3 DEF Ancestors

\* What depends on r within a plan depends on it.
LEMMA DownstreamGrows ==
  ASSUME NEW r, NEW plan \in SUBSET Step
  PROVE  Downstream(r, plan) \subseteq Downstream(r, Step)
<1> DEFINE D == Downstream(r, Step) \cap plan
<1>1. Dependents({r} \cup D, plan) \subseteq D
  <2> SUFFICES ASSUME NEW d \in plan, NEW x \in Needs[d], x \in {r} \cup D
               PROVE  d \in Downstream(r, Step)
    BY DEF Dependents
  <2> QED
    BY DownstreamClosed
<1>2. Downstream(r, plan) \subseteq D
  <2> HIDE DEF D
  <2>1. D \in SUBSET plan
    BY DEF D
  <2> QED
    BY <1>1, <2>1, DownstreamLeast
<1> QED
  BY <1>2

LEMMA ConsumedParts ==
  ASSUME NEW t \in Task, NEW x \in Consumed(t)
  PROVE  \/ x = <<t[1], version[t[1]], {}>>
         \/ \E i \in Handed(t) : x \in made[i]
         \/ \E u \in Collects[t[1]] : x = <<u, 0, Outcomes(u)>>
  BY DEF Consumed

LEMMA Nonempty == \A t \in Task : Consumed(t) # {}
  BY DEF Consumed

\* Where all is up to date, every document consumed reported every item done.
LEMMA WholeDocuments ==
  ASSUME TypeOK, NEW s \in Step, UpToDate(s),
         NEW r \in {s} \cup Ancestors(s), NEW t \in Tasks(r),
         NEW u, NEW O, <<u, 0, O>> \in made[t]
  PROVE  O = Item
<1> DEFINE Bad == {b \in {s} \cup Ancestors(s) :
                     \E v \in Tasks(b) : \E w : \E P : <<w, 0, P>> \in made[v] /\ P # Item}
<1>1. Bad \subseteq Step
  BY DEF Ancestors
<1>2. ASSUME NEW b \in Bad, Needs[b] \cap Bad = {} PROVE FALSE
  <2>0. PICK v \in Tasks(b) : \E w : \E P : <<w, 0, P>> \in made[v] /\ P # Item
    BY <1>2
  <2>1. PICK w, P : <<w, 0, P>> \in made[v] /\ P # Item
    BY <2>0
  <2>2. b \in Step /\ v \in Task /\ v[1] = b /\ Needs[b] \subseteq Step
        /\ Collects[b] \subseteq Needs[b] \cap Mapped
    BY <1>1, <1>2, StepAssumption DEF Tasks
  <2>3. \A n \in Needs[b] : n \in Ancestors(s)
    BY <1>2, <2>2, AncestorsClosed
  <2>4. made[v] = Consumed(v)
    BY <1>2, <2>1 DEF UpToDate
  <2>5. version[b] # 0
    BY <2>2 DEF TypeOK
  <2>6. CASE <<w, 0, P>> = <<v[1], version[v[1]], {}>>
    BY <2>2, <2>5, <2>6
  <2>7. ASSUME NEW i \in Handed(v), <<w, 0, P>> \in made[i] PROVE FALSE
    <3>1. i \in Task /\ i[1] \in Needs[b] /\ i \in Tasks(i[1])
      BY <2>2, <2>7 DEF Handed, Tasks
    <3>2. i[1] \in Bad
      BY <2>1, <2>3, <2>7, <3>1
    <3> QED
      BY <1>2, <3>1, <3>2
  <2>8. ASSUME NEW x \in Collects[v[1]], <<w, 0, P>> = <<x, 0, Outcomes(x)>> PROVE FALSE
    <3>1. x \in Ancestors(s) /\ x \in Mapped /\ x \in Step
      BY <2>2, <2>3, <2>8
    <3>2. \A k \in Item : <<x, k>> \in Tasks(x)
      BY <3>1, TaskParts DEF Keys
    <3>3. \A k \in Item : rec[<<x, k>>] = "completed"
      BY <3>1, <3>2 DEF UpToDate
    <3> QED
      BY <2>1, <2>8, <3>3 DEF Outcomes
  <2> QED
    BY <2>1, <2>2, <2>4, <2>6, <2>7, <2>8, ConsumedParts
<1>3. Bad = {}
  <2> HIDE DEF Bad
  <2> QED
    BY <1>1, <1>2, GraphAssumption
<1>4. ASSUME O # Item PROVE \E v \in Tasks(r) : \E w : \E P : <<w, 0, P>> \in made[v] /\ P # Item
  <2>1. <<u, 0, O>> \in made[t] /\ O # Item
    BY <1>4
  <2>2. \E w : \E P : <<w, 0, P>> \in made[t] /\ P # Item
    <3> WITNESS u
    <3> WITNESS O
    <3> QED
      BY <2>1
  <2> QED
    BY <2>2
<1> QED
  BY <1>3, <1>4

\* So nothing it was computed from has another document now.
LEMMA NothingChanged ==
  ASSUME TypeOK, Kept, NEW s \in Step, UpToDate(s), NEW r \in {s} \cup Ancestors(s)
  PROVE  ~CollectedChanged(r)
<1>1. r \in Step /\ Collects[r] \subseteq Step \cap Mapped /\ Collects[r] \subseteq Needs[r]
  BY StepAssumption DEF Ancestors
<1>2. PICK t \in Tasks(r) : t \in Task /\ t[1] = r
  <2>1. Keys(r) # {}
    BY StepAssumption DEF Keys
  <2> QED
    BY <1>1, <2>1, TaskParts DEF Tasks
<1>3. rec[t] = "completed" /\ made[t] # {}
  BY <1>2, Nonempty DEF UpToDate
<1>4. PICK old \in [Task -> Records] :
        /\ delivered[r] = Report(r, old)
        /\ \A u \in Collects[r] : <<u, 0, {k \in Item : old[<<u, k>>] = "completed"}>> \in made[t]
  BY <1>2, <1>3 DEF Kept, Fits
<1>5. ASSUME NEW u \in Collects[r], NEW k \in Item
      PROVE  old[<<u, k>>] = "completed" /\ rec[<<u, k>>] = "completed"
  <2>1. {x \in Item : old[<<u, x>>] = "completed"} = Item
    BY <1>2, <1>4, WholeDocuments
  <2>2. <<u, k>> \in Tasks(u) /\ u \in Ancestors(s)
    BY <1>1, TaskParts, AncestorsClosed DEF Keys
  <2> QED
    BY <2>1, <2>2 DEF UpToDate
<1>6. Report(r, old) = Digest(r)
  <2>1. ASSUME NEW u \in Collects[r]
        PROVE  [k \in Item |-> old[<<u, k>>]] = [k \in Item |-> rec[<<u, k>>]]
    <3>1. \A k \in Item : old[<<u, k>>] = rec[<<u, k>>]
      BY <1>5
    <3> QED
      BY <3>1
  <2> QED
    BY <2>1 DEF Report, Digest
<1> QED
  BY <1>4, <1>6 DEF CollectedChanged

\* What is up to date is neither renamed ...
LEMMA RenamesStale ==
  ASSUME Inv, Quiet, Kept, Decided, NEW t \in Task, Rename(t), launch.forced = {}
  PROVE  ~UpToDate(t[1])
<1> SUFFICES ASSUME UpToDate(t[1]) PROVE FALSE
  OBVIOUS
<1> DEFINE root == cascade.root
<1>1. Active /\ t \in cascade.tasks
  BY DEF Rename, Quiet
<1>2. root \in Step /\ t[1] \in Step /\ launch.plan \in SUBSET Step
      /\ t[1] \in {root} \cup Downstream(root, launch.plan)
  BY <1>1, WalkSteps, TaskParts DEF Inv, Placed
<1>3. root \in {t[1]} \cup Ancestors(t[1])
  BY <1>2, DownstreamGrows DEF Ancestors
<1>4. ~CollectedChanged(root)
  BY <1>2, <1>3, NothingChanged DEF Inv
<1>5. \A u \in Tasks(root) : hash[u] = version[u[1]]
  BY <1>3 DEF UpToDate
<1> QED
  BY <1>1, <1>4, <1>5 DEF Decided

\* ... nor run again.
LEMMA RunsStale ==
  ASSUME Inv, Decided, NEW t \in Task, Due(t), rec[t] = "completed",
         launch.forced = {}
  PROVE  ~UpToDate(t[1])
<1>1. made[t] = {}
  <2>1. CASE t[1] \in Mapped
    BY <2>1 DEF Due, Done
  <2>2. CASE t[1] \notin Mapped
    <3>1. PICK h \in Step : Running(h) /\ t[1] \in Members(h)
      BY DEF Due
    <3>2. t[1] = h
      BY <2>2, <3>1, BeforeParts DEF Members
    <3>3. t \in Tasks(h) /\ h \in runnable /\ t \notin tried /\ Active /\ t \notin cascade.tasks
      BY <3>1, <3>2 DEF Due, Running, Tasks, Active, Inv, Placed
    <3> QED
      BY <2>2, <3>2, <3>3 DEF Decided
  <2> QED
    BY <2>1, <2>2
<1>2. t \in Tasks(t[1])
  BY DEF Tasks
<1> QED
  BY <1>1, <1>2, Nonempty DEF UpToDate

(* No walk that is not forced repeats, or invalidates, a completed task      *)
(* that would compute what it has: what an invalidation renames descends    *)
(* from a step that was edited or is handed other documents than before, and *)
(* what runs again was not done.                                            *)
THEOREM FreshKept == Spec => FreshWorkKept
<1> DEFINE A == \A t \in Task :
                  rec[t] = "completed" /\ rec'[t] # "completed" /\ launch.forced = {}
                  => ~UpToDate(t[1])
<1>1. Init => Kept /\ Decided /\ Quiet
  BY DEF Init, Kept, Decided, Quiet, Active, NoCascade
<1>2. Inv /\ Quiet /\ Kept /\ Decided /\ [Next]_vars => Kept' /\ Decided' /\ Quiet'
  BY KeepStep, QuietStep
<1>3. ASSUME Inv, Quiet, Kept, Decided, Next PROVE A
  <2> SUFFICES ASSUME NEW t \in Task, rec[t] = "completed", rec'[t] # "completed",
                      launch.forced = {}
               PROVE  ~UpToDate(t[1])
    OBVIOUS
  <2>1. rec' # rec
    OBVIOUS
  <2>2. rec' # Reconciled
    BY DEF Reconciled
  <2>3. ASSUME NEW u \in Task, Rename(u) PROVE t = u
    BY <2>3 DEF Rename, Inv, TypeOK
  <2>4. ASSUME NEW u \in Task, StartTask(u) \/ RefuseTask(u) \/ EndTask(u) PROVE t = u
    <3>1. PICK state, output, h : Record(u, state, output, h)
      BY <2>4 DEF StartTask, RefuseTask, EndTask
    <3> QED
      BY <3>1 DEF Record, Inv, TypeOK
  <2>5. ASSUME NEW cut, Crash(cut) PROVE FALSE
    BY <2>5 DEF Crash
  <2>6. ASSUME NEW u \in Task, Rename(u) PROVE ~UpToDate(t[1])
    <3>1. ~UpToDate(u[1])
      BY <1>3, <2>6, RenamesStale
    <3> QED
      BY <2>3, <2>6, <3>1
  <2>7. ASSUME NEW u \in Task, StartTask(u) \/ RefuseTask(u) \/ EndTask(u)
        PROVE  ~UpToDate(t[1])
    <3>1. u = t
      BY <2>4, <2>7
    <3>2. Due(u)
      BY <2>7, <3>1 DEF StartTask, RefuseTask, EndTask
    <3> QED
      BY <1>3, <3>1, <3>2, RunsStale
  <2>8. ASSUME NEW s \in Step, StartStep(s) \/ EndStep(s) PROVE FALSE
    BY <2>1, <2>8 DEF StartStep, EndStep, disk
  <2>9. ~Turn /\ ~Judgement /\ ~Rest
    BY <2>1 DEF Turn, Gather, EndLevel, EndWalk, Judgement, PassOver, Consider, Rest,
                disk, vars
  <2>10. ~Interrupt /\ \A o \in Option : ~Launch(o)
    BY <2>2 DEF Interrupt, Launch
  <2>11. ~Between
    BY <2>1 DEF Between
  <2> QED
    BY <1>3, <2>5, <2>6, <2>7, <2>8, <2>9, <2>10, <2>11
       DEF Next, Renaming, Work, Edit, Override, LoseOutput
<1>4. Inv /\ Quiet /\ Kept /\ Decided /\ [Next]_vars => [A]_vars
  BY <1>3
<1> QED
  BY <1>1, <1>2, <1>4, Invariance, PTL DEF Spec, FreshWorkKept

-----------------------------------------------------------------------------
(* What a clean walk answers for                                             *)

Up(s)       == {s} \cup Ancestors(s)
Settled(s)  == Up(s) \cap NotAnswered = {}
Recorded(t) == rec[t] \notin {"none", "stale"}

\* The outputs that an unforced walk would reuse, and that it has to answer for.
Firm(t) == Settled(t[1]) /\ Done(t) /\ t \notin cascade.tasks

Carries(t, b) == \E w \in Nat : w # 0 /\ <<b, w, {}>> \in made[t]
Carried(t)    == {b \in Step : Carries(t, b)}
Reports(a, u, O) ==
  \E d \in delivered[a] : d[1] = u /\ O = {k \in Item : d[2][k] = "completed"}

\* A walk will find b edited: no record left of it is of its present definition.
Noticed(b) == b \in Editable /\ \A u \in Tasks(b) : Recorded(u) => hash[u] # version[b]

\* Version w of b is the present one, or a walk will find that it is not.
Held(b, w) ==
  /\ w = version[b] \/ Noticed(b)
  /\ \E u \in Tasks(b) : Recorded(u) /\ hash[u] # 0

(* An output comes from definitions of its step and of what that descends   *)
(* from, and from documents as they were last delivered; from all of them,  *)
(* unless a document reported that no item had succeeded; what it comes     *)
(* from leads to it through what else it comes from.                        *)
Contents(t) ==
  \A x \in made[t] :
    \/ \E b \in Up(t[1]) : \E w \in Nat : w # 0 /\ x = <<b, w, {}>>
    \/ \E a \in Carried(t) : \E u \in Collects[a] : \E O \in SUBSET Item :
         x = <<u, 0, O>> /\ Reports(a, u, O)

Covered(t) ==
  (\A u \in Step : <<u, 0, {}>> \notin made[t]) =>
    \A b \in Up(t[1]) :
      Carries(t, b) /\ \A u \in Collects[b] : \E O \in SUBSET Item : <<u, 0, O>> \in made[t]

Linked(t) == \A b \in Carried(t) : t[1] \in {b} \cup Downstream(b, Carried(t))

Versions(t) ==
  \A b \in Step : \A w \in Nat : w # 0 /\ <<b, w, {}>> \in made[t] => Held(b, w)

Sources(t) == Contents(t) /\ Covered(t) /\ Linked(t) /\ Versions(t)

\* The walk has reused b, or runs it.
Ruled(b) ==
  b \in launch.walk /\ (st[b].state = "completed" \/ \E h \in runnable : b \in Members(h))

(* In a walk: what t comes from of the steps that are ruled on is as they   *)
(* are defined now, the documents of those about to run are as they were,   *)
(* and none of it is being invalidated.                                    *)
Standing(t) ==
  /\ \A b \in Step : \A w \in Nat :
       w # 0 /\ <<b, w, {}>> \in made[t] /\ Ruled(b) => w = version[b]
  /\ \A a \in runnable : st[a].state = "pending" /\ Carries(t, a) => ~CollectedChanged(a)
  /\ cascade.tasks # {} =>
       \A b \in Carried(t) : b \notin {cascade.root} \cup Downstream(cascade.root, launch.plan)

Sound == \A t \in Task : Firm(t) => Sources(t) /\ (Active => Standing(t))

(* What the walk's memory and the records say besides: no result is of a    *)
(* definition to come; what a walk leaves out is unsettled; the operator's  *)
(* exceptions are on record; in a whole walk, what is complete has the      *)
(* documents it would be handed now.                                       *)
Ledger ==
  /\ \A t \in Task : hash[t] <= version[t[1]]
  /\ overridden \cup launch.skip \subseteq excused
  /\ Active =>
       /\ outcome = "none"
       /\ \A s \in Step \ launch.plan, a \in launch.walk :
            s \in Downstream(a, Step) /\ (\E t \in Tasks(s) : Recorded(t)) => s \in unsettled
       /\ launch.walk = Step =>
            \A a \in Step \ excused :
              st[a].state = "completed" => delivered[a] \in {{}, Digest(a)}

-----------------------------------------------------------------------------

\* What depends on n depends on what n depends on.
LEMMA DownstreamTransitive ==
  ASSUME NEW a, NEW plan, NEW n \in {a} \cup Downstream(a, plan)
  PROVE  Downstream(n, plan) \subseteq Downstream(a, plan)
<1> DEFINE D == Downstream(a, plan)
<1>1. D \in SUBSET plan
  BY DEF Downstream
<1>2. Dependents({n} \cup D, plan) \subseteq D
  <2> SUFFICES ASSUME NEW d \in plan, NEW x \in Needs[d], x \in {n} \cup D
               PROVE  d \in D
    BY DEF Dependents
  <2> QED
    BY DownstreamClosed
<1> QED
  <2> HIDE DEF D
  <2>1. Downstream(n, plan) \subseteq D
    BY <1>1, <1>2, DownstreamLeast
  <2> QED
    BY <2>1 DEF D

LEMMA UpParts ==
  ASSUME NEW s \in Step
  PROVE  /\ Up(s) \subseteq Step /\ s \in Up(s)
         /\ \A n \in Up(s) : Up(n) \subseteq Up(s)
         /\ \A n \in Needs[s] : n \in Step /\ Up(n) \subseteq Up(s)
<1>1. Up(s) \subseteq Step /\ s \in Up(s)
  BY DEF Up, Ancestors
<1>2. ASSUME NEW n \in Up(s) PROVE Up(n) \subseteq Up(s)
  <2> SUFFICES ASSUME NEW a \in Ancestors(n), n # s PROVE a \in Ancestors(s)
    BY <1>2 DEF Up
  <2>1. a \in Step /\ n \in Downstream(a, Step) /\ s \in Downstream(n, Step)
    BY <1>2 DEF Up, Ancestors
  <2>2. s \in Downstream(a, Step)
    BY <2>1, DownstreamTransitive
  <2> QED
    BY <2>1, <2>2 DEF Ancestors
<1>3. ASSUME NEW n \in Needs[s] PROVE n \in Step /\ n \in Up(s)
  <2>1. n \in Step /\ s \in {s} \cup Ancestors(s)
    BY <1>3, StepAssumption
  <2> QED
    BY <1>3, <2>1, AncestorsClosed DEF Up
<1> QED
  BY <1>1, <1>2, <1>3

\* What s descends from, it descends from through something it needs.
LEMMA UpSplit ==
  ASSUME NEW s \in Step, NEW a \in Ancestors(s)
  PROVE  \E n \in Needs[s] : a \in Up(n)
<1> DEFINE D == {d \in Step : \E n \in Needs[d] : n \in {a} \cup Downstream(a, Step)}
<1>1. a \in Step /\ s \in Downstream(a, Step)
  BY DEF Ancestors
<1>2. Dependents({a} \cup D, Step) \subseteq D
  <2> SUFFICES ASSUME NEW d \in Step, NEW x \in Needs[d], x \in {a} \cup D
               PROVE  x \in {a} \cup Downstream(a, Step)
    BY DEF Dependents
  <2> QED
    BY DownstreamClosed
<1>3. s \in D
  <2>1. D \in SUBSET Step
    OBVIOUS
  <2> HIDE DEF D
  <2> QED
    BY <1>1, <1>2, <2>1, DownstreamLeast
<1>4. PICK n \in Needs[s] : n \in {a} \cup Downstream(a, Step)
  BY <1>3
<1> QED
  BY <1>1, <1>4 DEF Up, Ancestors

\* A path through C stays where C stays in the plan.
LEMMA DownstreamWithin ==
  ASSUME NEW r \in Step, NEW plan \in SUBSET Step, NEW C \in SUBSET Step,
         C \cap Downstream(r, Step) \subseteq plan,
         NEW b \in {r} \cup Downstream(r, plan)
  PROVE  Downstream(b, C) \subseteq Downstream(r, plan)
<1> DEFINE D == Downstream(r, plan) \cap C
<1>1. Dependents({b} \cup D, C) \subseteq D
  <2> SUFFICES ASSUME NEW d \in C, NEW x \in Needs[d], x \in {b} \cup D
               PROVE  d \in Downstream(r, plan)
    BY DEF Dependents
  <2>1. x \in {r} \cup Downstream(r, Step)
    BY DownstreamGrows
  <2>2. d \in plan
    BY <2>1, DownstreamClosed
  <2> QED
    BY <2>2, DownstreamClosed
<1>2. D \in SUBSET C
  OBVIOUS
<1>3. Downstream(b, C) \subseteq D
  <2> HIDE DEF D
  <2> QED
    BY <1>1, <1>2, DownstreamLeast
<1> QED
  BY <1>3

LEMMA DownstreamMore ==
  ASSUME NEW b, NEW C, NEW E, C \subseteq E
  PROVE  Downstream(b, C) \subseteq Downstream(b, E)
<1> DEFINE D == Downstream(b, E) \cap C
<1>1. Dependents({b} \cup D, C) \subseteq D
  <2> SUFFICES ASSUME NEW d \in C, NEW x \in Needs[d], x \in {b} \cup D
               PROVE  d \in Downstream(b, E)
    BY DEF Dependents
  <2> QED
    BY DownstreamClosed
<1>2. Downstream(b, C) \subseteq D
  <2>1. D \in SUBSET C
    OBVIOUS
  <2> HIDE DEF D
  <2> QED
    BY <1>1, <2>1, DownstreamLeast
<1> QED
  BY <1>2

\* A head is what its stages descend from.
LEMMA HeadUp ==
  ASSUME Inv, Active, NEW h \in launch.walk, ~Absorbed(h), NEW n \in Members(h)
  PROVE  n \in {h} \cup Downstream(h, launch.plan) /\ h \in Up(n)
<1>1. h \in Step /\ n \in Step /\ launch.plan \in SUBSET Step
  BY WalkSteps, MembersInWalk DEF Inv
<1>2. n \in {h} \cup Downstream(h, launch.plan)
  BY MembersDownstream
<1> QED
  BY <1>1, <1>2, DownstreamGrows DEF Up, Ancestors

\* The stages of a chain are handed no documents.
LEMMA AbsorbedCollects ==
  ASSUME NEW a, Absorbed(a)
  PROVE  Collects[a] = {}
  BY ChainCollects DEF Absorbed

LEMMA NoChange ==
  ASSUME Kept, NEW a \in Step, Collects[a] = {}
  PROVE  delivered[a] = {} /\ ~CollectedChanged(a)
  BY DEF Kept, CollectedChanged

\* What is no longer answered for is not answered for again.
LEMMA SettledBefore ==
  ASSUME excused \subseteq excused', unsettled \subseteq unsettled', NEW s, Settled(s)'
  PROVE  Settled(s)
<1>1. NotAnswered \subseteq NotAnswered'
  BY DEF NotAnswered, Ancestors, Downstream, Dependents
<1>2. Up(s)' = Up(s)
  BY DEF Up, Ancestors, Downstream, Dependents
<1> QED
  BY <1>1, <1>2 DEF Settled

LEMMA SettledNeeds ==
  ASSUME NEW s \in Step, Settled(s), NEW n \in Up(s)
  PROVE  /\ Settled(n) /\ n \in Step /\ n \notin NotAnswered
         /\ n \notin excused /\ n \notin unsettled /\ n \notin Rollup
  BY UpParts DEF Settled, NotAnswered

LEMMA CarriedParts ==
  ASSUME NEW t \in Task, Contents(t), NEW b \in Carried(t)
  PROVE  b \in Up(t[1])
<1>1. PICK w \in Nat : w # 0 /\ <<b, w, {}>> \in made[t]
  BY DEF Carried, Carries
<1> QED
  BY <1>1 DEF Contents

-----------------------------------------------------------------------------

LEMMA SourcesFrame ==
  ASSUME NEW t \in Task, Sources(t), made'[t] = made[t],
         \A a \in Carried(t) : \A u \in Collects[a] : \A O \in SUBSET Item :
           Reports(a, u, O) => Reports(a, u, O)',
         \A b \in Carried(t) : \A w \in Nat :
           w # 0 /\ <<b, w, {}>> \in made[t] /\ Held(b, w) => Held(b, w)'
  PROVE  Sources(t)'
<1>1. /\ \A s : Up(s)' = Up(s)
      /\ \A b : Carries(t, b)' <=> Carries(t, b)
  BY DEF Up, Ancestors, Downstream, Dependents, Carries
<1>2. Carried(t)' = Carried(t)
  BY <1>1 DEF Carried
<1>3. Contents(t)'
  <2> SUFFICES ASSUME NEW x \in made[t],
                      ~ \E b \in Up(t[1]) : \E w \in Nat : w # 0 /\ x = <<b, w, {}>>
               PROVE  \E a \in Carried(t) : \E u \in Collects[a] : \E O \in SUBSET Item :
                        x = <<u, 0, O>> /\ Reports(a, u, O)'
    BY <1>1, <1>2 DEF Contents
  <2> QED
    BY DEF Sources, Contents
<1>4. Covered(t)'
  BY <1>1 DEF Sources, Covered
<1>5. Linked(t)'
  BY <1>2 DEF Sources, Linked, Downstream, Dependents
<1>6. Versions(t)'
  BY DEF Sources, Versions, Carried, Carries
<1> QED
  BY <1>3, <1>4, <1>5, <1>6 DEF Sources

LEMMA HeldFrame ==
  ASSUME NEW b, NEW w, Held(b, w), UNCHANGED version,
         \A u \in Tasks(b) : hash'[u] = hash[u] /\ (Recorded(u)' <=> Recorded(u))
  PROVE  Held(b, w)'
<1>1. Tasks(b)' = Tasks(b)
  BY DEF Tasks
<1> QED
  BY <1>1 DEF Held, Noticed

\* What does not touch the files but to end tasks, and forgets nothing that is unsettled.
LEMMA StillSound ==
  ASSUME Sound, excused \subseteq excused', unsettled \subseteq unsettled',
         UNCHANGED <<version, hash, delivered>>,
         \A u \in Task : Recorded(u)' <=> Recorded(u),
         \A t \in Task : Firm(t)' => Firm(t) /\ made'[t] = made[t],
         \A t \in Task : Active' /\ Firm(t)' /\ Firm(t) /\ Sources(t) /\ (Active => Standing(t))
                           => Standing(t)'
  PROVE  Sound'
<1> SUFFICES ASSUME NEW t \in Task, Firm(t)' PROVE Sources(t)' /\ (Active' => Standing(t)')
  BY DEF Sound
<1>1. Firm(t) /\ Sources(t) /\ made'[t] = made[t] /\ (Active => Standing(t))
  BY DEF Sound
<1>2. \A b, w : Held(b, w) => Held(b, w)'
  BY HeldFrame DEF Tasks
<1>3. \A a, u, O : Reports(a, u, O) => Reports(a, u, O)'
  BY DEF Reports
<1>4. Sources(t)'
  BY <1>1, <1>2, <1>3, SourcesFrame
<1> QED
  BY <1>1, <1>4

LEMMA SoundLaunch ==
  ASSUME TypeOK, Quiet, Sound, Ledger, NEW o \in Option, Launch(o)
  PROVE  Sound' /\ Ledger'
<1>1. /\ ~Active /\ cascade.tasks = {} /\ launch' = o /\ runnable' = {} /\ cascade'.tasks = {}
      /\ rec' = Reconciled /\ outcome' = "none" /\ o.walk \subseteq Step
      /\ UNCHANGED <<version, hash, made, delivered, overridden>>
      /\ excused \subseteq excused' /\ unsettled' = unsettled \cup LeftBehind(o)
      /\ o.skip \subseteq excused'
  BY OptionAssumption DEF Launch, Quiet, Active, NoCascade
<1>2. \A t \in Task : (Recorded(t)' <=> Recorded(t)) /\ (Done(t)' => Done(t))
  BY <1>1 DEF Recorded, Done, Reconciled
<1>3. \A s \in o.walk : st'[s].state = "pending"
  BY <1>1 DEF Launch, Entered, Entry
<1>4. \A t \in Task : Firm(t)' => Firm(t) /\ made'[t] = made[t]
  BY <1>1, <1>2, SettledBefore DEF Firm
<1>5. \A t \in Task : Standing(t)'
  BY <1>1, <1>3 DEF Standing, Ruled
<1>6. Sound'
  BY <1>1, <1>2, <1>4, <1>5, StillSound
<1>7. ASSUME NEW s \in Step \ o.plan, NEW a \in o.walk, s \in Downstream(a, Step),
             NEW t \in Tasks(s), Recorded(t)'
      PROVE  s \in unsettled'
  <2>1. t \in Tasks(s) /\ rec[t] \notin {"none", "stale"}
    BY <1>2, <1>7 DEF Recorded, Tasks
  <2> QED
    BY <1>1, <1>7, <2>1 DEF LeftBehind
<1>8. \A t \in Task : hash'[t] <= version'[t[1]]
  BY <1>1 DEF Ledger
<1>9. \A s : Tasks(s)' = Tasks(s) /\ \A a : (s \in Downstream(a, Step)') <=> s \in Downstream(a, Step)
  BY DEF Tasks, Downstream, Dependents
<1>10. launch'.walk = Step => \A a \in Step : st'[a].state # "completed"
  BY <1>1, <1>3
<1>11. overridden' \cup launch'.skip \subseteq excused'
  BY <1>1 DEF Ledger
<1>12. Ledger'
  BY <1>1, <1>7, <1>8, <1>9, <1>10, <1>11 DEF Ledger
<1> QED
  BY <1>6, <1>12

\* Of what t comes from, an invalidation that spares t renames nothing.
LEMMA Untouched ==
  ASSUME Inv, Active, Ledger, NEW s \in launch.walk,
         NEW keep \in BOOLEAN, keep => Collects[s] # {},
         NEW t \in Task, Settled(t[1]), Done(t), Sources(t), t \notin ToInvalidate(s, keep),
         NEW b \in Carried(t)
  PROVE  b \notin {s} \cup Downstream(s, launch.plan)
<1> SUFFICES ASSUME b \in {s} \cup Downstream(s, launch.plan) PROVE FALSE
  OBVIOUS
<1>1. s \in Step /\ launch.plan \in SUBSET Step /\ t[1] \in Step /\ Carried(t) \in SUBSET Step
  BY WalkSteps, TaskParts DEF Inv, Carried
<1>2. ASSUME NEW c \in Carried(t), c \in Downstream(s, Step) PROVE c \in launch.plan
  <2>1. c \in Up(t[1])
    BY <1>2, CarriedParts DEF Sources
  <2>2. c \notin unsettled /\ c \in Step
    BY <1>1, <2>1, SettledNeeds
  <2>3. \E u \in Tasks(c) : Recorded(u)
    BY <1>1, <1>2 DEF Sources, Versions, Carried, Carries, Held
  <2> QED
    BY <1>2, <2>2, <2>3 DEF Ledger
<1>3. Downstream(b, Carried(t)) \subseteq Downstream(s, launch.plan)
  BY <1>1, <1>2, DownstreamWithin
<1>4. t[1] \in {s} \cup Downstream(s, launch.plan)
  BY <1>3 DEF Sources, Linked
<1>5. keep /\ t[1] \in Mapped /\ t[1] # s
  BY <1>4 DEF ToInvalidate, Done
<1>6. s \in Ancestors(t[1])
  BY <1>1, <1>4, <1>5, DownstreamGrows DEF Ancestors
<1>7. t[1] \in NotAnswered
  BY <1>5, <1>6 DEF NotAnswered
<1> QED
  BY <1>1, <1>7, UpParts DEF Settled

\* Where the recorded hash of s is the present one, or there is none, s was not edited
\* since its output was last consumed.
LEMMA Unnoticed ==
  ASSUME Active, Decided, NEW s \in left \ judged, ~Absorbed(s), NEW w, Held(s, w),
         NEW h \in RecordedHashes(s), h \in {0, version[s]}
  PROVE  w = version[s]
<1> DEFINE found == {hash[t] : t \in {u \in Tasks(s) : rec[u] \notin {"none", "stale"}}} \ {0}
<1>1. mirror[s].hash = 0
  BY DEF Decided
<1>2. found # {}
  BY DEF Held, Recorded
<1>3. h \in found
  BY <1>1, <1>2 DEF RecordedHashes
<1>4. PICK u \in Tasks(s) : Recorded(u) /\ hash[u] = h /\ h # 0
  BY <1>3 DEF Recorded
<1>5. ~Noticed(s)
  BY <1>4 DEF Noticed
<1> QED
  BY <1>5 DEF Held

\* The later stages of a chain are not answered for when they are edited.
LEMMA StageHeld ==
  ASSUME NEW h, NEW m \in Members(h), m # h, m \notin NotAnswered, NEW w, Held(m, w)
  PROVE  w = version[m]
<1>1. Before(h, m)
  BY DEF Members
<1>2. PICK c \in Chain : \E i, j \in DOMAIN c : i < j /\ c[j] = m
  BY <1>1 DEF Before
<1>3. PICK i, j \in DOMAIN c : i < j /\ c[j] = m
  BY <1>2
<1>4. j > 1
  BY <1>3, ChainParts
<1>5. m \notin Editable
  BY <1>3, <1>4 DEF NotAnswered
<1> QED
  BY <1>5 DEF Held, Noticed

LEMMA StandingFrame ==
  ASSUME NEW t \in Task, Versions(t), Standing(t), launch' = launch, version' = version,
         made'[t] = made[t], runnable' \subseteq Step,
         \A b \in Carried(t) : Ruled(b)' =>
           Ruled(b) \/ \A w \in Nat : w # 0 /\ <<b, w, {}>> \in made[t] => w = version[b],
         \A a \in runnable' \cap Carried(t) :
           st'[a].state = "pending" /\ CollectedChanged(a)' =>
             a \in runnable /\ st[a].state = "pending" /\ CollectedChanged(a),
         cascade'.tasks # {} =>
           \/ cascade.tasks # {} /\ cascade'.root = cascade.root
           \/ \A b \in Carried(t) :
                b \notin {cascade'.root} \cup Downstream(cascade'.root, launch.plan)
  PROVE  Standing(t)'
<1>1. \A b : Carries(t, b)' <=> Carries(t, b)
  BY DEF Carries
<1>2. Carried(t)' = Carried(t)
  BY <1>1 DEF Carried
<1>3. ASSUME NEW b \in Step, NEW w \in Nat, w # 0, <<b, w, {}>> \in made'[t], Ruled(b)'
      PROVE  w = version'[b]
  <2>1. b \in Carried(t)
    BY <1>3 DEF Carried, Carries
  <2> QED
    BY <1>3, <2>1 DEF Standing
<1>4. ASSUME NEW a \in runnable', st'[a].state = "pending", Carries(t, a)'
      PROVE  ~CollectedChanged(a)'
  <2>1. a \in Carried(t) /\ Carries(t, a)
    BY <1>1, <1>4 DEF Carried
  <2> QED
    BY <1>4, <2>1 DEF Standing
<1>5. ASSUME cascade'.tasks # {}, NEW b \in Carried(t)
      PROVE  b \notin {cascade'.root} \cup Downstream(cascade'.root, launch.plan)
  <2>1. CASE cascade.tasks # {} /\ cascade'.root = cascade.root
    BY <1>5, <2>1 DEF Standing
  <2> QED
    BY <1>5, <2>1
<1>6. \A r : Downstream(r, launch.plan)' = Downstream(r, launch.plan)
  BY DEF Downstream, Dependents
<1>7. \A b \in Carried(t)' : cascade'.tasks # {} =>
        b \notin {cascade'.root} \cup Downstream(cascade'.root, launch'.plan)
  BY <1>2, <1>5
<1> QED
  BY <1>3, <1>4, <1>7 DEF Standing, Downstream, Dependents

LEMMA LedgerFrame ==
  ASSUME Active, Ledger, launch' = launch,
         \A t \in Task : hash'[t] <= version'[t[1]],
         UNCHANGED <<overridden, outcome>>,
         excused \subseteq excused', unsettled \subseteq unsettled',
         \A t \in Task : t[1] \notin launch.plan /\ Recorded(t)' => Recorded(t),
         launch.walk = Step =>
           \A a \in Step \ excused :
             st'[a].state = "completed" => delivered'[a] \in {{}, Digest(a)'}
  PROVE  Ledger'
<1>1. \A s : Tasks(s)' = Tasks(s) /\ \A t \in Tasks(s) : t \in Task /\ t[1] = s
  BY DEF Tasks
<1>2. \A s, a : (s \in Downstream(a, Step))' <=> s \in Downstream(a, Step)
  BY DEF Downstream, Dependents
<1>3. ASSUME NEW s \in Step \ launch.plan, NEW a \in launch.walk, s \in Downstream(a, Step),
             NEW t \in Tasks(s), Recorded(t)'
      PROVE  s \in unsettled'
  BY <1>1, <1>3 DEF Ledger
<1>4. overridden' \cup launch'.skip \subseteq excused'
  BY DEF Ledger
<1>5. outcome' = "none"
  BY DEF Ledger
<1> QED
  BY <1>1, <1>2, <1>3, <1>4, <1>5 DEF Ledger

LEMMA SoundPassOver ==
  ASSUME Inv, Sound, Ledger, NEW s \in Step, PassOver(s)
  PROVE  Sound' /\ Ledger'
<1>1. /\ Active /\ s \notin runnable /\ launch' = launch /\ runnable \subseteq Step
      /\ UNCHANGED <<version, overridden, rec, hash, made, delivered, runnable, cascade>>
      /\ UNCHANGED <<excused, unsettled, outcome>>
  BY WalkSteps DEF PassOver, CanJudge, Judged, Active, Inv, disk, ghost
<1>2. /\ \A m \in Step : m # s => st'[m] = st[m]
      /\ st'[s].state = "completed" => st[s].state = "completed" \/ s \in excused
  <2>1. ASSUME NEW x, Judged(s, Entry(x)), x # "completed" \/ s \in excused
        PROVE  /\ \A m \in Step : m # s => st'[m] = st[m]
               /\ st'[s].state = "completed" => s \in excused
    BY <2>1 DEF Judged, Entry, Inv, TypeOK, Entries
  <2>2. s \in overridden => s \in excused
    BY DEF Ledger
  <2> QED
    BY <2>1, <2>2 DEF PassOver
<1>3. /\ \A m : Members(m)' = Members(m)
      /\ \A a : (CollectedChanged(a)' <=> CollectedChanged(a)) /\ Digest(a)' = Digest(a)
  BY <1>1, Fixed DEF CollectedChanged, Digest
<1>4. ASSUME NEW t \in Task, Firm(t), Sources(t), Standing(t) PROVE Standing(t)'
  <2>1. ASSUME NEW b \in Carried(t), Ruled(b)' PROVE Ruled(b)
    <3>1. b \in Step /\ b \notin excused
      BY <1>4, TaskParts, CarriedParts, SettledNeeds DEF Sources, Firm
    <3> QED
      BY <1>1, <1>2, <1>3, <2>1, <3>1 DEF Ruled
  <2> QED
    BY <1>1, <1>2, <1>3, <1>4, <2>1, StandingFrame DEF Sources
<1>5. Sound'
  <2>1. \A t \in Task : (Recorded(t)' <=> Recorded(t)) /\ (Done(t)' <=> Done(t))
    BY <1>1 DEF Recorded, Done
  <2>2. \A t \in Task : Firm(t)' => Firm(t)
    BY <1>1, <2>1, SettledBefore DEF Firm
  <2> QED
    BY <1>1, <1>4, <2>1, <2>2, StillSound
<1>6. Ledger'
  <2>1. \A t \in Task : hash'[t] <= version'[t[1]]
    BY <1>1 DEF Ledger
  <2>2. \A t \in Task : Recorded(t)' => Recorded(t)
    BY <1>1 DEF Recorded
  <2> QED
    BY <1>1, <1>2, <1>3, <2>1, <2>2, LedgerFrame DEF Ledger
<1> QED
  BY <1>5, <1>6

\* A step is to run, after the invalidation T: what T spares of it is of its definition,
\* and computed from its documents.
LEMMA SoundRun ==
  ASSUME Inv, Kept, Decided, Sound, Ledger, NEW s \in Step, Consider(s), NEW T,
         WillRun(s, T),
         \/ \E keep \in BOOLEAN : T = ToInvalidate(s, keep) /\ (keep => Collects[s] # {})
         \/ /\ T = {} /\ ~CollectedChanged(s)
            /\ \E h \in RecordedHashes(s) : h \in {0, version[s]}
  PROVE  Sound' /\ Ledger'
<1>1. /\ Active /\ s \in left \ judged /\ s \in launch.walk /\ ~Absorbed(s) /\ cascade.tasks = {}
      /\ launch' = launch /\ runnable' = runnable \cup {s} /\ st' = st /\ runnable \subseteq Step
      /\ cascade'.root = s /\ cascade'.tasks = T
      /\ UNCHANGED <<version, overridden, rec, hash, made, delivered>>
      /\ UNCHANGED <<excused, unsettled, outcome>>
  BY WalkSteps DEF Consider, Considered, CanJudge, WillRun, Active, Inv, Level, disk, ghost
<1>2. /\ \A m : Members(m)' = Members(m)
      /\ \A a : (CollectedChanged(a)' <=> CollectedChanged(a)) /\ Digest(a)' = Digest(a)
  BY <1>1, Fixed DEF CollectedChanged, Digest
<1>3. \A t \in Task : (Recorded(t)' <=> Recorded(t)) /\ (Done(t)' <=> Done(t))
  BY <1>1 DEF Recorded, Done
<1>4. ASSUME NEW t \in Task, Firm(t)', Firm(t), Sources(t), Standing(t) PROVE Standing(t)'
  <2>1. t[1] \in Step /\ t \notin T
    BY <1>1, <1>4, TaskParts DEF Firm
  <2>2. ASSUME NEW b \in Carried(t), Ruled(b)', ~Ruled(b)
        PROVE  b \in Members(s) /\ b \in {s} \cup Downstream(s, launch.plan)
    <3>1. b \in Members(s)
      BY <1>1, <1>2, <2>2 DEF Ruled
    <3> QED
      BY <1>1, <3>1, HeadUp
  <2>3. ASSUME NEW keep \in BOOLEAN, T = ToInvalidate(s, keep), keep => Collects[s] # {}
        PROVE  Standing(t)'
    <3>1. \A b \in Carried(t) : b \notin {s} \cup Downstream(s, launch.plan)
      BY <1>1, <1>4, <2>1, <2>3, Untouched DEF Firm
    <3> QED
      BY <1>1, <1>2, <1>4, <2>2, <3>1, StandingFrame DEF Sources
  <2>4. ASSUME T = {}, ~CollectedChanged(s), NEW h \in RecordedHashes(s), h \in {0, version[s]}
        PROVE  Standing(t)'
    <3>1. ASSUME NEW b \in Carried(t), Ruled(b)', ~Ruled(b),
                 NEW w \in Nat, w # 0, <<b, w, {}>> \in made[t]
          PROVE  w = version[b]
      <4>1. b \in Members(s) /\ b \in Step /\ Held(b, w)
        BY <1>4, <2>2, <3>1 DEF Sources, Versions, Carried
      <4>2. CASE b = s
        BY <1>1, <2>4, <4>1, <4>2, Unnoticed
      <4>3. CASE b # s
        <5>1. b \notin NotAnswered
          BY <1>4, <2>1, CarriedParts, SettledNeeds DEF Sources, Firm
        <5> QED
          BY <4>1, <4>3, <5>1, StageHeld
      <4> QED
        BY <4>2, <4>3
    <3> QED
      BY <1>1, <1>2, <1>4, <2>4, <3>1, StandingFrame DEF Sources
  <2> QED
    BY <2>3, <2>4
<1>5. Sound'
  <2>1. \A t \in Task : Firm(t)' => Firm(t)
    BY <1>1, <1>3, SettledBefore DEF Firm
  <2> QED
    BY <1>1, <1>3, <1>4, <2>1, StillSound
<1>6. Ledger'
  <2>1. \A t \in Task : hash'[t] <= version'[t[1]]
    BY <1>1 DEF Ledger
  <2> QED
    BY <1>1, <1>2, <1>3, <2>1, LedgerFrame DEF Ledger
<1> QED
  BY <1>5, <1>6

LEMMA SoundConsider ==
  ASSUME Inv, Kept, Decided, Sound, Ledger, NEW s \in Step, Consider(s)
  PROVE  Sound' /\ Ledger'
<1>1. CASE s \in launch.forced
  <2>1. WillRun(s, ToInvalidate(s, FALSE))
    BY <1>1 DEF Consider
  <2> QED
    BY <2>1, SoundRun
<1>2. CASE s \notin launch.forced /\ ~Heads(s) /\ CollectedChanged(s) /\ WillRun(s, ToInvalidate(s, TRUE))
  <2>1. Collects[s] # {}
    BY <1>2, NoChange
  <2> QED
    BY <1>2, <2>1, SoundRun
<1>3. ASSUME NEW h \in RecordedHashes(s), Heads(s) \/ ~CollectedChanged(s),
             WillRun(s, IF h \in {0, version[s]} THEN {} ELSE ToInvalidate(s, FALSE))
      PROVE  Sound' /\ Ledger'
  <2>1. ~CollectedChanged(s)
    BY <1>3, NoChange, ChainCollects DEF Heads
  <2>2. CASE h \in {0, version[s]}
    BY <1>3, <2>1, <2>2, SoundRun
  <2>3. CASE h \notin {0, version[s]}
    BY <1>3, <2>3, SoundRun
  <2> QED
    BY <2>2, <2>3
<1>4. ASSUME NEW h \in RecordedHashes(s), ~CollectedChanged(s), IsStepCompleted(s, h),
             Judged(s, [state |-> "completed", hash |-> prior[s].hash])
      PROVE  Sound' /\ Ledger'
  <2>1. /\ Active /\ s \in left \ judged /\ s \notin runnable /\ ~Absorbed(s) /\ launch' = launch
        /\ UNCHANGED <<version, overridden, rec, hash, made, delivered, runnable, cascade>>
        /\ UNCHANGED <<excused, unsettled, outcome>> /\ runnable \subseteq Step
        /\ \A m \in Step : m # s => st'[m] = st[m]
    BY <1>4, WalkSteps DEF Consider, Considered, CanJudge, Judged, Active, Inv, TypeOK, Level,
                           disk, ghost, Entries
  <2>2. /\ \A m : Members(m)' = Members(m)
        /\ \A a : (CollectedChanged(a)' <=> CollectedChanged(a)) /\ Digest(a)' = Digest(a)
    BY <2>1, Fixed DEF CollectedChanged, Digest
  <2>3. h \in {0, version[s]}
    BY <1>4 DEF IsStepCompleted
  <2>4. ASSUME NEW t \in Task, Sources(t), Standing(t) PROVE Standing(t)'
    <3>1. ASSUME NEW b \in Carried(t), Ruled(b)', ~Ruled(b),
                 NEW w \in Nat, w # 0, <<b, w, {}>> \in made[t]
          PROVE  w = version[b]
      <4>1. b = s
        BY <2>1, <2>2, <3>1 DEF Ruled, Carried
      <4>2. Held(s, w)
        BY <2>4, <3>1, <4>1 DEF Sources, Versions
      <4> QED
        BY <1>4, <2>1, <2>3, <4>1, <4>2, Unnoticed
    <3> QED
      BY <2>1, <2>2, <2>4, <3>1, StandingFrame DEF Sources
  <2>5. \A t \in Task : (Recorded(t)' <=> Recorded(t)) /\ (Done(t)' <=> Done(t))
    BY <2>1 DEF Recorded, Done
  <2>6. Sound'
    <3>1. \A t \in Task : Firm(t)' => Firm(t)
      BY <2>1, <2>5, SettledBefore DEF Firm
    <3> QED
      BY <2>1, <2>4, <2>5, <3>1, StillSound
  <2>7. Ledger'
    <3>1. \A t \in Task : hash'[t] <= version'[t[1]]
      BY <2>1 DEF Ledger
    <3>2. delivered[s] \in {{}, Digest(s)}
      BY <1>4 DEF CollectedChanged
    <3> QED
      BY <2>1, <2>2, <2>5, <3>1, <3>2, LedgerFrame DEF Ledger
  <2> QED
    BY <2>6, <2>7
<1> QED
  BY <1>1, <1>2, <1>3, <1>4 DEF Consider

\* What is complete and was handed documents needs nothing that is left.
LEMMA CompletedNeeds ==
  ASSUME Inv, Active, NEW a \in launch.walk, Collects[a] # {}, st[a].state = "completed"
  PROVE  Needs[a] \cap left = {}
<1>1. ~Absorbed(a) /\ HeadOk(a)
  BY AbsorbedCollects DEF Inv, Walked
<1>2. a \notin left \ judged
  BY <1>1 DEF HeadOk, StateOf
<1>3. a \in Past \/ a \in Level
  BY <1>2, WalkSteps DEF Inv, Past
<1> QED
  BY <1>3 DEF Inv, Placed, Level

\* In a whole walk, what changes the records of nothing such a step needs leaves its
\* documents what they are.
LEMMA DocumentsStay ==
  ASSUME Inv, Kept, Active, Ledger, UNCHANGED <<st, delivered>>, launch.walk = Step,
         NEW t \in Task, \A u \in Task : u # t => rec'[u] = rec[u],
         \A a \in launch.walk : Needs[a] \cap left = {} => t[1] \notin Needs[a],
         NEW a \in Step \ excused, st'[a].state = "completed"
  PROVE  delivered'[a] \in {{}, Digest(a)'}
<1>1. CASE Collects[a] = {}
  BY <1>1, NoChange
<1>2. CASE Collects[a] # {}
  <2>1. t[1] \notin Needs[a]
    BY <1>2, CompletedNeeds
  <2>2. ASSUME NEW u \in Collects[a], NEW k \in Item PROVE rec'[<<u, k>>] = rec[<<u, k>>]
    <3>1. u \in Needs[a] /\ u \in Mapped /\ u \in Step
      BY <2>2, StepAssumption
    <3>2. <<u, k>> \in Task /\ <<u, k>> # t
      BY <2>1, <3>1, TaskParts DEF Keys
    <3> QED
      BY <3>2
  <2>3. Digest(a)' = Digest(a)
    BY <2>2, SameDigest
  <2> QED
    BY <2>3 DEF Ledger
<1> QED
  BY <1>1, <1>2

LEMMA SoundRename ==
  ASSUME Inv, Quiet, Kept, Sound, Ledger, NEW r \in Task, Rename(r)
  PROVE  Sound' /\ Ledger'
<1>1. /\ Active /\ Active' /\ launch' = launch /\ r \in cascade.tasks /\ cascade.tasks # {}
      /\ rec' = [rec EXCEPT ![r] = "stale"] /\ rec \in [Task -> Records]
      /\ UNCHANGED <<version, overridden, hash, made, delivered, st, runnable>>
      /\ UNCHANGED <<excused, unsettled, outcome>>
      /\ cascade'.root = cascade.root /\ cascade'.tasks = cascade.tasks \ {r}
      /\ runnable \subseteq Level /\ Level \subseteq Step /\ runnable \subseteq launch.walk
      /\ r[1] \in {cascade.root} \cup Downstream(cascade.root, launch.plan)
  BY WalkSteps DEF Rename, Quiet, Active, Inv, TypeOK, Placed, ghost
<1>2. \A u \in Task : u # r => rec'[u] = rec[u]
  BY <1>1
<1>3. \A a \in launch.walk : Needs[a] \cap left = {} => r[1] \notin Needs[a]
  BY <1>1, RenameKeepsNeeds
<1>4. ASSUME NEW a \in runnable PROVE CollectedChanged(a)' <=> CollectedChanged(a)
  <2>1. Needs[a] \cap left = {} /\ a \in launch.walk /\ a \in Step
    BY <1>1 DEF Level
  <2>2. r[1] \notin Collects[a]
    BY <1>3, <2>1, StepAssumption
  <2>3. ASSUME NEW u \in Collects[a], NEW k \in Item PROVE rec'[<<u, k>>] = rec[<<u, k>>]
    <3>1. <<u, k>> # r
      BY <2>2, <2>3
    <3> QED
      BY <1>1, <3>1
  <2> QED
    BY <1>1, <2>1, <2>3, SameDigest
<1>5. ASSUME NEW t \in Task, Firm(t)' PROVE Sources(t)' /\ Standing(t)'
  <2>1. t # r
    BY <1>1, <1>5 DEF Firm, Done
  <2>2. Firm(t)
    BY <1>1, <1>2, <1>5, <2>1, SettledBefore DEF Firm, Done
  <2>3. Sources(t) /\ Standing(t)
    BY <1>1, <2>2 DEF Sound
  <2>4. ASSUME NEW b \in Carried(t), NEW w \in Nat, Held(b, w) PROVE Held(b, w)'
    <3>1. \A u \in Tasks(b) : u # r /\ u \in Task
      BY <1>1, <2>3, <2>4 DEF Standing, Tasks
    <3> QED
      BY <1>1, <1>2, <2>4, <3>1, HeldFrame DEF Recorded
  <2>5. Sources(t)'
    <3>1. \A a, u, O : Reports(a, u, O) => Reports(a, u, O)'
      BY <1>1 DEF Reports
    <3> QED
      BY <1>1, <2>3, <2>4, <3>1, SourcesFrame
  <2>6. \A b : Ruled(b)' <=> Ruled(b)
    BY <1>1, Fixed DEF Ruled
  <2>7. Standing(t)'
    BY <1>1, <1>4, <2>3, <2>6, StandingFrame DEF Sources
  <2> QED
    BY <2>5, <2>7
<1>6. Sound'
  BY <1>5 DEF Sound
<1>7. Ledger'
  <2>1. \A t \in Task : hash'[t] <= version'[t[1]]
    BY <1>1 DEF Ledger
  <2>2. \A t \in Task : Recorded(t)' => Recorded(t)
    BY <1>1 DEF Recorded
  <2>3. launch.walk = Step => \A a \in Step \ excused :
          st'[a].state = "completed" => delivered'[a] \in {{}, Digest(a)'}
    BY <1>1, <1>2, <1>3, DocumentsStay
  <2> QED
    BY <1>1, <2>1, <2>2, <2>3, LedgerFrame
<1> QED
  BY <1>6, <1>7

\* Steps that move the walk on without a record.
LEMMA SoundMove ==
  ASSUME Inv, Sound, Ledger, Active, launch' = launch,
         UNCHANGED <<version, overridden, rec, hash, made, delivered, cascade>>,
         UNCHANGED <<excused, unsettled, outcome>>,
         runnable' \subseteq runnable,
         \A b \in Step : Ruled(b)' => Ruled(b),
         \A a \in runnable' : st'[a].state = "pending" => st[a].state = "pending",
         \A a \in Step : launch.walk = Step /\ st'[a].state = "completed" /\ st[a].state # "completed"
                           => delivered[a] \in {{}, Digest(a)}
  PROVE  Sound' /\ Ledger'
<1>1. \A a : (CollectedChanged(a)' <=> CollectedChanged(a)) /\ Digest(a)' = Digest(a)
  BY DEF CollectedChanged, Digest
<1>2. \A t \in Task : (Recorded(t)' <=> Recorded(t)) /\ (Done(t)' <=> Done(t))
  BY DEF Recorded, Done
<1>3. runnable' \subseteq Step
  BY WalkSteps DEF Inv
<1>4. ASSUME NEW t \in Task, Sources(t), Standing(t) PROVE Standing(t)'
  BY <1>1, <1>3, <1>4, StandingFrame DEF Sources, Carried
<1>5. \A t \in Task : Firm(t)' => Firm(t)
  BY <1>2, SettledBefore DEF Firm
<1>6. Sound'
  BY <1>2, <1>4, <1>5, StillSound
<1>7. Ledger'
  <2>1. \A t \in Task : hash'[t] <= version'[t[1]]
    BY DEF Ledger
  <2>2. launch.walk = Step => \A a \in Step \ excused :
          st'[a].state = "completed" => delivered'[a] \in {{}, Digest(a)'}
    BY <1>1 DEF Ledger
  <2> QED
    BY <1>2, <2>1, <2>2, LedgerFrame
<1> QED
  BY <1>6, <1>7

LEMMA SoundGather ==
  ASSUME Inv, Sound, Ledger, Gather
  PROVE  Sound' /\ Ledger'
<1>1. /\ Active /\ launch' = launch
      /\ UNCHANGED <<version, overridden, rec, hash, made, delivered, cascade>>
      /\ UNCHANGED <<excused, unsettled, outcome, runnable, st>>
  BY DEF Gather, Active, disk, ghost
<1>2. \A b : Ruled(b)' <=> Ruled(b)
  BY <1>1, Fixed DEF Ruled
<1> QED
  BY <1>1, <1>2, SoundMove

LEMMA SoundEndStep ==
  ASSUME Inv, Kept, Decided, Sound, Ledger, NEW s \in Step, EndStep(s)
  PROVE  Sound' /\ Ledger'
<1>1. /\ Active /\ s \in runnable /\ ~Absorbed(s) /\ st[s].state = "running" /\ launch' = launch
      /\ UNCHANGED <<version, overridden, rec, hash, made, delivered, cascade>>
      /\ UNCHANGED <<excused, unsettled, outcome, runnable>> /\ s \in launch.walk
      /\ runnable \subseteq Step
  BY WalkSteps DEF EndStep, Running, walk, disk, Active, Inv, Placed
<1>2. \A m \in Step : st'[m] = IF m \in Members(s) THEN Ended(m) ELSE st[m]
  BY DEF EndStep
<1>3. ASSUME NEW b \in Step, Ruled(b)' PROVE Ruled(b)
  BY <1>1, <1>2, <1>3, Fixed DEF Ruled
<1>4. ASSUME NEW a \in runnable', st'[a].state = "pending" PROVE st[a].state = "pending"
  <2>1. Ended(a).state # "pending"
    BY DEF Ended, Entry
  <2> QED
    BY <1>1, <1>2, <1>4, <2>1
<1>5. ASSUME NEW a \in Step, st'[a].state = "completed", st[a].state # "completed"
      PROVE  delivered[a] \in {{}, Digest(a)}
  <2>1. a \in Members(s)
    BY <1>2, <1>5
  <2>2. CASE a = s
    BY <1>1, <2>2 DEF Decided
  <2>3. CASE Before(s, a)
    BY <2>3, ChainCollects, NoChange
  <2> QED
    BY <2>1, <2>2, <2>3 DEF Members
<1> QED
  BY <1>1, <1>3, <1>4, <1>5, SoundMove

\* The orchestrator ends or is gone: what was being invalidated or written is unsettled.
LEMMA SoundLeave ==
  ASSUME Inv, Sound, Ledger, Active, NEW how, Leave(how),
         UNCHANGED <<version, overridden, hash, delivered, excused>>,
         unsettled \subseteq unsettled',
         \A t \in Task : Recorded(t)' <=> Recorded(t),
         \A t \in Task : Firm(t)' => Firm(t) /\ made'[t] = made[t]
  PROVE  Sound' /\ Ledger'
<1>1. ~Active' /\ launch'.skip = {}
  BY DEF Leave, Active, NoLaunch
<1>2. Sound'
  BY <1>1, StillSound
<1>3. \A t \in Task : hash'[t] <= version'[t[1]]
  BY DEF Ledger
<1>4. overridden' \cup launch'.skip \subseteq excused'
  BY <1>1 DEF Ledger
<1> QED
  BY <1>1, <1>2, <1>3, <1>4 DEF Ledger

LEMMA SoundTurn ==
  ASSUME Inv, Sound, Ledger, Turn
  PROVE  Sound' /\ Ledger'
<1>1. Active
  BY DEF Turn, Gather, EndLevel, EndWalk, Active
<1>2. ASSUME EndLevel \/ EndWalk PROVE cascade.tasks = {}
  <2>1. CASE EndLevel
    BY <1>1, <2>1 DEF EndLevel, Inv, Placed
  <2>2. CASE EndWalk
    BY <1>1, <2>2, WalkSteps DEF EndWalk, Inv, Placed
  <2> QED
    BY <1>2, <2>1, <2>2
<1>3. ASSUME EndLevel \/ EndWalk, NEW how, Leave(how) PROVE Sound' /\ Ledger'
  <2>1. /\ UNCHANGED <<version, overridden, rec, hash, made, delivered, excused, unsettled>>
    BY <1>3 DEF EndLevel, EndWalk, disk, ghost
  <2>2. \A t \in Task : (Recorded(t)' <=> Recorded(t)) /\ (Done(t)' <=> Done(t))
    BY <2>1 DEF Recorded, Done
  <2>3. \A t \in Task : Firm(t)' => Firm(t)
    BY <1>2, <1>3, <2>1, <2>2, SettledBefore DEF Firm
  <2> QED
    BY <1>1, <1>3, <2>1, <2>2, <2>3, SoundLeave
<1>4. CASE EndLevel /\ UNCHANGED <<st, launch, cascade, outcome>> /\ runnable' = {}
  <2>1. UNCHANGED <<version, overridden, rec, hash, made, delivered, excused, unsettled>>
    BY <1>4 DEF EndLevel, disk, ghost
  <2>2. ASSUME NEW b \in Step, Ruled(b)' PROVE Ruled(b)
    BY <1>4, <2>2 DEF Ruled
  <2> QED
    BY <1>1, <1>4, <2>1, <2>2, SoundMove
<1>5. CASE EndLevel
  BY <1>3, <1>4, <1>5 DEF EndLevel
<1>6. CASE EndWalk
  BY <1>3, <1>6 DEF EndWalk
<1> QED
  BY <1>5, <1>6, SoundGather DEF Turn

LEMMA SoundStop ==
  ASSUME Inv, Sound, Ledger, Interrupt \/ \E cut : Crash(cut)
  PROVE  Sound' /\ Ledger'
<1>1. Active
  BY DEF Interrupt, Crash, Active
<1>2. CASE Interrupt
  <2>1. /\ UNCHANGED <<version, overridden, hash, made, delivered, excused, unsettled>>
        /\ rec' = Reconciled /\ cascade.tasks = {} /\ Leave("failed")
    BY <1>1, <1>2 DEF Interrupt, Inv, Placed
  <2>2. \A t \in Task : (Recorded(t)' <=> Recorded(t)) /\ (Done(t)' => Done(t))
    BY <2>1 DEF Recorded, Done, Reconciled
  <2>3. \A t \in Task : Firm(t)' => Firm(t)
    BY <2>1, <2>2, SettledBefore DEF Firm
  <2> QED
    BY <1>1, <2>1, <2>2, <2>3, SoundLeave
<1>3. ASSUME NEW cut, Crash(cut) PROVE Sound' /\ Ledger'
  <2>1. /\ UNCHANGED <<version, overridden, hash, delivered, excused>> /\ Leave("crashed")
        /\ unsettled' = unsettled \cup {t[1] : t \in cascade.tasks \cup cut}
        /\ \A t \in Task : /\ rec'[t] = IF t \in cut THEN "completed" ELSE rec[t]
                           /\ made'[t] = IF t \in cut THEN Consumed(t) ELSE made[t]
                           /\ t \in cut => rec[t] = "running"
    BY <1>3 DEF Crash
  <2>2. \A t \in Task : Recorded(t)' <=> Recorded(t)
    BY <2>1 DEF Recorded
  <2>3. ASSUME NEW t \in Task, Firm(t)' PROVE Firm(t) /\ made'[t] = made[t]
    <3>1. Settled(t[1])' /\ Settled(t[1])
      BY <2>1, <2>3, SettledBefore DEF Firm
    <3>2. t[1] \notin unsettled'
      BY <3>1 DEF Settled, Up, NotAnswered
    <3>3. t \notin cut /\ t \notin cascade.tasks
      BY <2>1, <3>2
    <3> QED
      BY <2>1, <2>3, <3>1, <3>3 DEF Firm, Done
  <2> QED
    BY <1>1, <2>1, <2>2, <2>3, SoundLeave
<1> QED
  BY <1>2, <1>3

\* Between walks: what an edit makes stale is noticed by the records it leaves behind.
LEMMA SoundBetween ==
  ASSUME TypeOK, Quiet, Sound, Ledger, Between,
         \/ \E s \in Step : Edit(s) \/ Override(s)
         \/ \E t \in Task : LoseOutput(t)
  PROVE  Sound' /\ Ledger'
<1>1. /\ ~Active /\ ~Active' /\ cascade.tasks = {} /\ cascade' = cascade /\ launch' = launch
      /\ UNCHANGED <<rec, hash, delivered, unsettled>> /\ excused \subseteq excused'
  BY DEF Between, Active, Quiet, walk, Edit, Override, LoseOutput
<1>2. ASSUME NEW t \in Task, Done(t)' PROVE Done(t) /\ made'[t] = made[t]
  <2>1. made'[t] = made[t] \/ made'[t] = {}
    BY DEF Edit, Override, LoseOutput, TypeOK
  <2> QED
    BY <1>1, <1>2, <2>1 DEF Done
<1>3. \A t \in Task : Firm(t)' => Firm(t) /\ made'[t] = made[t]
  BY <1>1, <1>2, SettledBefore DEF Firm
<1>4. overridden' \cup launch'.skip \subseteq excused'
  BY <1>1 DEF Ledger, Edit, Override, LoseOutput
<1>5. CASE UNCHANGED version
  <2>1. Sound'
    BY <1>1, <1>3, <1>5, StillSound DEF Recorded
  <2> QED
    BY <1>1, <1>4, <1>5, <2>1 DEF Ledger
<1>6. ASSUME NEW s \in Step, Edit(s) PROVE Sound' /\ Ledger'
  <2>1. /\ s \in Editable /\ version' = [version EXCEPT ![s] = @ + 1]
        /\ version \in [Step -> Nat] /\ hash \in [Task -> Nat]
    BY <1>6 DEF Edit, TypeOK
  <2>2. \A t \in Task : hash[t] <= version[t[1]] /\ t[1] \in Step
    BY TaskParts DEF Ledger
  <2>3. \A t \in Task : hash'[t] <= version'[t[1]]
    BY <1>1, <2>1, <2>2
  <2>4. ASSUME NEW b \in Step, NEW w, Held(b, w) PROVE Held(b, w)'
    <3>1. Tasks(b)' = Tasks(b) /\ \A u \in Tasks(b) : u \in Task /\ u[1] = b
      BY DEF Tasks
    <3>2. \E u \in Tasks(b)' : Recorded(u)' /\ hash'[u] # 0
      BY <1>1, <2>4, <3>1 DEF Held, Recorded
    <3>3. CASE b = s
      <4>1. \A u \in Tasks(b) : hash'[u] # version'[b]
        BY <1>1, <2>1, <2>2, <3>1, <3>3
      <4> QED
        BY <2>1, <3>1, <3>2, <3>3, <4>1 DEF Held, Noticed
    <3>4. CASE b # s
      <4>1. version'[b] = version[b]
        BY <2>1, <3>4
      <4> QED
        BY <1>1, <2>4, <3>1, <3>2, <4>1 DEF Held, Noticed, Recorded
    <3> QED
      BY <3>3, <3>4
  <2>5. ASSUME NEW t \in Task, Firm(t)' PROVE Sources(t)'
    <3>1. Sources(t) /\ made'[t] = made[t]
      BY <1>3, <2>5 DEF Sound
    <3>2. \A a, u, O : Reports(a, u, O) => Reports(a, u, O)'
      BY <1>1 DEF Reports
    <3> QED
      BY <2>4, <3>1, <3>2, SourcesFrame DEF Carried
  <2> QED
    BY <1>1, <1>4, <2>3, <2>5 DEF Sound, Ledger
<1> QED
  BY <1>5, <1>6 DEF Override, LoseOutput

LEMMA SoundStartStep ==
  ASSUME Inv, Kept, Sound, Ledger, NEW s \in Step, StartStep(s)
  PROVE  Sound' /\ Ledger'
<1>1. /\ Active /\ Active' /\ s \in runnable /\ st[s].state = "pending" /\ launch' = launch
      /\ st' = [st EXCEPT ![s] = Entry("running")] /\ DOMAIN st = Step
      /\ delivered' = [delivered EXCEPT ![s] = Digest(s)] /\ DOMAIN delivered = Step
      /\ UNCHANGED <<version, overridden, rec, hash, made, runnable, cascade>>
      /\ UNCHANGED <<excused, unsettled, outcome>> /\ runnable \subseteq Step
  BY WalkSteps DEF StartStep, walk, ghost, Active, Inv, TypeOK, Entries
<1>2. /\ \A a \in Step : a # s => st'[a] = st[a] /\ delivered'[a] = delivered[a]
      /\ st'[s].state = "running" /\ delivered'[s] = Digest(s)
      /\ \A a : Digest(a)' = Digest(a)
  BY <1>1 DEF Entry, Digest
<1>3. \A b \in Step : Ruled(b)' => Ruled(b)
  BY <1>1, <1>2, Fixed DEF Ruled
<1>4. \A t \in Task : (Recorded(t)' <=> Recorded(t)) /\ (Firm(t)' => Firm(t))
  BY <1>1, SettledBefore DEF Recorded, Firm, Done
<1>5. ASSUME NEW t \in Task, Sources(t), Standing(t) PROVE Sources(t)' /\ Standing(t)'
  <2>1. ASSUME NEW a \in Carried(t), NEW u \in Collects[a], NEW O, Reports(a, u, O)
        PROVE  Reports(a, u, O)'
    <3>1. a \in Step
      BY DEF Carried
    <3>2. delivered'[a] = delivered[a]
      <4>1. CASE a = s
        <5>1. ~CollectedChanged(s)
          BY <1>1, <1>5, <4>1 DEF Standing, Carried
        <5>2. delivered[s] # {}
          BY <2>1, <4>1 DEF Reports
        <5> QED
          BY <1>2, <4>1, <5>1, <5>2 DEF CollectedChanged
      <4> QED
        BY <1>2, <3>1, <4>1
    <3> QED
      BY <2>1, <3>2 DEF Reports
  <2>2. \A b, w : Held(b, w) => Held(b, w)'
    BY <1>1, <1>4, HeldFrame DEF Tasks
  <2>3. Sources(t)'
    BY <1>1, <1>5, <2>1, <2>2, SourcesFrame
  <2>4. \A a \in runnable' : st'[a].state = "pending" /\ CollectedChanged(a)' =>
          st[a].state = "pending" /\ CollectedChanged(a)
    BY <1>1, <1>2 DEF CollectedChanged
  <2>5. Standing(t)'
    BY <1>1, <1>3, <1>5, <2>4, StandingFrame DEF Sources, Carried
  <2> QED
    BY <2>3, <2>5
<1>6. Sound'
  BY <1>1, <1>4, <1>5 DEF Sound
<1>7. Ledger'
  <2>1. \A t \in Task : hash'[t] <= version'[t[1]]
    BY <1>1 DEF Ledger
  <2>2. ASSUME launch.walk = Step, NEW a \in Step \ excused, st'[a].state = "completed"
        PROVE  delivered'[a] \in {{}, Digest(a)'}
    <3>1. a # s
      BY <1>2, <2>2
    <3> QED
      BY <1>1, <1>2, <2>2, <3>1 DEF Ledger
  <2> QED
    BY <1>1, <1>4, <2>1, <2>2, LedgerFrame
<1> QED
  BY <1>6, <1>7

\* While a task of r's step runs, or is refused, what else is to be answered for stands.
LEMMA OthersStand ==
  ASSUME Inv, Decided, Sound, phase = "running", NEW r \in Task, NEW g \in runnable,
         st[g].state = "running", r[1] \in Members(g),
         NEW state, NEW output, NEW h, Record(r, state, output, h), h \in {hash[r], version[r[1]]},
         state \notin {"none", "stale"} \/ state = rec[r],
         NEW t \in Task, t # r, Firm(t)
  PROVE  Sources(t)' /\ Standing(t)'
<1>1. /\ Active /\ launch' = launch /\ cascade.tasks = {} /\ cascade' = cascade
      /\ UNCHANGED <<version, delivered, st, runnable, left>> /\ runnable \subseteq Level
      /\ Level \subseteq Step /\ r[1] \in Step /\ version[r[1]] # 0 /\ Level \subseteq launch.walk
      /\ rec \in [Task -> Records]
  BY WalkSteps, TaskParts DEF Record, Active, Inv, Placed, TypeOK
<1>2. /\ \A u \in Task : u # r => rec'[u] = rec[u] /\ hash'[u] = hash[u] /\ made'[u] = made[u]
      /\ rec'[r] = state /\ hash'[r] = h
      /\ \A m, k : <<m, k>> # r => rec'[<<m, k>>] = rec[<<m, k>>]
  BY DEF Record, Inv, TypeOK
<1>3. Sources(t) /\ Standing(t)
  BY <1>1 DEF Sound
<1>4. ASSUME NEW b \in Carried(t), NEW w \in Nat, w # 0, <<b, w, {}>> \in made[t], Held(b, w)
      PROVE  Held(b, w)'
  <2>1. b \in Step /\ Tasks(b)' = Tasks(b) /\ \A u \in Tasks(b) : u \in Task
    BY DEF Carried, Tasks
  <2>2. CASE r \notin Tasks(b)
    BY <1>1, <1>2, <1>4, <2>1, <2>2, HeldFrame DEF Recorded
  <2>3. CASE r \in Tasks(b)
    <3>1. r[1] = b
      BY <2>3 DEF Tasks
    <3>2. Ruled(b)
      BY <1>1, <3>1, MembersInWalk DEF Ruled
    <3>3. w = version'[b]
      BY <1>1, <1>3, <1>4, <2>1, <3>2 DEF Standing
    <3>4. PICK u \in Tasks(b) : Recorded(u) /\ hash[u] # 0
      BY <1>4 DEF Held
    <3>5. Recorded(u)' /\ hash'[u] # 0
      BY <1>1, <1>2, <2>1, <3>1, <3>4 DEF Recorded
    <3> QED
      BY <2>1, <3>3, <3>4, <3>5 DEF Held
  <2> QED
    BY <2>2, <2>3
<1>5. Sources(t)'
  <2>1. \A a, u, O : Reports(a, u, O) => Reports(a, u, O)'
    BY <1>1 DEF Reports
  <2> QED
    BY <1>2, <1>3, <1>4, <2>1, SourcesFrame
<1>6. ASSUME NEW a \in runnable PROVE CollectedChanged(a)' <=> CollectedChanged(a)
  <2>1. ASSUME NEW u \in Collects[a], NEW k \in Item PROVE rec'[<<u, k>>] = rec[<<u, k>>]
    <3>1. <<u, k>> # r
      BY <1>1, StepAssumption, RunKeepsNeeds DEF Level
    <3> QED
      BY <1>2, <3>1
  <2> QED
    BY <1>1, <2>1, SameDigest
<1>7. \A b : Ruled(b)' <=> Ruled(b)
  BY <1>1, Fixed DEF Ruled
<1>8. Standing(t)'
  BY <1>1, <1>2, <1>3, <1>6, <1>7, StandingFrame DEF Sources
<1> QED
  BY <1>5, <1>8

\* A record is written: it stands if its output does.
LEMMA SoundRecord ==
  ASSUME Inv, Kept, Decided, Sound, Ledger, phase = "running", NEW r \in Task, NEW g \in runnable,
         st[g].state = "running", r[1] \in Members(g),
         NEW state, NEW output, NEW h, Record(r, state, output, h), h \in {hash[r], version[r[1]]},
         state \notin {"none", "stale"} \/ state = rec[r],
         unsettled \subseteq unsettled',
         Firm(r)' => \/ state = rec[r] /\ output = made[r] /\ h = hash[r]
                     \/ Sources(r)' /\ Standing(r)'
  PROVE  Sound' /\ Ledger'
<1>1. /\ Active /\ Active' /\ launch' = launch /\ cascade' = cascade /\ cascade.tasks = {}
      /\ UNCHANGED <<version, delivered, st, runnable, overridden, excused, outcome, left>>
      /\ r[1] \in launch.walk /\ launch.walk \subseteq launch.plan /\ runnable \subseteq Level
      /\ Level \subseteq launch.walk
  BY WalkSteps, MembersInWalk, OptionAssumption DEF Record, Active, Inv, Placed
<1>2. /\ \A u \in Task : u # r => rec'[u] = rec[u] /\ hash'[u] = hash[u] /\ made'[u] = made[u]
      /\ rec'[r] = state /\ hash'[r] = h /\ made'[r] = output
  BY DEF Record, Inv, TypeOK
<1>3. ASSUME NEW t \in Task, Firm(t)' PROVE Sources(t)' /\ Standing(t)'
  <2>1. CASE t # r
    <3>1. Firm(t)
      BY <1>1, <1>2, <1>3, <2>1, SettledBefore DEF Firm, Done
    <3> QED
      BY <2>1, <3>1, OthersStand
  <2>2. CASE t = r /\ state = rec[r] /\ output = made[r] /\ h = hash[r]
    <3>1. rec' = rec /\ hash' = hash /\ made'[t] = made[t]
      BY <1>2, <2>2 DEF Record, Inv, TypeOK
    <3>2. Firm(t) /\ Sources(t) /\ Standing(t)
      BY <1>1, <1>3, <3>1, SettledBefore DEF Firm, Done, Sound
    <3>3. \A b, w : Held(b, w) => Held(b, w)'
      BY <1>1, <3>1, HeldFrame DEF Recorded
    <3>4. \A a, u, O : Reports(a, u, O) => Reports(a, u, O)'
      BY <1>1 DEF Reports
    <3>5. Sources(t)'
      BY <3>1, <3>2, <3>3, <3>4, SourcesFrame
    <3>6. \A b : (Ruled(b)' <=> Ruled(b)) /\ (CollectedChanged(b)' <=> CollectedChanged(b))
      BY <1>1, <3>1, Fixed DEF Ruled, CollectedChanged, Digest
    <3>7. runnable' \subseteq Step
      BY <1>1, WalkSteps DEF Inv
    <3> QED
      BY <1>1, <3>1, <3>2, <3>5, <3>6, <3>7, StandingFrame DEF Sources
  <2> QED
    BY <1>3, <2>1, <2>2
<1>4. Sound'
  BY <1>3 DEF Sound
<1>5. Ledger'
  <2>1. \A t \in Task : hash'[t] <= version'[t[1]]
    <3>1. version[r[1]] \in Nat
      BY TaskParts DEF Inv, TypeOK
    <3> QED
      BY <1>1, <1>2, <3>1 DEF Ledger
  <2>2. \A t \in Task : t[1] \notin launch.plan /\ Recorded(t)' => Recorded(t)
    BY <1>1, <1>2 DEF Recorded
  <2>3. \A a \in launch.walk : Needs[a] \cap left = {} => r[1] \notin Needs[a]
    BY <1>1, RunKeepsNeeds
  <2>4. launch.walk = Step => \A a \in Step \ excused :
          st'[a].state = "completed" => delivered'[a] \in {{}, Digest(a)'}
    BY <1>1, <1>2, <2>3, DocumentsStay
  <2> QED
    BY <1>1, <2>1, <2>2, <2>4, LedgerFrame
<1> QED
  BY <1>4, <1>5

\* The documents of a running task's step are those it is handed now.
LEMMA DocumentsNow ==
  ASSUME Inv, Decided, Active, NEW t \in Task, rec[t] = "running", NEW u \in Collects[t[1]]
  PROVE  Reports(t[1], u, Outcomes(u)) /\ Outcomes(u) \in SUBSET Item
<1>1. PICK g \in runnable : st[g].state = "running" /\ t[1] \in Members(g)
  BY DEF Inv, RunningUnder
<1>2. delivered[t[1]] = Digest(t[1])
  <2>1. CASE t[1] = g
    BY <1>1, <2>1 DEF Decided
  <2>2. CASE Before(g, t[1])
    BY <2>2, ChainCollects
  <2> QED
    BY <1>1, <2>1, <2>2 DEF Members
<1> DEFINE d == <<u, [k \in Item |-> rec[<<u, k>>]]>>
<1>3. d \in delivered[t[1]]
  BY <1>2 DEF Digest
<1>4. d[1] = u /\ Outcomes(u) = {k \in Item : d[2][k] = "completed"}
  BY DEF Outcomes
<1> QED
  BY <1>3, <1>4 DEF Reports, Outcomes

\* A step handed nothing unvouched is handed something of all that it needs, unless it is
\* a document that reports nothing done.
LEMMA HandedOfAll ==
  ASSUME NEW t \in Task, NEW n \in Needs[t[1]], n \in Collects[t[1]] => Outcomes(n) # {}
  PROVE  \E i \in Handed(t) : i[1] = n
<1>1. t[1] \in Step /\ n \in Step /\ t[2] \in Keys(t[1])
  BY TaskParts, StepAssumption
<1>2. CASE n \in Collects[t[1]]
  <2>1. PICK k \in Item : rec[<<n, k>>] = "completed"
    BY <1>2 DEF Outcomes
  <2>2. ~Before(n, t[1])
    BY <1>2, ChainCollects
  <2>3. <<n, k>> \in Task
    BY <1>1, <1>2, StepAssumption, TaskParts DEF Keys
  <2> QED
    BY <2>1, <2>2, <2>3 DEF Handed
<1>3. CASE n \notin Collects[t[1]]
  <2>1. \E k \in Keys(n) : Before(n, t[1]) => k = t[2]
    <3>1. CASE Before(n, t[1])
      BY <1>1, <3>1, ChainKeys
    <3>2. CASE ~Before(n, t[1])
      BY <3>2, StepAssumption DEF Keys
    <3> QED
      BY <3>1, <3>2
  <2>2. PICK k \in Keys(n) : Before(n, t[1]) => k = t[2]
    BY <2>1
  <2>3. <<n, k>> \in Task
    BY <1>1, TaskParts
  <2> QED
    BY <1>3, <2>2, <2>3 DEF Handed
<1> QED
  BY <1>2, <1>3

\* An output computed over outputs that all stand, stands.
LEMMA OutputStands ==
  ASSUME Inv, Decided, Sound, NEW t \in Task, phase = "running", rec[t] = "running",
         Record(t, "completed", Consumed(t), version[t[1]]), Settled(t[1]), ~Unvouched(t)
  PROVE  Sources(t)' /\ Standing(t)'
<1> DEFINE s == t[1]
<1>1. /\ Active /\ launch' = launch /\ cascade.tasks = {} /\ cascade' = cascade
      /\ UNCHANGED <<version, delivered, st, runnable>>
      /\ s \in Step /\ version[s] \in Nat /\ version[s] # 0 /\ t \in Tasks(s)
  BY TaskParts DEF Record, Active, Inv, Placed, TypeOK, Tasks
<1>2. PICK g \in runnable : st[g].state = "running" /\ s \in Members(g)
  BY <1>1 DEF Inv, RunningUnder
<1>3. made'[t] = Consumed(t) /\ rec'[t] = "completed" /\ hash'[t] = version[s]
  BY DEF Record, Inv, TypeOK
<1>4. ASSUME NEW i \in Handed(t)
      PROVE  /\ i \in Task /\ i # t /\ i[1] \in Needs[s] /\ Firm(i)
             /\ Sources(i)' /\ Standing(i)' /\ made'[i] = made[i]
  <2>1. i \in Task /\ i[1] \in Needs[s] /\ Done(i) /\ i # t
    BY DEF Handed, Unvouched, Done
  <2>2. i[1] \in Up(s)
    BY <1>1, <2>1, UpParts
  <2>3. Firm(i)
    BY <1>1, <2>1, <2>2, SettledNeeds DEF Firm
  <2>4. made'[i] = made[i]
    BY <2>1 DEF Record, Inv, TypeOK
  <2>5. Sources(i)' /\ Standing(i)'
    BY <1>2, <2>1, <2>3, OthersStand
  <2> QED
    BY <2>1, <2>3, <2>4, <2>5
<1>5. ASSUME NEW x \in made'[t]
      PROVE  \/ x = <<s, version[s], {}>>
             \/ \E i \in Handed(t) : x \in made'[i]
             \/ \E u \in Collects[s] : x = <<u, 0, Outcomes(u)>>
  BY <1>3, <1>4, <1>5, ConsumedParts
<1>6. /\ <<s, version[s], {}>> \in made'[t]
      /\ \A i \in Handed(t) : made'[i] \subseteq made'[t]
      /\ \A u \in Collects[s] : <<u, 0, Outcomes(u)>> \in made'[t]
  BY <1>3, <1>4 DEF Consumed
<1>7. /\ s \in Carried(t)'
      /\ \A i \in Handed(t) : /\ Carried(i)' \subseteq Carried(t)'
                              /\ \A b : Carries(i, b)' => Carries(t, b)'
  BY <1>1, <1>6 DEF Carried, Carries
<1>8. ASSUME NEW b, NEW w \in Nat, w # 0, <<b, w, {}>> \in made'[t]
      PROVE  \/ b = s /\ w = version[s]
             \/ \E i \in Handed(t) : <<b, w, {}>> \in made'[i]
  <2>1. ~ \E u \in Collects[s] : <<b, w, {}>> = <<u, 0, Outcomes(u)>>
    BY <1>8
  <2> QED
    BY <1>5, <1>8, <2>1
<1>9. \A n : Up(n)' = Up(n)
  BY DEF Up, Ancestors, Downstream, Dependents
<1>10. \A i \in Handed(t) : i[1] \in Step /\ Up(i[1]) \subseteq Up(s)
  BY <1>1, <1>4, UpParts
<1>11. Contents(t)'
  <2>1. ASSUME NEW x \in made'[t]
        PROVE  \/ \E b \in Up(s) : \E w \in Nat : w # 0 /\ x = <<b, w, {}>>
               \/ \E a \in Carried(t)' : \E u \in Collects[a] : \E O \in SUBSET Item :
                    x = <<u, 0, O>> /\ Reports(a, u, O)'
    <3>1. CASE x = <<s, version[s], {}>>
      BY <1>1, <3>1, UpParts
    <3>2. ASSUME NEW i \in Handed(t), x \in made'[i]
          PROVE  \/ \E b \in Up(s) : \E w \in Nat : w # 0 /\ x = <<b, w, {}>>
                 \/ \E a \in Carried(t)' : \E u \in Collects[a] : \E O \in SUBSET Item :
                      x = <<u, 0, O>> /\ Reports(a, u, O)'
      <4>1. Contents(i)'
        BY <1>4 DEF Sources
      <4>2. \/ \E b \in Up(i[1]) : \E w \in Nat : w # 0 /\ x = <<b, w, {}>>
            \/ \E a \in Carried(i)' : \E u \in Collects[a] : \E O \in SUBSET Item :
                 x = <<u, 0, O>> /\ Reports(a, u, O)'
        BY <1>9, <3>2, <4>1 DEF Contents
      <4> QED
        BY <1>7, <1>10, <4>2
    <3>3. ASSUME NEW u \in Collects[s], x = <<u, 0, Outcomes(u)>>
          PROVE  \E a \in Carried(t)' : \E v \in Collects[a] : \E O \in SUBSET Item :
                   x = <<v, 0, O>> /\ Reports(a, v, O)'
      <4>1. Reports(s, u, Outcomes(u)) /\ Outcomes(u) \in SUBSET Item
        BY <1>1, <3>3, DocumentsNow
      <4>2. Reports(s, u, Outcomes(u)) => \E O \in SUBSET Item : O = Outcomes(u) /\ Reports(s, u, O)
        BY <4>1
      <4>3. \A O : Reports(s, u, O) => Reports(s, u, O)'
        BY <1>1 DEF Reports
      <4> QED
        BY <1>7, <3>3, <4>1, <4>2, <4>3
    <3> QED
      BY <1>5, <2>1, <3>1, <3>2, <3>3
  <2> QED
    BY <1>9, <2>1 DEF Contents
<1>12. Covered(t)'
  <2> SUFFICES ASSUME \A u \in Step : <<u, 0, {}>> \notin made'[t], NEW b \in Up(s)
               PROVE  Carries(t, b)' /\ \A u \in Collects[b] : \E O \in SUBSET Item :
                                          <<u, 0, O>> \in made'[t]
    BY <1>9 DEF Covered
  <2>1. CASE b = s
    <3>1. Carries(t, b)'
      BY <1>7, <2>1 DEF Carried
    <3>2. \A u \in Collects[b] : Outcomes(u) \in SUBSET Item
      BY DEF Outcomes
    <3> QED
      BY <1>6, <2>1, <3>1, <3>2
  <2>2. CASE b \in Ancestors(s)
    <3>1. PICK n \in Needs[s] : b \in Up(n)
      BY <1>1, <2>2, UpSplit
    <3>2. n \in Collects[s] => Outcomes(n) # {}
      BY <1>1, <1>6, <3>1, StepAssumption
    <3>3. PICK i \in Handed(t) : i[1] = n
      BY <3>1, <3>2, HandedOfAll
    <3>4. Covered(i)' /\ \A u \in Step : <<u, 0, {}>> \notin made'[i]
      BY <1>4, <1>6, <3>3 DEF Sources
    <3>5. Carries(i, b)' /\ \A u \in Collects[b] : \E O \in SUBSET Item : <<u, 0, O>> \in made'[i]
      BY <1>9, <3>1, <3>3, <3>4 DEF Covered
    <3> QED
      BY <1>6, <1>7, <3>3, <3>5
  <2> QED
    BY <2>1, <2>2 DEF Up
<1>13. Linked(t)'
  <2>0. \A r, C : Downstream(r, C)' = Downstream(r, C')
    BY DEF Downstream, Dependents
  <2>1. ASSUME NEW b \in Carried(t)', b # s PROVE s \in Downstream(b, Carried(t)')
    <3>1. PICK w \in Nat : w # 0 /\ <<b, w, {}>> \in made'[t]
      BY <2>1 DEF Carried, Carries
    <3>2. PICK i \in Handed(t) : <<b, w, {}>> \in made'[i]
      BY <1>8, <2>1, <3>1
    <3>3. b \in Carried(i)'
      BY <2>1, <3>1, <3>2 DEF Carried, Carries
    <3>4. i[1] \in {b} \cup Downstream(b, Carried(i)')
      BY <1>4, <3>3 DEF Sources, Linked, Downstream, Dependents
    <3>5. i[1] \in {b} \cup Downstream(b, Carried(t)')
      BY <1>7, <3>4, DownstreamMore
    <3> QED
      BY <1>4, <1>7, <3>5, DownstreamClosed
  <2> QED
    BY <2>1 DEF Linked, Downstream, Dependents
<1>14. Versions(t)'
  <2>1. ASSUME NEW b \in Step, NEW w \in Nat, w # 0, <<b, w, {}>> \in made'[t] PROVE Held(b, w)'
    <3>1. CASE b = s /\ w = version[s]
      <4>1. Tasks(s)' = Tasks(s)
        BY DEF Tasks
      <4> QED
        BY <1>1, <1>3, <3>1, <4>1 DEF Held, Recorded
    <3>2. ASSUME NEW i \in Handed(t), <<b, w, {}>> \in made'[i] PROVE Held(b, w)'
      BY <1>4, <2>1, <3>2 DEF Sources, Versions
    <3> QED
      BY <1>8, <2>1, <3>1, <3>2
  <2> QED
    BY <2>1 DEF Versions
<1>15. Standing(t)'
  <2>1. ASSUME NEW b \in Step, NEW w \in Nat, w # 0, <<b, w, {}>> \in made'[t], Ruled(b)'
        PROVE  w = version'[b]
    BY <1>1, <1>4, <1>8, <2>1 DEF Standing
  <2>2. ASSUME NEW a \in runnable', st'[a].state = "pending", Carries(t, a)'
        PROVE  ~CollectedChanged(a)'
    <3>1. a # s
      <4>1. CASE a = s
        <5>1. a = g
          BY <1>1, <1>2, <2>2, <4>1, HeadUnique, HeadIsMember, WalkSteps DEF Inv, Placed
        <5> QED
          BY <1>1, <1>2, <2>2, <5>1
      <4> QED
        BY <4>1
    <3>2. PICK i \in Handed(t) : Carries(i, a)'
      BY <1>8, <2>2, <3>1 DEF Carries
    <3> QED
      BY <1>4, <2>2, <3>2 DEF Standing
  <2> QED
    BY <1>1, <2>1, <2>2 DEF Standing
<1> QED
  BY <1>11, <1>12, <1>13, <1>14, <1>15 DEF Sources

LEMMA SoundTask ==
  ASSUME Inv, Kept, Decided, Sound, Ledger, NEW t \in Task, StartTask(t) \/ RefuseTask(t) \/ EndTask(t)
  PROVE  Sound' /\ Ledger'
<1>1. phase = "running" /\ Active
  BY DEF StartTask, RefuseTask, EndTask, Due, Running, Active
<1>2. PICK g \in runnable : st[g].state = "running" /\ t[1] \in Members(g)
  <2>1. CASE Due(t)
    BY <2>1 DEF Due, Running
  <2>2. CASE rec[t] = "running"
    BY <1>1, <2>2 DEF Inv, RunningUnder
  <2> QED
    BY <2>1, <2>2 DEF StartTask, RefuseTask, EndTask
<1>3. ASSUME NEW state, NEW output, NEW h, Record(t, state, output, h)
      PROVE  rec'[t] = state /\ made'[t] = output /\ excused' = excused
  BY <1>3 DEF Record, Inv, TypeOK
<1>4. CASE StartTask(t)
  <2>1. Record(t, "running", {}, hash[t]) /\ unsettled' = unsettled
    BY <1>4 DEF StartTask
  <2>2. ~Firm(t)'
    BY <1>3, <2>1 DEF Firm, Done
  <2> QED
    BY <1>1, <1>2, <2>1, <2>2, SoundRecord
<1>5. CASE RefuseTask(t)
  <2>1. unsettled' = unsettled
    BY <1>5 DEF RefuseTask
  <2>2. CASE Record(t, "failed", made[t], hash[t])
    <3>1. ~Firm(t)'
      BY <1>3, <2>2 DEF Firm, Done
    <3> QED
      BY <1>1, <1>2, <2>1, <2>2, <3>1, SoundRecord
  <2>3. CASE Record(t, rec[t], made[t], hash[t])
    BY <1>1, <1>2, <2>1, <2>3, SoundRecord
  <2> QED
    BY <1>5, <2>2, <2>3 DEF RefuseTask
<1>6. CASE EndTask(t)
  <2>1. rec[t] = "running"
    BY <1>6 DEF EndTask
  <2>2. CASE Record(t, "failed", {}, hash[t]) /\ unsettled' = unsettled
    <3>1. ~Firm(t)'
      BY <1>3, <2>2 DEF Firm, Done
    <3> QED
      BY <1>1, <1>2, <2>2, <3>1, SoundRecord
  <2>3. CASE /\ Record(t, "completed", Consumed(t), version[t[1]])
             /\ unsettled' = IF Unvouched(t) THEN unsettled \cup {t[1]} ELSE unsettled
    <3>1. unsettled \subseteq unsettled' /\ excused \subseteq excused'
      BY <1>3, <2>3
    <3>2. ASSUME Firm(t)' PROVE Sources(t)' /\ Standing(t)'
      <4>1. Settled(t[1])' /\ Settled(t[1])
        BY <3>1, <3>2, SettledBefore DEF Firm
      <4>2. t[1] \notin unsettled'
        BY <4>1 DEF Settled, Up, NotAnswered
      <4> QED
        BY <1>1, <2>1, <2>3, <4>1, <4>2, OutputStands
    <3> QED
      BY <1>1, <1>2, <2>3, <3>1, <3>2, SoundRecord
  <2> QED
    BY <1>6, <2>2, <2>3 DEF EndTask
<1> QED
  BY <1>4, <1>5, <1>6

LEMMA SoundStep ==
  ASSUME Inv, Quiet, Kept, Decided, Sound, Ledger, [Next]_vars
  PROVE  Sound' /\ Ledger'
<1>1. CASE Rest \/ UNCHANGED vars
  <2>1. UNCHANGED <<version, overridden, rec, hash, made, delivered, st, phase, launch, left, judged,
                    runnable, cascade, outcome, excused, unsettled>>
    BY <1>1 DEF Rest, vars, disk, walk, ghost
  <2>2. /\ \A b : (Ruled(b)' <=> Ruled(b)) /\ (CollectedChanged(b)' <=> CollectedChanged(b))
                  /\ Digest(b)' = Digest(b)
    BY <2>1, Fixed DEF Ruled, CollectedChanged, Digest
  <2>3. \A t \in Task : (Recorded(t)' <=> Recorded(t)) /\ (Firm(t)' => Firm(t))
    BY <2>1, SettledBefore DEF Recorded, Firm, Done
  <2>4. ASSUME NEW t \in Task, Standing(t) PROVE Standing(t)'
    BY <2>1, <2>2, <2>4 DEF Standing, Carried, Carries, Downstream, Dependents
  <2>5. Sound'
    BY <2>1, <2>3, <2>4, StillSound DEF Active
  <2>6. Ledger'
    BY <2>1, <2>2, <2>3 DEF Ledger, Active, Tasks, Downstream, Dependents
  <2> QED
    BY <2>5, <2>6
<1>2. ASSUME NEW o \in Option, Launch(o) PROVE Sound' /\ Ledger'
  BY <1>2, SoundLaunch DEF Inv
<1>3. CASE Judgement
  BY <1>3, SoundPassOver, SoundConsider DEF Judgement
<1>4. CASE Renaming
  BY <1>4, SoundRename DEF Renaming
<1>5. CASE Work
  BY <1>5, SoundStartStep, SoundEndStep, SoundTask DEF Work
<1>6. CASE Turn
  BY <1>6, SoundTurn
<1>7. CASE Interrupt \/ \E cut : Crash(cut)
  BY <1>7, SoundStop
<1>8. CASE (\E s \in Step : Edit(s) \/ Override(s)) \/ \E t \in Task : LoseOutput(t)
  BY <1>8, SoundBetween DEF Edit, Override, LoseOutput, Inv
<1> QED
  BY <1>1, <1>2, <1>3, <1>4, <1>5, <1>6, <1>7, <1>8 DEF Next

-----------------------------------------------------------------------------

\* At the end of a whole walk that completed every step, every task of a settled step is
\* done ...
LEMMA AllDone ==
  ASSUME Inv, Ledger, Active, left = {}, launch.walk = Step,
         \A s \in Step : st[s].state = "completed",
         NEW s \in Step, Settled(s)
  PROVE  \A t \in Tasks(s) : Firm(t)
<1>1. PICK h \in Step : ~Absorbed(h) /\ s \in Members(h)
  BY HeadExists
<1>2. HeadOk(h) /\ h \in launch.walk
  BY <1>1 DEF Inv, Walked
<1>3. h \in Up(s)
  BY <1>1, <1>2, HeadUp
<1>4. ~Passed(h)
  <2>1. h \notin excused
    BY <1>3, SettledNeeds
  <2> QED
    BY <2>1 DEF Passed, Ledger
<1>5. ~Open(h) /\ \A m \in Members(h) : m \in Step
  BY <1>1, MembersInWalk DEF Open
<1>6. \A m \in Members(h) : \A k \in Reached(m) : Done(<<m, k>>)
  BY <1>2, <1>4, <1>5 DEF HeadOk, Complete
<1>7. \A t \in Tasks(s) : Done(t)
  BY <1>1, <1>6, AllReached
<1>8. cascade.tasks = {}
  BY WalkSteps DEF Inv, Placed
<1> QED
  BY <1>7, <1>8 DEF Firm, Tasks

\* ... and computed from the present definitions and outcomes.
LEMMA AllFresh ==
  ASSUME Inv, Sound, Ledger, Active, left = {}, launch.walk = Step,
         \A s \in Step : st[s].state = "completed",
         NEW s \in Step, Settled(s), NEW t \in Tasks(s)
  PROVE  made[t] = Fresh(s)
<1>1. t \in Task /\ t[1] = s /\ Up(s) \subseteq Step
  BY UpParts DEF Tasks
<1>2. Firm(t) /\ Sources(t) /\ Standing(t)
  BY <1>1, AllDone DEF Sound
<1>3. \A b \in Step : Ruled(b)
  BY DEF Ruled
<1>4. \A b \in Step : version[b] \in Nat
  BY DEF Inv, TypeOK
<1>5. ASSUME NEW a \in Up(s), NEW u \in Collects[a], NEW O, Reports(a, u, O)
      PROVE  O = Item
  <2>1. a \in Step /\ a \notin excused /\ u \in Needs[a] /\ u \in Mapped
    BY <1>1, <1>5, SettledNeeds, StepAssumption
  <2>2. u \in Step /\ u \in Up(s)
    BY <1>1, <1>5, <2>1, UpParts
  <2>3. Settled(u)
    BY <2>2, SettledNeeds
  <2>4. \A k \in Item : rec[<<u, k>>] = "completed"
    <3>1. \A k \in Item : <<u, k>> \in Tasks(u)
      BY <2>1, <2>2, TaskParts DEF Keys
    <3> QED
      BY <2>2, <2>3, <3>1, AllDone DEF Firm, Done
  <2>5. delivered[a] \in {{}, Digest(a)}
    BY <2>1 DEF Ledger
  <2>6. PICK d \in delivered[a] : d[1] = u /\ O = {k \in Item : d[2][k] = "completed"}
    BY <1>5 DEF Reports
  <2>7. PICK v \in Collects[a] : d = <<v, [k \in Item |-> rec[<<v, k>>]]>>
    BY <2>5, <2>6 DEF Digest
  <2>8. d[2] = [k \in Item |-> rec[<<u, k>>]]
    BY <2>6, <2>7
  <2> QED
    BY <2>4, <2>6, <2>8
<1>6. \A b \in Carried(t) : b \in Up(s) /\ b \in Step
  BY <1>1, <1>2, CarriedParts DEF Sources
<1>7. ASSUME NEW x \in made[t] PROVE x \in Fresh(s)
  <2>1. ASSUME NEW b \in Up(s), NEW w \in Nat, w # 0, x = <<b, w, {}>> PROVE x \in Fresh(s)
    <3>1. w = version[b]
      BY <1>1, <1>2, <1>3, <2>1, <1>7 DEF Standing
    <3> QED
      BY <2>1, <3>1 DEF Fresh, Up
  <2>2. ASSUME NEW a \in Carried(t), NEW u \in Collects[a], NEW O \in SUBSET Item,
               x = <<u, 0, O>>, Reports(a, u, O)
        PROVE  x \in Fresh(s)
    <3>1. a \in Up(s) /\ O = Item
      BY <1>5, <1>6, <2>2
    <3> QED
      BY <2>2, <3>1 DEF Fresh, Up
  <2> QED
    BY <1>1, <1>2, <1>7, <2>1, <2>2 DEF Sources, Contents
<1>8. \A u \in Step : \A O \in SUBSET Item : <<u, 0, O>> \in made[t] => O = Item
  <2> SUFFICES ASSUME NEW u \in Step, NEW O \in SUBSET Item, <<u, 0, O>> \in made[t]
               PROVE  O = Item
    OBVIOUS
  <2>1. ~ \E b \in Up(t[1]) : \E w \in Nat : w # 0 /\ <<u, 0, O>> = <<b, w, {}>>
    OBVIOUS
  <2>2. PICK a \in Carried(t) : \E v \in Collects[a] : \E P \in SUBSET Item :
               <<u, 0, O>> = <<v, 0, P>> /\ Reports(a, v, P)
    BY <1>2, <2>1 DEF Sources, Contents
  <2>3. PICK v \in Collects[a], P \in SUBSET Item : <<u, 0, O>> = <<v, 0, P>> /\ Reports(a, v, P)
    BY <2>2
  <2> QED
    BY <1>5, <1>6, <2>3
<1>9. ASSUME NEW b \in Up(s)
      PROVE  /\ <<b, version[b], {}>> \in made[t]
             /\ \A u \in Collects[b] : <<u, 0, Item>> \in made[t]
  <2>1. \A u \in Step : <<u, 0, {}>> \notin made[t]
    BY <1>8, StepAssumption
  <2>2. Carries(t, b) /\ \A u \in Collects[b] : \E O \in SUBSET Item : <<u, 0, O>> \in made[t]
    BY <1>1, <1>2, <2>1 DEF Sources, Covered
  <2>3. b \in Step /\ Collects[b] \subseteq Step
    BY <1>1, StepAssumption
  <2>4. <<b, version[b], {}>> \in made[t]
    BY <1>2, <1>3, <2>2, <2>3 DEF Carries, Standing
  <2>5. ASSUME NEW u \in Collects[b] PROVE <<u, 0, Item>> \in made[t]
    <3>1. PICK O \in SUBSET Item : <<u, 0, O>> \in made[t]
      BY <2>2
    <3>2. O = Item
      BY <1>8, <2>3, <3>1
    <3> QED
      BY <3>1, <3>2
  <2> QED
    BY <2>4, <2>5
<1>10. ASSUME NEW x \in Fresh(s) PROVE x \in made[t]
  <2>1. CASE \E b \in Up(s) : x = <<b, version[b], {}>>
    BY <1>9, <2>1
  <2>2. CASE \E b \in Up(s) : \E u \in Collects[b] : x = <<u, 0, Item>>
    BY <1>9, <2>2
  <2> QED
    BY <1>10, <2>1, <2>2 DEF Fresh, Up
<1> QED
  BY <1>7, <1>10

(* A whole walk that ends clean leaves what a run from nothing would: of a  *)
(* step that the exceptions leave to be answered for, every output is that  *)
(* of the definitions and the outcomes there are now, whatever edits,       *)
(* failures, lost outputs, partial walks, interrupts and crashes came       *)
(* before it.                                                              *)
THEOREM FreshOnceClean == Spec => []FreshWhenClean
<1>1. Init => Kept /\ Decided /\ Quiet /\ Sound /\ Ledger /\ FreshWhenClean
  <2>1. Init => Kept /\ Decided /\ Quiet
    BY DEF Init, Kept, Decided, Quiet, Active, NoCascade
  <2>2. Init => Sound
    BY DEF Init, Sound, Firm, Done
  <2>3. Init => Ledger
    BY TaskParts DEF Init, Ledger, Active, NoLaunch
  <2>4. Init => FreshWhenClean
    BY DEF Init, FreshWhenClean
  <2> QED
    BY <2>1, <2>2, <2>3, <2>4
<1>2. Inv /\ Quiet /\ Kept /\ Decided /\ Sound /\ Ledger /\ FreshWhenClean /\ [Next]_vars
        => Quiet' /\ Kept' /\ Decided' /\ Sound' /\ Ledger'
  BY KeepStep, QuietStep, SoundStep
<1>3. ASSUME Inv, Quiet, Sound, Ledger, FreshWhenClean, [Next]_vars PROVE FreshWhenClean'
  <2> SUFFICES ASSUME outcome' = "clean"
               PROVE  \A s \in Step : ({s} \cup Ancestors(s)) \cap NotAnswered' = {} =>
                        \A t \in Tasks(s) : made'[t] = Fresh(s)'
    BY DEF FreshWhenClean, Ancestors, Downstream, Dependents, Tasks
  <2>1. CASE outcome = "clean" /\ (Rest \/ UNCHANGED vars)
    <3>1. UNCHANGED <<made, version, excused, unsettled>>
      BY <2>1 DEF Rest, vars, disk, ghost
    <3>2. NotAnswered' = NotAnswered /\ \A s : Fresh(s)' = Fresh(s)
      BY <3>1 DEF NotAnswered, Fresh, Ancestors, Downstream, Dependents
    <3> QED
      BY <1>3, <2>1, <3>1, <3>2 DEF FreshWhenClean
  <2>2. CASE EndWalk
    <3>1. /\ Active /\ left = {} /\ launch.walk = Step
          /\ \A s \in Step : st[s].state = "completed"
          /\ UNCHANGED <<made, version, excused, unsettled>>
      BY <2>2 DEF EndWalk, Leave, Active, disk, ghost
    <3>2. NotAnswered' = NotAnswered /\ \A s : Fresh(s)' = Fresh(s)
      BY <3>1 DEF NotAnswered, Fresh, Ancestors, Downstream, Dependents
    <3> QED
      BY <1>3, <3>1, <3>2, AllFresh DEF Settled, Up
  <2>3. Active => outcome # "clean"
    BY <1>3 DEF Ledger
  <2>4. ~Active \/ EndWalk
    <3>1. ASSUME Active, Next PROVE EndWalk
      BY <2>3, <3>1
         DEF Next, Rest, Active, Launch, Judgement, PassOver, Consider, Renaming, Rename, Work,
             StartStep, EndStep, StartTask, RefuseTask, EndTask, Record, Turn, Gather, EndLevel,
             Leave, Interrupt, Crash, Edit, Override, LoseOutput, Between
    <3>2. ASSUME Active, UNCHANGED vars PROVE FALSE
      BY <2>3, <3>2 DEF vars
    <3> QED
      BY <1>3, <3>1, <3>2
  <2>5. ASSUME ~Active PROVE Rest \/ UNCHANGED vars
    <3>1. ~(\E o \in Option : Launch(o)) /\ ~Between
      BY DEF Launch, Between
    <3>2. ~EndWalk /\ ~Judgement /\ ~Work /\ ~Turn /\ ~Interrupt /\ \A cut : ~Crash(cut)
      <4>1. \A t \in Task : rec[t] = "running" => phase # "running"
        BY <2>5 DEF Active
      <4> QED
        BY <2>5, <4>1
           DEF Active, EndWalk, Judgement, PassOver, Consider, Considered, CanJudge, Work, StartStep,
               EndStep, Running, StartTask, RefuseTask, Due, EndTask, Turn, Gather, EndLevel,
               Interrupt, Crash
    <3>3. ~Renaming
      BY <1>3, <2>5 DEF Quiet, NoCascade, Renaming, Rename
    <3> QED
      BY <1>3, <3>1, <3>2, <3>3 DEF Next, Edit, Override, LoseOutput
  <2>6. outcome = "clean" \/ EndWalk
    BY <2>4, <2>5 DEF Rest, vars
  <2> QED
    BY <2>1, <2>2, <2>4, <2>5, <2>6
<1> QED
  BY <1>1, <1>2, <1>3, Invariance, PTL DEF Spec

=============================================================================
