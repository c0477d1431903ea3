--------------------------- MODULE TaskStateProofs ---------------------------
(***************************************************************************)
(* For any number of launches and crashes, wherever each crash falls: what *)
(* the files of a task claim is true, no terminal fact is rewritten,       *)
(* reconciliation makes the task startable again, and all the files        *)
(* together implement TaskLog.                                             *)
(*                                                                         *)
(* The inductive invariant names n, the latest attempt, and says of every  *)
(* point of every operation which writes are still to make and what holds  *)
(* of the files they will meet.                                            *)
(***************************************************************************)
EXTENDS TaskState, SequenceTheorems, WellFoundedInduction, TLAPS

\* Only the latest attempt can be live, and only the one after it half created.
Ordered(f, n) ==
  \A i \in Attempt :
    /\ i < n => f.attempt[i] \in Ending
    /\ i = n => f.attempt[i] \in Ending \cup {"live"}
    /\ i = n + 1 => f.attempt[i] \in {"absent", "directory"}
    /\ i > n + 1 => f.attempt[i] = "absent"

Live(n) == n # 0 /\ files.attempt[n] = "live"

\* The projection that was renamed aside is of an attempt before n.
Superseded(n) == files.status = NoStatus => files.stale.attempt < n

\* What holds of the files at every point.
Common(n) ==
  /\ Ordered(files, n)
  /\ \A i \in Attempt : Consistent(files, i)
  /\ files.status.attempt <= n /\ files.stale.attempt <= n /\ files.result <= n
  /\ Live(n) => Superseded(n)
  /\ StatusHonest

-----------------------------------------------------------------------------
(* The process between two operations. *)

NoDirectory(n) == n + 1 \in Attempt => files.attempt[n + 1] = "absent"

Waiting(n) ==
  /\ todo = <<>> /\ phase \in {"fresh", "idle"} /\ held = 0
  /\ NoDirectory(n) /\ ~ Live(n)
  /\ phase = "fresh" =>
       IF n = 0 THEN files.status.state # "running"
       ELSE \/ files.status = Status(Projection(files.attempt[n], files.anomalies[n]), n)
            \/ files.status = NoStatus /\ files.stale.attempt = n

Attending(n) ==
  /\ todo = <<>> /\ phase \in {"running", "failing"} /\ held = n /\ n # 0
  /\ NoDirectory(n) /\ Live(n)
  /\ files.status = Status(IF phase = "running" THEN "running" ELSE "failed", n)

Backoff(n) ==
  /\ todo = <<>> /\ phase = "backoff" /\ held = n /\ n # 0
  /\ NoDirectory(n) /\ files.attempt[n] = "retryable"
  /\ files.status = Status("running", n)

Dead == todo = <<>> /\ phase = "down" /\ held = 0

(* The process inside an operation: what it has still to write. *)

\* The start of attempt k, by the verdict it starts with.
StartKind == {"running", "live", "cancelled", "permanent"}

StartSeq(k, d) ==
  IF d \in {"running", "live"}
  THEN <<Write("attempt", k, "directory"), Write("attempt", k, "live"),
         Write("status", k, IF d = "running" THEN "running" ELSE "failed")>>
  ELSE <<Write("attempt", k, "directory"), Write("attempt", k, "live"),
         Write("anomalies", k, "none"), Write("attempt", k, d), Write("status", k, "failed")>>

StartLeads(k, d) ==
  \/ d = "running" /\ phase = "running" /\ held = k
  \/ d = "live" /\ phase = "failing" /\ held = k
  \/ d \notin {"running", "live"} /\ phase = "idle" /\ held = 0

Starting(n) ==
  \E d \in StartKind :
    /\ n + 1 \in Attempt /\ ~ Live(n) /\ StartLeads(n + 1, d)
    /\ \/ files.attempt[n + 1] = "absent" /\ todo = StartSeq(n + 1, d)
       \/ files.attempt[n + 1] = "directory" /\ todo = Tail(StartSeq(n + 1, d))

\* The status of a live attempt is still to be written.
Showing(n) ==
  /\ n # 0 /\ Live(n) /\ NoDirectory(n) /\ held = n
  /\ \/ phase = "running" /\ todo = <<Write("status", n, "running")>>
     \/ phase = "failing" /\ todo = <<Write("status", n, "failed")>>

\* The end of attempt n with the fact (d, a), and what follows: nothing when it is to be
\* retried or the status says so already, else its projection, and the result if any.
EndKind == {"retry", "shown", "status", "result"}

EndSeq(n, d, a, k) ==
  IF k = "status"
  THEN <<Write("anomalies", n, a), Write("attempt", n, d),
         Write("status", n, Projection(d, a))>>
  ELSE IF k = "result"
  THEN <<Write("anomalies", n, a), Write("attempt", n, d),
         Write("status", n, Projection(d, a)), Write("result", n, "published")>>
  ELSE <<Write("anomalies", n, a), Write("attempt", n, d)>>

EndLeads(n, d, a, k) ==
  \/ /\ k = "retry" /\ phase = "backoff" /\ held = n /\ d = "retryable"
     /\ files.status = Status("running", n)
  \/ k = "shown" /\ phase = "fresh" /\ held = 0 /\ files.status = Status(Projection(d, a), n)
  \/ k = "status" /\ phase \in {"fresh", "idle"} /\ held = 0
  \/ k = "result" /\ phase = "idle" /\ held = 0 /\ Projection(d, a) = "completed"

\* An attempt that is live, or was left so by a crash, is still to be ended.
Finishing(n) ==
  \E d \in Ending, a \in Anomalies, k \in EndKind :
    /\ n # 0 /\ Live(n) /\ NoDirectory(n) /\ EndLeads(n, d, a, k)
    /\ d # "succeeded" => a = "none"
    /\ d = "succeeded" => files.status # Status("failed", n)
    /\ \/ todo = EndSeq(n, d, a, k)
       \/ files.anomalies[n] = a /\ todo = Tail(EndSeq(n, d, a, k))

\* The attempt has ended; its projection, at least, is still to be written.
Projecting(n) ==
  \E k \in {"status", "result"} :
    LET d == files.attempt[n]
        a == files.anomalies[n] IN
    /\ n # 0 /\ ~ Live(n) /\ NoDirectory(n) /\ EndLeads(n, d, a, k) /\ Superseded(n)
    /\ todo = Tail(Tail(EndSeq(n, d, a, k)))

Publishing(n) ==
  /\ n # 0 /\ NoDirectory(n) /\ phase = "idle" /\ held = 0
  /\ files.status = Status("completed", n) /\ todo = <<Write("result", n, "published")>>

\* A task with no attempt, whose status is from before attempts were recorded.
Legacy(n) ==
  /\ n = 0 /\ NoDirectory(n) /\ phase \in {"fresh", "idle"} /\ held = 0
  /\ files.status # NoStatus
  /\ \/ todo = <<Write("status", 0, "completed")>>
     \/ todo = <<Write("status", 0, "failed")>> /\ files.status.state = "running"

Point(n) ==
  \/ Waiting(n) \/ Attending(n) \/ Backoff(n) \/ Dead
  \/ Starting(n) \/ Showing(n) \/ Finishing(n) \/ Projecting(n) \/ Publishing(n) \/ Legacy(n)

Inv == TypeOK /\ \E n \in 0..AttemptBound : Common(n) /\ Point(n)

-----------------------------------------------------------------------------
(* Lemmas about the operators. *)

LEMMA LeastElement ==
  ASSUME NEW T \in SUBSET Nat, T # {}
  PROVE  \E m \in T : \A k \in T : m <= k
<1> DEFINE R == {ss \in Nat \X Nat : ss[1] < ss[2]}
<1>1. IsWellFoundedOn(R, Nat)
  BY NatLessThanWellFounded, Zenon DEF OpToRel
<1>2. PICK m \in T : \A k \in T : <<k, m>> \notin R
  BY <1>1, WFMin
<1>3. \A k \in T : ~ (k < m)
  BY <1>2 DEF R
<1> QED
  BY <1>3

\* Concatenations of explicit tuples.
LEMMA Joined ==
  /\ \A a, b : <<>> \o <<a>> = <<a>> /\ <<a, b>> \o <<>> = <<a, b>>
  /\ \A a, b : <<a>> \o <<b>> = <<a, b>>
  /\ \A a, b, c : <<a, b>> \o <<c>> = <<a, b, c>>
  /\ \A a, b, c, d : <<a, b, c>> \o <<d>> = <<a, b, c, d>>
  /\ \A a, b, c, d : <<a, b>> \o <<c, d>> = <<a, b, c, d>>
  /\ \A a, b, c, d, e : <<a, b, c, d>> \o <<e>> = <<a, b, c, d, e>>
<1>1. \A a, b : <<>> \o <<a>> = <<a>> /\ <<a, b>> \o <<>> = <<a, b>>
  OBVIOUS
<1>2. ASSUME NEW a, NEW b
      PROVE  <<a>> \o <<b>> = <<a, b>>
  <2> DEFINE S == {a, b}
  <2>1. <<a>> \in Seq(S) /\ <<b>> \in Seq(S) /\ <<a, b>> \in Seq(S)
    OBVIOUS
  <2> HIDE DEF S
  <2>2. /\ <<a>> \o <<b>> \in Seq(S) /\ Len(<<a>> \o <<b>>) = 2
        /\ \A i \in 1..2 : (<<a>> \o <<b>>)[i] = <<a, b>>[i]
    BY <2>1
  <2>3. Len(<<a, b>>) = 2
    BY <2>1
  <2> QED
    BY <2>1, <2>2, <2>3, SeqEqual, Zenon
<1>3. ASSUME NEW a, NEW b, NEW c
      PROVE  <<a, b>> \o <<c>> = <<a, b, c>>
  <2> DEFINE S == {a, b, c}
  <2>1. <<a, b>> \in Seq(S) /\ <<c>> \in Seq(S) /\ <<a, b, c>> \in Seq(S)
    OBVIOUS
  <2> HIDE DEF S
  <2>2. /\ <<a, b>> \o <<c>> \in Seq(S) /\ Len(<<a, b>> \o <<c>>) = 3
        /\ \A i \in 1..3 : (<<a, b>> \o <<c>>)[i] = <<a, b, c>>[i]
    BY <2>1
  <2>3. Len(<<a, b, c>>) = 3
    BY <2>1
  <2> QED
    BY <2>1, <2>2, <2>3, SeqEqual, Zenon
<1>4. ASSUME NEW a, NEW b, NEW c, NEW d
      PROVE  <<a, b, c>> \o <<d>> = <<a, b, c, d>>
  <2> DEFINE S == {a, b, c, d}
  <2>1. <<a, b, c>> \in Seq(S) /\ <<d>> \in Seq(S) /\ <<a, b, c, d>> \in Seq(S)
    OBVIOUS
  <2> HIDE DEF S
  <2>2. /\ <<a, b, c>> \o <<d>> \in Seq(S) /\ Len(<<a, b, c>> \o <<d>>) = 4
        /\ \A i \in 1..4 : (<<a, b, c>> \o <<d>>)[i] = <<a, b, c, d>>[i]
    BY <2>1
  <2>3. Len(<<a, b, c, d>>) = 4
    BY <2>1
  <2> QED
    BY <2>1, <2>2, <2>3, SeqEqual, Zenon
<1>5. ASSUME NEW a, NEW b, NEW c, NEW d
      PROVE  <<a, b>> \o <<c, d>> = <<a, b, c, d>>
  <2> DEFINE S == {a, b, c, d}
  <2>1. <<a, b>> \in Seq(S) /\ <<c, d>> \in Seq(S) /\ <<a, b, c, d>> \in Seq(S)
    OBVIOUS
  <2> HIDE DEF S
  <2>2. /\ <<a, b>> \o <<c, d>> \in Seq(S) /\ Len(<<a, b>> \o <<c, d>>) = 4
        /\ \A i \in 1..4 : (<<a, b>> \o <<c, d>>)[i] = <<a, b, c, d>>[i]
    BY <2>1
  <2>3. Len(<<a, b, c, d>>) = 4
    BY <2>1
  <2> QED
    BY <2>1, <2>2, <2>3, SeqEqual, Zenon
<1>6. ASSUME NEW a, NEW b, NEW c, NEW d, NEW e
      PROVE  <<a, b, c, d>> \o <<e>> = <<a, b, c, d, e>>
  <2> DEFINE S == {a, b, c, d, e}
  <2>1. <<a, b, c, d>> \in Seq(S) /\ <<e>> \in Seq(S) /\ <<a, b, c, d, e>> \in Seq(S)
    OBVIOUS
  <2> HIDE DEF S
  <2>2. /\ <<a, b, c, d>> \o <<e>> \in Seq(S) /\ Len(<<a, b, c, d>> \o <<e>>) = 5
        /\ \A i \in 1..5 : (<<a, b, c, d>> \o <<e>>)[i] = <<a, b, c, d, e>>[i]
    BY <2>1
  <2>3. Len(<<a, b, c, d, e>>) = 5
    BY <2>1
  <2> QED
    BY <2>1, <2>2, <2>3, SeqEqual, Zenon
<1> QED
  BY <1>1, <1>2, <1>3, <1>4, <1>5, <1>6, Zenon

\* In an ordered history the latest attempt is the only one that can be an orphan.
LEMMA LatestIs ==
  ASSUME NEW f, NEW n \in 0..AttemptBound, Ordered(f, n)
  PROVE  /\ Latest(f) = n
         /\ History(f) = 1..n
         /\ Complete(f) => NextAttempt(f) = n + 1
         /\ Orphans(f) = IF n # 0 /\ f.attempt[n] = "live" THEN {n} ELSE {}
<1> USE BoundsAssumption
<1>1. History(f) = 1..n
  BY DEF Ordered, History, Ending, Attempt
<1>2. Latest(f) = n
  <2>1. n \in History(f) \cup {0} /\ \A y \in History(f) \cup {0} : n >= y
    BY <1>1
  <2>2. \A x \in History(f) \cup {0} : (\A y \in History(f) \cup {0} : x >= y) => x = n
    BY <1>1
  <2> QED
    BY <2>1, <2>2 DEF Latest, Max
<1>3. ASSUME Complete(f) PROVE NextAttempt(f) = n + 1
  <2> DEFINE S == {i \in Attempt : f.attempt[i] # "absent"} \cup {0}
  <2>1. S = 0..n
    BY <1>3 DEF Ordered, Complete, Ending, Attempt
  <2>2. n \in S /\ \A y \in S : n >= y
    BY <2>1
  <2>3. \A x \in S : (\A y \in S : x >= y) => x = n
    BY <2>1
  <2>4. Max(S) = n
    BY <2>2, <2>3 DEF Max
  <2> QED
    BY <2>4 DEF NextAttempt
<1>4. Orphans(f) = IF n # 0 /\ f.attempt[n] = "live" THEN {n} ELSE {}
  BY <1>1 DEF Orphans, Ordered, Ending, Attempt
<1> QED
  BY <1>1, <1>2, <1>3, <1>4

\* Reconciliation ends the one orphan there is.
LEMMA LoseIs ==
  ASSUME NEW f, NEW n \in 0..AttemptBound, Orphans(f) \in SUBSET {n}, n = 0 => Orphans(f) = {}
  PROVE  Lose(f) = IF n \in Orphans(f) THEN EndAttempt(f, n, "lost", "none") ELSE <<>>
<1> USE BoundsAssumption
<1> DEFINE E(i) == EndAttempt(f, i, "lost", "none")
           Step(g) == [i \in 0..AttemptBound |->
                         IF i = 0 THEN <<>>
                         ELSE g[i - 1] \o IF i \in Orphans(f) THEN E(i) ELSE <<>>]
           lost == CHOOSE g : g = Step(g)
           h == [i \in 0..AttemptBound |-> IF n \in Orphans(f) /\ i >= n THEN E(n) ELSE <<>>]
<1>1. Lose(f) = lost[AttemptBound]
  BY DEF Lose
<1>2. <<>> \o <<>> = <<>> /\ \A i : <<>> \o E(i) = E(i) /\ E(i) \o <<>> = E(i)
  <2>1. \A x, y : <<>> \o <<x, y>> = <<x, y>> /\ <<x, y>> \o <<>> = <<x, y>>
    OBVIOUS
  <2> QED
    BY <2>1 DEF EndAttempt
<1>3. h = Step(h)
  <2>1. ASSUME NEW i \in 0..AttemptBound
        PROVE  h[i] = IF i = 0 THEN <<>>
                      ELSE h[i - 1] \o IF i \in Orphans(f) THEN E(i) ELSE <<>>
    <3> HIDE DEF E
    <3>1. CASE i = 0
      BY <3>1
    <3>2. CASE i # 0
      <4>1. i - 1 \in 0..AttemptBound
        BY <3>2
      <4>2. CASE n \in Orphans(f) /\ i = n
        <5>1. h[i - 1] = <<>> /\ h[i] = E(n)
          BY <4>1, <4>2
        <5> QED
          BY <5>1, <4>2, <3>2, <1>2
      <4>3. CASE n \in Orphans(f) /\ i > n
        <5>1. h[i - 1] = E(n) /\ h[i] = E(n) /\ i \notin Orphans(f)
          BY <4>1, <4>3
        <5> QED
          BY <5>1, <3>2, <1>2
      <4>4. CASE n \notin Orphans(f) \/ i < n
        <5>1. h[i - 1] = <<>> /\ h[i] = <<>> /\ i \notin Orphans(f)
          BY <4>1, <4>4
        <5> QED
          BY <5>1, <3>2, <1>2
      <4> QED
        BY <4>2, <4>3, <4>4
    <3> QED
      BY <3>1, <3>2
  <2> HIDE DEF E
  <2> QED
    BY <2>1
<1>4. lost = Step(lost)
  <2> HIDE DEF h, Step
  <2> QED
    BY <1>3 DEF lost
<1> HIDE DEF lost, E
<1>5. \A i \in 0..AttemptBound : lost[i] = h[i]
  <2> DEFINE T == {i \in 0..AttemptBound : lost[i] # h[i]}
  <2>1. SUFFICES ASSUME T # {} PROVE FALSE
    OBVIOUS
  <2>2. PICK m \in T : \A k \in T : m <= k
    <3>1. T \in SUBSET Nat
      OBVIOUS
    <3> HIDE DEF T
    <3> QED
      BY <2>1, <3>1, LeastElement
  <2>3. m # 0
    BY <1>3, <1>4
  <2>4. m - 1 \in 0..AttemptBound /\ m - 1 \notin T
    BY <2>2, <2>3
  <2>5. lost[m - 1] = h[m - 1]
    BY <2>4
  <2>6. /\ lost[m] = lost[m - 1] \o IF m \in Orphans(f) THEN E(m) ELSE <<>>
        /\ h[m] = h[m - 1] \o IF m \in Orphans(f) THEN E(m) ELSE <<>>
    <3> HIDE DEF h
    <3> QED
      BY <1>3, <1>4, <2>2, <2>3
  <2> QED
    BY <2>5, <2>6
<1> QED
  BY <1>1, <1>5 DEF E

-----------------------------------------------------------------------------
(* Every write of every operation keeps the invariant. *)

\* A write takes itself off the list and leaves the process where it is.
Moved == todo' = Tail(todo) /\ phase' = phase /\ held' = held /\ crashes' = crashes

LEMMA AttemptWritten ==
  ASSUME TypeOK, MakeWrite, NEW i \in Attempt, NEW v \in Ending \cup {"live", "directory"},
         Head(todo) = Write("attempt", i, v)
  PROVE  /\ TypeOK' /\ Moved
         /\ files'.attempt = [files.attempt EXCEPT ![i] = v]
         /\ files'.anomalies = files.anomalies /\ files'.status = files.status
         /\ files'.stale = files.stale /\ files'.result = files.result
<1>1. Moved /\ files' = [files EXCEPT !.attempt[i] = v]
  BY DEF MakeWrite, Write, Moved
<1> QED
  BY <1>1 DEF TypeOK, Moved

LEMMA AnomaliesWritten ==
  ASSUME TypeOK, MakeWrite, NEW i \in Attempt, NEW v \in Anomalies,
         Head(todo) = Write("anomalies", i, v)
  PROVE  /\ TypeOK' /\ Moved
         /\ files'.anomalies = [files.anomalies EXCEPT ![i] = v]
         /\ files'.attempt = files.attempt /\ files'.status = files.status
         /\ files'.stale = files.stale /\ files'.result = files.result
<1>1. Moved /\ files' = [files EXCEPT !.anomalies[i] = v]
  BY DEF MakeWrite, Write, Moved
<1> QED
  BY <1>1 DEF TypeOK, Moved

LEMMA StatusWritten ==
  ASSUME TypeOK, MakeWrite, NEW i \in 0..AttemptBound, NEW v \in StatusState,
         Head(todo) = Write("status", i, v)
  PROVE  /\ TypeOK' /\ Moved
         /\ files'.status = Status(v, i)
         /\ files'.attempt = files.attempt /\ files'.anomalies = files.anomalies
         /\ files'.stale = files.stale /\ files'.result = files.result
<1>1. Moved /\ files' = [files EXCEPT !.status = Status(v, i)]
  BY DEF MakeWrite, Write, Moved
<1>2. Status(v, i) \in StatusRecord
  BY DEF Status, StatusRecord
<1> QED
  BY <1>1, <1>2 DEF TypeOK, Moved

LEMMA ResultWritten ==
  ASSUME TypeOK, MakeWrite, NEW i \in Attempt, NEW v, Head(todo) = Write("result", i, v)
  PROVE  /\ TypeOK' /\ Moved
         /\ files'.result = i
         /\ files'.attempt = files.attempt /\ files'.anomalies = files.anomalies
         /\ files'.status = files.status /\ files'.stale = files.stale
<1>1. Moved /\ files' = [files EXCEPT !.result = i]
  BY DEF MakeWrite, Write, Moved
<1> QED
  BY <1>1, BoundsAssumption DEF TypeOK, Moved, Attempt

\* The types of the fields.
LEMMA Fields ==
  ASSUME TypeOK
  PROVE  /\ files.attempt \in [Attempt -> Ending \cup {"live", "absent", "directory"}]
         /\ files.anomalies \in [Attempt -> Anomalies]
         /\ files.status \in StatusRecord /\ files.status.attempt \in 0..AttemptBound
         /\ files.stale \in StatusRecord /\ files.stale.attempt \in 0..AttemptBound
         /\ files.status = NoStatus \/ files.status.state \in StatusState
         /\ files.result \in 0..AttemptBound
BY BoundsAssumption DEF TypeOK, StatusRecord, NoStatus, Status

LEMMA StartTails ==
  ASSUME NEW k, NEW d
  PROVE  /\ Head(StartSeq(k, d)) = Write("attempt", k, "directory")
         /\ Head(Tail(StartSeq(k, d))) = Write("attempt", k, "live")
         /\ d = "running" =>
              Tail(Tail(StartSeq(k, d))) = <<Write("status", k, "running")>>
         /\ d = "live" =>
              Tail(Tail(StartSeq(k, d))) = <<Write("status", k, "failed")>>
         /\ d \notin {"running", "live"} =>
              Tail(Tail(StartSeq(k, d))) =
                <<Write("anomalies", k, "none"), Write("attempt", k, d),
                  Write("status", k, "failed")>>
         /\ StartSeq(k, d) # <<>> /\ Tail(StartSeq(k, d)) # <<>>
BY DEF StartSeq

LEMMA EndTails ==
  ASSUME NEW n, NEW d, NEW a, NEW k \in EndKind
  PROVE  /\ Head(EndSeq(n, d, a, k)) = Write("anomalies", n, a)
         /\ Head(Tail(EndSeq(n, d, a, k))) = Write("attempt", n, d)
         /\ k \in {"retry", "shown"} => Tail(Tail(EndSeq(n, d, a, k))) = <<>>
         /\ k = "status" =>
              Tail(Tail(EndSeq(n, d, a, k))) = <<Write("status", n, Projection(d, a))>>
         /\ k = "result" =>
              Tail(Tail(EndSeq(n, d, a, k))) =
                <<Write("status", n, Projection(d, a)), Write("result", n, "published")>>
         /\ EndSeq(n, d, a, k) # <<>> /\ Tail(EndSeq(n, d, a, k)) # <<>>
<1>1. k = "status" \/ k = "result" \/ k = "retry" \/ k = "shown"
  BY DEF EndKind
<1>2. CASE k = "status"
  BY <1>2 DEF EndSeq
<1>3. CASE k = "result"
  <2> DEFINE w == Write("anomalies", n, a)
             x == Write("attempt", n, d)
             y == Write("status", n, Projection(d, a))
             z == Write("result", n, "published")
  <2>1. EndSeq(n, d, a, k) = <<w, x, y, z>>
    BY <1>3 DEF EndSeq
  <2>2. k # "status" /\ k \notin {"retry", "shown"}
    BY <1>3
  <2> HIDE DEF w, x, y, z
  <2>3. /\ Head(<<w, x, y, z>>) = w /\ Head(Tail(<<w, x, y, z>>)) = x
        /\ Tail(Tail(<<w, x, y, z>>)) = <<y, z>>
        /\ <<w, x, y, z>> # <<>> /\ Tail(<<w, x, y, z>>) # <<>>
    OBVIOUS
  <2> QED
    BY <2>1, <2>2, <2>3, Zenon DEF w, x, y, z
<1>4. CASE k \in {"retry", "shown"}
  <2>1. EndSeq(n, d, a, k) = <<Write("anomalies", n, a), Write("attempt", n, d)>>
    BY <1>4 DEF EndSeq
  <2>2. k # "status" /\ k # "result"
    BY <1>4
  <2>3. \A w, x : /\ Head(<<w, x>>) = w /\ Head(Tail(<<w, x>>)) = x
                  /\ Tail(Tail(<<w, x>>)) = <<>> /\ <<w, x>> # <<>> /\ Tail(<<w, x>>) # <<>>
    OBVIOUS
  <2> QED
    BY <1>4, <2>1, <2>2, <2>3, Zenon
<1> QED
  BY <1>1, <1>2, <1>3, <1>4

LEMMA EndRest ==
  ASSUME NEW n, NEW d, NEW a
  PROVE  /\ Tail(Tail(EndSeq(n, d, a, "status"))) = <<Write("status", n, Projection(d, a))>>
         /\ Tail(Tail(EndSeq(n, d, a, "result"))) =
              <<Write("status", n, Projection(d, a)), Write("result", n, "published")>>
<1>1. "status" \in EndKind /\ "result" \in EndKind
  BY DEF EndKind
<1>2. Tail(Tail(EndSeq(n, d, a, "status"))) = <<Write("status", n, Projection(d, a))>>
  BY <1>1, EndTails
<1>3. Tail(Tail(EndSeq(n, d, a, "result"))) =
        <<Write("status", n, Projection(d, a)), Write("result", n, "published")>>
  BY <1>1, EndTails
<1> QED
  BY <1>2, <1>3

LEMMA StartingStep ==
  ASSUME TypeOK, MakeWrite, NEW n \in 0..AttemptBound, Common(n), Starting(n)
  PROVE  Inv'
<1> USE BoundsAssumption
<1>1. PICK d \in StartKind :
        /\ n + 1 \in Attempt /\ ~ Live(n) /\ StartLeads(n + 1, d)
        /\ \/ files.attempt[n + 1] = "absent" /\ todo = StartSeq(n + 1, d)
           \/ files.attempt[n + 1] = "directory" /\ todo = Tail(StartSeq(n + 1, d))
  BY DEF Starting
<1>2. n + 1 \in 0..AttemptBound /\ n + 1 # n
  BY <1>1 DEF Attempt
<1>3. CASE files.attempt[n + 1] = "absent" /\ todo = StartSeq(n + 1, d)
  <2>1. /\ TypeOK' /\ Moved
        /\ files'.attempt = [files.attempt EXCEPT ![n + 1] = "directory"]
        /\ files'.anomalies = files.anomalies /\ files'.status = files.status
        /\ files'.stale = files.stale /\ files'.result = files.result
    BY <1>1, <1>3, AttemptWritten, StartTails
  <2>2. Common(n)'
    BY <1>1, <1>2, <2>1, Fields DEF Attempt, Common, Ordered, Consistent, Terminal, Ending, Live,
       Superseded, StatusHonest
  <2>3. Starting(n)'
    BY <1>1, <1>2, <1>3, <2>1, Fields DEF Attempt, Starting, Live, StartLeads, Moved
  <2> QED
    BY <2>1, <2>2, <2>3 DEF Inv, Point
<1>4. CASE files.attempt[n + 1] = "directory" /\ todo = Tail(StartSeq(n + 1, d))
  <2>1. /\ TypeOK' /\ Moved
        /\ files'.attempt = [files.attempt EXCEPT ![n + 1] = "live"]
        /\ files'.anomalies = files.anomalies /\ files'.status = files.status
        /\ files'.stale = files.stale /\ files'.result = files.result
    BY <1>1, <1>4, AttemptWritten, StartTails
  <2>2. Common(n + 1)'
    <3>1. Ordered(files, n + 1)'
      BY <1>1, <1>2, <2>1, Fields DEF Attempt, Common, Ordered, Live, Ending
    <3>2. \A i \in Attempt : Consistent(files, i)'
      BY <1>1, <2>1, Fields DEF Common, Consistent, Terminal, Ending
    <3>3. /\ files'.status.attempt <= n + 1 /\ files'.stale.attempt <= n + 1
          /\ files'.result <= n + 1 /\ Superseded(n + 1)'
      BY <2>1, Fields DEF Common, Superseded
    <3>4. StatusHonest'
      BY <1>1, <1>2, <2>1, Fields DEF Common, StatusHonest, Attempt
    <3> QED
      BY <3>1, <3>2, <3>3, <3>4 DEF Common
  <2>3. Live(n + 1)' /\ NoDirectory(n + 1)'
    BY <1>1, <1>2, <2>1, Fields DEF Attempt, Common, Ordered, Live, NoDirectory
  <2>4. CASE d \in {"running", "live"}
    <3>1. Showing(n + 1)'
      BY <1>1, <1>2, <1>4, <2>1, <2>3, <2>4, StartTails DEF Showing, StartLeads, Moved
    <3> QED
      BY <1>2, <2>1, <2>2, <3>1 DEF Inv, Point
  <2>5. CASE d \notin {"running", "live"}
    <3>1. todo' = EndSeq(n + 1, d, "none", "status")
      BY <1>1, <1>4, <2>1, <2>5, StartTails DEF StartKind, EndSeq, Projection, Moved
    <3>2. EndLeads(n + 1, d, "none", "status")'
      BY <1>1, <2>1, <2>5 DEF StartKind, StartLeads, EndLeads, Moved
    <3>3. Finishing(n + 1)'
      <4>1. d \in Ending /\ "none" \in Anomalies /\ "status" \in EndKind /\ n + 1 # 0
        BY <2>5 DEF StartKind, Ending, Anomalies, EndKind
      <4>2. d # "succeeded"
        BY <2>5 DEF StartKind
      <4> QED
        BY <2>3, <3>1, <3>2, <4>1, <4>2 DEF Finishing
    <3> QED
      BY <1>2, <2>1, <2>2, <3>3 DEF Inv, Point
  <2> QED
    BY <2>4, <2>5
<1> QED
  BY <1>1, <1>3, <1>4

LEMMA ShowingStep ==
  ASSUME TypeOK, MakeWrite, NEW n \in 0..AttemptBound, Common(n), Showing(n)
  PROVE  Inv'
<1> USE BoundsAssumption
<1> DEFINE s == IF phase = "running" THEN "running" ELSE "failed"
<1>1. /\ n \in Attempt /\ Live(n) /\ NoDirectory(n) /\ held = n /\ phase \in {"running", "failing"}
      /\ s \in StatusState /\ todo = <<Write("status", n, s)>>
  BY DEF Showing, Attempt, StatusState
<1> HIDE DEF s
<1>2. /\ TypeOK' /\ Moved
      /\ files'.status = Status(s, n)
      /\ files'.attempt = files.attempt /\ files'.anomalies = files.anomalies
      /\ files'.stale = files.stale /\ files'.result = files.result
  <2>1. Head(todo) = Write("status", n, s)
    BY <1>1
  <2> QED
    BY <1>1, <2>1, StatusWritten
<1>3. todo' = <<>>
  BY <1>1, <1>2 DEF Moved
<1>4. Common(n)'
  <2>1. s # "completed"
    BY DEF s
  <2>2. files'.status # NoStatus /\ files'.status.attempt = n /\ files'.status.state = s
    BY <1>1, <1>2 DEF Status, NoStatus, Attempt
  <2>3. StatusHonest'
    BY <1>1, <1>2, <2>1, <2>2 DEF StatusHonest, Common, Live
  <2> QED
    BY <1>1, <1>2, <2>2, <2>3, Fields DEF Common, Ordered, Consistent, Terminal, Live, Superseded
<1>5. Attending(n)'
  BY <1>1, <1>2, <1>3 DEF Attending, Live, NoDirectory, Moved, Attempt, s
<1> QED
  BY <1>2, <1>4, <1>5 DEF Inv, Point

LEMMA ProjectionIs ==
  ASSUME NEW d \in Ending, NEW a \in Anomalies
  PROVE  /\ Projection(d, a) \in {"completed", "failed", "deferred"}
         /\ Projection(d, a) = "completed" <=> d = "succeeded" /\ a # "partial"
         /\ Projection(d, a) = "failed" <=> d # "succeeded"
BY DEF Projection, Ending, Anomalies

LEMMA FinishingStep ==
  ASSUME TypeOK, MakeWrite, NEW n \in 0..AttemptBound, Common(n), Finishing(n)
  PROVE  Inv'
<1> USE BoundsAssumption
<1>1. PICK d \in Ending, a \in Anomalies, k \in EndKind :
        /\ n # 0 /\ Live(n) /\ NoDirectory(n) /\ EndLeads(n, d, a, k)
        /\ d # "succeeded" => a = "none"
        /\ d = "succeeded" => files.status # Status("failed", n)
        /\ \/ todo = EndSeq(n, d, a, k)
           \/ files.anomalies[n] = a /\ todo = Tail(EndSeq(n, d, a, k))
  BY DEF Finishing
<1>2. n \in Attempt
  BY <1>1 DEF Attempt
<1>3. CASE todo = EndSeq(n, d, a, k)
  <2>0. Head(todo) = Write("anomalies", n, a)
    <3>1. Head(EndSeq(n, d, a, k)) = Write("anomalies", n, a)
      BY <1>1, EndTails
    <3> QED
      BY <3>1, <1>3
  <2>1. /\ TypeOK' /\ Moved
        /\ files'.anomalies = [files.anomalies EXCEPT ![n] = a]
        /\ files'.attempt = files.attempt /\ files'.status = files.status
        /\ files'.stale = files.stale /\ files'.result = files.result
    BY <1>2, <2>0, AnomaliesWritten
  <2>2. files'.anomalies[n] = a /\ \A i \in Attempt \ {n} : files'.anomalies[i] = files.anomalies[i]
    BY <1>2, <2>1, Fields
  <2>3. Common(n)'
    <3>1. \A i \in Attempt : Consistent(files, i)'
      BY <1>1, <2>1, <2>2 DEF Common, Consistent, Terminal, Live, Ending
    <3>2. StatusHonest'
      BY <1>1, <2>1, <2>2, Fields DEF Common, StatusHonest, Live, Attempt
    <3> QED
      BY <2>1, <3>1, <3>2 DEF Common, Ordered, Live, Superseded
  <2>4. Finishing(n)'
    <3>1. /\ Live(n)' /\ NoDirectory(n)' /\ EndLeads(n, d, a, k)'
          /\ todo' = Tail(EndSeq(n, d, a, k))
      BY <1>1, <1>3, <2>1 DEF Live, NoDirectory, EndLeads, Moved
    <3>2. d = "succeeded" => files'.status # Status("failed", n)
      BY <1>1, <2>1
    <3> QED
      BY <1>1, <2>2, <3>1, <3>2 DEF Finishing
  <2> QED
    BY <2>1, <2>3, <2>4 DEF Inv, Point
<1>4. CASE files.anomalies[n] = a /\ todo = Tail(EndSeq(n, d, a, k))
  <2>0. Head(todo) = Write("attempt", n, d)
    BY <1>1, <1>4, EndTails
  <2>1. /\ TypeOK' /\ Moved
        /\ files'.attempt = [files.attempt EXCEPT ![n] = d]
        /\ files'.anomalies = files.anomalies /\ files'.status = files.status
        /\ files'.stale = files.stale /\ files'.result = files.result
    BY <1>2, <2>0, AttemptWritten
  <2>2. files'.attempt[n] = d /\ \A i \in Attempt \ {n} : files'.attempt[i] = files.attempt[i]
    BY <1>2, <2>1, Fields
  <2>3. Common(n)'
    <3>1. Ordered(files, n)'
      BY <2>1, <2>2 DEF Common, Ordered
    <3>2. \A i \in Attempt : Consistent(files, i)'
      BY <1>1, <1>4, <2>1, <2>2 DEF Common, Consistent, Terminal
    <3>3. StatusHonest'
      <4>1. files.status.attempt # 0 /\ files.status.state = "failed" =>
              files'.attempt[files.status.attempt] # "succeeded"
        <5>1. files.status.attempt = n /\ files.status.state = "failed" =>
                files.status = Status("failed", n)
          BY <1>2, Fields DEF StatusRecord, Status, NoStatus, Attempt
        <5> QED
          BY <1>1, <2>2, <5>1, Fields DEF Common, StatusHonest, Attempt
      <4>2. files.status.attempt = n => files.status.state # "completed"
        BY <1>1, <1>2 DEF Common, StatusHonest, Live, Attempt
      <4>3. files.result # n
        BY <1>1, <1>2 DEF Common, StatusHonest, Live, Attempt
      <4> QED
        BY <2>1, <2>2, <4>1, <4>2, <4>3, Fields DEF Common, StatusHonest, Attempt
    <3>4. ~ Live(n)'
      BY <2>2 DEF Live, Ending
    <3> QED
      BY <2>1, <3>1, <3>2, <3>3, <3>4 DEF Common
  <2>4. ~ Live(n)' /\ NoDirectory(n)' /\ Superseded(n)'
    BY <1>1, <2>1, <2>2, Fields DEF Live, NoDirectory, Superseded, Ending, Common, Attempt
  <2>5. todo' = Tail(Tail(EndSeq(n, d, a, k)))
    BY <1>4, <2>1 DEF Moved
  <2>6. CASE k = "retry"
    <3>1. todo' = <<>>
      BY <2>5, <2>6, EndTails
    <3>2. Backoff(n)'
      BY <1>1, <2>1, <2>2, <2>4, <2>6, <3>1 DEF Backoff, EndLeads, Moved
    <3> QED
      BY <2>1, <2>3, <3>2 DEF Inv, Point
  <2>7. CASE k = "shown"
    <3>1. todo' = <<>>
      BY <2>5, <2>7, EndTails
    <3>2. Waiting(n)'
      BY <1>1, <1>4, <2>1, <2>2, <2>4, <2>7, <3>1 DEF Waiting, EndLeads, Moved
    <3> QED
      BY <2>1, <2>3, <3>2 DEF Inv, Point
  <2>8. CASE k \in {"status", "result"}
    <3>1. EndLeads(n, files.attempt[n], files.anomalies[n], k)'
      BY <1>1, <1>4, <2>1, <2>2, <2>8 DEF EndLeads, Moved
    <3>2. todo' = Tail(Tail(EndSeq(n, files'.attempt[n], files'.anomalies[n], k)))
      BY <1>4, <2>1, <2>2, <2>5
    <3>3. Projecting(n)'
      BY <1>1, <2>4, <2>8, <3>1, <3>2 DEF Projecting
    <3> QED
      BY <2>1, <2>3, <3>3 DEF Inv, Point
  <2> QED
    BY <2>6, <2>7, <2>8 DEF EndKind
<1> QED
  BY <1>1, <1>3, <1>4

LEMMA ProjectingStep ==
  ASSUME TypeOK, MakeWrite, NEW n \in 0..AttemptBound, Common(n), Projecting(n)
  PROVE  Inv'
<1> USE BoundsAssumption
<1> DEFINE d == files.attempt[n]
           a == files.anomalies[n]
<1>1. PICK k \in {"status", "result"} :
        /\ n # 0 /\ ~ Live(n) /\ NoDirectory(n) /\ EndLeads(n, d, a, k) /\ Superseded(n)
        /\ todo = Tail(Tail(EndSeq(n, d, a, k)))
  BY DEF Projecting
<1>2. /\ n \in Attempt /\ d \in Ending /\ a \in Anomalies
  BY <1>1, Fields DEF Attempt, Common, Ordered, Live
<1> DEFINE s == Projection(d, a)
<1>3. /\ s \in {"completed", "failed", "deferred"} /\ s \in StatusState
      /\ s = "completed" <=> d = "succeeded" /\ a # "partial"
      /\ s = "failed" <=> d # "succeeded"
  BY <1>2, ProjectionIs DEF StatusState
<1>4. /\ Head(todo) = Write("status", n, s)
      /\ k = "status" => Tail(todo) = <<>>
      /\ k = "result" => Tail(todo) = <<Write("result", n, "published")>>
  <2>1. CASE k = "status"
    <3>1. todo = <<Write("status", n, s)>>
      BY <1>1, <2>1, EndRest
    <3> QED
      BY <2>1, <3>1
  <2>2. CASE k = "result"
    <3>1. Tail(Tail(EndSeq(n, d, a, k))) =
            <<Write("status", n, s), Write("result", n, "published")>>
      BY <2>2, EndRest, Zenon
    <3>2. todo = <<Write("status", n, s), Write("result", n, "published")>>
      BY <1>1, <3>1
    <3> QED
      BY <2>2, <3>2
  <2> QED
    BY <1>1, <2>1, <2>2
<1> HIDE DEF s
<1>5. /\ TypeOK' /\ Moved
      /\ files'.status = Status(s, n)
      /\ files'.attempt = files.attempt /\ files'.anomalies = files.anomalies
      /\ files'.stale = files.stale /\ files'.result = files.result
  BY <1>2, <1>3, <1>4, StatusWritten
<1>6. files'.status # NoStatus /\ files'.status.attempt = n /\ files'.status.state = s
  BY <1>3, <1>5 DEF Status, NoStatus
<1>7. Common(n)'
  <2>1. StatusHonest'
    BY <1>3, <1>5, <1>6 DEF StatusHonest, Common
  <2> QED
    BY <1>5, <1>6, <2>1 DEF Common, Ordered, Consistent, Terminal, Live, Superseded
<1>8. NoDirectory(n)' /\ ~ Live(n)'
  BY <1>1, <1>5 DEF NoDirectory, Live
<1>9. CASE k = "status"
  <2>1. Waiting(n)'
    BY <1>1, <1>4, <1>5, <1>8, <1>9 DEF Waiting, EndLeads, Moved, s
  <2> QED
    BY <1>5, <1>7, <2>1 DEF Inv, Point
<1>10. CASE k = "result"
  <2>1. Publishing(n)'
    BY <1>1, <1>4, <1>5, <1>8, <1>10 DEF Publishing, EndLeads, Moved, s
  <2> QED
    BY <1>5, <1>7, <2>1 DEF Inv, Point
<1> QED
  BY <1>1, <1>9, <1>10

LEMMA PublishingStep ==
  ASSUME TypeOK, MakeWrite, NEW n \in 0..AttemptBound, Common(n), Publishing(n)
  PROVE  Inv'
<1> USE BoundsAssumption
<1>1. /\ n \in Attempt /\ n # 0 /\ NoDirectory(n) /\ phase = "idle" /\ held = 0
      /\ files.status = Status("completed", n) /\ todo = <<Write("result", n, "published")>>
  BY DEF Publishing, Attempt
<1>2. /\ TypeOK' /\ Moved
      /\ files'.result = n
      /\ files'.attempt = files.attempt /\ files'.anomalies = files.anomalies
      /\ files'.status = files.status /\ files'.stale = files.stale
  <2>1. Head(todo) = Write("result", n, "published")
    BY <1>1
  <2> QED
    BY <1>1, <2>1, ResultWritten
<1>3. files.attempt[n] = "succeeded" /\ files.anomalies[n] # "partial"
  BY <1>1 DEF Common, StatusHonest, Status
<1>4. Common(n)'
  BY <1>2, <1>3 DEF Common, Ordered, Consistent, Terminal, Live, Superseded, StatusHonest
<1>5. Waiting(n)'
  BY <1>1, <1>2, <1>3 DEF Waiting, NoDirectory, Live, Moved
<1> QED
  BY <1>2, <1>4, <1>5 DEF Inv, Point

LEMMA LegacyStep ==
  ASSUME TypeOK, MakeWrite, NEW n \in 0..AttemptBound, Common(n), Legacy(n)
  PROVE  Inv'
<1> USE BoundsAssumption
<1>1. PICK s \in {"completed", "failed"} : todo = <<Write("status", 0, s)>>
  BY DEF Legacy
<1>2. n = 0 /\ NoDirectory(n) /\ phase \in {"fresh", "idle"} /\ held = 0
  BY DEF Legacy
<1>3. /\ TypeOK' /\ Moved
      /\ files'.status = Status(s, 0)
      /\ files'.attempt = files.attempt /\ files'.anomalies = files.anomalies
      /\ files'.stale = files.stale /\ files'.result = files.result
  <2>1. Head(todo) = Write("status", 0, s)
    BY <1>1
  <2> QED
    BY <2>1, StatusWritten DEF StatusState
<1>4. Common(n)'
  BY <1>2, <1>3 DEF Common, Ordered, Consistent, Terminal, Live, Superseded, StatusHonest, Status
<1>5. Waiting(n)'
  BY <1>1, <1>2, <1>3 DEF Waiting, NoDirectory, Live, Moved, Status
<1> QED
  BY <1>3, <1>4, <1>5 DEF Inv, Point

\* The process is between two operations exactly when nothing is left to write.
LEMMA Between ==
  ASSUME NEW n \in 0..AttemptBound, Point(n)
  PROVE  IF todo = <<>> THEN Waiting(n) \/ Attending(n) \/ Backoff(n) \/ Dead
         ELSE Starting(n) \/ Showing(n) \/ Finishing(n) \/ Projecting(n) \/ Publishing(n)
              \/ Legacy(n)
<1>1. Starting(n) => todo # <<>>
  BY StartTails DEF Starting
<1>2. Showing(n) => todo # <<>>
  BY DEF Showing
<1>3. Finishing(n) => todo # <<>>
  BY EndTails DEF Finishing
<1>4. Projecting(n) => todo # <<>>
  <2>1. \A x, y : <<x>> # <<>> /\ <<x, y>> # <<>>
    OBVIOUS
  <2>2. \A d, a : \A k \in {"status", "result"} : Tail(Tail(EndSeq(n, d, a, k))) # <<>>
    BY <2>1, EndRest, Zenon
  <2> QED
    BY <2>2 DEF Projecting
<1>5. Publishing(n) => todo # <<>>
  BY DEF Publishing
<1>6. Legacy(n) => todo # <<>>
  BY DEF Legacy
<1>7. Waiting(n) \/ Attending(n) \/ Backoff(n) \/ Dead => todo = <<>>
  BY DEF Waiting, Attending, Backoff, Dead
<1> QED
  BY <1>1, <1>2, <1>3, <1>4, <1>5, <1>6, <1>7 DEF Point

LEMMA MakeWriteStep ==
  ASSUME Inv, MakeWrite
  PROVE  Inv'
<1>1. PICK n \in 0..AttemptBound : Common(n) /\ Point(n)
  BY DEF Inv
<1>2. TypeOK /\ todo # <<>>
  BY DEF Inv, MakeWrite
<1> QED
  BY <1>1, <1>2, Between, StartingStep, ShowingStep, FinishingStep, ProjectingStep,
     PublishingStep, LegacyStep

-----------------------------------------------------------------------------
(* Every operation, as it is called, keeps the invariant. *)

Phases == {"down", "fresh", "idle", "running", "failing", "backoff"}

\* A call leaves the files alone and says what is to be written.
LEMMA Called ==
  ASSUME TypeOK, NEW n \in 0..AttemptBound, Common(n), NEW from, NEW writes,
         NEW to \in Phases, NEW i \in 0..AttemptBound, Call(from, writes, to, i)
  PROVE  /\ TypeOK' /\ Common(n)' /\ todo = <<>> /\ phase \in from
         /\ files' = files /\ todo' = writes /\ phase' = to /\ held' = i
<1>1. /\ todo = <<>> /\ phase \in from /\ crashes' = crashes
      /\ files' = files /\ todo' = writes /\ phase' = to /\ held' = i
  BY DEF Call
<1>2. TypeOK'
  BY <1>1 DEF TypeOK, Phases
<1>3. Common(n)'
  BY <1>1 DEF Common, Live, Superseded, StatusHonest
<1> QED
  BY <1>1, <1>2, <1>3

\* What a start needs, and what it writes.
LEMMA StartIs ==
  ASSUME NEW n \in 0..AttemptBound, Common(n), StartAccepted(files)
  PROVE  /\ NextAttempt(files) = n + 1 /\ n + 1 \in Attempt
         /\ files.attempt[n + 1] = "absent"
         /\ MarkRunning(n + 1) = StartSeq(n + 1, "running")
         /\ \A d \in StartKind \ {"running"} : MarkFailedSynthetic(n + 1, d) = StartSeq(n + 1, d)
<1>1. Complete(files) /\ NextAttempt(files) \in Attempt
  BY DEF StartAccepted, Readable
<1>2. NextAttempt(files) = n + 1
  BY <1>1, LatestIs DEF Common
<1>3. files.attempt[n + 1] = "absent"
  BY <1>1, <1>2, BoundsAssumption DEF Common, Ordered, Complete
<1>4. MarkRunning(n + 1) = StartSeq(n + 1, "running")
  BY Joined DEF MarkRunning, StartAttempt, WriteStatus, StartSeq
<1>5. ASSUME NEW d \in {"cancelled", "permanent"}
      PROVE  MarkFailedSynthetic(n + 1, d) = StartSeq(n + 1, d)
  <2>1. d # "live" /\ d # "running"
    BY <1>5
  <2>2. StartAttempt(n + 1) \o <<Write("anomalies", n + 1, "none"), Write("attempt", n + 1, d)>>
          = <<Write("attempt", n + 1, "directory"), Write("attempt", n + 1, "live"),
              Write("anomalies", n + 1, "none"), Write("attempt", n + 1, d)>>
    BY Joined DEF StartAttempt
  <2>3. MarkFailedSynthetic(n + 1, d) =
          (StartAttempt(n + 1) \o <<Write("anomalies", n + 1, "none"), Write("attempt", n + 1, d)>>)
            \o <<Write("status", n + 1, "failed")>>
    BY <2>1 DEF MarkFailedSynthetic, WriteStatus
  <2>4. StartSeq(n + 1, d) =
          <<Write("attempt", n + 1, "directory"), Write("attempt", n + 1, "live"),
            Write("anomalies", n + 1, "none"), Write("attempt", n + 1, d),
            Write("status", n + 1, "failed")>>
    BY <2>1 DEF StartSeq
  <2>5. <<Write("attempt", n + 1, "directory"), Write("attempt", n + 1, "live"),
          Write("anomalies", n + 1, "none"), Write("attempt", n + 1, d)>>
            \o <<Write("status", n + 1, "failed")>> = StartSeq(n + 1, d)
    BY <2>4, Joined
  <2> QED
    BY <2>2, <2>3, <2>5, Zenon
<1>6. MarkFailedSynthetic(n + 1, "live") = StartSeq(n + 1, "live")
  <2>1. StartAttempt(n + 1) \o <<>> = StartAttempt(n + 1)
    BY DEF StartAttempt
  <2> QED
    BY <2>1, Joined DEF MarkFailedSynthetic, StartAttempt, WriteStatus, StartSeq
<1> QED
  BY <1>1, <1>2, <1>3, <1>4, <1>5, <1>6 DEF StartKind

LEMMA LaunchStep ==
  ASSUME Inv, Launch \/ \E d \in {"live", "cancelled", "permanent"} : LaunchFails(d)
  PROVE  Inv'
<1>1. PICK n \in 0..AttemptBound : Common(n) /\ Point(n)
  BY DEF Inv
<1>2. StartAccepted(files)
  BY DEF Launch, LaunchFails
<1>3. /\ NextAttempt(files) = n + 1 /\ n + 1 \in Attempt /\ n + 1 \in 0..AttemptBound
      /\ files.attempt[n + 1] = "absent"
      /\ MarkRunning(n + 1) = StartSeq(n + 1, "running")
      /\ \A d \in StartKind \ {"running"} : MarkFailedSynthetic(n + 1, d) = StartSeq(n + 1, d)
  BY <1>1, <1>2, StartIs, BoundsAssumption DEF Attempt
<1>4. ASSUME NEW d \in StartKind, NEW from \in SUBSET {"fresh", "idle", "backoff"},
             NEW to \in Phases, NEW i \in 0..AttemptBound,
             Call(from, StartSeq(n + 1, d), to, i),
             \/ d = "running" /\ to = "running" /\ i = n + 1
             \/ d = "live" /\ to = "failing" /\ i = n + 1
             \/ d \notin {"running", "live"} /\ to = "idle" /\ i = 0
      PROVE  Inv'
  <2>1. /\ TypeOK' /\ Common(n)' /\ todo = <<>> /\ phase \in from
        /\ files' = files /\ todo' = StartSeq(n + 1, d) /\ phase' = to /\ held' = i
    BY <1>1, <1>4, Called DEF Inv
  <2>2. Waiting(n) \/ Backoff(n)
    BY <1>1, <1>4, <2>1, Between DEF Attending, Dead
  <2>3. ~ Live(n)
    BY <2>2 DEF Waiting, Backoff, Live
  <2>4. StartLeads(n + 1, d)'
    BY <1>4, <2>1 DEF StartLeads
  <2>5. Starting(n)'
    BY <1>3, <2>1, <2>3, <2>4 DEF Starting, Live
  <2> QED
    BY <2>1, <2>5 DEF Inv, Point
<1>5. CASE Launch
  <2>1. Call({"fresh", "idle", "backoff"}, StartSeq(n + 1, "running"), "running", n + 1)
    BY <1>3, <1>5 DEF Launch
  <2>2. "running" \in StartKind /\ "running" \in Phases
    BY DEF StartKind, Phases
  <2> QED
    BY <1>3, <1>4, <2>1, <2>2
<1>6. CASE \E d \in {"live", "cancelled", "permanent"} : LaunchFails(d)
  <2>1. PICK d \in {"live", "cancelled", "permanent"} : LaunchFails(d)
    BY <1>6
  <2>2. Call({"fresh", "idle"}, StartSeq(n + 1, d), IF d = "live" THEN "failing" ELSE "idle",
             IF d = "live" THEN n + 1 ELSE 0)
    BY <1>3, <2>1 DEF LaunchFails, StartKind
  <2>3. CASE d = "live"
    <3>1. Call({"fresh", "idle"}, StartSeq(n + 1, d), "failing", n + 1) /\ "failing" \in Phases
      BY <2>2, <2>3 DEF Phases
    <3> QED
      BY <1>3, <1>4, <2>3, <3>1 DEF StartKind
  <2>4. CASE d # "live"
    <3>1. Call({"fresh", "idle"}, StartSeq(n + 1, d), "idle", 0) /\ "idle" \in Phases
      BY <2>2, <2>4 DEF Phases
    <3>2. d \in StartKind /\ d # "running" /\ 0 \in 0..AttemptBound
      BY BoundsAssumption DEF StartKind
    <3> QED
      BY <1>4, <2>4, <3>1, <3>2
  <2> QED
    BY <2>3, <2>4
<1> QED
  BY <1>5, <1>6

\* What ending an attempt writes.
LEMMA EndIs ==
  ASSUME NEW n, n # 0, NEW d \in Ending, NEW a \in Anomalies, ~ SameFact(files, n, d, a)
  PROVE  /\ EndAttempt(files, n, d, a) = EndSeq(n, d, a, "retry")
         /\ EndAttempt(files, n, d, a) = EndSeq(n, d, a, "shown")
         /\ EndAttempt(files, n, d, a) \o <<>> = EndSeq(n, d, a, "shown")
         /\ EndAttempt(files, n, d, a) \o <<Write("status", n, Projection(d, a))>>
              = EndSeq(n, d, a, "status")
         /\ (EndAttempt(files, n, d, a) \o <<Write("status", n, Projection(d, a))>>)
              \o <<Write("result", n, "published")>> = EndSeq(n, d, a, "result")
<1>1. EndAttempt(files, n, d, a) = <<Write("anomalies", n, a), Write("attempt", n, d)>>
  BY DEF EndAttempt
<1>2. /\ EndSeq(n, d, a, "retry") = <<Write("anomalies", n, a), Write("attempt", n, d)>>
      /\ EndSeq(n, d, a, "shown") = <<Write("anomalies", n, a), Write("attempt", n, d)>>
      /\ EndSeq(n, d, a, "status") = <<Write("anomalies", n, a), Write("attempt", n, d),
                                       Write("status", n, Projection(d, a))>>
      /\ EndSeq(n, d, a, "result") = <<Write("anomalies", n, a), Write("attempt", n, d),
                                       Write("status", n, Projection(d, a)),
                                       Write("result", n, "published")>>
  BY DEF EndSeq
<1>3. EndAttempt(files, n, d, a) \o <<Write("status", n, Projection(d, a))>>
        = EndSeq(n, d, a, "status")
  BY <1>1, <1>2, Joined
<1>4. EndSeq(n, d, a, "status") \o <<Write("result", n, "published")>> = EndSeq(n, d, a, "result")
  <2>1. <<Write("anomalies", n, a), Write("attempt", n, d), Write("status", n, Projection(d, a))>>
          \o <<Write("result", n, "published")>> = EndSeq(n, d, a, "result")
    BY <1>2, Joined
  <2> QED
    BY <1>2, <2>1
<1>5. EndAttempt(files, n, d, a) \o <<>> = EndSeq(n, d, a, "shown")
  BY <1>1, <1>2, Joined
<1> QED
  BY <1>1, <1>2, <1>3, <1>4, <1>5, Zenon

\* A call of a runner that attends to a live attempt and ends it.
LEMMA EndCalled ==
  ASSUME Inv, NEW from \in SUBSET {"running", "failing"}, NEW to \in {"idle", "backoff"},
         NEW i \in 0..AttemptBound, NEW d \in Ending, NEW a \in Anomalies,
         NEW k \in {"retry", "status", "result"},
         Call(from, EndSeq(held, d, a, k), to, i),
         d # "succeeded" => a = "none",
         d = "succeeded" => from = {"running"},
         k = "retry" => from = {"running"} /\ to = "backoff" /\ i = held /\ d = "retryable",
         k # "retry" => to = "idle" /\ i = 0,
         k = "result" => Projection(d, a) = "completed"
  PROVE  Inv'
<1>1. PICK n \in 0..AttemptBound : Common(n) /\ Point(n)
  BY DEF Inv
<1>2. /\ TypeOK' /\ Common(n)' /\ todo = <<>> /\ phase \in from
      /\ files' = files /\ todo' = EndSeq(held, d, a, k) /\ phase' = to /\ held' = i
  <2>1. to \in Phases
    BY DEF Phases
  <2> QED
    BY <1>1, <2>1, Called DEF Inv
<1>3. Attending(n)
  BY <1>1, <1>2, Between DEF Waiting, Backoff, Dead
<1>4. EndLeads(n, d, a, k)'
  BY <1>2, <1>3 DEF EndLeads, Attending
<1>5. d = "succeeded" => files'.status # Status("failed", n)
  BY <1>2, <1>3 DEF Attending, Status
<1>6. k \in EndKind
  BY DEF EndKind
<1>7. Finishing(n)'
  BY <1>2, <1>3, <1>4, <1>5, <1>6 DEF Finishing, Attending, Live, NoDirectory
<1> QED
  BY <1>2, <1>7 DEF Inv, Point

\* A runner that is called while it attends to an attempt holds one that is live.
LEMMA HeldLive ==
  ASSUME Inv, todo = <<>>, phase \in {"running", "failing"}
  PROVE  held \in Attempt /\ held # 0 /\ files.attempt[held] = "live"
<1>1. PICK n \in 0..AttemptBound : Common(n) /\ Point(n)
  BY DEF Inv
<1>2. Attending(n)
  BY <1>1, Between DEF Waiting, Backoff, Dead
<1> QED
  BY <1>2, BoundsAssumption DEF Attending, Live, Attempt

LEMMA SucceedStep ==
  ASSUME Inv, NEW a \in {"none", "warned"}, Succeed(a)
  PROVE  Inv'
<1>1. todo = <<>> /\ phase = "running"
  BY DEF Succeed, Call
<1>2. held # 0 /\ files.attempt[held] = "live"
  BY <1>1, HeldLive
<1>3. "succeeded" \in Ending /\ a \in Anomalies /\ Projection("succeeded", a) = "completed"
  BY DEF Ending, Anomalies, Projection
<1>4. ~ SameFact(files, held, "succeeded", a)
  BY <1>2 DEF SameFact
<1>5. MarkCompleted(files, held, a) \o Publish(held) = EndSeq(held, "succeeded", a, "result")
  <2>1. (EndAttempt(files, held, "succeeded", a) \o <<Write("status", held, "completed")>>)
          \o <<Write("result", held, "published")>> = EndSeq(held, "succeeded", a, "result")
    BY <1>2, <1>3, <1>4, EndIs
  <2> QED
    BY <1>2, <2>1 DEF MarkCompleted, WriteStatus, Publish
<1>6. Call({"running"}, EndSeq(held, "succeeded", a, "result"), "idle", 0)
  BY <1>5 DEF Succeed
<1>7. 0 \in 0..AttemptBound
  BY BoundsAssumption
<1> QED
  BY <1>3, <1>6, <1>7, EndCalled

LEMMA DeferStep ==
  ASSUME Inv, Defer
  PROVE  Inv'
<1>1. todo = <<>> /\ phase = "running"
  BY DEF Defer, Call
<1>2. held # 0 /\ files.attempt[held] = "live"
  BY <1>1, HeldLive
<1>3. "succeeded" \in Ending /\ "partial" \in Anomalies
      /\ Projection("succeeded", "partial") = "deferred"
  BY DEF Ending, Anomalies, Projection
<1>4. ~ SameFact(files, held, "succeeded", "partial")
  BY <1>2 DEF SameFact
<1>5. MarkDeferred(files, held) = EndSeq(held, "succeeded", "partial", "status")
  <2>1. EndAttempt(files, held, "succeeded", "partial") \o <<Write("status", held, "deferred")>>
          = EndSeq(held, "succeeded", "partial", "status")
    BY <1>2, <1>3, <1>4, EndIs
  <2> QED
    BY <2>1 DEF MarkDeferred, WriteStatus
<1>6. Call({"running"}, EndSeq(held, "succeeded", "partial", "status"), "idle", 0)
  BY <1>5 DEF Defer
<1>7. 0 \in 0..AttemptBound
  BY BoundsAssumption
<1> QED
  BY <1>3, <1>6, <1>7, EndCalled

LEMMA FailStep ==
  ASSUME Inv, NEW d \in Ending \ {"succeeded"}, Fail(d)
  PROVE  Inv'
<1> DEFINE from == {"running"} \cup (IF d = "cancelled" THEN {} ELSE {"failing"})
<1>1. todo = <<>> /\ phase \in from /\ from \in SUBSET {"running", "failing"}
  BY DEF Fail, Call
<1>2. held # 0 /\ files.attempt[held] = "live"
  BY <1>1, HeldLive
<1>3. d \in Ending /\ d # "succeeded" /\ "none" \in Anomalies /\ Projection(d, "none") = "failed"
  BY DEF Ending, Anomalies, Projection
<1>4. ~ SameFact(files, held, d, "none")
  BY <1>2 DEF SameFact, Ending
<1>5. MarkFailed(files, held, d) = EndSeq(held, d, "none", "status")
  <2>1. EndAttempt(files, held, d, "none") \o <<Write("status", held, "failed")>>
          = EndSeq(held, d, "none", "status")
    BY <1>2, <1>3, <1>4, EndIs
  <2> QED
    BY <2>1 DEF MarkFailed, WriteStatus
<1>6. Call(from, EndSeq(held, d, "none", "status"), "idle", 0)
  BY <1>5 DEF Fail
<1>7. 0 \in 0..AttemptBound
  BY BoundsAssumption
<1> HIDE DEF from
<1> QED
  BY <1>1, <1>3, <1>6, <1>7, EndCalled

LEMMA AwaitRetryStep ==
  ASSUME Inv, AwaitRetry
  PROVE  Inv'
<1>1. todo = <<>> /\ phase = "running"
  BY DEF AwaitRetry, Call
<1>2. held # 0 /\ files.attempt[held] = "live" /\ held \in 0..AttemptBound
  BY <1>1, HeldLive DEF Attempt
<1>3. "retryable" \in Ending /\ "none" \in Anomalies
  BY DEF Ending, Anomalies
<1>4. ~ SameFact(files, held, "retryable", "none")
  BY <1>2 DEF SameFact
<1>5. EndAttempt(files, held, "retryable", "none") = EndSeq(held, "retryable", "none", "retry")
  BY <1>2, <1>3, <1>4, EndIs
<1>6. Call({"running"}, EndSeq(held, "retryable", "none", "retry"), "backoff", held)
  BY <1>5 DEF AwaitRetry
<1> QED
  BY <1>2, <1>3, <1>6, EndCalled

LEMMA RecordFailureStep ==
  ASSUME Inv, RecordFailure
  PROVE  Inv'
<1>1. PICK n \in 0..AttemptBound : Common(n) /\ Point(n)
  BY DEF Inv
<1>2. held \in 0..AttemptBound /\ "failing" \in Phases
  BY DEF Inv, TypeOK, Phases
<1>3. /\ TypeOK' /\ Common(n)' /\ todo = <<>> /\ phase = "running"
      /\ files' = files /\ todo' = WriteStatus("failed", held) /\ phase' = "failing"
      /\ held' = held
  BY <1>1, <1>2, Called DEF Inv, RecordFailure
<1>4. Attending(n)
  BY <1>1, <1>3, Between DEF Waiting, Backoff, Dead
<1>5. Showing(n)'
  BY <1>3, <1>4 DEF Attending, Showing, Live, NoDirectory, WriteStatus
<1> QED
  BY <1>3, <1>5 DEF Inv, Point

LEMMA RetryStep ==
  ASSUME Inv, CancelRetry \/ AbandonRetry
  PROVE  Inv'
<1>1. PICK n \in 0..AttemptBound : Common(n) /\ Point(n)
  BY DEF Inv
<1>2. todo = <<>> /\ phase = "backoff"
  BY DEF CancelRetry, AbandonRetry, Call
<1>3. /\ Backoff(n) /\ n \in Attempt /\ "idle" \in Phases /\ 0 \in 0..AttemptBound
  BY <1>1, <1>2, Between, BoundsAssumption DEF Waiting, Attending, Dead, Backoff, Attempt, Phases
<1>4. CASE AbandonRetry
  <2>1. /\ TypeOK' /\ Common(n)' /\ files' = files /\ todo' = <<>> /\ phase' = "idle"
        /\ held' = 0
    BY <1>1, <1>3, <1>4, Called DEF Inv, AbandonRetry
  <2>2. Waiting(n)'
    BY <1>3, <2>1 DEF Backoff, Waiting, NoDirectory, Live
  <2> QED
    BY <2>1, <2>2 DEF Inv, Point
<1>5. CASE CancelRetry
  <2>1. ~ EndAccepted(files, held, "cancelled", "none")
    BY <1>3 DEF Backoff, EndAccepted, Terminal, Ending, SameFact
  <2>2. Call({"backoff"}, WriteStatus("failed", held), "idle", 0)
    BY <1>5, <2>1 DEF CancelRetry
  <2>3. /\ TypeOK' /\ Common(n)' /\ files' = files /\ todo' = WriteStatus("failed", held)
        /\ phase' = "idle" /\ held' = 0
    BY <1>1, <1>3, <2>2, Called DEF Inv
  <2>4. todo' = <<Write("status", n, Projection("retryable", files.anomalies[n]))>>
    BY <1>3, <2>3 DEF Backoff, WriteStatus, Projection
  <2>5. todo' = Tail(Tail(EndSeq(n, "retryable", files.anomalies[n], "status")))
    BY <2>4, EndRest
  <2>6. Projecting(n)'
    <3>1. /\ n # 0 /\ ~ Live(n)' /\ NoDirectory(n)' /\ Superseded(n)'
          /\ files'.attempt[n] = "retryable" /\ files'.anomalies[n] = files.anomalies[n]
      BY <1>3, <2>3 DEF Backoff, Live, NoDirectory, Superseded, Status, NoStatus
    <3>2. EndLeads(n, files.attempt[n], files.anomalies[n], "status")'
      BY <2>3 DEF EndLeads
    <3> QED
      BY <2>5, <3>1, <3>2 DEF Projecting
  <2> QED
    BY <2>3, <2>6 DEF Inv, Point
<1> QED
  BY <1>4, <1>5

LEMMA PromoteStep ==
  ASSUME Inv, Promote
  PROVE  Inv'
<1>1. PICK n \in 0..AttemptBound : Common(n) /\ Point(n)
  BY DEF Inv
<1>2. files.status.attempt = n /\ files.status # NoStatus
  BY <1>1, LatestIs DEF Promote, IdentityAccepted, Common
<1>3. 0 \in 0..AttemptBound /\ "idle" \in Phases
  BY BoundsAssumption DEF Phases
<1>4. Call({"fresh", "idle"}, MarkCompleted(files, n, "none"), "idle", 0)
  BY <1>2 DEF Promote
<1>5. /\ TypeOK' /\ Common(n)' /\ todo = <<>> /\ phase \in {"fresh", "idle"}
      /\ files' = files /\ todo' = MarkCompleted(files, n, "none") /\ phase' = "idle" /\ held' = 0
  BY <1>1, <1>3, <1>4, Called DEF Inv
<1>6. Waiting(n)
  BY <1>1, <1>5, Between DEF Attending, Backoff, Dead
<1>7. ASSUME EndAttempt(files, n, "succeeded", "none") = <<>>
      PROVE  todo' = <<Write("status", n, "completed")>>
  <2>1. <<>> \o <<Write("status", n, "completed")>> = <<Write("status", n, "completed")>>
    BY Joined
  <2> QED
    BY <1>5, <1>7, <2>1 DEF MarkCompleted, WriteStatus
<1>8. CASE n = 0
  <2>1. todo' = <<Write("status", 0, "completed")>>
    BY <1>7, <1>8 DEF EndAttempt
  <2>2. Legacy(n)'
    BY <1>2, <1>5, <1>6, <1>8, <2>1 DEF Legacy, Waiting, NoDirectory
  <2> QED
    BY <1>5, <2>2 DEF Inv, Point
<1>9. CASE n # 0
  <2>1. Terminal(files, n)
    BY <1>1, <1>6, <1>9, BoundsAssumption DEF Waiting, Live, Common, Ordered, Terminal, Attempt
  <2>2. SameFact(files, n, "succeeded", "none")
    BY <1>2, <2>1 DEF Promote, EndAccepted
  <2>3. todo' = <<Write("status", n, Projection("succeeded", "none"))>>
    BY <1>7, <2>2 DEF EndAttempt, Projection
  <2>4. todo' = Tail(Tail(EndSeq(n, "succeeded", "none", "status")))
    BY <2>3, EndRest
  <2>5. Projecting(n)'
    <3>1. /\ ~ Live(n)' /\ NoDirectory(n)' /\ Superseded(n)'
          /\ files'.attempt[n] = "succeeded" /\ files'.anomalies[n] = "none"
      BY <1>2, <1>5, <1>6, <2>2 DEF Waiting, Live, NoDirectory, Superseded, SameFact
    <3>2. EndLeads(n, files.attempt[n], files.anomalies[n], "status")'
      BY <1>5 DEF EndLeads
    <3> QED
      BY <1>9, <2>4, <3>1, <3>2 DEF Projecting
  <2> QED
    BY <1>5, <2>5 DEF Inv, Point
<1> QED
  BY <1>8, <1>9

LEMMA InvalidateStep ==
  ASSUME Inv, Invalidate
  PROVE  Inv'
<1>1. PICK n \in 0..AttemptBound : Common(n) /\ Point(n)
  BY DEF Inv
<1>2. /\ phase \in {"fresh", "idle"} /\ todo = <<>>
      /\ files' = [files EXCEPT !.stale = files.status, !.status = NoStatus]
      /\ phase' = "idle" /\ todo' = todo /\ held' = held /\ crashes' = crashes
  BY DEF Invalidate
<1>3. Waiting(n)
  BY <1>1, <1>2, Between DEF Attending, Backoff, Dead
<1>4. TypeOK
  BY DEF Inv
<1>5. /\ files'.status = NoStatus /\ files'.stale = files.status
      /\ files'.attempt = files.attempt /\ files'.anomalies = files.anomalies
      /\ files'.result = files.result
  BY <1>2, <1>4 DEF TypeOK
<1>6. TypeOK'
  BY <1>2, <1>4, BoundsAssumption DEF TypeOK, StatusRecord
<1>7. Common(n)'
  <2>1. ~ Live(n)'
    BY <1>3, <1>5 DEF Waiting, Live
  <2>2. StatusHonest'
    BY <1>1, <1>5 DEF Common, StatusHonest, NoStatus, Status
  <2>3. files'.status.attempt = 0
    BY <1>5 DEF NoStatus, Status
  <2> QED
    BY <1>1, <1>5, <2>1, <2>2, <2>3 DEF Common, Ordered, Consistent, Terminal
<1>8. Waiting(n)'
  BY <1>2, <1>3, <1>5 DEF Waiting, NoDirectory, Live
<1> QED
  BY <1>6, <1>7, <1>8 DEF Inv, Point

LEMMA CrashStep ==
  ASSUME Inv, Crash
  PROVE  Inv'
<1>1. PICK n \in 0..AttemptBound : Common(n)
  BY DEF Inv
<1>2. /\ phase' = "down" /\ todo' = <<>> /\ held' = 0 /\ files' = files
      /\ crashes < CrashBound /\ crashes' = crashes + 1
  BY DEF Crash
<1>3. TypeOK'
  BY <1>2, BoundsAssumption DEF Inv, TypeOK
<1>4. Common(n)'
  BY <1>1, <1>2 DEF Common, Live, Superseded, StatusHonest
<1> QED
  BY <1>2, <1>3, <1>4 DEF Inv, Point, Dead

\* Reconciliation of the files a dead process left: the orphan's end, if there is one, then
\* the projection of the latest attempt, if the status does not show it already.
LEMMA RestartStep ==
  ASSUME Inv, Restart
  PROVE  Inv'
<1> USE BoundsAssumption
<1>1. PICK n \in 0..AttemptBound : Common(n) /\ Point(n)
  BY DEF Inv
<1>2. "fresh" \in Phases /\ 0 \in 0..AttemptBound
  BY DEF Phases
<1>3. /\ TypeOK' /\ Common(n)' /\ todo = <<>> /\ phase = "down"
      /\ files' = files /\ todo' = Reconciliation(files) /\ phase' = "fresh" /\ held' = 0
  BY <1>1, <1>2, Called DEF Inv, Restart
<1>4. /\ Latest(files) = n /\ History(files) = 1..n
      /\ Orphans(files) = IF Live(n) THEN {n} ELSE {}
  BY <1>1, LatestIs DEF Common, Live
<1>5. NoDirectory(n)
  BY <1>1 DEF Restart, Readable, Complete, NoDirectory, Common, Ordered
<1>6. NoDirectory(n)' /\ Live(n)' = Live(n)
  BY <1>3, <1>5 DEF NoDirectory, Live
<1>7. CASE n = 0
  <2>1. History(files) = {} /\ ~ Live(n)
    BY <1>4, <1>7 DEF Live
  <2>2. CASE files.status.state = "running"
    <3>1. todo' = EndAttempt(files, 0, "lost", "none") \o <<Write("status", 0, "failed")>>
      BY <1>3, <2>1, <2>2 DEF Reconciliation, MarkFailed, WriteStatus
    <3>2. todo' = <<Write("status", 0, "failed")>>
      BY <3>1, Joined DEF EndAttempt
    <3>3. files.status # NoStatus
      BY <2>2 DEF NoStatus, Status
    <3>4. Legacy(n)'
      BY <1>3, <1>6, <1>7, <2>2, <3>2, <3>3 DEF Legacy
    <3> QED
      BY <1>3, <3>4 DEF Inv, Point
  <2>3. CASE files.status.state # "running"
    <3>1. todo' = <<>>
      BY <1>3, <2>1, <2>3 DEF Reconciliation
    <3>2. Waiting(n)'
      BY <1>3, <1>6, <1>7, <2>1, <2>3, <3>1 DEF Waiting
    <3> QED
      BY <1>3, <3>2 DEF Inv, Point
  <2> QED
    BY <2>2, <2>3
<1>8. CASE n # 0
  <2> DEFINE rest == IF Invalidated(files) \/ files.status = Projected(files) THEN <<>>
                     ELSE <<Write("status", n, Projected(files).state)>>
  <2>1. n \in Attempt /\ History(files) # {}
    BY <1>4, <1>8 DEF Attempt
  <2>2. todo' = Lose(files) \o rest
    BY <1>3, <1>4, <2>1 DEF Reconciliation, WriteStatus
  <2>3. Lose(files) = IF Live(n) THEN EndAttempt(files, n, "lost", "none") ELSE <<>>
    BY <1>4, <1>8, LoseIs
  <2>4. CASE Live(n)
    <3>1. Projected(files) = Status("failed", n)
      BY <1>4, <2>4 DEF Projected
    <3>2. ~ Invalidated(files)
      BY <1>4, <2>4 DEF Invalidated, Terminal, Live, Ending
    <3>3. /\ "lost" \in Ending /\ "none" \in Anomalies /\ Projection("lost", "none") = "failed"
          /\ ~ SameFact(files, n, "lost", "none")
      BY <2>4 DEF Ending, Anomalies, Projection, SameFact, Live
    <3>4. CASE files.status = Projected(files)
      <4>1. todo' = EndAttempt(files, n, "lost", "none") \o <<>>
        BY <2>2, <2>3, <2>4, <3>4
      <4>2. todo' = EndSeq(n, "lost", "none", "shown")
        BY <4>1, <3>3, <1>8, EndIs
      <4>3. EndLeads(n, "lost", "none", "shown")' /\ "shown" \in EndKind
        BY <1>3, <3>1, <3>3, <3>4 DEF EndLeads, EndKind
      <4>4. Finishing(n)'
        BY <1>3, <1>6, <1>8, <2>4, <3>3, <4>2, <4>3 DEF Finishing
      <4> QED
        BY <1>3, <4>4 DEF Inv, Point
    <3>5. CASE files.status # Projected(files)
      <4>1. todo' = EndAttempt(files, n, "lost", "none") \o <<Write("status", n, "failed")>>
        BY <2>2, <2>3, <2>4, <3>1, <3>2, <3>5 DEF Status
      <4>2. todo' = EndSeq(n, "lost", "none", "status")
        BY <4>1, <3>3, <1>8, EndIs
      <4>3. EndLeads(n, "lost", "none", "status")' /\ "status" \in EndKind
        BY <1>3 DEF EndLeads, EndKind
      <4>4. Finishing(n)'
        BY <1>3, <1>6, <1>8, <2>4, <3>3, <4>2, <4>3 DEF Finishing
      <4> QED
        BY <1>3, <4>4 DEF Inv, Point
    <3> QED
      BY <3>4, <3>5
  <2>5. CASE ~ Live(n)
    <3> DEFINE d == files.attempt[n]
               a == files.anomalies[n]
    <3>1. Projected(files) = Status(Projection(d, a), n)
      BY <1>4, <2>5 DEF Projected
    <3>2. Terminal(files, n)
      BY <1>1, <1>8, <2>1, <2>5 DEF Live, Common, Ordered, Terminal
    <3>3. CASE Invalidated(files) \/ files.status = Projected(files)
      <4>1. todo' = <<>>
        <5>1. <<>> \o <<>> = <<>>
          OBVIOUS
        <5> QED
          BY <2>2, <2>3, <2>5, <3>3, <5>1
      <4>2. \/ files.status = Status(Projection(d, a), n)
            \/ files.status = NoStatus /\ files.stale.attempt = n
        BY <1>4, <3>1, <3>3 DEF Invalidated
      <4>3. Waiting(n)'
        BY <1>3, <1>6, <1>8, <2>5, <4>1, <4>2 DEF Waiting
      <4> QED
        BY <1>3, <4>3 DEF Inv, Point
    <3>4. CASE ~ Invalidated(files) /\ files.status # Projected(files)
      <4>1. todo' = <<>> \o <<Write("status", n, Projection(d, a))>>
        BY <2>2, <2>3, <2>5, <3>1, <3>4 DEF Status
      <4>2. todo' = <<Write("status", n, Projection(d, a))>>
        BY <4>1, Joined
      <4>3. todo' = Tail(Tail(EndSeq(n, d, a, "status")))
        BY <4>2, EndRest
      <4>4. Superseded(n)
        BY <1>1, <1>4, <3>2, <3>4, Fields DEF Invalidated, Superseded, Common, Inv
      <4>5. EndLeads(n, files.attempt[n], files.anomalies[n], "status")'
        BY <1>3 DEF EndLeads
      <4>6. Projecting(n)'
        BY <1>3, <1>6, <1>8, <2>5, <4>3, <4>4, <4>5 DEF Projecting, Superseded
      <4> QED
        BY <1>3, <4>6 DEF Inv, Point
    <3> QED
      BY <3>3, <3>4
  <2> QED
    BY <2>4, <2>5
<1> QED
  BY <1>7, <1>8

LEMMA InitInv ==
  ASSUME Init
  PROVE  Inv
<1> USE BoundsAssumption
<1>1. PICK status \in {NoStatus} \cup {Status(s, 0) : s \in {"running", "completed", "failed"}} :
        files = [attempt |-> [i \in Attempt |-> "absent"], anomalies |-> [i \in Attempt |-> "none"],
                 status |-> status, stale |-> NoStatus, result |-> 0]
  BY DEF Init
<1>2. todo = <<>> /\ phase = "down" /\ held = 0 /\ crashes = 0
  BY DEF Init
<1>3. status \in StatusRecord /\ status.attempt = 0
  BY DEF StatusRecord, Status, NoStatus, StatusState
<1>4. TypeOK
  BY <1>1, <1>2, <1>3 DEF TypeOK, StatusRecord, Anomalies
<1>5. Common(0)
  BY <1>1, <1>3 DEF Common, Ordered, Attempt, Consistent, Terminal, Live, StatusHonest, NoStatus,
     Status
<1>6. Dead
  BY <1>2 DEF Dead
<1> QED
  BY <1>4, <1>5, <1>6 DEF Inv, Point

LEMMA NextInv ==
  ASSUME Inv, [Next]_vars
  PROVE  Inv'
<1>1. CASE MakeWrite
  BY <1>1, MakeWriteStep
<1>2. CASE Crash
  BY <1>2, CrashStep
<1>3. CASE Restart
  BY <1>3, RestartStep
<1>4. CASE Launch \/ \E d \in {"live", "cancelled", "permanent"} : LaunchFails(d)
  BY <1>4, LaunchStep
<1>5. CASE \E a \in {"none", "warned"} : Succeed(a)
  BY <1>5, SucceedStep
<1>6. CASE Defer
  BY <1>6, DeferStep
<1>7. CASE RecordFailure
  BY <1>7, RecordFailureStep
<1>8. CASE AwaitRetry
  BY <1>8, AwaitRetryStep
<1>9. CASE CancelRetry \/ AbandonRetry
  BY <1>9, RetryStep
<1>10. CASE \E d \in Ending \ {"succeeded"} : Fail(d)
  BY <1>10, FailStep
<1>11. CASE Promote
  BY <1>11, PromoteStep
<1>12. CASE Invalidate
  BY <1>12, InvalidateStep
<1>13. CASE UNCHANGED vars
  <2>1. files' = files /\ todo' = todo /\ phase' = phase /\ held' = held /\ crashes' = crashes
    BY <1>13 DEF vars
  <2>2. TypeOK' = TypeOK
    BY <2>1 DEF TypeOK
  <2>3. \A n : Common(n)' = Common(n)
    BY <2>1 DEF Common, Live, Superseded, StatusHonest
  <2>4. \A n : Point(n)' = Point(n)
    BY <2>1 DEF Point, Waiting, Attending, Backoff, Dead, Starting, StartLeads, Showing, Finishing,
       EndLeads, Projecting, Publishing, Legacy, Live, NoDirectory, Superseded
  <2> QED
    BY <2>2, <2>3, <2>4 DEF Inv
<1> QED
  BY <1>1, <1>2, <1>3, <1>4, <1>5, <1>6, <1>7, <1>8, <1>9, <1>10, <1>11, <1>12, <1>13 DEF Next

-----------------------------------------------------------------------------
(* The theorems. *)

LEMMA Inductive == Spec => []Inv
<1>1. Init => Inv
  BY InitInv
<1>2. Inv /\ [Next]_vars => Inv'
  BY NextInv
<1> QED
  BY <1>1, <1>2, PTL DEF Spec

(* Whatever a crash cut short, every file holds a value of its record, and *)
(* the process knows only attempts that exist.                             *)
THEOREM TypesHold == Spec => []TypeOK
<1>1. Inv => TypeOK
  BY DEF Inv
<1> QED
  BY <1>1, Inductive, PTL

(* The projection and the result never claim more than the attempt they    *)
(* name: wherever a crash left the files, a completed status and a         *)
(* published result have an attempt that succeeded as a whole              *)
(* (mark_completed_at, mark_deferred_at, write_result_at).                 *)
THEOREM ClaimsAreTrue == Spec => []StatusHonest
<1>1. Inv => StatusHonest
  BY DEF Inv, Common
<1> QED
  BY <1>1, Inductive, PTL

(* However often a run died, also while it reconciled, the reconciliation  *)
(* that completes leaves no live attempt and a task that can be started    *)
(* (reconcile_stale_running).                                              *)
THEOREM ReconciliationRestores == Spec => []ReconcileRestores
<1>1. ASSUME Inv, phase = "fresh", todo = <<>>
      PROVE  /\ Orphans(files) = {}
             /\ files.status.state # "running"
             /\ History(files) # {} => Invalidated(files) \/ files.status = Projected(files)
             /\ NextAttempt(files) \in Attempt => StartAccepted(files)
  <2> USE BoundsAssumption
  <2>1. PICK n \in 0..AttemptBound : Common(n) /\ Point(n)
    BY <1>1 DEF Inv
  <2>2. Waiting(n)
    BY <1>1, <2>1, Between DEF Attending, Backoff, Dead
  <2> DEFINE d == files.attempt[n]
             a == files.anomalies[n]
  <2>3. Orphans(files) = {} /\ Latest(files) = n /\ History(files) = 1..n
    BY <2>1, <2>2, LatestIs DEF Common, Waiting, Live
  <2>4. \/ n = 0 /\ files.status.state # "running"
        \/ n # 0 /\ files.status = Status(Projection(d, a), n)
        \/ n # 0 /\ files.status = NoStatus /\ files.stale.attempt = n
    BY <1>1, <2>2 DEF Waiting
  <2>5. n # 0 => Terminal(files, n)
    BY <2>1, <2>2 DEF Waiting, Live, Common, Ordered, Terminal, Attempt
  <2>6. n # 0 => Projected(files) = Status(Projection(d, a), n)
    BY <2>3 DEF Projected
  <2>7. files.status.state # "running"
    BY <2>4 DEF Status, NoStatus, Projection
  <2>8. History(files) # {} => Invalidated(files) \/ files.status = Projected(files)
    BY <2>3, <2>4, <2>5, <2>6 DEF Invalidated
  <2>9. ASSUME NextAttempt(files) \in Attempt PROVE StartAccepted(files)
    <3>1. Complete(files)
      BY <2>1, <2>2, Fields DEF Inv, Complete, Common, Ordered, Waiting, NoDirectory, Ending, Attempt
    <3>2. Readable(files)
      BY <2>1, <3>1 DEF Readable, Common
    <3>3. \A i \in History(files) : files.attempt[i] # "live"
      BY <2>3 DEF Orphans
    <3>4. (IF files.status = NoStatus /\ History(files) # {} THEN files.stale
           ELSE files.status).attempt = n
      <4>1. CASE n = 0
        BY <1>1, <2>1, <2>3, <4>1, Fields DEF Common, Inv
      <4>2. CASE n # 0
        <5>1. History(files) # {}
          BY <2>3, <4>2
        <5>2. files.status = Status(Projection(d, a), n) =>
                files.status # NoStatus /\ files.status.attempt = n
          BY <4>2 DEF Status, NoStatus
        <5> QED
          BY <2>4, <4>2, <5>1, <5>2
      <4> QED
        BY <4>1, <4>2
    <3> QED
      BY <2>3, <2>9, <3>2, <3>3, <3>4 DEF StartAccepted
  <2> QED
    BY <2>3, <2>7, <2>8, <2>9
<1>2. Inv => ReconcileRestores
  BY <1>1 DEF ReconcileRestores
<1> QED
  BY <1>2, Inductive, PTL

\* What one write may do: it touches no attempt that ended, and it replaces the status only by
\* one that the three action properties allow.
LEMMA WriteAllowed ==
  ASSUME Inv, MakeWrite
  PROVE  /\ \A i \in Attempt : Terminal(files, i) =>
              files'.attempt[i] = files.attempt[i] /\ files'.anomalies[i] = files.anomalies[i]
         /\ \/ files'.status = files.status
            \/ /\ files.status = NoStatus /\ files.stale # NoStatus =>
                    files'.status.attempt > files.stale.attempt
               /\ files.status.state = "completed" =>
                    files'.status.attempt > files.status.attempt
<1> USE BoundsAssumption
<1>1. PICK n \in 0..AttemptBound : Common(n) /\ Point(n)
  BY DEF Inv
<1>2. TypeOK /\ todo # <<>>
  BY DEF Inv, MakeWrite
<1>3. \/ Starting(n) \/ Showing(n) \/ Finishing(n) \/ Projecting(n) \/ Publishing(n) \/ Legacy(n)
  BY <1>1, <1>2, Between
<1>4. CASE Starting(n)
  <2>1. PICK d \in StartKind :
          /\ n + 1 \in Attempt
          /\ \/ files.attempt[n + 1] = "absent" /\ todo = StartSeq(n + 1, d)
             \/ files.attempt[n + 1] = "directory" /\ todo = Tail(StartSeq(n + 1, d))
    BY <1>4 DEF Starting
  <2>2. PICK v \in {"directory", "live"} : Head(todo) = Write("attempt", n + 1, v)
    BY <2>1, StartTails
  <2>3. /\ files'.attempt = [files.attempt EXCEPT ![n + 1] = v]
        /\ files'.anomalies = files.anomalies /\ files'.status = files.status
    BY <1>2, <2>1, <2>2, AttemptWritten
  <2> QED
    BY <1>2, <2>1, <2>3, Fields DEF Terminal, Ending
<1>5. CASE Finishing(n)
  <2>1. PICK d \in Ending, a \in Anomalies, k \in EndKind :
          /\ n # 0 /\ Live(n)
          /\ todo = EndSeq(n, d, a, k) \/ todo = Tail(EndSeq(n, d, a, k))
    BY <1>5 DEF Finishing
  <2>2. n \in Attempt /\ ~ Terminal(files, n)
    BY <2>1 DEF Attempt, Terminal, Live, Ending
  <2>3. \/ Head(todo) = Write("anomalies", n, a)
        \/ Head(todo) = Write("attempt", n, d)
    BY <2>1, EndTails
  <2>4. /\ files'.status = files.status
        /\ \A i \in Attempt \ {n} :
             files'.attempt[i] = files.attempt[i] /\ files'.anomalies[i] = files.anomalies[i]
    <3>1. CASE Head(todo) = Write("anomalies", n, a)
      BY <1>2, <2>2, <3>1, AnomaliesWritten, Fields
    <3>2. CASE Head(todo) = Write("attempt", n, d)
      BY <1>2, <2>2, <3>2, AttemptWritten, Fields
    <3> QED
      BY <2>3, <3>1, <3>2
  <2> QED
    BY <2>2, <2>4
<1>6. CASE Publishing(n)
  <2>1. n \in Attempt /\ Head(todo) = Write("result", n, "published")
    BY <1>6 DEF Publishing, Attempt
  <2> QED
    BY <1>2, <2>1, ResultWritten
<1>7. ASSUME NEW v \in StatusState, Head(todo) = Write("status", n, v),
             \/ files.status = Status(v, n)
             \/ /\ Superseded(n) \/ files.status # NoStatus
                /\ files.status.state = "completed" => files.status.attempt < n
      PROVE  /\ \A i \in Attempt : Terminal(files, i) =>
                  files'.attempt[i] = files.attempt[i] /\ files'.anomalies[i] = files.anomalies[i]
             /\ \/ files'.status = files.status
                \/ /\ files.status = NoStatus /\ files.stale # NoStatus =>
                        files'.status.attempt > files.stale.attempt
                   /\ files.status.state = "completed" =>
                        files'.status.attempt > files.status.attempt
  <2>1. /\ files'.status = Status(v, n) /\ files'.status.attempt = n
        /\ files'.attempt = files.attempt /\ files'.anomalies = files.anomalies
    BY <1>2, <1>7, StatusWritten DEF Status
  <2> QED
    BY <1>2, <1>7, <2>1, Fields DEF Superseded
<1>8. CASE Showing(n)
  <2>1. PICK v \in {"running", "failed"} : Head(todo) = Write("status", n, v)
    BY <1>8 DEF Showing
  <2>2. Live(n) /\ n \in Attempt
    BY <1>8 DEF Showing, Attempt
  <2>3. files.status.state = "completed" => files.status.attempt < n
    BY <1>1, <1>2, <2>2, Fields DEF Common, StatusHonest, Live, Attempt
  <2> QED
    BY <1>1, <1>7, <2>1, <2>2, <2>3 DEF Common, StatusState
<1>9. CASE Projecting(n)
  <2> DEFINE d == files.attempt[n]
             a == files.anomalies[n]
  <2>1. n # 0 /\ n \in Attempt /\ ~ Live(n) /\ Superseded(n)
        /\ Head(todo) = Write("status", n, Projection(d, a))
    <3>1. PICK k \in {"status", "result"} :
            /\ n # 0 /\ ~ Live(n) /\ Superseded(n)
            /\ todo = Tail(Tail(EndSeq(n, d, a, k)))
      BY <1>9 DEF Projecting
    <3>2. n \in Attempt
      BY <3>1 DEF Attempt
    <3>3. CASE k = "status"
      <4>1. todo = <<Write("status", n, Projection(d, a))>>
        BY <3>1, <3>3, EndRest
      <4> QED
        <5>1. Head(todo) = Write("status", n, Projection(d, a))
          BY <4>1
        <5> QED
          BY <3>1, <3>2, <5>1, Zenon
    <3>4. CASE k = "result"
      <4>1. todo = <<Write("status", n, Projection(d, a)), Write("result", n, "published")>>
        BY <3>1, <3>4, EndRest
      <4> QED
        <5>1. Head(todo) = Write("status", n, Projection(d, a))
          BY <4>1
        <5> QED
          BY <3>1, <3>2, <5>1, Zenon
    <3> QED
      BY <3>1, <3>3, <3>4
  <2>2. d \in Ending /\ a \in Anomalies
    BY <1>1, <1>2, <2>1, Fields DEF Common, Ordered, Live
  <2>3. Projection(d, a) \in StatusState
    BY <2>2, ProjectionIs DEF StatusState
  <2>4. CASE files.status.state = "completed" /\ files.status.attempt = n
    <3>1. Projection(d, a) = "completed"
      BY <1>1, <2>1, <2>2, <2>4, ProjectionIs DEF Common, StatusHonest
    <3>2. files.status = Status("completed", n)
      BY <1>2, <2>1, <2>4, Fields DEF StatusRecord, NoStatus, Status
    <3> QED
      BY <1>7, <2>1, <2>3, <3>1, <3>2
  <2>5. CASE files.status.state = "completed" => files.status.attempt # n
    <3>1. files.status.state = "completed" => files.status.attempt < n
      BY <1>1, <1>2, <2>5, Fields DEF Common
    <3> QED
      BY <1>7, <2>1, <2>3, <3>1
  <2> QED
    BY <2>4, <2>5
<1>10. CASE Legacy(n)
  <2>1. n = 0 /\ files.status # NoStatus
    BY <1>10 DEF Legacy
  <2>2. CASE todo = <<Write("status", 0, "completed")>>
    <3>1. Head(todo) = Write("status", n, "completed") /\ "completed" \in StatusState
      BY <2>1, <2>2 DEF StatusState
    <3>2. files.status.state = "completed" => files.status = Status("completed", n)
      BY <1>1, <1>2, <2>1, Fields DEF StatusRecord, NoStatus, Status, Common
    <3> QED
      BY <1>7, <2>1, <3>1, <3>2
  <2>3. CASE todo = <<Write("status", 0, "failed")>> /\ files.status.state = "running"
    <3>1. Head(todo) = Write("status", n, "failed") /\ "failed" \in StatusState
      BY <2>1, <2>3 DEF StatusState
    <3> QED
      BY <1>7, <2>1, <2>3, <3>1
  <2> QED
    BY <1>10, <2>2, <2>3 DEF Legacy
<1> QED
  BY <1>3, <1>4, <1>5, <1>6, <1>8, <1>9, <1>10

LEMMA StepAllowed ==
  ASSUME Inv, [Next]_vars
  PROVE  \/ MakeWrite
         \/ Invalidate
         \/ files' = files
BY DEF Next, vars, Crash, Restart, Launch, LaunchFails, Succeed, Defer, Fail, RecordFailure,
   AwaitRetry, CancelRetry, AbandonRetry, Promote, Call

LEMMA InvalidateEffect ==
  ASSUME Inv, Invalidate
  PROVE  /\ files'.status = NoStatus /\ files.status # NoStatus
         /\ files'.attempt = files.attempt /\ files'.anomalies = files.anomalies
BY DEF Inv, TypeOK, Invalidate

(* A terminal attempt is immutable (end_attempt_at): no retry, late        *)
(* cancellation, promotion or reconciliation rewrites its fact.            *)
THEOREM TerminalFactsAreFinal == Spec => FactsAreFinal
<1>1. ASSUME Inv, [Next]_vars, NEW i \in Attempt, Terminal(files, i)
      PROVE  files'.attempt[i] = files.attempt[i] /\ files'.anomalies[i] = files.anomalies[i]
  BY <1>1, StepAllowed, WriteAllowed, InvalidateEffect
<1>2. Inv /\ [Next]_vars =>
        [\A i \in Attempt : Terminal(files, i) =>
           /\ files'.attempt[i] = files.attempt[i]
           /\ files'.anomalies[i] = files.anomalies[i]]_vars
  BY <1>1
<1> QED
  BY <1>2, Inductive, PTL DEF Spec, FactsAreFinal

(* An invalidated task stays so until a new attempt, and its own           *)
(* reconciliation does not undo it (_invalidated_attempt_id).              *)
THEOREM InvalidationHolds == Spec => InvalidationSticks
<1>1. ASSUME Inv, [Next]_vars, files.status = NoStatus, files.stale # NoStatus
      PROVE  files'.status = NoStatus \/ files'.status.attempt > files.stale.attempt
  BY <1>1, StepAllowed, WriteAllowed, InvalidateEffect
<1>2. Inv /\ [Next]_vars =>
        [files.status = NoStatus /\ files.stale # NoStatus =>
           \/ files'.status = NoStatus
           \/ files'.status.attempt > files.stale.attempt]_vars
  BY <1>1
<1> QED
  BY <1>2, Inductive, PTL DEF Spec, InvalidationSticks

(* A completed task stays completed until it is invalidated or attempted   *)
(* again; a crash and the reconciliation after it do not take it back.     *)
THEOREM CompletionHolds == Spec => CompletionStands
<1>1. ASSUME Inv, [Next]_vars, files.status.state = "completed"
      PROVE  \/ files'.status \in {files.status, NoStatus}
             \/ files'.status.attempt > files.status.attempt
  BY <1>1, StepAllowed, WriteAllowed, InvalidateEffect
<1>2. Inv /\ [Next]_vars =>
        [files.status.state = "completed" =>
           \/ files'.status \in {files.status, NoStatus}
           \/ files'.status.attempt > files.status.attempt]_vars
  BY <1>1
<1> QED
  BY <1>2, Inductive, PTL DEF Spec, CompletionStands

-----------------------------------------------------------------------------
(* The files implement the log. *)

EntryOf == [ending : Ending \cup {"live"}, anomalies : Anomalies]

\* The log of an ordered history has its n attempts.
LEMMA RecordedIs ==
  ASSUME NEW f, NEW n \in 0..AttemptBound, Ordered(f, n),
         f.attempt \in [Attempt -> Ending \cup {"live", "absent", "directory"}],
         f.anomalies \in [Attempt -> Anomalies]
  PROVE  /\ Recorded(f) = [i \in 1..n |-> Entry(f, i)]
         /\ Recorded(f) \in Seq(EntryOf) /\ Len(Recorded(f)) = n
         /\ \A i \in 1..n : Recorded(f)[i] = Entry(f, i)
         /\ Recorded(f) = <<>> <=> n = 0
<1> USE BoundsAssumption
<1>1. Recorded(f) = [i \in 1..n |-> Entry(f, i)]
  BY LatestIs DEF Recorded
<1>2. ASSUME NEW i \in 1..n
      PROVE  Entry(f, i) \in EntryOf
  <2>1. i \in Attempt /\ f.attempt[i] \in Ending \cup {"live"} /\ f.anomalies[i] \in Anomalies
    BY DEF Ordered, Attempt
  <2> QED
    BY <2>1 DEF Entry, EntryOf, Anomalies
<1>3. Recorded(f) \in [1..n -> EntryOf]
  BY <1>1, <1>2
<1>4. Recorded(f) \in Seq(EntryOf) /\ Len(Recorded(f)) = n
  BY <1>3
<1>5. Recorded(f) = <<>> <=> n = 0
  BY <1>4
<1> QED
  BY <1>1, <1>4, <1>5

\* What the log's guards read, in terms of the files.
LEMMA LogReads ==
  ASSUME TypeOK, NEW n \in 0..AttemptBound, Common(n)
  PROVE  /\ Log!Attempted <=> n # 0
         /\ Log!UnderWay <=> Live(n)
         /\ Len(Recorded(files)) = n
         /\ n # 0 => Log!latest = Entry(files, n)
<1>1. /\ Len(Recorded(files)) = n /\ (Recorded(files) = <<>> <=> n = 0)
      /\ \A i \in 1..n : Recorded(files)[i] = Entry(files, i)
  BY RecordedIs, Fields DEF Common
<1>2. Log!Attempted <=> n # 0
  BY <1>1 DEF Log!Attempted
<1>3. n # 0 => Log!latest = Entry(files, n)
  BY <1>1 DEF Log!latest
<1>4. n # 0 => (Log!latest = Log!Live <=> files.attempt[n] = "live")
  BY <1>3 DEF Entry, Log!Live
<1> QED
  BY <1>1, <1>2, <1>3, <1>4 DEF Log!UnderWay, Live

\* What may be said of the latest attempt is what its entry supports.
LEMMA HoldsOf ==
  ASSUME TypeOK, NEW n \in 0..AttemptBound, Common(n), n # 0
  PROVE  /\ Live(n) => Log!Holds("running") /\ Log!Holds("failed")
         /\ ~ Live(n) => Log!Holds(Projection(files.attempt[n], files.anomalies[n]))
         /\ files.status = Status("completed", n) => Log!Holds("completed")
<1>1. Log!latest = Entry(files, n)
  BY LogReads
<1>2. n \in Attempt /\ files.attempt[n] \in Ending \cup {"live"} /\ files.anomalies[n] \in Anomalies
  BY BoundsAssumption, Fields DEF Common, Ordered, Attempt
<1>3. Live(n) => Log!Holds("running") /\ Log!Holds("failed")
  BY <1>1 DEF Entry, Log!Holds, Log!Live, Live
<1>4. ~ Live(n) => Log!Holds(Projection(files.attempt[n], files.anomalies[n]))
  <2>1. ASSUME ~ Live(n)
        PROVE  /\ Log!latest = [ending |-> files.attempt[n], anomalies |-> files.anomalies[n]]
               /\ files.attempt[n] \in Ending
    BY <1>1, <1>2, <2>1 DEF Entry, Live
  <2> QED
    BY <1>2, <2>1 DEF Log!Holds, Projection, Ending, Anomalies
<1>5. files.status = Status("completed", n) => Log!Holds("completed")
  <2>1. files.status = Status("completed", n) =>
          files.attempt[n] = "succeeded" /\ files.anomalies[n] # "partial"
    BY <1>2 DEF Common, StatusHonest, Status
  <2> QED
    BY <1>1, <2>1 DEF Entry, Log!Holds
<1> QED
  BY <1>3, <1>4, <1>5

LogStep == [Log!Next]_(Log!vars)

\* Files that record the same attempts and claim the same are the same log.
LEMMA SameLog ==
  ASSUME Recorded(files') = Recorded(files), files'.status = files.status,
         files'.stale = files.stale, files'.result = files.result
  PROVE  LogStep
BY DEF LogStep, Log!vars

\* A status written for the latest attempt is an abstract showing.
LEMMA ShowStep ==
  ASSUME TypeOK, NEW n \in 0..AttemptBound, Common(n), n # 0, Superseded(n),
         NEW s \in StatusState, Log!Holds(s), MakeWrite, Head(todo) = Write("status", n, s)
  PROVE  LogStep
<1>1. /\ files'.status = Status(s, n) /\ files'.attempt = files.attempt
      /\ files'.anomalies = files.anomalies /\ files'.stale = files.stale
      /\ files'.result = files.result
  BY StatusWritten
<1>2. Recorded(files') = Recorded(files)
  <2>1. Ordered(files', n)
    BY <1>1 DEF Common, Ordered
  <2>2. /\ Recorded(files') = [i \in 1..n |-> Entry(files', i)]
        /\ Recorded(files) = [i \in 1..n |-> Entry(files, i)]
    BY <1>1, <2>1, RecordedIs, Fields DEF Common
  <2> QED
    BY <1>1, <2>2 DEF Entry
<1>3. Log!Show(s)
  <2>1. Log!Attempted /\ Len(Recorded(files)) = n
    BY LogReads
  <2>2. files.status = Log!None => files.stale.attempt < n
    BY DEF Superseded, NoStatus, Status, Log!None, Log!Shown
  <2>3. files'.status = Log!Shown(s, n)
    BY <1>1 DEF Status, Log!Shown
  <2> QED
    BY <1>1, <1>2, <2>1, <2>2, <2>3 DEF Log!Show
<1> QED
  BY <1>3 DEF LogStep, Log!Next, StatusState

\* The directory of an attempt is not yet an entry; its record is.
LEMMA StartingLog ==
  ASSUME TypeOK, MakeWrite, NEW n \in 0..AttemptBound, Common(n), Starting(n)
  PROVE  LogStep
<1> USE BoundsAssumption
<1>1. PICK d \in StartKind :
        /\ n + 1 \in Attempt /\ ~ Live(n)
        /\ \/ files.attempt[n + 1] = "absent" /\ todo = StartSeq(n + 1, d)
           \/ files.attempt[n + 1] = "directory" /\ todo = Tail(StartSeq(n + 1, d))
  BY DEF Starting
<1>2. n + 1 \in 0..AttemptBound /\ n \in Nat
  BY <1>1 DEF Attempt
<1>3. /\ Recorded(files) = [i \in 1..n |-> Entry(files, i)]
      /\ Recorded(files) \in Seq(EntryOf) /\ Len(Recorded(files)) = n
      /\ \A i \in 1..n : Recorded(files)[i] = Entry(files, i)
  BY RecordedIs, Fields DEF Common
<1>4. CASE files.attempt[n + 1] = "absent" /\ todo = StartSeq(n + 1, d)
  <2>1. /\ files'.attempt = [files.attempt EXCEPT ![n + 1] = "directory"]
        /\ files'.anomalies = files.anomalies /\ files'.status = files.status
        /\ files'.stale = files.stale /\ files'.result = files.result
    BY <1>1, <1>4, AttemptWritten, StartTails
  <2>2. Ordered(files', n)
    BY <1>1, <1>2, <2>1, Fields DEF Common, Ordered, Attempt
  <2>3. Recorded(files') = [i \in 1..n |-> Entry(files', i)]
    BY <2>1, <2>2, RecordedIs, Fields
  <2>4. \A i \in 1..n : Entry(files', i) = Entry(files, i)
    BY <1>1, <1>2, <2>1, Fields DEF Entry, Attempt
  <2>5. Recorded(files') = Recorded(files)
    BY <1>3, <2>3, <2>4
  <2> QED
    BY <2>1, <2>5, SameLog
<1>5. CASE files.attempt[n + 1] = "directory" /\ todo = Tail(StartSeq(n + 1, d))
  <2>1. /\ files'.attempt = [files.attempt EXCEPT ![n + 1] = "live"]
        /\ files'.anomalies = files.anomalies /\ files'.status = files.status
        /\ files'.stale = files.stale /\ files'.result = files.result
    BY <1>1, <1>5, AttemptWritten, StartTails
  <2>2. Ordered(files', n + 1)
    BY <1>1, <1>2, <2>1, Fields DEF Common, Ordered, Live, Attempt, Ending
  <2>3. /\ Recorded(files') \in Seq(EntryOf) /\ Len(Recorded(files')) = n + 1
        /\ \A i \in 1..(n + 1) : Recorded(files')[i] = Entry(files', i)
    BY <1>2, <2>1, <2>2, RecordedIs, Fields
  <2>4. /\ \A i \in 1..n : Entry(files', i) = Entry(files, i)
        /\ Entry(files', n + 1) = Log!Live
    BY <1>1, <1>2, <2>1, Fields DEF Entry, Attempt, Log!Live
  <2>5. Log!Live \in EntryOf
    BY DEF Log!Live, EntryOf, Anomalies
  <2>6. Recorded(files') = Append(Recorded(files), Log!Live)
    <3> DEFINE s == Append(Recorded(files), Log!Live)
    <3>1. /\ s \in Seq(EntryOf) /\ Len(s) = n + 1
          /\ \A i \in 1..n : s[i] = Recorded(files)[i]
          /\ s[n + 1] = Log!Live
      BY <1>3, <2>5, AppendProperties
    <3> HIDE DEF s
    <3>2. \A i \in 1..(n + 1) : Recorded(files')[i] = s[i]
      BY <1>2, <1>3, <2>3, <2>4, <3>1
    <3> QED
      BY <2>3, <3>1, <3>2, SeqEqual DEF s
  <2>7. Log!Begin
    BY <1>1, <2>1, <2>6, LogReads DEF Log!Begin
  <2> QED
    BY <2>7 DEF LogStep, Log!Next
<1> QED
  BY <1>1, <1>4, <1>5

\* Staging the anomalies changes no entry; the terminal fact replaces one, once.
LEMMA FinishingLog ==
  ASSUME TypeOK, MakeWrite, NEW n \in 0..AttemptBound, Common(n), Finishing(n)
  PROVE  LogStep
<1> USE BoundsAssumption
<1>1. PICK d \in Ending, a \in Anomalies, k \in EndKind :
        /\ n # 0 /\ Live(n)
        /\ d # "succeeded" => a = "none"
        /\ d = "succeeded" => files.status # Status("failed", n)
        /\ \/ todo = EndSeq(n, d, a, k)
           \/ files.anomalies[n] = a /\ todo = Tail(EndSeq(n, d, a, k))
  BY DEF Finishing
<1>2. n \in Attempt /\ n \in 1..n
  BY <1>1 DEF Attempt
<1>3. /\ Recorded(files) = [i \in 1..n |-> Entry(files, i)]
      /\ Len(Recorded(files)) = n
  BY RecordedIs, Fields DEF Common
<1>4. CASE todo = EndSeq(n, d, a, k)
  <2>1. Head(todo) = Write("anomalies", n, a)
    BY <1>4, EndTails
  <2>2. /\ files'.anomalies = [files.anomalies EXCEPT ![n] = a]
        /\ files'.attempt = files.attempt /\ files'.status = files.status
        /\ files'.stale = files.stale /\ files'.result = files.result
    BY <1>2, <2>1, AnomaliesWritten
  <2>3. Ordered(files', n)
    BY <2>2 DEF Common, Ordered
  <2>4. Recorded(files') = [i \in 1..n |-> Entry(files', i)]
    BY <1>2, <2>2, <2>3, RecordedIs, Fields
  <2>5. \A i \in 1..n : Entry(files', i) = Entry(files, i)
    BY <1>1, <1>2, <2>2, Fields DEF Entry, Live
  <2>6. Recorded(files') = Recorded(files)
    BY <1>3, <2>4, <2>5
  <2> QED
    BY <2>2, <2>6, SameLog
<1>5. CASE files.anomalies[n] = a /\ todo = Tail(EndSeq(n, d, a, k))
  <2> DEFINE fact == [ending |-> d, anomalies |-> a]
  <2>1. Head(todo) = Write("attempt", n, d)
    BY <1>5, EndTails
  <2>2. /\ files'.attempt = [files.attempt EXCEPT ![n] = d]
        /\ files'.anomalies = files.anomalies /\ files'.status = files.status
        /\ files'.stale = files.stale /\ files'.result = files.result
    BY <1>2, <2>1, AttemptWritten
  <2>3. Ordered(files', n)
    BY <1>2, <2>2, Fields DEF Common, Ordered, Attempt
  <2>4. Recorded(files') = [i \in 1..n |-> Entry(files', i)]
    BY <1>2, <2>2, <2>3, RecordedIs, Fields
  <2>5. /\ \A i \in 1..n : i # n => Entry(files', i) = Entry(files, i)
        /\ Entry(files', n) = fact
    BY <1>2, <1>5, <2>2, Fields DEF Entry, Ending, Attempt
  <2>6. Recorded(files') = [Recorded(files) EXCEPT ![n] = fact]
    <3> HIDE DEF fact
    <3> QED
      BY <1>2, <1>3, <2>4, <2>5
  <2>7. Log!End(fact)
    <3>1. files.status = Log!Shown("failed", n) => fact.ending # "succeeded"
      BY <1>1 DEF Status, Log!Shown
    <3>2. Log!UnderWay
      BY <1>1, LogReads
    <3> HIDE DEF fact
    <3> QED
      BY <1>3, <2>2, <2>6, <3>1, <3>2 DEF Log!End
  <2>8. fact \in Facts
    BY <1>1 DEF Facts
  <2> QED
    <3> HIDE DEF fact
    <3> QED
      BY <2>7, <2>8 DEF LogStep, Log!Next
<1> QED
  BY <1>1, <1>4, <1>5

\* The status of a live attempt.
LEMMA ShowingLog ==
  ASSUME TypeOK, MakeWrite, NEW n \in 0..AttemptBound, Common(n), Showing(n)
  PROVE  LogStep
<1>1. n # 0 /\ Live(n) /\ Superseded(n)
  BY DEF Showing, Common
<1>2. PICK s \in {"running", "failed"} : Head(todo) = Write("status", n, s)
  BY DEF Showing
<1>3. Log!Holds(s) /\ s \in StatusState
  BY <1>1, HoldsOf DEF StatusState
<1> QED
  BY <1>1, <1>2, <1>3, ShowStep

\* The status of an attempt that ended.
LEMMA ProjectingLog ==
  ASSUME TypeOK, MakeWrite, NEW n \in 0..AttemptBound, Common(n), Projecting(n)
  PROVE  LogStep
<1> DEFINE s == Projection(files.attempt[n], files.anomalies[n])
<1>1. PICK k \in {"status", "result"} :
        /\ n # 0 /\ ~ Live(n) /\ Superseded(n)
        /\ todo = Tail(Tail(EndSeq(n, files.attempt[n], files.anomalies[n], k)))
  BY DEF Projecting
<1>2. Head(todo) = Write("status", n, s)
  <2>1. \A x, y : Head(<<x>>) = x /\ Head(<<x, y>>) = x
    OBVIOUS
  <2>2. \/ todo = <<Write("status", n, s)>>
        \/ todo = <<Write("status", n, s), Write("result", n, "published")>>
    <3>1. CASE k = "status"
      BY <1>1, <3>1, EndRest
    <3>2. CASE k = "result"
      BY <1>1, <3>2, EndRest
    <3> QED
      BY <3>1, <3>2
  <2> QED
    BY <2>1, <2>2, Zenon
<1>3. s \in StatusState
  <2>1. n \in Attempt
    BY <1>1, BoundsAssumption DEF Attempt
  <2>2. files.attempt[n] \in Ending /\ files.anomalies[n] \in Anomalies
    BY <1>1, <2>1, Fields DEF Common, Ordered, Live
  <2> QED
    BY <2>2, ProjectionIs DEF StatusState
<1>4. Log!Holds(s)
  BY <1>1, HoldsOf
<1> HIDE DEF s
<1> QED
  BY <1>1, <1>2, <1>3, <1>4, ShowStep

\* A result is published of the completed attempt only.
LEMMA PublishingLog ==
  ASSUME TypeOK, MakeWrite, NEW n \in 0..AttemptBound, Common(n), Publishing(n)
  PROVE  LogStep
<1>1. /\ n # 0 /\ n \in Attempt /\ files.status = Status("completed", n)
      /\ Head(todo) = Write("result", n, "published")
  BY BoundsAssumption DEF Publishing, Attempt
<1>2. /\ files'.result = n /\ files'.attempt = files.attempt
      /\ files'.anomalies = files.anomalies /\ files'.status = files.status
      /\ files'.stale = files.stale
  BY <1>1, ResultWritten
<1>3. Recorded(files') = Recorded(files)
  <2>1. Ordered(files', n)
    BY <1>2 DEF Common, Ordered
  <2>2. /\ Recorded(files') = [i \in 1..n |-> Entry(files', i)]
        /\ Recorded(files) = [i \in 1..n |-> Entry(files, i)]
    BY <1>2, <2>1, RecordedIs, Fields DEF Common
  <2> QED
    BY <1>2, <2>2 DEF Entry
<1>4. Log!Publish
  <2>1. Log!Attempted /\ Len(Recorded(files)) = n /\ Log!Holds("completed")
    BY <1>1, LogReads, HoldsOf
  <2>2. files.status = Log!Shown("completed", n)
    BY <1>1 DEF Status, Log!Shown
  <2> QED
    BY <1>2, <1>3, <2>1, <2>2 DEF Log!Publish
<1> QED
  BY <1>4 DEF LogStep, Log!Next

\* A status that names no attempt is amended while there is none.
LEMMA LegacyLog ==
  ASSUME TypeOK, MakeWrite, NEW n \in 0..AttemptBound, Common(n), Legacy(n)
  PROVE  LogStep
<1>1. n = 0 /\ files.status # NoStatus
  BY DEF Legacy
<1>2. PICK s \in {"completed", "failed"} :
        /\ Head(todo) = Write("status", 0, s)
        /\ s = "failed" => files.status.state = "running"
  BY DEF Legacy
<1>3. /\ files'.status = Status(s, 0) /\ files'.attempt = files.attempt
      /\ files'.anomalies = files.anomalies /\ files'.stale = files.stale
      /\ files'.result = files.result
  BY <1>1, <1>2, StatusWritten DEF StatusState
<1>4. Recorded(files') = Recorded(files)
  <2>1. Ordered(files', n)
    BY <1>3 DEF Common, Ordered
  <2>2. /\ Recorded(files') = [i \in 1..n |-> Entry(files', i)]
        /\ Recorded(files) = [i \in 1..n |-> Entry(files, i)]
    BY <1>3, <2>1, RecordedIs, Fields DEF Common
  <2> QED
    BY <1>3, <2>2 DEF Entry
<1>5. Log!Amend(s)
  <2>1. ~ Log!Attempted
    BY <1>1, LogReads
  <2>2. files.status # Log!None /\ files'.status = Log!Shown(s, 0)
    BY <1>1, <1>3 DEF NoStatus, Status, Log!None, Log!Shown
  <2> QED
    BY <1>2, <1>3, <1>4, <2>1, <2>2 DEF Log!Amend
<1> QED
  BY <1>5 DEF LogStep, Log!Next

\* Nothing is under way when a status is renamed aside.
LEMMA InvalidateLog ==
  ASSUME Inv, Invalidate
  PROVE  LogStep
<1>1. PICK n \in 0..AttemptBound : Common(n) /\ Point(n)
  BY DEF Inv
<1>2. /\ TypeOK /\ todo = <<>> /\ phase \in {"fresh", "idle"} /\ files.status # NoStatus
      /\ files' = [files EXCEPT !.stale = files.status, !.status = NoStatus]
  BY DEF Inv, Invalidate
<1>3. ~ Live(n)
  <2>1. Waiting(n)
    BY <1>1, <1>2, Between DEF Attending, Backoff, Dead
  <2> QED
    BY <2>1 DEF Waiting
<1>4. /\ files'.stale = files.status /\ files'.status = NoStatus
      /\ files'.attempt = files.attempt /\ files'.anomalies = files.anomalies
      /\ files'.result = files.result
  BY <1>2 DEF TypeOK
<1>5. Recorded(files') = Recorded(files)
  <2>1. Ordered(files', n)
    BY <1>1, <1>4 DEF Common, Ordered
  <2>2. /\ Recorded(files') = [i \in 1..n |-> Entry(files', i)]
        /\ Recorded(files) = [i \in 1..n |-> Entry(files, i)]
    BY <1>1, <1>2, <1>4, <2>1, RecordedIs, Fields DEF Common
  <2> QED
    BY <1>4, <2>2 DEF Entry
<1>6. Log!Withdraw
  <2>1. ~ Log!UnderWay
    BY <1>1, <1>2, <1>3, LogReads
  <2>2. NoStatus = Log!None
    BY DEF NoStatus, Status, Log!None, Log!Shown
  <2> QED
    BY <1>2, <1>4, <1>5, <2>1, <2>2 DEF Log!Withdraw
<1> QED
  BY <1>6 DEF LogStep, Log!Next

(* Written one file at a time and cut short anywhere, the files of a task  *)
(* behave as one log: each write is one step of TaskLog or none, and so is *)
(* each crash and each repair (the operations of io/state_io.py).          *)
THEOREM FilesAreALog == Spec => ImplementsTaskLog
<1>1. ASSUME Init
      PROVE  Log!Init
  <2>1. TypeOK /\ Recorded(files) = <<>>
    <3>1. /\ TypeOK /\ Ordered(files, 0) /\ 0 \in 0..AttemptBound
      BY <1>1, InitInv, BoundsAssumption DEF Inv, Init, Ordered, Attempt
    <3> QED
      BY <3>1, RecordedIs, Fields
  <2>2. /\ files.stale = NoStatus /\ files.result = 0
        /\ \/ files.status = NoStatus
           \/ \E s \in {"running", "completed", "failed"} : files.status = Status(s, 0)
    BY <1>1 DEF Init
  <2> QED
    BY <2>1, <2>2 DEF Log!Init, Log!None, Log!Shown, NoStatus, Status
<1>2. ASSUME Inv, MakeWrite
      PROVE  LogStep
  <2>1. PICK n \in 0..AttemptBound : Common(n) /\ Point(n)
    BY <1>2 DEF Inv
  <2>2. TypeOK /\ todo # <<>>
    BY <1>2 DEF Inv, MakeWrite
  <2> QED
    BY <1>2, <2>1, <2>2, Between, StartingLog, ShowingLog, FinishingLog, ProjectingLog,
       PublishingLog, LegacyLog
<1>3. Inv /\ [Next]_vars => LogStep
  <2>1. ASSUME files' = files
        PROVE  LogStep
    BY <2>1, SameLog
  <2> QED
    BY <1>2, <2>1, StepAllowed, InvalidateLog
<1> QED
  BY <1>1, <1>3, Inductive, PTL DEF Spec, ImplementsTaskLog, Log!Spec, LogStep
=============================================================================
