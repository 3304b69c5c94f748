------------------------ MODULE SharedResourcesProofs ------------------------
(***************************************************************************)
(* Theorems about SharedResources, for any handlers and REST requests, any  *)
(* pool and any number of segments.                                         *)
(***************************************************************************)
EXTENDS SharedResources, FiniteSetTheorems, TLAPS

\* What a label may be: the records of the module, as sets.
LEMMA Domains ==
  /\ DOMAIN Query = {"opening", "visit", "lookup", "refresh", "settle", "reread", "cleanup", "reread2"}
  /\ DOMAIN Raised = DOMAIN Query
  /\ DOMAIN Commits = {"transcription", "translation", "status", "status2", "deletion"}
  /\ DOMAIN Rejected = DOMAIN Commits
  /\ DOMAIN Output = Stages
BY DEF Query, Raised, Commits, Rejected, Output, Stages

\* Where a query, a timeout, a commit and an inference lead.
LEMMA Leads ==
  /\ \A l \in DOMAIN Query : Query[l] \subseteq Labels /\ Raised[l] \in Labels
  /\ \A l \in DOMAIN Commits : Commits[l] \in Labels /\ Rejected[l] \in Labels
  /\ \A s \in Stages : Output[s] \subseteq Labels \ Stages
BY Domains DEF Query, Raised, Commits, Rejected, Output, Stages, Labels

-------------------------------------------------------------------------------
(* The types *)

LEMMA TypeInit == Init => TypeOK
BY Domains, ResourceAssumption DEF Init, TypeOK, Labels, Users, Stages

\* Joining a queue keeps the types of the limiters.
LEMMA GotoTypes ==
  ASSUME TypeOK, NEW u \in Users, NEW l \in Labels, Goto(u, l)
  PROVE  /\ pc' \in [Users -> Labels] /\ waiting' \in [Stages -> Seq(Users)]
         /\ running' \in [Stages -> SUBSET Users] /\ overtaken' \in [Users -> Nat]
<1>1. CASE l \notin Stages
  BY <1>1 DEF TypeOK, Goto, limiters
<1>2. CASE l \in Stages
  <2>1. Append(waiting[l], u) \in Seq(Users)
    BY <1>2 DEF TypeOK
  <2>2. /\ pc' = [pc EXCEPT ![u] = l] /\ waiting' = [waiting EXCEPT ![l] = Append(waiting[l], u)]
        /\ overtaken' = [overtaken EXCEPT ![u] = 0] /\ UNCHANGED running
    BY <1>2 DEF Goto, Submit
  <2>3. pc' \in [Users -> Labels] /\ overtaken' \in [Users -> Nat]
    BY <2>2 DEF TypeOK
  <2>4. waiting' \in [Stages -> Seq(Users)]
    BY <2>1, <2>2 DEF TypeOK
  <2> QED
    BY <2>2, <2>3, <2>4 DEF TypeOK
<1> QED
  BY <1>1, <1>2

LEMMA TypeStep == TypeOK /\ [Next]_vars => TypeOK'
<1> SUFFICES ASSUME TypeOK, [Next]_vars PROVE TypeOK'
  OBVIOUS
<1> DEFINE Rest == held' \in [Users -> Nat] /\ segments' \in [Users -> 0..MaxSegments]
                   /\ starved' \subseteq Users
<1>g. ASSUME NEW u \in Users, NEW l \in Labels, Goto(u, l), Rest PROVE TypeOK'
  BY <1>g, GotoTypes DEF TypeOK
<1>t. held \in [Users -> Nat] /\ segments \in [Users -> 0..MaxSegments] /\ starved \subseteq Users
  BY DEF TypeOK
<1>1. ASSUME NEW u \in Users, Runs(u) \/ Speaks(u) \/ Finishes(u) PROVE TypeOK'
  <2>1. CASE Queries(u)
    <3>1. PICK l \in Query[pc[u]] :
            /\ held' = [held EXCEPT ![u] = IF l = "settle" THEN 0 ELSE IF @ = 0 THEN 1 ELSE @]
            /\ Goto(u, l)
      BY <2>1 DEF Queries
    <3>2. l \in Labels
      BY <2>1, <3>1, Leads DEF Queries
    <3> QED
      BY <2>1, <3>1, <3>2, <1>t, <1>g DEF Queries
  <2>2. CASE TimesOut(u)
    BY <2>2, <1>t, <1>g, Leads DEF TimesOut
  <2>3. CASE Committed(u) \/ Refused(u)
    BY <2>3, <1>t, <1>g, Leads DEF Committed, Refused
  <2>4. CASE Patches(u) \/ Finishes(u)
    <3>1. {"cleanup", "settle"} \subseteq Labels
      BY Domains DEF Labels
    <3> QED
      BY <2>4, <3>1, <1>t, <1>g DEF Patches, Finishes
  <2>5. CASE Infers(u)
    <3>0. PICK s \in Stages : \E l \in Output[s] :
            /\ running' = [running EXCEPT ![s] = @ \ {u}]
            /\ l = "lookup" => segments[u] < MaxSegments
            /\ segments' = [segments EXCEPT ![u] = IF l = "lookup" THEN @ + 1 ELSE @]
            /\ pc' = [pc EXCEPT ![u] = l]
            /\ UNCHANGED <<waiting, overtaken, held, starved>>
      BY <2>5 DEF Infers
    <3>1. PICK l \in Output[s] :
            /\ running' = [running EXCEPT ![s] = @ \ {u}]
            /\ l = "lookup" => segments[u] < MaxSegments
            /\ segments' = [segments EXCEPT ![u] = IF l = "lookup" THEN @ + 1 ELSE @]
            /\ pc' = [pc EXCEPT ![u] = l]
            /\ UNCHANGED <<waiting, overtaken, held, starved>>
      BY <3>0
    <3>2. l \in Labels
      BY <3>1, Leads
    <3>3. segments' \in [Users -> 0..MaxSegments]
      BY <3>1, <1>t, ResourceAssumption
    <3> QED
      BY <3>1, <3>2, <3>3 DEF TypeOK
  <2>6. CASE Breaks(u)
    <3>1. "settle" \in Labels
      BY Domains DEF Labels
    <3> QED
      BY <2>6, <3>1 DEF Breaks, TypeOK
  <2>7. CASE CleansUp(u) \/ Leaves(u) \/ Speaks(u)
    <3>1. {"leaving", "cleanup", "ended", "lookup"} \subseteq Labels
      BY Domains DEF Labels
    <3> QED
      BY <2>7, <3>1, <1>t, <1>g, ResourceAssumption DEF CleansUp, Leaves, Speaks
  <2> QED
    BY <1>1, <2>1, <2>2, <2>3, <2>4, <2>5, <2>6, <2>7 DEF Runs
<1>2. ASSUME NEW s \in Stages, Admit(s) PROVE TypeOK'
  <2>1. waiting[s] \in Seq(Users) /\ waiting[s] # <<>>
    BY <1>2 DEF Admit, TypeOK
  <2>2. Head(waiting[s]) \in Users /\ Tail(waiting[s]) \in Seq(Users)
    BY <2>1
  <2>3. waiting' \in [Stages -> Seq(Users)]
    BY <1>2, <2>2 DEF Admit, TypeOK
  <2>4. running' \in [Stages -> SUBSET Users]
    BY <1>2, <2>2 DEF Admit, TypeOK
  <2>5. overtaken' \in [Users -> Nat]
    <3> DEFINE Behind(u) == \E i \in 2..Len(waiting[s]) : waiting[s][i] = u
    <3>1. overtaken' = [u \in Users |-> IF Behind(u) THEN overtaken[u] + 1 ELSE overtaken[u]]
      BY <1>2 DEF Admit
    <3>2. \A u \in Users : overtaken[u] \in Nat
      BY DEF TypeOK
    <3> HIDE DEF Behind
    <3> QED
      BY <3>1, <3>2
  <2> QED
    BY <1>2, <2>3, <2>4, <2>5 DEF Admit, TypeOK
<1>3. CASE UNCHANGED vars
  BY <1>3 DEF vars, TypeOK
<1> QED
  BY <1>1, <1>2, <1>3 DEF Next

THEOREM TypeCorrect == Spec => []TypeOK
BY TypeInit, TypeStep, PTL DEF Spec

-------------------------------------------------------------------------------
(* The queues and the tokens *)

\* The ways a user comes to a stage, leaves one and passes by.
Enters(u, s) ==
  /\ pc[u] \in {"lookup", "refresh", "translation"} /\ pc' = [pc EXCEPT ![u] = s]
  /\ Submit(u, s)

Exits(u, s) ==
  /\ u \in running[s] /\ running' = [running EXCEPT ![s] = @ \ {u}]
  /\ \E l \in Labels \ Stages : pc' = [pc EXCEPT ![u] = l]
  /\ UNCHANGED <<waiting, overtaken>>

Passes(u) ==
  /\ pc[u] \notin Stages /\ \E l \in Labels \ Stages : pc' = [pc EXCEPT ![u] = l]
  /\ UNCHANGED limiters

LEMMA Moves == TypeOK /\ [Next]_vars =>
  \/ \E u \in Users : Passes(u) \/ \E s \in Stages : Enters(u, s) \/ Exits(u, s)
  \/ \E s \in Stages : Admit(s)
  \/ UNCHANGED <<pc, limiters>>
<1> DEFINE Moved == \E u \in Users : Passes(u) \/ \E s \in Stages : Enters(u, s) \/ Exits(u, s)
<1> SUFFICES ASSUME TypeOK, [Next]_vars
             PROVE  Moved \/ (\E s \in Stages : Admit(s)) \/ UNCHANGED <<pc, limiters>>
  OBVIOUS
\* What a user goes to from outside the stages.
<1>g. ASSUME NEW u \in Users, NEW l \in Labels, Goto(u, l), pc[u] \notin Stages,
             l \in Stages => pc[u] \in {"lookup", "refresh", "translation"}
      PROVE  Moved
  BY <1>g DEF Goto, Enters, Passes
<1>l. /\ \A s \in Stages : s \notin DOMAIN Query /\ s \notin DOMAIN Commits
      /\ \A x \in DOMAIN Query : /\ Raised[x] \notin Stages
                                 /\ \A l \in Query[x] : l \in Stages => x \in {"lookup", "refresh"}
      /\ \A x \in DOMAIN Commits : /\ Commits[x] \in Stages => x = "translation"
                                   /\ Rejected[x] \notin Stages
      /\ {"settle", "leaving", "cleanup", "ended", "lookup"} \subseteq Labels \ Stages
  BY Domains DEF Query, Raised, Commits, Rejected, Stages, Labels
<1>1. ASSUME NEW u \in Users, Runs(u) \/ Speaks(u) \/ Finishes(u) PROVE Moved
  <2>1. CASE Queries(u)
    <3>1. PICK l \in Query[pc[u]] : Goto(u, l)
      BY <2>1 DEF Queries
    <3> QED
      BY <2>1, <3>1, <1>g, <1>l, Leads DEF Queries
  <2>2. CASE TimesOut(u)
    BY <2>2, <1>g, <1>l, Leads DEF TimesOut
  <2>3. CASE Committed(u) \/ Refused(u)
    BY <2>3, <1>g, <1>l, Leads DEF Committed, Refused
  <2>4. CASE Patches(u) \/ Finishes(u) \/ CleansUp(u) \/ Leaves(u) \/ Speaks(u)
    <3>1. pc[u] \notin Stages
      BY <2>4 DEF Patches, Finishes, CleansUp, Leaves, Speaks, Stages
    <3>2. \E l \in {"settle", "leaving", "cleanup", "ended", "lookup"} : Goto(u, l)
      BY <2>4 DEF Patches, Finishes, CleansUp, Leaves, Speaks
    <3> QED
      BY <3>1, <3>2, <1>g, <1>l
  <2>5. CASE Infers(u) \/ Breaks(u)
    <3>1. \E s \in Stages : Exits(u, s)
      BY <2>5, <1>l, Leads DEF Infers, Breaks, Exits
    <3> QED
      BY <3>1
  <2> QED
    BY <1>1, <2>1, <2>2, <2>3, <2>4, <2>5 DEF Runs
<1>2. CASE UNCHANGED vars
  BY <1>2 DEF vars, limiters
<1> QED
  BY <1>1, <1>2 DEF Next

\* A REST request never comes to a stage.
Elsewhere == {"visit", "authorized", "cleanup", "status2", "reread2", "deletion", "leaving", "ended"}
Visitors == \A u \in Users \ Handlers : pc[u] \in Elsewhere

\* A queue holds users of its stage, each once, none of whom runs, and whoever was
\* overtaken has moved up.
Queued == \A s \in Stages : \A i \in 1..Len(waiting[s]) :
  /\ pc[waiting[s][i]] = s /\ waiting[s][i] \notin running[s]
  /\ \A j \in 1..Len(waiting[s]) : waiting[s][i] = waiting[s][j] => i = j
  /\ i + overtaken[waiting[s][i]] <= Cardinality(Handlers)

\* At most one inference of a stage runs, for a user of that stage.
Running == \A s \in Stages :
  /\ running[s] = {} \/ \E u \in Users : running[s] = {u}
  /\ \A u \in running[s] : pc[u] = s

\* Who is at a stage waits there or runs there.
Placed == \A u \in Users : pc[u] \in Stages => u \in AtStage(pc[u])

LEMMA QueueInit == Init => Visitors /\ Queued /\ Running /\ Placed
BY DEF Init, Visitors, Elsewhere, Queued, Running, Placed, Users, Stages

LEMMA VisitorsStep == TypeOK /\ Visitors /\ Running /\ [Next]_vars => Visitors'
<1> SUFFICES ASSUME TypeOK, Visitors, Running, [Next]_vars, NEW v \in Users \ Handlers
             PROVE  pc'[v] \in Elsewhere
  BY DEF Visitors
<1>1. pc[v] \in Elsewhere /\ v \in Users /\ pc \in [Users -> Labels]
  BY DEF Visitors, TypeOK
<1>l. /\ \A x \in Elsewhere \cap DOMAIN Query : Query[x] \subseteq Elsewhere /\ Raised[x] \in Elsewhere
      /\ \A x \in Elsewhere \cap DOMAIN Commits : Commits[x] \in Elsewhere /\ Rejected[x] \in Elsewhere
      /\ Elsewhere \cap Stages = {} /\ {"cleanup", "leaving", "ended"} \subseteq Elsewhere
  BY Domains DEF Query, Raised, Commits, Rejected, Elsewhere, Stages
<1>2. ASSUME NEW u \in Users, Runs(u) \/ Speaks(u) \/ Finishes(u) PROVE pc'[v] \in Elsewhere
  <2>1. CASE u # v
    BY <1>1, <1>2, <2>1 DEF Runs, Speaks, Finishes, Queries, TimesOut, Committed, Refused,
       Patches, Infers, Breaks, CleansUp, Leaves, Goto
  <2>2. CASE u = v
    <3>1. \A s \in Stages : u \notin running[s]
      BY <1>1, <1>l, <2>2 DEF Running
    <3>2. pc[u] # "listening"
      BY <1>1, <2>2 DEF Elsewhere
    <3>3. \E l \in Elsewhere : pc' = [pc EXCEPT ![u] = l]
      <4>1. CASE Queries(u) \/ TimesOut(u) \/ Committed(u) \/ Refused(u)
        BY <1>1, <1>l, <2>2, <4>1 DEF Queries, TimesOut, Committed, Refused, Goto
      <4>2. CASE Patches(u) \/ CleansUp(u) \/ Leaves(u)
        BY <1>l, <4>2 DEF Patches, CleansUp, Leaves, Goto
      <4> QED
        BY <1>2, <3>1, <3>2, <4>1, <4>2 DEF Runs, Speaks, Finishes, Infers, Breaks
    <3> QED
      BY <1>1, <2>2, <3>3
  <2> QED
    BY <2>1, <2>2
<1>3. CASE UNCHANGED vars \/ \E s \in Stages : Admit(s)
  BY <1>1, <1>3 DEF vars, Admit
<1> QED
  BY <1>2, <1>3 DEF Next

\* A queue of distinct handlers has a place for one that is not in it.
LEMMA QueueFits ==
  ASSUME NEW q \in Seq(Handlers), NEW u \in Handlers,
         \A i, j \in 1..Len(q) : q[i] = q[j] => i = j,
         \A i \in 1..Len(q) : q[i] # u
  PROVE  Len(q) + 1 <= Cardinality(Handlers)
<1> DEFINE n == Len(q)
           f == [i \in 1..(n + 1) |-> IF i = n + 1 THEN u ELSE q[i]]
<1>1. n \in Nat /\ \A i \in 1..(n + 1) : i # n + 1 => i \in 1..n /\ q[i] \in Handlers
  OBVIOUS
<1>2. f \in Injection(1..(n + 1), Handlers)
  <2> HIDE DEF n
  <2>1. f \in [1..(n + 1) -> Handlers]
    BY <1>1
  <2>2. ASSUME NEW i \in 1..(n + 1), NEW j \in 1..(n + 1), f[i] = f[j] PROVE i = j
    BY <1>1, <2>2 DEF n
  <2>3. DOMAIN f = 1..(n + 1)
    OBVIOUS
  <2> HIDE DEF f
  <2>4. IsInjective(f)
    BY <2>2, <2>3 DEF IsInjective
  <2> QED
    BY <2>1, <2>4 DEF Injection
<1> HIDE DEF f
<1>3. Cardinality(1..(n + 1)) <= Cardinality(Handlers)
  BY <1>2, FS_Injection, ResourceAssumption
<1>4. Cardinality(1..(n + 1)) = n + 1
  BY <1>1, FS_Interval
<1> QED
  BY <1>3, <1>4

Line == Visitors /\ Queued /\ Running /\ Placed

\* Joining a queue.
LEMMA EntersKeeps ==
  ASSUME TypeOK, Line, NEW u \in Users, NEW s \in Stages, Enters(u, s)
  PROVE  Queued' /\ Running' /\ Placed'
<1> DEFINE q == waiting[s]
           n == Len(q)
<1>t. /\ pc \in [Users -> Labels] /\ waiting \in [Stages -> Seq(Users)] /\ q \in Seq(Users)
      /\ n \in Nat /\ overtaken \in [Users -> Nat] /\ running \in [Stages -> SUBSET Users]
  BY DEF TypeOK
<1>1. /\ pc[u] \notin Stages /\ pc' = [pc EXCEPT ![u] = s] /\ UNCHANGED running
      /\ waiting' = [waiting EXCEPT ![s] = Append(q, u)] /\ overtaken' = [overtaken EXCEPT ![u] = 0]
  BY DEF Enters, Submit, Stages
<1>2. /\ Len(Append(q, u)) = n + 1 /\ Append(q, u)[n + 1] = u
      /\ \A i \in 1..n : Append(q, u)[i] = q[i]
  BY <1>t
<1>k. \A x \in Stages : \A i \in 1..Len(waiting[x]) :
        /\ waiting[x][i] \in Users /\ pc[waiting[x][i]] = x /\ waiting[x][i] # u
        /\ waiting[x][i] \notin running[x]
        /\ \A j \in 1..Len(waiting[x]) : waiting[x][i] = waiting[x][j] => i = j
        /\ i + overtaken[waiting[x][i]] <= Cardinality(Handlers)
  BY <1>t, <1>1 DEF Line, Queued
<1>3. n + 1 <= Cardinality(Handlers)
  <2>1. u \in Handlers
    BY <1>1 DEF Enters, Line, Visitors, Elsewhere
  <2>2. \A i \in 1..n : q[i] \in Handlers
    BY <1>k DEF Line, Visitors, Elsewhere, Stages
  <2>3. q \in Seq(Handlers)
    <3>1. q = [i \in 1..n |-> q[i]]
      BY <1>t
    <3> QED
      BY <1>t, <2>2, <3>1
  <2> QED
    BY <1>k, <2>1, <2>3, QueueFits
<1>4. ASSUME NEW x \in Stages, NEW i \in 1..Len(waiting'[x])
      PROVE  /\ pc'[waiting'[x][i]] = x /\ waiting'[x][i] \notin running'[x]
             /\ \A j \in 1..Len(waiting'[x]) : waiting'[x][i] = waiting'[x][j] => i = j
             /\ i + overtaken'[waiting'[x][i]] <= Cardinality(Handlers)
  <2>1. CASE x # s
    <3>1. waiting'[x] = waiting[x]
      BY <1>1, <1>t, <2>1
    <3> QED
      BY <3>1, <1>1, <1>t, <1>k
  <2>2. CASE x = s
    <3>1. waiting'[s] = Append(q, u) /\ i \in 1..(n + 1)
      BY <1>1, <1>2, <1>t, <2>2
    <3> HIDE DEF n
    <3>2. CASE i = n + 1
      <4>1. waiting'[s][i] = u /\ u \notin running[s]
        BY <1>1, <1>2, <3>1, <3>2 DEF Line, Running
      <4>2. \A j \in 1..(n + 1) : Append(q, u)[j] = u => j = n + 1
        BY <1>2, <1>k, <1>t DEF n
      <4> QED
        BY <1>1, <1>2, <1>3, <1>t, <2>2, <3>1, <3>2, <4>1, <4>2
    <3>3. CASE i # n + 1
      <4>1. i \in 1..n
        BY <3>1, <3>3, <1>t
      <4>2. waiting'[s][i] = q[i] /\ q[i] # u /\ q[i] \in Users /\ pc[q[i]] = s /\ q[i] \notin running[s]
            /\ i + overtaken[q[i]] <= Cardinality(Handlers)
        BY <1>2, <1>k, <3>1, <4>1 DEF n
      <4>3. \A j \in 1..(n + 1) : q[i] = Append(q, u)[j] => i = j
        <5> SUFFICES ASSUME NEW j \in 1..(n + 1), q[i] = Append(q, u)[j] PROVE i = j
          OBVIOUS
        <5>1. j # n + 1
          BY <1>2, <4>2
        <5>2. j \in 1..n
          BY <5>1, <1>t
        <5> QED
          BY <1>2, <1>k, <4>1, <5>2 DEF n
      <4> QED
        BY <1>1, <1>2, <1>t, <2>2, <3>1, <4>2, <4>3
    <3> QED
      BY <3>2, <3>3
  <2> QED
    BY <2>1, <2>2
<1>5. Running'
  BY <1>1, <1>t DEF Line, Running
<1>6. Placed'
  <2> SUFFICES ASSUME NEW x \in Users, pc'[x] \in Stages PROVE x \in AtStage(pc[x])'
    BY DEF Placed
  <2>1. CASE x = u
    BY <1>1, <1>2, <1>t, <2>1 DEF AtStage
  <2>2. CASE x # u
    <3>1. pc'[x] = pc[x] /\ x \in AtStage(pc[x])
      BY <1>1, <1>t, <2>2 DEF Line, Placed
    <3>2. CASE pc[x] # s
      <4>1. waiting'[pc[x]] = waiting[pc[x]]
        BY <1>1, <1>t, <3>1, <3>2
      <4> QED
        BY <1>1, <3>1, <4>1 DEF AtStage
    <3>3. CASE pc[x] = s
      <4>1. x \in running[s] \/ \E i \in 1..n : q[i] = x
        BY <3>1, <3>3 DEF AtStage
      <4>2. \A i \in 1..n : i \in 1..(n + 1)
        BY <1>t
      <4> QED
        BY <1>1, <1>2, <1>t, <3>1, <3>3, <4>1, <4>2 DEF AtStage
    <3> QED
      BY <3>2, <3>3
  <2> QED
    BY <2>1, <2>2
<1> QED
  BY <1>4, <1>5, <1>6 DEF Queued

\* Giving a token back.
LEMMA ExitsKeeps ==
  ASSUME TypeOK, Line, NEW u \in Users, NEW s \in Stages, Exits(u, s)
  PROVE  Queued' /\ Running' /\ Placed'
<1>t. /\ pc \in [Users -> Labels] /\ waiting \in [Stages -> Seq(Users)]
      /\ overtaken \in [Users -> Nat] /\ running \in [Stages -> SUBSET Users]
  BY DEF TypeOK
<1>1. /\ u \in running[s] /\ running' = [running EXCEPT ![s] = @ \ {u}]
      /\ waiting' = waiting /\ overtaken' = overtaken /\ pc[u] = s /\ running[s] = {u}
  BY DEF Exits, Line, Running
<1>2. PICK l \in Labels \ Stages : pc' = [pc EXCEPT ![u] = l]
  BY DEF Exits
<1>3. ASSUME NEW x \in Stages, NEW i \in 1..Len(waiting[x])
      PROVE  waiting[x][i] \in Users /\ waiting[x][i] # u /\ pc[waiting[x][i]] = x
             /\ waiting[x][i] \notin running[x]
  BY <1>t, <1>1 DEF Line, Queued
<1>4. Queued'
  <2>1. \A x \in Stages : running'[x] \subseteq running[x]
    BY <1>t, <1>1
  <2>2. \A y \in Users : y # u => pc'[y] = pc[y]
    BY <1>2, <1>t
  <2> QED
    BY <1>1, <1>3, <2>1, <2>2 DEF Line, Queued
<1>5. Running'
  BY <1>1, <1>2, <1>t DEF Line, Running
<1>6. Placed'
  <2> SUFFICES ASSUME NEW x \in Users, pc'[x] \in Stages PROVE x \in AtStage(pc[x])'
    BY DEF Placed
  <2>1. x # u /\ pc'[x] = pc[x] /\ x \in AtStage(pc[x])
    BY <1>2, <1>t DEF Line, Placed
  <2>2. x \in running[pc[x]] => x \in running'[pc[x]]
    BY <1>1, <1>t, <2>1
  <2> QED
    BY <1>1, <2>1, <2>2 DEF AtStage
<1> QED
  BY <1>4, <1>5, <1>6

\* Passing by.
LEMMA PassesKeeps ==
  ASSUME TypeOK, Line, NEW u \in Users, Passes(u)
  PROVE  Queued' /\ Running' /\ Placed'
<1>t. /\ pc \in [Users -> Labels] /\ waiting \in [Stages -> Seq(Users)]
      /\ running \in [Stages -> SUBSET Users]
  BY DEF TypeOK
<1>1. waiting' = waiting /\ running' = running /\ overtaken' = overtaken /\ pc[u] \notin Stages
  BY DEF Passes, limiters
<1>2. PICK l \in Labels \ Stages : pc' = [pc EXCEPT ![u] = l]
  BY DEF Passes
<1>3. \A y \in Users : pc[y] \in Stages => pc'[y] = pc[y]
  BY <1>1, <1>2, <1>t
<1>4. \A x \in Stages : \A i \in 1..Len(waiting[x]) : waiting[x][i] \in Users
  BY <1>t
<1>5. Queued'
  BY <1>1, <1>3, <1>4 DEF Line, Queued
<1>6. Running'
  BY <1>1, <1>3, <1>t DEF Line, Running
<1>7. Placed'
  BY <1>1, <1>2, <1>t DEF Line, Placed, AtStage
<1> QED
  BY <1>5, <1>6, <1>7

\* The token goes to the head of a queue; the others move up by one place.
LEMMA AdmitKeeps ==
  ASSUME TypeOK, Line, NEW s \in Stages, Admit(s)
  PROVE  Queued' /\ Running' /\ Placed'
<1> DEFINE q == waiting[s]
           n == Len(q)
           h == Head(q)
<1>t. /\ pc \in [Users -> Labels] /\ waiting \in [Stages -> Seq(Users)] /\ q \in Seq(Users)
      /\ overtaken \in [Users -> Nat] /\ running \in [Stages -> SUBSET Users] /\ n \in Nat
  BY DEF TypeOK
<1>1. /\ q # <<>> /\ waiting' = [waiting EXCEPT ![s] = Tail(q)]
      /\ running' = [running EXCEPT ![s] = @ \cup {h}] /\ pc' = pc
      /\ overtaken' = [v \in Users |-> IF \E i \in 2..n : q[i] = v
                                       THEN overtaken[v] + 1 ELSE overtaken[v]]
  BY DEF Admit
<1>2. n >= 1 /\ 1 \in 1..n /\ h = q[1] /\ h \in Users /\ Len(Tail(q)) = n - 1
      /\ \A i \in 1..(n - 1) : Tail(q)[i] = q[i + 1] /\ i + 1 \in 1..n /\ i + 1 \in 2..n
  BY <1>1, <1>t
<1>3. running[s] = {}
  <2>1. ASSUME NEW v \in Users, running[s] = {v} PROVE FALSE
    <3>1. Cardinality({v}) = 1
      BY FS_Singleton
    <3>2. Cardinality(running[s]) < 1
      BY DEF Admit, Tokens
    <3>3. Cardinality(running[s]) = Cardinality({v})
      BY <2>1
    <3> QED
      BY <3>1, <3>2, <3>3
  <2> QED
    BY <2>1 DEF Line, Running
<1>k. \A x \in Stages : \A i \in 1..Len(waiting[x]) :
        /\ waiting[x][i] \in Users /\ pc[waiting[x][i]] = x
        /\ waiting[x][i] \notin running[x]
        /\ \A j \in 1..Len(waiting[x]) : waiting[x][i] = waiting[x][j] => i = j
        /\ i + overtaken[waiting[x][i]] <= Cardinality(Handlers)
  BY <1>t DEF Line, Queued
<1>4. running'[s] = {h} /\ \A x \in Stages : x # s => running'[x] = running[x] /\ waiting'[x] = waiting[x]
  BY <1>1, <1>3, <1>t
<1>5. waiting'[s] = Tail(q)
  BY <1>1, <1>t
<1>6. ASSUME NEW x \in Stages, NEW i \in 1..Len(waiting'[x])
      PROVE  /\ pc'[waiting'[x][i]] = x /\ waiting'[x][i] \notin running'[x]
             /\ \A j \in 1..Len(waiting'[x]) : waiting'[x][i] = waiting'[x][j] => i = j
             /\ i + overtaken'[waiting'[x][i]] <= Cardinality(Handlers)
  <2>1. CASE x # s
    <3>1. /\ waiting'[x] = waiting[x] /\ i \in 1..Len(waiting[x]) /\ waiting[x][i] \in Users
          /\ pc[waiting[x][i]] = x
      BY <1>4, <1>k, <2>1
    <3>2. \A j \in 2..n : q[j] # waiting[x][i]
      BY <1>k, <3>1, <2>1, <1>t
    <3>3. overtaken'[waiting[x][i]] = overtaken[waiting[x][i]]
      BY <1>1, <3>1, <3>2
    <3> QED
      BY <1>1, <1>4, <1>k, <2>1, <3>1, <3>3
  <2>2. CASE x = s
    <3>1. i \in 1..(n - 1) /\ waiting'[s] = Tail(q) /\ Len(waiting'[s]) = n - 1
      BY <1>2, <1>5, <2>2
    <3> HIDE DEF n
    <3>2. waiting'[s][i] = q[i + 1] /\ i + 1 \in 1..n /\ i + 1 \in 2..n
      BY <1>2, <3>1
    <3>3. /\ q[i + 1] \in Users /\ pc[q[i + 1]] = s /\ (i + 1) + overtaken[q[i + 1]] <= Cardinality(Handlers)
          /\ \A j \in 1..n : q[i + 1] = q[j] => i + 1 = j
      BY <1>k, <3>2 DEF n
    <3>4. q[i + 1] # h
      BY <1>2, <3>1, <3>3
    <3>5. overtaken'[q[i + 1]] = overtaken[q[i + 1]] + 1
      BY <1>1, <3>2, <3>3
    <3>6. i + overtaken'[q[i + 1]] <= Cardinality(Handlers)
      <4>1. overtaken[q[i + 1]] \in Nat /\ i \in Nat /\ Cardinality(Handlers) \in Nat
        BY <1>t, <3>1, <3>3, FS_CardinalityType, ResourceAssumption
      <4> QED
        BY <3>3, <3>5, <4>1
    <3>7. \A j \in 1..(n - 1) : Tail(q)[i] = Tail(q)[j] => i = j
      <4> SUFFICES ASSUME NEW j \in 1..(n - 1), Tail(q)[i] = Tail(q)[j] PROVE i = j
        OBVIOUS
      <4>1. q[i + 1] = q[j + 1] /\ j + 1 \in 1..n
        BY <1>2, <3>1
      <4>2. i + 1 = j + 1
        BY <3>3, <4>1
      <4> QED
        BY <3>1, <4>2
    <3>8. \A j \in 1..Len(waiting'[s]) : waiting'[s][i] = waiting'[s][j] => i = j
      BY <3>1, <3>7
    <3>9. pc'[waiting'[s][i]] = s /\ waiting'[s][i] \notin running'[s]
      BY <1>1, <1>4, <3>2, <3>3, <3>4
    <3>10. i + overtaken'[waiting'[s][i]] <= Cardinality(Handlers)
      BY <3>2, <3>6
    <3> QED
      BY <2>2, <3>8, <3>9, <3>10
  <2> QED
    BY <2>1, <2>2
<1>7. Running'
  BY <1>1, <1>2, <1>4, <1>k DEF Line, Running
<1>8. Placed'
  <2> SUFFICES ASSUME NEW v \in Users, pc[v] \in Stages PROVE v \in AtStage(pc[v])'
    BY <1>1 DEF Placed
  <2>1. v \in AtStage(pc[v])
    BY DEF Line, Placed
  <2>2. CASE pc[v] # s
    BY <1>1, <1>4, <2>1, <2>2 DEF AtStage
  <2>3. CASE pc[v] = s
    <3>1. PICK i \in 1..n : q[i] = v
      BY <1>3, <2>1, <2>3 DEF AtStage
    <3>2. CASE i = 1
      BY <1>1, <1>2, <1>4, <2>3, <3>1, <3>2 DEF AtStage
    <3>3. CASE i # 1
      <4>1. i - 1 \in 1..(n - 1) /\ (i - 1) + 1 = i
        BY <3>1, <3>3, <1>t
      <4>2. Tail(q)[i - 1] = v
        BY <1>2, <3>1, <4>1
      <4>3. pc'[v] = s /\ i - 1 \in 1..Len(waiting'[s]) /\ waiting'[s][i - 1] = v
        BY <1>1, <1>2, <1>5, <2>3, <4>1, <4>2
      <4>4. v \in AtStage(s)'
        BY <4>3 DEF AtStage
      <4> QED
        BY <1>1, <2>3, <4>4
    <3> QED
      BY <3>2, <3>3
  <2> QED
    BY <2>2, <2>3
<1> QED
  BY <1>6, <1>7, <1>8 DEF Queued

LEMMA LineStep == TypeOK /\ Line /\ [Next]_vars => Line'
<1> SUFFICES ASSUME TypeOK, Line, [Next]_vars PROVE Line'
  OBVIOUS
<1>1. Visitors'
  BY VisitorsStep DEF Line
<1>2. CASE UNCHANGED <<pc, limiters>>
  BY <1>2 DEF limiters, Line, Visitors, Queued, Running, Placed, AtStage
<1>3. CASE (\E u \in Users : Passes(u) \/ \E s \in Stages : Enters(u, s) \/ Exits(u, s))
           \/ \E s \in Stages : Admit(s)
  BY <1>1, <1>3, PassesKeeps, EntersKeeps, ExitsKeeps, AdmitKeeps DEF Line
<1> QED
  BY <1>2, <1>3, Moves

THEOREM InLine == Spec => [](TypeOK /\ Line)
<1>1. Init => TypeOK /\ Line
  BY TypeInit, QueueInit DEF Line
<1>2. TypeOK /\ Line /\ [Next]_vars => (TypeOK /\ Line)'
  BY TypeStep, LineStep
<1> QED
  BY <1>1, <1>2, PTL DEF Spec

\* At most one inference of a stage runs, and nobody who waits is overtaken by as
\* many inferences as there are handlers.
THEOREM TakenInTurn == Spec => []InTurn
<1>1. TypeOK /\ Line => InTurn
  <2> SUFFICES ASSUME TypeOK, Line, NEW s \in Stages
               PROVE  /\ Cardinality(running[s]) <= 1
                      /\ \A i \in 1..Len(waiting[s]) :
                           overtaken[waiting[s][i]] < Cardinality(Handlers)
    BY DEF InTurn
  <2>1. Cardinality(running[s]) <= 1
    <3>1. CASE running[s] = {}
      BY <3>1, FS_EmptySet
    <3>2. ASSUME NEW u \in Users, running[s] = {u} PROVE Cardinality(running[s]) <= 1
      <4>1. Cardinality({u}) = 1
        BY FS_Singleton
      <4>2. Cardinality(running[s]) = Cardinality({u})
        BY <3>2
      <4> QED
        BY <4>1, <4>2
    <3> QED
      BY <3>1, <3>2 DEF Line, Running
  <2>2. ASSUME NEW i \in 1..Len(waiting[s]) PROVE overtaken[waiting[s][i]] < Cardinality(Handlers)
    <3>1. waiting[s] \in Seq(Users) /\ overtaken \in [Users -> Nat]
      BY DEF TypeOK
    <3>2. overtaken[waiting[s][i]] \in Nat /\ i \in Nat /\ i >= 1 /\ Cardinality(Handlers) \in Nat
      BY <2>2, <3>1, FS_CardinalityType, ResourceAssumption
    <3>3. i + overtaken[waiting[s][i]] <= Cardinality(Handlers)
      BY <2>2 DEF Line, Queued
    <3> QED
      BY <3>2, <3>3
  <2> QED
    BY <2>1, <2>2
<1> QED
  BY <1>1, InLine, PTL

-------------------------------------------------------------------------------
(* The connections *)

\* Who has ended has given its connection back.
Freed == \A u \in Users : pc[u] = "ended" => held[u] = 0

\* A handler has no connection in TTS, and one while it listens only before its
\* first segment.
Spare == \A u \in Handlers :
  /\ pc[u] = "opening" => segments[u] = 0
  /\ pc[u] = "tts" => held[u] = 0
  /\ pc[u] = "listening" => held[u] = 0 \/ segments[u] = 0

LEMMA ConnectionsInit == Init => Freed /\ Spare
BY DEF Init, Freed, Spare, Users

LEMMA ConnectionsStep == TypeOK /\ Running /\ Freed /\ Spare /\ [Next]_vars => Freed' /\ Spare'
<1> SUFFICES ASSUME TypeOK, Running, Freed, Spare, [Next]_vars PROVE Freed' /\ Spare'
  OBVIOUS
<1> DEFINE Good(v) ==
      /\ pc[v] = "ended" => held[v] = 0
      /\ v \in Handlers =>
           /\ pc[v] = "opening" => segments[v] = 0
           /\ pc[v] = "tts" => held[v] = 0
           /\ pc[v] = "listening" => held[v] = 0 \/ segments[v] = 0
      GoodNext(v) ==
      /\ pc'[v] = "ended" => held'[v] = 0
      /\ v \in Handlers =>
           /\ pc'[v] = "opening" => segments'[v] = 0
           /\ pc'[v] = "tts" => held'[v] = 0
           /\ pc'[v] = "listening" => held'[v] = 0 \/ segments'[v] = 0
<1>t. /\ pc \in [Users -> Labels] /\ held \in [Users -> Nat] /\ segments \in [Users -> 0..MaxSegments]
      /\ running \in [Stages -> SUBSET Users]
  BY DEF TypeOK
<1>i. \A v \in Users : Good(v)
  BY DEF Freed, Spare
<1>s. (\A v \in Users : GoodNext(v)) => Freed' /\ Spare'
  BY DEF Freed, Spare, Users
<1>1. ASSUME NEW u \in Users, Runs(u) \/ Speaks(u) \/ Finishes(u), NEW v \in Users
      PROVE  GoodNext(v)
  <2>1. CASE v # u
    <3>1. pc'[v] = pc[v] /\ held'[v] = held[v] /\ segments'[v] = segments[v]
      BY <1>1, <1>t, <2>1 DEF Runs, Speaks, Finishes, Queries, TimesOut, Committed, Refused,
         Patches, Infers, Breaks, CleansUp, Leaves, Goto
    <3> QED
      BY <1>i, <3>1
  <2>2. CASE v = u
    <3>1. CASE Queries(u)
      <4>1. PICK l \in Query[pc[u]] :
              /\ held' = [held EXCEPT ![u] = IF l = "settle" THEN 0 ELSE IF @ = 0 THEN 1 ELSE @]
              /\ pc' = [pc EXCEPT ![u] = l]
        BY <3>1 DEF Queries, Goto
      <4>2. l \in Labels \ {"opening", "tts", "ended"}
            /\ (l = "listening" => pc[u] = "opening")
        BY <3>1, <4>1, Domains DEF Queries, Query, Labels, Stages
      <4> QED
        BY <1>i, <1>t, <2>2, <3>1, <4>1, <4>2 DEF Queries
    <3>2. CASE TimesOut(u)
      <4>1. pc' = [pc EXCEPT ![u] = Raised[pc[u]]] /\ Raised[pc[u]] \in {"leaving", "settle", "farewell"}
        BY <3>2, Domains DEF TimesOut, Goto, Raised
      <4> QED
        BY <1>t, <2>2, <4>1
    <3>3. CASE Committed(u)
      <4>1. /\ pc' = [pc EXCEPT ![u] = Commits[pc[u]]] /\ held' = [held EXCEPT ![u] = 0]
            /\ Commits[pc[u]] \in {"refresh", "tts", "reread", "reread2", "leaving"}
        BY <3>3, Domains DEF Committed, Goto, Commits
      <4> QED
        BY <1>t, <2>2, <4>1
    <3>4. CASE Infers(u)
      <4>1. \E s \in Stages : \E l \in Output[s] :
              u \in running[s] /\ pc' = [pc EXCEPT ![u] = l] /\ held' = held
              /\ segments' = [segments EXCEPT ![u] = IF l = "lookup" THEN @ + 1 ELSE @]
        BY <3>4 DEF Infers
      <4>2. PICK s \in Stages : \E l \in Output[s] :
              u \in running[s] /\ pc' = [pc EXCEPT ![u] = l] /\ held' = held
        BY <4>1
      <4>3. PICK l \in Output[s] : u \in running[s] /\ pc' = [pc EXCEPT ![u] = l] /\ held' = held
        BY <4>2
      <4>4. pc[u] = s /\ l \in {"transcription", "translation", "listening", "lookup"}
            /\ (l = "listening" => s = "tts")
        BY <4>3, Domains DEF Running, Output, Stages
      <4>5. l = "listening" => (u \in Handlers => held[u] = 0)
        BY <1>i, <4>4
      <4> QED
        BY <1>t, <2>2, <4>3, <4>4, <4>5
    <3>5. CASE Refused(u)
      <4>1. pc' = [pc EXCEPT ![u] = Rejected[pc[u]]] /\ Rejected[pc[u]] \in {"settle", "farewell", "leaving"}
        BY <3>5, Domains DEF Refused, Goto, Rejected
      <4> QED
        BY <1>t, <2>2, <4>1
    <3>6. CASE Breaks(u) \/ Patches(u) \/ Finishes(u) \/ CleansUp(u) \/ Leaves(u) \/ Speaks(u)
      <4>1. /\ \E l \in {"settle", "leaving", "cleanup", "ended", "lookup"} : pc' = [pc EXCEPT ![u] = l]
            /\ pc'[u] = "ended" => held' = [held EXCEPT ![u] = 0]
        BY <3>6, <1>t DEF Breaks, Patches, Finishes, CleansUp, Leaves, Speaks, Goto
      <4> QED
        BY <1>t, <2>2, <4>1
    <3> QED
      BY <1>1, <3>1, <3>2, <3>3, <3>4, <3>5, <3>6 DEF Runs
  <2> QED
    BY <2>1, <2>2
<1>2. CASE UNCHANGED vars \/ \E s \in Stages : Admit(s)
  BY <1>2 DEF vars, Admit, Freed, Spare
<1> QED
  BY <1>1, <1>2, <1>s DEF Next

THEOREM Connected == Spec => [](TypeOK /\ Line /\ Freed /\ Spare)
<1>1. Init => Freed /\ Spare
  BY ConnectionsInit
<1>2. TypeOK /\ Line /\ (Freed /\ Spare) /\ [Next]_vars => (Freed /\ Spare)'
  BY ConnectionsStep DEF Line
<1> QED
  BY <1>1, <1>2, InLine, PTL DEF Spec

\* A session that fails or ends leaves no token taken, no place in a queue and,
\* once it has ended, no connection.
THEOREM LeavesNothing == Spec => []NothingLeaks
<1>1. TypeOK /\ Line /\ Freed /\ Spare => NothingLeaks
  <2> SUFFICES ASSUME TypeOK, Line, Freed, NEW u \in Users, NEW s \in Stages
               PROVE  u \in AtStage(s) <=> pc[u] = s
    BY DEF NothingLeaks, Freed
  <2>1. pc[u] = s => u \in AtStage(s)
    BY DEF Line, Placed
  <2>2. u \in AtStage(s) => pc[u] = s
    BY DEF Line, Queued, Running, AtStage
  <2> QED
    BY <2>1, <2>2
<1> QED
  BY <1>1, Connected, PTL

\* No connection is kept while speech is synthesized, nor while the handler waits
\* for a client that has spoken.
THEOREM SpeaksFree == Spec => []SpeaksWithoutConnection
<1>1. TypeOK /\ Line /\ Freed /\ Spare => SpeaksWithoutConnection
  BY DEF Spare, SpeaksWithoutConnection, TypeOK, Users
<1> QED
  BY <1>1, Connected, PTL

-------------------------------------------------------------------------------
(* The pool *)

\* An AsyncSession has at most one connection, whatever transactions it begins and
\* ends.
OneEach == \A u \in Users : held[u] \in {0, 1}

LEMMA OneEachStep == TypeOK /\ OneEach /\ [Next]_vars => OneEach'
<1> SUFFICES ASSUME TypeOK, OneEach, [Next]_vars, NEW v \in Users PROVE held'[v] \in {0, 1}
  BY DEF OneEach
<1>1. held \in [Users -> Nat] /\ held[v] \in {0, 1}
  BY DEF TypeOK, OneEach
<1>2. ASSUME NEW u \in Users, Runs(u) \/ Speaks(u) \/ Finishes(u) PROVE held'[v] \in {0, 1}
  <2>1. CASE Queries(u)
    <3>1. PICK l \in Query[pc[u]] :
            held' = [held EXCEPT ![u] = IF l = "settle" THEN 0 ELSE IF @ = 0 THEN 1 ELSE @]
      BY <2>1 DEF Queries
    <3> QED
      BY <1>1, <3>1
  <2>r. CASE Refused(u)
    BY <1>1, <2>r DEF Refused
  <2>2. CASE TimesOut(u) \/ Committed(u) \/ Patches(u) \/ Infers(u) \/ Breaks(u) \/ CleansUp(u)
             \/ Leaves(u) \/ Speaks(u) \/ Finishes(u)
    <3>1. held' = held \/ held' = [held EXCEPT ![u] = 0]
      BY <2>2 DEF TimesOut, Committed, Patches, Infers, Breaks, CleansUp, Leaves, Speaks, Finishes
    <3> QED
      BY <1>1, <3>1
  <2> QED
    BY <1>2, <2>1, <2>r, <2>2 DEF Runs
<1>3. CASE UNCHANGED vars \/ \E s \in Stages : Admit(s)
  BY <1>1, <1>3 DEF vars, Admit
<1> QED
  BY <1>2, <1>3 DEF Next

\* So the pool counts its users.
LEMMA PoolCountsUsers ==
  ASSUME TypeOK, OneEach
  PROVE  InUse = Cardinality({ v \in Users : held[v] > 0 })
<1> DEFINE T == { v \in Users : held[v] > 0 }
           S == UNION { {u} \X (1..held[u]) : u \in Users }
           g == [v \in T |-> <<v, 1>>]
<1>1. IsFiniteSet(T)
  <2>1. IsFiniteSet(Users)
    BY ResourceAssumption, FS_Union DEF Users
  <2> QED
    BY <2>1, FS_Subset
<1>2. S = { <<v, 1>> : v \in T }
  <2>1. ASSUME NEW u \in Users PROVE {u} \X (1..held[u]) = IF u \in T THEN {<<u, 1>>} ELSE {}
    <3>1. CASE held[u] = 0
      BY <3>1
    <3>2. CASE held[u] = 1
      BY <3>2
    <3> QED
      BY <3>1, <3>2 DEF OneEach
  <2> HIDE DEF T
  <2> QED
    BY <2>1 DEF T
<1> HIDE DEF T, S
<1>3. g \in Injection(T, S)
  <2>1. g \in [T -> S] /\ DOMAIN g = T
    BY <1>2
  <2>2. \A v, w \in T : g[v] = g[w] => v = w
    OBVIOUS
  <2> HIDE DEF g
  <2>3. IsInjective(g)
    BY <2>1, <2>2 DEF IsInjective
  <2> QED
    BY <2>1, <2>3 DEF Injection
<1>4. g \in Surjection(T, S)
  <2>1. g \in [T -> S] /\ \A c \in S : \E v \in T : g[v] = c
    BY <1>2
  <2> HIDE DEF g
  <2> QED
    BY <2>1 DEF Surjection
<1>5. Cardinality(S) = Cardinality(T)
  <2> HIDE DEF g
  <2> QED
    BY <1>1, <1>3, <1>4, FS_Surjection
<1> QED
  BY <1>5 DEF InUse, S, T

\* A wait for the pool fails only when as many others as it has connections hold one.
THEOREM StarvedFairly == Spec => StarvedByOthers
<1>1. Init => OneEach
  BY DEF Init, OneEach
<1>2. TypeOK /\ OneEach /\ [Next]_vars => OneEach'
  BY OneEachStep
<1>3. TypeOK /\ OneEach /\ [Next]_vars =>
        [\A u \in starved' \ starved :
           Cardinality({ v \in Users \ {u} : held[v] > 0 }) >= PoolSize]_vars
  <2> SUFFICES ASSUME TypeOK, OneEach, Next, NEW u \in starved' \ starved
               PROVE  Cardinality({ v \in Users \ {u} : held[v] > 0 }) >= PoolSize
    OBVIOUS
  <2>1. PICK w \in Users : TimesOut(w)
    BY DEF Next, Runs, Queries, Committed, Refused, Patches, Infers, Breaks, CleansUp, Leaves,
           Speaks, Finishes, Admit
  <2>2. u = w /\ held[u] = 0 /\ InUse >= PoolSize
    BY <2>1 DEF TimesOut
  <2>3. { v \in Users \ {u} : held[v] > 0 } = { v \in Users : held[v] > 0 }
    BY <2>2
  <2> QED
    BY <2>2, <2>3, PoolCountsUsers
<1> QED
  BY <1>1, <1>2, <1>3, TypeCorrect, PTL DEF Spec, StarvedByOthers
-------------------------------------------------------------------------------
(* The waits *)

\* Where a query, a timeout, a commit and an inference lead is nearer to the end.
LEMMA LeadsOn ==
  /\ \A l \in Labels : Further[l] \in Nat
  /\ \A x \in DOMAIN Query : /\ Further[Raised[x]] < Further[x]
                             /\ \A l \in Query[x] : Further[l] < Further[x]
  /\ \A x \in DOMAIN Commits : /\ Further[Commits[x]] < Further[x]
                               /\ Further[Rejected[x]] < Further[x]
  /\ \A s \in Stages : /\ Further["settle"] < Further[s]
                       /\ \A l \in Output[s] : l # "lookup" => Further[l] < Further[s]
BY Domains DEF Query, Raised, Commits, Rejected, Output, Stages, Labels, Further

\* A step of its own takes a user nearer to its end.
LEMMA RunsNearer ==
  ASSUME TypeOK, Running, NEW u \in Users, Runs(u)
  PROVE  Nearer(u)
<1>t. pc \in [Users -> Labels] /\ segments \in [Users -> 0..MaxSegments]
  BY DEF TypeOK
<1>n. (segments'[u] = segments[u] /\ Further[pc'[u]] < Further[pc[u]]) => Nearer(u)
  BY DEF Nearer
<1>1. CASE Queries(u)
  <2>1. PICK l \in Query[pc[u]] : pc' = [pc EXCEPT ![u] = l] /\ segments' = segments
    BY <1>1 DEF Queries, Goto
  <2> QED
    BY <1>1, <1>n, <1>t, <2>1, LeadsOn DEF Queries
<1>2. CASE TimesOut(u) \/ Committed(u) \/ Refused(u)
  BY <1>2, <1>n, <1>t, LeadsOn DEF TimesOut, Committed, Refused, Goto
<1>3. CASE Patches(u) \/ CleansUp(u) \/ Leaves(u)
  <2>1. /\ segments' = segments
        /\ \/ pc[u] = "authorized" /\ pc' = [pc EXCEPT ![u] = "cleanup"]
           \/ pc[u] = "farewell" /\ \E l \in {"leaving", "cleanup"} : pc' = [pc EXCEPT ![u] = l]
           \/ pc[u] = "leaving" /\ pc' = [pc EXCEPT ![u] = "ended"]
    BY <1>3 DEF Patches, CleansUp, Leaves, Goto
  <2> QED
    BY <1>n, <1>t, <2>1 DEF Further
<1>4. CASE Infers(u)
  <2>0. PICK s \in Stages : \E l \in Output[s] :
          /\ u \in running[s] /\ pc' = [pc EXCEPT ![u] = l]
          /\ segments' = [segments EXCEPT ![u] = IF l = "lookup" THEN @ + 1 ELSE @]
    BY <1>4 DEF Infers
  <2>1. PICK l \in Output[s] :
          /\ u \in running[s] /\ pc' = [pc EXCEPT ![u] = l]
          /\ segments' = [segments EXCEPT ![u] = IF l = "lookup" THEN @ + 1 ELSE @]
    BY <2>0
  <2>2. pc[u] = s
    BY <2>1 DEF Running
  <2>3. CASE l = "lookup"
    <3>1. segments'[u] = segments[u] + 1 /\ segments[u] \in 0..MaxSegments
      BY <1>t, <2>1, <2>3
    <3> QED
      BY <3>1, ResourceAssumption DEF Nearer
  <2>4. CASE l # "lookup"
    BY <1>n, <1>t, <2>1, <2>2, <2>4, LeadsOn
  <2> QED
    BY <2>3, <2>4
<1>5. CASE Breaks(u)
  <2>1. PICK s \in Stages :
          u \in running[s] /\ pc' = [pc EXCEPT ![u] = "settle"] /\ segments' = segments
    BY <1>5 DEF Breaks
  <2> QED
    BY <1>n, <1>t, <2>1, LeadsOn DEF Running
<1> QED
  BY <1>1, <1>2, <1>3, <1>4, <1>5 DEF Runs

\* A step of another leaves it where it is, in its queue too.
LEMMA OthersStay ==
  ASSUME TypeOK, NEW u \in Users, NEW v \in Users, u # v, Runs(u) \/ Speaks(u) \/ Finishes(u)
  PROVE  Stays(v)
<1>t. /\ pc \in [Users -> Labels] /\ segments \in [Users -> 0..MaxSegments]
      /\ waiting \in [Stages -> Seq(Users)]
  BY DEF TypeOK
<1>1. pc'[v] = pc[v] /\ segments'[v] = segments[v]
  BY <1>t DEF Runs, Speaks, Finishes, Queries, TimesOut, Committed, Refused, Patches, Infers,
     Breaks, CleansUp, Leaves, Goto
<1>2. waiting' = waiting \/ \E s \in Stages : waiting' = [waiting EXCEPT ![s] = Append(@, u)]
  <2>1. CASE Infers(u) \/ Breaks(u)
    BY <2>1 DEF Infers, Breaks
  <2>2. CASE \E l \in Labels \cup Stages : Goto(u, l)
    BY <2>2 DEF Goto, Submit, limiters
  <2>3. CASE Queries(u) \/ TimesOut(u) \/ Committed(u) \/ Refused(u)
    BY <2>2, <2>3, Leads DEF Queries, TimesOut, Committed, Refused
  <2>4. CASE Patches(u) \/ CleansUp(u) \/ Leaves(u) \/ Speaks(u) \/ Finishes(u)
    <3>1. {"settle", "leaving", "cleanup", "ended", "lookup"} \subseteq Labels
      BY Domains DEF Labels
    <3> QED
      BY <2>2, <2>4, <3>1 DEF Patches, CleansUp, Leaves, Speaks, Finishes
  <2> QED
    BY <2>1, <2>3, <2>4 DEF Runs
<1>3. CASE waiting' = waiting
  BY <1>1, <1>3 DEF Stays, NotAfter
<1>4. ASSUME NEW s \in Stages, waiting' = [waiting EXCEPT ![s] = Append(@, u)] PROVE Stays(v)
  <2> DEFINE Before(q, w) == \E i \in 1..Len(q) : q[i] = v /\ \E j \in 1..i : q[j] = w
  <2>1. ASSUME NEW w \in Users, NEW q \in Seq(Users) PROVE Before(Append(q, u), w) <=> Before(q, w)
    <3>1. /\ Len(Append(q, u)) = Len(q) + 1 /\ Append(q, u)[Len(q) + 1] = u
          /\ \A i \in 1..Len(q) : Append(q, u)[i] = q[i]
          /\ Len(q) \in Nat
      OBVIOUS
    <3>2. \A i \in 1..Len(q) : \A j \in 1..i : j \in 1..Len(q) /\ Append(q, u)[j] = q[j]
      BY <3>1
    <3>3. \A i \in 1..(Len(q) + 1) : Append(q, u)[i] = v => i \in 1..Len(q)
      BY <3>1
    <3> QED
      BY <3>1, <3>2, <3>3
  <2>2. \A x \in Stages : \A w \in Users : Before(waiting'[x], w) <=> Before(waiting[x], w)
    <3> SUFFICES ASSUME NEW x \in Stages, NEW w \in Users
                 PROVE  Before(waiting'[x], w) <=> Before(waiting[x], w)
      OBVIOUS
    <3>1. /\ waiting[x] \in Seq(Users)
          /\ waiting'[x] = waiting[x] \/ waiting'[x] = Append(waiting[x], u)
      BY <1>t, <1>4
    <3> HIDE DEF Before
    <3> QED
      BY <2>1, <3>1
  <2>3. NotAfter(v)' = NotAfter(v)
    BY <2>2 DEF NotAfter
  <2> QED
    BY <1>1, <2>3 DEF Stays
<1> QED
  BY <1>2, <1>3, <1>4

\* A token handed over takes all who wait for it nearer, and leaves the others where
\* they are: whoever stood before the head of the queue was the head.
LEMMA AdmitNearer ==
  ASSUME TypeOK, Line, NEW s \in Stages, Admit(s), NEW u \in Users
  PROVE  IF u \in AtStage(s) \ running[s] THEN Nearer(u) ELSE Stays(u)
<1> DEFINE q == waiting[s]
           n == Len(q)
           h == Head(q)
<1>t. waiting \in [Stages -> Seq(Users)] /\ q \in Seq(Users) /\ n \in Nat
  BY DEF TypeOK
<1>1. q # <<>> /\ waiting' = [waiting EXCEPT ![s] = Tail(q)] /\ UNCHANGED <<pc, segments>>
  BY DEF Admit
<1>2. /\ n >= 1 /\ 1 \in 1..n /\ h = q[1] /\ h \in Users
      /\ Len(Tail(q)) = n - 1 /\ \A i \in 1..(n - 1) : Tail(q)[i] = q[i + 1] /\ i + 1 \in 1..n
  BY <1>1, <1>t
<1>3. waiting'[s] = Tail(q) /\ \A x \in Stages : x # s => waiting'[x] = waiting[x]
  BY <1>1, <1>t
<1>4. \A x \in Stages : \A i, j \in 1..Len(waiting[x]) :
        pc[waiting[x][i]] = x /\ (waiting[x][i] = waiting[x][j] => i = j)
  BY DEF Line, Queued
<1>5. CASE u \in AtStage(s) \ running[s]
  <2>1. PICK i \in 1..n : q[i] = u
    BY <1>5 DEF AtStage
  <2>2. h \in NotAfter(u)
    <3>1. 1 \in 1..i /\ i \in 1..Len(waiting[s])
      BY <1>t, <2>1
    <3> QED
      BY <1>2, <2>1, <3>1 DEF NotAfter
  <2>3. NotAfter(u)' \subseteq NotAfter(u)
    <3> SUFFICES ASSUME NEW w \in Users, w \in NotAfter(u)' PROVE w \in NotAfter(u)
      BY DEF NotAfter
    <3>1. PICK x \in Stages : \E k \in 1..Len(waiting'[x]) :
            waiting'[x][k] = u /\ \E j \in 1..k : waiting'[x][j] = w
      BY DEF NotAfter
    <3>2. CASE x # s
      BY <1>3, <3>1, <3>2 DEF NotAfter
    <3>3. CASE x = s
      <4>1. PICK k \in 1..(n - 1) : Tail(q)[k] = u /\ \E j \in 1..k : Tail(q)[j] = w
        BY <1>2, <1>3, <3>1, <3>3
      <4>2. PICK j \in 1..k : Tail(q)[j] = w
        BY <4>1
      <4>3. j \in 1..(n - 1) /\ j + 1 \in 1..(k + 1) /\ k + 1 \in 1..Len(waiting[s])
        BY <1>t, <4>1, <4>2
      <4>4. waiting[s][k + 1] = u /\ waiting[s][j + 1] = w
        BY <1>2, <4>1, <4>2, <4>3
      <4> QED
        BY <4>3, <4>4 DEF NotAfter
    <3> QED
      BY <3>2, <3>3
  <2>4. h \notin NotAfter(u)'
    <3> SUFFICES ASSUME h \in NotAfter(u)' PROVE FALSE
      OBVIOUS
    <3>1. PICK x \in Stages : \E k \in 1..Len(waiting'[x]) : \E j \in 1..k : waiting'[x][j] = h
      BY DEF NotAfter
    <3>2. pc[h] = s
      BY <1>2, <1>4
    <3>3. x = s
      <4> SUFFICES ASSUME x # s PROVE FALSE
        OBVIOUS
      <4>1. waiting[x] \in Seq(Users) /\ waiting'[x] = waiting[x]
        BY <1>3, <1>t
      <4>2. PICK k \in 1..Len(waiting[x]) : \E j \in 1..k : waiting[x][j] = h
        BY <3>1, <4>1
      <4>3. PICK j \in 1..k : waiting[x][j] = h
        BY <4>2
      <4>4. j \in 1..Len(waiting[x])
        BY <4>1
      <4> QED
        BY <1>4, <3>2, <4>3, <4>4
    <3>4. PICK k \in 1..(n - 1) : \E j \in 1..k : Tail(q)[j] = h
      BY <1>2, <1>3, <3>1, <3>3
    <3>5. PICK j \in 1..k : Tail(q)[j] = h
      BY <3>4
    <3>6. j \in 1..(n - 1) /\ j + 1 # 1
      BY <1>t, <3>4
    <3> QED
      BY <1>2, <1>4, <3>5, <3>6
  <2> QED
    BY <1>1, <1>5, <2>2, <2>3, <2>4 DEF Nearer
<1>6. CASE u \notin AtStage(s) \ running[s]
  <2>1. \A i \in 1..n : q[i] # u
    BY <1>6 DEF AtStage, Line, Queued
  <2>2. \A k \in 1..(n - 1) : Tail(q)[k] # u
    BY <1>2, <2>1
  <2>3. ASSUME NEW w \in Users, NEW x \in Stages
        PROVE  (\E k \in 1..Len(waiting'[x]) : waiting'[x][k] = u /\ \E j \in 1..k : waiting'[x][j] = w)
               <=> (\E k \in 1..Len(waiting[x]) : waiting[x][k] = u /\ \E j \in 1..k : waiting[x][j] = w)
    <3>1. CASE x # s
      BY <1>3, <3>1
    <3>2. CASE x = s
      BY <1>2, <1>3, <2>1, <2>2, <3>2
    <3> QED
      BY <3>1, <3>2
  <2>4. NotAfter(u)' = NotAfter(u)
    BY <2>3 DEF NotAfter
  <2> QED
    BY <1>1, <1>6, <2>4 DEF Stays
<1> QED
  BY <1>5, <1>6

\* No session under way is ever set back by another, and each step of its own, or of
\* the token it waits for, takes it nearer to its end.
THEOREM NobodySetBack == Spec => NobodyIsSetBack
<1> DEFINE Onward ==
      /\ \A u \in Users : pc[u] # "listening" => Nearer(u) \/ Stays(u)
      /\ \A u \in Users : Runs(u) => Nearer(u)
      /\ \A s \in Stages : Admit(s) => \A u \in AtStage(s) \ running[s] : Nearer(u)
<1>1. TypeOK /\ Line /\ [Next]_vars => [Onward]_vars
  <2> SUFFICES ASSUME TypeOK, Line, Next PROVE Onward
    OBVIOUS
  <2>1. \A u \in Users : Runs(u) => Nearer(u)
    BY RunsNearer DEF Line
  <2>2. ASSUME NEW s \in Stages, Admit(s), NEW u \in AtStage(s) \ running[s] PROVE Nearer(u)
    <3>1. u \in Users
      BY <2>2 DEF AtStage, TypeOK
    <3> QED
      BY <2>2, <3>1, AdmitNearer
  <2>3. ASSUME NEW v \in Users, pc[v] # "listening" PROVE Nearer(v) \/ Stays(v)
    <3>1. ASSUME NEW u \in Users, Runs(u) \/ Speaks(u) \/ Finishes(u) PROVE Nearer(v) \/ Stays(v)
      <4>1. CASE u = v
        BY <2>1, <2>3, <3>1, <4>1 DEF Speaks, Finishes
      <4>2. CASE u # v
        BY <3>1, <4>2, OthersStay
      <4> QED
        BY <4>1, <4>2
    <3>2. ASSUME NEW s \in Stages, Admit(s) PROVE Nearer(v) \/ Stays(v)
      BY <3>2, AdmitNearer
    <3> QED
      BY <3>1, <3>2 DEF Next
  <2> QED
    BY <2>1, <2>2, <2>3
<1> QED
  BY <1>1, InLine, PTL DEF Spec, NobodyIsSetBack
===============================================================================
