---------------------------- MODULE SharedResources ----------------------------
(***************************************************************************)
(* What the sessions of one process compete for: the one-token limiter of   *)
(* each inference stage (asr_service.py, mt_service.py, tts_service.py) and *)
(* the connections of the database pool (db/session.py).  A request or a    *)
(* WebSocket has one AsyncSession.  It takes a connection at its first      *)
(* query and gives it back at a commit, a rollback or its end; so it keeps  *)
(* one while it waits for ASR, for MT, and for a client that has not spoken *)
(* yet.  A wait for the pool times out and raises.                          *)
(***************************************************************************)
EXTENDS Integers, Sequences, FiniteSets

CONSTANTS Handlers,    \* WebSocket connections
          Visits,      \* REST requests
          PoolSize,    \* connections of the pool, overflow included
          MaxSegments  \* bound: segments of one handler

ASSUME ResourceAssumption ==
  PoolSize \in Nat \ {0} /\ MaxSegments \in Nat /\ IsFiniteSet(Handlers) /\ IsFiniteSet(Visits)

VARIABLES
  pc,        \* where each user of the resources is
  held,      \* connections it has
  waiting,   \* per stage, who waits for the token, in order of arrival
  running,   \* per stage, whose inference is on a worker thread
  segments,  \* segments run so far
  overtaken, \* history: inferences started since the user joined the queue it is in
  starved    \* history: who waited for the pool in vain

vars == <<pc, held, waiting, running, segments, overtaken, starved>>
limiters == <<waiting, running, overtaken>>

Users  == Handlers \cup Visits
Stages == {"asr", "mt", "tts"}
Tokens == 1

Init ==
  /\ pc = [u \in Users |-> IF u \in Handlers THEN "opening" ELSE "visit"]
  /\ held = [u \in Users |-> 0]
  /\ waiting = [s \in Stages |-> <<>>] /\ running = [s \in Stages |-> {}]
  /\ segments = [u \in Users |-> 0]
  /\ overtaken = [u \in Users |-> 0]
  /\ starved = {}

\* The queries that begin a transaction, where they may lead, and where the
\* TimeoutError of the pool leads.  A REST request begins at "visit", with POST's
\* INSERT or the check of its token: a GET and whoever is refused only answer, a
\* DELETE commits what it deletes, and PATCH goes on to update_status().
Query == [opening |-> {"listening", "leaving"},
          visit |-> {"leaving", "status2", "deletion", "authorized"},
          lookup |-> {"asr", "settle"}, refresh |-> {"mt", "settle"},
          settle |-> {"status", "farewell"}, reread |-> {"farewell"},
          cleanup |-> {"status2", "leaving"}, reread2 |-> {"leaving"}]
Raised == [opening |-> "leaving", visit |-> "leaving", lookup |-> "settle", refresh |-> "settle",
           settle |-> "farewell", reread |-> "farewell", cleanup |-> "leaving", reread2 |-> "leaving"]
\* The commits that end one, and where one leads that is refused.
Commits == [transcription |-> "refresh", translation |-> "tts", status |-> "reread",
            status2 |-> "reread2", deletion |-> "leaving"]
Rejected == [transcription |-> "settle", translation |-> "settle", status |-> "farewell",
             status2 |-> "leaving", deletion |-> "leaving"]
\* What follows an inference.
Output == [asr |-> {"transcription"}, mt |-> {"translation"}, tts |-> {"listening", "lookup"}]

\* The connections checked out, whoever has them.
InUse == Cardinality(UNION { {u} \X (1..held[u]) : u \in Users })

-------------------------------------------------------------------------------
(* The limiters *)

\* A mistake: the limiter serves the last to come.
SubmitInFront(u, s) ==
  /\ waiting' = [waiting EXCEPT ![s] = <<u>> \o @]
  /\ overtaken' = [overtaken EXCEPT ![u] = 0] /\ UNCHANGED running

\* to_thread.run_sync(..., limiter): join the queue of the stage.
Submit(u, s) ==
  /\ waiting' = [waiting EXCEPT ![s] = Append(@, u)]
  /\ overtaken' = [overtaken EXCEPT ![u] = 0] /\ UNCHANGED running

\* Go on to a label; a stage begins in its queue.
Goto(u, label) ==
  /\ pc' = [pc EXCEPT ![u] = label]
  /\ IF label \in Stages THEN Submit(u, label) ELSE UNCHANGED limiters

\* The token goes to the first in the queue.
Admit(s) ==
  /\ waiting[s] # <<>> /\ Cardinality(running[s]) < Tokens
  /\ waiting' = [waiting EXCEPT ![s] = Tail(@)]
  /\ running' = [running EXCEPT ![s] = @ \cup {Head(waiting[s])}]
  /\ overtaken' = [u \in Users |-> IF \E i \in 2..Len(waiting[s]) : waiting[s][i] = u
                                   THEN overtaken[u] + 1 ELSE overtaken[u]]
  /\ UNCHANGED <<pc, held, segments, starved>>

\* A mistake: the token is not given back when the inference raises.
KeepsToken(u) ==
  \E s \in Stages :
    /\ u \in running[s]
    /\ pc' = [pc EXCEPT ![u] = "settle"]
    /\ held' = [held EXCEPT ![u] = 0]
    /\ UNCHANGED <<waiting, running, overtaken, segments, starved>>

\* The inference raises; run_sync gives the token back and _fail() begins with a rollback.
Breaks(u) ==
  \E s \in Stages :
    /\ u \in running[s]
    /\ running' = [running EXCEPT ![s] = @ \ {u}]
    /\ pc' = [pc EXCEPT ![u] = "settle"]
    /\ held' = [held EXCEPT ![u] = 0]
    /\ UNCHANGED <<waiting, overtaken, segments, starved>>

\* The inference answers.  After TTS a further segment of the chunk may follow.
Infers(u) ==
  \E s \in Stages : \E label \in Output[s] :
    /\ u \in running[s]
    /\ running' = [running EXCEPT ![s] = @ \ {u}]
    /\ label = "lookup" => segments[u] < MaxSegments
    /\ segments' = [segments EXCEPT ![u] = IF label = "lookup" THEN @ + 1 ELSE @]
    /\ pc' = [pc EXCEPT ![u] = label]
    /\ UNCHANGED <<waiting, overtaken, held, starved>>

-------------------------------------------------------------------------------
(* The pool *)

\* A query: with the connection the user has, or one from the pool.  A row that is
\* not found sends _run to _fail(), which begins with a rollback.
Queries(u) ==
  /\ pc[u] \in DOMAIN Query
  /\ held[u] > 0 \/ InUse < PoolSize
  /\ \E label \in Query[pc[u]] :
       /\ held' = [held EXCEPT ![u] = IF label = "settle" THEN 0 ELSE IF @ = 0 THEN 1 ELSE @]
       /\ Goto(u, label)
  /\ UNCHANGED <<segments, starved>>

\* Nobody gave a connection back in time.
TimesOut(u) ==
  /\ pc[u] \in DOMAIN Query
  /\ held[u] = 0 /\ InUse >= PoolSize
  /\ starved' = starved \cup {u}
  /\ Goto(u, Raised[pc[u]])
  /\ UNCHANGED <<held, segments>>

\* A mistake: one AsyncSession per repository, each with its own transaction.
CommitsItsOwn(u) ==
  /\ pc[u] \in DOMAIN Commits
  /\ held' = [held EXCEPT ![u] = IF pc[u] = "transcription" THEN 2 ELSE 0]
  /\ Goto(u, Commits[pc[u]])
  /\ UNCHANGED <<segments, starved>>

\* A mistake: the translation is refreshed too, for nobody.
CommitsAndRefreshes(u) ==
  /\ pc[u] \in DOMAIN Commits
  /\ held' = [held EXCEPT ![u] = IF pc[u] = "translation" THEN 1 ELSE 0]
  /\ Goto(u, Commits[pc[u]])
  /\ UNCHANGED <<segments, starved>>

\* A commit gives the connection back.
Committed(u) ==
  /\ pc[u] \in DOMAIN Commits
  /\ held' = [held EXCEPT ![u] = 0]
  /\ Goto(u, Commits[pc[u]])
  /\ UNCHANGED <<segments, starved>>

\* A commit is refused.  The connection is kept until a rollback, with which _fail()
\* begins.
Refused(u) ==
  /\ pc[u] \in DOMAIN Commits
  /\ held' = [held EXCEPT ![u] = IF Rejected[pc[u]] = "settle" THEN 0 ELSE @]
  /\ Goto(u, Rejected[pc[u]])
  /\ UNCHANGED <<segments, starved>>

\* PATCH: update_status() rolls the transaction of the token's check back, and its
\* own query waits for the pool again, and so does the refresh after its commit.
Patches(u) ==
  /\ pc[u] = "authorized"
  /\ held' = [held EXCEPT ![u] = 0]
  /\ Goto(u, "cleanup")
  /\ UNCHANGED <<segments, starved>>

-------------------------------------------------------------------------------
(* The handler between segments *)

\* A chunk closes a segment.
Speaks(u) ==
  /\ pc[u] = "listening" /\ segments[u] < MaxSegments
  /\ segments' = [segments EXCEPT ![u] = @ + 1]
  /\ Goto(u, "lookup")
  /\ UNCHANGED <<held, starved>>

\* The commit message or a disconnect: update_status() begins with a rollback.
Finishes(u) ==
  /\ pc[u] = "listening"
  /\ held' = [held EXCEPT ![u] = 0]
  /\ Goto(u, "settle")
  /\ UNCHANGED <<segments, starved>>

\* The finally block: nothing more, or, with nothing decided, a second update_status().
CleansUp(u) ==
  /\ pc[u] = "farewell"
  /\ \/ Goto(u, "leaving") /\ UNCHANGED held
     \/ Goto(u, "cleanup") /\ held' = [held EXCEPT ![u] = 0]
  /\ UNCHANGED <<segments, starved>>

\* get_session()'s async with closes the AsyncSession.
Leaves(u) ==
  /\ pc[u] = "leaving"
  /\ held' = [held EXCEPT ![u] = 0]
  /\ Goto(u, "ended")
  /\ UNCHANGED <<segments, starved>>

-------------------------------------------------------------------------------
(* The specification *)

Runs(u) == \/ Queries(u) \/ TimesOut(u) \/ Committed(u) \/ Refused(u)
           \/ Patches(u) \/ Infers(u) \/ Breaks(u) \/ CleansUp(u) \/ Leaves(u)

Next == \/ \E u \in Users : Runs(u) \/ Speaks(u) \/ Finishes(u)
        \/ \E s \in Stages : Admit(s)

Spec == Init /\ [][Next]_vars

\* A query, a commit and an inference end, a wait for the pool ends in one way or
\* the other, and a free token is handed over.  No client owes a chunk or a farewell.
FairSpec == Spec /\ (\A u \in Users : WF_vars(Runs(u))) /\ (\A s \in Stages : WF_vars(Admit(s)))

-------------------------------------------------------------------------------
(* Properties *)

Labels == DOMAIN Query \cup DOMAIN Commits \cup Stages
            \cup {"listening", "farewell", "authorized", "leaving", "ended"}

\* Every variable has its type, and who is at a stage is in its queue or runs.
TypeOK ==
  /\ pc \in [Users -> Labels] /\ held \in [Users -> Nat]
  /\ waiting \in [Stages -> Seq(Users)] /\ running \in [Stages -> SUBSET Users]
  /\ segments \in [Users -> 0..MaxSegments] /\ overtaken \in [Users -> Nat]
  /\ starved \subseteq Users

AtStage(s) == { waiting[s][i] : i \in 1..Len(waiting[s]) } \cup running[s]

\* config.py:67-70, asr_service.py:10-15: the inferences of one stage never overlap,
\* and a session waits for at most one of each other session: none is starved by a
\* speaker who never pauses.
InTurn ==
  \A s \in Stages :
    /\ Cardinality(running[s]) <= 1
    /\ \A i \in 1..Len(waiting[s]) : overtaken[waiting[s][i]] < Cardinality(Handlers)

\* Nothing is lost to a session that failed: who is at no stage has no token and no
\* place in a queue, and who has ended has no connection.
NothingLeaks ==
  \A u \in Users :
    /\ \A s \in Stages : u \in AtStage(s) <=> pc[u] = s
    /\ pc[u] = "ended" => held[u] = 0

\* A wait for the pool fails only when as many other users as it has connections
\* hold one each: no user ever holds two, not even across _run and _fail().
StarvedByOthers ==
  [][\A u \in starved' \ starved :
       Cardinality({ v \in Users \ {u} : held[v] > 0 }) >= PoolSize]_vars

\* While its speech is synthesized, and while it waits for a client that has
\* spoken, a session keeps no connection from the others.
SpeaksWithoutConnection ==
  \A u \in Handlers :
    pc[u] = "tts" \/ (pc[u] = "listening" /\ segments[u] > 0) => held[u] = 0

\* Those the token of its stage reaches no later than u, u among them.
NotAfter(u) ==
  { v \in Users : \E s \in Stages : \E i \in 1..Len(waiting[s]) :
                    waiting[s][i] = u /\ \E j \in 1..i : waiting[s][j] = v }

\* How far a user is from its end, or from listening again: segments, the way from
\* its label, and those before it in its queue.
Further == [opening |-> 16, visit |-> 16, lookup |-> 15, asr |-> 14, transcription |-> 13,
            refresh |-> 12, mt |-> 11, translation |-> 10, tts |-> 9, settle |-> 8, status |-> 7,
            reread |-> 6, farewell |-> 5, authorized |-> 5, cleanup |-> 4, status2 |-> 3,
            reread2 |-> 2, deletion |-> 2, leaving |-> 1, listening |-> 0, ended |-> 0]

Nearer(u) ==
  \/ segments'[u] > segments[u]
  \/ /\ segments'[u] = segments[u]
     /\ \/ Further[pc'[u]] < Further[pc[u]]
        \/ pc'[u] = pc[u] /\ NotAfter(u)' \subseteq NotAfter(u) /\ NotAfter(u)' # NotAfter(u)

Stays(u) == pc'[u] = pc[u] /\ segments'[u] = segments[u] /\ NotAfter(u)' = NotAfter(u)

\* Whatever another session does, none that is under way is set back: not in its queue,
\* nor to a label it has passed.  Each step of its own takes it nearer to its end, a
\* failure or a timeout too, and a token handed over all who wait for it.
NobodyIsSetBack ==
  [][/\ \A u \in Users : pc[u] # "listening" => Nearer(u) \/ Stays(u)
     /\ \A u \in Users : Runs(u) => Nearer(u)
     /\ \A s \in Stages : Admit(s) => \A u \in AtStage(s) \ running[s] : Nearer(u)]_vars

\* Whatever is under way ends - a segment, a handler's end, a REST request with each
\* of its waits - also when idle sockets hold every connection: no cycle of waits for
\* tokens and connections.
Served == \A u \in Users : pc[u] # "listening" ~> pc[u] \in {"listening", "ended"}
===============================================================================
