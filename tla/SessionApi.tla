------------------------------ MODULE SessionApi ------------------------------
(***************************************************************************)
(* The requests of src/app/api/controller/sessions.py, statement by         *)
(* statement: the token is checked by one SELECT, the session is looked up  *)
(* again by another, and update_status() and delete() are several more.     *)
(* Between two of them other requests and the streaming handlers commit.    *)
(* _fail() of a handler runs the same update_status(), without a token.     *)
(* SessionStore takes each of these operations for one step; AtomicOps says *)
(* that it may.                                                             *)
(***************************************************************************)
EXTENDS SessionStore

CONSTANTS Requests,  \* requests under way, at any time
          MaxIndex   \* bound: the highest chunk_index streamed

ASSUME ApiAssumption == MaxIndex \in Nat

VARIABLES
  op,       \* what the request does
  target,   \* the session in its path
  bearer,   \* its token is that session's
  at,       \* the statement it will run next
  seen,     \* the status its own SELECT read
  loaded,   \* transcriptions that db.delete() loaded
  left,     \* those of them whose translation it has still to load
  texts,    \* translations it loaded
  answer,   \* status code of the response
  met,      \* history: what the session was at each moment of the request
  removed   \* history: requests whose commit removed a session

apiVars == <<op, target, bearer, at, seen, loaded, left, texts, answer, met, removed>>
vars    == <<storeVars, apiVars>>
request == <<op, target, bearer>>
cascade == <<loaded, left, texts>>

Ops     == {"read", "list", "complete", "delete", "fail"}
Labels  == {"idle", "authorize", "look", "rows", "update", "refresh", "load", "commit", "done"}
Answers == {"none", "200", "204", "401", "404", "500"}
Busy(r) == at[r] \notin {"idle", "done"}

Init ==
  /\ StoreInit
  /\ op = [r \in Requests |-> "read"] /\ target \in [Requests -> Sessions]
  /\ bearer = [r \in Requests |-> FALSE]
  /\ at = [r \in Requests |-> "idle"]
  /\ seen = [r \in Requests |-> "absent"]
  /\ loaded = [r \in Requests |-> {}] /\ left = [r \in Requests |-> {}]
  /\ texts = [r \in Requests |-> {}]
  /\ answer = [r \in Requests |-> "none"]
  /\ met = [r \in Requests |-> {}]
  /\ removed = {}

Goto(r, label) == at' = [at EXCEPT ![r] = label] /\ UNCHANGED answer

Answer(r, code) == at' = [at EXCEPT ![r] = "done"] /\ answer' = [answer EXCEPT ![r] = code]

\* History: a last conjunct of every step.
Watch == met' = [r \in Requests |->
  IF Busy(r) \/ Busy(r)' THEN met[r] \cup {status[target[r]], status'[target[r]]} ELSE met[r]]

-------------------------------------------------------------------------------
(* Every request *)

\* A client's request for a session it knows of, or a handler that fails its session.
Arrive(r) ==
  /\ at[r] = "idle" /\ status[target[r]] # "absent"
  /\ \E o \in Ops, b \in BOOLEAN :
       /\ op' = [op EXCEPT ![r] = o] /\ bearer' = [bearer EXCEPT ![r] = b]
       /\ Goto(r, IF o = "fail" THEN "look" ELSE "authorize")
  /\ UNCHANGED <<storeVars, target, seen, cascade, removed>>
  /\ Watch

\* A mistake: a missing session is let through, for the handler to answer 404.
AuthorizeMissing(r) ==
  /\ at[r] = "authorize"
  /\ IF bearer[r] \/ ~Exists(target[r]) THEN Goto(r, "look") ELSE Answer(r, "401")
  /\ UNCHANGED <<storeVars, request, seen, cascade, removed>>
  /\ Watch

\* require_session_token: a missing session and a wrong token look alike.
Authorize(r) ==
  /\ at[r] = "authorize"
  /\ IF bearer[r] /\ Exists(target[r]) THEN Goto(r, "look") ELSE Answer(r, "401")
  /\ UNCHANGED <<storeVars, request, seen, cascade, removed>>
  /\ Watch

After == [read |-> "done", list |-> "rows", complete |-> "update", fail |-> "update",
          delete |-> "load"]

\* get_by_id a second time, by the operation itself; GET /{id} ends here.
Look(r) ==
  /\ at[r] = "look"
  /\ IF Exists(target[r])
     THEN /\ seen' = [seen EXCEPT ![r] = status[target[r]]]
          /\ IF op[r] = "read" THEN Answer(r, "200") ELSE Goto(r, After[op[r]])
     ELSE /\ Answer(r, IF op[r] = "fail" THEN "none" ELSE "404")
          /\ UNCHANGED seen
  /\ UNCHANGED <<storeVars, request, cascade, removed>>
  /\ Watch

\* GET /{id}/transcriptions and /translations: the rows, or none if they went meanwhile.
ListRows(r) ==
  /\ at[r] = "rows"
  /\ Answer(r, "200")
  /\ UNCHANGED <<storeVars, request, seen, cascade, removed>>
  /\ Watch

\* Any statement may fail for no reason of ours; nothing of it stays.
Breaks(r) ==
  /\ Busy(r)
  /\ outages < MaxOutages /\ outages' = outages + 1
  /\ Answer(r, "500")
  /\ UNCHANGED <<status, tables, poisoned, request, seen, cascade, removed>>
  /\ Watch

-------------------------------------------------------------------------------
(* update_status: complete_session, fail_session *)

Goal(r) == IF op[r] = "fail" THEN "FAILED" ELSE "COMPLETED"

\* Mistakes: the row is merged, so it comes back when it was deleted; or only
\* an ACTIVE session is completed, and the answer is the same.
Merge(r) ==
  /\ at[r] = "update"
  /\ status' = [status EXCEPT ![target[r]] = Goal(r)]
  /\ Goto(r, "refresh")
  /\ UNCHANGED <<tables, poisoned, outages, request, seen, cascade, removed>>
  /\ Watch

UpdateIfActive(r) ==
  /\ at[r] = "update"
  /\ status' = IF Exists(target[r]) /\ seen[r] = "ACTIVE"
               THEN [status EXCEPT ![target[r]] = Goal(r)] ELSE status
  /\ Goto(r, "refresh")
  /\ UNCHANGED <<tables, poisoned, outages, request, seen, cascade, removed>>
  /\ Watch

\* UPDATE and commit.  A status that is what was read is no change to write;
\* updated_at always is, so a row that has gone raises StaleDataError.
Update(r) ==
  /\ at[r] = "update"
  /\ IF Exists(target[r])
     THEN /\ status' = IF seen[r] = Goal(r) THEN status
                       ELSE [status EXCEPT ![target[r]] = Goal(r)]
          /\ Goto(r, "refresh")
     ELSE Answer(r, "500") /\ UNCHANGED status
  /\ UNCHANGED <<tables, poisoned, outages, request, seen, cascade, removed>>
  /\ Watch

\* refresh() of a row that went since the commit raises.
Refresh(r) ==
  /\ at[r] = "refresh"
  /\ Answer(r, IF Exists(target[r]) THEN "200" ELSE "500")
  /\ UNCHANGED <<storeVars, request, seen, cascade, removed>>
  /\ Watch

-------------------------------------------------------------------------------
(* delete *)

Of(table, s) == { row \in table : row.session = s }

\* db.delete(): the cascade loads the session's transcriptions ...
Load(r) ==
  /\ at[r] = "load"
  /\ loaded' = [loaded EXCEPT ![r] = Of(transcriptions, target[r])]
  /\ left' = [left EXCEPT ![r] = Of(transcriptions, target[r])]
  /\ texts' = [texts EXCEPT ![r] = {}]
  /\ Goto(r, "commit")
  /\ UNCHANGED <<storeVars, request, seen, removed>>
  /\ Watch

\* ... and then, one by one, the translation of each.
LoadTranslation(r) ==
  /\ at[r] = "commit"
  /\ \E row \in left[r] :
       /\ left' = [left EXCEPT ![r] = @ \ {row}]
       /\ texts' = [texts EXCEPT ![r] = @ \cup ({row} \cap translations)]
  /\ UNCHANGED <<storeVars, request, at, answer, seen, loaded, removed>>
  /\ Watch

\* A row written since it was loaded still refers to one that goes (IntegrityError).
Referenced(r) ==
  \/ Of(transcriptions, target[r]) \ loaded[r] # {}
  \/ (translations \ texts[r]) \cap loaded[r] # {}

\* Mistakes: the translations go in a commit of their own; or the
\* IntegrityError is taken for a success.
CommitTwice(r) ==
  /\ at[r] = "commit" /\ left[r] = {}
  /\ IF translations \cap loaded[r] # {}
     THEN translations' = translations \ loaded[r] /\ UNCHANGED <<status, transcriptions, at, answer>>
     ELSE /\ transcriptions' = transcriptions \ Of(transcriptions, target[r])
          /\ status' = [status EXCEPT ![target[r]] = "deleted"]
          /\ Answer(r, "204") /\ UNCHANGED translations
  /\ UNCHANGED <<poisoned, outages, request, seen, cascade, removed>>
  /\ Watch

CommitSwallowed(r) ==
  /\ at[r] = "commit" /\ left[r] = {}
  /\ IF Exists(target[r]) /\ ~Referenced(r) THEN RestDelete(target[r]) ELSE UNCHANGED storeVars
  /\ Answer(r, "204")
  /\ UNCHANGED <<request, seen, cascade, removed>>
  /\ Watch

\* One transaction deletes the rows that were loaded, and the session.
CommitDelete(r) ==
  /\ at[r] = "commit" /\ left[r] = {}
  /\ Exists(target[r]) /\ ~Referenced(r)
  /\ translations' = translations \ texts[r]
  /\ transcriptions' = transcriptions \ loaded[r]
  /\ status' = [status EXCEPT ![target[r]] = "deleted"]
  /\ removed' = removed \cup {r}
  /\ Answer(r, "204")
  /\ UNCHANGED <<poisoned, outages, request, seen, cascade>>
  /\ Watch

\* A reference stops it; a session and rows that another DELETE took do not.
CommitNothing(r) ==
  /\ at[r] = "commit" /\ left[r] = {}
  /\ ~Exists(target[r]) \/ Referenced(r)
  /\ Answer(r, IF Exists(target[r]) THEN "500" ELSE "204")
  /\ UNCHANGED <<storeVars, request, seen, cascade, removed>>
  /\ Watch

-------------------------------------------------------------------------------
(* The specification *)

Statement(r) == \/ Authorize(r) \/ Look(r) \/ ListRows(r) \/ Update(r) \/ Refresh(r)
                \/ Load(r) \/ LoadTranslation(r) \/ CommitDelete(r)
                \/ CommitNothing(r)

\* POST /sessions, and the handlers that stream into a session meanwhile.
Inserts == \E c \in Conns, s \in Sessions, i \in 0..MaxIndex :
  LET row == [session |-> s, index |-> i, by |-> c] IN
  InsertTranscription(c, row) \/ InsertTranslation(c, row)

Elsewhere ==
  /\ (\E s \in Sessions : CreateSession(s)) \/ Inserts
  /\ UNCHANGED <<request, at, seen, cascade, answer, removed>>
  /\ Watch

Next == (\E r \in Requests : Arrive(r) \/ Statement(r) \/ Breaks(r)) \/ Elsewhere

Spec == Init /\ [][Next]_vars
-------------------------------------------------------------------------------
(* Properties *)

\* Every variable has its type.
TypeOK ==
  /\ status \in [Sessions -> Statuses]
  /\ transcriptions \subseteq Row /\ translations \subseteq Row
  /\ poisoned = {} /\ outages \in 0..MaxOutages
  /\ op \in [Requests -> Ops] /\ target \in [Requests -> Sessions]
  /\ bearer \in [Requests -> BOOLEAN]
  /\ at \in [Requests -> Labels] /\ answer \in [Requests -> Answers]
  /\ seen \in [Requests -> Statuses] /\ met \in [Requests -> SUBSET Statuses]
  /\ loaded \in [Requests -> SUBSET Row] /\ removed \subseteq Requests
  /\ left \in [Requests -> SUBSET Row] /\ texts \in [Requests -> SUBSET Row]
  /\ \A r \in Requests : left[r] \cup texts[r] \subseteq loaded[r]

StoreOp ==
  \/ \E s \in Sessions : CreateSession(s) \/ RestComplete(s) \/ RestDelete(s)
  \/ \E s \in Sessions : SetStatus(s, "FAILED") /\ UNCHANGED <<tables, poisoned, outages>>
  \/ Inserts

\* However the statements of requests and handlers interleave, what the tables
\* go through is one SessionStore operation after another: the stale reads of
\* update_status() and of the cascade never show.
AtomicOps == [][StoreOp]_<<status, tables>>

\* A deleted session stays deleted, and no row of it ever appears, whoever was
\* about to complete it, fail it or write to it.
DeletedForGood ==
  [][\A s \in Sessions : status[s] = "deleted" =>
       status'[s] = "deleted" /\ Of(transcriptions' \cup translations', s) = {}]_vars

\* DELETE is all or nothing and says which: 204 and nothing is left, or another
\* answer and nothing was removed by it - also when a handler inserts a row while
\* the cascade loads, or when two DELETEs meet.
DeleteTellsTheTruth ==
  \A r \in Requests : op[r] = "delete" /\ at[r] = "done" =>
    IF answer[r] = "204"
    THEN status[target[r]] = "deleted" /\ Of(transcriptions \cup translations, target[r]) = {}
    ELSE r \notin removed

\* PATCH /complete answers 200 only if the session was COMPLETED at some moment
\* of the request, and a FAILED written by _fail() likewise took effect.
StatusTookEffect ==
  \A r \in Requests : op[r] \in {"complete", "fail"} /\ answer[r] = "200" => Goal(r) \in met[r]

\* README.md:88-90: without its token no request learns whether a session exists;
\* with it, 404 means that it was deleted under the request's feet.
TellsOnlyTheOwner ==
  \A r \in Requests :
    /\ answer[r] = "404" => bearer[r] /\ "deleted" \in met[r] /\ met[r] \cap Stored # {}
    /\ answer[r] = "401" => ~bearer[r] \/ "deleted" \in met[r]
    /\ op[r] # "fail" /\ ~bearer[r] => answer[r] \in {"none", "401", "500"}
===============================================================================
