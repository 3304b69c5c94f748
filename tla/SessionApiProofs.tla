--------------------------- MODULE SessionApiProofs ---------------------------
(***************************************************************************)
(* Theorems about SessionApi, for any set of requests, sessions and         *)
(* connections and any bounds.                                              *)
(***************************************************************************)
EXTENDS SessionApi, TLAPS

\* What the foreign keys keep: no row without what it refers to.
Keyed ==
  /\ translations \subseteq transcriptions
  /\ \A row \in transcriptions : status[row.session] \in Stored

\* Where a request is says what it does and what it has seen.
Path(r) ==
  /\ at[r] # "done" => answer[r] = "none" /\ r \notin removed
  /\ at[r] # "idle" => status[target[r]] # "absent"
  /\ at[r] = "authorize" => op[r] # "fail"
  /\ at[r] = "rows" => op[r] = "list"
  /\ at[r] \in {"update", "refresh"} => op[r] \in {"complete", "fail"}
  /\ at[r] \in {"load", "commit"} => op[r] = "delete"
  /\ at[r] \notin {"idle", "authorize", "done"} /\ op[r] # "fail" =>
       bearer[r] /\ met[r] \cap Stored # {}
  /\ at[r] = "update" => seen[r] \in met[r]
  /\ at[r] = "refresh" => Goal(r) \in met[r]
  /\ \A row \in loaded[r] : row.session = target[r]

Paths == \A r \in Requests : Path(r)

ApiInv == TypeOK /\ Keyed /\ Paths

LEMMA ApiInit == Init => ApiInv /\ TellsOnlyTheOwner /\ StatusTookEffect /\ DeleteTellsTheTruth
BY ApiAssumption, StoreAssumption
   DEF Init, StoreInit, ApiInv, TypeOK, Keyed, Paths, Path, TellsOnlyTheOwner, StatusTookEffect,
       DeleteTellsTheTruth, Statuses, Stored, Ops, Labels, Answers

\* Every step of the specification, by name.
LEMMA Steps ==
  ASSUME [Next]_vars
  PROVE  \/ \E r \in Requests :
              \/ Arrive(r) \/ Authorize(r) \/ Look(r) \/ ListRows(r) \/ Update(r) \/ Refresh(r)
              \/ Load(r) \/ LoadTranslation(r) \/ CommitDelete(r) \/ CommitNothing(r) \/ Breaks(r)
         \/ Elsewhere
         \/ UNCHANGED vars
BY DEF Next, Statement

\* The types of the store, which only three steps touch.
LEMMA TablesTyped ==
  ASSUME TypeOK, [Next]_vars
  PROVE  /\ status' \in [Sessions -> Statuses]
         /\ transcriptions' \subseteq Row /\ translations' \subseteq Row
         /\ poisoned' = {} /\ outages' \in 0..MaxOutages
<1> USE StoreAssumption, ApiAssumption DEF TypeOK, Statuses, Stored, storeVars, tables
<1>1. ASSUME NEW r \in Requests,
             \/ Arrive(r) \/ Authorize(r) \/ Look(r) \/ ListRows(r) \/ Refresh(r) \/ Load(r)
             \/ LoadTranslation(r) \/ CommitNothing(r) \/ Breaks(r)
      PROVE  /\ status' \in [Sessions -> Statuses]
             /\ transcriptions' \subseteq Row /\ translations' \subseteq Row
             /\ poisoned' = {} /\ outages' \in 0..MaxOutages
  BY <1>1 DEF Arrive, Authorize, Look, ListRows, Refresh, Load, LoadTranslation, CommitNothing, Breaks
<1>2. ASSUME NEW r \in Requests, Update(r) \/ CommitDelete(r)
      PROVE  /\ status' \in [Sessions -> Statuses]
             /\ transcriptions' \subseteq Row /\ translations' \subseteq Row
             /\ poisoned' = {} /\ outages' \in 0..MaxOutages
  BY <1>2 DEF Update, CommitDelete, Goal
<1>3. CASE Elsewhere
  <2>1. CASE \E s \in Sessions : CreateSession(s)
    BY <2>1 DEF CreateSession
  <2>2. ASSUME NEW c \in Conns, NEW s \in Sessions, NEW i \in 0..MaxIndex
        PROVE  [session |-> s, index |-> i, by |-> c] \in Row
    BY DEF Row
  <2>3. CASE Inserts
    BY <2>2, <2>3 DEF Inserts, InsertTranscription, InsertTranslation
  <2> QED
    BY <1>3, <2>1, <2>3 DEF Elsewhere
<1>4. CASE UNCHANGED vars
  BY <1>4 DEF vars
<1> QED
  BY <1>1, <1>2, <1>3, <1>4, Steps

\* A request's own variables keep their types.
LEMMA ApiTypeStep == TypeOK /\ [Next]_vars => TypeOK'
<1> SUFFICES ASSUME TypeOK, [Next]_vars PROVE TypeOK'
  OBVIOUS
<1>1. /\ status' \in [Sessions -> Statuses]
      /\ transcriptions' \subseteq Row /\ translations' \subseteq Row
      /\ poisoned' = {} /\ outages' \in 0..MaxOutages
  BY TablesTyped
<1>2. ASSUME met' \in [Requests -> SUBSET Statuses],
             op' \in [Requests -> Ops], target' = target, bearer' \in [Requests -> BOOLEAN],
             at' \in [Requests -> Labels], answer' \in [Requests -> Answers],
             seen' \in [Requests -> Statuses], loaded' \in [Requests -> SUBSET Row],
             removed' \subseteq Requests,
             left' \in [Requests -> SUBSET Row], texts' \in [Requests -> SUBSET Row],
             \A r \in Requests : left'[r] \cup texts'[r] \subseteq loaded'[r]
      PROVE  TypeOK'
  BY <1>1, <1>2 DEF TypeOK
<1>3. Watch => met' \in [Requests -> SUBSET Statuses]
  BY <1>1 DEF Watch, TypeOK
<1> USE <1>3 DEF TypeOK, Ops, Labels, Answers, Goto, Answer, request, cascade, storeVars, tables
<1>4. ASSUME NEW r \in Requests, Arrive(r) \/ Authorize(r) \/ ListRows(r) \/ Refresh(r)
                                 \/ Update(r) \/ CommitNothing(r) \/ Breaks(r)
      PROVE  TypeOK'
  BY <1>2, <1>4 DEF Arrive, Authorize, ListRows, Refresh, Update, CommitNothing, Breaks
<1>5. ASSUME NEW r \in Requests, Look(r) PROVE TypeOK'
  BY <1>2, <1>5 DEF Look, After, Statuses
<1>6. ASSUME NEW r \in Requests, Load(r) PROVE TypeOK'
  <2>1. Of(transcriptions, target[r]) \in SUBSET Row
    BY DEF Of
  <2> QED
    BY <1>2, <1>6, <2>1 DEF Load
<1>7. ASSUME NEW r \in Requests, LoadTranslation(r) PROVE TypeOK'
  BY <1>2, <1>7 DEF LoadTranslation
<1>8. ASSUME NEW r \in Requests, CommitDelete(r) PROVE TypeOK'
  BY <1>2, <1>8 DEF CommitDelete
<1>9. CASE Elsewhere \/ UNCHANGED vars
  BY <1>2, <1>9 DEF Elsewhere, vars, apiVars
<1> QED
  BY <1>4, <1>5, <1>6, <1>7, <1>8, <1>9, Steps

-------------------------------------------------------------------------------
(* The steps of the rest of the invariant *)

\* The foreign keys hold through every step; a DELETE checks the rows it did not load.
LEMMA KeyedStep == TypeOK /\ Keyed /\ [Next]_vars => Keyed'
<1> SUFFICES ASSUME TypeOK, Keyed, [Next]_vars PROVE Keyed'
  OBVIOUS
<1>1. status \in [Sessions -> Statuses] /\ transcriptions \subseteq Row /\ target \in [Requests -> Sessions]
  BY DEF TypeOK
<1> USE <1>1 DEF Keyed, storeVars, tables
<1>2. ASSUME NEW r \in Requests,
             \/ Arrive(r) \/ Authorize(r) \/ Look(r) \/ ListRows(r) \/ Refresh(r) \/ Load(r)
             \/ LoadTranslation(r) \/ CommitNothing(r) \/ Breaks(r)
      PROVE  Keyed'
  BY <1>2 DEF Arrive, Authorize, Look, ListRows, Refresh, Load, LoadTranslation, CommitNothing, Breaks
<1>3. ASSUME NEW r \in Requests, Update(r) PROVE Keyed'
  BY <1>3 DEF Update, Goal, Stored, Row
<1>4. ASSUME NEW r \in Requests, CommitDelete(r) PROVE Keyed'
  BY <1>4 DEF CommitDelete, Referenced, Of, Row
<1>5. CASE Elsewhere
  <2>1. CASE \E s \in Sessions : CreateSession(s)
    BY <1>5, <2>1 DEF Elsewhere, CreateSession, Stored, Row
  <2>2. CASE Inserts
    BY <2>2 DEF Inserts, InsertTranscription, InsertTranslation, MayInsert, Exists
  <2> QED
    BY <1>5, <2>1, <2>2 DEF Elsewhere
<1>6. CASE UNCHANGED vars
  BY <1>6 DEF vars
<1> QED
  BY <1>2, <1>3, <1>4, <1>5, <1>6, Steps

\* A session's status never goes back to absent.
LEMMA NeverAbsentAgain ==
  ASSUME TypeOK, [Next]_vars, NEW s \in Sessions, status[s] # "absent"
  PROVE  status'[s] # "absent"
<1> USE DEF TypeOK, storeVars, tables
<1>1. ASSUME NEW r \in Requests,
             \/ Arrive(r) \/ Authorize(r) \/ Look(r) \/ ListRows(r) \/ Refresh(r) \/ Load(r)
             \/ LoadTranslation(r) \/ CommitNothing(r) \/ Breaks(r)
      PROVE  status'[s] # "absent"
  BY <1>1 DEF Arrive, Authorize, Look, ListRows, Refresh, Load, LoadTranslation, CommitNothing, Breaks
<1>2. ASSUME NEW r \in Requests, Update(r) \/ CommitDelete(r) PROVE status'[s] # "absent"
  BY <1>2 DEF Update, CommitDelete, Goal
<1>3. CASE \E x \in Sessions : CreateSession(x)
  BY <1>3 DEF CreateSession
<1>4. CASE Inserts \/ UNCHANGED vars
  BY <1>4 DEF Inserts, InsertTranscription, InsertTranslation, vars
<1> QED
  BY <1>1, <1>2, <1>3, <1>4, Steps DEF Elsewhere

\* A request keeps to its path: its own steps advance it, and the others leave it alone.
LEMMA PathStep == TypeOK /\ Paths /\ [Next]_vars => Paths'
<1> SUFFICES ASSUME TypeOK, Paths, [Next]_vars, NEW q \in Requests PROVE Path(q)'
  BY DEF Paths
<1>1. Path(q) /\ target[q] \in Sessions
  BY DEF Paths, TypeOK
<1>2. status[target[q]] # "absent" => status'[target[q]] # "absent"
  BY <1>1, NeverAbsentAgain
<1>3. ASSUME UNCHANGED <<op[q], target[q], bearer[q], at[q], seen[q], answer[q], loaded[q]>>,
             met[q] \subseteq met'[q], q \in removed' => q \in removed
      PROVE  Path(q)'
  BY <1>1, <1>2, <1>3 DEF Path, Goal
<1>4. Watch => met[q] \subseteq met'[q]
  BY DEF Watch, TypeOK
<1>5. Watch /\ (at[q] \notin {"idle", "done"} \/ at'[q] \notin {"idle", "done"}) =>
         status[target[q]] \in met'[q] /\ status'[target[q]] \in met'[q]
  BY DEF Watch, Busy, TypeOK
<1> USE <1>1, <1>2, <1>4, <1>5 DEF TypeOK, Path, Goto, Answer, request, cascade, storeVars, tables
<1>6. ASSUME NEW r \in Requests, r # q,
             \/ Arrive(r) \/ Authorize(r) \/ Look(r) \/ ListRows(r) \/ Update(r) \/ Refresh(r)
             \/ Load(r) \/ LoadTranslation(r) \/ CommitDelete(r) \/ CommitNothing(r) \/ Breaks(r)
      PROVE  Path(q)'
  <2>1. UNCHANGED <<op[q], target[q], bearer[q], at[q], seen[q], answer[q], loaded[q]>>
    BY <1>6 DEF Arrive, Authorize, Look, ListRows, Update, Refresh, Load, LoadTranslation,
                CommitDelete, CommitNothing, Breaks
  <2>2. (q \in removed' => q \in removed) /\ Watch
    BY <1>6 DEF Arrive, Authorize, Look, ListRows, Update, Refresh, Load, LoadTranslation,
                CommitDelete, CommitNothing, Breaks
  <2> QED
    BY <1>3, <2>1, <2>2
<1>7. CASE Arrive(q)
  BY <1>7 DEF Arrive
<1>8. CASE Authorize(q)
  BY <1>8 DEF Authorize, Exists
<1>9. CASE Look(q)
  BY <1>9 DEF Look, After, Ops
<1>10. CASE ListRows(q) \/ Refresh(q) \/ CommitNothing(q) \/ Breaks(q)
  BY <1>10 DEF ListRows, Refresh, CommitNothing, Breaks, Busy
<1>11. CASE Update(q)
  BY <1>11 DEF Update, Goal
<1>12. CASE Load(q)
  BY <1>12 DEF Load, Of
<1>13. CASE LoadTranslation(q)
  BY <1>13 DEF LoadTranslation
<1>14. CASE CommitDelete(q)
  BY <1>14 DEF CommitDelete
<1>15. CASE Elsewhere
  BY <1>3, <1>15 DEF Elsewhere
<1>16. CASE UNCHANGED vars
  BY <1>3, <1>16 DEF vars, apiVars
<1> QED
  BY <1>6, <1>7, <1>8, <1>9, <1>10, <1>11, <1>12, <1>13, <1>14, <1>15, <1>16, Steps

\* ApiInv is inductive.
LEMMA ApiStep == ApiInv /\ [Next]_vars => ApiInv'
BY ApiTypeStep, KeyedStep, PathStep DEF ApiInv

-------------------------------------------------------------------------------
(* Theorems *)

\* ApiInv is an invariant.
LEMMA ApiInvariant == Spec => []ApiInv
BY ApiInit, ApiStep, PTL DEF Spec

\* A step of the requests, from a state where the invariant holds, is a step of the store.
LEMMA StoreStep == ApiInv /\ [Next]_vars => [StoreOp]_<<status, tables>>
<1> SUFFICES ASSUME ApiInv, [Next]_vars PROVE [StoreOp]_<<status, tables>>
  OBVIOUS
<1> USE DEF ApiInv, TypeOK, storeVars, tables
<1>1. ASSUME NEW r \in Requests,
             \/ Arrive(r) \/ Authorize(r) \/ Look(r) \/ ListRows(r) \/ Refresh(r) \/ Load(r)
             \/ LoadTranslation(r) \/ CommitNothing(r) \/ Breaks(r)
      PROVE  UNCHANGED <<status, tables>>
  BY <1>1 DEF Arrive, Authorize, Look, ListRows, Refresh, Load, LoadTranslation, CommitNothing, Breaks
<1>2. ASSUME NEW r \in Requests, Update(r) PROVE [StoreOp]_<<status, tables>>
  <2>1. CASE UNCHANGED status
    BY <1>2, <2>1 DEF Update
  <2>2. CASE ~UNCHANGED status
    <3>1. /\ Exists(target[r]) /\ status' = [status EXCEPT ![target[r]] = Goal(r)]
          /\ UNCHANGED <<tables, poisoned, outages>> /\ target[r] \in Sessions
      BY <1>2, <2>2 DEF Update
    <3>2. SetStatus(target[r], Goal(r))
      BY <3>1 DEF SetStatus
    <3>3. CASE op[r] = "fail"
      BY <3>1, <3>2, <3>3 DEF Goal, StoreOp
    <3>4. CASE op[r] # "fail"
      BY <3>1, <3>2, <3>4 DEF Goal, StoreOp, RestComplete
    <3> QED
      BY <3>3, <3>4
  <2> QED
    BY <2>1, <2>2
<1>3. ASSUME NEW r \in Requests, CommitDelete(r) PROVE StoreOp
  <2>1. \A row \in loaded[r] : row.session = target[r]
    BY DEF Paths, Path
  <2>2. transcriptions \ loaded[r] = { row \in transcriptions : row.session # target[r] }
    BY <1>3, <2>1 DEF CommitDelete, Referenced, Of
  <2>3. translations \ texts[r] = { row \in translations : row.session # target[r] }
    BY <1>3, <2>1, <2>2 DEF CommitDelete, Referenced, Of, Keyed
  <2>4. RestDelete(target[r])
    BY <1>3, <2>2, <2>3 DEF CommitDelete, RestDelete
  <2> QED
    BY <2>4 DEF StoreOp
<1>4. CASE Elsewhere
  BY <1>4 DEF Elsewhere, StoreOp
<1>5. CASE UNCHANGED vars
  BY <1>5 DEF vars
<1> QED
  BY <1>1, <1>2, <1>3, <1>4, <1>5, Steps

\* However the statements of any number of requests interleave with each other and
\* with the handlers' inserts, the tables go from one SessionStore operation to the next.
THEOREM StoreIsAtomic == Spec => AtomicOps
<1>1. ApiInv /\ [Next]_vars => [StoreOp]_<<status, tables>>
  BY StoreStep
<1> QED
  BY <1>1, ApiInvariant, PTL DEF Spec, AtomicOps

\* A store operation leaves a deleted session deleted, without rows.
LEMMA DeletedStep ==
  ASSUME ApiInv, ApiInv', [StoreOp]_<<status, tables>>, NEW s \in Sessions, status[s] = "deleted"
  PROVE  status'[s] = "deleted" /\ Of(transcriptions' \cup translations', s) = {}
<1>1. status'[s] = "deleted"
  <2> USE DEF ApiInv, TypeOK, Exists, Stored, tables, SetStatus
  <2>1. CASE \E x \in Sessions : CreateSession(x) \/ RestComplete(x) \/ RestDelete(x)
    BY <2>1 DEF CreateSession, RestComplete, RestDelete
  <2>2. CASE \E x \in Sessions : SetStatus(x, "FAILED")
    BY <2>2
  <2>3. CASE Inserts \/ UNCHANGED <<status, tables>>
    BY <2>3 DEF Inserts, InsertTranscription, InsertTranslation
  <2> QED
    BY <2>1, <2>2, <2>3 DEF StoreOp
<1> QED
  BY <1>1 DEF ApiInv, Keyed, Of, Stored

\* A deleted session stays deleted, whatever was under way.
THEOREM DeletedStaysDeleted == Spec => DeletedForGood
<1>1. ApiInv /\ ApiInv' /\ [Next]_vars =>
        [\A s \in Sessions : status[s] = "deleted" =>
           status'[s] = "deleted" /\ Of(transcriptions' \cup translations', s) = {}]_vars
  BY StoreStep, DeletedStep
<1> QED
  BY <1>1, ApiInvariant, PTL DEF Spec, DeletedForGood

\* What a request may have answered, by what it met: the three properties of answers.
Honest(r) ==
  /\ answer[r] = "404" => bearer[r] /\ "deleted" \in met[r] /\ met[r] \cap Stored # {}
  /\ answer[r] = "401" => ~bearer[r] \/ "deleted" \in met[r]
  /\ op[r] # "fail" /\ ~bearer[r] => answer[r] \in {"none", "401", "500"}
  /\ op[r] \in {"complete", "fail"} /\ answer[r] = "200" => Goal(r) \in met[r]
  /\ op[r] = "delete" /\ at[r] = "done" =>
       IF answer[r] = "204" THEN status[target[r]] = "deleted" ELSE r \notin removed

LEMMA HonestStep ==
  ASSUME ApiInv, [Next]_vars, NEW q \in Requests, Honest(q)
  PROVE  Honest(q)'
<1>1. TypeOK /\ Path(q) /\ target[q] \in Sessions
  BY DEF ApiInv, Paths, TypeOK
<1>2. status[target[q]] = "deleted" => status'[target[q]] = "deleted"
  <2>1. ApiInv'
    BY ApiStep
  <2> QED
    BY <1>1, <2>1, StoreStep, DeletedStep
<1>3. status[target[q]] \in Statuses /\ status'[target[q]] \in Statuses
  BY <1>1, TablesTyped DEF TypeOK
<1>4. Watch => met[q] \subseteq met'[q]
  BY <1>1 DEF Watch, TypeOK
<1>5. Watch /\ at[q] \notin {"idle", "done"} =>
         status[target[q]] \in met'[q] /\ status'[target[q]] \in met'[q]
  BY <1>1 DEF Watch, Busy, TypeOK
<1>6. ASSUME UNCHANGED <<op[q], target[q], bearer[q], at[q], answer[q]>>,
             met[q] \subseteq met'[q], q \in removed' => q \in removed
      PROVE  Honest(q)'
  BY <1>1, <1>2, <1>6 DEF Honest, Goal
<1> USE <1>1, <1>2, <1>4, <1>5
    DEF TypeOK, Path, Honest, Goto, Answer, request, cascade, storeVars, tables
<1>7. ASSUME NEW r \in Requests, r # q,
             \/ Arrive(r) \/ Authorize(r) \/ Look(r) \/ ListRows(r) \/ Update(r) \/ Refresh(r)
             \/ Load(r) \/ LoadTranslation(r) \/ CommitDelete(r) \/ CommitNothing(r) \/ Breaks(r)
      PROVE  Honest(q)'
  <2>1. UNCHANGED <<op[q], target[q], bearer[q], at[q], answer[q]>>
    BY <1>7 DEF Arrive, Authorize, Look, ListRows, Update, Refresh, Load, LoadTranslation,
                CommitDelete, CommitNothing, Breaks
  <2>2. (q \in removed' => q \in removed) /\ Watch
    BY <1>7 DEF Arrive, Authorize, Look, ListRows, Update, Refresh, Load, LoadTranslation,
                CommitDelete, CommitNothing, Breaks
  <2> QED
    BY <1>6, <2>1, <2>2
<1>8. CASE Arrive(q) \/ Load(q) \/ LoadTranslation(q)
  BY <1>8 DEF Arrive, Load, LoadTranslation, Goal
<1>9. CASE Authorize(q) \/ Look(q)
  BY <1>3, <1>9 DEF Authorize, Look, Exists, Statuses, Stored, Ops
<1>10. CASE ListRows(q) \/ Breaks(q)
  BY <1>10 DEF ListRows, Breaks, Busy
<1>11. CASE Update(q) \/ Refresh(q)
  BY <1>11 DEF Update, Refresh, Goal
<1>12. CASE CommitDelete(q) \/ CommitNothing(q)
  BY <1>3, <1>12 DEF CommitDelete, CommitNothing, Exists, Statuses
<1>13. CASE Elsewhere
  BY <1>6, <1>13 DEF Elsewhere
<1>14. CASE UNCHANGED vars
  BY <1>6, <1>14 DEF vars, apiVars
<1> QED
  BY <1>7, <1>8, <1>9, <1>10, <1>11, <1>12, <1>13, <1>14, Steps

LEMMA AllHonest == Spec => [](\A r \in Requests : Honest(r))
<1>1. Init => \A r \in Requests : Honest(r)
  BY DEF Init, Honest
<1>2. ApiInv /\ (\A r \in Requests : Honest(r)) /\ [Next]_vars => (\A r \in Requests : Honest(r))'
  BY HonestStep
<1> QED
  BY <1>1, <1>2, ApiInvariant, PTL DEF Spec

\* Without its token no request learns whether a session exists; with it, 404 is
\* the answer only when the session was deleted while the request ran.
THEOREM OwnerOnly == Spec => []TellsOnlyTheOwner
<1>1. (\A r \in Requests : Honest(r)) => TellsOnlyTheOwner
  BY DEF Honest, TellsOnlyTheOwner
<1> QED
  BY <1>1, AllHonest, PTL

\* PATCH answers 200, and _fail() returns, only when the status was there for a moment.
THEOREM TookEffect == Spec => []StatusTookEffect
<1>1. (\A r \in Requests : Honest(r)) => StatusTookEffect
  BY DEF Honest, StatusTookEffect
<1> QED
  BY <1>1, AllHonest, PTL

\* DELETE is all or nothing, and its answer says which.
THEOREM DeleteHonest == Spec => []DeleteTellsTheTruth
<1>1. ApiInv /\ (\A r \in Requests : Honest(r)) => DeleteTellsTheTruth
  BY DEF Honest, DeleteTellsTheTruth, ApiInv, Keyed, Of, Stored
<1> QED
  BY <1>1, AllHonest, ApiInvariant, PTL

\* Every variable keeps its type.
THEOREM ApiTypeCorrect == Spec => []TypeOK
<1>1. ApiInv => TypeOK
  BY DEF ApiInv
<1> QED
  BY <1>1, ApiInvariant, PTL
===============================================================================
