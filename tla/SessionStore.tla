----------------------------- MODULE SessionStore -----------------------------
(***************************************************************************)
(* The three tables and the repositories over them: translation_sessions   *)
(* with its status, transcriptions (unique per session and chunk_index),   *)
(* translations (one foreign key to a transcription).  Every write commits *)
(* on its own.  A connection has one AsyncSession for its whole life; a     *)
(* failed call leaves it poisoned - every later call raises - until a      *)
(* rollback, which only update_status() performs.  The operations below    *)
(* are the ways each repository call can end.                               *)
(***************************************************************************)
EXTENDS Integers, Sequences, FiniteSets

CONSTANTS Sessions,    \* session ids
          Conns,       \* WebSocket connections, each with its AsyncSession
          MaxOutages   \* bound: database calls that fail for no reason of ours

ASSUME StoreAssumption == MaxOutages \in Nat

VARIABLES status,          \* translation_sessions.status, or not there (yet, any more)
          transcriptions,  \* rows, with the connection that wrote them
          translations,    \* rows, named by the transcription they belong to
          poisoned,        \* AsyncSessions that need a rollback
          outages          \* outages so far

storeVars == <<status, transcriptions, translations, poisoned, outages>>
tables    == <<transcriptions, translations>>

Stored   == {"ACTIVE", "COMPLETED", "FAILED"}
Statuses == Stored \cup {"absent", "deleted"}
Row      == [session : Sessions, index : Nat, by : Conns]

StoreInit ==
  /\ status = [s \in Sessions |-> "absent"]
  /\ transcriptions = {} /\ translations = {}
  /\ poisoned = {}
  /\ outages = 0

Exists(s) == status[s] \in Stored

\* A mistake: no unique constraint.
MayInsertTwice(row) == Exists(row.session)

\* uq_transcription_session_chunk and the foreign key to the session.
MayInsert(row) ==
  /\ Exists(row.session)
  /\ ~ \E other \in transcriptions : other.session = row.session /\ other.index = row.index

\* The call raises and changes nothing: the database is out of reach.
Outage(c) ==
  /\ outages < MaxOutages
  /\ outages' = outages + 1
  /\ poisoned' = poisoned \cup {c}
  /\ UNCHANGED <<status, tables>>

\* The commit landed and the refresh after it raised.
OutageAfterCommit(c) ==
  /\ outages < MaxOutages
  /\ outages' = outages + 1
  /\ poisoned' = poisoned \cup {c}

-------------------------------------------------------------------------------
(* SQLAlchemyTranscriptionRepository, SQLAlchemyTranslationRepository *)

InsertTranscription(c, row) ==
  /\ c \notin poisoned
  /\ MayInsert(row)
  /\ transcriptions' = transcriptions \cup {row}
  /\ UNCHANGED <<status, translations, poisoned, outages>>

\* An outage, a pending rollback or an IntegrityError, or a commit whose refresh fails.
TranscriptionRaises(c, row) ==
  \/ Outage(c)
  \/ /\ c \in poisoned \/ ~MayInsert(row)
     /\ poisoned' = poisoned \cup {c}
     /\ UNCHANGED <<status, tables, outages>>
  \/ /\ c \notin poisoned /\ MayInsert(row)
     /\ transcriptions' = transcriptions \cup {row}
     /\ OutageAfterCommit(c)
     /\ UNCHANGED <<status, translations>>

InsertTranslation(c, row) ==
  /\ c \notin poisoned
  /\ row \in transcriptions
  /\ translations' = translations \cup {row}
  /\ UNCHANGED <<status, transcriptions, poisoned, outages>>

TranslationRaises(c, row) ==
  \/ Outage(c)
  \/ /\ c \in poisoned \/ row \notin transcriptions
     /\ poisoned' = poisoned \cup {c}
     /\ UNCHANGED <<status, tables, outages>>

-------------------------------------------------------------------------------
(* SQLAlchemyTranslationSessionRepository *)

\* update_status: roll back, look the session up, write if it is there, commit.
SetStatus(s, st) == status' = IF Exists(s) THEN [status EXCEPT ![s] = st] ELSE status

UpdateStatus(c, s, st) ==
  /\ poisoned' = poisoned \ {c}
  /\ SetStatus(s, st)
  /\ UNCHANGED <<tables, outages>>

\* update_status raises after its commit, in the refresh.
UpdateStatusRaisesLate(c, s, st) ==
  /\ Exists(s)
  /\ SetStatus(s, st)
  /\ OutageAfterCommit(c)
  /\ UNCHANGED tables

\* update_status raises because a DELETE took the row while its statements ran.
UpdateStatusMisses(c, s) ==
  /\ status[s] = "deleted"
  /\ poisoned' = poisoned \cup {c}
  /\ UNCHANGED <<status, tables, outages>>

\* A mistake: update_status does not roll back first, and a pending one stops it.
RaisesUnlessRolledBack(c, s) ==
  Outage(c) \/ UpdateStatusMisses(c, s) \/ (c \in poisoned /\ UNCHANGED storeVars)

\* update_status raises and nothing of it stays.
UpdateStatusRaises(c, s) == Outage(c) \/ UpdateStatusMisses(c, s)

\* POST /sessions.
CreateSession(s) ==
  /\ status[s] = "absent"
  /\ status' = [status EXCEPT ![s] = "ACTIVE"]
  /\ UNCHANGED <<tables, poisoned, outages>>

\* PATCH /sessions/{id}/complete: the same update_status, whatever the status was.
RestComplete(s) ==
  /\ Exists(s)
  /\ SetStatus(s, "COMPLETED")
  /\ UNCHANGED <<tables, poisoned, outages>>

\* A mistake: the session is marked deleted and its transcriptions stay.
DeletesSessionOnly(s) ==
  /\ Exists(s)
  /\ status' = [status EXCEPT ![s] = "deleted"]
  /\ UNCHANGED <<tables, poisoned, outages>>

\* DELETE /sessions/{id}: the rows go with the session (cascade).
RestDelete(s) ==
  /\ Exists(s)
  /\ status' = [status EXCEPT ![s] = "deleted"]
  /\ transcriptions' = { r \in transcriptions : r.session # s }
  /\ translations' = { r \in translations : r.session # s }
  /\ UNCHANGED <<poisoned, outages>>
===============================================================================
