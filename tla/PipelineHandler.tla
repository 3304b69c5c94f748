---------------------------- MODULE PipelineHandler ----------------------------
(***************************************************************************)
(* The WebSocket handler of src/app/api/controller/pipeline.py, one         *)
(* coroutine per connection, with the service calls it makes                *)
(* (translation_pipeline_service.py) over the shared SessionStore.  Every   *)
(* await is a step boundary; between two steps of one handler, any other    *)
(* handler, a REST request, a departing client or a crash may come.         *)
(* The segmenter is its promise: a chunk closes some segments and leaves    *)
(* speech open or not, a flush closes at most the speech left open.         *)
(***************************************************************************)
EXTENDS SessionStore

CONSTANTS MaxPerChunk,  \* bound: segments one chunk may close
          MaxMessages,  \* bound: messages a client sends before its commit
          MaxCrashes,   \* bound: crashes of the process
          Audible       \* may a result carry audio?  (synthesized_audio is empty or not)

ASSUME HandlerAssumption ==
  /\ MaxPerChunk \in Nat /\ MaxMessages \in Nat /\ MaxCrashes \in Nat
  /\ Audible \subseteq BOOLEAN

VARIABLES
  pc,         \* where the coroutine is
  sess,       \* the session it was opened for
  link,       \* the transport, as the handler will find it
  wire,       \* the frames the client received, in order
  taken,      \* messages taken from the client
  speaking,   \* the segmenter holds an open utterance (state.vad.triggered)
  flushing,   \* the segment under way was closed by the commit's flush
  todo,       \* segments closed and not yet run
  index,      \* _run's segment_index
  results,    \* what _run returned for this chunk and is not announced yet
  step,       \* frames of the current burst already sent
  emitted,    \* state.segments_emitted
  announced,  \* segments_sent
  decided,    \* status_decided
  wrote,      \* history: statuses this handler's own writes landed
  lost,       \* history: a status write met an outage, and that was suppressed
  culprit,    \* history: the segment whose failure is being reported
  crashes

handlerVars == <<pc, sess, link, wire, taken, speaking, flushing, todo, index, results,
                 step, emitted, announced, decided, wrote, lost, culprit, crashes>>
vars == <<storeVars, handlerVars>>

\* Groups that most steps leave alone.
io      == <<link, wire, taken>>
work    == <<speaking, flushing, todo, index, results, step, emitted, announced>>
verdict == <<decided, wrote, lost, culprit>>
fixed   == <<sess, crashes>>

NoIndex == -1

PCs == {"offline", "authorize", "refuse", "greet", "receive", "invalid",
        "lookup", "asr", "transcription", "mt", "translation", "tts",
        "emit", "complete", "farewell", "fail", "report", "oversize", "close1009",
        "cleanup", "close", "done", "refused", "aborted", "crashed"}

\* The coroutine has returned, raised or died with the process.
Ended == {"done", "refused", "aborted", "crashed"}

Init ==
  /\ StoreInit
  /\ pc = [c \in Conns |-> "offline"]
  /\ sess \in [Conns -> Sessions]
  /\ link = [c \in Conns |-> "none"]
  /\ wire = [c \in Conns |-> <<>>]
  /\ taken = [c \in Conns |-> 0]
  /\ speaking = [c \in Conns |-> FALSE]
  /\ flushing = [c \in Conns |-> FALSE]
  /\ todo = [c \in Conns |-> 0]
  /\ index = [c \in Conns |-> 0]
  /\ results = [c \in Conns |-> <<>>]
  /\ step = [c \in Conns |-> 0]
  /\ emitted = [c \in Conns |-> 0]
  /\ announced = [c \in Conns |-> 0]
  /\ decided = [c \in Conns |-> FALSE]
  /\ wrote = [c \in Conns |-> <<>>]
  /\ lost = [c \in Conns |-> FALSE]
  /\ culprit = [c \in Conns |-> NoIndex]
  /\ crashes = 0

-------------------------------------------------------------------------------
(* Sending *)

Goto(c, label) == pc' = [pc EXCEPT ![c] = label]

Event(type, n) == [type |-> type, n |-> n]

\* _send returned.  With the client gone the transport may still accept the
\* frame, which then reaches nobody.
Sends(c, event) ==
  /\ link[c] \in {"up", "gone"}
  /\ wire' = IF link[c] = "up" THEN [wire EXCEPT ![c] = Append(@, event)] ELSE wire
  /\ UNCHANGED <<link, taken>>

\* _send raised WebSocketDisconnect.
SendRaises(c) == link[c] = "gone" /\ UNCHANGED io

\* A mistake: audio.done before the audio it closes.
BurstDoneFirst(result) ==
  LET f(type) == Event(type, result.index) IN
  <<f("transcription.completed"), f("translation.completed"), f("audio.done")>>
  \o (IF result.audio THEN <<f("audio.delta"), f("binary")>> ELSE <<>>)
  \o <<f("segment.metrics")>>

\* The frames of one segment's burst; without audio there is nothing to announce.
Burst(result) ==
  LET f(type) == Event(type, result.index) IN
  IF result.audio
  THEN <<f("transcription.completed"), f("translation.completed"), f("audio.delta"),
         f("binary"), f("audio.done"), f("segment.metrics")>>
  ELSE <<f("transcription.completed"), f("translation.completed"), f("audio.done"),
         f("segment.metrics")>>

-------------------------------------------------------------------------------
(* Opening: authorize, accept, session.created *)

Connect(c) ==
  /\ pc[c] = "offline"
  /\ status[sess[c]] # "absent"
  /\ link' = [link EXCEPT ![c] = "up"]
  /\ Goto(c, "authorize")
  /\ UNCHANGED <<storeVars, fixed, wire, taken, work, verdict>>

\* The token is this session's, or it is not, or there is no session any more.
Authorize(c) ==
  /\ pc[c] = "authorize"
  /\ \/ Exists(sess[c]) /\ Goto(c, "greet") /\ UNCHANGED storeVars
     \/ Goto(c, "refuse") /\ UNCHANGED storeVars
     \/ Goto(c, "aborted") /\ Outage(c)
  /\ UNCHANGED <<fixed, io, work, verdict>>

Refuse(c) ==
  /\ pc[c] = "refuse"
  /\ \/ Sends(c, Event("close", 4401))
     \/ SendRaises(c)
  /\ Goto(c, "refused")
  /\ UNCHANGED <<storeVars, fixed, work, verdict>>

\* session.created is sent before the try: if it raises, nothing cleans up.
Greet(c) ==
  /\ pc[c] = "greet"
  /\ \/ Sends(c, Event("session.created", NoIndex)) /\ Goto(c, "receive")
     \/ SendRaises(c) /\ Goto(c, "aborted")
  /\ UNCHANGED <<storeVars, fixed, work, verdict>>

-------------------------------------------------------------------------------
(* Receiving.  Messages sent before the client left are still received. *)

Takes(c) ==
  /\ pc[c] = "receive"
  /\ taken[c] < MaxMessages
  /\ taken' = [taken EXCEPT ![c] = @ + 1]
  /\ UNCHANGED <<storeVars, fixed, link, wire, verdict>>

\* Mistakes: receive() returns the disconnect and the handler listens on, or the
\* RuntimeError of the next receive() escapes it.
DisconnectIgnored(c) == pc[c] = "receive" /\ link[c] = "gone" /\ UNCHANGED vars

DisconnectEscapes(c) ==
  /\ pc[c] = "receive"
  /\ link[c] = "gone"
  /\ Goto(c, "aborted")
  /\ UNCHANGED <<storeVars, fixed, io, work, verdict>>

ReceiveDisconnect(c) ==
  /\ pc[c] = "receive"
  /\ link[c] = "gone"
  /\ Goto(c, "cleanup")
  /\ UNCHANGED <<storeVars, fixed, io, work, verdict>>

\* process_audio_chunk: n segments were closed, and without one there is nothing to do.
RunSegments(c, n) ==
  /\ todo' = [todo EXCEPT ![c] = n]
  /\ Goto(c, IF n = 0 THEN "receive" ELSE "lookup")

\* A chunk the segmenter decodes: it closes n segments and may leave one open.
ReceiveChunk(c) ==
  /\ Takes(c)
  /\ \E n \in 0..MaxPerChunk : RunSegments(c, n)
  /\ \E open \in BOOLEAN : speaking' = [speaking EXCEPT ![c] = open]
  /\ UNCHANGED <<flushing, index, results, step, emitted, announced>>

\* A chunk that is not decodable audio: feed() raises before any frame is fed.
ReceiveGarbage(c) ==
  /\ Takes(c)
  /\ Goto(c, "fail")
  /\ UNCHANGED work

\* A text or binary frame over MAX_AUDIO_FRAME_BYTES.
ReceiveOversize(c) ==
  /\ Takes(c)
  /\ Goto(c, "oversize")
  /\ UNCHANGED work

\* A text frame that is no JSON object with a type, or of an unknown type.  What
\* json.loads may raise besides a JSONDecodeError leaves the loop, uncaught.
ReceiveInvalid(c) ==
  /\ Takes(c)
  /\ Goto(c, "invalid") \/ Goto(c, "cleanup")
  /\ UNCHANGED work

\* input_audio.commit: an open utterance is flushed, and may be too short.
ReceiveCommit(c) ==
  /\ pc[c] = "receive"
  /\ speaking' = [speaking EXCEPT ![c] = FALSE]
  /\ flushing' = [flushing EXCEPT ![c] = TRUE]
  /\ \/ /\ speaking[c]
        /\ todo' = [todo EXCEPT ![c] = 1]
        /\ Goto(c, "lookup")
     \/ UNCHANGED todo /\ Goto(c, "complete")
  /\ UNCHANGED <<storeVars, fixed, io, index, results, step, emitted, announced, verdict>>

AnswerInvalid(c) ==
  /\ pc[c] = "invalid"
  /\ \/ Sends(c, Event("invalid_event", NoIndex)) /\ Goto(c, "receive")
     \/ SendRaises(c) /\ Goto(c, "cleanup")
  /\ UNCHANGED <<storeVars, fixed, work, verdict>>

-------------------------------------------------------------------------------
(* _run: one closed segment through ASR, MT and TTS, each result persisted *)

\* The row of the segment under way.
RowOf(c) == [session |-> sess[c], index |-> index[c], by |-> c]

\* A mistake: the exception ends the handler without _fail.
FailsQuietly(c, i) ==
  /\ Goto(c, "cleanup")
  /\ culprit' = [culprit EXCEPT ![c] = i]
  /\ UNCHANGED <<work, decided, wrote, lost>>

\* _run raised on segment i: the coroutine goes to _fail, results are lost.
Fails(c, i) ==
  /\ Goto(c, "fail")
  /\ culprit' = [culprit EXCEPT ![c] = i]
  /\ UNCHANGED <<work, decided, wrote, lost>>

\* A mistake: segments are numbered from 1.
NumberedFromOne(c) ==
  /\ pc[c] = "lookup" /\ Exists(sess[c]) /\ c \notin poisoned
  /\ index' = [index EXCEPT ![c] = emitted[c] + 1]
  /\ emitted' = [emitted EXCEPT ![c] = @ + 1]
  /\ Goto(c, "asr")
  /\ UNCHANGED <<storeVars, fixed, io, verdict, speaking, flushing, todo, results, step, announced>>

\* get_by_id; the index is taken only if the session is there.
Lookup(c) ==
  /\ pc[c] = "lookup"
  /\ \/ /\ Exists(sess[c]) /\ c \notin poisoned
        /\ index' = [index EXCEPT ![c] = emitted[c]]
        /\ emitted' = [emitted EXCEPT ![c] = @ + 1]
        /\ Goto(c, "asr")
        /\ UNCHANGED <<storeVars, speaking, flushing, todo, results, step, announced, verdict>>
     \/ /\ ~Exists(sess[c]) \/ c \in poisoned
        /\ UNCHANGED storeVars
        /\ Fails(c, emitted[c])
     \/ Outage(c) /\ Fails(c, emitted[c])
  /\ UNCHANGED <<fixed, io>>

\* An engine answers, or raises.
Engine(c, here, next) ==
  /\ pc[c] = here
  /\ \/ Goto(c, next) /\ UNCHANGED <<work, verdict>>
     \/ Fails(c, index[c])
  /\ UNCHANGED <<storeVars, fixed, io>>

\* A mistake: the translation is spoken and never stored.
TranslateUnsaved(c) == Engine(c, "mt", "tts")

Transcribe(c) == Engine(c, "asr", "transcription")
Translate(c)  == Engine(c, "mt", "translation")

SaveTranscription(c) ==
  /\ pc[c] = "transcription"
  /\ \/ InsertTranscription(c, RowOf(c)) /\ Goto(c, "mt") /\ UNCHANGED <<work, verdict>>
     \/ TranscriptionRaises(c, RowOf(c)) /\ Fails(c, index[c])
  /\ UNCHANGED <<fixed, io>>

\* A mistake: a translation that could not be stored is announced all the same.
SaveFailureSwallowed(c) ==
  /\ pc[c] = "translation"
  /\ InsertTranslation(c, RowOf(c)) \/ TranslationRaises(c, RowOf(c))
  /\ Goto(c, "tts")
  /\ UNCHANGED <<work, verdict, fixed, io>>

SaveTranslation(c) ==
  /\ pc[c] = "translation"
  /\ \/ InsertTranslation(c, RowOf(c)) /\ Goto(c, "tts") /\ UNCHANGED <<work, verdict>>
     \/ TranslationRaises(c, RowOf(c)) /\ Fails(c, index[c])
  /\ UNCHANGED <<fixed, io>>

\* A mistake: one segment more is awaited than the chunk closed.
AwaitsOneMore(c) ==
  /\ pc[c] = "tts"
  /\ results' = [results EXCEPT ![c] = Append(@, [index |-> index[c], audio |-> FALSE])]
  /\ todo' = [todo EXCEPT ![c] = @ - 1]
  /\ Goto(c, IF todo[c] = 0 THEN "emit" ELSE "lookup")
  /\ UNCHANGED <<storeVars, fixed, io, speaking, flushing, index, step, emitted, announced, verdict>>

\* The result is kept until every segment of the chunk has run.
Synthesize(c) ==
  /\ pc[c] = "tts"
  /\ \/ /\ \E audio \in Audible :
              results' = [results EXCEPT ![c] = Append(@, [index |-> index[c], audio |-> audio])]
        /\ todo' = [todo EXCEPT ![c] = @ - 1]
        /\ Goto(c, IF todo[c] = 1 THEN "emit" ELSE "lookup")
        /\ UNCHANGED <<speaking, flushing, index, step, emitted, announced, verdict>>
     \/ Fails(c, index[c])
  /\ UNCHANGED <<storeVars, fixed, io>>

\* A mistake: segments_sent counts chunks.
CountsChunks(c) ==
  /\ pc[c] = "emit"
  /\ LET burst == Burst(Head(results[c]))
         last  == step[c] + 1 = Len(burst)
         over  == last /\ Len(results[c]) = 1
     IN  /\ Sends(c, burst[step[c] + 1])
         /\ step' = [step EXCEPT ![c] = IF last THEN 0 ELSE @ + 1]
         /\ announced' = [announced EXCEPT ![c] = IF over THEN @ + 1 ELSE @]
         /\ results' = [results EXCEPT ![c] = IF last THEN Tail(@) ELSE @]
         /\ Goto(c, IF ~over THEN "emit" ELSE IF flushing[c] THEN "complete" ELSE "receive")
         /\ UNCHANGED <<speaking, flushing, todo, index, emitted>>
  /\ UNCHANGED <<storeVars, fixed, verdict>>

\* _emit_segment, one frame of the burst; after the last one segments_sent += 1.
EmitFrame(c) ==
  /\ pc[c] = "emit"
  /\ LET burst == Burst(Head(results[c]))
         last  == step[c] + 1 = Len(burst)
     IN  \/ /\ Sends(c, burst[step[c] + 1])
            /\ step' = [step EXCEPT ![c] = IF last THEN 0 ELSE @ + 1]
            /\ announced' = [announced EXCEPT ![c] = IF last THEN @ + 1 ELSE @]
            /\ results' = [results EXCEPT ![c] = IF last THEN Tail(@) ELSE @]
            /\ Goto(c, IF ~last \/ Len(results[c]) > 1 THEN "emit"
                       ELSE IF flushing[c] THEN "complete" ELSE "receive")
            /\ UNCHANGED <<speaking, flushing, todo, index, emitted>>
         \/ /\ SendRaises(c)
            /\ Goto(c, "cleanup")
            /\ UNCHANGED work
  /\ UNCHANGED <<storeVars, fixed, verdict>>

-------------------------------------------------------------------------------
(* Terminal status *)

\* The write took effect: a row was there to take it.
Landed(c, st) ==
  wrote' = IF Exists(sess[c]) THEN [wrote EXCEPT ![c] = Append(@, st)] ELSE wrote

\* A status write under contextlib.suppress(Exception).  It is lost to an outage and
\* to nothing else: a pending rollback is rolled back, a missing row needs no status.
Suppressed(c, st) ==
  \/ /\ UpdateStatus(c, sess[c], st) \/ UpdateStatusRaisesLate(c, sess[c], st)
     /\ Landed(c, st) /\ UNCHANGED lost
  \/ /\ UpdateStatusRaises(c, sess[c]) /\ UNCHANGED wrote
     /\ lost' = [lost EXCEPT ![c] = @ \/ outages' # outages]

\* A mistake: the commit completes the session and says nothing.
CompletesSilently(c) ==
  /\ pc[c] = "complete"
  /\ UpdateStatus(c, sess[c], "COMPLETED") /\ Landed(c, "COMPLETED")
  /\ decided' = [decided EXCEPT ![c] = TRUE]
  /\ Goto(c, "cleanup")
  /\ UNCHANGED <<fixed, io, work, lost, culprit>>

\* The commit's complete_session() is not suppressed: if it raises, the
\* exception leaves the loop with nothing decided.
CompleteOnCommit(c) ==
  /\ pc[c] = "complete"
  /\ \/ /\ UpdateStatus(c, sess[c], "COMPLETED") /\ Landed(c, "COMPLETED")
        /\ decided' = [decided EXCEPT ![c] = TRUE]
        /\ Goto(c, "farewell")
     \/ /\ UpdateStatusRaisesLate(c, sess[c], "COMPLETED") /\ Landed(c, "COMPLETED")
        /\ Goto(c, "cleanup") /\ UNCHANGED decided
     \/ /\ UpdateStatusRaises(c, sess[c])
        /\ Goto(c, "cleanup") /\ UNCHANGED <<decided, wrote>>
  /\ UNCHANGED <<fixed, io, work, lost, culprit>>

Farewell(c) ==
  /\ pc[c] = "farewell"
  /\ \/ Sends(c, Event("session.completed", announced[c]))
     \/ SendRaises(c)
  /\ Goto(c, "cleanup")
  /\ UNCHANGED <<storeVars, fixed, work, verdict>>

\* _fail: the status first, then the error event ...
FailSession(c) ==
  /\ pc[c] = "fail"
  /\ Suppressed(c, "FAILED")
  /\ Goto(c, "report")
  /\ UNCHANGED <<fixed, io, work, decided, culprit>>

\* A mistake: the failure is reported and status_decided is not set.
ReportUndecided(c) ==
  /\ pc[c] = "report"
  /\ Sends(c, Event("pipeline_failed", announced[c])) \/ SendRaises(c)
  /\ Goto(c, "cleanup")
  /\ UNCHANGED <<storeVars, fixed, work, verdict>>

\* A mistake: the error is reported under the service's count of segments.
ReportsEmitted(c) ==
  /\ pc[c] = "report"
  /\ \/ /\ Sends(c, Event("pipeline_failed", emitted[c]))
        /\ decided' = [decided EXCEPT ![c] = TRUE]
     \/ SendRaises(c) /\ UNCHANGED decided
  /\ Goto(c, "cleanup")
  /\ UNCHANGED <<storeVars, fixed, work, wrote, lost, culprit>>

\* ... and only then does the caller set status_decided.
Report(c) ==
  /\ pc[c] = "report"
  /\ \/ /\ Sends(c, Event("pipeline_failed", announced[c]))
        /\ decided' = [decided EXCEPT ![c] = TRUE]
     \/ SendRaises(c) /\ UNCHANGED decided
  /\ Goto(c, "cleanup")
  /\ UNCHANGED <<storeVars, fixed, work, wrote, lost, culprit>>

\* An oversized frame completes the session and closes with 1009.
CompleteOversize(c) ==
  /\ pc[c] = "oversize"
  /\ Suppressed(c, "COMPLETED")
  /\ decided' = [decided EXCEPT ![c] = TRUE]
  /\ Goto(c, "close1009")
  /\ UNCHANGED <<fixed, io, work, culprit>>

Close1009(c) ==
  /\ pc[c] = "close1009"
  /\ \/ Sends(c, Event("close", 1009))
     \/ SendRaises(c)
  /\ Goto(c, "cleanup")
  /\ UNCHANGED <<storeVars, fixed, work, verdict>>

\* A mistake: the finally block writes a status whatever was decided.
CleanupAlways(c) ==
  /\ pc[c] = "cleanup"
  /\ Suppressed(c, "COMPLETED")
  /\ Goto(c, "close")
  /\ UNCHANGED <<fixed, io, work, decided, culprit>>

\* finally: complete the session unless a terminal status was decided.
Cleanup(c) ==
  /\ pc[c] = "cleanup"
  /\ IF decided[c] THEN UNCHANGED <<storeVars, wrote, lost>> ELSE Suppressed(c, "COMPLETED")
  /\ Goto(c, "close")
  /\ UNCHANGED <<fixed, io, work, decided, culprit>>

\* finally: close, suppressed; a socket closed with 1009 cannot close again.
HasClosed(c) == wire[c] # <<>> /\ wire[c][Len(wire[c])].type = "close"

Close(c) ==
  /\ pc[c] = "close"
  /\ \/ ~HasClosed(c) /\ Sends(c, Event("close", 1000))
     \/ (HasClosed(c) \/ link[c] = "gone") /\ UNCHANGED io
  /\ Goto(c, "done")
  /\ UNCHANGED <<storeVars, fixed, work, verdict>>

-------------------------------------------------------------------------------
(* The environment *)

\* The client closes or drops; the handler learns it at its next receive or send.
ClientLeaves(c) ==
  /\ link[c] = "up" /\ pc[c] \notin Ended
  /\ link' = [link EXCEPT ![c] = "gone"]
  /\ UNCHANGED <<storeVars, pc, fixed, wire, taken, work, verdict>>

\* The process dies with every coroutine in it; the tables stay.
Crash ==
  /\ crashes < MaxCrashes
  /\ crashes' = crashes + 1
  /\ pc' = [c \in Conns |-> IF pc[c] \in Ended \cup {"offline"} THEN pc[c] ELSE "crashed"]
  /\ link' = [c \in Conns |-> IF link[c] = "up" THEN "gone" ELSE link[c]]
  /\ UNCHANGED <<storeVars, sess, wire, taken, work, verdict>>

Rest ==
  /\ \E s \in Sessions : CreateSession(s) \/ RestComplete(s) \/ RestDelete(s)
  /\ UNCHANGED handlerVars

-------------------------------------------------------------------------------
(* The specification *)

Message(c) == \/ ReceiveChunk(c) \/ ReceiveGarbage(c) \/ ReceiveOversize(c)
              \/ ReceiveInvalid(c) \/ ReceiveCommit(c)

\* What the event loop runs on its own once the awaited call has answered.
Handle(c) == \/ Authorize(c) \/ Refuse(c) \/ Greet(c)
             \/ ReceiveDisconnect(c) \/ AnswerInvalid(c)
             \/ Lookup(c) \/ Transcribe(c) \/ SaveTranscription(c) \/ Translate(c)
             \/ SaveTranslation(c) \/ Synthesize(c) \/ EmitFrame(c)
             \/ CompleteOnCommit(c) \/ Farewell(c) \/ FailSession(c) \/ Report(c)
             \/ CompleteOversize(c) \/ Close1009(c) \/ Cleanup(c) \/ Close(c)

Next == \/ \E c \in Conns : Connect(c) \/ Message(c) \/ Handle(c) \/ ClientLeaves(c)
        \/ Rest
        \/ Crash

Spec == Init /\ [][Next]_vars

\* Every awaited call answers or raises, and the event loop resumes the
\* coroutine; the client owes nothing, neither messages nor a disconnect.
FairSpec == Spec /\ \A c \in Conns : WF_vars(Handle(c))
-------------------------------------------------------------------------------
(* Properties *)

Frames == [type : {"session.created", "invalid_event", "transcription.completed",
                   "translation.completed", "audio.delta", "binary", "audio.done",
                   "segment.metrics", "session.completed", "pipeline_failed", "close"},
           n : Int]

StoreType ==
  /\ status \in [Sessions -> Statuses]
  /\ transcriptions \subseteq Row /\ translations \subseteq Row
  /\ poisoned \subseteq Conns /\ outages \in Nat

ControlType ==
  /\ pc \in [Conns -> PCs] /\ sess \in [Conns -> Sessions]
  /\ crashes \in Nat

IoType ==
  /\ link \in [Conns -> {"none", "up", "gone"}]
  /\ wire \in [Conns -> Seq(Frames)]
  /\ taken \in [Conns -> Nat]

Result == [index : Nat, audio : BOOLEAN]

WorkType ==
  /\ speaking \in [Conns -> BOOLEAN] /\ flushing \in [Conns -> BOOLEAN]
  /\ todo \in [Conns -> Nat] /\ index \in [Conns -> Nat]
  /\ results \in [Conns -> Seq(Result)] /\ step \in [Conns -> Nat]
  /\ emitted \in [Conns -> Nat] /\ announced \in [Conns -> Nat]

VerdictType ==
  /\ decided \in [Conns -> BOOLEAN] /\ lost \in [Conns -> BOOLEAN]
  /\ wrote \in [Conns -> Seq(Stored)]
  /\ culprit \in [Conns -> Nat \cup {NoIndex}]

\* Every variable of the store and of the handlers has its type.
TypeOK == StoreType /\ ControlType /\ IoType /\ WorkType /\ VerdictType

Told(c, t) == \E i \in 1..Len(wire[c]) : wire[c][i].type = t

\* pipeline.py:265-268: a client that has seen the close (other than 4401) knows
\* that the session's status landed, and so does everyone once a handler that
\* greeted its client is done.  Only an outage at the status write itself excuses; an
\* AsyncSession left poisoned by an earlier failure does not.
CloseMeansSettled ==
  \A c \in Conns : (pc[c] = "done" \/ (Told(c, "close") /\ Told(c, "session.created")))
                   => status[sess[c]] # "ACTIVE" \/ lost[c]

\* However many connections stream into a session, at once or one after the
\* other, with crashes in between: its transcriptions come from one of them,
\* because each numbers its segments from 0 and index 0 is taken once.
OneWriterPerSession ==
  \A r, q \in transcriptions : r.session = q.session => r.by = q.by

\* A session's rows are numbered without a gap, as the segments were spoken.
NoIndexGap ==
  \A r \in transcriptions : \A i \in 0..r.index :
    \E q \in transcriptions : q.session = r.session /\ q.index = i

RowsOf(table, c) == { r \in table : r.session = sess[c] /\ r.by = c }

\* A client that was told session.completed with total n has its session's
\* segments 0..n-1 in both tables, and no other, unless the session was deleted.
CompletedMeansPersisted ==
  \A c \in Conns : \A k \in 1..Len(wire[c]) :
    wire[c][k].type = "session.completed" /\ Exists(sess[c]) =>
      /\ { r.index : r \in RowsOf(translations, c) } = 0..(wire[c][k].n - 1)
      /\ RowsOf(transcriptions, c) = RowsOf(translations, c)

\* Nothing is announced to a client before it is durable: a segment it heard of
\* has its transcription and its translation, unless the session was deleted.
DeliveredIsPersisted ==
  \A c \in Conns : \A k \in 1..Len(wire[c]) :
    wire[c][k].type = "transcription.completed" /\ Exists(sess[c]) =>
      [session |-> sess[c], index |-> wire[c][k].n, by |-> c] \in translations

\* A transcription that never got its translation belongs to a handler that
\* failed on it: it wrote FAILED, or an outage kept it from writing.
UntranslatedMeansFailed ==
  \A r \in transcriptions \ translations :
    pc[r.by] = "done" => lost[r.by] \/ \E i \in 1..Len(wrote[r.by]) : wrote[r.by][i] = "FAILED"

\* The segments a client has been announced or is going to be: those of its chunk
\* that are stored, and the one that has only its audio left to make.
Promised(c) == announced[c] + Len(results[c]) + (IF pc[c] = "tts" THEN 1 ELSE 0)

\* repositories: the rows go with the session, and the next insert, in whatever
\* statement DELETE met the handler, breaks on its foreign key: once a session is
\* deleted, its handler brings no further segment as far as the client.
DeletedTakesNoMore ==
  [][\A c \in Conns : status[sess[c]] = "deleted" => Promised(c)' <= Promised(c)]_vars

\* The two counters of one thing, segments_emitted in the service and
\* segments_sent in the handler, agree whenever the handler listens or
\* completes; between, they differ by the segments under way.
CountersAgree ==
  \A c \in Conns :
    /\ pc[c] \in {"receive", "complete", "farewell", "invalid"} => announced[c] = emitted[c]
    /\ pc[c] \in {"lookup", "emit"} => emitted[c] = announced[c] + Len(results[c])

\* A client that was told pipeline_failed is not contradicted by its own handler:
\* the last status that handler wrote is FAILED.
ReportedFailureStands ==
  \A c \in Conns : Told(c, "pipeline_failed") =>
    \A i \in 1..Len(wrote[c]) : wrote[c][i] = "FAILED"

\* A FAILED that a handler wrote is overwritten by that same handler only when
\* its client left before the error event reached the transport.
FailureUndoneOnlyWhenGone ==
  [][\A c \in Conns : wrote'[c] # wrote[c] /\ wrote[c] # <<>> =>
       link[c] = "gone" \/ wrote[c][Len(wrote[c])] = "COMPLETED"]_vars

\* What each client receives follows the session protocol.
Wire(c) == INSTANCE WireProtocol WITH received <- wire[c]
SpeaksProtocol ==
  /\ \A c \in Conns : Wire(c)!WireInit
  /\ [][\A c \in Conns : Wire(c)!WireNext \/ UNCHANGED wire[c]]_vars

\* A client's departure ends its handler, from wherever the handler is.
DepartureEndsHandler == \A c \in Conns : link[c] = "gone" ~> pc[c] \in Ended

\* A session is not left ACTIVE by a client that leaves without a word after it
\* was greeted, short of an outage at the status write or a crash.
AbandonedIsSettled ==
  \A c \in Conns : link[c] = "gone" /\ pc[c] = "receive"
                   ~> status[sess[c]] # "ACTIVE" \/ lost[c] \/ pc[c] = "crashed"

\* A commit is answered with session.completed or with an error, unless the
\* client leaves first, the database fails, the session is deleted meanwhile
\* (also between two statements of the completing write) or the process dies.
Excused(c) == \/ link[c] = "gone" \/ outages > 0 \/ status[sess[c]] = "deleted"
              \/ pc[c] = "crashed"

Answered(c) == Told(c, "session.completed") \/ Told(c, "pipeline_failed")

CommitIsAnswered == \A c \in Conns : flushing[c] ~> Answered(c) \/ Excused(c)

\* What CommitIsAnswered comes to when the handler is done: a client that stayed
\* has its answer exactly if a status was decided, and only an outage or a DELETE
\* in the middle of the completing write leaves it undecided.
AnsweredAtTheEnd ==
  \A c \in Conns : flushing[c] /\ pc[c] = "done" /\ link[c] = "up" =>
    IF decided[c] THEN Answered(c)
    ELSE ~Answered(c) /\ (outages > 0 \/ status[sess[c]] = "deleted")

\* A client that stayed has heard of every segment that was stored whole, or was
\* told of a failure under an index not above it: the segments of a chunk that
\* were stored before a later one failed are lost to it, and it can tell which.
StoredIsTold ==
  \A r \in translations : pc[r.by] = "done" /\ link[r.by] = "up" =>
    \E k \in 1..Len(wire[r.by]) :
      LET f == wire[r.by][k] IN
      \/ f.type = "transcription.completed" /\ f.n = r.index
      \/ f.type = "pipeline_failed" /\ f.n <= r.index

\* How far a handler is from where it listens again or ends: segments to run, bursts
\* to send, frames of the burst, and the way from its label.
FramesLeft(c) == IF results[c] = <<>> THEN 0 ELSE Len(Burst(Head(results[c]))) - step[c]

Further == [authorize |-> 18, greet |-> 17, refuse |-> 17, invalid |-> 16, receive |-> 15,
            lookup |-> 14, asr |-> 13, transcription |-> 12, mt |-> 11, translation |-> 10,
            tts |-> 9, emit |-> 8, complete |-> 7, farewell |-> 6, fail |-> 7, report |-> 6,
            oversize |-> 7, close1009 |-> 6, cleanup |-> 5, close |-> 4,
            done |-> 0, refused |-> 0, aborted |-> 0]

Nearer(c) ==
  \/ todo'[c] < todo[c]
  \/ /\ todo'[c] = todo[c]
     /\ \/ Len(results'[c]) < Len(results[c])
        \/ /\ results'[c] = results[c]
           /\ \/ FramesLeft(c)' < FramesLeft(c)
              \/ FramesLeft(c)' = FramesLeft(c) /\ Further[pc'[c]] < Further[pc[c]]

\* Between two messages of its client each step of a handler takes it nearer to
\* where it listens again or ends.  No failure, retry or cleanup leads back; with
\* the fairness of its steps, this is why a handler ends.
EveryStepNearer == [][\A c \in Conns : Handle(c) => Nearer(c)]_vars

-------------------------------------------------------------------------------
(* What the documents say and the code does not do *)

\* pipeline.py:181: status_decided is there "so the cleanup below cannot
\* overwrite a FAILED session with COMPLETED".
FailedIsNotOverwritten ==
  [][\A c \in Conns : wrote'[c] # wrote[c] /\ wrote[c] # <<>> =>
       ~ (wrote[c][Len(wrote[c])] = "FAILED" /\ wrote'[c][Len(wrote'[c])] = "COMPLETED")]_vars

\* tests/test_pipeline.py:721: closing the socket without a word "no puede dejar
\* la fila en ACTIVE" - it must not leave the row ACTIVE.
AbruptDisconnectSettles ==
  \A c \in Conns : link[c] = "gone" /\ pc[c] \in {"done", "aborted"} /\ outages = 0
                   => status[sess[c]] # "ACTIVE"

\* schemas/events.py:93: "`segment_index` is None for errors that belong to no segment."
ErrorNamesNoSegment ==
  \A c \in Conns : \A k \in 1..Len(wire[c]) :
    wire[c][k].type = "pipeline_failed" /\ culprit[c] = NoIndex => wire[c][k].n = NoIndex
===============================================================================
