# Speech-to-speech backend: specifications and proofs

A TLA+ development of the streaming service under `src/app`. A client opens a
WebSocket on a session it created over REST and streams WAV chunks. A voice
segmenter decides where speech ends. Each segment runs through ASR, MT and TTS,
and the results are persisted and sent back as a burst of events. What has to be right is
the bookkeeping around the models: which audio becomes a segment, under which
index it is stored, what the client is told and in which order, and which status
the session ends with when something fails on the way. The text the models
produce is not looked at.

## The system

| part | source | state | operations |
|---|---|---|---|
| voice segmenter | `pipeline/vad.py`, `VADState` in `pipeline/contracts.py` | the open utterance, its levels, two counters, the pre-roll, the residue of the last chunk | `feed`, `flush` |
| pipeline service | `services/translation_pipeline_service.py` | `segments_emitted` in `SessionState` | `process_audio_chunk`, `flush`, `_run`, `complete_session`, `fail_session` |
| WebSocket handler | `api/controller/pipeline.py` | the coroutine: `segments_sent`, `status_decided`, where it waits | one per connection |
| session store | `repositories/`, `models/` | sessions with a status, transcriptions, translations; one `AsyncSession` per connection | inserts, `update_status`, `delete` |
| wire protocol | `schemas/events.py`, `scripts/smoke_test.py` | the frames a client has received | one event per frame |
| REST API | `api/controller/sessions.py`, `services/session_service.py` | what a request has read so far | create, complete, delete, reads |
| engines | `services/asr_service.py`, `mt_service.py`, `tts_service.py` | the loaded models, frozen; one limiter each, process wide | `transcribe`, `translate`, `synthesize` |
| start-up | `main.py`, `dependencies.py`, `core/config.py` | the settings a process read, the engines it built | lifespan, dependency injection |
| database engine | `db/session.py` | the connection pool | a session per request or socket |
| timing | `t_capture` in `vad.py`, `_e2e_ms` in `pipeline.py`, the engines' timings | instants of one clock | taken per stage and per segment |

The handler calls the service, which calls the segmenter in line (no await) and then
awaits the store and the engines, segment by segment. The handler awaits the
socket for every frame it sends or receives. Handlers share nothing in
memory except the engines and the connection pool. They meet in the database, where
REST requests meet them too, and where sessions outlive the process that accepted
them. Hard to test in this design:

- *awaits*: between any two of them the client may leave, another connection may
  write to the same session, a REST request may complete or delete it, or the
  process may die;
- *failures*: a database call may raise before or after its commit took effect,
  and leaves the `AsyncSession` unusable until a rollback; terminal status writes are
  often under `contextlib.suppress`;
- *order*: status write, error event, `status_decided` and close are four steps;
- *statements*: `update_status` and `delete` read in one statement and write in
  another, and the cascade loads its rows one by one;
- *waiting*: a session waits for the limiter of a stage while it keeps a connection of
  the pool, and others wait for the connection;
- *restarts*: a session may stream into a process whose settings are not those that accepted it;
- *arithmetic across boundaries*: chunks do not end on frames, ceilings cut
  segments in two, and counters are carried over.

`PROJECT.json` lists every hazard at its line with the properties aimed at it.

## The modules

| module | models | notes |
|---|---|---|
| `SpeechSegments` | what segmentation promises | abstract: what was heard, is open, was closed and came out; no levels, counters or chunks |
| `Segmenter` | `VoiceSegmenter` over `VADState` | implements `SpeechSegments` |
| `SessionStore` | tables and repositories, one step per operation | extended by the handler and by the REST API |
| `WireProtocol` | what one client may receive | abstract: only the frames received |
| `PipelineHandler` | handler and service, one coroutine per connection, over `SessionStore` | implements `WireProtocol` for each connection |
| `SessionApi` | the REST routes, `update_status` and `delete`, statement by statement, over `SessionStore` | its tables go through the steps of `SessionStore` (`AtomicOps`) |
| `SharedResources` | limiters and connection pool, over the handlers and requests that wait for them | the handler reduced to where it waits and what it keeps |
| `Deployment` | settings, start-up, engines and pairs of languages, several processes over one database | |
| `SegmentTiming` | the millisecond figures of one conversation | |
| `MCPipeline`, `MCSessionApi`, `MCDeployment` | — | symmetry and sets for TLC, for runs without liveness |
| `PipelineProofs`, `PipelineOutcomeProofs`, `PipelineWireProofs` | — | theorems about `PipelineHandler`, each over the one before |
| `SegmenterProofs`, `SessionApiProofs`, `SharedResourcesProofs`, `DeploymentProofs`, `SegmentTimingProofs` | — | theorems about the module they name |

### Segmenter

A chunk is a number of samples, and a frame is the position of its first sample.
`FeedChunk`, `FeedFrame` (one turn of the loop) and `FeedEnd` are `feed()`.
`FeedFrame` is `_feed_frame()`, split by its ways out: `Listen` and `Trigger`
while nothing is open, `Speak` and `Pause` while an utterance is, the last two
with the `_close()` they may call (`CloseWhole`, `CloseAtCut`). `Flush` is
`flush()`. The level of a frame is chosen freely from `Probs` in each step. The
Silero network is stateful, but nothing the code does depends on how. `loud` and
`closed` are history.

`FrameAssumption` is what bounds a segment: pre-roll, trigger and carried remainder
fit under the ceiling. Nothing in `build_segmenter` checks it; the default settings
satisfy it by far. It allows what small durations give: counts that round to 0, and a
pre-roll and a look-back that overlap, so that the cut falls inside the pre-roll, whose
level 0 is the quietest there is. Then the trigger frame may stand both in a dropped head
and in the carry; that is why `SegmentsInOrder` speaks of what is emitted.
With a minimum of speech that rounds to 0 as well, such a head is emitted, and
`SpeechSegments` is not implemented any more.

### SessionStore and PipelineHandler

`pc[c]` names the await connection `c` is at. Every step of a handler is the code
from one await to the next; this is what the event loop can interleave. Correspondence:

| actions | code |
|---|---|
| `Connect`, `Authorize`, `Refuse`, `Greet` | up to the `try` |
| `ReceiveDisconnect`, `ReceiveChunk`, `ReceiveGarbage`, `ReceiveOversize`, `ReceiveInvalid`, `ReceiveCommit`, `AnswerInvalid` | the receive loop |
| `Lookup`, `Transcribe`, `SaveTranscription`, `Translate`, `SaveTranslation`, `Synthesize` | `_run`, each with its exception (`Fails`) |
| `EmitFrame` | one frame of `_emit_segment`; the last counts the segment |
| `CompleteOnCommit`, `Farewell` | the commit's end |
| `FailSession`, `Report` | `_fail`; `Report` also holds the caller's `status_decided = True`, which a send that raises skips |
| `CompleteOversize`, `Close1009` | a frame over the limit |
| `Cleanup`, `Close` | `finally` |
| `ClientLeaves`, `Crash`, `Rest` | the environment |

The segmenter appears by its promise. A chunk closes up to `MaxPerChunk` segments
and leaves speech open or not. A commit finds an utterance to flush only if one
is open, and may find it too short. Sending to a client that has left either
raises or is accepted by the transport and reaches nobody. Both happen with uvicorn,
and the handler cannot tell which it will be. A text frame that `json.loads` cannot read is
answered with an error, except for what it raises beside a `JSONDecodeError` (a `RecursionError`, say):
that leaves the loop for `finally` with nothing decided (`ReceiveInvalid`).

A repository call ends in one of the ways `SessionStore` lists: done, refused by a
constraint or a pending rollback, failed without effect (`Outage`), or failed after
its commit in the refresh (`OutageAfterCommit`). Each is one step. That is a claim about
`update_status` and `delete`, which are several statements, and `SessionApi` is
where it is checked. `update_status` also raises, with the database well, when a `DELETE` takes
the row between two of its statements. The status it may have written by then went with the row, so
`UpdateStatusMisses` is a step in the deleted session. It may be taken also when the session was deleted
before the first statement, where the code would return None; that only adds behaviours. Foreign keys are enforced, as in the PostgreSQL deployment.

`lost` records that a suppressed status write met an outage at the write itself. A pending rollback
is no such excuse: `update_status` rolls back first, and `CloseMeansSettled` breaks if it does not.
`Promised` counts the segments that a client has been announced or will be, unless something fails;
`DeletedTakesNoMore` says that it does not grow once the session is deleted.

`WireProtocol` is the conversation as the client sees it: its own tally of finished
segments gives the index of the next one and the total in `session.completed`.

### SessionApi

A request is at the statement it runs next. `Authorize` is `require_session_token`,
`Look` the lookup of the operation itself, `Update` and `Refresh` the rest of
`update_status`, `Load`, `LoadTranslation` and `CommitDelete` or `CommitNothing` those of `delete`.
The operation `fail` is `_fail()` of a handler, which has no token. `Elsewhere` is
everything else that commits meanwhile: `POST /sessions` and handlers that insert segments.

`update_status` writes nothing when the status it read is the one it sets: SQLAlchemy sees no
change. A concurrent change of status is then not overwritten, and the request takes
effect at its read; otherwise at its commit. A row that has gone raises, because
`updated_at` is written in any case. The cascade of `delete` takes the rows it loaded.
A row inserted afterwards refers to one that goes, and the foreign key refuses the whole commit.

### SharedResources

`pc[u]` is where a handler or request waits or what it is about to ask the database. `Query`
lists the queries that begin a transaction and where they may lead, `Raised`
where the pool's `TimeoutError` leads, `Commits` the commits that end one and `Rejected` where one
leads that is refused. A REST request begins with its first query (`visit`) and goes the way of its
route: a GET, or whoever shows a wrong token, only answers; a DELETE commits; a POST commits and waits
again for its refresh; PATCH `/complete` rolls back after the token's check (`Patches`), waits for
its lookup, commits and waits for its refresh. Each of these waits may time out. `waiting` and `running`
are the queue and the token holders of each limiter, in the order anyio serves them. A wait for the
pool either gets a connection (`Queries`) or times out (`TimesOut`), the latter only
while none is free. A handler keeps a connection from its first query to the next commit, over ASR and
MT; one that was authorized and never spoke keeps it until it leaves.

### Deployment

`Start`, `Build`, `Refuse` and `Stop` are the life of a worker process: `Settings()` on
import, then `init_engines` part by part. `phase` is the position in it: `Following` is its order of
lines, and after the last one the lifespan yields, whatever was built. That the parts stand then, under
the names configured and with a translator for each accepted pair, is no guard but what
`ServesWhole` has to show. `Reconfigure` changes what the next start reads. `CreateSession` accepts a pair
by the settings of its process, and `Translate` is a segment that reaches MT in any process. A process
started without lifespan (`bare`) serves REST with no engine, and the getters of the
engines raise.

### SegmentTiming

`Tick` advances the clock between any two steps of one coroutine. `Take`, `Close`
and the steps after them follow one chunk: all its segments are closed, then all are run, then all are
sent. `Ms` is the number of instants in a millisecond; every difference is
truncated, as `int(... * 1000)` does. The clock's arithmetic is exact here; the
rounding of a double, some 1e-10 s on a machine up for months, is left out.

## The runs

| run | module, cfg | distinct states | question |
|---|---|---|---|
| `segmenter` | `Segmenter` | 532,042 | Are the cuts, the closes and the residue right, whatever the levels and the chunks? Is what comes out what `SpeechSegments` promises? |
| `pipeline_one` | `PipelineHandler`, `PipelineOne` | 529,372 | One connection with everything that can happen to it: do rows, counters, status and wire agree, also at the end of a conversation that failed or whose session was deleted? Do handlers end, are abandoned sessions settled and commits answered? |
| `pipeline_two` | `MCPipeline`, `PipelineTwo` | 3,974,018 | Two connections in one session, and a crash: who owns the rows, are they numbered without a gap, and does what each was told stay true? |
| `session_api` | `MCSessionApi`, `SessionApi` | 375,943 | Three requests and the inserts of handlers, statement by statement: does each operation take effect once, and is its answer true? |
| `shared_resources` | `SharedResources` | 302,520 | Limiters and pool: in turn, no leak, nobody starved by one who holds two, nobody set back by another, and does everything under way end? |
| `deployment` | `MCDeployment`, `Deployment` | 119,724 | Two workers and changing settings: who can meet a missing model, and has a process that serves all it needs for what it accepts? |
| `segment_timing` | `SegmentTiming` | 656,119 | What do the truncated figures promise about each other, when windows overlap? |

Five more runs each show that the code does not do what a line of the repository says:

| run | the line | what the code does |
|---|---|---|
| `pipeline_failed` | `pipeline.py:181`, cleanup "cannot overwrite a FAILED session with COMPLETED" | it does, when the client left before the error event: the send raises, and `status_decided = True` is skipped |
| `pipeline_greet` | `tests/test_pipeline.py:721`, an abrupt close must not leave the row ACTIVE | it does, when it comes before `session.created` is sent, outside the `try` |
| `pipeline_error_index` | `events.py:93`, `segment_index` is None for errors that belong to no segment | undecodable audio is reported under `segments_sent` |
| `segmenter_preroll` | `vad.py:197`, "the pre-roll is audio from before the trigger" | the trigger frame has joined it, and is in the segment twice |
| `segmenter_remainder` | `vad.py:242`, dropping the remainder "would lose what was said" | it is dropped when it closes under the minimum of speech |

What holds beside the first two: a FAILED that the client was told of stands
(`ReportedFailureStands`), it is undone only when the client has left
(`FailureUndoneOnlyWhenGone`), and a client that was greeted does not leave its session
ACTIVE (`AbandonedIsSettled`).

Other places where the models differ from a line of the repository, without a run of their own:

- a ceiling inside a pause forgets the silence counted so far (`vad.py:250`), so whether
  the pause splits does not depend on the setting alone (`tests/test_vad.py:126`);
- a session deleted between the token check and the route's own lookup answers 404 to its
  owner (`sessions.py:32`, against `README.md:88-90`); `TellsOnlyTheOwner` shows that nobody else sees one;
- a session can meet a process without its pair's model (`mt_service.py:209-216`) after the
  settings changed; `OnlyDroppedPairsLack` shows that nothing else leads there;
- any `TTS_MODEL` runs the placeholder, and `health.py:17-19` reports the name configured;
- a pair that is only in the settings stops the start (`mt_service.py:104`), although
  the expansion "adds entries here, never in the code" (`config.py:33-35`).

### Bounds

- `segmenter`: 18 samples in frames of 2 and chunks of 3 or 5. Every chunk ends inside
  a frame or joins a residue. Nine frames allow a trigger with a full pre-roll,
  a ceiling at 6 frames, a remainder of up to 3 and its own close, by silence,
  by flush or by another ceiling. A pad of 3 and a look-back of 4 overlap, so cuts fall in
  the speech and in the pre-roll. Three levels are the classes the code
  tells apart: under the floor, between floor and threshold, at the threshold. Within a class
  only `argmin` compares, and level 0 of the pre-roll is a fourth.
- `pipeline_one`: two chunks with up to two segments each and the commit's flush
  make indices 0 to 4. One outage may hit any call; a second could only hit the
  suppressed write that reports the first. No crash: a crashed handler takes no
  further step, and liveness is about the others.
- `pipeline_two`: one chunk of one segment and a flush per connection. Index 0 and 1
  of each collide in every order. One crash, at any await, of both handlers.
- `session_api`: three requests are two that race and one that spoils what both have read;
  one session, because a request names one; one connection and index 0, because the cascade
  tells a row it loaded from one it did not.
- `shared_resources`: two handlers and a request over two connections: each can hold one
  while the third waits, also for the second or third time in one PATCH, and two handlers can meet in
  every queue. A third handler only
  lengthens the queues, and what it changes is proved (`InTurn`).
- `deployment`: two workers with two starts each, one session, three pairs of
  which one has no artifact, six environments that differ in every name.
- `segment_timing`: two chunks of two segments, two instants per millisecond, ten
  instants: every stage may end under a millisecond, on one or between two.

`CHECK_DEADLOCK FALSE` is in every configuration because the system may stop: a
handler ends, and streams, messages, requests, starts and instants are bounded.

### Fairness

`PipelineHandler!FairSpec` asks weak fairness of `Handle(c)` for each connection: a call that was
awaited answers or raises, and the event loop resumes the coroutine. Nothing is asked
of the client: it need not send a chunk, commit or leave. REST
requests, outages and crashes need not happen. `ReceiveDisconnect` is part of `Handle`
because the server delivers the disconnect by itself. With a call that never answers (the
engines have no timeout) the handler waits for ever; this is an assumption, not a result.

`SharedResources!FairSpec` asks weak fairness of `Runs(u)` for each user, which is a query, a commit,
an inference and a wait for the pool coming to an end, in one way or another, and of
`Admit(s)` for each stage, which is anyio handing a free token to the first waiter. The pool's wait is
weakly fair because it has a timeout; that it may end by it again and again is part of the
model. `Speaks` and `Finishes` are the client's and not fair: sockets may idle for ever
with their connections, and `Served` holds all the same.

## What is proved

`PipelineProofs`, by TLAPS, for every set of sessions and connections and every bound,
from `StoreAssumption` and `HandlerAssumption` alone:

- `TypeCorrect`: `Spec => []TypeOK`. Type correctness is not inductive by itself. A
  handler at `EmitFrame` takes the head of `results` and the frame `step + 1` of its burst, and
  one in `_run` decrements `todo`. `Shape` says that there is such a head, such a frame and such a
  segment. Each part of `TypeOK` has its lemma, with one step per action.
- `OneWriter`: `Spec => []OneWriterPerSession`, and `NoGap`: `Spec => []NoIndexGap`. Both
  follow from `RowInv`. A handler takes its index before ASR (`IndexTaken`), a
  handler that goes on streaming has stored every segment it numbered (`AllSaved`,
  since any failure ends it), so below each row stand all lower rows of the
  same handler (`OwnPrefix`). With the unique constraint (`OneRowPerIndex`), row 0 has
  one writer, and therefore all rows do. `NotYet` says that a handler of a session that does not
  exist has numbered nothing, which `POST /sessions` needs.

`SegmenterProofs`, for every setting that satisfies `LevelAssumption` and `FrameAssumption`,
every chunk and every answer of the network:

- `SegTypeCorrect`, `CountExact`, `NoNoise`, `PauseHonest` and `CeilingRespected` prove the
  invariants `TypeOK`, `ActiveCountExact`, `NoiseNeverEmitted`, `PauseIsReal` and `CeilingHolds`. The
  run checks what comes out of it, `NoiseNeverEmitted` and `CeilingHolds`; the others are the
  counters these rest on.
  They support each other, so one invariant carries them all: `SegInv`, made of `OpenInv` (the open
  utterance has one level per frame, its counters are right, the pre-roll fits the pad),
  `ClosedInv` (the same of what was closed) and `FeedInv` (positions stay inside the stream).
  The ceiling needs the pre-roll's bound for the onset and the look-back's for the
  remainder, and both come from `FrameAssumption`: a frame that triggers opens a segment of up
  to `Pad + 1` frames and the code does not compare that with the ceiling. The exact count rests
  on four lemmas about `ActiveIn` (finite, empty, one frame more, a run of zeros), and each
  way out of `_feed_frame` and each kind of close has its lemma.
- `Seamless`, `LoudKept`, `SilenceCloses` and `ChunksTraceless` prove `NoHoles`,
  `NothingLoudIsLost`, `SilenceClosesOnSilence` and `ChunksLeaveNoTrace`. For what is in the
  buffers a frame does one of five things (`FrameMoves`): it `Joins` the pre-roll, `Opens` a
  segment, `Extends`, `Cuts` or `Empties` it; a flush empties it too. `Chained` is what holds them
  together: a segment is open or a pre-roll is kept, not both, and what is kept ends where the
  next frame begins. That silence closes on silence comes from `PauseIsReal`, and `Aligned` says
  that the next position is a multiple of the frame's length.
- `StreamOrder` and `ImplementsPromise` prove `SegmentsInOrder` and the refinement
  `KeepsPromise`, for `MinSpeech > 0`. `InOrder` is the invariant: `OpenOrder` (no frame of the open
  segment stands twice but the trigger, and all before that one is under the floor; its frames are no
  further apart than their number says) and `ClosedOrder` (what came out ends before the next and
  before what is kept). A cut between the two copies of the trigger leaves a head without
  speech, which does not come out exactly because a minimum of speech is asked for: that is where
  the assumption is needed. The length of a stretch is a product, bounded by
  `ShortStretch`; `CloseMaps` maps every close to `SpeechSegments!Close`.

`PipelineOutcomeProofs`, for the same constants, adds everything else the handler promises as an
invariant or an action property:

- `CountersEqual` (`CountersAgree`): `Counts` is the equation at every label, results that wait
  to be sent included, and `Numbered` says which numbers those carry.
- `ReportsStand` and `UndoneOnlyWhenGone` (`ReportedFailureStands`,
  `FailureUndoneOnlyWhenGone`): every step of the system is one edge of an automaton over what a
  handler has written, decided and lost (`Edge`). `Verdicts` is inductive over the edges: a decided
  handler writes no more, one that reported has only FAILED behind it, and one that comes to
  `finally` undecided with something written has lost its client.
- `CloseSettles` (`CloseMeansSettled`): `Closing`, that the status has landed or its
  write met an outage before the close is visible on any path.
- `UntranslatedFails`, `DeliveredPersists` and `CompletedPersists` (`UntranslatedMeansFailed`,
  `DeliveredIsPersisted`, `CompletedMeansPersisted`): a second automaton (`Flow`) over the segment under
  way, and `Tables`: a row belongs to its writer and its session is there, a working handler
  has translated all it numbered but the one under way, and a row without translation is that one
  or has a failure to blame. `Delivered` and `TotalTold` connect this to the wire.
- `DeletedTakesNone` (`DeletedTakesNoMore`): only a stored translation raises `Promised`
  (`PromisedStep`), it needs its transcription, and a transcription's session exists (`Owned`).

`PipelineWireProofs` proves `ImplementsWire`: `Spec => SpeaksProtocol`, the refinement of
`WireProtocol` for each connection. `Spoken` ties the client's view to the handler's: what the
last frame was, and that the client's tally of finished segments is `announced`. Every step
either puts one frame or none (`Quiet`, `Puts`); `BurstOrder` says that the frames of a burst are in
the protocol's order.

It goes on to what a client that stays is told, which takes the outcome and the wire together:

- `AnswersAtTheEnd` (`AnsweredAtTheEnd`) is the part of `CommitIsAnswered` that no fairness is needed
  for. `Answering` says why a handler that ends is undecided: its commit met an outage or a
  `DELETE`, both of which stay (`UnanswerableStays`), or its client has left. A decided one whose
  client is there has the answer on its wire, and a wire only grows (`WireGrows`). The converse, that
  only a decided handler has answered, is `Deciding`.
- `StoredSegmentsAreTold` (`StoredIsTold`): `Telling` says that each segment below `announced` is on the
  wire, and that a handler which ends with more segments counted than announced has reported a failure
  under `announced`. A chunk whose second segment fails loses the first, which was stored, to the
  client; this is what the client can still conclude. Reported under the service's own count, it could not.

`StepsLeadOn` in `PipelineProofs` (`EveryStepNearer`, which no run checks: the code has no way
back to break) and `NobodySetBack` in `SharedResourcesProofs`
(`NobodyIsSetBack`) are the safety half of the liveness properties. The first gives each handler
a measure, in this order: segments to run, bursts to send, frames of the burst, and how far its label is from
the end. Every step lowers it (`Ranks`), and a client must send a message to raise it; weak fairness of
`Handle(c)` does the rest. The second says the same of a user of limiters and pool, where
the wait for a token is part of the measure: `NotAfter(u)` are those the token reaches no later than `u`.
Joining a queue leaves the others' sets alone (`OthersStay`), each token handed over takes one
out of the set of everyone who waits for it (`AdmitNearer`). That some step is always possible, and
that fairness takes it, stays with TLC (`DepartureEndsHandler`, `Served`).

`SessionApiProofs`, for every set of requests: `StoreIsAtomic`, `DeletedStaysDeleted`, `OwnerOnly`,
`TookEffect` and `DeleteHonest` prove the five properties of the run, from `ApiInv`: types, `Keyed`
(the foreign keys) and `Paths` (what each label says of the request, `met` included). That
a commit of `delete` is `RestDelete` of the store rests on `Keyed`: a translation that was not loaded has
a transcription that was not, and refuses the commit.

`SharedResourcesProofs`, for every finite set of handlers and of requests and every pool:
`TakenInTurn`, `LeavesNothing` and `SpeaksFree` prove `InTurn`, `NothingLeaks` and
`SpeaksWithoutConnection`. `Line` is the invariant: a queue holds each user once, none of whom runs,
at the label of its stage, and a user's place plus how often it was overtaken never
exceeds the number of handlers. Joining needs that a queue of distinct handlers has room for one that is
not in it (`QueueFits`). `Freed` and `Spare` are what is held at which label. `StarvedFairly` proves
`StarvedByOthers`: a session has at most one connection (`OneEach`), so the pool counts its users
(`PoolCountsUsers`, a bijection), and who timed out is none of them.

`DeploymentProofs`: `DroppedPairs`, `ServesWhatItAccepts` and `StubsAreAskedFor`, from
`DeploymentInv` (`Standing`: what `init_engines` has passed stands, and what is built was built from the settings
the process read; a row of the current start has one of its pairs). `NoSilentStub` of the last is in no run: it is a consequence of `Built`.

`SegmentTimingProofs`: `WindowCoversStages` and `WindowExcludesPauses`, for every resolution of the
clock, from `TimingInv`: what was spent on a chunk so far fits between the close of any of its
segments and the last instant measured (`Windows`). Truncation enters by two lemmas about
division, `Truncates` and `Fits`.

Each inductive invariant was first checked with TLC. Model-checked only: liveness
(`DepartureEndsHandler`, `AbandonedIsSettled`, `CommitIsAnswered`, `Served`), which is out
of the prover's reach. Every other property of a passing run is a theorem.

## Mistakes

Definitions commented as mistakes are plausible bugs of the code they stand before: a
remainder not counted again, a status write without its rollback, a counter of chunks instead of
segments. No specification uses them. Put in the place of the definition after them, each
breaks the property `PROJECT.json` names, which shows that the property depends on that code.

## Not modelled, and the plan

Not modelled:

- the WAV codec, texts and watermarks: data; a chunk decodes or raises;
- what a model computes: an engine answers or raises;
- request logging and the health route: no state of the service;
- migrations, the console, the demo and the benchmarks: tools around it;
- cancellation of a coroutine at shutdown: a crash stands for it in `PipelineHandler`;
- the loss of an utterance still open when a client drops the socket: the flush is
  documented for the commit only, so there is nothing to violate;
- more than one outage in one conversation.

What the plan has left:

- a composition of the handler with the smoke client's loop, over a channel that
  delays frames;
- that `SharedResources` reduces the handler rightly, as a property of `PipelineHandler`: today
  the two are each read against the code.
