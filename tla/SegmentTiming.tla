----------------------------- MODULE SegmentTiming -----------------------------
(***************************************************************************)
(* The milliseconds a client is told of: asr_ms, mt_ms and tts_ms, taken    *)
(* around each call, and e2e_ms, which begins where the segmenter closed    *)
(* the segment (vad.py) and ends when its audio was handed over             *)
(* (pipeline.py).  A chunk closes all its segments before the first one     *)
(* runs, and they all run before the first one is sent; so the windows of   *)
(* a chunk overlap.  One clock, read at the steps of one coroutine, goes on *)
(* between any two of them; every difference is truncated to milliseconds.  *)
(***************************************************************************)
EXTENDS Integers, Sequences

CONSTANTS Ms,           \* instants of the clock in a millisecond
          MaxSegments,  \* bound: segments a chunk closes
          MaxChunks,    \* bound: chunks, a final flush included
          MaxTime       \* bound: the last instant

ASSUME TimingAssumption ==
  Ms \in Nat \ {0} /\ MaxSegments \in Nat /\ MaxChunks \in Nat /\ MaxTime \in Nat

VARIABLES
  now,      \* time.monotonic()
  phase,    \* what the coroutine does
  arrived,  \* history: when the chunk was taken from the socket
  captured, \* t_capture of the segments this chunk closed
  run,      \* segments whose _run() is over
  stage,    \* stages of the segment under way that are over
  began,    \* `start` of the stage under way, or -1
  ms,       \* processing_time_ms of ASR, MT and TTS, those that are over
  results,  \* the results of the chunk
  spent,    \* history: the milliseconds of all its stages
  sent,     \* history: the segment.metrics sent for this chunk
  chunks    \* chunks taken

vars == <<now, phase, arrived, captured, run, stage, began, ms, results, spent, sent, chunks>>

Timings == [1..3 -> Nat]
Untimed == [k \in 1..3 |-> 0]
Total(timings) == timings[1] + timings[2] + timings[3]

Init ==
  /\ now = 0 /\ phase = "waiting" /\ arrived = 0 /\ captured = <<>>
  /\ run = 0 /\ stage = 0 /\ began = -1 /\ ms = Untimed
  /\ results = <<>> /\ spent = 0 /\ sent = <<>> /\ chunks = 0

\* int((time.monotonic() - since) * 1000)
Elapsed(since) == (now - since) \div Ms

Tick ==
  /\ now < MaxTime /\ now' = now + 1
  /\ UNCHANGED <<phase, arrived, captured, run, stage, began, ms, results, spent, sent, chunks>>

\* A chunk, or the commit message, which flushes.
Take ==
  /\ phase = "waiting" /\ chunks < MaxChunks
  /\ phase' = "segmenting" /\ chunks' = chunks + 1 /\ arrived' = now
  /\ captured' = <<>> /\ results' = <<>> /\ sent' = <<>>
  /\ run' = 0 /\ spent' = 0
  /\ UNCHANGED <<now, stage, began, ms>>

\* A mistake: the anchor is the one the handler took first.
CloseStale ==
  /\ phase = "segmenting" /\ Len(captured) < MaxSegments
  /\ captured' = Append(captured, IF chunks = 1 THEN now ELSE 0)
  /\ UNCHANGED <<now, phase, arrived, run, stage, began, ms, results, spent, sent, chunks>>

\* feed() or flush() closes a segment.
Close ==
  /\ phase = "segmenting" /\ Len(captured) < MaxSegments
  /\ captured' = Append(captured, now)
  /\ UNCHANGED <<now, phase, arrived, run, stage, began, ms, results, spent, sent, chunks>>

Segmented ==
  /\ phase = "segmenting"
  /\ phase' = IF captured = <<>> THEN "waiting" ELSE "running"
  /\ UNCHANGED <<now, arrived, captured, run, stage, began, ms, results, spent, sent, chunks>>

\* transcribe(), translate() and synthesize(), in this order: the clock is read, then the
\* coroutine waits for the limiter and the worker thread.
StageBegins ==
  /\ phase = "running" /\ began = -1 /\ run < Len(captured)
  /\ began' = now
  /\ UNCHANGED <<now, phase, arrived, captured, run, stage, ms, results, spent, sent, chunks>>

\* A mistake: the segment's own clock starts with its ASR.
StageEndsRestamped ==
  /\ phase = "running" /\ began # -1
  /\ began' = -1 /\ spent' = spent + Elapsed(began)
  /\ captured' = IF stage = 0 THEN [captured EXCEPT ![run + 1] = began] ELSE captured
  /\ LET told == [ms EXCEPT ![stage + 1] = Elapsed(began)] IN
     IF stage < 2
     THEN stage' = stage + 1 /\ ms' = told /\ UNCHANGED <<run, results>>
     ELSE stage' = 0 /\ ms' = Untimed /\ run' = run + 1 /\ results' = Append(results, told)
  /\ UNCHANGED <<now, phase, arrived, sent, chunks>>

\* The call is over.  After the third stage so is _run(), and the next segment follows.
StageEnds ==
  /\ phase = "running" /\ began # -1
  /\ began' = -1 /\ spent' = spent + Elapsed(began)
  /\ LET told == [ms EXCEPT ![stage + 1] = Elapsed(began)] IN
     IF stage < 2
     THEN stage' = stage + 1 /\ ms' = told /\ UNCHANGED <<run, results>>
     ELSE stage' = 0 /\ ms' = Untimed /\ run' = run + 1 /\ results' = Append(results, told)
  /\ UNCHANGED <<now, phase, arrived, captured, sent, chunks>>

\* A stage, a query or a send raises: the handler fails its session and ends.  The results
\* of the chunk go with it.
Fails ==
  /\ phase \in {"running", "sending"}
  /\ phase' = "ended"
  /\ UNCHANGED <<now, arrived, captured, run, stage, began, ms, results, spent, sent, chunks>>

\* process_audio_chunk() returns when every segment has run.
Returns ==
  /\ phase = "running" /\ run = Len(captured)
  /\ phase' = "sending"
  /\ UNCHANGED <<now, arrived, captured, run, stage, began, ms, results, spent, sent, chunks>>

\* _emit_segment(): the audio is sent, the clock is read, the metrics follow.
Emit ==
  /\ phase = "sending" /\ Len(sent) < Len(results)
  /\ sent' = Append(sent, [stages |-> results[Len(sent) + 1],
                           e2e |-> Elapsed(captured[Len(sent) + 1])])
  /\ phase' = IF Len(sent) + 1 = Len(results) THEN "waiting" ELSE phase
  /\ UNCHANGED <<now, arrived, captured, run, stage, began, ms, results, spent, chunks>>

Next == \/ Tick \/ Take \/ Close \/ Segmented \/ StageBegins \/ StageEnds
        \/ Returns \/ Emit \/ Fails

Spec == Init /\ [][Next]_vars
-------------------------------------------------------------------------------
(* Properties *)

\* Every variable has its type, and the lists of a chunk go together.
TypeOK ==
  /\ now \in 0..MaxTime /\ arrived \in 0..now
  /\ phase \in {"waiting", "segmenting", "running", "sending", "ended"}
  /\ captured \in Seq(Nat) /\ results \in Seq(Timings)
  /\ sent \in Seq([stages : Timings, e2e : Nat])
  /\ run \in Nat /\ stage \in 0..2 /\ began \in -1..now
  /\ ms \in Timings /\ spent \in Nat /\ chunks \in 0..MaxChunks
  /\ Len(captured) <= MaxSegments
  /\ Len(results) = run /\ run <= Len(captured) /\ Len(sent) <= run

\* events.py:68-70, "always >= asr_ms + mt_ms + tts_ms", truncation included; and more: as a
\* chunk sends nothing before all its segments have run, e2e_ms is at least the sum of the
\* stages of every segment of the chunk.
CoversStages ==
  \A i \in 1..Len(sent) :
    sent[i].e2e >= spent /\ spent >= Total(sent[i].stages)

\* tests/test_pipeline.py:432-437: the pause of the speaker before the chunk is never in
\* e2e_ms: the window begins after the chunk was taken.
ExcludesPauses == \A i \in 1..Len(sent) : sent[i].e2e * Ms <= now - arrived
===============================================================================
