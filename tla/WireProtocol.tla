----------------------------- MODULE WireProtocol -----------------------------
(***************************************************************************)
(* What one connection's client may rely on, frame by frame: the protocol   *)
(* scripts/smoke_test.py asserts and schemas/events.py describes.  The only *)
(* variable is the sequence of frames the client received.                 *)
(***************************************************************************)
EXTENDS Integers, Sequences, FiniteSets

CONSTANT NoIndex   \* segment_index of a frame that belongs to no segment

VARIABLE received  \* the frames the client received

Frame(type, n) == [type |-> type, n |-> n]

Latest   == received[Len(received)]
Heard(t) == received # <<>> /\ Latest.type = t

\* Segments whose audio is done: the client's own tally.
Tally == Cardinality({ k \in 1..Len(received) : received[k].type = "audio.done" })

\* No segment is under way and the conversation goes on.
Between == \E t \in {"session.created", "segment.metrics", "invalid_event"} : Heard(t)

\* The frames that may come next.
Greeting == IF received = <<>>
            THEN {Frame("session.created", NoIndex), Frame("close", 4401)} ELSE {}

\* Segment i's burst: each frame announces the next, the binary one right after
\* its audio.delta, and segments are numbered as the client counts them.
Segment ==
  LET i == Latest.n IN
  CASE Between -> {Frame("transcription.completed", Tally)}
    [] Heard("transcription.completed") -> {Frame("translation.completed", i)}
    [] Heard("translation.completed") -> {Frame("audio.delta", i), Frame("audio.done", i)}
    [] Heard("audio.delta") -> {Frame("binary", i)}
    [] Heard("binary") -> {Frame("audio.done", i)}
    [] Heard("audio.done") -> {Frame("segment.metrics", i)}
    [] OTHER -> {}

\* The end of the conversation: the total is the client's tally.
Outcome == IF Between
           THEN {Frame("invalid_event", NoIndex), Frame("session.completed", Tally),
                 Frame("pipeline_failed", Tally), Frame("close", 1009)}
           ELSE {}

Closing == IF Between \/ Heard("session.completed") \/ Heard("pipeline_failed")
           THEN {Frame("close", 1000)} ELSE {}

WireInit == received = <<>>

WireNext == \E f \in Greeting \cup Segment \cup Outcome \cup Closing :
              received' = Append(received, f)

WireSpec == WireInit /\ [][WireNext]_received
===============================================================================
