--------------------------- MODULE PipelineWireProofs ---------------------------
(***************************************************************************)
(* The handler of PipelineHandler implements the protocol of WireProtocol,  *)
(* for any sets of sessions and connections and any bounds, and a client    *)
(* that stays is told what became of its commit and of its segments.        *)
(***************************************************************************)
EXTENDS PipelineOutcomeProofs, FiniteSetTheorems

\* The frames after which no segment is under way and the conversation goes on.
Paused == {"session.created", "segment.metrics", "invalid_event"}

\* The labels at which the handler listens or works on a segment, or is about to end.
Open == {"receive", "invalid", "lookup", "asr", "transcription", "mt", "translation", "tts",
         "complete", "farewell", "fail", "report", "oversize", "close1009"}

\* The last frame on the wire of c is of one of these types.
Ends(c, types) == wire[c] # <<>> /\ wire[c][Len(wire[c])].type \in types

\* The frames a client counts.
Dones(c) == { k \in 1..Len(wire[c]) : wire[c][k].type = "audio.done" }

-------------------------------------------------------------------------------
(* The client's tally *)

\* The protocol's count of a set is the handler's.
LEMMA SameCount == ASSUME NEW c \in Conns, NEW S PROVE Wire(c)!Cardinality(S) = Cardinality(S)
BY DEF Wire!Cardinality, Cardinality

LEMMA TallyIsDones == ASSUME NEW c \in Conns PROVE Wire(c)!Tally = Cardinality(Dones(c))
BY SameCount DEF Wire!Tally, Dones

\* A frame more is counted if it closes the audio of a segment.
LEMMA TallyGrows ==
  ASSUME NEW c \in Conns, wire[c] \in Seq(Frames), NEW f \in Frames, wire'[c] = Append(wire[c], f)
  PROVE  /\ Cardinality(Dones(c)) \in Nat
         /\ Cardinality(Dones(c)') = IF f.type = "audio.done" THEN Cardinality(Dones(c)) + 1
                                     ELSE Cardinality(Dones(c))
<1> DEFINE old == wire[c]
           n   == Len(old)
<1>1. /\ n \in Nat /\ Len(Append(old, f)) = n + 1 /\ Append(old, f)[n + 1] = f
      /\ \A k \in 1..n : Append(old, f)[k] = old[k]
  OBVIOUS
<1>2. IsFiniteSet(1..n)
  BY <1>1, FS_Interval
<1>3. Dones(c) \subseteq 1..n
  BY DEF Dones
<1>4. IsFiniteSet(Dones(c)) /\ Cardinality(Dones(c)) \in Nat
  BY <1>2, <1>3, FS_Subset, FS_CardinalityType
<1>5. n + 1 \notin Dones(c)
  BY <1>1, <1>3
<1>6. Dones(c)' = IF f.type = "audio.done" THEN Dones(c) \cup {n + 1} ELSE Dones(c)
  <2> HIDE DEF n
  <2>1. wire'[c] = Append(old, f)
    OBVIOUS
  <2>2. n = Len(old)
    BY DEF n
  <2> HIDE DEF old
  <2>3. Dones(c)' = { k \in 1..(n + 1) : Append(old, f)[k].type = "audio.done" }
    BY <1>1, <2>1 DEF Dones
  <2>4. Dones(c) = { k \in 1..n : old[k].type = "audio.done" }
    BY <2>2 DEF Dones, old
  <2>5. \A k : k \in 1..(n + 1) <=> k \in 1..n \/ k = n + 1
    BY <1>1
  <2> QED
    BY <1>1, <2>3, <2>4, <2>5
<1>7. Cardinality(Dones(c) \cup {n + 1}) = Cardinality(Dones(c)) + 1
  BY <1>4, <1>5, FS_AddElement
<1> QED
  BY <1>4, <1>6, <1>7

-------------------------------------------------------------------------------
(* A burst *)

\* A burst opens with the transcription and closes with the metrics, audio.done is
\* its last frame but one, and each frame announces the next.
LEMMA BurstOrder == \A r \in Result :
  /\ Len(Burst(r)) \in {4, 6}
  /\ Burst(r)[1] = Event("transcription.completed", r.index)
  /\ \A k \in 1..Len(Burst(r)) :
       /\ Burst(r)[k].type = "audio.done" <=> k = Len(Burst(r)) - 1
       /\ Burst(r)[k].type = "segment.metrics" <=> k = Len(Burst(r))
  /\ \A k \in 1..(Len(Burst(r)) - 1) :
       LET a == Burst(r)[k]
           b == Burst(r)[k + 1]
       IN  \/ a.type = "transcription.completed" /\ b = Event("translation.completed", a.n)
           \/ a.type = "translation.completed" /\ b \in {Event("audio.delta", a.n), Event("audio.done", a.n)}
           \/ a.type = "audio.delta" /\ b = Event("binary", a.n)
           \/ a.type = "binary" /\ b = Event("audio.done", a.n)
           \/ a.type = "audio.done" /\ b = Event("segment.metrics", a.n)
<1> SUFFICES ASSUME NEW r \in Result
             PROVE  /\ Len(Burst(r)) \in {4, 6}
                    /\ Burst(r)[1] = Event("transcription.completed", r.index)
                    /\ \A k \in 1..Len(Burst(r)) :
                         /\ Burst(r)[k].type = "audio.done" <=> k = Len(Burst(r)) - 1
                         /\ Burst(r)[k].type = "segment.metrics" <=> k = Len(Burst(r))
                    /\ \A k \in 1..(Len(Burst(r)) - 1) :
                         LET a == Burst(r)[k]
                             b == Burst(r)[k + 1]
                         IN  \/ a.type = "transcription.completed" /\ b = Event("translation.completed", a.n)
                             \/ a.type = "translation.completed"
                                /\ b \in {Event("audio.delta", a.n), Event("audio.done", a.n)}
                             \/ a.type = "audio.delta" /\ b = Event("binary", a.n)
                             \/ a.type = "binary" /\ b = Event("audio.done", a.n)
                             \/ a.type = "audio.done" /\ b = Event("segment.metrics", a.n)
  OBVIOUS
<1> USE DEF Burst, Event
<1>1. CASE r.audio
  BY <1>1
<1>2. CASE ~r.audio
  BY <1>2
<1> QED
  BY <1>1, <1>2

-------------------------------------------------------------------------------
(* What a step does to one wire *)

\* The frame of the burst that is next.
NextFrame(c) == Burst(Head(results[c]))[step[c] + 1]

\* A step that puts frame f on the wire of c, and where it leaves the handler.
Puts(c, f) ==
  /\ link[c] = "up" /\ f \in Frames /\ wire'[c] = Append(wire[c], f)
  /\ \/ /\ UNCHANGED announced[c]
        /\ \/ Goes(c, {"greet"}, {"receive"}) /\ f = Event("session.created", NoIndex)
           \/ Goes(c, {"refuse"}, {"refused"}) /\ f = Event("close", 4401)
           \/ Goes(c, {"invalid"}, {"receive"}) /\ f = Event("invalid_event", NoIndex)
           \/ Goes(c, {"farewell"}, {"cleanup"}) /\ f = Event("session.completed", announced[c])
           \/ Goes(c, {"report"}, {"cleanup"}) /\ f = Event("pipeline_failed", announced[c])
           \/ Goes(c, {"close1009"}, {"cleanup"}) /\ f = Event("close", 1009)
           \/ Goes(c, {"close"}, {"done"}) /\ ~HasClosed(c) /\ f = Event("close", 1000)
     \/ /\ f = NextFrame(c)
        /\ \/ /\ step[c] + 1 # Len(Burst(Head(results[c])))
              /\ Goes(c, {"emit"}, {"emit"})
              /\ step'[c] = step[c] + 1 /\ UNCHANGED <<results[c], announced[c]>>
           \/ /\ step[c] + 1 = Len(Burst(Head(results[c])))
              /\ Goes(c, {"emit"}, {"emit", "complete", "receive"})
              /\ step'[c] = 0 /\ announced'[c] = announced[c] + 1

\* A step that puts nothing there.
Quiet(c) ==
  /\ UNCHANGED wire[c]
  /\ pc'[c] = "offline" => pc[c] = "offline" /\ UNCHANGED announced[c]
  /\ \/ link'[c] = "gone"
     \/ pc'[c] \in Ended /\ UNCHANGED announced[c]
     \/ Goes(c, {"offline"}, {"authorize"}) /\ UNCHANGED announced[c]
     \/ /\ UNCHANGED <<link[c], announced[c], step[c]>>
        /\ \/ pc'[c] = pc[c] /\ UNCHANGED results[c]
           \/ Goes(c, {"authorize"}, {"greet", "refuse"})
           \/ Goes(c, Open, Open)
           \/ Goes(c, {"tts"}, {"emit"})
           \/ Goes(c, {"receive", "complete"}, {"cleanup"})
           \/ Goes(c, {"cleanup"}, {"close"})

\* A frame that was sent while the client was there is on the wire.
LEMMA SendPuts ==
  ASSUME IoType, NEW c \in Conns, NEW f, Sends(c, f)
  PROVE  /\ UNCHANGED link
         /\ \/ link[c] = "up" /\ wire'[c] = Append(wire[c], f)
            \/ link[c] = "gone" /\ UNCHANGED wire
BY DEF Sends, IoType

LEMMA WireMoves == TypeOK /\ Shape /\ [Next]_vars =>
  \A d \in Conns : Quiet(d) \/ \E f \in Frames : Puts(d, f)
<1> SUFFICES ASSUME TypeOK, Shape, [Next]_vars, NEW d \in Conns
             PROVE  Quiet(d) \/ \E f \in Frames : Puts(d, f)
  OBVIOUS
<1>t. /\ pc \in [Conns -> PCs] /\ IoType /\ WorkType
      /\ link \in [Conns -> {"none", "up", "gone"}] /\ wire \in [Conns -> Seq(Frames)]
  BY DEF TypeOK, ControlType, IoType
<1> USE DEF Goto, io, work
<1>1. ASSUME NEW c \in Conns, Connect(c) \/ ClientLeaves(c) PROVE Quiet(d)
  <2>1. UNCHANGED <<wire, announced, step, results>>
    BY <1>1 DEF Connect, ClientLeaves
  <2> QED
    BY <1>1, <2>1, <1>t DEF Connect, ClientLeaves, Quiet, Goes
<1>2. ASSUME NEW c \in Conns, Message(c) PROVE Quiet(d)
  <2>1. UNCHANGED <<wire, announced, step, link, results>>
    BY <1>2 DEF Message, ReceiveChunk, ReceiveGarbage, ReceiveOversize, ReceiveInvalid,
                ReceiveCommit, Takes
  <2>2. \E l \in {"receive", "lookup", "fail", "oversize", "invalid", "complete", "cleanup"} :
          pc[c] = "receive" /\ pc' = [pc EXCEPT ![c] = l]
    BY <1>2 DEF Message, ReceiveChunk, RunSegments, ReceiveGarbage, ReceiveOversize,
                ReceiveInvalid, ReceiveCommit, Takes
  <2> QED
    BY <2>1, <2>2, <1>t DEF Quiet, Goes, Open
<1>3. CASE Rest \/ UNCHANGED vars
  BY <1>3 DEF Rest, vars, handlerVars, Quiet
<1>4. CASE Crash
  BY <1>4, <1>t DEF Crash, Quiet, Ended
<1>5. ASSUME NEW c \in Conns, Handle(c) PROVE Quiet(d) \/ \E f \in Frames : Puts(d, f)
  <2>1. CASE d # c
    <3>1. UNCHANGED <<link[d], wire[d]>>
      BY <1>5, <2>1, <1>t DEF Handle, Authorize, Refuse, Greet, ReceiveDisconnect,
         AnswerInvalid, Lookup, Transcribe, SaveTranscription, Translate, SaveTranslation,
         Synthesize, EmitFrame, CompleteOnCommit, Farewell, FailSession, Report,
         CompleteOversize, Close1009, Cleanup, Close, Engine, Sends, SendRaises
    <3>2. UNCHANGED <<pc[d], announced[d], step[d], results[d]>>
      BY <1>5, <2>1, <1>t DEF WorkType, Handle, Authorize, Refuse, Greet, ReceiveDisconnect,
         AnswerInvalid, Lookup, Transcribe, SaveTranscription, Translate, SaveTranslation,
         Synthesize, EmitFrame, CompleteOnCommit, Farewell, FailSession, Report,
         CompleteOversize, Close1009, Cleanup, Close, Engine, Fails
    <3> QED
      BY <3>1, <3>2 DEF Quiet
  <2>2. CASE d = c
    \* A send, by what the transport does with the frame.
    <3>s. ASSUME NEW f, Sends(c, f)
          PROVE  /\ link[c] = "gone" => UNCHANGED <<link, wire>>
                 /\ link[c] # "gone" => link[c] = "up" /\ wire'[c] = Append(wire[c], f)
      BY <3>s, <1>t, SendPuts
    <3>r. SendRaises(c) => link[c] = "gone" /\ UNCHANGED <<link, wire>>
      BY DEF SendRaises
    <3>g. ASSUME link[c] = "gone", UNCHANGED <<link, wire>>, pc'[c] # "offline" PROVE Quiet(c)
      BY <3>g DEF Quiet
    <3>f. /\ Event("session.created", NoIndex) \in Frames /\ Event("close", 4401) \in Frames
          /\ Event("invalid_event", NoIndex) \in Frames /\ Event("close", 1009) \in Frames
          /\ Event("close", 1000) \in Frames
          /\ Event("session.completed", announced[c]) \in Frames
          /\ Event("pipeline_failed", announced[c]) \in Frames
      BY <1>t DEF Event, Frames, NoIndex, WorkType
    <3>1. CASE Refuse(c)
      BY <2>2, <3>1, <3>s, <3>r, <3>g, <3>f, <1>t DEF Refuse, Puts, Goes
    <3>2. CASE Greet(c)
      BY <2>2, <3>2, <3>s, <3>r, <3>g, <3>f, <1>t DEF Greet, Puts, Goes
    <3>3. CASE AnswerInvalid(c)
      BY <2>2, <3>3, <3>s, <3>r, <3>g, <3>f, <1>t DEF AnswerInvalid, Puts, Goes
    <3>4. CASE Farewell(c)
      BY <2>2, <3>4, <3>s, <3>r, <3>g, <3>f, <1>t DEF Farewell, Puts, Goes
    <3>5. CASE Report(c)
      BY <2>2, <3>5, <3>s, <3>r, <3>g, <3>f, <1>t DEF Report, Puts, Goes
    <3>6. CASE Close1009(c)
      BY <2>2, <3>6, <3>s, <3>r, <3>g, <3>f, <1>t DEF Close1009, Puts, Goes
    <3>7. CASE Close(c)
      <4>1. pc[c] = "close" /\ pc' = [pc EXCEPT ![c] = "done"] /\ UNCHANGED announced
        BY <3>7 DEF Close
      <4>2. (~HasClosed(c) /\ Sends(c, Event("close", 1000))) \/ UNCHANGED wire
        BY <3>7 DEF Close
      <4>3. UNCHANGED wire => Quiet(c)
        BY <4>1, <1>t DEF Quiet, Ended
      <4> QED
        BY <2>2, <4>1, <4>2, <4>3, <3>s, <3>g, <3>f, <1>t DEF Puts, Goes
    <3>8. CASE EmitFrame(c)
      <4> DEFINE burst == Burst(Head(results[c]))
      <4>1. /\ results[c] \in Seq(Result) /\ results[c] # <<>> /\ step[c] \in Nat
            /\ step[c] < Len(burst) /\ pc[c] = "emit"
        BY <3>8, <1>t DEF EmitFrame, Shape, WorkType
      <4>2. Head(results[c]) \in Result
        BY <4>1
      <4>3. NextFrame(c) \in Frames
        BY <4>1, <4>2, BurstFrames DEF NextFrame
      <4>4. \/ SendRaises(c)
            \/ /\ Sends(c, NextFrame(c))
               /\ step' = [step EXCEPT ![c] = IF step[c] + 1 = Len(burst) THEN 0 ELSE @ + 1]
               /\ announced' = [announced EXCEPT ![c] = IF step[c] + 1 = Len(burst) THEN @ + 1 ELSE @]
               /\ results' = [results EXCEPT ![c] = IF step[c] + 1 = Len(burst) THEN Tail(@) ELSE @]
               /\ Goto(c, IF step[c] + 1 # Len(burst) \/ Len(results[c]) > 1 THEN "emit"
                          ELSE IF flushing[c] THEN "complete" ELSE "receive")
        BY <3>8 DEF EmitFrame, NextFrame
      <4>5. CASE Sends(c, NextFrame(c)) /\ link[c] # "gone" /\ step[c] + 1 # Len(burst)
        <5>1. /\ step'[c] = step[c] + 1 /\ UNCHANGED <<results[c], announced[c]>>
              /\ pc'[c] = "emit"
          BY <4>4, <4>5, <1>t DEF WorkType, SendRaises
        <5> QED
          BY <2>2, <4>1, <4>3, <4>5, <5>1, <3>s DEF Puts, Goes
      <4>6. CASE Sends(c, NextFrame(c)) /\ link[c] # "gone" /\ step[c] + 1 = Len(burst)
        <5>1. /\ step'[c] = 0 /\ announced'[c] = announced[c] + 1
              /\ pc'[c] \in {"emit", "complete", "receive"}
          BY <4>4, <4>6, <1>t DEF WorkType, SendRaises
        <5> QED
          BY <2>2, <4>1, <4>3, <4>6, <5>1, <3>s DEF Puts, Goes
      <4>7. CASE link[c] = "gone"
        <5>1. pc'[c] \in {"cleanup", "emit", "complete", "receive"}
          BY <4>1, <3>8, <1>t DEF EmitFrame
        <5>2. UNCHANGED <<link, wire>>
          BY <4>4, <4>7, <3>s, <3>r
        <5> QED
          BY <2>2, <4>7, <5>1, <5>2, <3>g
      <4> QED
        BY <4>4, <4>5, <4>6, <4>7, <3>r
    <3>9. CASE ReceiveDisconnect(c)
      BY <2>2, <3>9, <3>g DEF ReceiveDisconnect
    <3>10. CASE \/ Authorize(c) \/ Lookup(c) \/ Transcribe(c) \/ SaveTranscription(c)
                \/ Translate(c) \/ SaveTranslation(c) \/ Synthesize(c)
      <4>1. UNCHANGED <<wire, announced, step, link>>
        BY <3>10 DEF Authorize, Lookup, Transcribe, SaveTranscription, Translate,
           SaveTranslation, Synthesize, Engine, Fails
      <4>2. \/ /\ pc[c] = "authorize"
               /\ \E l \in {"greet", "refuse", "aborted"} : pc' = [pc EXCEPT ![c] = l]
            \/ /\ pc[c] \in {"lookup", "asr", "transcription", "mt", "translation", "tts"}
               /\ \E l \in {"asr", "transcription", "mt", "translation", "tts", "lookup", "fail"} :
                    pc' = [pc EXCEPT ![c] = l]
            \/ pc[c] = "tts" /\ pc' = [pc EXCEPT ![c] = "emit"]
        BY <3>10 DEF Authorize, Lookup, Transcribe, SaveTranscription, Translate,
           SaveTranslation, Synthesize, Engine, Fails
      <4> QED
        BY <2>2, <4>1, <4>2, <1>t DEF Quiet, Goes, Open, Ended
    <3>11. CASE CompleteOnCommit(c) \/ FailSession(c) \/ CompleteOversize(c) \/ Cleanup(c)
      <4>1. UNCHANGED <<wire, announced, step, link>>
        BY <3>11 DEF CompleteOnCommit, FailSession, CompleteOversize, Cleanup
      <4>2. \/ pc[c] = "complete" /\ \E l \in {"farewell", "cleanup"} : pc' = [pc EXCEPT ![c] = l]
            \/ pc[c] = "fail" /\ pc' = [pc EXCEPT ![c] = "report"]
            \/ pc[c] = "oversize" /\ pc' = [pc EXCEPT ![c] = "close1009"]
            \/ pc[c] = "cleanup" /\ pc' = [pc EXCEPT ![c] = "close"]
        BY <3>11 DEF CompleteOnCommit, FailSession, CompleteOversize, Cleanup
      <4> QED
        BY <2>2, <4>1, <4>2, <1>t DEF Quiet, Goes, Open
    <3> QED
      BY <1>5, <3>1, <3>2, <3>3, <3>4, <3>5, <3>6, <3>7, <3>8, <3>9, <3>10, <3>11 DEF Handle
  <2> QED
    BY <2>1, <2>2
<1> QED
  BY <1>1, <1>2, <1>3, <1>4, <1>5 DEF Next

-------------------------------------------------------------------------------
(* What is on the wire, by where the handler is *)

\* Within a burst: how far it is sent, and whether its audio.done is counted.
Bursting(c) ==
  /\ IF step[c] = 0 THEN Ends(c, Paused)
     ELSE wire[c] # <<>> /\ wire[c][Len(wire[c])] = Burst(Head(results[c]))[step[c]]
  /\ Cardinality(Dones(c)) = IF step[c] + 1 = Len(Burst(Head(results[c])))
                             THEN announced[c] + 1 ELSE announced[c]

\* While the client is there it has heard what the handler has said.
Spoken(c) ==
  /\ pc[c] = "offline" => wire[c] = <<>> /\ announced[c] = 0
  /\ link[c] = "up" =>
       /\ pc[c] \in {"authorize", "greet", "refuse"} => wire[c] = <<>> /\ announced[c] = 0
       /\ pc[c] \in Open => Ends(c, Paused) /\ Cardinality(Dones(c)) = announced[c]
       /\ pc[c] = "emit" => Bursting(c)
       /\ pc[c] \in {"cleanup", "close"} =>
            Ends(c, Paused \cup {"session.completed", "pipeline_failed", "close"})

LEMMA SpokenInit == Init => \A c \in Conns : Spoken(c) /\ Wire(c)!WireInit
BY DEF Init, Spoken, Open, Wire!WireInit

LEMMA QuietKeeps ==
  ASSUME TypeOK, Shape, NEW c \in Conns, Spoken(c), Quiet(c), TypeOK', Shape'
  PROVE  Spoken(c)'
<1>1. UNCHANGED wire[c] /\ (pc'[c] = "offline" => pc[c] = "offline" /\ UNCHANGED announced[c])
  BY DEF Quiet
<1>2. Dones(c)' = Dones(c) /\ \A types : Ends(c, types)' = Ends(c, types)
  BY <1>1 DEF Dones, Ends
<1>3. CASE \/ link'[c] = "gone" \/ pc'[c] \in Ended
           \/ Goes(c, {"offline"}, {"authorize"}) /\ UNCHANGED announced[c]
  BY <1>1, <1>3 DEF Spoken, Ended, Goes, Open
<1>4. CASE /\ UNCHANGED <<link[c], announced[c], step[c]>>
           /\ pc'[c] = pc[c] /\ UNCHANGED results[c]
  BY <1>1, <1>2, <1>4 DEF Spoken, Bursting
<1>5. CASE /\ UNCHANGED <<link[c], announced[c], step[c]>>
           /\ \/ Goes(c, {"authorize"}, {"greet", "refuse"}) \/ Goes(c, Open, Open)
              \/ Goes(c, {"receive", "complete"}, {"cleanup"})
              \/ Goes(c, {"cleanup"}, {"close"})
  <2>1. Ends(c, Paused) => Ends(c, Paused \cup {"session.completed", "pipeline_failed", "close"})
    BY DEF Ends
  <2> QED
    BY <1>1, <1>2, <1>5, <2>1 DEF Spoken, Goes, Open
<1>6. CASE UNCHANGED <<link[c], announced[c], step[c]>> /\ Goes(c, {"tts"}, {"emit"})
  <2>1. step[c] = 0
    BY <1>6 DEF Shape, Goes
  <2>2. results'[c] \in Seq(Result) /\ results'[c] # <<>>
    BY <1>6 DEF Shape, Goes, TypeOK, WorkType
  <2>3. Head(results'[c]) \in Result
    BY <2>2
  <2>4. Len(Burst(Head(results'[c]))) \in {4, 6}
    BY <2>3, BurstOrder
  <2> HIDE DEF Spoken
  <2>5. link[c] = "up" => Ends(c, Paused) /\ Cardinality(Dones(c)) = announced[c]
    BY <1>6 DEF Spoken, Goes, Open
  <2>6. step'[c] + 1 # Len(Burst(Head(results[c])))'
    BY <1>6, <2>1, <2>4
  <2>7. link[c] = "up" => Bursting(c)'
    BY <1>2, <1>6, <2>1, <2>5, <2>6 DEF Bursting
  <2> QED
    BY <1>1, <1>6, <2>7 DEF Spoken, Goes, Open
<1> QED
  BY <1>3, <1>4, <1>5, <1>6 DEF Quiet

\* What is said is what may be said next, and leaves the wire as the handler goes on.
LEMMA PutsKeeps ==
  ASSUME TypeOK, Shape, Numbered, NEW c \in Conns, Spoken(c), NEW f \in Frames, Puts(c, f),
         TypeOK', Shape'
  PROVE  Spoken(c)' /\ Wire(c)!WireNext
<1>1. /\ link[c] = "up" /\ wire'[c] = Append(wire[c], f) /\ wire[c] \in Seq(Frames)
      /\ announced[c] \in Nat /\ step[c] \in Nat
  BY DEF Puts, TypeOK, IoType, WorkType
<1> DEFINE count == Cardinality(Dones(c))
<1>2. /\ count \in Nat
      /\ count' = IF f.type = "audio.done" THEN count + 1 ELSE count
  BY <1>1, TallyGrows
<1>3. wire'[c] # <<>> /\ wire'[c][Len(wire'[c])] = f
  BY <1>1
<1>4. \A types : f.type \in types => Ends(c, types)'
  BY <1>3 DEF Ends
<1>5. Wire(c)!Tally = count
  BY TallyIsDones
<1>n. ASSUME f \in Wire(c)!Greeting \cup Wire(c)!Segment \cup Wire(c)!Outcome \cup Wire(c)!Closing
      PROVE  Wire(c)!WireNext
  BY <1>1, <1>n DEF Wire!WireNext
<1>p. Ends(c, Paused) <=> Wire(c)!Between
  BY DEF Ends, Paused, Wire!Between, Wire!Heard, Wire!Latest
<1> HIDE DEF count
\* What is on the wire before the frame.
<1>s. /\ pc[c] \in {"greet", "refuse"} => wire[c] = <<>> /\ announced[c] = 0
      /\ pc[c] \in Open => Ends(c, Paused) /\ count = announced[c]
      /\ pc[c] = "emit" => Bursting(c)
      /\ pc[c] = "close" => Ends(c, Paused \cup {"session.completed", "pipeline_failed", "close"})
  BY <1>1 DEF Spoken, count
<1>6. CASE Goes(c, {"greet"}, {"receive"}) /\ f = Event("session.created", NoIndex)
           /\ UNCHANGED announced[c]
  <2>1. Dones(c) = {}
    BY <1>6, <1>s DEF Dones, Goes
  <2>2. count = 0
    BY <2>1, FS_EmptySet DEF count
  <2>3. f.type = "session.created"
    BY <1>6 DEF Event
  <2>4. Ends(c, Paused)' /\ count' = announced'[c]
    BY <1>1, <1>2, <1>4, <1>6, <1>s, <2>2, <2>3 DEF Paused, Goes
  <2>5. Wire(c)!WireNext
    BY <1>6, <1>n, <1>s DEF Goes, Wire!Greeting, Wire!Frame, Event
  <2> QED
    BY <1>6, <2>4, <2>5 DEF Spoken, Goes, Open, count
<1>7. CASE Goes(c, {"refuse"}, {"refused"}) /\ f = Event("close", 4401)
  <2>1. Wire(c)!WireNext
    BY <1>7, <1>n, <1>s DEF Goes, Wire!Greeting, Wire!Frame, Event
  <2> QED
    BY <1>7, <2>1 DEF Spoken, Goes, Open
<1>8. CASE Goes(c, {"invalid"}, {"receive"}) /\ f = Event("invalid_event", NoIndex)
           /\ UNCHANGED announced[c]
  <2>1. Ends(c, Paused) /\ count = announced[c]
    BY <1>8, <1>s DEF Goes, Open
  <2>2. f.type = "invalid_event"
    BY <1>8 DEF Event
  <2>3. Ends(c, Paused)' /\ count' = announced'[c]
    BY <1>2, <1>4, <1>8, <2>1, <2>2 DEF Paused
  <2>4. Wire(c)!WireNext
    BY <1>8, <1>n, <1>p, <2>1 DEF Wire!Outcome, Wire!Frame, Event
  <2> QED
    BY <1>8, <2>3, <2>4 DEF Spoken, Goes, Open, count
<1>9. CASE \/ Goes(c, {"farewell"}, {"cleanup"}) /\ f = Event("session.completed", announced[c])
           \/ Goes(c, {"report"}, {"cleanup"}) /\ f = Event("pipeline_failed", announced[c])
           \/ Goes(c, {"close1009"}, {"cleanup"}) /\ f = Event("close", 1009)
  <2>1. Ends(c, Paused) /\ count = announced[c]
    BY <1>9, <1>s DEF Goes, Open
  <2>2. f.type \in {"session.completed", "pipeline_failed", "close"}
    BY <1>9 DEF Event
  <2>3. Ends(c, Paused \cup {"session.completed", "pipeline_failed", "close"})'
    BY <1>4, <2>2
  <2>4. Wire(c)!WireNext
    BY <1>5, <1>9, <1>n, <1>p, <2>1 DEF Wire!Outcome, Wire!Frame, Event
  <2> QED
    BY <1>9, <2>3, <2>4 DEF Spoken, Goes, Open
<1>10. CASE Goes(c, {"close"}, {"done"}) /\ ~HasClosed(c) /\ f = Event("close", 1000)
  <2>1. Ends(c, Paused \cup {"session.completed", "pipeline_failed"})
    BY <1>10, <1>s DEF Goes, Ends, HasClosed
  <2>2. Ends(c, Paused) \/ Ends(c, {"session.completed", "pipeline_failed"})
    BY <2>1 DEF Ends
  <2>3. Wire(c)!WireNext
    BY <1>10, <1>n, <1>p, <2>2 DEF Wire!Closing, Wire!Frame, Wire!Heard, Wire!Latest, Event, Ends
  <2> QED
    BY <1>10, <2>3 DEF Spoken, Goes, Open
<1>11. CASE f = NextFrame(c) /\ pc[c] = "emit"
  <2> DEFINE r == Head(results[c])
             k == step[c]
  <2>1. /\ results[c] \in Seq(Result) /\ results[c] # <<>> /\ Len(results[c]) > 0
        /\ k < Len(Burst(r))
    BY <1>11 DEF Shape, TypeOK, WorkType
  <2>2. r \in Result /\ r = results[c][1] /\ 1 \in 1..Len(results[c])
    BY <2>1
  <2>3. r.index = announced[c]
    <3>1. results[c][1].index = announced[c] + 1 - 1
      BY <2>2 DEF Numbered
    <3> QED
      BY <1>1, <2>2, <3>1
  <2>4. /\ Len(Burst(r)) \in {4, 6}
        /\ Burst(r)[1] = Event("transcription.completed", r.index)
        /\ \A j \in 1..Len(Burst(r)) :
             /\ Burst(r)[j].type = "audio.done" <=> j = Len(Burst(r)) - 1
             /\ Burst(r)[j].type = "segment.metrics" <=> j = Len(Burst(r))
    BY <2>2, BurstOrder
  <2> HIDE DEF r
  <2>5. Bursting(c) /\ f = Burst(r)[k + 1]
    BY <1>11, <1>s DEF NextFrame, r
  <2>6. /\ k = 0 => Ends(c, Paused)
        /\ k # 0 => wire[c] # <<>> /\ wire[c][Len(wire[c])] = Burst(r)[k]
        /\ count = IF k + 1 = Len(Burst(r)) THEN announced[c] + 1 ELSE announced[c]
    BY <2>5 DEF Bursting, count, r
  <2>i. k \in Nat /\ k + 1 \in 1..Len(Burst(r)) /\ Len(Burst(r)) \in {4, 6}
    BY <1>1, <2>1, <2>4 DEF r
  <2>7. count' = IF k + 2 >= Len(Burst(r)) THEN announced[c] + 1 ELSE announced[c]
    <3>1. f.type = "audio.done" <=> k + 1 = Len(Burst(r)) - 1
      BY <2>i, <2>4, <2>5
    <3>2. announced[c] \in Nat /\ count \in Nat
      BY <1>1, <1>2
    <3> QED
      BY <1>2, <2>i, <2>6, <3>1, <3>2
  <2>8. Wire(c)!WireNext
    <3>1. CASE k = 0
      <4>0. f = Burst(r)[1] /\ k + 1 # Len(Burst(r))
        BY <2>4, <2>5, <3>1
      <4>1. Wire(c)!Between /\ Wire(c)!Tally = announced[c] /\ f = Event("transcription.completed", announced[c])
        BY <1>5, <1>p, <2>3, <2>4, <2>6, <3>1, <4>0
      <4>2. f \in Wire(c)!Segment
        BY <4>1 DEF Wire!Segment, Wire!Frame, Wire!Between, Wire!Heard, Event
      <4> QED
        BY <4>2, <1>n
    <3>2. CASE k # 0
      <4> DEFINE a == Burst(r)[k]
      <4>1. k \in 1..(Len(Burst(r)) - 1) /\ k \in 1..Len(Burst(r))
        BY <1>1, <2>1, <2>4, <3>2 DEF r
      <4>2. \/ a.type = "transcription.completed" /\ f = Event("translation.completed", a.n)
            \/ a.type = "translation.completed" /\ f \in {Event("audio.delta", a.n), Event("audio.done", a.n)}
            \/ a.type = "audio.delta" /\ f = Event("binary", a.n)
            \/ a.type = "binary" /\ f = Event("audio.done", a.n)
            \/ a.type = "audio.done" /\ f = Event("segment.metrics", a.n)
        BY <2>2, <2>5, <4>1, BurstOrder
      <4>3. wire[c] # <<>> /\ wire[c][Len(wire[c])] = a
        BY <2>6, <3>2
      <4> HIDE DEF a
      <4>4. f \in Wire(c)!Segment
        BY <4>2, <4>3 DEF Wire!Segment, Wire!Frame, Wire!Heard, Wire!Latest, Wire!Between, Event
      <4> QED
        BY <4>4, <1>n
    <3> QED
      BY <3>1, <3>2
  <2>9. CASE /\ k + 1 # Len(Burst(r)) /\ Goes(c, {"emit"}, {"emit"})
             /\ step'[c] = k + 1 /\ UNCHANGED <<results[c], announced[c]>>
    <3>1. k + 1 # 0 /\ (k + 1) + 1 \in Nat
      BY <1>1
    <3>2. k + 2 >= Len(Burst(r)) <=> k + 2 = Len(Burst(r))
      BY <1>1, <2>1, <2>4, <2>9 DEF r
    <3>3. Bursting(c)'
      BY <1>1, <1>3, <2>5, <2>7, <2>9, <3>1, <3>2 DEF Bursting, count, r
    <3> QED
      BY <2>8, <2>9, <3>3 DEF Spoken, Goes, Open
  <2>10. CASE /\ k + 1 = Len(Burst(r)) /\ Goes(c, {"emit"}, {"emit", "complete", "receive"})
              /\ step'[c] = 0 /\ announced'[c] = announced[c] + 1
    <3>1. f.type = "segment.metrics"
      <4>1. Burst(r)[k + 1].type = "segment.metrics" <=> k + 1 = Len(Burst(r))
        BY <2>i, <2>4
      <4> QED
        BY <4>1, <2>5, <2>10
    <3>2. Ends(c, Paused)' /\ count' = announced'[c]
      BY <1>1, <1>4, <2>4, <2>7, <2>10, <3>1 DEF Paused
    <3>3. ASSUME pc'[c] = "emit" PROVE Bursting(c)'
      <4>1. results'[c] \in Seq(Result) /\ results'[c] # <<>>
        BY <3>3 DEF Shape, TypeOK, WorkType
      <4>2. Len(Burst(Head(results'[c]))) \in {4, 6}
        BY <4>1, BurstOrder
      <4>3. step'[c] = 0
        BY <2>10
      <4>4. step'[c] + 1 # Len(Burst(Head(results'[c])))
        <5>1. \A x \in {4, 6} : 0 + 1 # x
          OBVIOUS
        <5> QED
          BY <4>2, <4>3, <5>1
      <4>5. Ends(c, Paused)' /\ Cardinality(Dones(c))' = announced'[c]
        BY <3>2 DEF count
      <4> HIDE DEF k
      <4>6. Cardinality(Dones(c))' = IF step'[c] + 1 = Len(Burst(Head(results'[c])))
                                     THEN announced'[c] + 1 ELSE announced'[c]
        BY <4>5, <4>4
      <4> QED
        BY <4>3, <4>5, <4>6 DEF Bursting
    <3>4. pc'[c] \in {"emit", "complete", "receive"}
      BY <2>10 DEF Goes
    <3>5. Spoken(c)'
      BY <3>2, <3>3, <3>4 DEF Spoken, Open, count
    <3> QED
      BY <2>8, <3>5
  <2> QED
    BY <1>11, <2>9, <2>10 DEF Puts, Goes, r
<1> QED
  BY <1>6, <1>7, <1>8, <1>9, <1>10, <1>11 DEF Puts, Goes

\* What every client receives follows the session protocol, frame by frame.
THEOREM ImplementsWire == Spec => SpeaksProtocol
<1> DEFINE Said == \A c \in Conns : Spoken(c)
<1>1. Init => Said /\ \A c \in Conns : Wire(c)!WireInit
  BY SpokenInit
<1>2. TypeOK /\ Shape /\ Numbered /\ Said /\ TypeOK' /\ Shape' /\ [Next]_vars =>
        Said' /\ [\A c \in Conns : Wire(c)!WireNext \/ UNCHANGED wire[c]]_vars
  <2> SUFFICES ASSUME TypeOK, Shape, Numbered, Said, TypeOK', Shape', [Next]_vars, NEW c \in Conns
               PROVE  Spoken(c)' /\ (Wire(c)!WireNext \/ UNCHANGED wire[c])
    OBVIOUS
  <2>1. Quiet(c) \/ \E f \in Frames : Puts(c, f)
    BY WireMoves
  <2>2. CASE Quiet(c)
    BY <2>2, QuietKeeps DEF Quiet
  <2>3. ASSUME NEW f \in Frames, Puts(c, f) PROVE Spoken(c)' /\ Wire(c)!WireNext
    BY <2>3, PutsKeeps
  <2> QED
    BY <2>1, <2>2, <2>3
<1>3. Spec => [](TypeOK /\ Shape /\ Counts /\ Numbered)
  BY Reached, CountsInit, CountsStep, PTL DEF Spec
<1> HIDE DEF Said
<1> QED
  BY <1>1, <1>2, <1>3, PTL DEF Spec, SpeaksProtocol

-------------------------------------------------------------------------------
(* What a client that stays is told *)

\* The labels between a commit and the end of its handler.
Committed == {"lookup", "asr", "transcription", "mt", "translation", "tts", "emit", "complete",
              "farewell", "fail", "report", "cleanup", "close", "done", "crashed"}

\* How a commit begins, and that nothing but the end follows it.
LEMMA Turns == TypeOK /\ [Next]_vars => \A d \in Conns :
  /\ \/ /\ UNCHANGED flushing[d]
        /\ flushing[d] /\ pc[d] \in Committed => pc'[d] \in Committed
     \/ Goes(d, {"receive"}, {"lookup", "complete"})
  /\ pc'[d] = "oversize" => pc[d] \in {"receive", "oversize"}
<1> DEFINE Turn(d) ==
      /\ \/ /\ UNCHANGED flushing[d]
            /\ flushing[d] /\ pc[d] \in Committed => pc'[d] \in Committed
         \/ Goes(d, {"receive"}, {"lookup", "complete"})
      /\ pc'[d] = "oversize" => pc[d] \in {"receive", "oversize"}
<1> SUFFICES ASSUME TypeOK, [Next]_vars, NEW d \in Conns PROVE Turn(d)
  OBVIOUS
<1>t. pc \in [Conns -> PCs] /\ flushing \in [Conns -> BOOLEAN]
  BY DEF TypeOK, ControlType, WorkType
<1> USE DEF Goto, Committed, work
<1>1. ASSUME NEW c \in Conns, Connect(c) \/ Message(c) \/ ClientLeaves(c) PROVE Turn(d)
  <2>1. CASE ReceiveCommit(c)
    <3>1. /\ pc[c] = "receive" /\ flushing' = [flushing EXCEPT ![c] = TRUE]
          /\ \E l \in {"lookup", "complete"} : pc' = [pc EXCEPT ![c] = l]
      BY <2>1 DEF ReceiveCommit
    <3>2. CASE d = c
      BY <3>1, <3>2, <1>t DEF Goes
    <3>3. CASE d # c
      BY <3>1, <3>3, <1>t
    <3> QED
      BY <3>2, <3>3
  <2>2. CASE ~ReceiveCommit(c)
    <3>1. UNCHANGED flushing
      BY <1>1, <2>2 DEF Connect, Message, ClientLeaves, ReceiveChunk, ReceiveGarbage,
         ReceiveOversize, ReceiveInvalid
    <3>2. \/ UNCHANGED pc
          \/ pc[c] = "offline" /\ pc' = [pc EXCEPT ![c] = "authorize"]
          \/ pc[c] = "receive" /\ \E l \in {"receive", "lookup", "fail", "oversize", "invalid", "cleanup"} :
                                    pc' = [pc EXCEPT ![c] = l]
      BY <1>1, <2>2 DEF Connect, Message, ClientLeaves, ReceiveChunk, RunSegments,
         ReceiveGarbage, ReceiveOversize, ReceiveInvalid, Takes
    <3> QED
      BY <3>1, <3>2, <1>t
  <2> QED
    BY <2>1, <2>2
<1>2. ASSUME NEW c \in Conns, Handle(c) PROVE Turn(d)
  <2>1. UNCHANGED flushing
    BY <1>2 DEF Handle, Authorize, Refuse, Greet, ReceiveDisconnect, AnswerInvalid, Lookup,
       Transcribe, Translate, Engine, SaveTranscription, SaveTranslation, Synthesize, EmitFrame,
       CompleteOnCommit, Farewell, FailSession, Report, CompleteOversize, Close1009, Cleanup,
       Close, Fails
  <2>2. \/ /\ pc[c] \in {"authorize", "refuse", "greet", "invalid", "oversize", "close1009",
                         "receive"}
           /\ \E l \in PCs \ {"oversize"} : pc' = [pc EXCEPT ![c] = l]
        \/ \E l \in Committed : pc' = [pc EXCEPT ![c] = l]
        \/ pc[c] = "emit" /\ ~flushing[c] /\ pc' = [pc EXCEPT ![c] = "receive"]
    <3>1. CASE EmitFrame(c)
      BY <3>1, <1>t DEF EmitFrame
    <3>2. CASE ~EmitFrame(c)
      BY <1>2, <3>2 DEF Handle, Authorize, Refuse, Greet, ReceiveDisconnect, AnswerInvalid,
         Lookup, Transcribe, Translate, Engine, SaveTranscription, SaveTranslation, Synthesize,
         CompleteOnCommit, Farewell, FailSession, Report, CompleteOversize, Close1009, Cleanup,
         Close, Fails, PCs
    <3> QED
      BY <3>1, <3>2
  <2> QED
    BY <2>1, <2>2, <1>t
<1>3. CASE Rest \/ Crash \/ UNCHANGED vars
  BY <1>3, <1>t DEF Rest, Crash, vars, handlerVars
<1> QED
  BY <1>1, <1>2, <1>3 DEF Next

\* The database failed, or the session was deleted.
Unanswerable(c) == outages > 0 \/ status[sess[c]] = "deleted"

\* That does not pass, and without it a completing write that was begun is decided.
LEMMA UnanswerableStays == TypeOK /\ [Next]_vars => \A c \in Conns :
  /\ Unanswerable(c) => Unanswerable(c)'
  /\ Goes(c, {"complete"}, {"cleanup"}) => Unanswerable(c)'
<1> SUFFICES ASSUME TypeOK, [Next]_vars, NEW d \in Conns
             PROVE  /\ Unanswerable(d) => Unanswerable(d)'
                    /\ Goes(d, {"complete"}, {"cleanup"}) => Unanswerable(d)'
  OBVIOUS
<1>t. /\ pc \in [Conns -> PCs] /\ outages \in Nat /\ sess[d] \in Sessions
      /\ status \in [Sessions -> Statuses]
  BY DEF TypeOK, ControlType, StoreType
<1>s. sess'[d] = sess[d] /\ status' \in [Sessions -> Statuses]
  BY SettledStays, StoreTypeStep DEF StoreType
<1>1. outages' \in Nat /\ outages' >= outages
  <2>1. ASSUME NEW c \in Conns, Connect(c) \/ Message(c) \/ ClientLeaves(c) PROVE UNCHANGED outages
    BY <2>1 DEF Connect, Message, ClientLeaves, ReceiveChunk, ReceiveGarbage, ReceiveOversize,
                ReceiveInvalid, ReceiveCommit, Takes, storeVars
  <2>2. ASSUME NEW c \in Conns, Handle(c) PROVE outages' \in {outages, outages + 1}
    <3>1. CASE \/ Authorize(c) \/ Lookup(c) \/ SaveTranscription(c) \/ SaveTranslation(c)
               \/ CompleteOnCommit(c) \/ FailSession(c) \/ CompleteOversize(c) \/ Cleanup(c)
      BY <3>1 DEF Authorize, Lookup, SaveTranscription, SaveTranslation, CompleteOnCommit,
         FailSession, CompleteOversize, Cleanup, Suppressed, UpdateStatus,
         UpdateStatusRaisesLate, UpdateStatusRaises, UpdateStatusMisses, InsertTranscription,
         TranscriptionRaises, InsertTranslation, TranslationRaises, Outage, OutageAfterCommit,
         storeVars
    <3>2. CASE \/ Refuse(c) \/ Greet(c) \/ ReceiveDisconnect(c) \/ AnswerInvalid(c)
               \/ Transcribe(c) \/ Translate(c) \/ Synthesize(c) \/ EmitFrame(c)
               \/ Farewell(c) \/ Report(c) \/ Close1009(c) \/ Close(c)
      BY <3>2 DEF Refuse, Greet, ReceiveDisconnect, AnswerInvalid, Transcribe, Translate,
         Engine, Synthesize, EmitFrame, Farewell, Report, Close1009, Close, storeVars
    <3> QED
      BY <2>2, <3>1, <3>2 DEF Handle
  <2>3. CASE Rest \/ Crash \/ UNCHANGED vars
    BY <2>3, <1>t DEF Rest, CreateSession, RestComplete, RestDelete, Crash, vars, storeVars
  <2> QED
    BY <2>1, <2>2, <2>3, <1>t DEF Next
<1>2. status[sess[d]] = "deleted" => status'[sess[d]] = "deleted"
  <2>1. Lives(sess[d])
    BY Flows, <1>t
  <2> QED
    BY <2>1, <1>t, <1>s DEF Lives, Exists, Stored, Statuses
<1>3. ASSUME Goes(d, {"complete"}, {"cleanup"}) PROVE Unanswerable(d)'
  <2>1. pc[d] = "complete" /\ pc'[d] = "cleanup"
    BY <1>3 DEF Goes
  <2> USE DEF Goto
  <2>2. ASSUME NEW c \in Conns, Connect(c) \/ Message(c) \/ ClientLeaves(c) PROVE FALSE
    BY <2>1, <2>2, <1>t DEF Connect, Message, ClientLeaves, ReceiveChunk, RunSegments,
       ReceiveGarbage, ReceiveOversize, ReceiveInvalid, ReceiveCommit, Takes
  <2>3. ASSUME NEW c \in Conns, Handle(c) PROVE d = c /\ CompleteOnCommit(c)
    <3>1. d = c
      BY <2>1, <2>3, <1>t DEF Handle, Authorize, Refuse, Greet, ReceiveDisconnect,
         AnswerInvalid, Lookup, Transcribe, Translate, Engine, SaveTranscription,
         SaveTranslation, Synthesize, EmitFrame, CompleteOnCommit, Farewell, FailSession,
         Report, CompleteOversize, Close1009, Cleanup, Close, Fails
    <3> QED
      BY <2>1, <2>3, <3>1 DEF Handle, Authorize, Refuse, Greet, ReceiveDisconnect,
         AnswerInvalid, Lookup, Transcribe, Translate, Engine, SaveTranscription,
         SaveTranslation, Synthesize, EmitFrame, Farewell, FailSession, Report,
         CompleteOversize, Close1009, Cleanup, Close
  <2>4. CASE CompleteOnCommit(d)
    <3>1. \/ pc' = [pc EXCEPT ![d] = "farewell"]
          \/ outages' = outages + 1
          \/ status' = status /\ status[sess[d]] = "deleted"
      BY <2>4 DEF CompleteOnCommit, UpdateStatusRaisesLate, UpdateStatusRaises,
         UpdateStatusMisses, Outage, OutageAfterCommit
    <3> QED
      BY <2>1, <3>1, <1>t, <1>s DEF Unanswerable
  <2>5. CASE Rest \/ Crash \/ UNCHANGED vars
    BY <2>1, <2>5 DEF Rest, Crash, vars, handlerVars
  <2> QED
    BY <2>2, <2>3, <2>4, <2>5 DEF Next
<1> QED
  BY <1>1, <1>2, <1>3, <1>s, <1>t DEF Unanswerable

\* Once the completing write or the report is behind a handler whose client stayed,
\* the client has its answer, or nothing was decided and the database is why.
Answering == \A c \in Conns : flushing[c] =>
  /\ pc[c] \in Committed
  /\ link[c] = "up" /\ pc[c] \in {"cleanup", "close", "done"} =>
       IF decided[c] THEN Answered(c) ELSE Unanswerable(c)

LEMMA AnsweringInit == Init => Answering
BY DEF Init, Answering

\* A frame that is put on a wire is there after it, behind what was there before.
LEMMA WireGrows ==
  ASSUME NEW c \in Conns, wire[c] \in Seq(Frames), NEW f \in Frames, wire'[c] = Append(wire[c], f)
  PROVE  /\ \A k \in 1..Len(wire[c]) : k \in 1..Len(wire'[c]) /\ wire'[c][k] = wire[c][k]
         /\ \E k \in 1..Len(wire'[c]) : wire'[c][k] = f
<1> DEFINE old == wire[c]
           n   == Len(old)
<1>1. /\ n \in Nat /\ Len(Append(old, f)) = n + 1 /\ Append(old, f)[n + 1] = f
      /\ \A k \in 1..n : Append(old, f)[k] = old[k]
  OBVIOUS
<1>2. wire'[c] = Append(old, f)
  OBVIOUS
<1>3. n + 1 \in 1..Len(wire'[c]) /\ wire'[c][n + 1] = f
  BY <1>1, <1>2
<1>4. \A k \in 1..n : k \in 1..Len(wire'[c]) /\ wire'[c][k] = old[k]
  <2> HIDE DEF old, n
  <2> QED
    BY <1>1, <1>2
<1> QED
  BY <1>3, <1>4

\* Nothing that a client was told is taken back.
LEMMA WireStays ==
  ASSUME TypeOK, NEW c \in Conns, Quiet(c) \/ \E f \in Frames : Puts(c, f)
  PROVE  \A k \in 1..Len(wire[c]) : k \in 1..Len(wire'[c]) /\ wire'[c][k] = wire[c][k]
<1>1. CASE Quiet(c)
  BY <1>1 DEF Quiet
<1>2. ASSUME NEW f \in Frames, Puts(c, f)
      PROVE  \A k \in 1..Len(wire[c]) : k \in 1..Len(wire'[c]) /\ wire'[c][k] = wire[c][k]
  <2>1. wire[c] \in Seq(Frames) /\ wire'[c] = Append(wire[c], f)
    BY <1>2 DEF Puts, TypeOK, IoType
  <2> QED
    BY <2>1, WireGrows
<1> QED
  BY <1>1, <1>2

\* A transport that is up after a step was up before it, or has just been opened.
LEMMA LinkOpens == TypeOK /\ [Next]_vars => \A c \in Conns :
  link'[c] = "up" => link[c] = "up" \/ Goes(c, {"offline"}, {"authorize"})
<1> SUFFICES ASSUME TypeOK, [Next]_vars, NEW d \in Conns, link'[d] = "up"
             PROVE  link[d] = "up" \/ Goes(d, {"offline"}, {"authorize"})
  OBVIOUS
<1>t. link \in [Conns -> {"none", "up", "gone"}] /\ pc \in [Conns -> PCs]
  BY DEF TypeOK, IoType, ControlType
<1>1. ASSUME NEW c \in Conns, Handle(c) PROVE UNCHANGED link
  BY <1>1 DEF Handle, Authorize, Refuse, Greet, ReceiveDisconnect, AnswerInvalid, Lookup,
    Transcribe, Translate, Engine, SaveTranscription, SaveTranslation, Synthesize, EmitFrame,
    CompleteOnCommit, FailSession, CompleteOversize, Cleanup, Farewell, Report, Close1009,
    Close, Sends, SendRaises, io
<1>2. ASSUME NEW c \in Conns, Message(c) PROVE UNCHANGED link
  BY <1>2 DEF Message, ReceiveChunk, ReceiveGarbage, ReceiveOversize, ReceiveInvalid,
              ReceiveCommit, Takes, io
<1>3. ASSUME NEW c \in Conns, Connect(c) \/ ClientLeaves(c)
      PROVE  link[d] = "up" \/ Goes(d, {"offline"}, {"authorize"})
  BY <1>3, <1>t DEF Connect, ClientLeaves, Goto, Goes
<1>4. CASE Rest \/ Crash \/ UNCHANGED vars
  BY <1>4, <1>t DEF Rest, Crash, vars, handlerVars
<1> QED
  BY <1>1, <1>2, <1>3, <1>4 DEF Next

\* A committed handler goes to its cleanup by the answer, or by a failure of the write.
LEMMA AnsweringStep == TypeOK /\ Shape /\ Verdicts /\ Answering /\ [Next]_vars => Answering'
<1> SUFFICES ASSUME TypeOK, Shape, Verdicts, Answering, [Next]_vars, NEW c \in Conns, flushing'[c]
             PROVE  /\ pc'[c] \in Committed
                    /\ link'[c] = "up" /\ pc'[c] \in {"cleanup", "close", "done"} =>
                         IF decided'[c] THEN Answered(c)' ELSE Unanswerable(c)'
  BY DEF Answering
<1>1. /\ \/ /\ UNCHANGED flushing[c]
            /\ flushing[c] /\ pc[c] \in Committed => pc'[c] \in Committed
         \/ Goes(c, {"receive"}, {"lookup", "complete"})
  BY Turns
<1>2. CASE Goes(c, {"receive"}, {"lookup", "complete"})
  BY <1>2 DEF Goes, Committed
<1>3. CASE UNCHANGED flushing[c] /\ (flushing[c] /\ pc[c] \in Committed => pc'[c] \in Committed)
  <2>1. /\ flushing[c] /\ pc[c] \in Committed /\ pc'[c] \in Committed
        /\ link[c] = "up" /\ pc[c] \in {"cleanup", "close", "done"} =>
             IF decided[c] THEN Answered(c) ELSE Unanswerable(c)
    BY <1>3 DEF Answering
  <2> SUFFICES ASSUME link'[c] = "up", pc'[c] \in {"cleanup", "close", "done"}
               PROVE  IF decided'[c] THEN Answered(c)' ELSE Unanswerable(c)'
    BY <2>1
  <2>2. Edge(c)
    BY Edges
  <2>3. Quiet(c) \/ \E f \in Frames : Puts(c, f)
    BY WireMoves
  <2>4. Answered(c) => Answered(c)'
    BY <2>3, WireStays DEF Answered, Told
  <2>5. /\ Unanswerable(c) => Unanswerable(c)'
        /\ Goes(c, {"complete"}, {"cleanup"}) => Unanswerable(c)'
    BY UnanswerableStays
  \* A handler that is past the answer only closes.
  <2>6. ASSUME link[c] = "up", pc[c] \in {"cleanup", "close", "done"}
        PROVE  IF decided'[c] THEN Answered(c)' ELSE Unanswerable(c)'
    <3>1. decided'[c] = decided[c]
      BY <2>2, <2>6, <2>1 DEF Edge, Goes, Same, Streaming, Ended
    <3> QED
      BY <2>1, <2>4, <2>5, <2>6, <3>1
  <2>7. CASE Quiet(c)
    <3>1. link[c] = "up"
      BY <2>1, LinkOpens DEF Goes, Committed
    <3>2. pc[c] \in {"cleanup", "close", "done"} \/ Goes(c, {"complete"}, {"cleanup"})
      BY <2>1, <2>2, <2>7 DEF Quiet, Goes, Committed, Edge, Streaming, Ended, Open
    <3>3. ASSUME Goes(c, {"complete"}, {"cleanup"}) PROVE ~decided'[c]
      <4>1. ~decided[c]
        BY <3>3 DEF Goes, Verdicts, Undecided
      <4>2. decided'[c] = decided[c]
        BY <2>2, <3>3 DEF Edge, Goes, Same, Streaming
      <4> QED
        BY <4>1, <4>2
    <3> QED
      BY <2>5, <2>6, <3>1, <3>2, <3>3
  <2>8. ASSUME NEW f \in Frames, Puts(c, f)
        PROVE  IF decided'[c] THEN Answered(c)' ELSE Unanswerable(c)'
    <3>1. link[c] = "up" /\ wire[c] \in Seq(Frames) /\ wire'[c] = Append(wire[c], f)
      BY <2>8 DEF Puts, TypeOK, IoType
    <3>2. \E k \in 1..Len(wire'[c]) : wire'[c][k] = f
      BY <3>1, WireGrows
    <3>3. \/ pc[c] \in {"cleanup", "close", "done"}
          \/ Goes(c, {"farewell"}, {"cleanup"}) /\ f = Event("session.completed", announced[c])
          \/ Goes(c, {"report"}, {"cleanup"}) /\ f = Event("pipeline_failed", announced[c])
      BY <2>1, <2>8 DEF Puts, Goes, Committed
    <3>4. CASE pc[c] \in {"farewell", "report"}
      <4>1. f.type \in {"session.completed", "pipeline_failed"}
        BY <3>3, <3>4 DEF Goes, Event
      <4>2. Answered(c)'
        BY <3>2, <4>1 DEF Answered, Told
      <4>3. decided'[c]
        <5>1. pc'[c] = "cleanup"
          BY <3>3, <3>4 DEF Goes
        <5>2. pc[c] = "farewell" => decided[c]
          BY DEF Verdicts, LastWord
        <5> QED
          BY <2>2, <3>1, <3>4, <5>1, <5>2 DEF Edge, Goes, Same, Streaming, Ended
      <4> QED
        BY <4>2, <4>3
    <3> QED
      BY <2>6, <3>1, <3>3, <3>4 DEF Goes
  <2> QED
    BY <2>3, <2>7, <2>8
<1> QED
  BY <1>1, <1>2, <1>3

\* A client has its answer only from a handler that decided, and after that it only ends.
Deciding == \A c \in Conns : Answered(c) =>
  decided[c] /\ pc[c] \in {"cleanup", "close", "done", "crashed"}

LEMMA DecidingInit == Init => Deciding
BY DEF Init, Deciding, Answered, Told

LEMMA DecidingStep == TypeOK /\ Shape /\ Verdicts /\ Deciding /\ [Next]_vars => Deciding'
<1> SUFFICES ASSUME TypeOK, Shape, Verdicts, Deciding, [Next]_vars, NEW c \in Conns, Answered(c)'
             PROVE  decided'[c] /\ pc'[c] \in {"cleanup", "close", "done", "crashed"}
  BY DEF Deciding
<1>1. Edge(c)
  BY Edges
<1>2. \/ Answered(c)
      \/ Goes(c, {"report"}, {"cleanup"}) /\ decided'[c]
      \/ Goes(c, {"farewell"}, {"cleanup"})
  BY ToldStep DEF Answered
<1>3. CASE Answered(c)
  <2>1. decided[c] /\ pc[c] \in {"cleanup", "close", "done", "crashed"}
    BY <1>3 DEF Deciding
  <2> QED
    BY <1>1, <2>1 DEF Edge, Goes, Same, Streaming, Ended
<1>4. CASE Goes(c, {"report"}, {"cleanup"}) /\ decided'[c]
  BY <1>4 DEF Goes
<1>5. CASE Goes(c, {"farewell"}, {"cleanup"})
  <2>1. decided[c]
    BY <1>5 DEF Goes, Verdicts, LastWord
  <2> QED
    BY <1>1, <1>5, <2>1 DEF Edge, Goes, Same, Streaming, Ended
<1> QED
  BY <1>2, <1>3, <1>4, <1>5

\* A client that stayed to the end of a handler it committed to has its answer
\* exactly if a status was decided; only the database leaves it undecided.
THEOREM AnswersAtTheEnd == Spec => []AnsweredAtTheEnd
<1>1. Answering /\ Deciding => AnsweredAtTheEnd
  BY DEF Answering, Deciding, AnsweredAtTheEnd, Unanswerable
<1> QED
  BY <1>1, AnsweringInit, AnsweringStep, DecidingInit, DecidingStep, VerdictsInit, VerdictsStep, Reached, PTL DEF Spec

\* The client was told of segment i.
HeardOf(c, i) == \E k \in 1..Len(wire[c]) : wire[c][k] = Event("transcription.completed", i)

\* The client was told of a failure, under the count of what it has heard.
FailureHeard(c) == \E k \in 1..Len(wire[c]) : wire[c][k] = Event("pipeline_failed", announced[c])

\* A client that stays has heard of every segment its handler counts as announced,
\* and a handler that ends with segments not announced has said that it failed.
Telling == \A c \in Conns : link[c] = "up" =>
  /\ \A i \in 0..(announced[c] - 1) : HeardOf(c, i)
  /\ pc[c] = "emit" /\ step[c] # 0 => HeardOf(c, announced[c])
  /\ pc[c] \in {"oversize", "close1009"} => announced[c] = emitted[c]
  /\ pc[c] \in {"cleanup", "close", "done"} => announced[c] = emitted[c] \/ FailureHeard(c)

LEMMA TellingInit == Init => Telling
BY DEF Init, Telling

\* A segment is announced by the first frame of its burst.
LEMMA FirstFrameTells ==
  ASSUME TypeOK, Shape, Numbered, NEW c \in Conns, pc[c] = "emit"
  PROVE  /\ step[c] = 0 => NextFrame(c) = Event("transcription.completed", announced[c])
         /\ step[c] + 1 = Len(Burst(Head(results[c]))) => step[c] # 0
<1> DEFINE r == Head(results[c])
<1>1. /\ results[c] \in Seq(Result) /\ results[c] # <<>> /\ announced[c] \in Nat /\ step[c] \in Nat
  BY DEF Shape, TypeOK, WorkType
<1>2. r \in Result /\ r = results[c][1] /\ 1 \in 1..Len(results[c])
  BY <1>1
<1>3. results[c][1].index = announced[c] + 1 - 1
  BY <1>2 DEF Numbered
<1>4. r.index = announced[c]
  BY <1>1, <1>2, <1>3
<1>5. Len(Burst(r)) \in {4, 6} /\ Burst(r)[1] = Event("transcription.completed", r.index)
  BY <1>2, BurstOrder
<1> HIDE DEF r
<1>6. NextFrame(c) = Burst(r)[step[c] + 1]
  BY DEF NextFrame, r
<1>7. step[c] = 0 => Burst(r)[step[c] + 1] = Burst(r)[1]
  OBVIOUS
<1>8. \A x \in {4, 6} : 0 + 1 # x
  OBVIOUS
<1>9. step[c] + 1 = Len(Burst(r)) => step[c] # 0
  BY <1>5, <1>8
<1>10. step[c] = 0 => NextFrame(c) = Event("transcription.completed", announced[c])
  BY <1>4, <1>5, <1>6, <1>7
<1> QED
  BY <1>9, <1>10 DEF r

\* What is said while the client listens is what it was to hear.
LEMMA TellingStep ==
  TypeOK /\ Shape /\ NotYet /\ Counts /\ Numbered /\ Telling /\ [Next]_vars => Telling'
<1> SUFFICES ASSUME TypeOK, Shape, NotYet, Counts, Numbered, Telling, [Next]_vars, NEW c \in Conns,
                    link'[c] = "up"
             PROVE  /\ \A i \in 0..(announced'[c] - 1) : HeardOf(c, i)'
                    /\ pc'[c] = "emit" /\ step'[c] # 0 => HeardOf(c, announced[c])'
                    /\ pc'[c] \in {"oversize", "close1009"} => announced'[c] = emitted'[c]
                    /\ pc'[c] \in {"cleanup", "close", "done"} =>
                         announced'[c] = emitted'[c] \/ FailureHeard(c)'
  BY DEF Telling, HeardOf
<1>t. /\ announced[c] \in Nat /\ emitted[c] \in Nat /\ step[c] \in Nat /\ pc[c] \in PCs
      /\ wire[c] \in Seq(Frames)
  BY DEF TypeOK, WorkType, ControlType, IoType
<1>b. /\ pc[c] \in Balanced => announced[c] = emitted[c]
      /\ pc[c] = "offline" => announced[c] = 0
  BY DEF Counts, Balanced, NotYet
<1>q. Quiet(c) \/ \E f \in Frames : Puts(c, f)
  BY WireMoves
\* What it has heard it has heard.
<1>h. /\ \A i : HeardOf(c, i) => HeardOf(c, i)'
      /\ FailureHeard(c) /\ UNCHANGED announced[c] => FailureHeard(c)'
  <2>1. \A k \in 1..Len(wire[c]) : k \in 1..Len(wire'[c]) /\ wire'[c][k] = wire[c][k]
    BY <1>q, WireStays
  <2> QED
    BY <2>1 DEF HeardOf, FailureHeard
<1>1. CASE Goes(c, {"offline"}, {"authorize"})
  <2>1. announced'[c] = 0
    BY <1>1, <1>b, <1>q DEF Quiet, Puts, Goes, Ended
  <2> QED
    BY <1>1, <2>1 DEF Goes
<1>2. CASE link[c] = "up"
  <2>k. /\ \A i \in 0..(announced[c] - 1) : HeardOf(c, i)
        /\ pc[c] = "emit" /\ step[c] # 0 => HeardOf(c, announced[c])
        /\ pc[c] \in {"oversize", "close1009"} => announced[c] = emitted[c]
        /\ pc[c] \in {"cleanup", "close", "done"} => announced[c] = emitted[c] \/ FailureHeard(c)
    BY <1>2 DEF Telling
  <2>e. Edge(c) /\ Flow(c)
    BY Edges, Flows
  <2>o. /\ pc'[c] = "oversize" => pc[c] \in {"receive", "oversize"}
        /\ pc'[c] = "close1009" => pc[c] \in {"oversize", "close1009"}
    BY <2>e, Turns DEF Edge, Goes, Streaming, Ended
  <2>f. pc'[c] # "asr" => emitted'[c] = emitted[c]
    BY <2>e DEF Flow, Goes
  \* A step that does not count a segment.
  <2>1. CASE announced'[c] = announced[c]
    <3>1. \A i \in 0..(announced'[c] - 1) : HeardOf(c, i)'
      BY <1>h, <2>1, <2>k
    <3>2. ASSUME pc'[c] = "emit", step'[c] # 0 PROVE HeardOf(c, announced[c])'
      <4>1. CASE Quiet(c)
        <5>1. pc[c] = "emit" /\ step'[c] = step[c]
          BY <3>2, <4>1 DEF Quiet, Goes, Open, Ended, Shape
        <5> QED
          BY <1>h, <2>1, <2>k, <3>2, <5>1
      <4>2. ASSUME NEW f \in Frames, Puts(c, f) PROVE HeardOf(c, announced[c])'
        <5>1. /\ pc[c] = "emit" /\ f = NextFrame(c) /\ wire'[c] = Append(wire[c], f)
          BY <3>2, <4>2 DEF Puts, Goes
        <5>2. step[c] = 0 => f = Event("transcription.completed", announced'[c])
          BY <2>1, <5>1, FirstFrameTells
        <5>3. \E k \in 1..Len(wire'[c]) : wire'[c][k] = f
          BY <1>t, <5>1, WireGrows
        <5>4. CASE step[c] = 0
          BY <5>2, <5>3, <5>4 DEF HeardOf
        <5>5. CASE step[c] # 0
          BY <1>h, <2>1, <2>k, <5>1, <5>5
        <5> QED
          BY <5>4, <5>5
      <4> QED
        BY <1>q, <4>1, <4>2
    <3>3. pc'[c] \in {"oversize", "close1009"} => announced'[c] = emitted'[c]
      BY <1>b, <2>1, <2>k, <2>o, <2>f DEF Balanced
    <3>4. ASSUME pc'[c] \in {"cleanup", "close", "done"}
          PROVE  announced'[c] = emitted'[c] \/ FailureHeard(c)'
      <4>1. emitted'[c] = emitted[c]
        BY <2>f, <3>4
      <4>2. CASE Quiet(c)
        <5>1. pc[c] \in {"cleanup", "close", "done", "receive", "complete"}
          BY <1>2, <2>e, <3>4, <4>2 DEF Quiet, Goes, Open, Ended, Edge, Streaming
        <5> QED
          BY <1>b, <1>h, <2>1, <2>k, <4>1, <5>1 DEF Balanced
      <4>3. ASSUME NEW f \in Frames, Puts(c, f)
            PROVE  announced'[c] = emitted'[c] \/ FailureHeard(c)'
        <5>1. /\ wire'[c] = Append(wire[c], f)
              /\ \/ pc[c] \in {"farewell", "close1009", "close"}
                 \/ pc[c] = "report" /\ f = Event("pipeline_failed", announced[c])
          BY <3>4, <4>3 DEF Puts, Goes
        <5>2. \E k \in 1..Len(wire'[c]) : wire'[c][k] = f
          BY <1>t, <5>1, WireGrows
        <5>3. CASE pc[c] = "report" /\ f = Event("pipeline_failed", announced[c])
          BY <2>1, <5>2, <5>3 DEF FailureHeard
        <5> QED
          BY <1>b, <1>h, <2>1, <2>k, <4>1, <5>1, <5>3 DEF Balanced
      <4> QED
        BY <1>q, <4>2, <4>3
    <3> QED
      BY <3>1, <3>2, <3>3, <3>4
  \* The last frame of a burst.
  <2>2. CASE announced'[c] # announced[c]
    <3>1. /\ pc[c] = "emit" /\ pc'[c] \in {"emit", "complete", "receive"} /\ step'[c] = 0
          /\ announced'[c] = announced[c] + 1
          /\ step[c] + 1 = Len(Burst(Head(results[c])))
      <4>1. ~Quiet(c)
        BY <2>2 DEF Quiet
      <4>2. PICK f \in Frames : Puts(c, f)
        BY <1>q, <4>1
      <4> QED
        BY <2>2, <4>2 DEF Puts, Goes
    <3>2. \A i : i = announced[c] => HeardOf(c, i)'
      BY <1>h, <2>k, <3>1, FirstFrameTells
    <3>3. \A i \in 0..(announced'[c] - 1) : i \in 0..(announced[c] - 1) \/ i = announced[c]
      BY <1>t, <3>1
    <3>4. \A i \in 0..(announced'[c] - 1) : HeardOf(c, i)'
      BY <1>h, <2>k, <3>2, <3>3 DEF HeardOf
    <3> QED
      BY <3>1, <3>4
  <2> QED
    BY <2>1, <2>2
<1> QED
  BY <1>1, <1>2, LinkOpens

\* A client that stayed was told of every segment that was stored whole, or of a
\* failure under an index not above it.
THEOREM StoredSegmentsAreTold == Spec => []StoredIsTold
<1>1. TypeOK /\ Tables /\ Telling => StoredIsTold
  <2> SUFFICES ASSUME TypeOK, Tables, Telling, NEW r \in translations,
                      pc[r.by] = "done", link[r.by] = "up"
               PROVE  \E k \in 1..Len(wire[r.by]) :
                        LET f == wire[r.by][k] IN
                        \/ f.type = "transcription.completed" /\ f.n = r.index
                        \/ f.type = "pipeline_failed" /\ f.n <= r.index
    BY DEF StoredIsTold
  <2> DEFINE c == r.by
  <2>1. c \in Conns /\ r.index \in Nat /\ announced[c] \in Nat
    BY DEF TypeOK, StoreType, WorkType, Row
  <2>2. r.index < emitted[c] /\ emitted[c] \in Nat
    BY <2>1 DEF Tables, Owned, Referring, TypeOK, WorkType
  <2>3. /\ \A i \in 0..(announced[c] - 1) : HeardOf(c, i)
        /\ announced[c] = emitted[c] \/ FailureHeard(c)
    BY <2>1 DEF Telling
  <2>4. CASE r.index < announced[c]
    <3>1. HeardOf(c, r.index)
      BY <2>1, <2>3, <2>4
    <3> QED
      BY <3>1 DEF HeardOf, Event
  <2>5. CASE ~(r.index < announced[c])
    <3>1. FailureHeard(c) /\ announced[c] <= r.index
      BY <2>1, <2>2, <2>3, <2>5
    <3> QED
      BY <3>1 DEF FailureHeard, Event
  <2> QED
    BY <2>4, <2>5
<1> QED
  BY <1>1, TellingInit, TellingStep, TypeCorrect, Reached, RowInvInit, CountsInit, TablesInit,
     KeptStep, PTL DEF Spec, Kept, RowInv
================================================================================
