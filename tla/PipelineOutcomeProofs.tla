------------------------- MODULE PipelineOutcomeProofs -------------------------
(***************************************************************************)
(* Theorems about what a handler of PipelineHandler leaves behind: its      *)
(* counters, its rows, its statuses and what it told its client, for any    *)
(* sets of sessions and connections and any bounds.                         *)
(***************************************************************************)
EXTENDS PipelineProofs

\* The states the base proofs reach.
LEMMA Reached == Spec => [](TypeOK /\ Shape /\ RowInv)
<1>1. TypeOK /\ Shape /\ [Next]_vars => (TypeOK /\ Shape)'
  BY StoreTypeStep, ControlTypeStep, IoTypeStep, WorkTypeStep, VerdictTypeStep DEF TypeOK
<1> QED
  BY <1>1, TypeInit, RowInvInit, RowInvStep, PTL DEF Spec

-------------------------------------------------------------------------------
(* The counters *)

\* The labels at which no segment is under way.
Balanced == {"offline", "authorize", "greet", "refuse", "receive", "invalid", "complete",
             "farewell"}

Counts == \A c \in Conns :
  /\ pc[c] \in Balanced => announced[c] = emitted[c] /\ results[c] = <<>>
  /\ pc[c] \in {"lookup", "emit"} => emitted[c] = announced[c] + Len(results[c])
  /\ pc[c] \in {"asr", "transcription", "mt", "translation", "tts"} =>
       index[c] = announced[c] + Len(results[c]) /\ emitted[c] = index[c] + 1

\* What waits to be announced is numbered on from what was announced.
Numbered == \A c \in Conns : \A k \in 1..Len(results[c]) :
  results[c][k].index = announced[c] + k - 1

LEMMA CountsInit == Init => Counts /\ Numbered
BY DEF Init, Counts, Numbered, Balanced

\* A segment is counted once by the service and once by the handler.
LEMMA CountsStep == TypeOK /\ Shape /\ Counts /\ Numbered /\ [Next]_vars => Counts' /\ Numbered'
<1> SUFFICES ASSUME TypeOK, Shape, Counts, Numbered, [Next]_vars PROVE Counts' /\ Numbered'
  OBVIOUS
<1>t. WorkType /\ pc \in [Conns -> PCs]
  BY DEF TypeOK, ControlType
\* What a step leaves alone it does not unbalance.
<1>n. ASSUME NEW d \in Conns, UNCHANGED <<announced[d], results[d]>>
      PROVE  \A k \in 1..Len(results'[d]) : results'[d][k].index = announced'[d] + k - 1
  BY <1>n DEF Numbered
<1> DEFINE Part(d) ==
      /\ pc[d] \in Balanced => announced[d] = emitted[d] /\ results[d] = <<>>
      /\ pc[d] \in {"lookup", "emit"} => emitted[d] = announced[d] + Len(results[d])
      /\ pc[d] \in {"asr", "transcription", "mt", "translation", "tts"} =>
           index[d] = announced[d] + Len(results[d]) /\ emitted[d] = index[d] + 1
    Order(d) == \A k \in 1..Len(results[d]) : results[d][k].index = announced[d] + k - 1
<1>f. SUFFICES \A d \in Conns : Part(d)' /\ Order(d)'
  BY DEF Counts, Numbered
<1>p. \A d \in Conns : Part(d) /\ Order(d)
  BY DEF Counts, Numbered
<1>0. Len(<<>>) = 0
  OBVIOUS
<1> USE DEF Goto, PCs, Balanced, work
<1>1. ASSUME NEW c \in Conns, Connect(c) \/ Message(c) \/ ClientLeaves(c), NEW d \in Conns
      PROVE  Part(d)' /\ Order(d)'
  <2>1. UNCHANGED <<announced, results, emitted, index>>
    BY <1>1 DEF Connect, Message, ClientLeaves, ReceiveChunk, RunSegments, ReceiveGarbage,
                ReceiveOversize, ReceiveInvalid, ReceiveCommit
  <2>2. \/ pc'[d] = pc[d]
        \/ pc[d] \in {"offline", "receive"}
           /\ pc'[d] \in {"authorize", "receive", "lookup", "fail", "oversize", "invalid", "complete", "cleanup"}
    BY <1>1, <1>t DEF Connect, Message, ClientLeaves, ReceiveChunk, RunSegments, ReceiveGarbage,
                ReceiveOversize, ReceiveInvalid, ReceiveCommit, Takes
  <2>3. emitted[d] \in Nat /\ announced[d] \in Nat
    BY <1>t DEF WorkType
  <2> QED
    BY <2>1, <2>2, <2>3, <1>p, <1>0
<1>2. ASSUME NEW c \in Conns, Handle(c), NEW d \in Conns PROVE Part(d)' /\ Order(d)'
  <2>0. /\ emitted[d] \in Nat /\ announced[d] \in Nat /\ index[d] \in Nat
        /\ results[d] \in Seq(Result) /\ Len(results[d]) \in Nat
    BY <1>t DEF WorkType
  <2>o. CASE d # c
    <3>1. /\ pc'[d] = pc[d] /\ results'[d] = results[d] /\ announced'[d] = announced[d]
          /\ emitted'[d] = emitted[d] /\ index'[d] = index[d]
      BY <1>2, <2>o, <1>t DEF WorkType, Handle, Authorize, Refuse, Greet, ReceiveDisconnect, AnswerInvalid,
         Lookup, Transcribe, SaveTranscription, Translate, SaveTranslation, Synthesize, EmitFrame,
         CompleteOnCommit, Farewell, FailSession, Report, CompleteOversize, Close1009, Cleanup,
         Close, Engine, Fails
    <3> QED
      BY <3>1, <1>p
  <2>1. CASE d = c /\ Lookup(c)
    <3>1. pc[c] = "lookup" /\ UNCHANGED <<results, announced>>
      BY <2>1 DEF Lookup, Fails
    <3>2. \/ pc'[c] = "asr" /\ index'[c] = emitted[c] /\ emitted'[c] = emitted[c] + 1
          \/ pc'[c] = "fail"
      BY <2>1, <1>t DEF Lookup, Fails, WorkType
    <3> QED
      BY <2>1, <3>1, <3>2, <1>p
  <2>2. CASE d = c /\ (Transcribe(c) \/ SaveTranscription(c) \/ Translate(c) \/ SaveTranslation(c))
    <3>1. UNCHANGED <<results, announced, emitted, index>>
      BY <2>2 DEF Transcribe, Translate, Engine, SaveTranscription, SaveTranslation, Fails
    <3>2. /\ pc[c] \in {"asr", "transcription", "mt", "translation"}
          /\ pc'[c] \in {"transcription", "mt", "translation", "tts", "fail"}
      BY <2>2, <1>t DEF Transcribe, Translate, Engine, SaveTranscription, SaveTranslation, Fails
    <3> QED
      BY <2>2, <3>1, <3>2, <1>p
  <2>3. CASE d = c /\ Synthesize(c)
    <3>1. CASE Fails(c, index[c])
      BY <2>3, <3>1, <1>p, <1>t DEF Fails
    <3>2. ASSUME NEW audio \in Audible,
                 results' = [results EXCEPT ![c] = Append(@, [index |-> index[c], audio |-> audio])],
                 UNCHANGED <<index, emitted, announced>>, pc'[c] \in {"emit", "lookup"}
          PROVE  Part(c)' /\ Order(c)'
      <4> DEFINE r == [index |-> index[c], audio |-> audio]
                 old == results[c]
      <4>1. r \in Result /\ r.index = index[c]
        BY <2>0, <2>3, HandlerAssumption DEF Result
      <4>2. results'[c] = Append(old, r)
        BY <3>2, <1>t DEF WorkType
      <4>3. old \in Seq(Result) /\ Len(old) \in Nat
        BY <2>0, <2>3
      <4>4. pc[c] = "tts"
        BY <2>3 DEF Synthesize
      <4>5. index[c] = announced[c] + Len(old) /\ emitted[c] = index[c] + 1
        BY <4>4, <1>p
      <4> HIDE DEF r
      <4>6. /\ Len(Append(old, r)) = Len(old) + 1
            /\ \A k \in 1..Len(old) : Append(old, r)[k] = old[k]
            /\ Append(old, r)[Len(old) + 1] = r
        <5> HIDE DEF old
        <5> QED BY <4>1, <4>3
      <4>7. Order(c)'
        <5> SUFFICES ASSUME NEW k \in 1..Len(results'[c])
                     PROVE  results'[c][k].index = announced[c] + k - 1
          BY <3>2
        <5>1. CASE k = Len(old) + 1
          BY <5>1, <4>1, <4>2, <4>5, <4>6, <2>0, <2>3
        <5>2. CASE k # Len(old) + 1
          <6>1. k \in 1..Len(old)
            BY <5>2, <4>2, <4>3, <4>6
          <6> QED
            BY <6>1, <4>2, <4>6, <1>p
        <5> QED
          BY <5>1, <5>2
      <4>8. Part(c)'
        BY <3>2, <4>2, <4>5, <4>6, <2>0, <2>3
      <4> QED
        BY <4>7, <4>8
    <3>3. \/ Fails(c, index[c])
          \/ \E audio \in Audible :
               /\ results' = [results EXCEPT ![c] = Append(@, [index |-> index[c], audio |-> audio])]
               /\ UNCHANGED <<index, emitted, announced>> /\ pc'[c] \in {"emit", "lookup"}
      BY <2>3, <1>t DEF Synthesize
    <3> QED
      BY <2>3, <3>1, <3>2, <3>3
  <2>4. CASE d = c /\ EmitFrame(c)
    <3> DEFINE old  == results[c]
               last == step[c] + 1 = Len(Burst(Head(old)))
    <3>1. /\ pc[c] = "emit" /\ old \in Seq(Result) /\ old # <<>> /\ Len(old) > 0
      BY <2>0, <2>4 DEF EmitFrame, Shape
    <3>2. /\ Len(Tail(old)) = Len(old) - 1
          /\ \A k \in 1..Len(Tail(old)) : Tail(old)[k] = old[k + 1]
      <4> HIDE DEF old
      <4> QED BY <3>1
    <3>3. \/ ~last /\ pc'[c] = "emit" /\ UNCHANGED <<results[c], announced[c], emitted, index>>
          \/ pc'[c] = "cleanup" /\ UNCHANGED <<results, announced, emitted, index>>
          \/ /\ last /\ results'[c] = Tail(old) /\ announced'[c] = announced[c] + 1
             /\ pc'[c] \in (IF Len(old) > 1 THEN {"emit"} ELSE {"complete", "receive"})
             /\ UNCHANGED <<emitted, index>>
      <4> HIDE DEF last
      <4>1. \/ /\ announced' = [announced EXCEPT ![c] = IF last THEN @ + 1 ELSE @]
               /\ results' = [results EXCEPT ![c] = IF last THEN Tail(@) ELSE @]
               /\ Goto(c, IF ~last \/ Len(old) > 1 THEN "emit"
                          ELSE IF flushing[c] THEN "complete" ELSE "receive")
               /\ UNCHANGED <<emitted, index>>
            \/ Goto(c, "cleanup") /\ UNCHANGED <<results, announced, emitted, index>>
        BY <2>4 DEF EmitFrame, last
      <4> QED
        BY <4>1, <1>t DEF WorkType
    <3>4. CASE last /\ results'[c] = Tail(old) /\ announced'[c] = announced[c] + 1
               /\ pc'[c] \in (IF Len(old) > 1 THEN {"emit"} ELSE {"complete", "receive"})
               /\ UNCHANGED <<emitted, index>>
      <4>1. emitted[c] = announced[c] + Len(old)
        BY <3>1, <1>p
      <4>2. Order(c)'
        <5> SUFFICES ASSUME NEW k \in 1..Len(Tail(old))
                     PROVE  Tail(old)[k].index = announced[c] + 1 + k - 1
          BY <3>4
        <5>1. k + 1 \in 1..Len(old) /\ Tail(old)[k] = old[k + 1]
          BY <3>2, <2>0, <2>4
        <5>2. old[k + 1].index = announced[c] + (k + 1) - 1
          BY <5>1, <1>p
        <5> QED
          BY <5>1, <5>2, <2>0, <2>4
      <4>3. Part(c)'
        <5>1. Len(results'[c]) = Len(old) - 1 /\ results'[c] \in Seq(Result)
          BY <3>1, <3>2, <3>4
        <5>0. /\ emitted'[c] = emitted[c] /\ emitted[c] \in Nat /\ announced[c] \in Nat
              /\ Len(old) \in Nat /\ announced'[c] = announced[c] + 1
          BY <3>4, <2>0, <2>4
        <5>2. CASE Len(old) > 1
          <6>1. emitted'[c] = announced'[c] + Len(results'[c])
            BY <4>1, <5>0, <5>1
          <6> QED
            BY <3>4, <5>2, <6>1
        <5>3. CASE ~(Len(old) > 1)
          <6>1. Len(old) = 1 /\ Len(results'[c]) = 0
            <7> HIDE DEF old
            <7>1. Len(old) \in Nat /\ Len(old) > 0 /\ ~(Len(old) > 1)
              BY <3>1, <5>0, <5>3
            <7>2. Len(results'[c]) = Len(old) - 1
              BY <5>1
            <7>0. \A n \in Nat : n > 0 /\ ~(n > 1) => n = 1
              OBVIOUS
            <7>3. Len(old) = 1
              BY <7>0, <7>1
            <7> QED
              BY <7>2, <7>3
          <6>2. results'[c] = <<>>
            BY <5>1, <6>1
          <6> QED
            BY <3>4, <4>1, <5>0, <6>1, <6>2, <5>3
        <5> QED
          BY <5>2, <5>3
      <4> QED
        BY <2>4, <4>2, <4>3
    <3>5. CASE pc'[c] = "cleanup" /\ UNCHANGED <<results, announced, emitted, index>>
      BY <2>4, <3>5, <1>p
    <3>6. CASE ~last /\ pc'[c] = "emit" /\ UNCHANGED <<results[c], announced[c], emitted, index>>
      BY <2>4, <3>1, <3>6, <1>p
    <3> QED
      BY <3>3, <3>4, <3>5, <3>6
  <2>5. CASE d = c /\ \/ Authorize(c) \/ Refuse(c) \/ Greet(c) \/ ReceiveDisconnect(c)
                      \/ AnswerInvalid(c) \/ CompleteOnCommit(c) \/ Farewell(c) \/ FailSession(c)
                      \/ Report(c) \/ CompleteOversize(c) \/ Close1009(c) \/ Cleanup(c) \/ Close(c)
    <3>1. UNCHANGED <<results, announced, emitted, index>>
      BY <2>5 DEF Authorize, Refuse, Greet, ReceiveDisconnect, AnswerInvalid, CompleteOnCommit,
         Farewell, FailSession, Report, CompleteOversize, Close1009, Cleanup, Close
    <3>2. /\ pc'[c] \notin {"lookup", "emit", "asr", "transcription", "mt", "translation", "tts"}
          /\ pc'[c] \in Balanced => pc[c] \in Balanced
      BY <2>5, <1>t DEF Authorize, Refuse, Greet, ReceiveDisconnect, AnswerInvalid, CompleteOnCommit,
         Farewell, FailSession, Report, CompleteOversize, Close1009, Cleanup, Close
    <3> QED
      BY <2>5, <3>1, <3>2, <1>p
  <2> QED
    BY <1>2, <2>o, <2>1, <2>2, <2>3, <2>4, <2>5 DEF Handle
<1>3. CASE Crash
  <2>1. UNCHANGED <<results, announced, emitted, index>>
    BY <1>3 DEF Crash
  <2>2. \A d \in Conns : pc'[d] = pc[d] \/ pc'[d] = "crashed"
    BY <1>3 DEF Crash
  <2> QED
    BY <2>1, <2>2, <1>p
<1>4. CASE Rest \/ UNCHANGED vars
  BY <1>4, <1>p DEF Rest, vars, handlerVars
<1> QED
  BY <1>1, <1>2, <1>3, <1>4 DEF Next

\* The service's and the handler's counters of segments agree.
THEOREM CountersEqual == Spec => []CountersAgree
<1>1. Counts => CountersAgree
  BY DEF Counts, CountersAgree, Balanced
<1> QED
  BY <1>1, CountsInit, CountsStep, Reached, PTL DEF Spec

-------------------------------------------------------------------------------
(* The wire *)

SegmentFrames == {"transcription.completed", "translation.completed", "audio.delta", "binary",
                  "audio.done", "segment.metrics"}

\* A step that sends frame e to the client of c, by where the coroutine stands.
Says(c, e) ==
  \/ pc[c] = "greet" /\ pc'[c] = "receive" /\ e.type = "session.created"
  \/ pc[c] = "refuse" /\ pc'[c] = "refused" /\ e.type = "close"
  \/ pc[c] = "invalid" /\ pc'[c] = "receive" /\ e.type = "invalid_event"
  \/ pc[c] = "emit" /\ e.type \in SegmentFrames /\ e.n = Head(results[c]).index
  \/ pc[c] = "farewell" /\ pc'[c] = "cleanup" /\ e.type = "session.completed" /\ e.n = announced[c]
  \/ pc[c] = "report" /\ pc'[c] = "cleanup" /\ e.type = "pipeline_failed" /\ decided'[c]
  \/ pc[c] = "close1009" /\ pc'[c] = "cleanup" /\ e.type = "close"
  \/ pc[c] = "close" /\ pc'[c] = "done" /\ e.type = "close"

\* Every frame of a burst names its segment.
LEMMA BurstNamesSegment == \A r \in Result : \A i \in 1..Len(Burst(r)) :
  Burst(r)[i].type \in SegmentFrames /\ Burst(r)[i].n = r.index
<1> SUFFICES ASSUME NEW r \in Result, NEW i \in 1..Len(Burst(r))
             PROVE  Burst(r)[i].type \in SegmentFrames /\ Burst(r)[i].n = r.index
  OBVIOUS
<1> USE DEF Burst, Event, SegmentFrames, Result
<1>1. CASE r.audio
  BY <1>1
<1>2. CASE ~r.audio
  BY <1>2
<1> QED
  BY <1>1, <1>2

\* What a frame that is sent adds to the wire: at most itself, at the end.
LEMMA SendAppends ==
  ASSUME IoType, NEW c \in Conns, NEW f \in Frames, Sends(c, f)
  PROVE  \A d \in Conns : \A k \in 1..Len(wire'[d]) :
           \/ k \in 1..Len(wire[d]) /\ wire'[d][k] = wire[d][k]
           \/ d = c /\ wire'[d][k] = f
<1> SUFFICES ASSUME NEW d \in Conns, NEW k \in 1..Len(wire'[d])
             PROVE  \/ k \in 1..Len(wire[d]) /\ wire'[d][k] = wire[d][k]
                    \/ d = c /\ wire'[d][k] = f
  OBVIOUS
<1>1. wire[c] \in Seq(Frames) /\ wire \in [Conns -> Seq(Frames)]
  BY DEF IoType
<1>2. CASE wire' = wire
  BY <1>2
<1>3. CASE wire' = [wire EXCEPT ![c] = Append(wire[c], f)]
  <2>1. CASE d # c
    BY <1>1, <1>3, <2>1
  <2>2. CASE d = c
    <3> DEFINE old == wire[c]
    <3>1. old \in Seq(Frames)
      BY <1>1
    <3>2. wire'[d] = Append(old, f)
      BY <1>1, <1>3, <2>2
    <3> HIDE DEF old
    <3>3. /\ Len(old) \in Nat /\ Len(Append(old, f)) = Len(old) + 1
          /\ \A i \in 1..Len(old) : Append(old, f)[i] = old[i]
          /\ Append(old, f)[Len(old) + 1] = f
      BY <3>1
    <3>4. k \in 1..(Len(old) + 1)
      BY <3>2, <3>3
    <3>5. CASE k = Len(old) + 1
      BY <2>2, <3>2, <3>3, <3>5
    <3>6. CASE k # Len(old) + 1
      <4>1. k \in 1..Len(old)
        BY <3>3, <3>4, <3>6
      <4> QED
        BY <2>2, <3>2, <3>3, <4>1 DEF old
    <3> QED
      BY <3>5, <3>6
  <2> QED
    BY <2>1, <2>2
<1> QED
  BY <1>2, <1>3 DEF Sends

\* What a client has on its wire after a step it had before, or its handler says it.
LEMMA Hears == TypeOK /\ Shape /\ [Next]_vars =>
  \A d \in Conns : \A k \in 1..Len(wire'[d]) :
    \/ k \in 1..Len(wire[d]) /\ wire'[d][k] = wire[d][k]
    \/ Says(d, wire'[d][k])
<1> DEFINE Known(d, k) == k \in 1..Len(wire[d]) /\ wire'[d][k] = wire[d][k]
<1> SUFFICES ASSUME TypeOK, Shape, [Next]_vars
             PROVE  \A d \in Conns : \A k \in 1..Len(wire'[d]) : Known(d, k) \/ Says(d, wire'[d][k])
  OBVIOUS
<1>t. IoType /\ WorkType /\ pc \in [Conns -> PCs] /\ decided \in [Conns -> BOOLEAN]
  BY DEF TypeOK, ControlType, VerdictType
<1>0. UNCHANGED wire => \A d \in Conns : \A k \in 1..Len(wire'[d]) : Known(d, k)
  OBVIOUS
\* A step that sends f and says so.
<1>s. ASSUME NEW c \in Conns, NEW f \in Frames, Sends(c, f), Says(c, f)
      PROVE  \A d \in Conns : \A k \in 1..Len(wire'[d]) : Known(d, k) \/ Says(d, wire'[d][k])
  BY <1>t, <1>s, SendAppends
<1>1. ASSUME NEW c \in Conns, Handle(c)
      PROVE  UNCHANGED wire \/ \E f \in Frames : Sends(c, f) /\ Says(c, f)
  <2> USE DEF Goto, PCs, io, SendRaises
  <2>0. announced[c] \in Nat
    BY <1>t DEF WorkType
  <2>1. CASE Refuse(c)
    <3>1. Event("close", 4401) \in Frames /\ Event("close", 4401).type = "close"
      BY DEF Event, Frames
    <3> QED
      BY <2>1, <3>1, <1>t DEF Refuse, Says
  <2>2. CASE Greet(c)
    <3>1. Event("session.created", NoIndex) \in Frames
          /\ Event("session.created", NoIndex).type = "session.created"
      BY DEF Event, Frames, NoIndex
    <3> QED
      BY <2>2, <3>1, <1>t DEF Greet, Says
  <2>3. CASE AnswerInvalid(c)
    <3>1. Event("invalid_event", NoIndex) \in Frames
          /\ Event("invalid_event", NoIndex).type = "invalid_event"
      BY DEF Event, Frames, NoIndex
    <3> QED
      BY <2>3, <3>1, <1>t DEF AnswerInvalid, Says
  <2>4. CASE EmitFrame(c)
    <3> DEFINE burst == Burst(Head(results[c]))
               f     == burst[step[c] + 1]
    <3>1. results[c] \in Seq(Result) /\ results[c] # <<>> /\ step[c] \in Nat /\ pc[c] = "emit"
      BY <2>4, <1>t DEF EmitFrame, Shape, WorkType
    <3>2. Head(results[c]) \in Result
      BY <3>1
    <3>3. step[c] + 1 \in 1..Len(burst)
      BY <3>1, <3>2, BurstFrames DEF Shape
    <3>4. f \in Frames /\ f.type \in SegmentFrames /\ f.n = Head(results[c]).index
      BY <3>2, <3>3, BurstFrames, BurstNamesSegment
    <3>5. UNCHANGED wire \/ Sends(c, f)
      BY <2>4 DEF EmitFrame
    <3> HIDE DEF f
    <3> QED
      BY <3>1, <3>4, <3>5 DEF Says
  <2>5. CASE Farewell(c)
    <3>1. Event("session.completed", announced[c]) \in Frames
          /\ Event("session.completed", announced[c]).type = "session.completed"
          /\ Event("session.completed", announced[c]).n = announced[c]
      BY <2>0 DEF Event, Frames
    <3> QED
      BY <2>5, <3>1, <1>t DEF Farewell, Says
  <2>6. CASE Report(c)
    <3>1. Event("pipeline_failed", announced[c]) \in Frames
          /\ Event("pipeline_failed", announced[c]).type = "pipeline_failed"
      BY <2>0 DEF Event, Frames
    <3>2. decided' = [decided EXCEPT ![c] = TRUE] => decided'[c]
      BY <1>t
    <3> QED
      BY <2>6, <3>1, <3>2, <1>t DEF Report, Says
  <2>7. CASE Close1009(c) \/ Close(c)
    <3>1. /\ Event("close", 1009) \in Frames /\ Event("close", 1009).type = "close"
          /\ Event("close", 1000) \in Frames /\ Event("close", 1000).type = "close"
      BY DEF Event, Frames
    <3> QED
      BY <2>7, <3>1, <1>t DEF Close1009, Close, Says
  <2>8. CASE \/ Authorize(c) \/ ReceiveDisconnect(c) \/ Lookup(c) \/ Transcribe(c)
             \/ SaveTranscription(c) \/ Translate(c) \/ SaveTranslation(c) \/ Synthesize(c)
             \/ CompleteOnCommit(c) \/ FailSession(c) \/ CompleteOversize(c) \/ Cleanup(c)
    BY <2>8 DEF Authorize, ReceiveDisconnect, Lookup, Transcribe, Translate, Engine,
       SaveTranscription, SaveTranslation, Synthesize, CompleteOnCommit, FailSession,
       CompleteOversize, Cleanup
  <2> QED
    BY <1>1, <2>1, <2>2, <2>3, <2>4, <2>5, <2>6, <2>7, <2>8 DEF Handle
<1>2. ASSUME NEW c \in Conns, Connect(c) \/ Message(c) \/ ClientLeaves(c) PROVE UNCHANGED wire
  BY <1>2 DEF Connect, Message, ClientLeaves, ReceiveChunk, ReceiveGarbage, ReceiveOversize,
              ReceiveInvalid, ReceiveCommit, Takes, io
<1>3. CASE Rest \/ Crash \/ UNCHANGED vars
  BY <1>0, <1>3 DEF Rest, Crash, vars, handlerVars
<1> QED
  BY <1>0, <1>s, <1>1, <1>2, <1>3 DEF Next
-------------------------------------------------------------------------------
(* The terminal status *)

\* How one suppressed write of st ends: it failed, it landed, or no session was there.
Settles(c, st) ==
  \/ lost'[c] /\ wrote'[c] = wrote[c]
  \/ /\ lost'[c] = lost[c] /\ Exists(sess[c])
     /\ wrote'[c] = Append(wrote[c], st) /\ status'[sess[c]] = st
  \/ /\ lost'[c] = lost[c] /\ ~Exists(sess[c])
     /\ wrote'[c] = wrote[c] /\ status'[sess[c]] = status[sess[c]]

Goes(c, from, to) == pc[c] \in from /\ pc'[c] \in to
Same(c)           == UNCHANGED <<wrote[c], decided[c], lost[c]>>

\* The handler as an automaton over its verdict: every step of the system is one of these
\* edges for each coroutine.
Edge(c) ==
  \/ pc'[c] = pc[c] /\ Same(c)
  \/ Goes(c, PCs \ Ended, {"crashed"}) /\ Same(c)
  \/ Goes(c, Streaming, Streaming \cup {"refuse", "aborted", "complete", "fail", "oversize", "cleanup"})
     /\ Same(c)
  \/ Goes(c, {"refuse"}, {"refused"}) /\ Same(c)
  \/ Goes(c, {"complete"}, {"farewell"}) /\ Settles(c, "COMPLETED") /\ decided'[c]
  \/ /\ Goes(c, {"complete"}, {"cleanup"}) /\ UNCHANGED <<decided[c], lost[c]>>
     /\ wrote'[c] \in {wrote[c], Append(wrote[c], "COMPLETED")}
  \/ Goes(c, {"farewell", "close1009"}, {"cleanup"}) /\ Same(c)
  \/ Goes(c, {"fail"}, {"report"}) /\ Settles(c, "FAILED") /\ UNCHANGED decided[c]
  \/ /\ Goes(c, {"report"}, {"cleanup"}) /\ UNCHANGED <<wrote[c], lost[c]>>
     /\ decided'[c] \/ (UNCHANGED decided[c] /\ link[c] = "gone")
  \/ Goes(c, {"oversize"}, {"close1009"}) /\ Settles(c, "COMPLETED") /\ decided'[c]
  \/ Goes(c, {"cleanup"}, {"close"}) /\ decided[c] /\ Same(c)
  \/ Goes(c, {"cleanup"}, {"close"}) /\ ~decided[c] /\ Settles(c, "COMPLETED") /\ UNCHANGED decided[c]
  \/ Goes(c, {"close"}, {"done"}) /\ Same(c)

LEMMA Suppresses ==
  ASSUME TypeOK, NEW c \in Conns, NEW st \in Stored, Suppressed(c, st)
  PROVE  /\ Settles(c, st)
         /\ \A d \in Conns : d # c => UNCHANGED <<wrote[d], lost[d]>>
<1>1. /\ wrote \in [Conns -> Seq(Stored)] /\ lost \in [Conns -> BOOLEAN]
      /\ status \in [Sessions -> Statuses] /\ sess[c] \in Sessions
  BY DEF TypeOK, VerdictType, StoreType, ControlType
<1>2. CASE /\ UpdateStatusRaises(c, sess[c]) /\ UNCHANGED wrote
           /\ lost' = [lost EXCEPT ![c] = @ \/ outages' # outages]
  <2>1. CASE outages' # outages
    BY <1>1, <1>2, <2>1 DEF Settles
  <2>2. CASE UNCHANGED outages
    <3>1. UpdateStatusMisses(c, sess[c])
      BY <1>2, <2>2 DEF UpdateStatusRaises, Outage, TypeOK, StoreType
    <3>2. lost'[c] = lost[c]
      BY <1>1, <1>2, <2>2
    <3>3. ~Exists(sess[c]) /\ UNCHANGED <<status, wrote>>
      BY <1>2, <3>1 DEF UpdateStatusMisses, Exists, Stored
    <3> QED
      BY <1>1, <1>2, <2>2, <3>2, <3>3 DEF Settles
  <2> QED
    BY <2>1, <2>2
<1>3. CASE SetStatus(sess[c], st) /\ Landed(c, st) /\ UNCHANGED lost
  BY <1>1, <1>3 DEF SetStatus, Landed, Settles
<1> QED
  BY <1>2, <1>3 DEF Suppressed, UpdateStatus, UpdateStatusRaisesLate

LEMMA Edges == TypeOK /\ [Next]_vars => \A d \in Conns : Edge(d)
<1> SUFFICES ASSUME TypeOK, [Next]_vars, NEW d \in Conns PROVE Edge(d)
  OBVIOUS
<1>t. /\ pc \in [Conns -> PCs] /\ decided \in [Conns -> BOOLEAN] /\ lost \in [Conns -> BOOLEAN]
      /\ wrote \in [Conns -> Seq(Stored)]
      /\ status \in [Sessions -> Statuses] /\ sess \in [Conns -> Sessions]
  BY DEF TypeOK, ControlType, VerdictType, StoreType
<1> USE DEF Goto, verdict
<1>1. ASSUME NEW c \in Conns, Connect(c) \/ Message(c) \/ ClientLeaves(c) PROVE Edge(d)
  <2>1. UNCHANGED <<wrote, decided, lost>>
    BY <1>1 DEF Connect, Message, ClientLeaves, ReceiveChunk, ReceiveGarbage, ReceiveOversize,
                ReceiveInvalid, ReceiveCommit, Takes
  <2>2. pc' = pc \/ \E l \in {"authorize", "receive", "lookup", "fail", "oversize", "invalid", "complete", "cleanup"} :
                      pc[c] \in {"offline", "receive"} /\ pc' = [pc EXCEPT ![c] = l]
    BY <1>1 DEF Connect, Message, ClientLeaves, ReceiveChunk, RunSegments, ReceiveGarbage,
                ReceiveOversize, ReceiveInvalid, ReceiveCommit, Takes
  <2> QED
    BY <2>1, <2>2, <1>t DEF Edge, Same, Goes, Streaming, PCs
<1>2. ASSUME NEW c \in Conns, Handle(c) PROVE Edge(d)
  <2>1. CASE \/ Authorize(c) \/ Greet(c) \/ ReceiveDisconnect(c) \/ AnswerInvalid(c)
             \/ Lookup(c) \/ Transcribe(c) \/ SaveTranscription(c) \/ Translate(c)
             \/ SaveTranslation(c) \/ Synthesize(c) \/ EmitFrame(c)
    <3>1. UNCHANGED <<wrote, decided, lost>>
      BY <2>1 DEF Authorize, Greet, ReceiveDisconnect, AnswerInvalid, Lookup, Transcribe, Translate,
                  Engine, SaveTranscription, SaveTranslation, Synthesize, EmitFrame, Fails
    <3>2. \E l \in Streaming \cup {"refuse", "aborted", "complete", "fail", "cleanup"} :
            pc[c] \in Streaming /\ pc' = [pc EXCEPT ![c] = l]
      BY <2>1 DEF Authorize, Greet, ReceiveDisconnect, AnswerInvalid, Lookup, Transcribe, Translate,
                  Engine, SaveTranscription, SaveTranslation, Synthesize, EmitFrame, Fails, Streaming
    <3> QED
      BY <3>1, <3>2, <1>t DEF Edge, Same, Goes
  <2>2. CASE Refuse(c) \/ Farewell(c) \/ Close1009(c) \/ Close(c)
    <3>1. UNCHANGED <<wrote, decided, lost>>
      BY <2>2 DEF Refuse, Farewell, Close1009, Close
    <3>2. \/ pc[c] = "refuse" /\ pc' = [pc EXCEPT ![c] = "refused"]
          \/ pc[c] \in {"farewell", "close1009"} /\ pc' = [pc EXCEPT ![c] = "cleanup"]
          \/ pc[c] = "close" /\ pc' = [pc EXCEPT ![c] = "done"]
      BY <2>2 DEF Refuse, Farewell, Close1009, Close
    <3> QED
      BY <3>1, <3>2, <1>t DEF Edge, Same, Goes
  <2>3. CASE CompleteOnCommit(c)
    <3>1. /\ UNCHANGED lost /\ pc[c] = "complete"
          /\ \/ /\ SetStatus(sess[c], "COMPLETED") /\ Landed(c, "COMPLETED")
                /\ decided' = [decided EXCEPT ![c] = TRUE] /\ pc' = [pc EXCEPT ![c] = "farewell"]
             \/ /\ Landed(c, "COMPLETED") \/ UNCHANGED wrote
                /\ UNCHANGED decided /\ pc' = [pc EXCEPT ![c] = "cleanup"]
      BY <2>3 DEF CompleteOnCommit, UpdateStatus
    <3>2. CASE d # c
      BY <3>1, <3>2, <1>t DEF Landed, Edge, Same
    <3>3. CASE d = c /\ SetStatus(sess[c], "COMPLETED") /\ Landed(c, "COMPLETED")
               /\ decided' = [decided EXCEPT ![c] = TRUE] /\ pc' = [pc EXCEPT ![c] = "farewell"]
      <4>1. Settles(c, "COMPLETED")
        BY <3>1, <3>3, <1>t DEF SetStatus, Landed, Settles
      <4>2. pc'[c] = "farewell" /\ decided'[c]
        BY <3>3, <1>t
      <4> QED
        BY <3>1, <3>3, <4>1, <4>2 DEF Edge, Goes
    <3>4. CASE d = c /\ (Landed(c, "COMPLETED") \/ UNCHANGED wrote)
               /\ UNCHANGED decided /\ pc' = [pc EXCEPT ![c] = "cleanup"]
      <4>1. wrote'[c] \in {wrote[c], Append(wrote[c], "COMPLETED")}
        BY <3>4, <1>t DEF Landed
      <4> QED
        BY <3>1, <3>4, <4>1, <1>t DEF Edge, Goes
    <3> QED
      BY <3>1, <3>2, <3>3, <3>4
  <2>4. CASE FailSession(c) \/ CompleteOversize(c)
    <3> DEFINE st == IF pc[c] = "fail" THEN "FAILED" ELSE "COMPLETED"
    <3>1. /\ Suppressed(c, st) /\ st \in Stored
          /\ \/ pc[c] = "fail" /\ UNCHANGED decided /\ pc' = [pc EXCEPT ![c] = "report"]
             \/ pc[c] = "oversize" /\ decided' = [decided EXCEPT ![c] = TRUE]
                /\ pc' = [pc EXCEPT ![c] = "close1009"]
      BY <2>4 DEF FailSession, CompleteOversize, Stored
    <3>2. Settles(c, st) /\ \A e \in Conns : e # c => UNCHANGED <<wrote[e], lost[e]>>
      BY <3>1, Suppresses
    <3>3. CASE d # c
      BY <3>1, <3>2, <3>3, <1>t DEF Edge, Same
    <3>4. CASE d = c
      BY <3>1, <3>2, <3>4, <1>t DEF Edge, Goes
    <3> QED
      BY <3>3, <3>4
  <2>5. CASE Report(c)
    <3>1. /\ pc[c] = "report" /\ pc' = [pc EXCEPT ![c] = "cleanup"] /\ UNCHANGED <<wrote, lost>>
          /\ decided' = [decided EXCEPT ![c] = TRUE] \/ (UNCHANGED decided /\ link[c] = "gone")
      BY <2>5 DEF Report, SendRaises
    <3> QED
      BY <3>1, <1>t DEF Edge, Goes, Same
  <2>6. CASE Cleanup(c)
    <3>1. pc[c] = "cleanup" /\ pc' = [pc EXCEPT ![c] = "close"] /\ UNCHANGED decided
      BY <2>6 DEF Cleanup
    <3>2. CASE decided[c]
      <4>1. UNCHANGED <<wrote, lost>>
        BY <2>6, <3>2 DEF Cleanup
      <4> QED
        BY <3>1, <3>2, <4>1, <1>t DEF Edge, Goes, Same
    <3>3. CASE ~decided[c]
      <4>1. Settles(c, "COMPLETED") /\ \A e \in Conns : e # c => UNCHANGED <<wrote[e], lost[e]>>
        BY <2>6, <3>3, Suppresses DEF Cleanup, Stored
      <4>2. CASE d # c
        BY <3>1, <4>1, <4>2, <1>t DEF Edge, Same
      <4>3. CASE d = c
        BY <3>1, <3>3, <4>1, <4>3, <1>t DEF Edge, Goes
      <4> QED
        BY <4>2, <4>3
    <3> QED
      BY <3>2, <3>3
  <2> QED
    BY <1>2, <2>1, <2>2, <2>3, <2>4, <2>5, <2>6 DEF Handle
<1>3. CASE Crash
  BY <1>3, <1>t DEF Crash, Edge, Goes, Same
<1>4. CASE Rest \/ UNCHANGED vars
  BY <1>4 DEF Rest, vars, handlerVars, Edge, Same
<1> QED
  BY <1>1, <1>2, <1>3, <1>4 DEF Next
\* Before a handler's terminal write it has written and decided nothing.
Undecided == \A c \in Conns :
  pc[c] \in Streaming \cup {"refuse", "refused", "aborted", "complete", "fail", "oversize"} =>
    wrote[c] = <<>> /\ ~decided[c]

OnlyFailed(c) == \A i \in 1..Len(wrote[c]) : wrote[c][i] = "FAILED"

\* A failure that was reported is decided before the finally block looks.
Reported == \A c \in Conns :
  /\ pc[c] = "report" => OnlyFailed(c)
  /\ Told(c, "pipeline_failed") => /\ pc[c] \in {"cleanup", "close", "done", "crashed"}
                                   /\ pc[c] = "cleanup" => decided[c]
                                   /\ OnlyFailed(c)

\* With something written and nothing decided, the client is gone or it was a completion.
LastWord == \A c \in Conns :
  /\ pc[c] \in {"farewell", "close1009"} => decided[c]
  /\ pc[c] = "cleanup" /\ ~decided[c] /\ wrote[c] # <<>> =>
       link[c] = "gone" \/ wrote[c][Len(wrote[c])] = "COMPLETED"

Verdicts == Undecided /\ Reported /\ LastWord

LEMMA VerdictsInit == Init => Verdicts
BY DEF Init, Verdicts, Undecided, Reported, LastWord, Told

\* What a client has just been told, its handler has just said.
LEMMA ToldStep == TypeOK /\ Shape /\ [Next]_vars => \A c \in Conns :
  /\ Told(c, "pipeline_failed")' =>
       Told(c, "pipeline_failed") \/ (Goes(c, {"report"}, {"cleanup"}) /\ decided'[c])
  /\ Told(c, "session.completed")' =>
       Told(c, "session.completed") \/ Goes(c, {"farewell"}, {"cleanup"})
  /\ Told(c, "session.created")' =>
       Told(c, "session.created") \/ Goes(c, {"greet"}, {"receive"})
  /\ Told(c, "close")' =>
       \/ Told(c, "close") \/ Goes(c, {"refuse"}, {"refused"})
       \/ Goes(c, {"close1009"}, {"cleanup"}) \/ Goes(c, {"close"}, {"done"})
<1> SUFFICES ASSUME TypeOK, Shape, [Next]_vars, NEW c \in Conns
             PROVE  /\ Told(c, "pipeline_failed")' =>
                         Told(c, "pipeline_failed") \/ (Goes(c, {"report"}, {"cleanup"}) /\ decided'[c])
                    /\ Told(c, "session.completed")' =>
                         Told(c, "session.completed") \/ Goes(c, {"farewell"}, {"cleanup"})
                    /\ Told(c, "session.created")' =>
                         Told(c, "session.created") \/ Goes(c, {"greet"}, {"receive"})
                    /\ Told(c, "close")' =>
                         \/ Told(c, "close") \/ Goes(c, {"refuse"}, {"refused"})
                         \/ Goes(c, {"close1009"}, {"cleanup"}) \/ Goes(c, {"close"}, {"done"})
  OBVIOUS
<1>1. ASSUME NEW t, Told(c, t)' PROVE Told(c, t) \/ \E e : Says(c, e) /\ e.type = t
  <2>1. PICK k \in 1..Len(wire'[c]) : wire'[c][k].type = t
    BY <1>1 DEF Told
  <2>2. (k \in 1..Len(wire[c]) /\ wire'[c][k] = wire[c][k]) \/ Says(c, wire'[c][k])
    BY <2>1, Hears
  <2> QED
    BY <2>1, <2>2 DEF Told
<1>2. ASSUME NEW e, Says(c, e), e.type = "pipeline_failed"
      PROVE  Goes(c, {"report"}, {"cleanup"}) /\ decided'[c]
  BY <1>2 DEF Says, Goes, SegmentFrames
<1>3. ASSUME NEW e, Says(c, e), e.type = "session.completed"
      PROVE  Goes(c, {"farewell"}, {"cleanup"})
  BY <1>3 DEF Says, Goes, SegmentFrames
<1>4. ASSUME NEW e, Says(c, e), e.type = "session.created"
      PROVE  Goes(c, {"greet"}, {"receive"})
  BY <1>4 DEF Says, Goes, SegmentFrames
<1>5. ASSUME NEW e, Says(c, e), e.type = "close"
      PROVE  \/ Goes(c, {"refuse"}, {"refused"}) \/ Goes(c, {"close1009"}, {"cleanup"})
             \/ Goes(c, {"close"}, {"done"})
  BY <1>5 DEF Says, Goes, SegmentFrames
<1>6. Told(c, "pipeline_failed")' =>
        Told(c, "pipeline_failed") \/ (Goes(c, {"report"}, {"cleanup"}) /\ decided'[c])
  BY <1>1, <1>2
<1>7. Told(c, "session.completed")' => Told(c, "session.completed") \/ Goes(c, {"farewell"}, {"cleanup"})
  BY <1>1, <1>3
<1>8. Told(c, "session.created")' => Told(c, "session.created") \/ Goes(c, {"greet"}, {"receive"})
  BY <1>1, <1>4
<1>9. Told(c, "close")' =>
        \/ Told(c, "close") \/ Goes(c, {"refuse"}, {"refused"})
        \/ Goes(c, {"close1009"}, {"cleanup"}) \/ Goes(c, {"close"}, {"done"})
  BY <1>1, <1>5
<1> QED
  BY <1>6, <1>7, <1>8, <1>9

\* A transport that is gone stays gone while its handler runs.
LEMMA GoneStays == TypeOK /\ [Next]_vars =>
  \A c \in Conns : link[c] = "gone" /\ pc[c] # "offline" => link'[c] = "gone"
<1> SUFFICES ASSUME TypeOK, [Next]_vars, NEW d \in Conns, link[d] = "gone", pc[d] # "offline"
             PROVE  link'[d] = "gone"
  OBVIOUS
<1>t. link \in [Conns -> {"none", "up", "gone"}]
  BY DEF TypeOK, IoType
<1>1. ASSUME NEW c \in Conns, Handle(c) PROVE UNCHANGED link
  BY <1>1 DEF Handle, Authorize, Refuse, Greet, ReceiveDisconnect, AnswerInvalid, Lookup,
    Transcribe, Translate, Engine, SaveTranscription, SaveTranslation, Synthesize, EmitFrame,
    CompleteOnCommit, FailSession, CompleteOversize, Cleanup, Farewell, Report, Close1009,
    Close, Sends, SendRaises, io
<1>2. ASSUME NEW c \in Conns, Message(c) PROVE UNCHANGED link
  BY <1>2 DEF Message, ReceiveChunk, ReceiveGarbage, ReceiveOversize, ReceiveInvalid,
              ReceiveCommit, Takes, io
<1>3. ASSUME NEW c \in Conns, Connect(c) \/ ClientLeaves(c) PROVE link'[d] = "gone"
  BY <1>3, <1>t DEF Connect, ClientLeaves
<1>4. CASE Rest \/ Crash \/ UNCHANGED vars
  BY <1>4, <1>t DEF Rest, Crash, vars, handlerVars
<1> QED
  BY <1>1, <1>2, <1>3, <1>4 DEF Next

\* Every edge keeps what is known of the verdict.
LEMMA VerdictsStep == TypeOK /\ Shape /\ Verdicts /\ [Next]_vars => Verdicts'
<1> SUFFICES ASSUME TypeOK, Shape, Verdicts, [Next]_vars, NEW c \in Conns
             PROVE  /\ pc'[c] \in Streaming \cup {"refuse", "refused", "aborted", "complete",
                                                 "fail", "oversize"} =>
                         wrote'[c] = <<>> /\ ~decided'[c]
                    /\ pc'[c] = "report" => OnlyFailed(c)'
                    /\ Told(c, "pipeline_failed")' =>
                         /\ pc'[c] \in {"cleanup", "close", "done", "crashed"}
                         /\ pc'[c] = "cleanup" => decided'[c]
                         /\ OnlyFailed(c)'
                    /\ pc'[c] \in {"farewell", "close1009"} => decided'[c]
                    /\ pc'[c] = "cleanup" /\ ~decided'[c] /\ wrote'[c] # <<>> =>
                         link'[c] = "gone" \/ wrote'[c][Len(wrote'[c])] = "COMPLETED"
  BY DEF Verdicts, Undecided, Reported, LastWord
<1>e. Edge(c)
  BY Edges
<1>k. /\ Undecided /\ Reported /\ LastWord
      /\ pc[c] \in PCs /\ wrote[c] \in Seq(Stored) /\ decided[c] \in BOOLEAN
  BY DEF Verdicts, TypeOK, ControlType, VerdictType
<1>g. pc[c] # "offline" /\ link[c] = "gone" => link'[c] = "gone"
  BY GoneStays
<1>t. Told(c, "pipeline_failed")' =>
        Told(c, "pipeline_failed") \/ (Goes(c, {"report"}, {"cleanup"}) /\ decided'[c])
  BY ToldStep
<1>w. /\ UNCHANGED wrote[c] /\ OnlyFailed(c) => OnlyFailed(c)'
      /\ wrote[c] = <<>> /\ wrote'[c] \in {wrote[c], Append(wrote[c], "FAILED")} => OnlyFailed(c)'
      /\ wrote[c] = <<>> => OnlyFailed(c)
  BY DEF OnlyFailed
<1>l. wrote[c] = <<>> /\ wrote'[c] = Append(wrote[c], "COMPLETED") =>
        wrote'[c][Len(wrote'[c])] = "COMPLETED"
  OBVIOUS
<1> USE DEF Same, Goes
<1>1. CASE pc'[c] = pc[c] /\ Same(c)
  BY <1>1, <1>k, <1>g, <1>t, <1>w DEF Undecided, Reported, LastWord, Streaming
<1>2. CASE Goes(c, PCs \ Ended, {"crashed"}) /\ Same(c)
  BY <1>2, <1>k, <1>t, <1>w DEF Undecided, Reported, LastWord, Streaming
<1>3. CASE Goes(c, Streaming, Streaming \cup {"refuse", "aborted", "complete", "fail", "oversize", "cleanup"})
           /\ Same(c)
  BY <1>3, <1>k, <1>t, <1>w DEF Undecided, Reported, LastWord, Streaming
<1>4. CASE Goes(c, {"refuse"}, {"refused"}) /\ Same(c)
  BY <1>4, <1>k, <1>t, <1>w DEF Undecided, Reported, LastWord, Streaming
<1>5. CASE Goes(c, {"complete"}, {"farewell"}) /\ Settles(c, "COMPLETED") /\ decided'[c]
  BY <1>5, <1>k, <1>t DEF Undecided, Reported, LastWord, Streaming
<1>6. CASE /\ Goes(c, {"complete"}, {"cleanup"}) /\ UNCHANGED <<decided[c], lost[c]>>
           /\ wrote'[c] \in {wrote[c], Append(wrote[c], "COMPLETED")}
  BY <1>6, <1>k, <1>t, <1>l DEF Undecided, Reported, LastWord, Streaming
<1>7. CASE Goes(c, {"farewell", "close1009"}, {"cleanup"}) /\ Same(c)
  BY <1>7, <1>k, <1>t, <1>w DEF Undecided, Reported, LastWord, Streaming
<1>8. CASE Goes(c, {"fail"}, {"report"}) /\ Settles(c, "FAILED") /\ UNCHANGED decided[c]
  BY <1>8, <1>k, <1>t, <1>w DEF Undecided, Reported, LastWord, Streaming, Settles
<1>9. CASE /\ Goes(c, {"report"}, {"cleanup"}) /\ UNCHANGED <<wrote[c], lost[c]>>
           /\ decided'[c] \/ (UNCHANGED decided[c] /\ link[c] = "gone")
  BY <1>9, <1>k, <1>g, <1>t, <1>w DEF Undecided, Reported, LastWord, Streaming
<1>10. CASE Goes(c, {"oversize"}, {"close1009"}) /\ Settles(c, "COMPLETED") /\ decided'[c]
  BY <1>10, <1>k, <1>t DEF Undecided, Reported, LastWord, Streaming
<1>11. CASE Goes(c, {"cleanup"}, {"close"}) /\ decided[c] /\ Same(c)
  BY <1>11, <1>k, <1>t, <1>w DEF Undecided, Reported, LastWord, Streaming
<1>12. CASE /\ Goes(c, {"cleanup"}, {"close"}) /\ ~decided[c] /\ Settles(c, "COMPLETED")
            /\ UNCHANGED decided[c]
  BY <1>12, <1>k, <1>t DEF Undecided, Reported, LastWord, Streaming
<1>13. CASE Goes(c, {"close"}, {"done"}) /\ Same(c)
  BY <1>13, <1>k, <1>t, <1>w DEF Undecided, Reported, LastWord, Streaming
<1> QED
  BY <1>e, <1>1, <1>2, <1>3, <1>4, <1>5, <1>6, <1>7, <1>8, <1>9, <1>10, <1>11, <1>12, <1>13 DEF Edge

\* A handler never contradicts the failure it reported.
THEOREM ReportsStand == Spec => []ReportedFailureStands
<1>1. Verdicts => ReportedFailureStands
  BY DEF Verdicts, Reported, ReportedFailureStands, OnlyFailed
<1> QED
  BY <1>1, VerdictsInit, VerdictsStep, Reached, PTL DEF Spec

\* Only a client that left before the error event makes a handler overwrite its FAILED.
THEOREM UndoneOnlyWhenGone == Spec => FailureUndoneOnlyWhenGone
<1>1. TypeOK /\ Verdicts /\ [Next]_vars =>
        [\A c \in Conns : wrote'[c] # wrote[c] /\ wrote[c] # <<>> =>
           link[c] = "gone" \/ wrote[c][Len(wrote[c])] = "COMPLETED"]_vars
  <2> SUFFICES ASSUME TypeOK, Verdicts, [Next]_vars, NEW c \in Conns,
                      wrote'[c] # wrote[c], wrote[c] # <<>>
               PROVE  link[c] = "gone" \/ wrote[c][Len(wrote[c])] = "COMPLETED"
    OBVIOUS
  <2>1. Edge(c)
    BY Edges
  <2>2. pc[c] = "cleanup" /\ ~decided[c]
    BY <2>1 DEF Edge, Same, Goes, Settles, Verdicts, Undecided, Streaming
  <2> QED
    BY <2>2 DEF Verdicts, LastWord
<1> QED
  BY <1>1, VerdictsInit, VerdictsStep, Reached, PTL DEF Spec, FailureUndoneOnlyWhenGone

-------------------------------------------------------------------------------
(* The close *)

\* The session's status landed, or a suppressed write failed.
Settled(c) == status[sess[c]] \notin {"ACTIVE", "absent"} \/ lost[c]

\* Once a handler has written or given up writing, the status is settled; before
\* it listens it has told its client neither that it listens nor that it closed.
Closing == \A c \in Conns :
  /\ pc[c] \in {"report", "farewell", "close1009", "close", "done"} => Settled(c)
  /\ pc[c] = "cleanup" /\ decided[c] => Settled(c)
  /\ Told(c, "close") /\ Told(c, "session.created") => Settled(c)
  /\ pc[c] \in {"offline", "authorize", "greet", "refuse"} =>
       ~Told(c, "close") /\ ~Told(c, "session.created")
  /\ pc[c] = "refused" => ~Told(c, "session.created")
  /\ pc[c] \in Streaming \cup {"complete", "fail", "oversize"} => ~Told(c, "close")

\* No step of a handler, of REST or of the environment unsettles a session.
LEMMA SettledStays == TypeOK /\ [Next]_vars => \A c \in Conns :
  sess'[c] = sess[c] /\ (Settled(c) => Settled(c)')
<1> SUFFICES ASSUME TypeOK, [Next]_vars, NEW d \in Conns
             PROVE  sess'[d] = sess[d] /\ (Settled(d) => Settled(d)')
  OBVIOUS
<1>t. /\ status \in [Sessions -> Statuses] /\ sess \in [Conns -> Sessions]
      /\ lost \in [Conns -> BOOLEAN]
  BY DEF TypeOK, StoreType, ControlType, VerdictType
<1>l. lost[d] => lost'[d]
  <2>1. Edge(d)
    BY Edges
  <2> QED
    BY <2>1 DEF Edge, Same, Settles
<1>w. ASSUME NEW s \in Sessions, NEW st \in {"COMPLETED", "FAILED"}, SetStatus(s, st)
      PROVE  status[sess[d]] \notin {"ACTIVE", "absent"} => status'[sess[d]] \notin {"ACTIVE", "absent"}
  BY <1>w, <1>t DEF SetStatus
<1>s. /\ UNCHANGED sess
      /\ status[sess[d]] \notin {"ACTIVE", "absent"} => status'[sess[d]] \notin {"ACTIVE", "absent"}
  <2>1. ASSUME NEW c \in Conns, Connect(c) \/ Message(c) \/ ClientLeaves(c)
        PROVE  UNCHANGED <<sess, status>>
    BY <2>1 DEF Connect, Message, ClientLeaves, ReceiveChunk, ReceiveGarbage, ReceiveOversize,
                ReceiveInvalid, ReceiveCommit, Takes, fixed, storeVars
  <2>2. ASSUME NEW c \in Conns, Handle(c)
        PROVE  /\ UNCHANGED sess
               /\ \/ UNCHANGED status
                  \/ \E st \in {"COMPLETED", "FAILED"} : SetStatus(sess[c], st)
    <3>1. CASE CompleteOnCommit(c) \/ FailSession(c) \/ CompleteOversize(c) \/ Cleanup(c)
      BY <3>1 DEF CompleteOnCommit, FailSession, CompleteOversize, Cleanup, Suppressed,
         UpdateStatus, UpdateStatusRaisesLate, UpdateStatusRaises, UpdateStatusMisses, Outage,
         fixed, storeVars
    <3>2. CASE ~(CompleteOnCommit(c) \/ FailSession(c) \/ CompleteOversize(c) \/ Cleanup(c))
      BY <2>2, <3>2 DEF Handle, Authorize, Refuse, Greet, ReceiveDisconnect, AnswerInvalid,
         Lookup, Transcribe, Translate, Engine, SaveTranscription, SaveTranslation, Synthesize,
         EmitFrame, Farewell, Report, Close1009, Close, InsertTranscription,
         TranscriptionRaises, InsertTranslation, TranslationRaises, Outage, fixed, storeVars
    <3> QED
      BY <3>1, <3>2
  <2>3. CASE Rest
    BY <2>3, <1>t, <1>w DEF Rest, handlerVars, CreateSession, RestComplete, RestDelete
  <2>4. CASE Crash \/ UNCHANGED vars
    BY <2>4 DEF Crash, vars, handlerVars, storeVars
  <2> QED
    BY <2>1, <2>2, <2>3, <2>4, <1>w, <1>t DEF Next
<1> QED
  BY <1>l, <1>s DEF Settled

LEMMA ClosingInit == Init => Closing
BY DEF Init, Closing, Told, Streaming

\* A coroutine comes to its opening labels only from its opening labels.
LEMMA OpensOnce == TypeOK /\ [Next]_vars => \A c \in Conns :
  pc'[c] \in {"offline", "authorize", "greet", "refuse"} =>
    pc[c] \in {"offline", "authorize", "greet", "refuse"}
<1> SUFFICES ASSUME TypeOK, [Next]_vars, NEW d \in Conns,
                    pc'[d] \in {"offline", "authorize", "greet", "refuse"}
             PROVE  pc[d] \in {"offline", "authorize", "greet", "refuse"}
  OBVIOUS
<1>t. pc \in [Conns -> PCs]
  BY DEF TypeOK, ControlType
<1> USE DEF Goto
<1>1. ASSUME NEW c \in Conns, Connect(c) \/ Message(c) \/ ClientLeaves(c)
      PROVE  pc[d] \in {"offline", "authorize", "greet", "refuse"}
  BY <1>1, <1>t DEF Connect, Message, ClientLeaves, ReceiveChunk, RunSegments, ReceiveGarbage,
     ReceiveOversize, ReceiveInvalid, ReceiveCommit, Takes
<1>2. ASSUME NEW c \in Conns, Handle(c)
      PROVE  pc[d] \in {"offline", "authorize", "greet", "refuse"}
  <2>1. pc[c] = "authorize" \/ \E l \in PCs \ {"offline", "authorize", "greet", "refuse"} :
                                  pc' = [pc EXCEPT ![c] = l]
    BY <1>2 DEF PCs, Handle, Authorize, Refuse, Greet, ReceiveDisconnect, AnswerInvalid, Lookup,
       Transcribe, Translate, Engine, SaveTranscription, SaveTranslation, Synthesize, EmitFrame,
       CompleteOnCommit, FailSession, CompleteOversize, Cleanup, Farewell, Report, Close1009,
       Close, Fails
  <2>2. d # c => pc'[d] = pc[d]
    BY <1>2, <1>t DEF Handle, Authorize, Refuse, Greet, ReceiveDisconnect, AnswerInvalid, Lookup,
       Transcribe, Translate, Engine, SaveTranscription, SaveTranslation, Synthesize, EmitFrame,
       CompleteOnCommit, FailSession, CompleteOversize, Cleanup, Farewell, Report, Close1009,
       Close, Fails
  <2> QED
    BY <2>1, <2>2, <1>t
<1>3. CASE Rest \/ Crash \/ UNCHANGED vars
  BY <1>3, <1>t DEF Rest, Crash, vars, handlerVars
<1> QED
  BY <1>1, <1>2, <1>3 DEF Next

\* A handler settles before it goes where its client can hear of it.
LEMMA ClosingStep == TypeOK /\ Shape /\ NotYet /\ Verdicts /\ Closing /\ [Next]_vars => Closing'
<1> SUFFICES ASSUME TypeOK, Shape, NotYet, Verdicts, Closing, [Next]_vars, NEW c \in Conns
             PROVE  /\ pc'[c] \in {"report", "farewell", "close1009", "close", "done"} => Settled(c)'
                    /\ pc'[c] = "cleanup" /\ decided'[c] => Settled(c)'
                    /\ Told(c, "close")' /\ Told(c, "session.created")' => Settled(c)'
                    /\ pc'[c] \in {"offline", "authorize", "greet", "refuse"} =>
                         ~Told(c, "close")' /\ ~Told(c, "session.created")'
                    /\ pc'[c] = "refused" => ~Told(c, "session.created")'
                    /\ pc'[c] \in Streaming \cup {"complete", "fail", "oversize"} => ~Told(c, "close")'
  BY DEF Closing
<1>e. Edge(c)
  BY Edges
<1>s. sess'[c] = sess[c] /\ (Settled(c) => Settled(c)')
  BY SettledStays
<1>c. /\ Told(c, "session.created")' =>
           Told(c, "session.created") \/ Goes(c, {"greet"}, {"receive"})
      /\ Told(c, "close")' =>
           \/ Told(c, "close") \/ Goes(c, {"refuse"}, {"refused"})
           \/ Goes(c, {"close1009"}, {"cleanup"}) \/ Goes(c, {"close"}, {"done"})
  BY ToldStep
<1>t. pc \in [Conns -> PCs] /\ decided[c] \in BOOLEAN
  BY DEF TypeOK, ControlType, VerdictType
<1>k. /\ pc[c] \in {"report", "farewell", "close1009", "close", "done"} => Settled(c)
      /\ pc[c] = "cleanup" /\ decided[c] => Settled(c)
      /\ Told(c, "close") /\ Told(c, "session.created") => Settled(c)
      /\ pc[c] \in {"offline", "authorize", "greet", "refuse"} =>
           ~Told(c, "close") /\ ~Told(c, "session.created")
      /\ pc[c] = "refused" => ~Told(c, "session.created")
      /\ pc[c] \in Streaming \cup {"complete", "fail", "oversize"} => ~Told(c, "close")
  BY DEF Closing
\* The one write settles: it failed, or landed, or the session was deleted.
<1>w. ASSUME NEW st \in {"COMPLETED", "FAILED"}, Settles(c, st), pc[c] # "offline"
      PROVE  Settled(c)'
  <2>1. status[sess[c]] # "absent" /\ status \in [Sessions -> Statuses] /\ sess[c] \in Sessions
    BY <1>w DEF NotYet, TypeOK, StoreType, ControlType
  <2> QED
    BY <1>w, <1>s, <2>1 DEF Settles, Settled, Exists, Stored, Statuses
<1>o. pc'[c] \in {"offline", "authorize", "greet", "refuse"} =>
        pc[c] \in {"offline", "authorize", "greet", "refuse"}
  BY OpensOnce
\* What it told before the step and what it tells in it, edge by edge.
<1> USE DEF Same, Goes
<1>1. pc'[c] \in {"report", "farewell", "close1009", "close", "done"} => Settled(c)'
  BY <1>e, <1>s, <1>k, <1>w DEF Edge, Streaming, Ended
<1>2. pc'[c] = "cleanup" /\ decided'[c] => Settled(c)'
  <2>1. pc[c] \in Streaming \cup {"complete"} => ~decided[c]
    BY DEF Verdicts, Undecided
  <2> QED
    BY <1>e, <1>s, <1>k, <1>t, <2>1 DEF Edge, Streaming, Ended
<1>3. Told(c, "close")' /\ Told(c, "session.created")' => Settled(c)'
  BY <1>c, <1>s, <1>k DEF Streaming
<1>4. pc'[c] \in {"offline", "authorize", "greet", "refuse"} =>
        ~Told(c, "close")' /\ ~Told(c, "session.created")'
  BY <1>c, <1>k, <1>o
<1>5. pc'[c] = "refused" => ~Told(c, "session.created")'
  BY <1>c, <1>e, <1>k DEF Edge, Streaming, Ended
<1>6. pc'[c] \in Streaming \cup {"complete", "fail", "oversize"} => ~Told(c, "close")'
  BY <1>c, <1>e, <1>k DEF Edge, Streaming, Ended
<1> QED
  BY <1>1, <1>2, <1>3, <1>4, <1>5, <1>6

\* A client that saw the close, and anyone once the handler is done, finds the
\* session settled unless a suppressed write failed.
THEOREM CloseSettles == Spec => []CloseMeansSettled
<1>1. Closing => CloseMeansSettled
  BY DEF Closing, CloseMeansSettled, Settled
<1> QED
  BY <1>1, ClosingInit, ClosingStep, VerdictsInit, VerdictsStep, Reached, PTL DEF Spec, RowInv

-------------------------------------------------------------------------------
(* The rows of a segment *)

Inserts(c) ==
  /\ pc[c] = "transcription" /\ pc'[c] \in {"mt", "fail"} /\ Exists(sess[c])
  /\ transcriptions' = transcriptions \cup {RowOf(c)} /\ UNCHANGED <<translations, status>>

Translates(c) ==
  /\ pc[c] = "translation" /\ pc'[c] = "tts" /\ RowOf(c) \in transcriptions
  /\ translations' = translations \cup {RowOf(c)} /\ UNCHANGED <<transcriptions, status>>

Deletes(s) ==
  /\ transcriptions' = { r \in transcriptions : r.session # s }
  /\ translations' = { r \in translations : r.session # s }
  /\ ~Exists(s)'

\* The ways a step can touch the tables ...
TableStep == \/ UNCHANGED tables
             \/ \E c \in Conns : Inserts(c) \/ Translates(c)
             \/ \E s \in Sessions : Deletes(s)

\* ... and the sessions: one that exists goes only with its rows, and none comes back.
Lives(s) == /\ Exists(s) /\ ~Exists(s)' => Deletes(s)
            /\ status[s] # "absent" => status'[s] # "absent" /\ (Exists(s)' => Exists(s))

\* The labels at which every segment a handler numbered is on its way or stored.
Working == Streaming \cup {"complete", "farewell"}

\* The handler as an automaton over the segment under way.
Flow(c) ==
  \/ /\ UNCHANGED <<index[c], emitted[c]>>
     /\ \/ pc'[c] = pc[c]
        \/ pc'[c] \in {"fail", "crashed"}
        \/ Goes(c, PCs \ {"mt", "translation"}, PCs \ Working)
        \/ Goes(c, {"offline", "authorize", "greet", "receive", "invalid", "emit", "tts"},
                   {"authorize", "greet", "receive", "invalid", "lookup", "emit", "complete"})
        \/ Goes(c, {"asr"}, {"transcription"})
        \/ Goes(c, {"transcription"}, {"mt"}) /\ Inserts(c)
        \/ Goes(c, {"mt"}, {"translation"})
        \/ Goes(c, {"translation"}, {"tts"}) /\ Translates(c)
        \/ Goes(c, {"complete"}, {"farewell"})
  \/ Goes(c, {"lookup"}, {"asr"}) /\ index'[c] = emitted[c] /\ emitted'[c] = emitted[c] + 1

\* Every step of the system is one of these for each part of it.
LEMMA Flows == TypeOK /\ [Next]_vars =>
  TableStep /\ (\A s \in Sessions : Lives(s)) /\ \A c \in Conns : Flow(c)
<1> SUFFICES ASSUME TypeOK, [Next]_vars
             PROVE  TableStep /\ (\A s \in Sessions : Lives(s)) /\ \A d \in Conns : Flow(d)
  OBVIOUS
<1>t. /\ pc \in [Conns -> PCs] /\ sess \in [Conns -> Sessions]
      /\ index \in [Conns -> Nat] /\ emitted \in [Conns -> Nat]
      /\ status \in [Sessions -> Statuses]
  BY DEF TypeOK, ControlType, WorkType, StoreType
<1> DEFINE All == TableStep /\ (\A s \in Sessions : Lives(s)) /\ \A d \in Conns : Flow(d)
<1>0. UNCHANGED status => \A s \in Sessions : Lives(s)
  BY DEF Lives, Exists
<1>k. ASSUME NEW s \in Sessions, NEW st \in Stored, Exists(s), status' = [status EXCEPT ![s] = st]
      PROVE  \A q \in Sessions : Lives(q)
  BY <1>k, <1>t DEF Lives, Exists, Stored
<1> USE DEF Goto, tables
<1>1. ASSUME NEW c \in Conns, Connect(c) \/ Message(c) \/ ClientLeaves(c) PROVE All
  <2>1. UNCHANGED <<status, transcriptions, translations, index, emitted>>
    BY <1>1 DEF Connect, Message, ClientLeaves, ReceiveChunk, ReceiveGarbage, ReceiveOversize,
                ReceiveInvalid, ReceiveCommit, Takes, storeVars, work
  <2>2. pc' = pc \/ \E l \in {"authorize", "receive", "lookup", "fail", "oversize", "invalid", "complete", "cleanup"} :
                      pc[c] \in {"offline", "receive"} /\ pc' = [pc EXCEPT ![c] = l]
    BY <1>1 DEF Connect, Message, ClientLeaves, ReceiveChunk, RunSegments, ReceiveGarbage,
                ReceiveOversize, ReceiveInvalid, ReceiveCommit, Takes
  <2>3. \A d \in Conns : Flow(d)
    BY <2>1, <2>2, <1>t DEF Flow, Goes, Working, Streaming, PCs
  <2> QED
    BY <2>1, <2>3, <1>0 DEF TableStep
<1>2. ASSUME NEW c \in Conns, Handle(c) PROVE All
  <2>1. CASE \/ Authorize(c) \/ Refuse(c) \/ Greet(c) \/ ReceiveDisconnect(c) \/ AnswerInvalid(c)
             \/ Transcribe(c) \/ Translate(c) \/ Synthesize(c) \/ EmitFrame(c)
             \/ Farewell(c) \/ Report(c) \/ Close1009(c) \/ Close(c)
    <3>1. UNCHANGED <<status, transcriptions, translations, index, emitted>>
      BY <2>1 DEF Authorize, Refuse, Greet, ReceiveDisconnect, AnswerInvalid, Transcribe,
         Translate, Engine, Synthesize, EmitFrame, Farewell, Report, Close1009, Close, Fails,
         Outage, storeVars, work
    <3>2. \/ /\ pc[c] \in {"authorize", "greet", "receive", "invalid", "emit", "tts"}
             /\ \E l \in {"greet", "receive", "lookup", "emit", "complete", "cleanup", "fail",
                          "refuse", "aborted"} : pc' = [pc EXCEPT ![c] = l]
          \/ pc[c] = "asr" /\ \E l \in {"transcription", "fail"} : pc' = [pc EXCEPT ![c] = l]
          \/ pc[c] = "mt" /\ \E l \in {"translation", "fail"} : pc' = [pc EXCEPT ![c] = l]
          \/ /\ pc[c] \in {"refuse", "farewell", "report", "close1009", "close"}
             /\ \E l \in {"refused", "cleanup", "done"} : pc' = [pc EXCEPT ![c] = l]
      BY <2>1 DEF Authorize, Refuse, Greet, ReceiveDisconnect, AnswerInvalid, Transcribe,
         Translate, Engine, Synthesize, EmitFrame, Farewell, Report, Close1009, Close, Fails
    <3>3. \A d \in Conns : Flow(d)
      <4> SUFFICES ASSUME NEW d \in Conns PROVE Flow(d)
        OBVIOUS
      <4>1. CASE d # c
        BY <3>1, <3>2, <4>1, <1>t DEF Flow
      <4>2. CASE d = c
        BY <3>1, <3>2, <4>2, <1>t DEF Flow, Goes, Working, Streaming, PCs
      <4> QED
        BY <4>1, <4>2
    <3> QED
      BY <3>1, <3>3, <1>0 DEF TableStep
  <2>2. CASE Lookup(c)
    <3>1. UNCHANGED <<status, transcriptions, translations>>
      BY <2>2 DEF Lookup, Fails, Outage, storeVars
    <3>2. \/ /\ pc[c] = "lookup" /\ pc' = [pc EXCEPT ![c] = "asr"]
             /\ index' = [index EXCEPT ![c] = emitted[c]]
             /\ emitted' = [emitted EXCEPT ![c] = emitted[c] + 1]
          \/ pc' = [pc EXCEPT ![c] = "fail"] /\ UNCHANGED <<index, emitted>>
      BY <2>2 DEF Lookup, Fails, work
    <3>3. \A d \in Conns : Flow(d)
      BY <3>2, <1>t DEF Flow, Goes, Working, Streaming
    <3> QED
      BY <3>1, <3>3, <1>0 DEF TableStep
  <2>3. CASE SaveTranscription(c)
    <3>1. /\ UNCHANGED <<status, translations, index, emitted>> /\ pc[c] = "transcription"
          /\ \E l \in {"mt", "fail"} :
               /\ pc' = [pc EXCEPT ![c] = l]
               /\ \/ transcriptions' = transcriptions /\ l = "fail"
                  \/ transcriptions' = transcriptions \cup {RowOf(c)} /\ Exists(sess[c])
      BY <2>3 DEF SaveTranscription, InsertTranscription, TranscriptionRaises, Fails, Outage,
         MayInsert, RowOf, work
    <3>2. UNCHANGED transcriptions \/ Inserts(c)
      BY <3>1, <1>t DEF Inserts
    <3>3. \A d \in Conns : Flow(d)
      BY <3>1, <3>2, <1>t DEF Flow, Goes, Working, Streaming, Inserts
    <3> QED
      BY <3>1, <3>2, <3>3, <1>0 DEF TableStep
  <2>4. CASE SaveTranslation(c)
    <3>1. /\ UNCHANGED <<status, transcriptions, index, emitted>> /\ pc[c] = "translation"
          /\ \/ UNCHANGED translations /\ pc' = [pc EXCEPT ![c] = "fail"]
             \/ /\ RowOf(c) \in transcriptions /\ pc' = [pc EXCEPT ![c] = "tts"]
                /\ translations' = translations \cup {RowOf(c)}
      BY <2>4 DEF SaveTranslation, InsertTranslation, TranslationRaises, Fails, Outage, work
    <3>2. UNCHANGED translations \/ Translates(c)
      BY <3>1, <1>t DEF Translates
    <3>3. \A d \in Conns : Flow(d)
      BY <3>1, <1>t DEF Flow, Goes, Working, Streaming, Translates
    <3> QED
      BY <3>1, <3>2, <3>3, <1>0 DEF TableStep
  <2>5. CASE CompleteOnCommit(c) \/ FailSession(c) \/ CompleteOversize(c) \/ Cleanup(c)
    <3>1. /\ UNCHANGED <<transcriptions, translations, index, emitted>>
          /\ UNCHANGED status \/ \E st \in Stored : SetStatus(sess[c], st)
      BY <2>5 DEF CompleteOnCommit, FailSession, CompleteOversize, Cleanup, Suppressed,
         UpdateStatus, UpdateStatusRaisesLate, UpdateStatusRaises, UpdateStatusMisses, Outage,
         storeVars, work, Stored
    <3>2. \/ pc[c] = "complete" /\ \E l \in {"farewell", "cleanup"} : pc' = [pc EXCEPT ![c] = l]
          \/ /\ pc[c] \in {"fail", "oversize", "cleanup"}
             /\ \E l \in {"report", "close1009", "close"} : pc' = [pc EXCEPT ![c] = l]
      BY <2>5 DEF CompleteOnCommit, FailSession, CompleteOversize, Cleanup
    <3>3. \A d \in Conns : Flow(d)
      BY <3>1, <3>2, <1>t DEF Flow, Goes, Working, Streaming, PCs
    <3>4. \A s \in Sessions : Lives(s)
      BY <3>1, <1>0, <1>k, <1>t DEF SetStatus
    <3> QED
      BY <3>1, <3>3, <3>4 DEF TableStep
  <2> QED
    BY <1>2, <2>1, <2>2, <2>3, <2>4, <2>5 DEF Handle
<1>3. CASE Rest
  <2>1. \A d \in Conns : Flow(d)
    BY <1>3 DEF Rest, handlerVars, Flow
  <2>2. PICK s \in Sessions : CreateSession(s) \/ RestComplete(s) \/ RestDelete(s)
    BY <1>3 DEF Rest
  <2>3. CASE CreateSession(s) \/ RestComplete(s)
    BY <2>1, <2>3, <1>t, <1>k DEF CreateSession, RestComplete, SetStatus, TableStep, Lives,
       Exists, Stored
  <2>4. CASE RestDelete(s)
    BY <2>1, <2>4, <1>t DEF RestDelete, TableStep, Deletes, Lives, Exists, Stored
  <2> QED
    BY <2>2, <2>3, <2>4
<1>4. CASE Crash \/ UNCHANGED vars
  <2>1. /\ UNCHANGED <<status, transcriptions, translations, index, emitted>>
        /\ \A d \in Conns : pc'[d] = pc[d] \/ pc'[d] = "crashed"
    BY <1>4 DEF Crash, vars, handlerVars, storeVars, work
  <2> QED
    BY <2>1, <1>0 DEF TableStep, Flow, Working, Streaming
<1> QED
  BY <1>1, <1>2, <1>3, <1>4 DEF Next

\* A transcription is its writer's, and its session is still there.
Owned == \A r \in transcriptions :
  r.session = sess[r.by] /\ Exists(r.session) /\ r.index < emitted[r.by]

\* The foreign key of a translation.
Referring == translations \subseteq transcriptions

\* How many of its segments a working handler has translated.
Translated(c) == IF pc[c] \in {"asr", "transcription", "mt", "translation"}
                 THEN index[c] ELSE emitted[c]

AllTranslated == \A c \in Conns : Exists(sess[c]) /\ pc[c] \in Working =>
  \A i \in 0..(Translated(c) - 1) : [session |-> sess[c], index |-> i, by |-> c] \in translations

HasFailed(c) == \E i \in 1..Len(wrote[c]) : wrote[c][i] = "FAILED"

\* A transcription without its translation is the segment under way, or its
\* handler failed on it.
Blamed == \A r \in transcriptions \ translations :
  \/ pc[r.by] \in {"mt", "translation"} /\ r.index = index[r.by]
  \/ pc[r.by] \in {"fail", "crashed"}
  \/ pc[r.by] \in {"report", "cleanup", "close", "done"} /\ (lost[r.by] \/ HasFailed(r.by))

Tables == Owned /\ Referring /\ AllTranslated /\ Blamed

LEMMA TablesInit == Init => Tables
BY DEF Init, StoreInit, Tables, Owned, Referring, AllTranslated, Blamed, Translated, Working,
       Streaming, Exists, Stored


\* The rows of a session that is still there stay; a row that stays keeps its translation.
LEMMA RowsStay == TypeOK /\ TableStep =>
  /\ \A r \in translations : Exists(r.session)' => r \in translations'
  /\ \A r \in transcriptions' : r \in translations => r \in translations'
BY DEF TableStep, tables, Inserts, Translates, Deletes, TypeOK, StoreType, Row

\* A row that is new was inserted by its handler.
LEMMA NewRow == TableStep => \A r \in transcriptions' :
  r \in transcriptions \/ \E c \in Conns : Inserts(c) /\ r = RowOf(c)
BY DEF TableStep, tables, Inserts, Translates, Deletes

LEMMA OwnedStep == TypeOK /\ RowInv /\ Owned /\ Referring /\ [Next]_vars => Owned' /\ Referring'
<1> SUFFICES ASSUME TypeOK, RowInv, Owned, Referring, [Next]_vars PROVE Owned' /\ Referring'
  OBVIOUS
<1>f. TableStep /\ (\A s \in Sessions : Lives(s)) /\ \A c \in Conns : Flow(c)
  BY Flows
<1>t. /\ transcriptions \subseteq Row
      /\ sess \in [Conns -> Sessions] /\ index \in [Conns -> Nat] /\ emitted \in [Conns -> Nat]
  BY DEF TypeOK, ControlType, StoreType, WorkType
<1>s. \A c \in Conns : sess'[c] = sess[c]
  BY SettledStays
<1>e. \A c \in Conns : emitted'[c] \in Nat /\ emitted'[c] >= emitted[c]
  BY <1>f, <1>t DEF Flow
<1>1. ASSUME NEW r \in transcriptions'
      PROVE  r.session = sess'[r.by] /\ Exists(r.session)' /\ r.index < emitted'[r.by]
  <2>1. CASE r \in transcriptions
    <3>1. r \in Row /\ r.session = sess[r.by] /\ Exists(r.session) /\ r.index < emitted[r.by]
      BY <2>1, <1>t DEF Owned
    <3>2. r.session \in Sessions /\ r.by \in Conns /\ r.index \in Nat
      BY <3>1 DEF Row
    <3>3. Exists(r.session)'
      BY <1>1, <1>f, <3>1, <3>2 DEF Lives, Deletes
    <3> QED
      BY <3>1, <3>2, <3>3, <1>s, <1>e, <1>t
  <2>2. CASE r \notin transcriptions
    <3>1. PICK c \in Conns : Inserts(c) /\ r = RowOf(c)
      BY <2>2, <1>f, NewRow
    <3>2. r.session = sess[c] /\ r.by = c /\ r.index = index[c]
      BY <3>1 DEF RowOf
    <3>3. emitted[c] = index[c] + 1
      BY <3>1 DEF RowInv, IndexTaken, Inserts
    <3>4. Exists(r.session)'
      BY <3>1, <3>2 DEF Inserts, Exists
    <3> QED
      BY <3>2, <3>3, <3>4, <1>s, <1>e, <1>t
  <2> QED
    BY <2>1, <2>2
<1>2. Referring'
  BY <1>f DEF TableStep, tables, Inserts, Translates, Deletes, Referring
<1> QED
  BY <1>1, <1>2 DEF Owned

\* A handler that goes on has translated what it numbered.
LEMMA TranslatedStep == TypeOK /\ RowInv /\ AllTranslated /\ [Next]_vars => AllTranslated'
<1> SUFFICES ASSUME TypeOK, RowInv, AllTranslated, [Next]_vars, NEW c \in Conns,
                    Exists(sess[c])', pc'[c] \in Working, NEW i \in 0..(Translated(c)' - 1)
             PROVE  [session |-> sess[c], index |-> i, by |-> c]' \in translations'
  BY DEF AllTranslated
<1>f. TableStep /\ Lives(sess[c]) /\ Flow(c)
  BY Flows DEF TypeOK, ControlType
<1>t. /\ pc[c] \in PCs /\ sess[c] \in Sessions /\ index[c] \in Nat /\ emitted[c] \in Nat
      /\ translations \subseteq Row
  BY DEF TypeOK, ControlType, StoreType, WorkType
<1>s. sess'[c] = sess[c]
  BY SettledStays
<1> DEFINE row == [session |-> sess[c], index |-> i, by |-> c]
<1>n. /\ status[sess[c]] = "absent" => pc[c] = "offline"
      /\ pc[c] = "offline" => emitted[c] = 0
      /\ pc[c] \in {"asr", "transcription", "mt", "translation", "tts"} => emitted[c] = index[c] + 1
  BY DEF RowInv, NotYet, IndexTaken
<1>w. pc[c] \in Working
  BY <1>f, <1>t DEF Flow, Goes, Working, Streaming
<1>o. pc[c] # "offline"
  BY <1>f, <1>n, <1>t DEF Flow, Goes, Translated, Working, Streaming
<1>x. Exists(sess[c])
  BY <1>f, <1>n, <1>o, <1>s DEF Lives
<1>g. \/ Translated(c)' = Translated(c)
      \/ Translates(c) /\ Translated(c)' = Translated(c) + 1 /\ Translated(c) = index[c]
  BY <1>f, <1>n, <1>t, <1>w DEF Flow, Goes, Translated, Working, Streaming
<1>1. CASE i \in 0..(Translated(c) - 1)
  <2>1. row \in translations
    BY <1>1, <1>x, <1>w DEF AllTranslated
  <2>2. row.session = sess[c]
    OBVIOUS
  <2> QED
    BY <2>1, <2>2, <1>f, <1>s, RowsStay
<1>2. CASE i \notin 0..(Translated(c) - 1)
  <2>1. Translated(c) \in Nat
    BY <1>t DEF Translated
  <2>2. Translates(c) /\ i = index[c]
    BY <1>2, <1>g, <2>1
  <2> QED
    BY <2>2, <1>s DEF Translates, RowOf
<1> QED
  BY <1>1, <1>2

\* A handler leaves a transcription untranslated only by failing on it.
LEMMA BlamedStep == TypeOK /\ RowInv /\ Owned /\ Blamed /\ [Next]_vars => Blamed'
<1> SUFFICES ASSUME TypeOK, RowInv, Owned, Blamed, [Next]_vars,
                    NEW r \in transcriptions', r \notin translations'
             PROVE  \/ pc'[r.by] \in {"mt", "translation"} /\ r.index = index'[r.by]
                    \/ pc'[r.by] \in {"fail", "crashed"}
                    \/ /\ pc'[r.by] \in {"report", "cleanup", "close", "done"}
                       /\ lost'[r.by] \/ HasFailed(r.by)'
  BY DEF Blamed
<1>f. TableStep /\ \A c \in Conns : Flow(c)
  BY Flows
<1>1. CASE r \notin transcriptions
  <2>1. PICK c \in Conns : Inserts(c) /\ r = RowOf(c)
    BY <1>1, <1>f, NewRow
  <2>2. r.by = c /\ r.index = index[c]
    BY <2>1 DEF RowOf
  <2>3. index'[c] = index[c]
    BY <2>1, <1>f DEF Flow, Goes, Inserts
  <2> QED
    BY <2>1, <2>2, <2>3 DEF Inserts
<1>2. CASE r \in transcriptions
  <2> DEFINE c == r.by
  <2>1. r \in Row /\ c \in Conns /\ r.session = sess[c] /\ Exists(sess[c])
    BY <1>2 DEF Owned, TypeOK, StoreType, Row
  <2>2. r \notin translations
    BY <1>f, RowsStay
  <2>3. \/ pc[c] \in {"mt", "translation"} /\ r.index = index[c]
        \/ pc[c] \in {"fail", "crashed"}
        \/ pc[c] \in {"report", "cleanup", "close", "done"} /\ (lost[c] \/ HasFailed(c))
    BY <1>2, <2>2 DEF Blamed
  <2>4. Edge(c) /\ Flow(c)
    BY <2>1, <1>f, Edges
  <2>5. wrote[c] \in Seq(Stored) /\ pc[c] \in PCs /\ lost[c] \in BOOLEAN
    BY <2>1 DEF TypeOK, VerdictType, ControlType
  <2> HIDE DEF c
  <2>6. CASE pc[c] \in {"mt", "translation"} /\ r.index = index[c]
    <3>1. ~Translates(c)
      <4>1. SUFFICES ASSUME Translates(c) PROVE FALSE
        OBVIOUS
      <4>2. r = RowOf(c)
        BY <2>1, <2>6 DEF RowOf, Row, c
      <4> QED
        BY <4>1, <4>2 DEF Translates
    <3>2. pc'[c] \in {"mt", "translation", "fail", "crashed"} /\ index'[c] = index[c]
      BY <2>4, <2>6, <3>1 DEF Flow, Edge, Goes, Working, Streaming, Ended
    <3> QED
      BY <2>6, <3>2 DEF c
  <2>7. CASE pc[c] = "crashed"
    <3>1. pc'[c] = "crashed"
      BY <2>4, <2>7 DEF Edge, Goes, Streaming, Ended
    <3> QED
      BY <3>1 DEF c
  <2>8. CASE pc[c] = "fail"
    <3>1. pc'[c] \in {"fail", "crashed"} \/ (pc'[c] = "report" /\ Settles(c, "FAILED"))
      BY <2>4, <2>8 DEF Edge, Goes, Streaming, Ended
    <3>2. Settles(c, "FAILED") => lost'[c] \/ HasFailed(c)'
      <4>1. /\ Append(wrote[c], "FAILED")[Len(wrote[c]) + 1] = "FAILED"
            /\ Len(wrote[c]) + 1 \in 1..Len(Append(wrote[c], "FAILED"))
        BY <2>5
      <4> QED
        BY <4>1, <2>1 DEF Settles, HasFailed
    <3> QED
      BY <3>1, <3>2 DEF c
  <2>9. CASE pc[c] \in {"report", "cleanup", "close", "done"} /\ (lost[c] \/ HasFailed(c))
    <3>1. pc'[c] \in {"report", "cleanup", "close", "done", "crashed"}
      BY <2>4, <2>9 DEF Edge, Goes, Streaming, Ended
    <3>2. lost[c] => lost'[c]
      BY <2>4 DEF Edge, Same, Settles
    <3>3. wrote'[c] \in {wrote[c], Append(wrote[c], "COMPLETED"), Append(wrote[c], "FAILED")}
      BY <2>4 DEF Edge, Same, Settles
    <3>4. HasFailed(c) => HasFailed(c)'
      <4> SUFFICES ASSUME NEW i \in 1..Len(wrote[c]), wrote[c][i] = "FAILED"
                   PROVE  i \in 1..Len(wrote'[c]) /\ wrote'[c][i] = "FAILED"
        BY DEF HasFailed
      <4> QED
        BY <3>3, <2>5
    <3> QED
      BY <2>9, <3>1, <3>2, <3>4 DEF c
  <2> QED
    BY <2>3, <2>6, <2>7, <2>8, <2>9
<1> QED
  BY <1>1, <1>2

\* The row invariant of the handler, with what it rests on.
Kept == RowInv /\ Counts /\ Numbered /\ Tables

LEMMA KeptStep == TypeOK /\ Shape /\ TypeOK' /\ Kept /\ [Next]_vars => Kept'
BY RowInvStep, CountsStep, OwnedStep, TranslatedStep, BlamedStep DEF Kept, Tables

\* A transcription without a translation is a failure's, once its handler is done.
THEOREM UntranslatedFails == Spec => []UntranslatedMeansFailed
<1>1. Blamed => UntranslatedMeansFailed
  BY DEF Blamed, UntranslatedMeansFailed, HasFailed
<1> QED
  BY <1>1, TypeCorrect, Reached, RowInvInit, CountsInit, TablesInit, KeptStep, PTL
     DEF Spec, Kept, Tables

\* A segment that was announced is stored, in a session that is or was there.
Delivered == \A c \in Conns : \A k \in 1..Len(wire[c]) :
  wire[c][k].type = "transcription.completed" =>
    /\ status[sess[c]] # "absent"
    /\ Exists(sess[c]) => [session |-> sess[c], index |-> wire[c][k].n, by |-> c] \in translations

\* A client that was told a total was told every segment its handler numbered,
\* and each is stored, in a session that is or was there.
TotalTold == \A c \in Conns : \A k \in 1..Len(wire[c]) :
  wire[c][k].type = "session.completed" =>
    /\ pc[c] \in {"cleanup", "close", "done", "crashed"} /\ wire[c][k].n = emitted[c]
    /\ status[sess[c]] # "absent"
    /\ Exists(sess[c]) => \A i \in 0..(emitted[c] - 1) :
                            [session |-> sess[c], index |-> i, by |-> c] \in translations

LEMMA DeliveredInit == Init => Delivered /\ TotalTold
BY DEF Init, Delivered, TotalTold

\* What a session keeps from one step to the next, seen by one connection.
LEMMA RowsKept == TypeOK /\ [Next]_vars => \A c \in Conns : status[sess[c]] # "absent" =>
  /\ sess'[c] = sess[c] /\ status'[sess[c]] # "absent"
  /\ Exists(sess[c])' => /\ Exists(sess[c])
                         /\ \A i : [session |-> sess[c], index |-> i, by |-> c] \in translations =>
                              [session |-> sess[c], index |-> i, by |-> c] \in translations'
<1> SUFFICES ASSUME TypeOK, [Next]_vars, NEW c \in Conns, status[sess[c]] # "absent"
             PROVE  /\ sess'[c] = sess[c] /\ status'[sess[c]] # "absent"
                    /\ Exists(sess[c])' =>
                         /\ Exists(sess[c])
                         /\ \A i : [session |-> sess[c], index |-> i, by |-> c] \in translations =>
                              [session |-> sess[c], index |-> i, by |-> c] \in translations'
  OBVIOUS
<1>1. TableStep /\ Lives(sess[c])
  BY Flows DEF TypeOK, ControlType
<1>2. sess'[c] = sess[c]
  BY SettledStays
<1>3. \A i : [session |-> sess[c], index |-> i, by |-> c].session = sess[c]
  OBVIOUS
<1> QED
  BY <1>1, <1>2, <1>3, RowsStay DEF Lives

\* What is on its way to the client is stored already, and what it heard of stays.
LEMMA DeliveredStep == TypeOK /\ Shape /\ Kept /\ Delivered /\ [Next]_vars => Delivered'
<1> SUFFICES ASSUME TypeOK, Shape, Kept, Delivered, [Next]_vars, NEW c \in Conns,
                    NEW k \in 1..Len(wire'[c]), wire'[c][k].type = "transcription.completed"
             PROVE  /\ status'[sess'[c]] # "absent"
                    /\ Exists(sess[c])' =>
                         [session |-> sess'[c], index |-> wire'[c][k].n, by |-> c] \in translations'
  BY DEF Delivered
<1>1. \/ k \in 1..Len(wire[c]) /\ wire'[c][k] = wire[c][k]
      \/ Says(c, wire'[c][k])
  BY Hears
<1>2. status[sess[c]] # "absent" =>
        /\ sess'[c] = sess[c] /\ status'[sess[c]] # "absent"
        /\ Exists(sess[c])' =>
             /\ Exists(sess[c])
             /\ \A i : [session |-> sess[c], index |-> i, by |-> c] \in translations =>
                  [session |-> sess[c], index |-> i, by |-> c] \in translations'
  BY RowsKept
<1>3. CASE k \in 1..Len(wire[c]) /\ wire'[c][k] = wire[c][k]
  BY <1>2, <1>3 DEF Delivered
<1>4. CASE Says(c, wire'[c][k])
  <2>1. pc[c] = "emit" /\ wire'[c][k].n = Head(results[c]).index
    BY <1>4 DEF Says
  <2>2. status[sess[c]] # "absent"
    BY <2>1 DEF Kept, RowInv, NotYet
  <2>3. /\ results[c] \in Seq(Result) /\ results[c] # <<>> /\ Len(results[c]) \in Nat \ {0}
        /\ announced[c] \in Nat /\ emitted[c] \in Nat
    BY <2>1 DEF TypeOK, WorkType, Shape
  <2>4. Head(results[c]) = results[c][1] /\ 1 \in 1..Len(results[c])
    BY <2>3
  <2>5. results[c][1].index = announced[c] + 1 - 1
    BY <2>4 DEF Kept, Numbered
  <2>6. emitted[c] = announced[c] + Len(results[c])
    BY <2>1 DEF Kept, Counts
  <2>7. wire'[c][k].n \in 0..(emitted[c] - 1)
    BY <2>1, <2>3, <2>4, <2>5, <2>6
  <2>8. Exists(sess[c]) =>
          [session |-> sess[c], index |-> wire'[c][k].n, by |-> c] \in translations
    BY <2>1, <2>7 DEF Kept, Tables, AllTranslated, Working, Streaming, Translated
  <2> QED
    BY <1>2, <2>2, <2>8
<1> QED
  BY <1>1, <1>3, <1>4

\* The total is the number of segments stored, and none is added after it.
LEMMA TotalStep == TypeOK /\ Shape /\ Kept /\ TotalTold /\ [Next]_vars => TotalTold'
<1> SUFFICES ASSUME TypeOK, Shape, Kept, TotalTold, [Next]_vars, NEW c \in Conns,
                    NEW k \in 1..Len(wire'[c]), wire'[c][k].type = "session.completed"
             PROVE  /\ pc'[c] \in {"cleanup", "close", "done", "crashed"}
                    /\ wire'[c][k].n = emitted'[c]
                    /\ status'[sess'[c]] # "absent"
                    /\ Exists(sess[c])' => \A i \in 0..(emitted'[c] - 1) :
                         [session |-> sess'[c], index |-> i, by |-> c] \in translations'
  BY DEF TotalTold
<1>1. \/ k \in 1..Len(wire[c]) /\ wire'[c][k] = wire[c][k]
      \/ Says(c, wire'[c][k])
  BY Hears
<1>2. status[sess[c]] # "absent" =>
        /\ sess'[c] = sess[c] /\ status'[sess[c]] # "absent"
        /\ Exists(sess[c])' =>
             /\ Exists(sess[c])
             /\ \A i : [session |-> sess[c], index |-> i, by |-> c] \in translations =>
                  [session |-> sess[c], index |-> i, by |-> c] \in translations'
  BY RowsKept
<1>e. Edge(c) /\ Flow(c)
  BY Edges, Flows
<1>3. CASE k \in 1..Len(wire[c]) /\ wire'[c][k] = wire[c][k]
  <2>1. /\ pc[c] \in {"cleanup", "close", "done", "crashed"} /\ wire[c][k].n = emitted[c]
        /\ status[sess[c]] # "absent"
        /\ Exists(sess[c]) => \A i \in 0..(emitted[c] - 1) :
             [session |-> sess[c], index |-> i, by |-> c] \in translations
    BY <1>3 DEF TotalTold
  <2>2. pc'[c] \in {"cleanup", "close", "done", "crashed"}
    BY <1>e, <2>1 DEF Edge, Goes, Streaming, Ended
  <2>3. emitted'[c] = emitted[c]
    BY <1>e, <2>1 DEF Flow, Goes
  <2> QED
    BY <1>2, <1>3, <2>1, <2>2, <2>3
<1>4. CASE Says(c, wire'[c][k])
  <2>1. pc[c] = "farewell" /\ pc'[c] = "cleanup" /\ wire'[c][k].n = announced[c]
    BY <1>4 DEF Says, SegmentFrames
  <2>2. status[sess[c]] # "absent"
    BY <2>1 DEF Kept, RowInv, NotYet
  <2>3. announced[c] = emitted[c]
    BY <2>1 DEF Kept, Counts, Balanced
  <2>4. emitted'[c] = emitted[c]
    BY <1>e, <2>1 DEF Flow, Goes
  <2>5. Exists(sess[c]) => \A i \in 0..(emitted[c] - 1) :
          [session |-> sess[c], index |-> i, by |-> c] \in translations
    BY <2>1 DEF Kept, Tables, AllTranslated, Working, Streaming, Translated
  <2> QED
    BY <1>2, <2>1, <2>2, <2>3, <2>4, <2>5
<1> QED
  BY <1>1, <1>3, <1>4

\* Nothing is announced to a client before it is durable.
THEOREM DeliveredPersists == Spec => []DeliveredIsPersisted
<1>1. Delivered => DeliveredIsPersisted
  BY DEF Delivered, DeliveredIsPersisted
<1> QED
  BY <1>1, TypeCorrect, Reached, RowInvInit, CountsInit, TablesInit, KeptStep, DeliveredInit,
     DeliveredStep, PTL DEF Spec, Kept

\* The total a client was told is what both tables hold.
THEOREM CompletedPersists == Spec => []CompletedMeansPersisted
<1>1. TypeOK /\ Tables /\ TotalTold => CompletedMeansPersisted
  <2> SUFFICES ASSUME TypeOK, Tables, TotalTold, NEW c \in Conns, NEW k \in 1..Len(wire[c]),
                      wire[c][k].type = "session.completed", Exists(sess[c])
               PROVE  /\ { r.index : r \in RowsOf(translations, c) } = 0..(wire[c][k].n - 1)
                      /\ RowsOf(transcriptions, c) = RowsOf(translations, c)
    BY DEF CompletedMeansPersisted
  <2> DEFINE n == wire[c][k].n
             row(i) == [session |-> sess[c], index |-> i, by |-> c]
  <2>1. n = emitted[c] /\ emitted[c] \in Nat
    BY DEF TotalTold, TypeOK, WorkType
  <2>2. \A i \in 0..(n - 1) : row(i) \in translations
    BY <2>1 DEF TotalTold
  <2>3. \A r \in transcriptions : r.session = sess[c] /\ r.by = c =>
          r.index \in 0..(n - 1) /\ r = row(r.index)
    BY <2>1 DEF Tables, Owned, TypeOK, StoreType, Row
  <2>4. translations \subseteq transcriptions
    BY DEF Tables, Referring
  <2>5. RowsOf(transcriptions, c) = RowsOf(translations, c)
    BY <2>2, <2>3, <2>4 DEF RowsOf
  <2>6. \A i \in 0..(n - 1) : row(i) \in RowsOf(translations, c) /\ row(i).index = i
    BY <2>2 DEF RowsOf
  <2>7. \A r \in RowsOf(translations, c) : r.index \in 0..(n - 1)
    BY <2>3, <2>4 DEF RowsOf
  <2> QED
    BY <2>5, <2>6, <2>7
<1> QED
  BY <1>1, TypeCorrect, Reached, RowInvInit, CountsInit, TablesInit, KeptStep, DeliveredInit,
     TotalStep, PTL DEF Spec, Kept

\* Only a stored translation brings a segment as far as its audio.
LEMMA PromisedStep == TypeOK /\ Shape /\ [Next]_vars => \A d \in Conns :
  Promised(d)' <= Promised(d) \/ Goes(d, {"translation"}, {"tts"})
<1> SUFFICES ASSUME TypeOK, Shape, [Next]_vars, NEW d \in Conns
             PROVE  Promised(d)' <= Promised(d) \/ Goes(d, {"translation"}, {"tts"})
  OBVIOUS
<1>t. WorkType /\ pc \in [Conns -> PCs]
  BY DEF TypeOK, ControlType
<1>n. announced[d] \in Nat /\ results[d] \in Seq(Result) /\ Len(results[d]) \in Nat
  BY <1>t DEF WorkType
\* A step that neither announces nor brings a segment to its audio.
<1>u. ASSUME UNCHANGED <<announced[d], results[d]>>, pc'[d] = "tts" => pc[d] = "tts"
      PROVE  Promised(d)' <= Promised(d)
  BY <1>n, <1>u DEF Promised
<1> USE DEF Goto
<1>1. ASSUME NEW c \in Conns, Connect(c) \/ Message(c) \/ ClientLeaves(c)
      PROVE  Promised(d)' <= Promised(d)
  <2>1. UNCHANGED <<announced, results>>
    BY <1>1 DEF Connect, Message, ClientLeaves, ReceiveChunk, ReceiveGarbage, ReceiveOversize,
                ReceiveInvalid, ReceiveCommit, work
  <2>2. pc' = pc \/ \E l \in PCs \ {"tts"} : pc' = [pc EXCEPT ![c] = l]
    BY <1>1 DEF Connect, Message, ClientLeaves, ReceiveChunk, RunSegments, ReceiveGarbage,
                ReceiveOversize, ReceiveInvalid, ReceiveCommit, PCs
  <2> QED
    BY <2>1, <2>2, <1>u, <1>t
<1>2. ASSUME NEW c \in Conns, Handle(c), d # c PROVE Promised(d)' <= Promised(d)
  <2>1. pc'[d] = pc[d] /\ UNCHANGED <<announced[d], results[d]>>
    BY <1>2, <1>t DEF WorkType, Handle, Authorize, Refuse, Greet, ReceiveDisconnect, AnswerInvalid,
       Lookup, Transcribe, SaveTranscription, Translate, SaveTranslation, Synthesize, EmitFrame,
       CompleteOnCommit, Farewell, FailSession, Report, CompleteOversize, Close1009, Cleanup,
       Close, Engine, Fails, work
  <2> QED
    BY <2>1, <1>u
<1>3. ASSUME Handle(d) PROVE Promised(d)' <= Promised(d) \/ Goes(d, {"translation"}, {"tts"})
  <2>1. CASE Synthesize(d)
    <3>1. CASE Fails(d, index[d])
      BY <2>1, <3>1, <1>t, <1>u DEF Synthesize, Fails, work
    <3>2. ASSUME NEW audio \in Audible,
                 results' = [results EXCEPT ![d] = Append(@, [index |-> index[d], audio |-> audio])],
                 UNCHANGED announced, pc'[d] \in {"emit", "lookup"}
          PROVE  Promised(d)' <= Promised(d)
      <4> DEFINE r   == [index |-> index[d], audio |-> audio]
                 old == results[d]
      <4>1. results'[d] = Append(old, r) /\ pc[d] = "tts"
        BY <2>1, <3>2, <1>t DEF WorkType, Synthesize
      <4>2. r \in Result /\ old \in Seq(Result)
        BY <1>n, <1>t, HandlerAssumption DEF Result, WorkType
      <4> HIDE DEF r, old
      <4>3. Len(Append(old, r)) = Len(old) + 1
        BY <4>2
      <4>4. Len(results'[d]) = Len(results[d]) + 1
        BY <4>1, <4>3 DEF old
      <4> QED
        BY <1>n, <3>2, <4>1, <4>4 DEF Promised
    <3> QED
      BY <2>1, <3>1, <3>2, <1>t DEF Synthesize
  <2>2. CASE EmitFrame(d)
    <3> DEFINE last == step[d] + 1 = Len(Burst(Head(results[d])))
    <3>1. /\ pc[d] = "emit" /\ results[d] # <<>> /\ pc'[d] # "tts"
          /\ \/ UNCHANGED <<announced[d], results[d]>>
             \/ announced'[d] = announced[d] + 1 /\ results'[d] = Tail(results[d])
      BY <2>2, <1>t DEF EmitFrame, Shape, WorkType, work
    <3>2. CASE UNCHANGED <<announced[d], results[d]>>
      BY <1>u, <3>1, <3>2
    <3>3. CASE announced'[d] = announced[d] + 1 /\ results'[d] = Tail(results[d])
      <4>1. Len(Tail(results[d])) = Len(results[d]) - 1
        BY <1>n, <3>1
      <4>2. Len(results'[d]) = Len(results[d]) - 1
        BY <3>3, <4>1
      <4> QED
        BY <1>n, <3>1, <3>3, <4>2 DEF Promised
    <3> QED
      BY <3>1, <3>2, <3>3
  <2>3. CASE SaveTranslation(d)
    BY <2>3, <1>t, <1>u DEF SaveTranslation, Fails, Goes, work
  <2>4. CASE ~(Synthesize(d) \/ EmitFrame(d) \/ SaveTranslation(d))
    <3>1. UNCHANGED <<announced, results>>
      BY <1>3, <2>4 DEF Handle, Authorize, Refuse, Greet, ReceiveDisconnect, AnswerInvalid,
         Lookup, Transcribe, SaveTranscription, Translate, CompleteOnCommit, Farewell,
         FailSession, Report, CompleteOversize, Close1009, Cleanup, Close, Engine, Fails, work
    <3>2. \E l \in PCs \ {"tts"} : pc' = [pc EXCEPT ![d] = l]
      BY <1>3, <2>4 DEF PCs, Handle, Authorize, Refuse, Greet, ReceiveDisconnect, AnswerInvalid,
         Lookup, Transcribe, SaveTranscription, Translate, CompleteOnCommit, Farewell,
         FailSession, Report, CompleteOversize, Close1009, Cleanup, Close, Engine, Fails
    <3> QED
      BY <3>1, <3>2, <1>t, <1>u
  <2> QED
    BY <2>1, <2>2, <2>3, <2>4
<1>4. CASE Crash \/ Rest \/ UNCHANGED vars
  BY <1>4, <1>t, <1>u DEF Crash, Rest, vars, handlerVars, work
<1> QED
  BY <1>1, <1>2, <1>3, <1>4 DEF Next

\* A deleted session takes no further segment: the rows went with it, so the foreign
\* key stops the segment that was between its two inserts.
THEOREM DeletedTakesNone == Spec => DeletedTakesNoMore
<1>1. TypeOK /\ Shape /\ Owned /\ [Next]_vars =>
        [\A c \in Conns : status[sess[c]] = "deleted" => Promised(c)' <= Promised(c)]_vars
  <2> SUFFICES ASSUME TypeOK, Shape, Owned, [Next]_vars, NEW c \in Conns,
                      status[sess[c]] = "deleted"
               PROVE  Promised(c)' <= Promised(c)
    OBVIOUS
  <2>1. ASSUME Goes(c, {"translation"}, {"tts"}) PROVE FALSE
    <3>1. Flow(c)
      BY Flows
    <3>2. RowOf(c) \in transcriptions
      BY <2>1, <3>1 DEF Flow, Goes, Translates
    <3>3. Exists(sess[c])
      BY <3>2 DEF Owned, RowOf
    <3> QED
      BY <3>3 DEF Exists, Stored
  <2> QED
    BY <2>1, PromisedStep
<1> QED
  BY <1>1, TypeCorrect, Reached, RowInvInit, CountsInit, TablesInit, KeptStep, PTL
     DEF Spec, Kept, Tables, DeletedTakesNoMore
===============================================================================
