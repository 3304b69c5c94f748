---------------------------- MODULE PipelineProofs ----------------------------
(***************************************************************************)
(* Theorems about PipelineHandler, for any sets of sessions and             *)
(* connections and any bounds.                                              *)
(***************************************************************************)
EXTENDS PipelineHandler, TLAPS

\* What a step needs to keep the types: a segment to run while one runs, a
\* result to announce while one is announced, and the frame of it that is next.
Shape == \A c \in Conns :
  /\ pc[c] \in {"lookup", "asr", "transcription", "mt", "translation", "tts"} => todo[c] # 0
  /\ pc[c] = "emit" => /\ results[c] # <<>>
                       /\ step[c] < Len(Burst(Head(results[c])))
  /\ pc[c] \notin {"emit", "cleanup", "close", "done", "crashed"} => step[c] = 0

\* A burst is a sequence of frames.
LEMMA BurstFrames == \A r \in Result :
  /\ Burst(r) \in Seq(Frames)
  /\ Len(Burst(r)) \in Nat /\ Len(Burst(r)) > 0
  /\ \A i \in 1..Len(Burst(r)) : Burst(r)[i] \in Frames
<1> SUFFICES ASSUME NEW r \in Result
             PROVE  Burst(r) \in Seq(Frames) /\ Len(Burst(r)) \in Nat /\ Len(Burst(r)) > 0
  OBVIOUS
<1> USE DEF Burst, Event, Frames, Result
<1>1. CASE r.audio
  BY <1>1
<1>2. CASE ~r.audio
  BY <1>2
<1> QED
  BY <1>1, <1>2

\* The initial states are typed and well shaped.
LEMMA TypeInit == Init => TypeOK /\ Shape
BY DEF Init, StoreInit, TypeOK, StoreType, ControlType, IoType, WorkType, VerdictType, Shape,
       Statuses, Stored, PCs, NoIndex

-------------------------------------------------------------------------------
(* Each part of the type invariant, through every step *)

\* No step of a handler or of a REST request takes the store out of its types.
LEMMA StoreTypeStep == TypeOK /\ [Next]_vars => StoreType'
<1> SUFFICES ASSUME TypeOK, [Next]_vars PROVE StoreType'
  OBVIOUS
<1>1. StoreType /\ sess \in [Conns -> Sessions] /\ index \in [Conns -> Nat]
  BY DEF TypeOK, ControlType, WorkType
<1> USE <1>1 DEF StoreType, Statuses, Stored, Row, storeVars, tables
<1>2. ASSUME NEW c \in Conns, Handle(c) PROVE StoreType'
  <2>1. CASE Authorize(c)
    BY <2>1 DEF Authorize, Outage
  <2>2. CASE Refuse(c) \/ Greet(c) \/ ReceiveDisconnect(c) \/ AnswerInvalid(c)
    BY <2>2 DEF Refuse, Greet, ReceiveDisconnect, AnswerInvalid
  <2>3. CASE Lookup(c)
    BY <2>3 DEF Lookup, Outage
  <2>4. CASE Transcribe(c) \/ Translate(c)
    BY <2>4 DEF Transcribe, Translate, Engine
  <2>5. CASE SaveTranscription(c)
    <3> RowOf(c) \in Row
      BY DEF RowOf
    <3> QED
      BY <2>5 DEF SaveTranscription, InsertTranscription, TranscriptionRaises, Outage,
                  OutageAfterCommit
  <2>6. CASE SaveTranslation(c)
    BY <2>6 DEF SaveTranslation, InsertTranslation, TranslationRaises, Outage, RowOf
  <2>7. CASE Synthesize(c) \/ EmitFrame(c)
    BY <2>7 DEF Synthesize, EmitFrame
  <2>8. CASE CompleteOnCommit(c) \/ FailSession(c) \/ CompleteOversize(c) \/ Cleanup(c)
    BY <2>8 DEF CompleteOnCommit, FailSession, CompleteOversize, Cleanup, Suppressed,
                UpdateStatus, UpdateStatusRaisesLate, UpdateStatusRaises, UpdateStatusMisses, SetStatus,
                Outage, OutageAfterCommit
  <2>9. CASE Farewell(c) \/ Report(c) \/ Close1009(c) \/ Close(c)
    BY <2>9 DEF Farewell, Report, Close1009, Close
  <2> QED
    BY <1>2, <2>1, <2>2, <2>3, <2>4, <2>5, <2>6, <2>7, <2>8, <2>9 DEF Handle
<1>3. ASSUME NEW c \in Conns, Connect(c) \/ Message(c) \/ ClientLeaves(c) PROVE StoreType'
  BY <1>3 DEF Connect, Message, ClientLeaves, ReceiveChunk, RunSegments, ReceiveGarbage,
              ReceiveOversize, ReceiveInvalid, ReceiveCommit, Takes
<1>4. CASE Rest
  BY <1>4 DEF Rest, CreateSession, RestComplete, RestDelete, SetStatus
<1>5. CASE Crash \/ UNCHANGED vars
  BY <1>5 DEF Crash, vars
<1> QED
  BY <1>2, <1>3, <1>4, <1>5 DEF Next

\* A coroutine only ever moves to one of its labels.
LEMMA ControlTypeStep == TypeOK /\ [Next]_vars => ControlType'
<1> SUFFICES ASSUME TypeOK, [Next]_vars PROVE ControlType'
  OBVIOUS
<1>1. ControlType
  BY DEF TypeOK
<1> USE <1>1 DEF ControlType, Goto, PCs, fixed
<1>2. ASSUME NEW c \in Conns, Handle(c) PROVE ControlType'
  BY <1>2 DEF Handle, Authorize, Refuse, Greet, ReceiveDisconnect, AnswerInvalid, Lookup,
    Transcribe, Translate, Engine, SaveTranscription, SaveTranslation, Synthesize, EmitFrame,
    CompleteOnCommit, FailSession, CompleteOversize, Cleanup, Farewell, Report, Close1009,
    Close, Fails
<1>3. ASSUME NEW c \in Conns, Connect(c) \/ Message(c) \/ ClientLeaves(c) PROVE ControlType'
  BY <1>3 DEF Connect, Message, ClientLeaves, ReceiveChunk, RunSegments, ReceiveGarbage,
              ReceiveOversize, ReceiveInvalid, ReceiveCommit, Takes
<1>4. CASE Crash
  BY <1>4 DEF Crash
<1>5. CASE Rest \/ UNCHANGED vars
  BY <1>5 DEF Rest, vars, handlerVars
<1> QED
  BY <1>2, <1>3, <1>4, <1>5 DEF Next

\* A frame sent keeps the transport's types.
LEMMA SendTypes ==
  ASSUME IoType, NEW c \in Conns, NEW f \in Frames, Sends(c, f)
  PROVE  IoType'
<1>1. wire[c] \in Seq(Frames)
  BY DEF IoType
<1>2. Append(wire[c], f) \in Seq(Frames)
  BY <1>1
<1> QED
  BY <1>2 DEF IoType, Sends

\* Whatever a handler sends is a frame; the shape says that EmitFrame finds one.
LEMMA IoTypeStep == TypeOK /\ Shape /\ [Next]_vars => IoType'
<1> SUFFICES ASSUME TypeOK, Shape, [Next]_vars PROVE IoType'
  OBVIOUS
<1>1. IoType
  BY DEF TypeOK
<1>2. ASSUME NEW c \in Conns, Handle(c) PROVE IoType'
  <2>1. CASE \/ Refuse(c) \/ Greet(c) \/ AnswerInvalid(c) \/ Farewell(c) \/ Close1009(c)
             \/ Report(c) \/ Close(c)
    <3>1. UNCHANGED io \/ \E f \in Frames : Sends(c, f)
      <4>1. announced[c] \in Nat
        BY DEF TypeOK, WorkType
      <4> QED
        BY <2>1, <4>1 DEF Refuse, Greet, AnswerInvalid, Farewell, Close1009, Report, Close,
                     Event, Frames, NoIndex, SendRaises
    <3> QED
      BY <1>1, <3>1, SendTypes DEF io, IoType
  <2>2. CASE EmitFrame(c)
    <3> DEFINE burst == Burst(Head(results[c]))
    <3>1. results[c] \in Seq(Result) /\ results[c] # <<>> /\ step[c] \in Nat
      BY <2>2 DEF EmitFrame, Shape, TypeOK, WorkType
    <3>2. Head(results[c]) \in Result
      BY <3>1
    <3>3. step[c] + 1 \in 1..Len(burst)
      BY <2>2, <3>1, <3>2, BurstFrames DEF EmitFrame, Shape
    <3>4. burst[step[c] + 1] \in Frames
      BY <3>2, <3>3, BurstFrames
    <3>5. UNCHANGED io \/ Sends(c, burst[step[c] + 1])
      BY <2>2 DEF EmitFrame, SendRaises
    <3> QED
      BY <1>1, <3>4, <3>5, SendTypes DEF io, IoType
  <2>3. CASE \/ Authorize(c) \/ ReceiveDisconnect(c) \/ Lookup(c) \/ Transcribe(c)
             \/ SaveTranscription(c) \/ Translate(c) \/ SaveTranslation(c) \/ Synthesize(c)
             \/ CompleteOnCommit(c) \/ FailSession(c) \/ CompleteOversize(c) \/ Cleanup(c)
    BY <1>1, <2>3 DEF IoType, io, Authorize, ReceiveDisconnect, Lookup, Transcribe, Translate,
       Engine, SaveTranscription, SaveTranslation, Synthesize, CompleteOnCommit, FailSession,
       CompleteOversize, Cleanup
  <2> QED
    BY <1>2, <2>1, <2>2, <2>3 DEF Handle
<1>3. ASSUME NEW c \in Conns, Connect(c) \/ Message(c) \/ ClientLeaves(c) PROVE IoType'
  <2>1. CASE Connect(c) \/ ClientLeaves(c)
    BY <1>1, <2>1 DEF IoType, Connect, ClientLeaves
  <2>2. CASE Message(c)
    <3>1. UNCHANGED io \/ Takes(c)
      BY <2>2 DEF Message, ReceiveChunk, RunSegments, ReceiveGarbage, ReceiveOversize,
              ReceiveInvalid,
                  ReceiveCommit
    <3> QED
      BY <1>1, <3>1 DEF IoType, io, Takes
  <2> QED
    BY <1>3, <2>1, <2>2
<1>4. CASE Crash
  BY <1>1, <1>4 DEF IoType, Crash
<1>5. CASE Rest \/ UNCHANGED vars
  BY <1>1, <1>5 DEF IoType, Rest, vars, handlerVars
<1> QED
  BY <1>2, <1>3, <1>4, <1>5 DEF Next

\* A handler writes only statuses of the enum, and blames only a segment it numbered.
LEMMA VerdictTypeStep == TypeOK /\ [Next]_vars => VerdictType'
<1> SUFFICES ASSUME TypeOK, [Next]_vars PROVE VerdictType'
  OBVIOUS
<1>1. VerdictType
  BY DEF TypeOK
<1> USE <1>1 DEF VerdictType, verdict
<1>2. ASSUME NEW c \in Conns, NEW st \in Stored, Landed(c, st)
      PROVE wrote' \in [Conns -> Seq(Stored)]
  <2>1. Append(wrote[c], st) \in Seq(Stored)
    BY <1>2
  <2> QED
    BY <1>2, <2>1 DEF Landed
<1>3. ASSUME NEW c \in Conns, NEW st \in Stored, Suppressed(c, st)
      PROVE wrote' \in [Conns -> Seq(Stored)] /\ lost' \in [Conns -> BOOLEAN]
  BY <1>2, <1>3 DEF Suppressed
<1>4. ASSUME NEW c \in Conns, NEW i \in Nat, Fails(c, i) PROVE VerdictType'
  BY <1>4 DEF Fails
<1>5. ASSUME NEW c \in Conns, Handle(c) PROVE VerdictType'
  <2>0. emitted[c] \in Nat /\ index[c] \in Nat
    BY DEF TypeOK, WorkType
  <2>1. CASE \/ Lookup(c) \/ Transcribe(c) \/ SaveTranscription(c) \/ Translate(c)
             \/ SaveTranslation(c) \/ Synthesize(c)
    <3>1. UNCHANGED verdict \/ Fails(c, emitted[c]) \/ Fails(c, index[c])
      BY <2>1 DEF Lookup, Transcribe, Translate, Engine, SaveTranscription, SaveTranslation,
                  Synthesize
    <3> QED
      BY <2>0, <3>1, <1>4
  <2>2. CASE \/ Authorize(c) \/ Refuse(c) \/ Greet(c) \/ ReceiveDisconnect(c)
             \/ AnswerInvalid(c) \/ EmitFrame(c) \/ Farewell(c) \/ Close1009(c) \/ Close(c)
             \/ Report(c)
    <3>1. UNCHANGED <<wrote, lost, culprit>>
      BY <2>2 DEF Authorize, Refuse, Greet, ReceiveDisconnect, AnswerInvalid, EmitFrame,
                  Farewell, Close1009, Close, Report
    <3>2. UNCHANGED decided \/ decided' = [decided EXCEPT ![c] = TRUE]
      BY <2>2 DEF Authorize, Refuse, Greet, ReceiveDisconnect, AnswerInvalid, EmitFrame,
                  Farewell, Close1009, Close, Report
    <3> QED
      BY <3>1, <3>2
  <2>3. CASE CompleteOnCommit(c) \/ FailSession(c) \/ CompleteOversize(c) \/ Cleanup(c)
    <3>1. decided' \in [Conns -> BOOLEAN] /\ UNCHANGED culprit
      BY <2>3 DEF CompleteOnCommit, FailSession, CompleteOversize, Cleanup
    <3>2. \/ UNCHANGED <<wrote, lost>>
          \/ UNCHANGED lost /\ Landed(c, "COMPLETED")
          \/ Suppressed(c, "COMPLETED") \/ Suppressed(c, "FAILED")
      BY <2>3 DEF CompleteOnCommit, FailSession, CompleteOversize, Cleanup
    <3> QED
      BY <3>1, <3>2, <1>2, <1>3 DEF Stored
  <2> QED
    BY <1>5, <2>1, <2>2, <2>3 DEF Handle
<1>6. ASSUME NEW c \in Conns, Connect(c) \/ Message(c) \/ ClientLeaves(c) PROVE VerdictType'
  BY <1>6 DEF Connect, Message, ClientLeaves, ReceiveChunk, RunSegments, ReceiveGarbage,
              ReceiveOversize, ReceiveInvalid, ReceiveCommit, Takes
<1>7. CASE Crash \/ Rest \/ UNCHANGED vars
  BY <1>7 DEF Crash, Rest, vars, handlerVars
<1> QED
  BY <1>5, <1>6, <1>7 DEF Next

\* The counters stay natural and the shape is kept: a segment is run only while one
\* is left, and a burst is sent only as far as it goes.
LEMMA WorkTypeStep == TypeOK /\ Shape /\ [Next]_vars => WorkType' /\ Shape'
<1> SUFFICES ASSUME TypeOK, Shape, [Next]_vars PROVE WorkType' /\ Shape'
  OBVIOUS
<1>1. WorkType /\ pc \in [Conns -> PCs]
  BY DEF TypeOK, ControlType
<1>0. pc' \in [Conns -> PCs]
  BY ControlTypeStep DEF ControlType
<1> USE <1>1, <1>0 DEF WorkType, Shape, work, Goto
<1>2. ASSUME NEW c \in Conns, Handle(c) PROVE WorkType' /\ Shape'
  <2>1. CASE Lookup(c)
    <3>1. WorkType'
      <4>1. CASE UNCHANGED work
        BY <4>1
      <4>2. CASE /\ index' = [index EXCEPT ![c] = emitted[c]]
                 /\ emitted' = [emitted EXCEPT ![c] = @ + 1]
                 /\ UNCHANGED <<speaking, flushing, todo, results, step, announced>>
        BY <4>2
      <4> QED
        BY <2>1, <4>1, <4>2 DEF Lookup, Fails
    <3>2. pc[c] = "lookup" /\ UNCHANGED <<todo, step, results>>
      BY <2>1 DEF Lookup, Fails
    <3>3. Goto(c, "asr") \/ Goto(c, "fail")
      BY <2>1 DEF Lookup, Fails
    <3> QED
      BY <3>1, <3>2, <3>3
  <2>2. CASE Transcribe(c) \/ SaveTranscription(c) \/ Translate(c) \/ SaveTranslation(c)
    <3>1. UNCHANGED work
      BY <2>2 DEF Transcribe, Translate, Engine, SaveTranscription, SaveTranslation, Fails
    <3>2. \E l \in {"transcription", "mt", "translation", "tts", "fail"} :
            pc[c] \in {"asr", "transcription", "mt", "translation"} /\ pc' = [pc EXCEPT ![c] = l]
      BY <2>2 DEF Transcribe, Translate, Engine, SaveTranscription, SaveTranslation, Fails
    <3> QED
      BY <3>1, <3>2
  <2>3. CASE Synthesize(c)
    <3>1. CASE Fails(c, index[c]) /\ pc[c] = "tts"
      BY <3>1 DEF Fails
    <3>2. ASSUME NEW audio \in Audible, pc[c] = "tts",
                 results' = [results EXCEPT ![c] = Append(@, [index |-> index[c], audio |-> audio])],
                 todo' = [todo EXCEPT ![c] = @ - 1],
                 Goto(c, IF todo[c] = 1 THEN "emit" ELSE "lookup"),
                 UNCHANGED <<speaking, flushing, index, step, emitted, announced>>
          PROVE  WorkType' /\ Shape'
      <4> DEFINE r == [index |-> index[c], audio |-> audio]
      <4>1. r \in Result
        BY HandlerAssumption DEF Result
      <4>2. Append(results[c], r) \in Seq(Result) /\ Append(results[c], r) # <<>>
        <5>1. results[c] \in Seq(Result)
          OBVIOUS
        <5> HIDE DEF r, WorkType, Shape
        <5> QED
          BY <4>1, <5>1
      <4>3. todo[c] - 1 \in Nat /\ (todo[c] # 1 => todo[c] - 1 # 0)
        BY <3>2
      <4>4. WorkType'
        BY <3>2, <4>2, <4>3
      <4>5. Head(Append(results[c], r)) \in Result
        BY <4>2
      <4>6. 0 < Len(Burst(Head(Append(results[c], r))))
        BY <4>5, BurstFrames
      <4>7. step[c] = 0
        BY <3>2
      <4>8. \/ todo[c] = 1 /\ pc' = [pc EXCEPT ![c] = "emit"]
            \/ todo[c] # 1 /\ pc' = [pc EXCEPT ![c] = "lookup"]
        BY <3>2
      <4>9. /\ results' = [results EXCEPT ![c] = Append(results[c], r)]
            /\ todo' = [todo EXCEPT ![c] = todo[c] - 1] /\ step' = step
        BY <3>2
      <4>10. Shape'
        <5> HIDE DEF r
        <5>1. ASSUME NEW d \in Conns, d # c
              PROVE  /\ pc'[d] = pc[d] /\ results'[d] = results[d]
                     /\ todo'[d] = todo[d] /\ step'[d] = step[d]
          BY <4>8, <4>9, <5>1
        <5>2. /\ results'[c] = Append(results[c], r) /\ todo'[c] = todo[c] - 1
              /\ step'[c] = 0 /\ pc'[c] \in {"emit", "lookup"}
              /\ pc'[c] = "lookup" => todo[c] # 1
          BY <4>7, <4>8, <4>9
        <5>3. ASSUME NEW d \in Conns
              PROVE  /\ pc'[d] \in {"lookup", "asr", "transcription", "mt", "translation", "tts"}
                        => todo'[d] # 0
                     /\ pc'[d] = "emit" => /\ results'[d] # <<>>
                                          /\ step'[d] < Len(Burst(Head(results'[d])))
                     /\ pc'[d] \notin {"emit", "cleanup", "close", "done", "crashed"}
                        => step'[d] = 0
          <6>1. CASE d = c
            BY <4>2, <4>3, <4>6, <5>2, <6>1
          <6>2. CASE d # c
            BY <5>1, <6>2
          <6> QED
            BY <6>1, <6>2
        <5> QED
          BY <5>3
      <4> QED
        BY <4>4, <4>10
    <3> QED
      BY <2>3, <3>1, <3>2 DEF Synthesize, verdict
  <2>4. CASE EmitFrame(c)
    <3> DEFINE burst == Burst(Head(results[c]))
               last  == step[c] + 1 = Len(burst)
    <3>1. pc[c] = "emit" /\ results[c] \in Seq(Result) /\ results[c] # <<>>
      BY <2>4 DEF EmitFrame
    <3>2. Head(results[c]) \in Result /\ Tail(results[c]) \in Seq(Result)
      BY <3>1
    <3>3. Len(burst) \in Nat /\ step[c] < Len(burst)
      BY <3>1, <3>2, BurstFrames
    <3>4. CASE Goto(c, "cleanup") /\ UNCHANGED work
      BY <3>1, <3>4
    <3>5. CASE ~last /\ Goto(c, "emit") /\ step' = [step EXCEPT ![c] = @ + 1]
               /\ UNCHANGED <<speaking, flushing, todo, index, results, emitted, announced>>
      <4>1. WorkType'
        BY SMTT(30), <3>5
      <4>2. step[c] + 1 < Len(burst)
        BY <3>3, <3>5
      <4>3. /\ step'[c] = step[c] + 1 /\ pc' = pc
            /\ \A d \in Conns : d # c => step'[d] = step[d]
        BY <3>1, <3>5
      <4> HIDE DEF WorkType
      <4> QED
        BY <3>1, <3>5, <4>1, <4>2, <4>3
    <3>6. CASE /\ last /\ step' = [step EXCEPT ![c] = 0]
               /\ announced' = [announced EXCEPT ![c] = @ + 1]
               /\ results' = [results EXCEPT ![c] = Tail(@)]
               /\ UNCHANGED <<speaking, flushing, todo, index, emitted>>
               /\ Goto(c, IF Len(results[c]) > 1 THEN "emit"
                          ELSE IF flushing[c] THEN "complete" ELSE "receive")
      <4>1. WorkType'
        <5>1. announced' \in [Conns -> Nat] /\ step' \in [Conns -> Nat]
          BY SMTT(30), <3>6
        <5>2. results' \in [Conns -> Seq(Result)]
          BY <3>2, <3>6
        <5> QED
          BY <3>6, <5>1, <5>2
      <4>2. CASE Len(results[c]) > 1
        <5>1. Tail(results[c]) # <<>> /\ Head(Tail(results[c])) \in Result
          <6> DEFINE rest == results[c]
          <6>1. rest \in Seq(Result) /\ Len(rest) > 1
            BY <3>1, <4>2
          <6> HIDE DEF rest, WorkType, Shape
          <6>2. Tail(rest) \in Seq(Result) /\ Len(Tail(rest)) = Len(rest) - 1
            BY <6>1
          <6>3. Len(Tail(rest)) # 0 /\ Len(<<>>) = 0
            BY <6>1, <6>2
          <6> QED
            <7>1. Tail(rest) # <<>>
              BY <6>3
            <7>2. Head(Tail(rest)) \in Result
              BY <6>2, <7>1
            <7> QED
              BY <7>1, <7>2 DEF rest
        <5>2. 0 < Len(Burst(Head(Tail(results[c]))))
          BY <5>1, BurstFrames
        <5> QED
          BY <3>1, <3>6, <4>1, <4>2, <5>1, <5>2
      <4>3. CASE ~(Len(results[c]) > 1)
        BY <3>1, <3>6, <4>1, <4>3
      <4> QED
        BY <4>2, <4>3
    <3>7. \/ Goto(c, "cleanup") /\ UNCHANGED work
          \/ ~last /\ Goto(c, "emit") /\ step' = [step EXCEPT ![c] = @ + 1]
             /\ UNCHANGED <<speaking, flushing, todo, index, results, emitted, announced>>
          \/ /\ last /\ step' = [step EXCEPT ![c] = 0]
             /\ announced' = [announced EXCEPT ![c] = @ + 1]
             /\ results' = [results EXCEPT ![c] = Tail(@)]
             /\ UNCHANGED <<speaking, flushing, todo, index, emitted>>
             /\ Goto(c, IF Len(results[c]) > 1 THEN "emit"
                        ELSE IF flushing[c] THEN "complete" ELSE "receive")
      <4> HIDE DEF WorkType, Shape, burst
      <4>1. \/ /\ step' = [step EXCEPT ![c] = IF last THEN 0 ELSE @ + 1]
               /\ announced' = [announced EXCEPT ![c] = IF last THEN @ + 1 ELSE @]
               /\ results' = [results EXCEPT ![c] = IF last THEN Tail(@) ELSE @]
               /\ Goto(c, IF ~last \/ Len(results[c]) > 1 THEN "emit"
                          ELSE IF flushing[c] THEN "complete" ELSE "receive")
               /\ UNCHANGED <<speaking, flushing, todo, index, emitted>>
            \/ Goto(c, "cleanup") /\ UNCHANGED work
        BY <2>4 DEF EmitFrame, burst
      <4>2. CASE last
        BY <4>1, <4>2
      <4>3. CASE ~last
        <5>1. [announced EXCEPT ![c] = announced[c]] = announced
              /\ [results EXCEPT ![c] = results[c]] = results
          BY DEF WorkType
        <5> QED
          BY <4>1, <4>3, <5>1
      <4> QED
        BY <4>2, <4>3
    <3> QED
      BY <3>4, <3>5, <3>6, <3>7
  <2>5. CASE \/ Authorize(c) \/ Refuse(c) \/ Greet(c) \/ ReceiveDisconnect(c)
             \/ AnswerInvalid(c) \/ CompleteOnCommit(c) \/ Farewell(c) \/ FailSession(c)
             \/ Report(c) \/ CompleteOversize(c) \/ Close1009(c) \/ Cleanup(c) \/ Close(c)
    <3>1. UNCHANGED work
      BY <2>5 DEF Authorize, Refuse, Greet, ReceiveDisconnect, AnswerInvalid, CompleteOnCommit,
         Farewell, FailSession, Report, CompleteOversize, Close1009, Cleanup, Close
    <3>2. \E l \in {"greet", "refuse", "aborted", "refused", "receive", "report", "farewell",
                    "close1009", "cleanup", "close", "done"} :
            /\ pc' = [pc EXCEPT ![c] = l]
            /\ l \in {"cleanup", "close", "done"}
               \/ pc[c] \notin {"emit", "cleanup", "close", "done", "crashed"}
      BY <2>5 DEF Authorize, Refuse, Greet, ReceiveDisconnect, AnswerInvalid, CompleteOnCommit,
         Farewell, FailSession, Report, CompleteOversize, Close1009, Cleanup, Close
    <3> QED
      BY <3>1, <3>2
  <2> QED
    BY <1>2, <2>1, <2>2, <2>3, <2>4, <2>5 DEF Handle
<1>3. ASSUME NEW c \in Conns, Connect(c) \/ Message(c) \/ ClientLeaves(c)
      PROVE WorkType' /\ Shape'
  <2>1. CASE Connect(c) \/ ClientLeaves(c)
    BY <2>1 DEF Connect, ClientLeaves
  <2>2. CASE ReceiveChunk(c)
    BY <2>2 DEF ReceiveChunk, RunSegments, Takes
  <2>3. CASE ReceiveGarbage(c) \/ ReceiveOversize(c) \/ ReceiveInvalid(c)
    <3>1. UNCHANGED work /\ pc[c] = "receive"
      BY <2>3 DEF ReceiveGarbage, ReceiveOversize, ReceiveInvalid, Takes
    <3>2. \E l \in {"fail", "oversize", "invalid", "cleanup"} : pc' = [pc EXCEPT ![c] = l]
      BY <2>3 DEF ReceiveGarbage, ReceiveOversize, ReceiveInvalid
    <3> QED
      BY <3>1, <3>2
  <2>4. CASE ReceiveCommit(c)
    <3>1. CASE todo' = [todo EXCEPT ![c] = 1] /\ Goto(c, "lookup")
      BY <2>4, <3>1 DEF ReceiveCommit
    <3>2. CASE UNCHANGED todo /\ Goto(c, "complete")
      BY <2>4, <3>2 DEF ReceiveCommit
    <3> QED
      BY <2>4, <3>1, <3>2 DEF ReceiveCommit
  <2> QED
    BY <1>3, <2>1, <2>2, <2>3, <2>4 DEF Message
<1>4. CASE Crash
  BY <1>4 DEF Crash, Ended
<1>5. CASE Rest \/ UNCHANGED vars
  BY <1>5 DEF Rest, vars, handlerVars
<1> QED
  BY <1>2, <1>3, <1>4, <1>5 DEF Next

\* Every variable of the store and of the handlers keeps its type.
THEOREM TypeCorrect == Spec => []TypeOK
<1>1. TypeOK /\ Shape /\ [Next]_vars => (TypeOK /\ Shape)'
  BY StoreTypeStep, ControlTypeStep, IoTypeStep, WorkTypeStep, VerdictTypeStep DEF TypeOK
<1> QED
  BY <1>1, TypeInit, PTL DEF Spec

-------------------------------------------------------------------------------
(* Progress *)

\* How far each label is from the end of the handler's turn.
LEMMA Ranks ==
  /\ Further["authorize"] = 18 /\ Further["greet"] = 17 /\ Further["refuse"] = 17
  /\ Further["invalid"] = 16 /\ Further["receive"] = 15 /\ Further["lookup"] = 14
  /\ Further["asr"] = 13 /\ Further["transcription"] = 12 /\ Further["mt"] = 11
  /\ Further["translation"] = 10 /\ Further["tts"] = 9 /\ Further["emit"] = 8
  /\ Further["complete"] = 7 /\ Further["farewell"] = 6 /\ Further["fail"] = 7
  /\ Further["report"] = 6 /\ Further["oversize"] = 7 /\ Further["close1009"] = 6
  /\ Further["cleanup"] = 5 /\ Further["close"] = 4 /\ Further["done"] = 0
  /\ Further["refused"] = 0 /\ Further["aborted"] = 0
BY DEF Further

\* A handler that only goes on to a lower label is nearer.
LEMMA LowerIsNearer ==
  ASSUME TypeOK, NEW c \in Conns, NEW l, UNCHANGED <<todo, results, step>>,
         pc' = [pc EXCEPT ![c] = l], Further[l] < Further[pc[c]]
  PROVE  Nearer(c)
<1>1. pc'[c] = l
  BY DEF TypeOK, ControlType
<1>2. FramesLeft(c)' = FramesLeft(c)
  BY DEF FramesLeft
<1> QED
  BY <1>1, <1>2 DEF Nearer

\* A frame of a burst: one less of it is left, or one result less to announce.
LEMMA FrameIsNearer ==
  ASSUME TypeOK, Shape, NEW c \in Conns, EmitFrame(c)
  PROVE  Nearer(c)
<1> DEFINE old  == results[c]
           last == step[c] + 1 = Len(Burst(Head(old)))
<1>t. WorkType
  BY DEF TypeOK
<1>1. /\ pc[c] = "emit" /\ old \in Seq(Result) /\ old # <<>> /\ step[c] \in Nat
      /\ Head(old) \in Result
  <2>1. pc[c] = "emit" /\ old # <<>>
    BY DEF EmitFrame, Shape
  <2>2. old \in Seq(Result) /\ step[c] \in Nat
    BY <1>t DEF WorkType
  <2> HIDE DEF old
  <2> QED
    BY <2>1, <2>2
<1>2. Len(Burst(Head(old))) \in Nat
  BY <1>1, BurstFrames
<1>3. \/ /\ step' = [step EXCEPT ![c] = IF last THEN 0 ELSE @ + 1]
         /\ results' = [results EXCEPT ![c] = IF last THEN Tail(@) ELSE @]
         /\ UNCHANGED todo
      \/ Goto(c, "cleanup") /\ UNCHANGED work
  BY DEF EmitFrame
<1>4. CASE Goto(c, "cleanup") /\ UNCHANGED work
  <2>1. UNCHANGED <<todo, results, step>> /\ pc' = [pc EXCEPT ![c] = "cleanup"]
    BY <1>4 DEF Goto, work
  <2>2. Further["cleanup"] < Further[pc[c]]
    BY <1>1, Ranks
  <2> QED
    BY <2>1, <2>2, LowerIsNearer
<1>5. ASSUME last, results' = [results EXCEPT ![c] = Tail(@)], UNCHANGED todo PROVE Nearer(c)
  <2>1. results'[c] = Tail(old)
    BY <1>5, <1>t DEF WorkType
  <2>2. Len(Tail(old)) < Len(old)
    <3> HIDE DEF old
    <3> QED
      BY <1>1
  <2> QED
    BY <1>5, <2>1, <2>2 DEF Nearer
<1>6. ASSUME ~last, step' = [step EXCEPT ![c] = @ + 1], results' = results, UNCHANGED todo
      PROVE  Nearer(c)
  <2>1. step'[c] = step[c] + 1 /\ results'[c] = old
    BY <1>6, <1>t DEF WorkType
  <2>2. FramesLeft(c) = Len(Burst(Head(old))) - step[c]
    BY <1>1 DEF FramesLeft
  <2>3. FramesLeft(c)' = Len(Burst(Head(old))) - (step[c] + 1)
    BY <1>1, <2>1 DEF FramesLeft
  <2>4. FramesLeft(c)' < FramesLeft(c)
    BY <1>1, <1>2, <2>2, <2>3
  <2> QED
    BY <1>6, <2>1, <2>4 DEF Nearer
<1>7. [results EXCEPT ![c] = results[c]] = results
  BY <1>t DEF WorkType
<1> HIDE DEF last
<1> QED
  BY <1>3, <1>4, <1>5, <1>6, <1>7

\* No failure, retry or cleanup of a handler leads back: every step of it leaves
\* less to run, to send or to go through.
THEOREM StepsLeadOn == Spec => EveryStepNearer
<1>1. TypeOK /\ Shape /\ [Next]_vars => [\A c \in Conns : Handle(c) => Nearer(c)]_vars
  <2> SUFFICES ASSUME TypeOK, Shape, NEW c \in Conns, Handle(c) PROVE Nearer(c)
    OBVIOUS
  <2> USE DEF Goto
  <2>1. CASE \/ Authorize(c) \/ Refuse(c) \/ Greet(c) \/ ReceiveDisconnect(c)
             \/ AnswerInvalid(c) \/ Transcribe(c) \/ SaveTranscription(c) \/ Translate(c)
             \/ SaveTranslation(c)
    <3>1. UNCHANGED <<todo, results, step>>
      BY <2>1 DEF Authorize, Refuse, Greet, ReceiveDisconnect, AnswerInvalid, Transcribe,
         Translate, Engine, SaveTranscription, SaveTranslation, Fails, work
    <3>2. \E l \in PCs : pc' = [pc EXCEPT ![c] = l] /\ Further[l] < Further[pc[c]]
      BY <2>1, Ranks DEF Authorize, Refuse, Greet, ReceiveDisconnect, AnswerInvalid, Transcribe,
         Translate, Engine, SaveTranscription, SaveTranslation, Fails, PCs
    <3> QED
      BY <3>1, <3>2, LowerIsNearer
  <2>2. CASE Lookup(c)
    <3>1. UNCHANGED <<todo, results, step>>
      BY <2>2 DEF Lookup, Fails, work
    <3>2. \E l \in {"asr", "fail"} : pc' = [pc EXCEPT ![c] = l] /\ Further[l] < Further[pc[c]]
      BY <2>2, Ranks DEF Lookup, Fails
    <3> QED
      BY <3>1, <3>2, LowerIsNearer
  <2>3. CASE Synthesize(c)
    <3>1. CASE Fails(c, index[c]) /\ pc[c] = "tts"
      <4>1. UNCHANGED <<todo, results, step>> /\ pc' = [pc EXCEPT ![c] = "fail"]
        BY <3>1 DEF Fails, work
      <4>2. Further["fail"] < Further[pc[c]]
        BY <3>1, Ranks
      <4> QED
        BY <4>1, <4>2, LowerIsNearer
    <3>2. CASE todo' = [todo EXCEPT ![c] = @ - 1] /\ pc[c] = "tts"
      <4>1. todo \in [Conns -> Nat]
        BY DEF TypeOK, WorkType
      <4>2. todo'[c] < todo[c]
        BY <3>2, <4>1
      <4> QED
        BY <4>2 DEF Nearer
    <3> QED
      BY <2>3, <3>1, <3>2 DEF Synthesize
  <2>4. CASE EmitFrame(c)
    BY <2>4, FrameIsNearer
  <2>5. CASE \/ CompleteOnCommit(c) \/ Farewell(c) \/ FailSession(c) \/ Report(c)
             \/ CompleteOversize(c) \/ Close1009(c) \/ Cleanup(c) \/ Close(c)
    <3>1. UNCHANGED <<todo, results, step>>
      BY <2>5 DEF CompleteOnCommit, Farewell, FailSession, Report, CompleteOversize, Close1009,
         Cleanup, Close, work
    <3>2. \E l \in PCs : pc' = [pc EXCEPT ![c] = l] /\ Further[l] < Further[pc[c]]
      BY <2>5, Ranks DEF CompleteOnCommit, Farewell, FailSession, Report, CompleteOversize,
         Close1009, Cleanup, Close, PCs
    <3> QED
      BY <3>1, <3>2, LowerIsNearer
  <2> QED
    BY <2>1, <2>2, <2>3, <2>4, <2>5 DEF Handle
<1>2. Spec => [](TypeOK /\ Shape)
  <2>1. TypeOK /\ Shape /\ [Next]_vars => (TypeOK /\ Shape)'
    BY StoreTypeStep, ControlTypeStep, IoTypeStep, WorkTypeStep, VerdictTypeStep DEF TypeOK
  <2> QED
    BY <2>1, TypeInit, PTL DEF Spec
<1> QED
  BY <1>1, <1>2, PTL DEF Spec, EveryStepNearer

-------------------------------------------------------------------------------
(* The rows of a session *)

\* The coroutine may still persist a segment of its session.
Streaming == {"offline", "authorize", "greet", "receive", "invalid", "lookup", "asr",
              "transcription", "mt", "translation", "tts", "emit"}

\* How many of its segments a streaming handler has persisted.
Saved(c) == IF pc[c] \in {"asr", "transcription"} THEN index[c] ELSE emitted[c]

\* Before its session exists a connection is not opened, and it has numbered nothing.
NotYet == \A c \in Conns : /\ status[sess[c]] = "absent" => pc[c] = "offline"
                           /\ pc[c] = "offline" => emitted[c] = 0

\* From _run's index on, the index under way is the last one taken.
IndexTaken == \A c \in Conns :
  pc[c] \in {"asr", "transcription", "mt", "translation", "tts"} => emitted[c] = index[c] + 1

\* A handler that goes on streaming has persisted every segment it numbered.
AllSaved == \A c \in Conns : pc[c] \in Streaming /\ Exists(sess[c]) =>
  \A i \in 0..(Saved(c) - 1) : [session |-> sess[c], index |-> i, by |-> c] \in transcriptions

\* The unique constraint.
OneRowPerIndex == \A r, q \in transcriptions :
  r.session = q.session /\ r.index = q.index => r = q

\* Below every row stand all the lower rows of the same handler.
OwnPrefix == \A r \in transcriptions : \A i \in 0..r.index :
  [session |-> r.session, index |-> i, by |-> r.by] \in transcriptions

RowInv == NotYet /\ IndexTaken /\ AllSaved /\ OneRowPerIndex /\ OwnPrefix

\* The types this argument needs.
RowType ==
  /\ transcriptions \subseteq Row
  /\ status \in [Sessions -> Statuses]
  /\ pc \in [Conns -> PCs] /\ sess \in [Conns -> Sessions]
  /\ index \in [Conns -> Nat] /\ emitted \in [Conns -> Nat]

\* With no rows and nothing numbered the row invariant holds.
LEMMA RowInvInit == Init => RowInv
BY DEF Init, StoreInit, RowInv, NotYet, IndexTaken, AllSaved,
       OneRowPerIndex, OwnPrefix, Saved, Exists, Stored

\* Every step of every handler, of REST and of the environment keeps the row
\* invariant: the heart of OneWriter and NoGap.
LEMMA RowInvStep == TypeOK /\ TypeOK' /\ RowInv /\ [Next]_vars => RowInv'
<1> SUFFICES ASSUME TypeOK, TypeOK', RowInv, [Next]_vars PROVE RowInv'
  OBVIOUS
<1>t. RowType /\ RowType'
  BY DEF RowType, TypeOK, StoreType, ControlType, WorkType
<1> USE DEF RowInv, RowType, Goto, PCs, NotYet, IndexTaken, AllSaved, OneRowPerIndex,
            OwnPrefix, Saved, Streaming, Exists, Stored
<1>1. ASSUME NEW c \in Conns, Connect(c) PROVE RowInv'
  BY <1>1, <1>t DEF Connect, storeVars, tables, fixed, work
<1>2. ASSUME NEW c \in Conns, Message(c) PROVE RowInv'
  BY <1>2, <1>t DEF Message, ReceiveChunk, RunSegments, ReceiveGarbage, ReceiveOversize,
              ReceiveInvalid,
              ReceiveCommit, Takes, storeVars, tables, fixed, work
<1>3. ASSUME NEW c \in Conns, Handle(c) PROVE RowInv'
  <2> USE DEF storeVars, tables, fixed, work
  <2>1. CASE Authorize(c)
    BY <2>1, <1>t DEF Authorize, Outage
  <2>2. CASE Refuse(c) \/ Greet(c) \/ ReceiveDisconnect(c) \/ AnswerInvalid(c)
    BY <2>2, <1>t DEF Refuse, Greet, ReceiveDisconnect, AnswerInvalid
  <2>3. CASE Lookup(c)
    BY <2>3, <1>t DEF Lookup, Fails, Outage
  <2>4. CASE Transcribe(c) \/ Translate(c)
    BY <2>4, <1>t DEF Transcribe, Translate, Engine, Fails
  <2>5. CASE SaveTranscription(c)
    BY <2>5, <1>t DEF SaveTranscription, InsertTranscription, TranscriptionRaises, Fails, Outage,
                OutageAfterCommit, RowOf, MayInsert, Row
  <2>6. CASE SaveTranslation(c)
    BY <2>6, <1>t DEF SaveTranslation, InsertTranslation, TranslationRaises, Fails, Outage
  <2>7. CASE Synthesize(c)
    <3>1. pc[c] = "tts" /\ UNCHANGED <<transcriptions, status, sess, index, emitted>>
      BY <2>7 DEF Synthesize, Fails
    <3>2. \E l \in {"emit", "lookup", "fail"} : pc' = [pc EXCEPT ![c] = l]
      BY <2>7 DEF Synthesize, Fails
    <3> QED
      BY <3>1, <3>2, <1>t
  <2>10. CASE EmitFrame(c)
    <3>1. pc[c] = "emit" /\ UNCHANGED <<transcriptions, status, sess, index, emitted>>
      BY <2>10 DEF EmitFrame
    <3>2. \E l \in {"emit", "complete", "receive", "cleanup"} : pc' = [pc EXCEPT ![c] = l]
      BY <2>10 DEF EmitFrame
    <3> QED
      BY <3>1, <3>2, <1>t
  <2>8. CASE CompleteOnCommit(c) \/ FailSession(c) \/ CompleteOversize(c) \/ Cleanup(c)
    BY <2>8, <1>t DEF CompleteOnCommit, FailSession, CompleteOversize, Cleanup, Suppressed,
                UpdateStatus, UpdateStatusRaisesLate, UpdateStatusRaises, UpdateStatusMisses, SetStatus,
                Outage, OutageAfterCommit
  <2>9. CASE Farewell(c) \/ Report(c) \/ Close1009(c) \/ Close(c)
    BY <2>9, <1>t DEF Farewell, Report, Close1009, Close
  <2> QED
    BY <1>3, <2>1, <2>2, <2>3, <2>4, <2>5, <2>6, <2>7, <2>8, <2>9, <2>10 DEF Handle
<1>4. ASSUME NEW c \in Conns, ClientLeaves(c) PROVE RowInv'
  BY <1>4, <1>t DEF ClientLeaves, storeVars, tables, fixed, work
<1>5. CASE Rest
  BY <1>5, <1>t DEF Rest, CreateSession, RestComplete, RestDelete, SetStatus, tables, handlerVars, Row
<1>6. CASE Crash
  BY <1>6, <1>t DEF Crash, storeVars, tables, work
<1>7. CASE UNCHANGED vars
  BY <1>7, <1>t DEF vars, storeVars, tables, handlerVars
<1> QED
  BY <1>1, <1>2, <1>3, <1>4, <1>5, <1>6, <1>7 DEF Next

\* However many connections stream into a session, its transcriptions come from
\* one of them: every handler numbers its rows from 0, and row 0 exists once.
THEOREM OneWriter == Spec => []OneWriterPerSession
<1>1. TypeOK /\ RowInv => OneWriterPerSession
  <2> SUFFICES ASSUME TypeOK, RowInv, NEW r \in transcriptions, NEW q \in transcriptions,
                      r.session = q.session
               PROVE  r.by = q.by
    BY DEF OneWriterPerSession
  <2> DEFINE first(x) == [session |-> x.session, index |-> 0, by |-> x.by]
  <2>1. r.index \in Nat /\ q.index \in Nat
    BY DEF TypeOK, StoreType, Row
  <2>2. first(r) \in transcriptions /\ first(q) \in transcriptions
    BY <2>1 DEF RowInv, OwnPrefix
  <2>3. first(r) = first(q)
    BY <2>2 DEF RowInv, OneRowPerIndex
  <2> QED
    BY <2>3
<1> QED
  BY <1>1, TypeCorrect, RowInvInit, RowInvStep, PTL DEF Spec

\* A session's rows are numbered without a gap from 0.
THEOREM NoGap == Spec => []NoIndexGap
<1>1. RowInv => NoIndexGap
  <2> SUFFICES ASSUME RowInv, NEW r \in transcriptions, NEW i \in 0..r.index
               PROVE  \E q \in transcriptions : q.session = r.session /\ q.index = i
    BY DEF NoIndexGap
  <2>1. [session |-> r.session, index |-> i, by |-> r.by] \in transcriptions
    BY DEF RowInv, OwnPrefix
  <2> QED
    BY <2>1
<1> QED
  BY <1>1, TypeCorrect, RowInvInit, RowInvStep, PTL DEF Spec
===============================================================================
