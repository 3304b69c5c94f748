---------------------------- MODULE SegmenterProofs ----------------------------
(***************************************************************************)
(* Theorems about the segmenter, for every setting that satisfies the       *)
(* assumptions, every chunk and every answer of the network.                *)
(***************************************************************************)
EXTENDS Segmenter, FiniteSetTheorems, SequenceTheorems, TLAPS

\* The open utterance: typed, one level per frame, its two counters right, and
\* shorter than the ceiling.
OpenInv ==
  /\ triggered \in BOOLEAN
  /\ silence_frames \in Nat /\ active_frames \in Nat
  /\ segment \in Seq(Nat) /\ probs \in Seq(Nat) /\ preroll \in Seq(Nat)
  /\ Len(segment) = Len(probs) /\ Len(preroll) <= Pad
  /\ Len(segment) < MaxFrames
  /\ ActiveCountExact /\ PauseIsReal

\* What was closed: typed, emitted when it holds enough speech, within the ceiling.
ClosedInv ==
  /\ closed \in Seq(Closed)
  /\ NoiseNeverEmitted
  /\ \A k \in 1..Len(closed) : Len(closed[k].frames) <= MaxFrames

\* feed(): typed, and never past the end of what arrived.
FeedInv ==
  /\ residue \in Nat /\ samples \in Nat /\ offset \in Nat /\ received \in Nat
  /\ pc \in {"idle", "feeding"} /\ loud \subseteq Nat
  /\ offset <= samples /\ samples <= received /\ residue <= received

SegInv == OpenInv /\ ClosedInv /\ FeedInv

-------------------------------------------------------------------------------
(* Counting the frames over the floor *)

\* The positions that ActiveIn counts are finitely many.
LEMMA ActiveFinite ==
  ASSUME NEW ps \in Seq(Nat)
  PROVE  /\ IsFiniteSet({ i \in 1..Len(ps) : ps[i] >= Floor })
         /\ ActiveIn(ps) \in Nat
<1>1. IsFiniteSet(1..Len(ps))
  BY FS_Interval
<1>2. IsFiniteSet({ i \in 1..Len(ps) : ps[i] >= Floor })
  BY <1>1, FS_Subset
<1> QED
  BY <1>2, FS_CardinalityType DEF ActiveIn

\* Of no frames none is active.
LEMMA ActiveEmpty == ActiveIn(<<>>) = 0
<1>1. { i \in 1..Len(<<>>) : <<>>[i] >= Floor } = {}
  OBVIOUS
<1> QED
  BY <1>1, FS_EmptySet DEF ActiveIn

\* One frame more counts one more exactly when it clears the floor.
LEMMA ActiveAppend ==
  ASSUME NEW ps \in Seq(Nat), NEW p \in Nat
  PROVE  ActiveIn(Append(ps, p)) = IF p >= Floor THEN ActiveIn(ps) + 1 ELSE ActiveIn(ps)
<1> DEFINE n == Len(ps)
           longer == Append(ps, p)
           old == { i \in 1..n : ps[i] >= Floor }
           new == { i \in 1..Len(longer) : longer[i] >= Floor }
<1>1. n \in Nat /\ Len(longer) = n + 1 /\ longer[n + 1] = p /\ \A i \in 1..n : longer[i] = ps[i]
  OBVIOUS
<1>2. IsFiniteSet(old)
  BY ActiveFinite
<1> HIDE DEF n, longer
<1>5. n + 1 \notin old
  BY <1>1
<1>3. CASE p >= Floor
  <2>1. new = old \cup {n + 1}
    BY <1>1, <1>3
  <2>2. Cardinality(new) = Cardinality(old) + 1
    BY <1>2, <1>5, <2>1, FS_AddElement
  <2> QED
    BY <1>3, <2>2 DEF ActiveIn, n, longer
<1>4. CASE ~(p >= Floor)
  <2>1. new = old
    BY <1>1, <1>4, LevelAssumption
  <2> QED
    BY <1>4, <2>1 DEF ActiveIn, n, longer
<1> QED
  BY <1>3, <1>4

\* A pre-roll's levels are 0, under the floor: none counts.
LEMMA ActiveZeros ==
  ASSUME NEW n \in Nat
  PROVE  /\ [i \in 1..n |-> 0] \in Seq(Nat)
         /\ ActiveIn([i \in 1..n |-> 0]) = 0
<1> DEFINE zeros == [i \in 1..n |-> 0]
<1>1. zeros \in Seq(Nat) /\ Len(zeros) = n
  OBVIOUS
<1>2. { i \in 1..Len(zeros) : zeros[i] >= Floor } = {}
  BY <1>1, LevelAssumption
<1> QED
  BY <1>1, <1>2, FS_EmptySet DEF ActiveIn
-------------------------------------------------------------------------------
(* Closing *)

\* One more closed segment, counted and no longer than the ceiling.
LEMMA ClosedAppend ==
  ASSUME ClosedInv, NEW fs \in Seq(Nat), NEW ps \in Seq(Nat), NEW reason \in Reasons,
         Len(fs) <= MaxFrames,
         closed' = Append(closed, Outcome(fs, ps, ActiveIn(ps), reason))
  PROVE  ClosedInv'
<1> DEFINE o == Outcome(fs, ps, ActiveIn(ps), reason)
<1>1. o \in Closed
  BY DEF Outcome, Closed
<1>2. /\ o.probs = ps /\ o.frames = fs
      /\ o.emitted <=> ActiveIn(ps) >= MinSpeech
  BY DEF Outcome
<1>3. closed \in Seq(Closed)
  BY DEF ClosedInv
<1> HIDE DEF o
<1>4. closed' = Append(closed, o)
  BY DEF o
<1>5. /\ closed' \in Seq(Closed) /\ Len(closed') = Len(closed) + 1
      /\ closed'[Len(closed) + 1] = o
      /\ \A k \in 1..Len(closed) : closed'[k] = closed[k]
  BY <1>1, <1>3, <1>4
<1>6. \A k \in 1..Len(closed') : k \in 1..Len(closed) \/ k = Len(closed) + 1
  BY <1>3, <1>5
<1>7. NoiseNeverEmitted'
  <2> SUFFICES ASSUME NEW k \in 1..Len(closed')
               PROVE  closed'[k].emitted <=> ActiveIn(closed'[k].probs) >= MinSpeech
    BY DEF NoiseNeverEmitted, ActiveIn
  <2>1. CASE k \in 1..Len(closed)
    BY <1>5, <2>1 DEF ClosedInv, NoiseNeverEmitted
  <2>2. CASE k = Len(closed) + 1
    BY <1>2, <1>5, <2>2
  <2> QED
    BY <1>6, <2>1, <2>2
<1>8. \A k \in 1..Len(closed') : Len(closed'[k].frames) <= MaxFrames
  BY <1>2, <1>5, <1>6 DEF ClosedInv
<1> QED
  BY <1>5, <1>7, <1>8 DEF ClosedInv

\* A close that leaves nothing open.
LEMMA WholeKeeps ==
  ASSUME ClosedInv, NEW fs \in Seq(Nat), NEW ps \in Seq(Nat), NEW reason \in Reasons,
         Len(fs) <= MaxFrames, CloseWhole(fs, ps, ActiveIn(ps), reason)
  PROVE  OpenInv' /\ ClosedInv'
<1>1. ClosedInv'
  BY ClosedAppend DEF CloseWhole
<1>2. /\ triggered' = FALSE /\ silence_frames' = 0 /\ active_frames' = 0
      /\ segment' = <<>> /\ probs' = <<>> /\ preroll' = <<>>
  BY DEF CloseWhole, Reset
<1>3. ActiveCountExact'
  BY <1>2, ActiveEmpty DEF ActiveCountExact, ActiveIn
<1>4. PauseIsReal'
  BY <1>2, FrameAssumption DEF PauseIsReal
<1>5. /\ segment' \in Seq(Nat) /\ probs' \in Seq(Nat) /\ preroll' \in Seq(Nat)
      /\ Len(segment') = 0 /\ Len(probs') = 0 /\ Len(preroll') = 0
  BY <1>2
<1>6. 0 < MaxFrames /\ 0 <= Pad
  BY FrameAssumption
<1> QED
  BY <1>1, <1>2, <1>3, <1>4, <1>5, <1>6 DEF OpenInv

\* A piece of a sequence, possibly empty.
LEMMA Piece ==
  ASSUME NEW s \in Seq(Nat), NEW a \in Nat, NEW b \in Nat, 1 <= a, a <= b + 1, b <= Len(s)
  PROVE  SubSeq(s, a, b) \in Seq(Nat) /\ Len(SubSeq(s, a, b)) = b - a + 1
<1>1. \A i \in a..b : s[i] \in Nat
  OBVIOUS
<1>2. /\ SubSeq(s, a, b) \in Seq(Nat)
      /\ Len(SubSeq(s, a, b)) = IF a <= b THEN b - a + 1 ELSE 0
  BY <1>1, SubSeqProperties
<1> QED
  BY <1>2

\* A close at the cut: the head is closed, and the remainder is shorter than the
\* ceiling, counted anew, with no pause.
LEMMA CutKeeps ==
  ASSUME ClosedInv, NEW fs \in Seq(Nat), NEW ps \in Seq(Nat),
         Len(fs) = Len(ps), Len(fs) <= MaxFrames, CloseAtCut(fs, ps)
  PROVE  OpenInv' /\ ClosedInv'
<1>1. PICK cut \in 1..Len(ps) :
        /\ IsCut(ps, cut)
        /\ closed' = Append(closed, Outcome(SubSeq(fs, 1, cut - 1), SubSeq(ps, 1, cut - 1),
                                            ActiveIn(SubSeq(ps, 1, cut - 1)), "ceiling"))
        /\ triggered' = TRUE
        /\ segment' = SubSeq(fs, cut, Len(fs))
        /\ probs' = SubSeq(ps, cut, Len(ps))
        /\ active_frames' = ActiveIn(SubSeq(ps, cut, Len(ps)))
        /\ silence_frames' = 0
        /\ preroll' = <<>>
  BY DEF CloseAtCut
<1>2. cut > Len(ps) - Lookback
  BY <1>1 DEF IsCut
<1>9. cut \in Nat /\ 1 <= cut /\ cut <= Len(ps) /\ Len(ps) \in Nat /\ MaxFrames \in Nat
  BY FrameAssumption
<1>3. /\ SubSeq(fs, 1, cut - 1) \in Seq(Nat) /\ SubSeq(ps, 1, cut - 1) \in Seq(Nat)
      /\ Len(SubSeq(fs, 1, cut - 1)) = cut - 1
  <2>1. cut - 1 \in Nat /\ cut - 1 <= Len(fs) /\ cut - 1 <= Len(ps) /\ 1 <= cut - 1 + 1
    BY <1>9
  <2> QED
    BY SMTT(30), <2>1, Piece
<1>13. Len(SubSeq(fs, 1, cut - 1)) <= MaxFrames
  BY <1>3, <1>9
<1>4. ClosedInv'
  BY <1>1, <1>3, <1>13, ClosedAppend DEF Reasons
<1>10. /\ SubSeq(fs, cut, Len(fs)) \in Seq(Nat) /\ SubSeq(ps, cut, Len(ps)) \in Seq(Nat)
       /\ Len(SubSeq(fs, cut, Len(fs))) = Len(fs) - cut + 1
       /\ Len(SubSeq(ps, cut, Len(ps))) = Len(ps) - cut + 1
  <2>1. cut <= Len(fs) + 1 /\ cut <= Len(ps) + 1 /\ Len(fs) \in Nat
    BY <1>9
  <2>2. /\ SubSeq(fs, cut, Len(fs)) \in Seq(Nat)
        /\ Len(SubSeq(fs, cut, Len(fs))) = Len(fs) - cut + 1
    BY SMTT(30), <1>9, <2>1, Piece
  <2>3. /\ SubSeq(ps, cut, Len(ps)) \in Seq(Nat)
        /\ Len(SubSeq(ps, cut, Len(ps))) = Len(ps) - cut + 1
    BY SMTT(30), <1>9, <2>1, Piece
  <2> QED
    BY <2>2, <2>3
<1>5. /\ segment' \in Seq(Nat) /\ probs' \in Seq(Nat)
      /\ Len(segment') = Len(probs') /\ Len(segment') = Len(ps) - cut + 1
  BY <1>1, <1>10
<1>6. Len(segment') < MaxFrames
  BY <1>2, <1>5, FrameAssumption
<1>7. ActiveCountExact' /\ active_frames' \in Nat
  <2>1. active_frames' = ActiveIn(probs')
    BY <1>1
  <2> QED
    BY <1>5, <2>1, ActiveFinite DEF ActiveCountExact, ActiveIn
<1>8. PauseIsReal'
  <2>1. silence_frames' = 0 /\ Len(probs') \in Nat
    BY <1>1, <1>5, <1>9, FrameAssumption
  <2>2. \A i \in 1..Len(probs') : ~ (i > Len(probs') - 0)
    BY <2>1
  <2> QED
    BY <2>1, <2>2 DEF PauseIsReal
<1>11. preroll' \in Seq(Nat) /\ Len(preroll') <= Pad
  BY <1>1, FrameAssumption
<1>12. triggered' \in BOOLEAN /\ silence_frames' \in Nat
  BY <1>1
<1> QED
  BY <1>4, <1>5, <1>6, <1>7, <1>8, <1>11, <1>12 DEF OpenInv

\* The ceiling's close, with a look-back or without.
LEMMA CeilingKeeps ==
  ASSUME ClosedInv, NEW fs \in Seq(Nat), NEW ps \in Seq(Nat),
         Len(fs) = Len(ps), Len(fs) <= MaxFrames, CloseOnCeiling(fs, ps, ActiveIn(ps))
  PROVE  OpenInv' /\ ClosedInv'
BY CutKeeps, WholeKeeps DEF CloseOnCeiling, Reasons

-------------------------------------------------------------------------------
(* One frame *)

\* The pre-roll with one frame more is no longer than the pad.
LEMMA PrerollBound ==
  ASSUME OpenInv, NEW frame \in Nat
  PROVE  WithFrame(frame) \in Seq(Nat) /\ Len(WithFrame(frame)) <= Pad
<1> DEFINE longer == Append(preroll, frame)
<1>1. preroll \in Seq(Nat) /\ Len(preroll) <= Pad /\ Pad \in Nat
  BY FrameAssumption DEF OpenInv
<1>2. longer \in Seq(Nat) /\ Len(longer) = Len(preroll) + 1
  BY <1>1
<1> HIDE DEF longer
<1>3. CASE Len(longer) > Pad
  <2>1. Tail(longer) \in Seq(Nat) /\ Len(Tail(longer)) = Len(longer) - 1
    BY <1>1, <1>2, <1>3
  <2> QED
    BY <1>1, <1>2, <1>3, <2>1 DEF WithFrame, longer
<1>4. CASE ~(Len(longer) > Pad)
  BY <1>1, <1>2, <1>4 DEF WithFrame, longer
<1> QED
  BY <1>3, <1>4

\* While nothing is open, a frame under the threshold only joins the pre-roll.
LEMMA ListenKeeps ==
  ASSUME OpenInv, ClosedInv, NEW frame \in Nat, NEW prob \in Nat, Listen(frame, prob)
  PROVE  OpenInv' /\ ClosedInv'
<1>1. /\ preroll' = WithFrame(frame)
      /\ UNCHANGED <<triggered, silence_frames, active_frames, segment, probs, closed>>
  BY DEF Listen
<1>2. preroll' \in Seq(Nat) /\ Len(preroll') <= Pad
  BY <1>1, PrerollBound
<1> QED
  BY <1>1, <1>2 DEF OpenInv, ClosedInv, ActiveCountExact, PauseIsReal, NoiseNeverEmitted, ActiveIn

\* The onset counts one frame of speech: the pre-roll's levels are under the floor.
LEMMA TriggerKeeps ==
  ASSUME OpenInv, ClosedInv, NEW frame \in Nat, NEW prob \in Nat, Trigger(frame, prob)
  PROVE  OpenInv' /\ ClosedInv'
<1> DEFINE pre   == WithFrame(frame)
           zeros == [i \in 1..Len(pre) |-> 0]
<1>1. pre \in Seq(Nat) /\ Len(pre) <= Pad /\ Len(pre) \in Nat
  BY PrerollBound
<1>2. zeros \in Seq(Nat) /\ Len(zeros) = Len(pre) /\ ActiveIn(zeros) = 0
  BY <1>1, ActiveZeros
<1>3. /\ prob >= Threshold /\ triggered' = TRUE
      /\ segment' = Append(pre, frame) /\ probs' = Append(zeros, prob)
      /\ preroll' = <<>> /\ active_frames' = 1 /\ silence_frames' = 0 /\ closed' = closed
  BY DEF Trigger
<1> HIDE DEF pre, zeros
<1>4. /\ segment' \in Seq(Nat) /\ probs' \in Seq(Nat)
      /\ Len(segment') = Len(pre) + 1 /\ Len(probs') = Len(pre) + 1
  BY <1>1, <1>2, <1>3
<1>5. ActiveIn(Append(zeros, prob)) = 1
  BY <1>2, <1>3, ActiveAppend, LevelAssumption
<1>6. ActiveCountExact'
  BY <1>3, <1>5 DEF ActiveCountExact, ActiveIn
<1>7. PauseIsReal'
  BY <1>3, <1>4, <1>1, FrameAssumption DEF PauseIsReal
<1>8. ClosedInv'
  BY <1>3 DEF ClosedInv, NoiseNeverEmitted, ActiveIn
<1> QED
  BY <1>1, <1>3, <1>4, <1>6, <1>7, <1>8, FrameAssumption DEF OpenInv

\* A frame over the floor counts, and ends the pause.
LEMMA SpeakKeeps ==
  ASSUME OpenInv, ClosedInv, NEW frame \in Nat, NEW prob \in Nat, Speak(frame, prob)
  PROVE  OpenInv' /\ ClosedInv'
<1> DEFINE fs == Append(segment, frame)
           ps == Append(probs, prob)
<1>1. /\ fs \in Seq(Nat) /\ ps \in Seq(Nat) /\ Len(fs) = Len(ps)
      /\ Len(fs) <= MaxFrames /\ Len(ps) \in Nat
  BY FrameAssumption DEF OpenInv
<1>2. active_frames + 1 = ActiveIn(ps)
  BY ActiveAppend DEF OpenInv, ActiveCountExact, Speak
<1>3. \/ Len(fs) >= MaxFrames /\ CloseOnCeiling(fs, ps, active_frames + 1)
      \/ /\ ~(Len(fs) >= MaxFrames)
         /\ segment' = fs /\ probs' = ps /\ active_frames' = active_frames + 1
         /\ silence_frames' = 0 /\ UNCHANGED <<triggered, preroll, closed>>
  BY DEF Speak
<1> HIDE DEF fs, ps
<1>4. CASE CloseOnCeiling(fs, ps, active_frames + 1)
  BY <1>1, <1>2, <1>4, CeilingKeeps
<1>5. CASE /\ ~(Len(fs) >= MaxFrames)
           /\ segment' = fs /\ probs' = ps /\ active_frames' = active_frames + 1
           /\ silence_frames' = 0 /\ UNCHANGED <<triggered, preroll, closed>>
  <2>1. ActiveCountExact'
    BY <1>2, <1>5 DEF ActiveCountExact, ActiveIn
  <2>2. PauseIsReal'
    BY <1>1, <1>5, FrameAssumption DEF PauseIsReal
  <2>3. ClosedInv'
    BY <1>5 DEF ClosedInv, NoiseNeverEmitted, ActiveIn
  <2> QED
    BY <1>1, <1>5, <2>1, <2>2, <2>3, FrameAssumption DEF OpenInv
<1> QED
  BY <1>3, <1>4, <1>5

\* A frame under the floor lengthens the pause and counts for nothing.
LEMMA PauseKeeps ==
  ASSUME OpenInv, ClosedInv, NEW frame \in Nat, NEW prob \in Nat, Pause(frame, prob)
  PROVE  OpenInv' /\ ClosedInv'
<1> DEFINE fs == Append(segment, frame)
           ps == Append(probs, prob)
           grows == /\ silence_frames + 1 < MinSilence /\ Len(fs) < MaxFrames
                    /\ segment' = fs /\ probs' = ps
                    /\ silence_frames' = silence_frames + 1
                    /\ UNCHANGED <<triggered, active_frames, preroll, closed>>
<1>1. /\ fs \in Seq(Nat) /\ ps \in Seq(Nat) /\ Len(fs) = Len(ps)
      /\ Len(fs) <= MaxFrames /\ Len(ps) = Len(probs) + 1
      /\ ps[Len(probs) + 1] = prob /\ \A i \in 1..Len(probs) : ps[i] = probs[i]
  BY FrameAssumption DEF OpenInv
<1>2. active_frames = ActiveIn(ps)
  BY ActiveAppend, LevelAssumption DEF OpenInv, ActiveCountExact, Pause
<1>3. \/ CloseWhole(fs, ps, active_frames, "silence")
      \/ CloseOnCeiling(fs, ps, active_frames)
      \/ grows
  <2>1. silence_frames \in Nat /\ Len(fs) \in Nat
    BY <1>1 DEF OpenInv
  <2>2. MinSilence \in Nat /\ MaxFrames \in Nat
    BY FrameAssumption
  <2>3. IF silence_frames + 1 >= MinSilence
        THEN CloseWhole(fs, ps, active_frames, "silence")
        ELSE IF Len(fs) >= MaxFrames
        THEN CloseOnCeiling(fs, ps, active_frames)
        ELSE /\ segment' = fs /\ probs' = ps
             /\ silence_frames' = silence_frames + 1
             /\ UNCHANGED <<triggered, active_frames, preroll, closed>>
    BY DEF Pause
  <2> HIDE DEF fs, ps
  <2> QED
    BY <2>1, <2>2, <2>3
<1> HIDE DEF fs, ps
<1>4. CASE CloseWhole(fs, ps, active_frames, "silence")
  BY <1>1, <1>2, <1>4, WholeKeeps DEF Reasons
<1>5. CASE CloseOnCeiling(fs, ps, active_frames)
  BY <1>1, <1>2, <1>5, CeilingKeeps
<1>6. CASE grows
  <2>1. ActiveCountExact'
    BY <1>2, <1>6 DEF ActiveCountExact, ActiveIn
  <2>2. PauseIsReal'
    <3>1. /\ silence_frames \in Nat /\ Len(probs) \in Nat /\ silence_frames <= Len(probs)
          /\ \A i \in 1..Len(probs) : i > Len(probs) - silence_frames => probs[i] < Floor
      BY DEF OpenInv, PauseIsReal
    <3>2. prob < Floor
      BY DEF Pause
    <3>3. silence_frames' = silence_frames + 1 /\ probs' = ps
      BY <1>6
    <3>4. silence_frames' < MinSilence /\ silence_frames' <= Len(probs')
      BY <1>1, <1>6, <3>1, <3>3
    <3>5. ASSUME NEW i \in 1..Len(probs'), i > Len(probs') - silence_frames'
          PROVE  probs'[i] < Floor
      <4>1. CASE i \in 1..Len(probs)
        <5>1. i > Len(probs) - silence_frames
          BY <1>1, <3>1, <3>3, <3>5
        <5> QED
          BY <1>1, <3>1, <3>3, <4>1, <5>1
      <4>2. CASE i = Len(probs) + 1
        BY <1>1, <3>2, <3>3, <4>2
      <4> QED
        BY <1>1, <3>1, <3>3, <4>1, <4>2
    <3> QED
      BY <3>4, <3>5 DEF PauseIsReal
  <2>3. ClosedInv'
    BY <1>6 DEF ClosedInv, NoiseNeverEmitted, ActiveIn
  <2> QED
    BY SMTT(30), <1>1, <1>6, <2>1, <2>2, <2>3 DEF OpenInv
<1> QED
  BY <1>3, <1>4, <1>5, <1>6
-------------------------------------------------------------------------------
(* The invariant *)

\* A fresh VADState, before any chunk.
LEMMA SegInit == Init => SegInv
<1> SUFFICES ASSUME Init PROVE SegInv
  OBVIOUS
<1>1. /\ segment = <<>> /\ probs = <<>> /\ preroll = <<>> /\ closed = <<>>
      /\ Len(segment) = 0 /\ Len(probs) = 0 /\ Len(preroll) = 0 /\ Len(closed) = 0
      /\ active_frames = 0 /\ silence_frames = 0 /\ triggered = FALSE
  BY DEF Init
<1>2. OpenInv
  <2>1. ActiveCountExact
    BY <1>1, ActiveEmpty DEF ActiveCountExact
  <2>2. PauseIsReal
    BY <1>1, FrameAssumption DEF PauseIsReal
  <2>3. 0 < MaxFrames /\ 0 <= Pad
    BY FrameAssumption
  <2>4. segment \in Seq(Nat) /\ probs \in Seq(Nat) /\ preroll \in Seq(Nat)
    BY <1>1
  <2>5. Len(segment) = Len(probs) /\ Len(segment) < MaxFrames /\ Len(preroll) <= Pad
    BY <1>1, <2>3
  <2>6. triggered \in BOOLEAN /\ silence_frames \in Nat /\ active_frames \in Nat
    BY <1>1
  <2> QED
    BY <2>1, <2>2, <2>4, <2>5, <2>6 DEF OpenInv
<1>3. ClosedInv
  BY <1>1 DEF ClosedInv, NoiseNeverEmitted
<1>4. FeedInv
  BY DEF Init, FeedInv
<1> QED
  BY <1>2, <1>3, <1>4 DEF SegInv

\* Every chunk, frame and flush keeps the counters, the ceiling and the types.
LEMMA SegStep == SegInv /\ [Next]_vars => SegInv'
<1> SUFFICES ASSUME SegInv, [Next]_vars PROVE SegInv'
  OBVIOUS
<1>1. OpenInv /\ ClosedInv /\ FeedInv
  BY DEF SegInv
<1>2. ASSUME UNCHANGED <<vadVars, closed>> PROVE OpenInv' /\ ClosedInv'
  BY <1>1, <1>2 DEF vadVars, OpenInv, ClosedInv, ActiveCountExact, PauseIsReal,
                    NoiseNeverEmitted, ActiveIn
<1>3. CASE FeedChunk
  <2>1. FeedInv'
    BY <1>1, <1>3, StreamAssumption DEF FeedChunk, FeedInv
  <2> QED
    BY <1>2, <1>3, <2>1 DEF FeedChunk, SegInv
<1>4. CASE FeedFrame
  <2>1. PICK prob \in Probs :
          /\ \/ Listen(received - samples + offset, prob)
             \/ Trigger(received - samples + offset, prob)
             \/ Speak(received - samples + offset, prob)
             \/ Pause(received - samples + offset, prob)
          /\ loud' = IF prob >= Threshold THEN loud \cup {received - samples + offset} ELSE loud
    BY <1>4 DEF FeedFrame
  <2>2. received - samples + offset \in Nat /\ prob \in Nat
    BY <1>1, LevelAssumption DEF FeedInv
  <2>3. OpenInv' /\ ClosedInv'
    BY <1>1, <2>1, <2>2, ListenKeeps, TriggerKeeps, SpeakKeeps, PauseKeeps
  <2>4. FeedInv'
    BY <1>1, <1>4, <2>1, <2>2, StreamAssumption DEF FeedFrame, FeedInv
  <2> QED
    BY <2>3, <2>4 DEF SegInv
<1>5. CASE FeedEnd
  <2>1. FeedInv'
    BY <1>1, <1>5 DEF FeedEnd, FeedInv
  <2> QED
    BY <1>2, <1>5, <2>1 DEF FeedEnd, SegInv
<1>6. CASE Flush
  <2>1. /\ segment \in Seq(Nat) /\ probs \in Seq(Nat) /\ Len(segment) <= MaxFrames
        /\ active_frames = ActiveIn(probs)
    BY <1>1, FrameAssumption DEF OpenInv, ActiveCountExact
  <2>2. OpenInv' /\ ClosedInv'
    BY <1>1, <1>6, <2>1, WholeKeeps DEF Flush, Reasons
  <2> QED
    BY <1>1, <1>6, <2>2 DEF Flush, feedVars, FeedInv, SegInv
<1>7. CASE UNCHANGED vars
  BY <1>1, <1>2, <1>7 DEF vars, feedVars, FeedInv, SegInv
<1> QED
  BY <1>3, <1>4, <1>5, <1>6, <1>7 DEF Next

\* The invariant holds in every behaviour of the segmenter.
THEOREM SegInvariant == Spec => []SegInv
BY SegInit, SegStep, PTL DEF Spec

-------------------------------------------------------------------------------
(* What follows *)

\* Every variable of the segmenter keeps its type.
THEOREM SegTypeCorrect == Spec => []TypeOK
<1>1. SegInv => TypeOK
  BY DEF SegInv, OpenInv, ClosedInv, FeedInv, TypeOK
<1> QED
  BY <1>1, SegInvariant, PTL

\* The count that tells speech from noise is exact at every frame, also after a
\* ceiling cut the segment in two.
THEOREM CountExact == Spec => []ActiveCountExact
<1>1. SegInv => ActiveCountExact
  BY DEF SegInv, OpenInv
<1> QED
  BY <1>1, SegInvariant, PTL

\* What reaches ASR holds the minimum of speech, and what does not is dropped.
THEOREM NoNoise == Spec => []NoiseNeverEmitted
<1>1. SegInv => NoiseNeverEmitted
  BY DEF SegInv, ClosedInv
<1> QED
  BY <1>1, SegInvariant, PTL

\* The pause counter never claims a pause that speech has interrupted.
THEOREM PauseHonest == Spec => []PauseIsReal
<1>1. SegInv => PauseIsReal
  BY DEF SegInv, OpenInv
<1> QED
  BY <1>1, SegInvariant, PTL

\* The open segment stays under the ceiling, and no segment is closed over it.
THEOREM CeilingRespected == Spec => []CeilingHolds
<1>1. SegInv => CeilingHolds
  BY DEF SegInv, OpenInv, ClosedInv, CeilingHolds
<1> QED
  BY <1>1, SegInvariant, PTL

-------------------------------------------------------------------------------
(* Where the frames go *)

\* What one frame at position f does to the utterance: it joins the pre-roll, ...
Joins(f) ==
  /\ ~triggered /\ UNCHANGED <<triggered, segment, probs, closed>> /\ preroll' = WithFrame(f)

\* ... opens a segment, ...
Opens(f) ==
  /\ ~triggered /\ triggered' = TRUE /\ UNCHANGED closed
  /\ segment' = Append(WithFrame(f), f) /\ preroll' = <<>>
  /\ \E p \in Nat : probs' = Append([i \in 1..Len(WithFrame(f)) |-> 0], p)

\* ... goes on with it, ...
Extends(f) ==
  /\ triggered /\ UNCHANGED <<triggered, preroll, closed>> /\ segment' = Append(segment, f)
  /\ \E p \in Nat : probs' = Append(probs, p)

\* ... cuts it in two, ...
Cuts(fs) ==
  /\ triggered /\ triggered' = TRUE /\ preroll' = <<>>
  /\ \E p \in Nat, cut \in 1..Len(fs), o \in Closed :
       /\ o.frames = SubSeq(fs, 1, cut - 1) /\ o.probs = SubSeq(Append(probs, p), 1, cut - 1)
       /\ closed' = Append(closed, o)
       /\ segment' = SubSeq(fs, cut, Len(fs)) /\ probs' = SubSeq(Append(probs, p), cut, Len(fs))

\* ... or closes all of it, as a flush does.
Empties(fs) ==
  /\ triggered /\ triggered' = FALSE /\ preroll' = <<>> /\ segment' = <<>>
  /\ \E o \in Closed : o.frames = fs /\ closed' = Append(closed, o)

Position == received - samples + offset

LEMMA WholeEmpties ==
  ASSUME triggered, NEW fs \in Seq(Nat), NEW ps \in Seq(Nat), NEW active \in Nat,
         NEW reason \in Reasons, CloseWhole(fs, ps, active, reason)
  PROVE  Empties(fs)
<1> DEFINE o == Outcome(fs, ps, active, reason)
<1>1. o \in Closed /\ o.frames = fs
  BY DEF Outcome, Closed
<1>2. closed' = Append(closed, o) /\ Reset
  BY DEF CloseWhole
<1> HIDE DEF o
<1> QED
  BY <1>1, <1>2 DEF Empties, Reset

LEMMA CeilingDivides ==
  ASSUME triggered, NEW fs \in Seq(Nat), NEW ps \in Seq(Nat), Len(fs) = Len(ps), NEW active \in Nat,
         NEW p \in Nat, ps = Append(probs, p), CloseOnCeiling(fs, ps, active)
  PROVE  Cuts(fs) \/ Empties(fs)
<1>1. CASE CloseWhole(fs, ps, active, "ceiling")
  BY <1>1, WholeEmpties DEF Reasons
<1>2. CASE CloseAtCut(fs, ps)
  <2>1. PICK cut \in 1..Len(ps) :
          /\ closed' = Append(closed, Outcome(SubSeq(fs, 1, cut - 1), SubSeq(ps, 1, cut - 1),
                                              ActiveIn(SubSeq(ps, 1, cut - 1)), "ceiling"))
          /\ triggered' = TRUE /\ segment' = SubSeq(fs, cut, Len(fs)) /\ preroll' = <<>>
          /\ probs' = SubSeq(ps, cut, Len(ps))
    BY <1>2 DEF CloseAtCut
  <2> DEFINE h == SubSeq(fs, 1, cut - 1)
             hp == SubSeq(ps, 1, cut - 1)
             o == Outcome(h, hp, ActiveIn(hp), "ceiling")
  <2>2. h \in Seq(Nat) /\ hp \in Seq(Nat)
    <3>1. cut - 1 \in Nat /\ cut - 1 <= Len(fs) /\ cut - 1 <= Len(ps) /\ 1 <= (cut - 1) + 1
      OBVIOUS
    <3> QED
      BY SMTT(30), <3>1, Piece
  <2>3. o \in Closed /\ o.frames = h /\ o.probs = hp
    <3> HIDE DEF h, hp
    <3> QED
      BY <2>2 DEF Outcome, Closed, Reasons
  <2>4. closed' = Append(closed, o) /\ cut \in 1..Len(fs)
    BY <2>1
  <2> HIDE DEF o
  <2> QED
    BY <2>1, <2>3, <2>4 DEF Cuts
<1> QED
  BY <1>1, <1>2 DEF CloseOnCeiling

\* A frame does one of the five; one over the threshold never just joins the pre-roll.
LEMMA FrameMoves ==
  ASSUME SegInv, FeedFrame
  PROVE  /\ Position \in Nat /\ Position' = Position + FrameSamples
         /\ pc = "feeding" /\ pc' = "feeding"
         /\ \/ Joins(Position) /\ loud' = loud
            \/ /\ loud' \subseteq loud \cup {Position}
               /\ \/ Opens(Position) \/ Extends(Position)
                  \/ Cuts(Append(segment, Position)) \/ Empties(Append(segment, Position))
<1>1. OpenInv /\ ClosedInv /\ FeedInv
  BY DEF SegInv
<1>2. Position \in Nat /\ Position' = Position + FrameSamples /\ pc = "feeding" /\ pc' = "feeding"
  BY <1>1, StreamAssumption DEF FeedInv, FeedFrame, Position
<1>3. PICK prob \in Probs :
        /\ \/ Listen(Position, prob) \/ Trigger(Position, prob)
           \/ Speak(Position, prob) \/ Pause(Position, prob)
        /\ loud' = IF prob >= Threshold THEN loud \cup {Position} ELSE loud
  BY DEF FeedFrame, Position
<1> DEFINE fs == Append(segment, Position)
           ps == Append(probs, prob)
<1>4. /\ fs \in Seq(Nat) /\ ps \in Seq(Nat) /\ Len(fs) = Len(ps)
      /\ prob \in Nat /\ Threshold \in Nat /\ active_frames \in Nat /\ active_frames + 1 \in Nat
  BY <1>1, <1>2, LevelAssumption DEF OpenInv
<1>5. loud' \subseteq loud \cup {Position} /\ (prob < Threshold => loud' = loud)
  BY <1>3, <1>4
<1>6. CASE Listen(Position, prob)
  BY <1>2, <1>5, <1>6 DEF Listen, Joins
<1>7. CASE Trigger(Position, prob)
  BY <1>2, <1>4, <1>5, <1>7 DEF Trigger, Opens
<1>8. CASE Speak(Position, prob)
  <2>1. triggered /\ (CloseOnCeiling(fs, ps, active_frames + 1) \/ Extends(Position))
    BY <1>4, <1>8 DEF Speak, Extends
  <2>p. ps = Append(probs, prob)
    OBVIOUS
  <2> HIDE DEF fs, ps
  <2>2. Cuts(fs) \/ Empties(fs) \/ Extends(Position)
    BY <1>4, <2>1, <2>p, CeilingDivides
  <2> QED
    BY <1>2, <1>5, <2>2 DEF fs
<1>9. CASE Pause(Position, prob)
  <2>1. /\ triggered
        /\ \/ CloseWhole(fs, ps, active_frames, "silence")
           \/ CloseOnCeiling(fs, ps, active_frames) \/ Extends(Position)
    BY <1>4, <1>9 DEF Pause, Extends
  <2>p. ps = Append(probs, prob)
    OBVIOUS
  <2> HIDE DEF fs, ps
  <2>2. Cuts(fs) \/ Empties(fs) \/ Extends(Position)
    BY <1>4, <2>1, <2>p, CeilingDivides, WholeEmpties DEF Reasons
  <2> QED
    BY <1>2, <1>5, <2>2 DEF fs
<1> QED
  BY <1>3, <1>6, <1>7, <1>8, <1>9

LEMMA LastClosed ==
  ASSUME closed \in Seq(Closed), NEW o \in Closed, closed' = Append(closed, o)
  PROVE  /\ \A k \in 1..Len(closed') :
              (k \in 1..Len(closed) /\ closed'[k] = closed[k]) \/ closed'[k] = o
         /\ \A k \in 1..Len(closed) : k \in 1..Len(closed') /\ closed'[k] = closed[k]
         /\ \E k \in 1..Len(closed') : closed'[k] = o
<1>1. /\ Len(closed) \in Nat /\ Len(closed') = Len(closed) + 1 /\ closed'[Len(closed) + 1] = o
      /\ \A k \in 1..Len(closed) : closed'[k] = closed[k]
  OBVIOUS
<1>2. Len(closed) + 1 \in 1..Len(closed')
  BY <1>1
<1>3. \A k \in 1..Len(closed') : k \in 1..Len(closed) \/ k = Len(closed) + 1
  BY <1>1
<1> QED
  BY <1>1, <1>2, <1>3

\* The pre-roll with one frame more: that frame is the last, unless there is no pad.
LEMMA PrerollFrames ==
  ASSUME OpenInv, NEW f \in Nat
  PROVE  \E d \in {0, 1} :
           /\ Len(WithFrame(f)) = Len(preroll) + 1 - d
           /\ \A i \in 1..Len(WithFrame(f)) :
                IF i = Len(WithFrame(f)) THEN WithFrame(f)[i] = f
                ELSE i + d \in 1..Len(preroll) /\ WithFrame(f)[i] = preroll[i + d]
<1> DEFINE longer == Append(preroll, f)
           n == Len(preroll)
<1>1. preroll \in Seq(Nat) /\ n \in Nat
  BY DEF OpenInv
<1>2. /\ longer \in Seq(Nat) /\ Len(longer) = n + 1 /\ longer[n + 1] = f
      /\ \A i \in 1..n : longer[i] = preroll[i]
  BY <1>1
<1>3. Tail(longer) \in Seq(Nat) /\ Len(Tail(longer)) = n /\ \A i \in 1..n : Tail(longer)[i] = longer[i + 1]
  BY <1>1, <1>2
<1>4. WithFrame(f) = longer \/ WithFrame(f) = Tail(longer)
  BY DEF WithFrame
<1> HIDE DEF longer
<1>5. CASE WithFrame(f) = longer
  <2>1. /\ Len(WithFrame(f)) = n + 1 - 0
        /\ \A i \in 1..(n + 1) : IF i = n + 1 THEN longer[i] = f
                                 ELSE i + 0 \in 1..n /\ longer[i] = preroll[i + 0]
    BY <1>1, <1>2, <1>5
  <2> QED
    BY <1>1, <1>2, <1>5, <2>1
<1>6. CASE WithFrame(f) = Tail(longer)
  <2> DEFINE t == Tail(longer)
  <2>1. Len(t) = n /\ \A i \in 1..n : t[i] = longer[i + 1]
    BY <1>3
  <2> HIDE DEF t
  <2>2. ASSUME NEW i \in 1..n
        PROVE  IF i = n THEN t[i] = f ELSE i + 1 \in 1..n /\ t[i] = preroll[i + 1]
    <3>1. CASE i = n
      BY <1>2, <2>1, <3>1
    <3>2. CASE i # n
      <4>1. i + 1 \in 1..n
        BY <1>1, <3>2
      <4> QED
        BY <1>2, <2>1, <3>2, <4>1
    <3> QED
      BY <3>1, <3>2
  <2>3. n = n + 1 - 1
    BY <1>1
  <2> QED
    BY <1>6, <2>1, <2>2, <2>3 DEF t
<1> QED
  BY <1>4, <1>5, <1>6

\* The frames of a piece are the sequence's, in their order.
LEMMA PieceFrames ==
  ASSUME NEW s \in Seq(Nat), NEW a \in Nat, NEW b \in Nat, 1 <= a, a <= b + 1, b <= Len(s)
  PROVE  \A i \in 1..Len(SubSeq(s, a, b)) : a + i - 1 \in a..b /\ SubSeq(s, a, b)[i] = s[a + i - 1]
<1>1. Len(SubSeq(s, a, b)) = b - a + 1
  BY Piece
<1>2. \A i \in 1..(b - a + 1) : SubSeq(s, a, b)[i] = s[a + i - 1]
  OBVIOUS
<1> QED
  BY <1>1, <1>2

LEMMA ContiguousAppend ==
  ASSUME NEW s \in Seq(Nat), NEW f \in Nat, Contiguous(s),
         Len(s) > 0 => f \in {s[Len(s)], s[Len(s)] + FrameSamples}
  PROVE  Append(s, f) \in Seq(Nat) /\ Contiguous(Append(s, f))
         /\ Len(Append(s, f)) = Len(s) + 1 /\ Append(s, f)[Len(s) + 1] = f
<1> DEFINE t == Append(s, f)
<1>1. /\ t \in Seq(Nat) /\ Len(s) \in Nat /\ Len(t) = Len(s) + 1 /\ t[Len(s) + 1] = f
      /\ \A i \in 1..Len(s) : t[i] = s[i]
  OBVIOUS
<1> HIDE DEF t
<1>2. ASSUME NEW i \in 1..(Len(t) - 1) PROVE t[i + 1] \in {t[i], t[i] + FrameSamples}
  <2>1. CASE i = Len(s)
    BY <1>1, <2>1
  <2>2. CASE i # Len(s)
    <3>1. i \in 1..(Len(s) - 1) /\ i \in 1..Len(s) /\ i + 1 \in 1..Len(s)
      BY <1>1, <2>2
    <3> QED
      BY <1>1, <3>1 DEF Contiguous
  <2> QED
    BY <2>1, <2>2
<1> QED
  BY <1>1, <1>2 DEF Contiguous, t

LEMMA ContiguousPiece ==
  ASSUME NEW s \in Seq(Nat), NEW a \in Nat, NEW b \in Nat, 1 <= a, a <= b + 1, b <= Len(s),
         Contiguous(s)
  PROVE  Contiguous(SubSeq(s, a, b))
<1> DEFINE t == SubSeq(s, a, b)
<1>1. /\ Len(t) = b - a + 1 /\ Len(s) \in Nat
      /\ \A i \in 1..Len(t) : a + i - 1 \in a..b /\ t[i] = s[a + i - 1]
  BY Piece, PieceFrames
<1> HIDE DEF t
<1>2. ASSUME NEW i \in 1..(Len(t) - 1) PROVE t[i + 1] \in {t[i], t[i] + FrameSamples}
  <2>1. i \in 1..Len(t) /\ i + 1 \in 1..Len(t) /\ a + i - 1 \in 1..(Len(s) - 1)
    BY <1>1
  <2>2. a + (i + 1) - 1 = (a + i - 1) + 1
    OBVIOUS
  <2> QED
    BY <1>1, <2>1, <2>2 DEF Contiguous
<1> QED
  BY <1>2 DEF Contiguous, t

-------------------------------------------------------------------------------
(* No holes *)

\* A segment is open or a pre-roll is kept, not both, and what is kept ends where the
\* next frame begins.
Chained ==
  /\ triggered => Len(preroll) = 0
  /\ ~triggered => Len(segment) = 0
  /\ Len(segment) > 0 => segment[Len(segment)] + FrameSamples = Heard
  /\ Len(preroll) > 0 => preroll[Len(preroll)] + FrameSamples = Heard

\* What every step but a frame does.
LEMMA OtherMoves ==
  ASSUME SegInv, FeedChunk \/ FeedEnd \/ Flush \/ UNCHANGED vars
  PROVE  /\ Heard' = Heard /\ loud' = loud
         /\ UNCHANGED <<triggered, segment, probs, preroll, closed>> \/ Empties(segment)
<1>1. OpenInv /\ ClosedInv /\ FeedInv
  BY DEF SegInv
<1>2. CASE FeedChunk
  <2>1. Heard' = Heard
    BY <1>1, <1>2, StreamAssumption DEF FeedChunk, FeedInv, Heard
  <2> QED
    BY <1>2, <2>1 DEF FeedChunk, vadVars
<1>3. CASE FeedEnd
  <2>1. Heard' = Heard
    BY <1>1, <1>3 DEF FeedEnd, FeedInv, Heard
  <2> QED
    BY <1>3, <2>1 DEF FeedEnd, vadVars
<1>4. CASE Flush
  <2>1. Heard' = Heard /\ loud' = loud
    BY <1>4 DEF Flush, feedVars, Heard
  <2>2. Empties(segment)
    BY <1>1, <1>4, WholeEmpties DEF Flush, OpenInv, Reasons
  <2> QED
    BY <2>1, <2>2
<1>5. CASE UNCHANGED vars
  BY <1>5 DEF vars, vadVars, feedVars, Heard
<1> QED
  BY <1>2, <1>3, <1>4, <1>5

\* Closing all of a contiguous segment, or cutting it, leaves no hole.
LEMMA EmptiesChain ==
  ASSUME SegInv, NoHoles, NEW fs \in Seq(Nat), Contiguous(fs), Empties(fs)
  PROVE  Chained' /\ NoHoles'
<1>1. PICK o \in Closed : o.frames = fs /\ closed' = Append(closed, o)
  BY DEF Empties
<1>2. closed \in Seq(Closed)
  BY DEF SegInv, ClosedInv
<1>3. \A k \in 1..Len(closed') : Contiguous(closed'[k].frames)
  BY <1>1, <1>2, LastClosed DEF NoHoles
<1>4. triggered' = FALSE /\ segment' = <<>> /\ preroll' = <<>> /\ Contiguous(<<>>)
  BY DEF Empties, Contiguous
<1> QED
  BY <1>3, <1>4 DEF Chained, NoHoles, Contiguous

LEMMA CutsChain ==
  ASSUME SegInv, NoHoles, NEW fs \in Seq(Nat), Contiguous(fs), Cuts(fs),
         fs[Len(fs)] + FrameSamples = Heard'
  PROVE  Chained' /\ NoHoles'
<1>1. PICK cut \in 1..Len(fs), o \in Closed :
        /\ o.frames = SubSeq(fs, 1, cut - 1) /\ closed' = Append(closed, o)
        /\ segment' = SubSeq(fs, cut, Len(fs))
  BY DEF Cuts
<1>2. closed \in Seq(Closed)
  BY DEF SegInv, ClosedInv
<1>3. cut \in Nat /\ cut - 1 \in Nat /\ Len(fs) \in Nat /\ 1 <= cut /\ cut <= Len(fs)
  OBVIOUS
<1>4. Contiguous(SubSeq(fs, 1, cut - 1)) /\ Contiguous(SubSeq(fs, cut, Len(fs)))
  <2>1. 1 <= (cut - 1) + 1 /\ cut - 1 <= Len(fs) /\ cut <= Len(fs) + 1 /\ Len(fs) <= Len(fs)
    BY <1>3
  <2>2. Contiguous(SubSeq(fs, 1, cut - 1))
    BY <1>3, <2>1, ContiguousPiece
  <2>3. Contiguous(SubSeq(fs, cut, Len(fs)))
    BY <1>3, <2>1, ContiguousPiece
  <2> QED
    BY <2>2, <2>3
<1>5. segment'[Len(segment')] = fs[Len(fs)]
  <2>1. /\ Len(segment') = Len(fs) - cut + 1 /\ Len(segment') \in 1..Len(segment')
        /\ segment'[Len(segment')] = fs[cut + Len(segment') - 1]
    <3>1. cut <= Len(fs) + 1 /\ Len(fs) <= Len(fs)
      BY <1>3
    <3>2. Len(segment') = Len(fs) - cut + 1
      BY <1>1, <1>3, <3>1, Piece
    <3>3. Len(segment') \in 1..Len(segment')
      BY <1>3, <3>2
    <3> QED
      BY <1>1, <1>3, <3>1, <3>2, <3>3, PieceFrames
  <2>2. cut + Len(segment') - 1 = Len(fs)
    BY <1>3, <2>1
  <2> QED
    BY <2>1, <2>2
<1>6. \A k \in 1..Len(closed') : Contiguous(closed'[k].frames)
  <2>1. closed' = Append(closed, o) /\ Contiguous(o.frames)
    BY <1>1, <1>4
  <2>2. \A k \in 1..Len(closed') :
          (k \in 1..Len(closed) /\ closed'[k] = closed[k]) \/ closed'[k] = o
    BY <1>2, <2>1, LastClosed
  <2>3. \A k \in 1..Len(closed) : Contiguous(closed[k].frames)
    BY DEF NoHoles
  <2> QED
    BY <2>1, <2>2, <2>3
<1>7. triggered' = TRUE /\ preroll' = <<>> /\ Contiguous(<<>>)
  BY DEF Cuts, Contiguous
<1>8. Chained'
  BY <1>5, <1>7 DEF Chained
<1>9. NoHoles'
  BY <1>1, <1>4, <1>6, <1>7 DEF NoHoles, Contiguous
<1> QED
  BY <1>8, <1>9

LEMMA ChainStep == SegInv /\ SegInv' /\ Chained /\ NoHoles /\ [Next]_vars => Chained' /\ NoHoles'
<1> SUFFICES ASSUME SegInv, SegInv', Chained, NoHoles, [Next]_vars PROVE Chained' /\ NoHoles'
  OBVIOUS
<1>1. /\ OpenInv /\ segment \in Seq(Nat) /\ preroll \in Seq(Nat)
      /\ Contiguous(segment) /\ Contiguous(preroll)
  BY DEF SegInv, OpenInv, NoHoles
<1>2. CASE FeedChunk \/ FeedEnd \/ Flush \/ UNCHANGED vars
  <2>1. Heard' = Heard
    BY <1>2, OtherMoves
  <2>2. CASE UNCHANGED <<triggered, segment, probs, preroll, closed>>
    BY <2>1, <2>2 DEF Chained, NoHoles, Contiguous
  <2>3. CASE Empties(segment)
    BY <1>1, <2>3, EmptiesChain
  <2> QED
    BY <1>2, <2>2, <2>3, OtherMoves
<1>3. CASE FeedFrame
  <2> DEFINE f == Position
  <2>1. /\ f \in Nat /\ f + FrameSamples = Heard' /\ Heard = f
        /\ \/ Joins(f) \/ Opens(f) \/ Extends(f) \/ Cuts(Append(segment, f)) \/ Empties(Append(segment, f))
    BY <1>3, FrameMoves DEF Heard, Position
  <2> HIDE DEF f
  <2>2. /\ Append(segment, f) \in Seq(Nat) /\ Contiguous(Append(segment, f))
        /\ Len(Append(segment, f)) = Len(segment) + 1 /\ Append(segment, f)[Len(segment) + 1] = f
    <3>1. Len(segment) > 0 => f = segment[Len(segment)] + FrameSamples
      BY <2>1 DEF Chained
    <3> QED
      BY <1>1, <2>1, <3>1, ContiguousAppend
  <2>3. Append(segment, f)[Len(Append(segment, f))] + FrameSamples = Heard'
    BY <2>1, <2>2
  <2>4. CASE Empties(Append(segment, f))
    BY <2>2, <2>4, EmptiesChain
  <2>5. CASE Cuts(Append(segment, f))
    BY <2>2, <2>3, <2>5, CutsChain
  <2>6. CASE Extends(f)
    <3>1. segment' = Append(segment, f) /\ UNCHANGED <<triggered, preroll, closed>> /\ triggered
      BY <2>6 DEF Extends
    <3>2. Chained'
      BY <2>3, <3>1 DEF Chained
    <3>3. NoHoles'
      BY <2>2, <3>1 DEF NoHoles, Contiguous
    <3> QED
      BY <3>2, <3>3
  <2>7. Contiguous(WithFrame(f)) /\ WithFrame(f) \in Seq(Nat)
        /\ (Len(WithFrame(f)) > 0 => WithFrame(f)[Len(WithFrame(f))] = f)
    <3> DEFINE w == WithFrame(f)
    <3>0. w \in Seq(Nat)
      BY <1>1, <2>1, PrerollBound
    <3>1. w \in Seq(Nat) /\ Len(w) \in Nat /\ Len(preroll) \in Nat
      BY <1>1, <3>0
    <3>2. PICK d \in {0, 1} :
            /\ Len(w) = Len(preroll) + 1 - d
            /\ \A i \in 1..Len(w) : IF i = Len(w) THEN w[i] = f
                                    ELSE i + d \in 1..Len(preroll) /\ w[i] = preroll[i + d]
      BY <1>1, <2>1, PrerollFrames
    <3> HIDE DEF w
    <3>3. ASSUME NEW i \in 1..(Len(w) - 1) PROVE w[i + 1] \in {w[i], w[i] + FrameSamples}
      <4>1. i \in 1..Len(w) /\ i # Len(w) /\ i + 1 \in 1..Len(w)
        BY <3>1, <3>3
      <4>2. w[i] = preroll[i + d] /\ i + d \in 1..Len(preroll)
        BY <3>2, <4>1
      <4>3. CASE i + 1 = Len(w)
        <5>1. i + d = Len(preroll) /\ w[i + 1] = f
          BY <3>1, <3>2, <4>1, <4>3
        <5>2. f = preroll[Len(preroll)] + FrameSamples
          BY <2>1, <3>1, <4>2 DEF Chained
        <5> QED
          BY <4>2, <5>1, <5>2
      <4>4. CASE i + 1 # Len(w)
        <5>1. w[i + 1] = preroll[(i + d) + 1] /\ i + d \in 1..(Len(preroll) - 1)
          <6>1. /\ w[i + 1] = preroll[(i + 1) + d] /\ (i + 1) + d \in 1..Len(preroll)
                /\ (i + 1) + d = (i + d) + 1
            BY <3>2, <4>1, <4>4
          <6> QED
            BY <3>1, <4>2, <6>1
        <5> QED
          BY <1>1, <4>2, <5>1 DEF Contiguous
      <4> QED
        BY <4>3, <4>4
    <3>4. Len(w) > 0 => w[Len(w)] = f
      BY <3>1, <3>2
    <3> QED
      BY <3>1, <3>3, <3>4 DEF Contiguous, w
  <2>8. CASE Joins(f)
    <3>1. preroll' = WithFrame(f) /\ UNCHANGED <<triggered, segment, closed>> /\ ~triggered
      BY <2>8 DEF Joins
    <3>2. Chained'
      BY <2>1, <2>7, <3>1 DEF Chained
    <3>3. NoHoles'
      BY <2>7, <3>1 DEF NoHoles, Contiguous
    <3> QED
      BY <3>2, <3>3
  <2>9. CASE Opens(f)
    <3>1. /\ segment' = Append(WithFrame(f), f) /\ preroll' = <<>> /\ triggered' = TRUE
          /\ closed' = closed
      BY <2>9 DEF Opens
    <3>2. /\ Contiguous(segment') /\ Len(segment') = Len(WithFrame(f)) + 1
          /\ segment'[Len(WithFrame(f)) + 1] = f
      BY <2>1, <2>7, <3>1, ContiguousAppend
    <3>3. Chained'
      BY <2>1, <3>1, <3>2 DEF Chained
    <3>4. Contiguous(<<>>)
      BY DEF Contiguous
    <3>5. NoHoles'
      BY <3>1, <3>2, <3>4 DEF NoHoles, Contiguous
    <3> QED
      BY <3>3, <3>5
  <2> QED
    BY <2>1, <2>4, <2>5, <2>6, <2>8, <2>9
<1> QED
  BY <1>2, <1>3 DEF Next

\* Neither a chunk's edge, nor an onset, nor a cut leaves a hole in a segment.
THEOREM Seamless == Spec => []NoHoles
<1>1. Init => Chained /\ NoHoles
  BY DEF Init, Chained, NoHoles, Contiguous
<1>2. SegInv /\ SegInv' /\ (Chained /\ NoHoles) /\ [Next]_vars => (Chained /\ NoHoles)'
  BY ChainStep
<1> QED
  BY <1>1, <1>2, SegInvariant, PTL DEF Spec

-------------------------------------------------------------------------------
(* Nothing loud is lost *)

\* A cut leaves every frame on one of its sides.
LEMMA CutsShare ==
  ASSUME NEW fs \in Seq(Nat), NEW cut \in 1..Len(fs), NEW i \in 1..Len(fs)
  PROVE  \/ \E j \in 1..Len(SubSeq(fs, 1, cut - 1)) : SubSeq(fs, 1, cut - 1)[j] = fs[i]
         \/ \E j \in 1..Len(SubSeq(fs, cut, Len(fs))) : SubSeq(fs, cut, Len(fs))[j] = fs[i]
<1>1. /\ cut \in Nat /\ cut - 1 \in Nat /\ Len(fs) \in Nat /\ 1 <= cut /\ i \in Nat /\ 1 <= i
      /\ 1 <= (cut - 1) + 1 /\ cut - 1 <= Len(fs) /\ cut <= Len(fs) + 1 /\ Len(fs) <= Len(fs)
  OBVIOUS
<1>2. CASE i < cut
  <2>1. Len(SubSeq(fs, 1, cut - 1)) = cut - 1
    BY <1>1, Piece
  <2>2. i \in 1..Len(SubSeq(fs, 1, cut - 1))
    BY <1>1, <1>2, <2>1
  <2>3. SubSeq(fs, 1, cut - 1)[i] = fs[1 + i - 1]
    BY <1>1, <2>2, PieceFrames
  <2>4. 1 + i - 1 = i
    BY <1>1
  <2> QED
    BY <2>2, <2>3, <2>4
<1>3. CASE ~(i < cut)
  <2>1. Len(SubSeq(fs, cut, Len(fs))) = Len(fs) - cut + 1
    BY <1>1, Piece
  <2>2. i - cut + 1 \in 1..Len(SubSeq(fs, cut, Len(fs)))
    BY <1>1, <1>3, <2>1
  <2>3. SubSeq(fs, cut, Len(fs))[i - cut + 1] = fs[cut + (i - cut + 1) - 1]
    BY <1>1, <2>2, PieceFrames
  <2>4. cut + (i - cut + 1) - 1 = i
    BY <1>1
  <2> QED
    BY <2>2, <2>3, <2>4
<1> QED
  BY <1>2, <1>3

LEMMA LoudStep ==
  SegInv /\ Chained /\ NothingLoudIsLost /\ [Next]_vars => NothingLoudIsLost'
<1> SUFFICES ASSUME SegInv, Chained, NothingLoudIsLost, [Next]_vars, NEW g \in loud'
             PROVE  \/ \E i \in 1..Len(segment') : segment'[i] = g
                    \/ \E k \in 1..Len(closed') : \E i \in 1..Len(closed'[k].frames) :
                         closed'[k].frames[i] = g
  BY DEF NothingLoudIsLost
<1> DEFINE Out == \E k \in 1..Len(closed') : \E i \in 1..Len(closed'[k].frames) :
                    closed'[k].frames[i] = g
           In  == \E i \in 1..Len(segment') : segment'[i] = g
<1>1. closed \in Seq(Closed) /\ segment \in Seq(Nat) /\ OpenInv
  BY DEF SegInv, OpenInv, ClosedInv
\* What was closed stays closed.
<1>2. ASSUME closed' = closed \/ \E o \in Closed : closed' = Append(closed, o),
             \E k \in 1..Len(closed) : \E i \in 1..Len(closed[k].frames) : closed[k].frames[i] = g
      PROVE  Out
  <2>1. \A k \in 1..Len(closed) : k \in 1..Len(closed') /\ closed'[k] = closed[k]
    BY <1>1, <1>2, LastClosed
  <2> QED
    BY <1>2, <2>1
\* A frame of what is closed or cut is there afterwards.
<1>3. ASSUME NEW fs \in Seq(Nat), Empties(fs), \E i \in 1..Len(fs) : fs[i] = g PROVE Out
  <2>1. PICK o \in Closed : o.frames = fs /\ closed' = Append(closed, o)
    BY <1>3 DEF Empties
  <2>2. PICK k \in 1..Len(closed') : closed'[k] = o
    BY <1>1, <2>1, LastClosed
  <2> QED
    BY <1>3, <2>1, <2>2
<1>4. ASSUME NEW fs \in Seq(Nat), Cuts(fs), \E i \in 1..Len(fs) : fs[i] = g PROVE In \/ Out
  <2>1. PICK cut \in 1..Len(fs), o \in Closed :
          /\ o.frames = SubSeq(fs, 1, cut - 1) /\ closed' = Append(closed, o)
          /\ segment' = SubSeq(fs, cut, Len(fs))
    BY <1>4 DEF Cuts
  <2>2. PICK k \in 1..Len(closed') : closed'[k] = o
    BY <1>1, <2>1, LastClosed
  <2>3. PICK i \in 1..Len(fs) : fs[i] = g
    BY <1>4
  <2>4. \/ \E j \in 1..Len(SubSeq(fs, 1, cut - 1)) : SubSeq(fs, 1, cut - 1)[j] = fs[i]
        \/ \E j \in 1..Len(SubSeq(fs, cut, Len(fs))) : SubSeq(fs, cut, Len(fs))[j] = fs[i]
    BY CutsShare
  <2>5. CASE \E j \in 1..Len(SubSeq(fs, 1, cut - 1)) : SubSeq(fs, 1, cut - 1)[j] = fs[i]
    <3>1. \E j \in 1..Len(o.frames) : o.frames[j] = g
      BY <2>1, <2>3, <2>5
    <3> QED
      BY <2>2, <3>1
  <2>6. CASE \E j \in 1..Len(SubSeq(fs, cut, Len(fs))) : SubSeq(fs, cut, Len(fs))[j] = fs[i]
    BY <2>1, <2>3, <2>6
  <2> QED
    BY <2>4, <2>5, <2>6
<1>5. CASE FeedChunk \/ FeedEnd \/ Flush \/ UNCHANGED vars
  <2>1. loud' = loud /\ (UNCHANGED <<triggered, segment, probs, preroll, closed>> \/ Empties(segment))
    BY <1>5, OtherMoves
  <2> QED
    BY <1>1, <1>2, <1>3, <2>1 DEF NothingLoudIsLost, Empties
<1>6. CASE FeedFrame
  <2> DEFINE f == Position
             fs == Append(segment, f)
  <2>1. /\ f \in Nat
        /\ \/ Joins(f) /\ loud' = loud
           \/ /\ loud' \subseteq loud \cup {f}
              /\ Opens(f) \/ Extends(f) \/ Cuts(fs) \/ Empties(fs)
    BY <1>6, FrameMoves
  <2> HIDE DEF f
  <2>2. /\ fs \in Seq(Nat) /\ fs[Len(segment) + 1] = f /\ Len(segment) + 1 \in 1..Len(fs)
        /\ \A i \in 1..Len(segment) : i \in 1..Len(fs) /\ fs[i] = segment[i]
    BY <1>1, <2>1
  <2> HIDE DEF fs
  <2>3. CASE Joins(f) /\ loud' = loud
    BY <2>3 DEF Joins, NothingLoudIsLost
  <2>4. CASE Opens(f) /\ loud' \subseteq loud \cup {f}
    <3>1. segment' = Append(WithFrame(f), f) /\ closed' = closed /\ Len(segment) = 0
      BY <2>4 DEF Opens, Chained
    <3>2. CASE g = f
      <4>1. WithFrame(f) \in Seq(Nat)
        BY <1>1, <2>1, PrerollBound
      <4>2. segment'[Len(WithFrame(f)) + 1] = f /\ Len(WithFrame(f)) + 1 \in 1..Len(segment')
        BY <2>1, <3>1, <4>1
      <4> QED
        BY <3>2, <4>2
    <3>3. CASE g \in loud
      BY <3>1, <3>3 DEF NothingLoudIsLost
    <3> QED
      BY <2>4, <3>2, <3>3
  <2>5. CASE loud' \subseteq loud \cup {f} /\ (Extends(f) \/ Cuts(fs) \/ Empties(fs))
    <3>1. CASE \E i \in 1..Len(fs) : fs[i] = g
      BY <1>3, <1>4, <2>2, <2>5, <3>1 DEF Extends, fs
    <3>2. CASE ~ \E i \in 1..Len(fs) : fs[i] = g
      <4>1. \E k \in 1..Len(closed) : \E i \in 1..Len(closed[k].frames) : closed[k].frames[i] = g
        BY <2>2, <2>5, <3>2 DEF NothingLoudIsLost
      <4> QED
        BY <1>2, <2>5, <4>1 DEF Extends, Cuts, Empties
    <3> QED
      BY <3>1, <3>2
  <2> QED
    BY <2>1, <2>3, <2>4, <2>5
<1> QED
  BY <1>5, <1>6 DEF Next

\* Whatever reached the threshold is in the open segment or in one that was closed.
THEOREM LoudKept == Spec => []NothingLoudIsLost
<1>1. Init => Chained /\ NoHoles /\ NothingLoudIsLost
  BY DEF Init, Chained, NoHoles, Contiguous, NothingLoudIsLost
<1>2. SegInv /\ SegInv' /\ (Chained /\ NoHoles /\ NothingLoudIsLost) /\ [Next]_vars
        => (Chained /\ NoHoles /\ NothingLoudIsLost)'
  BY ChainStep, LoudStep
<1> QED
  BY <1>1, <1>2, SegInvariant, PTL DEF Spec

-------------------------------------------------------------------------------
(* Silence *)

\* One more closed segment, which ends in silence if it says so.
LEMMA SilenceAppend ==
  ASSUME closed \in Seq(Closed), SilenceClosesOnSilence, NEW o \in Closed,
         closed' = Append(closed, o),
         o.reason = "silence" =>
           /\ Len(o.probs) >= MinSilence
           /\ \A i \in 1..Len(o.probs) : i > Len(o.probs) - MinSilence => o.probs[i] < Floor
  PROVE  SilenceClosesOnSilence'
BY LastClosed DEF SilenceClosesOnSilence

LEMMA SilenceStep == SegInv /\ SilenceClosesOnSilence /\ [Next]_vars => SilenceClosesOnSilence'
<1> SUFFICES ASSUME SegInv, SilenceClosesOnSilence, [Next]_vars PROVE SilenceClosesOnSilence'
  OBVIOUS
<1>1. /\ closed \in Seq(Closed) /\ segment \in Seq(Nat) /\ probs \in Seq(Nat)
      /\ silence_frames \in Nat /\ active_frames \in Nat /\ active_frames + 1 \in Nat
  BY DEF SegInv, OpenInv, ClosedInv
<1>2. CASE UNCHANGED closed
  BY <1>2 DEF SilenceClosesOnSilence
<1>3. ASSUME NEW fs \in Seq(Nat), NEW ps \in Seq(Nat), NEW active \in Nat,
             NEW reason \in {"ceiling", "flush"}, CloseWhole(fs, ps, active, reason)
      PROVE  SilenceClosesOnSilence'
  <2> DEFINE o == Outcome(fs, ps, active, reason)
  <2>1. o \in Closed /\ o.reason = reason
    BY DEF Outcome, Closed, Reasons
  <2>2. closed' = Append(closed, o)
    BY <1>3 DEF CloseWhole
  <2> HIDE DEF o
  <2> QED
    BY <1>1, <2>1, <2>2, SilenceAppend
<1>4. ASSUME NEW fs \in Seq(Nat), NEW ps \in Seq(Nat), Len(fs) = Len(ps), NEW active \in Nat,
             CloseOnCeiling(fs, ps, active)
      PROVE  SilenceClosesOnSilence'
  <2>1. CASE CloseAtCut(fs, ps)
    <3>1. PICK cut \in 1..Len(ps) :
            closed' = Append(closed, Outcome(SubSeq(fs, 1, cut - 1), SubSeq(ps, 1, cut - 1),
                                             ActiveIn(SubSeq(ps, 1, cut - 1)), "ceiling"))
      BY <2>1 DEF CloseAtCut
    <3> DEFINE h == SubSeq(fs, 1, cut - 1)
               hp == SubSeq(ps, 1, cut - 1)
               o == Outcome(h, hp, ActiveIn(hp), "ceiling")
    <3>2. cut - 1 \in Nat /\ cut - 1 <= Len(fs) /\ cut - 1 <= Len(ps) /\ 1 <= (cut - 1) + 1
      BY <1>4
    <3>3. h \in Seq(Nat) /\ hp \in Seq(Nat)
      BY SMTT(30), <3>2, Piece
    <3>4. o \in Closed /\ o.reason = "ceiling"
      <4> HIDE DEF h, hp
      <4> QED
        BY <3>3 DEF Outcome, Closed, Reasons
    <3>5. closed' = Append(closed, o)
      BY <3>1
    <3> HIDE DEF o
    <3> QED
      BY <1>1, <3>4, <3>5, SilenceAppend
  <2>2. CASE CloseWhole(fs, ps, active, "ceiling")
    BY <1>3, <2>2
  <2> QED
    BY <1>4, <2>1, <2>2 DEF CloseOnCeiling
<1>5. CASE Flush
  BY <1>1, <1>3, <1>5 DEF Flush
<1>6. CASE FeedFrame
  <2>1. PICK prob \in Probs : \/ Listen(Position, prob) \/ Trigger(Position, prob)
                              \/ Speak(Position, prob) \/ Pause(Position, prob)
    BY <1>6 DEF FeedFrame, Position
  <2> DEFINE fs == Append(segment, Position)
             ps == Append(probs, prob)
  <2>2. /\ Position \in Nat /\ prob \in Nat /\ fs \in Seq(Nat) /\ ps \in Seq(Nat)
        /\ Len(fs) = Len(segment) + 1 /\ Len(ps) = Len(probs) + 1
        /\ Len(segment) = Len(probs) /\ Len(probs) \in Nat
        /\ ps[Len(probs) + 1] = prob /\ \A i \in 1..Len(probs) : ps[i] = probs[i]
    BY <1>1, <1>6, FrameMoves, LevelAssumption DEF SegInv, OpenInv
  <2>3. CASE Listen(Position, prob) \/ Trigger(Position, prob)
    BY <1>2, <2>3 DEF Listen, Trigger
  <2>4. CASE Speak(Position, prob)
    <3>1. CloseOnCeiling(fs, ps, active_frames + 1) \/ UNCHANGED closed
      BY <2>4 DEF Speak
    <3> HIDE DEF fs, ps
    <3> QED
      BY <1>1, <1>2, <1>4, <2>2, <3>1
  <2>5. CASE Pause(Position, prob)
    <3>1. \/ silence_frames + 1 >= MinSilence /\ CloseWhole(fs, ps, active_frames, "silence")
          \/ CloseOnCeiling(fs, ps, active_frames) \/ UNCHANGED closed
      BY <2>5 DEF Pause
    <3>2. prob < Floor /\ MinSilence \in Nat
      BY <2>5, FrameAssumption DEF Pause
    <3> HIDE DEF fs, ps
    <3>3. CASE silence_frames + 1 >= MinSilence /\ CloseWhole(fs, ps, active_frames, "silence")
      <4> DEFINE o == Outcome(fs, ps, active_frames, "silence")
      <4>1. o \in Closed /\ o.probs = ps
        BY <1>1, <2>2 DEF Outcome, Closed, Reasons
      <4>2. closed' = Append(closed, o)
        BY <3>3 DEF CloseWhole
      <4>3. /\ silence_frames <= Len(probs)
            /\ \A i \in 1..Len(probs) : i > Len(probs) - silence_frames => probs[i] < Floor
        BY DEF SegInv, OpenInv, PauseIsReal
      <4>4. Len(ps) >= MinSilence
        BY <1>1, <2>2, <3>2, <3>3, <4>3
      <4>5. ASSUME NEW i \in 1..Len(ps), i > Len(ps) - MinSilence PROVE ps[i] < Floor
        <5>1. CASE i = Len(probs) + 1
          BY <2>2, <3>2, <5>1
        <5>2. CASE i # Len(probs) + 1
          <6>1. i \in Nat /\ 1 <= i /\ i <= Len(probs) + 1 /\ Len(ps) = Len(probs) + 1
            BY <2>2
          <6>2. i \in 1..Len(probs)
            BY <2>2, <5>2, <6>1
          <6>3. i > (Len(probs) + 1) - MinSilence /\ silence_frames + 1 >= MinSilence
            BY <3>3, <4>5, <6>1
          <6>4. i > Len(probs) - silence_frames
            BY <1>1, <2>2, <3>2, <6>1, <6>3
          <6> QED
            BY <2>2, <4>3, <6>2, <6>4
        <5> QED
          BY <5>1, <5>2
      <4> HIDE DEF o
      <4> QED
        BY <1>1, <4>1, <4>2, <4>4, <4>5, SilenceAppend
    <3> QED
      BY <1>1, <1>2, <1>4, <2>2, <3>1, <3>3
  <2> QED
    BY <2>1, <2>3, <2>4, <2>5
<1> QED
  BY <1>2, <1>5, <1>6 DEF Next, FeedChunk, FeedEnd, vars

\* What was closed for silence ends in as much of it as the setting asks for.
THEOREM SilenceCloses == Spec => []SilenceClosesOnSilence
<1>1. Init => SilenceClosesOnSilence
  BY DEF Init, SilenceClosesOnSilence
<1>2. SegInv /\ SilenceClosesOnSilence /\ [Next]_vars => SilenceClosesOnSilence'
  BY SilenceStep
<1> QED
  BY <1>1, <1>2, SegInvariant, PTL DEF Spec

-------------------------------------------------------------------------------
(* The same frames whatever the chunks *)

\* The frame after one that begins at a multiple of FrameSamples begins at one too.
LEMMA NextMultiple ==
  ASSUME NEW x \in Nat, x % FrameSamples = 0
  PROVE  (x + FrameSamples) % FrameSamples = 0
BY StreamAssumption

\* What is listened to next begins at a multiple, like all that is kept.
Aligned == Heard % FrameSamples = 0 /\ ChunksLeaveNoTrace

LEMMA AlignedStep == SegInv /\ Aligned /\ [Next]_vars => Aligned'
<1> SUFFICES ASSUME SegInv, Aligned, [Next]_vars PROVE Aligned'
  OBVIOUS
<1> DEFINE All(s) == \A i \in 1..Len(s) : s[i] % FrameSamples = 0
<1>1. /\ segment \in Seq(Nat) /\ preroll \in Seq(Nat) /\ OpenInv
      /\ All(segment) /\ All(preroll) /\ Heard % FrameSamples = 0
      /\ pc = "idle" => residue < FrameSamples
  BY DEF SegInv, OpenInv, Aligned, ChunksLeaveNoTrace
<1>e. All(<<>>)
  OBVIOUS
<1>s. (Heard' % FrameSamples = 0 /\ All(segment') /\ All(preroll')
        /\ (pc' = "idle" => residue' < FrameSamples)) => Aligned'
  BY DEF Aligned, ChunksLeaveNoTrace, Heard
<1>a. ASSUME NEW s \in Seq(Nat), All(s), NEW f \in Nat, f % FrameSamples = 0 PROVE All(Append(s, f))
  <2>1. /\ Len(s) \in Nat /\ Len(Append(s, f)) = Len(s) + 1 /\ Append(s, f)[Len(s) + 1] = f
        /\ \A i \in 1..Len(s) : Append(s, f)[i] = s[i]
    OBVIOUS
  <2>2. \A i \in 1..(Len(s) + 1) : i \in 1..Len(s) \/ i = Len(s) + 1
    BY <2>1
  <2> QED
    BY <1>a, <2>1, <2>2
<1>2. CASE FeedChunk \/ FeedEnd \/ Flush \/ UNCHANGED vars
  <2>1. Heard' = Heard
    BY <1>2, OtherMoves
  <2>2. All(segment') /\ All(preroll')
    BY <1>1, <1>2, <1>e, OtherMoves DEF Empties
  <2>3. pc' = "idle" => residue' < FrameSamples
    <3>1. CASE FeedEnd
      BY <3>1, StreamAssumption DEF FeedEnd, SegInv, FeedInv
    <3>2. CASE FeedChunk \/ Flush \/ UNCHANGED vars
      BY <1>1, <3>2 DEF FeedChunk, Flush, vars, feedVars
    <3> QED
      BY <1>2, <3>1, <3>2
  <2> HIDE DEF All
  <2> QED
    BY <1>1, <1>s, <2>1, <2>2, <2>3
<1>3. CASE FeedFrame
  <2> DEFINE f == Position
             fs == Append(segment, f)
  <2>1. /\ f \in Nat /\ Heard = f /\ Heard' = f + FrameSamples /\ pc' = "feeding"
        /\ Joins(f) \/ Opens(f) \/ Extends(f) \/ Cuts(fs) \/ Empties(fs)
    BY <1>3, FrameMoves DEF Heard, Position
  <2> HIDE DEF f
  <2>2. f % FrameSamples = 0 /\ Heard' % FrameSamples = 0
    BY <1>1, <2>1, NextMultiple
  <2>3. All(fs) /\ fs \in Seq(Nat)
    BY <1>1, <1>a, <2>1, <2>2
  <2> HIDE DEF fs
  <2>4. All(WithFrame(f)) /\ WithFrame(f) \in Seq(Nat)
    <3> DEFINE w == WithFrame(f)
    <3>1. w \in Seq(Nat)
      BY <1>1, <2>1, PrerollBound
    <3>2. PICK d \in {0, 1} :
            \A i \in 1..Len(w) : IF i = Len(w) THEN w[i] = f
                                 ELSE i + d \in 1..Len(preroll) /\ w[i] = preroll[i + d]
      BY <1>1, <2>1, PrerollFrames
    <3> HIDE DEF w
    <3>3. ASSUME NEW i \in 1..Len(w) PROVE w[i] % FrameSamples = 0
      <4>1. CASE i = Len(w)
        BY <2>2, <3>2, <4>1
      <4>2. CASE i # Len(w)
        BY <1>1, <3>2, <4>2
      <4> QED
        BY <4>1, <4>2
    <3> QED
      BY <3>1, <3>3 DEF w
  <2>5. All(segment') /\ All(preroll')
    <3>1. CASE Joins(f)
      BY <1>1, <2>4, <3>1 DEF Joins
    <3>2. CASE Opens(f)
      <4>1. All(Append(WithFrame(f), f))
        BY <1>a, <2>1, <2>2, <2>4
      <4> QED
        BY <1>e, <3>2, <4>1 DEF Opens
    <3>3. CASE Extends(f)
      BY <1>1, <2>3, <3>3 DEF Extends, fs
    <3>4. CASE Cuts(fs)
      <4>1. PICK cut \in 1..Len(fs) : segment' = SubSeq(fs, cut, Len(fs))
        BY <3>4 DEF Cuts
      <4>2. /\ cut \in Nat /\ Len(fs) \in Nat /\ 1 <= cut /\ cut <= Len(fs) + 1
            /\ Len(fs) <= Len(fs) /\ \A j \in cut..Len(fs) : j \in 1..Len(fs)
        BY <2>3
      <4>3. \A i \in 1..Len(segment') : cut + i - 1 \in cut..Len(fs) /\ segment'[i] = fs[cut + i - 1]
        BY <2>3, <4>1, <4>2, PieceFrames
      <4> QED
        BY <1>e, <2>3, <3>4, <4>2, <4>3 DEF Cuts
    <3>5. CASE Empties(fs)
      BY <1>e, <3>5 DEF Empties
    <3> HIDE DEF All
    <3> QED
      BY <2>1, <3>1, <3>2, <3>3, <3>4, <3>5
  <2> HIDE DEF All
  <2> QED
    BY <1>s, <2>1, <2>2, <2>5
<1> QED
  BY <1>2, <1>3 DEF Next

\* The chunks a client cuts its audio into leave no trace in the frames.
THEOREM ChunksTraceless == Spec => []ChunksLeaveNoTrace
<1>1. Init => Aligned
  BY StreamAssumption DEF Init, Aligned, ChunksLeaveNoTrace, Heard
<1>2. SegInv /\ Aligned /\ [Next]_vars => Aligned'
  BY AlignedStep
<1>3. Aligned => ChunksLeaveNoTrace
  BY DEF Aligned
<1> QED
  BY <1>1, <1>2, <1>3, SegInvariant, PTL DEF Spec

-------------------------------------------------------------------------------
(* In stream order *)

\* The one ends before the other begins, or before position h.
Apart(early, late) ==
  \A i \in 1..Len(early), j \in 1..Len(late) : early[i] + FrameSamples <= late[j]
Past(s, h) == \A i \in 1..Len(s) : s[i] + FrameSamples <= h

\* The stretch from one frame to a later one is not longer than the frames between say.
Paced(s) ==
  \A i, j \in 1..Len(s) : i <= j => s[i] <= s[j] /\ s[j] <= s[i] + (j - i) * FrameSamples

\* No frame stands twice, or only the one where the pre-roll met the trigger: all
\* before it is under the floor.
Rises(s) == \A i, j \in 1..Len(s) : i < j => s[i] + FrameSamples <= s[j]
Parted(fs, ps) ==
  \A i, j \in 1..Len(fs) : i < j =>
    fs[i] + FrameSamples <= fs[j] \/ (j = i + 1 /\ \A h \in 1..i : ps[h] < Floor)

OpenOrder ==
  /\ Past(segment, Heard) /\ Past(preroll, Heard)
  /\ Paced(segment) /\ Paced(preroll)
  /\ Parted(segment, probs) /\ Rises(preroll)
  /\ triggered => Len(segment) > 0

ClosedOrder ==
  \A k \in 1..Len(closed) :
    /\ Paced(closed[k].frames)
    /\ closed[k].emitted =>
         /\ Len(closed[k].frames) > 0 /\ Past(closed[k].frames, Heard)
         /\ Apart(closed[k].frames, segment) /\ Apart(closed[k].frames, preroll)
         /\ \A j \in 1..(k - 1) : closed[j].emitted => Apart(closed[j].frames, closed[k].frames)

InOrder == OpenOrder /\ ClosedOrder

LEMMA PacedAppend ==
  ASSUME NEW s \in Seq(Nat), NEW f \in Nat, Paced(s),
         Len(s) > 0 => f \in {s[Len(s)], s[Len(s)] + FrameSamples}
  PROVE  Paced(Append(s, f))
<1> DEFINE t == Append(s, f)
           n == Len(s)
<1>1. /\ n \in Nat /\ Len(t) = n + 1 /\ t[n + 1] = f
      /\ \A i \in 1..n : t[i] = s[i] /\ s[i] \in Nat
  OBVIOUS
<1> HIDE DEF t
<1> SUFFICES ASSUME NEW i \in 1..(n + 1), NEW j \in 1..(n + 1), i <= j
             PROVE  t[i] <= t[j] /\ t[j] <= t[i] + (j - i) * FrameSamples
  BY <1>1 DEF Paced, t
<1>2. CASE j <= n
  <2>1. i \in 1..n /\ j \in 1..n
    BY <1>1, <1>2
  <2> QED
    BY <1>1, <2>1 DEF Paced
<1>3. CASE j = n + 1 /\ i = n + 1
  <2>1. (j - i) * FrameSamples = 0
    BY <1>3, StreamAssumption
  <2> QED
    BY <1>1, <1>3, <2>1
<1>4. CASE j = n + 1 /\ i <= n
  <2>1. i \in 1..n /\ n \in 1..n /\ n > 0 /\ i <= n
    BY <1>1, <1>4
  <2>2. s[i] <= s[n] /\ s[n] <= s[i] + (n - i) * FrameSamples
    BY <2>1 DEF Paced
  <2>3. (j - i) * FrameSamples = (n - i) * FrameSamples + FrameSamples /\ (n - i) * FrameSamples \in Nat
    BY <1>1, <1>4, <2>1, StreamAssumption
  <2>4. s[n] <= f /\ f <= s[n] + FrameSamples
    BY <1>1, <2>1, StreamAssumption
  <2>5. t[i] = s[i] /\ t[j] = f /\ s[i] \in Nat /\ s[n] \in Nat
    BY <1>1, <1>4, <2>1
  <2>6. \A x \in Nat : s[n] <= s[i] + x => t[i] <= t[j] /\ t[j] <= t[i] + (x + FrameSamples)
    <3>1. \A x, a, b \in Nat : a <= b /\ b <= a + x /\ b <= f /\ f <= b + FrameSamples
                              => a <= f /\ f <= a + (x + FrameSamples)
      BY StreamAssumption
    <3>2. s[i] <= s[n] /\ s[i] \in Nat /\ s[n] \in Nat
      BY <2>2, <2>5
    <3> HIDE DEF n
    <3>3. \A x \in Nat : s[n] <= s[i] + x => s[i] <= f /\ f <= s[i] + (x + FrameSamples)
      BY <2>4, <3>1, <3>2
    <3> QED
      BY <2>5, <3>3
  <2>7. t[i] <= t[j] /\ t[j] <= t[i] + ((n - i) * FrameSamples + FrameSamples)
    <3> DEFINE x == (n - i) * FrameSamples
    <3>1. x \in Nat /\ s[n] <= s[i] + x
      BY <2>2, <2>3
    <3> HIDE DEF x
    <3>2. t[i] <= t[j] /\ t[j] <= t[i] + (x + FrameSamples)
      BY <2>6, <3>1
    <3> QED
      BY <3>2 DEF x
  <2> QED
    BY <2>3, <2>7
<1> QED
  BY <1>1, <1>2, <1>3, <1>4

LEMMA PacedPiece ==
  ASSUME NEW s \in Seq(Nat), NEW a \in Nat, NEW b \in Nat, 1 <= a, a <= b + 1, b <= Len(s), Paced(s)
  PROVE  Paced(SubSeq(s, a, b))
<1> DEFINE t == SubSeq(s, a, b)
<1>1. \A i \in 1..Len(t) : a + i - 1 \in 1..Len(s) /\ t[i] = s[a + i - 1]
  BY PieceFrames
<1>2. Len(t) \in Nat
  BY Piece
<1> HIDE DEF t
<1> SUFFICES ASSUME NEW i \in 1..Len(t), NEW j \in 1..Len(t), i <= j
             PROVE  t[i] <= t[j] /\ t[j] <= t[i] + (j - i) * FrameSamples
  BY DEF Paced, t
<1>3. /\ a + i - 1 <= a + j - 1 /\ (a + j - 1) - (a + i - 1) = j - i
      /\ a + i - 1 \in 1..Len(s) /\ a + j - 1 \in 1..Len(s)
  BY <1>1, <1>2
<1>4. /\ s[a + i - 1] <= s[a + j - 1]
      /\ s[a + j - 1] <= s[a + i - 1] + ((a + j - 1) - (a + i - 1)) * FrameSamples
  BY <1>3 DEF Paced
<1> QED
  BY <1>1, <1>3, <1>4

LEMMA PartedAppend ==
  ASSUME OpenInv, OpenOrder, NEW p \in Nat
  PROVE  Parted(Append(segment, Heard), Append(probs, p))
<1> DEFINE n == Len(segment)
           fs == Append(segment, Heard)
           ps == Append(probs, p)
<1>1. segment \in Seq(Nat) /\ probs \in Seq(Nat) /\ n \in Nat /\ Len(probs) = n
  BY DEF OpenInv
<1>2. /\ Len(fs) = n + 1 /\ fs[n + 1] = Heard
      /\ \A i \in 1..n : fs[i] = segment[i] /\ ps[i] = probs[i]
  BY <1>1
<1> HIDE DEF n, fs, ps
<1> SUFFICES ASSUME NEW i \in 1..(n + 1), NEW j \in 1..(n + 1), i < j
             PROVE  fs[i] + FrameSamples <= fs[j] \/ (j = i + 1 /\ \A h \in 1..i : ps[h] < Floor)
  BY <1>2 DEF Parted, fs, ps
<1>3. CASE j = n + 1
  <2>1. i \in 1..n
    BY <1>1, <1>3
  <2>2. segment[i] + FrameSamples <= Heard
    BY <2>1 DEF OpenOrder, Past, n
  <2> QED
    BY <1>2, <1>3, <2>1, <2>2
<1>4. CASE j # n + 1
  <2>1. i \in 1..n /\ j \in 1..n /\ \A h \in 1..i : h \in 1..n
    BY <1>1, <1>4
  <2>2. segment[i] + FrameSamples <= segment[j] \/ (j = i + 1 /\ \A h \in 1..i : probs[h] < Floor)
    BY <2>1 DEF OpenOrder, Parted, n
  <2> QED
    BY <1>2, <2>1, <2>2
<1> QED
  BY <1>3, <1>4

\* The pre-roll stays in order when the frame at Heard joins it.
LEMMA PrerollOrder ==
  ASSUME OpenInv, OpenOrder, Chained, Heard \in Nat
  PROVE  LET w == WithFrame(Heard) IN
         /\ w \in Seq(Nat) /\ Paced(w) /\ Rises(w)
         /\ \A i \in 1..Len(w) : IF i = Len(w) THEN w[i] = Heard
                                 ELSE \E j \in 1..Len(preroll) : w[i] = preroll[j]
<1> DEFINE w == WithFrame(Heard)
           n == Len(preroll)
<1>1. w \in Seq(Nat) /\ Len(w) \in Nat /\ n \in Nat /\ preroll \in Seq(Nat)
  <2>1. w \in Seq(Nat) /\ preroll \in Seq(Nat)
    BY PrerollBound DEF OpenInv
  <2> QED
    BY <2>1
<1>2. PICK d \in {0, 1} :
        /\ Len(w) = n + 1 - d
        /\ \A i \in 1..Len(w) : IF i = Len(w) THEN w[i] = Heard
                                ELSE i + d \in 1..n /\ w[i] = preroll[i + d]
  BY PrerollFrames
<1> HIDE DEF w
<1>3. Rises(w)
  <2> SUFFICES ASSUME NEW i \in 1..Len(w), NEW j \in 1..Len(w), i < j
               PROVE  w[i] + FrameSamples <= w[j]
    BY DEF Rises
  <2>1. i # Len(w) /\ i + d \in 1..n /\ w[i] = preroll[i + d]
    BY <1>1, <1>2
  <2>2. CASE j = Len(w)
    BY <1>2, <2>1, <2>2 DEF OpenOrder, Past
  <2>3. CASE j # Len(w)
    <3>1. j + d \in 1..n /\ w[j] = preroll[j + d] /\ i + d < j + d
      BY <1>2, <2>3
    <3> QED
      BY <2>1, <3>1 DEF OpenOrder, Rises
  <2> QED
    BY <2>2, <2>3
<1>4. Paced(w)
  <2> SUFFICES ASSUME NEW i \in 1..Len(w), NEW j \in 1..Len(w), i <= j
               PROVE  w[i] <= w[j] /\ w[j] <= w[i] + (j - i) * FrameSamples
    BY DEF Paced
  \* The pre-roll with the frame is paced; w is the end of it.
  <2> DEFINE t == Append(preroll, Heard)
  <2>1. Paced(t)
    BY <1>1, PacedAppend DEF OpenOrder, Chained
  <2>2. /\ Len(t) = n + 1 /\ t[n + 1] = Heard /\ \A k \in 1..n : t[k] = preroll[k]
    BY <1>1
  <2> HIDE DEF t
  <2>3. ASSUME NEW k \in 1..Len(w) PROVE k + d \in 1..Len(t) /\ w[k] = t[k + d]
    <3>1. CASE k = Len(w)
      <4>1. k + d = n + 1 /\ w[k] = Heard
        BY <1>1, <1>2, <3>1
      <4> QED
        BY <1>1, <2>2, <4>1
    <3>2. CASE k # Len(w)
      <4>1. k + d \in 1..n /\ w[k] = preroll[k + d]
        BY <1>2, <3>2
      <4> QED
        BY <1>1, <2>2, <4>1
    <3> QED
      BY <3>1, <3>2
  <2>4. /\ i + d \in 1..Len(t) /\ j + d \in 1..Len(t) /\ i + d <= j + d
        /\ (j + d) - (i + d) = j - i
    BY <1>1, <2>3
  <2>5. /\ t[i + d] <= t[j + d] /\ t[j + d] <= t[i + d] + ((j + d) - (i + d)) * FrameSamples
    BY <2>1, <2>4 DEF Paced
  <2> QED
    BY <2>3, <2>4, <2>5
<1> QED
  BY <1>1, <1>2, <1>3, <1>4 DEF w

\* One close more, after all that came out before and before all that is kept.
LEMMA ClosedOrderAppend ==
  ASSUME SegInv, ClosedOrder, NEW o \in Closed, closed' = Append(closed, o), Paced(o.frames),
         Heard \in Nat, Heard' \in Nat, Heard <= Heard',
         o.emitted => /\ Len(o.frames) > 0 /\ Past(o.frames, Heard')
                      /\ Apart(o.frames, segment') /\ Apart(o.frames, preroll'),
         \A k \in 1..Len(closed) : closed[k].emitted =>
           /\ Apart(closed[k].frames, o.frames)
           /\ Apart(closed[k].frames, segment') /\ Apart(closed[k].frames, preroll')
  PROVE  ClosedOrder'
<1> DEFINE n == Len(closed)
<1>1. /\ closed \in Seq(Closed) /\ n \in Nat /\ Len(closed') = n + 1 /\ closed'[n + 1] = o
      /\ \A k \in 1..n : closed'[k] = closed[k] /\ closed[k] \in Closed
  <2>1. closed \in Seq(Closed)
    BY DEF SegInv, ClosedInv
  <2> QED
    BY <2>1
<1> HIDE DEF n
<1>2. ASSUME NEW k \in 1..n, closed[k].emitted PROVE Past(closed[k].frames, Heard')
  <2>1. closed[k].frames \in Seq(Nat) /\ Past(closed[k].frames, Heard)
    BY <1>1, <1>2 DEF Closed, ClosedOrder, n
  <2> HIDE DEF Heard
  <2> QED
    BY <2>1, StreamAssumption DEF Past
<1>3. ASSUME NEW k \in 1..(n + 1)
      PROVE  /\ Paced(closed'[k].frames)
             /\ closed'[k].emitted =>
                  /\ Len(closed'[k].frames) > 0 /\ Past(closed'[k].frames, Heard')
                  /\ Apart(closed'[k].frames, segment') /\ Apart(closed'[k].frames, preroll')
                  /\ \A j \in 1..(k - 1) :
                       closed'[j].emitted => Apart(closed'[j].frames, closed'[k].frames)
  <2>1. CASE k = n + 1
    <3>1. \A j \in 1..(k - 1) : j \in 1..n
      BY <1>1, <2>1
    <3> QED
      BY <1>1, <2>1, <3>1 DEF n
  <2>2. CASE k # n + 1
    <3>1. k \in 1..n /\ \A j \in 1..(k - 1) : j \in 1..n
      BY <1>1, <2>2
    <3> QED
      BY <1>1, <1>2, <3>1 DEF ClosedOrder, n
  <2> QED
    BY <2>1, <2>2
<1> QED
  BY <1>1, <1>3 DEF ClosedOrder, Past, Apart, Paced

\* What is under the floor is not speech.
LEMMA QuietIsNone ==
  ASSUME NEW ps \in Seq(Nat), \A i \in 1..Len(ps) : ps[i] < Floor
  PROVE  ActiveIn(ps) = 0
<1>1. \A i \in 1..Len(ps) : ~(ps[i] >= Floor)
  BY LevelAssumption
<1>2. { i \in 1..Len(ps) : ps[i] >= Floor } = {}
  BY <1>1
<1> QED
  BY <1>2, FS_EmptySet DEF ActiveIn

\* With a minimum of speech, what comes out holds some.
LEMMA EmittedSpeaks ==
  ASSUME MinSpeech > 0, SegInv, SegInv', NEW o \in Closed, closed' = Append(closed, o), o.emitted
  PROVE  \E i \in 1..Len(o.probs) : o.probs[i] >= Floor
<1>1. PICK k \in 1..Len(closed') : closed'[k] = o
  BY LastClosed DEF SegInv, ClosedInv
<1>2. ActiveIn(o.probs) >= MinSpeech
  BY <1>1 DEF SegInv, ClosedInv, NoiseNeverEmitted
<1>3. o.probs \in Seq(Nat)
  BY DEF Closed
<1>4. CASE \A i \in 1..Len(o.probs) : o.probs[i] < Floor
  <2>1. ActiveIn(o.probs) = 0
    BY <1>3, <1>4, QuietIsNone
  <2> QED
    BY <1>2, <2>1, FrameAssumption
<1>5. CASE \E i \in 1..Len(o.probs) : ~(o.probs[i] < Floor)
  <2>1. PICK i \in 1..Len(o.probs) : ~(o.probs[i] < Floor)
    BY <1>5
  <2>2. o.probs[i] \in Nat
    BY <1>3
  <2> QED
    BY <2>1, <2>2, LevelAssumption
<1> QED
  BY <1>4, <1>5

\* Closing all of an open segment.
LEMMA EmptiesOrder ==
  ASSUME SegInv, InOrder, NEW fs \in Seq(Nat), Len(fs) > 0, Paced(fs), Past(fs, Heard'),
         Heard \in Nat, Heard' \in Nat, Heard <= Heard',
         \A k \in 1..Len(closed) : closed[k].emitted => Apart(closed[k].frames, fs),
         Empties(fs)
  PROVE  InOrder'
<1>1. PICK o \in Closed : o.frames = fs /\ closed' = Append(closed, o)
  BY DEF Empties
<1>2. segment' = <<>> /\ preroll' = <<>> /\ triggered' = FALSE
  BY DEF Empties
<1>3. \A s : Apart(s, segment') /\ Apart(s, preroll')
  BY <1>2 DEF Apart
<1>4. ClosedOrder'
  <2>1. o.emitted => /\ Len(o.frames) > 0 /\ Past(o.frames, Heard')
                     /\ Apart(o.frames, segment') /\ Apart(o.frames, preroll')
    BY <1>1, <1>3
  <2>2. \A k \in 1..Len(closed) : closed[k].emitted =>
          /\ Apart(closed[k].frames, o.frames)
          /\ Apart(closed[k].frames, segment') /\ Apart(closed[k].frames, preroll')
    BY <1>1, <1>3
  <2>3. Paced(o.frames) /\ closed' = Append(closed, o) /\ ClosedOrder
    BY <1>1 DEF InOrder
  <2> QED
    BY <2>1, <2>2, <2>3, ClosedOrderAppend
<1>5. OpenOrder'
  BY <1>2 DEF OpenOrder, Past, Paced, Parted, Rises
<1> QED
  BY <1>4, <1>5 DEF InOrder

\* The two sides of a cut.  A head with a frame over the floor ends before the rest begins.
Sides(fs, head, hp, rest, rp) ==
  /\ head \in Seq(Nat) /\ rest \in Seq(Nat) /\ Len(rest) > 0
  /\ Paced(head) /\ Paced(rest) /\ Parted(rest, rp)
  /\ \A i \in 1..Len(head) : \E j \in 1..Len(fs) : head[i] = fs[j]
  /\ \A i \in 1..Len(rest) : \E j \in 1..Len(fs) : rest[i] = fs[j]
  /\ (\E i \in 1..Len(hp) : hp[i] >= Floor) => Len(head) > 0 /\ Apart(head, rest)

LEMMA CutParts ==
  ASSUME NEW fs \in Seq(Nat), NEW ps \in Seq(Nat), Len(ps) = Len(fs), Paced(fs), Parted(fs, ps),
         NEW cut \in 1..Len(fs),
         NEW head, head = SubSeq(fs, 1, cut - 1), NEW hp, hp = SubSeq(ps, 1, cut - 1),
         NEW rest, rest = SubSeq(fs, cut, Len(fs)), NEW rp, rp = SubSeq(ps, cut, Len(fs))
  PROVE  Sides(fs, head, hp, rest, rp)
<1> DEFINE n == Len(fs)
<1>1. /\ cut \in Nat /\ cut - 1 \in Nat /\ 1 <= cut /\ cut <= n + 1 /\ n <= n /\ n \in Nat
      /\ 1 <= (cut - 1) + 1 /\ cut - 1 <= n /\ 1 \in Nat /\ 1 <= 1 /\ cut <= n
  OBVIOUS
<1>2. /\ head \in Seq(Nat) /\ Len(head) = cut - 1 /\ Len(hp) = cut - 1 /\ Paced(head)
  <2>1. SubSeq(fs, 1, cut - 1) \in Seq(Nat) /\ Len(SubSeq(fs, 1, cut - 1)) = (cut - 1) - 1 + 1
    BY <1>1, Piece
  <2>2. Len(SubSeq(ps, 1, cut - 1)) = (cut - 1) - 1 + 1
    BY <1>1, Piece
  <2>3. Paced(SubSeq(fs, 1, cut - 1))
    BY <1>1, PacedPiece
  <2>4. (cut - 1) - 1 + 1 = cut - 1
    BY <1>1
  <2> QED
    BY <2>1, <2>2, <2>3, <2>4
<1>3. /\ rest \in Seq(Nat) /\ Len(rest) = n - cut + 1 /\ Len(rp) = n - cut + 1 /\ Paced(rest)
  <2>1. SubSeq(fs, cut, n) \in Seq(Nat) /\ Len(SubSeq(fs, cut, n)) = n - cut + 1
    BY <1>1, Piece
  <2>2. Len(SubSeq(ps, cut, n)) = n - cut + 1
    BY <1>1, Piece
  <2>3. Paced(SubSeq(fs, cut, n))
    BY <1>1, PacedPiece
  <2> QED
    BY <2>1, <2>2, <2>3
<1>4. ASSUME NEW i \in 1..(cut - 1) PROVE i \in 1..n /\ head[i] = fs[i] /\ hp[i] = ps[i]
  <2>1. i \in 1..Len(head) /\ i \in 1..Len(hp) /\ 1 + i - 1 = i /\ i \in 1..n
    BY <1>1, <1>2
  <2>2. head[i] = fs[1 + i - 1] /\ hp[i] = ps[1 + i - 1]
    BY <1>1, <2>1, PieceFrames
  <2> QED
    BY <2>1, <2>2
<1>5. ASSUME NEW i \in 1..(n - cut + 1)
      PROVE  cut + i - 1 \in 1..n /\ rest[i] = fs[cut + i - 1] /\ rp[i] = ps[cut + i - 1]
  <2>1. i \in 1..Len(rest) /\ i \in 1..Len(rp) /\ cut + i - 1 \in 1..n
    BY <1>1, <1>3
  <2>2. rest[i] = fs[cut + i - 1] /\ rp[i] = ps[cut + i - 1]
    BY <1>1, <2>1, PieceFrames
  <2> QED
    BY <2>1, <2>2
<1>6. \A i, j \in 1..n : i < j =>
        fs[i] + FrameSamples <= fs[j] \/ (j = i + 1 /\ \A h \in 1..i : ps[h] < Floor)
  BY DEF Parted
<1>7. \A i \in 1..n : ps[i] \in Nat /\ fs[i] \in Nat
  OBVIOUS
<1> HIDE DEF n
<1>8. ASSUME NEW h \in 1..(cut - 1), hp[h] >= Floor,
             NEW i \in 1..(cut - 1), NEW j \in 1..(n - cut + 1)
      PROVE  head[i] + FrameSamples <= rest[j]
  <2> DEFINE m == cut + j - 1
  <2>i. /\ i \in Nat /\ j \in Nat /\ h \in Nat /\ cut \in Nat
        /\ 1 <= i /\ 1 <= j /\ 1 <= h /\ i <= cut - 1 /\ h <= cut - 1
    BY <1>1
  <2>1. i \in 1..n /\ m \in 1..n /\ i < m /\ head[i] = fs[i] /\ rest[j] = fs[m]
    <3>1. m \in 1..n /\ rest[j] = fs[m]
      BY <1>5
    <3>2. i < m
      BY <2>i
    <3> QED
      BY <1>4, <3>1, <3>2
  <2>2. m = i + 1 => h \in 1..i
    <3>1. m = i + 1 => h <= i
      BY <2>i
    <3> QED
      BY <2>i, <3>1
  <2>3. ~(ps[h] < Floor)
    <3>1. h \in 1..n /\ hp[h] = ps[h]
      BY <1>4
    <3>2. ps[h] \in Nat
      BY <1>7, <3>1
    <3>3. ps[h] >= Floor
      BY Zenon, <1>8, <3>1
    <3>4. \A x, y \in Nat : x >= y => ~(x < y)
      OBVIOUS
    <3> QED
      BY <3>2, <3>3, <3>4, LevelAssumption
  <2> HIDE DEF m
  <2> QED
    BY <1>6, <2>1, <2>2, <2>3
<1>9. Parted(rest, rp)
  <2> SUFFICES ASSUME NEW i \in 1..(n - cut + 1), NEW j \in 1..(n - cut + 1), i < j
               PROVE  rest[i] + FrameSamples <= rest[j] \/ (j = i + 1 /\ \A h \in 1..i : rp[h] < Floor)
    BY <1>3 DEF Parted
  <2> DEFINE a == cut + i - 1
             b == cut + j - 1
  <2>1. a \in 1..n /\ b \in 1..n /\ rest[i] = fs[a] /\ rest[j] = fs[b]
    BY <1>5
  <2>2. a < b /\ (b = a + 1 => j = i + 1)
    BY <1>1
  <2>3. ASSUME NEW h \in 1..i PROVE cut + h - 1 \in 1..a /\ rp[h] = ps[cut + h - 1]
    <3>1. h \in 1..(n - cut + 1) /\ cut + h - 1 \in 1..a
      BY <1>1
    <3> QED
      BY <1>5, <3>1
  <2> HIDE DEF a, b
  <2>4. fs[a] + FrameSamples <= fs[b] \/ (b = a + 1 /\ \A h \in 1..a : ps[h] < Floor)
    BY <1>6, <2>1, <2>2
  <2>5. CASE b = a + 1 /\ \A h \in 1..a : ps[h] < Floor
    <3>1. \A h \in 1..i : rp[h] < Floor
      BY <2>3, <2>5
    <3> QED
      BY <2>2, <2>5, <3>1
  <2> QED
    BY <2>1, <2>4, <2>5
<1>10. /\ \A i \in 1..Len(head) : \E j \in 1..n : head[i] = fs[j]
       /\ \A i \in 1..Len(rest) : \E j \in 1..n : rest[i] = fs[j]
  <2>1. \A i \in 1..Len(head) : \E j \in 1..n : head[i] = fs[j]
    BY <1>2, <1>4
  <2>2. \A i \in 1..Len(rest) : \E j \in 1..n : rest[i] = fs[j]
    BY <1>3, <1>5
  <2> QED
    BY <2>1, <2>2
<1>11. (\E i \in 1..Len(hp) : hp[i] >= Floor) => Len(head) > 0 /\ Apart(head, rest)
  <2> SUFFICES ASSUME NEW h \in 1..Len(hp), hp[h] >= Floor
               PROVE  Len(head) > 0 /\ Apart(head, rest)
    OBVIOUS
  <2>1. h \in 1..(cut - 1) /\ Len(head) > 0
    BY <1>1, <1>2
  <2>2. \A i \in 1..Len(head), j \in 1..Len(rest) : head[i] + FrameSamples <= rest[j]
    BY <1>2, <1>3, <1>8, <2>1
  <2> QED
    BY <2>1, <2>2 DEF Apart
<1>12. Len(rest) > 0
  BY <1>1, <1>3
<1> QED
  BY <1>2, <1>3, <1>9, <1>10, <1>11, <1>12 DEF Sides, n

\* Cutting it in two.
LEMMA CutsOrder ==
  ASSUME MinSpeech > 0, SegInv, SegInv', InOrder, NEW fs \in Seq(Nat), Paced(fs), Past(fs, Heard'),
         Len(fs) = Len(probs) + 1, \A p \in Nat : Parted(fs, Append(probs, p)),
         Heard \in Nat, Heard' \in Nat, Heard <= Heard',
         \A k \in 1..Len(closed) : closed[k].emitted => Apart(closed[k].frames, fs),
         Cuts(fs)
  PROVE  InOrder'
<1>1. PICK p \in Nat, cut \in 1..Len(fs), o \in Closed :
        /\ o.frames = SubSeq(fs, 1, cut - 1) /\ o.probs = SubSeq(Append(probs, p), 1, cut - 1)
        /\ closed' = Append(closed, o)
        /\ segment' = SubSeq(fs, cut, Len(fs)) /\ probs' = SubSeq(Append(probs, p), cut, Len(fs))
  BY DEF Cuts
<1>2. preroll' = <<>> /\ triggered' = TRUE
  BY DEF Cuts
<1> DEFINE ps == Append(probs, p)
<1>3. ps \in Seq(Nat) /\ Len(ps) = Len(fs) /\ Parted(fs, ps)
  BY DEF SegInv, OpenInv
<1>4. /\ o.frames = SubSeq(fs, 1, cut - 1) /\ o.probs = SubSeq(ps, 1, cut - 1)
      /\ segment' = SubSeq(fs, cut, Len(fs)) /\ probs' = SubSeq(ps, cut, Len(fs))
  BY <1>1
<1> HIDE DEF ps
<1> DEFINE head == o.frames
           hp == o.probs
           rest == segment'
           rp == probs'
<1>5. /\ head \in Seq(Nat) /\ rest \in Seq(Nat) /\ Len(rest) > 0
      /\ Paced(head) /\ Paced(rest) /\ Parted(rest, rp)
      /\ \A i \in 1..Len(head) : \E j \in 1..Len(fs) : head[i] = fs[j]
      /\ \A i \in 1..Len(rest) : \E j \in 1..Len(fs) : rest[i] = fs[j]
      /\ (\E i \in 1..Len(hp) : hp[i] >= Floor) => Len(head) > 0 /\ Apart(head, rest)
  <2> HIDE DEF head, hp, rest, rp
  <2>1. /\ head = SubSeq(fs, 1, cut - 1) /\ hp = SubSeq(ps, 1, cut - 1)
        /\ rest = SubSeq(fs, cut, Len(fs)) /\ rp = SubSeq(ps, cut, Len(fs))
        /\ cut \in 1..Len(fs)
    BY <1>1, <1>4 DEF head, hp, rest, rp
  <2>2. fs \in Seq(Nat) /\ ps \in Seq(Nat) /\ Len(ps) = Len(fs) /\ Paced(fs) /\ Parted(fs, ps)
    BY <1>3
  <2>3. Sides(fs, head, hp, rest, rp)
    BY <2>1, <2>2, CutParts
  <2> QED
    BY <2>3 DEF Sides
<1>6. o.emitted => \E i \in 1..Len(hp) : hp[i] >= Floor
  BY <1>1, EmittedSpeaks
<1>7. Past(head, Heard') /\ Past(rest, Heard')
  <2> DEFINE h == Heard'
  <2>1. \A j \in 1..Len(fs) : fs[j] + FrameSamples <= h
    BY DEF Past
  <2> HIDE DEF head, rest, h
  <2>2. Past(head, h) /\ Past(rest, h)
    BY <1>5, <2>1 DEF Past
  <2> QED
    BY <2>2 DEF h
<1>8. ASSUME NEW k \in 1..Len(closed), closed[k].emitted
      PROVE  Apart(closed[k].frames, head) /\ Apart(closed[k].frames, rest)
  <2> DEFINE e == closed[k].frames
  <2>1. \A i \in 1..Len(e), j \in 1..Len(fs) : e[i] + FrameSamples <= fs[j]
    BY <1>8 DEF Apart
  <2> HIDE DEF head, rest, e
  <2>2. Apart(e, head) /\ Apart(e, rest)
    BY <1>5, <2>1 DEF Apart
  <2> QED
    BY <2>2 DEF e
<1>9. ClosedOrder'
  <2>1. \A s : Apart(s, preroll')
    BY <1>2 DEF Apart
  <2>2. o.emitted => /\ Len(o.frames) > 0 /\ Past(o.frames, Heard')
                     /\ Apart(o.frames, segment') /\ Apart(o.frames, preroll')
    BY <1>5, <1>6, <1>7, <2>1
  <2>3. \A k \in 1..Len(closed) : closed[k].emitted =>
          /\ Apart(closed[k].frames, o.frames)
          /\ Apart(closed[k].frames, segment') /\ Apart(closed[k].frames, preroll')
    BY <1>8, <2>1
  <2>4. Paced(o.frames) /\ closed' = Append(closed, o) /\ ClosedOrder
    BY <1>1, <1>5 DEF InOrder
  <2> QED
    BY <2>2, <2>3, <2>4, ClosedOrderAppend
<1>10. OpenOrder'
  <2>1. Past(preroll', Heard') /\ Paced(preroll') /\ Rises(preroll')
    BY <1>2 DEF Past, Paced, Rises
  <2>2. Past(segment', Heard') /\ Paced(segment') /\ Parted(segment', probs') /\ Len(segment') > 0
    BY <1>5, <1>7
  <2> QED
    BY <2>1, <2>2 DEF OpenOrder, Past, Paced, Parted, Rises
<1> QED
  BY <1>9, <1>10 DEF InOrder

\* What feed() has listened to is a number of samples, before a step and after.
LEMMA HeardIsNat == ASSUME FeedInv PROVE Heard \in Nat
<1>1. CASE pc = "idle"
  BY <1>1 DEF FeedInv, Heard
<1>2. CASE pc # "idle"
  BY <1>2 DEF FeedInv, Heard
<1> QED
  BY <1>1, <1>2

LEMMA HeardStaysNat == ASSUME FeedInv' PROVE Heard' \in Nat
<1> DEFINE r == residue'
           s == samples'
           a == received'
           o == offset'
<1>1. r \in Nat /\ s \in Nat /\ a \in Nat /\ o \in Nat /\ s <= a /\ r <= a
  BY DEF FeedInv
<1>2. Heard' = IF pc' = "idle" THEN a - r ELSE a - s + o
  BY DEF Heard
<1>3. a - r \in Nat /\ a - s + o \in Nat
  <2> HIDE DEF r, s, a, o
  <2> QED
    BY <1>1
<1> QED
  BY <1>2, <1>3

LEMMA OrderStep ==
  ASSUME MinSpeech > 0, SegInv, SegInv', Chained, InOrder, [Next]_vars
  PROVE  InOrder'
<1>1. /\ OpenInv /\ segment \in Seq(Nat) /\ preroll \in Seq(Nat) /\ probs \in Seq(Nat)
      /\ Len(segment) \in Nat /\ Len(probs) = Len(segment) /\ closed \in Seq(Closed)
      /\ OpenOrder /\ ClosedOrder
  BY DEF SegInv, OpenInv, ClosedInv, InOrder
<1>2. Heard \in Nat /\ Heard' \in Nat
  BY HeardIsNat, HeardStaysNat DEF SegInv
<1>3. ASSUME NEW k \in 1..Len(closed)
      PROVE  closed[k] \in Closed /\ closed[k].frames \in Seq(Nat)
  <2>1. closed[k] \in Closed
    BY <1>1
  <2> QED
    BY <2>1 DEF Closed
<1>4. CASE FeedChunk \/ FeedEnd \/ Flush \/ UNCHANGED vars
  <2>1. Heard' = Heard
    BY <1>4, OtherMoves
  <2>2. CASE UNCHANGED <<triggered, segment, probs, preroll, closed>>
    BY <1>1, <2>1, <2>2 DEF InOrder, OpenOrder, ClosedOrder, Past, Paced, Parted, Rises, Apart
  <2>3. CASE Empties(segment)
    <3>1. Len(segment) > 0 /\ Paced(segment) /\ Past(segment, Heard')
      BY <1>1, <2>1, <2>3 DEF Empties, OpenOrder
    <3>2. \A k \in 1..Len(closed) : closed[k].emitted => Apart(closed[k].frames, segment)
      BY <1>1 DEF ClosedOrder
    <3>3. Heard <= Heard'
      BY <1>2, <2>1
    <3> QED
      BY <1>1, <1>2, <2>3, <3>1, <3>2, <3>3, EmptiesOrder
  <2> QED
    BY <1>4, <2>2, <2>3, OtherMoves
<1>5. CASE FeedFrame
  <2> DEFINE f == Position
             fs == Append(segment, f)
             w == WithFrame(f)
  <2>1. /\ f \in Nat /\ Heard = f /\ Heard' = f + FrameSamples
        /\ Joins(f) \/ Opens(f) \/ Extends(f) \/ Cuts(fs) \/ Empties(fs)
    BY <1>5, FrameMoves DEF Heard, Position
  <2> HIDE DEF f
  <2>h. FrameSamples \in Nat /\ Heard <= Heard'
    BY <2>1, StreamAssumption
  <2>2. /\ fs \in Seq(Nat) /\ Len(fs) = Len(segment) + 1 /\ fs[Len(segment) + 1] = f
        /\ \A i \in 1..Len(segment) : fs[i] = segment[i] /\ segment[i] \in Nat
    BY <1>1, <2>1
  <2>3. Paced(fs)
    <3>1. Len(segment) > 0 => f \in {segment[Len(segment)], segment[Len(segment)] + FrameSamples}
      BY <2>1 DEF Chained
    <3> QED
      BY <1>1, <2>1, <3>1, PacedAppend DEF OpenOrder
  <2>4. \A p \in Nat : Parted(fs, Append(probs, p))
    BY <1>1, <2>1, PartedAppend
  <2> HIDE DEF fs
  \* Old frames end at f at the latest, f ends where the next begins.
  <2>5. Past(fs, Heard')
    <3>1. ASSUME NEW i \in 1..(Len(segment) + 1) PROVE fs[i] + FrameSamples <= f + FrameSamples
      <4>1. CASE i = Len(segment) + 1
        BY <2>1, <2>2, <2>h, <4>1
      <4>2. CASE i # Len(segment) + 1
        <5>1. i \in 1..Len(segment)
          BY <1>1, <4>2
        <5>2. segment[i] + FrameSamples <= f /\ segment[i] \in Nat /\ fs[i] = segment[i]
          BY <1>1, <2>1, <2>2, <5>1 DEF OpenOrder, Past
        <5> QED
          BY <2>1, <2>h, <5>2
      <4> QED
        BY <4>1, <4>2
    <3> QED
      BY <2>1, <2>2, <3>1 DEF Past
  <2>6. ASSUME NEW k \in 1..Len(closed), closed[k].emitted
        PROVE  \A i \in 1..Len(closed[k].frames) :
                 /\ closed[k].frames[i] + FrameSamples <= f
                 /\ closed[k].frames[i] + FrameSamples <= Heard'
    <3>1. Past(closed[k].frames, Heard) /\ closed[k].frames \in Seq(Nat)
      BY <1>1, <1>3, <2>6 DEF ClosedOrder
    <3>2. ASSUME NEW i \in 1..Len(closed[k].frames)
          PROVE  closed[k].frames[i] + FrameSamples <= f /\ closed[k].frames[i] \in Nat
      BY <2>1, <3>1 DEF Past
    <3> QED
      BY <2>1, <2>h, <3>2
  <2>7. ASSUME NEW k \in 1..Len(closed), closed[k].emitted
        PROVE  Apart(closed[k].frames, fs)
    <3>1. \A i \in 1..Len(closed[k].frames), j \in 1..Len(segment) :
            closed[k].frames[i] + FrameSamples <= segment[j]
      BY <1>1, <2>7 DEF ClosedOrder, Apart
    <3>2. \A j \in 1..Len(fs) : j \in 1..Len(segment) \/ j = Len(segment) + 1
      BY <1>1, <2>2
    <3> QED
      BY <2>2, <2>6, <2>7, <3>1, <3>2 DEF Apart
  <2>8. CASE Empties(fs)
    <3>1. Len(fs) > 0
      BY <1>1, <2>2
    <3> QED
      BY <1>1, <1>2, <2>2, <2>3, <2>5, <2>7, <2>8, <2>h, <3>1, EmptiesOrder
  <2>9. CASE Cuts(fs)
    <3>1. Len(fs) = Len(probs) + 1
      BY <1>1, <2>2
    <3> QED
      BY <1>1, <1>2, <2>2, <2>3, <2>4, <2>5, <2>7, <2>9, <2>h, <3>1, CutsOrder
  \* Nothing is closed: what came out stays before what is kept.
  <2>c. ASSUME UNCHANGED closed,
               \A k \in 1..Len(closed) : closed[k].emitted =>
                 Apart(closed[k].frames, segment') /\ Apart(closed[k].frames, preroll')
        PROVE  ClosedOrder'
    <3>1. \A k \in 1..Len(closed) : closed[k].emitted => Past(closed[k].frames, Heard')
      BY <2>6 DEF Past
    <3> QED
      BY <1>1, <2>c, <3>1 DEF ClosedOrder, Past, Apart, Paced
  <2>10. CASE Extends(f)
    <3>1. segment' = fs /\ UNCHANGED <<triggered, preroll, closed>>
          /\ \E p \in Nat : probs' = Append(probs, p)
      BY <2>10 DEF Extends, fs
    <3>2. Parted(segment', probs')
      BY <2>4, <3>1
    <3>3. Len(preroll) = 0
      BY <2>10 DEF Extends, Chained
    <3>4. OpenOrder'
      <4>1. Past(segment', Heard') /\ Paced(segment') /\ Len(segment') > 0
        BY <1>1, <2>2, <2>3, <2>5, <3>1
      <4>2. Past(preroll', Heard') /\ Paced(preroll') /\ Rises(preroll')
        BY <3>1, <3>3 DEF Past, Paced, Rises
      <4> QED
        BY <3>2, <4>1, <4>2 DEF OpenOrder, Past, Paced, Parted, Rises
    <3>5. ClosedOrder'
      <4>1. \A k \in 1..Len(closed) : closed[k].emitted =>
              Apart(closed[k].frames, segment') /\ Apart(closed[k].frames, preroll')
        BY <1>1, <2>7, <3>1 DEF ClosedOrder
      <4> QED
        BY <2>c, <3>1, <4>1
    <3> QED
      BY <3>4, <3>5 DEF InOrder
  <2>11. /\ w \in Seq(Nat) /\ Len(w) \in Nat /\ Paced(w) /\ Rises(w)
         /\ \A i \in 1..Len(w) : IF i = Len(w) THEN w[i] = f
                                 ELSE \E j \in 1..Len(preroll) : w[i] = preroll[j]
    <3>1. /\ w \in Seq(Nat) /\ Paced(w) /\ Rises(w)
          /\ \A i \in 1..Len(w) : IF i = Len(w) THEN w[i] = f
                                  ELSE \E j \in 1..Len(preroll) : w[i] = preroll[j]
      BY <1>1, <1>2, <2>1, PrerollOrder
    <3> QED
      BY <3>1
  <2> HIDE DEF w
  <2>12. Past(w, Heard')
    <3>1. ASSUME NEW i \in 1..Len(w) PROVE w[i] + FrameSamples <= f + FrameSamples
      <4>1. CASE i = Len(w)
        BY <2>1, <2>11, <2>h, <4>1
      <4>2. CASE i # Len(w)
        <5>1. PICK j \in 1..Len(preroll) : w[i] = preroll[j]
          BY <2>11, <4>2
        <5>2. preroll[j] + FrameSamples <= f /\ preroll[j] \in Nat
          BY <1>1, <2>1, <5>1 DEF OpenOrder, Past
        <5> QED
          BY <2>1, <2>h, <5>1, <5>2
      <4> QED
        BY <4>1, <4>2
    <3> QED
      BY <2>1, <3>1 DEF Past
  <2>13. ASSUME NEW k \in 1..Len(closed), closed[k].emitted
         PROVE  Apart(closed[k].frames, w)
    <3>1. \A i \in 1..Len(closed[k].frames), j \in 1..Len(preroll) :
            closed[k].frames[i] + FrameSamples <= preroll[j]
      BY <1>1, <2>13 DEF ClosedOrder, Apart
    <3>2. ASSUME NEW i \in 1..Len(closed[k].frames), NEW j \in 1..Len(w)
          PROVE  closed[k].frames[i] + FrameSamples <= w[j]
      BY <2>6, <2>11, <2>13, <3>1
    <3> QED
      BY <3>2 DEF Apart
  <2>14. CASE Joins(f)
    <3>1. preroll' = w /\ UNCHANGED <<triggered, segment, probs, closed>> /\ Len(segment) = 0 /\ ~triggered
      BY <2>14 DEF Joins, Chained, w
    <3>2. OpenOrder'
      <4>1. Past(preroll', Heard') /\ Paced(preroll') /\ Rises(preroll')
        BY <2>11, <2>12, <3>1
      <4>2. Past(segment', Heard') /\ Paced(segment') /\ Parted(segment', probs')
        BY <3>1 DEF Past, Paced, Parted
      <4> QED
        BY <3>1, <4>1, <4>2 DEF OpenOrder, Past, Paced, Parted, Rises
    <3>3. ClosedOrder'
      <4>1. \A k \in 1..Len(closed) : closed[k].emitted =>
              Apart(closed[k].frames, segment') /\ Apart(closed[k].frames, preroll')
        BY <1>1, <2>13, <3>1 DEF ClosedOrder
      <4> QED
        BY <2>c, <3>1, <4>1
    <3> QED
      BY <3>2, <3>3 DEF InOrder
  <2>15. CASE Opens(f)
    <3> DEFINE t == Append(w, f)
    <3>1. PICK p \in Nat :
            /\ segment' = t /\ preroll' = <<>> /\ UNCHANGED closed
            /\ probs' = Append([i \in 1..Len(w) |-> 0], p)
      BY <2>15 DEF Opens, w
    <3>2. /\ t \in Seq(Nat) /\ Len(t) = Len(w) + 1 /\ t[Len(w) + 1] = f
          /\ \A i \in 1..Len(w) : t[i] = w[i] /\ w[i] \in Nat
      BY <2>1, <2>11
    <3>3. Paced(t)
      <4>1. Len(w) > 0 => f \in {w[Len(w)], w[Len(w)] + FrameSamples}
        BY <2>11
      <4> QED
        BY <2>1, <2>11, <4>1, PacedAppend
    <3>4. \A i \in 1..Len(w) : probs'[i] = 0
      <4> DEFINE z == [i \in 1..Len(w) |-> 0]
      <4>1. z \in Seq(Nat) /\ Len(z) = Len(w) /\ \A i \in 1..Len(w) : z[i] = 0
        BY <2>11
      <4>2. probs' = Append(z, p)
        BY <3>1
      <4> HIDE DEF z
      <4> QED
        BY <2>11, <4>1, <4>2
    <3> HIDE DEF t
    <3>5. Past(t, Heard')
      <4>1. \A i \in 1..Len(w) : t[i] + FrameSamples <= Heard'
        BY <2>12, <3>2 DEF Past
      <4>2. t[Len(w) + 1] + FrameSamples <= Heard'
        BY <1>2, <2>1, <3>2
      <4>3. \A i \in 1..Len(t) : i \in 1..Len(w) \/ i = Len(w) + 1
        BY <2>11, <3>2
      <4> QED
        BY <4>1, <4>2, <4>3 DEF Past
    <3>6. Parted(segment', probs')
      <4> SUFFICES ASSUME NEW i \in 1..(Len(w) + 1), NEW j \in 1..(Len(w) + 1), i < j
                   PROVE  t[i] + FrameSamples <= t[j]
                          \/ (j = i + 1 /\ \A h \in 1..i : probs'[h] < Floor)
        BY <3>1, <3>2 DEF Parted
      <4>1. i \in 1..Len(w)
        BY <2>11
      <4>2. CASE j = Len(w) + 1 /\ i = Len(w)
        <5>1. \A h \in 1..i : probs'[h] < Floor
          BY <3>4, <4>2, LevelAssumption
        <5> QED
          BY <4>2, <5>1
      <4>3. CASE j = Len(w) + 1 /\ i # Len(w)
        <5>1. i < Len(w) /\ Len(w) \in 1..Len(w) /\ w[Len(w)] = f
          BY <2>11, <4>1, <4>3
        <5>2. w[i] + FrameSamples <= w[Len(w)]
          BY <2>11, <4>1, <5>1 DEF Rises
        <5> QED
          BY <3>2, <4>1, <4>3, <5>1, <5>2
      <4>4. CASE j # Len(w) + 1
        <5>1. j \in 1..Len(w)
          BY <2>11, <4>4
        <5>2. w[i] + FrameSamples <= w[j]
          BY <2>11, <4>1, <5>1 DEF Rises
        <5> QED
          BY <3>2, <4>1, <5>1, <5>2
      <4> QED
        BY <4>2, <4>3, <4>4
    <3>7. OpenOrder'
      <4>1. Past(segment', Heard') /\ Paced(segment') /\ Len(segment') > 0
        BY <2>11, <3>1, <3>2, <3>3, <3>5
      <4>2. Past(preroll', Heard') /\ Paced(preroll') /\ Rises(preroll')
        BY <3>1 DEF Past, Paced, Rises
      <4> QED
        BY <3>6, <4>1, <4>2 DEF OpenOrder, Past, Paced, Parted, Rises
    <3>8. ASSUME NEW k \in 1..Len(closed), closed[k].emitted
          PROVE  Apart(closed[k].frames, segment') /\ Apart(closed[k].frames, preroll')
      <4>1. \A i \in 1..Len(closed[k].frames), j \in 1..Len(w) :
              closed[k].frames[i] + FrameSamples <= w[j]
        BY <2>13, <3>8 DEF Apart
      <4>2. \A j \in 1..Len(t) : j \in 1..Len(w) \/ j = Len(w) + 1
        BY <2>11, <3>2
      <4>3. Apart(closed[k].frames, t)
        BY <2>6, <3>2, <3>8, <4>1, <4>2 DEF Apart
      <4>4. Apart(closed[k].frames, preroll')
        BY <3>1 DEF Apart
      <4> QED
        BY <3>1, <4>3, <4>4
    <3>9. ClosedOrder'
      BY <2>c, <3>1, <3>8
    <3> QED
      BY <3>7, <3>9 DEF InOrder
  <2> QED
    BY <2>1, <2>8, <2>9, <2>10, <2>14, <2>15
<1> QED
  BY <1>4, <1>5 DEF Next

\* What is apart lies before: a frame has samples.
LEMMA ApartIsBefore ==
  ASSUME NEW early \in Seq(Nat), NEW late \in Seq(Nat), Apart(early, late)
  PROVE  Before(early, late)
<1>1. FrameSamples \in Nat /\ FrameSamples > 0
  BY StreamAssumption
<1>2. ASSUME NEW i \in 1..Len(early), NEW j \in 1..Len(late) PROVE early[i] < late[j]
  <2>1. early[i] \in Nat /\ late[j] \in Nat /\ early[i] + FrameSamples <= late[j]
    BY DEF Apart
  <2> QED
    BY <1>1, <2>1
<1> QED
  BY <1>2 DEF Before

LEMMA OrderInvariant ==
  ASSUME MinSpeech > 0
  PROVE  Spec => [](SegInv /\ Chained /\ NoHoles /\ InOrder)
<1>1. Init => Chained /\ NoHoles /\ InOrder
  BY DEF Init, Chained, NoHoles, Contiguous, InOrder, OpenOrder, ClosedOrder, Past, Paced,
         Parted, Rises
<1>2. SegInv /\ SegInv' /\ (Chained /\ NoHoles /\ InOrder) /\ [Next]_vars
        => (Chained /\ NoHoles /\ InOrder)'
  BY ChainStep, OrderStep
<1> QED
  BY <1>1, <1>2, SegInvariant, PTL DEF Spec

\* When a minimum of speech is asked for, what comes out comes out once and in order.
THEOREM StreamOrder ==
  ASSUME MinSpeech > 0
  PROVE  Spec => []SegmentsInOrder
<1>1. SegInv /\ Chained /\ InOrder => SegmentsInOrder
  <2> SUFFICES ASSUME SegInv, Chained, InOrder PROVE SegmentsInOrder
    OBVIOUS
  <2>1. segment \in Seq(Nat) /\ preroll \in Seq(Nat) /\ ClosedOrder
    BY DEF SegInv, OpenInv, InOrder
  <2>2. ASSUME NEW k \in 1..Len(closed) PROVE closed[k].frames \in Seq(Nat)
    <3>1. closed[k] \in Closed
      BY DEF SegInv, ClosedInv
    <3> QED
      BY <3>1 DEF Closed
  <2>3. ASSUME NEW k \in 1..Len(closed), closed[k].emitted
        PROVE  /\ Before(closed[k].frames, segment) /\ Before(closed[k].frames, preroll)
               /\ \A j \in 1..(k - 1) :
                    closed[j].emitted => Before(closed[j].frames, closed[k].frames)
    <3>1. Before(closed[k].frames, segment) /\ Before(closed[k].frames, preroll)
      BY <2>1, <2>2, <2>3, ApartIsBefore DEF ClosedOrder
    <3>2. ASSUME NEW j \in 1..(k - 1), closed[j].emitted
          PROVE  Before(closed[j].frames, closed[k].frames)
      <4>1. j \in 1..Len(closed) /\ Apart(closed[j].frames, closed[k].frames)
        <5>1. Len(closed) \in Nat
          BY DEF SegInv, ClosedInv
        <5> QED
          BY <2>1, <2>3, <3>2, <5>1 DEF ClosedOrder
      <4> QED
        BY <2>2, <4>1, ApartIsBefore
    <3> QED
      BY <3>1, <3>2
  <2>4. Before(segment, preroll)
    BY DEF Chained, Before, SegInv, OpenInv
  <2> QED
    BY <2>3, <2>4 DEF SegmentsInOrder
<1> QED
  BY <1>1, OrderInvariant, PTL

-------------------------------------------------------------------------------
(* The promise kept *)

\* A segment no longer than the ceiling is a stretch no longer than it.
LEMMA ShortStretch ==
  ASSUME NEW a \in Nat, NEW n \in Nat, n <= MaxFrames, n > 0
  PROVE  (n - 1) * FrameSamples + FrameSamples <= MaxFrames * FrameSamples
<1>1. \A m \in Nat, k \in Nat, x \in Nat : m <= k => m * x <= k * x
  OBVIOUS
<1>2. (n - 1) * FrameSamples + FrameSamples = n * FrameSamples
  BY StreamAssumption
<1> QED
  BY <1>1, <1>2, StreamAssumption, FrameAssumption

\* Every close is one of the abstract machine.
LEMMA CloseMaps ==
  ASSUME SegInv, SegInv', ClosedOrder', triggered, Heard' \in Nat,
         NEW o \in Closed, closed' = Append(closed, o)
  PROVE  Promise!Close(Heard')
<1> DEFINE n == Len(closed)
           D == { j \in 1..n : closed[j].emitted }
           S(c) == [from |-> c.frames[1], to |-> c.frames[Len(c.frames)] + FrameSamples]
<1>1. /\ n \in Nat /\ Len(closed') = n + 1 /\ closed'[n + 1] = o
      /\ \A k \in 1..n : closed'[k] = closed[k] /\ closed[k] \in Closed
  <2>1. closed \in Seq(Closed)
    BY DEF SegInv, ClosedInv
  <2> QED
    BY <2>1
<1>2. /\ EmittedSegments = [k \in D |-> S(closed[k])]
      /\ EmittedSegments' = [k \in { j \in 1..Len(closed') : closed'[j].emitted } |-> S(closed'[k])]
  BY DEF EmittedSegments
<1>3. D \subseteq 1..n /\ n + 1 \notin D
  BY <1>1
<1>4. DOMAIN EmittedSegments = D /\ \A k \in D : EmittedSegments[k] = S(closed[k])
  BY <1>2
<1>5. CASE ~o.emitted
  <2>1. { j \in 1..Len(closed') : closed'[j].emitted } = D
    <3>1. \A j : j \in 1..(n + 1) <=> j \in 1..n \/ j = n + 1
      BY <1>1
    <3> QED
      BY <1>1, <1>5, <3>1
  <2>2. \A k \in D : closed'[k] = closed[k]
    BY <1>1
  <2> HIDE DEF D, S
  <2>3. UNCHANGED EmittedSegments
    BY <1>2, <2>1, <2>2
  <2> QED
    BY <1>1, <2>3 DEF Promise!Close, n
<1>6. CASE o.emitted
  <2>1. { j \in 1..Len(closed') : closed'[j].emitted } = D \cup {n + 1}
    <3>1. \A j : j \in 1..(n + 1) <=> j \in 1..n \/ j = n + 1
      BY <1>1
    <3> QED
      BY <1>1, <1>6, <3>1
  <2>2. /\ o.frames \in Seq(Nat) /\ Paced(o.frames) /\ Len(o.frames) > 0
        /\ Len(o.frames) \in Nat /\ Len(o.frames) <= MaxFrames
        /\ Past(o.frames, Heard')
    <3>1. n + 1 \in 1..Len(closed')
      BY <1>1
    <3>2. o.frames \in Seq(Nat)
      BY DEF Closed
    <3>3. Len(o.frames) <= MaxFrames
      BY <1>1, <3>1 DEF SegInv, ClosedInv
    <3>4. Paced(o.frames) /\ Len(o.frames) > 0 /\ Past(o.frames, Heard')
      BY <1>1, <1>6, <3>1 DEF ClosedOrder, Paced, Past
    <3> QED
      BY <3>2, <3>3, <3>4
  <2>3. ASSUME NEW k \in D PROVE EmittedSegments[k].to <= S(o).from
    <3> DEFINE e == closed[k].frames
    <3>1. /\ k \in 1..Len(closed') /\ n + 1 \in 1..Len(closed') /\ k \in 1..((n + 1) - 1)
          /\ closed'[k] = closed[k] /\ closed[k].emitted
      BY <1>1, <1>3
    <3>2. Apart(e, o.frames) /\ Len(e) > 0
      BY <1>1, <1>6, <3>1 DEF ClosedOrder, Apart
    <3>3. Len(e) \in Nat
      <4>1. e \in Seq(Nat)
        BY <1>1, <3>1 DEF Closed
      <4> QED
        BY <4>1
    <3>4. Len(e) \in 1..Len(e) /\ 1 \in 1..Len(o.frames)
      BY <2>2, <3>2, <3>3
    <3>5. e[Len(e)] + FrameSamples <= o.frames[1]
      BY <3>2, <3>4 DEF Apart
    <3>6. EmittedSegments[k] = S(closed[k])
      BY <1>4
    <3>7. S(closed[k]).to = e[Len(e)] + FrameSamples /\ S(o).from = o.frames[1]
      OBVIOUS
    <3> HIDE DEF S, e
    <3> QED
      BY <3>5, <3>6, <3>7
  <2>4. /\ S(o).from \in 0..Heard' /\ S(o).to \in 0..Heard'
        /\ S(o).from < S(o).to /\ S(o).to - S(o).from <= MaxFrames * FrameSamples
    <3> DEFINE a == o.frames[1]
               b == o.frames[Len(o.frames)]
               m == Len(o.frames)
               x == (m - 1) * FrameSamples
               L == MaxFrames * FrameSamples
               h == Heard'
    <3>1. a \in Nat /\ b \in Nat /\ h \in Nat /\ b + FrameSamples <= h
      BY <2>2 DEF Past
    <3>2. a <= b /\ b <= a + x
      <4>1. 1 \in 1..m /\ m \in 1..m /\ 1 <= m
        BY <2>2
      <4> QED
        BY <2>2, <4>1 DEF Paced
    <3>3. x + FrameSamples <= L /\ x \in Nat /\ L \in Nat
      <4>1. x + FrameSamples <= L
        BY <2>2, <3>1, ShortStretch
      <4>2. m - 1 \in Nat /\ MaxFrames \in Nat /\ FrameSamples \in Nat
        BY <2>2, FrameAssumption, StreamAssumption
      <4> HIDE DEF m
      <4> QED
        BY <4>1, <4>2
    <3>4. S(o).from = a /\ S(o).to = b + FrameSamples
      OBVIOUS
    <3> HIDE DEF a, b, m, x, L, h
    <3>5. /\ a \in 0..h /\ b + FrameSamples \in 0..h
          /\ a < b + FrameSamples /\ (b + FrameSamples) - a <= L
      BY <3>1, <3>2, <3>3, StreamAssumption
    <3> QED
      BY <3>4, <3>5 DEF L, h
  <2>5. S(o) \in Promise!Stretch(Heard')
    <3>1. S(o) \in [from : 0..Heard', to : 0..Heard']
      BY <2>4
    <3> HIDE DEF S
    <3> QED
      BY <1>4, <2>3, <2>4, <3>1 DEF Promise!Stretch
  <2>6. EmittedSegments' = [k \in DOMAIN EmittedSegments \cup {Len(closed)'} |->
                              IF k = Len(closed)' THEN S(o) ELSE EmittedSegments[k]]
    <3>1. EmittedSegments' = [k \in D \cup {n + 1} |-> S(closed'[k])]
      BY <1>2, <2>1
    <3>2. \A k \in D \cup {n + 1} :
            S(closed'[k]) = IF k = n + 1 THEN S(o) ELSE EmittedSegments[k]
      <4>1. \A k \in D : k # n + 1 /\ closed'[k] = closed[k]
        BY <1>1, <1>3
      <4> HIDE DEF D, S
      <4> QED
        BY <1>1, <1>4, <4>1
    <3> HIDE DEF D, S
    <3> QED
      BY <1>1, <1>4, <3>1, <3>2
  <2> HIDE DEF S
  <2> QED
    BY <1>1, <2>5, <2>6 DEF Promise!Close
<1> QED
  BY <1>5, <1>6

\* Every step of the segmenter is a step of the promise, or none.
LEMMA PromiseStep ==
  ASSUME SegInv, SegInv', ClosedOrder', [Next]_vars
  PROVE  [Promise!SegNext]_Promise!segVars
<1>1. triggered \in BOOLEAN /\ triggered' \in BOOLEAN
  BY DEF SegInv, OpenInv
<1>h. Heard' \in Nat
  BY HeardStaysNat DEF SegInv
<1>2. CASE FeedChunk \/ FeedEnd \/ Flush \/ UNCHANGED vars
  <2>1. Heard' = Heard
    BY <1>2, OtherMoves
  <2>2. CASE UNCHANGED <<triggered, segment, probs, preroll, closed>>
    <3>1. UNCHANGED EmittedSegments
      BY <2>2 DEF EmittedSegments
    <3> QED
      BY <2>1, <2>2, <3>1 DEF Promise!segVars
  <2>3. CASE Empties(segment)
    <3>1. PICK o \in Closed : closed' = Append(closed, o)
      BY <2>3 DEF Empties
    <3>2. triggered /\ triggered' = FALSE
      BY <2>3 DEF Empties
    <3>3. Promise!Close(Heard')
      BY <1>h, <3>1, <3>2, CloseMaps
    <3>4. Promise!Flush
      BY <2>1, <3>2, <3>3 DEF Promise!Flush
    <3> QED
      BY <3>4 DEF Promise!SegNext
  <2> QED
    BY <1>2, <2>2, <2>3, OtherMoves
<1>3. CASE FeedFrame
  <2> DEFINE f == Position
             fs == Append(segment, f)
  <2>1. /\ Heard' = Heard + FrameSamples
        /\ Joins(f) \/ Opens(f) \/ Extends(f) \/ Cuts(fs) \/ Empties(fs)
    BY <1>3, FrameMoves DEF Heard, Position
  <2> HIDE DEF f, fs
  <2>2. CASE Joins(f) \/ Opens(f) \/ Extends(f)
    <3>1. closed' = closed /\ (triggered => triggered')
      BY <2>2 DEF Joins, Opens, Extends
    <3>2. UNCHANGED EmittedSegments /\ UNCHANGED Len(closed)
      BY <3>1 DEF EmittedSegments
    <3>3. Promise!Listen
      BY <1>1, <2>1, <3>1, <3>2 DEF Promise!Listen
    <3> QED
      BY <3>3 DEF Promise!SegNext
  <2>3. CASE Cuts(fs) \/ Empties(fs)
    <3>1. triggered /\ \E o \in Closed : closed' = Append(closed, o)
      BY <2>3 DEF Cuts, Empties
    <3>2. Promise!Close(Heard')
      BY <1>h, <3>1, CloseMaps
    <3>3. Promise!CloseOnFrame
      BY <1>1, <2>1, <3>2 DEF Promise!CloseOnFrame
    <3> QED
      BY <3>3 DEF Promise!SegNext
  <2> QED
    BY <2>1, <2>2, <2>3
<1> QED
  BY <1>2, <1>3 DEF Next

\* When a minimum of speech is asked for, the segmenter is an implementation of
\* SpeechSegments: every chunk, answer, cut and flush.
THEOREM ImplementsPromise ==
  ASSUME MinSpeech > 0
  PROVE  Spec => KeepsPromise
<1>1. Init => Promise!SegInit
  <2> SUFFICES ASSUME Init PROVE Promise!SegInit
    OBVIOUS
  <2>1. closed = <<>> /\ Heard = 0 /\ triggered = FALSE
    BY StreamAssumption DEF Init, Heard
  <2>2. Len(closed) = 0 /\ { j \in 1..Len(closed) : closed[j].emitted } = {}
    BY <2>1
  <2>3. EmittedSegments = [k \in {} |-> 0]
    BY <2>2 DEF EmittedSegments
  <2> QED
    BY <2>1, <2>2, <2>3 DEF Promise!SegInit
<1>2. (SegInv /\ Chained /\ NoHoles /\ InOrder) /\ (SegInv /\ Chained /\ NoHoles /\ InOrder)'
        /\ [Next]_vars => [Promise!SegNext]_Promise!segVars
  BY PromiseStep DEF InOrder
<1> QED
  BY <1>1, <1>2, OrderInvariant, PTL DEF Spec, KeepsPromise, Promise!SegSpec
===============================================================================
