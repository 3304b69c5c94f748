------------------------------- MODULE Segmenter -------------------------------
(***************************************************************************)
(* The voice segmenter of src/app/pipeline/vad.py: one VADState fed chunk   *)
(* by chunk.  A chunk is a number of samples; the loop of feed() takes it   *)
(* one frame at a time and each frame is a step, _feed_frame() with the     *)
(* _close() it may call.  A frame is named by its first sample's position   *)
(* in the stream, so two frames are neighbours exactly when they are        *)
(* FrameSamples apart.  What the Silero network answers for a frame is any  *)
(* level of Probs; only its order, Threshold and Floor matter.             *)
(***************************************************************************)
EXTENDS Integers, Sequences, FiniteSets

CONSTANTS Probs,         \* levels the network can answer
          Threshold,     \* level that starts a segment
          Floor,         \* level that keeps it open (threshold - HYSTERESIS)
          MinSilence,    \* min_silence_frames
          MinSpeech,     \* min_speech_frames
          Pad,           \* pad_frames
          MaxFrames,     \* max_frames
          Lookback,      \* lookback_frames
          FrameSamples,  \* FRAME_SAMPLES
          ChunkSizes,    \* samples a binary frame may carry
          MaxSamples     \* bound: length of the stream explored

\* 0 is the level written for the pre-roll; the floor is above it.
ASSUME LevelAssumption ==
  /\ Probs \subseteq Nat
  /\ Threshold \in Nat /\ Floor \in Nat
  /\ 0 < Floor /\ Floor <= Threshold

\* What build_segmenter() makes of the settings (250, 384, 300, 8000 and 400 ms
\* give 8, 12, 9, 250 and 12 frames; a few ms give 0).  Only what bounds a segment
\* is assumed, and the code does not check it.  A pre-roll and a look-back may
\* overlap: the cut then falls inside the pre-roll, whose level 0 is the quietest.
ASSUME FrameAssumption ==
  /\ MinSilence \in Nat /\ MinSpeech \in Nat
  /\ Pad \in Nat /\ MaxFrames \in Nat /\ Lookback \in Nat
  /\ Pad + 1 < MaxFrames /\ Lookback < MaxFrames

ASSUME StreamAssumption ==
  FrameSamples \in Nat \ {0} /\ ChunkSizes \subseteq Nat /\ MaxSamples \in Nat

VARIABLES
  residue,         \* VADState.residue: samples left over from the last chunk
  triggered, silence_frames, active_frames,
  segment,         \* VADState.segment: the frames of the open utterance
  probs,           \* VADState.probs: one level per frame of segment
  preroll,         \* VADState.preroll
  pc,              \* "idle" between calls, "feeding" inside feed()
  samples, offset, \* feed()'s locals: the chunk with the residue before it
  received,        \* history: samples that ever arrived
  loud,            \* history: frames heard at or over the threshold
  closed           \* history: what _close() was called on and decided

vadVars  == <<triggered, silence_frames, active_frames, segment, probs, preroll>>
feedVars == <<residue, pc, samples, offset, received>>
vars     == <<vadVars, feedVars, loud, closed>>

Reasons == {"silence", "ceiling", "flush"}

-------------------------------------------------------------------------------
(* Helpers *)

\* sum(1 for p in ps if p >= self._floor)
ActiveIn(ps) == Cardinality({ i \in 1..Len(ps) : ps[i] >= Floor })

\* The first of the quietest of the last Lookback frames: where the ceiling cuts.
IsCut(ps, cut) ==
  /\ cut > Len(ps) - Lookback
  /\ \A i \in 1..Len(ps) : i > Len(ps) - Lookback =>
        /\ ps[cut] <= ps[i]
        /\ i < cut => ps[cut] < ps[i]

\* state.preroll.append(frame), then drop the oldest if it is over the pad.
WithFrame(frame) == LET longer == Append(preroll, frame)
                    IN  IF Len(longer) > Pad THEN Tail(longer) ELSE longer

\* What _close() hands back: the segment, or None for a burst too short.
Outcome(fs, ps, active, reason) ==
  [frames |-> fs, probs |-> ps, reason |-> reason, emitted |-> active >= MinSpeech]

Init ==
  /\ residue = 0 /\ samples = 0 /\ offset = 0 /\ received = 0
  /\ pc = "idle"
  /\ triggered = FALSE
  /\ silence_frames = 0 /\ active_frames = 0
  /\ segment = <<>> /\ probs = <<>> /\ preroll = <<>>
  /\ loud = {} /\ closed = <<>>

-------------------------------------------------------------------------------
(* _close *)

\* The reset every close performs.
Reset ==
  /\ triggered' = FALSE
  /\ silence_frames' = 0 /\ active_frames' = 0
  /\ segment' = <<>> /\ probs' = <<>> /\ preroll' = <<>>

CloseWhole(fs, ps, active, reason) ==
  /\ Reset
  /\ closed' = Append(closed, Outcome(fs, ps, active, reason))

\* Mistakes at the cut, kept to show what the properties catch.  The remainder's
\* speech is not counted again ...
CarryNotRecounted(fs, ps) ==
  \E cut \in 1..Len(ps) :
    /\ IsCut(ps, cut)
    /\ closed' = Append(closed, Outcome(SubSeq(fs, 1, cut - 1), SubSeq(ps, 1, cut - 1),
                                        ActiveIn(SubSeq(ps, 1, cut - 1)), "ceiling"))
    /\ segment' = SubSeq(fs, cut, Len(fs)) /\ probs' = SubSeq(ps, cut, Len(ps))
    /\ triggered' = TRUE /\ active_frames' = 0 /\ silence_frames' = 0 /\ preroll' = <<>>

\* ... or the frame of the cut goes to both sides ...
CutFrameTwice(fs, ps) ==
  \E cut \in 1..Len(ps) :
    /\ IsCut(ps, cut)
    /\ closed' = Append(closed, Outcome(SubSeq(fs, 1, cut), SubSeq(ps, 1, cut),
                                        ActiveIn(SubSeq(ps, 1, cut)), "ceiling"))
    /\ segment' = SubSeq(fs, cut, Len(fs)) /\ probs' = SubSeq(ps, cut, Len(ps))
    /\ triggered' = TRUE /\ active_frames' = ActiveIn(SubSeq(ps, cut, Len(ps)))
    /\ silence_frames' = 0 /\ preroll' = <<>>

\* ... or the remainder is dropped with the reset.
RemainderDropped(fs, ps) ==
  \E cut \in 1..Len(ps) :
    /\ IsCut(ps, cut)
    /\ Reset
    /\ closed' = Append(closed, Outcome(SubSeq(fs, 1, cut - 1), SubSeq(ps, 1, cut - 1),
                                        ActiveIn(SubSeq(ps, 1, cut - 1)), "ceiling"))

\* The ceiling's close: the head comes out, the frames from the cut on stay
\* open as the beginning of the next segment.
CloseAtCut(fs, ps) ==
  \E cut \in 1..Len(ps) :
    /\ IsCut(ps, cut)
    /\ LET headProbs  == SubSeq(ps, 1, cut - 1)
           carryProbs == SubSeq(ps, cut, Len(ps))
       IN  /\ closed' = Append(closed, Outcome(SubSeq(fs, 1, cut - 1), headProbs,
                                               ActiveIn(headProbs), "ceiling"))
           /\ triggered' = TRUE
           /\ segment' = SubSeq(fs, cut, Len(fs))
           /\ probs' = carryProbs
           /\ active_frames' = ActiveIn(carryProbs)
           /\ silence_frames' = 0
           /\ preroll' = <<>>

CloseOnCeiling(fs, ps, active) ==
  IF Lookback > 0 THEN CloseAtCut(fs, ps) ELSE CloseWhole(fs, ps, active, "ceiling")

-------------------------------------------------------------------------------
(* _feed_frame: one disjunct per way out *)

\* Not triggered, and this frame does not trigger: it only joins the pre-roll.
Listen(frame, prob) ==
  /\ ~triggered /\ prob < Threshold
  /\ preroll' = WithFrame(frame)
  /\ UNCHANGED <<triggered, silence_frames, active_frames, segment, probs, closed>>

\* Onset.  The frame has joined the pre-roll before it is appended once more.
Trigger(frame, prob) ==
  /\ ~triggered /\ prob >= Threshold
  /\ triggered' = TRUE
  /\ segment' = Append(WithFrame(frame), frame)
  /\ probs' = Append([i \in 1..Len(WithFrame(frame)) |-> 0], prob)
  /\ preroll' = <<>>
  /\ active_frames' = 1 /\ silence_frames' = 0
  /\ UNCHANGED closed

\* Mistakes: the pause is not forgotten when speech resumes ...
PauseNotForgotten(frame, prob) ==
  /\ triggered /\ prob >= Floor
  /\ LET fs == Append(segment, frame)
         ps == Append(probs, prob)
     IN  IF Len(fs) >= MaxFrames
         THEN CloseOnCeiling(fs, ps, active_frames + 1)
         ELSE /\ segment' = fs /\ probs' = ps
              /\ active_frames' = active_frames + 1
              /\ UNCHANGED <<triggered, silence_frames, preroll, closed>>

\* ... or the ceiling is one frame late.
LateCeiling(frame, prob) ==
  /\ triggered /\ prob >= Floor
  /\ LET fs == Append(segment, frame)
         ps == Append(probs, prob)
     IN  IF Len(fs) > MaxFrames
         THEN CloseOnCeiling(fs, ps, active_frames + 1)
         ELSE /\ segment' = fs /\ probs' = ps
              /\ active_frames' = active_frames + 1
              /\ silence_frames' = 0
              /\ UNCHANGED <<triggered, preroll, closed>>

\* Triggered, over the floor: speech goes on, up to the ceiling.
Speak(frame, prob) ==
  /\ triggered /\ prob >= Floor
  /\ LET fs == Append(segment, frame)
         ps == Append(probs, prob)
     IN  IF Len(fs) >= MaxFrames
         THEN CloseOnCeiling(fs, ps, active_frames + 1)
         ELSE /\ segment' = fs /\ probs' = ps
              /\ active_frames' = active_frames + 1
              /\ silence_frames' = 0
              /\ UNCHANGED <<triggered, preroll, closed>>

\* Triggered, under the floor: the pause grows, and may close the segment.
Pause(frame, prob) ==
  /\ triggered /\ prob < Floor
  /\ LET fs == Append(segment, frame)
         ps == Append(probs, prob)
     IN  IF silence_frames + 1 >= MinSilence
         THEN CloseWhole(fs, ps, active_frames, "silence")
         ELSE IF Len(fs) >= MaxFrames
         THEN CloseOnCeiling(fs, ps, active_frames)
         ELSE /\ segment' = fs /\ probs' = ps
              /\ silence_frames' = silence_frames + 1
              /\ UNCHANGED <<triggered, active_frames, preroll, closed>>

-------------------------------------------------------------------------------
(* feed and flush *)

\* A mistake: what the last chunk left over is not put before this one.
ResidueForgotten ==
  /\ pc = "idle"
  /\ \E n \in ChunkSizes :
        /\ received + n <= MaxSamples
        /\ received' = received + n
        /\ samples' = n
  /\ offset' = 0
  /\ pc' = "feeding"
  /\ UNCHANGED <<residue, vadVars, loud, closed>>

\* A chunk arrives; what the last one left over goes before it.
FeedChunk ==
  /\ pc = "idle"
  /\ \E n \in ChunkSizes :
        /\ received + n <= MaxSamples
        /\ received' = received + n
        /\ samples' = residue + n
  /\ offset' = 0
  /\ pc' = "feeding"
  /\ UNCHANGED <<residue, vadVars, loud, closed>>

\* One turn of the loop: the next whole frame goes through _feed_frame.
FeedFrame ==
  /\ pc = "feeding"
  /\ offset + FrameSamples <= samples
  /\ \E prob \in Probs :
        LET frame == received - samples + offset IN
        /\ \/ Listen(frame, prob) \/ Trigger(frame, prob)
           \/ Speak(frame, prob)  \/ Pause(frame, prob)
        /\ loud' = IF prob >= Threshold THEN loud \cup {frame} ELSE loud
  /\ offset' = offset + FrameSamples
  /\ UNCHANGED <<residue, pc, samples, received>>

\* A mistake: the loop stops on the last whole frame.
LoopEndsEarly ==
  /\ pc = "feeding"
  /\ offset + FrameSamples >= samples
  /\ residue' = samples - offset
  /\ pc' = "idle"
  /\ samples' = 0 /\ offset' = 0
  /\ UNCHANGED <<received, vadVars, loud, closed>>

\* The loop is over: the samples that fill no frame are kept for the next chunk.
FeedEnd ==
  /\ pc = "feeding"
  /\ offset + FrameSamples > samples
  /\ residue' = samples - offset
  /\ pc' = "idle"
  /\ samples' = 0 /\ offset' = 0
  /\ UNCHANGED <<received, vadVars, loud, closed>>

\* A mistake: the flush hands the segment out and leaves it open.
FlushWithoutReset ==
  /\ pc = "idle"
  /\ triggered
  /\ closed' = Append(closed, Outcome(segment, probs, active_frames, "flush"))
  /\ UNCHANGED <<vadVars, feedVars, loud>>

\* End of session: whatever is open is closed.
Flush ==
  /\ pc = "idle"
  /\ triggered
  /\ CloseWhole(segment, probs, active_frames, "flush")
  /\ UNCHANGED <<feedVars, loud>>

Next == FeedChunk \/ FeedFrame \/ FeedEnd \/ Flush

Spec == Init /\ [][Next]_vars
-------------------------------------------------------------------------------
(* Properties *)

Closed == [frames : Seq(Nat), probs : Seq(Nat), reason : Reasons, emitted : BOOLEAN]

\* Every variable of the VADState, of feed()'s frame and of the history has its type.
TypeOK ==
  /\ residue \in Nat /\ samples \in Nat /\ offset \in Nat /\ received \in Nat
  /\ pc \in {"idle", "feeding"}
  /\ triggered \in BOOLEAN
  /\ silence_frames \in Nat /\ active_frames \in Nat
  /\ segment \in Seq(Nat) /\ probs \in Seq(Nat) /\ preroll \in Seq(Nat)
  /\ loud \subseteq Nat
  /\ closed \in Seq(Closed)

\* The running count that decides "speech or noise" is, at every frame and also
\* after a ceiling has cut the segment in two, the number of frames of the open
\* segment that cleared the floor: pre-roll and pauses never count.
ActiveCountExact == active_frames = ActiveIn(probs)

\* Whatever reaches ASR holds at least MinSpeech frames of speech, whichever way
\* it was closed; a burst shorter than that never does, however long its pauses.
NoiseNeverEmitted ==
  \A k \in 1..Len(closed) : closed[k].emitted <=> ActiveIn(closed[k].probs) >= MinSpeech

\* The pause counter is an honest lower bound of the pause: the last
\* silence_frames frames are all under the floor, and they are fewer than close
\* a segment.
PauseIsReal ==
  /\ silence_frames = 0 \/ silence_frames < MinSilence
  /\ silence_frames <= Len(probs)
  /\ \A i \in 1..Len(probs) : i > Len(probs) - silence_frames => probs[i] < Floor

\* A segment still open is shorter than the ceiling, also right after a ceiling
\* left it a remainder, and none is ever closed longer than the ceiling.
CeilingHolds ==
  /\ Len(segment) < MaxFrames
  /\ \A k \in 1..Len(closed) : Len(closed[k].frames) <= MaxFrames

\* Frame i+1 is the neighbour of frame i.  The trigger frame stands twice: once
\* as the last of the pre-roll and once more as itself.
Contiguous(fs) ==
  \A i \in 1..Len(fs) - 1 : fs[i + 1] \in {fs[i], fs[i] + FrameSamples}

\* No segment has a hole: neither where two chunks met in the middle of a frame,
\* nor where the pre-roll was joined to the speech, nor after a ceiling's cut.
NoHoles ==
  /\ Contiguous(preroll) /\ Contiguous(segment)
  /\ \A k \in 1..Len(closed) : Contiguous(closed[k].frames)

\* The stream is cut into frames the same way whatever the chunks: every frame
\* begins at a multiple of FrameSamples, and less than one frame is left over.
ChunksLeaveNoTrace ==
  /\ \A i \in 1..Len(segment) : segment[i] % FrameSamples = 0
  /\ \A i \in 1..Len(preroll) : preroll[i] % FrameSamples = 0
  /\ pc = "idle" => residue < FrameSamples

\* Every frame of the one lies before every frame of the other.
Before(early, late) == \A i \in 1..Len(early), j \in 1..Len(late) : early[i] < late[j]

\* Audio comes out at most once and in order: a segment that came out ends before
\* the next one, or what is still open, begins.  (A head that a cut inside the
\* pre-roll closes and drops may hold the trigger frame the remainder holds too.)
SegmentsInOrder ==
  /\ \A k \in 1..Len(closed) : closed[k].emitted =>
       /\ Before(closed[k].frames, segment) /\ Before(closed[k].frames, preroll)
       /\ \A j \in 1..(k - 1) : closed[j].emitted => Before(closed[j].frames, closed[k].frames)
  /\ Before(segment, preroll)

\* Every frame that reached the threshold is in the open segment or went into a
\* close: no speech falls between a trigger, a cut and a reset.
NothingLoudIsLost ==
  \A f \in loud :
    \/ \E i \in 1..Len(segment) : segment[i] = f
    \/ \E k \in 1..Len(closed) : \E i \in 1..Len(closed[k].frames) : closed[k].frames[i] = f

\* A pause is only taken for one that was: a segment closed for silence ends in
\* MinSilence frames under the floor, none of which speech interrupted.
SilenceClosesOnSilence ==
  \A k \in 1..Len(closed) : closed[k].reason = "silence" =>
    LET ps == closed[k].probs IN
    /\ Len(ps) >= MinSilence
    /\ \A i \in 1..Len(ps) : i > Len(ps) - MinSilence => ps[i] < Floor

\* The abstract machine: what came out, as stretches of the stream.
EmittedSegments ==
  [k \in { j \in 1..Len(closed) : closed[j].emitted } |->
     [from |-> closed[k].frames[1],
      to   |-> closed[k].frames[Len(closed[k].frames)] + FrameSamples]]

\* The next frame's position: what feed() has listened to so far.
Heard == IF pc = "idle" THEN received - residue ELSE received - samples + offset

Promise == INSTANCE SpeechSegments WITH
  Frame <- FrameSamples, Longest <- MaxFrames * FrameSamples,
  heard <- Heard, open <- triggered, closes <- Len(closed), emitted <- EmittedSegments

\* The segmenter keeps the promise: disjoint stretches in stream order, none
\* longer than the ceiling, only from an open utterance, none after a flush.
KeepsPromise == Promise!SegSpec

-------------------------------------------------------------------------------
(* What the documents say and the code does not do *)

\* vad.py:197: "The pre-roll is audio from before the trigger".  So no frame is
\* in a segment twice.
PrerollIsBeforeTrigger ==
  \A k \in 1..Len(closed) :
    LET fs == closed[k].frames IN \A i, j \in 1..Len(fs) : fs[i] = fs[j] => i = j

\* vad.py:242: "The remainder is real speech: dropping it would lose what was
\* said."  So a remainder, the frames between the cut and the ceiling, is not
\* dropped with loud frames in it.
RemainderIsKept ==
  \A k \in 2..Len(closed) :
    LET remainder == MaxFrames - Len(closed[k - 1].frames) IN
    /\ Lookback > 0 /\ closed[k - 1].reason = "ceiling"
    /\ \E i \in 1..Len(closed[k].probs) : i <= remainder /\ closed[k].probs[i] >= Threshold
    => closed[k].emitted
===============================================================================
