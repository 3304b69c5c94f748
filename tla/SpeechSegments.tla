---------------------------- MODULE SpeechSegments ----------------------------
(***************************************************************************)
(* What voice segmentation promises to the pipeline behind it, with no     *)
(* model, threshold, counter or chunk in sight: the stream is listened to  *)
(* frame by frame; now and then the open utterance is closed, and a stretch *)
(* of the stream comes out as a segment or is dropped as noise.            *)
(* Segments come out in stream order, never overlap, never reach past what *)
(* was heard and never grow past the ceiling.  An utterance ends only by   *)
(* being closed, and after a flush none is open.                           *)
(***************************************************************************)
EXTENDS Integers

CONSTANTS Frame,     \* samples per frame
          Longest    \* the ceiling, in samples

VARIABLES heard,     \* samples of the stream listened to
          open,      \* is an utterance being collected?
          closes,    \* how many were closed
          emitted    \* what came out of them: [from, to), by the number of the close

segVars == <<heard, open, closes, emitted>>

\* One stretch that may come out, given that the stream was heard up to h.
Stretch(h) == { s \in [from : 0..h, to : 0..h] :
                   /\ \A k \in DOMAIN emitted : emitted[k].to <= s.from
                   /\ s.from < s.to
                   /\ s.to - s.from <= Longest }

SegInit == heard = 0 /\ open = FALSE /\ closes = 0 /\ emitted = [k \in {} |-> 0]

\* A frame is heard and closes nothing.
Listen == /\ heard' = heard + Frame
          /\ open' \in BOOLEAN /\ (open => open')
          /\ UNCHANGED <<closes, emitted>>

\* The open utterance is closed: something of it comes out, or it was noise.
Close(h) == /\ open
            /\ closes' = closes + 1
            /\ \/ UNCHANGED emitted
               \/ \E s \in Stretch(h) :
                    emitted' = [k \in DOMAIN emitted \cup {closes'} |->
                                  IF k = closes' THEN s ELSE emitted[k]]

\* A frame is heard and closes the utterance; the rest of it may stay open.
CloseOnFrame == /\ heard' = heard + Frame
                /\ open' \in BOOLEAN
                /\ Close(heard')

\* End of session: nothing stays open.
Flush == /\ open' = FALSE
         /\ UNCHANGED heard
         /\ Close(heard)

SegNext == Listen \/ CloseOnFrame \/ Flush

SegSpec == SegInit /\ [][SegNext]_segVars
===============================================================================
