-------------------------- MODULE SegmentTimingProofs --------------------------
(***************************************************************************)
(* Proofs about SegmentTiming, for every resolution of the clock and every  *)
(* number of segments and chunks.  What was spent on a chunk so far fits    *)
(* between the close of each of its segments and the last instant that a    *)
(* stage was measured up to: truncation only ever takes away.               *)
(***************************************************************************)
EXTENDS SegmentTiming, SequenceTheorems, TLAPS

\* Elapsed() is whole milliseconds, at most what passed, ...
LEMMA Truncates == \A x \in Nat : /\ x \div Ms \in Nat
                                  /\ Ms * (x \div Ms) <= x
                                  /\ x < Ms * (x \div Ms) + Ms
BY TimingAssumption

\* ... and no fewer than fit into it.
LEMMA Fits == \A x, q \in Nat : Ms * q <= x => q <= x \div Ms
<1> SUFFICES ASSUME NEW x \in Nat, NEW q \in Nat, Ms * q <= x, q > x \div Ms PROVE FALSE
  BY Truncates
<1>1. x \div Ms \in Nat /\ q >= x \div Ms + 1
  BY Truncates
<1>2. Ms * q >= Ms * (x \div Ms + 1)
  BY <1>1, TimingAssumption
<1>3. Ms * (x \div Ms + 1) = Ms * (x \div Ms) + Ms
  BY <1>1, TimingAssumption
<1> QED BY <1>1, <1>2, <1>3, Truncates, TimingAssumption

\* The last instant that is part of a stage, or may become one.
Edge == IF began = -1 THEN now ELSE began

Windows ==
  /\ \A i \in 1..Len(captured) : arrived <= captured[i] /\ captured[i] <= Edge
  /\ phase \in {"running", "sending"} => \A i \in 1..Len(captured) : Ms * spent <= Edge - captured[i]
  /\ began # -1 \/ stage # 0 => phase \in {"running", "ended"} /\ run < Len(captured)

\* The stages under way and those of each result are part of what was spent.
Parts ==
  /\ \A k \in 1..3 : k > stage => ms[k] = 0
  /\ Total(ms) <= spent
  /\ \A k \in 1..Len(results) : Total(results[k]) <= spent

\* Where a chunk begins and what it has sent.
Phases ==
  /\ phase \in {"waiting", "segmenting"} => began = -1 /\ stage = 0
  /\ phase = "segmenting" => spent = 0 /\ run = 0 /\ results = <<>> /\ sent = <<>>
  /\ phase = "running" => sent = <<>>
  /\ phase = "sending" => began = -1 /\ run = Len(captured)

TimingInv == TypeOK /\ Windows /\ Parts /\ Phases /\ CoversStages /\ ExcludesPauses

LEMMA NothingTimed == Untimed \in Timings /\ Total(Untimed) = 0 /\ \A k \in 1..3 : Untimed[k] = 0
BY DEF Untimed, Timings, Total

LEMMA InitInv == Init => TimingInv
<1> SUFFICES ASSUME Init PROVE TimingInv
  OBVIOUS
<1> USE TimingAssumption DEF Init
<1>1. TypeOK
  BY NothingTimed, EmptySeq DEF TypeOK
<1>2. Windows /\ Phases
  BY DEF Windows, Edge, Phases
<1>3. Parts
  BY NothingTimed DEF Parts
<1>4. CoversStages /\ ExcludesPauses
  BY DEF CoversStages, ExcludesPauses
<1> QED BY <1>1, <1>2, <1>3, <1>4 DEF TimingInv

LEMMA TickStep == TimingInv /\ Tick => TimingInv'
<1> SUFFICES ASSUME TimingInv, Tick PROVE TimingInv'
  OBVIOUS
<1> USE TimingAssumption DEF TimingInv, Tick
<1>1. TypeOK'
  BY DEF TypeOK
<1>2. Windows'
  <2>1. now \in Nat /\ began \in Int /\ captured \in Seq(Nat) /\ spent \in Nat /\ began <= now
    BY DEF TypeOK
  <2>2. Edge <= Edge' /\ Edge \in Int /\ Edge' \in Int
    BY <2>1 DEF Edge
  <2>3. Ms * spent \in Int
    BY <2>1
  <2> QED BY <2>1, <2>2, <2>3 DEF Windows
<1>3. Parts' /\ Phases' /\ CoversStages'
  BY DEF Parts, Phases, CoversStages
<1>4. ExcludesPauses'
  <2> SUFFICES ASSUME NEW i \in 1..Len(sent) PROVE sent[i].e2e * Ms <= now' - arrived
    BY DEF ExcludesPauses
  <2>1. sent \in Seq([stages : Timings, e2e : Nat]) /\ now \in Nat /\ arrived \in Nat
    BY DEF TypeOK
  <2>2. sent[i].e2e \in Nat
    <3>1. sent[i] \in [stages : Timings, e2e : Nat]
      BY <2>1, ElementOfSeq
    <3> QED BY <3>1
  <2>3. sent[i].e2e * Ms \in Int /\ sent[i].e2e * Ms <= now - arrived
    BY <2>2 DEF ExcludesPauses
  <2> QED BY <2>1, <2>3
<1> QED BY <1>1, <1>2, <1>3, <1>4

LEMMA TakeStep == TimingInv /\ Take => TimingInv'
<1> SUFFICES ASSUME TimingInv, Take PROVE TimingInv'
  OBVIOUS
<1> USE TimingAssumption DEF TimingInv, Take
<1>1. began = -1 /\ stage = 0 /\ Total(ms) = 0
  BY DEF Phases, Parts, Total
<1>2. TypeOK'
  BY <1>1, EmptySeq DEF TypeOK
<1>3. Windows' /\ Phases'
  BY <1>1 DEF Windows, Edge, Phases
<1>4. Parts'
  BY <1>1 DEF Parts
<1>5. CoversStages' /\ ExcludesPauses'
  BY DEF CoversStages, ExcludesPauses
<1> QED BY <1>2, <1>3, <1>4, <1>5

LEMMA CloseStep == TimingInv /\ Close => TimingInv'
<1> SUFFICES ASSUME TimingInv, Close PROVE TimingInv'
  OBVIOUS
<1> USE TimingAssumption DEF TimingInv, Close
<1>1. captured \in Seq(Nat) /\ now \in Nat /\ arrived \in Nat /\ arrived <= now
  BY DEF TypeOK
<1>2. /\ captured' \in Seq(Nat) /\ Len(captured') = Len(captured) + 1
      /\ captured'[Len(captured) + 1] = now
      /\ \A i \in 1..Len(captured) : captured'[i] = captured[i]
  BY <1>1
<1>3. TypeOK'
  BY <1>2 DEF TypeOK
<1>4. Windows'
  BY <1>1, <1>2 DEF Windows, Edge, Phases
<1>5. Parts' /\ Phases' /\ CoversStages' /\ ExcludesPauses'
  BY DEF Parts, Phases, CoversStages, ExcludesPauses
<1> QED BY <1>3, <1>4, <1>5

LEMMA SegmentedStep == TimingInv /\ Segmented => TimingInv'
<1> SUFFICES ASSUME TimingInv, Segmented PROVE TimingInv'
  OBVIOUS
<1> USE TimingAssumption DEF TimingInv, Segmented
<1>1. Ms * spent = 0
  BY DEF Phases
<1>2. Windows'
  BY <1>1 DEF Windows, Edge, TypeOK, Phases
<1> QED BY <1>2 DEF TypeOK, Parts, Phases, CoversStages, ExcludesPauses

LEMMA StageBeginsStep == TimingInv /\ StageBegins => TimingInv'
<1> SUFFICES ASSUME TimingInv, StageBegins PROVE TimingInv'
  OBVIOUS
<1> QED BY TimingAssumption DEF TimingInv, StageBegins, TypeOK, Windows, Edge, Parts, Phases, CoversStages, ExcludesPauses

LEMMA TotalIsNat == \A timings \in Timings : Total(timings) \in Nat
<1> SUFFICES ASSUME NEW timings \in Timings PROVE Total(timings) \in Nat
  OBVIOUS
<1>1. timings[1] \in Nat /\ timings[2] \in Nat /\ timings[3] \in Nat
  BY DEF Timings
<1> QED BY <1>1 DEF Total

\* One more stage adds its milliseconds to the total.
LEMMA AddTiming ==
  ASSUME NEW timings \in Timings, NEW k \in 0..2, timings[k + 1] = 0, NEW e \in Nat
  PROVE  /\ [timings EXCEPT ![k + 1] = e] \in Timings
         /\ Total([timings EXCEPT ![k + 1] = e]) = Total(timings) + e
         /\ \A j \in 1..3 : j # k + 1 => [timings EXCEPT ![k + 1] = e][j] = timings[j]
<1> DEFINE new == [timings EXCEPT ![k + 1] = e]
<1>1. k + 1 \in 1..3 /\ DOMAIN timings = 1..3
  BY DEF Timings
<1>2. new \in Timings
  BY <1>1 DEF Timings
<1>3. \A j \in 1..3 : new[j] = IF j = k + 1 THEN e ELSE timings[j]
  BY <1>1
<1>4. timings[1] \in Nat /\ timings[2] \in Nat /\ timings[3] \in Nat
  BY DEF Timings
<1> HIDE DEF new
<1>5. Total(new) = Total(timings) + e
  <2>1. CASE k = 0
    BY <2>1, <1>3, <1>4 DEF Total
  <2>2. CASE k = 1
    BY <2>2, <1>3, <1>4 DEF Total
  <2>3. CASE k = 2
    BY <2>3, <1>3, <1>4 DEF Total
  <2> QED BY <2>1, <2>2, <2>3
<1> QED BY <1>2, <1>3, <1>5 DEF new

LEMMA StageEndsStep == TimingInv /\ StageEnds => TimingInv'
<1> SUFFICES ASSUME TimingInv, StageEnds PROVE TimingInv'
  OBVIOUS
<1> USE TimingAssumption DEF TimingInv
<1> DEFINE e == Elapsed(began)
           told == [ms EXCEPT ![stage + 1] = e]
<1>1. /\ now \in Nat /\ began \in Nat /\ began <= now /\ spent \in Nat /\ arrived \in Nat
      /\ ms \in Timings /\ results \in Seq(Timings) /\ stage \in 0..2
      /\ captured \in Seq(Nat) /\ run \in Nat /\ Len(results) = run
  BY DEF TypeOK, StageEnds
<1>2. e \in Nat /\ Ms * e <= now - began
  BY <1>1, Truncates DEF Elapsed
<1>3. ms[stage + 1] = 0 /\ Total(ms) <= spent /\ Total(ms) \in Nat
  BY <1>1, TotalIsNat DEF Parts
<1>4. /\ told \in Timings /\ Total(told) = Total(ms) + e
      /\ \A j \in 1..3 : j # stage + 1 => told[j] = ms[j]
  BY <1>1, <1>2, <1>3, AddTiming
<1>5. /\ phase = "running" /\ began' = -1 /\ spent' = spent + e
      /\ stage < 2 => stage' = stage + 1 /\ ms' = told /\ UNCHANGED <<run, results>>
      /\ stage = 2 => /\ stage' = 0 /\ ms' = Untimed /\ run' = run + 1
                      /\ results' = Append(results, told)
      /\ UNCHANGED <<now, phase, arrived, captured, sent, chunks>>
  BY <1>1 DEF StageEnds
<1>6. sent = <<>> /\ run < Len(captured) /\ (stage < 2 \/ stage = 2)
  <2>1. began # -1
    BY DEF StageEnds
  <2> QED BY <2>1, <1>1, <1>5 DEF Phases, Windows
<1> HIDE DEF e, told
<1>7. /\ Append(results, told) \in Seq(Timings)
      /\ Len(Append(results, told)) = Len(results) + 1
      /\ Append(results, told)[Len(results) + 1] = told
      /\ \A k \in 1..Len(results) : Append(results, told)[k] = results[k]
  BY <1>1, <1>4, AppendProperties
<1>8. spent' \in Nat /\ Ms * spent' = Ms * spent + Ms * e /\ Ms * e \in Int /\ Ms * spent \in Int
  BY <1>1, <1>2, <1>5
<1>9. TypeOK'
  <2>1. CASE stage < 2
    BY <2>1, <1>1, <1>4, <1>5, <1>6, <1>8 DEF TypeOK
  <2>2. CASE stage = 2
    <3>1. results' \in Seq(Timings) /\ Len(results') = run' /\ run' \in Nat /\ run' <= Len(captured')
      <4>1. results' = Append(results, told) /\ run' = run + 1 /\ captured' = captured
        BY <2>2, <1>5
      <4>2. run + 1 <= Len(captured)
        BY <1>1, <1>6, LenProperties
      <4> QED BY <4>1, <4>2, <1>1, <1>7
    <3>2. ms' \in Timings /\ stage' \in 0..2 /\ began' \in -1..now'
      BY <2>2, <1>1, <1>5, NothingTimed
    <3>3. sent' = sent /\ Len(sent) <= run /\ run <= run' /\ Len(sent) \in Nat
      BY <2>2, <1>1, <1>5, <1>6 DEF TypeOK
    <3> QED BY <3>1, <3>2, <3>3, <1>1, <1>5, <1>8 DEF TypeOK
  <2> QED BY <2>1, <2>2, <1>6
<1>10. Windows'
  <2>1. Edge = began /\ Edge' = now
    BY <1>1, <1>5 DEF Edge
  <2>2. \A i \in 1..Len(captured) : captured[i] \in Nat
    BY <1>1, ElementOfSeq
  <2>3. \A i \in 1..Len(captured) : arrived <= captured[i] /\ captured[i] <= now
    BY <2>1, <2>2, <1>1 DEF Windows
  <2>4. \A i \in 1..Len(captured) : Ms * spent' <= now - captured[i]
    <3> SUFFICES ASSUME NEW i \in 1..Len(captured) PROVE Ms * spent' <= now - captured[i]
      OBVIOUS
    <3> DEFINE a == Ms * spent
               b == Ms * e
    <3>1. a <= began - captured[i] /\ a \in Int /\ b \in Int /\ b <= now - began
      BY <2>1, <1>2, <1>5, <1>8 DEF Windows
    <3>2. Ms * spent' = a + b
      BY <1>8
    <3> HIDE DEF a, b
    <3>3. a + b <= now - captured[i]
      BY <3>1, <2>2, <1>1
    <3> QED BY <3>2, <3>3
  <2>5. stage' # 0 => phase' \in {"running", "ended"} /\ run' < Len(captured')
    BY <1>1, <1>5, <1>6
  <2> QED BY <2>1, <2>3, <2>4, <2>5, <1>5 DEF Windows
<1>11. Parts'
  <2>1. \A k \in 1..Len(results) : Total(results[k]) <= spent'
    <3> SUFFICES ASSUME NEW k \in 1..Len(results) PROVE Total(results[k]) <= spent'
      OBVIOUS
    <3>1. Total(results[k]) <= spent /\ Total(results[k]) \in Nat
      BY <1>1, ElementOfSeq, TotalIsNat DEF Parts
    <3> QED BY <3>1, <1>1, <1>2, <1>5
  <2>2. Total(told) <= spent'
    BY <1>1, <1>2, <1>3, <1>4, <1>5
  <2>3. CASE stage < 2
    <3>1. \A k \in 1..3 : k > stage' => ms'[k] = 0
      BY <2>3, <1>1, <1>4, <1>5 DEF Parts
    <3> QED BY <3>1, <2>1, <2>2, <2>3, <1>5 DEF Parts
  <2>4. CASE stage = 2
    <3>1. \A k \in 1..Len(results') : Total(results'[k]) <= spent'
      BY <2>1, <2>2, <2>4, <1>1, <1>5, <1>7
    <3>2. Total(Untimed) = 0 /\ \A k \in 1..3 : Untimed[k] = 0
      BY DEF Total, Untimed
    <3> QED BY <3>1, <3>2, <2>4, <1>1, <1>2, <1>5 DEF Parts
  <2> QED BY <2>3, <2>4, <1>6
<1>12. Phases' /\ CoversStages' /\ ExcludesPauses'
  BY <1>5, <1>6 DEF Phases, CoversStages, ExcludesPauses
<1> QED BY <1>9, <1>10, <1>11, <1>12

LEMMA EmitStep == TimingInv /\ Emit => TimingInv'
<1> SUFFICES ASSUME TimingInv, Emit PROVE TimingInv'
  OBVIOUS
<1> USE TimingAssumption DEF TimingInv, Emit
<1> DEFINE k == Len(sent) + 1
           e == Elapsed(captured[k])
<1>1. /\ now \in Nat /\ arrived \in Nat /\ spent \in Nat /\ captured \in Seq(Nat)
      /\ results \in Seq(Timings) /\ sent \in Seq([stages : Timings, e2e : Nat])
      /\ Len(results) = run /\ run <= Len(captured)
  BY DEF TypeOK
<1>2. k \in 1..Len(results) /\ k \in 1..Len(captured)
  BY <1>1
<1>3. /\ captured[k] \in Nat /\ arrived <= captured[k] /\ captured[k] <= now
      /\ Ms * spent <= now - captured[k]
  BY <1>1, <1>2 DEF Windows, Phases, Edge
<1>4. e \in Nat /\ Ms * e <= now - captured[k] /\ spent <= e
  <2>1. now - captured[k] \in Nat
    BY <1>1, <1>3
  <2> QED BY <2>1, <1>1, <1>3, Truncates, Fits DEF Elapsed
<1> HIDE DEF e, k
<1>5. results[k] \in Timings /\ Total(results[k]) <= spent
  BY <1>1, <1>2, ElementOfSeq DEF Parts
<1>6. sent' = Append(sent, [stages |-> results[k], e2e |-> e])
  BY DEF e, k
<1>7. /\ Len(sent') = Len(sent) + 1 /\ sent' \in Seq([stages : Timings, e2e : Nat])
      /\ sent'[Len(sent) + 1] = [stages |-> results[k], e2e |-> e]
      /\ \A i \in 1..Len(sent) : sent'[i] = sent[i]
  <2>1. [stages |-> results[k], e2e |-> e] \in [stages : Timings, e2e : Nat]
    BY <1>4, <1>5
  <2> QED BY <2>1, <1>1, <1>6, AppendProperties
<1>8. TypeOK'
  BY <1>1, <1>2, <1>7 DEF TypeOK, k
<1>9. CoversStages'
  <2> SUFFICES ASSUME NEW i \in 1..(Len(sent) + 1)
               PROVE  sent'[i].e2e >= spent /\ spent >= Total(sent'[i].stages)
    BY <1>7 DEF CoversStages
  <2>1. CASE i = Len(sent) + 1
    BY <2>1, <1>1, <1>4, <1>5, <1>7
  <2>2. CASE i # Len(sent) + 1
    <3>1. i \in 1..Len(sent) /\ sent'[i] = sent[i]
      BY <2>2, <1>1, <1>7
    <3> QED BY <3>1 DEF CoversStages
  <2> QED BY <2>1, <2>2
<1>10. ExcludesPauses'
  <2>1. e * Ms <= now - arrived
    BY <1>1, <1>3, <1>4
  <2> QED BY <2>1, <1>1, <1>7 DEF ExcludesPauses
<1>11. Windows' /\ Parts' /\ Phases'
  <2>1. began = -1 /\ stage = 0
    BY DEF Windows, Phases, TypeOK
  <2> QED BY <2>1 DEF Windows, Edge, Parts, Phases
<1> QED BY <1>8, <1>9, <1>10, <1>11

LEMMA StepInv == TimingInv /\ [Next]_vars => TimingInv'
<1> SUFFICES ASSUME TimingInv, [Next]_vars PROVE TimingInv'
  OBVIOUS
<1>1. CASE Fails
  BY <1>1 DEF Fails, TimingInv, TypeOK, Windows, Edge, Parts, Phases, CoversStages, ExcludesPauses
<1>2. CASE UNCHANGED vars
  BY <1>2 DEF vars, TimingInv, TypeOK, Windows, Edge, Parts, Phases, CoversStages, ExcludesPauses
<1>3. CASE Returns
  <2>1. began = -1 /\ stage = 0
    BY <1>3 DEF Returns, TimingInv, TypeOK, Windows
  <2> QED BY <2>1, <1>3 DEF Returns, TimingInv, TypeOK, Windows, Edge, Parts, Phases, CoversStages, ExcludesPauses
<1> QED BY <1>1, <1>2, <1>3, TickStep, TakeStep, CloseStep, SegmentedStep, StageBeginsStep, StageEndsStep, EmitStep DEF Next

LEMMA Inductive == Spec => []TimingInv
BY InitInv, StepInv, PTL DEF Spec

\* e2e_ms is at least the sum of the stages of every segment of the chunk, whatever the
\* resolution of the clock.
THEOREM WindowCoversStages == Spec => []CoversStages
<1>1. TimingInv => CoversStages
  BY DEF TimingInv
<1> QED BY <1>1, Inductive, PTL

\* e2e_ms never reaches back to before its chunk.
THEOREM WindowExcludesPauses == Spec => []ExcludesPauses
<1>1. TimingInv => ExcludesPauses
  BY DEF TimingInv
<1> QED BY <1>1, Inductive, PTL

\* Type correctness.
THEOREM TimingTypeCorrect == Spec => []TypeOK
<1>1. TimingInv => TypeOK
  BY DEF TimingInv
<1> QED BY <1>1, Inductive, PTL
===============================================================================
