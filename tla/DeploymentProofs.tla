---------------------------- MODULE DeploymentProofs ----------------------------
(***************************************************************************)
(* Proofs about Deployment: however many processes serve the database,      *)
(* whatever their operator configures and whenever they start and stop.     *)
(***************************************************************************)
EXTENDS Deployment, TLAPS

\* What is built was built from the settings, which stay as they were read.
Built ==
  \A w \in Workers :
    /\ engine[w].mt \in {"none", "stub", "opus-mt"} /\ engine[w].mt \in {"none", settings[w].mt}
    /\ engine[w].asr \in {"none", "stub", "parakeet"} /\ engine[w].asr \in {"none", settings[w].asr}
    /\ engine[w].mt = "opus-mt" => models[w] = settings[w].pairs

\* How far init_engines() is: what is before its position stands, and what is not
\* under way has nothing.
Standing ==
  \A w \in Workers :
    /\ phase[w] \in {"down", "bare"} => engine[w] = None
    /\ phase[w] \in {"mt", "tts", "segmenter", "serving"} => engine[w].asr # "none"
    /\ phase[w] \in {"tts", "segmenter", "serving"} => engine[w].mt # "none"
    /\ phase[w] \in {"segmenter", "serving"} => engine[w].tts # "none"
    /\ phase[w] = "serving" => engine[w].segmenter # "none"

\* A session of a worker's current start has a pair of its settings.
Accepted ==
  \A row \in rows :
    /\ row.start <= starts[row.worker]
    /\ row.start = starts[row.worker] => row.pair \in settings[row.worker].pairs

DeploymentInv == TypeOK /\ Built /\ Standing /\ Accepted /\ OnlyDroppedPairsLack

LEMMA InitInv == Init => DeploymentInv
<1> SUFFICES ASSUME Init PROVE DeploymentInv
  OBVIOUS
<1> USE DeploymentAssumption DEF Init
<1>1. TypeOK
  BY DEF TypeOK, None, Parts
<1>2. Built /\ Standing /\ Accepted /\ OnlyDroppedPairsLack
  BY DEF Built, Standing, Accepted, OnlyDroppedPairsLack, None, Parts, Stages
<1> QED BY <1>1, <1>2 DEF DeploymentInv

\* A part is built from the settings and the position moves past it; the other
\* processes, and the other parts, stay as they are.
LEMMA BuildStep ==
  ASSUME DeploymentInv, NEW w \in Workers, Build(w)
  PROVE  DeploymentInv'
<1> USE DeploymentAssumption DEF DeploymentInv
<1>1. PICK part \in Parts :
        /\ phase[w] = part /\ Backend(w, part) # "invalid"
        /\ part = "mt" => Wanted(w) \subseteq Registered
        /\ phase' = [phase EXCEPT ![w] = Following[part]]
        /\ engine' = [engine EXCEPT ![w][part] = Backend(w, part)]
        /\ models' = [models EXCEPT ![w] = IF part = "mt" THEN Wanted(w) ELSE @]
        /\ UNCHANGED <<env, settings, starts, rows, lacking>>
  BY DEF Build
<1>2. Parts = {"asr", "mt", "tts", "segmenter"}
  BY DEF Parts, Stages
<1>3. settings[w] \in [asr : Names, mt : Names, tts : Names, pairs : SUBSET Pairs]
  BY DEF TypeOK
<1>4. /\ Backend(w, part) \in (Names \cup {"silero"}) \ {"none", "invalid"}
      /\ part \in {"asr", "mt"} => /\ Backend(w, part) = settings[w][part]
                                   /\ Backend(w, part) \in Valid[part]
  <2>1. \A n \in Stages : settings[w][n] \in Names
    BY <1>3 DEF Stages
  <2> QED BY <1>1, <1>2, <2>1 DEF Backend, Stages, Names
<1>5. /\ engine' \in [Workers -> [Parts -> Names \cup {"none", "silero"}]]
      /\ \A v \in Workers \ {w} : /\ engine'[v] = engine[v] /\ models'[v] = models[v]
                                 /\ phase'[v] = phase[v]
      /\ engine'[w][part] = Backend(w, part)
      /\ \A other \in Parts : other # part => engine'[w][other] = engine[w][other]
      /\ models'[w] = IF part = "mt" THEN Wanted(w) ELSE models[w]
      /\ models' \in [Workers -> SUBSET Registered]
      /\ phase'[w] = Following[part] /\ phase' \in [Workers -> Parts \cup {"down", "bare", "serving"}]
  BY <1>1, <1>2, <1>3, <1>4 DEF TypeOK, Wanted, Following
<1>6. TypeOK'
  BY <1>1, <1>5 DEF TypeOK
<1>7. Built'
  <2> SUFFICES ASSUME NEW v \in Workers
               PROVE  /\ engine'[v].mt \in {"none", "stub", "opus-mt"}
                      /\ engine'[v].mt \in {"none", settings[v].mt}
                      /\ engine'[v].asr \in {"none", "stub", "parakeet"}
                      /\ engine'[v].asr \in {"none", settings[v].asr}
                      /\ engine'[v].mt = "opus-mt" => models'[v] = settings[v].pairs
    BY <1>1 DEF Built
  <2>1. CASE v # w
    BY <1>5, <2>1 DEF Built
  <2>2. CASE v = w
    BY <1>1, <1>2, <1>4, <1>5, <2>2 DEF Built, Valid, Wanted
  <2> QED BY <2>1, <2>2
<1>8. Standing'
  <2> SUFFICES ASSUME NEW v \in Workers
               PROVE  /\ phase'[v] \in {"down", "bare"} => engine'[v] = None
                      /\ phase'[v] \in {"mt", "tts", "segmenter", "serving"} => engine'[v].asr # "none"
                      /\ phase'[v] \in {"tts", "segmenter", "serving"} => engine'[v].mt # "none"
                      /\ phase'[v] \in {"segmenter", "serving"} => engine'[v].tts # "none"
                      /\ phase'[v] = "serving" => engine'[v].segmenter # "none"
    BY DEF Standing, None
  <2>1. CASE v # w
    BY <1>5, <2>1 DEF Standing
  <2>2. CASE v = w
    BY <1>1, <1>2, <1>4, <1>5, <2>2 DEF Standing, Following
  <2> QED BY <2>1, <2>2
<1>9. Accepted' /\ OnlyDroppedPairsLack'
  BY <1>1 DEF Accepted, OnlyDroppedPairsLack
<1> QED BY <1>6, <1>7, <1>8, <1>9 DEF DeploymentInv

LEMMA TranslateStep ==
  ASSUME DeploymentInv, NEW w \in Workers, Translate(w)
  PROVE  OnlyDroppedPairsLack'
<1> USE DEF DeploymentInv
<1>1. PICK row \in rows :
        /\ \A part \in Parts : engine[w][part] # "none"
        /\ lacking' = IF engine[w].mt = "stub" \/ row.pair \in models[w] THEN lacking
                      ELSE lacking \cup {[row |-> row, worker |-> w, start |-> starts[w],
                                          pairs |-> settings[w].pairs]}
        /\ UNCHANGED <<env, settings, phase, engine, models, starts, rows>>
  BY DEF Translate
<1>2. CASE engine[w].mt = "stub" \/ row.pair \in models[w]
  BY <1>1, <1>2 DEF OnlyDroppedPairsLack
<1>3. CASE ~(engine[w].mt = "stub" \/ row.pair \in models[w])
  <2>1. engine[w].mt = "opus-mt"
    <3>1. engine[w].mt # "none"
      BY <1>1 DEF Parts, Stages
    <3> QED BY <3>1, <1>3 DEF Built
  <2>2. row.pair \notin settings[w].pairs
    BY <2>1, <1>3 DEF Built
  <2>3. row.worker # w \/ row.start # starts[w]
    BY <2>2 DEF Accepted
  <2> QED BY <1>1, <1>3, <2>2, <2>3 DEF OnlyDroppedPairsLack
<1> QED BY <1>2, <1>3

LEMMA StepInv == DeploymentInv /\ [Next]_vars => DeploymentInv'
<1> SUFFICES ASSUME DeploymentInv, [Next]_vars PROVE DeploymentInv'
  OBVIOUS
<1> USE DeploymentAssumption DEF DeploymentInv
<1>1. CASE Reconfigure
  BY <1>1 DEF Reconfigure, TypeOK, Built, Standing, Accepted, OnlyDroppedPairsLack
<1>2. ASSUME NEW w \in Workers, Start(w) PROVE DeploymentInv'
  <2> USE <1>2 DEF Start
  <2>1. engine[w] = None /\ starts[w] < MaxStarts /\ starts[w] \in Nat
    BY DEF Standing, TypeOK
  <2>2. TypeOK'
    BY <2>1 DEF TypeOK, Parts, Stages
  <2>3. engine[w].mt = "none" /\ engine[w].asr = "none"
    BY <2>1 DEF None, Parts, Stages
  <2>4. Built' /\ Standing'
    BY <2>1, <2>3 DEF Built, Standing, TypeOK
  <2>5. Accepted'
    <3> SUFFICES ASSUME NEW row \in rows
                 PROVE  /\ row.start <= starts'[row.worker]
                        /\ row.start = starts'[row.worker] => row.pair \in settings'[row.worker].pairs
      BY DEF Accepted
    <3>1. row.start <= starts[row.worker] /\ row.start \in Nat /\ row.worker \in Workers
      BY DEF Accepted, TypeOK
    <3>2. CASE row.worker = w
      BY <3>1, <3>2, <2>1 DEF TypeOK
    <3>3. CASE row.worker # w
      BY <3>1, <3>3 DEF TypeOK, Accepted
    <3> QED BY <3>2, <3>3
  <2>6. OnlyDroppedPairsLack'
    BY DEF OnlyDroppedPairsLack
  <2> QED BY <2>2, <2>4, <2>5, <2>6
<1>3. ASSUME NEW w \in Workers, Build(w) PROVE DeploymentInv'
  BY <1>3, BuildStep
<1>4. ASSUME NEW w \in Workers, Refuse(w) \/ Stop(w) PROVE DeploymentInv'
  <2>1. /\ phase' = [phase EXCEPT ![w] = "down"] /\ engine' = [engine EXCEPT ![w] = None]
        /\ models' = [models EXCEPT ![w] = {}]
        /\ UNCHANGED <<env, settings, starts, rows, lacking>>
    BY <1>4 DEF Refuse, Stop
  <2>2. None \in [Parts -> Names \cup {"none", "silero"}] /\ None.mt = "none" /\ None.asr = "none"
    BY DEF None, Parts, Stages
  <2>3. TypeOK'
    BY <2>1, <2>2 DEF TypeOK
  <2>4. Built' /\ Standing'
    BY <2>1, <2>2 DEF Built, Standing, TypeOK
  <2>5. Accepted' /\ OnlyDroppedPairsLack'
    BY <2>1 DEF Accepted, OnlyDroppedPairsLack
  <2> QED BY <2>3, <2>4, <2>5
<1>5. ASSUME NEW w \in Workers, NEW s \in Sessions, CreateSession(w, s) PROVE DeploymentInv'
  <2>1. PICK p \in settings[w].pairs :
          rows' = rows \cup {[id |-> s, pair |-> p, worker |-> w, start |-> starts[w]]}
    BY <1>5 DEF CreateSession, Accepts
  <2>2. UNCHANGED <<env, settings, phase, engine, models, starts, lacking>>
    BY <1>5 DEF CreateSession
  <2>3. p \in Pairs /\ starts[w] \in 0..MaxStarts
    BY DEF TypeOK
  <2>4. TypeOK'
    BY <2>1, <2>2, <2>3 DEF TypeOK
  <2>5. Accepted'
    BY <2>1, <2>2, <2>3 DEF Accepted
  <2>6. Built' /\ Standing' /\ OnlyDroppedPairsLack'
    BY <2>2 DEF Built, Standing, OnlyDroppedPairsLack
  <2> QED BY <2>4, <2>5, <2>6
<1>6. ASSUME NEW w \in Workers, Translate(w) PROVE DeploymentInv'
  <2>1. UNCHANGED <<env, settings, phase, engine, models, starts, rows>>
    BY <1>6 DEF Translate
  <2>2. TypeOK' /\ Built' /\ Standing' /\ Accepted'
    BY <2>1 DEF TypeOK, Built, Standing, Accepted
  <2> QED BY <1>6, <2>2, TranslateStep
<1>7. CASE UNCHANGED vars
  BY <1>7 DEF vars, TypeOK, Built, Standing, Accepted, OnlyDroppedPairsLack
<1> QED BY <1>1, <1>2, <1>3, <1>4, <1>5, <1>6, <1>7 DEF Next

LEMMA Inductive == Spec => []DeploymentInv
BY InitInv, StepInv, PTL DEF Spec

\* A segment lacks its model only in a process that would not accept its session,
\* whatever is configured and however processes come and go.
THEOREM DroppedPairs == Spec => []OnlyDroppedPairsLack
<1>1. DeploymentInv => OnlyDroppedPairsLack
  BY DEF DeploymentInv
<1> QED BY <1>1, Inductive, PTL

\* Whatever is configured and whichever part refuses, a process whose lifespan has
\* yielded has every part, by the names of its settings, and a translator for each
\* pair it accepts.
THEOREM ServesWhatItAccepts == Spec => []ServesWhole
<1>1. DeploymentInv => ServesWhole
  <2> SUFFICES ASSUME DeploymentInv, NEW w \in Workers, phase[w] = "serving"
               PROVE  /\ \A part \in Parts : engine[w][part] # "none"
                      /\ \A stage \in {"asr", "mt"} : engine[w][stage] = settings[w][stage]
                      /\ \A p \in Accepts(w) : engine[w].mt = "stub" \/ p \in models[w]
    BY DEF ServesWhole
  <2>1. \A part \in {"asr", "mt", "tts", "segmenter"} : engine[w][part] # "none"
    BY DEF DeploymentInv, Standing
  <2>2. engine[w].asr = settings[w].asr /\ engine[w].mt = settings[w].mt
    BY <2>1 DEF DeploymentInv, Built
  <2>3. \A p \in Accepts(w) : engine[w].mt = "stub" \/ p \in models[w]
    BY <2>1 DEF DeploymentInv, Built, Accepts
  <2> QED BY <2>1, <2>2, <2>3 DEF Parts, Stages
<1> QED BY <1>1, Inductive, PTL

\* Neither ASR nor MT is a stub under another name.
THEOREM StubsAreAskedFor == Spec => []NoSilentStub
<1>1. DeploymentInv => NoSilentStub
  BY DEF DeploymentInv, Built, NoSilentStub
<1> QED BY <1>1, Inductive, PTL

\* Type correctness.
THEOREM DeploymentTypeCorrect == Spec => []TypeOK
<1>1. DeploymentInv => TypeOK
  BY DEF DeploymentInv
<1> QED BY <1>1, Inductive, PTL
===============================================================================
