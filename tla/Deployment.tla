------------------------------- MODULE Deployment -------------------------------
(***************************************************************************)
(* The processes that serve one database (app/main.py, app/dependencies.py, *)
(* the constructors of the engines).  Each reads its settings when it       *)
(* starts, builds its engines from them or refuses to start, and forgets    *)
(* both when it stops.  Sessions are rows: they outlive the process that    *)
(* accepted their pair of languages and may stream into another one.        *)
(***************************************************************************)
EXTENDS Integers, Sequences, FiniteSets

CONSTANTS Workers, Sessions,
          Pairs,         \* pairs of languages
          Registered,    \* those _OPUS_MT_REPOS has an artifact for
          Environments,  \* what the operator may configure
          MaxStarts      \* bound: starts of one worker

Names  == {"stub", "parakeet", "opus-mt", "other"}
Stages == {"asr", "mt", "tts"}
Valid  == [asr |-> {"stub", "parakeet"}, mt |-> {"stub", "opus-mt"}, tts |-> Names]

ASSUME DeploymentAssumption ==
  /\ Registered \subseteq Pairs /\ MaxStarts \in Nat
  /\ Environments \subseteq [asr : Names, mt : Names, tts : Names, pairs : SUBSET Pairs]

VARIABLES
  env,       \* the settings a process would read now
  settings,  \* per worker, the settings it read
  phase,     \* per worker: the part it builds, "serving", "bare" or "down"
  engine,    \* per worker and part: the backend inside, or "none"
  models,    \* per worker: the pairs whose translator is loaded
  starts,    \* per worker
  rows,      \* the sessions: the pair, and the worker and start that accepted it
  lacking    \* history: segments that met no model

vars  == <<env, settings, phase, engine, models, starts, rows, lacking>>
Parts == Stages \cup {"segmenter"}
None  == [part \in Parts |-> "none"]

\* What init_engines() turns to after each part; after the last one it returns, and
\* the lifespan yields.
Following == [asr |-> "mt", mt |-> "tts", tts |-> "segmenter", segmenter |-> "serving"]

Init ==
  /\ env \in Environments /\ settings = [w \in Workers |-> env]
  /\ phase = [w \in Workers |-> "down"]
  /\ engine = [w \in Workers |-> None] /\ models = [w \in Workers |-> {}]
  /\ starts = [w \in Workers |-> 0]
  /\ rows = {} /\ lacking = {}

-------------------------------------------------------------------------------
(* Starting *)

Reconfigure ==
  /\ env' \in Environments
  /\ UNCHANGED <<settings, phase, engine, models, starts, rows, lacking>>

\* Settings() is evaluated once, on import, and the lifespan calls init_engines().  A
\* server without lifespan support (a TestClient that is not entered, --lifespan off)
\* builds nothing and serves.
Start(w) ==
  /\ phase[w] = "down" /\ starts[w] < MaxStarts
  /\ settings' = [settings EXCEPT ![w] = env]
  /\ starts' = [starts EXCEPT ![w] = @ + 1]
  /\ \E next \in {"asr", "bare"} : phase' = [phase EXCEPT ![w] = next]
  /\ UNCHANGED <<env, engine, models, rows, lacking>>

\* _load_backend() of a valid name.  TTS is a stub under every name.
Backend(w, part) ==
  CASE part = "tts" -> "stub"
    [] part = "segmenter" -> "silero"
    [] OTHER -> IF settings[w][part] \in Valid[part] THEN settings[w][part] ELSE "invalid"

\* The pairs to load.
Wanted(w) == IF settings[w].mt = "opus-mt" THEN settings[w].pairs ELSE {}

\* A mistake: a pair without an artifact is left out instead of refused.
BuildsRegistered(w) == \E part \in Parts :
  /\ phase[w] = part /\ Backend(w, part) # "invalid"
  /\ phase' = [phase EXCEPT ![w] = Following[part]]
  /\ engine' = [engine EXCEPT ![w][part] = Backend(w, part)]
  /\ models' = [models EXCEPT ![w] = IF part = "mt" THEN Wanted(w) \cap Registered ELSE @]
  /\ UNCHANGED <<env, settings, starts, rows, lacking>>

\* One line of init_engines(): the constructor returns, with every pair's translator
\* loaded if it is MT's.
Build(w) == \E part \in Parts :
  /\ phase[w] = part /\ Backend(w, part) # "invalid"
  /\ part = "mt" => Wanted(w) \subseteq Registered
  /\ phase' = [phase EXCEPT ![w] = Following[part]]
  /\ engine' = [engine EXCEPT ![w][part] = Backend(w, part)]
  /\ models' = [models EXCEPT ![w] = IF part = "mt" THEN Wanted(w) ELSE @]
  /\ UNCHANGED <<env, settings, starts, rows, lacking>>

\* A name or one of the pairs is unknown, or weights do not load: the exception
\* leaves the lifespan and the process ends.  A stub needs nothing and never raises.
Refuse(w) == \E part \in Parts :
  /\ phase[w] = part /\ Backend(w, part) # "stub"
  /\ phase' = [phase EXCEPT ![w] = "down"]
  /\ engine' = [engine EXCEPT ![w] = None] /\ models' = [models EXCEPT ![w] = {}]
  /\ UNCHANGED <<env, settings, starts, rows, lacking>>

\* A shutdown or a crash.
Stop(w) ==
  /\ phase[w] # "down"
  /\ phase' = [phase EXCEPT ![w] = "down"]
  /\ engine' = [engine EXCEPT ![w] = None] /\ models' = [models EXCEPT ![w] = {}]
  /\ UNCHANGED <<env, settings, starts, rows, lacking>>

-------------------------------------------------------------------------------
(* Serving *)

\* A mistake: the accepted pairs are read anew for each request.
AcceptsNow(w) == env.pairs

\* TranslationSessionCreate: the pairs of the settings.
Accepts(w) == settings[w].pairs

\* POST /sessions/ needs no engine.
CreateSession(w, s) ==
  /\ phase[w] \in {"serving", "bare"} /\ \A row \in rows : row.id # s
  /\ \E p \in Accepts(w) :
       rows' = rows \cup {[id |-> s, pair |-> p, worker |-> w, start |-> starts[w]]}
  /\ UNCHANGED <<env, settings, phase, engine, models, starts, lacking>>

\* A segment reaches MT, in the languages the session declared: no backend of ASR
\* detects one.  The getter of a part that was not built raises, and nothing runs.
Translate(w) == \E row \in rows :
  /\ phase[w] \in {"serving", "bare"} /\ \A part \in Parts : engine[w][part] # "none"
  /\ lacking' = IF engine[w].mt = "stub" \/ row.pair \in models[w] THEN lacking
                ELSE lacking \cup {[row |-> row, worker |-> w, start |-> starts[w],
                                    pairs |-> settings[w].pairs]}
  /\ UNCHANGED <<env, settings, phase, engine, models, starts, rows>>

Next == \/ Reconfigure
        \/ \E w \in Workers : \/ Start(w) \/ Build(w) \/ Refuse(w) \/ Stop(w)
                              \/ Translate(w) \/ \E s \in Sessions : CreateSession(w, s)

Spec == Init /\ [][Next]_vars
-------------------------------------------------------------------------------
(* Properties *)

\* Every variable has its type.
TypeOK ==
  /\ env \in Environments /\ settings \in [Workers -> Environments]
  /\ phase \in [Workers -> Parts \cup {"down", "bare", "serving"}]
  /\ engine \in [Workers -> [Parts -> Names \cup {"none", "silero"}]]
  /\ models \in [Workers -> SUBSET Registered]
  /\ starts \in [Workers -> 0..MaxStarts]
  /\ rows \subseteq [id : Sessions, pair : Pairs, worker : Workers, start : 0..MaxStarts]

\* mt_service.py:156-158: a segment lacks its model only in a process that would not
\* accept its session, so never in the one that did, however the settings changed
\* since and whichever processes run.
OnlyDroppedPairsLack ==
  \A l \in lacking :
    /\ l.row.pair \notin l.pairs
    /\ l.row.worker # l.worker \/ l.row.start # l.start

\* dependencies.py:56-61, config.py:34-36: once the lifespan yields, every part stands,
\* ASR and MT are those the settings name, and each pair POST accepts has its
\* translator: no session accepted here meets a part or a model that is missing.
ServesWhole ==
  \A w \in Workers : phase[w] = "serving" =>
    /\ \A part \in Parts : engine[w][part] # "none"
    /\ \A stage \in {"asr", "mt"} : engine[w][stage] = settings[w][stage]
    /\ \A p \in Accepts(w) : engine[w].mt = "stub" \/ p \in models[w]

\* asr_service.py:17-21, mt_service.py:18-21: no process recognizes or translates with
\* placeholders unless its settings say so.
NoSilentStub ==
  \A w \in Workers, stage \in {"asr", "mt"} :
    engine[w][stage] = "stub" => settings[w][stage] = "stub"
===============================================================================
