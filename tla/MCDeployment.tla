----------------------------- MODULE MCDeployment -----------------------------
(* Deployment with the settings that differ: stubs, real backends with one pair, *)
(* the other or both, a pair without an artifact, and unknown names.             *)
EXTENDS Deployment, TLC

CONSTANTS p1, p2, p3

Env(asr, mt, tts, pairs) == [asr |-> asr, mt |-> mt, tts |-> tts, pairs |-> pairs]

MCEnvironments ==
  { Env("stub", "stub", "stub", {p1, p3}), Env("parakeet", "opus-mt", "stub", {p1}),
    Env("stub", "opus-mt", "other", {p2}), Env("parakeet", "opus-mt", "stub", {p1, p3}),
    Env("other", "opus-mt", "stub", {p1}), Env("stub", "other", "stub", {p2}) }

Symmetry == Permutations(Workers)
===============================================================================
