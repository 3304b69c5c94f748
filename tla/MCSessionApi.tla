----------------------------- MODULE MCSessionApi -----------------------------
(* SessionApi with requests that are alike. *)
EXTENDS SessionApi, TLC

Symmetry == Permutations(Requests)
===============================================================================
