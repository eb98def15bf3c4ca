---------------------------- MODULE MCVideoLink -----------------------------
(* Model-checking instance of VideoLink; adapters are interchangeable.      *)
EXTENDS VideoLink, TLC

Symm == Permutations(Adapters)
=============================================================================
