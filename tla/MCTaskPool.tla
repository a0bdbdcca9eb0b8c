----------------------------- MODULE MCTaskPool -----------------------------
(* Threads and loops for model-checking TaskPool. *)
EXTENDS TaskPool, TLC

CONSTANTS w1, w2

TwoWorkers == {w1, w2}
OneOrTwo   == {1, 2}
Several    == {1, 3}
Symmetric  == Permutations({w1, w2})
=============================================================================
