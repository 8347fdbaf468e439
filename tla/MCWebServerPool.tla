-------------------------- MODULE MCWebServerPool --------------------------
(* Model values for WebServerPool, and the symmetry of its threads.        *)
EXTENDS WebServerPool, TLC

CONSTANTS w1, w2, k1, k2, k3

Symmetry == Permutations(Workers) \cup Permutations(Conns)
=============================================================================
