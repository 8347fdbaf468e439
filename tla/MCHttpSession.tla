--------------------------- MODULE MCHttpSession ---------------------------
(* Model values for HttpSession, and their symmetry.                       *)
EXTENDS HttpSession, TLC

CONSTANTS t1, t2, s1, s2, b1, b2, b3

Symmetry == Permutations(Threads) \cup Permutations(Ids) \cup Permutations(Blocks)
=============================================================================
