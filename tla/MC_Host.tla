------------------------------ MODULE MC_Host --------------------------------
(* v1 is part of t1, v2 is part of both tags.                              *)
EXTENDS Deploy, TLC

CONSTANTS p1, p2, t1, t2, v1, v2, f1, f2, f3

MC_Matches == {<<v1, t1>>, <<v2, t1>>, <<v2, t2>>}

Symmetry == Permutations(Deployers) \cup Permutations(Files)
=============================================================================
