------------------------------ MODULE MCWebLogin ------------------------------
(* Constants for model-checking WebLogin on small instances.               *)
EXTENDS WebLogin, TLC

CONSTANTS m1, m2, t1, t2, t3, k1, k2

Symmetric == Permutations({t1, t2}) \cup Permutations({k1, k2})
=============================================================================
