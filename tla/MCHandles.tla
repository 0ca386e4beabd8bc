------------------------------ MODULE MCHandles ------------------------------
(* Handles on a few objects: enough descriptors for a leaked one and for one *)
(* to be reused.                                                             *)
EXTENDS Handles, TLC

CONSTANTS lib, k1, k2, s1, s2, c1, c2, l1, f1, f2, none

Symmetric == Permutations({k1, k2}) \cup Permutations({f1, f2})
             \cup Permutations({s1, s2})
=============================================================================
