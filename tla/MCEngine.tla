------------------------------ MODULE MCEngine ------------------------------
(***************************************************************************)
(* Instances of Engine for TLC: two interchangeable networks.              *)
(***************************************************************************)
EXTENDS Engine, TLC

CONSTANTS n1, n2

Symmetry == Permutations({n1, n2})
=============================================================================
