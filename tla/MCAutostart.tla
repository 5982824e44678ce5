---------------------------- MODULE MCAutostart ----------------------------
(***************************************************************************)
(* Instances of Autostart for TLC: interchangeable slots for processes.    *)
(***************************************************************************)
EXTENDS Autostart, TLC

Symmetry == Permutations(Proc \ Packaged)
=============================================================================
