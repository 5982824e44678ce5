------------------------------ MODULE MCLaunch ------------------------------
(***************************************************************************)
(* Instances of Launch for TLC: processes of one and the same copy.        *)
(***************************************************************************)
EXTENDS Launch

OneCopy == [p \in Proc |-> CHOOSE c \in Copy : TRUE]
=============================================================================
