----------------------------- MODULE MCProfiles -----------------------------
(***************************************************************************)
(* Instances of Profiles for TLC: two configurations, and the stores that  *)
(* versions with the global "connect on launch" switch have left behind.   *)
(***************************************************************************)
EXTENDS Profiles

CONSTANTS plain, custom

OneFile == {<<[cfg |-> custom, mode |-> "Off"]>>}

Legacy ==
  [profiles |-> <<[id |-> 0, cfg |-> custom, mode |-> "Off"]>>,
   selected |-> 0, auto |-> TRUE]

MCOldConfigs == {Legacy}
NoBackups    == {}
MCOldBackups == {Legacy}
=============================================================================
