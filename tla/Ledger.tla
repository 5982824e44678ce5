------------------------------- MODULE Ledger -------------------------------
(***************************************************************************)
(* What the user may rely on of the saved networks, with no captured       *)
(* stores, indices, dialogs or files: networks are added under ids never   *)
(* used before, edited one at a time, removed together with whatever was   *)
(* running under them, or replaced as a whole; only listed networks run,   *)
(* and each runs as it is listed at the moment it is started; what was     *)
(* ever saved is there at the next launch.  Every handler of Profiles that *)
(* sees the store its predecessor left, and saves, is a step of this       *)
(* module.                                                                 *)
(***************************************************************************)
EXTENDS FiniteSets, Functions

CONSTANT Cfg   \* what a network can be configured to

VARIABLES
  open,     \* is Polaris running?
  list,     \* the saved networks: a function from their ids to Cfg
  running,  \* the networks asked to run, likewise
  used,     \* every id handed out so far
  saved     \* has anything been saved yet?

vars == <<open, list, running, used, saved>>

Nothing == [id \in {} |-> {}]

Without(f, id) == Restrict(f, DOMAIN f \ {id})
With(f, id, c) == [i \in DOMAIN f \cup {id} |-> IF i = id THEN c ELSE f[i]]

\* ids were never handed out before this step, and now are.
Fresh(ids) == ids \cap used = {} /\ used' = used \cup ids

Init ==
  /\ ~open
  /\ list \in [DOMAIN list -> Cfg]
  /\ running = Nothing
  /\ used = DOMAIN list
  /\ saved \in BOOLEAN
  /\ ~saved => list = Nothing

\* A launch that finds nothing makes up one network, and no id of an earlier
\* run is left for it to clash with.  Startup modes, not modelled here, decide
\* which networks are started.
Open ==
  /\ ~open /\ open'
  /\ IF saved
     THEN UNCHANGED <<list, used>>
     ELSE Cardinality(DOMAIN list') = 1 /\ used' = DOMAIN list'
  /\ \E ids \in SUBSET DOMAIN list' : running' = Restrict(list', ids)
  /\ UNCHANGED saved

Close ==
  /\ open /\ ~open'
  /\ running' = Nothing
  /\ list' = IF saved THEN list ELSE Nothing
  /\ UNCHANGED <<used, saved>>

Save == saved' /\ UNCHANGED <<open, list, running, used>>

Add ==
  /\ open
  /\ Restrict(list', DOMAIN list \cap DOMAIN list') = list
  /\ Fresh(DOMAIN list' \ DOMAIN list)
  /\ saved'
  /\ UNCHANGED <<open, running>>

Edit ==
  /\ open
  /\ DOMAIN list' = DOMAIN list
  /\ \E id \in DOMAIN list : list' = With(list, id, list'[id])
  /\ saved'
  /\ UNCHANGED <<open, running, used>>

Remove ==
  /\ open
  /\ \E id \in DOMAIN list :
       /\ list' = Without(list, id)
       /\ running' = Without(running, id)
  /\ saved'
  /\ UNCHANGED <<open, used>>

Replace ==
  /\ open
  /\ Fresh(DOMAIN list')
  /\ running' = Nothing
  /\ saved'
  /\ UNCHANGED open

Start ==
  /\ open
  /\ \E id \in DOMAIN list : running' = With(running, id, list[id])
  /\ UNCHANGED <<open, list, used, saved>>

Stop ==
  /\ open
  /\ \E id \in DOMAIN list : running' = Without(running, id)
  /\ UNCHANGED <<open, list, used, saved>>

Next == Open \/ Close \/ Save \/ Add \/ Edit \/ Remove \/ Replace \/ Start \/ Stop

Spec == Init /\ [][Next]_vars
=============================================================================
