------------------------------ MODULE Journal ------------------------------
(***************************************************************************)
(* What the log files of src/logging.rs promise, taken together: one       *)
(* journal that grows at its end, and whose lines stay, in their order,    *)
(* until they are older than the days that were chosen for keeping them.   *)
(***************************************************************************)
EXTENDS Naturals, SequencesExt

VARIABLES
  log,   \* the lines, each with the day in its time stamp
  today, \* the day on the clock
  keep   \* the days lines are kept for

vars == <<log, today, keep>>

Init == log = <<>> /\ today = 0 /\ keep \in Nat

\* A line is stamped before it is written.
Write ==
  /\ Len(log') = Len(log) + 1 /\ IsPrefix(log, log')
  /\ Last(log').day <= today
  /\ UNCHANGED <<today, keep>>

\* Lines may go from any place, but only old ones; `at` says where those that
\* stay were before.
Expire ==
  /\ \E at \in [DOMAIN log' -> DOMAIN log] :
       /\ \A i, j \in DOMAIN log' : i < j => at[i] < at[j]
       /\ \A i \in DOMAIN log' : log'[i] = log[at[i]]
       /\ \A k \in DOMAIN log :
            log[k].day + keep <= today \/ \E i \in DOMAIN log' : at[i] = k
  /\ UNCHANGED <<today, keep>>

Midnight == today' = today + 1 /\ UNCHANGED <<log, keep>>

Choose == keep' \in Nat /\ UNCHANGED <<log, today>>

Next == Midnight \/ Choose \/ Write \/ Expire

Spec == Init /\ [][Next]_vars

=============================================================================
