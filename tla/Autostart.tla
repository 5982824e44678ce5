----------------------------- MODULE Autostart -----------------------------
(***************************************************************************)
(* src/autostart.rs: "Run on startup", which the operating system keeps,   *)
(* every process caches, and sign-in acts upon.                            *)
(*                                                                         *)
(* A copy of Polaris that is not packaged has a value under the Run key,   *)
(* which any of its processes writes and deletes; a packaged one has a     *)
(* StartupTask, on which Windows has the last word.  Both are external.    *)
(* Of starting (Launch) only this is kept: a process goes through init and *)
(* then runs if nobody else does, or makes the one that runs surface.      *)
(* Processes are slots, taken again and again.                             *)
(***************************************************************************)
CONSTANTS
  Proc,     \* slots for processes
  Packaged  \* the slots for processes of the packaged copy

ASSUME AutostartAssumption == Packaged \subseteq Proc

VARIABLES
  at,       \* where each process is
  cached,   \* STATE of each process
  startup,  \* the processes with --startup on their command line
  entry,    \* the Run value: absent, the path of the exe, or a dead path
  task,     \* the state of the StartupTask
  due,      \* what the sign-in has yet to start
  opened,   \* history: has a window been shown since sign-in?
  called,   \* history: has anything but the Run value started Polaris since?
  settled,  \* history: has an init that did not fail followed the last move?
  stale     \* history: the processes whose cached answer was overtaken

own  == <<at, cached, startup>>
os   == <<entry, task>>
hist == <<opened, called, settled, stale>>
vars == <<own, os, due, hist>>

\* "init": not yet queried; "found": between reg_present and reg_write;
\* "peek": past init, before the instance is claimed.
Place == {"out", "init", "found", "peek", "up"}

Init ==
  /\ at = [p \in Proc |-> "out"]
  /\ cached = [p \in Proc |-> FALSE]
  /\ startup = {}
  /\ entry \in {"absent", "exe", "dead"}
  /\ task \in {"enabled", "disabled", "byUser"}
  /\ due = {}
  /\ opened = FALSE /\ called = FALSE /\ settled = FALSE /\ stale = {}

Alive    == {p \in Proc : at[p] # "out"}
Up       == {p \in Proc : at[p] = "up"}
Answered == {p \in Proc : at[p] \in {"peek", "up"}}

\* The live processes with the same mechanism as p.
Peers(p) == {q \in Alive : q \in Packaged <=> p \in Packaged}

Goto(p, place) == at' = [at EXCEPT ![p] = place]
Cache(p, on)   == cached' = [cached EXCEPT ![p] = on]

\* What the next sign-in will do for the copy of process p.
Enabled(p) == IF p \in Packaged THEN task = "enabled" ELSE entry # "absent"

-----------------------------------------------------------------------------
(* init.                                                                   *)

\* Mutant: init does not ask which mechanism is its own.
QueryAlike(p) ==
  /\ at[p] = "init"
  /\ Goto(p, IF Enabled(p) THEN "found" ELSE "peek")
  /\ Cache(p, FALSE)
  /\ stale' = stale \ {p}
  /\ UNCHANGED <<startup, os, due, opened, called, settled>>

\* packaged_query, or reg_present and the answer it gives to init; either may
\* fail, and the answer is then off.
Query(p) ==
  /\ at[p] = "init"
  /\ \/ /\ p \notin Packaged /\ Enabled(p)
        /\ Goto(p, "found") /\ UNCHANGED <<cached, settled>>
        /\ stale' = stale \ {p}
     \/ /\ p \in Packaged \/ ~Enabled(p)
        /\ Goto(p, "peek") /\ Cache(p, Enabled(p))
        /\ settled' = (settled \/ p \notin Packaged)
        /\ stale' = stale \ {p}
     \/ /\ Goto(p, "peek") /\ Cache(p, FALSE)
        /\ stale' = stale \cup {p}
        /\ UNCHANGED settled
  /\ UNCHANGED <<startup, os, due, opened, called>>

\* Mutant: init leaves a present Run value as it is.
RefreshNot(p) ==
  /\ at[p] = "found" /\ Goto(p, "peek") /\ Cache(p, TRUE)
  /\ settled' = TRUE
  /\ UNCHANGED <<startup, os, due, opened, called, stale>>

\* The value was there: write it again, with today's path, or fail silently.
\* If it has been deleted in between, this brings it back.
Refresh(p) ==
  /\ at[p] = "found" /\ Goto(p, "peek") /\ Cache(p, TRUE)
  /\ \/ /\ entry' = "exe" /\ settled' = TRUE
        /\ stale' = (IF entry = "absent" THEN stale \cup Peers(p) ELSE stale) \ {p}
     \/ UNCHANGED <<entry, settled, stale>>
  /\ UNCHANGED <<startup, task, due, opened, called>>

-----------------------------------------------------------------------------
(* set_enabled.                                                            *)

\* reg_set, which may fail silently; the answer is what was asked for.
RegSet(p, on) ==
  /\ p \notin Packaged
  /\ Cache(p, on)
  /\ \/ /\ entry' = IF on THEN "exe" ELSE "absent"
        /\ stale' = (stale \cup Peers(p)) \ {p}
     \/ stale' = stale \cup {p} /\ UNCHANGED entry
  /\ UNCHANGED task

\* Mutant: the cache takes what was asked for, whatever Windows says.
PackagedSetAsked(p, on) ==
  /\ p \in Packaged
  /\ Cache(p, on)
  /\ task' = IF task = "byUser" THEN task ELSE IF on THEN "enabled" ELSE "disabled"
  /\ stale' = (stale \cup Peers(p)) \ {p}
  /\ UNCHANGED entry

\* packaged_set: a task the user disabled in Windows' settings stays disabled;
\* any call may fail, and the answer is then off.
PackagedSet(p, on) ==
  /\ p \in Packaged
  /\ \/ /\ task # "byUser"
        /\ task' = IF on THEN "enabled" ELSE "disabled"
        /\ Cache(p, on)
        /\ stale' = (stale \cup Peers(p)) \ {p}
     \/ /\ Cache(p, FALSE)
        /\ stale' = IF task = "byUser" THEN stale \ {p} ELSE stale \cup {p}
        /\ UNCHANGED task
  /\ UNCHANGED entry

\* on_startup: the switch, to what it does not show now.
SetEnabled(p) ==
  /\ p \in Up
  /\ RegSet(p, ~cached[p]) \/ PackagedSet(p, ~cached[p])
  /\ UNCHANGED <<at, startup, due, opened, called, settled>>

-----------------------------------------------------------------------------
(* Sign-in, starting and leaving.                                          *)

\* The user switches the task in Windows' settings.
SwitchTask ==
  /\ task' = IF task = "enabled" THEN "byUser" ELSE "enabled"
  /\ stale' = stale \cup (Alive \cap Packaged)
  /\ UNCHANGED <<own, entry, due, opened, called, settled>>

\* The exe is moved, or updated at another path, while no process runs it.
MoveExe ==
  /\ Alive \subseteq Packaged
  /\ entry # "absent" /\ entry' = "dead"
  /\ settled' = FALSE
  /\ UNCHANGED <<own, task, due, opened, called, stale>>

\* A new session, in which Windows acts on what it finds.
SignIn ==
  /\ Alive = {}
  /\ due' = {x \in {"run", "task"} :
               IF x = "run" THEN entry = "exe" ELSE task = "enabled"}
  /\ opened' = FALSE /\ called' = FALSE
  /\ UNCHANGED <<own, os, settled, stale>>

Start(p) == at[p] = "out" /\ Goto(p, "init")

RunStarts(p) ==
  /\ "run" \in due /\ due' = due \ {"run"}
  /\ p \notin Packaged /\ Start(p)
  /\ startup' = startup \cup {p}
  /\ UNCHANGED <<cached, os, hist>>

\* The manifest gives the task no arguments.
TaskStarts(p) ==
  /\ "task" \in due /\ due' = due \ {"task"}
  /\ p \in Packaged /\ Start(p)
  /\ called' = TRUE
  /\ UNCHANGED <<cached, startup, os, opened, settled, stale>>

UserStarts(p) ==
  /\ Start(p)
  /\ called' = TRUE
  /\ UNCHANGED <<cached, startup, os, due, opened, settled, stale>>

\* What a process had in memory goes with it.
Forget(p) ==
  /\ cached' = [cached EXCEPT ![p] = FALSE]
  /\ stale' = stale \ {p}

\* main goes on after init: this becomes the instance, hidden if it carries
\* --startup, or it makes the one there is show its window.
Enter(p) ==
  /\ at[p] = "peek"
  /\ \/ /\ Up = {} /\ Goto(p, "up")
        /\ opened' = (opened \/ p \notin startup)
        /\ UNCHANGED <<cached, startup, stale>>
     \/ /\ Up # {} /\ Goto(p, "out")
        /\ opened' = TRUE
        /\ startup' = startup \ {p} /\ Forget(p)
  /\ UNCHANGED <<os, due, called, settled>>

\* Mutant: the elevated child is not given --startup.
ForwardsNot(p) == FALSE

\* relaunch_elevated preserves --startup.
Forwards(p) == p \in startup

\* p, which runs or is about to, is replaced by an elevated child.
Relaunch(p, c) ==
  /\ at[p] \in {"peek", "up"} /\ at[c] = "out"
  /\ {p, c} \cap Packaged = {}
  /\ at' = [at EXCEPT ![p] = "out", ![c] = "init"]
  /\ startup' = (startup \ {p}) \cup {x \in {c} : Forwards(p)}
  /\ Forget(p)
  /\ UNCHANGED <<os, due, opened, called, settled>>

\* Polaris is quit or killed, in the middle of init too.
Leave(p) ==
  /\ at[p] # "out" /\ Goto(p, "out")
  /\ startup' = startup \ {p} /\ Forget(p)
  /\ UNCHANGED <<os, due, opened, called, settled>>

Next ==
  \/ SwitchTask \/ MoveExe \/ SignIn
  \/ \E p \in Proc :
       \/ Query(p) \/ Refresh(p) \/ SetEnabled(p)
       \/ RunStarts(p) \/ TaskStarts(p) \/ UserStarts(p)
       \/ Enter(p) \/ Leave(p)
  \/ \E p, c \in Proc : Relaunch(p, c)

Spec == Init /\ [][Next]_vars

-----------------------------------------------------------------------------
(* Properties.                                                             *)

\* The type invariant.
TypeOK ==
  /\ at \in [Proc -> Place]
  /\ \A p \in Proc : at[p] = "found" => p \notin Packaged
  /\ cached \in [Proc -> BOOLEAN]
  /\ startup \subseteq Alive \ Packaged
  /\ entry \in {"absent", "exe", "dead"}
  /\ task \in {"enabled", "disabled", "byUser"}
  /\ due \subseteq {"run", "task"}
  /\ opened \in BOOLEAN /\ called \in BOOLEAN /\ settled \in BOOLEAN
  /\ stale \subseteq Alive

\* The switch shows what the next sign-in will do, as long as nobody else has
\* changed that since (Windows' settings, another process's switch, an init
\* that brought a deleted value back) and the last call of its own went
\* through: also for a task the user disabled, which cannot be enabled again.
SwitchIsTrue == \A p \in Answered \ stale : cached[p] <=> Enabled(p)

\* "Updating or moving the exe keeps autostart pointing at the right file":
\* from the first launch at the new place that gets through init, even if it
\* is only to make another instance surface, as long as the registry can be
\* read and written.
EntryFollowsTheExe == settled => entry # "dead"

\* A sign-in shows no window: until somebody else starts Polaris, what runs is
\* hidden in the tray, through any number of elevated relaunches.
QuietSignIn == ~called => ~opened

=============================================================================
