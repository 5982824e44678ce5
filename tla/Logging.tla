------------------------------ MODULE Logging ------------------------------
(***************************************************************************)
(* src/logging.rs with its callers in src/main.rs and src/ui.rs: events of *)
(* many threads go to a file for the day and to a ring that the            *)
(* Diagnostics page shows; a filter lets them pass or not; files of        *)
(* earlier runs are cleaned up at the start.                               *)
(*                                                                         *)
(* One instance runs at a time (Launch says how far that is so), the clock *)
(* does not go back, and exports are saved outside the logs folder.  A     *)
(* level is Off, or one at which the events of interest pass.              *)
(***************************************************************************)
EXTENDS Naturals, SequencesExt

CONSTANTS
  Thread,         \* the threads that log
  RETENTION_DAYS, \* the choices for how long files are kept
  RING_CAP,       \* the lines kept in memory
  MaxDay,         \* bound on the days that pass
  MaxEvents       \* bound on the events logged in all

ASSUME LoggingAssumption ==
  /\ RETENTION_DAYS \subseteq Nat \ {0} /\ RETENTION_DAYS # {}
  /\ RING_CAP \in Nat \ {0} /\ MaxDay \in Nat /\ MaxEvents \in Nat

Level == {"Off", "Info"}

VARIABLES
  up,        \* is Polaris running?
  today,     \* the day on the clock
  enabled,   \* settings.diagnostics_enabled, on disk and on the page
  level,     \* settings.log_level
  retention, \* settings.log_retention_days
  applied,   \* what the effect of root last ran for, if it has
  filter,    \* does the filter let events pass?
  pending,   \* of each thread: <<>>, or the event it is writing
  handle,    \* FILE: {}, or {day of the file that is open}
  files,     \* the log files: day |-> lines
  mtime,     \* the day each of them was last written
  ring,      \* RING
  count,     \* events logged so far
  lost       \* history: the numbers of this run's lines that no file has got

disk    == <<files, mtime>>
prefs   == <<enabled, level, retention>>
process == <<up, applied, filter, pending, handle, ring>>
vars    == <<process, today, prefs, disk, count, lost>>

Day  == 0..MaxDay
Line == [no : 1..MaxEvents, day : Day]

\* What init and set_level are called with, and whether events then pass.
Passes(on, l) == on /\ l # "Off"

Init ==
  /\ up = FALSE /\ today = 0
  /\ enabled \in BOOLEAN /\ level \in Level /\ retention \in RETENTION_DAYS
  /\ applied = {} /\ filter = FALSE
  /\ pending = [t \in Thread |-> <<>>]
  /\ handle = {} /\ ring = <<>> /\ count = 0
  /\ files = <<>> /\ mtime = <<>> /\ lost = {}

-----------------------------------------------------------------------------
(* Starting and ending.                                                    *)

\* Mutant: a file's age is taken from the day in its name.
OldByName(d) == d <= today - retention

\* Last written before the cutoff, or on the day of it.
Old(d) == mtime[d] + retention <= today

\* cleanup removes the files older than retention days; of those last written
\* on the day of the cutoff, the ones before its hour.  The folder may not be
\* listed, and of every file the time may not be read or the removal fail:
\* nothing is said, and the others go.
Cleanup ==
  \E gone \in SUBSET {d \in DOMAIN files : Old(d)} :
    /\ files' = [d \in DOMAIN files \ gone |-> files[d]]
    /\ mtime' = [d \in DOMAIN files \ gone |-> mtime[d]]

\* main: the level and the cleanup go by the settings on disk.
Start ==
  /\ ~up /\ up' = TRUE
  /\ filter' = Passes(enabled, level)
  /\ IF enabled THEN Cleanup ELSE UNCHANGED disk
  /\ UNCHANGED <<applied, pending, handle, ring, today, prefs, count, lost>>

\* Polaris quits or dies, whatever its threads are writing.
Stop ==
  /\ up /\ up' = FALSE
  /\ applied' = {} /\ filter' = FALSE
  /\ pending' = [t \in Thread |-> <<>>]
  /\ handle' = {} /\ ring' = <<>> /\ lost' = {}
  /\ UNCHANGED <<today, prefs, disk, count>>

Midnight ==
  /\ today < MaxDay /\ today' = today + 1
  /\ UNCHANGED <<process, prefs, disk, count, lost>>

-----------------------------------------------------------------------------
(* The page.                                                               *)

\* The level and the retention are offered where diagnostics are enabled.
Choose ==
  /\ up
  /\ \/ enabled' = ~enabled /\ UNCHANGED <<level, retention>>
     \/ enabled /\ level' \in Level /\ UNCHANGED <<enabled, retention>>
     \/ enabled /\ retention' \in RETENTION_DAYS /\ UNCHANGED <<enabled, level>>
  /\ UNCHANGED <<process, today, disk, count, lost>>

\* Mutant: the effect depends on the level alone.
ChangedLevel == \A a \in applied : a.level # level

Changed == applied # {[enabled |-> enabled, level |-> level]}

\* The effect of root: set_level.
ApplyLevel ==
  /\ up /\ Changed
  /\ applied' = {[enabled |-> enabled, level |-> level]}
  /\ filter' = Passes(enabled, level)
  /\ UNCHANGED <<up, pending, handle, ring, today, prefs, disk, count, lost>>

\* clear(): not the files.
Clear ==
  /\ up /\ ring' = <<>>
  /\ UNCHANGED <<up, applied, filter, pending, handle, today, prefs, disk, count, lost>>

-----------------------------------------------------------------------------
(* Fanout.                                                                 *)

\* Mutant: the ring before the file.
SinksSwapped == <<"ring", "file">>

\* Where write takes a line, in this order.
Sinks == <<"file", "ring">>

\* A line and the sinks it has yet to go to.
Event == [line : Line, to : {Sinks, Tail(Sinks)}]

Turn(t, sink) == pending[t] # <<>> /\ Head(pending[t][1].to) = sink

\* The thread's event has been to its first sink.
Done(t) ==
  LET e == pending[t][1] IN
  pending' = [pending EXCEPT ![t] =
                IF Len(e.to) = 1 THEN <<>>
                ELSE <<[line |-> e.line, to |-> Tail(e.to)]>>]

\* An event that passes the filter is made into a line with a time stamp.
Log(t) ==
  /\ up /\ filter /\ pending[t] = <<>> /\ count < MaxEvents
  /\ count' = count + 1
  /\ pending' = [pending EXCEPT ![t] =
                   <<[line |-> [no |-> count + 1, day |-> today], to |-> Sinks]>>]
  /\ UNCHANGED <<up, applied, filter, handle, ring, today, prefs, disk, lost>>

\* open_today: an existing file is appended to.
Opened(d) == IF d \in DOMAIN files THEN files[d] ELSE <<>>

\* The file for day d gets these lines, as of the day `when`.
Put(d, lines, when) ==
  /\ files' = [e \in DOMAIN files \cup {d} |-> IF e = d THEN lines ELSE files[e]]
  /\ mtime' = [e \in DOMAIN files \cup {d} |-> IF e = d THEN when ELSE mtime[e]]

\* Today's file, unless one is open.
File == IF handle = {} THEN today ELSE CHOOSE d \in handle : TRUE

\* With FILE locked.  Opening may fail, and so may writing to the open file;
\* the event goes on to the ring.
WriteFile(t) ==
  LET line == pending[t][1].line
      Lose == lost' = lost \cup {line.no}
  IN /\ Turn(t, "file") /\ Done(t)
     /\ \/ handle = {} /\ Lose /\ UNCHANGED <<disk, handle>>
        \/ /\ handle' = {File}
           /\ \/ Put(File, Append(Opened(File), line), today) /\ UNCHANGED lost
              \/ /\ Lose
                 /\ Put(File, Opened(File),
                        IF File \in DOMAIN files THEN mtime[File] ELSE today)
     /\ UNCHANGED <<up, applied, filter, ring, today, prefs, count>>

\* Mutant: the oldest line stays.
PushedUncapped(line) == Append(ring, line)

Pushed(line) == Append(IF Len(ring) >= RING_CAP THEN Tail(ring) ELSE ring, line)

\* push_ring, with RING locked; another thread may have been there first.
PushRing(t) ==
  /\ Turn(t, "ring") /\ Done(t)
  /\ ring' = Pushed(pending[t][1].line)
  /\ UNCHANGED <<up, applied, filter, handle, today, prefs, disk, count, lost>>

Next ==
  \/ Start \/ Stop \/ Midnight \/ Choose \/ ApplyLevel \/ Clear
  \/ \E t \in Thread : Log(t) \/ WriteFile(t) \/ PushRing(t)

Spec == Init /\ [][Next]_vars

\* Effects run after the render, and locks are held for one event at a time.
FairSpec ==
  /\ Spec
  /\ WF_vars(ApplyLevel)
  /\ \A t \in Thread : WF_vars(WriteFile(t) \/ PushRing(t))

-----------------------------------------------------------------------------
(* Properties.                                                             *)

\* The type invariant.
TypeOK ==
  /\ up \in BOOLEAN /\ enabled \in BOOLEAN /\ filter \in BOOLEAN
  /\ level \in Level /\ retention \in RETENTION_DAYS
  /\ applied \subseteq [enabled : BOOLEAN, level : Level]
  /\ today \in Day /\ count \in 0..MaxEvents
  /\ pending \in [Thread -> {<<>>} \cup {<<e>> : e \in Event}]
  /\ handle \subseteq DOMAIN files /\ DOMAIN files \subseteq Day
  /\ DOMAIN mtime = DOMAIN files
  /\ \A d \in DOMAIN files : files[d] \in Seq(Line) /\ mtime[d] \in d..today
  /\ ring \in Seq(Line) /\ Len(ring) <= RING_CAP
  /\ lost \subseteq 1..MaxEvents

\* export: the header and every log file, by name.
Exported == FlattenSeq([i \in 1..(MaxDay + 1) |-> Opened(i - 1)])

\* The files in the order of their names are one journal: lines are added at
\* its end, and lost only when older than was chosen, the rest staying in
\* order, though a file stays open past midnight, threads are overtaken
\* between stamping and writing, several runs share a file and any file may
\* outlive its time.
Diary == INSTANCE Journal WITH log <- Exported, keep <- retention
JournalSpec == Diary!Spec

\* The line is in a file, or no file could be got to take it.
Kept(line) ==
  line.no \in lost \/ \E d \in DOMAIN files : Contains(files[d], line)

\* What the Diagnostics page shows is in the files, unless it could not be
\* written.
PanelIsOnDisk == \A i \in DOMAIN ring : Kept(ring[i])

\* When diagnostics stay switched off, the filter is off some time and the
\* last line under way is written: "no log file is created" any more.
DisabledGoesQuiet ==
  <>[](up /\ ~Passes(enabled, level)) =>
    <>[](~filter /\ \A t \in Thread : pending[t] = <<>>)

=============================================================================
