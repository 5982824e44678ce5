------------------------------ MODULE Profiles ------------------------------
(***************************************************************************)
(* src/config.rs (Store, StartupMode, parsing of backups and imports),     *)
(* the handlers of src/ui.rs that change the store or command the engine,  *)
(* and the part of src/main.rs that starts networks at launch.             *)
(*                                                                         *)
(* Every handler works on the store its page was built from, replaces the  *)
(* whole state by its result and writes the whole file.  A handler that    *)
(* opens a file dialog goes on, when the dialog is closed, with the store  *)
(* of the page the button was on; dialogs have no owner window, and their  *)
(* message loop runs other handlers meanwhile.  What the engine does with  *)
(* the commands is the business of NetworkService: here a network is what  *)
(* the last command sent about it asks for.                                *)
(***************************************************************************)
EXTENDS Naturals, SequencesExt

CONSTANTS
  Cfg,         \* what the fields of a profile that reach EasyTier say
  DefaultCfg,  \* ... in Profile::default()
  Modes,       \* the startup modes in use
  OldConfigs,  \* stores an earlier version may have left in config.json
  OldBackups,  \* stores an earlier version may have left in a backup
  Files,       \* what can be imported: sequences of a cfg and a mode each
  Lag,         \* may handlers run before the page shows the last change?
  MaxDialogs,  \* bound on file dialogs open at once
  Modal,       \* does a dialog keep the main window from taking input?
  DiskFaults,  \* may a save fail or be cut short?
  MaxIds       \* bound on the ids handed out

VARIABLES
  up,       \* is the process running?
  disk,     \* the store in config.json: none if there is none to parse
  backup,   \* the store in the user's backup file, if any
  store,    \* the root component's state
  page,     \* the store the handlers on display have captured
  dialogs,  \* the handlers waiting for their file dialog, last one innermost
  asked,    \* the networks last commanded to start, and with which cfg
  next,     \* ids handed out so far
  adrift,   \* history: did the state change without the file, since the last
            \* save that succeeded?
  revived   \* history: has a backup brought the legacy switch back?

vars == <<up, disk, backup, store, page, dialogs, asked, next, adrift, revived>>

StartupMode == {"Off", "All", "AutoStart", "Manual"}

Profile == [id : Nat, cfg : Cfg, mode : StartupMode]
Store   == [profiles : Seq(Profile), selected : Nat, auto : BOOLEAN]
Dialog  == [for : {"import", "backup", "restore"}, store : Store]

ASSUME ProfilesAssumption ==
  /\ DefaultCfg \in Cfg
  /\ Modes \subseteq StartupMode
  /\ OldConfigs \subseteq Store /\ OldBackups \subseteq Store
  /\ \A s \in OldConfigs :
       /\ Len(s.profiles) <= MaxIds
       /\ \A i \in DOMAIN s.profiles : s.profiles[i].id = i - 1
  /\ Files \subseteq Seq([cfg : Cfg, mode : StartupMode]) \ {<<>>}
  /\ {Lag, Modal, DiskFaults} \subseteq BOOLEAN
  /\ MaxDialogs \in Nat /\ MaxIds \in Nat

Nothing == [id \in {} |-> {}]

IdsOf(s) == {s.profiles[i].id : i \in DOMAIN s.profiles}

\* Mutant: the saturating subtraction does not saturate.
ClampUnsaturated(i, n) == IF i < n THEN i ELSE n - 1

\* The first of two indices that is in range: selected.min(len - 1).
Clamp(i, n) == IF i < n THEN i ELSE IF n = 0 THEN 0 ELSE n - 1

\* Position in s.profiles of the selected profile (there may be none).
Current(s) == Clamp(s.selected, Len(s.profiles)) + 1

\* A batch of parsed profiles, each under an id of its own.
Keyed(batch) ==
  [i \in DOMAIN batch |->
     [id |-> next + i - 1, cfg |-> batch[i].cfg, mode |-> batch[i].mode]]

NewIds(n) == next + n <= MaxIds /\ next' = next + n

-----------------------------------------------------------------------------
(* Loading and starting.                                                   *)

DefaultStore ==
  [profiles |-> <<[id |-> 0, cfg |-> DefaultCfg, mode |-> "Off"]>>,
   selected |-> 0, auto |-> FALSE]

\* Mutant: the switch is not cleared once migrated.
MigrateAgain(s) ==
  LET i == Current(s) IN
  IF s.auto /\ i \in DOMAIN s.profiles /\ s.profiles[i].mode = "Off"
  THEN [s EXCEPT !.profiles[i].mode = "All"]
  ELSE s

\* The legacy switch "connect the selected network on launch" becomes the
\* selected network's startup mode.
Migrate(s) ==
  LET i == Current(s) IN
  IF s.auto
  THEN [s EXCEPT !.auto = FALSE,
                 !.profiles = IF i \in DOMAIN @ /\ @[i].mode = "Off"
                              THEN [@ EXCEPT ![i].mode = "All"] ELSE @]
  ELSE s

Load(s) == Migrate([s EXCEPT !.selected = Clamp(@, Len(s.profiles))])

ShouldStart(mode, at_startup) ==
  \/ mode = "All"
  \/ mode = "AutoStart" /\ at_startup
  \/ mode = "Manual" /\ ~at_startup

CfgOf(s, id) == (CHOOSE p \in Range(s.profiles) : p.id = id).cfg

ToStart(s, at_startup) ==
  LET ids == {p.id : p \in {q \in Range(s.profiles) : ShouldStart(q.mode, at_startup)}}
  IN [id \in ids |-> CfgOf(s, id)]

\* Where nothing was saved no id of an earlier run is left, and the count of
\* ids starts over.
Launch ==
  /\ ~up /\ up' = TRUE
  /\ \/ disk = {} /\ store' = DefaultStore /\ next' = 1
     \/ \E s \in disk : store' = Load(s) /\ next' = next
  /\ page' = store'
  /\ \E at_startup \in BOOLEAN : asked' = ToStart(store', at_startup)
  /\ UNCHANGED <<disk, backup, dialogs, adrift, revived>>

\* Quit, a crash or a power cut: the state, the networks and the handlers end
\* with the process.
Exit ==
  /\ up /\ up' = FALSE
  /\ store' = DefaultStore /\ page' = DefaultStore
  /\ asked' = Nothing
  /\ dialogs' = <<>>
  /\ adrift' = FALSE /\ revived' = FALSE
  /\ UNCHANGED <<disk, backup, next>>

Init ==
  /\ up = FALSE
  /\ disk \in {{}} \cup {{s} : s \in OldConfigs}
  /\ next = Cardinality(UNION {IdsOf(s) : s \in disk})
  /\ backup = {}
  /\ store = DefaultStore /\ page = DefaultStore
  /\ dialogs = <<>>
  /\ asked = Nothing
  /\ adrift = FALSE /\ revived = FALSE

-----------------------------------------------------------------------------
(* What the handlers are made of.                                          *)

\* A handler of the page on display may run.
Input == up /\ (Modal => dialogs = <<>>)

\* save(): best effort, and not atomic: the file may be left as it was or,
\* cut short, not parse any more.
Save(s) ==
  /\ disk' \in {{s}} \cup IF DiskFaults THEN {disk, {}} ELSE {}
  /\ adrift' = (disk' # {s})

\* set.call(s): the state changes now, the page when it is next rendered.
Show(s) == store' = s /\ page' \in {s} \cup IF Lag THEN {page} ELSE {}

Commit(s) == Save(s) /\ Show(s)

Render ==
  /\ up /\ page # store /\ page' = store
  /\ UNCHANGED <<up, disk, backup, store, dialogs, asked, next, adrift, revived>>

Extended(s, new) ==
  [s EXCEPT !.profiles = @ \o new, !.selected = Len(s.profiles)]

Stopped(ids) == Restrict(asked, DOMAIN asked \ ids)

-----------------------------------------------------------------------------
(* Handlers that are done at once.                                         *)

\* on_edit!, for a field that reaches EasyTier.
Edit ==
  /\ Input
  /\ LET i == Current(page) IN
     /\ i \in DOMAIN page.profiles
     /\ \E c \in Cfg : Commit([page EXCEPT !.profiles[i].cfg = c])
  /\ UNCHANGED <<up, backup, dialogs, asked, next, revived>>

\* on_edit! for the startup mode: the box speaks up when its choice changes.
SetMode ==
  /\ Input
  /\ LET i == Current(page) IN
     /\ i \in DOMAIN page.profiles
     /\ \E mode \in Modes \ {page.profiles[i].mode} :
          Commit([page EXCEPT !.profiles[i].mode = mode])
  /\ UNCHANGED <<up, backup, dialogs, asked, next, revived>>

\* Mutant: the selection is not saved.
SelectUnsaved ==
  /\ Input
  /\ \E i \in DOMAIN page.profiles : Show([page EXCEPT !.selected = i - 1])
  /\ UNCHANGED <<up, disk, backup, dialogs, asked, next, adrift, revived>>

\* The network picker, and the Edit button of a network's card.
Select ==
  /\ Input
  /\ \E i \in DOMAIN page.profiles : Commit([page EXCEPT !.selected = i - 1])
  /\ UNCHANGED <<up, backup, dialogs, asked, next, revived>>

\* on_setting!: settings are not modelled, but the whole store is rewritten.
SetPreference ==
  /\ Input
  /\ Commit(page)
  /\ UNCHANGED <<up, backup, dialogs, asked, next, revived>>

\* The launch-at-sign-in switch rewrites the state to have the page rendered.
Nudge ==
  /\ Input
  /\ Show(page)
  /\ adrift' = (adrift \/ page # store)
  /\ UNCHANGED <<up, disk, backup, dialogs, asked, next, revived>>

AddNetwork ==
  /\ Input
  /\ NewIds(1)
  /\ Commit(Extended(page, Keyed(<<[cfg |-> DefaultCfg, mode |-> "Off"]>>)))
  /\ UNCHANGED <<up, backup, dialogs, asked, revived>>

Paste ==
  /\ Input
  /\ \E batch \in Files :
       NewIds(Len(batch)) /\ Commit(Extended(page, Keyed(batch)))
  /\ UNCHANGED <<up, backup, dialogs, asked, revived>>

\* Mutant: the copy keeps the id of the original.
DuplicateSameId ==
  /\ Input
  /\ Current(page) \in DOMAIN page.profiles
  /\ NewIds(1)
  /\ Commit(Extended(page, <<page.profiles[Current(page)]>>))
  /\ UNCHANGED <<up, backup, dialogs, asked, revived>>

Duplicate ==
  /\ Input
  /\ Current(page) \in DOMAIN page.profiles
  /\ NewIds(1)
  /\ Commit(Extended(page, Keyed(<<page.profiles[Current(page)]>>)))
  /\ UNCHANGED <<up, backup, dialogs, asked, revived>>

\* Mutant: the network is left running.
DeleteRunning ==
  /\ Input
  /\ \E i \in DOMAIN page.profiles :
       Commit([page EXCEPT !.profiles = RemoveAt(@, i),
                           !.selected = Clamp(@, Len(page.profiles) - 1)])
  /\ UNCHANGED <<up, backup, dialogs, asked, next, revived>>

\* Mutant: the selection may be left past the end.
DeleteUnclamped ==
  /\ Input
  /\ \E i \in DOMAIN page.profiles :
       /\ asked' = Stopped({page.profiles[i].id})
       /\ Commit([page EXCEPT !.profiles = RemoveAt(@, i)])
  /\ UNCHANGED <<up, backup, dialogs, next, revived>>

Delete ==
  /\ Input
  /\ \E i \in DOMAIN page.profiles :
       /\ asked' = Stopped({page.profiles[i].id})
       /\ Commit([page EXCEPT !.profiles = RemoveAt(@, i),
                              !.selected = Clamp(@, Len(page.profiles) - 1)])
  /\ UNCHANGED <<up, backup, dialogs, next, revived>>

\* The page offers one of the two, by what the snapshot said of the network
\* when it was rendered.
Connect ==
  /\ Input
  /\ \E p \in Range(page.profiles) :
       asked' = [id \in DOMAIN asked \cup {p.id} |->
                   IF id = p.id THEN p.cfg ELSE asked[id]]
  /\ UNCHANGED <<up, disk, backup, store, page, dialogs, next, adrift, revived>>

Disconnect ==
  /\ Input
  /\ \E p \in Range(page.profiles) : asked' = Stopped({p.id})
  /\ UNCHANGED <<up, disk, backup, store, page, dialogs, next, adrift, revived>>

-----------------------------------------------------------------------------
(* Handlers that open a file dialog.                                       *)

OpenDialog ==
  /\ Input
  /\ Len(dialogs) < MaxDialogs
  /\ \E d \in {"import", "backup", "restore"} :
       dialogs' = Append(dialogs, [for |-> d, store |-> page])
  /\ UNCHANGED <<up, disk, backup, store, page, asked, next, adrift, revived>>

\* Dialogs nest, so the innermost one is the first to return.
Return(d) ==
  /\ up /\ dialogs # <<>>
  /\ Last(dialogs).for = d
  /\ dialogs' = Front(dialogs)

\* Cancelled, or the file cannot be read or parsed.
Cancelled ==
  /\ \E d \in {"import", "backup", "restore"} : Return(d)
  /\ UNCHANGED <<up, disk, backup, store, page, asked, next, adrift, revived>>

Imported ==
  /\ Return("import")
  /\ \E batch \in Files :
       NewIds(Len(batch)) /\ Commit(Extended(Last(dialogs).store, Keyed(batch)))
  /\ UNCHANGED <<up, backup, asked, revived>>

BackedUp ==
  /\ Return("backup")
  /\ backup' \in {{Last(dialogs).store}} \cup IF DiskFaults THEN {backup, {}} ELSE {}
  /\ UNCHANGED <<up, disk, store, page, asked, next, adrift, revived>>

\* Mutant: restored networks keep the ids they were saved under.
RestoredSameIds(s) == [s EXCEPT !.selected = Clamp(@, Len(s.profiles))]

\* parse_backup: fresh ids, at least one network, everything else as it was.
Restored(s) ==
  [s EXCEPT !.profiles = Keyed(@), !.selected = Clamp(@, Len(s.profiles))]

RestoreDone ==
  /\ Return("restore")
  /\ \E s \in backup \cup OldBackups :
       /\ s.profiles # <<>>
       /\ NewIds(Len(s.profiles))
       /\ asked' = Stopped(IdsOf(Last(dialogs).store))
       /\ Commit(Restored(s))
       /\ revived' = (revived \/ s.auto)
  /\ UNCHANGED <<up, backup>>

Next ==
  \/ Launch \/ Exit \/ Render
  \/ Edit \/ SetMode \/ Select \/ SetPreference \/ Nudge
  \/ AddNetwork \/ Paste \/ Duplicate \/ Delete
  \/ Connect \/ Disconnect
  \/ OpenDialog \/ Cancelled \/ Imported \/ BackedUp \/ RestoreDone

Spec == Init /\ [][Next]_vars

-----------------------------------------------------------------------------
(* Properties.                                                             *)

InRange(s) == s.selected = Clamp(s.selected, Len(s.profiles))

TypeOK ==
  /\ up \in BOOLEAN
  /\ disk \subseteq Store /\ backup \subseteq Store
  /\ store \in Store /\ page \in Store
  /\ dialogs \in Seq(Dialog)
  /\ asked \in [DOMAIN asked -> Cfg] /\ DOMAIN asked \subseteq 0..next - 1
  /\ next \in 0..MaxIds + 1
  /\ adrift \in BOOLEAN /\ revived \in BOOLEAN

Distinct(s) ==
  \A i, j \in DOMAIN s.profiles : s.profiles[i].id = s.profiles[j].id => i = j

\* No two saved networks share an id, in the state, in a captured store or on
\* disk: the engine keys what runs by it, and a command for one network would
\* reach the other.
IdsUnique ==
  /\ Distinct(store) /\ Distinct(page)
  /\ \A s \in disk : Distinct(s)
  /\ \A i \in DOMAIN dialogs : Distinct(dialogs[i].store)

\* The index of the selected network, which handlers use without a check, is
\* that of a network whenever there is one.
SelectionInRange ==
  up => InRange(store) /\ InRange(page)

\* If Polaris died now, the next launch would show what is on display now,
\* and start what that says: Off stays Off.  Not so while the last change is
\* not on disk; and the switch that an older backup brings back turns the
\* selected network from Off to All, once, and nothing else.
RelaunchShowsSame ==
  up /\ ~adrift =>
    /\ \A s \in disk : Load(s) = IF revived THEN Migrate(store) ELSE store
    /\ disk = {} => store = DefaultStore

\* Restored networks are all down when they appear: their ids are new, so
\* none is taken for one that runs under an old id.
RestoredAreDown ==
  [][RestoreDone => IdsOf(store') \cap (DOMAIN asked \cup DOMAIN asked') = {}]_vars

\* Restoring a backup "stops everything currently running first".
RestoreStopsAll == [][RestoreDone => DOMAIN asked' = {}]_vars

\* The abstract list of networks, and its promise.
ListOf(s) == [id \in IdsOf(s) |-> CfgOf(s, id)]
OnDisk    == IF disk = {} THEN Nothing ELSE ListOf(CHOOSE s \in disk : TRUE)

Book == INSTANCE Ledger WITH
  open    <- up,
  list    <- IF up THEN ListOf(store) ELSE OnDisk,
  running <- asked,
  used    <- 0..next - 1,
  saved   <- disk # {}

LedgerSpec == Book!Spec

\* Every copy of the store that a handler may go on with is the state, and
\* the state is on disk.
UpToDate ==
  /\ ~adrift /\ page = store
  /\ \A i \in DOMAIN dialogs : dialogs[i].store = store

Listed == DOMAIN asked \subseteq IdsOf(store)

\* A late dialog, a lagging page or a lost save may undo what was done before,
\* or start what is no longer listed; nothing else can go wrong.  Whenever the
\* copies of the store agree and only listed networks run, a handler whose save
\* succeeds is a step of the list, and leaves only listed networks running,
\* also when a dialog is open or the page will lag behind.
LedgerSteps ==
  [][UpToDate /\ Listed /\ ~adrift' => [Book!Next]_(Book!vars) /\ Listed']_vars

=============================================================================
