# Polaris: a TLA+ model and its proofs

Polaris (`src/`) is a Windows desktop front end, written in Rust, for the mesh
VPN EasyTier. One process holds a WinUI window, a tray icon, the user's saved
networks and an embedded EasyTier engine that can run several networks at
once. This directory models the parts of it that decide something, checks them
with TLC on small instances and proves the most important facts with TLAPS for
every value of the constants.

Paths below are relative to the crate's sources, `src/src/`.

## 1. The system

| Component | State | Operations | Model |
|---|---|---|---|
| Engine worker (`engine.rs`) | command channel; map of live instances; map of start errors; published snapshot behind a mutex | `start`, `stop`, the `select!` loop with its 1 s tick, `publish`, `net_snapshot`, `snapshot` | `Engine`, `NetworkService` |
| Launching (`main.rs`, `instance.rs`, `elevate.rs`, part of `ui.rs`) | per process: step, rights, takeover flag; the named mutex; `always_admin` on disk | `exists`, `wait_until_free`, `acquire`, `broadcast_show`, `relaunch_elevated`, "Restart as administrator" | `Launch` |
| Profiles and their store (`config.rs`, handlers of `ui.rs`, `dialog.rs`, part of `main.rs`) | root state `store`; the store each page has captured; `config.json`; the backup file; open file dialogs | `Store::load`, `save`, `parse_backup`, the edit macros, add, import, paste, duplicate, delete, backup, restore, connect, disconnect, start at launch | `Profiles`, `Ledger` |
| Tray and main window (`tray.rs`, effects of `main.rs`) | the seven statics of `tray.rs`; main window; icon; session; taskbar | `ensure_window_hook`, `maybe_hide_on_startup`, `subclass_proc`, `hide_to_tray`, `show_hint`, `run`, `wndproc`, `quit` | `TrayWindow` |
| EasyTier configuration conversion (`config.rs`, panels and file buttons of `ui.rs`) | none of its own: the fields of a profile, a document that travels | `to_network_config`, `from_network_config`, TOML and JSON import and export, `parse_profiles_from_text`, the editor's panels, `ensure_ext` | `NetConfig`, `Sharing` |
| Launch at sign-in (`autostart.rs`, parts of `main.rs`, `elevate.rs`, `ui.rs`) | the OS's Run value or StartupTask; the cached `STATE` of each process | `init`, `is_enabled`, `set_enabled`, the switch, `--startup` | `Autostart` |
| Diagnostics log (`logging.rs`, parts of `main.rs`, `ui.rs`) | ring of 4000 lines; the open file; the files of a folder; the filter | `init`, `set_level`, `Fanout::write`, `recent`, `clear`, `cleanup`, `export` | `Logging`, `Journal` |
| Pages and widgets (`ui.rs`) | tab, pane, sub-tab | layout, formatting | not modelled |
| Localisation (`i18n.rs`) | one global language | table lookup | not modelled |
| Build, packaging, home page | none at run time | | not modelled |

How they interact:

- The UI thread and the tray thread hold clones of one `Engine`. They only send
  commands into its channel and read its last published snapshot; nothing
  waits for the effect of a command.
- UI handlers are closures that have captured the store of the render they
  belong to. A handler copies that store, changes the copy, writes all of it to
  `config.json` and makes it the new root state; the page sees it with the next
  render.
- File dialogs run a message loop inside the handler that opened them. They
  are shown without an owner (`dialog.rs:66`, `dialog.rs:81`), so the main
  window goes on taking input.
- The UI thread and the tray thread share the atomics of `tray.rs`.
- Processes meet only through the named mutex, a broadcast message,
  `config.json`, the Run value or StartupTask, and the log files.
- Every thread logs; the filter is set by an effect of the root component.
- Networks leave Polaris as files or text and come back, also by way of the
  official EasyTier GUI.

What is hard about it: a worker that awaits between reading and publishing
while commands queue up; handlers that work on captured data; file dialogs that
return long after; processes that start, prompt, hand over and die in any order;
a window and a taskbar that appear when they like; saves that are best effort;
an entry for sign-in that others may change at any time; files that stay open
past midnight; formats that keep less than they are given.
`PROJECT.json` lists each such hazard at its line, with the properties that
guard it or the reason why none does.

What makes each component correct:

- *Engine*: a network is never both up and failed; what the UI is shown at rest
  is true of the instances that are live now; commands take effect once, in
  order, on the right network, and are seen in the end; a failed start stays
  visible.
- *Launching*: no two instances both claim the mutex or both have
  administrator rights; nobody bows out to nobody; a handover ends with
  somebody running.
- *Profiles*: ids are unique and the selection in range whatever the order of
  handlers; a launch shows what was on display, if that was saved, so that
  "Off" stays off; each handler does to the list of networks what its button
  says, if it saw the newest store; restored networks start out down.
- *Tray*: a sign-in launch ends up hidden, and hides once; the window is hooked
  in the end; the hint comes once; a session that ends is not held up.
- *Configurations*: whoever imports what was exported joins the same network in
  the same way; nothing from outside leaves the range of its field; what was
  written can be read.
- *Launch at sign-in*: the switch tells what the next sign-in does; the entry
  follows the exe; a sign-in shows no window.
- *Log*: the files are one journal, in order, that loses only lines past their
  time; the panel shows what is on disk; switched off, it goes quiet.

## 2. Modules

```
NetworkService <- refined by - Engine     <- MCEngine      EngineProofs
                               Launch     <- MCLaunch      LaunchProofs
Ledger         <- refined by - Profiles   <- MCProfiles    ProfilesProofs <- LedgerProofs
                               TrayWindow                  TrayProofs
                               Autostart  <- MCAutostart   AutostartProofs
Journal        <- refined by - Logging                     LoggingProofs
                   NetConfig <- Sharing   <- MCSharing     SharingProofs
```

Definitions marked `Mutant:` in a module are the plausible bugs that
`PROJECT.json` pairs with the properties; no specification uses them.

### Engine and NetworkService

`Engine` follows `engine.rs`. `rx` is the channel; `instances` and `errors` are
the worker's two maps; `pc` says whether the worker waits in `select!` or is
inside `publish`; `todo` and `snap` are the loop of `publish` and the snapshot it
builds; `state` is the published snapshot. `Start` and `Stop` send; `RecvStop`,
`RecvStart` and `Tick` are the arms of the `select!`, each ending in
`BeginPublish`; `ReadInstance` is one await of `publish`, `StoreSnapshot` its
last line. `InstanceStep` is EasyTier (external): an instance connects, loses
its peers or fails whenever it likes, also between two awaits. A start may fail
for any reason and does fail for an invalid setting; without administrator
rights `Effective` sets `no_tun`. A row keeps its status and whose details it
shows (`shows`); numbers and peer tables are left out.

`NetworkService` is the promise: each network is down, up or failed, commands
are applied in order, the view is replaced as a whole, and the next command is
applied only when the view agrees with the networks. `Engine!ServiceSpec`
states the refinement: the two maps are read as one state per network.

### Launch

Each member of `Proc` is a process that is started once, of the copy of Polaris
that `CopyOf` says; a copy in `Packaged` is an MSIX build, which never relaunches
itself. `faulted` records that a process has quit, died or overrun its 5 seconds. `pc` is its place in
`main`: the first test (`Peek`, or `WaitUntilFree` with the takeover flag), the
elevation step (`Decide`, `AcceptPrompt`, `RefusePrompt`), `Acquire`, running,
`Bow` and exit; `Ask`, `AcceptAsk`, `RefuseAsk` are the button of the settings
page. The mutex exists while `handles` is not empty; `End` (external) frees the
handle of a process that has left. `exists()` opens and closes its handle at
once; the instant in between is left out.

External facts about Windows the model relies on: a process without
administrator rights is refused full access to a mutex created with them
(`guarded`), and a message posted to a window of higher integrity is dropped.
The message of `broadcast_show` counts as received by every process that runs
by then; that its window may not be hooked yet is left to `TrayWindow`.

### Profiles and Ledger

`store` is the root state, `page` the store the handlers on display have
captured, `disk` and `backup` the files (a set with at most one store: empty
where there is none that parses). `dialogs` is the stack of handlers waiting for
their dialog, each with its captured store: nested message loops return last in,
first out. `asked` is what the last command sent about each network asks for;
what the engine does with it is `NetworkService`'s business. Every handler is
one action and includes its save (`Commit`). What a profile's fields say to
EasyTier is one value `cfg`; the startup mode is kept, as `Migrate` and
`ToStart` read it; of the settings only the legacy `auto_connect` is kept.
`gen_id` (time and counter) is the next number: ids are never handed out twice.
Where nothing was ever saved, no earlier id exists anywhere, and the count
starts over. Two variables are history: `adrift`, whether the state has changed
without the file since the last save that succeeded, and `revived`, whether a
restored backup has brought the legacy switch back.

`Ledger` is the plain list of networks: added under unused ids, edited one at a
time, removed together with what runs under them, replaced as a whole, there
again at the next launch; only listed networks run. `Profiles` does not implement
it as a whole: a dialog that returns late, a page that lags behind or a save that
is lost undoes what was done before, and a card that is gone may still be
connected. What holds nevertheless is said by two properties.

- `LedgerSteps`: wherever every copy of the store a handler may go on with is the
  saved state (`UpToDate`) and only listed networks run (`Listed`), the next step
  is one of `Ledger`'s or a stutter, and again only listed networks run, unless
  that very step's save is lost. Dialogs may be open, the page may lag from here
  on, saves may have failed before.
- `RelaunchShowsSame`: unless the last change is not on disk, the next launch
  shows the state of now. The one difference is the legacy switch of a backup by
  an earlier version: it turns the selected network from Off to All once
  (`Migrate`), and changes nothing else.

With the constants of `profiles_ledger` (dialogs that block, no lag, saves that
succeed) the hypotheses of `LedgerSteps` always hold, and the refinement is checked
as a whole (`LedgerSpec`).

### TrayWindow

`mirror`, `hook`, `startHidden`, `hintShown`, `shuttingDown` are
`CLOSE_TO_TRAY`/`MINIMIZE_TO_TRAY`, `HOOKED` with the window hooked,
`START_HIDDEN`, `HINT_SHOWN` and `SHUTTING_DOWN`. `Mount` is the first render,
where every effect runs; `Tick` and `MirrorSetting` are the two effects of
`main.rs` by themselves. `Candidates` is what `find_main_window` may return: it
takes the first captioned window of the process in z-order, so an open file
dialog is a candidate too. `UserClose`, `Minimize`, `QueryEndSession`,
`EndSession` and `SessionClose` are the messages of `subclass_proc`;
`MakeTrayWindow` and `AddIcon` are the tray thread. The taskbar (external) comes
up, goes away and takes the icons with it. The window counts as shown when it
appears. `ICON_SET`, the tooltip and the window's icon are display only.

### NetConfig and Sharing

`NetConfig` has the two shapes, `Profile` and EasyTier's `NetworkConfig`, and the
two conversions, field by field: what is trimmed, dropped when it is incomplete
or switched off, defaulted when it is absent, clamped, and cut to 16 bits. An
`Option` is a set with at most one element. The thirty-odd fields that are copied
as they are, with the lists of routes, subnets and listeners, are one value of
`Flags`; the fields no `NetworkConfig` has belong to `Profiles`.

`Sharing` puts them to use. `list` holds networks, each with what its author
`meant`, and `doc` a document under way, of one of the shapes `profile`,
`store`, `config`, `list` and `toml`, with the suffix of its name. The panels of
the editor decide which profiles exist: number boxes keep to their range, or
give 0 when they are cleared (`Boxed`), lists are trimmed line by line, what is
switched off is not offered. Writers are `ExportPolaris`, `ExportJson`,
`ExportToml`, `CopyConfig`, `Backup` and, external, the official GUI
(`ForeignWrites`); `Parsed` chooses the parser by the suffix or by the first
character. `Toml` is EasyTier's: the addresses to call survive, the method that
named them may come back as another one that calls the same. `Meaning` says what
a configuration asks of the engine and `Shown` what the editor's pages say, so
that `SameNetwork` compares the two ends and not two runs of the conversion.
`Sound` says of which networks it speaks: an author who fills in what was
switched on. That includes the port of a SOCKS5 proxy and the port and address
of a VPN portal, for which `from_network_config` puts its defaults when a foreign
configuration leaves them out, so that the network asked for is another one; a
fixed address may be missing, which comes back as the empty text and is asked
for as none. The foreign configurations of `MCSharing`
leave such fields out or empty.

`ImportsInRange` says that the ports and prefix lengths of an imported network
are ones its boxes take. The history `loose` names the fields of which that is
not so: all of a network written in Polaris, where a cleared box gives 0, and of
an imported one exactly the proxy ports whose lower 16 bits are zero
(`CutToZero`), which `from_network_config` takes for positive and then cuts to 0.

### Autostart

Processes are slots that are taken again and again; those in `Packaged` are of
the Store's copy. `entry` is the Run value (absent, the exe, a dead path) and
`task` the StartupTask. `Query` and `Refresh` are the two halves of `init`,
between which another process may act, and `Query` may fail; `SetEnabled` is the switch, by `RegSet` or
`PackagedSet`, each of which may fail. `Enter` is what `main` does after `init`,
`Relaunch` an elevated relaunch from any point, `Leave` quitting or dying. The
history `stale` names the processes whose cached answer somebody else has
overtaken, or whose last call failed; `settled`, `opened` and `called` are
history for the other two properties. A relaunched child leaves at once if it
meets a running instance; that it waits is `Launch`'s business.

### Logging and Journal

`Log` makes an event into a line with a number and a day, if the filter lets it
pass; `WriteFile` and `PushRing` take it to the two sinks, each under its own
lock, so threads may overtake each other in between. The file is opened with the
first line after a start and stays open (`handle`); opening it and writing to it
may each fail, which `lost` remembers. `Cleanup` goes by the time of
the last write. It removes any of the files that are old enough: with days for a
clock, a file last written on the day of the cutoff may be before its hour or
after, and the folder may not be listed, the time of a file not be read or its
removal fail, all without a word (`logging.rs:100-111`), so that an old file may
outlive newer ones. `ApplyLevel` is the effect of the root
component. `Exported` is what `export` writes, the files in the order of their
names; `Journal` says what that must be: a sequence that grows by one line at
its end and of which any lines may go that are old enough, from any place, while
the others stay in their order. The parts of
`Settings` the component reads are kept as on disk and on the page alike (their
saves are `Profiles`'). `logs_dir` is used by nobody else: exports are saved
elsewhere, and there is one instance.

## 3. Runs

| Run | Properties | Instance, and why it is enough |
|---|---|---|
| `engine_safety` | `TypeOK`, `ErrorsAreNotLive`, `PublishedIsTruthful`, `FailureStays`, `ServiceSpec` | 2 networks; two good settings (so a new instance differs from the one it replaced) and a bad one; one queued command, as the worker takes commands one at a time and a send may fall between any two of its steps |
| `engine_live` | `StopIsSeen`, `StartIsSeen`, `ConnectedIsShown` | 2 networks, 2 queued commands, so that a command waits behind one for the other network |
| `launch` | `TypeOK`, `Exclusion`, `UniformExclusion`, `NobodyIsStranded`, `HandoverCompletes`, `SomeoneRuns` | 3 processes of one unpackaged copy, with quits, kills and overruns: one that runs, one that relaunches and its child; the last three properties hold up to the first fault |
| `profiles_ledger` | `TypeOK`, `LedgerSpec` | 3 ids, so that a network before, at and after the selected one can be deleted; 2 configurations, so that a wrong one would show; mode Off only, as `Ledger` does not speak of modes (`Legacy` still starts one at launch); saves succeed, dialogs are modal, pages are up to date |
| `profiles_races` | `IdsUnique`, `SelectionInRange`, `RelaunchShowsSame`, `RestoredAreDown`, `LedgerSteps` | 2 ids; modes Off and All; pages lag behind, a dialog lets the window take input, saves fail or are cut short, old backups come back |
| `tray_window` | `TypeOK`, `HidesOnce`, `HintsOnce`, `NeverLingers`, `HookInstalled`, `SignInHides` | the whole module, every fault allowed; nothing is bounded |
| `autostart` | `TypeOK`, `SwitchIsTrue`, `EntryFollowsTheExe`, `QuietSignIn` | 3 slots of the exe, so that an init, a switch and a relaunch overlap, and 1 of the Store's; nothing is bounded |
| `sharing` | `TypeOK`, `SameNetwork`, `ReadsBack`, `ImportsInRange` | 1 network at a time, as a conversion sees no other; 2 edits anywhere on the way, so that two fields that depend on each other (a switch and its box, a method and its list) meet; texts with and without blanks; the GUI's numbers below, at and beyond every boundary, among them ports of 65616 and 65536 |
| `logging` | `TypeOK`, `PanelIsOnDisk`, `JournalSpec`, `DisabledGoesQuiet` | 2 threads; 3 days, so that a file opened on the first is still written on the second and old on the third, and one that should have gone may outlive a newer one; 3 events and a ring of 1, so that it overflows |

`MaxQueue`, `MaxIds` and `MaxDialogs` bound commands in the channel, ids handed
out and dialogs open at once (one in the runs; the proofs allow any number, one
within the other), `MaxNetworks` and `MaxEdits` the networks and the edits in
`Sharing`, `MaxDay` and `MaxEvents` the days and the events in `Logging`; there
are no other bounds, and the code bounds none of these. Deadlock is checked in
the engine, profiles, sharing and autostart runs; in the launch runs every
process of the finite `Proc` may be gone, in the tray runs the one process may
have ended, and in the logging run Polaris may stop for good when the days and
events are used up.

Runs that TLC refutes, each a statement of the repository that its code does not
keep (`findings` in `PROJECT.json` quotes them):

| Run | Property | What happens |
|---|---|---|
| `launch_one_instance` | `OneInstance` | an unelevated launch that claims after an elevated one is refused the mutex (`ERROR_ACCESS_DENIED`), which `acquire` takes for success |
| `profiles_restore` | `RestoreStopsAll` | a network added and connected while the restore dialog is open keeps running without a profile |
| `tray_icon` | `HiddenGetsIcon` | an icon that could not be added, or was dropped by a restart of Explorer, is never added again |

Seen while modelling and not run:

- `delete_button` says "Disabled when only one network remains" (`ui.rs:1107`)
  while its body allows the last one to be deleted.
- The message of a second launch without administrator rights never reaches an
  elevated window (`instance.rs:68`), against `instance.rs:4-7`.
- An old backup brings the legacy switch back, and the next launch turns Off
  into All (`config.rs:660`, `1007`), against `config.rs:1005-1006` and `77`;
  `RelaunchShowsSame` says that it does this once, to the selected network, and
  nothing else.
- `SHUTTING_DOWN` is not reset when the end of the session is called off, so
  that closing then quits although `close_to_tray` is on.
- An import that returns late puts back what was changed while its dialog was
  open.
- The tray icon may bring a file dialog forward instead of the main window; a
  close in the first second comes before the hook.
- A port of 65536 or more in an imported configuration passes `port > 0` and is
  then cut, 65536 to 0 (`config.rs:552`, `559`; `162`, `164`): the network
  imported is not the one exported, and its box does not take a 0
  (`CutToZero` is the exception that `ImportsInRange` makes).
- Pasted TOML that begins with a table (`[`) is taken for JSON and refused
  (`config.rs:687`); EasyTier's own dump begins with a key.
- A backup without networks is refused by Restore but imported as one network
  without a name (`config.rs:752`; `Phantom`).
- Blanks around the texts of a foreign configuration are trimmed on the way out
  only, and an empty portal address comes back as the default one: `Sound`
  leaves such configurations out.
- `ensure_ext` changes the suffix after the dialog has asked about overwriting,
  so another file may be overwritten (`ui.rs:774`).
- A dump exported into the logs folder under a `.log` name is part of the next
  one, and one saved over today's file truncates it (`logging.rs:117`).
- An instance refused the mutex (`launch_one_instance`) writes to the same log
  files and may clean up one that is open.
- With both copies installed and set to start at sign-in, the second to start
  makes the first show its window (`QuietSignIn` counts the packaged start as a
  call, as its manifest passes no `--startup`).

## 4. Fairness

- `Engine!FairSpec`: weak fairness of the worker (tokio runs it, and
  `get_running_info` answers: there is no timeout around that await) and strong
  fairness of `Recv` (`select!` without `biased` picks a ready arm at random, so
  a waiting command is not passed over by the tick for ever). Nothing is assumed
  of instances, users or senders.
- `Launch!FairSpec`: the OS runs every process. The user owes the prompts no
  answer; `SomeoneRuns` therefore allows a prompt that is still open.
- `TrayWindow!FairSpec`: the window comes up, the root renders and its clock
  ticks (`WF(Tick)`); `WF(Tick /\ hook' # hook)` says that
  `SetWindowSubclass` does not fail for ever; an announced end of the session
  takes place or is called off; the tray thread goes on; a missing taskbar comes
  back. `HookInstalled` and `SignInHides` assume that no file dialog is open, as
  the dialog may be hooked in the window's place.
- `Logging!FairSpec`: the effect runs after the render it belongs to, and a thread
  inside `Fanout::write` goes on (the locks are held for one line). Nothing is
  assumed of the threads' events, the user or the clock; `DisabledGoesQuiet`
  speaks of runs in which diagnostics stay off and Polaris stays up.
- `Profiles`, `Sharing` and `Autostart` have no liveness: nothing in
  them has to happen.

## 5. Proofs

All theorems hold for every value of the constants that meets the module's named
assumption (`EngineAssumption`, `LaunchAssumption`, `ProfilesAssumption`,
`TrayAssumption`, `AutostartAssumption`, `SharingAssumption`, `NetConfigAssumption`,
`LoggingAssumption`: types, that `Blank` is no setting, that the stores earlier
versions left number their networks from 0, and what trimming does), whatever
the number of networks, processes, dialogs, threads, events, days or imported
profiles, and the lengths of the queue, of the ring and of every list. None has
a hypothesis beside these. Every safety property of every passing run is a
theorem but one, `LedgerSpec`: it holds with the constants of its run only, and
its steps are proved without them, as `LedgerSteps`.

- `EngineProofs`. `TypeOK` and `ErrorsAreNotLive` alone do not carry
  `PublishedIsTruthful` through a publish in progress. The invariant `IInv` adds
  what the half-built snapshot says: the rows of instances already asked are
  answers of the instance that is still the live one, the others are empty
  (`BuildingIsTruthful`), and that at rest the published view is truthful
  (`ViewIsTruthful`). It is inductive because instances change their phase but
  not their configuration during `publish`, and only the worker, which is busy,
  replaces them. `Invariance`, `TypeCorrect`, `ErrorsNeverLive`,
  `PublishedAlwaysTruthful` and `FailuresStay` follow; `Refinement` maps
  `RecvStop` and `RecvStart` to `Apply`, `StoreSnapshot` to `Refresh`, a send to
  `Submit`, and everything else to a stutter.
- `LaunchProofs`. `IInv` adds to `TypeOK` that at most one running or asking
  process holds the mutex (`OneHolder`), that one running without it has no
  administrator rights while some process started so far has them
  (`StraysAreRefused`), as a guarded mutex tells too (`GuardIsElevated`), and
  `NobodyIsStranded`, which is inductive beside them because `faulted` remembers
  every quit, death and overrun. From it:
  `MutualExclusion`, `UniformMutualExclusion`, `NobodyStranded`.
- `ProfilesProofs`. `IdsUnique` is not inductive: a stale page extended by new
  networks is sound only if their ids are new to that page as well. The
  invariant `IInv` is about every copy of the store a handler may yet go on with
  (`DisplaySound`, `DiskSound`, `DialogsSound`): each is `Sound`, that is typed,
  with distinct ids that are all below `next`, and the two on display have their
  selection in range. What is started, `AskedKnown`, has ids below `next` too.
  The first half of the module shows what the operations make of a sound store,
  wherever it comes from (`EditSound`, `ExtendedSound`, `DeleteSound`,
  `LoadSound`, `RestoredSound`); the second half has a lemma per handler. From
  it `TypeCorrect`, `IdsAlwaysUnique`, `SelectionAlwaysInRange` and, as a restore
  hands out ids from `next` on, `RestoredAlwaysDown`. Lag, nested dialogs and
  lost saves are all allowed.
- `LedgerProofs`. The first half shows what each operation makes of the list a
  store stands for (`ListOf`), so that Delete at an index is the removal of an id
  and an import an extension under unused ids. To `IInv` the invariant `KInv` adds
  `FileInv`: one file at most, no history while nothing runs, `RelaunchShowsSame`
  itself, and `SwitchOff`, that unless a backup has brought it back the legacy
  switch is off in every copy that a handler may yet save, the waiting dialogs'
  among them; without that a late import could save a switch that the
  next launch migrates once more. It is inductive whatever returns late, lags or
  fails to save, and gives `RelaunchAlwaysShowsSame`. `HandlersKeepTheLedger` takes
  a state in which `KInv`, `UpToDate` and `Listed` hold and has a lemma per handler,
  each naming the action of `Ledger` it is (`StepBook`): for all its captured store,
  its indices and its saving of the whole file, Delete is `Remove`, the four ways of
  adding are `Add`, and Launch is `Open` of what the file lists.
- `TrayProofs`. Each one-shot is kept by a flag; the invariant says what the flag
  knows of the history: `HideFlag`, `HintFlag`, `Remembered`. From it
  `HidesAtMostOnce`, `HintsAtMostOnce` and `NothingLingers`.

- `AutostartProofs`. `SwitchIsTrue` needs `FoundIsThere`: a process between the
  two halves of `init` that nobody has overtaken still has its Run value.
  `QuietSignIn` needs `OnlyTheHidden`: until somebody else starts Polaris, at most
  one process is alive, and it carries `--startup`. With these and `TypeOK` both
  are inductive, as is `EntryFollowsTheExe` by itself. From it `TypeCorrect`,
  `SwitchTells`, `PathFollows`, `SignInStaysQuiet`.
- `LoggingProofs`. `PanelIsOnDisk` needs `OnItsWayIsKept`: an event whose next sink
  is the ring has been to the file or was lost there. A cleanup would break it;
  that it runs only at a start, when nothing is in memory, is `DownIsEmpty`. Files
  only grow otherwise (`PutStep`), whoever holds which of the two locks. From it
  `TypeCorrect` and `PanelAlwaysOnDisk`. `ImplementsJournal` needs more (`DInv`):
  the open file is the one of the latest day (`OpenIsLast`), no line is stamped
  after its file was written (`LinesInTime`) nor after today (`StampsPast`). So a
  line that is written goes to the end of all files put together
  (`FlattenAppend`). A cleanup takes any set of the old files: that the files put
  together lose only lines of those, which are as old as their files, and that the
  others keep their order, is `FlattenThins`, by induction over the files, each of
  which stays (`ThinnedStays`) or goes (`ThinnedGoes`); `Thinned` names the map
  from the lines that stay to their old places that `Expire` asks for.
- `SharingProofs`. The pure part shows two things of the conversions: what
  `to_network_config` makes of a profile asks the engine for what the editor
  shows (`ToMeans`), and what `from_network_config` makes of a sound configuration
  shows what that asks for (`FromShows`); trimming twice is trimming once
  (`CleanList`), complete rows stay complete, and numbers survive the cut to 16
  bits when they fit. Of any configuration at all, sound or not, every number is
  in its box's range but for the ports of `CutToZero` (`FromInRange`). The invariant says the first of every network in the list
  and the second of every network in a document (`PNets`, `CNets`), and of every
  document that its suffix or first character lead to the parser of its shape
  (`DocSound`). From it `TypeCorrect`, `AlwaysSameNetwork`, `AlwaysReadsBack`,
  `ImportsAlwaysInRange`: any number of exports and imports, in any mixture.

`Filtered` (lists of texts and rows) and `FlattenSeq` (log files) are recursive
functions over the length of a list. What the two modules say of them is proved
by induction on numbers in a first-order form, `SetInduction`, which follows from
the pigeonhole principle for finite sets; that the functions exist is the first
use of it.

Each inductive invariant was checked by TLC on the instance of its run before it
was proved. One attempt changed the model: `SameNetwork` was false for foreign
configurations with a proxy or portal that is on but not filled in, or with
`dhcp` off and no address, none of which the run had; `Sound`, `Meaning` and
`MCSharing` now say what section 2 says of them.

Only model-checked: the liveness properties (`engine_live`, `HandoverCompletes`,
`SomeoneRuns`, `HookInstalled`, `SignInHides`, `DisabledGoesQuiet`), as fairness
and ENABLED are out of the prover's reach, `LedgerSpec` as a whole, and the refuted
statements.

## 6. Not modelled, and the plan

What could be added next, in this order:

1. A composition of `Profiles` with `NetworkService`, to replace `asked` by the
   engine itself: what Delete, Restore and quick Connect/Disconnect do while
   commands are still in the channel.
2. A composition of `Launch` with `Autostart`, with both copies installed:
   `Launch` is checked with one unpackaged copy only.

Of Windows, `Autostart` leaves out what Task Manager stores beside a Run value
(StartupApproved), tasks set by policy, and an elevation with another user's
credentials, whose Run key is another one. `Logging` leaves out the second
instance that `launch_one_instance` finds.

Left out for good (status `not_modelled`): page layout, formatting and the snapshot's numbers (display
data); localisation (a table and one global); build scripts, packaging and the
web site (nothing runs); EasyTier itself, of which only what `engine.rs` asks
and is told is modelled.
