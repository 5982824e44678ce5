----------------------------- MODULE TrayWindow -----------------------------
(***************************************************************************)
(* src/tray.rs and the effects of src/main.rs that drive it: the main      *)
(* window, the hook that hides it to the tray, and the tray's icon.        *)
(*                                                                         *)
(* Three parties act: the UI thread (renders once per second, owns the     *)
(* main window and its hook), the tray thread (makes the icon once), and   *)
(* Windows with its user: the taskbar may not be up yet at sign-in or may  *)
(* be restarted, which drops every icon, and the end of the session may be *)
(* announced and then called off.  The statics of tray.rs are all that the *)
(* threads share.                                                          *)
(***************************************************************************)
EXTENDS Naturals

CONSTANTS
  Dialogs,       \* may file dialogs be open (see dialog.rs: without an owner)?
  CalledOff,     \* may the end of the session be called off?
  ShellRestarts, \* may the taskbar be restarted?
  Faults         \* may the hook or the tray's window fail to be made?

ASSUME TrayAssumption == {Dialogs, CalledOff, ShellRestarts, Faults} \subseteq BOOLEAN

VARIABLES
  alive,        \* is the process running?
  mounted,      \* has the root component been rendered?
  win,          \* the main window
  dialog,       \* is a file dialog open?
  setting,      \* close_to_tray and minimize_to_tray in the store
  mirror,       \* CLOSE_TO_TRAY and MINIMIZE_TO_TRAY
  hook,         \* HOOKED, and the window that was hooked
  startHidden,  \* START_HIDDEN
  hintShown,    \* HINT_SHOWN
  shuttingDown, \* SHUTTING_DOWN
  session,      \* "on"; once every window has been asked, "told" if the hook
                \* was there to hear of it, "ending" if not
  tray,         \* the tray thread: "starting", "window" once TRAY_HWND is
                \* set, "running" or, having failed, "dead"
  icon,         \* is the icon in the notification area?
  shell,        \* is the taskbar up?
  hints,        \* history: balloons shown
  autoHides     \* history: windows hidden because of START_HIDDEN

statics == <<mirror, hook, startHidden, hintShown, shuttingDown>>
desktop == <<tray, icon, shell>>
vars == <<alive, mounted, win, dialog, setting, statics, session, desktop,
          hints, autoHides>>

Behaviour == [close : BOOLEAN, minimize : BOOLEAN]
Window    == {"none", "shown", "minimized", "hidden"}

Init ==
  /\ alive = TRUE /\ mounted = FALSE
  /\ win = "none" /\ dialog = FALSE
  /\ setting \in Behaviour
  /\ mirror = [close |-> TRUE, minimize |-> FALSE]
  /\ hook = "none"
  /\ startHidden \in BOOLEAN
  /\ hintShown = FALSE /\ shuttingDown = FALSE
  /\ session = "on"
  /\ tray = "starting" /\ icon = FALSE /\ shell \in BOOLEAN
  /\ hints = 0 /\ autoHides = 0

\* process::exit, or the last window is gone: Windows drops the icon, at the
\* latest when the mouse passes over it.
Exit ==
  /\ alive' = FALSE /\ icon' = FALSE
  /\ UNCHANGED <<mounted, win, dialog, setting, statics, session, tray, shell,
                 hints, autoHides>>

\* The windows find_main_window may come upon first: top-level windows of the
\* process with a caption, in z-order, which the user changes at will.
Candidates ==
  (IF win = "none" THEN {} ELSE {"main"}) \cup (IF dialog THEN {"dialog"} ELSE {})

-----------------------------------------------------------------------------
(* The UI thread.                                                          *)

WindowAppears ==
  /\ alive /\ win = "none"
  /\ win' = "shown"
  /\ UNCHANGED <<alive, mounted, dialog, setting, statics, session, desktop,
                 hints, autoHides>>

\* Mutant: the flag is not cleared.
EnsureWindowHookAgain ==
  IF Candidates = {}
  THEN UNCHANGED <<win, startHidden, hook, autoHides>>
  ELSE \E w \in Candidates :
         /\ IF startHidden
            THEN /\ win' = IF w = "main" THEN "hidden" ELSE win
                 /\ autoHides' = 1 + IF win = "shown" THEN autoHides ELSE 0
            ELSE UNCHANGED <<win, autoHides>>
         /\ hook' = IF hook = "none" THEN w ELSE hook
         /\ UNCHANGED startHidden

\* Mutant: the flag is cleared though there is no window yet.
EnsureWindowHookEarly ==
  /\ startHidden' = FALSE
  /\ IF Candidates = {}
     THEN UNCHANGED <<win, hook, autoHides>>
     ELSE \E w \in Candidates :
            /\ win' = IF startHidden /\ w = "main" THEN "hidden" ELSE win
            /\ autoHides' = IF startHidden THEN autoHides + 1 ELSE autoHides
            /\ hook' = IF hook = "none" THEN w ELSE hook

\* ensure_window_hook: the one-shot hide of a sign-in launch, then the hook.
\* Without a window both wait for the next call.
EnsureWindowHook ==
  IF Candidates = {}
  THEN UNCHANGED <<win, startHidden, hook, autoHides>>
  ELSE \E w \in Candidates :
         /\ startHidden' = FALSE
         /\ IF startHidden
            THEN /\ win' = IF w = "main" THEN "hidden" ELSE win
                 /\ autoHides' = autoHides + 1
            ELSE UNCHANGED <<win, autoHides>>
         /\ IF hook = "none"
            THEN hook' \in {w} \cup IF Faults THEN {"none"} ELSE {}
            ELSE UNCHANGED hook

\* The first render: every effect runs.
Mount ==
  /\ alive /\ ~mounted
  /\ mounted' = TRUE
  /\ EnsureWindowHook
  /\ mirror' = setting
  /\ UNCHANGED <<alive, dialog, setting, hintShown, shuttingDown, session,
                 desktop, hints>>

\* Mutant: the effect runs with the first render only.
TickIdle ==
  /\ alive /\ mounted
  /\ UNCHANGED vars

\* The effect that depends on the repaint clock.
Tick ==
  /\ alive /\ mounted
  /\ EnsureWindowHook
  /\ UNCHANGED <<alive, mounted, dialog, setting, mirror, hintShown,
                 shuttingDown, session, desktop, hints>>

\* The user changes a setting; the effect that depends on it runs with the
\* render that follows.
ChangeSetting ==
  /\ alive /\ mounted /\ win = "shown"
  /\ setting' \in Behaviour
  /\ UNCHANGED <<alive, mounted, win, dialog, statics, session, desktop,
                 hints, autoHides>>

MirrorSetting ==
  /\ alive /\ mounted
  /\ mirror' = setting
  /\ UNCHANGED <<alive, mounted, win, dialog, setting, hook, startHidden,
                 hintShown, shuttingDown, session, desktop, hints, autoHides>>

OpenDialog ==
  /\ Dialogs
  /\ alive /\ mounted /\ win = "shown" /\ ~dialog
  /\ dialog' = TRUE
  /\ UNCHANGED <<alive, mounted, win, setting, statics, session, desktop,
                 hints, autoHides>>

CloseDialog ==
  /\ alive /\ dialog
  /\ dialog' = FALSE
  /\ UNCHANGED <<alive, mounted, win, setting, statics, session, desktop,
                 hints, autoHides>>

\* Mutant: the balloon is asked for every time.
HideToTrayHinting ==
  /\ win' = "hidden"
  /\ hintShown' = TRUE
  /\ hints' = IF tray # "starting" /\ icon /\ hints < 2 THEN hints + 1 ELSE hints
  /\ UNCHANGED <<alive, mounted, dialog, setting, mirror, hook, startHidden,
                 shuttingDown, session, desktop, autoHides>>

\* hide_to_tray.  The balloon is asked for once; it shows if TRAY_HWND is set
\* and the icon it belongs to is there.
HideToTray ==
  /\ win' = "hidden"
  /\ hintShown' = TRUE
  /\ hints' = IF ~hintShown /\ tray # "starting" /\ icon THEN hints + 1 ELSE hints
  /\ UNCHANGED <<alive, mounted, dialog, setting, mirror, hook, startHidden,
                 shuttingDown, session, desktop, autoHides>>

\* Mutant: the end of the session is not considered.
DivertsAlways == hook = "main" /\ mirror.close

\* WM_CLOSE, as subclass_proc treats it where it is installed.
Diverts == hook = "main" /\ mirror.close /\ ~shuttingDown
WmClose == IF Diverts THEN HideToTray ELSE Exit

UserClose ==
  /\ alive /\ win \in {"shown", "minimized"}
  /\ WmClose

Minimize ==
  /\ alive /\ win = "shown"
  /\ IF hook = "main" /\ mirror.minimize
     THEN HideToTray
     ELSE /\ win' = "minimized"
          /\ UNCHANGED <<alive, mounted, dialog, setting, statics, session,
                         desktop, hints, autoHides>>

\* From the taskbar button.
Unminimize ==
  /\ alive /\ win = "minimized"
  /\ win' = "shown"
  /\ UNCHANGED <<alive, mounted, dialog, setting, statics, session, desktop,
                 hints, autoHides>>

\* WM_QUERYENDSESSION: only the hook of the main window takes note.
QueryEndSession ==
  /\ alive /\ session = "on" /\ win # "none"
  /\ session' = IF hook = "main" THEN "told" ELSE "ending"
  /\ shuttingDown' = (shuttingDown \/ hook = "main")
  /\ UNCHANGED <<alive, mounted, win, dialog, setting, mirror, hook,
                 startHidden, hintShown, desktop, hints, autoHides>>

\* WM_ENDSESSION: the session does end, and every process with it ...
EndSession == alive /\ session # "on" /\ Exit

\* ... or someone has called it off.
SessionContinues ==
  /\ CalledOff
  /\ alive /\ session # "on"
  /\ session' = "on"
  /\ UNCHANGED <<alive, mounted, win, dialog, setting, statics, desktop,
                 hints, autoHides>>

\* While it ends the session Windows may close windows, hidden ones too.
SessionClose == alive /\ session # "on" /\ win # "none" /\ WmClose

-----------------------------------------------------------------------------
(* The tray thread.                                                        *)

\* Its window, without which it gives up.
MakeTrayWindow ==
  /\ alive /\ tray = "starting"
  /\ tray' \in {"window"} \cup IF Faults THEN {"dead"} ELSE {}
  /\ UNCHANGED <<alive, mounted, win, dialog, setting, statics, session, icon,
                 shell, hints, autoHides>>

\* Mutant: the icon is taken to be there whatever the taskbar says.
AddIconBlindly ==
  /\ alive /\ tray = "window"
  /\ tray' = "running"
  /\ icon' = TRUE
  /\ UNCHANGED <<alive, mounted, win, dialog, setting, statics, session, shell,
                 hints, autoHides>>

\* Shell_NotifyIconW(NIM_ADD): the result is ignored.
AddIcon ==
  /\ alive /\ tray = "window"
  /\ tray' = "running"
  /\ icon' = shell
  /\ UNCHANGED <<alive, mounted, win, dialog, setting, statics, session, shell,
                 hints, autoHides>>

\* show_main_window: the first candidate is shown and brought forward.
ShowMainWindow ==
  \E w \in Candidates :
    /\ win' = IF w = "main" THEN "shown" ELSE win
    /\ UNCHANGED <<alive, mounted, dialog, setting, statics, session, desktop,
                   hints, autoHides>>

ClickIcon == alive /\ icon /\ ShowMainWindow

\* A second launch has broadcast its message (see Launch).
ShowMessage == alive /\ hook = "main" /\ ShowMainWindow

\* "Quit" in the icon's menu.
Quit == alive /\ icon /\ Exit

TaskbarUp ==
  /\ alive /\ ~shell
  /\ shell' = TRUE
  /\ UNCHANGED <<alive, mounted, win, dialog, setting, statics, session, tray,
                 icon, hints, autoHides>>

\* Explorer ends, and every icon with it.
TaskbarDown ==
  /\ ShellRestarts
  /\ alive /\ shell
  /\ shell' = FALSE /\ icon' = FALSE
  /\ UNCHANGED <<alive, mounted, win, dialog, setting, statics, session, tray,
                 hints, autoHides>>

Next ==
  \/ WindowAppears \/ Mount \/ Tick \/ ChangeSetting \/ MirrorSetting
  \/ OpenDialog \/ CloseDialog
  \/ UserClose \/ Minimize \/ Unminimize
  \/ QueryEndSession \/ EndSession \/ SessionContinues \/ SessionClose
  \/ MakeTrayWindow \/ AddIcon \/ ClickIcon \/ ShowMessage \/ Quit
  \/ TaskbarUp \/ TaskbarDown

\* The window comes up, the root renders, its clock ticks, hooking the window
\* does not fail forever, a session about to end ends or goes on, the tray
\* thread goes on and a missing taskbar comes back.
Fairness ==
  /\ WF_vars(WindowAppears) /\ WF_vars(Mount) /\ WF_vars(Tick)
  /\ WF_vars(Tick /\ hook' # hook)
  /\ WF_vars(EndSession \/ SessionContinues)
  /\ WF_vars(MakeTrayWindow) /\ WF_vars(AddIcon) /\ WF_vars(TaskbarUp)

Spec     == Init /\ [][Next]_vars
FairSpec == Spec /\ Fairness

-----------------------------------------------------------------------------
(* Properties.                                                             *)

TypeOK ==
  /\ {alive, mounted, dialog, startHidden, hintShown, shuttingDown, icon, shell}
       \subseteq BOOLEAN
  /\ win \in Window
  /\ setting \in Behaviour /\ mirror \in Behaviour
  /\ hook \in {"none", "main", "dialog"}
  /\ session \in {"on", "told", "ending"}
  /\ tray \in {"starting", "window", "running", "dead"}
  /\ icon => shell /\ tray = "running"
  /\ hints \in Nat /\ autoHides \in Nat

\* A sign-in launch hides its window once: a later manual open is not hidden
\* again, and neither is the window of a manual launch.
HidesOnce == autoHides <= 1

\* The balloon that says where the window went is shown once per run.
HintsOnce == hints <= 1

\* Once Windows has asked the hooked window about the end of the session,
\* Polaris does not linger in the tray, whatever the user and the settings do
\* meanwhile: a close ends it.
NeverLingers == [][SessionClose /\ session = "told" => ~alive']_vars

\* However late the window appears and however often hooking it fails, it is
\* hooked in the end: only then do its buttons obey the settings.  (A file
\* dialog may be hooked in its place.)
HookInstalled ==
  []~dialog => ((alive /\ win # "none") ~> (~alive \/ hook = "main"))

\* A launch at sign-in ends up hidden, however late its window appears.
SignInHides == []~dialog => (startHidden ~> (~alive \/ win = "hidden"))

\* Where the window has gone to the tray, there is an icon to reach it by.
HiddenGetsIcon ==
  <>[]shell => ((alive /\ win = "hidden") ~> (~alive \/ win # "hidden" \/ icon))
=============================================================================
