----------------------------- MODULE TrayProofs -----------------------------
(***************************************************************************)
(* What TrayWindow promises in every order of its three parties: types,    *)
(* the two one-shots of tray.rs, and that nothing lingers in a session     *)
(* that ends.  Each one-shot is kept by its flag, so the invariant says    *)
(* what the flag of tray.rs knows of the history.                          *)
(***************************************************************************)
EXTENDS TrayWindow, TLAPS

\* START_HIDDEN is set only while nothing has been hidden for it.
HideFlag == (startHidden => autoHides = 0) /\ autoHides <= 1

\* HINT_SHOWN is clear only while no balloon has been shown.
HintFlag == (~hintShown => hints = 0) /\ hints <= 1

\* A hook that has heard of the end of the session remembers it.
Remembered == session = "told" => shuttingDown

IInv == TypeOK /\ HideFlag /\ HintFlag /\ Remembered

LEMMA InitHolds == Init => IInv
<1> SUFFICES ASSUME Init PROVE IInv
  OBVIOUS
<1>1. [close |-> TRUE, minimize |-> FALSE] \in Behaviour
  BY DEF Behaviour
<1>2. TypeOK
  BY <1>1 DEF Init, TypeOK, Window
<1> QED
  BY <1>2 DEF Init, IInv, HideFlag, HintFlag, Remembered

\* The one-shot hide and the hook, wherever the render calls them.
LEMMA HookStep ==
  ASSUME IInv, EnsureWindowHook
  PROVE  /\ startHidden' \in BOOLEAN /\ win' \in Window
         /\ hook' \in {"none", "main", "dialog"}
         /\ autoHides' \in Nat /\ HideFlag'
<1>1. CASE Candidates = {}
  BY <1>1 DEF EnsureWindowHook, IInv, TypeOK, HideFlag
<1>2. CASE Candidates # {}
  <2>1. PICK w \in Candidates :
          /\ startHidden' = FALSE
          /\ IF startHidden
             THEN /\ win' = IF w = "main" THEN "hidden" ELSE win
                  /\ autoHides' = autoHides + 1
             ELSE UNCHANGED <<win, autoHides>>
          /\ IF hook = "none"
             THEN hook' \in {w} \cup IF Faults THEN {"none"} ELSE {}
             ELSE UNCHANGED hook
    BY <1>2 DEF EnsureWindowHook
  <2>2. w \in {"main", "dialog"}
    BY DEF Candidates
  <2>3. win' \in Window /\ hook' \in {"none", "main", "dialog"}
    BY <2>1, <2>2 DEF IInv, TypeOK, Window
  <2>4. autoHides' \in Nat /\ autoHides' <= 1
    BY <2>1 DEF IInv, TypeOK, HideFlag
  <2> QED
    BY <2>1, <2>3, <2>4 DEF HideFlag
<1> QED
  BY <1>1, <1>2

\* What a close or a minimize does to the window.
LEMMA HideStep == ASSUME IInv, HideToTray PROVE IInv'
<1>1. hints' \in Nat /\ HintFlag'
  BY DEF HideToTray, IInv, TypeOK, HintFlag
<1>2. win' \in Window /\ hintShown' \in BOOLEAN
  BY DEF HideToTray, Window
<1>3. UNCHANGED <<alive, mounted, dialog, setting, mirror, hook, startHidden,
                  shuttingDown, session, desktop, autoHides>>
  BY DEF HideToTray
<1>4. TypeOK'
  BY <1>1, <1>2, <1>3 DEF IInv, TypeOK, desktop
<1>5. HideFlag' /\ Remembered'
  BY DEF HideToTray, IInv, HideFlag, Remembered
<1> QED
  BY <1>1, <1>4, <1>5 DEF IInv

LEMMA ExitStep == ASSUME IInv, Exit PROVE IInv'
  BY DEF Exit, statics, IInv, TypeOK, HideFlag, HintFlag, Remembered

LEMMA ShowStep == ASSUME IInv, ShowMainWindow PROVE IInv'
<1>1. PICK w \in Candidates :
        /\ win' = IF w = "main" THEN "shown" ELSE win
        /\ UNCHANGED <<alive, mounted, dialog, setting, statics, session,
                       desktop, hints, autoHides>>
  BY DEF ShowMainWindow
<1>2. win' \in Window
  BY <1>1 DEF IInv, TypeOK, Window
<1> QED
  BY <1>1, <1>2 DEF statics, desktop, IInv, TypeOK, HideFlag, HintFlag, Remembered

\* Every step keeps the invariant.
LEMMA StepHolds == IInv /\ [Next]_vars => IInv'
<1> SUFFICES ASSUME IInv, [Next]_vars PROVE IInv'
  OBVIOUS
<1> USE DEF IInv, TypeOK, HideFlag, HintFlag, Remembered, statics, desktop
<1>1. CASE WindowAppears
  BY <1>1 DEF WindowAppears, Window
<1>2. CASE Mount
  BY <1>2, HookStep DEF Mount
<1>3. CASE Tick
  BY <1>3, HookStep DEF Tick
<1>4. CASE ChangeSetting
  BY <1>4 DEF ChangeSetting
<1>5. CASE MirrorSetting
  BY <1>5 DEF MirrorSetting
<1>6. CASE OpenDialog \/ CloseDialog
  <2>1. CASE OpenDialog
    BY <2>1 DEF OpenDialog
  <2>2. CASE CloseDialog
    BY <2>2 DEF CloseDialog
  <2> QED
    BY <1>6, <2>1, <2>2
<1>7. CASE UserClose
  BY <1>7, HideStep, ExitStep DEF UserClose, WmClose
<1>8. CASE Minimize
  <2>1. CASE hook = "main" /\ mirror.minimize
    BY <1>8, <2>1, HideStep DEF Minimize
  <2>2. CASE ~(hook = "main" /\ mirror.minimize)
    BY <1>8, <2>2 DEF Minimize, Window
  <2> QED
    BY <2>1, <2>2
<1>9. CASE Unminimize
  BY <1>9 DEF Unminimize, Window
<1>10. CASE QueryEndSession
  BY <1>10 DEF QueryEndSession
<1>11. CASE EndSession
  BY <1>11, ExitStep DEF EndSession
<1>12. CASE SessionContinues
  BY <1>12 DEF SessionContinues
<1>13. CASE SessionClose
  BY <1>13, HideStep, ExitStep DEF SessionClose, WmClose
<1>14. CASE MakeTrayWindow
  BY <1>14 DEF MakeTrayWindow
<1>15. CASE AddIcon
  BY <1>15 DEF AddIcon
<1>16. CASE ClickIcon \/ ShowMessage
  BY <1>16, ShowStep DEF ClickIcon, ShowMessage
<1>17. CASE Quit
  BY <1>17, ExitStep DEF Quit
<1>18. CASE TaskbarUp \/ TaskbarDown
  <2>1. CASE TaskbarUp
    BY <2>1 DEF TaskbarUp
  <2>2. CASE TaskbarDown
    BY <2>2 DEF TaskbarDown
  <2> QED
    BY <1>18, <2>1, <2>2
<1>19. CASE UNCHANGED vars
  BY <1>19 DEF vars
<1> QED
  BY <1>1, <1>2, <1>3, <1>4, <1>5, <1>6, <1>7, <1>8, <1>9, <1>10, <1>11,
     <1>12, <1>13, <1>14, <1>15, <1>16, <1>17, <1>18, <1>19 DEF Next

LEMMA InvariantHolds == Spec => []IInv
<1>1. Init => IInv
  BY InitHolds
<1>2. IInv /\ [Next]_vars => IInv'
  BY StepHolds
<1> QED
  BY <1>1, <1>2, PTL DEF Spec

-----------------------------------------------------------------------------
\* The statics, the window and the tray keep their types, and an icon is only
\* there while the taskbar is up and the tray thread runs.
THEOREM TypeCorrect == Spec => []TypeOK
<1>1. IInv => TypeOK
  BY DEF IInv
<1> QED
  BY <1>1, InvariantHolds, PTL

\* maybe_hide_on_startup hides at most one window in the life of a process.
THEOREM HidesAtMostOnce == Spec => []HidesOnce
<1>1. IInv => HidesOnce
  BY DEF IInv, HideFlag, HidesOnce
<1> QED
  BY <1>1, InvariantHolds, PTL

\* The balloon of hide_to_tray is shown at most once in the life of a process.
THEOREM HintsAtMostOnce == Spec => []HintsOnce
<1>1. IInv => HintsOnce
  BY DEF IInv, HintFlag, HintsOnce
<1> QED
  BY <1>1, InvariantHolds, PTL

\* A close of the window that has heard of the end of the session ends the
\* process.
THEOREM NothingLingers == Spec => NeverLingers
<1>1. IInv /\ [Next]_vars => [SessionClose /\ session = "told" => ~alive']_vars
  BY DEF IInv, Remembered, SessionClose, WmClose, Diverts, Exit
<1> QED
  BY <1>1, InvariantHolds, PTL DEF Spec, NeverLingers
=============================================================================
