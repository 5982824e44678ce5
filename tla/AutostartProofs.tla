--------------------------- MODULE AutostartProofs ---------------------------
(***************************************************************************)
(* The safety of Autostart for any number of processes of both copies.     *)
(***************************************************************************)
EXTENDS Autostart, TLAPS

\* While only the Run value has started anything since sign-in, one process at
\* most is alive, it carries --startup, and then nothing is due from Run.
OnlyTheHidden ==
  ~called =>
    /\ ~opened
    /\ Alive \subseteq startup
    /\ \A p, q \in Alive : p = q
    /\ "run" \in due => Alive = {}

\* A process between reg_present and reg_write that nobody has overtaken still
\* finds the value there.
FoundIsThere == \A p \in Proc \ stale : at[p] = "found" => entry # "absent"

IInv ==
  /\ TypeOK
  /\ FoundIsThere
  /\ SwitchIsTrue
  /\ EntryFollowsTheExe
  /\ OnlyTheHidden

LEMMA InitInvariant == Init => IInv
  BY DEF Init, IInv, TypeOK, Place, Alive, Answered, FoundIsThere, SwitchIsTrue,
         EntryFollowsTheExe, OnlyTheHidden

-----------------------------------------------------------------------------
(* One lemma for each part of the invariant.                               *)

LEMMA TypeStep == TypeOK /\ [Next]_vars => TypeOK'
  <1> SUFFICES ASSUME TypeOK, [Next]_vars
               PROVE  TypeOK'
    OBVIOUS
  <1> USE DEF TypeOK, Place, Alive, Goto, Cache, Forget, own, os, hist, Up
  <1>1. ASSUME NEW p \in Proc, Query(p)
        PROVE  TypeOK'
    BY <1>1 DEF Query, Enabled
  <1>2. ASSUME NEW p \in Proc, Refresh(p)
        PROVE  TypeOK'
    BY <1>2 DEF Refresh, Peers
  <1>3. ASSUME NEW p \in Proc, SetEnabled(p)
        PROVE  TypeOK'
    BY <1>3 DEF SetEnabled, RegSet, PackagedSet, Peers
  <1>4. ASSUME NEW p \in Proc, RunStarts(p) \/ TaskStarts(p) \/ UserStarts(p)
        PROVE  TypeOK'
    BY <1>4 DEF RunStarts, TaskStarts, UserStarts, Start
  <1>5. ASSUME NEW p \in Proc, Enter(p) \/ Leave(p)
        PROVE  TypeOK'
    BY <1>5 DEF Enter, Leave
  <1>6. ASSUME NEW p \in Proc, NEW c \in Proc, Relaunch(p, c)
        PROVE  TypeOK'
    BY <1>6 DEF Relaunch, Forwards
  <1>7. CASE SwitchTask \/ MoveExe \/ SignIn
    BY <1>7 DEF SwitchTask, MoveExe, SignIn
  <1>8. CASE UNCHANGED vars
    BY <1>8 DEF vars
  <1> QED BY <1>1, <1>2, <1>3, <1>4, <1>5, <1>6, <1>7, <1>8 DEF Next

\* Whoever changes the entry knows it, and everybody it concerns is stale.
LEMMA AnswersStep ==
  ASSUME TypeOK, FoundIsThere, SwitchIsTrue, [Next]_vars
  PROVE  FoundIsThere' /\ SwitchIsTrue'
  <1> USE DEF TypeOK, Alive, Goto, Cache, Forget, own, os, hist, Up, Answered,
              FoundIsThere, SwitchIsTrue, Enabled
  <1>1. ASSUME NEW p \in Proc, Query(p)
        PROVE  FoundIsThere' /\ SwitchIsTrue'
    <2>1. /\ UNCHANGED <<entry, task>> /\ stale \ {p} \subseteq stale'
          /\ \A q \in Proc \ {p} : at'[q] = at[q] /\ cached'[q] = cached[q]
      BY <1>1 DEF Query
    <2>2. \/ at'[p] = "found" /\ entry # "absent"
          \/ at'[p] = "peek" /\ cached'[p] = Enabled(p)
          \/ at'[p] = "peek" /\ p \in stale'
      BY <1>1 DEF Query
    <2> QED BY <2>1, <2>2
  <1>2. ASSUME NEW p \in Proc, Refresh(p)
        PROVE  FoundIsThere' /\ SwitchIsTrue'
    BY <1>2 DEF Refresh, Peers
  <1>3. ASSUME NEW p \in Proc, SetEnabled(p)
        PROVE  FoundIsThere' /\ SwitchIsTrue'
    <2>1. CASE RegSet(p, ~cached[p])
      BY <1>3, <2>1 DEF SetEnabled, RegSet, Peers
    <2>2. CASE PackagedSet(p, ~cached[p])
      BY <1>3, <2>2 DEF SetEnabled, PackagedSet, Peers
    <2> QED BY <1>3, <2>1, <2>2 DEF SetEnabled
  <1>4. ASSUME NEW p \in Proc, RunStarts(p) \/ TaskStarts(p) \/ UserStarts(p)
        PROVE  FoundIsThere' /\ SwitchIsTrue'
    BY <1>4 DEF RunStarts, TaskStarts, UserStarts, Start
  <1>5. ASSUME NEW p \in Proc, Enter(p) \/ Leave(p)
        PROVE  FoundIsThere' /\ SwitchIsTrue'
    BY <1>5 DEF Enter, Leave
  <1>6. ASSUME NEW p \in Proc, NEW c \in Proc, Relaunch(p, c)
        PROVE  FoundIsThere' /\ SwitchIsTrue'
    BY <1>6 DEF Relaunch
  <1>7. CASE SwitchTask \/ MoveExe \/ SignIn
    BY <1>7 DEF SwitchTask, MoveExe, SignIn
  <1>8. CASE UNCHANGED vars
    BY <1>8 DEF vars
  <1> QED BY <1>1, <1>2, <1>3, <1>4, <1>5, <1>6, <1>7, <1>8 DEF Next

LEMMA PathStep ==
  ASSUME EntryFollowsTheExe, [Next]_vars
  PROVE  EntryFollowsTheExe'
  <1> USE DEF EntryFollowsTheExe, own, os, hist
  <1>1. ASSUME NEW p \in Proc, Query(p) \/ Refresh(p) \/ SetEnabled(p)
        PROVE  EntryFollowsTheExe'
    BY <1>1 DEF Query, Refresh, SetEnabled, RegSet, PackagedSet, Enabled
  <1>2. ASSUME NEW p \in Proc, RunStarts(p) \/ TaskStarts(p) \/ UserStarts(p)
                               \/ Enter(p) \/ Leave(p)
        PROVE  EntryFollowsTheExe'
    BY <1>2 DEF RunStarts, TaskStarts, UserStarts, Enter, Leave
  <1>3. ASSUME NEW p \in Proc, NEW c \in Proc, Relaunch(p, c)
        PROVE  EntryFollowsTheExe'
    BY <1>3 DEF Relaunch
  <1>4. CASE SwitchTask \/ MoveExe \/ SignIn
    BY <1>4 DEF SwitchTask, MoveExe, SignIn
  <1>5. CASE UNCHANGED vars
    BY <1>5 DEF vars
  <1> QED BY <1>1, <1>2, <1>3, <1>4, <1>5 DEF Next

\* The hidden process is replaced by its child, or leaves; whatever else
\* starts is called.
LEMMA HiddenStep ==
  ASSUME TypeOK, OnlyTheHidden, [Next]_vars
  PROVE  OnlyTheHidden'
  <1> USE DEF TypeOK, OnlyTheHidden, Alive, Goto, Cache, Forget, own, os, hist
  <1>1. ASSUME NEW p \in Proc, Query(p)
        PROVE  OnlyTheHidden'
    BY <1>1 DEF Query
  <1>2. ASSUME NEW p \in Proc, Refresh(p) \/ SetEnabled(p)
        PROVE  OnlyTheHidden'
    BY <1>2 DEF Refresh, SetEnabled, RegSet, PackagedSet
  <1>3. ASSUME NEW p \in Proc, RunStarts(p)
        PROVE  OnlyTheHidden'
    BY <1>3 DEF RunStarts, Start
  <1>4. ASSUME NEW p \in Proc, TaskStarts(p) \/ UserStarts(p)
        PROVE  OnlyTheHidden'
    BY <1>4 DEF TaskStarts, UserStarts
  <1>5. ASSUME NEW p \in Proc, Enter(p)
        PROVE  OnlyTheHidden'
    BY <1>5 DEF Enter, Up
  <1>6. ASSUME NEW p \in Proc, Leave(p)
        PROVE  OnlyTheHidden'
    BY <1>6 DEF Leave
  <1>7. ASSUME NEW p \in Proc, NEW c \in Proc, Relaunch(p, c)
        PROVE  OnlyTheHidden'
    BY <1>7 DEF Relaunch, Forwards
  <1>8. CASE SwitchTask \/ MoveExe \/ SignIn
    BY <1>8 DEF SwitchTask, MoveExe, SignIn
  <1>9. CASE UNCHANGED vars
    BY <1>9 DEF vars
  <1> QED BY <1>1, <1>2, <1>3, <1>4, <1>5, <1>6, <1>7, <1>8, <1>9 DEF Next

THEOREM Invariance == Spec => []IInv
  <1>1. IInv /\ [Next]_vars => IInv'
    BY TypeStep, AnswersStep, PathStep, HiddenStep DEF IInv
  <1> QED BY InitInvariant, <1>1, PTL DEF Spec

-----------------------------------------------------------------------------
(* What users are told about "Run on startup".                             *)

\* Only unpackaged processes go through the refresh, only live ones are
\* followed (init, set_enabled).
THEOREM TypeCorrect == Spec => []TypeOK
  <1>1. IInv => TypeOK
    BY DEF IInv
  <1> QED BY Invariance, <1>1, PTL

\* The cached answer of a process that was not overtaken is what the system
\* will do (init, set_enabled, packaged_set).
THEOREM SwitchTells == Spec => []SwitchIsTrue
  <1>1. IInv => SwitchIsTrue
    BY DEF IInv
  <1> QED BY Invariance, <1>1, PTL

\* After a move, the first init that does not fail leaves no dead path (init).
THEOREM PathFollows == Spec => []EntryFollowsTheExe
  <1>1. IInv => EntryFollowsTheExe
    BY DEF IInv
  <1> QED BY Invariance, <1>1, PTL

\* No window until something other than the Run value starts Polaris
\* (run_command, relaunch_elevated, main).
THEOREM SignInStaysQuiet == Spec => []QuietSignIn
  <1>1. IInv => QuietSignIn
    BY DEF IInv, OnlyTheHidden, QuietSignIn
  <1> QED BY Invariance, <1>1, PTL

=============================================================================
