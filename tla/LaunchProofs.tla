---------------------------- MODULE LaunchProofs ----------------------------
(***************************************************************************)
(* The safety of Launch for any number of processes.                       *)
(***************************************************************************)
EXTENDS Launch, TLAPS

\* At most one running instance has the mutex: whoever finds it in existence
\* bows out, with or without a handle of its own.
OneHolder == \A p, q \in Running \cap handles : p = q

\* An instance that runs without the mutex was refused it by an elevated one.
StraysAreRefused ==
  \A p \in Running \ handles :
    /\ ~elevated[p]
    /\ \E q \in Proc : pc[q] # "unborn" /\ elevated[q]

GuardIsElevated ==
  Exists /\ guarded => \E q \in Proc : pc[q] # "unborn" /\ elevated[q]

IInv ==
  /\ TypeOK
  /\ OneHolder
  /\ StraysAreRefused
  /\ GuardIsElevated
  /\ NobodyIsStranded

LEMMA InitInvariant == Init => IInv
  BY DEF Init, IInv, TypeOK, Stage, OneHolder, StraysAreRefused,
         GuardIsElevated, NobodyIsStranded, Running, Exists

\* Moving a process that has no handle and does not run to another such place
\* leaves the invariant alone, unless it was what others were waiting for.
LEMMA PassingInvariant ==
  ASSUME IInv, NEW p \in Proc, NEW from \in {"peek", "wait", "decide", "prompt", "claim"},
         NEW to \in {"decide", "prompt", "claim", "bow"},
         Goto(p, from, to), from = "wait" => ~Exists \/ faulted',
         faulted' \in BOOLEAN, faulted => faulted',
         UNCHANGED <<process, mutex, alwaysAdmin, surfaced>>
  PROVE  IInv'
  <1> USE DEF process, mutex
  <1>1. TypeOK'
    BY DEF IInv, TypeOK, Goto, Stage
  <1>2. Running' = Running /\ handles' = handles /\ elevated' = elevated
    BY DEF IInv, TypeOK, Goto, Running
  <1>3. \A q \in Proc : pc[q] # "unborn" => pc'[q] # "unborn"
    BY DEF IInv, TypeOK, Goto
  <1>4. OneHolder' /\ StraysAreRefused' /\ GuardIsElevated'
    BY <1>2, <1>3 DEF IInv, OneHolder, StraysAreRefused, GuardIsElevated, Exists
  <1>5. NobodyIsStranded'
    BY <1>2 DEF IInv, TypeOK, Goto, NobodyIsStranded, Exists
  <1> QED BY <1>1, <1>4, <1>5 DEF IInv


LEMMA UserLaunchInvariant ==
  ASSUME IInv, NEW p \in Proc, UserLaunch(p)
  PROVE  IInv'
  <1> USE DEF UserLaunch, mutex
  <1>1. TypeOK'
    BY DEF IInv, TypeOK, Goto, Stage
  <1>2. Running' = Running /\ handles' = handles
    BY DEF IInv, TypeOK, Goto, Running
  <1>3. /\ \A q \in Proc \ {p} : pc'[q] = pc[q] /\ elevated'[q] = elevated[q]
        /\ pc[p] = "unborn" /\ pc'[p] # "unborn" /\ pc'[p] # "wait"
    BY DEF IInv, TypeOK, Goto
  <1>4. OneHolder' /\ StraysAreRefused' /\ GuardIsElevated'
    BY <1>2, <1>3
    DEF IInv, OneHolder, StraysAreRefused, GuardIsElevated, Exists, Running
  <1>5. NobodyIsStranded'
    BY <1>2, <1>3 DEF IInv, NobodyIsStranded, Exists
  <1> QED BY <1>1, <1>4, <1>5 DEF IInv

\* A predecessor leaves only when its successor waits.
LEMMA AcceptInvariant ==
  ASSUME IInv, NEW p \in Proc, NEW c \in Proc, NEW from \in {"prompt", "ask"},
         Accept(p, c, from)
  PROVE  IInv'
  <1> USE DEF Accept, mutex
  <1>1. TypeOK'
    BY DEF IInv, TypeOK, Stage
  <1>2. /\ p # c /\ pc[c] = "unborn" /\ pc'[c] = "wait"
        /\ \A q \in Proc : pc[q] # "unborn" => pc'[q] # "unborn"
        /\ \A q \in Proc \ {c} : elevated'[q] = elevated[q]
    BY DEF IInv, TypeOK
  <1>3. Running' \subseteq Running /\ handles' = handles
    BY DEF IInv, TypeOK, Running
  <1>4. OneHolder' /\ StraysAreRefused' /\ GuardIsElevated'
    <2>1. OneHolder'
      BY <1>3 DEF IInv, OneHolder
    <2>2. StraysAreRefused'
      BY <1>2, <1>3 DEF IInv, StraysAreRefused, Exists, Running
    <2>3. GuardIsElevated'
      BY <1>2, <1>3 DEF IInv, GuardIsElevated, Exists
    <2> QED
      BY <2>1, <2>2, <2>3
  <1>5. NobodyIsStranded'
    BY <1>2 DEF NobodyIsStranded
  <1> QED BY <1>1, <1>4, <1>5 DEF IInv

LEMMA AcquireInvariant ==
  ASSUME IInv, NEW p \in Proc, Acquire(p)
  PROVE  IInv'
  <1> USE DEF process, mutex
  <1>1. /\ pc[p] = "claim" /\ p \notin handles /\ p \notin Running
        /\ \A q \in Proc \ {p} : pc'[q] = pc[q]
        /\ pc'[p] \in {"running", "bow"} /\ elevated' = elevated
        /\ UNCHANGED <<relaunched, alwaysAdmin, surfaced, faulted>>
    BY DEF IInv, TypeOK, Acquire, Goto, Running
  <1>2. pc' \in [Proc -> Stage]
    BY DEF IInv, TypeOK, Acquire, Goto, Stage
  <1>3. CASE /\ ~Exists /\ handles' = {p} /\ guarded' = elevated[p]
             /\ pc'[p] = "running"
    <2>1. TypeOK'
      BY <1>1, <1>2, <1>3 DEF IInv, TypeOK
    <2>2. Running' = Running \cup {p}
      BY <1>1, <1>3 DEF Running
    <2>3. handles = {}
      BY <1>3 DEF Exists
    <2>4. OneHolder' /\ StraysAreRefused' /\ GuardIsElevated' /\ NobodyIsStranded'
      BY <1>1, <1>3, <2>2, <2>3
      DEF IInv, OneHolder, StraysAreRefused, GuardIsElevated, NobodyIsStranded, Exists
    <2> QED BY <2>1, <2>4 DEF IInv
  <1>4. CASE /\ Exists /\ handles' = handles \cup {p} /\ UNCHANGED guarded
             /\ pc'[p] = "bow"
    <2>1. TypeOK'
      BY <1>1, <1>2, <1>4 DEF IInv, TypeOK
    <2>2. Running' = Running
      BY <1>1, <1>4 DEF Running
    <2>3. OneHolder' /\ StraysAreRefused' /\ GuardIsElevated' /\ NobodyIsStranded'
      BY <1>1, <1>4, <2>2
      DEF IInv, OneHolder, StraysAreRefused, GuardIsElevated, NobodyIsStranded, Exists
    <2> QED BY <2>1, <2>3 DEF IInv
  <1>5. CASE /\ Exists /\ guarded /\ ~elevated[p]
             /\ UNCHANGED <<handles, guarded>> /\ pc'[p] = "running"
    <2>1. TypeOK'
      BY <1>1, <1>2, <1>5 DEF IInv, TypeOK
    <2>2. Running' = Running \cup {p}
      BY <1>1, <1>5 DEF Running
    <2>3. OneHolder' /\ StraysAreRefused' /\ GuardIsElevated' /\ NobodyIsStranded'
      BY <1>1, <1>5, <2>2
      DEF IInv, OneHolder, StraysAreRefused, GuardIsElevated, NobodyIsStranded, Exists
    <2> QED BY <2>1, <2>3 DEF IInv
  <1> QED BY <1>3, <1>4, <1>5, <1>2 DEF Acquire, Goto, IInv, TypeOK

LEMMA BowInvariant ==
  ASSUME IInv, NEW p \in Proc, Bow(p)
  PROVE  IInv'
  <1> USE DEF Bow, process, mutex
  <1>1. TypeOK'
    BY DEF IInv, TypeOK, Goto, Stage, Running
  <1>2. Running' = Running /\ handles' = handles /\ elevated' = elevated
    BY DEF IInv, TypeOK, Goto, Running
  <1>3. \A q \in Proc : /\ pc[q] # "unborn" => pc'[q] # "unborn"
                        /\ pc[q] = "wait" => pc'[q] = "wait"
    BY DEF IInv, TypeOK, Goto
  <1> QED BY <1>1, <1>2, <1>3 DEF IInv, OneHolder, StraysAreRefused,
                                  GuardIsElevated, NobodyIsStranded, Exists

\* The running instance stays, or leaves where nothing is promised.
LEMMA RunningInvariant ==
  ASSUME IInv, NEW p \in Proc,
         \/ SetAlwaysAdmin(p) \/ Ask(p) \/ RefuseAsk(p) \/ Quit(p)
  PROVE  IInv'
  <1> USE DEF process, mutex, SetAlwaysAdmin, Ask, RefuseAsk, Quit
  <1>1. TypeOK'
    BY DEF IInv, TypeOK, Goto, Stage
  <1>2. /\ Running' \subseteq Running /\ (~faulted' => Running' = Running)
        /\ handles' = handles /\ elevated' = elevated /\ guarded' = guarded
    BY DEF IInv, TypeOK, Goto, Running
  <1>3. \A q \in Proc : /\ pc[q] # "unborn" => pc'[q] # "unborn"
                        /\ pc[q] = "wait" => pc'[q] = "wait"
    BY DEF IInv, TypeOK, Goto
  <1>4. faulted => faulted'
    OBVIOUS
  <1> QED BY <1>1, <1>2, <1>3, <1>4 DEF IInv, OneHolder, StraysAreRefused,
                                  GuardIsElevated, NobodyIsStranded, Exists

LEMMA EndInvariant ==
  ASSUME IInv, NEW p \in Proc, End(p) \/ Kill(p)
  PROVE  IInv'
  <1> USE DEF process, End, Kill
  <1>1. /\ pc' = [pc EXCEPT ![p] = "gone"] /\ handles' = handles \ {p}
        /\ pc[p] # "unborn" /\ (~faulted' => pc[p] = "exit")
        /\ faulted' \in BOOLEAN /\ (faulted => faulted')
        /\ surfaced' = surfaced \ {p}
        /\ UNCHANGED <<elevated, relaunched, guarded, alwaysAdmin>>
    BY DEF IInv, TypeOK, Goto
  <1>2. TypeOK'
    BY <1>1 DEF IInv, TypeOK, Stage
  <1>3. Running' = Running \ {p} /\ (~faulted' => Running' = Running)
    BY <1>1 DEF IInv, TypeOK, Running
  <1>4. \A q \in Proc : /\ pc[q] # "unborn" => pc'[q] # "unborn"
                        /\ ~faulted' /\ pc[q] = "wait" => pc'[q] = "wait"
    BY <1>1 DEF IInv, TypeOK
  <1> QED BY <1>1, <1>2, <1>3, <1>4 DEF IInv, OneHolder, StraysAreRefused,
                                  GuardIsElevated, NobodyIsStranded, Exists

LEMMA StepInvariant == IInv /\ [Next]_vars => IInv'
  <1> SUFFICES ASSUME IInv, [Next]_vars
               PROVE  IInv'
    OBVIOUS
  <1>1. ASSUME NEW p \in Proc, UserLaunch(p)
        PROVE  IInv'
    BY <1>1, UserLaunchInvariant
  <1>2. ASSUME NEW p \in Proc, Peek(p) \/ WaitUntilFree(p) \/ Decide(p) \/ RefusePrompt(p)
        PROVE  IInv'
    <2>1. CASE Peek(p) \/ Decide(p) \/ RefusePrompt(p)
      BY <2>1, PassingInvariant DEF Peek, Decide, RefusePrompt, IInv, TypeOK
    <2>2. CASE WaitUntilFree(p)
      BY <2>2, PassingInvariant DEF WaitUntilFree, IInv, TypeOK, Exists
    <2> QED BY <1>2, <2>1, <2>2
  <1>3. ASSUME NEW p \in Proc, Acquire(p) \/ Bow(p) \/ End(p) \/ Kill(p)
        PROVE  IInv'
    BY <1>3, AcquireInvariant, BowInvariant, EndInvariant
  <1>4. ASSUME NEW p \in Proc,
               SetAlwaysAdmin(p) \/ Ask(p) \/ RefuseAsk(p) \/ Quit(p)
        PROVE  IInv'
    BY <1>4, RunningInvariant
  <1>5. ASSUME NEW p \in Proc, NEW c \in Proc, AcceptPrompt(p, c) \/ AcceptAsk(p, c)
        PROVE  IInv'
    BY <1>5, AcceptInvariant DEF AcceptPrompt, AcceptAsk
  <1>6. CASE UNCHANGED vars
    BY <1>6 DEF vars, IInv, TypeOK, OneHolder, StraysAreRefused,
                GuardIsElevated, NobodyIsStranded, Running, Exists
  <1> QED BY <1>1, <1>2, <1>3, <1>4, <1>5, <1>6 DEF Next, Advance

THEOREM Invariance == Spec => []IInv
  BY InitInvariant, StepInvariant, PTL DEF Spec

-----------------------------------------------------------------------------
(* What Polaris relies on.                                                 *)

\* Every process is at a known step, and only processes that went through
\* acquire have a handle on the mutex (main, acquire, exists).
THEOREM TypeCorrect == Spec => []TypeOK
  <1>1. IInv => TypeOK
    BY DEF IInv
  <1> QED BY Invariance, <1>1, PTL

\* Of two running instances one was refused the mutex and has no
\* administrator rights: acquire lets nobody else past a winner.
THEOREM MutualExclusion == Spec => []Exclusion
  <1>1. IInv => Exclusion
    BY DEF IInv, OneHolder, StraysAreRefused, Exclusion, Stray
  <1> QED BY Invariance, <1>1, PTL

\* Processes with the same rights never run side by side (acquire).
THEOREM UniformMutualExclusion == Spec => []UniformExclusion
  <1>1. IInv => UniformExclusion
    BY DEF IInv, OneHolder, StraysAreRefused, UniformExclusion, Running
  <1> QED BY Invariance, <1>1, PTL

\* Without faults a launch that bows out has somebody to bow out to, in every
\* handover (relaunch_elevated, wait_until_free and acquire together).
THEOREM NobodyStranded == Spec => []NobodyIsStranded
  <1>1. IInv => NobodyIsStranded
    BY DEF IInv
  <1> QED BY Invariance, <1>1, PTL

=============================================================================
