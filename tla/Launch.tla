------------------------------- MODULE Launch -------------------------------
(***************************************************************************)
(* src/main.rs, src/instance.rs and src/elevate.rs: how Polaris processes  *)
(* start, find each other through a named mutex, relaunch themselves with  *)
(* administrator rights and take over from one another.                    *)
(*                                                                         *)
(* Every process is one member of Proc, used once.  The mutex exists while *)
(* some process has a handle on it: acquire never closes its handle, the   *)
(* OS does when the process is gone.  What Windows lets one process do to  *)
(* the objects and windows of another is external: an object made with     *)
(* administrator rights gives other processes of the user no more than     *)
(* SYNCHRONIZE, which CreateMutexW does not make do with, and a message    *)
(* posted to a window of higher integrity is dropped.                      *)
(***************************************************************************)
EXTENDS Naturals, FiniteSets

CONSTANTS
  Proc,     \* process ids
  Copy,     \* the copies of Polaris on this machine
  CopyOf,   \* the copy each process runs
  Packaged  \* the copies that are MSIX builds

ASSUME LaunchAssumption == CopyOf \in [Proc -> Copy] /\ Packaged \subseteq Copy

VARIABLES
  pc,          \* where each process is
  elevated,    \* is_elevated() of each process
  relaunched,  \* is_relaunch(): does it carry the takeover flag?
  handles,     \* the processes holding a handle on the mutex
  guarded,     \* the mutex was made by a process with administrator rights
  alwaysAdmin, \* settings.always_admin, on disk
  surfaced,    \* the processes whose window was asked to come to the front
  faulted      \* history: has a process quit, been killed or overrun its 5 s?

vars == <<pc, elevated, relaunched, handles, guarded, alwaysAdmin, surfaced, faulted>>

\* "peek" and "wait": the two arms of main's first test; "decide": before the
\* elevation step; "prompt": in ShellExecuteW, before anything is claimed;
\* "claim": before acquire; "running"; "ask": a running instance in
\* ShellExecuteW for "Restart as administrator"; "bow": about to broadcast
\* and leave; "exit": leaving, its handles not yet freed.
Stage == {"unborn", "peek", "wait", "decide", "prompt", "claim", "running",
          "ask", "bow", "exit", "gone"}

Running == {p \in Proc : pc[p] \in {"running", "ask"}}
Exists  == handles # {}

Init ==
  /\ pc = [p \in Proc |-> "unborn"]
  /\ elevated = [p \in Proc |-> FALSE]
  /\ relaunched = [p \in Proc |-> FALSE]
  /\ handles = {}
  /\ guarded = FALSE
  /\ alwaysAdmin \in BOOLEAN
  /\ surfaced = {}
  /\ faulted = FALSE

Goto(p, from, to) == pc[p] = from /\ pc' = [pc EXCEPT ![p] = to]

is_packaged(p) == CopyOf[p] \in Packaged

process == <<elevated, relaunched>>
mutex   == <<handles, guarded>>

-----------------------------------------------------------------------------
(* Starting.                                                               *)

\* The user, or sign-in, starts Polaris, perhaps as administrator.
UserLaunch(p) ==
  /\ Goto(p, "unborn", "peek")
  /\ \E e \in BOOLEAN : elevated' = [elevated EXCEPT ![p] = e]
  /\ UNCHANGED <<relaunched, mutex, alwaysAdmin, surfaced, faulted>>

\* Mutant: the first test creates the mutex instead of opening it.
PeekCreates(p) ==
  /\ \/ Exists /\ Goto(p, "peek", "bow")
     \/ ~Exists /\ Goto(p, "peek", "decide")
  /\ handles' = handles \cup {p}
  /\ UNCHANGED <<process, guarded, alwaysAdmin, surfaced, faulted>>

\* exists(): SYNCHRONIZE is granted to every process of the user.
Peek(p) ==
  /\ \/ Exists /\ Goto(p, "peek", "bow")
     \/ ~Exists /\ Goto(p, "peek", "decide")
  /\ UNCHANGED <<process, mutex, alwaysAdmin, surfaced, faulted>>

\* Mutant: the relaunched process does not wait for its predecessor.
WaitUntilFreeNot(p) ==
  /\ Goto(p, "wait", "decide")
  /\ UNCHANGED <<process, mutex, alwaysAdmin, surfaced, faulted>>

\* wait_until_free: the mutex has dropped, or the 5 seconds are over.
WaitUntilFree(p) ==
  /\ Goto(p, "wait", "decide")
  /\ faulted' = (faulted \/ Exists)
  /\ UNCHANGED <<process, mutex, alwaysAdmin, surfaced>>

\* The settings are read from disk here, not before.
NeedsPrompt(p) == ~elevated[p] /\ ~is_packaged(p) /\ alwaysAdmin

Decide(p) ==
  /\ \/ NeedsPrompt(p) /\ Goto(p, "decide", "prompt")
     \/ ~NeedsPrompt(p) /\ Goto(p, "decide", "claim")
  /\ UNCHANGED <<process, mutex, alwaysAdmin, surfaced, faulted>>

\* Mutant: the child is not given the takeover flag.
AcceptUnmarked(p, c, from) ==
  /\ pc[p] = from /\ pc[c] = "unborn" /\ CopyOf[c] = CopyOf[p]
  /\ pc' = [pc EXCEPT ![p] = "exit", ![c] = "peek"]
  /\ elevated' = [elevated EXCEPT ![c] = TRUE]
  /\ UNCHANGED <<relaunched, mutex, alwaysAdmin, surfaced, faulted>>

\* relaunch_elevated succeeds: child c starts, of the same copy, with
\* administrator rights and the takeover flag, and p leaves.
Accept(p, c, from) ==
  /\ pc[p] = from /\ pc[c] = "unborn" /\ CopyOf[c] = CopyOf[p]
  /\ pc' = [pc EXCEPT ![p] = "exit", ![c] = "wait"]
  /\ elevated' = [elevated EXCEPT ![c] = TRUE]
  /\ relaunched' = [relaunched EXCEPT ![c] = TRUE]
  /\ UNCHANGED <<mutex, alwaysAdmin, surfaced, faulted>>

AcceptPrompt(p, c) == Accept(p, c, "prompt")

\* The user refuses the prompt: carry on without administrator rights.
RefusePrompt(p) ==
  /\ Goto(p, "prompt", "claim")
  /\ UNCHANGED <<process, mutex, alwaysAdmin, surfaced, faulted>>

\* Mutant: acquire tests for a handle, which an existing mutex gives too.
AcquireAnyHandle(p) ==
  /\ handles' = handles \cup {p}
  /\ guarded' = IF Exists THEN guarded ELSE elevated[p]
  /\ Goto(p, "claim", "running")
  /\ UNCHANGED <<process, alwaysAdmin, surfaced, faulted>>

\* Mutant: the handle is closed when acquire returns.
AcquireAndClose(p) ==
  /\ \/ ~Exists /\ Goto(p, "claim", "running")
     \/ Exists /\ Goto(p, "claim", "bow")
  /\ UNCHANGED <<process, mutex, alwaysAdmin, surfaced, faulted>>

\* acquire(): CreateMutexW makes the mutex, or opens it and reports
\* ERROR_ALREADY_EXISTS, or is refused access to a guarded one; only the
\* second outcome makes it return false.
Acquire(p) ==
  /\ \/ /\ ~Exists
        /\ handles' = {p} /\ guarded' = elevated[p]
        /\ Goto(p, "claim", "running")
     \/ /\ Exists /\ (guarded => elevated[p])
        /\ handles' = handles \cup {p} /\ UNCHANGED guarded
        /\ Goto(p, "claim", "bow")
     \/ /\ Exists /\ guarded /\ ~elevated[p]
        /\ UNCHANGED mutex
        /\ Goto(p, "claim", "running")
  /\ UNCHANGED <<process, alwaysAdmin, surfaced, faulted>>

\* broadcast_show reaches the windows of no higher integrity than p's.
Bow(p) ==
  /\ Goto(p, "bow", "exit")
  /\ surfaced' = surfaced \cup {q \in Running : elevated[q] => elevated[p]}
  /\ UNCHANGED <<process, mutex, alwaysAdmin, faulted>>

-----------------------------------------------------------------------------
(* Running and leaving.                                                    *)

\* "Always launch as administrator" is switched; a packaged build does not
\* offer the switch.
SetAlwaysAdmin(p) ==
  /\ pc[p] = "running" /\ ~is_packaged(p)
  /\ alwaysAdmin' = ~alwaysAdmin
  /\ UNCHANGED <<pc, process, mutex, surfaced, faulted>>

\* "Restart as administrator now".
Ask(p) ==
  /\ ~elevated[p] /\ ~is_packaged(p)
  /\ Goto(p, "running", "ask")
  /\ UNCHANGED <<process, mutex, alwaysAdmin, surfaced, faulted>>

AcceptAsk(p, c) == Accept(p, c, "ask")

RefuseAsk(p) ==
  /\ Goto(p, "ask", "running")
  /\ UNCHANGED <<process, mutex, alwaysAdmin, surfaced, faulted>>

\* quit() in the tray, or the window is closed for good.
Quit(p) ==
  /\ Goto(p, "running", "exit")
  /\ faulted' = TRUE
  /\ UNCHANGED <<process, mutex, alwaysAdmin, surfaced>>

\* The OS ends the process and frees its handle, and with the last the mutex.
End(p) ==
  /\ Goto(p, "exit", "gone")
  /\ handles' = handles \ {p}
  /\ surfaced' = surfaced \ {p}
  /\ UNCHANGED <<process, guarded, alwaysAdmin, faulted>>

Kill(p) ==
  /\ pc[p] \notin {"unborn", "gone"}
  /\ pc' = [pc EXCEPT ![p] = "gone"]
  /\ handles' = handles \ {p}
  /\ surfaced' = surfaced \ {p}
  /\ faulted' = TRUE
  /\ UNCHANGED <<process, guarded, alwaysAdmin>>

-----------------------------------------------------------------------------

\* The steps a process takes by itself.
Advance(p) ==
  Peek(p) \/ WaitUntilFree(p) \/ Decide(p) \/ Acquire(p) \/ Bow(p) \/ End(p)

Next ==
  \/ \E p \in Proc :
       \/ UserLaunch(p) \/ Advance(p) \/ RefusePrompt(p)
       \/ SetAlwaysAdmin(p) \/ Ask(p) \/ RefuseAsk(p) \/ Quit(p) \/ Kill(p)
  \/ \E p, c \in Proc : AcceptPrompt(p, c) \/ AcceptAsk(p, c)

Spec == Init /\ [][Next]_vars

\* The OS runs every process; the user owes the prompts no answer.
FairSpec == Spec /\ \A p \in Proc : WF_vars(Advance(p))

-----------------------------------------------------------------------------
(* Properties.                                                             *)

\* The type invariant.  Only processes that have been through acquire have a
\* handle on the mutex: peeking creates nothing.
TypeOK ==
  /\ pc \in [Proc -> Stage]
  /\ elevated \in [Proc -> BOOLEAN]
  /\ relaunched \in [Proc -> BOOLEAN]
  /\ handles \subseteq {p \in Proc : pc[p] \in {"running", "ask", "bow", "exit"}}
  /\ guarded \in BOOLEAN
  /\ alwaysAdmin \in BOOLEAN
  /\ surfaced \subseteq {p \in Proc : pc[p] \in {"running", "ask", "exit"}}
  /\ faulted \in BOOLEAN

\* A process that runs beside another one: it has no administrator rights and
\* it was refused the mutex, and took the refusal for success.
Stray(p) == ~elevated[p] /\ p \notin handles

\* Of any two running instances one is a stray: no race of launches, prompts
\* and endings gives two that both claimed the mutex, or two with
\* administrator rights, which alone can create TUN adapters.
Exclusion == \A p, q \in Running : p # q => Stray(p) \/ Stray(q)

\* As long as every process started so far has the same rights, at most one
\* instance runs.
UniformExclusion ==
  (\A p, q \in Proc : pc[p] # "unborn" /\ pc[q] # "unborn" => elevated[p] = elevated[q])
    => \A p, q \in Running : p = q

\* As long as nothing has quit, died or overrun, a launch that finds the mutex
\* bows out to somebody: while the mutex exists an instance runs, or a successor
\* is still waiting for the mutex to drop.
NobodyIsStranded ==
  ~faulted /\ Exists => Running # {} \/ \E c \in Proc : pc[c] = "wait"

\* An elevated relaunch ends with an instance running, whoever else is started
\* in the meantime, unless something quits, dies or overruns.
HandoverCompletes == \A c \in Proc : pc[c] = "wait" ~> Running # {} \/ faulted

\* So does every launch, or with a prompt waiting for the user.
SomeoneRuns ==
  \A p \in Proc :
    pc[p] = "peek" ~>
      Running # {} \/ faulted \/ \E q \in Proc : pc[q] = "prompt"

-----------------------------------------------------------------------------
(* What the comments say and the code does not do.                         *)

\* "A named mutex detects whether another Polaris is already running", and
\* acquire "returns `false` if another instance won the race": so at most one
\* instance runs.
OneInstance == \A p, q \in Running : p = q

=============================================================================
