------------------------------- MODULE Engine -------------------------------
(***************************************************************************)
(* src/engine.rs: the embedded EasyTier engine.  Any thread sends Start    *)
(* and Stop into an unbounded channel; one worker task owns the maps of    *)
(* live instances and of start errors, applies one command at a time and,  *)
(* after each command and on a one-second tick, rebuilds a snapshot by     *)
(* asking every instance in turn (an await each) and stores it whole.      *)
(* Meanwhile every instance lives a life of its own.                       *)
(*                                                                         *)
(* A HashMap keyed by profile id is a function on Net whose missing keys   *)
(* hold Absent (instances) or the "disconnected" row (snapshots, as        *)
(* NetSnapshot::default() and every reader of a missing key have it).      *)
(***************************************************************************)
EXTENDS Naturals, Sequences

CONSTANTS
  Net,       \* profile ids
  Setting,   \* everything a NetworkConfig says beside no_tun
  Invalid,   \* settings gen_config or NetworkInstance::start always rejects
  Elevated,  \* is_elevated(): fixed before the engine is started
  Blank,     \* the details a row shows when nothing is known of its network
  MaxQueue   \* bound on the commands in the channel (the code has none)

ASSUME EngineAssumption ==
  /\ Invalid \subseteq Setting
  /\ Elevated \in BOOLEAN
  /\ Blank \notin Setting
  /\ MaxQueue \in Nat

VARIABLES
  rx,        \* commands in the channel, oldest first
  instances, \* the worker's map of live instances
  errors,    \* the worker's record of the ids whose last start failed
  pc,        \* "select": waiting in select!; "publish": inside publish
  todo,      \* instances publish has not asked yet
  snap,      \* the snapshot publish is building
  state      \* the published snapshot, what snapshot() returns

vars == <<rx, instances, errors, pc, todo, snap, state>>

Config == [setting : Setting, no_tun : BOOLEAN]

\* What an instance answers to publish: it is not reachable yet ("booting"),
\* it is not reachable and has an error message ("failed"), it is reachable
\* and not running ("joining"), or it is running.
Phase    == {"booting", "failed", "joining", "running"}
Instance == [phase : Phase, cfg : Config]
Absent   == [phase |-> "absent"]
Live(id) == instances[id].phase # "absent"

Status == {"disconnected", "connecting", "connected", "error"}
Row    == [status : Status, shows : Setting \cup {Blank}]
NoRow    == [status |-> "disconnected", shows |-> Blank]
ErrorRow == [status |-> "error", shows |-> Blank]

StartCmd(id, c) == [op |-> "start", id |-> id, cfg |-> c]
StopCmd(id)     == [op |-> "stop", id |-> id]
Cmd == [op : {"start"}, id : Net, cfg : Config] \cup [op : {"stop"}, id : Net]

Init ==
  /\ rx = <<>>
  /\ instances = [id \in Net |-> Absent]
  /\ errors = {}
  /\ pc = "select"
  /\ todo = {}
  /\ snap = [id \in Net |-> NoRow]
  /\ state = [id \in Net |-> NoRow]

-----------------------------------------------------------------------------
(* The senders: the UI, the tray menu and the startup code.                *)

Send(cmd) ==
  /\ Len(rx) < MaxQueue
  /\ rx' = Append(rx, cmd)
  /\ UNCHANGED <<instances, errors, pc, todo, snap, state>>

Start(id, c) == Send(StartCmd(id, c))
Stop(id)     == Send(StopCmd(id))

-----------------------------------------------------------------------------
(* The worker.                                                             *)

\* Mutant: the ids to ask are collected before the command is applied.
BeginPublishStale ==
  /\ pc' = "publish"
  /\ todo' = {id \in Net : Live(id)}
  /\ snap' = [id \in Net |-> NoRow]
  /\ UNCHANGED state

\* Every arm of the select! ends in a call of publish.
BeginPublish ==
  /\ pc' = "publish"
  /\ todo' = {id \in Net : instances'[id].phase # "absent"}
  /\ snap' = [id \in Net |-> NoRow]
  /\ UNCHANGED state

\* Mutant: a stop leaves the snapshot to the next tick.
RecvStopUnpublished ==
  /\ pc = "select"
  /\ rx # <<>> /\ Head(rx).op = "stop"
  /\ rx' = Tail(rx)
  /\ instances' = [instances EXCEPT ![Head(rx).id] = Absent]
  /\ errors' = errors \ {Head(rx).id}
  /\ UNCHANGED <<pc, todo, snap, state>>

\* Mutant: a stop forgets every error, not just its network's.
RecvStopClearsErrors ==
  /\ pc = "select"
  /\ rx # <<>> /\ Head(rx).op = "stop"
  /\ rx' = Tail(rx)
  /\ instances' = [instances EXCEPT ![Head(rx).id] = Absent]
  /\ errors' = {}
  /\ BeginPublish

\* Mutant: a stop removes the instance and keeps the recorded error.
RecvStopKeepsError ==
  /\ pc = "select"
  /\ rx # <<>> /\ Head(rx).op = "stop"
  /\ rx' = Tail(rx)
  /\ instances' = [instances EXCEPT ![Head(rx).id] = Absent]
  /\ UNCHANGED errors
  /\ BeginPublish

\* Dropping the instance stops its launcher thread.
RecvStop ==
  /\ pc = "select"
  /\ rx # <<>> /\ Head(rx).op = "stop"
  /\ rx' = Tail(rx)
  /\ instances' = [instances EXCEPT ![Head(rx).id] = Absent]
  /\ errors' = errors \ {Head(rx).id}
  /\ BeginPublish

\* Mutant: the proxy-only fallback is forgotten.
EffectiveAsAsked(c) == c

\* No TUN adapter without administrator rights.
Effective(c) == [c EXCEPT !.no_tun = @ \/ ~Elevated]

\* Mutant: the old instance goes only when the new one has come up.
StartedOrFailedLate(id, c) ==
  \/ /\ c.setting \notin Invalid
     /\ instances' = [instances EXCEPT ![id] =
                        [phase |-> "booting", cfg |-> Effective(c)]]
     /\ errors' = errors \ {id}
  \/ /\ UNCHANGED instances
     /\ errors' = errors \cup {id}

\* Mutant: a failed start is not recorded.
StartedOrFailedSilent(id, c) ==
  \/ /\ c.setting \notin Invalid
     /\ instances' = [instances EXCEPT ![id] =
                        [phase |-> "booting", cfg |-> Effective(c)]]
     /\ errors' = errors \ {id}
  \/ /\ instances' = [instances EXCEPT ![id] = Absent]
     /\ errors' = errors \ {id}

\* The old instance and the old error go before the new ones are known.
StartedOrFailed(id, c) ==
  \/ /\ c.setting \notin Invalid
     /\ instances' = [instances EXCEPT ![id] =
                        [phase |-> "booting", cfg |-> Effective(c)]]
     /\ errors' = errors \ {id}
  \/ /\ instances' = [instances EXCEPT ![id] = Absent]
     /\ errors' = errors \cup {id}

RecvStart ==
  /\ pc = "select"
  /\ rx # <<>> /\ Head(rx).op = "start"
  /\ rx' = Tail(rx)
  /\ StartedOrFailed(Head(rx).id, Head(rx).cfg)
  /\ BeginPublish

Recv == RecvStop \/ RecvStart

\* Mutant: the test for an empty map is the wrong way round.
TickWhenEmpty ==
  /\ pc = "select"
  /\ \A id \in Net : ~Live(id)
  /\ UNCHANGED <<rx, instances, errors>>
  /\ BeginPublish

\* Missed ticks are skipped and an engine with no instance ignores the tick.
Tick ==
  /\ pc = "select"
  /\ \E id \in Net : Live(id)
  /\ UNCHANGED <<rx, instances, errors>>
  /\ BeginPublish

\* net_snapshot: the answer of one instance, at the moment it answers.
NetSnapshot(ni) ==
  [status |-> CASE ni.phase = "failed"  -> "error"
                [] ni.phase = "running" -> "connected"
                [] OTHER                -> "connecting",
   shows  |-> IF ni.phase \in {"joining", "running"} THEN ni.cfg.setting
              ELSE Blank]

\* publish asks the instances one by one, in the map's arbitrary order.
ReadInstance(id) ==
  /\ pc = "publish"
  /\ id \in todo
  /\ todo' = todo \ {id}
  /\ snap' = [snap EXCEPT ![id] = NetSnapshot(instances[id])]
  /\ UNCHANGED <<rx, instances, errors, pc, state>>

\* The recorded errors are written over what the instances answered.
StoreSnapshot ==
  /\ pc = "publish"
  /\ todo = {}
  /\ state' = [id \in Net |-> IF id \in errors THEN ErrorRow ELSE snap[id]]
  /\ pc' = "select"
  /\ snap' = [id \in Net |-> NoRow]
  /\ UNCHANGED <<rx, instances, errors, todo>>

\* An instance connects, loses its peers or fails whenever it likes.
InstanceStep(id) ==
  /\ Live(id)
  /\ \E p \in Phase \ {instances[id].phase} :
       instances' = [instances EXCEPT ![id].phase = p]
  /\ UNCHANGED <<rx, errors, pc, todo, snap, state>>

Worker ==
  \/ Recv
  \/ Tick
  \/ \E id \in Net : ReadInstance(id)
  \/ StoreSnapshot

Next ==
  \/ \E id \in Net, c \in Config : Start(id, c)
  \/ \E id \in Net : Stop(id) \/ InstanceStep(id)
  \/ Worker

Spec == Init /\ [][Next]_vars

\* The worker never stops while it has something to do (get_running_info
\* answers), and select! picks a ready arm at random, so a waiting command
\* is not passed over by the tick for ever.
FairSpec == Spec /\ WF_vars(Worker) /\ SF_vars(Recv)

-----------------------------------------------------------------------------
(* Safety.                                                                 *)

\* The type invariant.
TypeOK ==
  /\ rx \in Seq(Cmd)
  /\ instances \in [Net -> Instance \cup {Absent}]
  /\ errors \subseteq Net
  /\ pc \in {"select", "publish"}
  /\ todo \subseteq {id \in Net : Live(id)}
  /\ snap \in [Net -> Row]
  /\ state \in [Net -> Row]

\* No network has both a live instance and a recorded start error.  publish
\* writes the errors over the instances, so a network with both would be
\* shown as failed, and offered for another start, while it is up.
ErrorsAreNotLive == \A id \in errors : ~Live(id)

\* r may be shown for id: it has id's start error, or what its present
\* instance answered at some time in its life, or nothing.
Truthful(r, id) ==
  IF id \in errors THEN r = ErrorRow
  ELSE IF Live(id) THEN \E p \in Phase :
                          r = NetSnapshot([instances[id] EXCEPT !.phase = p])
  ELSE r = NoRow

\* Whenever the worker is waiting in select!, the published snapshot has a
\* row for every instance and error it holds and no other, and each row was
\* answered by the instance that is live now, never by one stopped or
\* replaced since: what a command did is published before the next one.
PublishedIsTruthful ==
  pc = "select" => \A id \in Net : Truthful(state[id], id)

\* A failed start stays on record, and on display, until the next command
\* for that very network: no tick and no command for another network makes
\* the user's only trace of the failure go away.
FailureStays ==
  [][\A id \in errors :
        \/ id \in errors' /\ (state[id] = ErrorRow => state'[id] = ErrorRow)
        \/ rx # <<>> /\ rx' = Tail(rx) /\ Head(rx).id = id]_vars

\* The worker implements the abstract network service: with the worker's two
\* maps read as one state per network, every step is a step of it or none.
Service == INSTANCE NetworkService WITH
  inbox <- rx,
  net   <- [id \in Net |->
             IF Live(id) THEN [is |-> "up", cfg |-> instances[id].cfg]
             ELSE IF id \in errors THEN [is |-> "failed"]
             ELSE [is |-> "down"]],
  view  <- state

ServiceSpec == Service!Spec

-----------------------------------------------------------------------------
(* Liveness.                                                               *)

\* The last command waiting for id, if there is one, is an op.
LastAsked(id, op) ==
  \E i \in 1..Len(rx) :
    /\ rx[i].id = id /\ rx[i].op = op
    /\ \A j \in i + 1..Len(rx) : rx[j].id # id

NoneAsked(id, op) == \A i \in 1..Len(rx) : rx[i].id # id \/ rx[i].op # op

\* A stop gets through: unless the network is started again, there comes a
\* time when it has no instance, no error and no row, whatever the other
\* networks do meanwhile.
StopIsSeen ==
  \A id \in Net : LastAsked(id, "stop") ~>
    \/ LastAsked(id, "start")
    \/ /\ pc = "select" /\ NoneAsked(id, "start")
       /\ ~Live(id) /\ id \notin errors /\ state[id] = NoRow

\* A start gets through: unless the network is stopped again, there comes a
\* time when the UI has a row for it, of its new instance or of its error.
StartIsSeen ==
  \A id \in Net : LastAsked(id, "start") ~>
    \/ LastAsked(id, "stop")
    \/ /\ pc = "select" /\ NoneAsked(id, "stop")
       /\ Live(id) \/ id \in errors
       /\ state[id] # NoRow

\* A network that settles as running is in the end shown as connected for
\* good: no command of another network keeps publish from reaching it.
ConnectedIsShown ==
  \A id \in Net :
    <>[](instances[id].phase = "running") => <>[](state[id].status = "connected")

=============================================================================
