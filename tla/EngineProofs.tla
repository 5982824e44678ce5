---------------------------- MODULE EngineProofs ----------------------------
(***************************************************************************)
(* Engine's safety invariants, for any set of networks and any number of   *)
(* waiting commands, and the proof that the engine implements              *)
(* NetworkService.                                                         *)
(***************************************************************************)
EXTENDS Engine, TLAPS

\* What an instance with configuration c may answer in its life.
Answers(c) == {NetSnapshot([phase |-> p, cfg |-> c]) : p \in Phase}

\* The snapshot under construction has the row of every live instance asked
\* so far and no other.
BuildingIsTruthful ==
  pc = "publish" =>
    \A id \in Net :
      IF Live(id) /\ id \notin todo
      THEN snap[id] \in Answers(instances[id].cfg)
      ELSE snap[id] = NoRow

\* PublishedIsTruthful, in the terms of Answers.
RowIsTruthful(r, id) ==
  IF id \in errors THEN r = ErrorRow
  ELSE IF Live(id) THEN r \in Answers(instances[id].cfg)
  ELSE r = NoRow

ViewIsTruthful == pc = "select" => \A id \in Net : RowIsTruthful(state[id], id)

\* The inductive invariant: a published row is truthful because the rows of
\* the snapshot under construction are.
IInv ==
  /\ TypeOK
  /\ ErrorsAreNotLive
  /\ BuildingIsTruthful
  /\ ViewIsTruthful

-----------------------------------------------------------------------------
(* Data.                                                                   *)

LEMMA InstanceFacts ==
  ASSUME NEW i \in Instance \cup {Absent}, i.phase # "absent"
  PROVE  /\ i \in Instance
         /\ \A p \in Phase : /\ [i EXCEPT !.phase = p] \in Instance
                             /\ [i EXCEPT !.phase = p] = [phase |-> p, cfg |-> i.cfg]
  BY DEF Instance, Absent, Phase

LEMMA AnswerFacts ==
  ASSUME NEW i \in Instance
  PROVE  /\ NetSnapshot(i) \in Row
         /\ NetSnapshot(i) \in Answers(i.cfg)
  <1>1. i = [phase |-> i.phase, cfg |-> i.cfg] /\ i.phase \in Phase
    BY DEF Instance
  <1>2. NetSnapshot(i) \in Row
    BY DEF NetSnapshot, Row, Status, Instance, Config
  <1>3. NetSnapshot(i) \in Answers(i.cfg)
    BY <1>1 DEF Answers
  <1> QED BY <1>2, <1>3

LEMMA EffectiveType == ASSUME NEW c \in Config PROVE Effective(c) \in Config
  BY EngineAssumption DEF Effective, Config

-----------------------------------------------------------------------------
(* The invariant.                                                          *)

LEMMA InitInvariant == Init => IInv
  BY EngineAssumption
  DEF Init, IInv, TypeOK, ErrorsAreNotLive, BuildingIsTruthful, ViewIsTruthful,
      RowIsTruthful, Live, Absent, Row, NoRow, Status, Cmd

\* What every arm of the select! leaves behind: nothing is asked yet, and the
\* two maps are typed and disjoint.
LEMMA BeginPublishInvariant ==
  ASSUME IInv, BeginPublish,
         rx' \in Seq(Cmd),
         instances' \in [Net -> Instance \cup {Absent}],
         errors' \subseteq Net,
         \A id \in errors' : instances'[id].phase = "absent"
  PROVE  IInv'
  BY DEF IInv, BeginPublish, TypeOK, ErrorsAreNotLive, BuildingIsTruthful,
         ViewIsTruthful, Live, Row, NoRow, Status

LEMMA SendInvariant ==
  ASSUME IInv, NEW cmd \in Cmd, Send(cmd)
  PROVE  IInv'
  <1>1. rx' \in Seq(Cmd)
    BY DEF IInv, TypeOK, Send
  <1> QED
    BY <1>1 DEF IInv, Send, TypeOK, ErrorsAreNotLive, BuildingIsTruthful,
                ViewIsTruthful, RowIsTruthful, Live

LEMMA HeadFacts ==
  ASSUME TypeOK, rx # <<>>
  PROVE  /\ Head(rx) \in Cmd /\ Tail(rx) \in Seq(Cmd)
         /\ Head(rx).id \in Net
         /\ Head(rx).op = "start" => Head(rx).cfg \in Config
  <1>1. Head(rx) \in Cmd /\ Tail(rx) \in Seq(Cmd)
    BY DEF TypeOK
  <1> QED BY <1>1 DEF Cmd

LEMMA RecvStopInvariant ==
  ASSUME IInv, RecvStop
  PROVE  IInv'
  <1>1. Head(rx).id \in Net /\ rx' \in Seq(Cmd)
    BY HeadFacts DEF IInv, RecvStop
  <1>2. /\ instances' \in [Net -> Instance \cup {Absent}]
        /\ errors' \subseteq Net
        /\ \A id \in errors' : instances'[id].phase = "absent"
    BY <1>1 DEF IInv, TypeOK, ErrorsAreNotLive, Live, RecvStop
  <1> QED BY <1>1, <1>2, BeginPublishInvariant DEF RecvStop

LEMMA RecvStartInvariant ==
  ASSUME IInv, RecvStart
  PROVE  IInv'
  <1> DEFINE id == Head(rx).id
             c  == Head(rx).cfg
             new == [phase |-> "booting", cfg |-> Effective(c)]
  <1>1. id \in Net /\ c \in Config /\ rx' \in Seq(Cmd)
    BY HeadFacts DEF IInv, RecvStart
  <1>2. new \in Instance
    BY <1>1, EffectiveType DEF Instance, Phase
  <1>3. CASE /\ instances' = [instances EXCEPT ![id] = new]
             /\ errors' = errors \ {id}
    <2>1. /\ instances' \in [Net -> Instance \cup {Absent}]
          /\ errors' \subseteq Net
          /\ \A k \in errors' : instances'[k].phase = "absent"
      BY <1>1, <1>2, <1>3 DEF IInv, TypeOK, ErrorsAreNotLive, Live
    <2> QED BY <1>1, <2>1, BeginPublishInvariant DEF RecvStart
  <1>4. CASE /\ instances' = [instances EXCEPT ![id] = Absent]
             /\ errors' = errors \cup {id}
    <2>1. /\ instances' \in [Net -> Instance \cup {Absent}]
          /\ errors' \subseteq Net
          /\ \A k \in errors' : instances'[k].phase = "absent"
      BY <1>1, <1>4 DEF IInv, TypeOK, ErrorsAreNotLive, Live, Absent
    <2> QED BY <1>1, <2>1, BeginPublishInvariant DEF RecvStart
  <1> QED BY <1>3, <1>4 DEF RecvStart, StartedOrFailed

LEMMA TickInvariant ==
  ASSUME IInv, Tick
  PROVE  IInv'
  BY BeginPublishInvariant DEF IInv, TypeOK, ErrorsAreNotLive, Live, Tick

\* The answer becomes the row of the instance that gave it.
LEMMA ReadInvariant ==
  ASSUME IInv, NEW k \in Net, ReadInstance(k)
  PROVE  IInv'
  <1>1. instances[k] \in Instance
    BY InstanceFacts DEF IInv, TypeOK, ReadInstance, Live
  <1>2. /\ NetSnapshot(instances[k]) \in Row
        /\ NetSnapshot(instances[k]) \in Answers(instances[k].cfg)
    BY <1>1, AnswerFacts
  <1>3. TypeOK'
    BY <1>2 DEF IInv, TypeOK, ReadInstance, Live
  <1>4. BuildingIsTruthful'
    <2> SUFFICES ASSUME NEW id \in Net
                 PROVE  IF Live(id)' /\ id \notin todo'
                        THEN snap'[id] \in Answers(instances'[id].cfg)
                        ELSE snap'[id] = NoRow
      BY DEF BuildingIsTruthful
    <2>1. CASE id = k
      BY <1>2, <2>1 DEF IInv, TypeOK, ReadInstance, Live
    <2>2. CASE id # k
      BY <2>2 DEF IInv, TypeOK, BuildingIsTruthful, ReadInstance, Live
    <2> QED BY <2>1, <2>2
  <1>5. ErrorsAreNotLive' /\ ViewIsTruthful'
    BY DEF IInv, ReadInstance, ErrorsAreNotLive, ViewIsTruthful, Live
  <1> QED BY <1>3, <1>4, <1>5 DEF IInv

LEMMA StoreInvariant ==
  ASSUME IInv, StoreSnapshot
  PROVE  IInv'
  <1>1. TypeOK'
    BY EngineAssumption
    DEF IInv, TypeOK, StoreSnapshot, Live, Row, NoRow, ErrorRow, Status
  <1>2. ViewIsTruthful'
    <2> SUFFICES ASSUME NEW id \in Net
                 PROVE  RowIsTruthful(state[id], id)'
      BY DEF ViewIsTruthful
    <2>1. state'[id] = IF id \in errors THEN ErrorRow ELSE snap[id]
      BY DEF StoreSnapshot
    <2>2. IF Live(id) THEN snap[id] \in Answers(instances[id].cfg)
          ELSE snap[id] = NoRow
      BY DEF IInv, BuildingIsTruthful, StoreSnapshot
    <2>3. errors' = errors /\ instances' = instances
      BY DEF StoreSnapshot
    <2> QED BY <2>1, <2>2, <2>3 DEF RowIsTruthful, Live
  <1>3. ErrorsAreNotLive' /\ BuildingIsTruthful'
    BY DEF IInv, StoreSnapshot, ErrorsAreNotLive, BuildingIsTruthful, Live
  <1> QED BY <1>1, <1>2, <1>3 DEF IInv

\* An instance keeps its configuration whatever happens to it.
LEMMA StepKeepsConfig ==
  ASSUME TypeOK, NEW k \in Net, InstanceStep(k)
  PROVE  /\ instances' \in [Net -> Instance \cup {Absent}]
         /\ \A id \in Net : /\ Live(id)' <=> Live(id)
                            /\ Live(id) => instances'[id].cfg = instances[id].cfg
  <1>1. PICK p \in Phase : instances' = [instances EXCEPT ![k].phase = p]
    BY DEF InstanceStep
  <1> DEFINE new == [instances[k] EXCEPT !.phase = p]
  <1>2. instances' = [instances EXCEPT ![k] = new]
    BY <1>1
  <1>3. new \in Instance /\ new = [phase |-> p, cfg |-> instances[k].cfg]
    BY InstanceFacts DEF TypeOK, InstanceStep, Live
  <1>4. new.phase # "absent" /\ new.cfg = instances[k].cfg
    BY <1>3 DEF Phase
  <1> HIDE DEF new
  <1> QED BY <1>2, <1>3, <1>4 DEF TypeOK, InstanceStep, Live

LEMMA InstanceStepInvariant ==
  ASSUME IInv, NEW k \in Net, InstanceStep(k)
  PROVE  IInv'
  <1>1. /\ instances' \in [Net -> Instance \cup {Absent}]
        /\ \A id \in Net : /\ Live(id)' <=> Live(id)
                           /\ Live(id) => instances'[id].cfg = instances[id].cfg
    BY StepKeepsConfig DEF IInv
  <1>2. UNCHANGED <<rx, errors, pc, todo, snap, state>>
    BY DEF InstanceStep
  <1>3. TypeOK'
    BY <1>1, <1>2 DEF IInv, TypeOK
  <1>4. ErrorsAreNotLive'
    BY <1>1, <1>2 DEF IInv, TypeOK, ErrorsAreNotLive
  <1>5. BuildingIsTruthful'
    BY <1>1, <1>2 DEF IInv, BuildingIsTruthful
  <1>6. ViewIsTruthful'
    BY <1>1, <1>2 DEF IInv, ViewIsTruthful, RowIsTruthful
  <1> QED BY <1>3, <1>4, <1>5, <1>6 DEF IInv

LEMMA StepInvariant == IInv /\ [Next]_vars => IInv'
  <1> SUFFICES ASSUME IInv, [Next]_vars
               PROVE  IInv'
    OBVIOUS
  <1>1. ASSUME NEW id \in Net, NEW c \in Config, Start(id, c)
        PROVE  IInv'
    <2>1. StartCmd(id, c) \in Cmd
      BY DEF StartCmd, Cmd
    <2> QED BY <1>1, <2>1, SendInvariant DEF Start
  <1>2. ASSUME NEW id \in Net, Stop(id)
        PROVE  IInv'
    <2>1. StopCmd(id) \in Cmd
      BY DEF StopCmd, Cmd
    <2> QED BY <1>2, <2>1, SendInvariant DEF Stop
  <1>3. ASSUME NEW id \in Net, InstanceStep(id)
        PROVE  IInv'
    BY <1>3, InstanceStepInvariant
  <1>4. CASE Recv
    BY <1>4, RecvStopInvariant, RecvStartInvariant DEF Recv
  <1>5. CASE Tick
    BY <1>5, TickInvariant
  <1>6. ASSUME NEW id \in Net, ReadInstance(id)
        PROVE  IInv'
    BY <1>6, ReadInvariant
  <1>7. CASE StoreSnapshot
    BY <1>7, StoreInvariant
  <1>8. CASE UNCHANGED vars
    BY <1>8 DEF vars, IInv, TypeOK, ErrorsAreNotLive, BuildingIsTruthful,
                ViewIsTruthful, RowIsTruthful, Live
  <1> QED
    BY <1>1, <1>2, <1>3, <1>4, <1>5, <1>6, <1>7, <1>8 DEF Next, Worker

THEOREM Invariance == Spec => []IInv
  BY InitInvariant, StepInvariant, PTL DEF Spec

-----------------------------------------------------------------------------
(* What Polaris relies on.                                                 *)

\* The worker's maps, its queue and its snapshots always hold what they are
\* declared to hold, and publish only ever asks live instances (worker and
\* publish in src/engine.rs).
THEOREM TypeCorrect == Spec => []TypeOK
  <1>1. IInv => TypeOK
    BY DEF IInv
  <1> QED BY Invariance, <1>1, PTL

\* No network is both up and recorded as failed, whatever the order of the
\* commands (the removals in the Start and Stop arms of worker).
THEOREM ErrorsNeverLive == Spec => []ErrorsAreNotLive
  <1>1. IInv => ErrorsAreNotLive
    BY DEF IInv
  <1> QED BY Invariance, <1>1, PTL

\* Whenever the worker waits for a command, the published snapshot tells the
\* truth about the instances and errors it holds now (publish and
\* net_snapshot: the awaits between the answers let nothing stale in).
THEOREM PublishedAlwaysTruthful == Spec => []PublishedIsTruthful
  <1>1. IInv => PublishedIsTruthful
    <2> SUFFICES ASSUME IInv, pc = "select", NEW id \in Net
                 PROVE  Truthful(state[id], id)
      BY DEF PublishedIsTruthful
    <2>1. RowIsTruthful(state[id], id)
      BY DEF IInv, ViewIsTruthful
    <2>2. CASE id \notin errors /\ Live(id)
      <3>1. PICK p \in Phase :
              state[id] = NetSnapshot([phase |-> p, cfg |-> instances[id].cfg])
        BY <2>1, <2>2 DEF RowIsTruthful, Answers
      <3>2. [instances[id] EXCEPT !.phase = p]
              = [phase |-> p, cfg |-> instances[id].cfg]
        BY <2>2, InstanceFacts DEF IInv, TypeOK, Live
      <3> QED BY <2>2, <3>1, <3>2 DEF Truthful
    <2>3. CASE id \in errors \/ ~Live(id)
      BY <2>1, <2>3 DEF RowIsTruthful, Truthful
    <2> QED BY <2>2, <2>3
  <1> QED BY Invariance, <1>1, PTL

\* The record of a failed start, and its row, stay until the next command for
\* that network (the errors map of worker).
THEOREM FailuresStay == Spec => FailureStays
  <1> DEFINE Kept(id) ==
        \/ id \in errors' /\ (state[id] = ErrorRow => state'[id] = ErrorRow)
        \/ rx # <<>> /\ rx' = Tail(rx) /\ Head(rx).id = id
  <1>1. IInv /\ [Next]_vars => [\A id \in errors : Kept(id)]_vars
    <2> SUFFICES ASSUME IInv, Next, NEW id \in errors
                 PROVE  Kept(id)
      OBVIOUS
    <2>1. id \in Net
      BY DEF IInv, TypeOK
    <2>2. ASSUME NEW k \in Net, \/ Stop(k) \/ InstanceStep(k) \/ ReadInstance(k)
                                \/ \E c \in Config : Start(k, c)
          PROVE  Kept(id)
      BY <2>2 DEF Stop, Start, Send, InstanceStep, ReadInstance
    <2>3. CASE Recv
      <3>1. rx # <<>> /\ rx' = Tail(rx) /\ UNCHANGED state
        BY <2>3 DEF Recv, RecvStop, RecvStart, BeginPublish
      <3>2. id # Head(rx).id => id \in errors'
        BY <2>3 DEF Recv, RecvStop, RecvStart, StartedOrFailed
      <3> QED BY <3>1, <3>2
    <2>4. CASE Tick
      BY <2>4 DEF Tick, BeginPublish
    <2>5. CASE StoreSnapshot
      BY <2>1, <2>5 DEF StoreSnapshot
    <2> QED BY <2>2, <2>3, <2>4, <2>5 DEF Next, Worker
  <1> QED BY Invariance, <1>1, PTL DEF Spec, FailureStays

-----------------------------------------------------------------------------
(* The engine implements the network service.                              *)

\* The abstract state of one network.
NetOf(id) ==
  IF Live(id) THEN [is |-> "up", cfg |-> instances[id].cfg]
  ELSE IF id \in errors THEN [is |-> "failed"]
  ELSE [is |-> "down"]

\* A truthful row of the engine is a truthful row of the service.
LEMMA RowRefinement ==
  ASSUME IInv, NEW id \in Net, NEW r \in Row, RowIsTruthful(r, id)
  PROVE  Service!TruthfulRow(r, NetOf(id))
  <1>1. CASE Live(id)
    <2>1. id \notin errors
      BY <1>1 DEF IInv, ErrorsAreNotLive
    <2>2. PICK p \in Phase : r = NetSnapshot([phase |-> p, cfg |-> instances[id].cfg])
      BY <1>1, <2>1 DEF RowIsTruthful, Answers
    <2>3. /\ r.status # "disconnected"
          /\ r.shows \in {Blank, instances[id].cfg.setting}
          /\ r.status = "connected" => r.shows = instances[id].cfg.setting
      BY <2>2 DEF NetSnapshot, Phase
    <2> QED BY <1>1, <2>3 DEF NetOf, Service!TruthfulRow
  <1>2. CASE ~Live(id) /\ id \in errors
    <2>1. r = ErrorRow /\ NetOf(id) = [is |-> "failed"]
      BY <1>2 DEF RowIsTruthful, NetOf
    <2> QED BY <2>1 DEF Service!TruthfulRow, ErrorRow
  <1>3. CASE ~Live(id) /\ id \notin errors
    <2>1. r = NoRow /\ NetOf(id) = [is |-> "down"]
      BY <1>3 DEF RowIsTruthful, NetOf
    <2> QED BY <2>1 DEF Service!TruthfulRow, NoRow
  <1> QED BY <1>1, <1>2, <1>3

\* While the worker waits for a command the service's view agrees with it.
LEMMA SelectAgrees == IInv /\ pc = "select" => Service!Agrees
  <1> SUFFICES ASSUME IInv, pc = "select", NEW id \in Net
               PROVE  Service!TruthfulRow(state[id], NetOf(id))
    BY DEF Service!Agrees, NetOf
  <1>1. state[id] \in Row /\ RowIsTruthful(state[id], id)
    BY DEF IInv, TypeOK, ViewIsTruthful
  <1> QED BY <1>1, RowRefinement


LEMMA InitRefinement == Init => Service!Init
  BY DEF Init, Service!Init, Live, Absent, NoRow, Service!Down

\* A command taken by the worker is a command applied by the service.
LEMMA RecvRefinement ==
  ASSUME IInv, Recv
  PROVE  Service!Apply
  <1>1. /\ pc = "select" /\ rx # <<>> /\ rx' = Tail(rx) /\ UNCHANGED state
    BY DEF Recv, RecvStop, RecvStart, BeginPublish
  <1>2. PICK cmd \in Cmd, id \in Net :
          /\ cmd = Head(rx) /\ id = cmd.id
          /\ cmd.op = "start" => cmd.cfg \in Config
    BY <1>1, HeadFacts DEF IInv
  <1> DEFINE net == [k \in Net |-> NetOf(k)]
             w   == NetOf(id)'
  <1>3. \A k \in Net \ {id} : NetOf(k)' = NetOf(k)
    BY <1>2 DEF IInv, TypeOK, Recv, RecvStop, RecvStart, StartedOrFailed, NetOf, Live
  <1>4. /\ w \in {Service!Down, Service!Failed} \cup {Service!Up(c) : c \in Service!Config}
        /\ Service!Outcome(cmd, w)
    <2>1. CASE RecvStop
      <3>1. cmd.op = "stop" /\ instances'[id].phase = "absent" /\ id \notin errors'
        BY <1>2, <2>1 DEF IInv, TypeOK, RecvStop, Absent
      <3>2. w = [is |-> "down"]
        BY <3>1 DEF NetOf, Live
      <3> QED BY <3>1, <3>2 DEF Service!Outcome, Service!Down
    <2>2. CASE RecvStart
      <3> DEFINE c == cmd.cfg
                 new == [phase |-> "booting", cfg |-> Effective(c)]
      <3>1. cmd.op = "start"
        BY <1>2, <2>2 DEF RecvStart
      <3>2. CASE /\ c.setting \notin Invalid
                 /\ instances' = [instances EXCEPT ![id] = new]
        <4>1. w = [is |-> "up", cfg |-> Effective(c)]
          BY <1>2, <3>2 DEF IInv, TypeOK, NetOf, Live
        <4>2. Effective(c) \in Service!Config /\ Effective(c) = Service!Effective(c)
          BY <1>2, <3>1, EffectiveType
          DEF Service!Config, Config, Effective, Service!Effective
        <4>3. w = Service!Up(Service!Effective(c))
          BY <4>1, <4>2 DEF Service!Up
        <4>4. Service!Outcome(cmd, w)
          BY <3>1, <3>2, <4>3 DEF Service!Outcome
        <4>5. w \in {Service!Up(k) : k \in Service!Config}
          <5> HIDE DEF w
          <5> QED BY <4>2, <4>3
        <4> QED BY <4>4, <4>5
      <3>3. CASE /\ instances' = [instances EXCEPT ![id] = Absent]
                 /\ errors' = errors \cup {id}
        <4>1. w = [is |-> "failed"]
          BY <1>2, <3>3 DEF IInv, TypeOK, NetOf, Live, Absent
        <4> QED BY <3>1, <4>1 DEF Service!Outcome, Service!Failed
      <3> HIDE DEF w
      <3> QED BY <1>2, <2>2, <3>2, <3>3 DEF RecvStart, StartedOrFailed
    <2> QED BY <2>1, <2>2 DEF Recv
  <1>5. net' = [net EXCEPT ![id] = w]
    BY <1>2, <1>3
  <1>6. Service!Agrees
    BY <1>1, SelectAgrees
  <1>7. \E v \in {Service!Down, Service!Failed} \cup {Service!Up(c) : c \in Service!Config} :
          /\ Service!Outcome(Head(rx), v)
          /\ net' = [net EXCEPT ![Head(rx).id] = v]
    <2> HIDE DEF w, net
    <2> QED BY <1>2, <1>4, <1>5
  <1> QED BY <1>1, <1>6, <1>7 DEF Service!Apply, NetOf

\* Storing a snapshot is a refresh of the view.
LEMMA StoreRefinement ==
  ASSUME IInv, StoreSnapshot
  PROVE  Service!Refresh
  <1>1. IInv'
    BY StoreInvariant
  <1>2. UNCHANGED <<rx, instances, errors>> /\ pc' = "select"
    BY DEF StoreSnapshot
  <1>3. state' \in [Net -> Service!Row]
    BY <1>1 DEF IInv, TypeOK, Row, Service!Row, Status, Service!Status
  <1>4. IInv' /\ (pc = "select")' => Service!Agrees'
    BY SelectAgrees, PTL
  <1> QED BY <1>1, <1>2, <1>3, <1>4 DEF Service!Refresh, Live

LEMMA StepRefinement == IInv /\ [Next]_vars => [Service!Next]_Service!vars
  <1> SUFFICES ASSUME IInv, [Next]_vars
               PROVE  [Service!Next]_Service!vars
    OBVIOUS
  <1>1. ASSUME NEW id \in Net, NEW c \in Config, Start(id, c)
        PROVE  Service!Submit
    BY <1>1 DEF Start, Send, StartCmd, Live, Config, Service!Config,
                Service!Submit, Service!StartCmd
  <1>2. ASSUME NEW id \in Net, Stop(id)
        PROVE  Service!Submit
    BY <1>2 DEF Stop, Send, StopCmd, Live, Service!Submit, Service!StopCmd
  <1>3. ASSUME NEW id \in Net, InstanceStep(id)
        PROVE  UNCHANGED Service!vars
    <2>1. \A k \in Net : /\ Live(k)' <=> Live(k)
                         /\ Live(k) => instances'[k].cfg = instances[k].cfg
      BY <1>3, StepKeepsConfig DEF IInv
    <2>2. UNCHANGED <<rx, errors, state>>
      BY <1>3 DEF InstanceStep
    <2> QED BY <2>1, <2>2 DEF Service!vars
  <1>4. CASE Recv
    BY <1>4, RecvRefinement DEF Service!Next
  <1>5. CASE StoreSnapshot
    BY <1>5, StoreRefinement DEF Service!Next
  <1>6. ASSUME \/ Tick \/ UNCHANGED vars \/ \E id \in Net : ReadInstance(id)
        PROVE  UNCHANGED Service!vars
    BY <1>6 DEF Tick, BeginPublish, ReadInstance, vars, Live, Service!vars
  <1> QED
    BY <1>1, <1>2, <1>3, <1>4, <1>5, <1>6 DEF Next, Worker, Service!Next

\* Every behaviour of the engine is one of the network service: commands are
\* applied once, in order and to their own network, each only when the last
\* one is on display, and the view is only ever replaced as a whole by one
\* that agrees with every network (worker and publish in src/engine.rs).
THEOREM Refinement == Spec => ServiceSpec
  BY InitRefinement, StepRefinement, Invariance, PTL
  DEF Spec, ServiceSpec, Service!Spec

=============================================================================
