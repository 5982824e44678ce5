--------------------------- MODULE NetworkService ---------------------------
(***************************************************************************)
(* What the engine promises the rest of Polaris, with no worker thread, no *)
(* hash maps and no publish loop: each network is down, up with a          *)
(* configuration, or failed; commands are applied one at a time in the     *)
(* order they were sent; and the view the UI reads is replaced as a whole  *)
(* by one that agrees with every network.  Engine implements this module   *)
(* (Engine!ServiceSpec, proved in EngineProofs).                           *)
(***************************************************************************)
EXTENDS Sequences

CONSTANTS
  Net,       \* network (profile) ids
  Setting,   \* what a configuration says beside no_tun
  Invalid,   \* the settings no network can be brought up with
  Elevated,  \* does the process hold administrator rights?
  Blank      \* what a row shows of a network nothing is known about

VARIABLES
  inbox,     \* commands sent and not yet applied, oldest first
  net,       \* what each network is
  view       \* the row the UI shows for each network

vars == <<inbox, net, view>>

Config == [setting : Setting, no_tun : BOOLEAN]
Status == {"disconnected", "connecting", "connected", "error"}
Row    == [status : Status, shows : Setting \cup {Blank}]

Down   == [is |-> "down"]
Failed == [is |-> "failed"]
Up(c)  == [is |-> "up", cfg |-> c]

StartCmd(id, c) == [op |-> "start", id |-> id, cfg |-> c]
StopCmd(id)     == [op |-> "stop", id |-> id]

\* Without administrator rights no network gets a TUN adapter.
Effective(c) == [c EXCEPT !.no_tun = @ \/ ~Elevated]

\* Row r tells the truth about a network in state w.  A network that is up
\* may be anywhere in its life, but what is shown of it is its own.
TruthfulRow(r, w) ==
  CASE w.is = "down"   -> r.status = "disconnected" /\ r.shows = Blank
    [] w.is = "failed" -> r.status = "error" /\ r.shows = Blank
    [] w.is = "up"     -> /\ r.status # "disconnected"
                          /\ r.shows \in {Blank, w.cfg.setting}
                          /\ r.status = "connected" => r.shows = w.cfg.setting

Agrees == \A id \in Net : TruthfulRow(view[id], net[id])

-----------------------------------------------------------------------------

Init ==
  /\ inbox = <<>>
  /\ net  = [id \in Net |-> Down]
  /\ view = [id \in Net |-> [status |-> "disconnected", shows |-> Blank]]

Submit ==
  /\ \E id \in Net :
       \/ inbox' = Append(inbox, StopCmd(id))
       \/ \E c \in Config : inbox' = Append(inbox, StartCmd(id, c))
  /\ UNCHANGED <<net, view>>

\* w is what cmd may make of its network: a start that the configuration
\* rules out can only fail, any other may also fail for an outside reason.
Outcome(cmd, w) ==
  \/ cmd.op = "stop" /\ w = Down
  \/ cmd.op = "start" /\ w = Failed
  \/ /\ cmd.op = "start"
     /\ cmd.cfg.setting \notin Invalid
     /\ w = Up(Effective(cmd.cfg))

\* The next command is applied only when the view agrees with the networks:
\* the effect of one command is on display before the next one is taken.
Apply ==
  /\ inbox # <<>>
  /\ Agrees
  /\ inbox' = Tail(inbox)
  /\ \E w \in {Down, Failed} \cup {Up(c) : c \in Config} :
       /\ Outcome(Head(inbox), w)
       /\ net' = [net EXCEPT ![Head(inbox).id] = w]
  /\ UNCHANGED view

Refresh ==
  /\ view' \in [Net -> Row]
  /\ Agrees'
  /\ UNCHANGED <<inbox, net>>

Next == Submit \/ Apply \/ Refresh

Spec == Init /\ [][Next]_vars
=============================================================================
