------------------------------ MODULE Sharing ------------------------------
(***************************************************************************)
(* A network's configuration on its travels: typed into the editor of      *)
(* src/ui.rs, exported or copied in one of the formats of src/config.rs,   *)
(* imported or pasted again, by Polaris or by the official EasyTier GUI,   *)
(* as often as people like.                                                *)
(*                                                                         *)
(* Ids, the selection and the store are the business of Profiles.  External*)
(* are EasyTier's own readers and writers: what its TOML keeps is what the *)
(* comments of config.rs rely on, the peers to call but not the method     *)
(* that named them, and gen_config may refuse what is not Sound.           *)
(***************************************************************************)
EXTENDS NetConfig

CONSTANTS
  Typed,       \* the texts typed into text boxes
  TypedLines,  \* the lines typed into boxes of lines
  Numbers,     \* the numbers typed into number boxes
  Foreign,     \* the configs written by the official GUI
  MaxNetworks, \* bound on the networks in the list
  MaxEdits     \* bound on the edits made in all

ASSUME SharingAssumption ==
  /\ Typed \subseteq Text
  /\ TypedLines \subseteq Seq(Text)
  /\ Numbers \subseteq Nat
  /\ Foreign \subseteq NetworkConfig
  /\ MaxNetworks \in Nat \ {0} /\ MaxEdits \in Nat

VARIABLES
  list,   \* the networks in the store, each with what its author meant
  doc,    \* the file or text that travels, if any
  edits   \* edits made so far

vars == <<list, doc, edits>>

\* What a config asks of the engine.  Of the addresses only those of the
\* method in use are called; an address that is empty is none.
Reached(nc) ==
  LET method == FromIndex(UnwrapOr(nc.networking_method, 0)) IN
  CASE method = "PublicServer" -> SetToSeq(nc.public_server_url)
    [] method = "Manual"       -> nc.peer_urls
    [] method = "Standalone"   -> <<>>

Meaning(nc) ==
  [network_name |-> UnwrapOr(nc.network_name, Empty),
   network_secret |-> UnwrapOr(nc.network_secret, Empty),
   hostname |-> UnwrapOr(nc.hostname, Empty),
   address |-> When(~UnwrapOr(nc.dhcp, TRUE),
                    [ip |-> nc.virtual_ipv4 \ {Empty}, len |-> nc.network_length]),
   reached |-> Reached(nc),
   socks5 |-> When(UnwrapOr(nc.enable_socks5, FALSE), nc.socks5_port),
   portal |-> When(UnwrapOr(nc.enable_vpn_portal, FALSE),
                   [port |-> nc.portal_port, addr |-> nc.portal_addr,
                    len |-> nc.portal_len]),
   forwards |-> nc.port_forwards,
   mtu |-> {n \in nc.mtu : n > 0},
   encrypted |-> ~UnwrapOr(nc.disable_encryption, FALSE),
   flags |-> UnwrapOr(nc.flags, DefaultFlags)]

\* What the editor's pages say: the same, in the terms of a profile.
Shown(p) ==
  [network_name |-> Trimmed[p.network_name],
   network_secret |-> p.network_secret,
   hostname |-> Trimmed[p.hostname],
   address |-> When(~p.dhcp, [ip |-> {Trimmed[p.virtual_ipv4]} \ {Empty},
                              len |-> {p.network_length}]),
   reached |-> CASE p.join_method = "PublicServer" -> CleanList(p.public_servers)
                 [] p.join_method = "Manual"       -> CleanList(p.peers)
                 [] p.join_method = "Standalone"   -> <<>>,
   socks5 |-> When(p.enable_socks5, {p.socks5_port}),
   portal |-> When(p.enable_vpn_portal,
                   [port |-> {p.portal_port}, addr |-> {Trimmed[p.portal_addr]},
                    len |-> {p.portal_len}]),
   forwards |-> CompleteRows(p.port_forwards),
   mtu |-> When(p.mtu > 0, p.mtu),
   encrypted |-> p.enable_encryption,
   flags |-> p.flags]

Port(o)   == o \subseteq 1..65535 /\ o # {}
Prefix(o) == o \subseteq 1..32 /\ o # {}

\* Everything that is switched on is filled in, within the range of its box,
\* and nothing has blanks around it.  A fixed address may be left out.
Sound(m) ==
  /\ Trimmed[m.network_name] = m.network_name
  /\ Trimmed[m.hostname] = m.hostname
  /\ \A a \in m.address : Prefix(a.len) /\ \A t \in a.ip : Trimmed[t] = t
  /\ CleanList(m.reached) = m.reached
  /\ \A o \in m.socks5 : Port(o)
  /\ \A o \in m.portal :
       /\ Port(o.port) /\ Prefix(o.len) /\ o.addr # {}
       /\ \A t \in o.addr : Trimmed[t] = t /\ t # Empty
  /\ \A i \in DOMAIN m.forwards :
       LET f == m.forwards[i] IN
       Complete(f) /\ Port({f.bind_port}) /\ Port({f.dst_port})

\* The numbers that a conversion brings into a range, and their ranges.
BoxRange == [socks5_port |-> 1..65535, portal_port |-> 1..65535,
             network_length |-> 1..32, portal_len |-> 1..32]

\* A network as it is kept or carried.  History: "meant", what its author
\* meant, and "loose", the numbers that nothing keeps in their range.
Authored(p) ==
  [body |-> p, meant |-> Shown(p), loose |-> DOMAIN BoxRange]

Init ==
  /\ list = <<Authored(DefaultProfile)>>
  /\ doc = {}
  /\ edits = 0

-----------------------------------------------------------------------------
(* The editor.                                                             *)

\* A number box keeps to its range; one that is cleared reports NaN, which
\* clamp leaves alone and `as` makes 0.
Boxed(lo, hi) ==
  {IF n < lo THEN lo ELSE IF n > hi THEN hi ELSE n : n \in Numbers} \cup {0}

\* A box of lines trims every line, and keeps the empty ones.
SplitLines(s) == [i \in DOMAIN s |-> Trimmed[s[i]]]
Lines == {SplitLines(s) : s \in TypedLines}

\* The page offers the servers or the peers, whichever the method uses, and
\* an address only where it is not assigned.
GeneralEdits(p) ==
  {[p EXCEPT !.network_name = t] : t \in Typed}
  \cup {[p EXCEPT !.network_secret = t] : t \in Typed}
  \cup {[p EXCEPT !.hostname = t] : t \in Typed}
  \cup {[p EXCEPT !.join_method = m] : m \in JoinMethod}
  \cup {[p EXCEPT !.dhcp = ~@]}
  \cup (CASE p.join_method = "PublicServer" ->
               {[p EXCEPT !.public_servers = s] : s \in Lines}
          [] p.join_method = "Manual" -> {[p EXCEPT !.peers = s] : s \in Lines}
          [] OTHER -> {})
  \cup (IF p.dhcp THEN {}
        ELSE {[p EXCEPT !.virtual_ipv4 = t] : t \in Typed}
             \cup {[p EXCEPT !.network_length = n] : n \in Boxed(1, 32)})

\* The boxes of what is switched off are greyed out.
ProxyEdits(p) ==
  {[p EXCEPT !.enable_socks5 = ~@], [p EXCEPT !.enable_vpn_portal = ~@]}
  \cup (IF p.enable_socks5
        THEN {[p EXCEPT !.socks5_port = n] : n \in Boxed(1, 65535)} ELSE {})
  \cup (IF p.enable_vpn_portal
        THEN {[p EXCEPT !.portal_port = n] : n \in Boxed(1, 65535)}
             \cup {[p EXCEPT !.portal_addr = t] : t \in Typed}
             \cup {[p EXCEPT !.portal_len = n] : n \in Boxed(1, 32)}
        ELSE {})

\* A row is added empty, filled in cell by cell, and removed.
RowEdits(p, i) ==
  {[p EXCEPT !.port_forwards = RemoveAt(@, i)]}
  \cup {[p EXCEPT !.port_forwards[i].bind_port = n] : n \in Boxed(0, 65535)}
  \cup {[p EXCEPT !.port_forwards[i].dst_port = n] : n \in Boxed(0, 65535)}
  \cup {[p EXCEPT !.port_forwards[i].dst_ip = t] : t \in Typed}

ForwardEdits(p) ==
  {[p EXCEPT !.port_forwards = Append(@, DefaultForward)]}
  \cup UNION {RowEdits(p, i) : i \in DOMAIN p.port_forwards}

\* The switches, lists and limits that are copied unchanged.
FlagEdits(p) == {[p EXCEPT !.flags = f] : f \in Flags}

SecurityEdits(p) == {[p EXCEPT !.enable_encryption = ~@]} \cup FlagEdits(p)
RoutingEdits(p)  == FlagEdits(p)
AdvancedEdits(p) == {[p EXCEPT !.mtu = n] : n \in Boxed(0, 1500)} \cup FlagEdits(p)

OtherEdits(p) == SecurityEdits(p) \cup RoutingEdits(p) \cup AdvancedEdits(p)

\* The edited profile replaces the i-th.
Edit(i, p) ==
  /\ edits < MaxEdits /\ edits' = edits + 1
  /\ list' = [list EXCEPT ![i] = Authored(p)]
  /\ UNCHANGED doc

EditGeneral ==
  \E i \in DOMAIN list : \E p \in GeneralEdits(list[i].body) : Edit(i, p)

EditProxies ==
  \E i \in DOMAIN list : \E p \in ProxyEdits(list[i].body) : Edit(i, p)

EditForwards ==
  \E i \in DOMAIN list : \E p \in ForwardEdits(list[i].body) : Edit(i, p)

EditOther ==
  \E i \in DOMAIN list : \E p \in OtherEdits(list[i].body) : Edit(i, p)

Delete ==
  /\ \E i \in DOMAIN list : list' = RemoveAt(list, i)
  /\ UNCHANGED <<doc, edits>>

-----------------------------------------------------------------------------
(* Writing.                                                                *)

\* A document: its shape, the suffix of its name ("" for the clipboard), and
\* the networks in it, as profiles or as NetworkConfigs.
Native == {"profile", "store"}
Json   == Native \cup {"config", "list"}

Document(shape, ext, nets) == [shape |-> shape, ext |-> ext, nets |-> nets]

Converted(net, nc) == [net EXCEPT !.body = nc, !.loose = {}]

\* Mutant: the suffix is left as it was typed.
EnsureExtTyped(typed, ext) == typed

\* The name typed into the dialog, made to end in the format's suffix.
EnsureExt(typed, ext) == IF typed = ext THEN typed ELSE ext

SaveAs(shape, suffix, nets) ==
  /\ \E typed \in {"json", "toml", "other"} :
       doc' = {Document(shape, EnsureExt(typed, suffix), nets)}
  /\ UNCHANGED <<list, edits>>

ExportPolaris ==
  \E i \in DOMAIN list : SaveAs("profile", "json", <<list[i]>>)

ExportJson ==
  \E i \in DOMAIN list :
    SaveAs("config", "json",
           <<Converted(list[i], ToNetworkConfig(list[i].body))>>)

\* gen_config and dump, and what new_from_config makes of the text later: the
\* addresses to call, under a method that calls them.
Toml(nc) ==
  LET called == Reached(nc)
      Method(m, url, peers) ==
        [nc EXCEPT !.networking_method = {m}, !.public_server_url = url,
                   !.peer_urls = peers]
  IN {Method(1, {}, called)}
     \cup (IF Len(called) = 1 THEN {Method(0, {called[1]}, <<>>)} ELSE {})
     \cup (IF Len(called) = 0 THEN {Method(2, {}, <<>>)} ELSE {})

Dumped(net) ==
  LET nc == ToNetworkConfig(net.body) IN
  IF Sound(Meaning(nc)) THEN {Converted(net, t) : t \in Toml(nc)} ELSE {}

ExportToml ==
  \E i \in DOMAIN list : \E net \in Dumped(list[i]) :
    SaveAs("toml", "toml", <<net>>)

CopyConfig ==
  /\ \E i \in DOMAIN list : \E net \in Dumped(list[i]) :
       doc' = {Document("toml", "", <<net>>)}
  /\ UNCHANGED <<list, edits>>

\* The whole store, which need not have a network in it.
Backup == SaveAs("store", "json", list)

\* The official GUI shares a config as text, or a file with a list of them.
ForeignWrites ==
  /\ \E nc \in Foreign :
       LET nets == <<[body |-> nc, meant |-> Meaning(nc), loose |-> {}]>>
       IN \/ doc' = {Document("config", "", nets)}
          \/ doc' = {Document("list", "json", nets)}
  /\ UNCHANGED <<list, edits>>

-----------------------------------------------------------------------------
(* Reading.                                                                *)

\* The proxy ports of which nothing is left, as the lower 16 bits are zero.
CutToZero(nc) ==
  {f \in {"socks5_port", "portal_port"} : \E n \in nc[f] : n > 0 /\ n % 65536 = 0}

Imported(net) ==
  [net EXCEPT !.body = FromNetworkConfig(@), !.loose = CutToZero(net.body)]

Phantom ==
  Imported([body |-> NoConfig, meant |-> Meaning(NoConfig), loose |-> {}])

\* parse_json_configs tries the shapes in turn.  A store without networks is
\* none of Polaris's, and is read as a NetworkConfig that has no field set.
ParseJson(d) ==
  CASE d.shape \in Native /\ d.nets # <<>> -> d.nets
    [] d.shape = "store" /\ d.nets = <<>>  -> <<Phantom>>
    [] OTHER -> [i \in DOMAIN d.nets |-> Imported(d.nets[i])]

ParseToml(d) == [i \in DOMAIN d.nets |-> Imported(d.nets[i])]

\* The parser goes by the suffix, or by the first character of pasted text;
\* a document of the other kind is refused.
Parsed(d) ==
  CASE d.shape \in Json /\ d.ext \in {"json", ""} -> ParseJson(d)
    [] d.shape = "toml" /\ d.ext # "json"         -> ParseToml(d)
    [] OTHER -> <<>>

\* import_button and paste_button.
Import ==
  /\ \E d \in doc :
       /\ Parsed(d) # <<>>
       /\ Len(list) + Len(Parsed(d)) <= MaxNetworks
       /\ list' = list \o Parsed(d)
  /\ UNCHANGED <<doc, edits>>

Next ==
  \/ EditGeneral \/ EditProxies \/ EditForwards \/ EditOther \/ Delete
  \/ ExportPolaris \/ ExportJson \/ ExportToml \/ CopyConfig \/ Backup
  \/ ForeignWrites
  \/ Import

Spec == Init /\ [][Next]_vars

-----------------------------------------------------------------------------
(* Properties.                                                             *)

\* The type invariant: a profile's ports have 16 bits and its prefix lengths
\* 8, whatever was imported.
TypeOK ==
  /\ \A i \in DOMAIN list : list[i].body \in Profile
  /\ Len(list) <= MaxNetworks
  /\ \A d \in doc :
       /\ d.shape \in Json \cup {"toml"}
       /\ \A i \in DOMAIN d.nets :
            d.nets[i].body \in IF d.shape \in Native THEN Profile ELSE NetworkConfig
  /\ edits \in 0..MaxEdits

\* Whoever opens a shared configuration joins the network its author meant:
\* over any number of exports and imports, in any mixture of formats, the
\* engine is asked for the same name, secret, address, peers, proxies and
\* forwards, if all of that was filled in to begin with.
SameNetwork ==
  \A i \in DOMAIN list :
    Sound(list[i].meant) => Meaning(ToNetworkConfig(list[i].body)) = list[i].meant

\* A document can be read again, every network of it, under whatever name it
\* was saved.
ReadsBack == \A d \in doc : d.nets # <<>> => Len(Parsed(d)) = Len(d.nets)

\* A configuration that comes in an EasyTier format has no number the editor
\* would not take, even if it was exported from an editor with cleared boxes:
\* where there is none to take over, the default holds.  The one exception is
\* a proxy port whose lower 16 bits are zero, which is taken over as 0.
ImportsInRange ==
  \A i \in DOMAIN list :
    \A f \in DOMAIN BoxRange \ list[i].loose : list[i].body[f] \in BoxRange[f]

=============================================================================
