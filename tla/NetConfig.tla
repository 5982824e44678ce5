----------------------------- MODULE NetConfig -----------------------------
(***************************************************************************)
(* src/config.rs: a Polaris profile, EasyTier's NetworkConfig, and what is *)
(* kept, defaulted, cut or dropped on the way from one to the other.       *)
(*                                                                         *)
(* An Option is the set of its value, {} for None.  The switches that are  *)
(* copied as they are, some thirty of them, are one value of Flags; the    *)
(* lists of subnets, routes and listeners, cleaned like the peers, and the *)
(* receive limit are part of it.  The fields no NetworkConfig has, the id, *)
(* the display name and the startup mode, belong to Profiles.              *)
(***************************************************************************)
EXTENDS Integers, SequencesExt

CONSTANTS
  Text,          \* the strings that names, secrets, addresses and URLs take
  Empty,         \* the string ""
  Trimmed,       \* str::trim
  Flags,         \* the fields that are copied without a change
  DefaultFlags,  \* ... in Profile::default()
  DefaultText    \* ... the texts of Profile::default()

ASSUME NetConfigAssumption ==
  /\ Empty \in Text
  /\ DefaultText \in [net : Text, secret : Text, server : Text, ip : Text,
                      cidr : Text]
  /\ Trimmed \in [Text -> Text]
  /\ \A t \in Text : Trimmed[Trimmed[t]] = Trimmed[t]
  /\ Trimmed[Empty] = Empty
  /\ DefaultFlags \in Flags

U8  == 0..255
U16 == 0..65535

Opt(S)         == {o \in SUBSET S : \A x, y \in o : x = y}
When(c, x)     == IF c THEN {x} ELSE {}
UnwrapOr(o, d) == IF o = {} THEN d ELSE CHOOSE x \in o : TRUE

\* `as u16`: the low 16 bits.
AsU16(n) == n % 65536

\* len.clamp(1, 32) as u8
ClampLen(n) == IF n < 1 THEN 1 ELSE IF n > 32 THEN 32 ELSE n

-----------------------------------------------------------------------------
(* The two shapes.                                                         *)

JoinMethod == {"PublicServer", "Manual", "Standalone"}

Forward == [bind_port : U16, dst_ip : Text, dst_port : U16]

Profile ==
  [network_name : Text, network_secret : Text, hostname : Text,
   dhcp : BOOLEAN, virtual_ipv4 : Text, network_length : U8,
   join_method : JoinMethod, public_servers : Seq(Text), peers : Seq(Text),
   enable_socks5 : BOOLEAN, socks5_port : U16,
   enable_vpn_portal : BOOLEAN, portal_port : U16, portal_addr : Text,
   portal_len : U8,
   port_forwards : Seq(Forward), mtu : Nat,
   enable_encryption : BOOLEAN, flags : Flags]

DefaultForward == [bind_port |-> 0, dst_ip |-> Empty, dst_port |-> 0]

DefaultProfile ==
  [network_name |-> DefaultText.net, network_secret |-> DefaultText.secret,
   hostname |-> Empty,
   dhcp |-> TRUE, virtual_ipv4 |-> DefaultText.ip, network_length |-> 24,
   join_method |-> "PublicServer", public_servers |-> <<DefaultText.server>>,
   peers |-> <<>>,
   enable_socks5 |-> FALSE, socks5_port |-> 1080,
   enable_vpn_portal |-> FALSE, portal_port |-> 22022,
   portal_addr |-> DefaultText.cidr, portal_len |-> 24,
   port_forwards |-> <<>>, mtu |-> 0,
   enable_encryption |-> TRUE, flags |-> DefaultFlags]

PbForward == [bind_port : Nat, dst_ip : Text, dst_port : Nat]

NetworkConfig ==
  [network_name : Opt(Text), network_secret : Opt(Text), hostname : Opt(Text),
   dhcp : Opt(BOOLEAN), virtual_ipv4 : Opt(Text), network_length : Opt(Int),
   networking_method : Opt(Int), public_server_url : Opt(Text),
   peer_urls : Seq(Text),
   enable_socks5 : Opt(BOOLEAN), socks5_port : Opt(Int),
   enable_vpn_portal : Opt(BOOLEAN), portal_port : Opt(Int),
   portal_addr : Opt(Text), portal_len : Opt(Int),
   port_forwards : Seq(PbForward), mtu : Opt(Int),
   disable_encryption : Opt(BOOLEAN), flags : Opt(Flags)]

\* NetworkConfig::default(): nothing is set.
NoConfig ==
  [network_name |-> {}, network_secret |-> {}, hostname |-> {},
   dhcp |-> {}, virtual_ipv4 |-> {}, network_length |-> {},
   networking_method |-> {}, public_server_url |-> {}, peer_urls |-> <<>>,
   enable_socks5 |-> {}, socks5_port |-> {},
   enable_vpn_portal |-> {}, portal_port |-> {}, portal_addr |-> {},
   portal_len |-> {}, port_forwards |-> <<>>, mtu |-> {},
   disable_encryption |-> {}, flags |-> {}]

-----------------------------------------------------------------------------
(* The methods of JoinMethod, and the helpers.                             *)

Index(m) == CASE m = "PublicServer" -> 0 [] m = "Manual" -> 1 [] OTHER -> 2

FromIndex(i) ==
  CASE i = 1 -> "Manual" [] i = 2 -> "Standalone" [] OTHER -> "PublicServer"

\* filter and collect: what s holds at the positions in kept, in order.
Filtered(s, kept) ==
  LET upto[i \in 0..Len(s)] ==
        IF i = 0 THEN <<>>
        ELSE IF i \in kept THEN Append(upto[i - 1], s[i]) ELSE upto[i - 1]
  IN upto[Len(s)]

\* Lines, trimmed, without the empty ones.
CleanList(s) ==
  LET lines == [i \in DOMAIN s |-> Trimmed[s[i]]]
  IN Filtered(lines, {i \in DOMAIN s : lines[i] # Empty})

Complete(f) == f.bind_port # 0 /\ f.dst_port # 0 /\ Trimmed[f.dst_ip] # Empty

\* The rows that are filled in.
CompleteRows(rows) == Filtered(rows, {i \in DOMAIN rows : Complete(rows[i])})

\* Mutant: the ports are taken over as they are.
FromProtoWide(f) == f

FromProto(f) ==
  [f EXCEPT !.bind_port = AsU16(@), !.dst_port = AsU16(@)]

-----------------------------------------------------------------------------
(* There and back.                                                         *)

\* Mutant: several public servers are not sent as a peer list.
MultiPublicNever(p) == FALSE

\* EasyTier's PublicServer method takes one server only, so two or more are
\* sent as a manual list of peers.
MultiPublic(p) ==
  p.join_method = "PublicServer" /\ Len(CleanList(p.public_servers)) > 1

ToNetworkConfig(p) ==
  LET servers == CleanList(p.public_servers)
  IN [network_name |-> {Trimmed[p.network_name]},
      network_secret |-> {p.network_secret},
      hostname |-> When(Trimmed[p.hostname] # Empty, Trimmed[p.hostname]),
      dhcp |-> {p.dhcp},
      virtual_ipv4 |-> When(~p.dhcp, Trimmed[p.virtual_ipv4]),
      network_length |-> When(~p.dhcp, p.network_length),
      networking_method |-> {IF MultiPublic(p) THEN 1 ELSE Index(p.join_method)},
      public_server_url |-> {servers[i] : i \in DOMAIN servers \cap {1}},
      peer_urls |-> IF MultiPublic(p) THEN servers ELSE CleanList(p.peers),
      enable_socks5 |-> {p.enable_socks5},
      socks5_port |-> When(p.enable_socks5, p.socks5_port),
      enable_vpn_portal |-> {p.enable_vpn_portal},
      portal_port |-> When(p.enable_vpn_portal, p.portal_port),
      portal_addr |-> When(p.enable_vpn_portal, Trimmed[p.portal_addr]),
      portal_len |-> When(p.enable_vpn_portal, p.portal_len),
      port_forwards |-> CompleteRows(p.port_forwards),
      mtu |-> When(p.mtu > 0, p.mtu),
      disable_encryption |-> {~p.enable_encryption},
      flags |-> {p.flags}]

\* Mutant: any number that is there is taken over.
PositiveUnchecked(o) == o

\* A number is taken over if it is positive.
Positive(o) == {n \in o : n > 0}

FromNetworkConfig(nc) ==
  LET d == DefaultProfile
  IN [network_name |-> UnwrapOr(nc.network_name, Empty),
      network_secret |-> UnwrapOr(nc.network_secret, Empty),
      hostname |-> UnwrapOr(nc.hostname, Empty),
      dhcp |-> UnwrapOr(nc.dhcp, TRUE),
      virtual_ipv4 |-> UnwrapOr(nc.virtual_ipv4, Empty),
      network_length |->
        ClampLen(UnwrapOr(Positive(nc.network_length), d.network_length)),
      join_method |-> FromIndex(UnwrapOr(nc.networking_method, 0)),
      public_servers |-> SetToSeq(nc.public_server_url),
      peers |-> nc.peer_urls,
      enable_socks5 |-> UnwrapOr(nc.enable_socks5, FALSE),
      socks5_port |-> AsU16(UnwrapOr(Positive(nc.socks5_port), d.socks5_port)),
      enable_vpn_portal |-> UnwrapOr(nc.enable_vpn_portal, FALSE),
      portal_port |-> AsU16(UnwrapOr(Positive(nc.portal_port), d.portal_port)),
      portal_addr |-> UnwrapOr(nc.portal_addr \ {Empty}, d.portal_addr),
      portal_len |-> ClampLen(UnwrapOr(Positive(nc.portal_len), d.portal_len)),
      port_forwards |-> [i \in DOMAIN nc.port_forwards |->
                           FromProto(nc.port_forwards[i])],
      mtu |-> UnwrapOr(Positive(nc.mtu), 0),
      enable_encryption |-> ~UnwrapOr(nc.disable_encryption, FALSE),
      flags |-> UnwrapOr(nc.flags, DefaultFlags)]

=============================================================================
