----------------------------- MODULE MCSharing -----------------------------
(***************************************************************************)
(* Instances of Sharing for TLC.                                           *)
(***************************************************************************)
EXTENDS Sharing

MCText == {"", " ", "a", " a", "b", "default", "cidr"}
MCTrimmed ==
  [t \in MCText |-> CASE t = " " -> "" [] t = " a" -> "a" [] OTHER -> t]
MCDefaultText ==
  [net |-> "default", secret |-> "default",
   server |-> "default", ip |-> "default", cidr |-> "cidr"]

MCTyped == {"", " a"}
MCTypedLines == {<<>>, <<" ", " a">>, <<"a", "b">>}

\* A full config, and ones the editor could not have made: nearly no field, a
\* fixed address left out, nothing for what is switched on, numbers below, at
\* and beyond the boundaries, an unknown method, texts with blanks.
Full ==
  [network_name |-> {"a"}, network_secret |-> {" a"}, hostname |-> {},
   dhcp |-> {FALSE}, virtual_ipv4 |-> {"b"}, network_length |-> {16},
   networking_method |-> {1}, public_server_url |-> {"a"},
   peer_urls |-> <<"a", "b">>,
   enable_socks5 |-> {TRUE}, socks5_port |-> {65535},
   enable_vpn_portal |-> {TRUE}, portal_port |-> {1}, portal_addr |-> {"b"},
   portal_len |-> {32},
   port_forwards |-> <<[bind_port |-> 80, dst_ip |-> "b", dst_port |-> 65535]>>,
   mtu |-> {1400}, disable_encryption |-> {TRUE}, flags |-> {"y"}]
Short == [NoConfig EXCEPT !.network_name = {"a"}, !.network_secret = {"b"},
                          !.dhcp = {FALSE}, !.network_length = {24}]
MCForeign ==
  {Full, Short,
   [Full EXCEPT !.networking_method = {7}, !.mtu = {-1}, !.network_length = {0}],
   [Full EXCEPT !.networking_method = {2}, !.network_length = {33},
                !.network_name = {" a"}, !.portal_addr = {""}, !.socks5_port = {}],
   [Full EXCEPT !.networking_method = {0}, !.socks5_port = {-1},
                !.portal_len = {-1},
                !.port_forwards = <<[bind_port |-> 65616, dst_ip |-> "b",
                                     dst_port |-> 65536]>>],
   [Full EXCEPT !.socks5_port = {65616}, !.portal_port = {65536}]}
=============================================================================
