--------------------------- MODULE SharingProofs ---------------------------
(***************************************************************************)
(* Whoever opens a shared configuration joins the network its author meant *)
(* (Sharing), for all texts, trimming, flags, bounds and configs of the    *)
(* official GUI.                                                           *)
(*                                                                         *)
(* The pure part comes first: what ToNetworkConfig writes asks for what    *)
(* the editor shows (ToMeans), and the editor shows what a sound config    *)
(* that FromNetworkConfig read asks for (FromShows).  The inductive        *)
(* invariant says the two of every network in the list and on its way, and *)
(* that every document is named as its shape is read.                      *)
(***************************************************************************)
EXTENDS Sharing, SequenceTheorems, FiniteSetTheorems, TLAPS

-----------------------------------------------------------------------------
(* Induction.                                                              *)

\* A set that has 0, and with every number its successor, has all numbers:
\* else the numbers below one it misses would be a finite set that a function
\* maps into a part of itself, no two to the same.
LEMMA SetInduction ==
  ASSUME NEW S, 0 \in S, \A n \in Nat : n \in S => n + 1 \in S
  PROVE  Nat \subseteq S
<1> SUFFICES ASSUME NEW m \in Nat, m \notin S PROVE FALSE
  OBVIOUS
<1> DEFINE D == {k \in 0..m : \A j \in 0..k : j \in S}
<1>1. IsFiniteSet(D)
  <2>1. D \in SUBSET (0..m)
    OBVIOUS
  <2>2. IsFiniteSet(0..m)
    BY FS_Interval
  <2> HIDE DEF D
  <2> QED
    BY <2>1, <2>2, FS_Subset
<1>2. 0 \in D
  OBVIOUS
<1>3. \A k \in D : k \in Nat /\ k + 1 \in D
  <2> TAKE k \in D
  <2>1. k \in Nat /\ k \in S /\ k # m /\ k <= m /\ k + 1 \in S
    OBVIOUS
  <2>2. \A j \in 0..k + 1 : j \in 0..k \/ j = k + 1
    BY <2>1
  <2> QED
    BY <2>1, <2>2
<1> HIDE DEF D
<1>4. IsFiniteSet(D \ {0}) /\ Cardinality(D \ {0}) < Cardinality(D)
  <2>1. PICK c \in Nat : c = Cardinality(D)
    BY <1>1, FS_CardinalityType
  <2>2. IsFiniteSet(D \ {0}) /\ Cardinality(D \ {0}) = c - 1
    BY <1>1, <1>2, <2>1, FS_RemoveElement
  <2> QED
    BY <2>1, <2>2
<1>5. PICK f \in [D -> D \ {0}] : \A k \in D : f[k] = k + 1
  <2>1. [k \in D |-> k + 1] \in [D -> D \ {0}]
    BY <1>3
  <2> QED
    BY <2>1
<1>6. PICK x \in D, y \in D : x # y /\ f[x] = f[y]
  BY <1>1, <1>4, FS_PigeonHole
<1> QED
  BY <1>3, <1>5, <1>6

-----------------------------------------------------------------------------
(* Lists.                                                                  *)

\* u filters ever longer parts of s.
Filters(u, s, kept) ==
  u = [i \in 0..Len(s) |->
         IF i = 0 THEN <<>>
         ELSE IF i \in kept THEN Append(u[i - 1], s[i]) ELSE u[i - 1]]

\* The same as facts about the values of u, as far as m.
Upto(u, m, s, kept) ==
  /\ u[0] = <<>>
  /\ \A i \in 1..m : u[i] = IF i \in kept THEN Append(u[i - 1], s[i]) ELSE u[i - 1]

\* The two forms agree.
LEMMA FiltersIs ==
  ASSUME NEW s, NEW kept, NEW n \in Nat, n = Len(s), NEW u, DOMAIN u = 0..n,
         u = [i \in 0..n |-> u[i]]
  PROVE  Filters(u, s, kept) <=> Upto(u, n, s, kept)
<1>1. PICK w : w = [i \in 0..n |->
                      IF i = 0 THEN <<>>
                      ELSE IF i \in kept THEN Append(u[i - 1], s[i]) ELSE u[i - 1]]
  OBVIOUS
<1>2. Filters(u, s, kept) <=> u = w
  BY <1>1 DEF Filters
<1>3. w[0] = <<>>
  BY <1>1
<1>4. \A i \in 1..n : w[i] = IF i \in kept THEN Append(u[i - 1], s[i]) ELSE u[i - 1]
  BY <1>1
<1>5. u = w <=> \A i \in 0..n : u[i] = w[i]
  BY <1>1
<1>6. 0..n = {0} \cup 1..n
  OBVIOUS
<1> HIDE <1>1
<1> QED
  BY <1>2, <1>3, <1>4, <1>5, <1>6 DEF Upto

\* filter and collect comes to an end: there is such a u for every list, by
\* induction on the part that is filtered.
LEMMA FiltersExist ==
  ASSUME NEW S, NEW s \in Seq(S), NEW kept
  PROVE  \E u : Filters(u, s, kept)
<1>1. PICK n \in Nat : n = Len(s) /\ \A i \in 1..n : s[i] \in S
  BY LenProperties, ElementOfSeq
<1> DEFINE M == {m \in Nat : m <= n => \E u \in [0..m -> Seq(S)] : Upto(u, m, s, kept)}
<1>2. 0 \in M
  <2>1. PICK u \in [0..0 -> Seq(S)] : u[0] = <<>>
    <3>1. /\ [i \in 0..0 |-> <<>>] \in [0..0 -> Seq(S)]
          /\ [i \in 0..0 |-> <<>>][0] = <<>>
      OBVIOUS
    <3> QED
      BY <3>1
  <2>2. Upto(u, 0, s, kept)
    BY <2>1 DEF Upto
  <2> QED
    BY <2>2
<1>3. ASSUME NEW m \in Nat, m \in M PROVE m + 1 \in M
  <2> SUFFICES ASSUME m + 1 <= n
               PROVE  \E u \in [0..m + 1 -> Seq(S)] : Upto(u, m + 1, s, kept)
    OBVIOUS
  <2>1. PICK u \in [0..m -> Seq(S)] : Upto(u, m, s, kept)
    BY <1>3
  <2>2. PICK q \in Seq(S) : q = IF m + 1 \in kept THEN Append(u[m], s[m + 1]) ELSE u[m]
    <3>1. u[m] \in Seq(S) /\ s[m + 1] \in S
      BY <1>1
    <3>2. Append(u[m], s[m + 1]) \in Seq(S)
      BY <3>1, AppendProperties
    <3> QED
      BY <3>1, <3>2
  <2>3. PICK v : v = [i \in 0..m + 1 |-> IF i = m + 1 THEN q ELSE u[i]]
    OBVIOUS
  <2>4. v \in [0..m + 1 -> Seq(S)]
    BY <2>3
  <2>5. v[m + 1] = q /\ \A i \in 0..m : v[i] = u[i]
    BY <2>3
  <2>6. ASSUME NEW i \in 1..m + 1
        PROVE  v[i] = IF i \in kept THEN Append(v[i - 1], s[i]) ELSE v[i - 1]
    <3>1. CASE i = m + 1
      <4>1. m \in 0..m /\ i - 1 = m /\ v[m] = u[m] /\ v[i] = q
        BY <3>1, <2>5
      <4> QED
        BY <4>1, <3>1, <2>2
    <3>2. CASE i # m + 1
      <4>1. i \in 1..m /\ i - 1 \in 0..m /\ i \in 0..m
        BY <3>2
      <4>2. v[i] = u[i] /\ v[i - 1] = u[i - 1]
        BY <4>1, <2>5
      <4> QED
        BY <4>1, <4>2, <2>1 DEF Upto
    <3> QED
      BY <3>1, <3>2
  <2>7. v[0] = <<>>
    BY <2>1, <2>5 DEF Upto
  <2>8. Upto(v, m + 1, s, kept)
    BY <2>6, <2>7 DEF Upto
  <2> QED
    BY <2>4, <2>8
<1>4. n \in M
  <2> HIDE DEF M
  <2> QED
    BY <1>2, <1>3, SetInduction
<1>5. PICK u \in [0..n -> Seq(S)] : Upto(u, n, s, kept)
  BY <1>4
<1> QED
  BY <1>1, <1>5, FiltersIs

\* What is filtered is a list of the same kind, and the same list if
\* everything is kept.
LEMMA FilteredFacts ==
  ASSUME NEW S, NEW s \in Seq(S), NEW kept
  PROVE  /\ Filtered(s, kept) \in Seq(S)
         /\ kept = DOMAIN s => Filtered(s, kept) = s
<1>1. PICK u : Filters(u, s, kept) /\ Filtered(s, kept) = u[Len(s)]
  <2>1. PICK u : u = CHOOSE w : Filters(w, s, kept)
    OBVIOUS
  <2>2. Filters(u, s, kept)
    BY <2>1, FiltersExist
  <2>3. Filtered(s, kept) = u[Len(s)]
    BY <2>1 DEF Filtered, Filters
  <2> QED
    BY <2>2, <2>3
<1>2. PICK n \in Nat : /\ n = Len(s) /\ DOMAIN s = 1..n
                       /\ \A i \in 1..n : s[i] \in S
  BY LenProperties, ElementOfSeq
<1>3. /\ u[0] = <<>>
      /\ \A i \in 1..n : u[i] = IF i \in kept THEN Append(u[i - 1], s[i]) ELSE u[i - 1]
  <2>1. DOMAIN u = 0..n /\ u = [i \in 0..n |-> u[i]]
    <3>1. PICK w : w = [i \in 0..n |->
                      IF i = 0 THEN <<>>
                      ELSE IF i \in kept THEN Append(u[i - 1], s[i]) ELSE u[i - 1]]
      OBVIOUS
    <3>2. u = w
      BY <1>1, <1>2, <3>1 DEF Filters
    <3>3. DOMAIN w = 0..n /\ w = [i \in 0..n |-> w[i]]
      BY <3>1
    <3> QED
      BY ONLY <3>2, <3>3
  <2> QED
    BY <1>1, <1>2, <2>1, FiltersIs DEF Upto
<1> DEFINE M == {m \in Nat : m <= n => /\ u[m] \in Seq(S)
                                       /\ kept = 1..n =>
                                            /\ Len(u[m]) = m
                                            /\ \A i \in 1..m : u[m][i] = s[i]}
<1>4. 0 \in M
  <2>1. /\ u[0] \in Seq(S) /\ Len(u[0]) = 0
        /\ \A i \in 1..0 : u[0][i] = s[i]
    BY <1>3
  <2> QED
    BY <2>1
<1>5. ASSUME NEW m \in Nat, m \in M PROVE m + 1 \in M
  <2> SUFFICES ASSUME m + 1 <= n
               PROVE  /\ u[m + 1] \in Seq(S)
                      /\ kept = 1..n =>
                           /\ Len(u[m + 1]) = m + 1
                           /\ \A i \in 1..m + 1 : u[m + 1][i] = s[i]
    OBVIOUS
  <2>1. PICK q \in Seq(S) : /\ q = u[m]
                            /\ kept = 1..n => Len(q) = m /\ \A i \in 1..m : q[i] = s[i]
    BY <1>5
  <2>2. m + 1 \in 1..n /\ (m + 1) - 1 = m /\ s[m + 1] \in S
    BY <1>2
  <2>3. u[m + 1] = IF m + 1 \in kept THEN Append(q, s[m + 1]) ELSE q
    BY <1>3, <2>1, <2>2
  <2>4. PICK r : r = Append(q, s[m + 1])
    OBVIOUS
  <2>5. /\ r \in Seq(S) /\ Len(r) = Len(q) + 1 /\ r[Len(q) + 1] = s[m + 1]
        /\ \A i \in 1..Len(q) : r[i] = q[i]
    BY <2>2, <2>4, AppendProperties
  <2> QED
    BY <2>1, <2>2, <2>3, <2>4, <2>5
<1>6. n \in M
  <2> HIDE DEF M
  <2> QED
    BY <1>4, <1>5, SetInduction
<1>7. /\ u[n] \in Seq(S)
      /\ kept = 1..n => Len(u[n]) = n /\ \A i \in 1..n : u[n][i] = s[i]
  BY <1>6
<1>8. kept = 1..n => u[n] = s
  BY <1>2, <1>7, SeqEqual
<1> QED
  BY <1>1, <1>2, <1>7, <1>8

\* The list of an Option.
LEMMA OneToSeq ==
  /\ SetToSeq({}) = <<>>
  /\ \A x : SetToSeq({x}) = <<x>>
<1>1. SetToSeq({}) = <<>>
  <2>1. PICK c \in Nat : c = Cardinality({}) /\ c = 0
    BY FS_EmptySet
  <2>2. [1..c -> {}] = {<<>>}
    <3>1. <<>> \in [1..c -> {}]
      BY <2>1
    <3>2. ASSUME NEW f \in [1..c -> {}] PROVE f = <<>>
      <4>1. f \in Seq({}) /\ Len(f) = 0
        BY <2>1
      <4> QED
        BY <4>1, EmptySeq
    <3> QED
      BY <3>1, <3>2
  <2>3. IsInjective(<<>>)
    BY DEF IsInjective
  <2>4. SetToSeq({}) = CHOOSE f \in {<<>>} : IsInjective(f)
    BY <2>1, <2>2 DEF SetToSeq
  <2> QED
    BY <2>3, <2>4
<1>2. ASSUME NEW x PROVE SetToSeq({x}) = <<x>>
  <2>1. PICK c \in Nat : c = Cardinality({x}) /\ c = 1
    BY FS_Singleton
  <2>2. [1..c -> {x}] = {<<x>>}
    <3>1. 1..c = {1}
      BY <2>1
    <3>2. <<x>> \in [{1} -> {x}]
      OBVIOUS
    <3>3. ASSUME NEW f \in [{1} -> {x}] PROVE f = <<x>>
      <4>1. f[1] = x /\ <<x>>[1] = x
        OBVIOUS
      <4>2. \A i \in {1} : f[i] = <<x>>[i]
        BY <4>1
      <4> QED
        BY <3>2, <4>2
    <3> QED
      BY <3>1, <3>2, <3>3
  <2>3. IsInjective(<<x>>)
    BY DEF IsInjective
  <2>4. SetToSeq({x}) = CHOOSE f \in {<<x>>} : IsInjective(f)
    BY <2>1, <2>2 DEF SetToSeq
  <2> QED
    BY <2>3, <2>4
<1> QED
  BY <1>1, <1>2

\* The value of an Option, or the default.
LEMMA OptFacts ==
  ASSUME NEW S, NEW o \in Opt(S), NEW d
  PROVE  /\ o = {} => UnwrapOr(o, d) = d
         /\ o # {} => UnwrapOr(o, d) \in S /\ o = {UnwrapOr(o, d)}
         /\ d \in S => UnwrapOr(o, d) \in S
         /\ o \subseteq S
  BY DEF Opt, UnwrapOr

\* ... of one that is Some.
LEMMA OneValue ==
  ASSUME NEW x, NEW d PROVE UnwrapOr({x}, d) = x
  BY DEF UnwrapOr

\* Some and None are Options.
LEMMA SomeOpt ==
  ASSUME NEW S, NEW x \in S, NEW c PROVE {x} \in Opt(S) /\ When(c, x) \in Opt(S) /\ {} \in Opt(S)
  BY DEF Opt, When

\* clean_list returns a list of texts.
LEMMA CleanFacts ==
  ASSUME NEW s \in Seq(Text) PROVE CleanList(s) \in Seq(Text)
<1>1. PICK n \in Nat : n = Len(s) /\ DOMAIN s = 1..n /\ \A i \in 1..n : s[i] \in Text
  BY LenProperties, ElementOfSeq
<1>2. PICK q \in Seq(Text) : q = [i \in DOMAIN s |-> Trimmed[s[i]]]
  <2>1. \A i \in 1..n : Trimmed[s[i]] \in Text
    BY <1>1, NetConfigAssumption
  <2>2. [i \in 1..n |-> Trimmed[s[i]]] \in Seq(Text)
    BY <2>1
  <2> QED
    BY <1>1, <2>2
<1>3. PICK kept : CleanList(s) = Filtered(q, kept)
  BY <1>2 DEF CleanList
<1> QED
  BY <1>3, FilteredFacts

\* The rows that are filled in, and that they are all the rows if all are.
LEMMA RowsFacts ==
  ASSUME NEW S, NEW s \in Seq(S)
  PROVE  /\ CompleteRows(s) \in Seq(S)
         /\ (\A i \in DOMAIN s : Complete(s[i])) => CompleteRows(s) = s
<1>1. PICK kept : kept = {i \in DOMAIN s : Complete(s[i])}
  OBVIOUS
<1>2. CompleteRows(s) = Filtered(s, kept)
  BY <1>1 DEF CompleteRows
<1>3. (\A i \in DOMAIN s : Complete(s[i])) => kept = DOMAIN s
  BY <1>1
<1> QED
  BY <1>2, <1>3, FilteredFacts

\* A profile's port has 16 bits, a message's is any number.
LEMMA ForwardsArePb == Seq(Forward) \subseteq Seq(PbForward)
<1>1. Forward \subseteq PbForward
  <2>1. U16 \subseteq Nat
    BY DEF U16
  <2> SUFFICES ASSUME NEW f \in Forward PROVE f \in PbForward
    OBVIOUS
  <2> QED
    BY <2>1 DEF Forward, PbForward
<1> QED
  BY <1>1

\* The public server goes out as an option, the list of servers with it.
LEMMA FirstServer ==
  ASSUME NEW s \in Seq(Text)
  PROVE  /\ {s[i] : i \in DOMAIN s \cap {1}} \in Opt(Text)
         /\ ~(Len(s) > 1) => SetToSeq({s[i] : i \in DOMAIN s \cap {1}}) = s
<1>1. PICK n \in Nat : n = Len(s) /\ DOMAIN s = 1..n /\ \A i \in 1..n : s[i] \in Text
  BY LenProperties, ElementOfSeq
<1>2. CASE n = 0
  <2>1. {s[i] : i \in DOMAIN s \cap {1}} = {} /\ s = <<>>
    BY <1>1, <1>2, EmptySeq
  <2> QED
    BY <2>1, OneToSeq DEF Opt
<1>3. CASE n # 0
  <2>1. {s[i] : i \in DOMAIN s \cap {1}} = {s[1]} /\ s[1] \in Text
    BY <1>1, <1>3
  <2>2. ~(n > 1) => s = <<s[1]>>
    BY <1>1, <1>3
  <2> QED
    BY <1>1, <2>1, <2>2, OneToSeq DEF Opt
<1> QED
  BY <1>2, <1>3

-----------------------------------------------------------------------------
(* There and back.                                                         *)

\* The widths are ranges of numbers.
LEMMA U8Nat == \A n \in U8 \cup U16 : n \in Int /\ n \in Nat
  BY DEF U8, U16

\* What goes out is a NetworkConfig.
LEMMA ToType == ASSUME NEW p \in Profile PROVE ToNetworkConfig(p) \in NetworkConfig
<1>1. PICK servers \in Seq(Text) : servers = CleanList(p.public_servers)
  BY CleanFacts DEF Profile
<1>2. CleanList(p.peers) \in Seq(Text)
  BY CleanFacts DEF Profile
<1>3. CompleteRows(p.port_forwards) \in Seq(PbForward)
  <2>1. p.port_forwards \in Seq(Forward)
    BY DEF Profile
  <2> QED
    BY <2>1, RowsFacts, ForwardsArePb
<1>4. \A t \in Text : Trimmed[t] \in Text
  BY NetConfigAssumption
<1>5. {servers[i] : i \in DOMAIN servers \cap {1}} \in Opt(Text)
  BY FirstServer
<1>6. /\ p.network_name \in Text /\ p.network_secret \in Text /\ p.hostname \in Text
      /\ p.dhcp \in BOOLEAN /\ p.virtual_ipv4 \in Text /\ p.network_length \in Int
      /\ p.enable_socks5 \in BOOLEAN /\ p.socks5_port \in Int
      /\ p.enable_vpn_portal \in BOOLEAN /\ p.portal_port \in Int
      /\ p.portal_addr \in Text /\ p.portal_len \in Int /\ p.mtu \in Int
      /\ p.enable_encryption \in BOOLEAN /\ p.flags \in Flags
  BY U8Nat DEF Profile
<1>7. (IF MultiPublic(p) THEN 1 ELSE Index(p.join_method)) \in Int
  BY DEF Index
<1>8. (~p.enable_encryption) \in BOOLEAN
  OBVIOUS
<1>9. /\ {Trimmed[p.network_name]} \in Opt(Text)
      /\ {p.network_secret} \in Opt(Text)
      /\ When(Trimmed[p.hostname] # Empty, Trimmed[p.hostname]) \in Opt(Text)
      /\ {p.dhcp} \in Opt(BOOLEAN)
      /\ When(~p.dhcp, Trimmed[p.virtual_ipv4]) \in Opt(Text)
      /\ When(~p.dhcp, p.network_length) \in Opt(Int)
  BY <1>4, <1>6, SomeOpt
<1>10. /\ {IF MultiPublic(p) THEN 1 ELSE Index(p.join_method)} \in Opt(Int)
       /\ {p.enable_socks5} \in Opt(BOOLEAN)
       /\ When(p.enable_socks5, p.socks5_port) \in Opt(Int)
       /\ {p.enable_vpn_portal} \in Opt(BOOLEAN)
       /\ When(p.enable_vpn_portal, p.portal_port) \in Opt(Int)
       /\ When(p.enable_vpn_portal, Trimmed[p.portal_addr]) \in Opt(Text)
       /\ When(p.enable_vpn_portal, p.portal_len) \in Opt(Int)
  BY <1>4, <1>6, <1>7, SomeOpt
<1>11. /\ When(p.mtu > 0, p.mtu) \in Opt(Int)
       /\ {~p.enable_encryption} \in Opt(BOOLEAN)
       /\ {p.flags} \in Opt(Flags)
  BY <1>6, <1>8, SomeOpt
<1>12. (IF MultiPublic(p) THEN servers ELSE CleanList(p.peers)) \in Seq(Text)
  BY <1>2
<1> QED
  BY <1>1, <1>3, <1>5, <1>9, <1>10, <1>11, <1>12 DEF ToNetworkConfig, NetworkConfig

\* What goes out asks for what the editor shows.
LEMMA ToMeans == ASSUME NEW p \in Profile PROVE Meaning(ToNetworkConfig(p)) = Shown(p)
<1>1. PICK servers \in Seq(Text) : servers = CleanList(p.public_servers)
  BY CleanFacts DEF Profile
<1>2. PICK nc : nc = ToNetworkConfig(p)
  OBVIOUS
<1>3. /\ nc.network_name = {Trimmed[p.network_name]}
      /\ nc.network_secret = {p.network_secret}
      /\ nc.hostname = When(Trimmed[p.hostname] # Empty, Trimmed[p.hostname])
      /\ nc.dhcp = {p.dhcp}
      /\ nc.virtual_ipv4 = When(~p.dhcp, Trimmed[p.virtual_ipv4])
      /\ nc.network_length = When(~p.dhcp, p.network_length)
      /\ nc.networking_method = {IF MultiPublic(p) THEN 1 ELSE Index(p.join_method)}
      /\ nc.public_server_url = {servers[i] : i \in DOMAIN servers \cap {1}}
      /\ nc.peer_urls = IF MultiPublic(p) THEN servers ELSE CleanList(p.peers)
      /\ nc.enable_socks5 = {p.enable_socks5}
      /\ nc.socks5_port = When(p.enable_socks5, p.socks5_port)
      /\ nc.enable_vpn_portal = {p.enable_vpn_portal}
      /\ nc.portal_port = When(p.enable_vpn_portal, p.portal_port)
      /\ nc.portal_addr = When(p.enable_vpn_portal, Trimmed[p.portal_addr])
      /\ nc.portal_len = When(p.enable_vpn_portal, p.portal_len)
      /\ nc.port_forwards = CompleteRows(p.port_forwards)
      /\ nc.mtu = When(p.mtu > 0, p.mtu)
      /\ nc.disable_encryption = {~p.enable_encryption}
      /\ nc.flags = {p.flags}
  BY <1>1, <1>2 DEF ToNetworkConfig
<1>4. /\ UnwrapOr(nc.network_name, Empty) = Trimmed[p.network_name]
      /\ UnwrapOr(nc.network_secret, Empty) = p.network_secret
      /\ UnwrapOr(nc.flags, DefaultFlags) = p.flags
      /\ UnwrapOr(nc.networking_method, 0) = IF MultiPublic(p) THEN 1 ELSE Index(p.join_method)
  BY <1>3 DEF UnwrapOr
<1>5. UnwrapOr(nc.hostname, Empty) = Trimmed[p.hostname]
  BY <1>3 DEF UnwrapOr, When
<1>6. /\ UnwrapOr(nc.dhcp, TRUE) <=> p.dhcp
      /\ UnwrapOr(nc.enable_socks5, FALSE) <=> p.enable_socks5
      /\ UnwrapOr(nc.enable_vpn_portal, FALSE) <=> p.enable_vpn_portal
      /\ UnwrapOr(nc.disable_encryption, FALSE) <=> ~p.enable_encryption
      /\ p.enable_encryption \in BOOLEAN
  BY <1>3 DEF UnwrapOr, Profile
<1>7. When(~UnwrapOr(nc.dhcp, TRUE),
           [ip |-> nc.virtual_ipv4 \ {Empty}, len |-> nc.network_length])
        = When(~p.dhcp, [ip |-> {Trimmed[p.virtual_ipv4]} \ {Empty}, len |-> {p.network_length}])
  BY <1>3, <1>6 DEF When
<1>8. /\ When(UnwrapOr(nc.enable_socks5, FALSE), nc.socks5_port)
           = When(p.enable_socks5, {p.socks5_port})
      /\ When(UnwrapOr(nc.enable_vpn_portal, FALSE),
              [port |-> nc.portal_port, addr |-> nc.portal_addr, len |-> nc.portal_len])
           = When(p.enable_vpn_portal, [port |-> {p.portal_port},
                                        addr |-> {Trimmed[p.portal_addr]},
                                        len |-> {p.portal_len}])
  BY <1>3, <1>6 DEF When
<1>9. {n \in nc.mtu : n > 0} = When(p.mtu > 0, p.mtu)
  BY <1>3 DEF When
<1>10. Reached(nc) = CASE p.join_method = "PublicServer" -> servers
                       [] p.join_method = "Manual"       -> CleanList(p.peers)
                       [] p.join_method = "Standalone"   -> <<>>
  <2>1. p.join_method \in {"PublicServer", "Manual", "Standalone"}
    BY DEF Profile, JoinMethod
  <2>2. UnwrapOr(nc.networking_method, 0) = IF MultiPublic(p) THEN 1 ELSE Index(p.join_method)
    BY <1>4
  <2>3. CASE MultiPublic(p)
    BY <1>1, <1>3, <2>2, <2>3 DEF Reached, FromIndex, MultiPublic
  <2>4. CASE ~MultiPublic(p)
    <3>1. p.join_method = "PublicServer" => ~(Len(servers) > 1)
      BY <2>4, <1>1 DEF MultiPublic
    <3>2. p.join_method = "PublicServer" => SetToSeq(nc.public_server_url) = servers
      BY <3>1, <1>3, FirstServer
    <3>3. FromIndex(UnwrapOr(nc.networking_method, 0)) = p.join_method
      BY <2>1, <2>2, <2>4 DEF FromIndex, Index
    <3> QED
      BY <1>3, <2>1, <2>4, <3>2, <3>3 DEF Reached
  <2> QED
    BY <2>3, <2>4
<1>11. Reached(nc) = CASE p.join_method = "PublicServer" -> CleanList(p.public_servers)
                       [] p.join_method = "Manual"       -> CleanList(p.peers)
                       [] p.join_method = "Standalone"   -> <<>>
  BY <1>1, <1>10
<1>12. /\ nc.port_forwards = CompleteRows(p.port_forwards)
       /\ (~UnwrapOr(nc.disable_encryption, FALSE)) = p.enable_encryption
  BY <1>3, <1>6
<1>13. Meaning(nc) = Shown(p)
  BY ONLY <1>4, <1>5, <1>7, <1>8, <1>9, <1>11, <1>12 DEF Meaning, Shown
<1> QED
  BY <1>2, <1>13

\* A number that is taken over is positive, or the default.
LEMMA PositiveFacts ==
  ASSUME NEW o \in Opt(Int), NEW d \in Nat \ {0}
  PROVE  /\ UnwrapOr(Positive(o), d) \in Nat \ {0}
         /\ UnwrapOr(Positive(o), d) \in o \/ UnwrapOr(Positive(o), d) = d
<1>1. Positive(o) \subseteq o /\ \A x \in Positive(o) : x > 0 /\ x \in Int
  BY DEF Positive, Opt
<1> QED
  BY <1>1 DEF UnwrapOr

\* A prefix length is brought into its range, and left alone within it.
LEMMA ClampLenFacts ==
  ASSUME NEW n \in Int
  PROVE  ClampLen(n) \in 1..32 /\ (n \in 1..32 => ClampLen(n) = n)
  BY DEF ClampLen

\* The remainder by a modulus.
LEMMA Mod ==
  ASSUME NEW n \in Int, NEW b \in Nat \ {0}
  PROVE  n % b \in 0..b - 1 /\ (0 <= n /\ n < b => n % b = n)
  OBVIOUS

\* The width as a modulus.
LEMMA U16Is == U16 = 0..65536 - 1
<1>1. 65536 - 1 = 65535
  OBVIOUS
<1> QED
  BY <1>1 DEF U16

\* `as u16` gives 16 bits, and leaves alone what has no more.
LEMMA AsU16Facts ==
  ASSUME NEW n \in Int
  PROVE  AsU16(n) \in U16 /\ (n \in U16 => AsU16(n) = n)
<1>1. PICK b \in Nat \ {0} : b = 65536
  OBVIOUS
<1>2. n % b \in 0..b - 1 /\ (0 <= n /\ n < b => n % b = n)
  BY Mod
<1>3. AsU16(n) = n % b
  BY <1>1, SMTT(30) DEF AsU16
<1>4. U16 = 0..b - 1
  BY <1>1, U16Is, SMTT(30)
<1>5. n \in 0..b - 1 => 0 <= n /\ n < b
  OBVIOUS
<1> QED
  BY ONLY <1>2, <1>3, <1>4, <1>5

\* Profile::default() is a profile.
LEMMA DefaultFacts ==
  /\ DefaultProfile \in Profile
  /\ DefaultProfile.network_length = 24 /\ DefaultProfile.portal_len = 24
  /\ DefaultProfile.socks5_port = 1080 /\ DefaultProfile.portal_port = 22022
<1>1. /\ DefaultText.net \in Text /\ DefaultText.secret \in Text
      /\ DefaultText.server \in Text /\ DefaultText.ip \in Text
      /\ DefaultText.cidr \in Text /\ Empty \in Text /\ DefaultFlags \in Flags
  BY NetConfigAssumption
<1>2. <<DefaultText.server>> \in Seq(Text) /\ <<>> \in Seq(Text) /\ <<>> \in Seq(Forward)
  BY <1>1
<1> QED
  BY <1>1, <1>2 DEF DefaultProfile, Profile, U8, U16, JoinMethod

\* A row that is read has ports of 16 bits, those of the row if they fit.
LEMMA ProtoFact ==
  ASSUME NEW f \in PbForward
  PROVE  /\ FromProto(f) \in Forward
         /\ f.bind_port \in U16 /\ f.dst_port \in U16 => FromProto(f) = f
<1>1. PICK a : a = AsU16(f.bind_port)
  OBVIOUS
<1>2. PICK b : b = AsU16(f.dst_port)
  OBVIOUS
<1>3. f.bind_port \in Int /\ f.dst_port \in Int
  BY DEF PbForward
<1>4. a \in U16 /\ (f.bind_port \in U16 => a = f.bind_port)
  BY <1>1, <1>3, AsU16Facts
<1>5. b \in U16 /\ (f.dst_port \in U16 => b = f.dst_port)
  BY <1>2, <1>3, AsU16Facts
<1>6. PICK e : e = [f EXCEPT !.bind_port = a, !.dst_port = b]
  OBVIOUS
<1>7. FromProto(f) = e
  BY <1>1, <1>2, <1>6 DEF FromProto
<1>8. e \in Forward
  BY <1>4, <1>5, <1>6 DEF PbForward, Forward
<1>9. a = f.bind_port /\ b = f.dst_port => e = f
  BY <1>6 DEF PbForward
<1> QED
  BY ONLY <1>4, <1>5, <1>7, <1>8, <1>9

\* The same of all the rows.
LEMMA ProtoFacts ==
  ASSUME NEW rows \in Seq(PbForward), NEW q,
         q = [i \in DOMAIN rows |-> FromProto(rows[i])]
  PROVE  /\ q \in Seq(Forward)
         /\ (\A i \in DOMAIN rows : rows[i].bind_port \in U16 /\ rows[i].dst_port \in U16)
              => q = rows
<1>1. PICK n \in Nat : n = Len(rows) /\ DOMAIN rows = 1..n
                       /\ \A i \in 1..n : rows[i] \in PbForward
  BY LenProperties, ElementOfSeq
<1>4. q \in [1..n -> Forward] /\ DOMAIN q = 1..n
  <2>1. \A i \in 1..n : FromProto(rows[i]) \in Forward
    BY <1>1, ProtoFact
  <2> QED
    BY <1>1, <2>1
<1>5. q \in Seq(Forward)
  BY <1>4
<1>6. ASSUME \A i \in DOMAIN rows : rows[i].bind_port \in U16 /\ rows[i].dst_port \in U16
      PROVE  q = rows
  <2>1. \A i \in 1..n : FromProto(rows[i]) = rows[i]
    BY <1>1, <1>6, ProtoFact
  <2>2. \A i \in 1..n : q[i] = rows[i]
    BY <1>1, <2>1
  <2>3. q \in Seq(PbForward)
    BY <1>5, ForwardsArePb
  <2>4. Len(q) = n
    BY <1>1, <1>4, <1>5, LenProperties
  <2> QED
    BY <1>1, <2>2, <2>3, <2>4, SeqEqual
<1> QED
  BY <1>5, <1>6

\* The public server becomes a list.
LEMMA OptSeq ==
  ASSUME NEW S, NEW o \in Opt(S) PROVE SetToSeq(o) \in Seq(S)
<1>1. PICK q : q = SetToSeq(o)
  OBVIOUS
<1>2. CASE o = {}
  <2>1. q = <<>>
    BY <1>1, <1>2, OneToSeq
  <2>2. q \in Seq(S)
    BY ONLY <2>1
  <2> QED
    BY ONLY <1>1, <2>2
<1>3. ASSUME NEW x \in o PROVE q \in Seq(S)
  <2>1. o = {x} /\ x \in S
    BY DEF Opt
  <2>2. q = <<x>>
    BY <1>1, <2>1, OneToSeq
  <2> QED
    BY ONLY <2>1, <2>2
<1> QED
  BY ONLY <1>1, <1>2, <1>3

\* A number of 16 bits.
LEMMA Fits16 == ASSUME NEW n \in Int, 0 <= n, n < 65536 PROVE n \in U16
<1>1. PICK b \in Nat \ {0} : b = 65536
  OBVIOUS
<1>2. U16 = 0..b - 1
  BY <1>1, U16Is, SMTT(30)
<1>3. n < b
  BY <1>1
<1>4. n \in 0..b - 1
  BY ONLY <1>3, n \in Int, b \in Nat \ {0}, 0 <= n
<1> QED
  BY ONLY <1>2, <1>4

\* A port in use has 16 bits and is not 0.
LEMMA PortFacts ==
  ASSUME NEW o, Port(o)
  PROVE  o # {} /\ \A n \in o : n \in U16 /\ n \in Int /\ n > 0
<1>1. PICK h \in Int : h = 65535
  OBVIOUS
<1>2. Port(o) <=> o \subseteq 1..h /\ o # {}
  BY <1>1 DEF Port
<1>3. o # {}
  BY ONLY <1>2, Port(o)
<1>4. ASSUME NEW n \in o PROVE n \in U16 /\ n \in Int /\ n > 0
  <2>1. n \in 1..h
    BY ONLY <1>2, Port(o), n \in o
  <2>2. n \in Int /\ n > 0 /\ 0 <= n /\ n <= h
    BY ONLY <2>1, h \in Int
  <2>3. n < 65536
    BY <1>1, <2>2
  <2> QED
    BY <2>2, <2>3, Fits16
<1> QED
  BY ONLY <1>3, <1>4

\* What comes in is a profile, whatever it says.
LEMMA FromType ==
  ASSUME NEW nc \in NetworkConfig PROVE FromNetworkConfig(nc) \in Profile
<1>1. /\ nc.network_name \in Opt(Text) /\ nc.network_secret \in Opt(Text)
      /\ nc.hostname \in Opt(Text) /\ nc.dhcp \in Opt(BOOLEAN)
      /\ nc.virtual_ipv4 \in Opt(Text) /\ nc.network_length \in Opt(Int)
      /\ nc.public_server_url \in Opt(Text) /\ nc.peer_urls \in Seq(Text)
      /\ nc.enable_socks5 \in Opt(BOOLEAN) /\ nc.socks5_port \in Opt(Int)
      /\ nc.enable_vpn_portal \in Opt(BOOLEAN) /\ nc.portal_port \in Opt(Int)
      /\ nc.portal_addr \in Opt(Text) /\ nc.portal_len \in Opt(Int)
      /\ nc.port_forwards \in Seq(PbForward) /\ nc.mtu \in Opt(Int)
      /\ nc.disable_encryption \in Opt(BOOLEAN) /\ nc.flags \in Opt(Flags)
  BY DEF NetworkConfig
<1>2. Empty \in Text /\ DefaultFlags \in Flags /\ DefaultProfile.portal_addr \in Text
  BY NetConfigAssumption, DefaultFacts DEF Profile
<1>3. /\ UnwrapOr(nc.network_name, Empty) \in Text
      /\ UnwrapOr(nc.network_secret, Empty) \in Text
      /\ UnwrapOr(nc.hostname, Empty) \in Text
      /\ UnwrapOr(nc.virtual_ipv4, Empty) \in Text
      /\ UnwrapOr(nc.flags, DefaultFlags) \in Flags
  BY <1>1, <1>2, OptFacts
<1>4. /\ UnwrapOr(nc.dhcp, TRUE) \in BOOLEAN
      /\ UnwrapOr(nc.enable_socks5, FALSE) \in BOOLEAN
      /\ UnwrapOr(nc.enable_vpn_portal, FALSE) \in BOOLEAN
      /\ UnwrapOr(nc.disable_encryption, FALSE) \in BOOLEAN
  <2>1. ASSUME NEW o \in Opt(BOOLEAN), NEW b \in BOOLEAN PROVE UnwrapOr(o, b) \in BOOLEAN
    BY OptFacts
  <2> QED
    BY <1>1, <2>1
<1>5. UnwrapOr(nc.portal_addr \ {Empty}, DefaultProfile.portal_addr) \in Text
  <2>1. nc.portal_addr \ {Empty} \in Opt(Text)
    BY <1>1 DEF Opt
  <2> QED
    BY <1>2, <2>1, OptFacts
<1>6. /\ ClampLen(UnwrapOr(Positive(nc.network_length), DefaultProfile.network_length)) \in U8
      /\ ClampLen(UnwrapOr(Positive(nc.portal_len), DefaultProfile.portal_len)) \in U8
  <2>1. ASSUME NEW o \in Opt(Int) PROVE ClampLen(UnwrapOr(Positive(o), 24)) \in U8
    <3>1. UnwrapOr(Positive(o), 24) \in Int
      BY PositiveFacts
    <3>2. ClampLen(UnwrapOr(Positive(o), 24)) \in 1..32
      BY <3>1, ClampLenFacts
    <3> QED
      BY <3>2 DEF U8
  <2> QED
    BY <1>1, <2>1, DefaultFacts
<1>7. /\ AsU16(UnwrapOr(Positive(nc.socks5_port), DefaultProfile.socks5_port)) \in U16
      /\ AsU16(UnwrapOr(Positive(nc.portal_port), DefaultProfile.portal_port)) \in U16
  <2>1. ASSUME NEW o \in Opt(Int), NEW d \in {1080, 22022}
        PROVE  AsU16(UnwrapOr(Positive(o), d)) \in U16
    <3>1. UnwrapOr(Positive(o), d) \in Int
      BY PositiveFacts
    <3> QED
      BY <3>1, AsU16Facts
  <2> QED
    BY <1>1, <2>1, DefaultFacts
<1>8. UnwrapOr(Positive(nc.mtu), 0) \in Nat
  <2>1. \A x \in Positive(nc.mtu) : x \in Nat
    BY <1>1 DEF Positive, Opt
  <2> QED
    BY <2>1 DEF UnwrapOr
<1>9. FromIndex(UnwrapOr(nc.networking_method, 0)) \in JoinMethod
  BY DEF FromIndex, JoinMethod
<1>10. SetToSeq(nc.public_server_url) \in Seq(Text)
  BY <1>1, OptSeq
<1>11. [i \in DOMAIN nc.port_forwards |-> FromProto(nc.port_forwards[i])] \in Seq(Forward)
  BY <1>1, ProtoFacts
<1>12. (~UnwrapOr(nc.disable_encryption, FALSE)) \in BOOLEAN
  OBVIOUS
<1> QED
  BY ONLY <1>1, <1>3, <1>4, <1>5, <1>6, <1>7, <1>8, <1>9, <1>10, <1>11, <1>12
    DEF FromNetworkConfig, Profile

\* A number that is there and in range is taken over.
LEMMA Taken ==
  ASSUME NEW o \in Opt(Int), o # {}, NEW d,
         \A x \in o : x \in Int /\ x > 0
  PROVE  /\ o = {UnwrapOr(Positive(o), d)}
         /\ UnwrapOr(Positive(o), d) \in o
<1>1. PICK x \in o : o = {x} /\ x \in Int /\ x > 0
  BY DEF Opt
<1>2. Positive(o) = {x}
  BY <1>1 DEF Positive
<1> QED
  BY <1>1, <1>2, OneValue

\* The editor shows what a sound config that came in asks for.
LEMMA FromShows ==
  ASSUME NEW nc \in NetworkConfig, Sound(Meaning(nc))
  PROVE  Shown(FromNetworkConfig(nc)) = Meaning(nc)
<1> DEFINE d == DefaultProfile
<1>1. /\ nc.network_name \in Opt(Text) /\ nc.network_secret \in Opt(Text)
      /\ nc.hostname \in Opt(Text) /\ nc.dhcp \in Opt(BOOLEAN)
      /\ nc.virtual_ipv4 \in Opt(Text) /\ nc.network_length \in Opt(Int)
      /\ nc.socks5_port \in Opt(Int) /\ nc.portal_port \in Opt(Int)
      /\ nc.portal_addr \in Opt(Text) /\ nc.portal_len \in Opt(Int)
      /\ nc.port_forwards \in Seq(PbForward) /\ nc.mtu \in Opt(Int)
  BY DEF NetworkConfig
<1>2. PICK p : p = FromNetworkConfig(nc)
  OBVIOUS
<1>3. /\ p.network_name = UnwrapOr(nc.network_name, Empty)
      /\ p.network_secret = UnwrapOr(nc.network_secret, Empty)
      /\ p.hostname = UnwrapOr(nc.hostname, Empty)
      /\ p.virtual_ipv4 = UnwrapOr(nc.virtual_ipv4, Empty)
      /\ p.network_length = ClampLen(UnwrapOr(Positive(nc.network_length), d.network_length))
      /\ p.join_method = FromIndex(UnwrapOr(nc.networking_method, 0))
      /\ p.public_servers = SetToSeq(nc.public_server_url)
      /\ p.peers = nc.peer_urls
      /\ p.socks5_port = AsU16(UnwrapOr(Positive(nc.socks5_port), d.socks5_port))
      /\ p.portal_port = AsU16(UnwrapOr(Positive(nc.portal_port), d.portal_port))
      /\ p.portal_addr = UnwrapOr(nc.portal_addr \ {Empty}, d.portal_addr)
      /\ p.portal_len = ClampLen(UnwrapOr(Positive(nc.portal_len), d.portal_len))
      /\ p.port_forwards = [i \in DOMAIN nc.port_forwards |-> FromProto(nc.port_forwards[i])]
      /\ p.mtu = UnwrapOr(Positive(nc.mtu), 0)
      /\ p.flags = UnwrapOr(nc.flags, DefaultFlags)
  BY <1>2 DEF FromNetworkConfig
<1>4. /\ p.dhcp <=> UnwrapOr(nc.dhcp, TRUE)
      /\ p.enable_socks5 <=> UnwrapOr(nc.enable_socks5, FALSE)
      /\ p.enable_vpn_portal <=> UnwrapOr(nc.enable_vpn_portal, FALSE)
      /\ p.enable_encryption = ~UnwrapOr(nc.disable_encryption, FALSE)
  BY <1>2 DEF FromNetworkConfig
<1>5. PICK m : m = Meaning(nc)
  OBVIOUS
<1>6. /\ m.network_name = UnwrapOr(nc.network_name, Empty)
      /\ m.hostname = UnwrapOr(nc.hostname, Empty)
      /\ m.address = When(~UnwrapOr(nc.dhcp, TRUE),
                          [ip |-> nc.virtual_ipv4 \ {Empty}, len |-> nc.network_length])
      /\ m.reached = Reached(nc)
      /\ m.socks5 = When(UnwrapOr(nc.enable_socks5, FALSE), nc.socks5_port)
      /\ m.portal = When(UnwrapOr(nc.enable_vpn_portal, FALSE),
                         [port |-> nc.portal_port, addr |-> nc.portal_addr,
                          len |-> nc.portal_len])
      /\ m.forwards = nc.port_forwards
  BY <1>5 DEF Meaning
<1>7. /\ Trimmed[m.network_name] = m.network_name
      /\ Trimmed[m.hostname] = m.hostname
      /\ \A a \in m.address : Prefix(a.len) /\ \A t \in a.ip : Trimmed[t] = t
      /\ CleanList(m.reached) = m.reached
      /\ \A o \in m.socks5 : Port(o)
      /\ \A o \in m.portal :
           /\ Port(o.port) /\ Prefix(o.len) /\ o.addr # {}
           /\ \A t \in o.addr : Trimmed[t] = t /\ t # Empty
      /\ \A i \in DOMAIN m.forwards :
           Complete(m.forwards[i]) /\ Port({m.forwards[i].bind_port})
             /\ Port({m.forwards[i].dst_port})
  BY <1>5 DEF Sound
<1>8. /\ Trimmed[p.network_name] = UnwrapOr(nc.network_name, Empty)
      /\ Trimmed[p.hostname] = UnwrapOr(nc.hostname, Empty)
  BY <1>3, <1>6, <1>7
<1>9. ASSUME NEW o \in Opt(Int), Prefix(o), NEW x
      PROVE  {ClampLen(UnwrapOr(Positive(o), x))} = o
  <2>1. o # {} /\ \A n \in o : n \in 1..32 /\ n \in Int /\ n > 0
    BY <1>9 DEF Prefix
  <2>2. PICK n : n = UnwrapOr(Positive(o), x)
    OBVIOUS
  <2>3. o = {n} /\ n \in o
    BY <2>1, <2>2, Taken
  <2>4. ClampLen(n) = n
    BY <2>1, <2>3, ClampLenFacts
  <2> QED
    BY ONLY <2>2, <2>3, <2>4
<1>10. ASSUME NEW o \in Opt(Int), Port(o), NEW x
       PROVE  {AsU16(UnwrapOr(Positive(o), x))} = o
  <2>1. o # {} /\ \A n \in o : n \in U16 /\ n \in Int /\ n > 0
    BY ONLY <1>10, PortFacts
  <2>2. PICK n : n = UnwrapOr(Positive(o), x)
    OBVIOUS
  <2>3. o = {n} /\ n \in o
    BY <2>1, <2>2, Taken
  <2>4. AsU16(n) = n
    BY <2>1, <2>3, AsU16Facts
  <2> QED
    BY ONLY <2>2, <2>3, <2>4
<1>11. When(~p.dhcp, [ip |-> {Trimmed[p.virtual_ipv4]} \ {Empty}, len |-> {p.network_length}])
         = When(~UnwrapOr(nc.dhcp, TRUE),
                [ip |-> nc.virtual_ipv4 \ {Empty}, len |-> nc.network_length])
  <2>1. CASE p.dhcp
    BY <2>1, <1>4 DEF When
  <2>2. CASE ~p.dhcp
    <3>1. PICK a : a = [ip |-> nc.virtual_ipv4 \ {Empty}, len |-> nc.network_length]
      OBVIOUS
    <3>2. a \in m.address
      BY <2>2, <1>4, <1>6, <3>1 DEF When
    <3>3. Prefix(nc.network_length) /\ \A t \in nc.virtual_ipv4 \ {Empty} : Trimmed[t] = t
      BY <1>7, <3>1, <3>2
    <3>4. {p.network_length} = nc.network_length
      BY <1>1, <1>3, <1>9, <3>3
    <3>5. {Trimmed[p.virtual_ipv4]} \ {Empty} = nc.virtual_ipv4 \ {Empty}
      <4>1. Trimmed[Empty] = Empty
        BY NetConfigAssumption
      <4>2. CASE nc.virtual_ipv4 = {}
        BY <1>1, <1>3, <4>1, <4>2, OptFacts
      <4>3. CASE nc.virtual_ipv4 # {}
        <5>1. nc.virtual_ipv4 = {p.virtual_ipv4}
          BY <1>1, <1>3, <4>3, OptFacts
        <5> QED
          BY <3>3, <4>1, <5>1
      <4> QED
        BY <4>2, <4>3
    <3> QED
      BY <3>4, <3>5, <2>2, <1>4 DEF When
  <2> QED
    BY <2>1, <2>2
<1>12. (CASE p.join_method = "PublicServer" -> CleanList(p.public_servers)
          [] p.join_method = "Manual"       -> CleanList(p.peers)
          [] p.join_method = "Standalone"   -> <<>>) = Reached(nc)
  <2>1. PICK method : method = FromIndex(UnwrapOr(nc.networking_method, 0))
    OBVIOUS
  <2>2. method \in {"PublicServer", "Manual", "Standalone"}
    BY <2>1 DEF FromIndex
  <2>3. Reached(nc) = CASE method = "PublicServer" -> SetToSeq(nc.public_server_url)
                        [] method = "Manual"       -> nc.peer_urls
                        [] method = "Standalone"   -> <<>>
    BY <2>1 DEF Reached
  <2>4. CleanList(Reached(nc)) = Reached(nc)
    BY <1>6, <1>7
  <2>5. p.join_method = method
    BY <1>3, <2>1
  <2>6. CASE method = "PublicServer"
    BY <2>3, <2>4, <2>5, <2>6, <1>3
  <2>7. CASE method = "Manual"
    BY <2>3, <2>4, <2>5, <2>7, <1>3
  <2>8. CASE method = "Standalone"
    BY <2>3, <2>5, <2>8
  <2> QED
    BY <2>2, <2>6, <2>7, <2>8
<1>13. When(p.enable_socks5, {p.socks5_port})
         = When(UnwrapOr(nc.enable_socks5, FALSE), nc.socks5_port)
  <2>1. CASE p.enable_socks5
    <3>1. Port(nc.socks5_port)
      BY <2>1, <1>4, <1>6, <1>7 DEF When
    <3>2. {p.socks5_port} = nc.socks5_port
      BY <1>1, <1>3, <1>10, <3>1
    <3> QED
      BY <2>1, <1>4, <3>2 DEF When
  <2>2. CASE ~p.enable_socks5
    BY <2>2, <1>4 DEF When
  <2> QED
    BY <2>1, <2>2
<1>14. When(p.enable_vpn_portal, [port |-> {p.portal_port}, addr |-> {Trimmed[p.portal_addr]},
                                  len |-> {p.portal_len}])
         = When(UnwrapOr(nc.enable_vpn_portal, FALSE),
                [port |-> nc.portal_port, addr |-> nc.portal_addr, len |-> nc.portal_len])
  <2>1. CASE p.enable_vpn_portal
    <3>1. PICK o : o = [port |-> nc.portal_port, addr |-> nc.portal_addr, len |-> nc.portal_len]
      OBVIOUS
    <3>2. o \in m.portal
      BY <2>1, <1>4, <1>6, <3>1 DEF When
    <3>3. /\ Port(nc.portal_port) /\ Prefix(nc.portal_len) /\ nc.portal_addr # {}
          /\ \A t \in nc.portal_addr : Trimmed[t] = t /\ t # Empty
      BY <1>7, <3>1, <3>2
    <3>4. {p.portal_port} = nc.portal_port
      BY <1>1, <1>3, <1>10, <3>3
    <3>5. {p.portal_len} = nc.portal_len
      BY <1>1, <1>3, <1>9, <3>3
    <3>6. {Trimmed[p.portal_addr]} = nc.portal_addr
      <4>1. nc.portal_addr \ {Empty} = nc.portal_addr
        BY <3>3
      <4>2. PICK q \in Opt(Text) : q = nc.portal_addr
        BY <1>1
      <4>3. q # {} /\ p.portal_addr = UnwrapOr(q, d.portal_addr)
        BY <1>3, <3>3, <4>1, <4>2
      <4>4. nc.portal_addr = {p.portal_addr}
        BY ONLY <4>2, <4>3, OptFacts
      <4> QED
        BY <3>3, <4>4
    <3> QED
      BY <2>1, <1>4, <3>4, <3>5, <3>6 DEF When
  <2>2. CASE ~p.enable_vpn_portal
    BY <2>2, <1>4 DEF When
  <2> QED
    BY <2>1, <2>2
<1>15. CompleteRows(p.port_forwards) = nc.port_forwards
  <2>1. PICK rows \in Seq(PbForward) : rows = nc.port_forwards
    BY <1>1
  <2>2. \A i \in DOMAIN rows : /\ Complete(rows[i])
                               /\ rows[i].bind_port \in U16 /\ rows[i].dst_port \in U16
    <3> SUFFICES ASSUME NEW i \in DOMAIN rows
                 PROVE  /\ Complete(rows[i])
                        /\ rows[i].bind_port \in U16 /\ rows[i].dst_port \in U16
      OBVIOUS
    <3>1. /\ Complete(rows[i]) /\ Port({rows[i].bind_port}) /\ Port({rows[i].dst_port})
      BY <1>6, <1>7, <2>1
    <3>2. /\ rows[i].bind_port \in {rows[i].bind_port}
          /\ rows[i].dst_port \in {rows[i].dst_port}
      OBVIOUS
    <3> QED
      BY ONLY <3>1, <3>2, PortFacts
  <2>3. p.port_forwards = rows
    BY <1>3, <2>1, <2>2, ProtoFacts
  <2> QED
    BY <2>1, <2>2, <2>3, RowsFacts
<1>16. When(p.mtu > 0, p.mtu) = {n \in nc.mtu : n > 0}
  <2>1. PICK o : o = Positive(nc.mtu)
    OBVIOUS
  <2>2. o = {n \in nc.mtu : n > 0}
    BY <2>1 DEF Positive
  <2>3. p.mtu = UnwrapOr(o, 0)
    BY <1>3, <2>1
  <2>4. CASE o = {}
    BY <2>2, <2>3, <2>4 DEF UnwrapOr, When
  <2>5. CASE o # {}
    <3>1. PICK x \in o : o = {x} /\ x > 0
      BY <1>1, <2>2, <2>5 DEF Opt
    <3>2. p.mtu = x
      BY <2>3, <3>1, OneValue
    <3> QED
      BY <2>2, <3>1, <3>2 DEF When
  <2> QED
    BY <2>4, <2>5
<1>17. Shown(p) = Meaning(nc)
  <2>1. /\ p.network_secret = UnwrapOr(nc.network_secret, Empty)
        /\ p.flags = UnwrapOr(nc.flags, DefaultFlags)
    BY <1>3
  <2>2. p.enable_encryption = ~UnwrapOr(nc.disable_encryption, FALSE)
    BY <1>4
  <2> QED
    BY ONLY <1>8, <1>11, <1>12, <1>13, <1>14, <1>15, <1>16, <2>1, <2>2 DEF Shown, Meaning
<1> QED
  BY <1>2, <1>17

LEMMA DefaultPorts == 1080 \in U16 /\ 22022 \in U16
  BY DEF U16

LEMMA NotZero ==
  ASSUME NEW b \in Nat, NEW m \in 0..b, m # 0 PROVE m \in 1..b
  BY SMTT(30)

\* What the box of a port takes.
PortRange == 1..65535

LEMMA PortIs == ASSUME NEW m, m \in U16, m # 0 PROVE m \in PortRange
<1>1. PICK b \in Nat : b = 65535
  OBVIOUS
<1>2. m \in 0..b
  BY <1>1 DEF U16
<1>3. m \in 1..b
  BY ONLY <1>2, m # 0, b \in Nat, NotZero
<1> QED
  BY ONLY <1>1, <1>3, SMTT(30) DEF PortRange

\* What came in is in the range of every box, but for the ports that were cut
\* to zero.
LEMMA FromInRange ==
  ASSUME NEW nc \in NetworkConfig, NEW f \in DOMAIN BoxRange \ CutToZero(nc)
  PROVE  FromNetworkConfig(nc)[f] \in BoxRange[f]
<1> DEFINE T == 1..32
<1> HIDE DEF T
<1>1. /\ nc.socks5_port \in Opt(Int) /\ nc.portal_port \in Opt(Int)
      /\ nc.network_length \in Opt(Int) /\ nc.portal_len \in Opt(Int)
  BY DEF NetworkConfig
<1>2. ASSUME NEW o \in Opt(Int), \A n \in o : ~(n > 0 /\ n % 65536 = 0),
             NEW d \in {1080, 22022}
      PROVE  AsU16(UnwrapOr(Positive(o), d)) \in PortRange
  <2>1. PICK n : n = UnwrapOr(Positive(o), d)
    OBVIOUS
  <2>2. n \in Nat \ {0} /\ (n \in o \/ n = d)
    BY <2>1, PositiveFacts
  <2>3. AsU16(n) \in U16
    BY <2>2, AsU16Facts
  <2>4. AsU16(n) # 0
    <3>1. CASE n \in o
      BY <1>2, <2>2, <3>1 DEF AsU16
    <3>2. CASE n = d
      <4>1. d \in Int /\ d # 0
        OBVIOUS
      <4>2. 1080 \in U16 /\ 22022 \in U16
        BY DefaultPorts
      <4> QED
        BY <3>2, <4>1, <4>2, AsU16Facts
    <3> QED
      BY <2>2, <3>1, <3>2
  <2>5. PICK m : m = AsU16(n)
    OBVIOUS
  <2>6. m \in U16 /\ m # 0
    BY <2>3, <2>4, <2>5
  <2>7. m \in PortRange
    BY ONLY <2>6, PortIs
  <2> QED
    BY ONLY <2>1, <2>5, <2>7
<1>3. ASSUME NEW o \in Opt(Int) PROVE ClampLen(UnwrapOr(Positive(o), 24)) \in T
  <2>1. UnwrapOr(Positive(o), 24) \in Int
    BY PositiveFacts
  <2> QED
    BY <2>1, ClampLenFacts, Zenon DEF T
<1>4. PICK p : p = FromNetworkConfig(nc)
  OBVIOUS
<1>5. /\ p.socks5_port = AsU16(UnwrapOr(Positive(nc.socks5_port), 1080))
      /\ p.portal_port = AsU16(UnwrapOr(Positive(nc.portal_port), 22022))
      /\ p.network_length = ClampLen(UnwrapOr(Positive(nc.network_length), 24))
      /\ p.portal_len = ClampLen(UnwrapOr(Positive(nc.portal_len), 24))
  BY <1>4, DefaultFacts DEF FromNetworkConfig
<1>6. ASSUME f = "socks5_port" PROVE p.socks5_port \in PortRange
  <2>1. \A n \in nc.socks5_port : ~(n > 0 /\ n % 65536 = 0)
    BY ONLY <1>6, f \notin CutToZero(nc) DEF CutToZero
  <2>2. PICK o \in Opt(Int), d \in {1080, 22022} : o = nc.socks5_port /\ d = 1080
    BY <1>1
  <2>3. AsU16(UnwrapOr(Positive(o), d)) \in PortRange
    BY <1>2, <2>1, <2>2
  <2> QED
    BY ONLY <1>5, <2>2, <2>3
<1>7. ASSUME f = "portal_port" PROVE p.portal_port \in PortRange
  <2>1. \A n \in nc.portal_port : ~(n > 0 /\ n % 65536 = 0)
    BY ONLY <1>7, f \notin CutToZero(nc) DEF CutToZero
  <2>2. PICK o \in Opt(Int), d \in {1080, 22022} : o = nc.portal_port /\ d = 22022
    BY <1>1
  <2>3. AsU16(UnwrapOr(Positive(o), d)) \in PortRange
    BY <1>2, <2>1, <2>2
  <2> QED
    BY ONLY <1>5, <2>2, <2>3
<1>8. p.network_length \in T /\ p.portal_len \in T
  BY <1>1, <1>3, <1>5
<1>9. f \in {"socks5_port", "portal_port", "network_length", "portal_len"}
  BY DEF BoxRange
<1>10. /\ BoxRange["socks5_port"] = PortRange /\ BoxRange["portal_port"] = PortRange
       /\ BoxRange["network_length"] = T /\ BoxRange["portal_len"] = T
  BY DEF BoxRange, PortRange, T
<1>11. p[f] \in BoxRange[f]
  BY ONLY <1>6, <1>7, <1>8, <1>9, <1>10
<1> QED
  BY ONLY <1>4, <1>11

\* The list without elements.
LEMMA EmptyList == ASSUME NEW S PROVE <<>> \in Seq(S)
  OBVIOUS

\* The TOML of EasyTier calls the same addresses, and keeps the rest.
LEMMA TomlFacts ==
  ASSUME NEW nc \in NetworkConfig, NEW t \in Toml(nc)
  PROVE  t \in NetworkConfig /\ Meaning(t) = Meaning(nc)
<1>1. PICK called \in Seq(Text) : called = Reached(nc)
  <2>1. PICK method : method = FromIndex(UnwrapOr(nc.networking_method, 0))
    OBVIOUS
  <2>2. method \in {"PublicServer", "Manual", "Standalone"}
    BY <2>1 DEF FromIndex
  <2>3. Reached(nc) = CASE method = "PublicServer" -> SetToSeq(nc.public_server_url)
                        [] method = "Manual"       -> nc.peer_urls
                        [] method = "Standalone"   -> <<>>
    BY <2>1 DEF Reached
  <2>4. PICK none : none = <<>> /\ none \in Seq(Text)
    BY EmptyList
  <2>5. nc.peer_urls \in Seq(Text) /\ nc.public_server_url \in Opt(Text)
    BY DEF NetworkConfig
  <2>6. SetToSeq(nc.public_server_url) \in Seq(Text)
    BY <2>5, OptSeq
  <2>7. Reached(nc) \in Seq(Text)
    BY ONLY <2>2, <2>3, <2>4, <2>5, <2>6
  <2> QED
    BY <2>7
<1>2. PICK none : none = <<>> /\ none \in Seq(Text)
  BY EmptyList
<1> DEFINE Method(m, url, peers) ==
             [nc EXCEPT !.networking_method = {m}, !.public_server_url = url,
                        !.peer_urls = peers]
<1> DEFINE Written(m, url, peers) ==
             /\ m \in {0, 1, 2} /\ url \in Opt(Text) /\ peers \in Seq(Text)
             /\ t = Method(m, url, peers)
             /\ m = 1 => peers = called
             /\ m = 0 => SetToSeq(url) = called
             /\ m = 2 => called = <<>>
<1>3. PICK m, url, peers : Written(m, url, peers)
  <2>1. Toml(nc) = {Method(1, {}, called)}
                   \cup (IF Len(called) = 1 THEN {Method(0, {called[1]}, <<>>)} ELSE {})
                   \cup (IF Len(called) = 0 THEN {Method(2, {}, <<>>)} ELSE {})
    BY <1>1 DEF Toml
  <2>2. {} \in Opt(Text)
    BY DEF Opt
  <2> HIDE DEF Method
  <2>3. ASSUME t = Method(1, {}, called) PROVE Written(1, {}, called)
    BY <2>2, <2>3
  <2>4. ASSUME Len(called) = 1, t = Method(0, {called[1]}, <<>>)
        PROVE  Written(0, {called[1]}, none)
    <3>1. called[1] \in Text /\ called = <<called[1]>>
      BY <2>4
    <3>2. {called[1]} \in Opt(Text)
      BY <3>1 DEF Opt
    <3>3. SetToSeq({called[1]}) = called
      BY <3>1, OneToSeq, Zenon
    <3> QED
      BY <1>2, <2>4, <3>2, <3>3
  <2>5. ASSUME Len(called) = 0, t = Method(2, {}, <<>>)
        PROVE  Written(2, {}, none)
    <3>1. called = <<>>
      BY <2>5, EmptySeq
    <3> QED
      BY <1>2, <2>2, <2>5, <3>1
  <2> HIDE DEF Written
  <2>6. t = Method(1, {}, called) \/ (Len(called) = 1 /\ t = Method(0, {called[1]}, <<>>))
          \/ (Len(called) = 0 /\ t = Method(2, {}, <<>>))
    BY <2>1
  <2> QED
    BY ONLY <2>3, <2>4, <2>5, <2>6
<1>10. /\ m \in {0, 1, 2} /\ url \in Opt(Text) /\ peers \in Seq(Text)
       /\ t = [nc EXCEPT !.networking_method = {m}, !.public_server_url = url,
                         !.peer_urls = peers]
       /\ m = 1 => peers = called
       /\ m = 0 => SetToSeq(url) = called
       /\ m = 2 => called = <<>>
  BY <1>3
<1> HIDE DEF Method, Written
<1>4. {m} \in Opt(Int)
  BY <1>10 DEF Opt
<1>5. t \in NetworkConfig
  BY <1>10, <1>4 DEF NetworkConfig
<1>6. t.networking_method = {m} /\ t.public_server_url = url /\ t.peer_urls = peers
  BY <1>10 DEF NetworkConfig
<1>7. /\ t.network_name = nc.network_name /\ t.network_secret = nc.network_secret
      /\ t.hostname = nc.hostname /\ t.dhcp = nc.dhcp
      /\ t.virtual_ipv4 = nc.virtual_ipv4 /\ t.network_length = nc.network_length
      /\ t.enable_socks5 = nc.enable_socks5 /\ t.socks5_port = nc.socks5_port
      /\ t.enable_vpn_portal = nc.enable_vpn_portal /\ t.portal_port = nc.portal_port
      /\ t.portal_addr = nc.portal_addr /\ t.portal_len = nc.portal_len
      /\ t.port_forwards = nc.port_forwards /\ t.mtu = nc.mtu
      /\ t.disable_encryption = nc.disable_encryption /\ t.flags = nc.flags
  BY <1>10 DEF NetworkConfig
<1>8. Reached(t) = Reached(nc)
  <2>1. UnwrapOr(t.networking_method, 0) = m
    BY <1>6, OneValue
  <2>2. CASE m = 0
    BY <1>1, <1>10, <1>6, <2>1, <2>2 DEF Reached, FromIndex
  <2>3. CASE m = 1
    BY <1>1, <1>10, <1>6, <2>1, <2>3 DEF Reached, FromIndex
  <2>4. CASE m = 2
    BY <1>1, <1>10, <2>1, <2>4 DEF Reached, FromIndex
  <2> QED
    BY <1>10, <2>2, <2>3, <2>4
<1>9. Meaning(t) = Meaning(nc)
  BY ONLY <1>7, <1>8 DEF Meaning
<1> QED
  BY ONLY <1>5, <1>9

-----------------------------------------------------------------------------
(* The networks in the list, and those that travel.                        *)

Meanings == {Shown(p) : p \in Profile} \cup {Meaning(nc) : nc \in NetworkConfig}

\* A network as a profile: what its author meant, if that was sound, is what
\* the editor shows, and what is not loose is in range.
PNets ==
  {n \in [body : Profile, meant : Meanings, loose : SUBSET DOMAIN BoxRange] :
     /\ Sound(n.meant) => Shown(n.body) = n.meant
     /\ \A f \in DOMAIN BoxRange \ n.loose : n.body[f] \in BoxRange[f]}

\* ... and as a NetworkConfig: what was meant is what it asks for.
CNets ==
  {n \in [body : NetworkConfig, meant : Meanings, loose : {{}}] :
     Sound(n.meant) => Meaning(n.body) = n.meant}

\* What the editor writes.
LEMMA AuthoredFacts == ASSUME NEW p \in Profile PROVE Authored(p) \in PNets
<1>1. Shown(p) \in Meanings
  BY DEF Meanings
<1> QED
  BY <1>1 DEF Authored, PNets

\* What from_network_config makes of a network that travelled.
LEMMA ImportedFacts == ASSUME NEW n \in CNets PROVE Imported(n) \in PNets
<1>1. /\ n.body \in NetworkConfig /\ n.meant \in Meanings
      /\ Sound(n.meant) => Meaning(n.body) = n.meant
  BY DEF CNets
<1>2. PICK p : p = FromNetworkConfig(n.body)
  OBVIOUS
<1>3. p \in Profile
  BY <1>1, <1>2, FromType
<1>4. Sound(n.meant) => Shown(p) = n.meant
  BY <1>1, <1>2, FromShows
<1>5. PICK c : c = CutToZero(n.body)
  OBVIOUS
<1>6. \A f \in DOMAIN BoxRange \ c : p[f] \in BoxRange[f]
  BY <1>1, <1>2, <1>5, FromInRange
<1>7. c \in SUBSET DOMAIN BoxRange
  BY <1>5 DEF CutToZero, BoxRange
<1>8. PICK r : r = [n EXCEPT !.body = p, !.loose = c]
  OBVIOUS
<1>9. Imported(n) = r
  BY <1>2, <1>5, <1>8 DEF Imported, CNets
<1>10. r \in [body : Profile, meant : Meanings, loose : SUBSET DOMAIN BoxRange]
       /\ r.body = p /\ r.meant = n.meant /\ r.loose = c
  BY <1>1, <1>3, <1>7, <1>8 DEF CNets
<1> QED
  BY ONLY <1>4, <1>6, <1>9, <1>10 DEF PNets

\* What is written of a network, if it asks for what the editor shows.
LEMMA ConvertedFacts ==
  ASSUME NEW n \in PNets, NEW nc \in NetworkConfig,
         Meaning(nc) = Shown(n.body)
  PROVE  Converted(n, nc) \in CNets
<1>1. n.meant \in Meanings /\ (Sound(n.meant) => Shown(n.body) = n.meant)
  BY DEF PNets
<1>2. PICK r : r = [n EXCEPT !.body = nc, !.loose = {}]
  OBVIOUS
<1>3. Converted(n, nc) = r
  BY <1>2 DEF Converted
<1>4. r \in [body : NetworkConfig, meant : Meanings, loose : {{}}]
      /\ r.body = nc /\ r.meant = n.meant
  BY <1>1, <1>2 DEF PNets
<1>5. Sound(r.meant) => Meaning(r.body) = r.meant
  BY <1>1, <1>4
<1> QED
  BY ONLY <1>3, <1>4, <1>5 DEF CNets

\* What the official GUI writes.
LEMMA ForeignFacts ==
  ASSUME NEW nc \in Foreign
  PROVE  [body |-> nc, meant |-> Meaning(nc), loose |-> {}] \in CNets
<1>1. nc \in NetworkConfig
  BY SharingAssumption
<1>2. Meaning(nc) \in Meanings
  BY <1>1 DEF Meanings
<1> QED
  BY <1>1, <1>2 DEF CNets

\* The network that is read out of a store without networks.
LEMMA PhantomFacts == Phantom \in PNets
<1>1. NoConfig \in NetworkConfig
  <2>1. PICK none : none = <<>> /\ none \in Seq(Text) /\ none \in Seq(PbForward)
    BY EmptyList
  <2>2. \A S : {} \in Opt(S)
    BY DEF Opt
  <2>3. PICK e : e = {} /\ e \in Opt(Text) /\ e \in Opt(BOOLEAN) /\ e \in Opt(Int) /\ e \in Opt(Flags)
    BY <2>2
  <2> QED
    BY <2>1, <2>3 DEF NoConfig, NetworkConfig
<1>2. Meaning(NoConfig) \in Meanings
  BY <1>1 DEF Meanings
<1>3. PICK n : n = [body |-> NoConfig, meant |-> Meaning(NoConfig), loose |-> {}]
  OBVIOUS
<1>4. n \in CNets
  BY ONLY <1>1, <1>2, <1>3 DEF CNets
<1> QED
  BY <1>3, <1>4, ImportedFacts DEF Phantom

-----------------------------------------------------------------------------
(* The editor writes profiles.                                             *)

\* A number box keeps to its upper bound.
LEMMA BoxedFacts ==
  ASSUME NEW lo \in Nat, NEW hi \in Nat, lo <= hi, NEW n \in Boxed(lo, hi)
  PROVE  n \in Nat /\ n <= hi
  BY SharingAssumption DEF Boxed

\* The boxes of the editor fit the fields they are for.
LEMMA BoxedTypes ==
  /\ \A n \in Boxed(1, 32) : n \in U8
  /\ \A n \in Boxed(1, 65535) : n \in U16
  /\ \A n \in Boxed(0, 65535) : n \in U16
  /\ \A n \in Boxed(0, 1500) : n \in Nat
<1>1. ASSUME NEW n \in Boxed(1, 32) PROVE n \in U8
  <2>1. n \in Nat /\ n <= 32
    BY BoxedFacts
  <2> QED
    BY <2>1 DEF U8
<1>2. ASSUME NEW lo \in {0, 1}, NEW n \in Boxed(lo, 65535) PROVE n \in U16
  <2>1. n \in Nat /\ n <= 65535
    BY BoxedFacts
  <2> QED
    BY <2>1, Fits16
<1>3. ASSUME NEW n \in Boxed(0, 1500) PROVE n \in Nat
  BY BoxedFacts
<1> QED
  BY <1>1, <1>2, <1>3

\* A box of lines gives a list of texts.
LEMMA LinesFacts == Lines \subseteq Seq(Text)
<1> SUFFICES ASSUME NEW s \in TypedLines PROVE SplitLines(s) \in Seq(Text)
  BY DEF Lines
<1>1. s \in Seq(Text)
  BY SharingAssumption
<1>2. PICK n \in Nat : n = Len(s) /\ DOMAIN s = 1..n /\ \A i \in 1..n : s[i] \in Text
  BY <1>1, LenProperties, ElementOfSeq
<1>3. \A i \in 1..n : Trimmed[s[i]] \in Text
  BY <1>2, NetConfigAssumption
<1>4. [i \in 1..n |-> Trimmed[s[i]]] \in Seq(Text)
  BY <1>3
<1> QED
  BY <1>2, <1>4 DEF SplitLines

\* The general page.
LEMMA GeneralFacts == ASSUME NEW p \in Profile PROVE GeneralEdits(p) \subseteq Profile
<1> SUFFICES ASSUME NEW q \in GeneralEdits(p) PROVE q \in Profile
  OBVIOUS
<1>1. \A t \in Typed : t \in Text
  BY SharingAssumption
<1>2. CASE q \in {[p EXCEPT !.network_name = t] : t \in Typed}
  BY <1>1, <1>2, SMTT(30) DEF Profile
<1>3. CASE q \in {[p EXCEPT !.network_secret = t] : t \in Typed}
  BY <1>1, <1>3, SMTT(30) DEF Profile
<1>4. CASE q \in {[p EXCEPT !.hostname = t] : t \in Typed}
  BY <1>1, <1>4, SMTT(30) DEF Profile
<1>5. CASE q \in {[p EXCEPT !.join_method = m] : m \in JoinMethod}
  BY <1>5, SMTT(30) DEF Profile
<1>6. CASE q = [p EXCEPT !.dhcp = ~@]
  BY <1>6, ZenonT(30) DEF Profile
<1>7. CASE q \in {[p EXCEPT !.public_servers = s] : s \in Lines}
  BY <1>7, LinesFacts, ZenonT(30) DEF Profile
<1>8. CASE q \in {[p EXCEPT !.peers = s] : s \in Lines}
  BY <1>8, LinesFacts, ZenonT(30) DEF Profile
<1>9. CASE q \in {[p EXCEPT !.virtual_ipv4 = t] : t \in Typed}
  BY <1>1, <1>9, SMTT(30) DEF Profile
<1>10. CASE q \in {[p EXCEPT !.network_length = n] : n \in Boxed(1, 32)}
  BY <1>10, BoxedTypes, SMTT(30) DEF Profile
<1> QED
  <2>1. p.join_method \in {"PublicServer", "Manual", "Standalone"}
    BY DEF Profile, JoinMethod
  <2> QED
    BY <2>1, <1>2, <1>3, <1>4, <1>5, <1>6, <1>7, <1>8, <1>9, <1>10 DEF GeneralEdits

\* The page of the proxies.
LEMMA ProxyFacts == ASSUME NEW p \in Profile PROVE ProxyEdits(p) \subseteq Profile
<1> SUFFICES ASSUME NEW q \in ProxyEdits(p) PROVE q \in Profile
  OBVIOUS
<1>1. \A t \in Typed : t \in Text
  BY SharingAssumption
<1>2. CASE q = [p EXCEPT !.enable_socks5 = ~@]
  BY <1>2, ZenonT(30) DEF Profile
<1>3. CASE q = [p EXCEPT !.enable_vpn_portal = ~@]
  BY <1>3, ZenonT(30) DEF Profile
<1>4. CASE q \in {[p EXCEPT !.socks5_port = n] : n \in Boxed(1, 65535)}
  BY <1>4, BoxedTypes, SMTT(30) DEF Profile
<1>5. CASE q \in {[p EXCEPT !.portal_port = n] : n \in Boxed(1, 65535)}
  BY <1>5, BoxedTypes, SMTT(30) DEF Profile
<1>6. CASE q \in {[p EXCEPT !.portal_addr = t] : t \in Typed}
  BY <1>1, <1>6, SMTT(30) DEF Profile
<1>7. CASE q \in {[p EXCEPT !.portal_len = n] : n \in Boxed(1, 32)}
  BY <1>7, BoxedTypes, SMTT(30) DEF Profile
<1> QED
  BY <1>2, <1>3, <1>4, <1>5, <1>6, <1>7 DEF ProxyEdits

\* A list without its i-th element.
LEMMA RemoveFacts ==
  ASSUME NEW S, NEW s \in Seq(S), NEW i \in DOMAIN s
  PROVE  RemoveAt(s, i) \in Seq(S) /\ Len(RemoveAt(s, i)) = Len(s) - 1
<1>1. PICK n \in Nat : n = Len(s) /\ DOMAIN s = 1..n /\ \A j \in 1..n : s[j] \in S
  BY LenProperties, ElementOfSeq
<1>2. PICK a : a = SubSeq(s, 1, i - 1)
  OBVIOUS
<1>3. PICK b : b = SubSeq(s, i + 1, n)
  OBVIOUS
<1>4. a \in Seq(S) /\ Len(a) = i - 1
  BY <1>1, <1>2, SubSeqProperties
<1>5. b \in Seq(S) /\ Len(b) = n - i
  BY <1>1, <1>3, SubSeqProperties
<1>6. RemoveAt(s, i) = a \o b
  BY <1>1, <1>2, <1>3 DEF RemoveAt
<1> QED
  BY <1>1, <1>4, <1>5, <1>6, ConcatProperties

\* The table of port forwards.
LEMMA ForwardFacts == ASSUME NEW p \in Profile PROVE ForwardEdits(p) \subseteq Profile
<1>1. PICK rows \in Seq(Forward) : rows = p.port_forwards
  BY DEF Profile
<1>2. ASSUME NEW r \in Seq(Forward) PROVE [p EXCEPT !.port_forwards = r] \in Profile
  BY DEF Profile
<1>3. DefaultForward \in Forward
  <2>1. 0 \in U16 /\ Empty \in Text
    BY Fits16, NetConfigAssumption
  <2> QED
    BY <2>1 DEF DefaultForward, Forward
<1>4. ASSUME NEW q, q = [p EXCEPT !.port_forwards = Append(@, DefaultForward)]
      PROVE  q \in Profile
  <2>1. Append(rows, DefaultForward) \in Seq(Forward)
    BY <1>3, AppendProperties
  <2>2. q = [p EXCEPT !.port_forwards = Append(rows, DefaultForward)]
    BY <1>1, <1>4
  <2> QED
    BY <1>2, <2>1, <2>2
<1>5. ASSUME NEW i \in DOMAIN p.port_forwards, NEW q \in RowEdits(p, i)
      PROVE  q \in Profile
  <2>1. i \in DOMAIN rows
    BY <1>1, <1>5
  <2>2. rows[i] \in Forward
    BY <2>1, ElementOfSeq, LenProperties
  <2>3. ASSUME NEW f \in Forward PROVE [rows EXCEPT ![i] = f] \in Seq(Forward)
    BY <2>1, ExceptSeq
  <2>4. CASE q = [p EXCEPT !.port_forwards = RemoveAt(@, i)]
    <3>1. RemoveAt(rows, i) \in Seq(Forward)
      BY <2>1, RemoveFacts
    <3>2. q = [p EXCEPT !.port_forwards = RemoveAt(rows, i)]
      BY <1>1, <2>4
    <3> QED
      BY <1>2, <3>1, <3>2
  <2>5. ASSUME NEW n \in U16, q = [p EXCEPT !.port_forwards[i].bind_port = n]
        PROVE  q \in Profile
    <3>1. PICK f : f = [rows[i] EXCEPT !.bind_port = n]
      OBVIOUS
    <3>2. f \in Forward
      BY <2>2, <3>1 DEF Forward
    <3>3. PICK r \in Seq(Forward) : r = [rows EXCEPT ![i] = f]
      BY ONLY <2>3, <3>2
    <3>4. q = [p EXCEPT !.port_forwards = r]
      BY <1>1, <2>5, <3>1, <3>3
    <3> QED
      BY <1>2, <3>4
  <2>6. ASSUME NEW n \in U16, q = [p EXCEPT !.port_forwards[i].dst_port = n]
        PROVE  q \in Profile
    <3>1. PICK f : f = [rows[i] EXCEPT !.dst_port = n]
      OBVIOUS
    <3>2. f \in Forward
      BY <2>2, <3>1 DEF Forward
    <3>3. PICK r \in Seq(Forward) : r = [rows EXCEPT ![i] = f]
      BY ONLY <2>3, <3>2
    <3>4. q = [p EXCEPT !.port_forwards = r]
      BY <1>1, <2>6, <3>1, <3>3
    <3> QED
      BY <1>2, <3>4
  <2>7. ASSUME NEW t \in Typed, q = [p EXCEPT !.port_forwards[i].dst_ip = t]
        PROVE  q \in Profile
    <3>1. PICK f : f = [rows[i] EXCEPT !.dst_ip = t]
      BY ONLY <2>2
    <3>2. f \in Forward
      BY <2>2, <3>1, SharingAssumption DEF Forward
    <3>3. PICK r \in Seq(Forward) : r = [rows EXCEPT ![i] = f]
      BY ONLY <2>3, <3>2
    <3>4. q = [p EXCEPT !.port_forwards = r]
      BY <1>1, <2>7, <3>1, <3>3
    <3> QED
      BY <1>2, <3>4
  <2> QED
    BY <1>5, <2>4, <2>5, <2>6, <2>7, BoxedTypes DEF RowEdits
<1> QED
  BY <1>4, <1>5 DEF ForwardEdits

\* The other pages.
LEMMA OtherFacts == ASSUME NEW p \in Profile PROVE OtherEdits(p) \subseteq Profile
<1> SUFFICES ASSUME NEW q \in OtherEdits(p) PROVE q \in Profile
  OBVIOUS
<1>1. CASE q = [p EXCEPT !.enable_encryption = ~@]
  BY <1>1, ZenonT(30) DEF Profile
<1>2. CASE q \in {[p EXCEPT !.flags = f] : f \in Flags}
  BY <1>2, SMTT(30) DEF Profile
<1>3. CASE q \in {[p EXCEPT !.mtu = n] : n \in Boxed(0, 1500)}
  BY <1>3, BoxedTypes, SMTT(30) DEF Profile
<1> QED
  BY <1>1, <1>2, <1>3
    DEF OtherEdits, SecurityEdits, RoutingEdits, AdvancedEdits, FlagEdits

-----------------------------------------------------------------------------
(* The inductive invariant.                                                *)

\* A document: its networks are what its shape says, and its suffix is the
\* one its shape is read under.
DocSound(d) ==
  \/ d.shape \in Native /\ d.ext = "json" /\ d.nets \in Seq(PNets)
  \/ d.shape \in {"config", "list"} /\ d.ext \in {"json", ""} /\ d.nets \in Seq(CNets)
  \/ d.shape = "toml" /\ d.ext \in {"toml", ""} /\ d.nets \in Seq(CNets)

IInv ==
  /\ list \in Seq(PNets) /\ Len(list) <= MaxNetworks
  /\ \A d \in doc : DocSound(d)
  /\ edits \in 0..MaxEdits

\* A list of configs is read one by one.
LEMMA ImportedList ==
  ASSUME NEW s \in Seq(CNets), NEW q, q = [i \in DOMAIN s |-> Imported(s[i])]
  PROVE  q \in Seq(PNets) /\ Len(q) = Len(s)
<1>1. PICK n \in Nat : n = Len(s) /\ DOMAIN s = 1..n /\ \A i \in 1..n : s[i] \in CNets
  BY LenProperties, ElementOfSeq
<1>2. \A i \in 1..n : Imported(s[i]) \in PNets
  BY <1>1, ImportedFacts
<1>3. q \in [1..n -> PNets]
  BY <1>1, <1>2
<1>4. q \in Seq(PNets) /\ DOMAIN q = 1..n
  BY <1>3
<1> QED
  BY <1>1, <1>4, LenProperties

\* Every document is read: by the parser its suffix selects, and whole.
LEMMA ParsedFacts ==
  ASSUME NEW d, DocSound(d)
  PROVE  /\ Parsed(d) \in Seq(PNets)
         /\ d.nets # <<>> => Len(Parsed(d)) = Len(d.nets)
<1>1. PICK q : q = [i \in DOMAIN d.nets |-> Imported(d.nets[i])]
  OBVIOUS
<1>2. CASE d.shape \in Native /\ d.ext = "json" /\ d.nets \in Seq(PNets)
  <2>1. Parsed(d) = ParseJson(d)
    BY <1>2 DEF Parsed, Json
  <2>2. CASE d.nets # <<>>
    <3>1. ParseJson(d) = d.nets
      BY <1>2, <2>2 DEF ParseJson
    <3> QED
      BY ONLY <1>2, <2>1, <3>1
  <2>3. CASE d.nets = <<>>
    <3>1. d.shape = "store" => ParseJson(d) = <<Phantom>>
      BY <2>3 DEF ParseJson
    <3>2. d.shape # "store" => ParseJson(d) = q
      BY <1>1, <2>3 DEF ParseJson
    <3>3. <<Phantom>> \in Seq(PNets)
      BY PhantomFacts
    <3>4. q \in Seq(PNets)
      <4>1. q = <<>>
        BY <1>1, <2>3
      <4> QED
        BY <4>1, EmptyList
    <3> QED
      BY ONLY <2>1, <2>3, <3>1, <3>2, <3>3, <3>4
  <2> QED
    BY <2>2, <2>3
<1>3. CASE d.shape \in {"config", "list"} /\ d.ext \in {"json", ""} /\ d.nets \in Seq(CNets)
  <2>1. Parsed(d) = q
    BY <1>1, <1>3 DEF Parsed, Json, Native, ParseJson
  <2>2. q \in Seq(PNets) /\ Len(q) = Len(d.nets)
    BY <1>1, <1>3, ImportedList
  <2> QED
    BY ONLY <2>1, <2>2
<1>4. CASE d.shape = "toml" /\ d.ext \in {"toml", ""} /\ d.nets \in Seq(CNets)
  <2>1. Parsed(d) = q
    BY <1>1, <1>4 DEF Parsed, Json, Native, ParseToml
  <2>2. q \in Seq(PNets) /\ Len(q) = Len(d.nets)
    BY <1>1, <1>4, ImportedList
  <2> QED
    BY ONLY <2>1, <2>2
<1> QED
  BY <1>2, <1>3, <1>4 DEF DocSound

\* The networks in the list, one by one.
LEMMA ListFacts ==
  ASSUME IInv
  PROVE  /\ Len(list) \in Nat /\ DOMAIN list = 1..Len(list)
         /\ \A i \in DOMAIN list : list[i] \in PNets /\ list[i].body \in Profile
<1>1. list \in Seq(PNets)
  BY DEF IInv
<1>2. PICK n \in Nat : n = Len(list) /\ DOMAIN list = 1..n /\ \A i \in 1..n : list[i] \in PNets
  BY <1>1, LenProperties, ElementOfSeq
<1>3. \A n1 \in PNets : n1.body \in Profile
  BY DEF PNets
<1> QED
  BY <1>2, <1>3

\* The default profile.
LEMMA InitInvariant == Init => IInv
<1> SUFFICES ASSUME Init PROVE IInv
  OBVIOUS
<1>1. Authored(DefaultProfile) \in PNets
  BY DefaultFacts, AuthoredFacts
<1>2. list \in Seq(PNets) /\ Len(list) = 1
  BY <1>1 DEF Init
<1>3. MaxNetworks \in Nat \ {0} /\ MaxEdits \in Nat
  BY SharingAssumption
<1> QED
  BY <1>2, <1>3 DEF Init, IInv

\* An edit replaces one network by one its author sees as it is.
LEMMA EditStep ==
  ASSUME IInv, NEW i \in DOMAIN list, NEW p \in Profile, Edit(i, p)
  PROVE  IInv'
<1>1. Authored(p) \in PNets
  BY AuthoredFacts
<1>2. list \in Seq(PNets) /\ i \in 1..Len(list)
  BY ListFacts DEF IInv
<1>3. list' \in Seq(PNets) /\ Len(list') = Len(list)
  <2>1. PICK n \in PNets : n = Authored(p)
    BY <1>1
  <2>2. list' = [list EXCEPT ![i] = n]
    BY <2>1 DEF Edit
  <2> QED
    BY ONLY <1>2, <2>2, ExceptSeq
<1>4. edits' \in 0..MaxEdits
  BY SharingAssumption DEF IInv, Edit
<1>5. doc' = doc
  BY DEF Edit
<1> QED
  BY <1>3, <1>4, <1>5 DEF IInv

\* A network is deleted.
LEMMA DeleteStep == ASSUME IInv, Delete PROVE IInv'
<1>1. PICK i \in DOMAIN list : list' = RemoveAt(list, i)
  BY DEF Delete
<1>2. list \in Seq(PNets) /\ Len(list) \in Nat /\ Len(list) <= MaxNetworks
  BY ListFacts DEF IInv
<1>3. list' \in Seq(PNets) /\ Len(list') = Len(list) - 1
  BY <1>1, <1>2, RemoveFacts
<1>4. Len(list') <= MaxNetworks
  BY <1>2, <1>3, SharingAssumption
<1> QED
  BY <1>3, <1>4 DEF IInv, Delete

\* A step that only writes keeps the invariant if what it writes is sound.
LEMMA WriteStep ==
  ASSUME IInv, UNCHANGED <<list, edits>>, \A d \in doc' : DocSound(d)
  PROVE  IInv'
  BY DEF IInv

\* The name that was typed is made to end in the suffix of the format.
LEMMA SaveAsStep ==
  ASSUME IInv, NEW shape, NEW suffix, NEW nets, SaveAs(shape, suffix, nets),
         DocSound(Document(shape, suffix, nets))
  PROVE  IInv'
<1>1. \A d \in doc' : d = Document(shape, suffix, nets)
  BY DEF SaveAs, EnsureExt
<1> QED
  BY <1>1, WriteStep DEF SaveAs

\* What is written for one network can be read.
LEMMA OneNet ==
  /\ \A n \in PNets : DocSound(Document("profile", "json", <<n>>))
  /\ \A n \in CNets :
       /\ DocSound(Document("config", "json", <<n>>))
       /\ DocSound(Document("config", "", <<n>>))
       /\ DocSound(Document("list", "json", <<n>>))
       /\ DocSound(Document("toml", "toml", <<n>>))
       /\ DocSound(Document("toml", "", <<n>>))
<1>1. /\ \A n \in PNets : <<n>> \in Seq(PNets)
      /\ \A n \in CNets : <<n>> \in Seq(CNets)
  OBVIOUS
<1> QED
  BY <1>1 DEF DocSound, Document, Native

\* The config of a network, and the TOML made of it.
LEMMA WrittenNets ==
  ASSUME NEW n \in PNets
  PROVE  /\ Converted(n, ToNetworkConfig(n.body)) \in CNets
         /\ Dumped(n) \subseteq CNets
<1>1. n.body \in Profile
  BY DEF PNets
<1>2. PICK nc \in NetworkConfig : nc = ToNetworkConfig(n.body)
  BY <1>1, ToType
<1>3. Meaning(nc) = Shown(n.body)
  BY <1>1, <1>2, ToMeans
<1>4. Converted(n, nc) \in CNets
  BY <1>3, ConvertedFacts
<1>5. ASSUME NEW t \in Toml(nc) PROVE Converted(n, t) \in CNets
  <2>1. t \in NetworkConfig /\ Meaning(t) = Meaning(nc)
    BY TomlFacts
  <2> QED
    BY <1>3, <2>1, ConvertedFacts
<1>6. Dumped(n) \subseteq {Converted(n, t) : t \in Toml(nc)}
  BY <1>2 DEF Dumped
<1> QED
  BY <1>2, <1>4, <1>5, <1>6

\* What a document holds is added to the list.
LEMMA ImportStep == ASSUME IInv, Import PROVE IInv'
<1>1. PICK d \in doc : /\ Len(list) + Len(Parsed(d)) <= MaxNetworks
                       /\ list' = list \o Parsed(d)
  BY DEF Import
<1>2. PICK q \in Seq(PNets) : q = Parsed(d)
  BY ParsedFacts DEF IInv
<1>3. list \in Seq(PNets)
  BY DEF IInv
<1>4. list' \in Seq(PNets) /\ Len(list') = Len(list) + Len(q)
  BY <1>1, <1>2, <1>3, ConcatProperties
<1> QED
  BY <1>1, <1>2, <1>4 DEF IInv, Import

\* Every step keeps the invariant.
LEMMA StepInvariant == IInv /\ [Next]_vars => IInv'
<1> SUFFICES ASSUME IInv, [Next]_vars PROVE IInv'
  OBVIOUS
<1> USE ListFacts
<1>1. CASE EditGeneral
  <2>1. PICK i \in DOMAIN list : \E p \in GeneralEdits(list[i].body) : Edit(i, p)
    BY <1>1 DEF EditGeneral
  <2>2. GeneralEdits(list[i].body) \subseteq Profile
    BY GeneralFacts
  <2> QED
    BY <2>1, <2>2, EditStep
<1>2. CASE EditProxies
  <2>1. PICK i \in DOMAIN list : \E p \in ProxyEdits(list[i].body) : Edit(i, p)
    BY <1>2 DEF EditProxies
  <2>2. ProxyEdits(list[i].body) \subseteq Profile
    BY ProxyFacts
  <2> QED
    BY <2>1, <2>2, EditStep
<1>3. CASE EditForwards
  <2>1. PICK i \in DOMAIN list : \E p \in ForwardEdits(list[i].body) : Edit(i, p)
    BY <1>3 DEF EditForwards
  <2>2. ForwardEdits(list[i].body) \subseteq Profile
    BY ForwardFacts
  <2> QED
    BY <2>1, <2>2, EditStep
<1>4. CASE EditOther
  <2>1. PICK i \in DOMAIN list : \E p \in OtherEdits(list[i].body) : Edit(i, p)
    BY <1>4 DEF EditOther
  <2>2. OtherEdits(list[i].body) \subseteq Profile
    BY OtherFacts
  <2> QED
    BY <2>1, <2>2, EditStep
<1>5. CASE Delete
  BY <1>5, DeleteStep
<1>6. CASE ExportPolaris
  <2>1. PICK i \in DOMAIN list : SaveAs("profile", "json", <<list[i]>>)
    BY <1>6 DEF ExportPolaris
  <2> QED
    BY <2>1, OneNet, SaveAsStep
<1>7. CASE ExportJson
  <2>1. PICK i \in DOMAIN list :
          SaveAs("config", "json", <<Converted(list[i], ToNetworkConfig(list[i].body))>>)
    BY <1>7 DEF ExportJson
  <2>2. PICK net \in CNets : net = Converted(list[i], ToNetworkConfig(list[i].body))
    BY <2>1, WrittenNets
  <2>3. SaveAs("config", "json", <<net>>)
    BY <2>1, <2>2
  <2> QED
    BY <2>3, OneNet, SaveAsStep
<1>8. CASE ExportToml
  <2>1. PICK i \in DOMAIN list : \E net \in Dumped(list[i]) : SaveAs("toml", "toml", <<net>>)
    BY <1>8 DEF ExportToml
  <2>2. PICK net \in CNets : SaveAs("toml", "toml", <<net>>)
    BY <2>1, WrittenNets
  <2> QED
    BY <2>2, OneNet, SaveAsStep
<1>9. CASE CopyConfig
  <2>1. PICK i \in DOMAIN list :
          \E net \in Dumped(list[i]) : doc' = {Document("toml", "", <<net>>)}
    BY <1>9 DEF CopyConfig
  <2>2. PICK net \in CNets : doc' = {Document("toml", "", <<net>>)}
    BY <2>1, WrittenNets
  <2> QED
    BY <1>9, <2>2, OneNet, WriteStep DEF CopyConfig
<1>10. CASE Backup
  <2>1. SaveAs("store", "json", list)
    BY <1>10 DEF Backup
  <2>2. DocSound(Document("store", "json", list))
    BY DEF IInv, DocSound, Document, Native
  <2> QED
    BY <2>1, <2>2, SaveAsStep
<1>11. CASE ForeignWrites
  <2>1. PICK n \in CNets : \/ doc' = {Document("config", "", <<n>>)}
                           \/ doc' = {Document("list", "json", <<n>>)}
    BY <1>11, ForeignFacts DEF ForeignWrites
  <2> QED
    BY <1>11, <2>1, OneNet, WriteStep DEF ForeignWrites
<1>12. CASE Import
  BY <1>12, ImportStep
<1>13. CASE UNCHANGED vars
  BY <1>13 DEF vars, IInv
<1> QED
  BY <1>1, <1>2, <1>3, <1>4, <1>5, <1>6, <1>7, <1>8, <1>9, <1>10, <1>11, <1>12, <1>13
    DEF Next

\* The invariant holds: what the editor shows is what was meant, and what
\* travels asks for it, whatever the formats and the way (config.rs,
\* to_network_config, from_network_config and the parsers).
THEOREM Invariance == Spec => []IInv
  BY InitInvariant, StepInvariant, PTL DEF Spec

-----------------------------------------------------------------------------
(* The theorems.                                                           *)

\* The parts of the invariant that TypeOK is about.
LEMMA TypeFollows == IInv => TypeOK
<1> SUFFICES ASSUME IInv PROVE TypeOK
  OBVIOUS
<1>1. ASSUME NEW d \in doc
      PROVE  /\ d.shape \in Json \cup {"toml"}
             /\ \A i \in DOMAIN d.nets :
                  d.nets[i].body \in IF d.shape \in Native THEN Profile ELSE NetworkConfig
  <2>1. DocSound(d)
    BY DEF IInv
  <2>2. d.shape \in Json \cup {"toml"}
    BY <2>1 DEF DocSound, Json, Native
  <2>3. CASE d.shape \in Native
    <3>1. d.nets \in Seq(PNets)
      BY <2>1, <2>3 DEF DocSound, Native
    <3>2. \A i \in DOMAIN d.nets : d.nets[i] \in PNets
      BY <3>1, LenProperties, ElementOfSeq
    <3> QED
      BY <2>2, <2>3, <3>2 DEF PNets
  <2>4. CASE d.shape \notin Native
    <3>1. d.nets \in Seq(CNets)
      BY <2>1, <2>4 DEF DocSound
    <3>2. \A i \in DOMAIN d.nets : d.nets[i] \in CNets
      BY <3>1, LenProperties, ElementOfSeq
    <3> QED
      BY <2>2, <2>4, <3>2 DEF CNets
  <2> QED
    BY <2>3, <2>4
<1> QED
  BY <1>1, ListFacts DEF IInv, TypeOK

\* Ports have 16 bits and prefix lengths 8, whatever was imported (config.rs,
\* from_network_config: as u16, clamp(1, 32) as u8).
THEOREM TypeCorrect == Spec => []TypeOK
  BY Invariance, TypeFollows, PTL

\* A network in the list asks for what the editor shows.
LEMMA SameFollows == IInv => SameNetwork
<1> SUFFICES ASSUME IInv, NEW i \in DOMAIN list, Sound(list[i].meant)
             PROVE  Meaning(ToNetworkConfig(list[i].body)) = list[i].meant
  BY DEF SameNetwork
<1>1. list[i] \in PNets /\ list[i].body \in Profile
  BY ListFacts
<1>2. Shown(list[i].body) = list[i].meant
  BY <1>1 DEF PNets
<1> QED
  BY <1>1, <1>2, ToMeans

\* Over any number of exports and imports, in any mixture of formats, the
\* engine is asked for the network its author meant (config.rs,
\* to_network_config and from_network_config).
THEOREM AlwaysSameNetwork == Spec => []SameNetwork
  BY Invariance, SameFollows, PTL

\* Every document is read whole.
LEMMA ReadsFollows == IInv => ReadsBack
  BY ParsedFacts DEF IInv, ReadsBack

\* A document can be read again, every network of it, under whatever name it
\* was saved (config.rs, parse_json_configs and parse_toml_config; ui.rs,
\* ensure_ext).
THEOREM AlwaysReadsBack == Spec => []ReadsBack
  BY Invariance, ReadsFollows, PTL

\* What came in is in range.
LEMMA RangeFollows == IInv => ImportsInRange
<1> SUFFICES ASSUME IInv, NEW i \in DOMAIN list, NEW f \in DOMAIN BoxRange \ list[i].loose
             PROVE  list[i].body[f] \in BoxRange[f]
  BY DEF ImportsInRange
<1>1. list[i] \in PNets
  BY ListFacts
<1> QED
  BY <1>1 DEF PNets

\* An imported configuration has no number the editor would not take, but for
\* a proxy port the cut to 16 bits leaves nothing of (config.rs,
\* from_network_config: filter(|p| *p > 0), `as u16`, clamp and the defaults).
THEOREM ImportsAlwaysInRange == Spec => []ImportsInRange
  BY Invariance, RangeFollows, PTL

=============================================================================
