---------------------------- MODULE OutboundProofs ----------------------------
(***************************************************************************)
(* What holds of routing and dialing for every target, every rule and      *)
(* every answer of the resolver: the screening of addresses covers the     *)
(* documented ranges in all their spellings, no session reaches one of     *)
(* them, no name is looked up that is not dialed from here, and a plain    *)
(* connect gives up no family untried.                                     *)
(***************************************************************************)
EXTENDS Outbound, SequenceTheorems, FiniteSetTheorems, WellFoundedInduction, TLAPS

-----------------------------------------------------------------------------
(* The screen.                                                             *)

\* The parts of an address; their range does not matter to the screen.
V4 == [1 .. 4 -> Nat]
V6 == [1 .. 8 -> Nat]

\* The family of an address is the number of its parts.
LEMMA FamilyIs ==
  /\ \A ip \in V4 : IsV4(ip)
  /\ \A ip \in V6 : ~IsV4(ip)
<1>1. \A ip \in V4 : Len(ip) = 4
  BY DEF V4
<1>2. \A ip \in V6 : Len(ip) = 8
  BY DEF V6
<1>3. QED
  BY <1>1, <1>2 DEF IsV4

\* An address has four or eight parts.
LEMMA AddressIs == Addresses \subseteq V4 \cup V6
<1>1. Octets \subseteq Nat
  BY DEF Octets
<1>2. Segments \subseteq Nat
  BY SMT DEF Segments
<1>3. QED
  BY <1>1, <1>2 DEF Addresses, V4, V6

\* is_private_ipv4 covers each IPv4 network of its comments (ip_filter.rs:1-18).
LEMMA ScreenV4 ==
  ASSUME NEW ip \in V4, NEW net \in Networks4, InNetwork(ip, net)
  PROVE  IsPrivateV4(ip)
<1>1. ip[1] \in Nat /\ ip[2] \in Nat /\ ip[3] \in Nat /\ ip[4] \in Nat
  BY DEF V4
<1>2. CASE net \in {<<<<127>>, 8>>, <<<<10>>, 8>>, <<<<0>>, 8>>}
  BY <1>2 DEF InNetwork, IsPrivateV4
<1>3. CASE net \in {<<<<192, 168>>, 16>>, <<<<169, 254>>, 16>>}
  BY <1>3 DEF InNetwork, IsPrivateV4
<1>4. CASE net = <<<<172, 16>>, 12>>
  BY <1>1, <1>4 DEF InNetwork, IsPrivateV4, Units
<1>5. CASE net = <<<<100, 64>>, 10>>
  BY <1>1, <1>5 DEF InNetwork, IsPrivateV4, Units
<1>6. CASE net = <<<<192, 0, 0>>, 24>>
  BY <1>6 DEF InNetwork, IsPrivateV4
<1>7. CASE net = <<<<255, 255, 255, 255>>, 32>>
  BY <1>7 DEF InNetwork, IsPrivateV4, V4
<1>8. CASE net = <<<<224>>, 4>>
  BY <1>1, <1>8 DEF InNetwork, IsPrivateV4, Units
<1>9. QED
  BY <1>2, <1>3, <1>4, <1>5, <1>6, <1>7, <1>8 DEF Networks4

\* The octets of an IPv6 address, two per segment.
LEMMA OctetsAre ==
  ASSUME NEW ip \in V6
  PROVE  /\ OctetsOf(ip) \in [1 .. 16 -> Nat]
         /\ \A k \in 1 .. 8 : /\ OctetsOf(ip)[2 * k - 1] = ip[k] \div 256
                              /\ OctetsOf(ip)[2 * k] = ip[k] % 256
<1>1. OctetsOf(ip) = [i \in 1 .. 16 |-> IF i % 2 = 1 THEN ip[(i + 1) \div 2] \div 256
                                                    ELSE ip[i \div 2] % 256]
  BY FamilyIs DEF OctetsOf
<1>2. ASSUME NEW k \in 1 .. 8 PROVE ip[k] \div 256 \in Nat /\ ip[k] % 256 \in Nat
  <2>1. ip[k] \in Nat
    BY DEF V6
  <2>2. QED
    BY <2>1
<1>3. ASSUME NEW i \in 1 .. 16
      PROVE  i % 2 = 1 => (i + 1) \div 2 \in 1 .. 8
  OBVIOUS
<1>4. ASSUME NEW i \in 1 .. 16, i % 2 # 1
      PROVE  i \div 2 \in 1 .. 8
  BY <1>4
<1>5. OctetsOf(ip) \in [1 .. 16 -> Nat]
  BY <1>1, <1>2, <1>3, <1>4
<1>6. ASSUME NEW k \in 1 .. 8
      PROVE  /\ OctetsOf(ip)[2 * k - 1] = ip[k] \div 256
             /\ OctetsOf(ip)[2 * k] = ip[k] % 256
  <2>1. /\ 2 * k - 1 \in 1 .. 16 /\ (2 * k - 1) % 2 = 1 /\ ((2 * k - 1) + 1) \div 2 = k
        /\ 2 * k \in 1 .. 16 /\ (2 * k) % 2 # 1 /\ (2 * k) \div 2 = k
    OBVIOUS
  <2>2. QED
    BY <1>1, <2>1
<1>7. QED
  BY <1>5, <1>6

\* A tuple of numbers is a sequence.
LEMMA TupleIsSeq ==
  ASSUME NEW n \in Nat, NEW q \in [1 .. n -> Nat]
  PROVE  q \in Seq(Nat) /\ Len(q) = n
OBVIOUS

\* The first six segments, compared at once or one by one.
LEMMA SixSegments ==
  ASSUME NEW ip \in V6, NEW q \in [1 .. 6 -> Nat]
  PROVE  SubSeq(ip, 1, 6) = q <=> \A i \in 1 .. 6 : ip[i] = q[i]
<1>1. ip \in Seq(Nat) /\ Len(ip) = 8
  BY TupleIsSeq DEF V6
<1>2. SubSeq(ip, 1, 6) = [i \in 1 .. 6 |-> ip[i]]
  BY <1>1
<1>3. q = [i \in 1 .. 6 |-> q[i]]
  OBVIOUS
<1>4. QED
  BY <1>2, <1>3

\* The prefixes, segment by segment.
LEMMA PrefixesAre ==
  /\ Nat64Prefix \in [1 .. 6 -> Nat] /\ MappedPrefix \in [1 .. 6 -> Nat]
  /\ CompatPrefix \in [1 .. 6 -> Nat]
  /\ Nat64Prefix[1] = 100 /\ Nat64Prefix[2] = 65435 /\ \A i \in 3 .. 6 : Nat64Prefix[i] = 0
  /\ MappedPrefix[6] = 65535 /\ \A i \in 1 .. 5 : MappedPrefix[i] = 0
  /\ \A i \in 1 .. 6 : CompatPrefix[i] = 0
<1>1. /\ Nat64Prefix \in [1 .. 6 -> Nat]
      /\ Nat64Prefix[1] = 100 /\ Nat64Prefix[2] = 65435 /\ \A i \in 3 .. 6 : Nat64Prefix[i] = 0
  BY SMT DEF Nat64Prefix
<1>2. /\ MappedPrefix \in [1 .. 6 -> Nat]
      /\ MappedPrefix[6] = 65535 /\ \A i \in 1 .. 5 : MappedPrefix[i] = 0
  BY SMT DEF MappedPrefix
<1>3. CompatPrefix \in [1 .. 6 -> Nat] /\ \A i \in 1 .. 6 : CompatPrefix[i] = 0
  BY SMT DEF CompatPrefix
<1>4. QED
  BY <1>1, <1>2, <1>3, SMT

\* The prefixes are six segments each.
LEMMA PrefixesHaveSix ==
  /\ Nat64Prefix \in [1 .. 6 -> Nat] /\ MappedPrefix \in [1 .. 6 -> Nat]
  /\ CompatPrefix \in [1 .. 6 -> Nat]
BY PrefixesAre, SMT

\* ip has the segments of a prefix.
Starts(ip, prefix) == \A i \in 1 .. 6 : ip[i] = prefix[i]

\* embedded_ipv4 by segments (ip_filter.rs:42-58).
LEMMA EmbeddedIs ==
  ASSUME NEW ip \in V6
  PROVE  EmbeddedV4(ip) = IF \/ Starts(ip, Nat64Prefix) \/ Starts(ip, MappedPrefix)
                             \/ Starts(ip, CompatPrefix) /\ (ip[7] # 0 \/ ip[8] > 1)
                          THEN LowOctets(ip) ELSE None
<1>1. SubSeq(ip, 1, 6) = Nat64Prefix <=> Starts(ip, Nat64Prefix)
  BY PrefixesHaveSix, SixSegments, Zenon DEF Starts
<1>2. SubSeq(ip, 1, 6) = MappedPrefix <=> Starts(ip, MappedPrefix)
  BY PrefixesHaveSix, SixSegments, Zenon DEF Starts
<1>3. SubSeq(ip, 1, 6) = CompatPrefix <=> Starts(ip, CompatPrefix)
  BY PrefixesHaveSix, SixSegments, Zenon DEF Starts
<1>4. QED
  BY <1>1, <1>2, <1>3 DEF EmbeddedV4

\* The unspecified and the loopback address are private.
LEMMA SmallestArePrivate ==
  ASSUME NEW ip \in V6, \A i \in 1 .. 7 : ip[i] = 0, ip[8] \in {0, 1}
  PROVE  IsPrivateV6(ip)
<1>1. ip[1] = 0 /\ ip[6] = 0 /\ ip[7] = 0 /\ ~(ip[8] > 1)
  BY SMT
<1>2. ~Starts(ip, Nat64Prefix) /\ ~Starts(ip, MappedPrefix)
  BY <1>1, PrefixesAre, SMT DEF Starts
<1>3. EmbeddedV4(ip) = None
  BY <1>1, <1>2, EmbeddedIs, Zenon
<1>4. ip[8] = 0 => ip = Unspecified
  BY DEF V6, Unspecified
<1>5. ip[8] = 1 => ip = Loopback
  BY DEF V6, Loopback
<1>6. QED
  BY <1>3, <1>4, <1>5 DEF IsPrivateV6

\* is_private_ipv6 covers each IPv6 network of its comments (ip_filter.rs:60-70).
LEMMA ScreenV6 ==
  ASSUME NEW ip \in V6, NEW net \in Networks6, InNetwork(OctetsOf(ip), net)
  PROVE  IsPrivateV6(ip)
<1> DEFINE o == OctetsOf(ip)
<1>1. \A k \in 1 .. 8 : o[2 * k - 1] = ip[k] \div 256 /\ o[2 * k] = ip[k] % 256 /\ ip[k] \in Nat
  BY OctetsAre DEF V6
<1>2. o[1] = ip[1] \div 256 /\ o[2] = ip[1] % 256 /\ ip[1] \in Nat
  BY <1>1
<1>3. InNetwork(o, net)
  OBVIOUS
<1> HIDE DEF o
<1>4. CASE \/ net = <<<<0, 0, 0, 0, 0, 0, 0, 0, 0, 0, 0, 0, 0, 0, 0, 0>>, 128>>
           \/ net = <<<<0, 0, 0, 0, 0, 0, 0, 0, 0, 0, 0, 0, 0, 0, 0, 1>>, 128>>
  <2>1. \A i \in 1 .. 16 : o[i] = net[1][i]
    BY <1>3, <1>4, SMT DEF InNetwork
  <2>2. (\A i \in 1 .. 15 : o[i] = 0) /\ o[16] \in {0, 1}
    BY <1>4, <2>1, SMT
  <2>3. ASSUME NEW k \in 1 .. 7 PROVE ip[k] = 0
    <3>1. 2 * k - 1 \in 1 .. 15 /\ 2 * k \in 1 .. 15
      OBVIOUS
    <3>2. ip[k] \div 256 = 0 /\ ip[k] % 256 = 0 /\ ip[k] \in Nat
      BY <1>1, <2>2, <3>1
    <3>3. QED
      BY <3>2
  <2>4. ip[8] \in {0, 1}
    <3>1. ip[8] \div 256 = 0 /\ ip[8] % 256 \in {0, 1} /\ ip[8] \in Nat
      BY <1>1, <2>2
    <3>2. QED
      BY <3>1
  <2>5. QED
    BY <2>3, <2>4, SmallestArePrivate
<1>5. CASE net \in {<<<<255>>, 8>>, <<<<252>>, 7>>, <<<<254, 128>>, 10>>}
  <2>1. ip[1] \div 256 = 255 \/ ip[1] \div 512 = 126 \/ ip[1] \div 64 = 1018
    <3>1. CASE net = <<<<255>>, 8>>
      BY <1>2, <1>3, <3>1, SMT DEF InNetwork
    <3>2. CASE net = <<<<252>>, 7>>
      <4>1. o[1] \div 2 = 126
        BY <1>3, <3>2, SMT DEF InNetwork, Units
      <4>2. QED
        BY <1>2, <4>1, SMT
    <3>3. CASE net = <<<<254, 128>>, 10>>
      <4>1. o[1] = 254 /\ o[2] \div 64 = 2
        BY <1>3, <3>3, SMT DEF InNetwork, Units
      <4>2. QED
        BY <1>2, <4>1, SMT
    <3>4. QED
      BY <1>5, <3>1, <3>2, <3>3
  <2>2. ip[1] # 0 /\ ip[1] # 100
    BY <1>2, <2>1, SMT
  <2>3. ~Starts(ip, Nat64Prefix) /\ ~Starts(ip, MappedPrefix) /\ ~Starts(ip, CompatPrefix)
    BY <2>2, PrefixesAre, SMT DEF Starts
  <2>4. EmbeddedV4(ip) = None
    BY <2>3, EmbeddedIs, Zenon
  <2>5. QED
    BY <2>1, <2>4 DEF IsPrivateV6
<1>6. QED
  BY <1>4, <1>5 DEF Networks6

\* An IPv4 network in IPv6 spelling is seen through (ip_filter.rs:32-58).
LEMMA ScreenEmbedded ==
  ASSUME NEW ip \in V6, SubSeq(OctetsOf(ip), 1, 12) \in V4Carriers,
         NEW net \in Networks4, InNetwork(SubSeq(OctetsOf(ip), 13, 16), net)
  PROVE  IsPrivateV6(ip)
<1> DEFINE o == OctetsOf(ip)
<1>1. /\ o \in [1 .. 16 -> Nat]
      /\ \A k \in 1 .. 8 : o[2 * k - 1] = ip[k] \div 256 /\ o[2 * k] = ip[k] % 256 /\ ip[k] \in Nat
  BY OctetsAre DEF V6
<1>2. SubSeq(o, 1, 12) \in V4Carriers /\ InNetwork(SubSeq(o, 13, 16), net)
  OBVIOUS
<1> HIDE DEF o
<1>3. o \in Seq(Nat) /\ Len(o) = 16
  BY <1>1, TupleIsSeq
<1>4. /\ SubSeq(o, 1, 12) = [i \in 1 .. 12 |-> o[i]]
      /\ SubSeq(o, 13, 16) = [i \in 1 .. 4 |-> o[12 + i]]
  BY <1>3
<1>5. LowOctets(ip) = SubSeq(o, 13, 16) /\ LowOctets(ip) \in V4
  <2>1. o[13] = ip[7] \div 256 /\ o[14] = ip[7] % 256
        /\ o[15] = ip[8] \div 256 /\ o[16] = ip[8] % 256
    BY <1>1
  <2>2. QED
    BY <1>1, <1>4, <2>1 DEF LowOctets, V4
<1>6. IsPrivateV4(LowOctets(ip))
  BY <1>2, <1>5, ScreenV4
<1>7. \/ Starts(ip, Nat64Prefix) \/ Starts(ip, MappedPrefix) \/ Starts(ip, CompatPrefix)
  <2> DEFINE q == SubSeq(o, 1, 12)
  <2>1. (\A i \in 1 .. 12 : o[i] = q[i]) /\ q \in V4Carriers
    BY <1>2, <1>4
  <2> HIDE DEF q
  <2>2. \A k \in 1 .. 6 : ip[k] = 256 * o[2 * k - 1] + o[2 * k]
    <3>1. ASSUME NEW k \in 1 .. 6 PROVE ip[k] = 256 * o[2 * k - 1] + o[2 * k]
      <4>1. o[2 * k - 1] = ip[k] \div 256 /\ o[2 * k] = ip[k] % 256 /\ ip[k] \in Nat
        BY <1>1
      <4>2. QED
        BY <4>1
    <3>2. QED
      BY <3>1
  <2>3. /\ ip[1] = 256 * o[1] + o[2] /\ ip[2] = 256 * o[3] + o[4] /\ ip[3] = 256 * o[5] + o[6]
        /\ ip[4] = 256 * o[7] + o[8] /\ ip[5] = 256 * o[9] + o[10] /\ ip[6] = 256 * o[11] + o[12]
    BY <2>2
  <2>4. CASE q = <<0, 0, 0, 0, 0, 0, 0, 0, 0, 0, 0, 0>>
    <3>1. \A i \in 1 .. 12 : o[i] = 0
      <4>1. \A i \in 1 .. 12 : q[i] = 0
        BY <2>4, SMT
      <4>2. QED
        BY <2>1, <4>1, SMT
    <3>2. \A i \in 1 .. 6 : ip[i] = 0
      BY <2>3, <3>1, SMT
    <3>3. QED
      BY <3>2, PrefixesAre, SMT DEF Starts
  <2>5. CASE q = <<0, 0, 0, 0, 0, 0, 0, 0, 0, 0, 255, 255>>
    <3>1. (\A i \in 1 .. 10 : o[i] = 0) /\ o[11] = 255 /\ o[12] = 255
      <4>1. (\A i \in 1 .. 10 : q[i] = 0) /\ q[11] = 255 /\ q[12] = 255
        BY <2>5, SMT
      <4>2. QED
        BY <2>1, <4>1, SMT
    <3>2. (\A i \in 1 .. 5 : ip[i] = 0) /\ ip[6] = 65535
      BY <2>3, <3>1, SMT
    <3>3. QED
      BY <3>2, PrefixesAre, SMT DEF Starts
  <2>6. CASE q = <<0, 100, 255, 155, 0, 0, 0, 0, 0, 0, 0, 0>>
    <3>1. o[1] = 0 /\ o[2] = 100 /\ o[3] = 255 /\ o[4] = 155 /\ \A i \in 5 .. 12 : o[i] = 0
      <4>1. q[1] = 0 /\ q[2] = 100 /\ q[3] = 255 /\ q[4] = 155 /\ \A i \in 5 .. 12 : q[i] = 0
        BY <2>6, SMT
      <4>2. QED
        BY <2>1, <4>1, SMT
    <3>2. ip[1] = 100 /\ ip[2] = 65435 /\ \A i \in 3 .. 6 : ip[i] = 0
      BY <2>3, <3>1, SMT
    <3>3. QED
      BY <3>2, PrefixesAre, SMT DEF Starts
  <2>7. QED
    BY <2>1, <2>4, <2>5, <2>6 DEF V4Carriers
<1>8. CASE \/ Starts(ip, Nat64Prefix) \/ Starts(ip, MappedPrefix)
           \/ Starts(ip, CompatPrefix) /\ (ip[7] # 0 \/ ip[8] > 1)
  <2>1. EmbeddedV4(ip) = LowOctets(ip)
    BY <1>8, EmbeddedIs, Zenon
  <2>2. LowOctets(ip) # None
    BY DEF LowOctets, None
  <2>3. QED
    BY <1>6, <2>1, <2>2 DEF IsPrivateV6
<1>9. CASE Starts(ip, CompatPrefix) /\ ip[7] = 0 /\ ~(ip[8] > 1)
  <2>1. \A i \in 1 .. 6 : ip[i] = 0
    BY <1>9, PrefixesAre, SMT DEF Starts
  <2>2. ip[8] \in {0, 1}
    BY <1>9 DEF V6
  <2>3. \A i \in 1 .. 7 : ip[i] = 0
    BY <1>9, <2>1, SMT
  <2>4. QED
    BY <2>2, <2>3, SmallestArePrivate
<1>10. QED
  BY <1>7, <1>8, <1>9

\* Every address of the listed ranges, in any spelling, is screened.
LEMMA ScreenIsComplete ==
  ASSUME NEW ip \in Addresses, Forbidden(ip)
  PROVE  IsPrivate(ip)
<1>1. CASE ip \in V4
  <2>1. IsV4(ip)
    BY <1>1, FamilyIs
  <2>2. PICK net \in Networks4 : InNetwork(ip, net)
    BY <2>1 DEF Forbidden, OctetsOf
  <2>3. QED
    BY <1>1, <2>1, <2>2, ScreenV4 DEF IsPrivate
<1>2. CASE ip \in V6
  <2>1. ~IsV4(ip)
    BY <1>2, FamilyIs
  <2>2. CASE \E net \in Networks6 : InNetwork(OctetsOf(ip), net)
    BY <1>2, <2>1, <2>2, ScreenV6 DEF IsPrivate
  <2>3. CASE /\ SubSeq(OctetsOf(ip), 1, 12) \in V4Carriers
             /\ \E net \in Networks4 : InNetwork(SubSeq(OctetsOf(ip), 13, 16), net)
    BY <1>2, <2>1, <2>3, ScreenEmbedded DEF IsPrivate
  <2>4. QED
    BY <2>1, <2>2, <2>3 DEF Forbidden
<1>3. QED
  BY <1>1, <1>2, AddressIs

-----------------------------------------------------------------------------
(* Names for this host.                                                    *)

\* The last position whose element is not b.
LEMMA LastSolid ==
  ASSUME NEW S, NEW l \in Seq(S), NEW b, NEW n \in 1 .. Len(l), l[n] # b,
         \A i \in 1 .. Len(l) : i > n => l[i] = b
  PROVE  LET solid == {i \in 1 .. Len(l) : l[i] # b}
         IN  n \in solid /\ (CHOOSE i \in solid : \A j \in solid : j <= i) = n
<1> DEFINE solid == {i \in 1 .. Len(l) : l[i] # b}
<1>1. n \in solid /\ \A j \in solid : j <= n
  OBVIOUS
<1>2. \A i \in solid : (\A j \in solid : j <= i) => i = n
  BY <1>1
<1> HIDE DEF solid
<1>3. (CHOOSE i \in solid : \A j \in solid : j <= i) = n
  BY <1>1, <1>2, Zenon
<1>4. QED
  BY <1>1, <1>3, Zenon DEF solid

\* Trimming cuts behind the last label that is not empty.
LEMMA TrimmedIs ==
  ASSUME NEW S, NEW l \in Seq(S), NEW n \in 1 .. Len(l), l[n] # "",
         \A i \in 1 .. Len(l) : i > n => l[i] = ""
  PROVE  Trimmed(l) = SubSeq(l, 1, n)
<1> DEFINE solid == {i \in 1 .. Len(l) : l[i] # ""}
<1>1. n \in solid /\ (CHOOSE i \in solid : \A j \in solid : j <= i) = n
  BY LastSolid, Zenon
<1>2. solid # {}
  BY <1>1, Zenon
<1>3. QED
  BY <1>1, <1>2, Zenon DEF Trimmed

\* is_numeric_host and is_localhost_name know every name for this host
\* (acl.rs:758-786).
LEMMA NamesAreKnown ==
  ASSUME NEW t, t.labels \in Seq(Labels), MeansThisHost(t.labels)
  PROVE  IsNumericHost(t) \/ IsLocalhostName(t)
<1> DEFINE l == t.labels
           h == Trimmed(l)
<1>1. PICK n \in 1 .. Len(l) :
        /\ \A i \in 1 .. Len(l) : i > n => l[i] = ""
        /\ l[n] \in {"digits", "hex", "localhost"} \/ SubSeq(l, 1, n) \in HostsFile
  BY Zenon DEF MeansThisHost
<1> DEFINE q == SubSeq(l, 1, n)
<1>2. q \in Seq(Labels) /\ Len(q) = n /\ q[n] = l[n] /\ n \in Nat /\ n >= 1 /\ q # <<>>
  <2>1. l \in Seq(Labels) /\ n \in Nat /\ n >= 1 /\ n <= Len(l)
    OBVIOUS
  <2>2. ASSUME NEW S, NEW x \in Seq(S), NEW m \in 1 .. Len(x)
        PROVE  SubSeq(x, 1, m) \in Seq(S) /\ Len(SubSeq(x, 1, m)) = m /\ SubSeq(x, 1, m)[m] = x[m]
    OBVIOUS
  <2>3. q \in Seq(Labels) /\ Len(q) = n /\ q[n] = l[n]
    BY <2>1, <2>2, Zenon
  <2>4. QED
    BY <2>1, <2>3
<1> HIDE DEF q
<1>3. q \in HostsFile => q[n] # ""
  <2>1. ASSUME NEW x, q = <<x>>, x # "" PROVE q[n] # ""
    <3>1. q[n] = x
      BY <1>2, <2>1
    <3>2. QED
      BY <2>1, <3>1, Zenon
  <2>2. ASSUME NEW x, NEW y, q = <<x, y>>, y # "" PROVE q[n] # ""
    <3>1. q[n] = y
      BY <1>2, <2>2
    <3>2. QED
      BY <2>2, <3>1, Zenon
  <2>3. QED
    BY <2>1, <2>2, Zenon DEF HostsFile
<1>4. l[n] # ""
  BY <1>1, <1>2, <1>3 DEF q
<1>5. h = q
  BY <1>1, <1>4, TrimmedIs DEF q
<1>6. Last(h) = l[n] /\ h # <<>> /\ Len(h) = n
  BY <1>2, <1>5 DEF Last
<1>7. CASE l[n] \in {"digits", "hex"}
  BY <1>6, <1>7 DEF IsNumericHost
<1>8. CASE l[n] = "localhost"
  <2>1. CASE n = 1
    <3>1. q = <<"localhost">>
      BY <1>2, <1>8, <2>1
    <3>2. QED
      BY <1>5, <3>1, Zenon DEF IsLocalhostName
  <2>2. CASE n # 1
    <3>1. Len(h) > 1
      BY <1>2, <1>6, <2>2
    <3>2. QED
      BY <1>6, <1>8, <3>1, Zenon DEF IsLocalhostName
  <2>3. QED
    BY <2>1, <2>2
<1>9. CASE q \in HostsFile
  BY <1>5, <1>9, Zenon DEF IsLocalhostName, HostsFile
<1>10. QED
  BY <1>1, <1>7, <1>8, <1>9 DEF q

-----------------------------------------------------------------------------
(* The operators on answers and candidates.                                *)

\* A set of positions has a first one.
LEMMA FirstPosition ==
  ASSUME NEW T \in SUBSET Nat, T # {}
  PROVE  \E x \in T : \A y \in T : x <= y
<1>1. PICK x \in T : \A y \in T : ~(<<y, x>> \in OpToRel(<, Nat))
  BY WFMin, NatLessThanWellFounded, Zenon
<1>2. \A y \in T : ~(y < x)
  BY <1>1, Zenon DEF OpToRel
<1>3. QED
  BY <1>2

\* An address is of one family or the other.
LEMMA IsV4Decides == \A ip : IsV4(ip) \in BOOLEAN
BY DEF IsV4

\* The first address of a family, if the answer has one.
LEMMA FirstOfIs ==
  ASSUME NEW ips \in Seq(Addresses), NEW v4 \in BOOLEAN
  PROVE  \/ /\ FirstOf(ips, v4) = <<>>
            /\ \A i \in 1 .. Len(ips) : IsV4(ips[i]) # v4
         \/ \E k \in 1 .. Len(ips) : /\ FirstOf(ips, v4) = <<ips[k]>> /\ IsV4(ips[k]) = v4
                                     /\ \A j \in 1 .. Len(ips) : IsV4(ips[j]) = v4 => k <= j
<1> DEFINE F == {i \in DOMAIN ips : IsV4(ips[i]) = v4}
           k == CHOOSE i \in F : \A j \in F : i <= j
<1>1. FirstOf(ips, v4) = IF F = {} THEN <<>> ELSE <<ips[k]>>
  BY DEF FirstOf
<1>2. DOMAIN ips = 1 .. Len(ips)
  OBVIOUS
<1>3. CASE F = {}
  BY <1>1, <1>2, <1>3
<1>4. CASE F # {}
  <2>1. F \in SUBSET Nat
    BY <1>2
  <2>2. \E x \in F : \A y \in F : x <= y
    BY <1>4, <2>1, FirstPosition
  <2>3. k \in F /\ \A j \in F : k <= j
    BY <2>2
  <2>4. FirstOf(ips, v4) = <<ips[k]>>
    BY <1>1, <1>4
  <2> HIDE DEF k
  <2>5. QED
    BY <1>2, <2>3, <2>4
<1>5. QED
  BY <1>3, <1>4

\* ResolvedAddrs keeps the preferred address first and one of each family, and
\* nothing that the resolver did not answer (dns.rs:106-156).
LEMMA CollectIs ==
  ASSUME NEW ips \in Seq(Addresses), ips # <<>>
  PROVE  /\ Collect(ips) \in Seq(Addresses) /\ Len(Collect(ips)) \in 1 .. 2
         /\ Collect(ips)[1] = ips[1]
         /\ \A i \in 1 .. Len(Collect(ips)) : \E j \in 1 .. Len(ips) : Collect(ips)[i] = ips[j]
         /\ \A j \in 1 .. Len(ips) : \E i \in 1 .. Len(Collect(ips)) :
              IsV4(Collect(ips)[i]) = IsV4(ips[j])
<1> DEFINE v == IsV4(ips[1])
           a == FirstOf(ips, v)
           b == FirstOf(ips, ~v)
<1>1. 1 \in 1 .. Len(ips) /\ \A j \in 1 .. Len(ips) : ips[j] \in Addresses
  OBVIOUS
<1>2. v \in BOOLEAN /\ (~v) \in BOOLEAN /\ \A j \in 1 .. Len(ips) : IsV4(ips[j]) \in BOOLEAN
  <2>1. v \in BOOLEAN /\ \A j \in 1 .. Len(ips) : IsV4(ips[j]) \in BOOLEAN
    BY IsV4Decides, Zenon
  <2>2. (~v) \in BOOLEAN
    OBVIOUS
  <2>3. QED
    BY <2>1, <2>2, Zenon
<1>3. a = <<ips[1]>>
  <2>1. PICK k \in 1 .. Len(ips) : /\ a = <<ips[k]>>
                                   /\ \A j \in 1 .. Len(ips) : IsV4(ips[j]) = v => k <= j
    BY <1>1, <1>2, FirstOfIs
  <2>2. k = 1
    BY <1>1, <2>1
  <2>3. QED
    BY <2>1, <2>2
<1>4. Collect(ips) = a \o b
  BY DEF Collect
<1> HIDE DEF a, b
<1>5. CASE b = <<>> /\ \A i \in 1 .. Len(ips) : IsV4(ips[i]) # ~v
  <2>1. Collect(ips) = <<ips[1]>>
    BY <1>1, <1>3, <1>4, <1>5
  <2>2. \A j \in 1 .. Len(ips) : IsV4(ips[j]) = IsV4(ips[1])
    BY <1>2, <1>5
  <2>3. QED
    BY <1>1, <2>1, <2>2
<1>6. ASSUME NEW k \in 1 .. Len(ips), b = <<ips[k]>>, IsV4(ips[k]) = ~v
      PROVE  /\ Collect(ips) \in Seq(Addresses) /\ Len(Collect(ips)) \in 1 .. 2
             /\ Collect(ips)[1] = ips[1]
             /\ \A i \in 1 .. Len(Collect(ips)) : \E j \in 1 .. Len(ips) : Collect(ips)[i] = ips[j]
             /\ \A j \in 1 .. Len(ips) : \E i \in 1 .. Len(Collect(ips)) :
                  IsV4(Collect(ips)[i]) = IsV4(ips[j])
  <2> DEFINE c == Collect(ips)
  <2>1. \A j \in 1 .. Len(ips) : IsV4(ips[j]) = IsV4(ips[1]) \/ IsV4(ips[j]) = IsV4(ips[k])
    BY <1>2, <1>6, Zenon
  <2>2. a \in Seq(Addresses) /\ Len(a) = 1 /\ b \in Seq(Addresses) /\ Len(b) = 1
        /\ a[1] = ips[1] /\ b[1] = ips[k]
    BY <1>1, <1>3, <1>6
  <2>3. c = a \o b
    BY <1>4
  <2> HIDE DEF c
  <2>4. c \in Seq(Addresses) /\ Len(c) = 2 /\ c[1] = ips[1] /\ c[2] = ips[k]
    <3>1. c \in Seq(Addresses) /\ Len(c) = Len(a) + Len(b)
      BY <2>2, <2>3, ConcatProperties, Zenon
    <3>2. \A i \in 1 .. Len(a) + Len(b) : c[i] = IF i <= Len(a) THEN a[i] ELSE b[i - Len(a)]
      BY <2>2, <2>3, ConcatProperties, Zenon
    <3>3. QED
      BY <2>2, <3>1, <3>2
  <2>5. \A i \in 1 .. Len(c) : \E j \in 1 .. Len(ips) : c[i] = ips[j]
    BY <1>1, <2>4
  <2>6. \A j \in 1 .. Len(ips) : \E i \in 1 .. Len(c) : IsV4(c[i]) = IsV4(ips[j])
    BY <2>1, <2>4
  <2>7. QED
    BY <2>4, <2>5, <2>6 DEF c
<1>7. \/ b = <<>> /\ \A i \in 1 .. Len(ips) : IsV4(ips[i]) # ~v
      \/ \E k \in 1 .. Len(ips) : b = <<ips[k]>> /\ IsV4(ips[k]) = ~v
  BY <1>2, FirstOfIs, Zenon DEF b
<1>8. QED
  BY <1>5, <1>6, <1>7, Zenon

\* What is left when one address has been tried: the others.
LEMMA RemoveAtIs ==
  ASSUME NEW S, NEW s \in Seq(S), NEW i \in 1 .. Len(s)
  PROVE  /\ RemoveAt(s, i) \in Seq(S) /\ Len(RemoveAt(s, i)) = Len(s) - 1
         /\ \A k \in 1 .. Len(s) - 1 : RemoveAt(s, i)[k] = IF k < i THEN s[k] ELSE s[k + 1]
<1> DEFINE a == SubSeq(s, 1, i - 1)
           b == SubSeq(s, i + 1, Len(s))
<1>1. a \in Seq(S) /\ Len(a) = i - 1 /\ \A k \in 1 .. i - 1 : a[k] = s[k]
  OBVIOUS
<1>2. b \in Seq(S) /\ Len(b) = Len(s) - i /\ \A k \in 1 .. Len(s) - i : b[k] = s[i + k]
  OBVIOUS
<1>3. RemoveAt(s, i) = a \o b
  BY DEF RemoveAt
<1> HIDE DEF a, b
<1>4. a \o b \in Seq(S) /\ Len(a \o b) = Len(s) - 1
  <2>1. a \o b \in Seq(S) /\ Len(a \o b) = Len(a) + Len(b)
    BY <1>1, <1>2, ConcatProperties
  <2>2. QED
    BY <1>1, <1>2, <2>1
<1>5. ASSUME NEW k \in 1 .. Len(s) - 1
      PROVE  (a \o b)[k] = IF k < i THEN s[k] ELSE s[k + 1]
  <2>1. CASE k < i
    BY <1>1, <1>2, <2>1
  <2>2. CASE ~(k < i)
    <3>1. (a \o b)[k] = b[k - Len(a)]
      BY <1>1, <1>2, <2>2
    <3>2. k - Len(a) \in 1 .. Len(s) - i /\ i + (k - Len(a)) = k + 1
      BY <1>1, <2>2
    <3>3. QED
      BY <1>2, <2>2, <3>1, <3>2
  <2>3. QED
    BY <2>1, <2>2
<1>6. QED
  BY <1>3, <1>4, <1>5

-----------------------------------------------------------------------------
(* The invariant of a session.                                             *)

Typed ==
  /\ case \in Cases /\ stage \in Stages /\ kicked \in BOOLEAN
  /\ result \in {"none", "reject", "connected", "failed", "timeout"}
  /\ resolved \in Seq(Addresses) /\ Len(resolved) <= 2
  /\ candidates \in Seq(Addresses) /\ Len(candidates) <= 2
  /\ tried \in Seq(Addresses) /\ Len(tried) <= 2
  /\ answer \in Seq(Addresses)
  /\ asked = {} \/ \E t : asked = {t}
  /\ lookups \in 0 .. 2

\* A plain connect: no outbound handler, no UDP.
PlainConnect == handler = NoHandler /\ ~case.udp

\* Before the addresses are known nothing is dialed or asked for, and what is
\* looked up after the screening is a literal that passed it, or not screened.
Early ==
  /\ stage \in {"load", "route", "lookup", "relookup"} =>
       candidates = <<>> /\ tried = <<>> /\ answer = None /\ asked = {}
  /\ stage \in {"load", "route"} => lookups = 0
  /\ stage = "lookup" => lookups = 1
  /\ stage = "relookup" /\ case.block => ~IsName /\ ~IsPrivate(LiteralIp(target))

\* While addresses are tried there is no result, and those tried and those left
\* are no more than the two families.
Trying ==
  /\ stage \in {"load", "route", "lookup", "relookup", "connect", "dial"} => result = "none"
  /\ stage \in {"connect", "dial"} => Len(tried) + Len(candidates) <= 2
  /\ stage = "dial" /\ asked = {} => handler # NoHandler \/ case.udp
  /\ asked # {} => answer = None

\* What may be dialed under block_private_ip.
Permitted(ip) == ip = Hijack \/ ~IsPrivate(ip)
Screened ==
  case.block => /\ \A i \in 1 .. Len(candidates) : Permitted(candidates[i])
                /\ \A i \in 1 .. Len(tried) : Permitted(tried[i])
AskedScreened ==
  case.block => \A t \in asked :
    \/ t.ip # None /\ (Forbidden(t.ip) => t.ip = Hijack)
    \/ t.ip = None /\ ~MeansThisHost(t.labels)

\* A family that the resolver answered is tried or still to be tried.
Offers(ips, f) == \E i \in 1 .. Len(ips) : IsV4(ips[i]) = f
Covered ==
  \A f \in BOOLEAN : Offers(answer, f) => Offers(candidates, f) \/ Offers(tried, f)

\* The preferred address is the first to be dialed.
Preferred ==
  /\ stage = "connect" /\ tried = <<>> => candidates # <<>> /\ candidates[1] = answer[1]
  /\ PlainConnect /\ tried # <<>> => tried[1] = answer[1]

Exhausted ==
  PlainConnect /\ result = "failed" /\ answer # None =>
    \A f \in BOOLEAN : Offers(answer, f) => Offers(tried, f)

SessionInv ==
  /\ Typed /\ Early /\ Trying /\ Screened /\ AskedScreened /\ Covered /\ Preferred
  /\ Exhausted /\ NoDnsLeak

\* What a session is about.
LEMMA CaseIs ==
  ASSUME case \in Cases
  PROVE  /\ case.block \in BOOLEAN /\ case.udp \in BOOLEAN
         /\ target.ip \in Addresses \cup {None}
         /\ target.ip = None => target.kind = "domain" /\ target.labels \in Seq(Labels)
         /\ Hijack \in Addresses \cup {None}
<1>1. case \in [target : Targets, block : BOOLEAN, udp : BOOLEAN, acl : BOOLEAN,
                entries : Seq(Entries), rule : STRING, hijack : Addresses \cup {None}]
  BY CasesAssumption
<1>2. case.block \in BOOLEAN /\ case.udp \in BOOLEAN /\ case.target \in Targets
      /\ case.hijack \in Addresses \cup {None}
  BY <1>1
<1>3. None \notin Addresses
  <2>1. Len(None) = 0
    BY DEF None
  <2>2. \A ip \in Addresses : Len(ip) \in {4, 8}
    BY AddressIs DEF V4, V6
  <2>3. None \in Addresses => 0 \in {4, 8}
    BY <2>1, <2>2, Zenon
  <2>4. QED
    BY <2>3
<1>4. ASSUME NEW t \in Targets
      PROVE  /\ t.ip \in Addresses \cup {None}
             /\ t.ip = None => t.kind = "domain" /\ t.labels \in Seq(Labels)
  BY <1>3 DEF Targets
<1>5. Hijack \in Addresses \cup {None}
  BY <1>2 DEF Hijack
<1>6. QED
  BY <1>2, <1>4, <1>5 DEF target

\* What the resolver answers is a sequence of addresses, not empty.
LEMMA ReplyIs ==
  ASSUME case \in Cases, NEW ips, Reply(ips)
  PROVE  ips \in Seq(Addresses) /\ ips # <<>>
<1>1. CASE IsName
  BY <1>1, AnswersAssumption DEF Reply
<1>2. CASE ~IsName
  <2>1. LiteralIp(target) \in Addresses
    BY <1>2, CaseIs DEF IsName, LiteralIp
  <2>2. ips = <<LiteralIp(target)>>
    BY <1>2 DEF Reply
  <2>3. \A ip \in Addresses : <<ip>> \in Seq(Addresses) /\ <<ip>> # <<>>
    OBVIOUS
  <2>4. QED
    BY <2>1, <2>2, <2>3, Zenon
<1>3. QED
  BY <1>1, <1>2

-----------------------------------------------------------------------------
(* The kinds of steps a session takes.                                     *)

\* c are addresses that may be dialed for the answer a.
Choice(c, a) ==
  /\ c \in Seq(Addresses) /\ Len(c) \in 1 .. 2 /\ a \in Seq(Addresses) /\ c[1] = a[1]
  /\ \A f \in BOOLEAN : Offers(a, f) => Offers(c, f)
  /\ case.block => \A i \in 1 .. Len(c) : Permitted(c[i])

\* r is s without its i-th element.
Without(s, i, r) ==
  /\ r \in Seq(Addresses) /\ Len(r) = Len(s) - 1
  /\ \A k \in 1 .. Len(r) : \E j \in 1 .. Len(s) : r[k] = s[j]
  /\ \A j \in 1 .. Len(s) : j # i => \E k \in 1 .. Len(r) : r[k] = s[j]

Loads ==
  /\ stage = "load" /\ stage' \in {"route", "down"}
  /\ UNCHANGED <<case, handler, resolved, candidates, kicked, result, answer, tried,
                 asked, lookups>>
Opens(c, a) ==
  /\ stage \in {"route", "lookup", "relookup"} /\ Choice(c, a)
  /\ candidates' = c /\ answer' = a /\ stage' = DialStage(handler')
  /\ resolved' \in Seq(Addresses) /\ Len(resolved') <= 2
  /\ UNCHANGED <<case, outbounds, kicked, tried, asked, result, lookups>>
AsksProxy(t) ==
  /\ stage = "route" /\ stage' = "dial" /\ asked' = {t}
  /\ t = IF Hijack # None THEN [kind |-> "ip", ip |-> Hijack] ELSE target
  /\ ~ProxyRefuses
  /\ handler' # NoHandler
  /\ UNCHANGED <<case, outbounds, kicked, tried, candidates, answer, resolved, result, lookups>>
LooksUp ==
  /\ stage = "route" /\ stage' \in {"lookup", "relookup"} /\ lookups' = lookups + 1
  /\ Matched.kind \in {"direct", "none"} /\ Hijack = None
  /\ stage' = "relookup" /\ case.block => ~IsName /\ ~IsPrivate(LiteralIp(target))
  /\ UNCHANGED <<case, outbounds, kicked, tried, candidates, answer, resolved, result, asked>>
LooksAgain ==
  /\ stage = "lookup" /\ stage' = "relookup" /\ lookups' = lookups + 1 /\ ~case.block
  /\ UNCHANGED <<case, outbounds, kicked, tried, candidates, answer, resolved, result, asked>>
Tries(i) ==
  /\ stage \in {"connect", "dial"} /\ i \in 1 .. Len(candidates)
  /\ stage = "connect" => i = 1
  /\ stage = "dial" => asked = {}
  /\ tried' = Append(tried, candidates[i])
  /\ \/ /\ candidates' = candidates /\ result' = "connected"
        /\ stage' \in {"done", "payload", "relay"}
     \/ Without(candidates, i, candidates') /\ UNCHANGED <<stage, result>>
  /\ UNCHANGED <<case, outbounds, handler, resolved, kicked, answer, asked, lookups>>
Ends ==
  /\ stage \in {"route", "lookup", "relookup", "connect", "dial"}
  /\ stage' \in {"closing", "done", "payload", "relay"}
  /\ result' \in {"reject", "connected", "failed", "timeout"}
  /\ result' = "failed" /\ PlainConnect =>
       answer = None \/ \A f \in BOOLEAN : ~Offers(candidates, f)
  /\ UNCHANGED <<case, outbounds, handler, resolved, candidates, kicked, answer, tried,
                 asked, lookups>>
Goes ==
  /\ \/ stage' = stage
     \/ stage \in {"payload", "relay", "closing"} /\ stage' \in {"relay", "closing", "closed"}
  /\ kicked' \in BOOLEAN
  /\ UNCHANGED <<case, outbounds, handler, resolved, candidates, result, answer, tried,
                 asked, lookups>>

\* The choice made from an answer.
LEMMA CollectIsChoice ==
  ASSUME NEW ips \in Seq(Addresses), ips # <<>>,
         case.block => \A j \in 1 .. Len(ips) : Permitted(ips[j])
  PROVE  Choice(Collect(ips), ips)
<1> DEFINE c == Collect(ips)
<1>1. /\ c \in Seq(Addresses) /\ Len(c) \in 1 .. 2 /\ c[1] = ips[1]
      /\ \A i \in 1 .. Len(c) : \E j \in 1 .. Len(ips) : c[i] = ips[j]
      /\ \A j \in 1 .. Len(ips) : \E i \in 1 .. Len(c) : IsV4(c[i]) = IsV4(ips[j])
  BY CollectIs
<1> HIDE DEF c
<1>2. \A f \in BOOLEAN : Offers(ips, f) => Offers(c, f)
  BY <1>1, Zenon DEF Offers
<1>3. case.block => \A i \in 1 .. Len(c) : Permitted(c[i])
  BY <1>1, Zenon
<1>4. Choice(c, ips)
  BY <1>1, <1>2, <1>3 DEF Choice
<1>5. QED
  BY <1>4 DEF c

\* A choice is one address or two.
LEMMA ChoiceIsShort ==
  ASSUME NEW c, NEW a, Choice(c, a)
  PROVE  c \in Seq(Addresses) /\ Len(c) <= 2
<1>1. c \in Seq(Addresses) /\ Len(c) \in 1 .. 2
  BY Zenon DEF Choice
<1>2. \A n \in 1 .. 2 : n <= 2
  OBVIOUS
<1>3. QED
  BY <1>1, <1>2, Zenon

\* A single address is a choice.
LEMMA OneIsChoice ==
  ASSUME NEW ip \in Addresses, case.block => Permitted(ip)
  PROVE  Choice(<<ip>>, <<ip>>)
<1> DEFINE c == <<ip>>
<1>1. c \in Seq(Addresses) /\ Len(c) = 1 /\ c[1] = ip
  OBVIOUS
<1> HIDE DEF c
<1>2. \A i \in 1 .. Len(c) : c[i] = ip
  BY <1>1
<1>3. QED
  <2>1. Choice(c, c)
    BY <1>1, <1>2 DEF Choice, Offers
  <2>2. QED
    BY <2>1 DEF c

\* The rest after the first and after any candidate.
LEMMA WithoutIs ==
  ASSUME NEW s \in Seq(Addresses)
  PROVE  /\ s # <<>> => Without(s, 1, Tail(s))
         /\ \A i \in 1 .. Len(s) : Without(s, i, RemoveAt(s, i))
<1>1. ASSUME s # <<>> PROVE Without(s, 1, Tail(s))
  <2>1. Tail(s) \in Seq(Addresses) /\ Len(Tail(s)) = Len(s) - 1
        /\ \A k \in 1 .. Len(s) - 1 : Tail(s)[k] = s[k + 1]
    BY <1>1
  <2>2. \A k \in 1 .. Len(Tail(s)) : \E j \in 1 .. Len(s) : Tail(s)[k] = s[j]
    BY <2>1
  <2>3. ASSUME NEW j \in 1 .. Len(s), j # 1
        PROVE  \E k \in 1 .. Len(Tail(s)) : Tail(s)[k] = s[j]
    <3>1. j - 1 \in 1 .. Len(Tail(s)) /\ Tail(s)[j - 1] = s[j]
      BY <2>1, <2>3
    <3>2. QED
      BY <3>1
  <2>4. QED
    BY <2>1, <2>2, <2>3 DEF Without
<1>2. ASSUME NEW i \in 1 .. Len(s) PROVE Without(s, i, RemoveAt(s, i))
  <2> DEFINE r == RemoveAt(s, i)
  <2>1. /\ r \in Seq(Addresses) /\ Len(r) = Len(s) - 1
        /\ \A k \in 1 .. Len(s) - 1 : r[k] = IF k < i THEN s[k] ELSE s[k + 1]
    BY RemoveAtIs
  <2> HIDE DEF r
  <2>2. ASSUME NEW k \in 1 .. Len(r) PROVE \E j \in 1 .. Len(s) : r[k] = s[j]
    BY <2>1
  <2>3. ASSUME NEW j \in 1 .. Len(s), j # i
        PROVE  \E k \in 1 .. Len(r) : r[k] = s[j]
    <3>1. CASE j < i
      BY <2>1, <3>1
    <3>2. CASE j > i
      <4>1. j - 1 \in 1 .. Len(r) /\ r[j - 1] = s[j]
        BY <2>1, <3>2
      <4>2. QED
        BY <4>1
    <3>3. QED
      BY <2>3, <3>1, <3>2
  <2>4. Without(s, i, r)
    BY <2>1, <2>2, <2>3 DEF Without
  <2>5. QED
    BY <2>4 DEF r
<1>3. QED
  BY <1>1, <1>2

\* Routing: a session ends here, opens a dial, asks a proxy or the resolver.
LEMMA RouteIs ==
  ASSUME Typed, Route
  PROVE  Ends \/ LooksUp \/ (\E t : AsksProxy(t)) \/ \E c, a : Opens(c, a)
<1> USE DEF Typed
<1>1. CASE RouteReject
  BY <1>1 DEF RouteReject, End, RouteFrame, Ends
<1>2. CASE RouteProxy
  <2> DEFINE t == IF Hijack # None THEN [kind |-> "ip", ip |-> Hijack] ELSE target
  <2>1. CASE case.udp /\ ~AllowsUdp(Matched)
    BY <1>2, <2>1 DEF RouteProxy, End, RouteFrame, Ends
  <2>2. CASE ~(case.udp /\ ~AllowsUdp(Matched))
    <3>1. Matched # NoHandler
      BY <1>2 DEF RouteProxy, Proxies, NoHandler
    <3>2. AsksProxy(t)
      BY <1>2, <2>2, <3>1 DEF RouteProxy, RouteFrame, AsksProxy
    <3>3. QED
      BY <3>2
  <2>3. QED
    BY <2>1, <2>2
<1>3. CASE RouteHijack
  <2> DEFINE q == <<Hijack>>
  <2>1. Hijack \in Addresses
    BY <1>3, CaseIs DEF RouteHijack
  <2>2. q \in Seq(Addresses) /\ q # <<>> /\ \A j \in 1 .. Len(q) : q[j] = Hijack
    BY <2>1
  <2>3. stage = "route" /\ resolved' = Collect(q) /\ answer' = q /\ Dial(Matched, resolved')
        /\ UNCHANGED <<case, outbounds, kicked, tried, asked, result, lookups>>
    BY <1>3 DEF RouteHijack, RoutesDirect, RouteFrame
  <2> HIDE DEF q
  <2>4. Choice(Collect(q), q)
    BY <2>2, CollectIsChoice DEF Permitted
  <2>5. Collect(q) \in Seq(Addresses) /\ Len(Collect(q)) <= 2
    BY <2>4, ChoiceIsShort, Zenon
  <2>6. Opens(Collect(q), q)
    BY <2>3, <2>4, <2>5 DEF Opens, Dial
  <2>7. QED
    BY <2>6
<1>4. CASE RouteLiteral
  <2> DEFINE ip == LiteralIp(target)
  <2>1. ip \in Addresses /\ stage = "route"
    BY <1>4, CaseIs DEF RouteLiteral, RoutesDirect, LiteralIp
  <2>2. CASE case.block /\ IsPrivate(ip)
    BY <1>4, <2>2 DEF RouteLiteral, RoutesDirect, End, RouteFrame, Ends
  <2>5. CASE ~(case.block /\ IsPrivate(ip)) /\ Domain /\ DialStage(Matched) = "connect"
    <3>1. ~IsName /\ (case.block => ~IsPrivate(LiteralIp(target)))
      BY <1>4, <2>5 DEF RouteLiteral, IsName, LiteralIp
    <3>2. QED
      BY <1>4, <2>5, <3>1 DEF RouteLiteral, RoutesDirect, RouteFrame, LooksUp
  <2>3. CASE ~(case.block /\ IsPrivate(ip)) /\ ~(Domain /\ DialStage(Matched) = "connect")
    <3>1. Choice(<<ip>>, <<ip>>)
      BY <2>1, <2>3, OneIsChoice DEF Permitted
    <3>2. Dial(Matched, <<ip>>) /\ answer' = <<ip>>
          /\ UNCHANGED <<case, outbounds, kicked, tried, asked, result, lookups, resolved>>
      BY <1>4, <2>3 DEF RouteLiteral, RouteFrame
    <3> HIDE DEF ip
    <3>3. Opens(<<ip>>, <<ip>>)
      BY <2>1, <3>1, <3>2 DEF Opens, Dial
    <3>4. QED
      BY <3>3
  <2>4. QED
    BY <2>2, <2>3, <2>5
<1>5. CASE RouteLookup
  BY <1>5 DEF RouteLookup, AsksResolver, RoutesDirect, RouteFrame, LooksUp
<1>6. QED
  BY <1>1, <1>2, <1>3, <1>4, <1>5 DEF Route

\* An answer opens a dial or ends the session; so does none, or a second try.
LEMMA LookupIs ==
  ASSUME Typed, Early, Lookup
  PROVE  Ends \/ LooksAgain \/ \E c, a : Opens(c, a)
<1> USE DEF Typed
<1>1. CASE LookupAnswers
  <2>1. PICK ips : /\ Reply(ips)
                   /\ IF case.block /\ AnyPrivate(ips)
                      THEN /\ End("reject")
                           /\ UNCHANGED <<handler, resolved, candidates, answer>>
                      ELSE /\ resolved' = Collect(ips) /\ answer' = ips
                           /\ Dial(Matched, resolved') /\ UNCHANGED result
    BY <1>1 DEF LookupAnswers
  <2>2. stage = "lookup" /\ UNCHANGED <<case, outbounds, kicked, tried, asked, lookups>>
    BY <1>1 DEF LookupAnswers, LookupFrame
  <2>3. CASE case.block /\ AnyPrivate(ips)
    BY <2>1, <2>2, <2>3 DEF End, Ends
  <2>4. CASE ~(case.block /\ AnyPrivate(ips))
    <3>1. ips \in Seq(Addresses) /\ ips # <<>>
      BY <2>1, ReplyIs
    <3>2. case.block => \A j \in 1 .. Len(ips) : Permitted(ips[j])
      BY <2>4, <3>1 DEF AnyPrivate, Permitted
    <3>3. Choice(Collect(ips), ips)
      BY <3>1, <3>2, CollectIsChoice
    <3>4. Collect(ips) \in Seq(Addresses) /\ Len(Collect(ips)) <= 2
      BY <3>3, ChoiceIsShort, Zenon
    <3>5. Opens(Collect(ips), ips)
      BY <2>1, <2>2, <2>4, <3>3, <3>4 DEF Opens, Dial
    <3>6. QED
      BY <3>5
  <2>5. QED
    BY <2>3, <2>4
<1>2. CASE LookupFails
  <2>1. CASE case.block
    BY <1>2, <2>1 DEF LookupFails, LookupFrame, End, Ends
  <2>2. CASE ~case.block
    BY <1>2, <2>2 DEF LookupFails, LookupFrame, LooksAgain
  <2>3. QED
    BY <2>1, <2>2
<1>3. CASE RelookupAnswers
  <2>1. PICK ips : Reply(ips) /\ answer' = ips /\ Dial(handler, Collect(ips))
    BY <1>3 DEF RelookupAnswers
  <2>2. stage = "relookup" /\ (case.block => ~IsName /\ ~IsPrivate(LiteralIp(target)))
        /\ UNCHANGED <<case, outbounds, kicked, tried, asked, resolved, result, lookups>>
    BY <1>3 DEF RelookupAnswers, LookupFrame, Early
  <2>3. ips \in Seq(Addresses) /\ ips # <<>>
    BY <2>1, ReplyIs
  <2>7. ASSUME case.block, NEW j \in 1 .. Len(ips) PROVE Permitted(ips[j])
    <3>1. ips = <<LiteralIp(target)>> /\ Permitted(LiteralIp(target))
      BY <2>1, <2>2, <2>7, Zenon DEF Reply, Permitted
    <3>2. \A ip : ips = <<ip>> => ips[j] = ip
      OBVIOUS
    <3>3. QED
      BY <3>1, <3>2, Zenon
  <2>4. Choice(Collect(ips), ips)
    BY <2>3, <2>7, CollectIsChoice
  <2>5. Opens(Collect(ips), ips)
    BY <2>1, <2>2, <2>4 DEF Opens, Dial
  <2>6. QED
    BY <2>5
<1>4. CASE RelookupFails
  BY <1>4 DEF RelookupFails, LookupFrame, End, Ends, Early
<1>5. QED
  BY <1>1, <1>2, <1>3, <1>4 DEF Lookup

\* Dialing tries a candidate or ends the session.
LEMMA DialIs ==
  ASSUME Typed, Trying, Attempt \/ Luck
  PROVE  Ends \/ \E i \in Nat : Tries(i)
<1> USE DEF Typed
<1>1. candidates \in Seq(Addresses) /\ DOMAIN candidates = 1 .. Len(candidates)
  OBVIOUS
<1>2. CASE ConnectOk
  <2>1. 1 \in 1 .. Len(candidates) /\ Head(candidates) = candidates[1]
    BY <1>2 DEF ConnectOk
  <2>2. Tries(1)
    BY <1>2, <2>1 DEF ConnectOk, Connected, DialFrame, Tries
  <2>3. QED
    BY <2>2
<1>3. CASE ConnectFails
  <2>1. 1 \in 1 .. Len(candidates) /\ Head(candidates) = candidates[1] /\ candidates # <<>>
    BY <1>3 DEF ConnectFails
  <2>2. Without(candidates, 1, Tail(candidates))
    BY <2>1, WithoutIs
  <2>3. Tries(1)
    BY <1>3, <2>1, <2>2 DEF ConnectFails, Fallback, DialFrame, Tries
  <2>4. QED
    BY <2>3
<1>4. CASE ConnectGivesUp
  <2>1. candidates = <<>>
    BY <1>4 DEF ConnectGivesUp
  <2>2. \A f : ~Offers(candidates, f)
    BY <2>1 DEF Offers
  <2>3. QED
    BY <1>4, <2>2 DEF ConnectGivesUp, End, DialFrame, Ends
<1>5. ASSUME NEW i \in 1 .. 2, HandlerDials(i)
      PROVE  Tries(i)
  <2>1. i \in 1 .. Len(candidates)
    BY <1>1, <1>5 DEF HandlerDials, Dialable
  <2>2. Without(candidates, i, RemoveAt(candidates, i))
    BY <1>1, <2>1, WithoutIs
  <2>3. QED
    BY <1>5, <2>1, <2>2 DEF HandlerDials, DialFrame, Tries
<1>6. CASE HandlerAnswers
  <2>1. stage = "dial" /\ (PlainConnect => answer = None)
    BY <1>6 DEF HandlerAnswers, Trying, PlainConnect
  <2>2. CASE Connected
    BY <1>6, <2>1, <2>2 DEF HandlerAnswers, Connected, DialFrame, Ends
  <2>3. CASE End("failed")
    BY <1>6, <2>1, <2>3 DEF HandlerAnswers, End, DialFrame, Ends
  <2>4. QED
    BY <1>6, <2>2, <2>3 DEF HandlerAnswers
<1>7. CASE HandlerTimeout
  BY <1>7 DEF HandlerTimeout, End, DialFrame, Ends
<1>8. QED
  BY <1>2, <1>3, <1>4, <1>5, <1>6, <1>7 DEF Attempt, Luck

\* Every step is of one of the kinds.
LEMMA StepIs ==
  ASSUME Typed, Early, Trying, [Next]_vars
  PROVE  \/ Loads \/ Ends \/ LooksUp \/ LooksAgain \/ Goes
         \/ \E t : AsksProxy(t)
         \/ \E c, a : Opens(c, a)
         \/ \E i \in Nat : Tries(i)
<1>1. CASE LoadOk \/ LoadFails
  BY <1>1 DEF LoadOk, LoadFails, Loads
<1>2. CASE Route
  BY <1>2, RouteIs, Zenon
<1>3. CASE Lookup
  BY <1>3, LookupIs, Zenon
<1>4. CASE Attempt \/ Luck
  BY <1>4, DialIs, Zenon
<1>5. CASE PayloadWritten \/ RelayEnds \/ ObserveCancel \/ CloseClient \/ Kick
  BY <1>5 DEF PayloadWritten, RelayEnds, ObserveCancel, CloseClient, Kick, SessionFrame, Goes,
     Typed
<1>6. CASE UNCHANGED vars
  BY <1>6 DEF vars, Goes, Typed
<1>7. QED
  BY <1>1, <1>2, <1>3, <1>4, <1>5, <1>6 DEF Next

-----------------------------------------------------------------------------
(* Each part of the invariant is kept.                                     *)

\* What a session needs to know of a trial: one more tried, no more left.
LEMMA TriesAre ==
  ASSUME Typed, Trying, NEW i \in Nat, Tries(i)
  PROVE  /\ tried' \in Seq(Addresses) /\ Len(tried') = Len(tried) + 1 /\ Len(tried') <= 2
         /\ candidates' \in Seq(Addresses) /\ Len(candidates') <= 2
         /\ stage' \in {"connect", "dial"} => Len(tried') + Len(candidates') <= 2
         /\ \A k \in 1 .. Len(tried) : tried'[k] = tried[k]
         /\ tried'[Len(tried) + 1] = candidates[i]
         /\ candidates[i] \in Addresses
<1>1. /\ candidates \in Seq(Addresses) /\ tried \in Seq(Addresses) /\ i \in 1 .. Len(candidates)
      /\ Len(tried) + Len(candidates) <= 2 /\ tried' = Append(tried, candidates[i])
  BY DEF Tries, Typed, Trying
<1>2. candidates[i] \in Addresses
  BY <1>1
<1>3. /\ tried' \in Seq(Addresses) /\ Len(tried') = Len(tried) + 1
      /\ \A k \in 1 .. Len(tried) : tried'[k] = tried[k]
      /\ tried'[Len(tried) + 1] = candidates[i]
  BY <1>1, <1>2
<1>4. Len(tried') <= 2
  BY <1>1, <1>3
<1>5. CASE candidates' = candidates /\ stage' \in {"done", "payload", "relay"}
  <2>1. Len(candidates) <= 2
    BY <1>1
  <2>2. QED
    BY <1>1, <1>2, <1>3, <1>4, <1>5, <2>1
<1>6. CASE Without(candidates, i, candidates')
  <2>1. candidates' \in Seq(Addresses) /\ Len(candidates') = Len(candidates) - 1
    BY <1>6 DEF Without
  <2>2. Len(candidates') <= 2 /\ Len(tried') + Len(candidates') <= 2
    BY <1>1, <1>3, <2>1
  <2>3. QED
    BY <1>2, <1>3, <1>4, <2>1, <2>2
<1>7. QED
  BY <1>5, <1>6 DEF Tries

\* Routing and dialing keep to the types: two families, two lookups, one proxy.
LEMMA TypedKept ==
  ASSUME Typed, Early, Trying, [Next]_vars
  PROVE  Typed'
<1>1. CASE Loads \/ Ends \/ Goes
  BY <1>1 DEF Loads, Ends, Goes, Typed, Stages
<1>2. CASE LooksUp \/ LooksAgain
  <2>1. lookups' \in 0 .. 2
    BY <1>2 DEF LooksUp, LooksAgain, Early, Typed
  <2>2. QED
    BY <1>2, <2>1 DEF LooksUp, LooksAgain, Typed, Stages
<1>3. ASSUME NEW t, AsksProxy(t) PROVE Typed'
  BY <1>3 DEF AsksProxy, Typed, Stages
<1>4. ASSUME NEW c, NEW a, Opens(c, a) PROVE Typed'
  <2>1. c \in Seq(Addresses) /\ Len(c) <= 2 /\ a \in Seq(Addresses)
    BY <1>4, ChoiceIsShort DEF Opens, Choice
  <2>2. stage' \in Stages
    BY <1>4 DEF Opens, DialStage, Stages
  <2>3. QED
    BY <1>4, <2>1, <2>2 DEF Opens, Typed
<1>5. ASSUME NEW i \in Nat, Tries(i) PROVE Typed'
  <2>1. /\ tried' \in Seq(Addresses) /\ Len(tried') <= 2
        /\ candidates' \in Seq(Addresses) /\ Len(candidates') <= 2
    BY <1>5, TriesAre
  <2>2. stage' \in Stages /\ result' \in {"none", "reject", "connected", "failed", "timeout"}
    BY <1>5 DEF Tries, Typed, Stages
  <2>3. QED
    BY <1>5, <2>1, <2>2 DEF Tries, Typed
<1>6. QED
  BY <1>1, <1>2, <1>3, <1>4, <1>5, StepIs

\* Nothing is dialed or asked for before routing and screening are through.
LEMMA EarlyKept ==
  ASSUME Typed, Early, Trying, [Next]_vars
  PROVE  Early'
<1>1. CASE Loads \/ Ends \/ Goes
  BY <1>1 DEF Loads, Ends, Goes, Early, IsName, target
<1>2. CASE LooksUp \/ LooksAgain
  BY <1>2 DEF LooksUp, LooksAgain, Early, IsName, target
<1>3. ASSUME NEW t, AsksProxy(t) PROVE Early'
  BY <1>3 DEF AsksProxy, Early
<1>4. ASSUME NEW c, NEW a, Opens(c, a) PROVE Early'
  BY <1>4 DEF Opens, DialStage, Early
<1>5. ASSUME NEW i \in Nat, Tries(i) PROVE Early'
  BY <1>5 DEF Tries, Early
<1>6. QED
  BY <1>1, <1>2, <1>3, <1>4, <1>5, StepIs

\* A result ends the trials; a trial takes one candidate of at most two.
LEMMA TryingKept ==
  ASSUME Typed, Early, Trying, [Next]_vars
  PROVE  Trying'
<1>1. CASE Loads \/ Ends \/ Goes
  BY <1>1 DEF Loads, Ends, Goes, Trying
<1>2. CASE LooksUp \/ LooksAgain
  BY <1>2 DEF LooksUp, LooksAgain, Early, Trying
<1>3. ASSUME NEW t, AsksProxy(t) PROVE Trying'
  <2>1. Len(tried') + Len(candidates') <= 2
    BY <1>3 DEF AsksProxy, Early
  <2>2. QED
    BY <1>3, <2>1 DEF AsksProxy, Early, Trying
<1>4. ASSUME NEW c, NEW a, Opens(c, a) PROVE Trying'
  <2>1. Len(tried') + Len(candidates') <= 2
    <3>1. Len(c) <= 2 /\ c \in Seq(Addresses)
      BY <1>4, ChoiceIsShort DEF Opens
    <3>2. Len(tried') = 0 /\ candidates' = c
      BY <1>4 DEF Opens, Early
    <3>3. QED
      BY <3>1, <3>2
  <2>2. stage' = "dial" => handler' # NoHandler \/ case'.udp
    BY <1>4 DEF Opens, DialStage
  <2>3. asked' = {} /\ result' = "none"
    BY <1>4 DEF Opens, Early, Trying
  <2>4. QED
    BY <2>1, <2>2, <2>3 DEF Trying
<1>5. ASSUME NEW i \in Nat, Tries(i) PROVE Trying'
  <2>1. stage' \in {"connect", "dial"} => Len(tried') + Len(candidates') <= 2
    BY <1>5, TriesAre
  <2>2. QED
    BY <1>5, <2>1 DEF Tries, Trying
<1>6. QED
  BY <1>1, <1>2, <1>3, <1>4, <1>5, StepIs

\* Candidates come from screened answers only, and trials from candidates.
LEMMA ScreenedKept ==
  ASSUME Typed, Early, Trying, Screened, [Next]_vars
  PROVE  Screened'
<1>1. CASE UNCHANGED <<case, candidates, tried>>
  BY <1>1 DEF Screened, Permitted, Hijack, UsesAcl
<1>2. ASSUME NEW c, NEW a, Opens(c, a) PROVE Screened'
  <2>1. case' = case /\ candidates' = c /\ tried' = <<>>
    BY <1>2 DEF Opens, Early
  <2>2. case.block => \A i \in 1 .. Len(c) : Permitted(c[i])
    BY <1>2 DEF Opens, Choice
  <2>3. QED
    BY <2>1, <2>2 DEF Screened, Permitted, Hijack, UsesAcl
<1>3. ASSUME NEW i \in Nat, Tries(i) PROVE Screened'
  <2> DEFINE P(ip) == ip = Hijack \/ ~IsPrivate(ip)
  <2>1. case' = case /\ Hijack' = Hijack
    BY <1>3 DEF Tries, Hijack, UsesAcl
  <2>2. SUFFICES ASSUME case.block
                 PROVE  /\ \A k \in 1 .. Len(candidates') : P(candidates'[k])
                        /\ \A k \in 1 .. Len(tried') : P(tried'[k])
    BY <2>1 DEF Screened, Permitted
  <2>3. /\ \A k \in 1 .. Len(candidates) : P(candidates[k])
        /\ \A k \in 1 .. Len(tried) : P(tried[k])
    BY <2>2 DEF Screened, Permitted
  <2> HIDE DEF P
  <2>4. i \in 1 .. Len(candidates)
        /\ (candidates' = candidates \/ Without(candidates, i, candidates'))
    BY <1>3 DEF Tries
  <2>5. \A k \in 1 .. Len(candidates') : P(candidates'[k])
    <3>1. CASE candidates' = candidates
      BY <2>3, <3>1
    <3>2. CASE Without(candidates, i, candidates')
      BY <2>3, <3>2, Zenon DEF Without
    <3>3. QED
      BY <2>4, <3>1, <3>2
  <2>6. \A k \in 1 .. Len(tried') : P(tried'[k])
    <3>1. tried \in Seq(Addresses) /\ Len(tried') = Len(tried) + 1
          /\ (\A k \in 1 .. Len(tried) : tried'[k] = tried[k])
          /\ tried'[Len(tried) + 1] = candidates[i]
      BY <1>3, TriesAre DEF Typed
    <3>2. ASSUME NEW k \in 1 .. Len(tried') PROVE k \in 1 .. Len(tried) \/ k = Len(tried) + 1
      BY <3>1
    <3>3. QED
      BY <2>3, <2>4, <3>1, <3>2, Zenon
  <2>7. QED
    BY <2>5, <2>6
<1>4. CASE \/ Loads \/ Ends \/ LooksUp \/ LooksAgain \/ Goes \/ \E t : AsksProxy(t)
  BY <1>1, <1>4 DEF Loads, Ends, LooksUp, LooksAgain, Goes, AsksProxy
<1>5. QED
  BY <1>2, <1>3, <1>4, StepIs

\* A proxy is asked for what routing let through (acl.rs:690-760).
LEMMA AskedScreenedKept ==
  ASSUME Typed, Early, Trying, AskedScreened, [Next]_vars
  PROVE  AskedScreened'
<1>1. CASE UNCHANGED <<case, asked>>
  BY <1>1 DEF AskedScreened, Hijack, UsesAcl
<1>2. ASSUME NEW t, AsksProxy(t) PROVE AskedScreened'
  <2>1. case' = case /\ asked' = {t} /\ Hijack' = Hijack
    BY <1>2 DEF AsksProxy, Hijack, UsesAcl
  <2>2. SUFFICES ASSUME case.block
                 PROVE  \/ t.ip # None /\ (Forbidden(t.ip) => t.ip = Hijack)
                        \/ t.ip = None /\ ~MeansThisHost(t.labels)
    BY <2>1 DEF AskedScreened
  <2>3. CASE Hijack # None
    BY <1>2, <2>3 DEF AsksProxy
  <2>4. CASE Hijack = None
    <3>1. t = target /\ ~ProxyRefuses
      BY <1>2, <2>4 DEF AsksProxy
    <3>2. target.ip \in Addresses \cup {None}
      BY CaseIs DEF Typed
    <3>3. CASE target.ip # None
      <4>1. ~IsPrivate(target.ip)
        BY <2>2, <3>1, <3>3 DEF ProxyRefuses, LiteralIp
      <4>2. ~Forbidden(target.ip)
        BY <3>2, <3>3, <4>1, ScreenIsComplete
      <4>3. QED
        BY <3>1, <3>3, <4>2
    <3>4. CASE target.ip = None
      <4>1. ~IsNumericHost(target) /\ ~IsLocalhostName(target)
        BY <2>2, <3>1, <3>4 DEF ProxyRefuses, LiteralIp
      <4>2. target.labels \in Seq(Labels)
        BY <3>4, CaseIs DEF Typed
      <4>3. QED
        BY <3>1, <3>4, <4>1, <4>2, NamesAreKnown, Zenon
    <3>5. QED
      BY <3>3, <3>4
  <2>5. QED
    BY <2>3, <2>4
<1>3. CASE \/ Loads \/ Ends \/ LooksUp \/ LooksAgain \/ Goes
           \/ (\E c, a : Opens(c, a)) \/ \E i \in Nat : Tries(i)
  BY <1>1, <1>3 DEF Loads, Ends, LooksUp, LooksAgain, Goes, Opens, Tries
<1>4. QED
  BY <1>2, <1>3, StepIs

\* The next trial takes from the candidates what it adds to the tried.
LEMMA CoveredKept ==
  ASSUME Typed, Early, Trying, Covered, [Next]_vars
  PROVE  Covered'
<1>1. CASE UNCHANGED <<candidates, tried, answer>>
  BY <1>1 DEF Covered, Offers
<1>2. ASSUME NEW c, NEW a, Opens(c, a) PROVE Covered'
  <2>1. candidates' = c /\ answer' = a /\ \A f \in BOOLEAN : Offers(a, f) => Offers(c, f)
    BY <1>2 DEF Opens, Choice
  <2>2. QED
    BY <2>1, Zenon DEF Covered, Offers
<1>3. ASSUME NEW i \in Nat, Tries(i) PROVE Covered'
  <2>1. /\ tried \in Seq(Addresses) /\ Len(tried') = Len(tried) + 1
        /\ \A k \in 1 .. Len(tried) : tried'[k] = tried[k]
        /\ tried'[Len(tried) + 1] = candidates[i]
    BY <1>3, TriesAre DEF Typed
  <2>2. answer' = answer /\ (candidates' = candidates \/ Without(candidates, i, candidates'))
    BY <1>3 DEF Tries
  <2>3. SUFFICES ASSUME NEW f \in BOOLEAN, Offers(answer, f)
                 PROVE  Offers(candidates', f) \/ Offers(tried', f)
    BY <2>2 DEF Covered, Offers
  <2>4. Len(tried) + 1 \in 1 .. Len(tried') /\ \A k \in 1 .. Len(tried) : k \in 1 .. Len(tried')
    BY <2>1
  <2>5. CASE Offers(tried, f)
    BY <2>1, <2>4, <2>5, Zenon DEF Offers
  <2>6. CASE Offers(candidates, f)
    <3>1. PICK j \in 1 .. Len(candidates) : IsV4(candidates[j]) = f
      BY <2>6 DEF Offers
    <3>2. CASE j = i
      BY <2>1, <2>4, <3>1, <3>2, Zenon DEF Offers
    <3>3. CASE j # i
      <4>1. CASE candidates' = candidates
        BY <2>6, <4>1
      <4>2. CASE Without(candidates, i, candidates')
        BY <3>1, <3>3, <4>2, Zenon DEF Without, Offers
      <4>3. QED
        BY <2>2, <4>1, <4>2
    <3>4. QED
      BY <3>2, <3>3
  <2>7. QED
    BY <2>3, <2>5, <2>6 DEF Covered
<1>4. CASE \/ Loads \/ Ends \/ LooksUp \/ LooksAgain \/ Goes \/ \E t : AsksProxy(t)
  BY <1>1, <1>4 DEF Loads, Ends, LooksUp, LooksAgain, Goes, AsksProxy
<1>5. QED
  BY <1>2, <1>3, <1>4, StepIs

\* The preferred address stays at the front until it is dialed.
LEMMA PreferredKept ==
  ASSUME Typed, Early, Trying, Preferred, [Next]_vars
  PROVE  Preferred'
<1>1. CASE Loads \/ LooksUp \/ LooksAgain \/ \E t : AsksProxy(t)
  BY <1>1 DEF Loads, LooksUp, LooksAgain, AsksProxy, Early, Preferred, PlainConnect
<1>2. CASE Ends \/ Goes
  BY <1>2 DEF Ends, Goes, Preferred, PlainConnect
<1>3. ASSUME NEW c, NEW a, Opens(c, a) PROVE Preferred'
  <2>1. candidates' = c /\ answer' = a /\ tried' = <<>>
    BY <1>3 DEF Opens, Early
  <2>2. c \in Seq(Addresses) /\ Len(c) \in 1 .. 2 /\ c[1] = a[1]
    BY <1>3, Zenon DEF Opens, Choice
  <2>3. c # <<>>
    BY <2>2
  <2>4. QED
    BY <2>1, <2>2, <2>3 DEF Preferred, PlainConnect
<1>4. ASSUME NEW i \in Nat, Tries(i) PROVE Preferred'
  <2>1. /\ tried \in Seq(Addresses) /\ tried' \in Seq(Addresses) /\ Len(tried') = Len(tried) + 1
        /\ \A k \in 1 .. Len(tried) : tried'[k] = tried[k]
        /\ tried'[Len(tried) + 1] = candidates[i]
    BY <1>4, TriesAre DEF Typed
  <2>2. tried' # <<>>
    BY <2>1
  <2>3. ASSUME handler' = NoHandler, ~case'.udp PROVE tried'[1] = answer'[1]
    <3>1. handler = NoHandler /\ ~case.udp /\ answer' = answer
      BY <1>4, <2>3 DEF Tries
    <3>2. stage = "connect" /\ i = 1
      BY <1>4, <3>1 DEF Tries, Trying
    <3>3. CASE tried = <<>>
      <4>1. tried'[1] = candidates[1]
        BY <2>1, <3>2, <3>3
      <4>2. QED
        BY <3>1, <3>2, <3>3, <4>1 DEF Preferred, PlainConnect
    <3>4. CASE tried # <<>>
      <4>1. tried'[1] = tried[1]
        BY <2>1, <3>4
      <4>2. QED
        BY <3>1, <3>4, <4>1 DEF Preferred, PlainConnect
    <3>5. QED
      BY <3>3, <3>4
  <2>4. QED
    BY <2>2, <2>3 DEF Preferred, PlainConnect
<1>5. QED
  BY <1>1, <1>2, <1>3, <1>4, StepIs

\* A plain connect fails only where no candidate is left.
LEMMA ExhaustedKept ==
  ASSUME Typed, Early, Trying, Covered, Exhausted, [Next]_vars
  PROVE  Exhausted'
<1>1. CASE Loads \/ LooksUp \/ LooksAgain \/ \E t : AsksProxy(t)
  BY <1>1 DEF Loads, LooksUp, LooksAgain, AsksProxy, Trying, Exhausted
<1>2. CASE Goes
  BY <1>2 DEF Goes, Exhausted, PlainConnect, Offers
<1>3. ASSUME NEW c, NEW a, Opens(c, a) PROVE Exhausted'
  BY <1>3 DEF Opens, Trying, Exhausted
<1>4. ASSUME NEW i \in Nat, Tries(i) PROVE Exhausted'
  BY <1>4 DEF Tries, Trying, Exhausted
<1>5. CASE Ends
  <2>1. UNCHANGED <<case, handler, candidates, answer, tried>>
    BY <1>5 DEF Ends
  <2>2. result' = "failed" /\ PlainConnect =>
          answer = None \/ \A f \in BOOLEAN : ~Offers(candidates, f)
    BY <1>5 DEF Ends
  <2>3. ASSUME result' = "failed", PlainConnect, answer # None,
               NEW f \in BOOLEAN, Offers(answer, f)
        PROVE  Offers(tried, f)
    BY <2>2, <2>3, Zenon DEF Covered
  <2>4. QED
    BY <2>1, <2>3 DEF Exhausted, PlainConnect, Offers
<1>6. QED
  BY <1>1, <1>2, <1>3, <1>4, <1>5, StepIs

\* Lookups are made for direct sessions only, a second one where nothing is screened.
LEMMA NoDnsLeakKept ==
  ASSUME Typed, Early, Trying, NoDnsLeak, [Next]_vars
  PROVE  NoDnsLeak'
<1>1. CASE Loads \/ \E t : AsksProxy(t)
  BY <1>1 DEF Loads, AsksProxy, Early, NoDnsLeak
<1>2. CASE LooksUp \/ LooksAgain
  <2>1. Matched' = Matched /\ Hijack' = Hijack /\ case' = case /\ asked' = asked
    BY <1>2 DEF LooksUp, LooksAgain, Matched, Hijack, UsesAcl
  <2>2. asked = {}
    BY <1>2 DEF LooksUp, LooksAgain, Early
  <2>3. CASE LooksUp
    BY <2>1, <2>2, <2>3 DEF LooksUp, Early, NoDnsLeak
  <2>4. CASE LooksAgain
    BY <2>1, <2>2, <2>4 DEF LooksAgain, Early, NoDnsLeak
  <2>5. QED
    BY <1>2, <2>3, <2>4
<1>3. CASE UNCHANGED <<case, outbounds, asked, lookups>>
  <2>1. Matched' = Matched /\ Hijack' = Hijack
    BY <1>3 DEF Matched, Hijack, UsesAcl
  <2>2. QED
    BY <1>3, <2>1 DEF NoDnsLeak
<1>4. CASE Ends \/ Goes \/ (\E c, a : Opens(c, a)) \/ \E i \in Nat : Tries(i)
  BY <1>3, <1>4 DEF Ends, Goes, Opens, Tries
<1>5. QED
  BY <1>1, <1>2, <1>4, StepIs

-----------------------------------------------------------------------------
\* A session begins with nothing known and nothing dialed.
LEMMA SessionInvInit == Init => SessionInv
<1> SUFFICES ASSUME Init PROVE SessionInv
  OBVIOUS
<1>1. Typed
  <2>1. <<>> \in Seq(Addresses) /\ Len(<<>>) = 0
    BY EmptySeq
  <2>2. resolved = <<>> /\ candidates = <<>> /\ tried = <<>> /\ answer = <<>>
    BY DEF Init
  <2>3. /\ resolved \in Seq(Addresses) /\ Len(resolved) <= 2
        /\ candidates \in Seq(Addresses) /\ Len(candidates) <= 2
        /\ tried \in Seq(Addresses) /\ Len(tried) <= 2 /\ answer \in Seq(Addresses)
    BY <2>1, <2>2
  <2>4. /\ case \in Cases /\ stage \in Stages /\ kicked = FALSE /\ result = "none"
        /\ asked = {} /\ lookups = 0
    BY Zenon DEF Init, Stages
  <2>5. lookups \in 0 .. 2
    BY <2>4
  <2>6. QED
    BY <2>3, <2>4, <2>5, Zenon DEF Typed
<1>2. Early /\ Trying
  BY DEF Init, Early, Trying, None
<1>3. Screened /\ AskedScreened /\ Covered /\ Preferred
  BY DEF Init, Screened, AskedScreened, Covered, Offers, Preferred
<1>4. Exhausted /\ NoDnsLeak
  BY DEF Init, Exhausted, NoDnsLeak
<1>5. QED
  BY <1>1, <1>2, <1>3, <1>4 DEF SessionInv

\* Every step of a session keeps the invariant.
LEMMA SessionInvNext == SessionInv /\ [Next]_vars => SessionInv'
BY TypedKept, EarlyKept, TryingKept, ScreenedKept, AskedScreenedKept, CoveredKept, PreferredKept,
   ExhaustedKept, NoDnsLeakKept, Zenon DEF SessionInv

\* The invariant holds in every session.
LEMMA SessionInvHolds == Spec => []SessionInv
BY SessionInvInit, SessionInvNext, PTL DEF Spec

(* Whatever the target, its spelling, the rules and the resolver's answers,*)
(* under block_private_ip no session dials an address of the listed ranges *)
(* and asks no proxy for one, but for the operator's hijack address        *)
(* (dns.rs:47-67, 167-201, ip_filter.rs, acl.rs:690-760).                  *)
THEOREM NoPrivateIsDialed == Spec => []NoPrivateDialed
<1>1. SessionInv => NoPrivateDialed
  <2> SUFFICES ASSUME SessionInv PROVE NoPrivateDialed
    OBVIOUS
  <2>1. TypeOK
    <3>1. Cardinality(asked) <= 1
      <4>1. Typed
        BY DEF SessionInv
      <4>2. CASE asked = {}
        BY <4>2, FS_EmptySet
      <4>3. CASE \E t : asked = {t}
        BY <4>3, FS_Singleton
      <4>4. QED
        BY <4>1, <4>2, <4>3 DEF Typed
    <3>2. QED
      BY <3>1 DEF SessionInv, Typed, TypeOK
  <2>2. ASSUME case.block, NEW i \in DOMAIN tried, Forbidden(tried[i])
        PROVE  tried[i] = Hijack
    <3>1. tried[i] \in Addresses /\ i \in 1 .. Len(tried)
      BY DEF SessionInv, Typed
    <3>2. IsPrivate(tried[i])
      BY <2>2, <3>1, ScreenIsComplete
    <3>3. QED
      BY <2>2, <3>1, <3>2 DEF SessionInv, Screened, Permitted
  <2>3. QED
    BY <2>1, <2>2 DEF NoPrivateDialed, SessionInv, AskedScreened
<1>2. QED
  BY <1>1, SessionInvHolds, PTL

(* No rule set and no answer makes this host look up a name that it does   *)
(* not dial itself, and a screened name is looked up once (acl.rs:672-690, *)
(* dns.rs:40-43).                                                          *)
THEOREM NoNameLeaks == Spec => []NoDnsLeak
<1>1. SessionInv => NoDnsLeak
  BY DEF SessionInv
<1>2. QED
  BY <1>1, SessionInvHolds, PTL

(* For every answer of the resolver a session that connects without an     *)
(* outbound handler fails only after each family that was answered has     *)
(* been dialed, and begins with the preferred address                      *)
(* (handler.rs:341-384, dns.rs:106-156).                                   *)
THEOREM NoFamilyGivenUp == Spec => []EveryFamilyTried
<1>1. SessionInv => EveryFamilyTried
  <2> SUFFICES ASSUME SessionInv, handler = NoHandler, ~case.udp PROVE EveryFamilyTried
    BY DEF EveryFamilyTried
  <2>1. DOMAIN answer = 1 .. Len(answer) /\ DOMAIN tried = 1 .. Len(tried)
    BY DEF SessionInv, Typed
  <2>2. ASSUME result = "failed", answer # None, NEW i \in DOMAIN answer
        PROVE  \E j \in DOMAIN tried : IsV4(tried[j]) = IsV4(answer[i])
    <3>1. IsV4(answer[i]) \in BOOLEAN /\ Offers(answer, IsV4(answer[i]))
      BY <2>1, <2>2, IsV4Decides, Zenon DEF Offers
    <3>2. Offers(tried, IsV4(answer[i]))
      BY <2>2, <3>1, Zenon DEF SessionInv, Exhausted, PlainConnect
    <3>3. QED
      BY <2>1, <3>2, Zenon DEF Offers
  <2>3. tried # <<>> => tried[1] = answer[1]
    BY DEF SessionInv, Preferred, PlainConnect
  <2>4. QED
    BY <2>2, <2>3, Zenon DEF EveryFamilyTried
<1>2. QED
  BY <1>1, SessionInvHolds, PTL
=============================================================================
