----------------------------- MODULE MCOutbound -----------------------------
(* Sessions for Outbound: the corners of every private range in all its    *)
(* spellings, and names under every kind of configuration.                 *)
EXTENDS Outbound

\* First and last address of each range, and their neighbours outside.
Corners4 == {
  <<9, 255, 255, 255>>, <<10, 0, 0, 0>>, <<10, 255, 255, 255>>, <<11, 0, 0, 0>>,
  <<172, 15, 255, 255>>, <<172, 16, 0, 0>>, <<172, 31, 255, 255>>, <<172, 32, 0, 0>>,
  <<192, 167, 255, 255>>, <<192, 168, 0, 0>>, <<192, 168, 255, 255>>, <<192, 169, 0, 0>>,
  <<169, 253, 255, 255>>, <<169, 254, 0, 0>>, <<169, 254, 255, 255>>, <<169, 255, 0, 0>>,
  <<126, 255, 255, 255>>, <<127, 0, 0, 0>>, <<127, 255, 255, 255>>, <<128, 0, 0, 0>>,
  <<0, 0, 0, 0>>, <<0, 0, 0, 1>>, <<0, 255, 255, 255>>, <<1, 0, 0, 0>>,
  <<100, 63, 255, 255>>, <<100, 64, 0, 0>>, <<100, 127, 255, 255>>, <<100, 128, 0, 0>>,
  <<191, 255, 255, 255>>, <<192, 0, 0, 0>>, <<192, 0, 0, 255>>, <<192, 0, 1, 0>>,
  <<223, 255, 255, 255>>, <<224, 0, 0, 0>>, <<239, 255, 255, 255>>, <<240, 0, 0, 0>>,
  <<255, 255, 255, 254>>, <<255, 255, 255, 255>> }

Zeros(n) == [i \in 1 .. n |-> 0]
Carrying(prefix, o) == prefix \o <<256 * o[1] + o[2], 256 * o[3] + o[4]>>
Corners6 ==
  {Carrying(p, o) : p \in {Zeros(6), Append(Zeros(5), 65535), <<100, 65435, 0, 0, 0, 0>>,
                           Append(Zeros(5), 65534), <<100, 65435, 0, 0, 0, 1>>},
                    o \in Corners4}
  \cup {<<s>> \o Zeros(7) : s \in {64511, 64512, 65023, 65024, 65151, 65152, 65215, 65216,
                                   65279, 65280, 65535, 8193}}

Ip(ip)     == [kind |-> "ip", ip |-> ip]
Name(labels) == [kind |-> "domain", ip |-> None, labels |-> labels]
Spelled(ip) == [Name(<<"digits", "digits", "digits", "digits">>) EXCEPT !.ip = ip]

Public4  == <<8, 8, 8, 8>>
Other4   == <<9, 9, 9, 9>>
Lan4     == <<192, 168, 1, 1>>
Public6  == <<9734, 18176, 0, 0, 0, 0, 0, 4369>>
Mapped6  == Append(Zeros(5), 65535) \o <<32512, 1>>

MCAnswers == UNION {[1 .. n -> {Public4, Other4, Public6, Mapped6}] : n \in 1 .. 3}

Session(t, block, udp) ==
  [target |-> t, block |-> block, udp |-> udp, acl |-> FALSE, entries |-> <<>>,
   rule |-> "unmatched", hijack |-> None]
Ruled(s, entries, rule, hijack) ==
  [s EXCEPT !.acl = TRUE, !.entries = entries, !.rule = rule, !.hijack = hijack]

Entry(name, type) == [name |-> name, type |-> type, mode |-> "auto", binds |-> TRUE,
                      section |-> TRUE, usable |-> TRUE, allow_udp |-> TRUE]
Warp  == Entry("warp", "socks5")
Web   == Entry("warp", "http")
Only6 == [Entry("six", "direct") EXCEPT !.mode = "only6"]

EntryLists == {
  <<>>, <<Warp>>, <<[Warp EXCEPT !.allow_udp = FALSE]>>, <<Only6, Web>>,
  <<Warp, [Web EXCEPT !.section = FALSE]>>, <<Entry("direct", "socks5")>>,
  <<[Only6 EXCEPT !.mode = "ipv6"]>>, <<[Only6 EXCEPT !.binds = FALSE]>>,
  <<Warp, Entry("warp", "reject")>>, <<Entry("x", "vmess")>> }

Names == {Name(<<"word">>), Name(<<"word", "digits">>), Name(<<"localhost">>),
          Spelled(Lan4), Spelled(Public4)}

\* Every short name, asked of a proxy.
ShortNames == {Name(l) : l \in UNION {[1 .. n -> Labels] : n \in 1 .. 2}
                               \cup [1 .. 3 -> {"", "word", "hex", "localhost"}]}

MCCases ==
  {Ruled(Session(t, TRUE, FALSE), <<Warp>>, "warp", None) : t \in ShortNames}
  \cup
  {Session(Ip(ip), TRUE, FALSE) : ip \in Corners4 \cup Corners6}
  \cup {Session(t, b, u) : t \in Names \cup {Ip(Public6)}, b \in BOOLEAN, u \in BOOLEAN}
  \cup {Ruled(Session(t, b, u), es, r, h) :
          t \in Names \cup {Ip(Lan4)}, b \in BOOLEAN, u \in BOOLEAN, es \in EntryLists,
          r \in {"warp", "six", "reject", "unmatched"}, h \in {None, Lan4}}
=============================================================================
