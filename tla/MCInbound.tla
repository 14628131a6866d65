------------------------------ MODULE MCInbound ------------------------------
(* Intents for Inbound: password of two bytes, addresses of two and three. *)
EXTENDS Inbound

V4     == Address(ATYP_IPV4, <<9, 13>>, 2570)      \* the port reads as LF LF
V6     == Address(ATYP_IPV6, <<1, 2, 3>>, 80)
Name   == Address(ATYP_DOMAIN, <<97>>, 53)
NoName == Address(ATYP_DOMAIN, <<>>, 53)
Secret == <<120, 121>>

Plain(cmd, addr, data, pkts) ==
  [request |-> Request(Secret, cmd, addr, <<>>), data |-> data, packets |-> pkts,
   damages |-> {}, writes |-> 0]
Damaged(i, pos, byte) == [i EXCEPT !.damages = {<<pos, byte>>}]
Writing(i, n) == [i EXCEPT !.writes = n]

Tcp == Plain(Connect, V6, <<CR, LF>>, <<>>)
Udp == Plain(UdpAssociate, V4, <<>>, <<Packet(V4, <<7>>), Packet(NoName, <<>>)>>)

MCIntents == {
  Tcp, Udp,
  Writing(Plain(Connect, Name, <<>>, <<>>), 3),
  Writing(Plain(Connect, Name, <<1>>, <<>>), 1),
  Writing(Plain(UdpAssociate, V6, <<>>, <<>>), 2),
  Plain(Connect, NoName, <<>>, <<>>),          \* shorter than MIN_SIZE
  Damaged(Tcp, 4, CR), Damaged(Tcp, 5, 2), Damaged(Tcp, 6, 2), Damaged(Tcp, 13, CR),
  Damaged(Plain(Connect, Name, <<>>, <<>>), 8, NotUtf8),
  \* the length byte of the domain promises more than is ever sent
  Damaged(Plain(Connect, Name, [k \in 1 .. 28 |-> k], <<>>), 7, 200),
  Damaged(Udp, Len(Header(Udp.request)) + 8, 11) }

MCReplies == <<Packet(V6, <<1>>), Packet(V4, <<>>)>>
=============================================================================
