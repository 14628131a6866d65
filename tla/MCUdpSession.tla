---------------------------- MODULE MCUdpSession -----------------------------
EXTENDS UdpSession

CONSTANTS web, dns, game,         \* targets
          direct, bound, p1, p2   \* handlers: two direct outbounds, two proxies

Direct(h) == [kind |-> "direct", handler |-> h]
Proxy(h)  == [kind |-> "proxy", handler |-> h]

\* web is direct, by an outbound of its own after a rule change, or rejected
\* after a DNS change; dns and game use one proxy each.
MCRoutes == [t \in Targets |->
  CASE t = web  -> {Direct(direct), Direct(bound), Reject}
    [] t = dns  -> {Proxy(p1)}
    [] t = game -> {Proxy(p2)}]
=============================================================================
