------------------------------- MODULE Outbound -------------------------------
(***************************************************************************)
(* From a decoded target to a connection: the ACL engine and its router    *)
(* (acl.rs), the direct router (core/hooks.rs), the screening of addresses *)
(* (core/dns.rs, core/ip_filter.rs) and the dialing of handle_connect and  *)
(* route_udp_target (handler.rs), for one session.                         *)
(*                                                                         *)
(* An IPv4 address is a tuple of 4 octets, an IPv6 address one of 8        *)
(* segments.  A name is the sequence of its labels, by kind.               *)
(* Outside the repository: rule matching (any outbound, with or without a  *)
(* hijack address), the resolver (every lookup may answer differently; an  *)
(* answer has at least one address, an empty one is DnsError::NotFound),   *)
(* the sockets, and the dial functions of acl-engine-rs.                   *)
(***************************************************************************)
EXTENDS Integers, SequencesExt

CONSTANTS
  Cases,       \* sessions to look at: see Init
  Answers      \* answers of the resolver, sequences of addresses

None == <<>>            \* no address, no answer

Octets    == 0 .. 255
Segments  == 0 .. 65535
Addresses == [1 .. 4 -> Octets] \cup [1 .. 8 -> Segments]
\* "digits" is any decimal label, "hex" one of 0x and hexadecimal digits, "word"
\* any that is not listed; "" stands between two dots and after a last one.
Labels == {"", "word", "digits", "hex", "localhost", "localhost4", "localhost6",
           "localdomain", "localdomain4", "localdomain6", "ip6-localhost", "ip6-loopback"}
Targets ==
  [kind : {"ip"}, ip : Addresses]
  \cup [kind : {"domain"}, ip : Addresses \cup {None}, labels : Seq(Labels)]
Entries == [name : STRING, type : STRING, mode : STRING, binds : BOOLEAN, section : BOOLEAN,
            usable : BOOLEAN, allow_udp : BOOLEAN]
ASSUME CasesAssumption ==
  Cases \subseteq [target : Targets, block : BOOLEAN, udp : BOOLEAN, acl : BOOLEAN,
                   entries : Seq(Entries), rule : STRING, hijack : Addresses \cup {None}]
ASSUME AnswersAssumption == Answers \subseteq Seq(Addresses) \ {<<>>}

VARIABLES
  case,        \* target, protocol, configuration and matched rule of this session
  outbounds,   \* AclEngine.outbounds: name |-> handler
  stage,       \* "load", "route", "lookup", "relookup", "connect", "dial",
               \* "payload", "relay", "closing", "closed", "done" (a packet's end);
               \* "down" if the engine did not load
  handler,     \* the outbound handler to dial through; NoHandler for plain TCP
  resolved,    \* ResolvedAddrs as a sequence, v4 and v6 in candidate order
  candidates,  \* addresses still to be tried
  kicked,      \* the cancel token
  result,      \* "none", "reject", "connected", "failed", "timeout"
  \* history
  answer,      \* the answer the candidates come from
  tried,       \* addresses dialed from this host, in order
  asked,       \* what a proxy was asked to reach: targets or addresses
  lookups      \* number of names looked up by this host

vars == <<case, outbounds, stage, handler, resolved, candidates, kicked, result,
          answer, tried, asked, lookups>>

NoHandler == [kind |-> "none"]

-----------------------------------------------------------------------------
(* core/ip_filter.rs                                                       *)

IsV4(ip) == Len(ip) = 4

IsPrivateV4(o) ==
  \/ o[1] = 127
  \/ o[1] = 10 \/ (o[1] = 172 /\ o[2] \in 16 .. 31) \/ (o[1] = 192 /\ o[2] = 168)
  \/ o[1] = 169 /\ o[2] = 254
  \/ o[1] = 0
  \/ o[1] = 100 /\ o[2] \div 64 = 1               \* octets[1] & 0xC0 == 64
  \/ o[1] = 192 /\ o[2] = 0 /\ o[3] = 0
  \/ o = <<255, 255, 255, 255>>
  \/ o[1] \in 224 .. 239

\* Ipv4Addr::from((s[6] << 16) | s[7])
LowOctets(s) == <<s[7] \div 256, s[7] % 256, s[8] \div 256, s[8] % 256>>

\* The prefixes that an IPv4 address may follow: 64:ff9b::/96, ::ffff:0:0/96 and,
\* but for :: and ::1, ::/96.
Nat64Prefix  == <<100, 65435, 0, 0, 0, 0>>
MappedPrefix == <<0, 0, 0, 0, 0, 65535>>
CompatPrefix == <<0, 0, 0, 0, 0, 0>>
EmbeddedV4(s) ==
  IF \/ SubSeq(s, 1, 6) \in {Nat64Prefix, MappedPrefix}
     \/ SubSeq(s, 1, 6) = CompatPrefix /\ (s[7] # 0 \/ s[8] > 1)
  THEN LowOctets(s) ELSE None

Unspecified == <<0, 0, 0, 0, 0, 0, 0, 0>>
Loopback    == <<0, 0, 0, 0, 0, 0, 0, 1>>
IsPrivateV6(s) ==
  IF EmbeddedV4(s) # None THEN IsPrivateV4(EmbeddedV4(s))
  ELSE \/ s \in {Unspecified, Loopback}
       \/ s[1] \div 256 = 255        \* ff00::/8
       \/ s[1] \div 512 = 126        \* & 0xfe00 == 0xfc00
       \/ s[1] \div 64 = 1018        \* & 0xffc0 == 0xfe80

IsPrivate(ip) == IF IsV4(ip) THEN IsPrivateV4(ip) ELSE IsPrivateV6(ip)

-----------------------------------------------------------------------------
(* Targets: [kind |-> "ip", ip] or [kind |-> "domain", ip, labels], where  *)
(* ip is the literal a domain spells (None if it is a name).               *)

\* trim_end_matches('.')
Trimmed(labels) ==
  LET solid == {i \in 1 .. Len(labels) : labels[i] # ""} IN
  IF solid = {} THEN <<>>
  ELSE SubSeq(labels, 1, CHOOSE i \in solid : \A j \in solid : j <= i)

IsNumericHost(t) ==
  LET h == Trimmed(t.labels) IN h # <<>> /\ Last(h) \in {"digits", "hex"}

IsLocalhostName(t) ==
  LET h == Trimmed(t.labels) IN
  \/ h \in {<<"localhost">>, <<"localhost4">>, <<"localhost6">>,
            <<"localhost", "localdomain">>, <<"localhost4", "localdomain4">>,
            <<"localhost6", "localdomain6">>, <<"ip6-localhost">>, <<"ip6-loopback">>}
  \/ Len(h) > 1 /\ Last(h) = "localhost"

LiteralIp(t) == t.ip

-----------------------------------------------------------------------------
(* core/dns.rs                                                             *)

\* ResolvedAddrs: the first address of each family, in the resolver's order.
FirstOf(ips, v4) ==
  LET family == {i \in DOMAIN ips : IsV4(ips[i]) = v4} IN
  IF family = {} THEN <<>> ELSE <<ips[CHOOSE i \in family : \A j \in family : i <= j]>>
Collect(ips) == LET v4 == IsV4(ips[1]) IN FirstOf(ips, v4) \o FirstOf(ips, ~v4)

\* Only the preferred address is screened.
FirstPrivate(ips) == IsPrivate(ips[1])
AnyPrivate(ips) == \E i \in DOMAIN ips : IsPrivate(ips[i])

-----------------------------------------------------------------------------
(* OutboundHandler::from_entry and AclEngine::new                          *)

DirectMode(m) ==
  CASE m = "auto"              -> "Auto"
    [] m \in {"4", "only4"}    -> "Only4"
    [] m \in {"6", "only6"}    -> "Only6"
    [] m \in {"prefer4", "46"} -> "Prefer46"
    [] m \in {"prefer6", "64"} -> "Prefer64"
    [] OTHER                   -> "Invalid"

\* bind: whether the test sockets bind to the entry's addresses and device;
\* section: the entry has the section of its type; usable: the library takes it.
EntryFails(e) ==
  CASE e.type = "direct"             -> DirectMode(e.mode) = "Invalid" \/ ~e.binds
    [] e.type \in {"socks5", "http"} -> ~e.section \/ ~e.usable
    [] OTHER                         -> e.type # "reject"

FromEntry(e) == [kind |-> e.type, mode |-> DirectMode(e.mode), allow_udp |-> e.allow_udp]

DefaultHandler(name) == [kind |-> name, mode |-> "Auto", allow_udp |-> FALSE]

AllowsUdp(h) == h.kind = "direct" \/ (h.kind = "socks5" /\ h.allow_udp)

\* Later entries replace earlier ones of the same name; reject and direct exist.
Named(entries, name) == SelectSeq(entries, LAMBDA e : e.name = name)
Outbounds(entries) ==
  LET names == {entries[i].name : i \in DOMAIN entries} IN
  [n \in names \cup {"direct", "reject"} |->
     IF n \in names THEN FromEntry(Last(Named(entries, n))) ELSE DefaultHandler(n)]

UsesAcl == case.acl

\* build_router.  A rule that names no outbound does not compile; no rules at
\* all mean direct(all), which no session can tell from "unmatched".
LoadOk ==
  /\ stage = "load"
  /\ IF UsesAcl
     THEN /\ \A i \in DOMAIN case.entries : ~EntryFails(case.entries[i])
          /\ outbounds' = Outbounds(case.entries)
          /\ case.rule \in DOMAIN outbounds' \cup {"unmatched"}
     ELSE UNCHANGED outbounds
  /\ stage' = "route"
  /\ UNCHANGED <<case, handler, resolved, candidates, kicked, result, answer, tried, asked, lookups>>

\* An entry is refused, the file is not readable or no YAML, the rules do not
\* parse or compile, the geo data cannot be had: the server does not start.
LoadFails ==
  /\ stage = "load" /\ UsesAcl
  /\ stage' = "down"
  /\ UNCHANGED <<case, outbounds, handler, resolved, candidates, kicked, result, answer,
                 tried, asked, lookups>>

Init ==
  /\ case \in Cases
  /\ outbounds = <<>> /\ stage = "load" /\ handler = NoHandler
  /\ resolved = <<>> /\ candidates = <<>> /\ kicked = FALSE /\ result = "none"
  /\ answer = <<>> /\ tried = <<>> /\ asked = {} /\ lookups = 0

-----------------------------------------------------------------------------
(* route_with_protocol and DirectRouter::route                             *)

target == case.target
IsName == target.kind = "domain" /\ target.ip = None
Domain == target.kind = "domain"

\* match_host_hijack; a host no rule matches goes to the outbound "direct".
Matched ==
  CASE ~UsesAcl                  -> NoHandler
    [] case.rule = "unmatched"   -> outbounds["direct"]
    [] OTHER                     -> outbounds[case.rule]
Hijack == IF UsesAcl /\ case.rule # "unmatched" THEN case.hijack ELSE None

Proxies == Matched.kind \in {"socks5", "http"}

\* Private literals, and names that a proxy would take for one, stay here.
ProxyRefuses ==
  /\ case.block
  /\ IF LiteralIp(target) # None THEN IsPrivate(LiteralIp(target))
     ELSE IsNumericHost(target) \/ IsLocalhostName(target)

\* The TCP session closes its client; a UDP packet is dropped and its session
\* (module UdpSession) goes on.
End(how) == result' = how /\ stage' = IF case.udp THEN "done" ELSE "closing"

RouteFrame == UNCHANGED <<case, outbounds, kicked, tried>>

RouteReject ==
  /\ stage = "route"
  /\ Matched.kind = "reject" \/ (Proxies /\ ProxyRefuses)
  /\ End("reject")
  /\ UNCHANGED <<handler, resolved, candidates, answer, asked, lookups>> /\ RouteFrame

\* handle_proxy_connect puts the hijack address in place of the target; a UDP
\* session asks the handler whether it takes UDP.
RouteProxy ==
  /\ stage = "route" /\ Proxies /\ ~ProxyRefuses
  /\ IF case.udp /\ ~AllowsUdp(Matched)
     THEN End("reject") /\ UNCHANGED <<handler, asked>>
     ELSE /\ handler' = Matched
          /\ asked' = {IF Hijack # None THEN [kind |-> "ip", ip |-> Hijack] ELSE target}
          /\ stage' = "dial" /\ UNCHANGED result
  /\ UNCHANGED <<resolved, candidates, answer, lookups>> /\ RouteFrame

DialStage(h) == IF h = NoHandler /\ ~case.udp THEN "connect" ELSE "dial"

\* The addresses a session may dial are known: go on to dialing.
Dial(h, addrs) ==
  /\ handler' = h /\ candidates' = addrs /\ stage' = DialStage(h)

RoutesDirect == stage = "route" /\ Matched.kind \in {"direct", "none"}

RouteHijack ==
  /\ RoutesDirect /\ Hijack # None
  /\ resolved' = Collect(<<Hijack>>) /\ answer' = <<Hijack>>
  /\ Dial(Matched, resolved')
  /\ UNCHANGED <<result, asked, lookups>> /\ RouteFrame

\* screen_direct_target of an IP literal, a domain that spells one included
\* where it is screened.  No address goes with it: a handler reads the target,
\* handle_direct_connect asks resolve_addrs, which knows a domain only by lookup.
RouteLiteral ==
  /\ RoutesDirect /\ Hijack = None
  /\ LiteralIp(target) # None /\ (Domain => case.block)
  /\ IF case.block /\ IsPrivate(LiteralIp(target))
     THEN /\ End("reject")
          /\ UNCHANGED <<handler, candidates, answer, lookups>>
     ELSE IF Domain /\ DialStage(Matched) = "connect"
     THEN /\ handler' = Matched /\ stage' = "relookup" /\ lookups' = lookups + 1
          /\ UNCHANGED <<candidates, answer, result>>
     ELSE /\ Dial(Matched, <<LiteralIp(target)>>) /\ answer' = <<LiteralIp(target)>>
          /\ UNCHANGED <<result, lookups>>
  /\ UNCHANGED <<resolved, asked>> /\ RouteFrame

\* Names wait for the resolver; the rules have been matched before.
AsksBeforeMatching == Domain
AsksResolver == RoutesDirect /\ Hijack = None /\ Domain /\ (case.block => IsName)

RouteLookup ==
  /\ stage = "route" /\ AsksResolver
  /\ lookups' = lookups + 1 /\ stage' = "lookup"
  /\ UNCHANGED <<handler, resolved, candidates, result, answer, asked>> /\ RouteFrame

\* The resolver answers a literal with itself.
Reply(ips) == IF IsName THEN ips \in Answers ELSE ips = <<LiteralIp(target)>>

LookupFrame == UNCHANGED <<case, outbounds, kicked, tried, asked>>

LookupAnswers ==
  /\ stage = "lookup"
  /\ \E ips \in Answers \cup {<<LiteralIp(target)>>} :
       /\ Reply(ips)
       /\ IF case.block /\ AnyPrivate(ips)
          THEN /\ End("reject")
               /\ UNCHANGED <<handler, resolved, candidates, answer>>
          ELSE /\ resolved' = Collect(ips) /\ answer' = ips
               /\ Dial(Matched, resolved') /\ UNCHANGED result
  /\ UNCHANGED lookups /\ LookupFrame

\* Screening fails closed; without it the outbound may try again.
LookupFails ==
  /\ stage = "lookup"
  /\ IF case.block
     THEN /\ End("reject")
          /\ UNCHANGED <<handler, lookups>>
     ELSE /\ handler' = Matched /\ stage' = "relookup" /\ lookups' = lookups + 1
          /\ UNCHANGED result
  /\ UNCHANGED <<resolved, candidates, answer>> /\ LookupFrame

\* handle_direct_connect without a handler, or the handler itself, resolves.
RelookupAnswers ==
  /\ stage = "relookup"
  /\ \E ips \in Answers \cup {<<LiteralIp(target)>>} :
       Reply(ips) /\ answer' = ips /\ Dial(handler, Collect(ips))
  /\ UNCHANGED <<resolved, result, lookups>> /\ LookupFrame

RelookupFails ==
  /\ stage = "relookup"
  /\ End("failed")
  /\ UNCHANGED <<handler, resolved, candidates, answer, lookups>> /\ LookupFrame

-----------------------------------------------------------------------------
(* Dialing.                                                                *)

DialFrame == UNCHANGED <<case, outbounds, handler, resolved, kicked, answer, asked, lookups>>

\* A TCP session has a payload to write first, or none; a packet is sent.
Connected ==
  /\ result' = "connected"
  /\ stage' \in IF case.udp THEN {"done"} ELSE {"payload", "relay"}

\* handle_direct_connect: one candidate after the other, each under
\* connect_timeout; an attempt connects, is refused or times out.
ConnectOk ==
  /\ stage = "connect" /\ candidates # <<>>
  /\ tried' = Append(tried, Head(candidates)) /\ Connected
  /\ UNCHANGED candidates /\ DialFrame

\* A failed attempt ends the session although another family is left.
NoFallback == <<>>
Fallback == Tail(candidates)

\* A connect that hangs is waited for without end.
NeverExpires == FALSE
ConnectExpires == TRUE

ConnectFails ==
  /\ stage = "connect" /\ candidates # <<>> /\ ConnectExpires
  /\ tried' = Append(tried, Head(candidates))
  /\ candidates' = Fallback
  /\ UNCHANGED <<stage, result>> /\ DialFrame

ConnectGivesUp ==
  /\ stage = "connect" /\ candidates = <<>>
  /\ End("failed")
  /\ UNCHANGED <<candidates, tried>> /\ DialFrame

\* The addresses a direct handler's mode lets it dial, of those it was given.
Family(h) == CASE h.kind = "none"  -> {TRUE, FALSE}
               [] h.mode = "Only4" -> {TRUE}
               [] h.mode = "Only6" -> {FALSE}
               [] OTHER            -> {TRUE, FALSE}
Dialable == {i \in DOMAIN candidates : IsV4(candidates[i]) \in Family(handler)}

\* Within the one call a direct handler dials some of the addresses that
\* acl_addr_for attached: how many and in which order is the library's affair.
HandlerDials(i) ==
  /\ stage = "dial" /\ asked = {} /\ i \in Dialable
  /\ tried' = Append(tried, candidates[i])
  /\ candidates' = RemoveAt(candidates, i)
  /\ UNCHANGED <<stage, result>> /\ DialFrame

\* dial_via_handler, or dial_udp and write_to of a UDP session: one call, whose
\* answer is final.  Nothing is connected that was neither dialed nor asked for.
HandlerAnswers ==
  /\ stage = "dial"
  /\ \/ (asked # {} \/ tried # <<>>) /\ Connected
     \/ End("failed")
  /\ UNCHANGED <<candidates, tried>> /\ DialFrame

\* One connect_timeout for all a handler does; none for a packet.
HandlerTimeout ==
  /\ stage = "dial" /\ ~case.udp
  /\ End("timeout")
  /\ UNCHANGED <<candidates, tried>> /\ DialFrame

-----------------------------------------------------------------------------
SessionFrame == UNCHANGED <<case, outbounds, handler, resolved, candidates, answer, tried,
                            asked, lookups>>

\* write_all of the initial payload: nothing bounds it, nothing watches the token.
PayloadWritten ==
  /\ stage = "payload"
  /\ stage' \in {"relay", "closing"}
  /\ UNCHANGED <<kicked, result>> /\ SessionFrame

\* The relay (module Relay), which watches the token; or the other side ends it.
RelayEnds ==
  /\ stage = "relay"
  /\ stage' = "closing"
  /\ UNCHANGED <<kicked, result>> /\ SessionFrame

ObserveCancel ==
  /\ stage = "relay" /\ kicked
  /\ stage' = "closing"
  /\ UNCHANGED <<kicked, result>> /\ SessionFrame

CloseClient ==
  /\ stage = "closing"
  /\ stage' = "closed"
  /\ UNCHANGED <<kicked, result>> /\ SessionFrame

Kick ==
  /\ ~kicked /\ ~case.udp /\ stage \notin {"load", "down", "closed"}
  /\ kicked' = TRUE
  /\ UNCHANGED <<stage, result>> /\ SessionFrame

Route == RouteReject \/ RouteProxy \/ RouteHijack \/ RouteLiteral \/ RouteLookup
Lookup == LookupAnswers \/ LookupFails \/ RelookupAnswers \/ RelookupFails
Attempt ==
  \/ ConnectFails \/ ConnectGivesUp \/ HandlerAnswers \/ HandlerTimeout
Luck == ConnectOk \/ (\E i \in 1 .. 2 : HandlerDials(i))

Next ==
  \/ LoadOk \/ LoadFails \/ Route \/ Lookup \/ Attempt \/ Luck
  \/ PayloadWritten \/ RelayEnds \/ ObserveCancel \/ CloseClient \/ Kick

\* Lookups and attempts end because the resolver and connect_timeout bound
\* them; nothing makes an attempt succeed.
Fairness ==
  /\ WF_vars(LoadOk \/ LoadFails) /\ WF_vars(Route) /\ WF_vars(Lookup) /\ WF_vars(Attempt)
  /\ WF_vars(ObserveCancel) /\ WF_vars(CloseClient)

Spec     == Init /\ [][Next]_vars
FairSpec == Spec /\ Fairness

-----------------------------------------------------------------------------
(* The ranges the comments of ip_filter.rs list, as a table of networks.   *)

Networks4 == {
  <<<<127>>, 8>>, <<<<10>>, 8>>, <<<<172, 16>>, 12>>, <<<<192, 168>>, 16>>,
  <<<<169, 254>>, 16>>, <<<<0>>, 8>>, <<<<100, 64>>, 10>>, <<<<192, 0, 0>>, 24>>,
  <<<<255, 255, 255, 255>>, 32>>, <<<<224>>, 4>> }
Networks6 == {
  <<<<0, 0, 0, 0, 0, 0, 0, 0, 0, 0, 0, 0, 0, 0, 0, 0>>, 128>>,
  <<<<0, 0, 0, 0, 0, 0, 0, 0, 0, 0, 0, 0, 0, 0, 0, 1>>, 128>>,
  <<<<255>>, 8>>, <<<<252>>, 7>>, <<<<254, 128>>, 10>> }
V4Carriers == {
  <<0, 0, 0, 0, 0, 0, 0, 0, 0, 0, 0, 0>>, <<0, 0, 0, 0, 0, 0, 0, 0, 0, 0, 255, 255>>,
  <<0, 100, 255, 155, 0, 0, 0, 0, 0, 0, 0, 0>> }

\* The prefix of a network is a number of whole octets and the highest bits of
\* the next one, which are what is left of it in units of Units[bits].
Units == <<128, 64, 32, 16, 8, 4, 2>>
InNetwork(octets, net) ==
  LET whole == net[2] \div 8
      unit == Units[net[2] % 8] IN
  /\ \A i \in 1 .. whole : octets[i] = net[1][i]
  /\ net[2] % 8 # 0 => octets[whole + 1] \div unit = net[1][whole + 1] \div unit

OctetsOf(ip) ==
  IF IsV4(ip) THEN ip
  ELSE [i \in 1 .. 16 |-> IF i % 2 = 1 THEN ip[(i + 1) \div 2] \div 256 ELSE ip[i \div 2] % 256]

Forbidden(ip) ==
  LET o == OctetsOf(ip) IN
  IF IsV4(ip) THEN \E net \in Networks4 : InNetwork(o, net)
  ELSE \/ \E net \in Networks6 : InNetwork(o, net)
       \/ /\ SubSeq(o, 1, 12) \in V4Carriers
          /\ \E net \in Networks4 : InNetwork(SubSeq(o, 13, 16), net)

(* Names for this host: any under localhost (RFC 6761), the aliases of     *)
(* stock hosts files, and what inet_aton reads as a number; a dot at the   *)
(* end, or several, change nothing.                                        *)
HostsFile == {<<"localhost4">>, <<"localhost6">>, <<"ip6-localhost">>, <<"ip6-loopback">>}
  \cup {<<"localhost", "localdomain">>, <<"localhost4", "localdomain4">>,
        <<"localhost6", "localdomain6">>}
MeansThisHost(labels) ==
  \E n \in 1 .. Len(labels) :
    /\ \A i \in 1 .. Len(labels) : i > n => labels[i] = ""
    /\ labels[n] \in {"digits", "hex", "localhost"} \/ SubSeq(labels, 1, n) \in HostsFile

Stages == {"load", "route", "lookup", "relookup", "connect", "dial", "payload", "relay",
           "closing", "closed", "done", "down"}
TypeOK ==
  /\ stage \in Stages /\ kicked \in BOOLEAN
  /\ result \in {"none", "reject", "connected", "failed", "timeout"}
  /\ Len(resolved) <= 2 /\ Len(candidates) <= 2 /\ Len(tried) <= 2
  /\ Cardinality(asked) <= 1 /\ lookups \in 0 .. 2

(* Under block_private_ip nothing of the listed ranges is dialed, in any   *)
(* spelling of the address, whatever a name resolves to and however often  *)
(* the resolver changes its mind, and no proxy is asked for such a literal *)
(* or for a name that means a loopback address; only the operator's own    *)
(* hijack address is exempt (dns.rs:47-67, 167-201, acl.rs:690-760).       *)
NoPrivateDialed ==
  /\ TypeOK
  /\ case.block =>
       /\ \A i \in DOMAIN tried : Forbidden(tried[i]) => tried[i] = Hijack
       /\ \A t \in asked :
            \/ t.ip # None /\ (Forbidden(t.ip) => t.ip = Hijack)
            \/ t.ip = None /\ ~MeansThisHost(t.labels)

(* A name is looked up here only for a session that goes out directly and  *)
(* to no hijack address: rules that reject or proxy it leave no trace in   *)
(* this host's DNS, and a screened name is looked up once, so that what    *)
(* was screened is what is dialed (acl.rs:672-690, dns.rs:40-43).          *)
NoDnsLeak ==
  lookups > 0 =>
    /\ asked = {} /\ Matched.kind \in {"direct", "none"} /\ Hijack = None
    /\ case.block => lookups = 1

(* A session that connects without an outbound handler fails only after    *)
(* every family the answer offers has been tried, and starts with the      *)
(* address the resolver prefers: a dual-stack target that is reachable     *)
(* over one family only is reached.  A handler's one call decides by       *)
(* itself what it tries (handler.rs:341-384, dns.rs:106-156).              *)
EveryFamilyTried ==
  handler = NoHandler /\ ~case.udp =>
    /\ result = "failed" /\ answer # None =>
         \A i \in DOMAIN answer : \E j \in DOMAIN tried : IsV4(tried[j]) = IsV4(answer[i])
    /\ tried # <<>> => tried[1] = answer[1]

(* A kicked session ends although nobody watches its token while it waits  *)
(* for the router, the resolver or a connect: the only place where it can  *)
(* stay is the write of the initial payload, which has no timeout          *)
(* (handler.rs:196-434).                                                   *)
KickedEnds == kicked ~> (stage \in {"closed", "payload"})
=============================================================================
