----------------------------- MODULE UdpSession ------------------------------
(***************************************************************************)
(* One UDP ASSOCIATE session: handle_udp_associate in handler.rs.  The     *)
(* client sends framed packets over its stream; each is routed, the one    *)
(* outbound association of the session is replaced if the route asks for   *)
(* it, and the packet is written to it.  Replies come back the other way.  *)
(*                                                                         *)
(* The loop is a select! of four arms.  An await inside an arm's body      *)
(* (routing, dialing, sending, replying) suspends the other three: while   *)
(* pc is not "select", neither the idle check nor the cancel token is      *)
(* looked at.  Byte counts are left out: record_upload and record_download *)
(* follow the completed write with no await in between.                    *)
(***************************************************************************)
EXTENDS Integers, Sequences, FiniteSets

CONSTANTS
  Targets,      \* destination addresses
  Handlers,     \* outbound handlers (Arc identity)
  DirectHandlers, \* those that are direct outbounds; DefaultDirect is one
  DefaultDirect, \* default_direct_handler(), for a route without a handler
  UdpHandlers,  \* proxies with allows_udp()
  Routes,       \* target -> outbounds the router may answer; a lookup may
                \* answer differently each time (DNS, rule reload)
  MaxCache,     \* UDP_MAX_ROUTE_CACHE_ENTRIES
  MaxErrors,    \* UDP_MAX_CONSECUTIVE_ERRORS
  BufLimit,     \* UDP_MAX_READ_BUFFER_SIZE, in fragments of a packet
  IdleTimeout,  \* idle_timeout_secs
  Interval      \* idle_timeout_secs.clamp(1, 30), the period of idle_interval

Reject == [kind |-> "reject", handler |-> DefaultDirect]
Outbounds ==
  {Reject} \cup [kind : {"direct"}, handler : DirectHandlers]
           \cup [kind : {"proxy"}, handler : Handlers \ DirectHandlers]

ASSUME HandlersAssumption ==
  /\ DirectHandlers \subseteq Handlers
  /\ DefaultDirect \in DirectHandlers
  /\ UdpHandlers \subseteq Handlers \ DirectHandlers
ASSUME RoutesAssumption == Routes \in [Targets -> SUBSET Outbounds]
ASSUME BoundsAssumption ==
  /\ MaxCache \in Nat \ {0} /\ MaxErrors \in Nat \ {0} /\ BufLimit \in Nat \ {0}
  /\ IdleTimeout \in Nat \ {0} /\ Interval \in 1 .. IdleTimeout

None == "none"
Bad  == "bad"       \* a packet decode_zerocopy answers Invalid to
ASSUME NamesAssumption == None \notin Handlers /\ Bad \notin Targets

VARIABLES
  pc,
  read_buf,         \* complete packets in read_buf: a sequence of targets or Bad
  part,             \* fragments of an incomplete packet behind them
  pending_buffered,
  route_cache,      \* target -> outbound, for the targets seen
  packet,           \* the packet being processed: its target
  route,            \* ... and its route
  udp_conn,         \* handler that dialed the current association, or None
  current_handler,  \* as in the code: a proxy handler, or None
  recv_errors, send_errors,
  idle,             \* seconds since last_activity
  next_tick,        \* seconds until idle_interval ticks; 0 or less: due since
  kicked            \* the cancel token

conn_vars == <<udp_conn, current_handler>>
buf_vars  == <<read_buf, part, pending_buffered>>
err_vars  == <<recv_errors, send_errors>>
time_vars == <<idle, next_tick>>
vars == <<pc, buf_vars, route_cache, packet, route, conn_vars, err_vars, time_vars, kicked>>

Packets == Targets \cup {Bad}
\* What one read can deliver: up to two packets and the start of another.
Chunks == {<<>>} \cup {<<p>> : p \in Packets} \cup {<<p, q>> : p, q \in Packets}

\* `let mut pending_buffered = !read_buf.is_empty()`
StartsReading(payload, fragments) == FALSE
StartsPending(payload, fragments) == payload # <<>> \/ fragments > 0

Init ==
  /\ pc = "select"
  /\ read_buf \in Chunks /\ part \in {0, 1}         \* the initial payload
  /\ pending_buffered = StartsPending(read_buf, part)
  /\ route_cache = [t \in {} |-> Reject]
  /\ packet = None /\ route = Reject
  /\ udp_conn = None /\ current_handler = None
  /\ recv_errors = 0 /\ send_errors = 0
  /\ idle = 0 /\ next_tick = 0
  /\ kicked = FALSE

-----------------------------------------------------------------------------
(* The client arm: read, then process every complete packet.               *)

\* The sentinel: the initial payload is processed before the first read.
TakeBuffered ==
  /\ pc = "select" /\ pending_buffered
  /\ pending_buffered' = FALSE
  /\ pc' = "process"
  /\ UNCHANGED <<read_buf, part, route_cache, packet, route, conn_vars, err_vars,
                 time_vars, kicked>>

BufferFull == part >= BufLimit

ReadChunk(new, fragments) ==
  /\ pc = "select" /\ ~pending_buffered /\ ~BufferFull
  /\ new # <<>> \/ fragments > part
  /\ read_buf' = read_buf \o new
  /\ part' = fragments
  /\ pc' = "process"
  /\ UNCHANGED <<pending_buffered, route_cache, packet, route, conn_vars, err_vars,
                 time_vars, kicked>>

\* EOF, a read error, or a packet that outgrows the buffer limit.
ReadEnds ==
  /\ pc = "select" /\ ~pending_buffered
  /\ pc' = "closing"
  /\ UNCHANGED <<buf_vars, route_cache, packet, route, conn_vars, err_vars, time_vars, kicked>>

Continue == pc' = "process"

\* NeedMoreData, or the buffer is empty: back to select!.
ProcessDone ==
  /\ pc = "process" /\ read_buf = <<>>
  /\ pc' = "select"
  /\ packet' = None
  /\ UNCHANGED <<buf_vars, route_cache, route, conn_vars, err_vars, time_vars, kicked>>

\* DecodeResult::Invalid: the stream is out of sync.
ProcessInvalid ==
  /\ pc = "process" /\ read_buf # <<>> /\ Head(read_buf) = Bad
  /\ pc' = "closing"
  /\ UNCHANGED <<buf_vars, route_cache, packet, route, conn_vars, err_vars, time_vars, kicked>>

\* A packet for a target in route_cache.
RouteCached ==
  /\ pc = "process" /\ read_buf # <<>> /\ Head(read_buf) \in DOMAIN route_cache
  /\ packet' = Head(read_buf) /\ read_buf' = Tail(read_buf)
  /\ route' = route_cache[Head(read_buf)]
  /\ pc' = "outbound"
  /\ UNCHANGED <<part, pending_buffered, route_cache, conn_vars, err_vars,
                 time_vars, kicked>>

RouteAwait ==
  /\ pc = "process" /\ read_buf # <<>>
  /\ Head(read_buf) \in Targets \ DOMAIN route_cache
  /\ packet' = Head(read_buf) /\ read_buf' = Tail(read_buf)
  /\ pc' = "routing"
  /\ UNCHANGED <<part, pending_buffered, route_cache, route, conn_vars, err_vars,
                 time_vars, kicked>>

\* The cache is emptied when it is full, before the insert.
Evicted == IF Cardinality(DOMAIN route_cache) >= MaxCache THEN {} ELSE DOMAIN route_cache

\* route_udp_target answers r.
Routed(r) ==
  /\ pc = "routing" /\ r \in Routes[packet]
  /\ route_cache' = [t \in Evicted \cup {packet} |->
                       IF t = packet THEN r ELSE route_cache[t]]
  /\ route' = r
  /\ pc' = "outbound"
  /\ UNCHANGED <<buf_vars, packet, conn_vars, err_vars, time_vars, kicked>>

-----------------------------------------------------------------------------
(* The association for the route: keep it, or drop it and dial.            *)

Refused ==
  \/ route.kind = "reject"
  \/ route.kind = "proxy" /\ route.handler \notin UdpHandlers

\* Direct: one socket for every direct target, anew after a proxy.
DirectDialsOnce == udp_conn = None
DirectNeedsDial == udp_conn = None \/ current_handler # None
\* Proxy: need_new_conn.
ProxyNeedsDial == current_handler # route.handler
NeedsDial == IF route.kind = "direct" THEN DirectNeedsDial ELSE ProxyNeedsDial

Refuse ==
  /\ pc = "outbound" /\ Refused
  /\ Continue
  /\ UNCHANGED <<buf_vars, route_cache, packet, route, conn_vars, err_vars, time_vars, kicked>>

KeepConn ==
  /\ pc = "outbound" /\ ~Refused /\ ~NeedsDial
  /\ pc' = "send"
  /\ UNCHANGED <<buf_vars, route_cache, packet, route, conn_vars, err_vars, time_vars, kicked>>

\* drop(udp_conn.take()); the direct branch also forgets the proxy.
StartDial ==
  /\ pc = "outbound" /\ ~Refused /\ NeedsDial
  /\ udp_conn' = None
  /\ current_handler' = IF route.kind = "direct" THEN None ELSE current_handler
  /\ pc' = "dialing"
  /\ UNCHANGED <<buf_vars, route_cache, packet, route, err_vars, time_vars, kicked>>

DialOk ==
  /\ pc = "dialing"
  /\ udp_conn' = route.handler
  /\ current_handler' = IF route.kind = "proxy" THEN route.handler ELSE current_handler
  /\ pc' = "send"
  /\ UNCHANGED <<buf_vars, route_cache, packet, route, err_vars, time_vars, kicked>>

\* The packet is dropped; current_handler stays as it is.
DialFails ==
  /\ pc = "dialing"
  /\ Continue
  /\ UNCHANGED <<buf_vars, route_cache, packet, route, conn_vars, err_vars, time_vars, kicked>>

-----------------------------------------------------------------------------
\* `if let Some(ref conn) = udp_conn`: without one the packet is dropped.
SendNowhere ==
  /\ pc = "send" /\ udp_conn = None
  /\ Continue
  /\ UNCHANGED <<buf_vars, route_cache, packet, route, conn_vars, err_vars, time_vars, kicked>>

SendOk ==
  /\ pc = "send" /\ udp_conn # None
  /\ idle' = 0 /\ send_errors' = 0
  /\ Continue
  /\ UNCHANGED <<buf_vars, route_cache, packet, route, conn_vars, recv_errors, next_tick, kicked>>

GivesUp(errors) == errors >= MaxErrors

SendFails ==
  /\ pc = "send" /\ udp_conn # None
  /\ send_errors' = send_errors + 1
  /\ IF GivesUp(send_errors + 1) THEN pc' = "closing" ELSE Continue
  /\ UNCHANGED <<buf_vars, route_cache, packet, route, conn_vars, recv_errors, time_vars, kicked>>

-----------------------------------------------------------------------------
(* The outbound arm: a datagram or an error from udp_conn.                 *)

RecvOk ==
  /\ pc = "select" /\ udp_conn # None
  /\ pc' = "reply"
  /\ UNCHANGED <<buf_vars, route_cache, packet, route, conn_vars, err_vars, time_vars, kicked>>

ReplyWritten ==
  /\ pc = "reply"
  /\ idle' = 0 /\ recv_errors' = 0
  /\ pc' = "select"
  /\ UNCHANGED <<buf_vars, route_cache, packet, route, conn_vars, send_errors, next_tick, kicked>>

\* A write error, or UDP_WRITE_TIMEOUT on a client that stopped reading.
ReplyFails ==
  /\ pc = "reply"
  /\ pc' = "closing"
  /\ UNCHANGED <<buf_vars, route_cache, packet, route, conn_vars, err_vars, time_vars, kicked>>

\* Followed by a 10 ms sleep inside the arm, too short to tell from none.
RecvFails ==
  /\ pc = "select" /\ udp_conn # None
  /\ recv_errors' = recv_errors + 1
  /\ pc' = IF GivesUp(recv_errors + 1) THEN "closing" ELSE "select"
  /\ UNCHANGED <<buf_vars, route_cache, packet, route, conn_vars, send_errors, time_vars, kicked>>

-----------------------------------------------------------------------------
(* The idle arm and the cancel arm.                                        *)

IdleExpiredLate == idle > IdleTimeout
IdleExpired == idle >= IdleTimeout

\* tokio's interval catches up after a late tick: the schedule is kept.
IdleTick ==
  /\ pc = "select" /\ next_tick <= 0
  /\ next_tick' = next_tick + Interval
  /\ pc' = IF IdleExpired THEN "closing" ELSE "select"
  /\ UNCHANGED <<buf_vars, route_cache, packet, route, conn_vars, err_vars, idle, kicked>>

\* The arm guarded like its neighbour: the token watched without an association only.
SeesCancelUnassociated == kicked /\ udp_conn = None
SeesCancel == kicked

ObserveCancel ==
  /\ pc = "select" /\ SeesCancel
  /\ pc' = "closing"
  /\ UNCHANGED <<buf_vars, route_cache, packet, route, conn_vars, err_vars, time_vars, kicked>>

\* close_client under CLOSE_TIMEOUT.
Close ==
  /\ pc = "closing"
  /\ pc' = "closed"
  /\ UNCHANGED <<buf_vars, route_cache, packet, route, conn_vars, err_vars, time_vars, kicked>>

Kick ==
  /\ ~kicked /\ pc # "closed"
  /\ kicked' = TRUE
  /\ UNCHANGED <<pc, buf_vars, route_cache, packet, route, conn_vars, err_vars, time_vars>>

\* A second passes: in select!, only once the interval's tick has been served;
\* in the body of an arm, while it awaits something outside the process.
\* Idle time and lateness are counted as far as the conditions tell them apart.
Awaits == {"routing", "dialing", "send", "reply"}
Forever == IdleTimeout + Interval
Tick ==
  /\ pc \in Awaits \/ (pc = "select" /\ next_tick > 0)
  /\ idle' = IF idle < Forever THEN idle + 1 ELSE idle
  /\ next_tick' = IF next_tick > -Interval THEN next_tick - 1 ELSE next_tick
  /\ UNCHANGED <<pc, buf_vars, route_cache, packet, route, conn_vars, err_vars, kicked>>

-----------------------------------------------------------------------------
ClientArm ==
  \/ TakeBuffered
  \/ \E new \in Chunks, fragments \in 0 .. BufLimit : ReadChunk(new, fragments)
  \/ ReadEnds
Process == ProcessDone \/ ProcessInvalid \/ RouteCached \/ RouteAwait \/ Refuse \/ KeepConn \/ StartDial
RouteAnswer == \E r \in Outbounds : Routed(r)
Dial  == DialOk \/ DialFails
Send  == SendNowhere \/ SendOk \/ SendFails
RecvArm == RecvOk \/ RecvFails
Reply == ReplyWritten \/ ReplyFails

Next ==
  \/ ClientArm \/ Process \/ RouteAnswer \/ Dial \/ Send
  \/ RecvArm \/ Reply \/ IdleTick \/ ObserveCancel \/ Close
  \/ Kick \/ Tick

\* Synchronous steps are taken; an await of the outbound or the router ends
\* (DNS and dialing have time limits of their own, outside this code), a reply
\* is bounded by UDP_WRITE_TIMEOUT; select! picks among ready arms at random,
\* so the cancel arm, once ready, is picked (SF).  Nothing is asked of the
\* client, the outbound or the clock.
Fairness ==
  /\ WF_vars(Process) /\ WF_vars(RouteAnswer) /\ WF_vars(Dial) /\ WF_vars(Send)
  /\ WF_vars(Reply) /\ WF_vars(Close) /\ SF_vars(ObserveCancel)

Spec     == Init /\ [][Next]_vars
FairSpec == Spec /\ Fairness

-----------------------------------------------------------------------------
PcValues == {"select", "process", "routing", "outbound", "dialing", "send", "reply",
             "closing", "closed"}

TypeOK ==
  /\ pc \in PcValues
  /\ read_buf \in Seq(Packets) /\ part \in 0 .. BufLimit
  /\ pending_buffered \in BOOLEAN
  /\ DOMAIN route_cache \subseteq Targets /\ Cardinality(DOMAIN route_cache) <= MaxCache
  /\ route_cache \in [DOMAIN route_cache -> Outbounds]
  /\ packet \in Targets \cup {None} /\ route \in Outbounds
  /\ udp_conn \in Handlers \cup {None}
  /\ current_handler \in (Handlers \ DirectHandlers) \cup {None}
  /\ recv_errors \in 0 .. MaxErrors /\ send_errors \in 0 .. MaxErrors
  /\ idle \in 0 .. Forever /\ next_tick \in -Interval .. Interval
  /\ kicked \in BOOLEAN

(* The state is well typed (the route cache within its limit, the error    *)
(* counts within theirs), and a packet routed to a proxy leaves through an *)
(* association that proxy dialed, one routed direct never through a proxy, *)
(* in whatever order targets alternate and dials fail (handler.rs:557-628).*)
NeverThroughAnotherProxy ==
  /\ TypeOK
  /\ pc = "send" /\ udp_conn # None =>
       /\ route.kind = "proxy" => udp_conn = route.handler
       /\ route.kind = "direct" => udp_conn \in DirectHandlers

(* The session never waits for the client while a complete packet of the   *)
(* client is in the buffer: a client that put its first packet behind the  *)
(* request and waits for the answer is served (handler.rs:499-504, 549).   *)
NoPacketLeftBehind ==
  pc = "select" /\ ~pending_buffered => read_buf = <<>>

(* A session that waits for the next idle check was not due at the last    *)
(* one: idle time is less than the timeout plus what has passed since that *)
(* check, so no session outlives its timeout by a whole period unless an   *)
(* await inside an arm holds it up (handler.rs:490-496, 723-729).          *)
IdleEnds ==
  pc = "select" /\ next_tick > 0 => idle < IdleTimeout + (Interval - next_tick)

(* A kicked session ends, even under a client that floods it with packets  *)
(* and an outbound that floods it with replies (handler.rs:732-741).       *)
KickedEnds == kicked ~> (pc = "closed")

-----------------------------------------------------------------------------
(* What a comment of handler.rs says and the code does not do.             *)

(* handler.rs:603: "Create new UDP connection if handler changed or not    *)
(* exists".                                                                *)
ConnExistsWhenSending == pc = "send" => udp_conn # None

=============================================================================
