-------------------------- MODULE UdpSessionProofs ---------------------------
(***************************************************************************)
(* What holds of a UDP ASSOCIATE session for every set of targets and      *)
(* handlers, every routing and every limit: the bounds of its cache and    *)
(* counters, the handler a packet leaves through, and that neither a       *)
(* buffered packet nor an expired session is overlooked.                   *)
(***************************************************************************)
EXTENDS UdpSession, FiniteSetTheorems, SequenceTheorems, TLAPS

-----------------------------------------------------------------------------
(* The inductive invariants.                                               *)

Ending == pc \in {"closing", "closed"}

\* TypeOK by parts, with the facts that keep each part so.
Flags == pc \in PcValues /\ pending_buffered \in BOOLEAN /\ kicked \in BOOLEAN

\* The packet being routed has a target.
Buffers ==
  /\ read_buf \in Seq(Packets) /\ part \in 0 .. BufLimit
  /\ packet \in Targets \cup {None}
  /\ pc = "routing" => packet \in Targets

\* The cache is finite and never over its limit.
Cache ==
  /\ DOMAIN route_cache \subseteq Targets
  /\ IsFiniteSet(DOMAIN route_cache) /\ Cardinality(DOMAIN route_cache) <= MaxCache
  /\ route_cache \in [DOMAIN route_cache -> Outbounds]
  /\ route \in Outbounds

Association ==
  /\ udp_conn \in Handlers \cup {None}
  /\ current_handler \in (Handlers \ DirectHandlers) \cup {None}

\* An error count reaches its limit only in the step that ends the session.
Counters ==
  /\ recv_errors \in 0 .. MaxErrors /\ send_errors \in 0 .. MaxErrors
  /\ ~Ending => recv_errors < MaxErrors /\ send_errors < MaxErrors
  /\ idle \in 0 .. Forever /\ next_tick \in -Interval .. Interval

Bookkeeping == Flags /\ Buffers /\ Cache /\ Association /\ Counters

\* What current_handler says about udp_conn: it may be stale while there is no
\* association, but an existing one is that proxy's, or without one a direct
\* outbound's.
HandlerKnown ==
  udp_conn # None => IF current_handler = None THEN udp_conn \in DirectHandlers
                                               ELSE udp_conn = current_handler

\* Where the code stands in the choice of the association.
DialStage ==
  /\ pc = "dialing" => udp_conn = None
  /\ pc \in {"dialing", "send"} => ~Refused /\ (route.kind = "direct" => current_handler = None)
  /\ pc = "send" => (route.kind = "proxy" => current_handler = route.handler)

AssociationInv == HandlerKnown /\ DialStage

\* Complete packets stay in the buffer only while they are being processed, or
\* before the first read.
BufferDrained == pc \in {"select", "reply"} /\ ~pending_buffered => read_buf = <<>>

\* At the last idle check the session was not due, wherever it is now.
NotDue == ~Ending /\ next_tick > 0 => idle < IdleTimeout + (Interval - next_tick)

-----------------------------------------------------------------------------
(* The parts of the type invariant.                                        *)

\* A read delivers a sequence of packets.
LEMMA ChunksAreSequences == Chunks \subseteq Seq(Packets)
<1> SUFFICES ASSUME NEW c \in Chunks PROVE c \in Seq(Packets)
  OBVIOUS
<1>1. CASE c = <<>>
  BY <1>1
<1>2. ASSUME NEW a \in Packets, c = <<a>> PROVE c \in Seq(Packets)
  BY <1>2
<1>3. ASSUME NEW a \in Packets, NEW b \in Packets, c = <<a, b>> PROVE c \in Seq(Packets)
  BY <1>3
<1>4. QED
  BY <1>1, <1>2, <1>3 DEF Chunks

\* The session starts in select! with the initial payload in the buffer.
LEMMA InitBookkeeping == Init => Bookkeeping
<1> SUFFICES ASSUME Init PROVE Bookkeeping
  OBVIOUS
<1>1. Flags
  <2>1. pending_buffered \in BOOLEAN
    BY Zenon DEF Init, StartsPending
  <2>2. QED
    BY <2>1 DEF Init, Flags, PcValues
<1>2. Buffers
  BY ChunksAreSequences, BoundsAssumption DEF Init, Buffers
<1>3. Cache
  <2>1. DOMAIN route_cache = {}
    BY DEF Init
  <2>2. IsFiniteSet(DOMAIN route_cache) /\ Cardinality(DOMAIN route_cache) = 0
    BY <2>1, FS_EmptySet
  <2>3. QED
    BY <2>1, <2>2, BoundsAssumption DEF Init, Cache, Outbounds
<1>4. Association
  BY DEF Init, Association
<1>5. Counters
  BY BoundsAssumption DEF Init, Counters, Ending, Forever
<1>6. QED
  BY <1>1, <1>2, <1>3, <1>4, <1>5 DEF Bookkeeping

\* The code stays within the stages of the loop.
LEMMA NextFlags ==
  ASSUME Flags, [Next]_vars
  PROVE  Flags'
<1>1. pc' \in PcValues
  BY DEF Flags, PcValues, Next, ClientArm, Process, RouteAnswer, Dial, Send, RecvArm, Reply,
     TakeBuffered, ReadEnds, ProcessDone, ProcessInvalid, RouteCached, RouteAwait, Refuse,
     KeepConn, StartDial, DialOk, DialFails, SendNowhere, SendOk, SendFails, RecvOk, RecvFails,
     ReplyWritten, ReplyFails, IdleTick, ObserveCancel, Close, Kick, Tick, ReadChunk, Routed,
     Continue, vars, buf_vars, conn_vars, err_vars, time_vars
<1>2. pending_buffered' \in BOOLEAN /\ kicked' \in BOOLEAN
  BY Zenon DEF Flags, Next, ClientArm, Process, RouteAnswer, Dial, Send, RecvArm, Reply,
     TakeBuffered, ReadEnds, ProcessDone, ProcessInvalid, RouteCached, RouteAwait, Refuse,
     KeepConn, StartDial, DialOk, DialFails, SendNowhere, SendOk, SendFails, RecvOk, RecvFails,
     ReplyWritten, ReplyFails, IdleTick, ObserveCancel, Close, Kick, Tick, ReadChunk, Routed,
     Continue, vars, buf_vars, conn_vars, err_vars, time_vars
<1>3. QED
  BY <1>1, <1>2 DEF Flags

\* Reads append to the buffer, every packet taken out of it has a target.
LEMMA NextBuffers ==
  ASSUME Flags, Buffers, Cache, [Next]_vars
  PROVE  Buffers'
<1> USE BoundsAssumption DEF Buffers
<1>1. ASSUME NEW new \in Chunks, NEW fragments \in 0 .. BufLimit, ReadChunk(new, fragments) PROVE Buffers'
  BY <1>1, ChunksAreSequences, ConcatProperties DEF ReadChunk
<1>2. CASE RouteCached
  <2>1. read_buf # <<>> /\ Head(read_buf) \in Targets
    BY <1>2 DEF RouteCached, Cache
  <2>2. Tail(read_buf) \in Seq(Packets)
    BY <2>1, HeadTailProperties
  <2>3. QED
    BY <1>2, <2>1, <2>2 DEF RouteCached
<1>3. CASE RouteAwait
  <2>1. read_buf # <<>> /\ Head(read_buf) \in Targets
    BY <1>3 DEF RouteAwait
  <2>2. Tail(read_buf) \in Seq(Packets)
    BY <2>1, HeadTailProperties
  <2>3. QED
    BY <1>3, <2>1, <2>2 DEF RouteAwait
<1>4. CASE ProcessDone
  BY <1>4 DEF ProcessDone, buf_vars
<1>5. CASE UNCHANGED <<read_buf, part, packet>> /\ pc' # "routing"
  BY <1>5
<1>6. CASE UNCHANGED <<read_buf, part, packet, pc>>
  BY <1>6
<1>7. QED
  BY <1>1, <1>2, <1>3, <1>4, <1>5, <1>6 DEF Next, ClientArm, Process, RouteAnswer, Dial, Send,
     RecvArm, Reply, TakeBuffered, ReadEnds, ProcessDone, ProcessInvalid, RouteCached,
     RouteAwait, Refuse, KeepConn, StartDial, DialOk, DialFails, SendNowhere, SendOk, SendFails,
     RecvOk, RecvFails, ReplyWritten, ReplyFails, IdleTick, ObserveCancel, Close, Kick, Tick,
     ReadChunk, Routed, Continue, vars, buf_vars, conn_vars, err_vars, time_vars

\* The cache is emptied before it would outgrow its limit (handler.rs:573-581).
LEMMA NextCache ==
  ASSUME Buffers, Cache, [Next]_vars
  PROVE  Cache'
<1>1. ASSUME NEW r \in Outbounds, Routed(r) PROVE Cache'
  <2>1. packet \in Targets
    BY <1>1 DEF Routed, Buffers
  <2>2. IsFiniteSet(Evicted) /\ Cardinality(Evicted) \in Nat /\ Cardinality(Evicted) < MaxCache
    <3>1. CASE Cardinality(DOMAIN route_cache) >= MaxCache
      BY <3>1, FS_EmptySet, BoundsAssumption DEF Evicted
    <3>2. CASE ~(Cardinality(DOMAIN route_cache) >= MaxCache)
      BY <3>2, FS_CardinalityType, BoundsAssumption DEF Evicted, Cache
    <3>3. QED
      BY <3>1, <3>2
  <2>3. /\ IsFiniteSet(Evicted \cup {packet})
        /\ Cardinality(Evicted \cup {packet}) <= Cardinality(Evicted) + 1
    BY <2>2, FS_AddElement
  <2>4. Cardinality(Evicted \cup {packet}) <= MaxCache
    BY <2>2, <2>3, FS_CardinalityType, BoundsAssumption
  <2>5. DOMAIN route_cache' = Evicted \cup {packet}
    BY <1>1 DEF Routed
  <2>6. Evicted \subseteq DOMAIN route_cache
    BY DEF Evicted
  <2>7. route_cache' \in [Evicted \cup {packet} -> Outbounds]
    BY <1>1, <2>6 DEF Routed, Cache
  <2>8. Evicted \cup {packet} \subseteq Targets
    BY <2>1, <2>6 DEF Cache
  <2>9. QED
    BY <1>1, <2>3, <2>4, <2>5, <2>7, <2>8 DEF Routed, Cache
<1>2. CASE RouteCached
  BY <1>2 DEF RouteCached, Cache
<1>3. CASE UNCHANGED <<route_cache, route>>
  BY <1>3 DEF Cache
<1>4. QED
  BY <1>1, <1>2, <1>3 DEF Next, ClientArm, Process, RouteAnswer, Dial, Send, RecvArm, Reply,
     TakeBuffered, ReadEnds, ProcessDone, ProcessInvalid, RouteCached, RouteAwait, Refuse,
     KeepConn, StartDial, DialOk, DialFails, SendNowhere, SendOk, SendFails, RecvOk, RecvFails,
     ReplyWritten, ReplyFails, IdleTick, ObserveCancel, Close, Kick, Tick, ReadChunk, Routed,
     Continue, vars, buf_vars, conn_vars, err_vars, time_vars

\* Associations are dialed by handlers, current_handler is a proxy.
LEMMA NextAssociation ==
  ASSUME Flags, Cache, Association, DialStage, [Next]_vars
  PROVE  Association'
<1> USE HandlersAssumption DEF Association
<1>1. CASE StartDial
  BY <1>1 DEF StartDial
<1>2. CASE DialOk
  <2>1. route.handler \in Handlers
    BY DEF Cache, Outbounds, Reject
  <2>2. route.kind = "proxy" => route.handler \in Handlers \ DirectHandlers
    BY DEF Cache, Outbounds, Reject
  <2>3. QED
    BY <1>2, <2>1, <2>2 DEF DialOk
<1>3. CASE UNCHANGED <<udp_conn, current_handler>>
  BY <1>3
<1>4. QED
  BY <1>1, <1>2, <1>3 DEF Next, ClientArm, Process, RouteAnswer, Dial, Send, RecvArm, Reply,
     TakeBuffered, ReadEnds, ProcessDone, ProcessInvalid, RouteCached, RouteAwait, Refuse,
     KeepConn, StartDial, DialOk, DialFails, SendNowhere, SendOk, SendFails, RecvOk, RecvFails,
     ReplyWritten, ReplyFails, IdleTick, ObserveCancel, Close, Kick, Tick, ReadChunk, Routed,
     Continue, vars, buf_vars, conn_vars, err_vars, time_vars

\* A session with too many errors in a row ends; lateness and idle time are counted
\* as far as they matter.
LEMMA NextCounters ==
  ASSUME Flags, Counters, [Next]_vars
  PROVE  Counters'
<1> USE BoundsAssumption DEF Counters, Ending, Forever
<1>1. CASE SendOk
  BY <1>1 DEF SendOk, Continue
<1>2. CASE SendFails
  BY <1>2 DEF SendFails, Continue, GivesUp, time_vars
<1>3. CASE ReplyWritten
  BY <1>3 DEF ReplyWritten, err_vars
<1>4. CASE RecvFails
  BY <1>4 DEF RecvFails, GivesUp, time_vars
<1>5. CASE IdleTick
  BY <1>5 DEF IdleTick, err_vars
<1>6. CASE Tick
  BY <1>6 DEF Tick, err_vars, Awaits
<1>7. CASE UNCHANGED <<recv_errors, send_errors, idle, next_tick, pc>>
  BY <1>7
<1>8. CASE UNCHANGED <<recv_errors, send_errors, idle, next_tick>> /\ ~Ending
  BY <1>8
<1>9. CASE Close
  BY <1>9 DEF Close, err_vars, time_vars
<1>10. QED
  BY <1>1, <1>2, <1>3, <1>4, <1>5, <1>6, <1>7, <1>8, <1>9 DEF Next, ClientArm, Process,
     RouteAnswer, Dial, Send, RecvArm, Reply, TakeBuffered, ReadEnds, ProcessDone,
     ProcessInvalid, RouteCached, RouteAwait, Refuse, KeepConn, StartDial, DialOk, DialFails,
     SendNowhere, SendOk, SendFails, RecvOk, RecvFails, ReplyWritten, ReplyFails, IdleTick,
     ObserveCancel, Close, Kick, Tick, ReadChunk, Routed, Continue, vars, buf_vars, conn_vars,
     err_vars, time_vars

-----------------------------------------------------------------------------
(* The association, the buffer and the idle check.                         *)

\* There is no association at the start, and nothing left to process.
LEMMA InitRest == Init => AssociationInv /\ BufferDrained /\ NotDue
<1> SUFFICES ASSUME Init PROVE AssociationInv /\ BufferDrained /\ NotDue
  OBVIOUS
<1>1. AssociationInv /\ NotDue
  BY DEF Init, AssociationInv, HandlerKnown, DialStage, NotDue
<1>2. BufferDrained
  BY Zenon DEF Init, BufferDrained, StartsPending
<1>3. QED
  BY <1>1, <1>2

\* The association is replaced whenever the route asks for another handler, a failed
\* dial in between included (handler.rs:583-628).
LEMMA NextAssociationInv ==
  ASSUME Cache, Association, AssociationInv, [Next]_vars
  PROVE  AssociationInv'
<1> USE HandlersAssumption, NamesAssumption DEF AssociationInv, HandlerKnown, DialStage
<1>1. CASE KeepConn
  <2>1. UNCHANGED <<route, udp_conn, current_handler>> /\ pc' = "send" /\ ~Refused /\ ~NeedsDial
    BY <1>1 DEF KeepConn, conn_vars
  <2>2. ~Refused'
    BY <2>1 DEF Refused
  <2>3. route.kind = "direct" => current_handler = None
    BY <2>1 DEF NeedsDial, DirectNeedsDial
  <2>4. route.kind = "proxy" => current_handler = route.handler
    BY <2>1 DEF NeedsDial, ProxyNeedsDial
  <2>5. QED
    BY <2>1, <2>2, <2>3, <2>4
<1>2. CASE StartDial
  BY <1>2 DEF StartDial, Refused
<1>3. CASE DialOk
  <2>1. UNCHANGED route /\ pc' = "send" /\ pc = "dialing" /\ udp_conn' = route.handler
        /\ current_handler' = IF route.kind = "proxy" THEN route.handler ELSE current_handler
    BY <1>3 DEF DialOk
  <2>2. ~Refused /\ ~Refused'
    BY <2>1 DEF Refused
  <2>3. CASE route.kind = "proxy"
    <3>1. route.handler # None
      BY <2>3 DEF Cache, Outbounds, Reject
    <3>2. QED
      BY <2>1, <2>2, <2>3, <3>1
  <2>4. CASE route.kind = "direct"
    <3>1. route.handler \in DirectHandlers
      BY <2>4 DEF Cache, Outbounds, Reject
    <3>2. QED
      BY <2>1, <2>2, <2>4, <3>1
  <2>5. QED
    BY <2>2, <2>3, <2>4 DEF Cache, Outbounds, Reject, Refused
<1>4. CASE UNCHANGED <<udp_conn, current_handler>> /\ pc' \notin {"dialing", "send"}
  BY <1>4
<1>5. CASE UNCHANGED <<pc, udp_conn, current_handler, route>>
  BY <1>5 DEF Refused
<1>6. QED
  BY <1>1, <1>2, <1>3, <1>4, <1>5 DEF Next, ClientArm, Process, RouteAnswer, Dial, Send,
     RecvArm, Reply, TakeBuffered, ReadEnds, ProcessDone, ProcessInvalid, RouteCached,
     RouteAwait, Refuse, KeepConn, StartDial, DialOk, DialFails, SendNowhere, SendOk, SendFails,
     RecvOk, RecvFails, ReplyWritten, ReplyFails, IdleTick, ObserveCancel, Close, Kick, Tick,
     ReadChunk, Routed, Continue, vars, buf_vars, conn_vars, err_vars, time_vars

\* select! is reached with packets in the buffer only before the sentinel is taken
\* (handler.rs:499-504, 549).
LEMMA NextBufferDrained ==
  ASSUME Flags, BufferDrained, [Next]_vars
  PROVE  BufferDrained'
<1> USE DEF BufferDrained
<1>1. CASE ProcessDone
  BY <1>1 DEF ProcessDone, buf_vars
<1>2. CASE pc' \notin {"select", "reply"}
  BY <1>2
<1>3. CASE pc \in {"select", "reply"} /\ UNCHANGED <<pending_buffered, read_buf>>
  BY <1>3, Zenon
<1>4. CASE UNCHANGED <<pc, pending_buffered, read_buf>>
  BY <1>4
<1>5. QED
  BY <1>1, <1>2, <1>3, <1>4 DEF Next, ClientArm, Process, RouteAnswer, Dial, Send, RecvArm,
     Reply, TakeBuffered, ReadEnds, ProcessDone, ProcessInvalid, RouteCached, RouteAwait,
     Refuse, KeepConn, StartDial, DialOk, DialFails, SendNowhere, SendOk, SendFails, RecvOk,
     RecvFails, ReplyWritten, ReplyFails, IdleTick, ObserveCancel, Close, Kick, Tick, ReadChunk,
     Routed, Continue, vars, buf_vars, conn_vars, err_vars, time_vars

\* Idle time and the countdown to the next check advance together, and a session
\* found due is closed (handler.rs:490-496, 723-729).
LEMMA NextNotDue ==
  ASSUME Counters, NotDue, [Next]_vars
  PROVE  NotDue'
<1> USE BoundsAssumption DEF NotDue, Counters, Ending, Forever
<1>1. CASE SendOk
  BY <1>1 DEF SendOk, Continue
<1>2. CASE ReplyWritten
  BY <1>2 DEF ReplyWritten
<1>3. CASE IdleTick
  BY <1>3 DEF IdleTick, IdleExpired
<1>4. CASE Tick
  BY <1>4 DEF Tick, Awaits
<1>5. CASE UNCHANGED <<idle, next_tick, pc>>
  BY <1>5
<1>6. CASE UNCHANGED <<idle, next_tick>> /\ (~Ending \/ pc' = "closed")
  BY <1>6
<1>7. QED
  BY <1>1, <1>2, <1>3, <1>4, <1>5, <1>6 DEF Next, ClientArm, Process, RouteAnswer, Dial, Send,
     RecvArm, Reply, TakeBuffered, ReadEnds, ProcessDone, ProcessInvalid, RouteCached,
     RouteAwait, Refuse, KeepConn, StartDial, DialOk, DialFails, SendNowhere, SendOk, SendFails,
     RecvOk, RecvFails, ReplyWritten, ReplyFails, IdleTick, ObserveCancel, Close, Kick, Tick,
     ReadChunk, Routed, Continue, vars, buf_vars, conn_vars, err_vars, time_vars

-----------------------------------------------------------------------------
(* The theorems.                                                           *)

SessionInv == Bookkeeping /\ AssociationInv /\ BufferDrained /\ NotDue

\* The invariants together.
LEMMA SessionInvHolds == Spec => []SessionInv
<1>1. Init => SessionInv
  BY InitBookkeeping, InitRest DEF SessionInv
<1>2. SessionInv /\ [Next]_vars => SessionInv'
  <2> SUFFICES ASSUME SessionInv, [Next]_vars PROVE SessionInv'
    OBVIOUS
  <2>1. DialStage
    BY DEF SessionInv, AssociationInv
  <2>2. Bookkeeping'
    BY <2>1, NextFlags, NextBuffers, NextCache, NextAssociation, NextCounters DEF SessionInv,
       Bookkeeping
  <2>3. AssociationInv' /\ BufferDrained' /\ NotDue'
    BY NextAssociationInv, NextBufferDrained, NextNotDue DEF SessionInv, Bookkeeping
  <2>4. QED
    BY <2>2, <2>3 DEF SessionInv
<1>3. QED
  BY <1>1, <1>2, PTL DEF Spec

\* For any targets, handlers and answers of the router, in any order and with any
\* dials failing, a packet routed to a proxy leaves through that proxy's
\* association and one routed direct through a direct one; the route cache and the
\* error counts keep their limits (handler.rs:557-628).
THEOREM NeverThroughAnother == Spec => []NeverThroughAnotherProxy
<1>1. SessionInv => TypeOK
  BY DEF SessionInv, Bookkeeping, Flags, Buffers, Cache, Association, Counters, TypeOK
<1>2. ASSUME SessionInv, pc = "send", udp_conn # None
      PROVE  /\ route.kind = "proxy" => udp_conn = route.handler
             /\ route.kind = "direct" => udp_conn \in DirectHandlers
  <2>1. HandlerKnown /\ DialStage /\ Cache
    BY <1>2 DEF SessionInv, AssociationInv, Bookkeeping
  <2>2. route.kind = "proxy" => route.handler # None
    BY <2>1, HandlersAssumption, NamesAssumption DEF Cache, Outbounds, Reject
  <2>3. QED
    BY <1>2, <2>1, <2>2 DEF HandlerKnown, DialStage
<1>3. SessionInv => NeverThroughAnotherProxy
  BY <1>1, <1>2 DEF NeverThroughAnotherProxy
<1>4. QED
  BY <1>3, SessionInvHolds, PTL

\* However packets are split and glued by the stream, select! never waits for the
\* client while a complete packet is in the buffer (handler.rs:499-504, 549).
THEOREM NoPacketIsLeftBehind == Spec => []NoPacketLeftBehind
<1>1. SessionInv => NoPacketLeftBehind
  BY DEF SessionInv, BufferDrained, NoPacketLeftBehind
<1>2. QED
  BY <1>1, SessionInvHolds, PTL

\* For every timeout and every period, a session that waits for its next idle check
\* was not due at the last one (handler.rs:490-496, 723-729).
THEOREM IdleSessionsEnd == Spec => []IdleEnds
<1>1. SessionInv => IdleEnds
  BY DEF SessionInv, NotDue, Ending, IdleEnds
<1>2. QED
  BY <1>1, SessionInvHolds, PTL

=============================================================================
