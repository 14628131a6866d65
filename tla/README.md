# Verification of server-trojan-rs

TLA+ modules for the Trojan proxy server, from the command line and the client's
first byte to the dialed target and the process's exit; TLC configurations that
check them on small instances; and proofs, checked by TLAPS, that most of the checked
properties hold for every value of the constants.
`PROJECT.json` holds the map from definitions to source lines, the runs, the
mutants that show each property can fail, the hazards and the findings.
Source paths below are relative to the crate's `src/` directory.

## 1. The system

The server registers itself as a node with a panel, accepts clients over TCP,
WebSocket or gRPC (with or without TLS), authenticates them against the panel's
user list, routes their requests, relays the data and reports the traffic.

| Component | State | Operations | Talks to |
|---|---|---|---|
| Registry (`core/connection.rs`) | two DashMaps, an id counter, a token per connection | `register`, `unregister`, `kick_user`, `cancel_all` | called by connection tasks, user sync, shutdown |
| Connection handling (`handler.rs`) | per task: user, id, token, guard that unregisters | read request, authenticate, register, route, dial, relay or UDP | registry, panel, router, transports |
| TCP relay (`core/relay.rs`) | two buffers, half-close and idle timers, billing counters | one poll closure over read/write/flush/shutdown | both streams, statistics |
| UDP associate (`handler.rs`) | read buffer, route cache, one association, error counters | a `select!` of client, outbound, idle check, cancel token | router, outbounds |
| Process lifecycle (`main.rs`, `business/mod.rs`, `server_runner.rs`) | registration, collector, background tasks | start-up, accept loop, shutdown sequence, `flush_traffic` | panel, registry |
| gRPC connection (`transport/grpc/connection.rs`, `heartbeat.rs`) | permits, stream count, idle ticks, PING state | accept, heartbeat, idle tick, cancellation | h2, stream tasks |
| gRPC stream (`transport/grpc/transport.rs`, `codec.rs`) | read buffers, window debt, send queue, half-sent frame | `poll_read`, `poll_write`, `poll_flush`, `poll_shutdown` | h2, relay |
| WebSocket stream (`transport/ws.rs`) | sink state, leftover read data | the same four polls over messages | tungstenite, relay |
| Protocol decoder (`core/protocol.rs`) | none | `check_complete`, `decode_zerocopy`, UDP framing | handler |
| Routing and DNS (`core/hooks.rs`, `core/dns.rs`, `core/ip_filter.rs`, `acl.rs`) | outbounds, compiled rules, resolver cache | load, match, `route`, address screening, dial order | handler |
| Limits (`config_auto.rs`) | none | derive `max_connections` from rlimit and memory | main |
| Configuration (`config.rs`), TLS, sockets | none after start-up | parse, validate, `from_remote`, load, bind | main |
| Logging, errors | none the control depends on | | all |

What is hard here, and untested by the repository's unit tests: calls that touch
two maps while other threads walk them; a user removed while its connection is
between authentication and registration; a poll function that returns `Pending`
from several places; a future that is dropped at any await by a kick; timers that
race late data; flow-control debts; awaits inside a `select!` arm; a shutdown that
overlaps a background report; answers of the panel that are lost; requests cut at
any byte; a sink that is blocked when the close begins; a resolver that answers
differently the second time; numbers that pass validation and break a timer. The full list,
with the property that would catch each, is under "hazards" in `PROJECT.json`.

## 2. Modules

Every module names its variables after the fields and locals of the code. A `pc`
stands for the place in an async function between two awaits.

**ConnectionManager** - `connections`, `user_connections`, `next_conn_id` and the
tokens of `core/connection.rs`, with their three callers. A DashMap operation on
one key is atomic; a call that needs two is two steps (`RegisterConn` then
`RegisterIndex`, and so on), and the guard that
`kick_user` holds across its loop is modelled (`kicking`, `visiting`): the key's
writers wait. `cancel_all` goes shard by shard. Tasks follow `process_connection`:
authenticate, register, dial (token not watched), relay, unregister through the
scope guard. User synchronisation changes uuids or removes users and kicks the
diff.

**Relay** - `ConnectContext::relay` and `copy_bidirectional_with_stats`. One step
is one `poll_read`, `poll_write`, `poll_flush` or `poll_shutdown` of `poll_copy`;
what follows both directions inside the closure (arming the half-close timer,
billing, resetting and testing timers) only touches locals and is one step,
`Account`. Bytes are numbered, so a byte at the wrong place is visible. A sink
may hold accepted bytes back until it is flushed (`SinkCap`), as the WebSocket and
gRPC transports do. Peers send, close, stall, resume, reset; the token is
cancelled; time passes while the task is parked. Wake-ups are explicit (`waits`,
`woken`): a poll that no event wakes stays parked.

**UdpSession** - `handle_udp_associate`. While an arm's body awaits, the other arms
are not looked at, so `pc` is "select" only between two bodies. The route cache
with its eviction, the association and `current_handler`, both error counters,
the read-buffer limit, the idle interval (with missed ticks) and the cancel arm
are modelled. Targets, handlers and routes are model values; a route lookup may
answer differently each time.

**Lifecycle** - `main`, from the panel's configuration to the exit, the accept
loop, connections that record traffic, and the background reporter. The reporter
and the panel belong to panel-core, outside the repository; they are modelled from
how `business/mod.rs` and `main.rs` use them and marked external.
`cancel_all` is one step here, since ConnectionManager has it in detail.

**GrpcConnection** - the permits of `server_runner.rs`, `GrpcConnection::run` and
the heartbeat. Other connections are a number of permits that changes at any
time. Heartbeat and idle timer are independent clocks.

**GrpcTransport** - one gRPC stream. Every `poll_data`, `send_data` and
`poll_capacity` is a step, the peer acts in between. A frame is a header of
`HeaderLen` bytes and a body of tag and data bytes, so that what the codec tells
apart (several fields per message, an empty message, an oversized, compressed or
malformed one, a cut inside header or body) exists while varint arithmetic is
abstracted to well-formed or malformed.

**WsTransport** - `transport/ws.rs` over a tungstenite stream: `accept` with early
data, then one step per `poll_next`, `poll_ready`, `start_send` and `poll_flush`.
tungstenite is modelled from its use: `out_buffer`, the reply to a Close, the
limits `ws_config_for` gives it.

**TrojanProtocol** - `core/protocol.rs` as operators on byte sequences.

**Inbound** composes the two under `read_trojan_request`, a relay or the packet
loop of a UDP session, and `close_client`. The client's side is an *intent* (a
request, packets, possibly damaged) and its encoding, written from the protocol;
the stream reaches the server in messages cut anywhere.

**Outbound** - from a decoded target to a connection: `AclEngine::new`,
`route_with_protocol` and `DirectRouter`, `ip_filter.rs` on real addresses,
screening, `ResolvedAddrs`, the candidates of `handle_direct_connect`,
`dial_via_handler`, the payload, the relay's end and the close, with a kick at any
time. A name is a sequence of labels, each one of those that `is_numeric_host` and
`is_localhost_name` look for or a word. Rule matching, resolver and sockets answer as
they like; what an outbound handler dials within its one `dial_tcp`, `dial_udp` or
`write_to` is the library's affair (`HandlerDials`), and its answer is final.

**Startup** - from `CliArgs` to a listening server: `validate`, `from_remote`,
`normalize_ws_path`, `compute_auto` and `resolve`, the limiter, the bind; and then
what each accepted number does to the code that uses it (`UseConfig`), which is where
a check that is missing in `validate` would show. `AcceptsPath` is the comparison of
`ws::accept`, with the percent-decoding of the request's path.

**BytePipe** is the abstract specification of one direction of a connection: the
reader gets a growing prefix of what was written and is told of the end only after
the close and the last byte. Relay (`Pipes`), GrpcTransport (`Pipes`) and
WsTransport (`WsPipes`) are each checked and proved to implement two of them, one per
direction. For the relay "received" is what the other side's writer accepted and
"ended" a finished direction; for the transports it is what `poll_read` returned,
and what reached the wire.

**MC\*** modules only supply constants a cfg file cannot write. **Filtering** defines
`Only`, the elements of a sequence that belong to a set: `SelectSeq` as something a
proof can expand. The theorems are in **InboundProofs** (Inbound, with WsTransport and
TrojanProtocol), **GrpcTransportProofs**, **RelayProofs**, **UdpSessionProofs**,
**OutboundProofs**, **ConnectionProofs** (ConnectionManager and GrpcConnection) and
**ProcessProofs** (Startup and Lifecycle); **SequenceLemmas** holds what the first two
need to know about `FlattenSeq`, `Only`, pieces of sequences and rising sequences.

How the modules fit together: Startup leads to Lifecycle's accept loop;
GrpcConnection, GrpcTransport and WsTransport are the transports Inbound reads
from; ConnectionManager is the registration every session goes through; Outbound
takes the request Inbound decoded and ends in Relay, or in UdpSession, whose
routes it explains. Where a module stands beside another it takes the other's
behaviour as arbitrary (a route is any member of a set, a session writes whenever
it likes), so each holds whatever its neighbours do.

## 3. Runs

| Run | Instance | Shows |
|---|---|---|
| `connection_manager` | 2 tasks, 2 users, 2 uuids, 2 shards | `MapsExact`: both maps hold exactly the ids between insert and remove. `KickCoversIndexed`: a kick cancels every connection whose `register()` had returned. `OutdatedAreKickedOrOvertaken`: after a sync only connections caught between authentication and registration outlive their user. `OnlyOwnersAreKicked`, `CancelAllCovers` |
| `relay` | payload of 1 into a sink holding 1 back, 2 bytes down, 2-byte buffer, client without half-close | `Pipes`: each direction implements BytePipe. `BilledWhenDropped`, `NothingCutOff`, `NoLostWakeup`, `NoTimeoutOnProgress`; `RelayEnds` whatever the peers do, once the payload is written |
| `udp_session` | 3 targets over two direct outbounds or rejection and two proxies, cache of 2 | `NeverThroughAnotherProxy` (and the cache's limit), `NoPacketLeftBehind`, `IdleEnds`, `KickedEnds` |
| `lifecycle` | 2 connections, 3 traffic units, 2 reports | `TrafficConserved`, `NoNodeLeftRegistered`, `LeftBehindIsExplained`, `StopLeadsToExit` |
| `grpc_connection` | 2 streams, 3 permits | `AccountsExact` (permits and stream count), `DeadMeansSilent`, `SilenceIsNoticed`, `IdleWindow`, `StreamsEndWithConnection` |
| `grpc_transport` | 5 scripts of frames, window 6, queue 3, 4 bytes written | `Pipes`; `FlowControl`: window debt and queue are exact and no reader starves; `NoLostWakeup`; `TrailersComplete` |
| `inbound` | 13 intents, password of 2 bytes, addresses of 2 and 3, buffer 13 | `RequestFaithful`: what was meant is decoded however it is cut, what is decoded stands in the stream, `unreachable!()` is not reached. `PacketsIntact`, `WsPipes`, `ShutdownSendsClose`, `WritesSurviveBackpressure` |
| `outbound` | corners of all private ranges in all embeddings; all names of up to 2 labels and some of 3; 6 targets under 10 outbound lists, 4 rules, hijack; answers of up to 3 addresses | `NoPrivateDialed` against the ranges as a table of networks and the names for this host as a list of their own, `NoDnsLeak`, `KickedEnds`; `EveryFamilyTried`: a plain connect tries each answered family, the preferred first |
| `startup` | each option at its boundaries, all paths of up to 4 characters, escaped ones too, hosts up to saturation | `AcceptedIsUsable`: nothing that `validate` lets through ends sessions at once, overflows or panics, except that a `buffer_size` below 34 refuses every request; a client that sends the panel's path verbatim is let in exactly when the path holds no percent escape. `AutoIsSafe`: the automatic limit is the largest that fits |
| three violation runs | see section 6 | a comment or an option's help text that the code does not follow |

The type invariant of a module (`TypeOK`) is a conjunct of its first invariant, except in
ConnectionManager, where it is a property of its own because it is also proved. To repeat
a run: `tlc -config X.cfg M` with the module and cfg `PROJECT.json` names;
`tlapm M.tla` for the proofs of module M.

**Bounds.** Two tasks are what every race of the registry needs (one entering or
leaving while another of the same user, or a walk, is under way); two shards make
the walk interruptible; two uuids let a user be re-keyed. The relay's two-byte
buffer and two bytes down make the buffer full, partly written, wrapped to its start
and appended to by the probe read. `poll_copy` is the same code in both directions,
so the upload carries only its payload (which must not be sent or billed twice) and
its end, through a sink that holds bytes back. One tick per timer suffices since
only their order matters. In UdpSession a cache of two under three targets
overflows, and two consecutive errors are both reached and reset. MaxTraffic 3 and
2 reports let a report overlap the final flush and fail before it. Three permits,
two streams and the competing connections make the semaphore run dry at each place
it is asked. In GrpcTransport a 4-byte frame limit and a 6-byte window are the
smallest that admit a frame of two fields and refuse one of five bytes; the queue
of three is passed by two frames, and a read of one byte leaves the rest of a payload
buffered. In Inbound the lengths shrink in proportion
(`MIN_SIZE` stays the size of a request for an IPv4 address, above one for an empty
name); a message takes at most two bytes or all the rest (`MaxCut`), and one is in
flight at a time: the cuts, not the queue, are what the decoder sees. Startup
counts two ticks to the second, so a duration below a second exists, and saturates
at 2^31 - 1 instead of 2^64 - 1; the constants of `config_auto.rs` and `MIN_SIZE` are
the code's, and `MAX_BUFFER_SIZE` is lowered to 128, still above the 34 bytes where a
request begins to fit.

**CHECK_DEADLOCK FALSE** is set everywhere because every model describes something
that ends (a connection, a session, the process), or stops when a bound is used up.
Absence of hangs is stated as liveness or as a wake-up invariant instead.

## 4. Fairness

- Relay: a woken task is polled and runs what is ready (weak fairness); time passes
  although the task keeps leaving the parked state (strong fairness of `Tick`).
  Nothing is assumed of the peers: they may stall for ever. No kick is needed.
- Outbound: lookups end (the resolver's own timeout), attempts end because
  `connect_timeout` bounds them, the relay polls its token. Nothing makes an attempt
  succeed, and the write of the initial payload need not end: `KickedEnds` names it
  as the one place a kicked session can stay.
- UdpSession: awaits inside an arm end, and `select!`, which starts at a random
  arm, serves a ready cancel arm that keeps being ready (strong fairness).
- Lifecycle: main's steps and the reporter's pending submission end (HTTP
  timeouts). Connections need not end: the drain deadline bounds them.
- GrpcConnection: timers and the tasks' own steps. Neither the peer nor the sessions need to do
  anything.

## 5. Proofs

Each theorem holds for any value of the constants that satisfies the named assumptions.
All but five state a property of a run:

| Module | Theorem | Property |
|---|---|---|
| InboundProofs | `RequestFaithfulHolds` | `RequestFaithful` |
| | `PacketsIntactHolds` | `PacketsIntact` |
| | `ShutdownSendsCloseHolds` | `ShutdownSendsClose` |
| | `WritesSurviveBackpressureHolds` | `WritesSurviveBackpressure` |
| | `WsImplementsPipes` | `WsPipes` (refinement of two BytePipes) |
| | `InboundInvariant` | the invariant these five come from |
| | `RequestDecoded`, `RequestSound` | what `decode_zerocopy` makes of any bytes |
| | `UdpDecoded`, `UdpSound` | what the packet decoder makes of any bytes |
| ConnectionProofs | `TypeCorrect` | `TypeOK` |
| | `MapsAreExact` | `MapsExact` |
| | `KickCovers` | `KickCoversIndexed` |
| | `KicksOnlyOwners` | `OnlyOwnersAreKicked` (action) |
| | `OutdatedAreKicked` | `OutdatedAreKickedOrOvertaken` |
| | `CancelAllIsComplete` | `CancelAllCovers` |
| | `AccountsStayExact` | `AccountsExact` |
| | `DeadPeersWereSilent` | `DeadMeansSilent` |
| | `SilentPeersAreNoticed` | `SilenceIsNoticed` |
| | `IdleWindowHolds` | `IdleWindow` (action) |
| RelayProofs | `BilledExactly` | `BilledWhenDropped` |
| | `NothingIsCutOff` | `NothingCutOff` |
| | `NoWakeupIsLost` | `NoLostWakeup` |
| | `ProgressIsNoTimeout` | `NoTimeoutOnProgress` (action) |
| | `RelayImplementsPipes` | `Pipes` (refinement of two BytePipes) |
| UdpSessionProofs | `NeverThroughAnother` | `NeverThroughAnotherProxy` |
| | `NoPacketIsLeftBehind` | `NoPacketLeftBehind` |
| | `IdleSessionsEnd` | `IdleEnds` |
| GrpcTransportProofs | `FlowIsControlled` | `FlowControl` |
| | `NoWakeupLost` | `NoLostWakeup` |
| | `TrailersAreComplete` | `TrailersComplete` |
| | `GrpcImplementsPipes` | `Pipes` (refinement of two BytePipes) |
| OutboundProofs | `NoPrivateIsDialed` | `NoPrivateDialed` |
| | `NoNameLeaks` | `NoDnsLeak` |
| | `NoFamilyGivenUp` | `EveryFamilyTried` |
| ProcessProofs | `AcceptedStartsAreUsable` | `AcceptedIsUsable` |
| | `AutomaticLimitIsSafe` | `AutoIsSafe` |
| | `TrafficIsConserved` | `TrafficConserved` |
| | `NoNodeIsLeftRegistered` | `NoNodeLeftRegistered` |
| | `LeftBehindExplained` | `LeftBehindIsExplained` |

None of the properties is inductive by itself. Each strengthening was checked with TLC
on its run's instance before it was proved.

**Inbound.** Assumed: positive lengths and buffer (`LengthsAssumption`,
`WsSizesAssumption`); intents the protocol can express, damaged anywhere
(`IntentsAssumption`: a domain of at most 255 bytes, a port of two, a UDP client that
sends packets behind its request); and that a message of the session, with the Pongs
that may join it, fits what `max_write_buffer_size` leaves behind a full buffer
(`RepliesAssumption`, see section 6). The proof has three layers.

1. *The decoders*, as facts about byte sequences. `Fits(b, e)` says that `b` and `e`
   agree as far as both go; it covers at once a prefix of an encoding and an encoding
   with more behind it, the two cases a reader meets. `RequestDecoded` and `UdpDecoded`:
   of bytes that fit an encoding the decoder makes "more" until the encoding (and the
   minimum) is there, and then exactly what was encoded. `RequestSound` and `UdpSound`
   are the converse, for arbitrary bytes: what a decoder accepts is the encoding of its
   answer. `SameVerdict`: `check_complete` and `decode_zerocopy` never disagree.
2. *The transport* (`WsInv`), whoever uses it. `Received`: the bytes read, the rest of
   `read_buffer` and the messages in flight are what was sent, so reading is a prefix
   however the stream was cut. `InOrder`: the data on the wire and in `out_buffer` is
   what was written, and nothing but control frames follows a Close. `Closing`: every way
   to a closed writer leaves a Close or a broken or ended socket - without it
   `ShutdownSendsClose` is not inductive, since `poll_shutdown` succeeds when another
   step sent the Close. `Buffered`: a ready sink holds at most a buffer, plus one Pong for
   each Ping already counted, so the next message fits.
3. *The reader and the session*. `Reading`: until there is a request, all that was read is
   in the buffer and was not decodable one read ago. `Capacity`: for an intact header that
   fits, the buffer has grown at most once, so "too large" cannot come first. `Decoded`
   and `Split` divide what was read into the request, the packets taken and `buf`, and
   `buf` holds no complete packet while the loop waits. Two divisions of one stream into
   packets must agree (`UdpDecoded` applied to both), which makes the packets the
   client's own. `Answered` does the same for what is written.

`WsImplementsPipes` maps each step of the transport to a step of either pipe: `Received`
makes `got` a prefix of what was sent, `InOrder` makes the data on the wire one of what
was written, and the end is told only with nothing left in flight or behind the Close.

**Registry.** Assumed: `MaxUuid` and `NumShards` are positive, `NoUser` is no user;
nothing of the size of `Tasks` and `Users`. The argument is layered, each layer using
the ones before it.

1. `Typed` - `TypeOK`, and where each task is: it has a user once authenticated
   and an id below `next_conn_id` exactly from the first insert to the last remove.
   On top of it `MapsExact` is inductive: a new id is larger than every id given
   out, so no two tasks share one and no remove takes another task's entry.
2. `KickInv` - adds that what `kick_user` still has to visit is part of the entry
   it holds; the guard keeps that entry fixed. With `MapsExact` this gives
   `KickCoversIndexed` and `OnlyOwnersAreKicked`.
3. `SyncInv` - adds that a task whose uuid is no longer current but whose index
   insert is still to come has its user among those to kick, or is recorded as
   overtaken: its user's kick took its snapshot before that insert. This gives
   `OutdatedAreKickedOrOvertaken`.
4. `WalkInv` - an id that has been in `connections` since `cancel_all` began is
   cancelled or in a shard not visited yet. This gives `CancelAllCovers`.

**Relay.** Assumed: a positive buffer, any amounts of data and of bytes a sink holds
back, timeouts of at least one tick (`validate` refuses less than a second). `RelayInv`
says of the buffer that it holds, in order, exactly the bytes between those handed over
and those taken (`Buffer`, `Ordered`); of each direction that it is read to its end,
then empty, then shut down, then closed (`Ends`); where `poll_copy` can stand
(`CopyStage`); that the payload goes out first or not at all (`PayloadStage`); that what
is reported never exceeds what was moved and equals it at every await (`Billing`, the
places where the future can be dropped); and, for the wake-ups, that a direction
`poll_copy` has left is finished, blocked by its peer with its waker registered, or
already woken, and stays so under every event while the other direction is polled
(`Wakers`). `RelayImplementsPipes` maps each step to a step of the upload's and of the
download's BytePipe: since bytes are numbered, `Ordered` makes `out` a prefix of what
was sent, and `Ends` lets the end be seen only behind the last byte.

**UDP session.** Assumed: positive limits, an idle check at least once per timeout,
`None` and `Bad` are no handler and no target. `HandlerKnown` is what
`current_handler` still says about the association although it may be stale (see the
finding below): with an association it names that association's proxy, or none for a
direct outbound. `BufferDrained` and `NotDue` carry the other two properties through
the awaits inside an arm.

**Lifecycle.** Assumed: `MaxTraffic` and `MaxRetries` are numbers. `LInv` adds to
`TrafficConserved` that a batch exists only while it is submitted and the reporter only
between the end of the start-up and the end of the shutdown, so that nobody takes a
second snapshot of the same units; and that from the final snapshot on, anything in the
collector has a recorded excuse.

**gRPC stream.** Assumed: scripts of well-formed frames, positive header, message and queue sizes, and a window
that holds the largest accepted frame (`WindowAssumption`: 256 KiB and a header in 1 MiB);
without it a reader could wait for a frame the client has no window to finish. The
queue is stated with `FlattenSeq`, of which `FlattenIs`, `FlattenAppend` and
`FlattenHead` in SequenceLemmas give the laws. The library's induction theorems are not
usable, so these are proved by a smallest counterexample: `Climb` picks the least index
at which a prefix law fails. The laws of `Only` follow from them. `StreamInv` says of the receive side that what was polled are the parsed
frames and the owed bytes of the next one, and that credit, bytes in flight and owed
bytes make up the window (`Receiving`); of the send side that no empty frame is queued and
the current one has bytes left (`Queued`), that `send_queue_bytes` counts them
(`Counted`), and that sent, current and queued bytes are the accepted frames
(`Conserved`); of the calls which stage each belongs to, who holds the waker, and when
headers and trailers were sent (`CallStage`, `Waiting`, `Opened`, `Closed`). A shutdown
that returned Pending must have left something to send, or a second poll would report
closed without trailers: that is the conjunct `TrailersComplete` lacks.

`GrpcImplementsPipes` needs to know in addition what the bytes are. The data bytes of a
script are identified by their places on the wire, frame after frame, so they are rising
numbers in layers, one layer per frame (`Layers`): `DataIs` concludes that what is not
beyond the end of the i-th frame is the payloads of the first i frames, `OnlyGrows` that
more bytes on the wire only add data behind. `Reading` says that what was read and what
is buffered is the data up to the end of the last parsed frame, and that a frame is only
looked for with nothing buffered; `Written` that the accepted frames carry the bytes
written, numbered from 1. With `Receiving` and `Conserved` these give prefixes in both
directions, and equality when the stream ends between two frames or all is sent; then
each step is mapped to a step of either pipe or to none. The size of the session's read
buffer is a constant of the model (`MaxRoom`), so that the theorem is about every size.

**gRPC connection.** Assumed: a finite set of streams, positive limits. The stream count
is a cardinality, so the lemmas on the sets of stream tasks come first. The heartbeat
needs both directions of one count: a miss was a silent beat unless data has been read
since, and a silent beat is a miss but for the one that sent the PING. `IdleClock`
relates ticks to time: with k ticks behind it a connection has been idle for k - 1 to k
half timeouts and the spent part of the current one.

**Outbound.** Assumed: cases and answers of the shape the code has (four octets, eight
segments), and answers that are not empty (section 6). `ScreenIsComplete` shows that
`is_private_ip` covers every address of the documented ranges, for all 2^32 and 2^128 of
them, embedded or not. `SessionInv` then follows the addresses: what may be tried or has
been tried was screened or is the hijacked address; for a connect without a handler each
answered family is tried or still to be tried, the preferred one first (`Covered`,
`Preferred`, `Exhausted`), while of a handler nothing is claimed but that it dials what it
was given. `NamesAreKnown` shows that the two name tests of `acl.rs` find every name for
this host, with any number of dots behind it. Its preservation goes through eight kinds of
steps (`Loads`, `Opens`, `Tries`, ...), to which every action is reduced first.

**Startup.** Assumed: `Second > 1`, `MAX_DURATION` is below what an `Instant` can add,
`PER_USER_KBPS >= 8` (200 in the code; below 8 the processors' limit could exceed the
semaphore's), and inputs of the types clap, the panel and the host give. The automatic
limit rests on lemmas about truncating division and saturating products with unknown
factors (`FitsQuotient`, `SatMulIs`, one per budget), the path on what trimming and
cutting at `?` do to a path without blanks (`PathIsFound`, for paths of any length), and
on `DecodesToItself`: percent-decoding leaves a string alone just when it holds no escape,
since every escape makes it shorter. Of the numbers, `NumbersAreUsable` finds one fault
left, the small buffer.
`StartInv` records what each stage has established.

Only model-checked is liveness (`RelayEnds`, `KickedEnds`, `StopLeadsToExit`,
`StreamsEndWithConnection`): fairness and ENABLED are beyond the prover. Every
invariant, action property and refinement that a passing run checks is a theorem.

## 6. Findings

- `udp_stale_handler`: a failed proxy dial drops the association and keeps
  `current_handler`; the next packet for the earlier proxy dials nothing and is
  dropped (`handler.rs:603-627`).
- `relay_uplink_only`: after the client's EOF the relay waits
  `downlink_only_timeout`, the help text says `uplink_only_timeout`
  (`core/relay.rs:333-336`, `config.rs:162`).
- `request_short_domain`: a complete request for a domain of up to two bytes is
  shorter than `MIN_SIZE` and waits for more data, until `request_timeout`
  (`core/protocol.rs:210-216`). `RequestFaithful` states that this is the only
  complete request that waits.

Two smaller disagreements with comments, seen in the models and not kept as runs: a
target routed to a second direct outbound is sent through the socket the first one
opened, so its bind options are not respected (`handler.rs:575-579`); the probe read
finds an EOF while the write is stalled, "so the half-close timer can start", but
the timer waits for the buffer to be written too (`core/relay.rs:177`, `333`).

Limits the properties state on purpose rather than hide: a connection between
authentication and registration survives its user's kick (`overtaken`); a session
with an initial payload to a remote that never reads has no timeout
(`RelayEnds` and `KickedEnds` except it); traffic may remain unreported at exit
for the three reasons `LeftBehindIsExplained` lists.

Assumptions the models make, and what lies behind them:

- `validate` accepts any positive `buffer_size`; below 34 bytes every request is larger
  than twice the buffer and is refused (`handler.rs:97`). `AcceptedIsUsable` states it as
  the one fault an accepted number leaves, and `RequestFaithful` promises acceptance only
  where the header and `MIN_SIZE` fit the buffer.
- `ws::accept` decodes the path of a request and compares it with the configured one as
  the panel gave it (`transport/ws.rs:96-98`). A panel path with an escape is therefore
  not matched by a client that sends the path verbatim; `AcceptedIsUsable` states exactly
  that. Only such clients are modelled; one that escapes the `%` itself is decoded to the
  configured path. Characters that no URI path holds (`NotInUris`) are left aside.
- With an ACL, and for UDP, the fallback between address families is up to acl-engine-rs:
  the code makes one call and takes its first error as final (`handler.rs:414-425`, `585`,
  `628`). `EveryFamilyTried` therefore speaks of plain connects only. What is assumed of
  the library is that a direct handler that was given addresses dials none but those, of
  the families of its mode, and connects to nothing it has not dialed.
- The resolver answers an address literal with that address, if it answers at all; a
  screened domain that spells a literal is asked for again on a plain connect
  (`handler.rs:345-347`).
- The resolver's answer is never empty (dns-cache-rs reports `NotFound`). An empty
  one would leave `check_private_and_resolve` with neither a private address nor
  one to use, and the session would resolve again, unscreened.
- A client that sends Pings while it does not read could fill the WebSocket write
  buffer with Pongs beyond the 16 bytes `ws_config_for` adds; the run follows one message
  without bytes (`MaxIdle`), the proof as many as `RepliesAssumption` leaves room for: a
  buffer, or an encoded reply, and `MaxIdle` together at most the frame limit and 16. The
  frame limit is the larger of twice `buffer_size` and 64 KiB (`server_runner.rs:42-54`),
  so a read of the relay always fits, and so does a UDP reply: a datagram of at most 65507
  bytes, four bytes and an IP address.
- Read errors of tungstenite are one (`ReadError`): a protocol or capacity error is not told
  apart from a failed socket, so `ShutdownSendsClose` excuses all of them.
- `NothingCutOff` counts what the writers accepted: bytes that a sink still holds when its
  shutdown fails are lost, and the relay, which ignores that error, still reports
  "completed" (`core/relay.rs:229`).
- A gRPC client is limited by the stream's window alone. The HTTP/2 connection window, which
  all streams of a connection share (`transport/grpc/connection.rs:32`), and h2's threshold
  below which it sends no WINDOW_UPDATE are not modelled: `FlowControl` shows that no stream
  waits for its own window, not that readers of other streams return the shared one.
- The arms of `WebSocketTransport::poll_read` for `None` and for orderly close errors
  need a Close that was read before, after which `poll_next` is not called.

## 7. Not modelled

Logging and error types; socket options (`net.rs`, keep-alive and no-delay); the
plain assignments of the server builder (`core/server.rs`). Outside the repository
and external to the models: tungstenite and h2, the rule matcher, geo data, dialing and
proxy protocols of acl-engine-rs, dns-cache-rs, the panel client. Inside modelled parts: a shutdown
handler that panics (`main.rs:280`); a signal before the handler is installed, where
the default action ends the process; buffer capacity growth of the gRPC codec; varint arithmetic;
the base64 of the early-data header; gRPC paths and their escapes, which are a choice
between accepted and refused; clap's and the duration parser's own syntax.

## 8. Plan

Done: all components of section 1 but logging, BytePipe as the abstract specification
of relay and transports, and the proofs of section 5.

The liveness properties stay with TLC. No module declares a RECURSIVE operator.
