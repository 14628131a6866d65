--------------------------- MODULE GrpcConnection ----------------------------
(***************************************************************************)
(* One gRPC (HTTP/2) client connection, from the accept loop of            *)
(* server_runner.rs to the end of GrpcConnection::run (grpc/connection.rs) *)
(* with its heartbeat (grpc/heartbeat.rs).                                 *)
(*                                                                         *)
(* The connection task selects over accepted streams, the heartbeat and    *)
(* the idle tick; every stream runs in a task of its own and takes a       *)
(* max_connections permit beside the one the connection holds.  `others`   *)
(* stands for the permits of all other connections and their streams.      *)
(*                                                                         *)
(* The heartbeat timer and the idle timer have unrelated periods: beats    *)
(* come at any time, idle time is counted in units of which IdleHalf make  *)
(* half an idle_timeout.                                                   *)
(***************************************************************************)
EXTENDS Naturals, FiniteSets

CONSTANTS
  Streams,         \* slots for concurrent streams (MAX_CONCURRENT_STREAMS)
  MaxConnections,  \* permits of conn_limiter
  MaxMissed,       \* MAX_MISSED_PINGS
  IdleHalf         \* units in idle_timeout / 2

ASSUME LimitsAssumption ==
  /\ IsFiniteSet(Streams)
  /\ MaxConnections \in Nat \ {0}
  /\ MaxMissed \in Nat \ {0}
  /\ IdleHalf \in Nat \ {0}

VARIABLES
  phase,          \* the connection task: "accepted" .. "running", "closed"
  free,           \* permits left in conn_limiter
  others,         \* permits held elsewhere
  stream,         \* stream task of each slot: "none", "spawned", "serving"
  active_streams, \* the AtomicUsize
  conn_cancel,    \* the token whose children the stream tasks watch
  lost,           \* the HTTP/2 connection is over: closed, reset or drained
  idle_ticks,
  idle_left,      \* units to the next idle tick
  activity,       \* AtomicBool set by streams that read data
  waiting_pong,
  pong,           \* a PONG has arrived and has not been polled
  missed_pings,
  cause,          \* why the connection ended
  \* History, read by the properties only.
  since,          \* units since a stream task last lived
  silent          \* beats since the peer was last heard of

hb_vars   == <<activity, waiting_pong, pong, missed_pings, silent>>
idle_vars == <<idle_ticks, idle_left, since>>
grpc_vars == <<phase, free, others, stream, active_streams, conn_cancel, lost, hb_vars,
               idle_vars, cause>>

GrpcInit ==
  /\ phase = "accepted" /\ cause = "none"
  /\ others \in 0 .. MaxConnections /\ free = MaxConnections - others
  /\ stream = [s \in Streams |-> "none"] /\ active_streams = 0
  /\ conn_cancel = FALSE /\ lost = FALSE
  /\ idle_ticks = 0 /\ idle_left = IdleHalf /\ since = 0
  /\ activity = FALSE /\ waiting_pong = FALSE /\ pong = FALSE
  /\ missed_pings = 0 /\ silent = 0

-----------------------------------------------------------------------------
(* run_server and accept_connection: permit, TLS, HTTP/2 preface.          *)

\* acquire_owned().await: the accept loop waits for a permit.
AcquirePermit ==
  /\ phase = "accepted" /\ free > 0
  /\ free' = free - 1
  /\ phase' = "tls"
  /\ UNCHANGED <<others, stream, active_streams, conn_cancel, lost, hb_vars, idle_vars, cause>>

\* The spawned task ends and drops its permit.
KeepStreams == UNCHANGED conn_cancel
CancelStreams == conn_cancel' = TRUE
Close(why) ==
  /\ phase' = "closed" /\ cause' = why
  /\ free' = free + 1
  /\ CancelStreams

\* tls_handshake_timeout and request_timeout bound the two handshakes.
HandshakeOk ==
  /\ phase \in {"tls", "h2"}
  /\ phase' = IF phase = "tls" THEN "h2" ELSE "running"
  /\ UNCHANGED <<free, others, stream, active_streams, conn_cancel, lost, hb_vars, idle_vars,
                 cause>>

HandshakeFails ==
  /\ phase \in {"tls", "h2"}
  /\ Close("handshake")
  /\ UNCHANGED <<others, stream, active_streams, lost, hb_vars, idle_vars>>

\* Other connections and their streams come and go.
OthersAcquire ==
  /\ free > 0
  /\ free' = free - 1 /\ others' = others + 1
  /\ UNCHANGED <<phase, stream, active_streams, conn_cancel, lost, hb_vars, idle_vars, cause>>

OthersRelease ==
  /\ others > 0
  /\ free' = free + 1 /\ others' = others - 1
  /\ UNCHANGED <<phase, stream, active_streams, conn_cancel, lost, hb_vars, idle_vars, cause>>

-----------------------------------------------------------------------------
(* The accept arm.                                                         *)

\* heartbeat.on_activity()
OnActivity == missed_pings' = 0 /\ silent' = 0

\* Not a POST, or an unknown path: answered and forgotten.
RejectRequest ==
  /\ phase = "running" /\ ~lost
  /\ OnActivity
  /\ UNCHANGED <<phase, free, others, stream, active_streams, conn_cancel, lost, activity,
                 waiting_pong, pong, idle_vars, cause>>

\* A tunnel stream: counted here, before its task is spawned.
AcceptStream(s) ==
  /\ phase = "running" /\ ~lost /\ stream[s] = "none"
  /\ OnActivity
  /\ idle_ticks' = 0
  /\ stream' = [stream EXCEPT ![s] = "spawned"]
  /\ active_streams' = active_streams + 1
  /\ since' = 0
  /\ UNCHANGED <<phase, free, others, conn_cancel, lost, activity, waiting_pong, pong, idle_left,
                 cause>>

\* The peer closes, resets, or finishes the drain after GOAWAY ...
PeerGone ==
  /\ phase = "running" /\ ~lost
  /\ lost' = TRUE
  /\ UNCHANGED <<phase, free, others, stream, active_streams, conn_cancel, hb_vars, idle_vars,
                 cause>>

\* ... and accept() answers None or an error.
AcceptEnds ==
  /\ phase = "running" /\ lost
  /\ Close("peer")
  /\ UNCHANGED <<others, stream, active_streams, lost, hb_vars, idle_vars>>

-----------------------------------------------------------------------------
(* Stream tasks.                                                           *)

\* The scope guard's fetch_sub; the permit goes with the handler's future.
UncountedEnd == UNCHANGED active_streams
CountedEnd == active_streams' = active_streams - 1
Released(s) == IF stream[s] = "serving" THEN free + 1 ELSE free

EndStream(s) ==
  /\ stream' = [stream EXCEPT ![s] = "none"]
  /\ free' = Released(s)
  /\ CountedEnd
  /\ since' = 0

\* try_acquire_owned: without a permit the stream is refused at once.
StartStream(s) ==
  /\ stream[s] = "spawned"
  /\ IF free > 0
     THEN /\ stream' = [stream EXCEPT ![s] = "serving"]
          /\ free' = free - 1
          /\ UNCHANGED <<active_streams, since>>
     ELSE EndStream(s)
  /\ UNCHANGED <<phase, others, conn_cancel, lost, hb_vars, idle_ticks, idle_left, cause>>

\* The stream's transport reads a DATA frame.
ReadData(s) ==
  /\ phase = "running" /\ ~lost /\ stream[s] = "serving"
  /\ activity' = TRUE /\ silent' = 0
  /\ UNCHANGED <<phase, free, others, stream, active_streams, conn_cancel, lost, waiting_pong, pong,
                 missed_pings, idle_vars, cause>>

FinishStream(s) ==
  /\ stream[s] = "serving"
  /\ EndStream(s)
  /\ UNCHANGED <<phase, others, conn_cancel, lost, hb_vars, idle_ticks, idle_left, cause>>

\* The task_cancel arm around the handler.
CancelStream(s) ==
  /\ stream[s] # "none" /\ conn_cancel
  /\ EndStream(s)
  /\ UNCHANGED <<phase, others, conn_cancel, lost, hb_vars, idle_ticks, idle_left, cause>>

-----------------------------------------------------------------------------
(* The heartbeat arm.                                                      *)

\* Beats are counted up to one past the bound the properties ask for.
Heard == IF silent > MaxMissed + 1 THEN silent ELSE silent + 1

PongArrives ==
  /\ phase = "running" /\ ~lost /\ waiting_pong /\ ~pong
  /\ pong' = TRUE
  /\ UNCHANGED <<phase, free, others, stream, active_streams, conn_cancel, lost, activity,
                 waiting_pong, missed_pings, silent, idle_vars, cause>>

PollPong ==
  /\ phase = "running" /\ waiting_pong /\ pong
  /\ waiting_pong' = FALSE /\ pong' = FALSE
  /\ OnActivity
  /\ UNCHANGED <<phase, free, others, stream, active_streams, conn_cancel, lost, activity,
                 idle_vars, cause>>

PongError ==
  /\ phase = "running" /\ waiting_pong /\ lost
  /\ waiting_pong' = FALSE
  /\ Close("pong_error")
  /\ UNCHANGED <<others, stream, active_streams, lost, activity, pong, missed_pings, silent,
                 idle_vars>>

\* A beat with no PING outstanding: send one.  What was read before the PING
\* does not count as an answer to it.
KeepsStale == UNCHANGED activity
DiscardsStale == activity' = FALSE

BeatPing ==
  /\ phase = "running" /\ ~waiting_pong
  /\ DiscardsStale
  /\ waiting_pong' = ~lost          \* send_ping fails on a dead connection
  /\ silent' = Heard
  /\ UNCHANGED <<phase, free, others, stream, active_streams, conn_cancel, lost, pong, missed_pings,
                 idle_vars, cause>>

\* A beat while the PONG is outstanding, excused by data read since the last.
ExcusedByNothing == FALSE
Excused == activity

BeatExcused ==
  /\ phase = "running" /\ waiting_pong /\ Excused
  /\ activity' = FALSE /\ missed_pings' = 0
  /\ silent' = Heard
  /\ UNCHANGED <<phase, free, others, stream, active_streams, conn_cancel, lost, waiting_pong, pong,
                 idle_vars, cause>>

BeatMissed ==
  /\ phase = "running" /\ waiting_pong /\ ~Excused
  /\ missed_pings' = missed_pings + 1
  /\ silent' = Heard
  /\ IF missed_pings + 1 >= MaxMissed
     THEN Close("heartbeat_timeout")
     ELSE UNCHANGED <<phase, free, conn_cancel, cause>>
  /\ UNCHANGED <<others, stream, active_streams, lost, activity, waiting_pong, pong, idle_vars>>

-----------------------------------------------------------------------------
(* The idle arm.                                                           *)

GoAwayAt == 3

DrainsAlways == TRUE
NoStreams == active_streams = 0

\* Third tick in a row without a stream: GOAWAY, which only asks the peer to
\* drain (PeerGone); fourth: close.
IdleTick ==
  /\ phase = "running" /\ idle_left = 0
  /\ idle_left' = IdleHalf
  /\ IF NoStreams
     THEN /\ idle_ticks' = idle_ticks + 1
          /\ IF idle_ticks + 1 > GoAwayAt
             THEN Close("idle")
             ELSE UNCHANGED <<phase, free, conn_cancel, cause>>
     ELSE /\ idle_ticks' = 0
          /\ UNCHANGED <<phase, free, conn_cancel, cause>>
  /\ UNCHANGED <<others, stream, active_streams, lost, hb_vars, since>>

\* A unit of time passes; a tick that is due is served first.
Time ==
  /\ phase = "running" /\ idle_left > 0
  /\ idle_left' = idle_left - 1
  /\ since' = IF \A s \in Streams : stream[s] = "none" THEN since + 1 ELSE 0
  /\ UNCHANGED <<phase, free, others, stream, active_streams, conn_cancel, lost, hb_vars,
                 idle_ticks, cause>>

-----------------------------------------------------------------------------
Handshake == AcquirePermit \/ HandshakeOk \/ HandshakeFails
Others    == OthersAcquire \/ OthersRelease
StreamTask(s) == StartStream(s) \/ FinishStream(s) \/ CancelStream(s)
Peer == RejectRequest \/ PeerGone \/ PongArrives \/ (\E s \in Streams : AcceptStream(s) \/ ReadData(s))
Heartbeat == PollPong \/ PongError \/ BeatPing \/ BeatExcused \/ BeatMissed

GrpcNext ==
  \/ Handshake \/ Others \/ Peer \/ Heartbeat
  \/ AcceptEnds \/ IdleTick \/ Time
  \/ \E s \in Streams : StreamTask(s)

\* Timers tick and a task whose token is cancelled is polled.  Nothing is
\* asked of the peer, of the sessions, or of the other connections.
Fairness ==
  /\ WF_grpc_vars(IdleTick) /\ WF_grpc_vars(Time) /\ WF_grpc_vars(AcceptEnds)
  /\ \A s \in Streams : WF_grpc_vars(StartStream(s)) /\ WF_grpc_vars(CancelStream(s))

GrpcSpec == GrpcInit /\ [][GrpcNext]_grpc_vars
FairSpec == GrpcSpec /\ Fairness

-----------------------------------------------------------------------------
Alive == {s \in Streams : stream[s] # "none"}
Serving == {s \in Streams : stream[s] = "serving"}
HoldsPermit == phase \in {"tls", "h2", "running"}

GrpcTypeOK ==
  /\ phase \in {"accepted", "tls", "h2", "running", "closed"}
  /\ free \in 0 .. MaxConnections /\ others \in 0 .. MaxConnections
  /\ stream \in [Streams -> {"none", "spawned", "serving"}]
  /\ active_streams \in Nat
  /\ conn_cancel \in BOOLEAN /\ lost \in BOOLEAN
  /\ idle_ticks \in 0 .. GoAwayAt + 1 /\ idle_left \in 0 .. IdleHalf /\ since \in Nat
  /\ activity \in BOOLEAN /\ waiting_pong \in BOOLEAN /\ pong \in BOOLEAN
  /\ missed_pings \in 0 .. MaxMissed /\ silent \in Nat
  /\ cause \in {"none", "handshake", "peer", "pong_error", "heartbeat_timeout", "idle"}

(* The state is well typed, connections and sessions together never exceed *)
(* max_connections, every permit comes back however a task ends, and       *)
(* active_streams counts the stream tasks that exist, the refused and the  *)
(* cancelled ones included (server_runner.rs:159-178, 304-323,             *)
(* connection.rs:214-227).                                                 *)
PermitsExact ==
  free + others + Cardinality(Serving) + (IF HoldsPermit THEN 1 ELSE 0) = MaxConnections
StreamsCounted == active_streams = Cardinality(Alive)
AccountsExact == GrpcTypeOK /\ PermitsExact /\ StreamsCounted

(* An idle connection gets GOAWAY between one and one and a half times     *)
(* idle_timeout after its last stream ended and is closed half an          *)
(* idle_timeout later; never while a stream lives, whatever requests are   *)
(* rejected meanwhile (connection.rs:152-154, 246-265).                    *)
IdleWindow ==
  [][/\ idle_ticks' = GoAwayAt /\ idle_ticks # GoAwayAt =>
          since \in 2 * IdleHalf .. 3 * IdleHalf /\ Alive = {}
     /\ cause' = "idle" /\ cause # "idle" =>
          since \in 3 * IdleHalf .. 4 * IdleHalf /\ Alive = {}]_grpc_vars

(* The heartbeat gives a peer up only after MaxMissed beats in which       *)
(* nothing of it was seen: no PONG polled, no stream accepted, no data     *)
(* read by a stream (heartbeat.rs:63-98).                                  *)
DeadMeansSilent ==
  cause = "heartbeat_timeout" => silent >= MaxMissed

(* A peer that is not heard of for MaxMissed + 1 beats is given up, even   *)
(* if data came in just before the PING (heartbeat.rs:100-114).            *)
SilenceIsNoticed ==
  phase = "running" /\ ~lost => silent <= MaxMissed

(* When the connection ends, for whatever reason, all its stream tasks end *)
(* (connection.rs:137-139, 269-272).                                       *)
StreamsEndWithConnection == (phase = "closed") ~> (Alive = {})

=============================================================================
