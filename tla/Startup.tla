------------------------------- MODULE Startup --------------------------------
(***************************************************************************)
(* From a command line, a panel configuration and a host to a server that  *)
(* listens (config.rs, config_auto.rs, net.rs, server_runner.rs and the    *)
(* first half of main.rs), and what the accepted numbers do to the code    *)
(* that consumes them.                                                     *)
(*                                                                         *)
(* A duration is a number of ticks, Second ticks to the second.  Numbers   *)
(* that the code keeps in 64 bits saturate at MaxU64 here.  A string that  *)
(* is only compared after lower-casing is given in lower case; a path is a *)
(* sequence of characters; an Option is a sequence of at most one element. *)
(***************************************************************************)
EXTENDS Integers, Sequences, FiniteSets

CONSTANTS
  Cases,          \* records [cli, panel, host] to start from
  Second,         \* ticks per second
  MAX_DURATION, InstantLimit,            \* 30 days; Instant::now() + d overflows above
  MAX_BUFFER_SIZE,
  MIN_SIZE,                              \* bytes of the shortest Trojan request
  PER_CORE_MBPS, PER_USER_KBPS, PER_SESSION_KB, MEM_BUDGET_PCT,
  FD_RESERVE_DEFAULT, FD_PER_SESSION,
  MaxU64

ASSUME StartupAssumption ==
  /\ {Second, MAX_DURATION, InstantLimit, MAX_BUFFER_SIZE, MIN_SIZE, MaxU64} \subseteq Nat
  /\ Second > 1 /\ MAX_DURATION >= Second /\ InstantLimit > MAX_DURATION
  /\ MaxU64 >= 8 /\ 4 * MAX_BUFFER_SIZE < MaxU64
  /\ {PER_CORE_MBPS, PER_USER_KBPS, PER_SESSION_KB, FD_PER_SESSION} \subseteq Nat \ {0}
  /\ PER_USER_KBPS >= 8       \* or the limit from the processors exceeds MAX_PERMITS
  /\ MEM_BUDGET_PCT \in 1 .. 100 /\ FD_RESERVE_DEFAULT \in Nat

None == <<>>
Optional(S) == {None} \cup [1 .. 1 -> S]

Intervals   == {"fetch_users", "report_traffics", "heartbeat"}
Handshakes  == {"tcp_connect", "request", "tls_handshake"}
WholeSecond == {"conn_idle", "uplink_only", "downlink_only", "api"}
Durations   == Intervals \cup Handshakes \cup WholeSecond

\* What a start may find.  available_parallelism is not 0.
Clis   == [api : STRING, token : STRING, node : Nat, cert_file : STRING, key_file : STRING,
           buffer_size : Nat, log_mode : STRING, tcp_backlog : Int,
           max : [text : STRING, n : 0 .. MaxU64], acl_conf_file : STRING,
           d : [Durations -> Nat]]
Panels == [server_port : Nat, network : Optional(STRING), path : Optional(Seq(STRING)),
           service : Optional(STRING)]
Hosts  == [cpus : Optional(Nat \ {0}), mem : Optional([pages : Nat, page_size : Nat]),
           nofile : Optional(0 .. MaxU64), ipv6 : BOOLEAN]
ASSUME CasesAssumption == Cases \subseteq [cli : Clis, panel : Panels, host : Hosts]

VARIABLES
  case,       \* this start's inputs
  stage,      \* "args", "parsed", "valid", "configured", "loaded", "resolved",
              \* "running", "served" (the consumers ran), "exit"; "crashed" by a panic
  config,     \* ServerConfig
  alpn,       \* alpn_protocols of the loaded TLS configuration
  resolved,   \* ResolvedMaxConnections, with the warning of main
  limiter,    \* conn_limiter: <<>> or <<permits>>
  listener,   \* "none", "dual", "ipv4"
  fault       \* history: what a consumer of the configuration did wrong

startup_vars == <<case, stage, config, alpn, resolved, limiter, listener, fault>>

cli  == case.cli
host == case.host

StartupInit ==
  /\ case \in Cases /\ stage = "args"
  /\ config = None /\ alpn = None /\ resolved = None /\ limiter = None
  /\ listener = "none" /\ fault = {}

-----------------------------------------------------------------------------
(* CliArgs: clap, then validate.  cli.d gives the duration of each option. *)

\* MaxConnections::from_str
ParsesMax(spec) == spec.text = "auto" \/ (spec.text = "number" /\ spec.n > 0)

ParseArgs ==
  /\ stage = "args"
  /\ stage' = IF ParsesMax(cli.max) THEN "parsed" ELSE "exit"
  /\ UNCHANGED <<case, config, alpn, resolved, limiter, listener, fault>>

MAX_PERMITS == MaxU64 \div 8

LogLevels == {"trace", "debug", "info", "warn", "error"}

\* Zero, but not less than a second, is refused.
AnyPositive(d) == d > 0
AtLeastSecond(d) == d >= Second

Validate(c) ==
  /\ c.api # "" /\ c.token # "" /\ c.node > 0
  /\ c.cert_file \notin {"", "missing"} /\ c.key_file \notin {"", "missing"}
  /\ c.buffer_size > 0 /\ c.buffer_size <= MAX_BUFFER_SIZE
  /\ c.log_mode \in LogLevels
  /\ \A n \in Intervals \cup Handshakes : c.d[n] > 0
  /\ c.tcp_backlog > 0
  /\ c.max.text = "number" => c.max.n <= MAX_PERMITS
  /\ \A n \in WholeSecond : AtLeastSecond(c.d[n])
  /\ \A n \in Durations : c.d[n] <= MAX_DURATION
  /\ c.acl_conf_file \in {"none", "yaml", "yml"}      \* else missing, or another extension

ValidateArgs ==
  /\ stage = "parsed"
  /\ stage' = IF Validate(cli) THEN "valid" ELSE "exit"
  /\ UNCHANGED <<case, config, alpn, resolved, limiter, listener, fault>>

-----------------------------------------------------------------------------
(* The panel's configuration.                                              *)

Blank == " "
Skips(s) == {i \in 1 .. Len(s) : s[i] # Blank}
MinOf(S) == CHOOSE x \in S : \A y \in S : x <= y
MaxOf(S) == CHOOSE x \in S : \A y \in S : x >= y
Trim(s) == IF Skips(s) = {} THEN <<>> ELSE SubSeq(s, MinOf(Skips(s)), MaxOf(Skips(s)))
BeforeQuery(s) ==
  LET marks == {i \in 1 .. Len(s) : s[i] = "?"} IN
  IF marks = {} THEN s ELSE SubSeq(s, 1, MinOf(marks) - 1)

NormalizeWsPath(raw) ==
  LET path == Trim(BeforeQuery(Trim(raw))) IN
  IF path = <<>> \/ path[1] = "/" THEN path ELSE <<"/">> \o path

DefaultWsPath == <<"/">>

FromRemote(p) ==
  [port         |-> p.server_port,
   enable_ws    |-> p.network \in {<<"ws">>, <<"websocket">>},
   enable_grpc  |-> p.network = <<"grpc">>,
   ws_path      |-> IF p.path # None /\ NormalizeWsPath(p.path[1]) # <<>>
                    THEN NormalizeWsPath(p.path[1]) ELSE DefaultWsPath,
   grpc_service |-> IF p.service # None THEN p.service[1] ELSE "GunService"]

\* fetch_config and parse_trojan_config may fail.
ParseTrojanConfig ==
  /\ stage = "valid"
  /\ \/ config' = FromRemote(case.panel) /\ stage' = "configured"
     \/ stage' = "exit" /\ UNCHANGED config
  /\ UNCHANGED <<case, alpn, resolved, limiter, listener, fault>>

TransportType ==
  IF config.enable_grpc THEN "grpc" ELSE IF config.enable_ws THEN "ws" ELSE "tcp"

AlpnForTransport(t) == CASE t = "grpc" -> <<"h2">> [] t = "ws" -> <<"http/1.1">> [] OTHER -> <<>>

\* build_router (module Outbound) and load_tls, which reads both PEM files.
LoadLocal ==
  /\ stage = "configured"
  /\ \/ /\ cli.cert_file = "good" /\ cli.key_file = "good"
        /\ alpn' = AlpnForTransport(TransportType) /\ stage' = "loaded"
     \/ /\ cli.acl_conf_file # "none" \/ cli.cert_file # "good" \/ cli.key_file # "good"
        /\ stage' = "exit" /\ UNCHANGED alpn
  /\ UNCHANGED <<case, config, resolved, limiter, listener, fault>>

-----------------------------------------------------------------------------
(* config_auto.rs                                                          *)

SatMul(a, b) == IF b # 0 /\ a > MaxU64 \div b THEN MaxU64 ELSE a * b
SatSub(a, b) == IF a < b THEN 0 ELSE a - b
Least(a, b)  == IF a < b THEN a ELSE b
Most(a, b)   == IF a < b THEN b ELSE a

\* The reserve does not shrink with the limit.
WholeReserve(nofile) == FD_RESERVE_DEFAULT
FdReserve(nofile) == Least(FD_RESERVE_DEFAULT, nofile \div 4)

ComputeAuto(cpus, mem, nofile) ==
  LET cpu_cap == SatMul(SatMul(Most(cpus, 1), PER_CORE_MBPS), 1000) \div PER_USER_KBPS
      mem_cap == (SatMul(mem, MEM_BUDGET_PCT) \div 100) \div PER_SESSION_KB
      fd_cap  == SatSub(nofile, FdReserve(nofile)) \div FD_PER_SESSION IN
  [value    |-> Most(Least(Least(cpu_cap, mem_cap), fd_cap), 1),
   cpu_cap  |-> cpu_cap, mem_cap |-> mem_cap, fd_cap |-> fd_cap,
   limiting |-> IF cpu_cap <= mem_cap /\ cpu_cap <= fd_cap THEN "cpu"
                ELSE IF mem_cap <= fd_cap THEN "memory" ELSE "fd"]

\* What the host says, or the fallback where it cannot be asked.
Cpus     == IF host.cpus = None THEN 1 ELSE host.cpus[1]
TotalMem ==
  IF host.mem # None /\ host.mem[1].pages > 0 /\ host.mem[1].page_size > 0
  THEN SatMul(host.mem[1].pages, host.mem[1].page_size) \div 1024
  ELSE 4 * 1024 * 1024
NoFile   == IF host.nofile = None THEN 65536 ELSE host.nofile[1]

FixedExceedsAutoCap(v, bd) == v > bd.cpu_cap \/ v > bd.mem_cap \/ v > bd.fd_cap

Resolve ==
  LET bd == ComputeAuto(Cpus, TotalMem, NoFile) IN
  IF cli.max.text = "auto"
  THEN [value |-> bd.value, mode |-> "auto", breakdown |-> bd, warned |-> FALSE]
  ELSE [value |-> cli.max.n, mode |-> "fixed", breakdown |-> bd,
        warned |-> FixedExceedsAutoCap(cli.max.n, bd)]

\* initialize and fetch_users come first (module Lifecycle), and may fail.
ResolveMax ==
  /\ stage = "loaded"
  /\ \/ resolved' = Resolve /\ stage' = "resolved"
     \/ stage' = "exit" /\ UNCHANGED resolved
  /\ UNCHANGED <<case, config, alpn, limiter, listener, fault>>

-----------------------------------------------------------------------------
(* run_server                                                              *)

\* tokio's semaphore panics above its limit.
StartLimiter ==
  /\ stage = "resolved" /\ limiter = None
  /\ resolved.value > 0
  /\ IF resolved.value > MAX_PERMITS
     THEN stage' = "crashed" /\ UNCHANGED limiter
     ELSE limiter' = <<resolved.value>> /\ UNCHANGED stage
  /\ UNCHANGED <<case, config, alpn, resolved, listener, fault>>

BindDualStack ==
  /\ stage = "resolved" /\ (limiter # None \/ resolved.value = 0)
  /\ \/ host.ipv6 /\ listener' = "dual" /\ stage' = "running"
     \/ ~host.ipv6 /\ listener' = "ipv4" /\ stage' = "running"
     \/ stage' = "exit" /\ UNCHANGED listener                  \* the port is taken
  /\ UNCHANGED <<case, config, alpn, resolved, limiter, fault>>

AsSecs(d) == d \div Second

(* The code that consumes the numbers, each with the way it goes wrong.    *)

EndsAtOnce(names) == {<<"ends_at_once", n>> : n \in {m \in names : cli.d[m] = 0}}

\* copy_bidirectional_with_stats: a buffer of no bytes reads end of file at
\* once, a timer armed for no time ends the relay at once, Instant + Duration
\* panics on overflow.
RelayTimers == {"conn_idle", "uplink_only", "downlink_only"}
RelayFaults ==
  (IF cli.buffer_size = 0 THEN {<<"end_of_file", "buffer_size">>} ELSE {})
  \cup {<<"ends_at_once", n>> : n \in {m \in RelayTimers : AsSecs(cli.d[m]) = 0}}
  \cup {<<"overflow", n>> : n \in {m \in RelayTimers : AsSecs(cli.d[m]) * Second > InstantLimit}}

\* read_trojan_request gives up above twice the buffer, and decodes nothing
\* below MIN_SIZE; timeout(0) elapses before the request it bounds.
RequestFaults ==
  (IF 2 * cli.buffer_size < MIN_SIZE THEN {<<"refuses", "buffer_size">>} ELSE {})
  \cup EndsAtOnce({"request"})

\* The same for a connect and for the TLS handshake.
ConnectFaults == EndsAtOnce({"tcp_connect"})
TlsFaults     == EndsAtOnce({"tls_handshake"})

\* tokio::time::interval(0) panics: the idle tick of an HTTP/2 connection, half
\* of the idle timeout, and the tasks of the panel.  The panel's client, given
\* no time, gives up at once.
IdleTickFaults ==
  IF TransportType = "grpc" /\ cli.d["conn_idle"] \div 2 = 0
  THEN {<<"panic", "conn_idle">>} ELSE {}
PanelFaults ==
  {<<"panic", n>> : n \in {m \in Intervals : cli.d[m] = 0}}
  \cup {<<"ends_at_once", n>> : n \in {m \in {"api"} : AsSecs(cli.d[m]) = 0}}

UseConfig ==
  /\ stage = "running"
  /\ fault' = RelayFaults \cup RequestFaults \cup ConnectFaults \cup TlsFaults
              \cup IdleTickFaults \cup PanelFaults
  /\ stage' = "served"
  /\ UNCHANGED <<case, config, alpn, resolved, limiter, listener>>

-----------------------------------------------------------------------------
(* ws::accept: the path of a request, percent-decoded, against ws_path.    *)

HexDigits == {"0", "1", "2", "3", "4", "5", "6", "7", "8", "9",
              "a", "b", "c", "d", "e", "f", "A", "B", "C", "D", "E", "F"}

\* An escape is a "%" and two digits; it becomes one character, the characters
\* of the model by name, all others as one.  A "%" without digits stays.
Escapes(s) == {i \in 1 .. Len(s) : /\ i + 2 <= Len(s) /\ s[i] = "%"
                                   /\ s[i + 1] \in HexDigits /\ s[i + 2] \in HexDigits}
Escaped(hi, lo) ==
  CASE hi = "2" /\ lo = "5"          -> "%"
    [] hi = "2" /\ lo \in {"f", "F"} -> "/"
    [] hi = "6" /\ lo = "1"          -> "a"
    [] OTHER                         -> "other"
Kept(s) == {i \in 1 .. Len(s) : \A e \in Escapes(s) : i \notin {e + 1, e + 2}}
Nth(S, k) == CHOOSE i \in S : Cardinality({j \in S : j <= i}) = k
PercentDecode(s) ==
  [k \in 1 .. Cardinality(Kept(s)) |->
     LET i == Nth(Kept(s), k) IN
     IF i \in Escapes(s) THEN Escaped(s[i + 1], s[i + 2]) ELSE s[i]]

AcceptsPath(path) == PercentDecode(path) = config.ws_path

StartupNext ==
  \/ ParseArgs \/ ValidateArgs \/ ParseTrojanConfig \/ LoadLocal \/ ResolveMax
  \/ StartLimiter \/ BindDualStack \/ UseConfig

StartupSpec == StartupInit /\ [][StartupNext]_startup_vars

-----------------------------------------------------------------------------
StartupStages ==
  {"args", "parsed", "valid", "configured", "loaded", "resolved", "running", "served", "exit", "crashed"}
StartupTypeOK ==
  /\ stage \in StartupStages /\ listener \in {"none", "dual", "ipv4"}
  /\ Len(limiter) <= 1 /\ (stage \in {"running", "served"}) = (listener # "none")

\* What a client asks for that sends the panel's path as it stands: the path
\* without its query, rooted.
ClientAsksFor(raw) ==
  IF BeforeQuery(raw) = <<>> THEN <<"/">>
  ELSE IF raw[1] = "/" THEN BeforeQuery(raw) ELSE <<"/">> \o BeforeQuery(raw)

\* No URI holds these in its path: white space and controls, brackets, the
\* accent, and the mark where a fragment begins.
NotInUris == {Blank, "<", ">", "grave", "#"}
FitsUri(raw) == \A i \in 1 .. Len(raw) : raw[i] \notin NotInUris

(* What an accepted start-up does to the code that uses it: no value that  *)
(* passes the checks of validate later ends sessions at once, reads as end *)
(* of file, panics a timer, a task or the connection limiter, but for one: *)
(* a buffer smaller than half of the shortest request, 34 bytes, makes     *)
(* read_trojan_request refuse every session.  Connections are limited, the *)
(* ALPN is the transport's, and a client that sends the panel's path as it *)
(* stands is let in exactly when the path holds no percent escape: the     *)
(* server decodes what it is sent and not what it was configured with      *)
(* (config.rs:202-330, handler.rs:51-100, ws.rs:94-104).                   *)
AcceptedIsUsable ==
  /\ StartupTypeOK
  /\ stage # "crashed"
  /\ fault = IF stage = "served" /\ 2 * cli.buffer_size < MIN_SIZE
             THEN {<<"refuses", "buffer_size">>} ELSE {}
  /\ stage = "served" =>
       /\ limiter # None /\ limiter[1] = resolved.value /\ limiter[1] \in 1 .. MAX_PERMITS
       /\ case.panel.path # None /\ FitsUri(case.panel.path[1]) =>
            (AcceptsPath(ClientAsksFor(case.panel.path[1])) <=> Escapes(config.ws_path) = {})
       /\ TransportType = "ws" => alpn # <<"h2">>
       /\ TransportType = "grpc" => alpn = <<"h2">>

\* Inputs no product saturates; numbers the budgets can be computed for.
Exact ==
  /\ Cpus <= MaxU64 \div (1000 * PER_CORE_MBPS)
  /\ TotalMem <= MaxU64 \div MEM_BUDGET_PCT /\ NoFile < MaxU64 \div 2
InReach(n) == n < MaxU64 \div (PER_USER_KBPS + PER_SESSION_KB)

(* The automatic limit is the largest one that the processors, half of the *)
(* memory and the file descriptors carry, with a quarter of a small        *)
(* descriptor limit, at most FD_RESERVE_DEFAULT, kept back; it is never 0, *)
(* also where a product saturates; and a fixed limit is warned about       *)
(* exactly when it does not fit (config_auto.rs:76-160, main.rs:150-161).  *)
AutoIsSafe ==
  resolved # None =>
    LET quarter == Least(FD_RESERVE_DEFAULT, NoFile \div 4)
        v == resolved.breakdown.value
        fits(n) == /\ n * PER_USER_KBPS <= Most(Cpus, 1) * PER_CORE_MBPS * 1000
                   /\ n * PER_SESSION_KB <= (TotalMem * MEM_BUDGET_PCT) \div 100
                   /\ n * FD_PER_SESSION + quarter <= NoFile IN
    /\ v >= 1 /\ v <= MAX_PERMITS
    /\ v * FD_PER_SESSION + quarter <= NoFile \/ v = 1
    /\ Exact => /\ v = 1 \/ fits(v)
                /\ ~fits(v + 1)
                /\ resolved.mode = "fixed" /\ InReach(resolved.value) =>
                     (resolved.warned <=> ~fits(resolved.value))
=============================================================================
