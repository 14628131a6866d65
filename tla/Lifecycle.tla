------------------------------ MODULE Lifecycle ------------------------------
(***************************************************************************)
(* Start-up and graceful shutdown of the server process (main.rs), with    *)
(* the traffic accounting it must not lose (business/mod.rs).              *)
(*                                                                         *)
(* Three parties run concurrently: main, the connection tasks, which       *)
(* record traffic in the collector, and the background reporter of         *)
(* panel-core, which takes what the collector holds and submits it.  The   *)
(* panel accepts traffic only from a registered node; a submission may     *)
(* also be applied while its answer is lost.                               *)
(*                                                                         *)
(* Traffic is counted in units; a connection is one relay of handler.rs.   *)
(* cancel_all is atomic here, ConnectionManager has it shard by shard.     *)
(***************************************************************************)
EXTENDS Naturals, FiniteSets

CONSTANTS
  Conns,       \* connection tasks
  MaxTraffic,  \* bound: units recorded in a run
  MaxRetries,  \* bound: reports the background task starts
  Grpc         \* gRPC transport: an HTTP/2 connection accepted before shutdown
               \* keeps admitting streams after the accept loop is gone

ASSUME BoundsAssumption == MaxTraffic \in Nat /\ MaxRetries \in Nat
ASSUME GrpcAssumption == Grpc \in BOOLEAN

VARIABLES
  pc,           \* where main is
  registered,   \* the client holds a register_id, i.e. the panel lists the node
  conn,         \* each task: "none", "reading" its request, "serving", "gone"
  cancelled,    \* tasks whose token cancel_all has cancelled
  drain,        \* 100 ms polls left before drain_deadline, counted as 1 or 0
  recorded,     \* units recorded since the start
  collector,    \* units in the collector
  panel,        \* units the panel has booked
  main_batch,   \* units flush_traffic has taken and not settled
  bg,           \* the background reporter: "off", "idle", "submitting", "done"
  bg_batch,     \* units it has taken and not settled
  reports,      \* reports it has started (bound)
  \* History, read by the properties only.
  booked_twice, \* units booked whose answer was lost: they are submitted again
  excused,      \* why units may be left behind: see LeftBehindIsExplained
  unregister_failed

traffic_vars == <<recorded, collector, panel, main_batch, booked_twice>>
bg_vars      == <<bg, bg_batch, reports>>
conn_vars    == <<conn, cancelled>>
vars == <<pc, registered, conn_vars, drain, traffic_vars, bg_vars, excused, unregister_failed>>

Init ==
  /\ pc = "fetch_config"
  /\ registered = FALSE
  /\ conn = [c \in Conns |-> "none"] /\ cancelled = {}
  /\ drain = 0
  /\ recorded = 0 /\ collector = 0 /\ panel = 0 /\ main_batch = 0 /\ booked_twice = 0
  /\ bg = "off" /\ bg_batch = 0 /\ reports = 0
  /\ excused = {} /\ unregister_failed = FALSE

-----------------------------------------------------------------------------
(* Start-up.  Everything that can fail locally precedes registration.      *)

FetchConfig ==
  /\ pc = "fetch_config"
  /\ pc' \in {"local_setup", "exited"}
  /\ UNCHANGED <<registered, conn_vars, drain, traffic_vars, bg_vars, excused, unregister_failed>>

\* build_router (ACL file, geodata) and load_tls (PEM files).
LocalSetup ==
  /\ pc = "local_setup"
  /\ pc' \in {"initialize", "exited"}
  /\ UNCHANGED <<registered, conn_vars, drain, traffic_vars, bg_vars, excused, unregister_failed>>

Initialize ==
  /\ pc = "initialize"
  /\ \/ pc' = "fetch_users" /\ registered' = TRUE
     \/ pc' = "exited" /\ UNCHANGED registered
  /\ UNCHANGED <<conn_vars, drain, traffic_vars, bg_vars, excused, unregister_failed>>

\* Where a failed fetch_users continues: at the unregister call.
UsersFailedReturns == "exited"
UsersFailed == "abort"

\* On success the server is built and the background tasks are started.
FetchUsers ==
  /\ pc = "fetch_users"
  /\ \/ pc' = "running" /\ bg' = "idle"
     \/ pc' = UsersFailed /\ UNCHANGED bg
  /\ UNCHANGED <<registered, conn_vars, drain, traffic_vars, bg_batch, reports, excused,
                 unregister_failed>>

\* api.unregister(): the register_id is gone unless the call fails.
Unregister ==
  \/ registered' = FALSE /\ UNCHANGED unregister_failed
  \/ unregister_failed' = TRUE /\ UNCHANGED registered

Abort ==
  /\ pc = "abort"
  /\ Unregister
  /\ pc' = "exited"
  /\ UNCHANGED <<conn_vars, drain, traffic_vars, bg_vars, excused>>

-----------------------------------------------------------------------------
(* Connection tasks.                                                       *)

Alive == pc # "exited"

\* The accept loop lives inside run_server, which select! drops; the streams of
\* an HTTP/2 connection are accepted by that connection's own task.
Accepting == pc = "running" \/ (Grpc /\ Alive /\ bg # "off")

Accept(c) ==
  /\ Accepting /\ conn[c] = "none"
  /\ conn' = [conn EXCEPT ![c] = "reading"]
  /\ UNCHANGED <<pc, registered, cancelled, drain, traffic_vars, bg_vars, excused, unregister_failed>>

\* authenticate and register.
Serve(c) ==
  /\ Alive /\ conn[c] = "reading"
  /\ conn' = [conn EXCEPT ![c] = "serving"]
  /\ UNCHANGED <<pc, registered, cancelled, drain, traffic_vars, bg_vars, excused, unregister_failed>>

\* flush_traffic has taken its snapshot.
Flushed == pc \in {"submit", "unregister", "stop_background"}

Record(c) ==
  /\ Alive /\ conn[c] = "serving" /\ recorded < MaxTraffic
  /\ recorded' = recorded + 1
  /\ collector' = collector + 1
  /\ excused' = IF Flushed \/ bg = "done" THEN excused \cup {"late"} ELSE excused
  /\ UNCHANGED <<pc, registered, conn_vars, drain, panel, main_batch, booked_twice, bg_vars,
                 unregister_failed>>

\* The task ends by itself or because its token is cancelled.
Finish(c) ==
  /\ Alive /\ conn[c] \in {"reading", "serving"}
  /\ conn' = [conn EXCEPT ![c] = "gone"]
  /\ cancelled' = cancelled \ {c}
  /\ UNCHANGED <<pc, registered, drain, traffic_vars, bg_vars, excused, unregister_failed>>

-----------------------------------------------------------------------------
(* The background reporter (panel-core): take, submit, restore on error.   *)

\* What the panel and its answer make of n units: accepted; refused; or booked
\* with the answer lost, which the caller takes for refused and restores.
Booked(n) == panel' = panel + n /\ UNCHANGED <<collector, booked_twice>>
\* A failed submission whose snapshot is not put back.
Dropped(n) == UNCHANGED <<collector, panel, booked_twice>>
Restored(n) == collector' = collector + n /\ UNCHANGED <<panel, booked_twice>>
AnswerLost(n) ==
  /\ panel' = panel + n
  /\ collector' = collector + n
  /\ booked_twice' = booked_twice + n

Settle(n) ==
  \/ registered /\ (Booked(n) \/ AnswerLost(n))
  \/ Restored(n)

BgTake ==
  /\ bg = "idle" /\ Alive /\ reports < MaxRetries /\ collector > 0
  /\ bg' = "submitting" /\ bg_batch' = collector /\ collector' = 0
  /\ reports' = reports + 1
  /\ UNCHANGED <<pc, registered, conn_vars, drain, recorded, panel, main_batch, booked_twice,
                 excused, unregister_failed>>

BgSettle ==
  /\ bg = "submitting" /\ Alive
  /\ Settle(bg_batch)
  /\ bg' = "idle" /\ bg_batch' = 0
  \* Back in the collector after main has taken its own snapshot.
  /\ excused' = IF collector' > collector /\ Flushed THEN excused \cup {"overlap"} ELSE excused
  /\ UNCHANGED <<pc, registered, conn_vars, drain, recorded, main_batch, reports, unregister_failed>>

-----------------------------------------------------------------------------
(* Shutdown.                                                               *)

\* A signal, or run_server returns (bind or listener error): run_server is
\* dropped and the shutdown sequence starts.
Stop ==
  /\ pc = "running"
  /\ pc' = "cancel_all"
  /\ UNCHANGED <<registered, conn_vars, drain, traffic_vars, bg_vars, excused, unregister_failed>>

\* connection_count()
Registered == {c \in Conns : conn[c] = "serving"}

\* Nothing cancelled: the drain loop is skipped, the flush is not.
SkipsFlush == "unregister"
SkipsDrain == "flush"
CancelAll ==
  /\ pc = "cancel_all"
  /\ cancelled' = cancelled \cup Registered
  /\ IF Registered # {} THEN pc' = "drain" /\ drain' = 1
                        ELSE pc' = SkipsDrain /\ UNCHANGED drain
  /\ UNCHANGED <<registered, conn, traffic_vars, bg_vars, excused, unregister_failed>>

DrainSleep ==
  /\ pc = "drain" /\ drain > 0 /\ Registered # {}
  /\ drain' = drain - 1
  /\ UNCHANGED <<pc, registered, conn_vars, traffic_vars, bg_vars, excused, unregister_failed>>

\* connection_count() = 0, or the deadline has passed.
DrainedOnly == Registered = {}
DrainOver   == Registered = {} \/ drain = 0

DrainDone ==
  /\ pc = "drain" /\ DrainOver
  /\ pc' = "flush"
  /\ UNCHANGED <<registered, conn_vars, drain, traffic_vars, bg_vars, excused, unregister_failed>>

\* flush_traffic: reset_all; an empty snapshot is not submitted.
FlushTake ==
  /\ pc = "flush"
  /\ main_batch' = collector /\ collector' = 0
  /\ pc' = IF collector = 0 THEN "unregister" ELSE "submit"
  /\ excused' = IF bg = "submitting" THEN excused \cup {"overlap"} ELSE excused
  /\ UNCHANGED <<registered, conn_vars, drain, recorded, panel, booked_twice, bg_vars,
                 unregister_failed>>

FlushSettle ==
  /\ pc = "submit"
  /\ Settle(main_batch)
  /\ main_batch' = 0
  /\ excused' = IF collector' > collector THEN excused \cup {"flush_failed"} ELSE excused
  /\ pc' = "unregister"
  /\ UNCHANGED <<registered, conn_vars, drain, recorded, bg_vars, unregister_failed>>

UnregisterNode ==
  /\ pc = "unregister"
  /\ Unregister
  /\ pc' = "stop_background"
  /\ UNCHANGED <<conn_vars, drain, traffic_vars, bg_vars, excused>>

\* background_handle.shutdown(): waits for a report in progress, then one
\* final report of what is left.
FinalReport ==
  /\ pc = "stop_background" /\ bg = "idle"
  /\ bg' = "done"
  /\ bg_batch' = 0
  /\ \/ registered /\ panel' = panel + collector /\ collector' = 0
     \/ UNCHANGED <<panel, collector>>
  /\ UNCHANGED <<pc, registered, conn_vars, drain, recorded, main_batch, booked_twice, reports,
                 excused, unregister_failed>>

\* main returns and the runtime drops the tasks that are left.
Exit ==
  /\ pc = "stop_background" /\ bg = "done"
  /\ pc' = "exited"
  /\ UNCHANGED <<registered, conn_vars, drain, traffic_vars, bg_vars, excused, unregister_failed>>

-----------------------------------------------------------------------------
Startup  == FetchConfig \/ LocalSetup \/ Initialize \/ FetchUsers \/ Abort
Shutdown == \/ CancelAll \/ DrainSleep \/ DrainDone \/ FlushTake \/ FlushSettle
            \/ UnregisterNode \/ FinalReport \/ Exit
Tasks == \E c \in Conns : Accept(c) \/ Serve(c) \/ Record(c) \/ Finish(c)
Background == BgTake \/ BgSettle

Next == Startup \/ Stop \/ Shutdown \/ Tasks \/ Background

\* main runs on; the drain loop counts down in real time; the calls to the
\* panel have api_timeout.  Connections and the signal owe nothing.
Fairness == WF_vars(Startup) /\ WF_vars(Shutdown) /\ WF_vars(BgSettle)

Spec     == Init /\ [][Next]_vars
FairSpec == Spec /\ Fairness

-----------------------------------------------------------------------------
PcValues == {"fetch_config", "local_setup", "initialize", "fetch_users", "abort", "running",
             "cancel_all", "drain", "flush", "submit", "unregister", "stop_background", "exited"}

TypeOK ==
  /\ pc \in PcValues /\ registered \in BOOLEAN
  /\ conn \in [Conns -> {"none", "reading", "serving", "gone"}] 
  /\ cancelled \subseteq {c \in Conns : conn[c] = "serving"}
  /\ drain \in {0, 1}
  /\ recorded \in 0 .. MaxTraffic /\ collector \in Nat /\ panel \in Nat
  /\ main_batch \in Nat /\ booked_twice \in Nat
  /\ bg \in {"off", "idle", "submitting", "done"} /\ bg_batch \in Nat /\ reports \in 0 .. MaxRetries
  /\ excused \subseteq {"late", "overlap", "flush_failed"} /\ unregister_failed \in BOOLEAN

(* The state is well typed, and every unit of traffic is in exactly one    *)
(* place: the collector, a batch being submitted by main or by the         *)
(* reporter, or the panel's books; the only excess is a batch booked with  *)
(* its answer lost (mod.rs:22-54).                                         *)
TrafficConserved ==
  /\ TypeOK
  /\ recorded + booked_twice = collector + main_batch + bg_batch + panel

(* The process leaves no registered node behind: whatever fails after      *)
(* initialize(), an unregister call is made before main returns            *)
(* (main.rs:104-119, 286-293).                                             *)
NoNodeLeftRegistered ==
  pc = "exited" => ~registered \/ unregister_failed

(* Traffic is left unreported at exit only if a connection recorded it     *)
(* after the final flush, the final flush failed, or a background report   *)
(* was under way during the flush (main.rs:262-296).                       *)
LeftBehindIsExplained ==
  pc = "exited" /\ collector > 0 => excused # {}

(* Once stopped, the process exits: the drain loop gives up on connections *)
(* that never end (main.rs:262-277).                                       *)
StopLeadsToExit == (pc = "cancel_all") ~> (pc = "exited")

=============================================================================
