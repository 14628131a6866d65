-------------------------------- MODULE Relay --------------------------------
(***************************************************************************)
(* The TCP relay: ConnectContext::relay in handler.rs and, inside it,      *)
(* copy_bidirectional_with_stats with its two DirectionalBuffers in        *)
(* core/relay.rs.                                                          *)
(*                                                                         *)
(* "up" copies client to remote, "down" remote to client.  One step is one *)
(* poll_read, poll_write, poll_flush or poll_shutdown call of poll_copy;   *)
(* what follows the two poll_copy calls in the poll closure (half-close    *)
(* timer, billing, idle timer, timeouts) touches only local state and is   *)
(* one step, Account.  The peers act between any two steps.                *)
(*                                                                         *)
(* Bytes are numbered in the order their source sends them, so that what a *)
(* buffer holds can be told from what it should hold.  Time advances in    *)
(* ticks while the task is parked; a timer is the number of ticks left.    *)
(***************************************************************************)
EXTENDS Integers, Sequences

CONSTANTS
  BufSize,      \* buffer_size, for each direction
  MaxSent,      \* bound: bytes each source may send (up counts the payload)
  SinkCap,      \* bytes a writer may hold back before the wire; 0 for plain
                \* TCP, where an accepted byte is on the wire
  Payload,      \* bytes of the request that follow its header
  IdleTimeout, UplinkOnly, DownlinkOnly,     \* in ticks
  HalfClose     \* transport_type.half_close(): can the client transport FIN?

Dirs == {"up", "down"}
Sides == {"client", "remote"}

ASSUME SizesAssumption ==
  /\ BufSize \in Nat \ {0}
  /\ MaxSent \in [Dirs -> Nat]
  /\ SinkCap \in [Dirs -> Nat]
  /\ Payload \in 0 .. MaxSent["up"]
\* validate() refuses a timeout under a second (config.rs:286-297).
ASSUME TimeoutsAssumption == {IdleTimeout, UplinkOnly, DownlinkOnly} \subseteq Nat \ {0}
ASSUME HalfCloseAssumption == HalfClose \in BOOLEAN

VARIABLES
  \* the peers, as the relay's streams show them
  sent,           \* bytes the source has sent
  eof,            \* the source has closed its sending side
  stalled,        \* the sink's peer is not reading
  broken,         \* sides whose stream fails
  kicked,         \* the cancel_token
  taken,          \* bytes read from the source so far
  out,            \* bytes the writer accepted, in order
  held,           \* how many of those are not on the wire yet
  fin,            \* poll_shutdown closed the sink
  \* DirectionalBuffer
  buf, pos, cap, amt, read_done, shutdown_done, flush_ok,
  \* the poll closure and its timers
  pc,             \* next step of the poll, or where the task is
  dir,            \* direction poll_copy is working on
  before,         \* bytes_transferred() when the poll started
  woken,          \* the waker has been called since the poll started
  waits,          \* operations that returned Pending in this poll
  half_active, half_timeout, half_left, idle_left,
  reported,       \* reported_up and reported_down
  billed,         \* what the StatsCollector has recorded for the user
  termination

peer_vars == <<sent, eof, stalled, broken, kicked>>
sink_vars == <<out, held, fin>>
dbuf_vars == <<buf, pos, cap, amt, read_done, shutdown_done, flush_ok>>
timer_vars == <<half_active, half_timeout, half_left, idle_left>>
bill_vars == <<reported, billed>>
vars == <<peer_vars, taken, sink_vars, dbuf_vars, pc, dir, before, woken, waits,
          timer_vars, bill_vars, termination>>

Other(d)  == IF d = "up" THEN "down" ELSE "up"
Reader(d) == IF d = "up" THEN "client" ELSE "remote"
Writer(d) == Reader(Other(d))

Smaller(m, n) == IF m <= n THEN m ELSE n

PerDir(v) == [d \in Dirs |-> v]
Start == [d \in Dirs |-> IF d = "up" THEN Payload ELSE 0]

Init ==
  /\ sent = Start /\ taken = Start
  /\ eof = PerDir(FALSE) /\ stalled = PerDir(FALSE) /\ broken = {} /\ kicked = FALSE
  /\ out = PerDir(<<>>) /\ held = PerDir(0) /\ fin = PerDir(FALSE)
  /\ buf = PerDir([i \in 0 .. BufSize - 1 |-> 0])
  /\ pos = PerDir(0) /\ cap = PerDir(0) /\ amt = PerDir(0)
  /\ read_done = PerDir(FALSE) /\ shutdown_done = PerDir(FALSE) /\ flush_ok = PerDir(FALSE)
  /\ pc = (IF Payload = 0 THEN "parked" ELSE "payload") /\ dir = "up"
  /\ before = PerDir(0) /\ woken = TRUE /\ waits = PerDir({})
  /\ half_active = FALSE /\ half_timeout = 0 /\ half_left = 0 /\ idle_left = IdleTimeout
  /\ reported = PerDir(0)
  /\ billed = Start          \* record_upload(payload.len()) precedes write_all
  /\ termination = "none"

-----------------------------------------------------------------------------
(* The streams: what poll_read, poll_write and poll_flush answer.          *)

Available(d) == sent[d] - taken[d]

\* Bytes the writer of d accepts now.  A writer with a buffer of its own first
\* tries to push what it holds; plain TCP takes bytes only while they can go.
Room(d) ==
  CASE SinkCap[d] = 0 /\ stalled[d]  -> 0
    [] SinkCap[d] = 0 /\ ~stalled[d] -> MaxSent[d]
    [] SinkCap[d] # 0 /\ stalled[d]  -> SinkCap[d] - held[d]
    [] OTHER                         -> SinkCap[d]

WriteFails(d) == Writer(d) \in broken
ReadFails(d)  == Reader(d) \in broken

\* poll_write returned Ok(Len(bytes)): they are the writer's.
Accept(d, bytes) ==
  /\ out' = [out EXCEPT ![d] = @ \o bytes]
  /\ held' = [held EXCEPT ![d] =
               IF SinkCap[d] = 0 THEN 0 ELSE IF stalled[d] THEN @ + Len(bytes) ELSE Len(bytes)]
  /\ UNCHANGED fin

\* poll_flush pushes what is held unless the peer is not reading.
FlushReady(d) == ~stalled[d] \/ held[d] = 0

\* The next n bytes of the source, put into the buffer from offset `at` on.
Fill(d, at, n) ==
  /\ buf' = [buf EXCEPT ![d] = [i \in 0 .. BufSize - 1 |->
              IF at <= i /\ i < at + n THEN taken[d] + 1 + i - at ELSE @[i]]]
  /\ taken' = [taken EXCEPT ![d] = @ + n]

-----------------------------------------------------------------------------
(* The peers.  An event wakes the task if an operation is waiting for it.  *)

WakeIf(cond) == woken' = (woken \/ cond)

PeerUnchanged == UNCHANGED <<taken, sink_vars, dbuf_vars, pc, dir, before, waits,
                             timer_vars, bill_vars, termination>>

SendByte(d) ==
  /\ ~eof[d] /\ sent[d] < MaxSent[d] /\ Reader(d) \notin broken
  /\ sent' = [sent EXCEPT ![d] = @ + 1]
  /\ WakeIf("read" \in waits[d])
  /\ UNCHANGED <<eof, stalled, broken, kicked>> /\ PeerUnchanged

SendEof(d) ==
  /\ ~eof[d] /\ Reader(d) \notin broken
  /\ eof' = [eof EXCEPT ![d] = TRUE]
  /\ WakeIf("read" \in waits[d])
  /\ UNCHANGED <<sent, stalled, broken, kicked>> /\ PeerUnchanged

\* The peer behind the writer of d stops reading, or reads again.
Stall(d) ==
  /\ ~stalled[d]
  /\ stalled' = [stalled EXCEPT ![d] = TRUE]
  /\ UNCHANGED <<sent, eof, broken, kicked, woken>> /\ PeerUnchanged

Resume(d) ==
  /\ stalled[d]
  /\ stalled' = [stalled EXCEPT ![d] = FALSE]
  /\ WakeIf("write" \in waits[d])
  /\ UNCHANGED <<sent, eof, broken, kicked>> /\ PeerUnchanged

\* A reset: both halves of that side's stream fail from now on.
Break(side) ==
  /\ side \notin broken
  /\ broken' = broken \cup {side}
  /\ WakeIf(\E d \in Dirs : \/ Reader(d) = side /\ "read" \in waits[d]
                            \/ Writer(d) = side /\ "write" \in waits[d])
  /\ UNCHANGED <<sent, eof, stalled, kicked>> /\ PeerUnchanged

\* kick_user or cancel_all cancels the token.
Kick ==
  /\ ~kicked
  /\ kicked' = TRUE
  /\ UNCHANGED <<sent, eof, stalled, broken, woken>> /\ PeerUnchanged

-----------------------------------------------------------------------------
(* relay(): the initial payload, already billed, goes out by write_all,    *)
(* which neither the idle timer nor the cancel token interrupts.           *)

\* The next n bytes of the payload.
PayloadBytes(n) == [k \in 1 .. n |-> Len(out["up"]) + k]

PayloadWrite ==
  /\ pc = "payload" /\ ~WriteFails("up")
  /\ \E n \in 1 .. Smaller(Payload - Len(out["up"]), Room("up")) :
       /\ Accept("up", PayloadBytes(n))
       /\ pc' = IF Len(out["up"]) + n = Payload THEN "parked" ELSE "payload"
  /\ UNCHANGED <<peer_vars, taken, dbuf_vars, dir, before, woken, waits, timer_vars,
                 bill_vars, termination>>

PayloadFails ==
  /\ pc = "payload" /\ WriteFails("up")
  /\ pc' = "closing" /\ termination' = "error"
  /\ UNCHANGED <<peer_vars, taken, sink_vars, dbuf_vars, dir, before, woken, waits,
                 timer_vars, bill_vars>>

-----------------------------------------------------------------------------
(* The poll closure: start, the two poll_copy calls, Account.              *)

\* poll_copy clears flush_ok when it is entered.
Enter(d) ==
  /\ dir' = d /\ pc' = "write"
  /\ flush_ok' = [flush_ok EXCEPT ![d] = FALSE]

\* poll_copy of d has returned Ready(Ok) or Pending.
Leave(d) ==
  IF d = "up" /\ ~shutdown_done["down"]
  THEN Enter("down")
  ELSE pc' = "account" /\ UNCHANGED <<dir, flush_ok>>

IsDrained(d) == read_done[d] /\ pos[d] >= cap[d]
TimerDue == idle_left = 0 \/ (half_active /\ half_left = 0)

StartPoll ==
  /\ pc = "parked" /\ (woken \/ TimerDue)
  /\ before' = amt
  /\ woken' = FALSE /\ waits' = PerDir({})
  /\ Enter(IF shutdown_done["up"] THEN "down" ELSE "up")
  /\ UNCHANGED <<peer_vars, taken, sink_vars, buf, pos, cap, amt, read_done,
                 shutdown_done, timer_vars, bill_vars, termination>>

\* The bytes that no poll has reported yet.
BillRest ==
  /\ billed' = [d \in Dirs |-> billed[d] + (amt[d] - reported[d])]
  /\ reported' = amt

\* The report after the await left out.
FailUnbilled ==
  /\ pc' = "closing" /\ termination' = "error"
  /\ UNCHANGED <<bill_vars, dir, flush_ok>>

\* Ready(Err): the closure returns at once; the report after the await makes
\* up for the accounting it skips.
Fail ==
  /\ pc' = "closing" /\ termination' = "error"
  /\ BillRest
  /\ UNCHANGED <<dir, flush_ok>>

\* Pending for the stream, but poll_copy did not pass its waker on.
WaitingForgotten(d, op) == UNCHANGED waits
Waiting(d, op) == waits' = [waits EXCEPT ![d] = @ \cup op]

CopyFrame == UNCHANGED <<peer_vars, before, woken, timer_vars>>
NotFailed == UNCHANGED <<bill_vars, termination>>

\* The first n bytes of buf[pos..cap].
Buffered(d, n) == [k \in 1 .. n |-> buf[d][pos[d] + k - 1]]

\* Step 1, poll_write returns Ok(n).
WriteOk(d) ==
  /\ pc = "write" /\ dir = d /\ pos[d] < cap[d] /\ ~WriteFails(d)
  /\ \E n \in 1 .. Smaller(cap[d] - pos[d], Room(d)) :
       /\ Accept(d, Buffered(d, n))
       /\ pos' = [pos EXCEPT ![d] = @ + n]
       /\ amt' = [amt EXCEPT ![d] = @ + n]
  /\ UNCHANGED <<taken, buf, cap, read_done, shutdown_done, flush_ok, pc, dir, waits>>
  /\ CopyFrame /\ NotFailed

WriteErr(d) ==
  /\ pc = "write" /\ dir = d /\ pos[d] < cap[d] /\ WriteFails(d)
  /\ Fail
  /\ UNCHANGED <<taken, sink_vars, buf, pos, cap, amt, read_done, shutdown_done, waits>>
  /\ CopyFrame

\* Step 1, poll_write returns Pending: probe for EOF in the space past cap.
\* The four actions are the answers of the probe read (no probe if none left).
WriteBlocked(d) == pc = "write" /\ dir = d /\ pos[d] < cap[d] /\ ~WriteFails(d) /\ Room(d) = 0
Probes(d) == ~read_done[d] /\ cap[d] < BufSize
\* A probe that reads over the unwritten bytes.
ProbeAtPos(d) == pos[d]
ProbeAt(d) == cap[d]

ProbeData(d) ==
  /\ WriteBlocked(d) /\ Probes(d)
  /\ \E n \in 1 .. Smaller(Available(d), BufSize - cap[d]) :
       /\ Fill(d, ProbeAt(d), n)
       /\ cap' = [cap EXCEPT ![d] = @ + n]
  /\ Waiting(d, {"write"}) /\ Leave(d)
  /\ UNCHANGED <<sink_vars, pos, amt, read_done, shutdown_done>>
  /\ CopyFrame /\ NotFailed

ProbeEof(d) ==
  /\ WriteBlocked(d) /\ Probes(d)
  /\ Available(d) = 0 /\ eof[d] /\ ~ReadFails(d)
  /\ read_done' = [read_done EXCEPT ![d] = TRUE]
  /\ Waiting(d, {"write"}) /\ Leave(d)
  /\ UNCHANGED <<taken, sink_vars, buf, pos, cap, amt, shutdown_done>>
  /\ CopyFrame /\ NotFailed

ProbeErr(d) ==
  /\ WriteBlocked(d) /\ Probes(d) /\ ReadFails(d)
  /\ Fail
  /\ UNCHANGED <<taken, sink_vars, buf, pos, cap, amt, read_done, shutdown_done, waits>>
  /\ CopyFrame

ProbeNothing(d) ==
  /\ WriteBlocked(d)
  /\ Probes(d) => Available(d) = 0 /\ ~eof[d] /\ ~ReadFails(d)
  /\ Waiting(d, IF Probes(d) THEN {"write", "read"} ELSE {"write"})
  /\ Leave(d)
  /\ UNCHANGED <<taken, sink_vars, buf, pos, cap, amt, read_done, shutdown_done>>
  /\ CopyFrame /\ NotFailed

\* Step 2, best-effort flush; Pending is remembered by the waker only.
Flush(d) ==
  /\ pc = "write" /\ dir = d /\ pos[d] >= cap[d] /\ ~WriteFails(d)
  /\ IF FlushReady(d)
     THEN /\ held' = [held EXCEPT ![d] = 0]
          /\ flush_ok' = [flush_ok EXCEPT ![d] = TRUE]
          /\ UNCHANGED waits
     ELSE /\ Waiting(d, {"write"})
          /\ UNCHANGED <<held, flush_ok>>
  /\ pc' = IF read_done[d] THEN "shutdown" ELSE "read"
  /\ UNCHANGED <<taken, out, fin, buf, pos, cap, amt, read_done, shutdown_done, dir>>
  /\ CopyFrame /\ NotFailed

FlushErr(d) ==
  /\ pc = "write" /\ dir = d /\ pos[d] >= cap[d] /\ WriteFails(d)
  /\ Fail
  /\ UNCHANGED <<taken, sink_vars, buf, pos, cap, amt, read_done, shutdown_done, waits>>
  /\ CopyFrame

\* The client side of a transport that cannot half-close is only flushed
\* (NoHalfClose::poll_shutdown).
SendsFin(d) == d = "up" \/ HalfClose

\* Step 3, poll_shutdown: flushes, then closes; errors are ignored.
Shutdown(d) ==
  /\ pc = "shutdown" /\ dir = d
  /\ WriteFails(d) \/ FlushReady(d)
  /\ held' = [held EXCEPT ![d] = IF WriteFails(d) THEN @ ELSE 0]
  /\ fin' = [fin EXCEPT ![d] = SendsFin(d) /\ ~WriteFails(d)]
  /\ shutdown_done' = [shutdown_done EXCEPT ![d] = TRUE]
  /\ Leave(d)
  /\ UNCHANGED <<taken, out, buf, pos, cap, amt, read_done, waits>>
  /\ CopyFrame /\ NotFailed

ShutdownPending(d) ==
  /\ pc = "shutdown" /\ dir = d
  /\ ~WriteFails(d) /\ ~FlushReady(d)
  /\ Waiting(d, {"write"}) /\ Leave(d)
  /\ UNCHANGED <<taken, sink_vars, buf, pos, cap, amt, read_done, shutdown_done>>
  /\ CopyFrame /\ NotFailed

\* Step 4, poll_read into the empty buffer.
ReadData(d) ==
  /\ pc = "read" /\ dir = d
  /\ \E n \in 1 .. Smaller(Available(d), BufSize) :
       /\ Fill(d, 0, n)
       /\ cap' = [cap EXCEPT ![d] = n]
  /\ pos' = [pos EXCEPT ![d] = 0]
  /\ pc' = "write"
  /\ UNCHANGED <<sink_vars, amt, read_done, shutdown_done, flush_ok, dir, waits>>
  /\ CopyFrame /\ NotFailed

ReadEof(d) ==
  /\ pc = "read" /\ dir = d
  /\ Available(d) = 0 /\ eof[d] /\ ~ReadFails(d)
  /\ read_done' = [read_done EXCEPT ![d] = TRUE]
  /\ pc' = "write"
  /\ UNCHANGED <<taken, sink_vars, buf, pos, cap, amt, shutdown_done, flush_ok, dir, waits>>
  /\ CopyFrame /\ NotFailed

ReadErr(d) ==
  /\ pc = "read" /\ dir = d /\ ReadFails(d)
  /\ Fail
  /\ UNCHANGED <<taken, sink_vars, buf, pos, cap, amt, read_done, shutdown_done, waits>>
  /\ CopyFrame

ReadPending(d) ==
  /\ pc = "read" /\ dir = d
  /\ Available(d) = 0 /\ ~eof[d] /\ ~ReadFails(d)
  /\ Waiting(d, {"read"}) /\ Leave(d)
  /\ UNCHANGED <<taken, sink_vars, buf, pos, cap, amt, read_done, shutdown_done>>
  /\ CopyFrame /\ NotFailed

-----------------------------------------------------------------------------
(* The rest of the closure, after both poll_copy calls.                    *)

\* Client EOF and everything handed on: only the downlink remains.
ArmsDownlink == IsDrained("up") /\ ~shutdown_done["down"] /\ ~half_active
ArmsUplink   == IsDrained("down") /\ ~shutdown_done["up"] /\ ~half_active /\ ~ArmsDownlink
HalfActive   == half_active \/ ArmsDownlink \/ ArmsUplink
HalfTimeout  == CASE ArmsDownlink -> DownlinkOnly
                  [] ArmsUplink   -> UplinkOnly
                  [] OTHER        -> half_timeout

\* New bytes written, and a flush succeeded in the same poll_copy.
Progress(d) == amt[d] > before[d] /\ flush_ok[d]
Progressed  == \E d \in Dirs : Progress(d)

HalfLeft == IF ArmsDownlink \/ ArmsUplink \/ (Progressed /\ HalfActive)
            THEN HalfTimeout ELSE half_left
IdleLeftAlways == IdleTimeout     \* every poll resets the timer
IdleLeft == IF Progressed THEN IdleTimeout ELSE idle_left

\* The timers are looked at before the timers of this poll are reset.
OutcomeOfOldTimers ==
  CASE \A d \in Dirs : shutdown_done[d] -> "completed"
    [] half_active /\ half_left = 0      -> "half_close"
    [] idle_left = 0                     -> "idle"
    [] OTHER                             -> "none"
\* One finished direction ends the relay.
OutcomeOfEither ==
  CASE \E d \in Dirs : shutdown_done[d] -> "completed"
    [] HalfActive /\ HalfLeft = 0        -> "half_close"
    [] IdleLeft = 0                      -> "idle"
    [] OTHER                             -> "none"

Outcome ==
  CASE \A d \in Dirs : shutdown_done[d] -> "completed"
    [] HalfActive /\ HalfLeft = 0        -> "half_close"
    [] IdleLeft = 0                      -> "idle"
    [] OTHER                             -> "none"

Account ==
  /\ pc = "account"
  /\ half_active' = HalfActive /\ half_timeout' = HalfTimeout
  /\ half_left' = HalfLeft /\ idle_left' = IdleLeft
  /\ BillRest
  /\ termination' = Outcome
  /\ pc' = IF Outcome = "none" THEN "parked" ELSE "closing"
  /\ UNCHANGED <<peer_vars, taken, sink_vars, dbuf_vars, dir, before, woken, waits>>

\* One unit of time passes for a parked task.
Tick ==
  /\ pc = "parked" /\ idle_left > 0
  /\ idle_left' = idle_left - 1
  /\ half_left' = IF half_active /\ half_left > 0 THEN half_left - 1 ELSE half_left
  /\ UNCHANGED <<peer_vars, taken, sink_vars, dbuf_vars, pc, dir, before, woken, waits,
                 half_active, half_timeout, bill_vars, termination>>

\* The cancelled() arm of select!: the relay future is dropped where it awaits.
ObserveCancel ==
  /\ pc = "parked" /\ kicked
  /\ pc' = "closing" /\ termination' = "kicked"
  /\ UNCHANGED <<peer_vars, taken, sink_vars, dbuf_vars, dir, before, woken, waits,
                 timer_vars, bill_vars>>

\* close_client under CLOSE_TIMEOUT, for a kick also the remote's shutdown under
\* SHUTDOWN_TIMEOUT; then both streams are dropped.
Close ==
  /\ pc = "closing"
  /\ pc' = "closed"
  /\ UNCHANGED <<peer_vars, taken, sink_vars, dbuf_vars, dir, before, woken, waits,
                 timer_vars, bill_vars, termination>>

-----------------------------------------------------------------------------
PollCopy(d) ==
  \/ WriteOk(d) \/ WriteErr(d)
  \/ ProbeData(d) \/ ProbeEof(d) \/ ProbeErr(d) \/ ProbeNothing(d)
  \/ Flush(d) \/ FlushErr(d)
  \/ Shutdown(d) \/ ShutdownPending(d)
  \/ ReadData(d) \/ ReadEof(d) \/ ReadErr(d) \/ ReadPending(d)

Poll == StartPoll \/ (\E d \in Dirs : PollCopy(d)) \/ Account
RelayStep == PayloadWrite \/ PayloadFails \/ Poll \/ ObserveCancel \/ Close

\* What the peers do once the session is over no longer concerns the relay.
Peers ==
  /\ pc \notin {"closing", "closed"}
  /\ \/ \E d \in Dirs : SendByte(d) \/ SendEof(d) \/ Stall(d) \/ Resume(d)
     \/ \E side \in Sides : Break(side)
     \/ Kick

Next == RelayStep \/ Peers \/ Tick

\* The runtime polls a woken task and runs what is ready; time passes (the
\* task keeps coming back to the parked state, hence SF).  The peers owe
\* nothing, they may stall for ever, and no kick is needed for a relay to end.
Fairness == WF_vars(Poll \/ Close) /\ SF_vars(Tick)

Spec     == Init /\ [][Next]_vars
FairSpec == Spec /\ Fairness

-----------------------------------------------------------------------------
PcValues == {"payload", "parked", "write", "read", "shutdown", "account", "closing", "closed"}
Outcomes == {"none", "completed", "half_close", "idle", "error", "kicked"}

TypeOK ==
  /\ sent \in [Dirs -> Nat] /\ taken \in [Dirs -> Nat] /\ amt \in [Dirs -> Nat]
  /\ eof \in [Dirs -> BOOLEAN] /\ stalled \in [Dirs -> BOOLEAN]
  /\ broken \subseteq Sides /\ kicked \in BOOLEAN
  /\ out \in [Dirs -> Seq(Nat)] /\ held \in [Dirs -> Nat] /\ fin \in [Dirs -> BOOLEAN]
  /\ buf \in [Dirs -> [0 .. BufSize - 1 -> Nat]]
  /\ pos \in [Dirs -> 0 .. BufSize] /\ cap \in [Dirs -> 0 .. BufSize]
  /\ read_done \in [Dirs -> BOOLEAN] /\ shutdown_done \in [Dirs -> BOOLEAN]
  /\ flush_ok \in [Dirs -> BOOLEAN]
  /\ pc \in PcValues /\ dir \in Dirs
  /\ before \in [Dirs -> Nat] 
  /\ woken \in BOOLEAN /\ waits \in [Dirs -> SUBSET {"read", "write"}]
  /\ half_active \in BOOLEAN /\ half_timeout \in Nat /\ half_left \in Nat
  /\ idle_left \in 0 .. IdleTimeout
  /\ reported \in [Dirs -> Nat] /\ billed \in [Dirs -> Nat]
  /\ termination \in Outcomes

(* Each direction implements the abstract pipe BytePipe, from the source's *)
(* sends to what the writer of the other side accepted, with a finished    *)
(* direction as its end: every byte arrives once and in order, across the  *)
(* initial payload, partial writes, short reads and probe reads that       *)
(* append behind unwritten data, and no direction is finished before its   *)
(* source has closed and its last byte is handed over (relay.rs:160-245).  *)
Numbered(n) == [i \in 1 .. n |-> i]
Upload == INSTANCE BytePipe WITH
  sent <- Numbered(sent["up"]), got <- out["up"],
  closed <- eof["up"], ended <- shutdown_done["up"]
Download == INSTANCE BytePipe WITH
  sent <- Numbered(sent["down"]), got <- out["down"],
  closed <- eof["down"], ended <- shutdown_done["down"]
Pipes == Upload!Spec /\ Download!Spec

(* Bytes handed to a peer are billed whenever the task can be dropped:     *)
(* parked (kick, shutdown, transport cancel) or finished in any way,       *)
(* errors included; amt counts exactly the bytes handed over, and nothing  *)
(* is billed that the client or the remote did not send                    *)
(* (relay.rs:350-364, 433-442).                                            *)
BilledWhenDropped ==
  /\ TypeOK
  /\ \A d \in Dirs :
       /\ pc \in {"parked", "closing", "closed"} => billed[d] = amt[d] + Start[d]
       /\ pc # "payload" => Len(out[d]) = amt[d] + Start[d] \/ termination = "error"
       /\ billed[d] <= sent[d]

(* A sink sees the end of the stream only after every byte its source sent *)
(* before closing, and of a relay reported as completed the writers have   *)
(* accepted every byte of either direction; what a sink still holds then   *)
(* is lost if its shutdown fails, an error that relay.rs:229 ignores       *)
(* (relay.rs:226-232, 400-403).                                            *)
NothingCutOff ==
  /\ \A d \in Dirs : fin[d] => eof[d] /\ Len(out[d]) = sent[d] /\ held[d] = 0
  /\ termination = "completed" => \A d \in Dirs : eof[d] /\ Len(out[d]) = sent[d]

(* A task that is parked and not woken has nothing to do: each direction   *)
(* waits for a peer that really holds it up.  No Pending is returned       *)
(* without a waker for the event that ends it (relay.rs:176-205, 218-245). *)
NoLostWakeup ==
  pc = "parked" /\ ~woken =>
    \A d \in Dirs :
      \/ shutdown_done[d]
      \/ pos[d] < cap[d] /\ Room(d) = 0 /\ ~WriteFails(d)
      \/ pos[d] >= cap[d] /\ ~read_done[d] /\ Available(d) = 0 /\ ~eof[d] /\ ~ReadFails(d)
      \/ pos[d] >= cap[d] /\ read_done[d] /\ ~FlushReady(d) /\ ~WriteFails(d)

(* A poll that delivers new bytes never ends the relay by a timeout, even  *)
(* when a timer had expired before it ran (relay.rs:383-415).              *)
NoTimeoutOnProgress ==
  [][termination' \in {"idle", "half_close"} /\ termination = "none" => ~Progressed]_vars

(* Every relay comes to an end, whatever the peers do: stall for ever,     *)
(* never close, reset, or toggle without moving data (relay.rs:405-415).   *)
(* Only the initial payload can hold it up without end (see PayloadWrite). *)
RelayEnds == pc # "payload" ~> pc = "closed"

-----------------------------------------------------------------------------
(* What a comment of config.rs says and the code does not do.              *)

(* config.rs:162: "After client closes (upload EOF), wait this long for    *)
(* remote to finish (like Xray uplinkOnly, default: 2s)", of the option    *)
(* uplink_only_timeout, which handler.rs:281 passes as uplink_only_secs.   *)
ClientEofWaitsUplinkOnly ==
  half_active /\ read_done["up"] /\ ~read_done["down"] => half_timeout = UplinkOnly

=============================================================================
