------------------------------ MODULE RelayProofs ------------------------------
(***************************************************************************)
(* What holds of the TCP relay for every buffer size, every amount of data *)
(* and every timeout: exact billing wherever the task can be dropped, no   *)
(* byte cut off behind an end of stream, no Pending without a waker, and   *)
(* the refinement of one BytePipe per direction.                           *)
(***************************************************************************)
EXTENDS Relay, SequenceTheorems, TLAPS

-----------------------------------------------------------------------------
(* The inductive invariant.                                                *)

Over == pc \in {"closing", "closed"}
Copying == pc \in {"write", "read", "shutdown"}

\* TypeOK by parts.
PeerTypes ==
  /\ sent \in [Dirs -> Nat]
  /\ eof \in [Dirs -> BOOLEAN] /\ stalled \in [Dirs -> BOOLEAN]
  /\ broken \subseteq Sides /\ kicked \in BOOLEAN
SinkTypes ==
  out \in [Dirs -> Seq(Nat)] /\ held \in [Dirs -> Nat] /\ fin \in [Dirs -> BOOLEAN]
BufferTypes ==
  /\ taken \in [Dirs -> Nat] /\ amt \in [Dirs -> Nat]
  /\ pos \in [Dirs -> 0 .. BufSize] /\ cap \in [Dirs -> 0 .. BufSize]
Contents == buf \in [Dirs -> [0 .. BufSize - 1 -> Nat]]
FlagTypes ==
  /\ read_done \in [Dirs -> BOOLEAN] /\ shutdown_done \in [Dirs -> BOOLEAN]
  /\ flush_ok \in [Dirs -> BOOLEAN]
ControlTypes ==
  pc \in PcValues /\ dir \in Dirs /\ termination \in Outcomes
WakeTypes ==
  woken \in BOOLEAN /\ waits \in [Dirs -> SUBSET {"read", "write"}]
TimerTypes ==
  /\ before \in [Dirs -> Nat]
  /\ half_active \in BOOLEAN /\ half_timeout \in Nat /\ half_left \in Nat
  /\ idle_left \in 0 .. IdleTimeout
BillTypes == reported \in [Dirs -> Nat] /\ billed \in [Dirs -> Nat]
Types ==
  /\ PeerTypes /\ SinkTypes /\ BufferTypes /\ Contents /\ FlagTypes
  /\ ControlTypes /\ WakeTypes /\ TimerTypes /\ BillTypes

\* The relay has an outcome once it is over.
Termination ==
  /\ termination = "none" <=> ~Over
  /\ termination = "completed" => \A d \in Dirs : shutdown_done[d]
\* Where poll_copy stands says what it has found out about its buffer, and a
\* direction that has shut down is not copied again.
CopyStage ==
  /\ pc \in {"payload", "parked"} => ~shutdown_done["up"] \/ ~shutdown_done["down"]
  /\ Copying => ~shutdown_done[dir]
  /\ pc \in {"read", "shutdown"} => pos[dir] >= cap[dir]
  /\ pc = "read" => ~read_done[dir]
  /\ pc = "shutdown" => read_done[dir]

\* The buffer holds what was taken from the source and not handed over, in order.
Buffer ==
  \A d \in Dirs :
    /\ pos[d] <= cap[d]
    /\ taken[d] = amt[d] + Start[d] + (cap[d] - pos[d])
    /\ \A i \in pos[d] .. cap[d] - 1 : buf[d][i] = amt[d] + Start[d] + 1 + (i - pos[d])

\* The writer got the numbered bytes in order.
Ordered == \A d \in Dirs : \A i \in 1 .. Len(out[d]) : out[d][i] = i

\* The stages of a direction: all read, then shut down, then closed.
Ends ==
  \A d \in Dirs :
    /\ taken[d] <= sent[d]
    /\ read_done[d] => eof[d] /\ taken[d] = sent[d]
    /\ shutdown_done[d] => read_done[d] /\ pos[d] >= cap[d]
    /\ fin[d] => shutdown_done[d] /\ held[d] = 0

\* Nothing is copied before the payload is out, which happens at once or never.
PayloadStage ==
  /\ pc = "payload" => Len(out["up"]) < Payload /\ woken
  /\ Len(out["up"]) < Payload =>
       /\ pc = "payload" \/ (Over /\ termination = "error")
       /\ Len(out["down"]) = 0
       /\ \A d \in Dirs : amt[d] = 0 /\ ~read_done[d]
  /\ Len(out["up"]) >= Payload => \A d \in Dirs : Len(out[d]) = amt[d] + Start[d]

\* A poll reports what it has handed over before it returns.
Billing ==
  /\ \A d \in Dirs : billed[d] = reported[d] + Start[d] /\ reported[d] <= amt[d]
  /\ Over \/ pc \in {"payload", "parked"} => \A d \in Dirs : reported[d] = amt[d]

\* A direction that poll_copy is through with: it is finished, held up by its peer
\* with the waker registered, or the waker has been called.
Blocked(d) ==
  \/ pos[d] < cap[d] /\ Room(d) = 0 /\ ~WriteFails(d) /\ "write" \in waits[d]
  \/ /\ pos[d] >= cap[d] /\ ~read_done[d] /\ Available(d) = 0 /\ ~eof[d] /\ ~ReadFails(d)
     /\ "read" \in waits[d]
  \/ pos[d] >= cap[d] /\ read_done[d] /\ ~FlushReady(d) /\ ~WriteFails(d) /\ "write" \in waits[d]
Settled(d) == woken \/ shutdown_done[d] \/ Blocked(d)

Wakers ==
  /\ pc \in {"account", "parked"} => \A d \in Dirs : Settled(d)
  /\ Copying /\ dir = "down" => Settled("up")

\* The half-close timer has one of the two timeouts.
HalfTimer == half_active => half_timeout \in {UplinkOnly, DownlinkOnly}

-----------------------------------------------------------------------------
(* Types.                                                                  *)

\* The peers' events keep the types of what they change.
LEMMA NextPeerTypes ==
  ASSUME PeerTypes, [Next]_vars
  PROVE  PeerTypes'
<1>1. ASSUME NEW d \in Dirs, SendByte(d) PROVE PeerTypes'
  BY <1>1 DEF SendByte, PeerTypes
<1>2. ASSUME NEW d \in Dirs, SendEof(d) PROVE PeerTypes'
  BY <1>2 DEF SendEof, PeerTypes
<1>3. ASSUME NEW d \in Dirs, Stall(d) PROVE PeerTypes'
  BY <1>3 DEF Stall, PeerTypes
<1>4. ASSUME NEW d \in Dirs, Resume(d) PROVE PeerTypes'
  BY <1>4 DEF Resume, PeerTypes
<1>5. ASSUME NEW side \in Sides, Break(side) PROVE PeerTypes'
  BY <1>5 DEF Break, PeerTypes
<1>6. CASE Kick
  BY <1>6 DEF Kick, PeerTypes
<1>7. CASE UNCHANGED <<sent, eof, stalled, broken, kicked>>
  BY <1>7 DEF PeerTypes
<1>8. QED
  BY <1>1, <1>2, <1>3, <1>4, <1>5, <1>6, <1>7 DEF Next, RelayStep, Poll, PollCopy, Peers,
     PeerUnchanged, CopyFrame, NotFailed, vars, peer_vars, sink_vars, dbuf_vars, timer_vars,
     bill_vars, PayloadWrite, PayloadFails, StartPoll, Account, Tick, ObserveCancel, Close,
     WriteOk, WriteErr, ProbeData, ProbeEof, ProbeErr, ProbeNothing, Flush, FlushErr, Shutdown,
     ShutdownPending, ReadData, ReadEof, ReadErr, ReadPending

\* The flags of the two DirectionalBuffers stay Boolean.
LEMMA NextFlagTypes ==
  ASSUME FlagTypes, [Next]_vars
  PROVE  FlagTypes'
<1>1. CASE StartPoll
  BY <1>1 DEF StartPoll, FlagTypes, Enter, Leave, Dirs
<1>2. ASSUME NEW d \in Dirs, ProbeData(d) PROVE FlagTypes'
  BY <1>2 DEF ProbeData, FlagTypes, Enter, Leave, Dirs
<1>3. ASSUME NEW d \in Dirs, ProbeEof(d) PROVE FlagTypes'
  BY <1>3 DEF ProbeEof, FlagTypes, Enter, Leave, Dirs
<1>4. ASSUME NEW d \in Dirs, ProbeNothing(d) PROVE FlagTypes'
  BY <1>4 DEF ProbeNothing, FlagTypes, Enter, Leave, Dirs
<1>5. ASSUME NEW d \in Dirs, Flush(d) PROVE FlagTypes'
  BY <1>5 DEF Flush, FlagTypes, Enter, Leave, Dirs
<1>6. ASSUME NEW d \in Dirs, Shutdown(d) PROVE FlagTypes'
  BY <1>6 DEF Shutdown, FlagTypes, Enter, Leave, Dirs
<1>7. ASSUME NEW d \in Dirs, ShutdownPending(d) PROVE FlagTypes'
  BY <1>7 DEF ShutdownPending, FlagTypes, Enter, Leave, Dirs
<1>8. ASSUME NEW d \in Dirs, ReadEof(d) PROVE FlagTypes'
  BY <1>8 DEF ReadEof, FlagTypes, Enter, Leave, Dirs
<1>9. ASSUME NEW d \in Dirs, ReadPending(d) PROVE FlagTypes'
  BY <1>9 DEF ReadPending, FlagTypes, Enter, Leave, Dirs
<1>10. CASE UNCHANGED <<read_done, shutdown_done, flush_ok>>
  BY <1>10 DEF FlagTypes, Enter, Leave, Dirs
<1>11. QED
  BY <1>1, <1>2, <1>3, <1>4, <1>5, <1>6, <1>7, <1>8, <1>9, <1>10 DEF Next, RelayStep, Poll,
     PollCopy, Peers, PeerUnchanged, CopyFrame, NotFailed, vars, peer_vars, sink_vars,
     dbuf_vars, timer_vars, bill_vars, PayloadWrite, PayloadFails, Account, Tick, ObserveCancel,
     Close, Kick, WriteOk, WriteErr, ProbeErr, FlushErr, ReadData, ReadErr, SendByte, SendEof,
     Stall, Resume, Break, Fail

\* A writer that takes the next n bytes in order keeps its numbering.
LEMMA AppendNext ==
  ASSUME NEW q \in Seq(Nat), NEW n \in Nat, NEW bytes, bytes \in [1 .. n -> Nat],
         \A i \in 1 .. Len(q) : q[i] = i,
         \A k \in 1 .. n : bytes[k] = Len(q) + k
  PROVE  /\ q \o bytes \in Seq(Nat) /\ Len(q \o bytes) = Len(q) + n
         /\ \A i \in 1 .. Len(q) + n : (q \o bytes)[i] = i
<1>1. bytes \in Seq(Nat) /\ Len(bytes) = n /\ Len(q) \in Nat
  OBVIOUS
<1>2. /\ q \o bytes \in Seq(Nat) /\ Len(q \o bytes) = Len(q) + Len(bytes)
      /\ \A i \in 1 .. Len(q) + Len(bytes) :
           (q \o bytes)[i] = IF i <= Len(q) THEN q[i] ELSE bytes[i - Len(q)]
  BY <1>1, ConcatProperties
<1>3. QED
  BY <1>1, <1>2

\* A chunk no larger than both of two bounds.
LEMMA ChunkBounds ==
  ASSUME NEW m \in Int, NEW n \in Int, NEW k \in 1 .. Smaller(m, n)
  PROVE  k \in Nat /\ k >= 1 /\ k <= m /\ k <= n
  BY DEF Smaller

\* What a writer takes is a number.
LEMMA RoomIsInt ==
  ASSUME PeerTypes, SinkTypes, NEW d \in Dirs
  PROVE  Room(d) \in Int
  BY SizesAssumption DEF Room, PeerTypes, SinkTypes

\* What is read is put into the buffer as numbers.
LEMMA FilledContents ==
  ASSUME BufferTypes, Contents, NEW d \in Dirs, NEW at \in Nat, NEW n \in Nat, Fill(d, at, n)
  PROVE  Contents'
<1> DEFINE byte(i) == IF at <= i /\ i < at + n THEN taken[d] + 1 + i - at ELSE buf[d][i]
           filled  == [i \in 0 .. BufSize - 1 |-> byte(i)]
<1>1. buf' = [buf EXCEPT ![d] = filled]
  BY DEF Fill
<1>2. ASSUME NEW i \in 0 .. BufSize - 1 PROVE byte(i) \in Nat
  <2>1. taken[d] \in Nat /\ i \in Nat
    BY SizesAssumption DEF BufferTypes
  <2>2. buf[d][i] \in Nat
    BY DEF Contents
  <2>3. at <= i => taken[d] + 1 + i - at \in Nat
    BY <2>1
  <2>4. QED
    BY <2>2, <2>3
<1>3. filled \in [0 .. BufSize - 1 -> Nat]
  BY <1>2
<1>4. QED
  BY <1>1, <1>3 DEF Contents

\* What a step that moves n bytes does to the buffer of d: the first n buffered
\* bytes go to the writer, n bytes are appended behind the unwritten ones, or n
\* bytes are put into the empty buffer.
Written(d, n) ==
  /\ n >= 1 /\ n <= cap[d] - pos[d]
  /\ Accept(d, Buffered(d, n))
  /\ pos' = [pos EXCEPT ![d] = @ + n] /\ amt' = [amt EXCEPT ![d] = @ + n]
  /\ UNCHANGED <<taken, buf, cap>>
Probed(d, n) ==
  /\ n >= 1 /\ n <= sent[d] - taken[d] /\ n <= BufSize - cap[d]
  /\ Fill(d, cap[d], n)
  /\ cap' = [cap EXCEPT ![d] = @ + n]
  /\ UNCHANGED <<pos, amt>>
Reread(d, n) ==
  /\ n >= 1 /\ n <= sent[d] - taken[d] /\ n <= BufSize
  /\ Fill(d, 0, n)
  /\ cap' = [cap EXCEPT ![d] = n] /\ pos' = [pos EXCEPT ![d] = 0]
  /\ UNCHANGED amt

\* WriteOk writes a chunk,
LEMMA WriteChunk ==
  ASSUME PeerTypes, SinkTypes, BufferTypes, NEW d \in Dirs, WriteOk(d)
  PROVE  \E n \in Nat : Written(d, n)
<1>1. PICK n \in 1 .. Smaller(cap[d] - pos[d], Room(d)) :
        /\ Accept(d, Buffered(d, n))
        /\ pos' = [pos EXCEPT ![d] = @ + n] /\ amt' = [amt EXCEPT ![d] = @ + n]
  BY DEF WriteOk
<1>2. cap[d] - pos[d] \in Int /\ Room(d) \in Int
  BY RoomIsInt DEF BufferTypes
<1>3. n \in Nat /\ n >= 1 /\ n <= cap[d] - pos[d]
  BY <1>2, ChunkBounds
<1>4. QED
  BY <1>1, <1>3 DEF WriteOk, Written

\* ProbeData appends one,
LEMMA ProbeChunk ==
  ASSUME PeerTypes, BufferTypes, NEW d \in Dirs, ProbeData(d)
  PROVE  \E n \in Nat : Probed(d, n)
<1>1. PICK n \in 1 .. Smaller(Available(d), BufSize - cap[d]) :
        Fill(d, cap[d], n) /\ cap' = [cap EXCEPT ![d] = @ + n]
  BY DEF ProbeData, ProbeAt
<1>2. Available(d) \in Int /\ BufSize - cap[d] \in Int
  <2>1. sent[d] \in Nat /\ taken[d] \in Nat
    BY DEF PeerTypes, BufferTypes
  <2>2. cap[d] \in 0 .. BufSize
    BY DEF BufferTypes
  <2>3. QED
    BY <2>1, <2>2, SizesAssumption DEF Available
<1>3. n \in Nat /\ n >= 1 /\ n <= Available(d) /\ n <= BufSize - cap[d]
  BY <1>2, ChunkBounds
<1>4. QED
  BY <1>1, <1>3 DEF ProbeData, Available, Probed

\* and ReadData reads one.
LEMMA ReadChunk ==
  ASSUME PeerTypes, BufferTypes, NEW d \in Dirs, ReadData(d)
  PROVE  \E n \in Nat : Reread(d, n)
<1>1. PICK n \in 1 .. Smaller(Available(d), BufSize) :
        Fill(d, 0, n) /\ cap' = [cap EXCEPT ![d] = n]
  BY DEF ReadData
<1>2. Available(d) \in Int /\ BufSize \in Int
  BY SizesAssumption DEF PeerTypes, BufferTypes, Available
<1>3. n \in Nat /\ n >= 1 /\ n <= Available(d) /\ n <= BufSize
  BY <1>2, ChunkBounds
<1>4. QED
  BY <1>1, <1>3 DEF ReadData, Available, Reread

\* Reads fill the buffer within its size, writes advance within what was read.
LEMMA NextBufferTypes ==
  ASSUME PeerTypes, SinkTypes, BufferTypes, [Next]_vars
  PROVE  BufferTypes'
<1>1. ASSUME NEW d \in Dirs, WriteOk(d) PROVE BufferTypes'
  <2>1. PICK n \in Nat : Written(d, n)
    BY <1>1, WriteChunk
  <2>2. pos[d] \in 0 .. BufSize /\ cap[d] \in 0 .. BufSize /\ amt[d] \in Nat
    BY DEF BufferTypes
  <2>3. pos[d] + n \in 0 .. BufSize /\ amt[d] + n \in Nat
    BY <2>1, <2>2, SizesAssumption DEF Written
  <2>4. QED
    BY <2>1, <2>3 DEF BufferTypes, Written
<1>2. ASSUME NEW d \in Dirs, ProbeData(d) PROVE BufferTypes'
  <2>1. PICK n \in Nat : Probed(d, n)
    BY <1>2, ProbeChunk
  <2>2. taken[d] + n \in Nat /\ cap[d] \in 0 .. BufSize
    BY DEF BufferTypes
  <2>3. cap[d] + n \in 0 .. BufSize
    BY <2>1, <2>2, SizesAssumption DEF Probed
  <2>4. QED
    BY <2>1, <2>2, <2>3 DEF BufferTypes, Probed, Fill
<1>3. ASSUME NEW d \in Dirs, ReadData(d) PROVE BufferTypes'
  <2>1. PICK n \in Nat : Reread(d, n)
    BY <1>3, ReadChunk
  <2>2. taken[d] + n \in Nat /\ n \in 0 .. BufSize /\ 0 \in 0 .. BufSize
    BY <2>1, SizesAssumption DEF BufferTypes, Reread
  <2>3. QED
    BY <2>1, <2>2 DEF BufferTypes, Reread, Fill
<1>4. CASE UNCHANGED <<taken, amt, pos, cap>>
  BY <1>4, SizesAssumption DEF BufferTypes
<1>5. QED
  BY <1>1, <1>2, <1>3, <1>4 DEF Next, RelayStep, Poll, PollCopy, Peers, PeerUnchanged,
     CopyFrame, NotFailed, vars, peer_vars, sink_vars, dbuf_vars, timer_vars, bill_vars,
     PayloadWrite, PayloadFails, StartPoll, Account, Tick, ObserveCancel, Close, Kick, WriteErr,
     ProbeEof, ProbeErr, ProbeNothing, Flush, FlushErr, Shutdown, ShutdownPending, ReadEof,
     ReadErr, ReadPending, SendByte, SendEof, Stall, Resume, Break

\* The buffer holds byte numbers.
LEMMA NextContents ==
  ASSUME PeerTypes, BufferTypes, Contents, [Next]_vars
  PROVE  Contents'
<1>1. ASSUME NEW d \in Dirs, ProbeData(d) PROVE Contents'
  <2>1. PICK n \in Nat : Probed(d, n)
    BY <1>1, ProbeChunk
  <2>2. cap[d] \in Nat
    BY SizesAssumption DEF BufferTypes
  <2>3. QED
    BY <2>1, <2>2, FilledContents DEF Probed
<1>2. ASSUME NEW d \in Dirs, ReadData(d) PROVE Contents'
  <2>1. PICK n \in Nat : Reread(d, n)
    BY <1>2, ReadChunk
  <2>2. QED
    BY <2>1, FilledContents DEF Reread
<1>3. CASE UNCHANGED <<buf>>
  BY <1>3 DEF Contents
<1>4. QED
  BY <1>1, <1>2, <1>3 DEF Next, RelayStep, Poll, PollCopy, Peers, PeerUnchanged, CopyFrame,
     NotFailed, vars, peer_vars, sink_vars, dbuf_vars, timer_vars, bill_vars, PayloadWrite,
     PayloadFails, StartPoll, Account, Tick, ObserveCancel, Close, Kick, WriteOk, WriteErr,
     ProbeEof, ProbeErr, ProbeNothing, Flush, FlushErr, Shutdown, ShutdownPending, ReadEof,
     ReadErr, ReadPending, SendByte, SendEof, Stall, Resume, Break

\* The poll closure stays within its stages.
LEMMA NextControlTypes ==
  ASSUME ControlTypes, [Next]_vars
  PROVE  ControlTypes'
<1>1. CASE PayloadWrite
  BY <1>1 DEF PayloadWrite, ControlTypes, PcValues, Outcomes, Dirs, Enter, Leave
<1>2. CASE PayloadFails
  BY <1>2 DEF PayloadFails, ControlTypes, PcValues, Outcomes, Dirs, Enter, Leave
<1>3. CASE StartPoll
  BY <1>3 DEF StartPoll, ControlTypes, PcValues, Outcomes, Dirs, Enter, Leave
<1>4. CASE Account
  BY <1>4 DEF Account, Outcome, ControlTypes, PcValues, Outcomes, Dirs, Enter, Leave
<1>5. CASE ObserveCancel
  BY <1>5 DEF ObserveCancel, ControlTypes, PcValues, Outcomes, Dirs, Enter, Leave
<1>6. CASE Close
  BY <1>6 DEF Close, ControlTypes, PcValues, Outcomes, Dirs, Enter, Leave
<1>7. ASSUME NEW d \in Dirs, ProbeData(d) PROVE ControlTypes'
  BY <1>7 DEF ProbeData, CopyFrame, NotFailed, ControlTypes, PcValues, Outcomes, Dirs, Enter,
     Leave
<1>8. ASSUME NEW d \in Dirs, ProbeEof(d) PROVE ControlTypes'
  BY <1>8 DEF ProbeEof, CopyFrame, NotFailed, ControlTypes, PcValues, Outcomes, Dirs, Enter, Leave
<1>9. ASSUME NEW d \in Dirs, ProbeNothing(d) PROVE ControlTypes'
  BY <1>9 DEF ProbeNothing, CopyFrame, NotFailed, ControlTypes, PcValues, Outcomes, Dirs, Enter,
     Leave
<1>10. ASSUME NEW d \in Dirs, Shutdown(d) PROVE ControlTypes'
  BY <1>10 DEF Shutdown, CopyFrame, NotFailed, ControlTypes, PcValues, Outcomes, Dirs, Enter,
     Leave
<1>11. ASSUME NEW d \in Dirs, ShutdownPending(d) PROVE ControlTypes'
  BY <1>11 DEF ShutdownPending, CopyFrame, NotFailed, ControlTypes, PcValues, Outcomes, Dirs,
     Enter,
     Leave
<1>12. ASSUME NEW d \in Dirs, ReadPending(d) PROVE ControlTypes'
  BY <1>12 DEF ReadPending, CopyFrame, NotFailed, ControlTypes, PcValues, Outcomes, Dirs, Enter,
     Leave
<1>13. ASSUME NEW d \in Dirs, Flush(d) PROVE ControlTypes'
  BY <1>13 DEF Flush, CopyFrame, NotFailed, ControlTypes, PcValues, Outcomes, Dirs, Enter, Leave
<1>14. ASSUME NEW d \in Dirs, ReadData(d) PROVE ControlTypes'
  BY <1>14 DEF ReadData, CopyFrame, NotFailed, ControlTypes, PcValues, Outcomes, Dirs, Enter,
     Leave
<1>15. ASSUME NEW d \in Dirs, ReadEof(d) PROVE ControlTypes'
  BY <1>15 DEF ReadEof, CopyFrame, NotFailed, ControlTypes, PcValues, Outcomes, Dirs, Enter, Leave
<1>16. ASSUME NEW d \in Dirs, WriteErr(d) PROVE ControlTypes'
  BY <1>16 DEF WriteErr, Fail, ControlTypes, PcValues, Outcomes, Dirs, Enter, Leave
<1>17. ASSUME NEW d \in Dirs, ProbeErr(d) PROVE ControlTypes'
  BY <1>17 DEF ProbeErr, Fail, ControlTypes, PcValues, Outcomes, Dirs, Enter, Leave
<1>18. ASSUME NEW d \in Dirs, FlushErr(d) PROVE ControlTypes'
  BY <1>18 DEF FlushErr, Fail, ControlTypes, PcValues, Outcomes, Dirs, Enter, Leave
<1>19. ASSUME NEW d \in Dirs, ReadErr(d) PROVE ControlTypes'
  BY <1>19 DEF ReadErr, Fail, ControlTypes, PcValues, Outcomes, Dirs, Enter, Leave
<1>20. CASE UNCHANGED <<pc, dir, termination>>
  BY <1>20 DEF ControlTypes, PcValues, Outcomes, Dirs, Enter, Leave
<1>21. QED
  BY <1>1, <1>2, <1>3, <1>4, <1>5, <1>6, <1>7, <1>8, <1>9, <1>10, <1>11, <1>12, <1>13, <1>14,
     <1>15, <1>16, <1>17, <1>18, <1>19, <1>20 DEF Next, RelayStep, Poll, PollCopy, Peers,
     PeerUnchanged, CopyFrame, NotFailed, vars, peer_vars, sink_vars, dbuf_vars, timer_vars,
     bill_vars, Tick, Kick, WriteOk, SendByte, SendEof, Stall, Resume, Break

\* Wakers are registered for reads and writes.
LEMMA NextWakeTypes ==
  ASSUME WakeTypes, [Next]_vars
  PROVE  WakeTypes'
<1>1. CASE StartPoll
  BY <1>1 DEF StartPoll, PerDir, WakeTypes, WakeIf, PeerUnchanged
<1>2. ASSUME NEW d \in Dirs, SendByte(d) PROVE WakeTypes'
  BY <1>2 DEF SendByte, WakeTypes, WakeIf, PeerUnchanged
<1>3. ASSUME NEW d \in Dirs, SendEof(d) PROVE WakeTypes'
  BY <1>3 DEF SendEof, WakeTypes, WakeIf, PeerUnchanged
<1>4. ASSUME NEW d \in Dirs, Resume(d) PROVE WakeTypes'
  BY <1>4 DEF Resume, WakeTypes, WakeIf, PeerUnchanged
<1>5. ASSUME NEW side \in Sides, Break(side) PROVE WakeTypes'
  BY <1>5 DEF Break, WakeTypes, WakeIf, PeerUnchanged
<1>6. ASSUME NEW d \in Dirs, ProbeData(d) PROVE WakeTypes'
  BY <1>6 DEF ProbeData, CopyFrame, Waiting, WakeTypes, WakeIf, PeerUnchanged
<1>7. ASSUME NEW d \in Dirs, ProbeEof(d) PROVE WakeTypes'
  BY <1>7 DEF ProbeEof, CopyFrame, Waiting, WakeTypes, WakeIf, PeerUnchanged
<1>8. ASSUME NEW d \in Dirs, ProbeNothing(d) PROVE WakeTypes'
  BY <1>8 DEF ProbeNothing, CopyFrame, Waiting, WakeTypes, WakeIf, PeerUnchanged
<1>9. ASSUME NEW d \in Dirs, Flush(d) PROVE WakeTypes'
  BY <1>9 DEF Flush, CopyFrame, Waiting, WakeTypes, WakeIf, PeerUnchanged
<1>10. ASSUME NEW d \in Dirs, ShutdownPending(d) PROVE WakeTypes'
  BY <1>10 DEF ShutdownPending, CopyFrame, Waiting, WakeTypes, WakeIf, PeerUnchanged
<1>11. ASSUME NEW d \in Dirs, ReadPending(d) PROVE WakeTypes'
  BY <1>11 DEF ReadPending, CopyFrame, Waiting, WakeTypes, WakeIf, PeerUnchanged
<1>12. CASE UNCHANGED <<woken, waits>>
  BY <1>12 DEF WakeTypes, WakeIf, PeerUnchanged
<1>13. QED
  BY <1>1, <1>2, <1>3, <1>4, <1>5, <1>6, <1>7, <1>8, <1>9, <1>10, <1>11, <1>12 DEF Next,
     RelayStep, Poll, PollCopy, Peers, PeerUnchanged, CopyFrame, NotFailed, vars, peer_vars,
     sink_vars, dbuf_vars, timer_vars, bill_vars, PayloadWrite, PayloadFails, Account, Tick,
     ObserveCancel, Close, Kick, WriteOk, WriteErr, ProbeErr, FlushErr, Shutdown, ReadData,
     ReadEof, ReadErr, Stall

\* The timers count down from their timeouts.
LEMMA NextTimerTypes ==
  ASSUME BufferTypes, FlagTypes, TimerTypes, [Next]_vars
  PROVE  TimerTypes'
<1>1. CASE StartPoll
  BY <1>1, TimeoutsAssumption DEF StartPoll, timer_vars, BufferTypes, TimerTypes
<1>2. CASE Account
  BY <1>2, TimeoutsAssumption DEF Account, HalfActive, HalfTimeout, HalfLeft, IdleLeft, TimerTypes
<1>3. CASE Tick
  BY <1>3, TimeoutsAssumption DEF Tick, TimerTypes
<1>4. CASE UNCHANGED <<before, half_active, half_timeout, half_left, idle_left>>
  BY <1>4, TimeoutsAssumption DEF TimerTypes
<1>5. QED
  BY <1>1, <1>2, <1>3, <1>4 DEF Next, RelayStep, Poll, PollCopy, Peers, PeerUnchanged,
     CopyFrame, NotFailed, vars, peer_vars, sink_vars, dbuf_vars, timer_vars, bill_vars,
     PayloadWrite, PayloadFails, ObserveCancel, Close, Kick, WriteOk, WriteErr, ProbeData,
     ProbeEof, ProbeErr, ProbeNothing, Flush, FlushErr, Shutdown, ShutdownPending, ReadData,
     ReadEof, ReadErr, ReadPending, SendByte, SendEof, Stall, Resume, Break

\* What is billed is a number of bytes.
LEMMA NextBillTypes ==
  ASSUME BufferTypes, BillTypes, Billing, [Next]_vars
  PROVE  BillTypes'
<1>1. CASE Account
  BY <1>1 DEF Account, BillRest, BufferTypes, BillTypes, Billing
<1>2. ASSUME NEW d \in Dirs, WriteErr(d) PROVE BillTypes'
  BY <1>2 DEF WriteErr, Fail, BillRest, BufferTypes, BillTypes, Billing
<1>3. ASSUME NEW d \in Dirs, ProbeErr(d) PROVE BillTypes'
  BY <1>3 DEF ProbeErr, Fail, BillRest, BufferTypes, BillTypes, Billing
<1>4. ASSUME NEW d \in Dirs, FlushErr(d) PROVE BillTypes'
  BY <1>4 DEF FlushErr, Fail, BillRest, BufferTypes, BillTypes, Billing
<1>5. ASSUME NEW d \in Dirs, ReadErr(d) PROVE BillTypes'
  BY <1>5 DEF ReadErr, Fail, BillRest, BufferTypes, BillTypes, Billing
<1>6. CASE UNCHANGED <<reported, billed>>
  BY <1>6 DEF BufferTypes, BillTypes, Billing
<1>7. QED
  BY <1>1, <1>2, <1>3, <1>4, <1>5, <1>6 DEF Next, RelayStep, Poll, PollCopy, Peers,
     PeerUnchanged, CopyFrame, NotFailed, vars, peer_vars, sink_vars, dbuf_vars, timer_vars,
     bill_vars, PayloadWrite, PayloadFails, StartPoll, Tick, ObserveCancel, Close, Kick,
     WriteOk, ProbeData, ProbeEof, ProbeNothing, Flush, Shutdown, ShutdownPending, ReadData,
     ReadEof, ReadPending, SendByte, SendEof, Stall, Resume, Break

-----------------------------------------------------------------------------
(* The bytes: buffer and writer.                                           *)

\* The payload counts for the upload.
LEMMA StartIs == Start["up"] = Payload /\ Start["down"] = 0 /\ Payload \in Nat
                 /\ \A d \in Dirs : Start[d] \in Nat
  BY SizesAssumption DEF Start, Dirs

\* The counts of a direction are numbers.
LEMMA Numbers ==
  ASSUME BufferTypes, NEW d \in Dirs
  PROVE  /\ taken[d] \in Nat /\ amt[d] \in Nat /\ Start[d] \in Nat
         /\ pos[d] \in Nat /\ cap[d] \in Nat /\ pos[d] <= BufSize /\ cap[d] <= BufSize
         /\ BufSize \in Nat
  BY SizesAssumption, StartIs DEF BufferTypes

\* While poll_copy runs, the payload is out.
LEMMA PayloadOut ==
  ASSUME SinkTypes, PayloadStage, pc # "payload", ~Over, NEW d \in Dirs
  PROVE  Len(out[d]) = amt[d] + Start[d]
<1>1. Len(out["up"]) \in Nat /\ Payload \in Nat
  BY StartIs DEF SinkTypes, Dirs
<1>2. Len(out["up"]) >= Payload
  BY <1>1 DEF PayloadStage
<1>3. QED
  BY <1>2 DEF PayloadStage

\* The writer of d takes the next n bytes.
LEMMA AcceptNext ==
  ASSUME SinkTypes, Ordered, NEW d \in Dirs, NEW n \in Nat, NEW bytes, bytes \in [1 .. n -> Nat],
         \A k \in 1 .. n : bytes[k] = Len(out[d]) + k,
         Accept(d, bytes)
  PROVE  /\ SinkTypes' /\ Ordered'
         /\ Len(out'[d]) = Len(out[d]) + n
         /\ \A e \in Dirs \ {d} : out'[e] = out[e]
<1>1. out' = [out EXCEPT ![d] = out[d] \o bytes]
  BY DEF Accept
<1>2. out[d] \in Seq(Nat) /\ \A i \in 1 .. Len(out[d]) : out[d][i] = i
  BY DEF SinkTypes, Ordered
<1>3. /\ out[d] \o bytes \in Seq(Nat) /\ Len(out[d] \o bytes) = Len(out[d]) + n
      /\ \A i \in 1 .. Len(out[d]) + n : (out[d] \o bytes)[i] = i
  BY <1>2, AppendNext
<1>4. out' \in [Dirs -> Seq(Nat)] /\ out'[d] = out[d] \o bytes
  BY <1>1, <1>3 DEF SinkTypes
<1>5. held' \in [Dirs -> Nat] /\ fin' \in [Dirs -> BOOLEAN]
  <2>1. Len(bytes) \in Nat /\ held[d] + Len(bytes) \in Nat
    BY DEF SinkTypes
  <2>2. QED
    BY <2>1 DEF Accept, SinkTypes
<1>6. ASSUME NEW e \in Dirs PROVE \A i \in 1 .. Len(out'[e]) : out'[e][i] = i
  <2>1. CASE e = d
    BY <1>3, <1>4, <2>1
  <2>2. CASE e # d
    BY <1>1, <2>2 DEF Ordered, SinkTypes
  <2>3. QED
    BY <2>1, <2>2
<1>7. QED
  BY <1>1, <1>3, <1>4, <1>5, <1>6 DEF SinkTypes, Ordered

\* The buffered bytes are the ones after those handed over.
LEMMA BufferedNext ==
  ASSUME BufferTypes, Contents, Buffer, NEW d \in Dirs, NEW n \in Nat, n <= cap[d] - pos[d]
  PROVE  /\ Buffered(d, n) \in [1 .. n -> Nat]
         /\ \A k \in 1 .. n : Buffered(d, n)[k] = amt[d] + Start[d] + k
<1>1. ASSUME NEW k \in 1 .. n PROVE buf[d][pos[d] + k - 1] = amt[d] + Start[d] + k
  <2>1. pos[d] + k - 1 \in pos[d] .. cap[d] - 1
    BY Numbers
  <2>2. buf[d][pos[d] + k - 1] = amt[d] + Start[d] + 1 + ((pos[d] + k - 1) - pos[d])
    BY <2>1 DEF Buffer
  <2>3. QED
    BY <2>2, Numbers
<1>2. ASSUME NEW k \in 1 .. n PROVE amt[d] + Start[d] + k \in Nat
  BY Numbers
<1>3. QED
  BY <1>1, <1>2 DEF Buffered

\* What WriteOk does to the writer.
LEMMA WriteSink ==
  ASSUME SinkTypes, BufferTypes, Contents, Buffer, Ordered, PayloadStage, ~Over, pc # "payload",
         NEW d \in Dirs, NEW n \in Nat, Written(d, n)
  PROVE  /\ SinkTypes' /\ Ordered'
         /\ Len(out'[d]) = Len(out[d]) + n
         /\ \A e \in Dirs \ {d} : out'[e] = out[e]
<1>1. Len(out[d]) = amt[d] + Start[d]
  BY PayloadOut
<1>2. n <= cap[d] - pos[d] /\ Accept(d, Buffered(d, n))
  BY DEF Written
<1>3. /\ Buffered(d, n) \in [1 .. n -> Nat]
      /\ \A k \in 1 .. n : Buffered(d, n)[k] = Len(out[d]) + k
  BY <1>1, <1>2, BufferedNext
<1>4. QED
  BY <1>2, <1>3, AcceptNext

\* What PayloadWrite does to the writer.
LEMMA PayloadSink ==
  ASSUME PeerTypes, SinkTypes, Ordered, PayloadStage, PayloadWrite
  PROVE  /\ SinkTypes' /\ Ordered'
         /\ out'["down"] = out["down"]
         /\ \E n \in Nat : /\ n >= 1 /\ n <= Payload - Len(out["up"])
                           /\ Len(out'["up"]) = Len(out["up"]) + n
                           /\ pc' = IF Len(out["up"]) + n = Payload THEN "parked" ELSE "payload"
<1>1. PICK n \in 1 .. Smaller(Payload - Len(out["up"]), Room("up")) :
        /\ Accept("up", PayloadBytes(n))
        /\ pc' = IF Len(out["up"]) + n = Payload THEN "parked" ELSE "payload"
  BY DEF PayloadWrite
<1>2. "up" \in Dirs /\ "down" \in Dirs \ {"up"}
  BY DEF Dirs
<1>3. Payload - Len(out["up"]) \in Int /\ Room("up") \in Int /\ Len(out["up"]) \in Nat
  BY <1>2, RoomIsInt, StartIs DEF SinkTypes
<1>4. n \in Nat /\ n >= 1 /\ n <= Payload - Len(out["up"])
  BY <1>3, ChunkBounds
<1>5. /\ PayloadBytes(n) \in [1 .. n -> Nat]
      /\ \A k \in 1 .. n : PayloadBytes(n)[k] = Len(out["up"]) + k
  BY <1>3, <1>4 DEF PayloadBytes
<1>6. /\ SinkTypes' /\ Ordered'
      /\ Len(out'["up"]) = Len(out["up"]) + n
      /\ \A e \in Dirs \ {"up"} : out'[e] = out[e]
  BY <1>1, <1>2, <1>4, <1>5, AcceptNext
<1>7. QED
  BY <1>1, <1>2, <1>4, <1>6

\* The writers get the bytes of their source once and in order (relay.rs:160-205).
LEMMA NextSink ==
  ASSUME PeerTypes, SinkTypes, BufferTypes, Contents, Buffer, Ordered, PayloadStage, [Next]_vars
  PROVE  (SinkTypes /\ Ordered)'
<1>1. CASE PayloadWrite
  <2>1. QED
    BY <1>1, PayloadSink
<1>2. ASSUME NEW d \in Dirs, WriteOk(d) PROVE (SinkTypes /\ Ordered)'
  <2>1. PICK n \in Nat : Written(d, n)
    BY <1>2, WriteChunk
  <2>2. ~Over /\ pc # "payload"
    BY <1>2 DEF WriteOk, Over
  <2>3. QED
    BY <2>1, <2>2, WriteSink
<1>3. ASSUME NEW d \in Dirs, Flush(d) PROVE (SinkTypes /\ Ordered)'
  <2>1. out' = out /\ fin' = fin
    BY <1>3 DEF Flush
  <2>2. held' = held \/ held' = [held EXCEPT ![d] = 0]
    BY <1>3 DEF Flush
  <2>3. held' \in [Dirs -> Nat]
    <3>1. held \in [Dirs -> Nat] /\ 0 \in Nat
      BY DEF SinkTypes
    <3>2. [held EXCEPT ![d] = 0] \in [Dirs -> Nat]
      BY <3>1
    <3>3. QED
      BY <2>2, <3>1, <3>2
  <2>4. QED
    BY <2>1, <2>3 DEF SinkTypes, Ordered
<1>4. ASSUME NEW d \in Dirs, Shutdown(d) PROVE (SinkTypes /\ Ordered)'
  BY <1>4 DEF Shutdown, SinkTypes, Ordered
<1>5. CASE UNCHANGED <<out, held, fin>>
  BY <1>5 DEF SinkTypes, Ordered
<1>6. QED
  BY <1>1, <1>2, <1>3, <1>4, <1>5 DEF Next, RelayStep, Poll, PollCopy, Peers, PeerUnchanged,
     CopyFrame, NotFailed, vars, peer_vars, sink_vars, dbuf_vars, timer_vars, bill_vars,
     PayloadFails, StartPoll, Account, Tick, ObserveCancel, Close, Kick, WriteErr, ProbeData,
     ProbeEof, ProbeErr, ProbeNothing, FlushErr, ShutdownPending, ReadData, ReadEof, ReadErr,
     ReadPending, SendByte, SendEof, Stall, Resume, Break

\* The buffer holds what was read and not yet written, a probe read behind unwritten
\* bytes included (relay.rs:183-205).
LEMMA NextBuffer ==
  ASSUME PeerTypes, SinkTypes, BufferTypes, Contents, CopyStage, Buffer, [Next]_vars
  PROVE  Buffer'
<1>1. ASSUME NEW d \in Dirs, WriteOk(d) PROVE Buffer'
  <2>1. PICK n \in Nat : Written(d, n)
    BY <1>1, WriteChunk
  <2>2. SUFFICES ASSUME NEW e \in Dirs
                 PROVE  /\ pos'[e] <= cap'[e]
                        /\ taken'[e] = amt'[e] + Start[e] + (cap'[e] - pos'[e])
                        /\ \A i \in pos'[e] .. cap'[e] - 1 :
                             buf'[e][i] = amt'[e] + Start[e] + 1 + (i - pos'[e])
    BY DEF Buffer, Start
  <2>3. CASE e # d
    BY <2>1, <2>3 DEF Written, Buffer, BufferTypes
  <2>4. CASE e = d
    <3>1. pos'[d] = pos[d] + n /\ amt'[d] = amt[d] + n /\ UNCHANGED <<taken, buf, cap>>
      BY <2>1 DEF Written, BufferTypes
    <3>2. n <= cap[d] - pos[d]
      BY <2>1 DEF Written
    <3>3. ASSUME NEW i \in pos[d] + n .. cap[d] - 1
          PROVE  buf[d][i] = (amt[d] + n) + Start[d] + 1 + (i - (pos[d] + n))
      <4>1. i \in pos[d] .. cap[d] - 1
        BY Numbers
      <4>2. QED
        BY <4>1, Numbers DEF Buffer
    <3>4. QED
      BY <2>4, <3>1, <3>2, <3>3, Numbers DEF Buffer
  <2>5. QED
    BY <2>3, <2>4
<1>2. ASSUME NEW d \in Dirs, ProbeData(d) PROVE Buffer'
  <2>1. PICK n \in Nat : Probed(d, n)
    BY <1>2, ProbeChunk
  <2>2. SUFFICES ASSUME NEW e \in Dirs
                 PROVE  /\ pos'[e] <= cap'[e]
                        /\ taken'[e] = amt'[e] + Start[e] + (cap'[e] - pos'[e])
                        /\ \A i \in pos'[e] .. cap'[e] - 1 :
                             buf'[e][i] = amt'[e] + Start[e] + 1 + (i - pos'[e])
    BY DEF Buffer, Start
  <2>3. CASE e # d
    BY <2>1, <2>3 DEF Probed, Fill, Buffer, BufferTypes, Contents
  <2>4. CASE e = d
    <3>1. cap'[d] = cap[d] + n /\ taken'[d] = taken[d] + n /\ UNCHANGED <<pos, amt>>
      BY <2>1 DEF Probed, Fill, BufferTypes
    <3>2. \A i \in 0 .. BufSize - 1 :
            buf'[d][i] = IF cap[d] <= i /\ i < cap[d] + n THEN taken[d] + 1 + i - cap[d] ELSE buf[d][i]
      BY <2>1 DEF Probed, Fill, Contents
    <3>3. pos[d] <= cap[d] /\ taken[d] = amt[d] + Start[d] + (cap[d] - pos[d]) /\ n <= BufSize - cap[d]
      BY <2>1 DEF Probed, Buffer
    <3>4. ASSUME NEW i \in pos[d] .. cap[d] + n - 1
          PROVE  buf'[d][i] = amt[d] + Start[d] + 1 + (i - pos[d])
      <4>1. i \in 0 .. BufSize - 1
        BY <3>3, Numbers
      <4>2. CASE cap[d] <= i
        BY <3>2, <3>3, <4>1, <4>2, Numbers
      <4>3. CASE i < cap[d]
        <5>1. i \in pos[d] .. cap[d] - 1
          BY <4>3, Numbers
        <5>2. buf'[d][i] = buf[d][i]
          BY <3>2, <4>1, <4>3, Numbers
        <5>3. QED
          BY <5>1, <5>2 DEF Buffer
      <4>4. QED
        BY <4>2, <4>3, Numbers
    <3>5. QED
      BY <2>4, <3>1, <3>3, <3>4, Numbers
  <2>5. QED
    BY <2>3, <2>4
<1>3. ASSUME NEW d \in Dirs, ReadData(d) PROVE Buffer'
  <2>1. PICK n \in Nat : Reread(d, n)
    BY <1>3, ReadChunk
  <2>2. SUFFICES ASSUME NEW e \in Dirs
                 PROVE  /\ pos'[e] <= cap'[e]
                        /\ taken'[e] = amt'[e] + Start[e] + (cap'[e] - pos'[e])
                        /\ \A i \in pos'[e] .. cap'[e] - 1 :
                             buf'[e][i] = amt'[e] + Start[e] + 1 + (i - pos'[e])
    BY DEF Buffer, Start
  <2>3. CASE e # d
    BY <2>1, <2>3 DEF Reread, Fill, Buffer, BufferTypes, Contents
  <2>4. CASE e = d
    <3>1. cap'[d] = n /\ pos'[d] = 0 /\ taken'[d] = taken[d] + n /\ UNCHANGED amt /\ n <= BufSize
      BY <2>1 DEF Reread, Fill, BufferTypes
    <3>2. \A i \in 0 .. BufSize - 1 :
            buf'[d][i] = IF 0 <= i /\ i < 0 + n THEN taken[d] + 1 + i - 0 ELSE buf[d][i]
      BY <2>1 DEF Reread, Fill, Contents
    <3>3. pos[d] >= cap[d]
      BY <1>3 DEF ReadData, CopyStage
    <3>4. taken[d] = amt[d] + Start[d]
      BY <3>3, Numbers DEF Buffer
    <3>5. \A i \in 0 .. n - 1 : buf'[d][i] = amt[d] + Start[d] + 1 + (i - 0)
      BY <3>1, <3>2, <3>4, Numbers
    <3>6. QED
      BY <2>4, <3>1, <3>4, <3>5, Numbers
  <2>5. QED
    BY <2>3, <2>4
<1>4. CASE UNCHANGED <<taken, amt, buf, pos, cap>>
  BY <1>4 DEF Buffer
<1>5. QED
  BY <1>1, <1>2, <1>3, <1>4 DEF Next, RelayStep, Poll, PollCopy, Peers, PeerUnchanged,
     CopyFrame, NotFailed, vars, peer_vars, sink_vars, dbuf_vars, timer_vars, bill_vars,
     PayloadWrite, PayloadFails, StartPoll, Account, Tick, ObserveCancel, Close, Kick, WriteErr,
     ProbeEof, ProbeErr, ProbeNothing, Flush, FlushErr, Shutdown, ShutdownPending, ReadEof,
     ReadErr, ReadPending, SendByte, SendEof, Stall, Resume, Break

-----------------------------------------------------------------------------
(* Control: where the poll closure stands.                                 *)

\* The outcome is set by the step that ends the relay.
LEMMA NextTermination ==
  ASSUME FlagTypes, ControlTypes, CopyStage, Termination, [Next]_vars
  PROVE  Termination'
<1>1. CASE PayloadWrite
  BY <1>1 DEF PayloadWrite, Termination, Over
<1>2. CASE PayloadFails
  BY <1>2 DEF PayloadFails, Termination, Over
<1>3. CASE StartPoll
  BY <1>3 DEF StartPoll, Enter, Termination, Over
<1>4. CASE Account
  BY <1>4 DEF Account, Outcome, dbuf_vars, Termination, Over
<1>5. CASE ObserveCancel
  BY <1>5 DEF ObserveCancel, Termination, Over
<1>6. CASE Close
  BY <1>6 DEF Close, dbuf_vars, Termination, Over
<1>7. ASSUME NEW d \in Dirs, WriteErr(d) PROVE Termination'
  BY <1>7 DEF WriteErr, Fail, Termination, Over
<1>8. ASSUME NEW d \in Dirs, ProbeErr(d) PROVE Termination'
  BY <1>8 DEF ProbeErr, Fail, Termination, Over
<1>9. ASSUME NEW d \in Dirs, FlushErr(d) PROVE Termination'
  BY <1>9 DEF FlushErr, Fail, Termination, Over
<1>10. ASSUME NEW d \in Dirs, ReadErr(d) PROVE Termination'
  BY <1>10 DEF ReadErr, Fail, Termination, Over
<1>11. ASSUME NEW d \in Dirs, ProbeData(d) PROVE Termination'
  BY <1>11 DEF ProbeData, Leave, Enter, NotFailed, WriteBlocked, Termination, Over
<1>12. ASSUME NEW d \in Dirs, ProbeEof(d) PROVE Termination'
  BY <1>12 DEF ProbeEof, Leave, Enter, NotFailed, WriteBlocked, Termination, Over
<1>13. ASSUME NEW d \in Dirs, ProbeNothing(d) PROVE Termination'
  BY <1>13 DEF ProbeNothing, Leave, Enter, NotFailed, WriteBlocked, Termination, Over
<1>14. ASSUME NEW d \in Dirs, ShutdownPending(d) PROVE Termination'
  BY <1>14 DEF ShutdownPending, Leave, Enter, NotFailed, WriteBlocked, Termination, Over
<1>15. ASSUME NEW d \in Dirs, ReadPending(d) PROVE Termination'
  BY <1>15 DEF ReadPending, Leave, Enter, NotFailed, WriteBlocked, Termination, Over
<1>16. ASSUME NEW d \in Dirs, Shutdown(d) PROVE Termination'
  BY <1>16 DEF Shutdown, Leave, Enter, NotFailed, FlagTypes, Dirs, Termination, Over
<1>17. ASSUME NEW d \in Dirs, Flush(d) PROVE Termination'
  BY <1>17 DEF Flush, NotFailed, Termination, Over
<1>18. ASSUME NEW d \in Dirs, ReadData(d) PROVE Termination'
  BY <1>18 DEF ReadData, NotFailed, Termination, Over
<1>19. ASSUME NEW d \in Dirs, ReadEof(d) PROVE Termination'
  BY <1>19 DEF ReadEof, NotFailed, Termination, Over
<1>20. CASE UNCHANGED <<pc, shutdown_done, termination>>
  BY <1>20 DEF Termination, Over
<1>21. QED
  BY <1>1, <1>2, <1>3, <1>4, <1>5, <1>6, <1>7, <1>8, <1>9, <1>10, <1>11, <1>12, <1>13, <1>14,
     <1>15, <1>16, <1>17, <1>18, <1>19, <1>20 DEF Next, RelayStep, Poll, PollCopy, Peers,
     PeerUnchanged, CopyFrame, NotFailed, vars, peer_vars, sink_vars, dbuf_vars, timer_vars,
     bill_vars, Tick, Kick, WriteOk, SendByte, SendEof, Stall, Resume, Break

\* poll_copy goes from writing to reading or shutting down, of a direction that has not
\* shut down (relay.rs:160-245, 340-349).
LEMMA NextCopyStage ==
  ASSUME PeerTypes, SinkTypes, BufferTypes, FlagTypes, ControlTypes, CopyStage, [Next]_vars
  PROVE  CopyStage'
<1>1. CASE PayloadWrite
  BY <1>1 DEF PayloadWrite, dbuf_vars, CopyStage, Copying
<1>2. CASE PayloadFails
  BY <1>2 DEF PayloadFails, CopyStage, Copying
<1>3. CASE StartPoll
  BY <1>3 DEF StartPoll, Enter, Dirs, CopyStage, Copying
<1>4. CASE Account
  BY <1>4 DEF Account, Outcome, dbuf_vars, Dirs, CopyStage, Copying
<1>5. CASE ObserveCancel
  BY <1>5 DEF ObserveCancel, CopyStage, Copying
<1>6. CASE Close
  BY <1>6 DEF Close, CopyStage, Copying
<1>7. ASSUME NEW d \in Dirs, WriteErr(d) PROVE CopyStage'
  BY <1>7 DEF WriteErr, Fail, CopyStage, Copying
<1>8. ASSUME NEW d \in Dirs, ProbeErr(d) PROVE CopyStage'
  BY <1>8 DEF ProbeErr, Fail, CopyStage, Copying
<1>9. ASSUME NEW d \in Dirs, FlushErr(d) PROVE CopyStage'
  BY <1>9 DEF FlushErr, Fail, CopyStage, Copying
<1>10. ASSUME NEW d \in Dirs, ReadErr(d) PROVE CopyStage'
  BY <1>10 DEF ReadErr, Fail, CopyStage, Copying
<1>11. ASSUME NEW d \in Dirs, ProbeData(d) PROVE CopyStage'
  BY <1>11 DEF ProbeData, Leave, Enter, WriteBlocked, CopyStage, Copying
<1>12. ASSUME NEW d \in Dirs, ProbeEof(d) PROVE CopyStage'
  BY <1>12 DEF ProbeEof, Leave, Enter, WriteBlocked, CopyStage, Copying
<1>13. ASSUME NEW d \in Dirs, ProbeNothing(d) PROVE CopyStage'
  BY <1>13 DEF ProbeNothing, Leave, Enter, WriteBlocked, CopyStage, Copying
<1>14. ASSUME NEW d \in Dirs, ShutdownPending(d) PROVE CopyStage'
  BY <1>14 DEF ShutdownPending, Leave, Enter, WriteBlocked, CopyStage, Copying
<1>15. ASSUME NEW d \in Dirs, ReadPending(d) PROVE CopyStage'
  BY <1>15 DEF ReadPending, Leave, Enter, WriteBlocked, CopyStage, Copying
<1>16. ASSUME NEW d \in Dirs, Shutdown(d) PROVE CopyStage'
  BY <1>16 DEF Shutdown, Leave, Enter, FlagTypes, Dirs, CopyStage, Copying
<1>17. ASSUME NEW d \in Dirs, WriteOk(d) PROVE CopyStage'
  BY <1>17 DEF WriteOk, CopyStage, Copying
<1>18. ASSUME NEW d \in Dirs, Flush(d) PROVE CopyStage'
  BY <1>18 DEF Flush, CopyStage, Copying
<1>19. ASSUME NEW d \in Dirs, ReadData(d) PROVE CopyStage'
  BY <1>19 DEF ReadData, CopyStage, Copying
<1>20. ASSUME NEW d \in Dirs, ReadEof(d) PROVE CopyStage'
  BY <1>20 DEF ReadEof, CopyStage, Copying
<1>21. CASE UNCHANGED <<pc, dir, read_done, shutdown_done, pos, cap>>
  BY <1>21 DEF CopyStage, Copying
<1>22. QED
  BY <1>1, <1>2, <1>3, <1>4, <1>5, <1>6, <1>7, <1>8, <1>9, <1>10, <1>11, <1>12, <1>13, <1>14,
     <1>15, <1>16, <1>17, <1>18, <1>19, <1>20, <1>21 DEF Next, RelayStep, Poll, PollCopy, Peers,
     PeerUnchanged, CopyFrame, NotFailed, vars, peer_vars, sink_vars, dbuf_vars, timer_vars,
     bill_vars, Tick, Kick, SendByte, SendEof, Stall, Resume, Break

-----------------------------------------------------------------------------
(* The ends of the streams.                                                *)

\* A direction that poll_copy works on is not shut down and its writer not closed.
LEMMA CopyingOpen ==
  ASSUME FlagTypes, CopyStage, Ends, NEW d \in Dirs, dir = d, Copying
  PROVE  ~shutdown_done[d] /\ ~fin[d]
  BY DEF CopyStage, Ends

\* A direction is shut down only after its source has closed and its last byte is written
\* (relay.rs:207-245).
LEMMA NextEnds ==
  ASSUME PeerTypes, SinkTypes, BufferTypes, FlagTypes, CopyStage, PayloadStage, Ends,
         [Next]_vars
  PROVE  Ends'
<1>1. ASSUME NEW d \in Dirs, SendByte(d) PROVE Ends'
  <2>1. ~read_done[d] /\ sent' = [sent EXCEPT ![d] = sent[d] + 1] /\ sent[d] \in Nat /\ taken[d] \in Nat
    BY <1>1 DEF SendByte, Ends, PeerTypes, BufferTypes
  <2>2. UNCHANGED <<eof, taken, held, fin, pos, cap, read_done, shutdown_done>>
    BY <1>1 DEF SendByte, PeerUnchanged, sink_vars, dbuf_vars
  <2>3. QED
    BY <2>1, <2>2 DEF Ends, PeerTypes, BufferTypes
<1>2. ASSUME NEW d \in Dirs, SendEof(d) PROVE Ends'
  <2>1. eof' = [eof EXCEPT ![d] = TRUE]
    BY <1>2 DEF SendEof
  <2>2. UNCHANGED <<sent, taken, held, fin, pos, cap, read_done, shutdown_done>>
    BY <1>2 DEF SendEof, PeerUnchanged, sink_vars, dbuf_vars
  <2>3. QED
    BY <2>1, <2>2 DEF Ends, PeerTypes
<1>3. CASE PayloadWrite
  <2>1. ~fin["up"] /\ "up" \in Dirs
    BY <1>3 DEF PayloadWrite, PayloadStage, Ends, FlagTypes, Dirs
  <2>2. \A e \in Dirs : e # "up" => held'[e] = held[e]
    BY <1>3 DEF PayloadWrite, Accept, SinkTypes
  <2>3. UNCHANGED <<sent, eof, taken, fin, pos, cap, read_done, shutdown_done>>
    BY <1>3 DEF PayloadWrite, Accept, peer_vars, dbuf_vars
  <2>4. QED
    BY <2>1, <2>2, <2>3 DEF Ends
<1>4. ASSUME NEW d \in Dirs, WriteOk(d) PROVE Ends'
  <2>1. PICK n \in Nat : Written(d, n)
    BY <1>4, WriteChunk
  <2>2. ~shutdown_done[d] /\ ~fin[d]
    BY <1>4, CopyingOpen DEF WriteOk, Copying, WriteBlocked
  <2>3. \A e \in Dirs : e # d => held'[e] = held[e] /\ pos'[e] = pos[e]
    BY <2>1 DEF Written, Accept, SinkTypes, BufferTypes
  <2>4. UNCHANGED <<sent, eof, taken, fin, cap, read_done, shutdown_done>>
    BY <1>4 DEF WriteOk, Accept, CopyFrame, peer_vars
  <2>5. QED
    BY <2>2, <2>3, <2>4 DEF Ends
<1>5. ASSUME NEW d \in Dirs, ProbeData(d) PROVE Ends'
  <2>1. PICK n \in Nat : Probed(d, n)
    BY <1>5, ProbeChunk
  <2>2. ~shutdown_done[d] /\ ~fin[d]
    BY <1>5, CopyingOpen DEF ProbeData, Copying, WriteBlocked
  <2>3. ~read_done[d]
    BY <1>5 DEF ProbeData, Probes
  <2>4. \A e \in Dirs : taken'[e] <= sent[e] /\ (e # d => taken'[e] = taken[e] /\ cap'[e] = cap[e])
    BY <2>1 DEF Probed, Fill, Ends, PeerTypes, BufferTypes
  <2>5. UNCHANGED <<sent, eof, held, fin, pos, read_done, shutdown_done>>
    BY <1>5 DEF ProbeData, CopyFrame, peer_vars, sink_vars
  <2>6. QED
    BY <2>2, <2>3, <2>4, <2>5 DEF Ends
<1>6. ASSUME NEW d \in Dirs, ReadData(d) PROVE Ends'
  <2>1. PICK n \in Nat : Reread(d, n)
    BY <1>6, ReadChunk
  <2>2. ~shutdown_done[d] /\ ~fin[d]
    BY <1>6, CopyingOpen DEF ReadData, Copying, WriteBlocked
  <2>3. ~read_done[d]
    BY <1>6 DEF ReadData, CopyStage
  <2>4. \A e \in Dirs : /\ taken'[e] <= sent[e]
                        /\ e # d => taken'[e] = taken[e] /\ cap'[e] = cap[e] /\ pos'[e] = pos[e]
    BY <2>1 DEF Reread, Fill, Ends, PeerTypes, BufferTypes
  <2>5. UNCHANGED <<sent, eof, held, fin, read_done, shutdown_done>>
    BY <1>6 DEF ReadData, CopyFrame, peer_vars, sink_vars
  <2>6. QED
    BY <2>2, <2>3, <2>4, <2>5 DEF Ends
<1>7. ASSUME NEW d \in Dirs, ProbeEof(d) PROVE Ends'
  <2>1. eof[d] /\ taken[d] = sent[d]
    <3>1. eof[d] /\ sent[d] - taken[d] = 0
      BY <1>7 DEF ProbeEof, Available
    <3>2. sent[d] \in Nat /\ taken[d] \in Nat
      BY DEF PeerTypes, BufferTypes
    <3>3. QED
      BY <3>1, <3>2
  <2>2. read_done' = [read_done EXCEPT ![d] = TRUE]
    BY <1>7 DEF ProbeEof
  <2>3. UNCHANGED <<sent, eof, taken, held, fin, pos, cap, shutdown_done>>
    BY <1>7 DEF ProbeEof, CopyFrame, peer_vars, sink_vars
  <2>4. QED
    BY <2>1, <2>2, <2>3 DEF Ends, FlagTypes
<1>8. ASSUME NEW d \in Dirs, ReadEof(d) PROVE Ends'
  <2>1. eof[d] /\ taken[d] = sent[d]
    <3>1. eof[d] /\ sent[d] - taken[d] = 0
      BY <1>8 DEF ReadEof, Available
    <3>2. sent[d] \in Nat /\ taken[d] \in Nat
      BY DEF PeerTypes, BufferTypes
    <3>3. QED
      BY <3>1, <3>2
  <2>2. read_done' = [read_done EXCEPT ![d] = TRUE]
    BY <1>8 DEF ReadEof
  <2>3. UNCHANGED <<sent, eof, taken, held, fin, pos, cap, shutdown_done>>
    BY <1>8 DEF ReadEof, CopyFrame, peer_vars, sink_vars
  <2>4. QED
    BY <2>1, <2>2, <2>3 DEF Ends, FlagTypes
<1>9. ASSUME NEW d \in Dirs, Flush(d) PROVE Ends'
  <2>1. \A e \in Dirs : held'[e] = held[e] \/ held'[e] = 0
    BY <1>9 DEF Flush, SinkTypes
  <2>2. UNCHANGED <<sent, eof, taken, fin, pos, cap, read_done, shutdown_done>>
    BY <1>9 DEF Flush, CopyFrame, peer_vars
  <2>3. QED
    BY <2>1, <2>2 DEF Ends
<1>10. ASSUME NEW d \in Dirs, Shutdown(d) PROVE Ends'
  <2>1. read_done[d] /\ pos[d] >= cap[d]
    BY <1>10 DEF Shutdown, CopyStage
  <2>2. shutdown_done' = [shutdown_done EXCEPT ![d] = TRUE]
    BY <1>10 DEF Shutdown
  <2>3. /\ fin'[d] => held'[d] = 0
        /\ \A e \in Dirs : e # d => held'[e] = held[e] /\ fin'[e] = fin[e]
    BY <1>10 DEF Shutdown, SinkTypes
  <2>4. UNCHANGED <<sent, eof, taken, pos, cap, read_done>>
    BY <1>10 DEF Shutdown, CopyFrame, peer_vars
  <2>5. QED
    BY <2>1, <2>2, <2>3, <2>4 DEF Ends, FlagTypes
<1>11. CASE UNCHANGED <<sent, eof, taken, held, fin, pos, cap, read_done, shutdown_done>>
  BY <1>11 DEF Ends
<1>12. QED
  BY <1>1, <1>2, <1>3, <1>4, <1>5, <1>6, <1>7, <1>8, <1>9, <1>10, <1>11 DEF Next, RelayStep,
     Poll, PollCopy, Peers, PeerUnchanged, CopyFrame, NotFailed, vars, peer_vars, sink_vars,
     dbuf_vars, timer_vars, bill_vars, PayloadFails, StartPoll, Account, Tick, ObserveCancel,
     Close, Kick, WriteErr, ProbeErr, ProbeNothing, FlushErr, ShutdownPending, ReadErr,
     ReadPending, Stall, Resume, Break

-----------------------------------------------------------------------------
(* Payload and billing.                                                    *)

\* The peers' events change nothing of the relay, and do not take a wakeup back.
LEMMA PeerFrame ==
  ASSUME Peers
  PROVE  /\ woken => woken'
         /\ UNCHANGED <<taken, sink_vars, dbuf_vars, pc, dir, before, waits, timer_vars, bill_vars,
                        termination>>
<1>1. ASSUME NEW d \in Dirs, SendByte(d) \/ SendEof(d) \/ Stall(d) \/ Resume(d)
      PROVE  (woken => woken') /\ PeerUnchanged
  <2>1. CASE SendByte(d)
    BY <2>1 DEF SendByte, WakeIf
  <2>2. CASE SendEof(d)
    BY <2>2 DEF SendEof, WakeIf
  <2>3. CASE Stall(d)
    BY <2>3 DEF Stall
  <2>4. CASE Resume(d)
    BY <2>4 DEF Resume, WakeIf
  <2>5. QED
    BY <1>1, <2>1, <2>2, <2>3, <2>4
<1>2. ASSUME NEW side \in Sides, Break(side)
      PROVE  (woken => woken') /\ PeerUnchanged
  BY <1>2 DEF Break, WakeIf
<1>3. CASE Kick
  BY <1>3 DEF Kick, PeerUnchanged
<1>4. QED
  BY <1>1, <1>2, <1>3 DEF Peers, PeerUnchanged

\* A call of poll_copy that writes nothing leaves the accounts to the end of the poll,
\* or closes them at once when it fails.
LEMMA PollFrame ==
  ASSUME NEW d \in Dirs, PollCopy(d), ~WriteOk(d)
  PROVE  /\ Copying /\ UNCHANGED <<out, amt>>
         /\ \/ pc' \in {"write", "read", "shutdown", "account"} /\ UNCHANGED <<reported, billed>>
            \/ pc' = "closing" /\ BillRest
<1> USE DEF Copying, CopyFrame, NotFailed, sink_vars, bill_vars
<1>1. CASE ProbeData(d)
  BY <1>1 DEF ProbeData, WriteBlocked, Leave, Enter
<1>2. CASE ProbeEof(d)
  BY <1>2 DEF ProbeEof, WriteBlocked, Leave, Enter
<1>3. CASE ProbeNothing(d)
  BY <1>3 DEF ProbeNothing, WriteBlocked, Leave, Enter
<1>4. CASE Flush(d)
  BY <1>4 DEF Flush, WriteBlocked, Leave, Enter
<1>5. CASE Shutdown(d)
  BY <1>5 DEF Shutdown, WriteBlocked, Leave, Enter
<1>6. CASE ShutdownPending(d)
  BY <1>6 DEF ShutdownPending, WriteBlocked, Leave, Enter
<1>7. CASE ReadData(d)
  BY <1>7 DEF ReadData, WriteBlocked, Leave, Enter
<1>8. CASE ReadEof(d)
  BY <1>8 DEF ReadEof, WriteBlocked, Leave, Enter
<1>9. CASE ReadPending(d)
  BY <1>9 DEF ReadPending, WriteBlocked, Leave, Enter
<1>10. CASE WriteErr(d)
  BY <1>10 DEF WriteErr, WriteBlocked, Fail
<1>11. CASE ProbeErr(d)
  BY <1>11 DEF ProbeErr, WriteBlocked, Fail
<1>12. CASE FlushErr(d)
  BY <1>12 DEF FlushErr, WriteBlocked, Fail
<1>13. CASE ReadErr(d)
  BY <1>13 DEF ReadErr, WriteBlocked, Fail
<1>14. QED
  BY <1>1, <1>2, <1>3, <1>4, <1>5, <1>6, <1>7, <1>8, <1>9, <1>10, <1>11, <1>12, <1>13 DEF PollCopy

\* Once the payload is out, a step that hands nothing over keeps the accounts.
LEMMA PayloadStays ==
  ASSUME SinkTypes, PayloadStage, pc # "payload", ~Over, pc' # "payload", UNCHANGED <<out, amt>>
  PROVE  PayloadStage'
<1>1. Len(out["up"]) \in Nat /\ Payload \in Nat
  BY StartIs DEF SinkTypes, Dirs
<1>2. Len(out["up"]) >= Payload
  BY <1>1 DEF PayloadStage
<1>3. \A d \in Dirs : Len(out[d]) = amt[d] + Start[d]
  BY <1>2 DEF PayloadStage
<1>4. Len(out'["up"]) >= Payload /\ ~(Len(out'["up"]) < Payload)
  BY <1>1, <1>2
<1>5. \A d \in Dirs : Len(out'[d]) = amt'[d] + Start[d]
  BY <1>3
<1>6. QED
  BY <1>4, <1>5 DEF PayloadStage, Start

\* The payload goes out before anything is copied (handler.rs:261-275).
LEMMA NextPayloadStage ==
  ASSUME PeerTypes, SinkTypes, BufferTypes, Contents, Buffer, Ordered, Termination,
         PayloadStage, [Next]_vars
  PROVE  PayloadStage'
<1>1. CASE PayloadWrite
  <2>1. PICK n \in Nat : /\ n >= 1 /\ n <= Payload - Len(out["up"])
                        /\ Len(out'["up"]) = Len(out["up"]) + n
                        /\ pc' = IF Len(out["up"]) + n = Payload THEN "parked" ELSE "payload"
    BY <1>1, PayloadSink
  <2>2. out'["down"] = out["down"]
    BY <1>1, PayloadSink
  <2>3. /\ Len(out["up"]) < Payload /\ woken
        /\ Len(out["down"]) = 0 /\ \A d \in Dirs : amt[d] = 0 /\ ~read_done[d]
    BY <1>1 DEF PayloadWrite, PayloadStage
  <2>4. UNCHANGED <<amt, read_done, woken>>
    BY <1>1 DEF PayloadWrite, dbuf_vars
  <2>5. Len(out["up"]) \in Nat /\ Payload \in Nat
    BY StartIs DEF SinkTypes, Dirs
  <2>6. CASE Len(out["up"]) + n = Payload
    <3>1. \A d \in Dirs : Len(out'[d]) = amt'[d] + Start[d]
      BY <2>1, <2>2, <2>3, <2>4, <2>6, StartIs DEF Dirs
    <3>2. pc' = "parked" /\ ~(Len(out'["up"]) < Payload)
      BY <2>1, <2>5, <2>6
    <3>3. QED
      BY <3>1, <3>2 DEF PayloadStage, Start
  <2>7. CASE Len(out["up"]) + n # Payload
    <3>1. pc' = "payload" /\ Len(out'["up"]) < Payload /\ ~(Len(out'["up"]) >= Payload)
      BY <2>1, <2>5, <2>7
    <3>2. QED
      BY <2>2, <2>3, <2>4, <3>1 DEF PayloadStage
  <2>8. QED
    BY <2>6, <2>7
<1>2. CASE PayloadFails
  <2>1. Len(out["up"]) < Payload /\ pc' = "closing" /\ termination' = "error"
    BY <1>2 DEF PayloadFails, PayloadStage
  <2>2. UNCHANGED <<out, amt, read_done>>
    BY <1>2 DEF PayloadFails, sink_vars, dbuf_vars
  <2>3. QED
    BY <2>1, <2>2 DEF PayloadStage, Over, Start
<1>3. ASSUME NEW d \in Dirs, WriteOk(d) PROVE PayloadStage'
  <2>1. PICK n \in Nat : Written(d, n)
    BY <1>3, WriteChunk
  <2>2. ~Over /\ pc # "payload" /\ pc' # "payload"
    BY <1>3 DEF WriteOk, Over
  <2>3. Len(out'[d]) = Len(out[d]) + n /\ \A e \in Dirs \ {d} : out'[e] = out[e]
    BY <2>1, <2>2, WriteSink
  <2>4. \A e \in Dirs : Len(out[e]) = amt[e] + Start[e]
    BY <2>2, PayloadOut
  <2>5. amt'[d] = amt[d] + n /\ \A e \in Dirs \ {d} : amt'[e] = amt[e]
    BY <2>1 DEF Written, BufferTypes
  <2>6. ASSUME NEW e \in Dirs PROVE Len(out'[e]) = amt'[e] + Start[e] /\ amt'[e] \in Nat
    <3>1. amt[e] \in Nat /\ Start[e] \in Nat
      BY Numbers
    <3>2. CASE e = d
      BY <2>3, <2>4, <2>5, <3>1, <3>2
    <3>3. CASE e # d
      BY <2>3, <2>4, <2>5, <3>1, <3>3
    <3>4. QED
      BY <3>2, <3>3
  <2>7. Len(out'["up"]) >= Payload /\ ~(Len(out'["up"]) < Payload)
    BY <2>6, StartIs DEF Dirs
  <2>8. QED
    BY <2>2, <2>6, <2>7 DEF PayloadStage, Start
<1>4. CASE Close
  <2>1. Over /\ Over' /\ pc' # "payload" /\ pc # "payload"
    BY <1>4 DEF Close, Over
  <2>2. UNCHANGED <<out, amt, read_done, termination>>
    BY <1>4 DEF Close, sink_vars, dbuf_vars
  <2>3. QED
    BY <2>1, <2>2 DEF PayloadStage, Start
<1>5. ASSUME NEW d \in Dirs, PollCopy(d), ~WriteOk(d) PROVE PayloadStage'
  <2>1. ~Over /\ pc # "payload" /\ pc' # "payload" /\ UNCHANGED <<out, amt>>
    BY <1>5, PollFrame DEF Copying, Over
  <2>2. QED
    BY <2>1, PayloadStays
<1>6. CASE pc # "payload" /\ ~Over /\ pc' # "payload" /\ UNCHANGED <<out, amt>>
  BY <1>6, PayloadStays
<1>7. CASE Peers
  BY <1>7, PeerFrame DEF sink_vars, dbuf_vars, PayloadStage, Over, Start
<1>8. CASE UNCHANGED vars
  BY <1>8 DEF vars, sink_vars, dbuf_vars, PayloadStage, Over, Start
<1>9. QED
  BY <1>1, <1>2, <1>3, <1>4, <1>5, <1>6, <1>7, <1>8 DEF Next, RelayStep, Poll, vars, peer_vars,
     sink_vars, dbuf_vars, timer_vars, bill_vars, StartPoll, Account, Tick, ObserveCancel, Over,
     Enter, Leave, WriteBlocked, Fail, WakeIf

\* Both ways out of a poll report what it handed over (relay.rs:350-364, 433-442).
LEMMA NextBilling ==
  ASSUME SinkTypes, BufferTypes, BillTypes, Billing, [Next]_vars
  PROVE  Billing'
<1>1. CASE Account
  <2>1. billed' = [d \in Dirs |-> billed[d] + (amt[d] - reported[d])] /\ reported' = amt /\ amt' = amt
    BY <1>1 DEF Account, BillRest, dbuf_vars
  <2>2. QED
    BY <2>1, StartIs DEF Billing, BufferTypes, BillTypes, Start
<1>2. ASSUME NEW d \in Dirs, PollCopy(d), ~WriteOk(d) PROVE Billing'
  <2>1. CASE pc' = "closing" /\ BillRest
    <3>1. billed' = [e \in Dirs |-> billed[e] + (amt[e] - reported[e])] /\ reported' = amt /\ amt' = amt
      BY <1>2, <2>1, PollFrame DEF BillRest
    <3>2. QED
      BY <3>1, StartIs DEF Billing, BufferTypes, BillTypes, Start
  <2>2. CASE pc' \in {"write", "read", "shutdown", "account"} /\ UNCHANGED <<reported, billed>>
    <3>1. amt' = amt
      BY <1>2, PollFrame
    <3>2. QED
      BY <2>2, <3>1 DEF Billing, Start, Over
  <2>3. QED
    BY <1>2, <2>1, <2>2, PollFrame
<1>3. ASSUME NEW d \in Dirs, WriteOk(d) PROVE Billing'
  <2>1. PICK n \in 1 .. Smaller(cap[d] - pos[d], Room(d)) : amt' = [amt EXCEPT ![d] = amt[d] + n]
    BY <1>3 DEF WriteOk
  <2>2. \A e \in Dirs : amt'[e] >= amt[e] /\ amt'[e] \in Nat /\ amt[e] \in Nat
    BY <2>1 DEF BufferTypes
  <2>3. UNCHANGED <<reported, billed>> /\ pc' = "write"
    BY <1>3 DEF WriteOk, NotFailed, bill_vars
  <2>4. QED
    BY <2>2, <2>3 DEF Billing, BufferTypes, BillTypes, Over, Start
<1>4. CASE /\ UNCHANGED <<reported, billed, amt>>
           /\ Over' \/ pc' \in {"payload", "parked"} => Over \/ pc \in {"payload", "parked"}
  BY <1>4 DEF Billing, Start, Over
<1>5. QED
  BY <1>1, <1>2, <1>3, <1>4 DEF Next, RelayStep, Poll, Peers, PeerUnchanged, vars, peer_vars,
     sink_vars, dbuf_vars, timer_vars, bill_vars, PayloadWrite, PayloadFails, StartPoll, Tick,
     ObserveCancel, Close, Kick, SendByte, SendEof, Stall, Resume, Break, Over, Enter, Leave,
     WriteBlocked

\* A half-close timer that is armed has one of the two timeouts (relay.rs:366-381).
LEMMA NextHalfTimer ==
  ASSUME FlagTypes, TimerTypes, HalfTimer, [Next]_vars
  PROVE  HalfTimer'
<1>1. CASE Account
  BY <1>1 DEF Account, HalfActive, HalfTimeout, ArmsUplink, ArmsDownlink, FlagTypes, TimerTypes,
     Dirs, IsDrained, HalfTimer
<1>2. CASE Tick
  BY <1>2 DEF Tick, HalfTimer
<1>3. CASE UNCHANGED <<half_active, half_timeout>>
  BY <1>3 DEF HalfTimer
<1>4. QED
  BY <1>1, <1>2, <1>3 DEF Next, RelayStep, Poll, PollCopy, Peers, PeerUnchanged, CopyFrame,
     NotFailed, vars, peer_vars, sink_vars, dbuf_vars, timer_vars, bill_vars, PayloadWrite,
     PayloadFails, StartPoll, ObserveCancel, Close, Kick, WriteOk, WriteErr, ProbeData,
     ProbeEof, ProbeErr, ProbeNothing, Flush, FlushErr, Shutdown, ShutdownPending, ReadData,
     ReadEof, ReadErr, ReadPending, SendByte, SendEof, Stall, Resume, Break

-----------------------------------------------------------------------------
(* Wakers.                                                                 *)

\* A direction stays settled while nothing of it changes.
LEMMA SettledKept ==
  ASSUME NEW d \in Dirs, Settled(d), UNCHANGED <<stalled, broken, eof, sent>>, woken => woken',
         pos'[d] = pos[d], cap'[d] = cap[d], held'[d] = held[d], taken'[d] = taken[d],
         read_done'[d] = read_done[d], shutdown_done'[d] = shutdown_done[d],
         waits'[d] = waits[d]
  PROVE  Settled(d)'
  BY DEF Settled, Blocked, Room, WriteFails, ReadFails, Available, FlushReady

\* The event that a settled direction waits for wakes the task.
LEMMA SettledUnderEvents ==
  ASSUME PeerTypes, SinkTypes, WakeTypes, Peers, NEW e \in Dirs, Settled(e)
  PROVE  Settled(e)'
<1>1. (woken => woken') /\ UNCHANGED <<taken, held, pos, cap, read_done, shutdown_done, waits>>
  BY PeerFrame DEF sink_vars, dbuf_vars
<1>2. CASE woken \/ shutdown_done[e]
  BY <1>1, <1>2 DEF Settled
<1>3. CASE Blocked(e)
  <2>1. ASSUME NEW d \in Dirs, SendByte(d) PROVE Settled(e)'
    <3>1. woken' = (woken \/ "read" \in waits[d]) /\ UNCHANGED <<eof, stalled, broken>>
      BY <2>1 DEF SendByte, WakeIf
    <3>2. e # d => sent'[e] = sent[e]
      BY <2>1 DEF SendByte, PeerTypes
    <3>3. QED
      BY <1>1, <1>3, <3>1, <3>2 DEF Settled, Blocked, Room, WriteFails, ReadFails, Available,
         FlushReady
  <2>2. ASSUME NEW d \in Dirs, SendEof(d) PROVE Settled(e)'
    <3>1. woken' = (woken \/ "read" \in waits[d]) /\ UNCHANGED <<sent, stalled, broken>>
      BY <2>2 DEF SendEof, WakeIf
    <3>2. e # d => eof'[e] = eof[e]
      BY <2>2 DEF SendEof, PeerTypes
    <3>3. QED
      BY <1>1, <1>3, <3>1, <3>2 DEF Settled, Blocked, Room, WriteFails, ReadFails, Available,
         FlushReady
  <2>3. ASSUME NEW d \in Dirs, Stall(d) PROVE Settled(e)'
    <3>1. UNCHANGED <<sent, eof, broken>> /\ stalled' = [stalled EXCEPT ![d] = TRUE]
      BY <2>3 DEF Stall
    <3>2. Room(e) = 0 => Room(e)' = 0
      <4>1. SinkCap'[e] = SinkCap[e] /\ MaxSent'[e] = MaxSent[e] /\ SinkCap[e] \in Nat /\ held'[e] = held[e]
        BY <1>1, SizesAssumption
      <4>2. stalled[e] \in BOOLEAN /\ stalled'[e] \in BOOLEAN /\ (stalled[e] => stalled'[e])
        BY <3>1 DEF PeerTypes
      <4>3. QED
        BY <4>1, <4>2 DEF Room
    <3>3. ~FlushReady(e) => ~FlushReady(e)'
      BY <1>1, <3>1 DEF FlushReady, PeerTypes
    <3>4. QED
      BY <1>1, <1>3, <3>1, <3>2, <3>3 DEF Settled, Blocked, WriteFails, ReadFails, Available
  <2>4. ASSUME NEW d \in Dirs, Resume(d) PROVE Settled(e)'
    <3>1. woken' = (woken \/ "write" \in waits[d]) /\ UNCHANGED <<sent, eof, broken>>
      BY <2>4 DEF Resume, WakeIf
    <3>2. e # d => stalled'[e] = stalled[e]
      BY <2>4 DEF Resume, PeerTypes
    <3>3. QED
      BY <1>1, <1>3, <3>1, <3>2 DEF Settled, Blocked, Room, WriteFails, ReadFails, Available,
         FlushReady
  <2>5. ASSUME NEW side \in Sides, Break(side) PROVE Settled(e)'
    <3>1. UNCHANGED <<sent, eof, stalled>> /\ broken' = broken \cup {side}
      BY <2>5 DEF Break
    <3>2. /\ Reader(e) = side /\ "read" \in waits[e] => woken'
          /\ Writer(e) = side /\ "write" \in waits[e] => woken'
      BY <2>5 DEF Break, WakeIf
    <3>3. QED
      BY <1>1, <1>3, <3>1, <3>2 DEF Settled, Blocked, Room, WriteFails, ReadFails, Available,
         FlushReady
  <2>6. CASE Kick
    <3>1. UNCHANGED <<sent, eof, stalled, broken>>
      BY <2>6 DEF Kick
    <3>2. QED
      BY <1>1, <3>1, SettledKept
  <2>7. QED
    BY <2>1, <2>2, <2>3, <2>4, <2>5, <2>6 DEF Peers
<1>4. QED
  BY <1>2, <1>3 DEF Settled

\* A step of poll_copy on d leaves the other direction as it is.
OnlyOn(d) ==
  /\ UNCHANGED <<sent, eof, stalled, broken, woken>>
  /\ \A e \in Dirs \ {d} :
       /\ pos'[e] = pos[e] /\ cap'[e] = cap[e] /\ held'[e] = held[e] /\ taken'[e] = taken[e]
       /\ read_done'[e] = read_done[e] /\ shutdown_done'[e] = shutdown_done[e]
       /\ waits'[e] = waits[e]

\* Each of its calls is such a step.
LEMMA PollCopyOnlyOn ==
  ASSUME SinkTypes, BufferTypes, FlagTypes, WakeTypes, NEW d \in Dirs, PollCopy(d)
  PROVE  OnlyOn(d) /\ dir = d /\ Copying
<1>1. CASE WriteOk(d)
  BY <1>1 DEF WriteOk, OnlyOn, CopyFrame, Copying, WriteBlocked, Accept, Fill, Waiting,
     peer_vars, sink_vars, SinkTypes, BufferTypes, FlagTypes, WakeTypes
<1>2. CASE WriteErr(d)
  BY <1>2 DEF WriteErr, OnlyOn, CopyFrame, Copying, WriteBlocked, Accept, Fill, Waiting,
     peer_vars, sink_vars, SinkTypes, BufferTypes, FlagTypes, WakeTypes
<1>3. CASE ProbeData(d)
  BY <1>3 DEF ProbeData, OnlyOn, CopyFrame, Copying, WriteBlocked, Accept, Fill, Waiting,
     peer_vars, sink_vars, SinkTypes, BufferTypes, FlagTypes, WakeTypes
<1>4. CASE ProbeEof(d)
  BY <1>4 DEF ProbeEof, OnlyOn, CopyFrame, Copying, WriteBlocked, Accept, Fill, Waiting,
     peer_vars, sink_vars, SinkTypes, BufferTypes, FlagTypes, WakeTypes
<1>5. CASE ProbeErr(d)
  BY <1>5 DEF ProbeErr, OnlyOn, CopyFrame, Copying, WriteBlocked, Accept, Fill, Waiting,
     peer_vars, sink_vars, SinkTypes, BufferTypes, FlagTypes, WakeTypes
<1>6. CASE ProbeNothing(d)
  BY <1>6 DEF ProbeNothing, OnlyOn, CopyFrame, Copying, WriteBlocked, Accept, Fill, Waiting,
     peer_vars, sink_vars, SinkTypes, BufferTypes, FlagTypes, WakeTypes
<1>7. CASE Flush(d)
  BY <1>7 DEF Flush, OnlyOn, CopyFrame, Copying, WriteBlocked, Accept, Fill, Waiting, peer_vars,
     sink_vars, SinkTypes, BufferTypes, FlagTypes, WakeTypes
<1>8. CASE FlushErr(d)
  BY <1>8 DEF FlushErr, OnlyOn, CopyFrame, Copying, WriteBlocked, Accept, Fill, Waiting,
     peer_vars, sink_vars, SinkTypes, BufferTypes, FlagTypes, WakeTypes
<1>9. CASE Shutdown(d)
  BY <1>9 DEF Shutdown, OnlyOn, CopyFrame, Copying, WriteBlocked, Accept, Fill, Waiting,
     peer_vars, sink_vars, SinkTypes, BufferTypes, FlagTypes, WakeTypes
<1>10. CASE ShutdownPending(d)
  BY <1>10 DEF ShutdownPending, OnlyOn, CopyFrame, Copying, WriteBlocked, Accept, Fill, Waiting,
     peer_vars, sink_vars, SinkTypes, BufferTypes, FlagTypes, WakeTypes
<1>11. CASE ReadData(d)
  BY <1>11 DEF ReadData, OnlyOn, CopyFrame, Copying, WriteBlocked, Accept, Fill, Waiting,
     peer_vars, sink_vars, SinkTypes, BufferTypes, FlagTypes, WakeTypes
<1>12. CASE ReadEof(d)
  BY <1>12 DEF ReadEof, OnlyOn, CopyFrame, Copying, WriteBlocked, Accept, Fill, Waiting,
     peer_vars, sink_vars, SinkTypes, BufferTypes, FlagTypes, WakeTypes
<1>13. CASE ReadErr(d)
  BY <1>13 DEF ReadErr, OnlyOn, CopyFrame, Copying, WriteBlocked, Accept, Fill, Waiting,
     peer_vars, sink_vars, SinkTypes, BufferTypes, FlagTypes, WakeTypes
<1>14. CASE ReadPending(d)
  BY <1>14 DEF ReadPending, OnlyOn, CopyFrame, Copying, WriteBlocked, Accept, Fill, Waiting,
     peer_vars, sink_vars, SinkTypes, BufferTypes, FlagTypes, WakeTypes
<1>15. QED
  BY <1>1, <1>2, <1>3, <1>4, <1>5, <1>6, <1>7, <1>8, <1>9, <1>10, <1>11, <1>12, <1>13, <1>14 DEF
     PollCopy

\* poll_copy may return once its direction is settled.
LEMMA LeaveSettled ==
  ASSUME FlagTypes, Wakers, NEW d \in Dirs, dir = d, Copying, OnlyOn(d), Leave(d), Settled(d)'
  PROVE  Wakers'
<1>1. CASE d = "up" /\ ~shutdown_done["down"]
  BY <1>1 DEF Leave, Enter, Wakers, Copying
<1>2. CASE d = "up" /\ shutdown_done["down"]
  <2>1. Settled("down")'
    BY <1>2 DEF OnlyOn, Settled, Dirs
  <2>2. pc' = "account"
    BY <1>2 DEF Leave
  <2>3. QED
    BY <1>2, <2>1, <2>2 DEF Wakers, Dirs, Copying
<1>3. CASE d = "down"
  <2>1. Settled("up") /\ "up" \in Dirs \ {d}
    BY <1>3 DEF Wakers, Dirs
  <2>2. Settled("up")'
    BY <2>1, SettledKept DEF OnlyOn
  <2>3. pc' = "account"
    BY <1>3 DEF Leave
  <2>4. QED
    BY <1>3, <2>2, <2>3 DEF Wakers, Dirs, Copying
<1>4. QED
  BY <1>1, <1>2, <1>3 DEF Dirs

\* A step that goes on with its direction keeps the other one settled.
LEMMA GoingOn ==
  ASSUME Wakers, NEW d \in Dirs, dir = d, Copying, OnlyOn(d), dir' = dir,
         pc' \in {"write", "read", "shutdown"}
  PROVE  Wakers'
<1>1. CASE d = "down"
  <2>1. Settled("up") /\ "up" \in Dirs \ {d}
    BY <1>1 DEF Wakers, Dirs
  <2>2. Settled("up")'
    BY <2>1, SettledKept DEF OnlyOn
  <2>3. QED
    BY <2>2 DEF Wakers
<1>2. CASE d # "down"
  BY <1>2 DEF Wakers
<1>3. QED
  BY <1>1, <1>2

\* No direction is left Pending without a waker (relay.rs:176-245).
LEMMA NextWakers ==
  ASSUME PeerTypes, SinkTypes, BufferTypes, FlagTypes, WakeTypes, CopyStage, PayloadStage,
         Wakers, [Next]_vars
  PROVE  Wakers'
<1>1. CASE PayloadWrite
  <2>1. woken' /\ pc' \in {"parked", "payload"}
    BY <1>1 DEF PayloadWrite, PayloadStage
  <2>2. QED
    BY <2>1 DEF Wakers, Settled, Copying
<1>2. CASE StartPoll
  <2>1. pc' = "write" /\ (dir' = "down" => shutdown_done["up"]) /\ UNCHANGED shutdown_done
    BY <1>2 DEF StartPoll, Enter
  <2>2. QED
    BY <2>1 DEF Wakers, Settled, Copying
<1>3. ASSUME NEW d \in Dirs, ProbeData(d) PROVE Wakers'
  <2>1. OnlyOn(d) /\ dir = d /\ Copying
    BY <1>3, PollCopyOnlyOn DEF PollCopy
  <2>2. Settled(d)'
    BY <1>3, SizesAssumption DEF ProbeData, Settled, Blocked, WriteBlocked, Probes, Fill,
       Waiting, Room, WriteFails, ReadFails,
       Available, FlushReady, CopyFrame, peer_vars, sink_vars, CopyStage, BufferTypes, WakeTypes, FlagTypes
  <2>3. QED
    BY <1>3, <2>1, <2>2, LeaveSettled DEF ProbeData
<1>4. ASSUME NEW d \in Dirs, ProbeEof(d) PROVE Wakers'
  <2>1. OnlyOn(d) /\ dir = d /\ Copying
    BY <1>4, PollCopyOnlyOn DEF PollCopy
  <2>2. Settled(d)'
    BY <1>4, SizesAssumption DEF ProbeEof, Settled, Blocked, WriteBlocked, Probes, Fill,
       Waiting, Room, WriteFails, ReadFails,
       Available, FlushReady, CopyFrame, peer_vars, sink_vars, CopyStage, BufferTypes, WakeTypes, FlagTypes
  <2>3. QED
    BY <1>4, <2>1, <2>2, LeaveSettled DEF ProbeEof
<1>5. ASSUME NEW d \in Dirs, ProbeNothing(d) PROVE Wakers'
  <2>1. OnlyOn(d) /\ dir = d /\ Copying
    BY <1>5, PollCopyOnlyOn DEF PollCopy
  <2>2. Settled(d)'
    BY <1>5, SizesAssumption DEF ProbeNothing, Settled, Blocked, WriteBlocked, Probes, Fill,
       Waiting, Room, WriteFails, ReadFails,
       Available, FlushReady, CopyFrame, peer_vars, sink_vars, CopyStage, BufferTypes, WakeTypes, FlagTypes
  <2>3. QED
    BY <1>5, <2>1, <2>2, LeaveSettled DEF ProbeNothing
<1>6. ASSUME NEW d \in Dirs, Shutdown(d) PROVE Wakers'
  <2>1. OnlyOn(d) /\ dir = d /\ Copying
    BY <1>6, PollCopyOnlyOn DEF PollCopy
  <2>2. Settled(d)'
    BY <1>6, SizesAssumption DEF Shutdown, Settled, Blocked, WriteBlocked, Probes, Fill,
       Waiting, Room, WriteFails, ReadFails,
       Available, FlushReady, CopyFrame, peer_vars, sink_vars, CopyStage, BufferTypes, WakeTypes, FlagTypes
  <2>3. QED
    BY <1>6, <2>1, <2>2, LeaveSettled DEF Shutdown
<1>7. ASSUME NEW d \in Dirs, ShutdownPending(d) PROVE Wakers'
  <2>1. OnlyOn(d) /\ dir = d /\ Copying
    BY <1>7, PollCopyOnlyOn DEF PollCopy
  <2>2. Settled(d)'
    BY <1>7, SizesAssumption DEF ShutdownPending, Settled, Blocked, WriteBlocked, Probes, Fill,
       Waiting, Room, WriteFails, ReadFails,
       Available, FlushReady, CopyFrame, peer_vars, sink_vars, CopyStage, BufferTypes, WakeTypes, FlagTypes
  <2>3. QED
    BY <1>7, <2>1, <2>2, LeaveSettled DEF ShutdownPending
<1>8. ASSUME NEW d \in Dirs, ReadPending(d) PROVE Wakers'
  <2>1. OnlyOn(d) /\ dir = d /\ Copying
    BY <1>8, PollCopyOnlyOn DEF PollCopy
  <2>2. Settled(d)'
    BY <1>8, SizesAssumption DEF ReadPending, Settled, Blocked, WriteBlocked, Probes, Fill,
       Waiting, Room, WriteFails, ReadFails,
       Available, FlushReady, CopyFrame, peer_vars, sink_vars, CopyStage, BufferTypes, WakeTypes, FlagTypes
  <2>3. QED
    BY <1>8, <2>1, <2>2, LeaveSettled DEF ReadPending
<1>9. ASSUME NEW d \in Dirs, WriteOk(d) PROVE Wakers'
  <2>1. OnlyOn(d) /\ dir = d /\ Copying
    BY <1>9, PollCopyOnlyOn DEF PollCopy
  <2>2. dir' = dir /\ pc' \in {"write", "read", "shutdown"}
    BY <1>9 DEF WriteOk
  <2>3. QED
    BY <2>1, <2>2, GoingOn
<1>10. ASSUME NEW d \in Dirs, Flush(d) PROVE Wakers'
  <2>1. OnlyOn(d) /\ dir = d /\ Copying
    BY <1>10, PollCopyOnlyOn DEF PollCopy
  <2>2. dir' = dir /\ pc' \in {"write", "read", "shutdown"}
    BY <1>10 DEF Flush
  <2>3. QED
    BY <2>1, <2>2, GoingOn
<1>11. ASSUME NEW d \in Dirs, ReadData(d) PROVE Wakers'
  <2>1. OnlyOn(d) /\ dir = d /\ Copying
    BY <1>11, PollCopyOnlyOn DEF PollCopy
  <2>2. dir' = dir /\ pc' \in {"write", "read", "shutdown"}
    BY <1>11 DEF ReadData
  <2>3. QED
    BY <2>1, <2>2, GoingOn
<1>12. ASSUME NEW d \in Dirs, ReadEof(d) PROVE Wakers'
  <2>1. OnlyOn(d) /\ dir = d /\ Copying
    BY <1>12, PollCopyOnlyOn DEF PollCopy
  <2>2. dir' = dir /\ pc' \in {"write", "read", "shutdown"}
    BY <1>12 DEF ReadEof
  <2>3. QED
    BY <2>1, <2>2, GoingOn
<1>13. ASSUME NEW d \in Dirs, WriteErr(d) PROVE Wakers'
  BY <1>13 DEF WriteErr, Fail, Wakers, Copying
<1>14. ASSUME NEW d \in Dirs, ProbeErr(d) PROVE Wakers'
  BY <1>14 DEF ProbeErr, Fail, Wakers, Copying
<1>15. ASSUME NEW d \in Dirs, FlushErr(d) PROVE Wakers'
  BY <1>15 DEF FlushErr, Fail, Wakers, Copying
<1>16. ASSUME NEW d \in Dirs, ReadErr(d) PROVE Wakers'
  BY <1>16 DEF ReadErr, Fail, Wakers, Copying
<1>17. CASE Peers
  <2>1. UNCHANGED <<pc, dir>>
    BY <1>17, PeerFrame
  <2>2. \A e \in Dirs : Settled(e) => Settled(e)'
    BY <1>17, SettledUnderEvents
  <2>3. QED
    BY <2>1, <2>2 DEF Wakers, Dirs, Copying
<1>18. CASE /\ UNCHANGED <<dir, sent, eof, stalled, broken, woken, taken, held, pos, cap, read_done>>
            /\ UNCHANGED <<shutdown_done, waits>>
            /\ pc' = pc \/ pc' \in {"closing", "closed"} \/ (pc = "account" /\ pc' = "parked")
  <2>1. \A e \in Dirs : Settled(e) => Settled(e)'
    BY <1>18 DEF Settled, Blocked, Room, WriteFails, ReadFails, Available, FlushReady
  <2>2. QED
    BY <1>18, <2>1 DEF Wakers, Dirs, Copying
<1>19. QED
  BY <1>1, <1>2, <1>3, <1>4, <1>5, <1>6, <1>7, <1>8, <1>9, <1>10, <1>11, <1>12, <1>13, <1>14,
     <1>15, <1>16, <1>17, <1>18 DEF Next, RelayStep, Poll, PollCopy, CopyFrame, NotFailed, vars,
     peer_vars, sink_vars, dbuf_vars, timer_vars, bill_vars, PayloadFails, Account, Tick,
     ObserveCancel, Close

-----------------------------------------------------------------------------
(* The invariant.                                                          *)

RelayInv ==
  /\ Types
  /\ Termination /\ CopyStage
  /\ Buffer /\ Ordered /\ Ends
  /\ PayloadStage /\ Billing
  /\ Wakers /\ HalfTimer

\* A relay starts with its payload billed and a first poll due (handler.rs:261-275).
LEMMA InitRelayInv == Init => RelayInv
<1> SUFFICES ASSUME Init PROVE RelayInv
  OBVIOUS
<1> USE StartIs
<1>1. PeerTypes
  BY DEF Init, PeerTypes, PerDir, Start, Dirs, Sides
<1>2. SinkTypes
  <2>1. <<>> \in Seq(Nat) /\ 0 \in Nat
    OBVIOUS
  <2>2. QED
    BY <2>1 DEF Init, SinkTypes, PerDir
<1>3. BufferTypes /\ Contents
  <2>1. 0 \in Nat /\ 0 \in 0 .. BufSize /\ [i \in 0 .. BufSize - 1 |-> 0] \in [0 .. BufSize - 1 -> Nat]
    BY SizesAssumption
  <2>2. taken \in [Dirs -> Nat]
    BY DEF Init, Start
  <2>3. QED
    BY <2>1, <2>2 DEF Init, BufferTypes, Contents, PerDir
<1>4. FlagTypes
  BY DEF Init, FlagTypes, PerDir
<1>5. ControlTypes
  BY DEF Init, ControlTypes, PcValues, Outcomes, Dirs
<1>6. WakeTypes
  BY DEF Init, WakeTypes, PerDir
<1>7. TimerTypes /\ HalfTimer
  <2>1. half_active = FALSE /\ before = [d \in Dirs |-> 0] /\ half_timeout = 0 /\ half_left = 0
    BY DEF Init, PerDir
  <2>2. idle_left \in 0 .. IdleTimeout
    BY TimeoutsAssumption DEF Init
  <2>3. before \in [Dirs -> Nat] /\ half_timeout \in Nat /\ half_left \in Nat
    BY <2>1
  <2>4. QED
    BY <2>1, <2>2, <2>3 DEF TimerTypes, HalfTimer
<1>8. BillTypes
  BY DEF Init, BillTypes, PerDir, Start
<1>9. Termination /\ CopyStage
  BY DEF Init, Termination, CopyStage, Over, Copying, PerDir, Dirs
<1>10. Buffer
  BY DEF Init, Buffer, PerDir
<1>11. \A d \in Dirs : out[d] = <<>> /\ Len(out[d]) = 0
  BY DEF Init, PerDir
<1>12. Ordered
  BY <1>11 DEF Ordered
<1>13. Ends
  BY DEF Init, Ends, PerDir
<1>14. PayloadStage
  <2>1. Len(out["up"]) = 0 /\ Len(out["down"]) = 0 /\ \A d \in Dirs : amt[d] = 0 /\ ~read_done[d]
    BY <1>11 DEF Init, PerDir, Dirs
  <2>2. woken /\ pc = (IF Payload = 0 THEN "parked" ELSE "payload")
    BY DEF Init
  <2>3. CASE Payload = 0
    <3>1. \A d \in Dirs : Start[d] = 0
      BY <2>3 DEF Start
    <3>2. \A d \in Dirs : Len(out[d]) = amt[d] + Start[d]
      BY <1>11, <2>1, <3>1
    <3>3. QED
      BY <2>1, <2>2, <2>3, <3>2 DEF PayloadStage
  <2>4. CASE Payload # 0
    BY <2>1, <2>2, <2>4 DEF PayloadStage
  <2>5. QED
    BY <2>3, <2>4
<1>15. Billing
  BY DEF Init, Billing, PerDir
<1>16. Wakers
  BY DEF Init, Wakers, Settled, Copying
<1>17. QED
  BY <1>1, <1>2, <1>3, <1>4, <1>5, <1>6, <1>7, <1>8, <1>9, <1>10, <1>12, <1>13, <1>14, <1>15,
     <1>16 DEF RelayInv, Types

\* Every step keeps all of it.
LEMMA NextRelayInv ==
  ASSUME RelayInv, [Next]_vars
  PROVE  RelayInv'
<1> USE DEF RelayInv, Types
<1>1. Types'
  BY NextPeerTypes, NextSink, NextBufferTypes, NextContents, NextFlagTypes, NextControlTypes,
     NextWakeTypes, NextTimerTypes, NextBillTypes
<1>2. Termination' /\ CopyStage'
  BY NextTermination, NextCopyStage
<1>3. Buffer' /\ Ordered' /\ Ends'
  BY NextBuffer, NextSink, NextEnds
<1>4. PayloadStage' /\ Billing' /\ Wakers' /\ HalfTimer'
  BY NextPayloadStage, NextBilling, NextWakers, NextHalfTimer
<1>5. QED
  BY <1>1, <1>2, <1>3, <1>4

\* The invariant holds of every relay.
LEMMA RelayInvHolds == Spec => []RelayInv
  BY InitRelayInv, NextRelayInv, PTL DEF Spec

\* All that was read from a source that has closed is handed over.
LEMMA FinishedIsComplete ==
  ASSUME RelayInv, NEW d \in Dirs, shutdown_done[d]
  PROVE  eof[d] /\ Len(out[d]) = sent[d]
<1> USE DEF RelayInv, Types
<1>1. read_done[d] /\ pos[d] >= cap[d] /\ eof[d] /\ taken[d] = sent[d]
  BY DEF Ends
<1>2. taken[d] = amt[d] + Start[d]
  BY <1>1, Numbers DEF Buffer
<1>3. Len(out["up"]) \in Nat /\ Payload \in Nat
  BY StartIs DEF SinkTypes, Dirs
<1>4. Len(out["up"]) >= Payload
  BY <1>1, <1>3 DEF PayloadStage
<1>5. QED
  BY <1>1, <1>2, <1>4 DEF PayloadStage

\* Nothing is handed over that the source has not sent.
LEMMA OutWithinSent ==
  ASSUME RelayInv, NEW d \in Dirs
  PROVE  Len(out[d]) \in Nat /\ sent[d] \in Nat /\ Len(out[d]) <= sent[d]
<1> USE DEF RelayInv, Types
<1>1. Len(out[d]) \in Nat /\ sent[d] \in Nat /\ Len(out["up"]) \in Nat
  BY DEF SinkTypes, PeerTypes, Dirs
<1>2. amt[d] + Start[d] <= taken[d] /\ taken[d] <= sent[d]
  BY Numbers DEF Buffer, Ends
<1>3. CASE Len(out["up"]) >= Payload
  BY <1>1, <1>2, <1>3, Numbers DEF PayloadStage
<1>4. CASE Len(out["up"]) < Payload
  <2>1. Len(out[d]) <= Start[d]
    BY <1>1, <1>4, StartIs DEF PayloadStage, Dirs
  <2>2. QED
    BY <1>1, <1>2, <2>1, Numbers
<1>5. QED
  BY <1>1, <1>3, <1>4, StartIs

-----------------------------------------------------------------------------
(* The theorems.                                                           *)

\* Whenever the task can be dropped, the user is billed exactly what was handed over,
\* errors and kicks included (relay.rs:350-364, 433-442).
THEOREM BilledExactly == Spec => []BilledWhenDropped
<1>1. ASSUME RelayInv PROVE BilledWhenDropped
  <2> USE <1>1 DEF RelayInv, Types
  <2>1. TypeOK
    BY DEF TypeOK, PeerTypes, SinkTypes, BufferTypes, Contents, FlagTypes, ControlTypes,
           WakeTypes, TimerTypes, BillTypes
  <2>2. ASSUME NEW d \in Dirs
        PROVE  /\ pc \in {"parked", "closing", "closed"} => billed[d] = amt[d] + Start[d]
               /\ pc # "payload" => Len(out[d]) = amt[d] + Start[d] \/ termination = "error"
               /\ billed[d] <= sent[d]
    <3>1. billed[d] = reported[d] + Start[d] /\ reported[d] <= amt[d] /\ reported[d] \in Nat
      BY DEF Billing, BillTypes
    <3>2. pc \in {"parked", "closing", "closed"} => reported[d] = amt[d]
      BY DEF Billing, Over
    <3>3. pc # "payload" => Len(out[d]) = amt[d] + Start[d] \/ termination = "error"
      <4>1. Len(out["up"]) \in Nat /\ Payload \in Nat
        BY StartIs DEF SinkTypes, Dirs
      <4>2. QED
        BY <4>1 DEF PayloadStage
    <3>4. amt[d] + Start[d] <= taken[d] /\ taken[d] <= sent[d] /\ sent[d] \in Nat
      BY Numbers DEF Buffer, Ends, PeerTypes
    <3>5. billed[d] <= sent[d]
      BY <3>1, <3>4, Numbers
    <3>6. QED
      BY <3>1, <3>2, <3>3, <3>5
  <2>3. QED
    BY <2>1, <2>2 DEF BilledWhenDropped
<1>2. QED
  BY <1>1, RelayInvHolds, PTL

\* A sink is closed, and a relay completed, only after the last byte of the source
\* (relay.rs:226-232, 400-403).
THEOREM NothingIsCutOff == Spec => []NothingCutOff
<1>1. ASSUME RelayInv PROVE NothingCutOff
  <2>1. ASSUME NEW d \in Dirs, fin[d] PROVE eof[d] /\ Len(out[d]) = sent[d] /\ held[d] = 0
    <3>1. shutdown_done[d] /\ held[d] = 0
      BY <1>1, <2>1 DEF RelayInv, Ends
    <3>2. QED
      BY <1>1, <3>1, FinishedIsComplete
  <2>2. ASSUME termination = "completed", NEW d \in Dirs PROVE eof[d] /\ Len(out[d]) = sent[d]
    <3>1. shutdown_done[d]
      BY <1>1, <2>2 DEF RelayInv, Termination
    <3>2. QED
      BY <1>1, <3>1, FinishedIsComplete
  <2>3. QED
    BY <2>1, <2>2 DEF NothingCutOff
<1>2. QED
  BY <1>1, RelayInvHolds, PTL

\* A parked task that nobody has woken is held up by its peers in both directions
\* (relay.rs:176-205, 218-245).
THEOREM NoWakeupIsLost == Spec => []NoLostWakeup
<1>1. ASSUME RelayInv PROVE NoLostWakeup
  <2>1. pc = "parked" /\ ~woken => \A d \in Dirs : shutdown_done[d] \/ Blocked(d)
    BY <1>1 DEF RelayInv, Wakers, Settled
  <2>2. QED
    BY <2>1 DEF NoLostWakeup, Blocked
<1>2. QED
  BY <1>1, RelayInvHolds, PTL

\* A poll that delivers bytes resets the timers before it looks at them
\* (relay.rs:383-415).
THEOREM ProgressIsNoTimeout == Spec => NoTimeoutOnProgress
<1>1. ASSUME RelayInv, [Next]_vars,
             termination' \in {"idle", "half_close"}, termination = "none", Progressed
      PROVE  FALSE
  <2>1. CASE Account
    <3>1. Outcome \in {"idle", "half_close"}
      BY <1>1, <2>1 DEF Account
    <3>2. IdleLeft = IdleTimeout /\ IdleTimeout # 0
      BY <1>1, TimeoutsAssumption DEF IdleLeft
    <3>3. HalfActive => HalfLeft = HalfTimeout
      BY <1>1 DEF HalfLeft
    <3>4. HalfActive => HalfTimeout # 0
      BY <1>1, TimeoutsAssumption DEF RelayInv, Types, TimerTypes, HalfTimer, HalfActive,
         HalfTimeout
    <3>5. QED
      BY <3>1, <3>2, <3>3, <3>4 DEF Outcome
  <2>2. CASE termination' = termination \/ termination' \in {"error", "kicked"}
    BY <1>1, <2>2
  <2>3. QED
    BY <1>1, <2>1, <2>2 DEF Next, RelayStep, Poll, PollCopy, Peers, PeerUnchanged, CopyFrame,
       NotFailed, vars, peer_vars, sink_vars, dbuf_vars, timer_vars, bill_vars, PayloadWrite,
       PayloadFails, StartPoll, Tick, ObserveCancel, Close, Kick, WriteOk, WriteErr, ProbeData,
       ProbeEof, ProbeErr, ProbeNothing, Flush, FlushErr, Shutdown, ShutdownPending, ReadData,
       ReadEof, ReadErr, ReadPending, SendByte, SendEof, Stall, Resume, Break, Fail
<1>2. QED
  BY <1>1, RelayInvHolds, PTL DEF Spec, NoTimeoutOnProgress

-----------------------------------------------------------------------------
(* Each direction implements a BytePipe.                                   *)

\* What is sent and what is received are both initial parts of the same numbering.
LEMMA NumberedIs ==
  ASSUME NEW n \in Nat
  PROVE  /\ Numbered(n) \in Seq(Nat) /\ Len(Numbered(n)) = n
         /\ \A i \in 1 .. n : Numbered(n)[i] = i
  BY DEF Numbered

\* Of two such sequences the shorter is a prefix of the longer.
LEMMA NumberedPrefix ==
  ASSUME NEW m \in Nat, NEW n \in Nat, m <= n
  PROVE  Upload!IsPrefix(Numbered(m), Numbered(n)) /\ Download!IsPrefix(Numbered(m), Numbered(n))
<1>1. SubSeq(Numbered(m), 1, m) = SubSeq(Numbered(n), 1, m)
  <2>1. \A i \in 1 .. m : Numbered(m)[i] = Numbered(n)[i]
    BY NumberedIs
  <2>2. SubSeq(Numbered(m), 1, m) = [i \in 1 .. m |-> Numbered(m)[i]]
    BY NumberedIs
  <2>3. SubSeq(Numbered(n), 1, m) = [i \in 1 .. m |-> Numbered(n)[i]]
    BY NumberedIs
  <2>4. QED
    BY <2>1, <2>2, <2>3
<1>2. Len(Numbered(m)) = m /\ Len(Numbered(n)) = n
  BY NumberedIs
<1>3. QED
  BY <1>1, <1>2 DEF Upload!IsPrefix, Download!IsPrefix

\* What the writer of d has accepted is such an initial part.
LEMMA OutIsNumbered ==
  ASSUME RelayInv, NEW d \in Dirs
  PROVE  out[d] = Numbered(Len(out[d]))
<1>1. out[d] \in Seq(Nat) /\ Len(out[d]) \in Nat /\ \A i \in 1 .. Len(out[d]) : out[d][i] = i
  BY DEF RelayInv, Types, SinkTypes, Ordered
<1>2. /\ Numbered(Len(out[d])) \in Seq(Nat) /\ Len(Numbered(Len(out[d]))) = Len(out[d])
      /\ \A i \in 1 .. Len(out[d]) : Numbered(Len(out[d]))[i] = i
  BY <1>1, NumberedIs
<1>3. QED
  BY <1>1, <1>2

\* One step of the relay, as direction d shows it: its source closes, or bytes are sent and
\* handed over and the direction perhaps finished.
PipeCloses(d) ==
  ~eof[d] /\ eof'[d] /\ sent'[d] = sent[d] /\ out'[d] = out[d] /\ shutdown_done'[d] = shutdown_done[d]
PipeMoves(d) ==
  /\ eof'[d] = eof[d]
  /\ sent[d] <= sent'[d] /\ (eof[d] => sent'[d] = sent[d])
  /\ Len(out[d]) <= Len(out'[d])
  /\ shutdown_done[d] => out'[d] = out[d] /\ shutdown_done'[d]

\* No other change of d is possible.
LEMMA PipeStep ==
  ASSUME RelayInv, [Next]_vars, NEW d \in Dirs
  PROVE  PipeCloses(d) \/ PipeMoves(d)
<1> USE DEF RelayInv, Types
<1>1. sent[d] \in Nat /\ Len(out[d]) \in Nat
  BY DEF PeerTypes, SinkTypes
<1>2. CASE UNCHANGED <<sent, eof, out, shutdown_done>>
  BY <1>1, <1>2 DEF PipeMoves
<1>3. ASSUME NEW e \in Dirs, SendByte(e) PROVE PipeMoves(d)
  <2>1. /\ ~eof[e] /\ sent' = [sent EXCEPT ![e] = sent[e] + 1]
        /\ UNCHANGED <<eof, out, shutdown_done>>
    BY <1>3 DEF SendByte, PeerUnchanged, sink_vars, dbuf_vars
  <2>2. sent[d] <= sent'[d] /\ (eof[d] => sent'[d] = sent[d])
    BY <1>1, <2>1 DEF PeerTypes
  <2>3. QED
    BY <1>1, <2>1, <2>2 DEF PipeMoves
<1>4. ASSUME NEW e \in Dirs, SendEof(e) PROVE PipeCloses(d) \/ PipeMoves(d)
  <2>1. /\ ~eof[e] /\ eof' = [eof EXCEPT ![e] = TRUE]
        /\ UNCHANGED <<sent, out, shutdown_done>>
    BY <1>4 DEF SendEof, PeerUnchanged, sink_vars, dbuf_vars
  <2>2. CASE e = d
    BY <2>1, <2>2 DEF PipeCloses, PeerTypes
  <2>3. CASE e # d
    <3>1. eof'[d] = eof[d]
      BY <2>1, <2>3 DEF PeerTypes
    <3>2. sent'[d] = sent[d] /\ out'[d] = out[d] /\ shutdown_done'[d] = shutdown_done[d]
      BY <2>1
    <3>3. QED
      BY <1>1, <3>1, <3>2 DEF PipeMoves
  <2>4. QED
    BY <2>2, <2>3
<1>5. CASE PayloadWrite
  <2>1. Len(out[d]) <= Len(out'[d]) /\ (d # "up" => out'[d] = out[d])
    <3>1. PICK n \in Nat : n >= 1 /\ Len(out'["up"]) = Len(out["up"]) + n
      BY <1>5, PayloadSink
    <3>2. out'["down"] = out["down"]
      BY <1>5, PayloadSink
    <3>3. QED
      BY <1>1, <3>1, <3>2 DEF Dirs
  <2>2. ~shutdown_done["up"] /\ UNCHANGED <<sent, eof, shutdown_done>>
    BY <1>5 DEF PayloadWrite, PayloadStage, Ends, peer_vars, dbuf_vars, FlagTypes, Dirs
  <2>3. QED
    BY <1>1, <2>1, <2>2 DEF PipeMoves
<1>6. ASSUME NEW e \in Dirs, WriteOk(e) PROVE PipeMoves(d)
  <2>1. PICK n \in Nat : Written(e, n)
    BY <1>6, WriteChunk
  <2>2. ~Over /\ pc # "payload"
    BY <1>6 DEF WriteOk, Over
  <2>3. Len(out'[e]) = Len(out[e]) + n /\ \A f \in Dirs \ {e} : out'[f] = out[f]
    BY <2>1, <2>2, WriteSink
  <2>4. ~shutdown_done[e] /\ UNCHANGED <<sent, eof, shutdown_done>>
    BY <1>6, CopyingOpen DEF WriteOk, Copying, CopyFrame, peer_vars
  <2>5. Len(out[d]) <= Len(out'[d])
    BY <1>1, <2>3
  <2>6. QED
    BY <1>1, <2>3, <2>4, <2>5 DEF PipeMoves
<1>7. ASSUME NEW e \in Dirs, Shutdown(e) PROVE PipeMoves(d)
  <2>1. UNCHANGED <<sent, eof, out>> /\ shutdown_done' = [shutdown_done EXCEPT ![e] = TRUE]
    BY <1>7 DEF Shutdown, CopyFrame, peer_vars
  <2>2. QED
    BY <1>1, <2>1 DEF PipeMoves, FlagTypes
<1>8. QED
  BY <1>2, <1>3, <1>4, <1>5, <1>6, <1>7 DEF Next, RelayStep, Poll, PollCopy, Peers,
     PeerUnchanged, CopyFrame, NotFailed, vars, peer_vars, sink_vars, dbuf_vars, timer_vars,
     bill_vars, PayloadFails, StartPoll, Account, Tick, ObserveCancel, Close, Kick, WriteErr,
     ProbeData, ProbeEof, ProbeErr, ProbeNothing, Flush, FlushErr, ShutdownPending, ReadData,
     ReadEof, ReadErr, ReadPending, Stall, Resume, Break

\* What the pipe of d shows in every state.
Piped(d) ==
  /\ sent[d] \in Nat /\ Len(out[d]) \in Nat /\ Len(out[d]) <= sent[d]
  /\ out[d] = Numbered(Len(out[d]))
  /\ shutdown_done[d] => eof[d] /\ Len(out[d]) = sent[d]
AllPiped == \A d \in Dirs : Piped(d)

\* The invariant says so.
LEMMA RelayPiped == RelayInv => AllPiped
  BY OutWithinSent, OutIsNumbered, FinishedIsComplete DEF AllPiped, Piped

\* A step that moves the bytes of d is a transfer of its pipe.
LEMMA PipeTransfers ==
  ASSUME NEW d \in Dirs, Piped(d), Piped(d)', PipeMoves(d)
  PROVE  /\ \E m \in Nat, n \in Nat : m <= n /\ m = sent[d] /\ n = sent'[d]
         /\ \E m \in Nat, n \in Nat : /\ m <= n /\ out[d] = Numbered(m) /\ out'[d] = Numbered(n)
                                      /\ n <= sent'[d]
         /\ eof[d] => sent'[d] = sent[d]
         /\ shutdown_done[d] => out'[d] = out[d] /\ shutdown_done'[d]
         /\ shutdown_done'[d] /\ ~shutdown_done[d] => eof[d] /\ out'[d] = Numbered(sent'[d])
  BY DEF Piped, PipeMoves

\* The upload as a pipe.
LEMMA UploadStep ==
  ASSUME RelayInv, AllPiped, AllPiped', [Next]_vars
  PROVE  [Upload!Next]_(Upload!vars)
<1>1. "up" \in Dirs /\ Piped("up") /\ Piped("up")'
  BY DEF AllPiped, Dirs
<1>2. CASE PipeCloses("up")
  BY <1>2 DEF PipeCloses, Upload!Next, Upload!Close
<1>3. CASE PipeMoves("up")
  <2>1. PICK m \in Nat, n \in Nat : m <= n /\ m = sent["up"] /\ n = sent'["up"]
    BY <1>1, <1>3, PipeTransfers
  <2>2. PICK k \in Nat, l \in Nat : /\ k <= l /\ out["up"] = Numbered(k) /\ out'["up"] = Numbered(l)
                                  /\ l <= sent'["up"]
    BY <1>1, <1>3, PipeTransfers
  <2>3. Upload!IsPrefix(Numbered(sent["up"]), Numbered(sent'["up"]))
    BY <2>1, NumberedPrefix
  <2>4. Upload!IsPrefix(out["up"], out'["up"])
    BY <2>2, NumberedPrefix
  <2>5. Upload!IsPrefix(out'["up"], Numbered(sent'["up"]))
    BY <2>1, <2>2, NumberedPrefix
  <2>6. /\ eof["up"] => sent'["up"] = sent["up"]
        /\ shutdown_done["up"] => out'["up"] = out["up"] /\ shutdown_done'["up"]
        /\ shutdown_done'["up"] /\ ~shutdown_done["up"] => eof["up"] /\ out'["up"] = Numbered(sent'["up"])
    BY <1>1, <1>3, PipeTransfers
  <2>7. eof'["up"] = eof["up"]
    BY <1>3 DEF PipeMoves
  <2>8. Upload!Transfer
    BY <2>3, <2>4, <2>5, <2>6, <2>7 DEF Upload!Transfer
  <2>9. QED
    BY <2>8 DEF Upload!Next
<1>4. QED
  BY <1>1, <1>2, <1>3, PipeStep

\* The download as a pipe.
LEMMA DownloadStep ==
  ASSUME RelayInv, AllPiped, AllPiped', [Next]_vars
  PROVE  [Download!Next]_(Download!vars)
<1>1. "down" \in Dirs /\ Piped("down") /\ Piped("down")'
  BY DEF AllPiped, Dirs
<1>2. CASE PipeCloses("down")
  BY <1>2 DEF PipeCloses, Download!Next, Download!Close
<1>3. CASE PipeMoves("down")
  <2>1. PICK m \in Nat, n \in Nat : m <= n /\ m = sent["down"] /\ n = sent'["down"]
    BY <1>1, <1>3, PipeTransfers
  <2>2. PICK k \in Nat, l \in Nat : /\ k <= l /\ out["down"] = Numbered(k) /\ out'["down"] = Numbered(l)
                                  /\ l <= sent'["down"]
    BY <1>1, <1>3, PipeTransfers
  <2>3. Download!IsPrefix(Numbered(sent["down"]), Numbered(sent'["down"]))
    BY <2>1, NumberedPrefix
  <2>4. Download!IsPrefix(out["down"], out'["down"])
    BY <2>2, NumberedPrefix
  <2>5. Download!IsPrefix(out'["down"], Numbered(sent'["down"]))
    BY <2>1, <2>2, NumberedPrefix
  <2>6. /\ eof["down"] => sent'["down"] = sent["down"]
        /\ shutdown_done["down"] => out'["down"] = out["down"] /\ shutdown_done'["down"]
        /\ shutdown_done'["down"] /\ ~shutdown_done["down"] => eof["down"] /\ out'["down"] = Numbered(sent'["down"])
    BY <1>1, <1>3, PipeTransfers
  <2>7. eof'["down"] = eof["down"]
    BY <1>3 DEF PipeMoves
  <2>8. Download!Transfer
    BY <2>3, <2>4, <2>5, <2>6, <2>7 DEF Download!Transfer
  <2>9. QED
    BY <2>8 DEF Download!Next
<1>4. QED
  BY <1>1, <1>2, <1>3, PipeStep

\* Both directions implement BytePipe: every byte once and in order, and no end before
\* the last one (relay.rs:160-245).
THEOREM RelayImplementsPipes == Spec => Pipes
<1>1. ASSUME Init PROVE Upload!Init /\ Download!Init
  BY <1>1 DEF Init, PerDir, Dirs, Upload!Init, Download!Init
<1>2. QED
  BY <1>1, RelayInvHolds, RelayPiped, UploadStep, DownloadStep, PTL
     DEF Spec, Pipes, Upload!Spec, Download!Spec

=============================================================================
