---------------------------- MODULE GrpcTransport ----------------------------
(***************************************************************************)
(* One gRPC stream as its session sees it: GrpcTransport's poll_read,      *)
(* poll_write, poll_flush and poll_shutdown (grpc/transport.rs) over the   *)
(* frame codec (grpc/codec.rs).                                            *)
(*                                                                         *)
(* The session polls the transport from one task, one call at a time; the  *)
(* peer and the HTTP/2 connection task act between any two steps of a      *)
(* call, so every poll_data, send_data and poll_capacity is a step.        *)
(*                                                                         *)
(* Inbound bytes are identified by their place on the wire; of a frame,    *)
(* what counts is the length of its header, and which bytes of its body    *)
(* are field tags (with their lengths) and which are data.  Outbound data  *)
(* bytes are numbered as they are written; a frame's header is one byte 0. *)
(***************************************************************************)
EXTENDS Naturals, Filtering

CONSTANTS
  Scripts,       \* what the client may send: sequences of frames
  HeaderLen,     \* 5 bytes of gRPC frame header
  MaxFrameLen,   \* MAX_INBOUND_FRAME_LEN
  Window,        \* INITIAL_WINDOW_SIZE
  MaxMessage,    \* max_message_size
  MaxQueue,      \* MAX_SEND_QUEUE_BYTES
  MaxWritten,    \* bound: data bytes the session writes
  MaxRoom        \* bound: bytes of the buffer the session reads into

Kinds == {"plain", "compressed", "malformed"}
Frame == [kind : Kinds, body : Seq({"tag", "data"})]

ASSUME ScriptsAssumption == \A s \in Scripts : s \in Seq(Frame)
ASSUME SizesAssumption ==
  /\ {HeaderLen, MaxMessage, MaxQueue} \subseteq Nat \ {0}
  /\ {MaxFrameLen, MaxWritten, MaxRoom} \subseteq Nat
\* A frame that is accepted fits into the window: 256 KiB and 5 bytes in 1 MiB.
ASSUME WindowAssumption == Window \in Nat /\ Window >= HeaderLen + MaxFrameLen

VARIABLES
  \* the client and the HTTP/2 stream
  script,        \* the frames this client sends
  wire,          \* bytes it has sent
  ended,         \* "no", "end" (END_STREAM), "cancel", "error" (RST_STREAM)
  credit,        \* bytes it may still send
  capacity,      \* bytes send_data accepts now
  out,           \* bytes passed to send_data
  trailers,      \* "none", "sent", or "only": a trailers-only response
  \* GrpcTransport, read side
  polled,        \* bytes taken from the stream
  read_pending,  \* read_pending.len()
  parsed,        \* frames split off read_pending
  read_buf, pending_release_capacity, read_closed,
  \* GrpcTransport, write side
  responder, send_queue, current_frame, current_frame_offset, send_queue_bytes, write_closed,
  \* the session
  op,            \* the call in progress, or "idle"
  want,          \* bytes offered by the poll_write in progress
  delivered,     \* bytes read
  read_end,      \* how reading ended: "no", "eof", "error"
  accepted,      \* bytes written
  frames,        \* the frames they make up, in order
  stage,         \* "using", "closing", "closed", "dropped"
  parked,        \* the write-side call that returned Pending last, or "none"
  waker          \* poll_capacity holds the waker and has not called it

peer_vars  == <<script, wire, ended, credit, capacity>>
read_vars  == <<polled, read_pending, parsed, read_buf, pending_release_capacity, read_closed,
                delivered, read_end>>
send_vars  == <<responder, send_queue, current_frame, current_frame_offset, send_queue_bytes, out>>
write_vars == <<send_vars, write_closed, want, accepted, frames, trailers, stage, parked, waker>>
vars == <<peer_vars, read_vars, write_vars, op>>

FrameLen(f) == HeaderLen + Len(f.body)

\* Where the frames of a script end on the wire.
EndsOf == [s \in Scripts |-> [i \in 0 .. Len(s) |->
             IF i = 0 THEN 0 ELSE Len(FlattenSeq([j \in 1 .. i |-> s[j].body])) + i * HeaderLen]]
EndOf == EndsOf[script]
ScriptLen == EndOf[Len(script)]

Least(m, n) == IF m <= n THEN m ELSE n
Reset == ended \in {"cancel", "error"}

Init ==
  /\ script \in Scripts /\ wire = 0 /\ ended = "no" /\ credit = Window /\ capacity = 0
  /\ out = <<>> /\ trailers = "none"
  /\ polled = 0 /\ read_pending = 0 /\ parsed = 0 /\ read_buf = <<>>
  /\ pending_release_capacity = 0 /\ read_closed = FALSE
  /\ delivered = <<>> /\ read_end = "no"
  /\ responder = "pending" /\ send_queue = <<>> /\ current_frame = <<>>
  /\ current_frame_offset = 0 /\ send_queue_bytes = 0 /\ write_closed = FALSE
  /\ want = 0 /\ accepted = 0 /\ frames = <<>> /\ stage = "using" /\ parked = "none" /\ waker = FALSE
  /\ op = "idle"

-----------------------------------------------------------------------------
(* The client and its connection.                                          *)

Live == stage \in {"using", "closing"}

SendByte ==
  /\ Live /\ ended = "no" /\ credit > 0 /\ wire < ScriptLen
  /\ wire' = wire + 1 /\ credit' = credit - 1
  /\ UNCHANGED <<script, ended, capacity, read_vars, write_vars, op>>

\* END_STREAM or a reset, at any byte.
EndStream(how) ==
  /\ Live /\ ended = "no"
  /\ ended' = how
  /\ waker' = (waker /\ how = "end")       \* a reset wakes whoever waits for capacity
  /\ UNCHANGED <<script, wire, credit, capacity, read_vars, send_vars, write_closed, want, accepted,
                 frames, trailers, stage, parked, op>>

\* A WINDOW_UPDATE: one more byte may be sent.
Grant ==
  /\ Live /\ ~Reset /\ capacity = 0
  /\ capacity' = 1 /\ waker' = FALSE
  /\ UNCHANGED <<script, wire, ended, credit, read_vars, send_vars, write_closed, want, accepted,
                 frames, trailers, stage, parked, op>>

-----------------------------------------------------------------------------
(* poll_read.                                                              *)

ReadUnchanged == UNCHANGED <<script, wire, ended, capacity, write_vars>>

\* Data left from a frame larger than the caller's buffer, of room bytes.
DropLeftover(payload, room) == <<>>
Leftover(payload, room) == SubSeq(payload, room + 1, Len(payload))

Deliver(payload, room) ==
  /\ delivered' = delivered \o SubSeq(payload, 1, Least(room, Len(payload)))
  /\ read_buf' = Leftover(payload, room)

ReadBuffered(room) ==
  /\ op = "idle" /\ stage = "using" /\ read_end = "no" /\ read_buf # <<>>
  /\ Deliver(read_buf, room)
  /\ UNCHANGED <<polled, read_pending, parsed, pending_release_capacity, read_closed, read_end,
                 credit, op>>
  /\ ReadUnchanged

PollRead ==
  /\ op = "idle" /\ stage = "using" /\ read_end = "no" /\ ~read_closed /\ read_buf = <<>>
  /\ op' = "read"
  /\ UNCHANGED <<read_vars, credit>>
  /\ ReadUnchanged

ReadFails(closes) ==
  /\ op' = "idle" /\ read_end' = "error"
  /\ read_closed' = (read_closed \/ closes)
  /\ UNCHANGED <<polled, read_pending, parsed, read_buf, pending_release_capacity, delivered, credit>>

\* The frame at the head of read_pending, and what of it has arrived.
Head1 == script[parsed + 1]
HasHeader == read_pending >= HeaderLen
\* A declared length over the limit, seen as soon as the header is there.
Oversized == HasHeader /\ Len(Head1.body) > MaxFrameLen
Whole == HasHeader /\ read_pending >= FrameLen(Head1)
Invalid == HasHeader /\ (Head1.kind = "compressed" \/ (Whole /\ Head1.kind = "malformed"))

ReadOversized ==
  /\ op = "read" /\ Oversized
  /\ ReadFails(TRUE)
  /\ ReadUnchanged

\* parse_grpc_message_zerocopy's errors leave the transport open.
ReadInvalid ==
  /\ op = "read" /\ ~Oversized /\ Invalid
  /\ ReadFails(FALSE)
  /\ ReadUnchanged

\* All data fields of the frame, in order, as one payload.
PayloadOf(f, start) ==
  FlattenSeq([i \in 1 .. Len(f.body) |->
                IF f.body[i] = "data" THEN <<start + HeaderLen + i>> ELSE <<>>])

\* Releasing the data only, not the frame around it.
ReleasedData(f, payload) == Len(payload)
Released(f, payload) == FrameLen(f)

\* An empty frame is passed over: to the caller a 0-byte read is the EOF.
Skipped(payload) == payload = <<>>

ParseFrame(room) ==
  /\ op = "read" /\ ~Oversized /\ ~Invalid /\ Whole
  /\ LET payload    == PayloadOf(Head1, polled - read_pending)
         to_release == Least(pending_release_capacity, Released(Head1, payload))
     IN  /\ credit' = credit + to_release
         /\ pending_release_capacity' = pending_release_capacity - to_release
         /\ read_pending' = read_pending - FrameLen(Head1)
         /\ parsed' = parsed + 1
         /\ IF Skipped(payload)
            THEN UNCHANGED <<delivered, read_buf, op, read_end>>
            ELSE /\ Deliver(payload, room)
                 /\ op' = "idle"
                 /\ read_end' = IF payload = <<>> THEN "eof" ELSE "no"
  /\ UNCHANGED <<polled, read_closed>>
  /\ ReadUnchanged

NeedsData == op = "read" /\ ~Oversized /\ ~Invalid /\ ~Whole

PollData(n) ==
  /\ NeedsData /\ n <= wire - polled
  /\ polled' = polled + n
  /\ read_pending' = read_pending + n
  /\ pending_release_capacity' = pending_release_capacity + n
  /\ UNCHANGED <<parsed, read_buf, read_closed, delivered, read_end, credit, op>>
  /\ ReadUnchanged

\* The end of the stream: graceful only between two frames, and only for
\* END_STREAM, NO_ERROR or CANCEL.
Graceful == ended # "error" /\ read_pending = 0

ReadEnds ==
  /\ NeedsData /\ polled = wire /\ ended # "no"
  /\ op' = "idle" /\ read_closed' = TRUE
  /\ read_end' = IF Graceful THEN "eof" ELSE "error"
  /\ UNCHANGED <<polled, read_pending, parsed, read_buf, pending_release_capacity, delivered, credit>>
  /\ ReadUnchanged

ReadPending ==
  /\ NeedsData /\ polled = wire /\ ended = "no"
  /\ op' = "idle"
  /\ UNCHANGED <<read_vars, credit>>
  /\ ReadUnchanged

-----------------------------------------------------------------------------
(* poll_send_queued and poll_send_current_frame.                           *)

Sending == op \in {"write", "push", "flush", "close"}
SendUnchanged == UNCHANGED <<script, wire, ended, credit, read_vars, write_closed, frames, trailers>>

NextFrame ==
  /\ Sending /\ current_frame = <<>> /\ send_queue # <<>>
  /\ current_frame' = Head(send_queue) /\ send_queue' = Tail(send_queue)
  /\ current_frame_offset' = 0
  /\ UNCHANGED <<responder, send_queue_bytes, out, capacity, want, accepted, stage, parked, waker, op>>
  /\ SendUnchanged

\* open_stream: the response headers precede the first frame.
OpenStream ==
  /\ Sending /\ current_frame # <<>> /\ responder = "pending" /\ ~Reset
  /\ responder' = "open"
  /\ UNCHANGED <<send_queue, current_frame, current_frame_offset, send_queue_bytes, out, capacity,
                 want, accepted, stage, parked, waker, op>>
  /\ SendUnchanged

\* The frame counts against the queue until its last byte is sent.
SentOff == IF send_queue_bytes >= Len(current_frame) THEN send_queue_bytes - Len(current_frame) ELSE 0

\* The offset is kept when the call ends with the frame half sent.
KeepOffset(n) == n

SendData ==
  /\ Sending /\ current_frame # <<>> /\ responder = "open" /\ ~Reset /\ capacity > 0
  /\ LET remaining == Len(current_frame) - current_frame_offset
         size      == Least(remaining, capacity)
     IN  /\ out' = out \o SubSeq(current_frame, current_frame_offset + 1, current_frame_offset + size)
         /\ capacity' = capacity - size
         /\ IF size = remaining
            THEN /\ current_frame' = <<>> /\ current_frame_offset' = 0
                 /\ send_queue_bytes' = SentOff
            ELSE /\ current_frame_offset' = KeepOffset(current_frame_offset + size)
                 /\ UNCHANGED <<current_frame, send_queue_bytes>>
  /\ UNCHANGED <<responder, send_queue, want, accepted, stage, parked, waker, op>>
  /\ SendUnchanged

\* send_response, poll_capacity or send_data fails: the call fails with it.
SendFails ==
  /\ Sending /\ current_frame # <<>> /\ Reset
  /\ op' = "idle" /\ parked' = "none"
  /\ stage' = IF op = "close" THEN "closed" ELSE "closing"
  /\ UNCHANGED <<send_vars, capacity, want, accepted, waker>>
  /\ SendUnchanged

\* What poll_send_queued answers: Ready with nothing left, or Pending with the
\* waker left in poll_capacity.
SentAll == current_frame = <<>> /\ send_queue = <<>>
Blocked == current_frame # <<>> /\ responder = "open" /\ ~Reset /\ capacity = 0
Sent == Sending /\ (SentAll \/ Blocked)
NotRegistered == UNCHANGED waker
Registered == waker' = (waker \/ Blocked)

-----------------------------------------------------------------------------
(* poll_write, poll_flush and poll_shutdown, each from its entry to the    *)
(* end of the poll_send_queued it calls.                                   *)

WriteUnchanged == UNCHANGED <<script, wire, ended, credit, capacity, read_vars, out, responder>>

PollWrite(n) ==
  /\ op = "idle" /\ stage = "using" /\ ~write_closed /\ n <= MaxWritten - accepted
  /\ op' = "write" /\ want' = n /\ parked' = "none"
  /\ UNCHANGED <<send_queue, current_frame, current_frame_offset, send_queue_bytes, write_closed,
                 accepted, frames, trailers, stage, waker>>
  /\ WriteUnchanged

\* The queue limit is looked at after sending what can be sent.
WriteRefused ==
  /\ op = "write" /\ Sent /\ send_queue_bytes >= MaxQueue
  /\ op' = "idle" /\ parked' = "write" /\ Registered
  /\ UNCHANGED <<send_queue, current_frame, current_frame_offset, send_queue_bytes, write_closed,
                 want, accepted, frames, trailers, stage>>
  /\ WriteUnchanged

\* encode_grpc_message of the n bytes after the first `from`.
EncodeFrame(from, n) == <<0>> \o [i \in 1 .. n |-> from + i]

\* A frame takes at most max_message_size of what is offered.
ToWrite(n) == Least(n, MaxMessage)

WritePushed ==
  /\ op = "write" /\ Sent /\ send_queue_bytes < MaxQueue
  /\ LET frame == EncodeFrame(accepted, ToWrite(want))
     IN  /\ send_queue' = Append(send_queue, frame)
         /\ send_queue_bytes' = send_queue_bytes + Len(frame)
         /\ accepted' = accepted + ToWrite(want) /\ frames' = Append(frames, frame)
  /\ op' = "push" /\ Registered
  /\ UNCHANGED <<current_frame, current_frame_offset, write_closed, want, trailers, stage, parked>>
  /\ WriteUnchanged

\* The second poll_send_queued; poll_write is Ready whatever it answers.
WriteReady ==
  /\ op = "push" /\ Sent
  /\ op' = "idle" /\ want' = 0 /\ Registered
  /\ UNCHANGED <<send_queue, current_frame, current_frame_offset, send_queue_bytes, write_closed,
                 accepted, frames, trailers, stage, parked>>
  /\ WriteUnchanged

PollFlush ==
  /\ op = "idle" /\ stage = "using"
  /\ op' = "flush" /\ parked' = "none"
  /\ UNCHANGED <<send_queue, current_frame, current_frame_offset, send_queue_bytes, write_closed,
                 want, accepted, frames, trailers, stage, waker>>
  /\ WriteUnchanged

FlushReturns ==
  /\ op = "flush" /\ Sent
  /\ op' = "idle" /\ parked' = (IF SentAll THEN "none" ELSE "flush") /\ Registered
  /\ UNCHANGED <<send_queue, current_frame, current_frame_offset, send_queue_bytes, write_closed,
                 want, accepted, frames, trailers, stage>>
  /\ WriteUnchanged

\* The relay or the UDP loop is over, for whatever reason: close_client.
StartClose ==
  /\ op = "idle" /\ stage = "using"
  /\ stage' = "closing" /\ parked' = "none"
  /\ UNCHANGED <<send_queue, current_frame, current_frame_offset, send_queue_bytes, write_closed,
                 want, accepted, frames, trailers, waker, op>>
  /\ WriteUnchanged

\* Already shut down, if the frame being sent is forgotten.
ShutDownByQueue == write_closed /\ send_queue = <<>>
ShutDown == write_closed /\ SentAll

PollShutdown ==
  /\ op = "idle" /\ stage = "closing"
  /\ write_closed' = TRUE /\ parked' = "none"
  /\ IF ShutDown THEN stage' = "closed" /\ UNCHANGED op
                 ELSE op' = "close" /\ UNCHANGED stage
  /\ UNCHANGED <<send_queue, current_frame, current_frame_offset, send_queue_bytes, want, accepted,
                 frames, trailers, waker>>
  /\ WriteUnchanged

ShutdownPending ==
  /\ op = "close" /\ Sent /\ ~SentAll
  /\ op' = "idle" /\ parked' = "shutdown" /\ Registered
  /\ UNCHANGED <<send_queue, current_frame, current_frame_offset, send_queue_bytes, write_closed,
                 want, accepted, frames, trailers, stage>>
  /\ WriteUnchanged

\* Trailers end the response; if nothing was ever written, they are all of it.
\* On a stream that was reset they fail, which counts as closed.
SendTrailers ==
  /\ op = "close" /\ SentAll
  /\ op' = "idle" /\ stage' = "closed"
  /\ trailers' = CASE Reset                -> "none"
                   [] responder = "open"    -> "sent"
                   [] responder = "pending" -> "only"
  /\ UNCHANGED <<send_queue, current_frame, current_frame_offset, send_queue_bytes, write_closed,
                 want, accepted, frames, parked, waker>>
  /\ WriteUnchanged

\* CLOSE_TIMEOUT: the transport is dropped, which resets the stream.
CloseTimeout ==
  /\ op = "idle" /\ stage = "closing" /\ parked = "shutdown"
  /\ stage' = "dropped" /\ parked' = "none"
  /\ UNCHANGED <<send_queue, current_frame, current_frame_offset, send_queue_bytes, write_closed,
                 want, accepted, frames, trailers, waker, op>>
  /\ WriteUnchanged

-----------------------------------------------------------------------------
Peer == SendByte \/ Grant \/ \E how \in {"end", "cancel", "error"} : EndStream(how)

Read ==
  \/ PollRead \/ ReadOversized \/ ReadInvalid \/ ReadEnds \/ ReadPending
  \/ \E room \in 1 .. MaxRoom : ReadBuffered(room) \/ ParseFrame(room)
  \/ \E n \in 1 .. Window : PollData(n)

Send == NextFrame \/ OpenStream \/ SendData \/ SendFails

Write ==
  \/ \E n \in 1 .. MaxWritten : PollWrite(n)
  \/ WriteRefused \/ WritePushed \/ WriteReady
  \/ PollFlush \/ FlushReturns
  \/ StartClose \/ PollShutdown \/ ShutdownPending \/ SendTrailers \/ CloseTimeout

Next == Peer \/ Read \/ Send \/ Write

Spec == Init /\ [][Next]_vars

-----------------------------------------------------------------------------
TypeOK ==
  /\ script \in Scripts /\ wire \in 0 .. ScriptLen /\ polled \in 0 .. wire
  /\ ended \in {"no", "end", "cancel", "error"}
  /\ credit \in 0 .. Window /\ capacity \in 0 .. 1
  /\ trailers \in {"none", "sent", "only"}
  /\ read_pending \in 0 .. polled /\ parsed \in 0 .. Len(script)
  /\ read_closed \in BOOLEAN /\ write_closed \in BOOLEAN /\ waker \in BOOLEAN
  /\ responder \in {"pending", "open"}
  /\ current_frame_offset \in 0 .. MaxMessage /\ send_queue_bytes \in Nat
  /\ op \in {"idle", "read", "write", "push", "flush", "close"}
  /\ want \in 0 .. MaxWritten /\ accepted \in 0 .. MaxWritten
  /\ read_end \in {"no", "eof", "error"}
  /\ stage \in {"using", "closing", "closed", "dropped"}
  /\ parked \in {"none", "write", "flush", "shutdown"}

\* Data bytes the client has sent, and data bytes passed to send_data.
DataOf == [s \in Scripts |->
             FlattenSeq([i \in 1 .. Len(s) |-> PayloadOf(s[i], EndsOf[s][i - 1])])]
OnWire == Only(DataOf[script], 0 .. wire)
OutData == Only(out, Nat \ {0})

(* Both directions of a stream implement the abstract pipe BytePipe: the   *)
(* session reads the data of the client's frames in order, no byte missing *)
(* or repeated, whatever way frames are cut into DATA chunks and payloads  *)
(* into reads, and is told "end of stream" only when the client has ended  *)
(* its stream with nothing left unread, so that a truncated tunnel never   *)
(* looks finished; the client gets what poll_write accepted across partial *)
(* sends and refused writes, and trailers only after the last byte         *)
(* (transport.rs:124-152, 184-245, 278-382, 402-469, codec.rs:28-105).     *)
Inward == INSTANCE BytePipe WITH
  sent <- OnWire, got <- delivered,
  closed <- ended \in {"end", "cancel"}, ended <- read_end = "eof"
Outward == INSTANCE BytePipe WITH
  sent <- [i \in 1 .. accepted |-> i], got <- OutData,
  closed <- write_closed, ended <- trailers # "none"
Pipes == Inward!Spec /\ Outward!Spec

(* Flow control is exact in both directions.  Every byte of the receive    *)
(* window is not sent, in flight, or buffered in an incomplete frame, and  *)
(* a reader that waits for the rest of a frame has left the client window  *)
(* to send it, an oversized frame being refused rather than waited for:    *)
(* reader and client never wait for each other.  What goes out is the      *)
(* concatenation of the accepted frames, and send_queue_bytes is the size  *)
(* of what of them is queued, the frame being sent included, so that the   *)
(* limit neither drifts up until every write is refused nor lets more than *)
(* one frame past it (transport.rs:129-134, 293-318, 349-357, 404).        *)
FlowControl ==
  /\ TypeOK
  /\ credit + (wire - polled) + pending_release_capacity = Window
  /\ pending_release_capacity = read_pending
  /\ NeedsData /\ polled = wire /\ ended = "no" /\ wire < ScriptLen => credit > 0
  /\ LET rest == SubSeq(current_frame, current_frame_offset + 1, Len(current_frame))
     IN  out \o rest \o FlattenSeq(send_queue) = FlattenSeq(frames)
  /\ send_queue_bytes = Len(FlattenSeq(send_queue)) + Len(current_frame)
  /\ send_queue_bytes < MaxQueue + MaxMessage + 1

(* A call that returned Pending is woken when capacity arrives: the waker  *)
(* is registered, or capacity came (or the stream was reset) since         *)
(* (transport.rs:198-224, 402-406).                                        *)
NoLostWakeup ==
  op = "idle" /\ parked # "none" => waker \/ capacity > 0 \/ Reset

(* A response that ends with grpc-status 0 begins with its headers, and is *)
(* trailers-only exactly if nothing was written; a close that finishes on  *)
(* a stream that is not reset has sent the trailers behind everything      *)
(* (transport.rs:423-469).                                                 *)
TrailersComplete ==
  /\ trailers # "none" => SentAll /\ ((trailers = "only") <=> (out = <<>>))
  /\ out # <<>> => responder = "open"
  /\ stage = "closed" /\ ~Reset => trailers # "none"

=============================================================================
