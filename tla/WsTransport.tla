----------------------------- MODULE WsTransport -----------------------------
(***************************************************************************)
(* transport/ws.rs: WebSocketTransport, an AsyncRead and AsyncWrite over   *)
(* the messages of a tungstenite WebSocketStream, and accept(), which      *)
(* takes the first bytes out of the handshake.                             *)
(*                                                                         *)
(* A step is one call into tungstenite (poll_next, poll_ready, start_send, *)
(* poll_flush); the client and its socket act between any two.  The client *)
(* sends `stream`, cut into messages as it likes.  tungstenite is outside  *)
(* the repository: start_send appends a frame to out_buffer and writes it  *)
(* to the socket only beyond write_buffer_size; poll_ready and poll_flush  *)
(* write all of it; a Ping is answered while reading, a Close by the next  *)
(* flush.  Frame headers are counted as part of the 16 bytes               *)
(* ws_config_for adds.                                                     *)
(***************************************************************************)
EXTENDS Integers, Filtering

CONSTANTS
  BufferSize,      \* conn_config.buffer_size
  MinMaxFrame,     \* WS_MIN_MAX_FRAME
  MinMaxMessage,   \* WS_MIN_MAX_MESSAGE
  MaxEarlyData,    \* MAX_EARLY_DATA
  MaxInFlight,     \* bound: messages the client has sent and nobody has read
  MaxCut,          \* bound: bytes of a message that does not send all the rest
  MaxIdle          \* bound: messages of the client that carry no bytes

ASSUME WsSizesAssumption ==
  /\ BufferSize \in Nat \ {0} /\ {MinMaxFrame, MinMaxMessage, MaxEarlyData} \subseteq Nat
  /\ {MaxInFlight, MaxCut} \subseteq Nat \ {0} /\ MaxIdle \in Nat

VARIABLES
  \* the client and the socket
  stream,          \* all the bytes this client is going to send
  sent,            \* how many of them it has sent
  inflight,        \* its messages that have not been read
  idles,           \* messages without bytes it may still send
  peer,            \* "open", "closed" by a Close frame, or "eof" without one
  blocked,         \* the client does not read: the socket takes no bytes
  broken,          \* the socket fails
  \* WebSocketTransport
  read_buffer, read_pos, read_closed, write_closed,
  \* the tungstenite stream inside it
  ready, out_buffer, close_reply,
  \* what the two users of the transport have seen
  got,             \* bytes poll_read has delivered
  read_end,        \* how poll_read ended: "none", "eof" or "error"
  written,         \* bytes poll_write has accepted
  write_error,     \* why poll_write failed: "none", "closed", "full" or "io"
  wire,            \* bytes and frames the client can read
  shut             \* what poll_shutdown has answered: "no", "ok" or "error"

client_vars == <<stream, sent, inflight, idles, peer, blocked, broken>>
read_vars == <<read_buffer, read_pos, read_closed, got, read_end>>
sink_vars == <<ready, out_buffer, wire>>
write_vars == <<written, write_error>>
ws_vars == <<client_vars, read_vars, sink_vars, close_reply, write_vars, write_closed, shut>>

PONG  == -1        \* frames among the bytes of out_buffer and wire
CLOSE == -2

LesserOf(m, n)  == IF m <= n THEN m ELSE n
GreaterOf(m, n) == IF m >= n THEN m ELSE n

\* ws_config_for
MaxFrame == GreaterOf(2 * BufferSize, MinMaxFrame)
MaxMessage == GreaterOf(4 * BufferSize, MinMaxMessage)
OneBufferOnly == BufferSize           \* no room for a message behind a full buffer
MaxWriteBuffer == BufferSize + MaxFrame + 16

WsInit ==
  /\ sent = 0 /\ inflight = <<>> /\ idles = MaxIdle /\ peer = "open"
  /\ blocked = FALSE /\ broken = FALSE
  /\ read_buffer = <<>> /\ read_pos = 0 /\ read_closed = FALSE /\ write_closed = FALSE
  /\ ready = TRUE /\ out_buffer = <<>> /\ close_reply = FALSE
  /\ got = <<>> /\ read_end = "none" /\ written = <<>> /\ write_error = "none"
  /\ wire = <<>> /\ shut = "no"

-----------------------------------------------------------------------------
(* The client and its socket.                                              *)

ClientFrame == UNCHANGED <<read_vars, sink_vars, close_reply, write_vars, write_closed, shut>>

SendMessage ==
  /\ peer = "open" /\ ~broken /\ Len(inflight) < MaxInFlight
  /\ \E n \in 1 .. LesserOf(Len(stream) - sent, MaxMessage) :
       /\ n <= MaxCut \/ n = Len(stream) - sent
       /\ inflight' = Append(inflight, [kind |-> "binary", data |-> SubSeq(stream, sent + 1, sent + n)])
       /\ sent' = sent + n
  /\ UNCHANGED <<stream, idles, peer, blocked, broken>> /\ ClientFrame

\* An empty binary message, a text message or a Ping.
SendIdle(kind) ==
  /\ peer = "open" /\ ~broken /\ idles > 0 /\ Len(inflight) < MaxInFlight
  /\ inflight' = Append(inflight, [kind |-> kind, data |-> <<>>])
  /\ idles' = idles - 1
  /\ UNCHANGED <<stream, sent, peer, blocked, broken>> /\ ClientFrame

SendClose ==
  /\ peer = "open" /\ ~broken
  /\ peer' = "closed" /\ inflight' = Append(inflight, [kind |-> "close", data |-> <<>>])
  /\ UNCHANGED <<stream, sent, idles, blocked, broken>> /\ ClientFrame

Vanish ==
  /\ peer = "open" /\ ~broken
  /\ peer' = "eof"
  /\ UNCHANGED <<stream, sent, inflight, idles, blocked, broken>> /\ ClientFrame

Block ==
  /\ ~broken /\ blocked' = ~blocked
  /\ UNCHANGED <<stream, sent, inflight, idles, peer, broken>> /\ ClientFrame

BreakSocket ==
  /\ ~broken /\ broken' = TRUE
  /\ UNCHANGED <<stream, sent, inflight, idles, peer, blocked>> /\ ClientFrame

Socket == Block \/ BreakSocket
Client ==
  \/ SendMessage \/ SendClose \/ Vanish \/ Socket
  \/ \E kind \in {"binary", "text", "ping"} : SendIdle(kind)

-----------------------------------------------------------------------------
(* accept(): the first n bytes of the stream come in the handshake.        *)

\* A header that decodes to more than MAX_EARLY_DATA refuses the connection.
EarlyData(n) ==
  /\ n <= MaxEarlyData
  /\ sent' = n /\ read_buffer' = SubSeq(stream, 1, n)

\* No header, or one that is not base64url (a subprotocol name): n = 0.
Handshake ==
  /\ \E n \in 0 .. LesserOf(MaxEarlyData + 1, Len(stream)) : EarlyData(n)
  /\ UNCHANGED <<stream, inflight, idles, peer, blocked, broken, read_pos, read_closed, got,
                 read_end, sink_vars, close_reply, write_vars, write_closed, shut>>

-----------------------------------------------------------------------------
(* Writing to the socket: all of b, or, if it blocks, a part of it.  At    *)
(* most one byte of the part is followed here.                             *)

WriteOut(b) ==
  \E k \in IF blocked /\ b # <<>> THEN 0 .. LesserOf(1, Len(b) - 1) ELSE {Len(b)} :
    /\ wire' = wire \o SubSeq(b, 1, k)
    /\ out_buffer' = SubSeq(b, k + 1, Len(b))

Wrote == out_buffer' = <<>>       \* the socket took everything

-----------------------------------------------------------------------------
(* poll_read with room for `room` bytes.                                   *)

ReadFrame == UNCHANGED <<stream, sent, idles, peer, blocked, broken, write_vars, write_closed, shut>>
InBuffer == Len(read_buffer) - read_pos

ReadBuffered(room) ==
  /\ ~read_closed /\ InBuffer > 0
  /\ LET n == LesserOf(InBuffer, room) IN
       /\ got' = got \o SubSeq(read_buffer, read_pos + 1, read_pos + n)
       /\ IF n = InBuffer
          THEN read_buffer' = <<>> /\ read_pos' = 0
          ELSE read_pos' = read_pos + n /\ UNCHANGED read_buffer
  /\ UNCHANGED <<inflight, read_closed, read_end, sink_vars, close_reply>> /\ ReadFrame

Message(kind) ==
  /\ ~read_closed /\ InBuffer = 0
  /\ inflight # <<>> /\ Head(inflight).kind = kind
  /\ inflight' = Tail(inflight)

\* An empty binary message handed on, which its reader takes for the end.
EmptyIsEof(data) == FALSE
EmptySkipped(data) == data = <<>>

ReadMessage(room) ==
  /\ Message("binary") /\ ~EmptySkipped(Head(inflight).data)
  /\ LET data == Head(inflight).data
         n == LesserOf(Len(data), room) IN
       /\ got' = got \o SubSeq(data, 1, n)
       /\ read_buffer' = SubSeq(data, n + 1, Len(data))
       /\ read_end' = IF n = 0 THEN "eof" ELSE read_end
  /\ read_pos' = 0
  /\ UNCHANGED <<read_closed, sink_vars, close_reply>> /\ ReadFrame

\* The loop goes on to the next message; a Ping has its Pong buffered first.
ReadSkip ==
  /\ \/ /\ Message("binary") /\ EmptySkipped(Head(inflight).data)
        /\ UNCHANGED sink_vars
     \/ Message("text") /\ UNCHANGED sink_vars
     \/ Message("ping") /\ ~broken /\ WriteOut(Append(out_buffer, PONG)) /\ UNCHANGED ready
  /\ UNCHANGED <<read_vars, close_reply>> /\ ReadFrame

ReadClose ==
  /\ Message("close")
  /\ read_closed' = TRUE /\ read_end' = "eof"
  /\ close_reply' = TRUE
  /\ UNCHANGED <<read_buffer, read_pos, got, sink_vars>> /\ ReadFrame

\* An end of the socket without a Close, or a failure of the socket.  (The
\* orderly errors and None need a Close that was read before: then poll_next
\* is not called any more.)
ReadError ==
  /\ ~read_closed /\ InBuffer = 0
  /\ broken \/ (inflight = <<>> /\ peer = "eof")
  /\ read_closed' = TRUE /\ read_end' = "error"
  /\ UNCHANGED <<inflight, read_buffer, read_pos, got, sink_vars, close_reply>> /\ ReadFrame

-----------------------------------------------------------------------------
(* poll_write, poll_flush and poll_shutdown.                               *)

SinkFrame == UNCHANGED <<client_vars, read_vars, shut>>

\* poll_ready of a sink that is not ready; Pending if bytes remain.
PollReady ==
  /\ ~ready /\ ~write_closed /\ ~broken
  /\ WriteOut(out_buffer) /\ ready' = Wrote
  /\ UNCHANGED <<close_reply, write_vars, write_closed>> /\ SinkFrame

WriteRefused ==
  /\ write_closed \/ read_closed
  /\ write_error' = "closed"
  /\ UNCHANGED <<sink_vars, close_reply, written, write_closed>> /\ SinkFrame

\* poll_ready or start_send meets a socket that fails.
WriteFails ==
  /\ ~write_closed /\ ~read_closed /\ broken
  /\ write_error' = "io"
  /\ UNCHANGED <<sink_vars, close_reply, written, write_closed>> /\ SinkFrame

\* start_send of one binary message.
StartSend(data) ==
  /\ ~write_closed /\ ~read_closed /\ ready /\ ~broken
  /\ LET b == out_buffer \o data IN
     IF Len(b) > MaxWriteBuffer
     THEN /\ write_error' = "full"
          /\ UNCHANGED <<sink_vars, written>>
     ELSE /\ IF Len(b) > BufferSize
             THEN WriteOut(b) /\ ready' = Wrote
             ELSE out_buffer' = b /\ UNCHANGED <<ready, wire>>
          /\ written' = written \o data
          /\ UNCHANGED write_error
  /\ UNCHANGED <<close_reply, write_closed>> /\ SinkFrame

\* The answer to the client's Close goes out behind what is buffered.
Replied == IF close_reply THEN Append(out_buffer, CLOSE) ELSE out_buffer

PollFlush ==
  /\ ~write_closed /\ ~broken
  /\ WriteOut(Replied) /\ ready' = (ready \/ Wrote)
  /\ close_reply' = FALSE
  /\ UNCHANGED <<write_vars, write_closed>> /\ SinkFrame

\* poll_shutdown queues the Close whether the sink is ready or not.
AnySink == TRUE
SinkReady == ready

\* A Close is queued unless one was read (its reply is pending) or the stream
\* has failed; the error of start_send is ignored.  The flush start_send tries
\* is the one that follows.
ShutdownClose ==
  /\ ~write_closed /\ (SinkReady \/ broken)
  /\ write_closed' = TRUE
  /\ out_buffer' = IF ready /\ ~broken /\ ~read_closed
                   THEN Append(out_buffer, CLOSE) ELSE out_buffer
  /\ UNCHANGED <<ready, wire, close_reply, write_vars>> /\ SinkFrame

ShutdownFlush ==
  /\ write_closed /\ shut = "no" /\ ~broken
  /\ WriteOut(Replied)
  /\ close_reply' = FALSE /\ ready' = (ready \/ Wrote)
  /\ shut' = IF Wrote THEN "ok" ELSE "no"
  /\ UNCHANGED <<client_vars, read_vars, write_vars, write_closed>>

ShutdownFails ==
  /\ write_closed /\ shut = "no" /\ broken
  /\ shut' = "error"
  /\ UNCHANGED <<client_vars, read_vars, sink_vars, close_reply, write_vars, write_closed>>

-----------------------------------------------------------------------------
WsTypeOK ==
  /\ sent \in 0 .. Len(stream) /\ idles \in 0 .. MaxIdle
  /\ peer \in {"open", "closed", "eof"}
  /\ Len(inflight) <= MaxInFlight + 1
  /\ read_pos \in 0 .. Len(read_buffer)
  /\ {blocked, broken, read_closed, write_closed, ready, close_reply} \subseteq BOOLEAN
  /\ read_end \in {"none", "eof", "error"}
  /\ write_error \in {"none", "closed", "full", "io"} /\ shut \in {"no", "ok", "error"}

DataIn(s) == Only(s, Nat)

(* The client's bytes reach the reader and the server's bytes reach the    *)
(* client as through a pipe: none lost, repeated or out of order whatever  *)
(* the cuts, early data and buffers; the end is told only for a Close and  *)
(* after the last byte, never for an empty message, a vanished client or a *)
(* failing socket (ws.rs:146-307).                                         *)
Inward  == INSTANCE BytePipe WITH
             sent <- SubSeq(stream, 1, sent), got <- got,
             closed <- peer = "closed", ended <- read_end = "eof"
Outward == INSTANCE BytePipe WITH
             sent <- written, got <- DataIn(wire),
             closed <- write_closed \/ read_closed, ended <- CLOSE \in Range(wire)
WsPipes == Inward!Spec /\ Outward!Spec

(* Where poll_shutdown reports success the client has received everything  *)
(* that was written and a Close frame, also when the sink was blocked when *)
(* shutdown began; only a stream whose read failed ends without one        *)
(* (ws.rs:287-307).                                                        *)
ShutdownSendsClose ==
  shut = "ok" =>
    /\ CLOSE \in Range(wire) \/ read_end = "error"
    /\ DataIn(wire) = written

(* A client that does not read delays the writer and does not make a write *)
(* fail, as long as the Pongs owed to its Pings (at most MaxIdle) fit the  *)
(* room that ws_config_for leaves: poll_write then fails only after a      *)
(* Close, an end or a failure of the socket (ws.rs:9 and 231-268,          *)
(* server_runner.rs:48-60).                                                *)
WritesSurviveBackpressure ==
  /\ write_error # "full"
  /\ write_error = "closed" => read_closed \/ write_closed
=============================================================================
