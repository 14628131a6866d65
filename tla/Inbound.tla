------------------------------- MODULE Inbound -------------------------------
(***************************************************************************)
(* A client's stream from the WebSocket handshake to the close, as         *)
(* accept_connection, process_connection and read_trojan_request drive it: *)
(* WsTransport under the request reader of handler.rs, then under a TCP    *)
(* relay or under the packet loop of a UDP session, then close_client.     *)
(*                                                                         *)
(* What a client intends (a request, UDP packets behind it, possibly       *)
(* damaged) is a record of Intents; its encoding is the stream, which      *)
(* reaches the server cut at arbitrary places.  Authentication, routing    *)
(* and the other side of the session are in other modules: here a session  *)
(* writes whenever it likes and may end at any time.                       *)
(***************************************************************************)
EXTENDS WsTransport, TrojanProtocol

CONSTANTS
  Intents,      \* what the client may want to send, see Encoding
  Replies       \* UDP packets that come back, in order

VARIABLES
  intent,       \* what this client intends
  stage,        \* "handshake", "request", "tcp", "udp", "closing", "closed"
  buf, cap,     \* the request buffer, or read_buf of the UDP session; its capacity
  request,      \* the decoded request
  outcome,      \* how reading the request ended
  decoding,     \* the packet loop of the UDP session is running
  packets,      \* the UDP packets it has decoded
  writes        \* messages written so far

reader_vars == <<buf, cap, request, outcome, decoding, packets>>
vars == <<ws_vars, intent, stage, reader_vars, writes>>

NoRequest == [cmd |-> 0]

-----------------------------------------------------------------------------
(* The client's encoding, written from the protocol and not from the code. *)

\* An intent has a request (without payload), data and packets to follow it, a
\* set of <<position, byte>> damages, and the bound on what its session writes.
Header(r) == r.password \o <<CR, LF, r.cmd>> \o EncodeAddress(r.addr) \o <<CR, LF>>
Framed(p) == EncodeUdp(p.addr, p.payload)
FramedAll(ps) == FlattenSeq([k \in DOMAIN ps |-> Framed(ps[k])])
Encoding(i) ==
  LET clean == Header(i.request) \o i.data \o FramedAll(i.packets)
  IN  [n \in DOMAIN clean |->
         IF \E d \in i.damages : d[1] = n THEN (CHOOSE d \in i.damages : d[1] = n)[2] ELSE clean[n]]

HeaderLen == Len(Header(intent.request))
HeaderIntact == \A d \in intent.damages : d[1] > HeaderLen

\* Requests and packets the protocol can express; a UDP client sends packets.
ASSUME IntentsAssumption ==
  \A i \in Intents :
    /\ i.request \in Requests /\ i.data \in Seq(Byte) /\ i.packets \in Seq(Packets)
    /\ i.damages \in SUBSET (Nat \X Byte) /\ i.writes \in Nat
    /\ i.request.cmd = UdpAssociate => i.data = <<>>
\* A message of the session, behind the Pongs, fits what max_write_buffer_size
\* leaves behind a full buffer.
ASSUME RepliesAssumption ==
  /\ Replies \in Seq(Packets)
  /\ BufferSize + MaxIdle <= MaxFrame + 16
  /\ \A k \in DOMAIN Replies : Len(Framed(Replies[k])) + MaxIdle <= MaxFrame + 16

Init ==
  /\ WsInit
  /\ intent \in Intents /\ stream = Encoding(intent)
  /\ stage = "handshake"
  /\ buf = <<>> /\ cap = BufferSize /\ request = NoRequest /\ outcome = "none"
  /\ decoding = FALSE /\ packets = <<>> /\ writes = 0

-----------------------------------------------------------------------------
(* accept_connection: the handshake, under request_timeout.                *)

Accepted ==
  /\ stage = "handshake" /\ Handshake
  /\ stage' = "request"
  /\ UNCHANGED <<intent, reader_vars, writes>>

\* Wrong path, too much early data, a failed or slow handshake: dropped.
Refused ==
  /\ stage = "handshake"
  /\ stage' = "closed"
  /\ UNCHANGED <<ws_vars, intent, reader_vars, writes>>

-----------------------------------------------------------------------------
(* read_trojan_request                                                     *)

ReadBytes(room) == ReadBuffered(room) \/ ReadMessage(room)
NewBytes == SubSeq(got', Len(got) + 1, Len(got'))

\* reserve(buffer_size) of a BytesMut that grows as a Vec does.
Reserved(c, len) == IF c - len >= BufferSize THEN c ELSE GreaterOf(2 * c, len + BufferSize)

TooLargeOnce(b) == Len(b) > BufferSize
TooLarge(b) == Len(b) > 2 * BufferSize

Verdict(b) ==
  IF TooLarge(b) THEN [res |-> "too_large"]
  ELSE IF CheckComplete(b).res # "ok" THEN CheckComplete(b)
  ELSE IF DecodeRequest(b).res = "more" THEN [res |-> "unreachable"]
  ELSE DecodeRequest(b)

\* read_buf, then the size check and the loop's next attempt to decode.
ReadRequest ==
  /\ stage = "request"
  /\ ReadBytes(Reserved(cap, Len(buf)) - Len(buf))
  /\ LET b == buf \o NewBytes
         v == Verdict(b) IN
     IF v.res = "more"
     THEN /\ buf' = b /\ cap' = Reserved(cap, Len(buf))
          /\ UNCHANGED <<stage, request, outcome, decoding, packets>>
     ELSE /\ outcome' = v.res
          /\ request' = IF v.res = "ok" THEN v.value ELSE request
          /\ stage' = IF v.res # "ok" THEN "closing"
                      ELSE IF v.value.cmd = UdpAssociate THEN "udp" ELSE "tcp"
          /\ buf' = IF v.res = "ok" THEN v.value.payload ELSE <<>>
          /\ decoding' = (v.res = "ok" /\ v.value.cmd = UdpAssociate /\ v.value.payload # <<>>)
          /\ UNCHANGED <<cap, packets>>
  /\ UNCHANGED <<intent, writes>>

\* read_buf returned 0 or an error.
RequestCut ==
  /\ stage = "request" /\ (ReadClose \/ ReadError)
  /\ outcome' = "cut" /\ stage' = "closing"
  /\ UNCHANGED <<intent, buf, cap, request, decoding, packets, writes>>

RequestTimeout ==
  /\ stage = "request"
  /\ outcome' = "timeout" /\ stage' = "closing"
  /\ UNCHANGED <<ws_vars, intent, buf, cap, request, decoding, packets, writes>>

-----------------------------------------------------------------------------
(* The session: a relay or a UDP session reads, writes and flushes.        *)

RelayRead ==
  /\ stage = "tcp" /\ ReadBytes(BufferSize)
  /\ UNCHANGED <<intent, stage, reader_vars, writes>>

\* read_buf.reserve(8 * 1024): more than any message here.
UdpRead ==
  /\ stage = "udp" /\ ~decoding /\ ReadBytes(Len(stream))
  /\ buf' = buf \o NewBytes /\ decoding' = TRUE
  /\ UNCHANGED <<intent, stage, cap, request, outcome, packets, writes>>

\* One round of the packet loop.
UdpNext ==
  /\ stage = "udp" /\ decoding
  /\ LET p == DecodeUdp(buf) IN
       \/ /\ p.res = "ok"
          /\ packets' = Append(packets, p.value)
          /\ buf' = From(buf, p.consumed)
          /\ decoding' = (buf' # <<>>) /\ UNCHANGED <<stage, outcome>>
       \/ /\ p.res = "more" /\ decoding' = FALSE
          /\ UNCHANGED <<stage, buf, packets, outcome>>
       \/ /\ p.res = "invalid"            \* out of sync: the session is given up
          /\ outcome' = "out_of_sync" /\ stage' = "closing" /\ decoding' = FALSE
          /\ UNCHANGED <<buf, packets>>
  /\ UNCHANGED <<ws_vars, intent, cap, request, writes>>

SessionSkips ==
  /\ stage \in {"request", "tcp", "udp"} /\ ~decoding /\ ReadSkip
  /\ UNCHANGED <<intent, stage, reader_vars, writes>>

\* The relay goes on after the client's end, the UDP session does not.
SessionReadEnds ==
  /\ stage \in {"tcp", "udp"} /\ ~decoding /\ (ReadClose \/ ReadError)
  /\ stage' = IF stage = "udp" \/ read_end' = "error" THEN "closing" ELSE stage
  /\ UNCHANGED <<intent, reader_vars, writes>>

\* A relay writes what it has read of the remote, a UDP session one packet.
Outgoing ==
  IF stage = "tcp"
  THEN {[k \in 1 .. n |-> Len(written) + k] : n \in {1, BufferSize}}
  ELSE {Framed(Replies[k]) : k \in {writes + 1} \cap DOMAIN Replies}

SessionWrites ==
  /\ stage \in {"tcp", "udp"} /\ ~decoding /\ writes < intent.writes
  /\ \/ \E data \in Outgoing : StartSend(data)
     \/ WriteRefused \/ WriteFails
  /\ writes' = writes + 1
  /\ stage' = IF write_error' = "none" THEN stage ELSE "closing"
  /\ UNCHANGED <<intent, reader_vars>>

SessionFlushes ==
  /\ stage \in {"tcp", "udp"} /\ ~decoding /\ (PollReady \/ PollFlush)
  /\ UNCHANGED <<intent, stage, reader_vars, writes>>

\* Kick, timeout or the end of the other side.
SessionEnds ==
  /\ stage \in {"tcp", "udp"} /\ ~decoding
  /\ stage' = "closing"
  /\ UNCHANGED <<ws_vars, intent, reader_vars, writes>>

-----------------------------------------------------------------------------
(* close_client: shutdown under CLOSE_TIMEOUT, then the stream is dropped. *)

CloseClient ==
  /\ stage = "closing" /\ shut = "no"
  /\ PollReady \/ ShutdownClose \/ ShutdownFlush \/ ShutdownFails
  /\ UNCHANGED <<intent, stage, reader_vars, writes>>

Closed ==
  /\ stage = "closing"         \* shut is "no" after CLOSE_TIMEOUT
  /\ stage' = "closed"
  /\ UNCHANGED <<ws_vars, intent, reader_vars, writes>>

ClientActs ==
  /\ \/ stage \in {"request", "tcp", "udp"} /\ Client
     \/ stage = "closing" /\ Socket       \* nothing is read any more
  /\ UNCHANGED <<intent, stage, reader_vars, writes>>

Next ==
  \/ Accepted \/ Refused
  \/ ReadRequest \/ RequestCut \/ RequestTimeout
  \/ RelayRead \/ UdpRead \/ UdpNext \/ SessionSkips \/ SessionReadEnds
  \/ SessionWrites \/ SessionFlushes \/ SessionEnds
  \/ CloseClient \/ Closed
  \/ ClientActs

Spec == Init /\ [][Next]_vars

-----------------------------------------------------------------------------
Stages == {"handshake", "request", "tcp", "udp", "closing", "closed"}
TypeOK ==
  /\ WsTypeOK
  /\ stage \in Stages /\ cap \in Nat /\ decoding \in BOOLEAN /\ writes \in 0 .. intent.writes
  /\ buf \in Seq(0 .. 255)
  /\ outcome \in {"none", "ok", "invalid", "too_large", "cut", "timeout", "out_of_sync"}

\* Everything the client has sent has been read.
CaughtUp == inflight = <<>> /\ InBuffer = 0

(* However the client's bytes are cut, what is taken for a request is a    *)
(* well-formed one whose encoding the stream begins with, followed by its  *)
(* payload, and the one that was meant if its header is intact; an intact  *)
(* one whose header fits the buffer is never called invalid or too large;  *)
(* check_complete and decode_zerocopy agree (the unreachable!() is not     *)
(* reached); and a reader waits for more only if the header is incomplete  *)
(* or shorter than MIN_SIZE (handler.rs:52-101, protocol.rs:208-307).      *)
RequestFaithful ==
  /\ TypeOK
  /\ outcome \in {"ok", "out_of_sync"} =>
       /\ request \in Requests
       /\ IsPrefix(Header(request) \o request.payload, stream)
       /\ HeaderIntact =>
            [request EXCEPT !.payload = <<>>] = [intent.request EXCEPT !.payload = <<>>]
  /\ outcome \in {"invalid", "too_large"} /\ HeaderIntact => BufferSize < GreaterOf(HeaderLen, MIN_SIZE)
  /\ stage = "request" /\ CaughtUp /\ HeaderIntact => sent < HeaderLen \/ sent < MIN_SIZE

\* The packets among the first n bytes behind the header.
PacketsWithin(n) ==
  CHOOSE k \in 0 .. Len(intent.packets) :
    LET end(j) == Len(FramedAll(SubSeq(intent.packets, 1, j)))
    IN  end(k) <= n /\ (k < Len(intent.packets) => end(k + 1) > n)

(* UDP packets are cut out of the stream as they were put in: the stream   *)
(* behind the request begins with the encoding of those decoded, they are  *)
(* the client's, in order, wherever its messages end; the                  *)
(* session waits only for a packet that is incomplete or shorter than the  *)
(* minimum, gives up only a damaged stream, and what the client can decode *)
(* of the replies is what was sent (handler.rs:548-664, protocol.rs:364-407). *)
PacketsIntact ==
  /\ packets # <<>> => IsPrefix(Header(request) \o FramedAll(packets), stream)
  /\ intent.damages = {} => IsPrefix(packets, intent.packets)
  /\ outcome = "out_of_sync" => intent.damages # {}
  /\ stage = "udp" /\ ~decoding /\ CaughtUp /\ intent.damages = {} =>
       \/ Len(packets) = PacketsWithin(sent - HeaderLen)
       \/ Len(buf) < UDP_MIN_SIZE
  /\ stage = "udp" /\ DecodeUdp(DataIn(wire)).res = "ok" =>
       DecodeUdp(DataIn(wire)).value = Replies[1]

(* protocol.rs:212-213: "Check if buffer contains a complete request       *)
(* without consuming it.  Returns Ok(header_len) if complete".             *)
CompleteIsRecognised ==
  stage = "request" /\ CaughtUp /\ HeaderIntact => sent < HeaderLen
=============================================================================
