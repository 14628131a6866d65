------------------------ MODULE GrpcTransportProofs -------------------------
(***************************************************************************)
(* What holds of a gRPC stream for every script of frames, every window,   *)
(* message, queue and buffer size: exact flow control in both directions,  *)
(* no lost wake-up, trailers behind everything that was written, and the   *)
(* refinement of BytePipe in either direction.                             *)
(***************************************************************************)
EXTENDS GrpcTransport, SequenceLemmas, TLAPS

-----------------------------------------------------------------------------
(* The inductive invariant.                                                *)

Flags ==
  /\ ended \in {"no", "end", "cancel", "error"} /\ capacity \in 0 .. 1
  /\ trailers \in {"none", "sent", "only"} /\ responder \in {"pending", "open"}
  /\ read_closed \in BOOLEAN /\ write_closed \in BOOLEAN /\ waker \in BOOLEAN
  /\ op \in {"idle", "read", "write", "push", "flush", "close"}
  /\ read_end \in {"no", "eof", "error"}
  /\ stage \in {"using", "closing", "closed", "dropped"}
  /\ parked \in {"none", "write", "flush", "shutdown"}

\* The receive window: what was taken from the stream are the frames parsed and
\* the bytes of the next one, which are owed to the client.
Receiving ==
  /\ script \in Scripts /\ parsed \in 0 .. Len(script)
  /\ wire \in Nat /\ polled \in Nat /\ read_pending \in Nat /\ credit \in Nat
  /\ wire <= ScriptLen /\ polled <= wire
  /\ polled = EndOf[parsed] + read_pending
  /\ pending_release_capacity = read_pending
  /\ credit + (wire - polled) + read_pending = Window

\* What the session offers fits what is left to write.
Offered ==
  /\ want \in Nat /\ want <= MaxWritten /\ accepted \in Nat /\ accepted <= MaxWritten
  /\ op = "write" => want <= MaxWritten - accepted

\* Frames waiting to be sent are not empty, and the one being sent has bytes left.
Framed(f) == f \in Seq(Nat) /\ Len(f) <= MaxMessage + 1
Queued ==
  /\ send_queue \in Seq(Seq(Nat)) /\ frames \in Seq(Seq(Nat)) /\ out \in Seq(Nat)
  /\ \A i \in 1 .. Len(send_queue) : Framed(send_queue[i]) /\ send_queue[i] # <<>>
  /\ Framed(current_frame) /\ current_frame_offset \in Nat
  /\ current_frame = <<>> => current_frame_offset = 0
  /\ current_frame # <<>> => current_frame_offset < Len(current_frame)

\* send_queue_bytes is what is queued, and at most one frame over the limit.
Counted ==
  /\ send_queue_bytes = Len(FlattenSeq(send_queue)) + Len(current_frame)
  /\ send_queue_bytes < MaxQueue + MaxMessage + 1

\* What was sent and what is waiting are the accepted frames.
Rest == SubSeq(current_frame, current_frame_offset + 1, Len(current_frame))
Conserved == out \o Rest \o FlattenSeq(send_queue) = FlattenSeq(frames)

\* Each call belongs to a stage, and a shutdown that returned left something to send.
CallStage ==
  /\ op \in {"read", "write", "push", "flush"} => stage = "using"
  /\ op = "close" => stage = "closing" /\ write_closed
  /\ stage = "using" => ~write_closed
  /\ write_closed /\ stage = "closing" /\ op = "idle" => ~SentAll

\* A waiting write-side call stays waiting only until the next one begins.
Waiting ==
  parked # "none" => op \in {"idle", "read"} /\ (waker \/ capacity > 0 \/ Reset)

\* The response headers are sent with the first frame.
Opened ==
  /\ responder = "pending" => out = <<>>
  /\ responder = "open" => out # <<>> \/ current_frame # <<>>

Closed ==
  /\ trailers # "none" => stage = "closed" /\ SentAll /\ ((trailers = "only") <=> (out = <<>>))
  /\ stage = "closed" /\ ~Reset => trailers # "none"

StreamInv ==
  /\ Flags /\ Receiving /\ Offered /\ Queued /\ Counted /\ Conserved
  /\ CallStage /\ Waiting /\ Opened /\ Closed

-----------------------------------------------------------------------------
(* The receive side.                                                       *)

\* Where a frame ends: its length behind the end of the one before it.
LEMMA EndStep ==
  ASSUME NEW s \in Scripts, NEW i \in 1 .. Len(s)
  PROVE  /\ EndsOf[s][0] = 0 /\ EndsOf[s][i - 1] \in Nat
         /\ s[i] \in Frame /\ FrameLen(s[i]) \in Nat
         /\ EndsOf[s][i] = EndsOf[s][i - 1] + FrameLen(s[i])
<1> USE SizesAssumption
<1> DEFINE B == {"tag", "data"}
           b(k) == [j \in 1 .. k |-> s[j].body]
           L(k) == Len(FlattenSeq(b(k)))
<1>1. s \in Seq(Frame)
  BY ScriptsAssumption
<1>2. \A j \in 1 .. Len(s) : s[j] \in Frame /\ s[j].body \in Seq(B)
  <2>1. ASSUME NEW j \in 1 .. Len(s) PROVE s[j] \in Frame /\ s[j].body \in Seq(B)
    <3>1. s[j] \in Frame
      BY <1>1
    <3>2. QED
      BY <3>1 DEF Frame
  <2>2. QED
    BY <2>1
<1>3. ASSUME NEW k \in 0 .. Len(s)
      PROVE  b(k) \in Seq(Seq(B)) /\ L(k) \in Nat /\ Len(b(k)) = k
  <2>1. b(k) \in Seq(Seq(B)) /\ Len(b(k)) = k
    BY <1>1, <1>2
  <2> DEFINE c == b(k)
  <2>2. c \in Seq(Seq(B))
    BY <2>1
  <2> HIDE DEF c
  <2>3. FlattenSeq(c) \in Seq(B)
    BY <2>2, FlattenType
  <2>4. Len(FlattenSeq(c)) \in Nat
    BY <2>3
  <2>5. QED
    BY <2>1, <2>4 DEF c
<1>4. \A k \in 0 .. Len(s) : EndsOf[s][k] = IF k = 0 THEN 0 ELSE L(k) + k * HeaderLen
  BY DEF EndsOf
<1>5. L(0) = 0
  <2>1. b(0) = <<>>
    OBVIOUS
  <2>2. FlattenSeq(<<>>) = <<>>
    BY DEF FlattenSeq
  <2>3. QED
    BY <2>1, <2>2
<1>6. i \in 0 .. Len(s) /\ i - 1 \in 0 .. Len(s) /\ i # 0
  BY <1>1
<1>7. L(i) = L(i - 1) + Len(s[i].body)
  <2> DEFINE c == b(i - 1)
             x == s[i].body
  <2>1. c \in Seq(Seq(B)) /\ x \in Seq(B) /\ Len(c) = i - 1
    BY <1>2, <1>3, <1>6
  <2>2. b(i) = Append(c, x)
    <3>1. b(i) \in Seq(Seq(B)) /\ Len(b(i)) = i
      BY <1>3, <1>6
    <3>2. Append(c, x) \in Seq(Seq(B)) /\ Len(Append(c, x)) = i
      BY <2>1, <1>6, AppendProperties
    <3>3. ASSUME NEW j \in 1 .. i PROVE b(i)[j] = Append(c, x)[j]
      <4>1. b(i)[j] = s[j].body
        OBVIOUS
      <4>2. CASE j = i
        <5>1. Append(c, x)[Len(c) + 1] = x /\ Len(c) + 1 = i
          BY <2>1, <1>6, AppendProperties
        <5>2. QED
          BY <4>1, <4>2, <5>1
      <4>3. CASE j # i
        <5>1. j \in 1 .. Len(c) /\ j \in 1 .. i - 1
          BY <2>1, <1>6, <4>3
        <5>2. c[j] = s[j].body
          BY <5>1
        <5>3. Append(c, x)[j] = c[j]
          BY <2>1, <5>1, AppendProperties
        <5>4. QED
          BY <4>1, <5>2, <5>3
      <4>4. QED
        BY <4>2, <4>3
    <3> DEFINE u == b(i)
               v == Append(c, x)
    <3>4. u \in Seq(Seq(B)) /\ v \in Seq(Seq(B)) /\ Len(u) = Len(v) /\ Len(u) = i
      BY <3>1, <3>2
    <3>5. \A j \in 1 .. Len(u) : u[j] = v[j]
      BY <3>3, <3>4
    <3> HIDE DEF u, v
    <3>6. u = v
      BY <3>4, <3>5, SeqEqual
    <3>7. QED
      BY <3>6 DEF u, v
  <2> HIDE DEF c, x
  <2>3. FlattenSeq(Append(c, x)) = FlattenSeq(c) \o x
    BY <2>1, FlattenAppend
  <2>4. FlattenSeq(c) \in Seq(B)
    BY <2>1, FlattenType
  <2>5. Len(FlattenSeq(c) \o x) = Len(FlattenSeq(c)) + Len(x)
    BY <2>1, <2>4, ConcatProperties
  <2>6. QED
    BY <2>2, <2>3, <2>5 DEF c, x
<1>8. L(i) \in Nat /\ L(i - 1) \in Nat /\ Len(s[i].body) \in Nat
  BY <1>2, <1>3, <1>6
<1> HIDE DEF L
<1>9. EndsOf[s][0] = 0 /\ EndsOf[s][i] = L(i) + i * HeaderLen
      /\ EndsOf[s][i - 1] = L(i - 1) + (i - 1) * HeaderLen
  <2>1. EndsOf[s][0] = 0 /\ EndsOf[s][i] = L(i) + i * HeaderLen
    BY <1>1, <1>4, <1>6
  <2>2. CASE i - 1 = 0
    BY <1>4, <1>5, <1>6, <2>1, <2>2
  <2>3. CASE i - 1 # 0
    BY <1>4, <1>6, <2>1, <2>3
  <2>4. QED
    BY <2>1, <2>2, <2>3
<1>10. HeaderLen \in Nat /\ i \in Nat /\ i - 1 \in Nat
       /\ (i - 1) * HeaderLen \in Nat /\ i * HeaderLen = (i - 1) * HeaderLen + HeaderLen
  BY <1>6
<1> DEFINE m == (i - 1) * HeaderLen
           k == Len(s[i].body)
           p == L(i - 1)
<1>11. FrameLen(s[i]) = HeaderLen + k
  BY DEF FrameLen
<1>12. k \in Nat /\ m \in Nat /\ p \in Nat /\ HeaderLen \in Nat /\ EndsOf[s][i - 1] = p + m
       /\ EndsOf[s][i] = (p + k) + (m + HeaderLen)
  BY <1>7, <1>8, <1>9, <1>10
<1> HIDE DEF m, k, p
<1>13. EndsOf[s][i - 1] \in Nat /\ FrameLen(s[i]) \in Nat
       /\ EndsOf[s][i] = EndsOf[s][i - 1] + FrameLen(s[i])
  BY <1>11, <1>12, SMTT(30)
<1>14. QED
  BY <1>2, <1>9, <1>13

\* The bytes on the receive side.
read_data == <<script, wire, credit, polled, read_pending, parsed, pending_release_capacity>>

\* The steps that move them.
LEMMA ReadSteps ==
  ASSUME [Next]_vars
  PROVE  \/ SendByte \/ (\E room \in 1 .. MaxRoom : ParseFrame(room))
         \/ (\E n \in 1 .. Window : PollData(n)) \/ UNCHANGED read_data
<1> USE DEF read_data, vars, peer_vars, read_vars
<1>1. CASE UNCHANGED vars
  BY <1>1
<1>2. CASE Peer
  BY <1>2 DEF Peer, Grant, EndStream
<1>3. CASE Read
  BY <1>3 DEF Read, ReadUnchanged, PollRead, ReadOversized, ReadInvalid, ReadFails, ReadEnds,
              ReadPending, ReadBuffered
<1>4. CASE Send
  BY <1>4 DEF Send, SendUnchanged, NextFrame, OpenStream, SendData, SendFails
<1>5. CASE Write
  BY <1>5 DEF Write, WriteUnchanged, PollWrite, WriteRefused, WritePushed, WriteReady, PollFlush,
              FlushReturns, StartClose, PollShutdown, ShutdownPending, SendTrailers, CloseTimeout
<1>6. QED
  BY <1>1, <1>2, <1>3, <1>4, <1>5 DEF Next

\* The ends of frames are places on the wire.
LEMMA EndIs ==
  ASSUME NEW s \in Scripts, NEW i \in 0 .. Len(s)
  PROVE  EndsOf[s][i] \in Nat
<1>1. s \in Seq(Frame)
  BY ScriptsAssumption
<1>2. Len(s) \in Nat /\ i \in Nat
  BY <1>1
<1>3. CASE i = 0
  BY <1>2, <1>3 DEF EndsOf
<1>4. CASE i # 0
  <2>1. i \in 1 .. Len(s)
    BY <1>2, <1>4
  <2> DEFINE e == EndsOf[s][i - 1]
             f == FrameLen(s[i])
  <2>2. e \in Nat /\ f \in Nat /\ EndsOf[s][i] = e + f
    BY <2>1, EndStep
  <2> HIDE DEF e, f
  <2>3. QED
    BY <2>2
<1>5. QED
  BY <1>3, <1>4

\* The frames parsed so far and the whole script end at places on the wire.
LEMMA ParsedEnd ==
  ASSUME Receiving
  PROVE  /\ script \in Seq(Frame) /\ Len(script) \in Nat /\ parsed \in Nat
         /\ EndOf[parsed] \in Nat /\ ScriptLen \in Nat
<1>1. script \in Scripts /\ script \in Seq(Frame) /\ parsed \in 0 .. Len(script)
  BY ScriptsAssumption DEF Receiving
<1>2. Len(script) \in Nat /\ parsed \in Nat /\ Len(script) \in 0 .. Len(script)
  BY <1>1
<1>3. QED
  BY <1>1, <1>2, EndIs DEF EndOf, ScriptLen

\* Every byte of the window stays accounted for.
LEMMA NextReceiving ==
  ASSUME Receiving, [Next]_vars
  PROVE  Receiving'
<1> USE SizesAssumption, WindowAssumption
<1> DEFINE E == EndOf[parsed]
<1>0. /\ script \in Seq(Frame) /\ Len(script) \in Nat /\ E \in Nat /\ ScriptLen = EndOf[Len(script)]
      /\ script \in Scripts /\ parsed \in 0 .. Len(script)
      /\ wire \in Nat /\ polled \in Nat /\ read_pending \in Nat /\ credit \in Nat
      /\ wire <= ScriptLen /\ polled <= wire /\ polled = E + read_pending
      /\ pending_release_capacity = read_pending
      /\ credit + (wire - polled) + read_pending = Window
  BY ParsedEnd DEF Receiving, ScriptLen
<1>1. CASE SendByte
  <2>1. wire' = wire + 1 /\ credit' = credit - 1 /\ credit > 0 /\ wire < ScriptLen
        /\ UNCHANGED <<script, polled, read_pending, parsed, pending_release_capacity>>
    BY <1>1 DEF SendByte, read_vars
  <2>2. EndOf' = EndOf /\ ScriptLen' = ScriptLen /\ E' = E
    BY <2>1 DEF EndOf, ScriptLen
  <2>3. ScriptLen \in Nat
    BY <1>0, ParsedEnd
  <2> HIDE DEF E
  <2>4. wire' \in Nat /\ credit' \in Nat /\ polled' <= wire'
        /\ credit' + (wire' - polled') + read_pending' = Window
    BY <1>0, <2>1
  <2>5. wire' <= ScriptLen
    BY <1>0, <2>1, <2>3
  <2>6. QED
    BY <1>0, <2>1, <2>2, <2>4, <2>5 DEF Receiving, E
<1>2. ASSUME NEW room \in 1 .. MaxRoom, ParseFrame(room) PROVE Receiving'
  <2>1. parsed # Len(script)
    <3>1. read_pending >= HeaderLen /\ HeaderLen \in Nat \ {0}
      BY <1>2 DEF ParseFrame, Whole, HasHeader
    <3>2. SUFFICES ASSUME parsed = Len(script) PROVE FALSE
      OBVIOUS
    <3>3. ScriptLen = E
      BY <1>0, <3>2
    <3> HIDE DEF E
    <3>4. QED
      BY <1>0, <3>1, <3>3
  <2>2. parsed + 1 \in 1 .. Len(script) /\ (parsed + 1) - 1 = parsed
        /\ parsed + 1 \in 0 .. Len(script)
    BY <1>0, <2>1
  <2> DEFINE len == FrameLen(Head1)
             N == EndOf[parsed + 1]
  <2>3. len \in Nat /\ N = E + len
    BY <1>0, <2>2, EndStep DEF Head1, EndOf
  <2>4. read_pending >= len
    BY <1>2 DEF ParseFrame, Whole
  <2>5. credit' = credit + Least(pending_release_capacity, len)
        /\ pending_release_capacity'
             = pending_release_capacity - Least(pending_release_capacity, len)
        /\ read_pending' = read_pending - len /\ parsed' = parsed + 1
    BY <1>2 DEF ParseFrame, Released
  <2>6. UNCHANGED <<script, wire, polled>>
    BY <1>2 DEF ParseFrame, ReadUnchanged
  <2>7. EndOf' = EndOf /\ ScriptLen' = ScriptLen
    BY <2>6 DEF EndOf, ScriptLen
  <2>8. EndOf'[parsed'] = N
    BY <2>5, <2>7
  <2> HIDE DEF len, N, E
  <2>9. Least(pending_release_capacity, len) = len
    BY <1>0, <2>3, <2>4 DEF Least
  <2>10. /\ read_pending' \in Nat /\ credit' \in Nat
         /\ polled' = N + read_pending' /\ pending_release_capacity' = read_pending'
         /\ credit' + (wire' - polled') + read_pending' = Window
    BY <1>0, <2>3, <2>4, <2>5, <2>6, <2>9
  <2>11. QED
    BY <1>0, <2>2, <2>5, <2>6, <2>7, <2>8, <2>10 DEF Receiving
<1>3. ASSUME NEW n \in 1 .. Window, PollData(n) PROVE Receiving'
  <2>1. UNCHANGED <<script, wire, credit, parsed>> /\ n <= wire - polled
        /\ polled' = polled + n /\ read_pending' = read_pending + n
        /\ pending_release_capacity' = pending_release_capacity + n
    BY <1>3 DEF PollData, ReadUnchanged
  <2>2. EndOf' = EndOf /\ ScriptLen' = ScriptLen /\ EndOf'[parsed'] = E
    BY <2>1 DEF EndOf, ScriptLen
  <2> HIDE DEF E
  <2>3. /\ polled' \in Nat /\ read_pending' \in Nat /\ polled' <= wire'
        /\ polled' = E + read_pending' /\ pending_release_capacity' = read_pending'
        /\ credit' + (wire' - polled') + read_pending' = Window
    BY <1>0, <2>1
  <2>4. QED
    BY <1>0, <2>1, <2>2, <2>3 DEF Receiving
<1>4. CASE UNCHANGED read_data
  BY <1>4 DEF read_data, Receiving, EndOf, ScriptLen
<1>5. QED
  BY <1>1, <1>2, <1>3, <1>4, ReadSteps

-----------------------------------------------------------------------------
(* The send queue.                                                         *)

\* Concatenation of bytes is associative.
LEMMA BytesRegroup == \A a, b, c \in Seq(Nat) : (a \o b) \o c = a \o (b \o c)
<1>1. ASSUME NEW a \in Seq(Nat), NEW b \in Seq(Nat), NEW c \in Seq(Nat)
      PROVE  (a \o b) \o c = a \o (b \o c)
  OBVIOUS
<1>2. QED
  BY <1>1, Zenon

\* Concatenations of bytes are bytes.
LEMMA BytesJoin == \A a, b \in Seq(Nat) : a \o b \in Seq(Nat)
OBVIOUS

\* The rest of a frame, before and after m of its bytes are sent.
LEMMA BytesSplit ==
  ASSUME NEW c, NEW k \in Nat, NEW m \in Nat, c \in Seq(Nat), k + m <= Len(c)
  PROVE  /\ SubSeq(c, k + 1, k + m) \in Seq(Nat) /\ SubSeq(c, k + m + 1, Len(c)) \in Seq(Nat)
         /\ SubSeq(c, k + 1, Len(c)) = SubSeq(c, k + 1, k + m) \o SubSeq(c, k + m + 1, Len(c))
<1>1. k + 1 \in 1 .. Len(c) + 1 /\ k + m \in (k + 1) - 1 .. Len(c) /\ Len(c) \in k + m .. Len(c)
  OBVIOUS
<1>2. SubSeq(c, k + 1, k + m) \o SubSeq(c, (k + m) + 1, Len(c)) = SubSeq(c, k + 1, Len(c))
  BY <1>1, ConcatAdjacentSubSeq
<1>3. \A i \in 1 .. Len(c) : c[i] \in Nat
  OBVIOUS
<1>4. (\A i \in k + 1 .. k + m : c[i] \in Nat) /\ \A i \in k + m + 1 .. Len(c) : c[i] \in Nat
  BY <1>3
<1>5. SubSeq(c, k + 1, k + m) \in Seq(Nat)
  BY <1>4, SubSeqProperties
<1>6. SubSeq(c, k + m + 1, Len(c)) \in Seq(Nat)
  BY <1>4, SubSeqProperties
<1>7. QED
  BY <1>2, <1>5, <1>6

\* A flattened queue is a sequence of bytes.
LEMMA FlatBytes ==
  ASSUME NEW q \in Seq(Seq(Nat))
  PROVE  FlattenSeq(q) \in Seq(Nat) /\ Len(FlattenSeq(q)) \in Nat
<1>1. FlattenSeq(q) \in Seq(Nat)
  BY FlattenType
<1>2. QED
  BY <1>1

\* The frames on the send side.
frame_data == <<send_queue, current_frame, current_frame_offset, send_queue_bytes, out, frames>>

\* The steps that touch them.
LEMMA FrameSteps ==
  ASSUME [Next]_vars
  PROVE  NextFrame \/ SendData \/ WritePushed \/ UNCHANGED frame_data
<1> USE DEF frame_data, vars, write_vars, send_vars
<1>1. CASE UNCHANGED vars
  BY <1>1
<1>2. CASE Peer
  BY <1>2 DEF Peer, Grant, EndStream, SendByte
<1>3. CASE Read
  BY <1>3 DEF Read, ReadUnchanged, PollRead, ReadOversized, ReadInvalid, ReadFails, ReadEnds,
              ReadPending, ReadBuffered, ParseFrame, PollData
<1>4. CASE Send
  BY <1>4 DEF Send, SendUnchanged, NextFrame, OpenStream, SendData, SendFails
<1>5. CASE Write
  BY <1>5 DEF Write, WriteUnchanged, PollWrite, WriteRefused, WriteReady, PollFlush,
              FlushReturns, StartClose, PollShutdown, ShutdownPending, SendTrailers, CloseTimeout
<1>6. QED
  BY <1>1, <1>2, <1>3, <1>4, <1>5 DEF Next

SendInv == Queued /\ Counted /\ Conserved

\* The next frame is taken from the queue.
LEMMA NextFrameSends ==
  ASSUME SendInv, NextFrame
  PROVE  SendInv'
<1> USE SizesAssumption
<1> DEFINE h == Head(send_queue)
           t == Tail(send_queue)
           F == FlattenSeq(send_queue)
           G == FlattenSeq(t)
<1>1. /\ send_queue \in Seq(Seq(Nat)) /\ frames \in Seq(Seq(Nat)) /\ out \in Seq(Nat)
      /\ current_frame = <<>> /\ send_queue # <<>>
      /\ \A i \in 1 .. Len(send_queue) : Framed(send_queue[i]) /\ send_queue[i] # <<>>
  BY DEF SendInv, Queued, NextFrame
<1>2. /\ current_frame' = h /\ send_queue' = t /\ current_frame_offset' = 0
      /\ UNCHANGED <<send_queue_bytes, out, frames>>
  BY DEF NextFrame, SendUnchanged
<1>3. h \in Seq(Nat) /\ t \in Seq(Seq(Nat)) /\ h = send_queue[1] /\ 1 \in 1 .. Len(send_queue)
      /\ \A i \in 1 .. Len(t) : i + 1 \in 1 .. Len(send_queue) /\ t[i] = send_queue[i + 1]
  BY <1>1
<1>4. Framed(h) /\ h # <<>> /\ \A i \in 1 .. Len(t) : Framed(t[i]) /\ t[i] # <<>>
  BY <1>1, <1>3
<1>5. Len(h) > 0 /\ Len(h) \in Nat
  BY <1>3, <1>4
<1>6. Queued'
  BY <1>1, <1>2, <1>3, <1>4, <1>5 DEF Queued
<1>7. F = h \o G
  BY <1>1, FlattenHead
<1>8. F \in Seq(Nat) /\ G \in Seq(Nat) /\ Len(F) \in Nat /\ Len(G) \in Nat
  BY <1>1, <1>3, FlatBytes
<1>9. Len(F) = Len(h) + Len(G)
  <2> HIDE DEF h, G, F
  <2>1. QED
    BY <1>3, <1>7, <1>8, ConcatProperties
<1>10. Counted'
  <2>1. send_queue_bytes = Len(F) + Len(current_frame)
        /\ send_queue_bytes < MaxQueue + MaxMessage + 1
    BY DEF SendInv, Counted
  <2>2. Len(current_frame) = 0
    BY <1>1
  <2> DEFINE lf == Len(F)
             lg == Len(G)
             lh == Len(h)
  <2>3. lf \in Nat /\ lg \in Nat /\ lh \in Nat /\ lf = lh + lg /\ send_queue_bytes = lf + 0
    BY <1>5, <1>8, <1>9, <2>1, <2>2
  <2> HIDE DEF lf, lg, lh
  <2>4. send_queue_bytes = lg + lh
    BY <2>3
  <2>5. QED
    BY <1>2, <2>1, <2>4 DEF Counted, lg, lh
<1>11. Conserved'
  <2>1. Rest = <<>>
    BY <1>1 DEF Rest, SendInv, Queued
  <2>2. Rest' = h
    <3>1. Rest' = SubSeq(h, 1, Len(h))
      BY <1>2 DEF Rest
    <3>2. QED
      BY <1>3, <3>1, SubSeqFull
  <2>3. (out \o <<>>) \o F = FlattenSeq(frames)
    BY <2>1 DEF SendInv, Conserved
  <2> HIDE DEF h, G, F
  <2>4. (out \o <<>>) \o (h \o G) = (out \o h) \o G
    <3>1. out \in Seq(Nat) /\ h \in Seq(Nat) /\ G \in Seq(Nat)
      BY <1>1, <1>3, <1>8
    <3>2. out \o <<>> = out
      BY <3>1, ConcatEmptySeq
    <3>3. (out \o h) \o G = out \o (h \o G)
      BY <3>1, BytesRegroup, Zenon
    <3>4. QED
      BY <3>2, <3>3, Zenon
  <2>5. (out \o h) \o G = FlattenSeq(frames)
    BY <1>7, <2>3, <2>4, Zenon
  <2>6. QED
    BY <1>2, <2>2, <2>5 DEF Conserved, G
<1>12. QED
  BY <1>6, <1>10, <1>11 DEF SendInv

\* Bytes of the current frame are sent, the last ones or not.
LEMMA SendDataSends ==
  ASSUME SendInv, capacity \in Nat, SendData
  PROVE  SendInv'
<1> USE SizesAssumption
<1> DEFINE c == current_frame
           k == current_frame_offset
           l == Len(c)
           m == Least(l - k, capacity)
           F == FlattenSeq(send_queue)
           A == SubSeq(c, k + 1, k + m)
           R == SubSeq(c, k + m + 1, l)
<1>1. /\ send_queue \in Seq(Seq(Nat)) /\ frames \in Seq(Seq(Nat)) /\ out \in Seq(Nat)
      /\ \A i \in 1 .. Len(send_queue) : Framed(send_queue[i]) /\ send_queue[i] # <<>>
      /\ c \in Seq(Nat) /\ l <= MaxMessage + 1 /\ c # <<>> /\ k \in Nat /\ k < l /\ Framed(c)
  BY DEF SendInv, Queued, SendData, Framed
<1>2. /\ out' = out \o A /\ UNCHANGED <<send_queue, frames>>
      /\ IF m = l - k THEN /\ current_frame' = <<>> /\ current_frame_offset' = 0
                           /\ send_queue_bytes' = SentOff
                      ELSE /\ current_frame_offset' = k + m
                           /\ UNCHANGED <<current_frame, send_queue_bytes>>
  BY DEF SendData, SendUnchanged, KeepOffset
<1>3. l \in Nat /\ capacity > 0
  BY <1>1 DEF SendData
<1>4. m \in Nat /\ m > 0 /\ k + m <= l /\ (m # l - k => k + m < l)
  BY <1>1, <1>3, SMTT(30) DEF Least
<1>5. A \in Seq(Nat) /\ R \in Seq(Nat) /\ Rest = A \o R
  <2>1. c \in Seq(Nat) /\ k \in Nat /\ m \in Nat /\ k + m <= Len(c)
    BY <1>1, <1>4
  <2> HIDE DEF m, c, k
  <2>2. /\ SubSeq(c, k + 1, k + m) \in Seq(Nat) /\ SubSeq(c, k + m + 1, Len(c)) \in Seq(Nat)
        /\ SubSeq(c, k + 1, Len(c)) = SubSeq(c, k + 1, k + m) \o SubSeq(c, k + m + 1, Len(c))
    BY <2>1, BytesSplit
  <2>3. QED
    BY <2>2, Zenon DEF Rest, c, k
<1>6. F \in Seq(Nat) /\ Len(F) \in Nat
  BY <1>1, FlatBytes
<1>7. /\ send_queue_bytes = Len(F) + l /\ send_queue_bytes < MaxQueue + MaxMessage + 1
      /\ (out \o Rest) \o F = FlattenSeq(frames)
  BY DEF SendInv, Counted, Conserved
<1>8. out' \in Seq(Nat)
  <2> HIDE DEF A
  <2>1. QED
    BY <1>1, <1>2, <1>5, ConcatProperties
<1>9. ((out \o A) \o R) \o F = FlattenSeq(frames)
  <2>1. out \in Seq(Nat) /\ A \in Seq(Nat) /\ R \in Seq(Nat) /\ F \in Seq(Nat)
    BY <1>1, <1>5, <1>6
  <2> HIDE DEF A, R, F
  <2>2. ((out \o A) \o R) \o F = (out \o (A \o R)) \o F
    BY <2>1, BytesRegroup, Zenon
  <2>3. QED
    BY <1>5, <1>7, <2>2, Zenon
<1>10. CASE m = l - k
  <2>1. current_frame' = <<>> /\ current_frame_offset' = 0 /\ send_queue_bytes' = SentOff
    BY <1>2, <1>10
  <2>2. R = <<>> /\ Rest' = <<>>
    BY <1>1, <1>3, <1>10, <2>1, SMTT(30) DEF Rest
  <2> DEFINE lf == Len(F)
  <2>3. SentOff = IF send_queue_bytes >= l THEN send_queue_bytes - l ELSE 0
    BY DEF SentOff
  <2>4. lf \in Nat /\ send_queue_bytes = lf + l
    BY <1>6, <1>7
  <2> HIDE DEF lf, l
  <2>5. send_queue_bytes' = lf + 0 /\ send_queue_bytes' < MaxQueue + MaxMessage + 1
    BY <1>3, <1>7, <2>1, <2>3, <2>4
  <2>6. Len(<<>>) = 0
    OBVIOUS
  <2>7. Counted'
    BY <1>2, <2>1, <2>5, <2>6 DEF Counted, lf
  <2>8. Queued'
    <3>1. Framed(<<>>)
      BY <2>6 DEF Framed
    <3>2. QED
      BY <1>1, <1>2, <1>8, <2>1, <3>1 DEF Queued
  <2>9. Conserved'
    BY <1>2, <1>9, <2>2, Zenon DEF Conserved
  <2>10. QED
    BY <2>7, <2>8, <2>9 DEF SendInv
<1>11. CASE m # l - k
  <2>1. current_frame_offset' = k + m /\ UNCHANGED <<current_frame, send_queue_bytes>>
    BY <1>2, <1>11
  <2>2. Rest' = R
    BY <2>1 DEF Rest
  <2>3. Counted'
    BY <1>2, <1>7, <2>1 DEF Counted
  <2>4. current_frame_offset' \in Nat /\ current_frame_offset' < l
    <3> HIDE DEF m, l
    <3>1. QED
      BY <1>1, <1>3, <1>4, <1>11, <2>1
  <2>5. Queued'
    BY <1>1, <1>2, <1>8, <2>1, <2>4 DEF Queued, Framed
  <2>6. Conserved'
    BY <1>2, <1>9, <2>2, Zenon DEF Conserved
  <2>7. QED
    BY <2>3, <2>5, <2>6 DEF SendInv
<1>12. QED
  BY <1>10, <1>11

\* A frame holds its header and at most MaxMessage data bytes.
LEMMA FrameIs ==
  ASSUME NEW a \in Nat, NEW n \in Nat, n <= MaxMessage
  PROVE  /\ EncodeFrame(a, n) \in Seq(Nat) /\ Len(EncodeFrame(a, n)) = n + 1
         /\ EncodeFrame(a, n) # <<>>
<1> DEFINE d == [i \in 1 .. n |-> a + i]
<1>1. d \in Seq(Nat) /\ Len(d) = n
  OBVIOUS
<1>2. <<0>> \in Seq(Nat) /\ Len(<<0>>) = 1
  OBVIOUS
<1>3. EncodeFrame(a, n) = <<0>> \o d
  BY DEF EncodeFrame
<1> HIDE DEF d
<1>4. <<0>> \o d \in Seq(Nat) /\ Len(<<0>> \o d) = n + 1
  BY <1>1, <1>2, ConcatProperties
<1>5. QED
  BY <1>3, <1>4

\* poll_write appends a frame.
LEMMA WritePushedSends ==
  ASSUME SendInv, want \in Nat, accepted \in Nat, WritePushed
  PROVE  SendInv'
<1> USE SizesAssumption
<1> DEFINE x == EncodeFrame(accepted, ToWrite(want))
           F == FlattenSeq(send_queue)
           q == Append(send_queue, x)
<1>1. ToWrite(want) \in Nat /\ ToWrite(want) <= MaxMessage
  BY DEF ToWrite, Least
<1>2. x \in Seq(Nat) /\ Len(x) = ToWrite(want) + 1 /\ x # <<>>
  BY <1>1, FrameIs
<1>3. Len(x) \in Nat /\ Len(x) <= MaxMessage + 1
  BY <1>1, <1>2
<1>4. /\ send_queue' = q /\ send_queue_bytes' = send_queue_bytes + Len(x)
      /\ frames' = Append(frames, x) /\ send_queue_bytes < MaxQueue
      /\ UNCHANGED <<current_frame, current_frame_offset, out>>
  BY DEF WritePushed, WriteUnchanged
<1> HIDE DEF x
<1>5. /\ send_queue \in Seq(Seq(Nat)) /\ frames \in Seq(Seq(Nat)) /\ out \in Seq(Nat)
      /\ \A i \in 1 .. Len(send_queue) : Framed(send_queue[i]) /\ send_queue[i] # <<>>
      /\ current_frame \in Seq(Nat) /\ current_frame_offset \in Nat
  BY DEF SendInv, Queued, Framed
<1>6. Queued'
  <2>1. q \in Seq(Seq(Nat)) /\ Append(frames, x) \in Seq(Seq(Nat)) /\ Len(q) = Len(send_queue) + 1
        /\ q[Len(send_queue) + 1] = x /\ \A i \in 1 .. Len(send_queue) : q[i] = send_queue[i]
    BY <1>2, <1>5, AppendProperties
  <2>2. Framed(x) /\ x # <<>>
    BY <1>2, <1>3 DEF Framed
  <2>3. \A i \in 1 .. Len(q) : i \in 1 .. Len(send_queue) \/ i = Len(send_queue) + 1
    BY <1>5, <2>1, SMTT(30)
  <2>4. \A i \in 1 .. Len(q) : Framed(q[i]) /\ q[i] # <<>>
    BY <1>5, <2>1, <2>2, <2>3, Zenon
  <2> HIDE DEF q
  <2>5. QED
    BY <1>4, <1>5, <2>1, <2>4 DEF SendInv, Queued, Framed
<1>7. FlattenSeq(q) = F \o x /\ FlattenSeq(Append(frames, x)) = FlattenSeq(frames) \o x
  BY <1>2, <1>5, FlattenAppend
<1>8. F \in Seq(Nat) /\ Len(F) \in Nat /\ Len(current_frame) \in Nat
  BY <1>5, FlatBytes
<1>9. Len(F \o x) = Len(F) + Len(x)
  <2> HIDE DEF F
  <2>1. QED
    BY <1>2, <1>8, ConcatProperties
<1>10. Counted'
  <2>1. send_queue_bytes = Len(F) + Len(current_frame)
    BY DEF SendInv, Counted
  <2> DEFINE lf == Len(F)
             lx == Len(x)
             lc == Len(current_frame)
  <2>2. lf \in Nat /\ lx \in Nat /\ lc \in Nat /\ lx <= MaxMessage + 1 /\ send_queue_bytes = lf + lc
    BY <1>3, <1>8, <2>1
  <2>3. send_queue_bytes' = send_queue_bytes + lx /\ send_queue_bytes < MaxQueue
    BY <1>4
  <2>4. Len(FlattenSeq(send_queue'))  = lf + lx /\ Len(current_frame') = lc
    BY <1>4, <1>7, <1>9
  <2> HIDE DEF lf, lx, lc
  <2>5. send_queue_bytes' = (lf + lx) + lc /\ send_queue_bytes' < MaxQueue + MaxMessage + 1
    BY <2>2, <2>3
  <2>6. QED
    BY <2>4, <2>5 DEF Counted
<1>11. Conserved'
  <2>1. Rest' = Rest /\ Rest \in Seq(Nat)
    <3>1. Rest \in Seq(Nat)
      <4>1. CASE current_frame = <<>>
        BY <4>1 DEF Rest, SendInv, Queued
      <4>2. CASE current_frame # <<>>
        <5>1. current_frame_offset + 0 <= Len(current_frame) /\ 0 \in Nat
              /\ current_frame_offset + 0 + 1 = current_frame_offset + 1
          BY <1>5, <4>2 DEF SendInv, Queued
        <5>2. SubSeq(current_frame, current_frame_offset + 0 + 1, Len(current_frame)) \in Seq(Nat)
          BY <1>5, <5>1, BytesSplit
        <5>3. QED
          BY <5>1, <5>2 DEF Rest
      <4>3. QED
        BY <4>1, <4>2
    <3>2. QED
      BY <1>4, <3>1 DEF Rest
  <2> DEFINE R == Rest
  <2>2. (out \o R) \o F = FlattenSeq(frames)
    BY DEF SendInv, Conserved
  <2>3. R \in Seq(Nat)
    BY <2>1
  <2>4. out \in Seq(Nat) /\ R \in Seq(Nat) /\ F \in Seq(Nat) /\ x \in Seq(Nat)
    BY <1>2, <1>5, <1>8, <2>3
  <2> HIDE DEF F, R
  <2>5. (out \o R) \o (F \o x) = ((out \o R) \o F) \o x
    <3> DEFINE p == out \o R
    <3>1. p \in Seq(Nat)
      BY <2>4, BytesJoin, Zenon
    <3> HIDE DEF p
    <3>2. (p \o F) \o x = p \o (F \o x)
      BY <2>4, <3>1, BytesRegroup, ZenonT(40)
    <3>3. QED
      BY <3>2, Zenon DEF p
  <2>6. (out \o R) \o FlattenSeq(q) = FlattenSeq(Append(frames, x))
    BY <1>7, <2>2, <2>5, Zenon
  <2>7. QED
    BY <1>4, <2>1, <2>6, Zenon DEF Conserved, R
<1>12. QED
  BY <1>6, <1>10, <1>11 DEF SendInv

\* The queue stays exact whatever happens.
LEMMA NextSendInv ==
  ASSUME SendInv, Flags, Offered, [Next]_vars
  PROVE  SendInv'
<1>1. capacity \in Nat /\ want \in Nat /\ accepted \in Nat
  BY DEF Flags, Offered
<1>2. CASE UNCHANGED frame_data
  BY <1>2 DEF frame_data, SendInv, Queued, Counted, Conserved, Rest
<1>3. QED
  BY <1>1, <1>2, FrameSteps, NextFrameSends, SendDataSends, WritePushedSends

-----------------------------------------------------------------------------
(* The calls.                                                              *)

\* One byte of a frame.
LEMMA OneByte ==
  ASSUME NEW c, NEW k \in Nat, c \in Seq(Nat), k < Len(c)
  PROVE  SubSeq(c, k + 1, k + 1) \in Seq(Nat) /\ Len(SubSeq(c, k + 1, k + 1)) = 1
<1>1. \A i \in k + 1 .. k + 1 : c[i] \in Nat
  OBVIOUS
<1>2. k + 1 \in Int /\ k + 1 <= k + 1 /\ (k + 1) - (k + 1) + 1 = 1
  OBVIOUS
<1> DEFINE j == k + 1
<1>3. j \in Int /\ (\A i \in j .. j : c[i] \in Nat) /\ j <= j /\ j - j + 1 = 1
  BY <1>1, <1>2
<1>4. SUFFICES SubSeq(c, j, j) \in Seq(Nat) /\ Len(SubSeq(c, j, j)) = 1
  OBVIOUS
<1> HIDE DEF j
<1>5. QED
  BY <1>3, SubSeqProperties

\* The length of a concatenation of bytes.
LEMMA BytesLen == \A a, b \in Seq(Nat) : Len(a \o b) = Len(a) + Len(b) /\ Len(a) \in Nat
OBVIOUS

\* send_data takes at least one byte, and no more than there is capacity for.
LEMMA SendDataMoves ==
  ASSUME Queued, capacity \in 0 .. 1, SendData
  PROVE  capacity' = 0 /\ out' # <<>>
<1> DEFINE c == current_frame
           k == current_frame_offset
           m == Least(Len(c) - k, capacity)
           A == SubSeq(c, k + 1, k + m)
<1>1. c \in Seq(Nat) /\ c # <<>> /\ k \in Nat /\ k < Len(c) /\ capacity = 1 /\ out \in Seq(Nat)
  BY DEF Queued, SendData, Framed
<1>2. m = 1
  BY <1>1 DEF Least
<1>3. capacity' = capacity - m /\ out' = out \o A
  BY DEF SendData
<1>4. A \in Seq(Nat) /\ Len(A) = 1
  BY <1>1, <1>2, OneByte
<1>5. capacity' = 0
  BY <1>1, <1>2, <1>3
<1> HIDE DEF c, k, m, A
<1>6. Len(out \o A) = Len(out) + Len(A) /\ Len(out) \in Nat
  BY <1>1, <1>4, BytesLen, Zenon
<1>7. Len(out') # 0
  BY <1>3, <1>4, <1>6
<1>8. QED
  BY <1>5, <1>7

\* The flags keep their values.
LEMMA NextFlags ==
  ASSUME Flags, Queued, [Next]_vars
  PROVE  Flags'
<1> USE SizesAssumption
<1>1. CASE SendByte
  BY <1>1 DEF SendByte, read_vars, write_vars, send_vars, Flags
<1>2. CASE Grant
  <2>1. capacity' = 1 /\ waker' = FALSE
    BY <1>2 DEF Grant
  <2>2. capacity' \in 0 .. 1
    BY <2>1
  <2>3. waker' \in BOOLEAN
    BY <2>1, Zenon
  <2>4. QED
    BY <1>2, <2>2, <2>3 DEF Grant, read_vars, send_vars, Flags
<1>3. ASSUME NEW how \in {"end", "cancel", "error"}, EndStream(how) PROVE Flags'
  BY <1>3 DEF EndStream, read_vars, send_vars, Flags
<1>4. CASE PollRead
  BY <1>4 DEF PollRead, ReadUnchanged, read_vars, write_vars, send_vars, Flags
<1>5. CASE ReadOversized
  BY <1>5 DEF ReadOversized, ReadFails, ReadUnchanged, write_vars, send_vars, Flags
<1>6. CASE ReadInvalid
  BY <1>6 DEF ReadInvalid, ReadFails, ReadUnchanged, write_vars, send_vars, Flags
<1>7. CASE ReadEnds
  BY <1>7 DEF ReadEnds, NeedsData, ReadUnchanged, write_vars, send_vars, Flags
<1>8. CASE ReadPending
  BY <1>8 DEF ReadPending, NeedsData, ReadUnchanged, read_vars, write_vars, send_vars, Flags
<1>9. ASSUME NEW room \in 1 .. MaxRoom, ReadBuffered(room) PROVE Flags'
  BY <1>9 DEF ReadBuffered, ReadUnchanged, write_vars, send_vars, Flags
<1>10. ASSUME NEW room \in 1 .. MaxRoom, ParseFrame(room) PROVE Flags'
  BY <1>10 DEF ParseFrame, ReadUnchanged, write_vars, send_vars, Flags
<1>11. ASSUME NEW n \in 1 .. Window, PollData(n) PROVE Flags'
  BY <1>11 DEF PollData, NeedsData, ReadUnchanged, write_vars, send_vars, Flags
<1>12. CASE NextFrame
  BY <1>12 DEF NextFrame, Sending, SendUnchanged, read_vars, Flags
<1>13. CASE OpenStream
  BY <1>13 DEF OpenStream, Sending, SendUnchanged, read_vars, Flags
<1>14. CASE SendData
  <2>1. capacity' \in 0 .. 1
    BY <1>14, SendDataMoves DEF Flags
  <2>2. QED
    BY <1>14, <2>1 DEF SendData, Sending, SendUnchanged, read_vars, Flags
<1>15. CASE SendFails
  BY <1>15 DEF SendFails, Sending, SendUnchanged, read_vars, send_vars, Flags
<1>16. ASSUME NEW n \in 1 .. MaxWritten, PollWrite(n) PROVE Flags'
  BY <1>16 DEF PollWrite, WriteUnchanged, read_vars, Flags
<1>17. CASE WriteRefused
  BY <1>17 DEF WriteRefused, Sent, Registered, WriteUnchanged, read_vars, Flags
<1>18. CASE WritePushed
  BY <1>18 DEF WritePushed, Sent, Registered, WriteUnchanged, read_vars, Flags
<1>19. CASE WriteReady
  BY <1>19 DEF WriteReady, Sent, Registered, WriteUnchanged, read_vars, Flags
<1>20. CASE PollFlush
  BY <1>20 DEF PollFlush, WriteUnchanged, read_vars, Flags
<1>21. CASE FlushReturns
  BY <1>21 DEF FlushReturns, Sent, Registered, WriteUnchanged, read_vars, Flags
<1>22. CASE StartClose
  BY <1>22 DEF StartClose, WriteUnchanged, read_vars, Flags
<1>23. CASE PollShutdown
  BY <1>23 DEF PollShutdown, ShutDown, WriteUnchanged, read_vars, Flags
<1>24. CASE ShutdownPending
  BY <1>24 DEF ShutdownPending, Sent, Registered, WriteUnchanged, read_vars, Flags
<1>25. CASE SendTrailers
  BY <1>25 DEF SendTrailers, WriteUnchanged, read_vars, Flags
<1>26. CASE CloseTimeout
  BY <1>26 DEF CloseTimeout, WriteUnchanged, read_vars, Flags
<1>27. CASE UNCHANGED vars
  BY <1>27 DEF vars, peer_vars, read_vars, write_vars, send_vars, Flags
<1>28. QED
  BY <1>1, <1>2, <1>3, <1>4, <1>5, <1>6, <1>7, <1>8, <1>9, <1>10, <1>11, <1>12, <1>13, <1>14,
     <1>15, <1>16, <1>17, <1>18, <1>19, <1>20, <1>21, <1>22, <1>23, <1>24, <1>25, <1>26, <1>27
     DEF Next, Peer, Read, Send, Write

\* Nothing is accepted beyond what was offered.
LEMMA NextOffered ==
  ASSUME Offered, Flags, [Next]_vars
  PROVE  Offered'
<1> USE SizesAssumption
<1>1. CASE SendByte
  BY <1>1 DEF SendByte, read_vars, write_vars, send_vars, Offered, Least, ToWrite
<1>2. CASE Grant
  BY <1>2 DEF Grant, read_vars, send_vars, Offered, Least, ToWrite
<1>3. ASSUME NEW how \in {"end", "cancel", "error"}, EndStream(how) PROVE Offered'
  BY <1>3 DEF EndStream, read_vars, send_vars, Offered, Least, ToWrite
<1>4. CASE PollRead
  BY <1>4 DEF PollRead, ReadUnchanged, read_vars, write_vars, send_vars, Offered, Least, ToWrite
<1>5. CASE ReadOversized
  BY <1>5 DEF ReadOversized, ReadFails, ReadUnchanged, write_vars, send_vars, Offered, Least,
     ToWrite
<1>6. CASE ReadInvalid
  BY <1>6 DEF ReadInvalid, ReadFails, ReadUnchanged, write_vars, send_vars, Offered, Least,
     ToWrite
<1>7. CASE ReadEnds
  BY <1>7 DEF ReadEnds, NeedsData, ReadUnchanged, write_vars, send_vars, Offered, Least, ToWrite
<1>8. CASE ReadPending
  BY <1>8 DEF ReadPending, NeedsData, ReadUnchanged, read_vars, write_vars, send_vars, Offered,
     Least, ToWrite
<1>9. ASSUME NEW room \in 1 .. MaxRoom, ReadBuffered(room) PROVE Offered'
  BY <1>9 DEF ReadBuffered, ReadUnchanged, write_vars, send_vars, Offered, Least, ToWrite
<1>10. ASSUME NEW room \in 1 .. MaxRoom, ParseFrame(room) PROVE Offered'
  BY <1>10 DEF ParseFrame, ReadUnchanged, write_vars, send_vars, Offered, Least, ToWrite
<1>11. ASSUME NEW n \in 1 .. Window, PollData(n) PROVE Offered'
  BY <1>11 DEF PollData, NeedsData, ReadUnchanged, write_vars, send_vars, Offered, Least, ToWrite
<1>12. CASE NextFrame
  BY <1>12 DEF NextFrame, Sending, SendUnchanged, read_vars, Offered, Least, ToWrite
<1>13. CASE OpenStream
  BY <1>13 DEF OpenStream, Sending, SendUnchanged, read_vars, Offered, Least, ToWrite
<1>14. CASE SendData
  BY <1>14 DEF SendData, Sending, SendUnchanged, read_vars, Offered, Least, ToWrite
<1>15. CASE SendFails
  BY <1>15 DEF SendFails, Sending, SendUnchanged, read_vars, send_vars, Offered, Least, ToWrite
<1>16. ASSUME NEW n \in 1 .. MaxWritten, PollWrite(n) PROVE Offered'
  BY <1>16 DEF PollWrite, WriteUnchanged, read_vars, Offered, Least, ToWrite
<1>17. CASE WriteRefused
  BY <1>17 DEF WriteRefused, Sent, Registered, WriteUnchanged, read_vars, Offered, Least, ToWrite
<1>18. CASE WritePushed
  BY <1>18, SMTT(30) DEF WritePushed, Sent, Registered, WriteUnchanged, read_vars, Offered, Least, ToWrite
<1>19. CASE WriteReady
  BY <1>19 DEF WriteReady, Sent, Registered, WriteUnchanged, read_vars, Offered, Least, ToWrite
<1>20. CASE PollFlush
  BY <1>20 DEF PollFlush, WriteUnchanged, read_vars, Offered, Least, ToWrite
<1>21. CASE FlushReturns
  BY <1>21 DEF FlushReturns, Sent, Registered, WriteUnchanged, read_vars, Offered, Least, ToWrite
<1>22. CASE StartClose
  BY <1>22 DEF StartClose, WriteUnchanged, read_vars, Offered, Least, ToWrite
<1>23. CASE PollShutdown
  BY <1>23 DEF PollShutdown, ShutDown, WriteUnchanged, read_vars, Offered, Least, ToWrite
<1>24. CASE ShutdownPending
  BY <1>24 DEF ShutdownPending, Sent, Registered, WriteUnchanged, read_vars, Offered, Least,
     ToWrite
<1>25. CASE SendTrailers
  BY <1>25 DEF SendTrailers, WriteUnchanged, read_vars, Offered, Least, ToWrite
<1>26. CASE CloseTimeout
  BY <1>26 DEF CloseTimeout, WriteUnchanged, read_vars, Offered, Least, ToWrite
<1>27. CASE UNCHANGED vars
  BY <1>27 DEF vars, peer_vars, read_vars, write_vars, send_vars, Offered, Least, ToWrite
<1>28. QED
  BY <1>1, <1>2, <1>3, <1>4, <1>5, <1>6, <1>7, <1>8, <1>9, <1>10, <1>11, <1>12, <1>13, <1>14,
     <1>15, <1>16, <1>17, <1>18, <1>19, <1>20, <1>21, <1>22, <1>23, <1>24, <1>25, <1>26, <1>27
     DEF Next, Peer, Read, Send, Write

\* A call runs in its stage.
LEMMA NextCallStage ==
  ASSUME CallStage, Flags, [Next]_vars
  PROVE  CallStage'
<1>1. CASE SendByte
  BY <1>1 DEF SendByte, read_vars, write_vars, send_vars, CallStage, Flags, SentAll, Blocked
<1>2. CASE Grant
  BY <1>2 DEF Grant, read_vars, send_vars, CallStage, Flags, SentAll, Blocked
<1>3. ASSUME NEW how \in {"end", "cancel", "error"}, EndStream(how) PROVE CallStage'
  BY <1>3 DEF EndStream, read_vars, send_vars, CallStage, Flags, SentAll, Blocked
<1>4. CASE PollRead
  BY <1>4 DEF PollRead, ReadUnchanged, read_vars, write_vars, send_vars, CallStage, Flags,
     SentAll, Blocked
<1>5. CASE ReadOversized
  BY <1>5 DEF ReadOversized, ReadFails, ReadUnchanged, write_vars, send_vars, CallStage, Flags,
     SentAll, Blocked
<1>6. CASE ReadInvalid
  BY <1>6 DEF ReadInvalid, ReadFails, ReadUnchanged, write_vars, send_vars, CallStage, Flags,
     SentAll, Blocked
<1>7. CASE ReadEnds
  BY <1>7 DEF ReadEnds, NeedsData, ReadUnchanged, write_vars, send_vars, CallStage, Flags,
     SentAll, Blocked
<1>8. CASE ReadPending
  BY <1>8 DEF ReadPending, NeedsData, ReadUnchanged, read_vars, write_vars, send_vars,
     CallStage, Flags, SentAll, Blocked
<1>9. ASSUME NEW room \in 1 .. MaxRoom, ReadBuffered(room) PROVE CallStage'
  BY <1>9 DEF ReadBuffered, ReadUnchanged, write_vars, send_vars, CallStage, Flags, SentAll,
     Blocked
<1>10. ASSUME NEW room \in 1 .. MaxRoom, ParseFrame(room) PROVE CallStage'
  BY <1>10 DEF ParseFrame, ReadUnchanged, write_vars, send_vars, CallStage, Flags, SentAll,
     Blocked
<1>11. ASSUME NEW n \in 1 .. Window, PollData(n) PROVE CallStage'
  BY <1>11 DEF PollData, NeedsData, ReadUnchanged, write_vars, send_vars, CallStage, Flags,
     SentAll, Blocked
<1>12. CASE NextFrame
  BY <1>12 DEF NextFrame, Sending, SendUnchanged, read_vars, CallStage, Flags, SentAll, Blocked
<1>13. CASE OpenStream
  BY <1>13 DEF OpenStream, Sending, SendUnchanged, read_vars, CallStage, Flags, SentAll, Blocked
<1>14. CASE SendData
  BY <1>14 DEF SendData, Sending, SendUnchanged, read_vars, CallStage, Flags, SentAll, Blocked
<1>15. CASE SendFails
  BY <1>15 DEF SendFails, Sending, SendUnchanged, read_vars, send_vars, CallStage, Flags,
     SentAll, Blocked
<1>16. ASSUME NEW n \in 1 .. MaxWritten, PollWrite(n) PROVE CallStage'
  BY <1>16 DEF PollWrite, WriteUnchanged, read_vars, CallStage, Flags, SentAll, Blocked
<1>17. CASE WriteRefused
  BY <1>17 DEF WriteRefused, Sent, Registered, WriteUnchanged, read_vars, CallStage, Flags,
     SentAll, Blocked
<1>18. CASE WritePushed
  BY <1>18 DEF WritePushed, Sent, Registered, WriteUnchanged, read_vars, CallStage, Flags,
     SentAll, Blocked
<1>19. CASE WriteReady
  BY <1>19 DEF WriteReady, Sent, Registered, WriteUnchanged, read_vars, CallStage, Flags,
     SentAll, Blocked
<1>20. CASE PollFlush
  BY <1>20 DEF PollFlush, WriteUnchanged, read_vars, CallStage, Flags, SentAll, Blocked
<1>21. CASE FlushReturns
  BY <1>21 DEF FlushReturns, Sent, Registered, WriteUnchanged, read_vars, CallStage, Flags,
     SentAll, Blocked
<1>22. CASE StartClose
  BY <1>22 DEF StartClose, WriteUnchanged, read_vars, CallStage, Flags, SentAll, Blocked
<1>23. CASE PollShutdown
  BY <1>23 DEF PollShutdown, ShutDown, WriteUnchanged, read_vars, CallStage, Flags, SentAll,
     Blocked
<1>24. CASE ShutdownPending
  BY <1>24 DEF ShutdownPending, Sent, Registered, WriteUnchanged, read_vars, CallStage, Flags,
     SentAll, Blocked
<1>25. CASE SendTrailers
  BY <1>25 DEF SendTrailers, WriteUnchanged, read_vars, CallStage, Flags, SentAll, Blocked
<1>26. CASE CloseTimeout
  BY <1>26 DEF CloseTimeout, WriteUnchanged, read_vars, CallStage, Flags, SentAll, Blocked
<1>27. CASE UNCHANGED vars
  BY <1>27 DEF vars, peer_vars, read_vars, write_vars, send_vars, CallStage, Flags, SentAll,
     Blocked
<1>28. QED
  BY <1>1, <1>2, <1>3, <1>4, <1>5, <1>6, <1>7, <1>8, <1>9, <1>10, <1>11, <1>12, <1>13, <1>14,
     <1>15, <1>16, <1>17, <1>18, <1>19, <1>20, <1>21, <1>22, <1>23, <1>24, <1>25, <1>26, <1>27
     DEF Next, Peer, Read, Send, Write

\* A call that waits will be woken.
LEMMA NextWaiting ==
  ASSUME Waiting, Flags, SendInv, [Next]_vars
  PROVE  Waiting'
<1> USE SizesAssumption
<1>1. CASE SendByte
  BY <1>1 DEF SendByte, read_vars, write_vars, send_vars, Waiting, Flags, Reset, SentAll, Blocked
<1>2. CASE Grant
  BY <1>2 DEF Grant, read_vars, send_vars, Waiting, Flags, Reset, SentAll, Blocked
<1>3. ASSUME NEW how \in {"end", "cancel", "error"}, EndStream(how) PROVE Waiting'
  BY <1>3 DEF EndStream, read_vars, send_vars, Waiting, Flags, Reset, SentAll, Blocked
<1>4. CASE PollRead
  BY <1>4 DEF PollRead, ReadUnchanged, read_vars, write_vars, send_vars, Waiting, Flags, Reset,
     SentAll, Blocked
<1>5. CASE ReadOversized
  BY <1>5 DEF ReadOversized, ReadFails, ReadUnchanged, write_vars, send_vars, Waiting, Flags,
     Reset, SentAll, Blocked
<1>6. CASE ReadInvalid
  BY <1>6 DEF ReadInvalid, ReadFails, ReadUnchanged, write_vars, send_vars, Waiting, Flags,
     Reset, SentAll, Blocked
<1>7. CASE ReadEnds
  BY <1>7 DEF ReadEnds, NeedsData, ReadUnchanged, write_vars, send_vars, Waiting, Flags, Reset,
     SentAll, Blocked
<1>8. CASE ReadPending
  BY <1>8 DEF ReadPending, NeedsData, ReadUnchanged, read_vars, write_vars, send_vars, Waiting,
     Flags, Reset, SentAll, Blocked
<1>9. ASSUME NEW room \in 1 .. MaxRoom, ReadBuffered(room) PROVE Waiting'
  BY <1>9 DEF ReadBuffered, ReadUnchanged, write_vars, send_vars, Waiting, Flags, Reset,
     SentAll, Blocked
<1>10. ASSUME NEW room \in 1 .. MaxRoom, ParseFrame(room) PROVE Waiting'
  BY <1>10 DEF ParseFrame, ReadUnchanged, write_vars, send_vars, Waiting, Flags, Reset, SentAll,
     Blocked
<1>11. ASSUME NEW n \in 1 .. Window, PollData(n) PROVE Waiting'
  BY <1>11 DEF PollData, NeedsData, ReadUnchanged, write_vars, send_vars, Waiting, Flags, Reset,
     SentAll, Blocked
<1>12. CASE NextFrame
  BY <1>12 DEF NextFrame, Sending, SendUnchanged, read_vars, Waiting, Flags, Reset, SentAll,
     Blocked
<1>13. CASE OpenStream
  BY <1>13 DEF OpenStream, Sending, SendUnchanged, read_vars, Waiting, Flags, Reset, SentAll,
     Blocked
<1>14. CASE SendData
  BY <1>14 DEF SendData, Sending, SendUnchanged, read_vars, Waiting, Flags, Reset, SentAll,
     Blocked
<1>15. CASE SendFails
  BY <1>15 DEF SendFails, Sending, SendUnchanged, read_vars, send_vars, Waiting, Flags, Reset,
     SentAll, Blocked
<1>16. ASSUME NEW n \in 1 .. MaxWritten, PollWrite(n) PROVE Waiting'
  BY <1>16 DEF PollWrite, WriteUnchanged, read_vars, Waiting, Flags, Reset, SentAll, Blocked
<1>17. CASE WriteRefused
  <2>1. ~SentAll
    <3>1. SUFFICES ASSUME current_frame = <<>>, send_queue = <<>> PROVE FALSE
      BY DEF SentAll
    <3>2. FlattenSeq(<<>>) = <<>> /\ Len(<<>>) = 0
      BY DEF FlattenSeq
    <3>3. send_queue_bytes = Len(<<>>) + Len(<<>>)
      BY <3>1, <3>2 DEF SendInv, Counted
    <3>4. QED
      BY <1>17, <3>2, <3>3 DEF WriteRefused
  <2>2. Blocked /\ op' = "idle" /\ waker' = (waker \/ Blocked)
    BY <1>17, <2>1 DEF WriteRefused, Sent, Registered
  <2>3. waker'
    BY <2>2, Zenon
  <2>4. QED
    BY <2>2, <2>3 DEF Waiting
<1>18. CASE WritePushed
  BY <1>18 DEF WritePushed, Sent, Registered, WriteUnchanged, read_vars, Waiting, Flags, Reset,
     SentAll, Blocked
<1>19. CASE WriteReady
  BY <1>19 DEF WriteReady, Sent, Registered, WriteUnchanged, read_vars, Waiting, Flags, Reset,
     SentAll, Blocked
<1>20. CASE PollFlush
  BY <1>20 DEF PollFlush, WriteUnchanged, read_vars, Waiting, Flags, Reset, SentAll, Blocked
<1>21. CASE FlushReturns
  BY <1>21 DEF FlushReturns, Sent, Registered, WriteUnchanged, read_vars, Waiting, Flags, Reset,
     SentAll, Blocked
<1>22. CASE StartClose
  BY <1>22 DEF StartClose, WriteUnchanged, read_vars, Waiting, Flags, Reset, SentAll, Blocked
<1>23. CASE PollShutdown
  BY <1>23 DEF PollShutdown, ShutDown, WriteUnchanged, read_vars, Waiting, Flags, Reset,
     SentAll, Blocked
<1>24. CASE ShutdownPending
  BY <1>24 DEF ShutdownPending, Sent, Registered, WriteUnchanged, read_vars, Waiting, Flags,
     Reset, SentAll, Blocked
<1>25. CASE SendTrailers
  BY <1>25 DEF SendTrailers, WriteUnchanged, read_vars, Waiting, Flags, Reset, SentAll, Blocked
<1>26. CASE CloseTimeout
  BY <1>26 DEF CloseTimeout, WriteUnchanged, read_vars, Waiting, Flags, Reset, SentAll, Blocked
<1>27. CASE UNCHANGED vars
  BY <1>27 DEF vars, peer_vars, read_vars, write_vars, send_vars, Waiting, Flags, Reset,
     SentAll, Blocked
<1>28. QED
  BY <1>1, <1>2, <1>3, <1>4, <1>5, <1>6, <1>7, <1>8, <1>9, <1>10, <1>11, <1>12, <1>13, <1>14,
     <1>15, <1>16, <1>17, <1>18, <1>19, <1>20, <1>21, <1>22, <1>23, <1>24, <1>25, <1>26, <1>27
     DEF Next, Peer, Read, Send, Write

\* Headers precede the first frame.
LEMMA NextOpened ==
  ASSUME Opened, Flags, Queued, [Next]_vars
  PROVE  Opened'
<1> USE SizesAssumption
<1>1. CASE SendByte
  BY <1>1 DEF SendByte, read_vars, write_vars, send_vars, Opened, Flags
<1>2. CASE Grant
  BY <1>2 DEF Grant, read_vars, send_vars, Opened, Flags
<1>3. ASSUME NEW how \in {"end", "cancel", "error"}, EndStream(how) PROVE Opened'
  BY <1>3 DEF EndStream, read_vars, send_vars, Opened, Flags
<1>4. CASE PollRead
  BY <1>4 DEF PollRead, ReadUnchanged, read_vars, write_vars, send_vars, Opened, Flags
<1>5. CASE ReadOversized
  BY <1>5 DEF ReadOversized, ReadFails, ReadUnchanged, write_vars, send_vars, Opened, Flags
<1>6. CASE ReadInvalid
  BY <1>6 DEF ReadInvalid, ReadFails, ReadUnchanged, write_vars, send_vars, Opened, Flags
<1>7. CASE ReadEnds
  BY <1>7 DEF ReadEnds, NeedsData, ReadUnchanged, write_vars, send_vars, Opened, Flags
<1>8. CASE ReadPending
  BY <1>8 DEF ReadPending, NeedsData, ReadUnchanged, read_vars, write_vars, send_vars, Opened,
     Flags
<1>9. ASSUME NEW room \in 1 .. MaxRoom, ReadBuffered(room) PROVE Opened'
  BY <1>9 DEF ReadBuffered, ReadUnchanged, write_vars, send_vars, Opened, Flags
<1>10. ASSUME NEW room \in 1 .. MaxRoom, ParseFrame(room) PROVE Opened'
  BY <1>10 DEF ParseFrame, ReadUnchanged, write_vars, send_vars, Opened, Flags
<1>11. ASSUME NEW n \in 1 .. Window, PollData(n) PROVE Opened'
  BY <1>11 DEF PollData, NeedsData, ReadUnchanged, write_vars, send_vars, Opened, Flags
<1>12. CASE NextFrame
  BY <1>12 DEF NextFrame, Sending, SendUnchanged, read_vars, Opened, Flags
<1>13. CASE OpenStream
  BY <1>13 DEF OpenStream, Sending, SendUnchanged, read_vars, Opened, Flags
<1>14. CASE SendData
  <2>1. out' # <<>>
    BY <1>14, SendDataMoves DEF Flags
  <2>2. responder = "open" /\ UNCHANGED responder
    BY <1>14 DEF SendData
  <2>3. QED
    BY <2>1, <2>2 DEF Opened
<1>15. CASE SendFails
  BY <1>15 DEF SendFails, Sending, SendUnchanged, read_vars, send_vars, Opened, Flags
<1>16. ASSUME NEW n \in 1 .. MaxWritten, PollWrite(n) PROVE Opened'
  BY <1>16 DEF PollWrite, WriteUnchanged, read_vars, Opened, Flags
<1>17. CASE WriteRefused
  BY <1>17 DEF WriteRefused, Sent, Registered, WriteUnchanged, read_vars, Opened, Flags
<1>18. CASE WritePushed
  BY <1>18 DEF WritePushed, Sent, Registered, WriteUnchanged, read_vars, Opened, Flags
<1>19. CASE WriteReady
  BY <1>19 DEF WriteReady, Sent, Registered, WriteUnchanged, read_vars, Opened, Flags
<1>20. CASE PollFlush
  BY <1>20 DEF PollFlush, WriteUnchanged, read_vars, Opened, Flags
<1>21. CASE FlushReturns
  BY <1>21 DEF FlushReturns, Sent, Registered, WriteUnchanged, read_vars, Opened, Flags
<1>22. CASE StartClose
  BY <1>22 DEF StartClose, WriteUnchanged, read_vars, Opened, Flags
<1>23. CASE PollShutdown
  BY <1>23 DEF PollShutdown, ShutDown, WriteUnchanged, read_vars, Opened, Flags
<1>24. CASE ShutdownPending
  BY <1>24 DEF ShutdownPending, Sent, Registered, WriteUnchanged, read_vars, Opened, Flags
<1>25. CASE SendTrailers
  BY <1>25 DEF SendTrailers, WriteUnchanged, read_vars, Opened, Flags
<1>26. CASE CloseTimeout
  BY <1>26 DEF CloseTimeout, WriteUnchanged, read_vars, Opened, Flags
<1>27. CASE UNCHANGED vars
  BY <1>27 DEF vars, peer_vars, read_vars, write_vars, send_vars, Opened, Flags
<1>28. QED
  BY <1>1, <1>2, <1>3, <1>4, <1>5, <1>6, <1>7, <1>8, <1>9, <1>10, <1>11, <1>12, <1>13, <1>14,
     <1>15, <1>16, <1>17, <1>18, <1>19, <1>20, <1>21, <1>22, <1>23, <1>24, <1>25, <1>26, <1>27
     DEF Next, Peer, Read, Send, Write

\* The trailers come last.
LEMMA NextClosed ==
  ASSUME Closed, Flags, CallStage, Opened, [Next]_vars
  PROVE  Closed'
<1>1. CASE SendByte
  BY <1>1 DEF SendByte, read_vars, write_vars, send_vars, Closed, Flags, CallStage, Opened,
     SentAll, Reset
<1>2. CASE Grant
  BY <1>2 DEF Grant, read_vars, send_vars, Closed, Flags, CallStage, Opened, SentAll, Reset
<1>3. ASSUME NEW how \in {"end", "cancel", "error"}, EndStream(how) PROVE Closed'
  BY <1>3 DEF EndStream, read_vars, send_vars, Closed, Flags, CallStage, Opened, SentAll, Reset
<1>4. CASE PollRead
  BY <1>4 DEF PollRead, ReadUnchanged, read_vars, write_vars, send_vars, Closed, Flags,
     CallStage, Opened, SentAll, Reset
<1>5. CASE ReadOversized
  BY <1>5 DEF ReadOversized, ReadFails, ReadUnchanged, write_vars, send_vars, Closed, Flags,
     CallStage, Opened, SentAll, Reset
<1>6. CASE ReadInvalid
  BY <1>6 DEF ReadInvalid, ReadFails, ReadUnchanged, write_vars, send_vars, Closed, Flags,
     CallStage, Opened, SentAll, Reset
<1>7. CASE ReadEnds
  BY <1>7 DEF ReadEnds, NeedsData, ReadUnchanged, write_vars, send_vars, Closed, Flags,
     CallStage, Opened, SentAll, Reset
<1>8. CASE ReadPending
  BY <1>8 DEF ReadPending, NeedsData, ReadUnchanged, read_vars, write_vars, send_vars, Closed,
     Flags, CallStage, Opened, SentAll, Reset
<1>9. ASSUME NEW room \in 1 .. MaxRoom, ReadBuffered(room) PROVE Closed'
  BY <1>9 DEF ReadBuffered, ReadUnchanged, write_vars, send_vars, Closed, Flags, CallStage,
     Opened, SentAll, Reset
<1>10. ASSUME NEW room \in 1 .. MaxRoom, ParseFrame(room) PROVE Closed'
  BY <1>10 DEF ParseFrame, ReadUnchanged, write_vars, send_vars, Closed, Flags, CallStage,
     Opened, SentAll, Reset
<1>11. ASSUME NEW n \in 1 .. Window, PollData(n) PROVE Closed'
  BY <1>11 DEF PollData, NeedsData, ReadUnchanged, write_vars, send_vars, Closed, Flags,
     CallStage, Opened, SentAll, Reset
<1>12. CASE NextFrame
  BY <1>12 DEF NextFrame, Sending, SendUnchanged, read_vars, Closed, Flags, CallStage, Opened,
     SentAll, Reset
<1>13. CASE OpenStream
  BY <1>13 DEF OpenStream, Sending, SendUnchanged, read_vars, Closed, Flags, CallStage, Opened,
     SentAll, Reset
<1>14. CASE SendData
  BY <1>14 DEF SendData, Sending, SendUnchanged, read_vars, Closed, Flags, CallStage, Opened,
     SentAll, Reset
<1>15. CASE SendFails
  BY <1>15 DEF SendFails, Sending, SendUnchanged, read_vars, send_vars, Closed, Flags,
     CallStage, Opened, SentAll, Reset
<1>16. ASSUME NEW n \in 1 .. MaxWritten, PollWrite(n) PROVE Closed'
  BY <1>16 DEF PollWrite, WriteUnchanged, read_vars, Closed, Flags, CallStage, Opened, SentAll,
     Reset
<1>17. CASE WriteRefused
  BY <1>17 DEF WriteRefused, Sent, Registered, WriteUnchanged, read_vars, Closed, Flags,
     CallStage, Opened, SentAll, Reset
<1>18. CASE WritePushed
  BY <1>18 DEF WritePushed, Sent, Registered, WriteUnchanged, read_vars, Closed, Flags,
     CallStage, Opened, SentAll, Reset
<1>19. CASE WriteReady
  BY <1>19 DEF WriteReady, Sent, Registered, WriteUnchanged, read_vars, Closed, Flags,
     CallStage, Opened, SentAll, Reset
<1>20. CASE PollFlush
  BY <1>20 DEF PollFlush, WriteUnchanged, read_vars, Closed, Flags, CallStage, Opened, SentAll,
     Reset
<1>21. CASE FlushReturns
  BY <1>21 DEF FlushReturns, Sent, Registered, WriteUnchanged, read_vars, Closed, Flags,
     CallStage, Opened, SentAll, Reset
<1>22. CASE StartClose
  BY <1>22 DEF StartClose, WriteUnchanged, read_vars, Closed, Flags, CallStage, Opened, SentAll,
     Reset
<1>23. CASE PollShutdown
  BY <1>23 DEF PollShutdown, ShutDown, WriteUnchanged, read_vars, Closed, Flags, CallStage,
     Opened, SentAll, Reset
<1>24. CASE ShutdownPending
  BY <1>24 DEF ShutdownPending, Sent, Registered, WriteUnchanged, read_vars, Closed, Flags,
     CallStage, Opened, SentAll, Reset
<1>25. CASE SendTrailers
  BY <1>25 DEF SendTrailers, WriteUnchanged, read_vars, Closed, Flags, CallStage, Opened,
     SentAll, Reset
<1>26. CASE CloseTimeout
  BY <1>26 DEF CloseTimeout, WriteUnchanged, read_vars, Closed, Flags, CallStage, Opened,
     SentAll, Reset
<1>27. CASE UNCHANGED vars
  BY <1>27 DEF vars, peer_vars, read_vars, write_vars, send_vars, Closed, Flags, CallStage,
     Opened, SentAll, Reset
<1>28. QED
  BY <1>1, <1>2, <1>3, <1>4, <1>5, <1>6, <1>7, <1>8, <1>9, <1>10, <1>11, <1>12, <1>13, <1>14,
     <1>15, <1>16, <1>17, <1>18, <1>19, <1>20, <1>21, <1>22, <1>23, <1>24, <1>25, <1>26, <1>27
     DEF Next, Peer, Read, Send, Write

-----------------------------------------------------------------------------
(* The theorems.                                                           *)

\* A stream starts with the whole window, nothing queued and no call.
LEMMA InitStreamInv == Init => StreamInv
<1> SUFFICES ASSUME Init PROVE StreamInv
  OBVIOUS
<1> USE SizesAssumption, WindowAssumption
<1>1. Flags /\ Offered /\ CallStage /\ Waiting /\ Opened /\ Closed
  <2>1. capacity \in 0 .. 1
    BY DEF Init
  <2>2. Flags
    BY <2>1, Zenon DEF Init, Flags
  <2>3. Offered
    BY DEF Init, Offered
  <2>4. CallStage
    BY DEF Init, CallStage
  <2>5. Waiting
    BY DEF Init, Waiting
  <2>6. Opened
    BY DEF Init, Opened
  <2>7. Closed
    BY DEF Init, Closed
  <2>8. QED
    BY <2>2, <2>3, <2>4, <2>5, <2>6, <2>7
<1>2. FlattenSeq(<<>>) = <<>>
  BY DEF FlattenSeq
<1>3. Queued
  <2>1. Framed(<<>>)
    BY DEF Framed
  <2>2. QED
    BY <2>1 DEF Init, Queued
<1>4. Counted
  BY <1>2 DEF Init, Counted
<1>5. Conserved
  <2>1. Rest = <<>>
    BY DEF Init, Rest
  <2>2. <<>> \o <<>> \o <<>> = <<>>
    OBVIOUS
  <2>3. out = <<>> /\ send_queue = <<>> /\ frames = <<>>
    BY DEF Init
  <2>4. QED
    BY <1>2, <2>1, <2>2, <2>3, Zenon DEF Conserved
<1>6. Receiving
  <2>1. script \in Scripts /\ script \in Seq(Frame) /\ parsed = 0 /\ wire = 0 /\ polled = 0
        /\ read_pending = 0 /\ pending_release_capacity = 0 /\ credit = Window
    BY ScriptsAssumption DEF Init
  <2>2. Len(script) \in Nat /\ 0 \in 0 .. Len(script) /\ Len(script) \in 0 .. Len(script)
    BY <2>1
  <2>3. EndsOf[script][0] = 0
    BY <2>1, <2>2 DEF EndsOf
  <2>4. EndOf[0] = 0 /\ ScriptLen \in Nat
    BY <2>1, <2>2, <2>3, EndIs DEF EndOf, ScriptLen
  <2>5. QED
    BY <2>1, <2>2, <2>4 DEF Receiving
<1>7. QED
  BY <1>1, <1>3, <1>4, <1>5, <1>6 DEF StreamInv

\* Every step preserves the parts of the invariant.
LEMMA NextStreamInv == StreamInv /\ [Next]_vars => StreamInv'
BY NextFlags, NextReceiving, NextOffered, NextSendInv, NextCallStage, NextWaiting, NextOpened,
   NextClosed DEF StreamInv, SendInv

\* Every reachable state satisfies the invariant.
LEMMA StreamInvHolds == Spec => []StreamInv
BY InitStreamInv, NextStreamInv, PTL DEF Spec

(* For every script, window and queue size, the window and the send queue  *)
(* are accounted for to the byte, and a reader never starves               *)
(* (transport.rs:129-134, 293-318, 349-357, 404).                          *)
THEOREM FlowIsControlled == Spec => []FlowControl
<1>1. ASSUME StreamInv PROVE FlowControl
  <2> USE <1>1, SizesAssumption, WindowAssumption
  <2>1. TypeOK
    <3>1. current_frame_offset \in 0 .. MaxMessage
      <4>1. CASE current_frame = <<>>
        BY <4>1 DEF StreamInv, Queued
      <4>2. CASE current_frame # <<>>
        BY <4>2 DEF StreamInv, Queued, Framed
      <4>3. QED
        BY <4>1, <4>2
    <3>2. send_queue_bytes \in Nat
      BY FlatBytes DEF StreamInv, Queued, Counted, Framed
    <3>3. want \in 0 .. MaxWritten /\ accepted \in 0 .. MaxWritten
      BY DEF StreamInv, Offered
    <3>4. ScriptLen \in Nat
      BY ParsedEnd DEF StreamInv
    <3>5. script \in Scripts /\ parsed \in 0 .. Len(script) /\ wire \in 0 .. ScriptLen
          /\ polled \in 0 .. wire /\ credit \in 0 .. Window
      <4>1. script \in Scripts /\ parsed \in 0 .. Len(script)
        BY DEF StreamInv, Receiving
      <4>2. /\ wire \in Nat /\ polled \in Nat /\ read_pending \in Nat /\ credit \in Nat
            /\ wire <= ScriptLen /\ polled <= wire
            /\ credit + (wire - polled) + read_pending = Window
        BY DEF StreamInv, Receiving
      <4> DEFINE L == ScriptLen
      <4>3. L \in Nat /\ wire <= L
        BY <3>4, <4>2
      <4> HIDE DEF L
      <4>4. wire \in 0 .. L /\ polled \in 0 .. wire
        BY <4>2, <4>3
      <4>5. credit <= Window
        BY <4>2
      <4>6. credit \in 0 .. Window
        BY <4>2, <4>5
      <4>7. QED
        BY <4>1, <4>4, <4>6 DEF L
    <3>6. read_pending \in 0 .. polled
      <4> DEFINE E == EndOf[parsed]
      <4>1. E \in Nat /\ polled = E + read_pending /\ read_pending \in Nat /\ polled \in Nat
        BY ParsedEnd DEF StreamInv, Receiving
      <4> HIDE DEF E
      <4>2. QED
        BY <4>1
    <3>7. QED
      BY <3>1, <3>2, <3>3, <3>5, <3>6 DEF StreamInv, Flags, TypeOK
  <2>2. credit + (wire - polled) + pending_release_capacity = Window
        /\ pending_release_capacity = read_pending
    BY DEF StreamInv, Receiving
  <2>3. ASSUME NeedsData, polled = wire, wire < ScriptLen PROVE credit > 0
    <3> DEFINE E == EndOf[parsed]
    <3>1. /\ script \in Seq(Frame) /\ Len(script) \in Nat /\ parsed \in 0 .. Len(script)
          /\ E \in Nat /\ ScriptLen \in Nat /\ ScriptLen = EndOf[Len(script)]
          /\ polled = E + read_pending /\ read_pending \in Nat /\ wire \in Nat /\ credit \in Nat
          /\ credit + (wire - polled) + read_pending = Window
      BY ParsedEnd DEF StreamInv, Receiving, ScriptLen
    <3>2. parsed # Len(script)
      <4>1. SUFFICES ASSUME parsed = Len(script) PROVE FALSE
        OBVIOUS
      <4>2. ScriptLen = E
        BY <3>1, <4>1
      <4> HIDE DEF E
      <4>3. QED
        BY <2>3, <3>1, <4>2
    <3>3. parsed + 1 \in 1 .. Len(script)
      BY <3>1, <3>2
    <3>4. Head1 \in Frame
      BY <3>1, <3>3 DEF Head1
    <3> DEFINE b == Len(Head1.body)
    <3>5. b \in Nat
      BY <3>4 DEF Frame
    <3>6. \/ read_pending < HeaderLen
          \/ b <= MaxFrameLen /\ read_pending < HeaderLen + b
      <4>1. ~Oversized /\ ~Whole
        BY <2>3 DEF NeedsData
      <4>2. HasHeader <=> read_pending >= HeaderLen
        BY DEF HasHeader
      <4>3. ~(HasHeader /\ b > MaxFrameLen) /\ ~(HasHeader /\ read_pending >= HeaderLen + b)
        BY <4>1, Zenon DEF Oversized, Whole, FrameLen
      <4> HIDE DEF b
      <4>4. CASE HasHeader
        <5>1. ~(b > MaxFrameLen) /\ ~(read_pending >= HeaderLen + b)
          BY <4>3, <4>4, Zenon
        <5>2. HeaderLen \in Nat /\ MaxFrameLen \in Nat /\ read_pending \in Nat /\ b \in Nat
          BY <3>1, <3>5
        <5>3. b <= MaxFrameLen
          BY <5>1, <5>2
        <5>4. read_pending < HeaderLen + b
          BY <5>1, <5>2
        <5>5. QED
          BY <5>3, <5>4, Zenon
      <4>5. CASE ~HasHeader
        <5>1. ~(read_pending >= HeaderLen)
          BY <4>2, <4>5, Zenon
        <5>2. QED
          BY <3>1, <5>1
      <4>6. QED
        BY <4>4, <4>5, Zenon
    <3> HIDE DEF b, E
    <3>7. QED
      BY <2>3, <3>1, <3>5, <3>6
  <2>4. LET rest == SubSeq(current_frame, current_frame_offset + 1, Len(current_frame))
        IN  out \o rest \o FlattenSeq(send_queue) = FlattenSeq(frames)
    BY DEF StreamInv, Conserved, Rest
  <2>5. send_queue_bytes = Len(FlattenSeq(send_queue)) + Len(current_frame)
        /\ send_queue_bytes < MaxQueue + MaxMessage + 1
    BY DEF StreamInv, Counted
  <2>6. QED
    BY <2>1, <2>2, <2>3, <2>4, <2>5, Zenon DEF FlowControl
<1>2. QED
  BY <1>1, StreamInvHolds, PTL

(* A call that returned Pending has left its waker, or need not wait       *)
(* (transport.rs:198-224, 402-406).                                        *)
THEOREM NoWakeupLost == Spec => []NoLostWakeup
<1>1. StreamInv => NoLostWakeup
  BY DEF StreamInv, Waiting, NoLostWakeup
<1>2. QED
  BY <1>1, StreamInvHolds, PTL

(* A response ends with its trailers behind everything that was written,   *)
(* unless the stream was reset (transport.rs:423-469).                     *)
THEOREM TrailersAreComplete == Spec => []TrailersComplete
<1>1. StreamInv => TrailersComplete
  BY DEF StreamInv, Flags, Opened, Closed, TrailersComplete
<1>2. QED
  BY <1>1, StreamInvHolds, PTL

-----------------------------------------------------------------------------
(* The data of the client's frames.                                        *)

\* The payload of a frame is in order, and on the wire where the frame is.
LEMMA PayloadIs ==
  ASSUME NEW f \in Frame, NEW start \in Nat
  PROVE  /\ PayloadOf(f, start) \in Seq(Nat) /\ Rising(PayloadOf(f, start))
         /\ Between(PayloadOf(f, start), start, start + FrameLen(f))
<1> DEFINE n == Len(f.body)
           h == start + HeaderLen
           c == [i \in 1 .. n |-> IF f.body[i] = "data" THEN <<start + HeaderLen + i>> ELSE <<>>]
           E == [i \in 0 .. n |-> h + i]
<1>1. n \in Nat /\ HeaderLen \in Nat /\ h \in Nat
  BY SizesAssumption DEF Frame
<1>2. /\ c \in Seq(Seq(Nat)) /\ Len(c) = n /\ E \in [0 .. n -> Nat]
      /\ \A i \in 1 .. n : c[i] = <<h + i>> \/ c[i] = <<>>
  <2>1. \A i \in 1 .. n : start + HeaderLen + i \in Nat /\ start + HeaderLen + i = h + i
    BY <1>1
  <2>2. \A i \in 1 .. n : <<start + HeaderLen + i>> \in Seq(Nat)
    BY <2>1
  <2>3. c \in [1 .. n -> Seq(Nat)]
    BY <2>2
  <2>4. E \in [0 .. n -> Nat]
    BY <1>1
  <2>5. \A i \in 1 .. n : c[i] = <<h + i>> \/ c[i] = <<>>
    BY <2>1
  <2>6. QED
    BY <1>1, <2>3, <2>4, <2>5
<1>3. \A i \in 0 .. n : E[i] = h + i
  OBVIOUS
<1>4. PayloadOf(f, start) = FlattenSeq(c)
  BY DEF PayloadOf
<1> HIDE DEF c, E, h, n
<1>5. Layers(c, E)
  <2>1. ASSUME NEW i \in 1 .. n
        PROVE  E[i - 1] <= E[i] /\ Rising(c[i]) /\ Between(c[i], E[i - 1], E[i])
    <3>1. i - 1 \in 0 .. n /\ i \in 0 .. n
      BY <1>1
    <3>2. E[i - 1] = h + (i - 1) /\ E[i] = h + i
      BY <1>3, <3>1
    <3>3. E[i - 1] < h + i /\ h + i <= E[i] /\ E[i - 1] <= E[i]
      BY <1>1, <3>2
    <3>4. CASE c[i] = <<h + i>>
      BY <3>3, <3>4 DEF Rising, Between
    <3>5. CASE c[i] = <<>>
      BY <3>3, <3>5 DEF Rising, Between
    <3>6. QED
      BY <1>2, <3>4, <3>5
  <2>2. QED
    BY <1>2, <2>1 DEF Layers
<1>6. PICK F \in [0 .. n -> Seq(Nat)] : Joins(c, F)
  BY <1>2, JoinsExist
<1>7. FlattenSeq(c) = F[n]
  BY <1>2, <1>6, FlattenIs
<1>8. n \in 0 .. n /\ 0 \in 0 .. n
  BY <1>1
<1>9. Rising(F[n]) /\ Between(F[n], E[0], E[n]) /\ F[n] \in Seq(Nat)
  BY <1>2, <1>5, <1>6, <1>8, LayersRise
<1>10. start <= E[0] /\ E[n] = start + FrameLen(f) /\ E[0] \in Nat
  BY <1>1, <1>3, <1>8 DEF h, FrameLen, n
<1> DEFINE p == F[n]
<1>11. Between(p, start, start + FrameLen(f))
  <2>1. ASSUME NEW i \in 1 .. Len(p) PROVE start < p[i] /\ p[i] <= start + FrameLen(f)
    <3>1. E[0] < p[i] /\ p[i] <= E[n]
      BY <1>9 DEF Between
    <3>2. p[i] \in Nat
      BY <1>9
    <3> HIDE DEF p
    <3>3. QED
      BY <1>10, <3>1, <3>2
  <2>2. QED
    BY <2>1 DEF Between
<1>12. QED
  BY <1>4, <1>7, <1>9, <1>11

\* Up to the end of a frame, the data of a script is that of the frames so far.
LEMMA DataIs ==
  ASSUME NEW s \in Scripts
  PROVE  /\ DataOf[s] \in Seq(Nat) /\ Rising(DataOf[s])
         /\ Only(DataOf[s], 0 .. EndsOf[s][0]) = <<>>
         /\ \A i \in 1 .. Len(s) :
              Only(DataOf[s], 0 .. EndsOf[s][i])
                = Cat(Only(DataOf[s], 0 .. EndsOf[s][i - 1]), PayloadOf(s[i], EndsOf[s][i - 1]))
<1> DEFINE n == Len(s)
           E == EndsOf[s]
           P == [i \in 1 .. n |-> PayloadOf(s[i], EndsOf[s][i - 1])]
<1>1. s \in Seq(Frame) /\ n \in Nat
  BY ScriptsAssumption
<1>2. E \in [0 .. n -> Nat]
  <2>1. \A i \in 0 .. n : E[i] \in Nat
    BY EndIs
  <2>2. E = [i \in 0 .. n |-> E[i]]
    BY DEF EndsOf
  <2>3. QED
    BY <2>1, <2>2
<1>3. ASSUME NEW i \in 1 .. n
      PROVE  /\ i - 1 \in 0 .. n /\ i \in 0 .. n /\ E[i - 1] <= E[i]
             /\ PayloadOf(s[i], E[i - 1]) \in Seq(Nat) /\ Rising(PayloadOf(s[i], E[i - 1]))
             /\ Between(PayloadOf(s[i], E[i - 1]), E[i - 1], E[i])
  <2>1. E[i - 1] \in Nat /\ s[i] \in Frame /\ FrameLen(s[i]) \in Nat /\ E[i] = E[i - 1] + FrameLen(s[i])
    BY EndStep
  <2>2. i - 1 \in 0 .. n /\ i \in 0 .. n
    BY <1>1
  <2> HIDE DEF E
  <2>3. E[i - 1] <= E[i]
    BY <2>1
  <2>4. QED
    BY <2>1, <2>2, <2>3, PayloadIs
<1>4. P \in Seq(Seq(Nat)) /\ Len(P) = n /\ \A i \in 1 .. n : P[i] = PayloadOf(s[i], E[i - 1])
  <2>1. P \in [1 .. n -> Seq(Nat)]
    BY <1>3
  <2>2. QED
    BY <1>1, <2>1
<1>5. DataOf[s] = FlattenSeq(P)
  BY DEF DataOf
<1> HIDE DEF P, E
<1>6. Layers(P, E)
  BY <1>3, <1>4 DEF Layers
<1>7. PICK F \in [0 .. n -> Seq(Nat)] : Joins(P, F)
  BY <1>4, JoinsExist
<1>8. DataOf[s] = F[n] /\ n \in 0 .. n /\ 0 \in 0 .. n
  BY <1>1, <1>4, <1>5, <1>7, FlattenIs
<1>9. \A i \in 0 .. n : Rising(F[i]) /\ Only(F[n], 0 .. E[i]) = F[i]
  <2> HIDE DEF n
  <2>1. \A i \in 0 .. n : Rising(F[i])
    BY <1>2, <1>4, <1>6, <1>7, LayersRise
  <2>2. \A i \in 0 .. n : Only(F[n], 0 .. E[i]) = F[i]
    BY <1>2, <1>4, <1>6, <1>7, LayersCut
  <2>3. QED
    BY <2>1, <2>2
<1>10. F[0] = <<>> /\ \A i \in 1 .. n : F[i] = Cat(F[i - 1], P[i])
  BY <1>4, <1>7 DEF Joins, Cat
<1>11. QED
  BY <1>3, <1>4, <1>7, <1>8, <1>9, <1>10 DEF E

-----------------------------------------------------------------------------
(* What the session has read.                                              *)

\* What was read and what is buffered is the data of the frames parsed, and a
\* frame is only looked for when nothing is buffered and reading has not ended.
Reading ==
  /\ delivered \in Seq(Nat) /\ read_buf \in Seq(Nat)
  /\ Cat(delivered, read_buf) = Only(DataOf[script], 0 .. EndOf[parsed])
  /\ op = "read" => read_buf = <<>> /\ read_end = "no"

\* The steps that hand out data or begin to read.
LEMMA ReadingSteps ==
  ASSUME [Next]_vars
  PROVE  \/ \E room \in 1 .. MaxRoom : ParseFrame(room) \/ ReadBuffered(room)
         \/ PollRead
         \/ /\ UNCHANGED <<script, parsed, delivered, read_buf>>
            /\ op' = "read" => op = "read" /\ read_end' = read_end
<1> USE DEF vars, peer_vars, read_vars
<1>1. CASE UNCHANGED vars
  BY <1>1
<1>2. CASE Peer
  BY <1>2 DEF Peer, SendByte, Grant, EndStream
<1>3. CASE Read
  BY <1>3 DEF Read, ReadUnchanged, ReadOversized, ReadInvalid, ReadFails, ReadEnds, ReadPending,
              PollData
<1>4. CASE Send
  BY <1>4 DEF Send, SendUnchanged, NextFrame, OpenStream, SendData, SendFails
<1>5. CASE Write
  BY <1>5 DEF Write, WriteUnchanged, PollWrite, WriteRefused, WritePushed, WriteReady, PollFlush,
              FlushReturns, StartClose, PollShutdown, ShutdownPending, SendTrailers, CloseTimeout
<1>6. QED
  BY <1>1, <1>2, <1>3, <1>4, <1>5 DEF Next

\* A read takes the front of a payload and leaves the rest.
LEMMA Cutting ==
  ASSUME NEW p \in Seq(Nat), NEW room \in 1 .. MaxRoom
  PROVE  /\ SubSeq(p, 1, Least(room, Len(p))) \in Seq(Nat) /\ Leftover(p, room) \in Seq(Nat)
         /\ Cat(SubSeq(p, 1, Least(room, Len(p))), Leftover(p, room)) = p
<1> DEFINE n == Least(room, Len(p))
<1>1. n \in Nat /\ n <= Len(p) /\ Len(p) \in Nat /\ room \in Nat
  BY DEF Least
<1>2. /\ SubSeq(p, 1, n) \in Seq(Nat) /\ SubSeq(p, n + 1, Len(p)) \in Seq(Nat)
      /\ Cat(SubSeq(p, 1, n), SubSeq(p, n + 1, Len(p))) = p
  BY <1>1, Halves
<1>3. Leftover(p, room) = SubSeq(p, n + 1, Len(p))
  <2>1. CASE room <= Len(p)
    BY <2>1 DEF Leftover, Least
  <2>2. CASE ~(room <= Len(p))
    <3>1. n = Len(p)
      BY <2>2 DEF Least
    <3>2. SubSeq(p, room + 1, Len(p)) = <<>> /\ SubSeq(p, Len(p) + 1, Len(p)) = <<>>
      BY <1>1, <2>2
    <3>3. QED
      BY <3>1, <3>2 DEF Leftover
  <2>3. QED
    BY <2>1, <2>2
<1>4. QED
  BY <1>2, <1>3

\* A read moves bytes from the payload to the session.
LEMMA Delivers ==
  ASSUME NEW p \in Seq(Nat), NEW room \in 1 .. MaxRoom, Deliver(p, room), delivered \in Seq(Nat)
  PROVE  /\ delivered' \in Seq(Nat) /\ read_buf' \in Seq(Nat)
         /\ Cat(delivered', read_buf') = Cat(delivered, p)
         /\ \E x \in Seq(Nat) : delivered' = Cat(delivered, x)
<1> DEFINE x == SubSeq(p, 1, Least(room, Len(p)))
           y == Leftover(p, room)
<1>1. x \in Seq(Nat) /\ y \in Seq(Nat) /\ Cat(x, y) = p
  BY Cutting
<1>2. delivered' = Cat(delivered, x) /\ read_buf' = y
  BY DEF Deliver, Cat
<1> HIDE DEF x, y
<1>3. Cat(delivered, x) \in Seq(Nat) /\ Cat(Cat(delivered, x), y) = Cat(delivered, Cat(x, y))
  BY <1>1, Grouped
<1>4. QED
  BY <1>1, <1>2, <1>3

\* A parsed frame is the next one of the script, and its payload is what the
\* data of the script goes on with.
LEMMA Parsing ==
  ASSUME Receiving, Reading, NEW room \in 1 .. MaxRoom, ParseFrame(room)
  PROVE  /\ parsed + 1 \in 1 .. Len(script) /\ script' = script /\ parsed' = parsed + 1
         /\ EndOf' = EndOf
         /\ PayloadOf(Head1, polled - read_pending) \in Seq(Nat)
         /\ Only(DataOf[script], 0 .. EndOf[parsed + 1])
              = Cat(delivered, PayloadOf(Head1, polled - read_pending))
<1> USE SizesAssumption
<1> DEFINE E == EndOf[parsed]
<1>0. /\ script \in Seq(Frame) /\ Len(script) \in Nat /\ E \in Nat /\ ScriptLen = EndOf[Len(script)]
      /\ script \in Scripts /\ parsed \in 0 .. Len(script)
      /\ wire \in Nat /\ polled \in Nat /\ read_pending \in Nat
      /\ wire <= ScriptLen /\ polled <= wire /\ polled = E + read_pending
  BY ParsedEnd DEF Receiving, ScriptLen
<1>1. parsed # Len(script)
  <2>1. read_pending >= HeaderLen /\ HeaderLen \in Nat \ {0}
    BY DEF ParseFrame, Whole, HasHeader
  <2>2. SUFFICES ASSUME parsed = Len(script) PROVE FALSE
    OBVIOUS
  <2>3. ScriptLen = E
    BY <1>0, <2>2
  <2> HIDE DEF E
  <2>4. QED
    BY <1>0, <2>1, <2>3
<1>2. parsed + 1 \in 1 .. Len(script) /\ (parsed + 1) - 1 = parsed
  BY <1>0, <1>1
<1>3. polled - read_pending = E
  <2> HIDE DEF E
  <2>1. QED
    BY <1>0
<1>4. script' = script /\ parsed' = parsed + 1 /\ EndOf' = EndOf
  BY DEF ParseFrame, ReadUnchanged, EndOf
<1>5. /\ script[parsed + 1] \in Frame
      /\ Only(DataOf[script], 0 .. EndsOf[script][parsed + 1])
           = Cat(Only(DataOf[script], 0 .. EndsOf[script][parsed]),
                 PayloadOf(script[parsed + 1], EndsOf[script][parsed]))
  <2>1. script[parsed + 1] \in Frame
    BY <1>0, <1>2, SMTT(30)
  <2>2. \A i \in 1 .. Len(script) :
           Only(DataOf[script], 0 .. EndsOf[script][i])
             = Cat(Only(DataOf[script], 0 .. EndsOf[script][i - 1]),
                   PayloadOf(script[i], EndsOf[script][i - 1]))
    BY <1>0, DataIs
  <2>3. QED
    BY <1>2, <2>1, <2>2
<1>6. PayloadOf(script[parsed + 1], E) \in Seq(Nat)
  BY <1>0, <1>5, PayloadIs
<1>7. Only(DataOf[script], 0 .. E) = delivered
  <2>1. op = "read"
    BY DEF ParseFrame
  <2>2. read_buf = <<>> /\ delivered \in Seq(Nat) /\ Cat(delivered, read_buf) = Only(DataOf[script], 0 .. E)
    BY <2>1 DEF Reading
  <2>3. QED
    BY <2>2, JoinedEmpty
<1>8. QED
  BY <1>2, <1>3, <1>4, <1>5, <1>6, <1>7 DEF Head1, EndOf

\* Nothing the session reads is lost, repeated or out of order.
LEMMA NextReading ==
  ASSUME Receiving, Reading, [Next]_vars
  PROVE  Reading'
<1>1. ASSUME NEW room \in 1 .. MaxRoom, ParseFrame(room) PROVE Reading'
  <2> DEFINE p == PayloadOf(Head1, polled - read_pending)
             D == Only(DataOf[script], 0 .. EndOf[parsed + 1])
  <2>1. script' = script /\ parsed' = parsed + 1 /\ EndOf' = EndOf /\ p \in Seq(Nat)
        /\ D = Cat(delivered, p)
    BY <1>1, Parsing
  <2>2. delivered \in Seq(Nat) /\ op = "read" /\ read_buf = <<>> /\ read_end = "no"
    BY <1>1 DEF ParseFrame, Reading
  <2>3. Only(DataOf[script], 0 .. EndOf[parsed])' = D
    BY <2>1
  <2>4. \/ p = <<>> /\ UNCHANGED <<delivered, read_buf, op, read_end>>
        \/ Deliver(p, room) /\ op' = "idle"
    BY <1>1 DEF ParseFrame, Skipped
  <2> HIDE DEF p, D
  <2>5. CASE p = <<>> /\ UNCHANGED <<delivered, read_buf, op, read_end>>
    <3>1. Cat(delivered', read_buf') = D
      BY <2>1, <2>2, <2>5
    <3>2. QED
      BY <2>2, <2>3, <2>5, <3>1 DEF Reading
  <2>6. CASE Deliver(p, room) /\ op' = "idle"
    <3>1. delivered' \in Seq(Nat) /\ read_buf' \in Seq(Nat) /\ Cat(delivered', read_buf') = Cat(delivered, p)
      BY <2>1, <2>2, <2>6, Delivers
    <3>2. QED
      BY <2>1, <2>3, <2>6, <3>1 DEF Reading
  <2>7. QED
    BY <2>4, <2>5, <2>6
<1>2. ASSUME NEW room \in 1 .. MaxRoom, ReadBuffered(room) PROVE Reading'
  <2>1. Deliver(read_buf, room) /\ UNCHANGED <<script, parsed, op>> /\ op = "idle"
    BY <1>2 DEF ReadBuffered, ReadUnchanged
  <2>2. delivered \in Seq(Nat) /\ read_buf \in Seq(Nat)
        /\ Cat(delivered, read_buf) = Only(DataOf[script], 0 .. EndOf[parsed])
    BY DEF Reading
  <2>3. delivered' \in Seq(Nat) /\ read_buf' \in Seq(Nat)
        /\ Cat(delivered', read_buf') = Cat(delivered, read_buf)
    BY <2>1, <2>2, Delivers
  <2>4. EndOf' = EndOf
    BY <2>1 DEF EndOf
  <2>5. QED
    BY <2>1, <2>2, <2>3, <2>4 DEF Reading
<1>3. CASE PollRead
  BY <1>3 DEF PollRead, Reading, ReadUnchanged, read_vars, EndOf
<1>4. CASE /\ UNCHANGED <<script, parsed, delivered, read_buf>>
           /\ op' = "read" => op = "read" /\ read_end' = read_end
  BY <1>4 DEF Reading, EndOf
<1>5. QED
  BY <1>1, <1>2, <1>3, <1>4, ReadingSteps

-----------------------------------------------------------------------------
(* What the session has written.                                           *)

Numbered(n) == [i \in 1 .. n |-> i]

\* The accepted frames carry the bytes written, in order.
Data(b) == Only(b, Nat \ {0})
Written == Data(FlattenSeq(frames)) = Numbered(accepted)

\* The second of two sequences in their concatenation.
LEMMA BytesBehind ==
  ASSUME NEW a \in Seq(Nat), NEW b \in Seq(Nat), NEW j \in 1 .. Len(b)
  PROVE  (a \o b)[Len(a) + j] = b[j]
OBVIOUS

\* A frame carries the bytes behind those before it.
LEMMA FrameData ==
  ASSUME NEW a \in Nat, NEW n \in Nat
  PROVE  /\ Data(EncodeFrame(a, n)) = [i \in 1 .. n |-> a + i]
         /\ Cat(Numbered(a), Data(EncodeFrame(a, n))) = Numbered(a + n)
         /\ Data(EncodeFrame(a, n)) \in Seq(Nat) /\ Numbered(a) \in Seq(Nat)
<1> DEFINE d == [i \in 1 .. n |-> a + i]
           D == Nat \ {0}
<1>1. d \in Seq(D) /\ d \in Seq(Nat) /\ Len(d) = n /\ <<0>> \in Seq(Nat) /\ 0 \notin D
  <2>1. \A i \in 1 .. n : a + i \in D
    OBVIOUS
  <2>2. d \in [1 .. n -> D] /\ d \in [1 .. n -> Nat]
    BY <2>1
  <2>3. <<0>> \in Seq(Nat) /\ 0 \notin D
    OBVIOUS
  <2> HIDE DEF D
  <2>4. QED
    BY <2>2, <2>3
<1>2. Only(<<0>> \o d, D) = Only(<<0>>, D) \o Only(d, D)
  <2> HIDE DEF d, D
  <2>1. QED
    BY <1>1, OnlyConcat
<1>3. Only(<<0>>, D) = <<>>
  BY <1>1, OnlyOne DEF Kept
<1>4. Only(d, D) = d
  BY <1>1, OnlyAll
<1>5. Data(EncodeFrame(a, n)) = d
  <2>1. <<>> \o d = d
    BY <1>1
  <2>2. Data(EncodeFrame(a, n)) = Only(<<0>> \o d, D)
    BY DEF Data, EncodeFrame
  <2> HIDE DEF d, D
  <2>3. QED
    BY <1>2, <1>3, <1>4, <2>1, <2>2
<1>6. Numbered(a) \in Seq(Nat) /\ Len(Numbered(a)) = a /\ Numbered(a + n) \in Seq(Nat)
      /\ Len(Numbered(a + n)) = a + n
  BY DEF Numbered
<1>7. Numbered(a) \o d = Numbered(a + n)
  <2> DEFINE c == Numbered(a) \o d
  <2>1. c \in Seq(Nat) /\ Len(c) = a + n
    BY <1>1, <1>6
  <2>2. ASSUME NEW i \in 1 .. a + n PROVE c[i] = i
    <3>1. CASE i \in 1 .. a
      BY <1>1, <1>6, <3>1 DEF Numbered
    <3>2. CASE i \notin 1 .. a
      <4>1. i - a \in 1 .. n /\ a + (i - a) = i
        BY <3>2
      <4>2. c[i] = d[i - a]
        <5> HIDE DEF d
        <5>1. c[Len(Numbered(a)) + (i - a)] = d[i - a]
          BY <1>1, <1>6, <4>1, BytesBehind
        <5>2. QED
          BY <1>6, <4>1, <5>1
      <4>3. QED
        BY <4>1, <4>2
    <3>3. QED
      BY <3>1, <3>2
  <2>3. \A i \in 1 .. a + n : Numbered(a + n)[i] = i
    BY DEF Numbered
  <2> HIDE DEF c
  <2>4. c = Numbered(a + n)
    BY <1>6, <2>1, <2>2, <2>3, SeqEqual
  <2>5. QED
    BY <2>4 DEF c
<1>8. QED
  BY <1>1, <1>5, <1>6, <1>7 DEF Cat

\* The steps the client's side of the response sees.
LEMMA OutSteps ==
  ASSUME [Next]_vars
  PROVE  \/ PollShutdown \/ SendData \/ WritePushed \/ SendTrailers
         \/ UNCHANGED <<accepted, out, write_closed, trailers, frames>>
<1> USE DEF vars, write_vars, send_vars
<1>1. CASE UNCHANGED vars
  BY <1>1
<1>2. CASE Peer
  BY <1>2 DEF Peer, SendByte, Grant, EndStream
<1>3. CASE Read
  BY <1>3 DEF Read, ReadUnchanged, PollRead, ReadOversized, ReadInvalid, ReadFails, ReadEnds,
              ReadPending, ReadBuffered, ParseFrame, PollData
<1>4. CASE Send
  BY <1>4 DEF Send, SendUnchanged, NextFrame, OpenStream, SendFails
<1>5. CASE Write
  BY <1>5 DEF Write, WriteUnchanged, PollWrite, WriteRefused, WriteReady, PollFlush,
              FlushReturns, StartClose, ShutdownPending, CloseTimeout
<1>6. QED
  BY <1>1, <1>2, <1>3, <1>4, <1>5 DEF Next

\* What else those steps leave alone.
LEMMA OutUnchanged ==
  /\ PollShutdown => UNCHANGED <<accepted, out, trailers, frames>> /\ write_closed'
  /\ SendData => UNCHANGED <<accepted, write_closed, trailers, frames>>
  /\ WritePushed => UNCHANGED <<out, write_closed, trailers>>
  /\ SendTrailers => UNCHANGED <<accepted, out, write_closed, frames>>
BY DEF PollShutdown, SendData, WritePushed, SendTrailers, WriteUnchanged, SendUnchanged

\* An accepted frame adds the next bytes.
LEMMA PushAdds ==
  ASSUME Queued, Offered, WritePushed, Written
  PROVE  /\ Written'
         /\ \E y \in Seq(Nat) : Numbered(accepted') = Cat(Numbered(accepted), y)
<1> DEFINE n == ToWrite(want)
           x == EncodeFrame(accepted, n)
<1>1. n \in Nat /\ n <= MaxMessage /\ accepted \in Nat
  BY SizesAssumption DEF Offered, ToWrite, Least
<1>2. accepted' = accepted + n /\ frames' = Append(frames, x)
  BY DEF WritePushed
<1> HIDE DEF n
<1>3. x \in Seq(Nat) /\ frames \in Seq(Seq(Nat))
  BY <1>1, FrameIs DEF Queued
<1>4. FlattenSeq(frames) \in Seq(Nat)
  BY <1>3, FlatBytes
<1>5. FlattenSeq(frames') = FlattenSeq(frames) \o x
  BY <1>2, <1>3, FlattenAppend
<1>6. /\ Cat(Numbered(accepted), Data(x)) = Numbered(accepted + n)
      /\ Data(x) \in Seq(Nat)
  BY <1>1, FrameData
<1> HIDE DEF x
<1>7. Data(FlattenSeq(frames) \o x) = Cat(Data(FlattenSeq(frames)), Data(x))
  BY <1>3, <1>4, OnlyConcat DEF Data, Cat
<1>8. Data(FlattenSeq(frames')) = Numbered(accepted')
  BY <1>2, <1>5, <1>6, <1>7 DEF Written
<1>9. Written'
  BY <1>8 DEF Written, Data
<1>10. QED
  BY <1>2, <1>6, <1>9

\* The accepted frames stay the bytes written.
LEMMA NextWritten ==
  ASSUME Queued, Offered, Written, [Next]_vars
  PROVE  Written'
<1>1. CASE WritePushed
  BY <1>1, PushAdds
<1>2. CASE UNCHANGED <<accepted, frames>>
  BY <1>2 DEF Written, Data
<1>3. QED
  BY <1>1, <1>2, OutSteps, OutUnchanged

\* What the client got is the front of what was written, and all of it when
\* nothing is waiting.
OutPiped ==
  /\ Data(out) \in Seq(Nat)
  /\ \E y \in Seq(Nat) : Numbered(accepted) = Cat(Data(out), y)
  /\ SentAll => Data(out) = Numbered(accepted)

\* That follows from what is conserved.
LEMMA OutBegins ==
  ASSUME Queued, Conserved, Written
  PROVE  OutPiped
<1> DEFINE F == FlattenSeq(send_queue)
           y == Cat(Rest, F)
<1>1. out \in Seq(Nat) /\ F \in Seq(Nat)
  BY FlatBytes DEF Queued
<1>2. Rest \in Seq(Nat)
  <2>1. current_frame \in Seq(Nat) /\ current_frame_offset \in Nat
        /\ current_frame_offset <= Len(current_frame)
    <3>1. current_frame \in Seq(Nat) /\ current_frame_offset \in Nat
      BY DEF Queued, Framed
    <3>2. CASE current_frame = <<>>
      BY <3>1, <3>2 DEF Queued
    <3>3. CASE current_frame # <<>>
      BY <3>1, <3>3 DEF Queued
    <3>4. QED
      BY <3>1, <3>2, <3>3
  <2>2. QED
    BY <2>1, Halves DEF Rest
<1>3. FlattenSeq(frames) = Cat(Cat(out, Rest), F)
  BY DEF Conserved, Cat
<1> HIDE DEF F
<1>4. FlattenSeq(frames) = Cat(out, y) /\ y \in Seq(Nat)
  BY <1>1, <1>2, <1>3, Grouped
<1>5. Data(Cat(out, y)) = Cat(Data(out), Data(y))
  BY <1>1, <1>4, OnlyConcat DEF Data, Cat
<1>6. Data(out) \in Seq(Nat) /\ Data(y) \in Seq(Nat)
  BY <1>1, <1>4, OnlyType DEF Data
<1>7. Numbered(accepted) = Cat(Data(out), Data(y))
  BY <1>4, <1>5 DEF Written
<1>8. ASSUME SentAll PROVE Data(out) = Numbered(accepted)
  <2>1. Rest = <<>>
    BY <1>8 DEF SentAll, Rest, Queued
  <2>2. F = <<>>
    BY <1>8 DEF SentAll, F, FlattenSeq
  <2>3. y = <<>>
    BY <2>1, <2>2 DEF Cat
  <2>4. Data(y) = <<>>
    BY <2>3, OnlyEmpty DEF Data
  <2>5. QED
    BY <1>6, <1>7, <2>4, JoinedEmpty
<1>9. QED
  BY <1>6, <1>7, <1>8 DEF OutPiped

-----------------------------------------------------------------------------
(* Each direction of the stream implements a BytePipe.                     *)

PipeInv == StreamInv /\ Reading /\ Written

\* Nothing is read or written at first.
LEMMA InitPipeInv == Init => PipeInv
<1> SUFFICES ASSUME Init PROVE PipeInv
  OBVIOUS
<1>1. StreamInv
  BY InitStreamInv
<1>2. Reading
  <2>1. script \in Scripts /\ parsed = 0 /\ delivered = <<>> /\ read_buf = <<>> /\ op = "idle"
    BY DEF Init
  <2>2. Only(DataOf[script], 0 .. EndOf[parsed]) = <<>>
    BY <2>1, DataIs DEF EndOf
  <2>3. Cat(<<>>, <<>>) = <<>> /\ <<>> \in Seq(Nat)
    BY DEF Cat
  <2>4. QED
    BY <2>1, <2>2, <2>3 DEF Reading
<1>3. Written
  <2>1. frames = <<>> /\ accepted = 0
    BY DEF Init
  <2>2. FlattenSeq(<<>>) = <<>>
    BY DEF FlattenSeq
  <2>3. Numbered(0) = <<>>
    BY DEF Numbered
  <2>4. QED
    BY <2>1, <2>2, <2>3, OnlyEmpty DEF Written, Data
<1>4. QED
  BY <1>1, <1>2, <1>3 DEF PipeInv

\* Every reachable state satisfies it.
LEMMA PipeInvHolds == Spec => []PipeInv
<1>1. PipeInv /\ [Next]_vars => PipeInv'
  BY NextStreamInv, NextReading, NextWritten DEF PipeInv, StreamInv
<1>2. QED
  BY <1>1, InitPipeInv, PTL DEF Spec

\* What a concatenation begins with, as the pipes say it.
LEMMA PipePrefix ==
  ASSUME NEW S, NEW a \in Seq(S), NEW x \in Seq(S), NEW b, b = Cat(a, x)
  PROVE  Inward!IsPrefix(a, b) /\ Outward!IsPrefix(a, b)
<1>1. IsPrefix(a, b)
  BY Begins
<1>2. QED
  BY <1>1 DEF IsPrefix, Inward!IsPrefix, Outward!IsPrefix

\* The client has ended its stream, and the session has seen the end.
InClosed == ended \in {"end", "cancel"}
InEnded == read_end = "eof"

\* The client's bytes and its end, and what of them the session sees.
LEMMA InSteps ==
  ASSUME Flags, [Next]_vars
  PROVE  /\ script' = script
         /\ \/ ~InClosed /\ InClosed' /\ UNCHANGED <<wire, delivered, read_end>>
            \/ /\ InClosed' = InClosed
               /\ wire' = wire \/ (wire' = wire + 1 /\ ended = "no")
               /\ \/ UNCHANGED <<delivered, read_end>>
                  \/ \E room \in 1 .. MaxRoom : ReadBuffered(room) \/ ParseFrame(room)
                  \/ op = "read" /\ delivered' = delivered /\ read_end' = "error"
                  \/ ReadEnds
<1> USE DEF vars, peer_vars, read_vars, InClosed
<1>1. CASE UNCHANGED vars
  BY <1>1
<1>2. CASE SendByte \/ Grant
  BY <1>2 DEF SendByte, Grant
<1>3. ASSUME NEW how \in {"end", "cancel", "error"}, EndStream(how)
      PROVE  /\ script' = script /\ UNCHANGED <<wire, delivered, read_end>>
             /\ (~InClosed /\ InClosed') \/ InClosed' = InClosed
  <2>1. ended = "no" /\ ended' = how /\ UNCHANGED <<script, wire, delivered, read_end>>
    BY <1>3 DEF EndStream
  <2>2. QED
    BY <2>1
<1>4. CASE Read
  BY <1>4 DEF Read, ReadUnchanged, PollRead, ReadOversized, ReadInvalid, ReadFails, ReadEnds,
              ReadPending, ReadBuffered, ParseFrame, PollData
<1>5. CASE Send
  BY <1>5 DEF Send, SendUnchanged, NextFrame, OpenStream, SendData, SendFails
<1>6. CASE Write
  BY <1>6 DEF Write, WriteUnchanged, PollWrite, WriteRefused, WritePushed, WriteReady, PollFlush,
              FlushReturns, StartClose, PollShutdown, ShutdownPending, SendTrailers, CloseTimeout
<1>7. QED
  BY <1>1, <1>2, <1>3, <1>4, <1>5, <1>6 DEF Next, Peer

\* What the session has read is the front of what the client has sent, and all
\* of it when nothing is buffered or under way.
InPiped ==
  /\ OnWire \in Seq(Nat) /\ delivered \in Seq(Nat)
  /\ \E y \in Seq(Nat) : OnWire = Cat(delivered, y)
  /\ read_buf = <<>> /\ read_pending = 0 /\ polled = wire => delivered = OnWire

\* That follows from what has been parsed.
LEMMA InBegins ==
  ASSUME Receiving, Reading
  PROVE  InPiped
<1> DEFINE D == DataOf[script]
           E == EndOf[parsed]
<1>1. D \in Seq(Nat) /\ Rising(D) /\ E \in Nat /\ wire \in Nat
  BY DataIs, ParsedEnd DEF Receiving
<1>2. E <= wire /\ (read_pending = 0 /\ polled = wire => E = wire)
  <2>1. polled \in Nat /\ read_pending \in Nat /\ polled <= wire /\ polled = E + read_pending
    BY DEF Receiving
  <2> HIDE DEF E
  <2>2. QED
    BY <1>1, <2>1
<1>3. delivered \in Seq(Nat) /\ read_buf \in Seq(Nat) /\ Cat(delivered, read_buf) = Only(D, 0 .. E)
  BY DEF Reading
<1>4. OnWire = Only(D, 0 .. wire)
  BY DEF OnWire
<1> HIDE DEF D, E
<1>5. Only(D, 0 .. wire) \in Seq(Nat)
  BY <1>1, OnlyType
<1>6. PICK x \in Seq(Nat) : Only(D, 0 .. wire) = Cat(Only(D, 0 .. E), x)
  BY <1>1, <1>2, OnlyGrows
<1>7. OnWire = Cat(delivered, Cat(read_buf, x)) /\ Cat(read_buf, x) \in Seq(Nat)
  BY <1>3, <1>4, <1>6, Grouped
<1>8. ASSUME read_buf = <<>>, read_pending = 0, polled = wire PROVE delivered = OnWire
  BY <1>2, <1>3, <1>4, <1>8, JoinedEmpty
<1>9. QED
  BY <1>3, <1>4, <1>5, <1>7, <1>8 DEF InPiped

\* Every step is one of the client's pipe, or leaves it alone.
LEMMA InwardStep ==
  ASSUME PipeInv, InPiped, InPiped', [Next]_vars
  PROVE  [Inward!Next]_(Inward!vars)
<1>0. /\ Flags /\ Receiving /\ Reading
      /\ delivered \in Seq(Nat) /\ script \in Scripts /\ wire \in Nat
  BY DEF PipeInv, StreamInv, Reading, Receiving
<1>1. script' = script
  BY <1>0, InSteps
<1>2. CASE ~InClosed /\ InClosed' /\ UNCHANGED <<wire, delivered, read_end>>
  <2>1. OnWire' = OnWire
    BY <1>1, <1>2 DEF OnWire
  <2>2. QED
    BY <1>2, <2>1 DEF InClosed, Inward!Next, Inward!Close
<1>3. CASE /\ InClosed' = InClosed
           /\ wire' = wire \/ (wire' = wire + 1 /\ ended = "no")
           /\ \/ UNCHANGED <<delivered, read_end>>
              \/ \E room \in 1 .. MaxRoom : ReadBuffered(room) \/ ParseFrame(room)
              \/ op = "read" /\ delivered' = delivered /\ read_end' = "error"
              \/ ReadEnds
  <2>1. Inward!IsPrefix(OnWire, OnWire') /\ (InClosed => OnWire' = OnWire)
    <3>1. DataOf[script] \in Seq(Nat) /\ Rising(DataOf[script])
      BY <1>0, DataIs
    <3>2. wire' \in Nat /\ wire <= wire' /\ (InClosed => wire' = wire)
      BY <1>0, <1>3 DEF InClosed
    <3>3. PICK x \in Seq(Nat) : Only(DataOf[script], 0 .. wire') = Cat(Only(DataOf[script], 0 .. wire), x)
      BY <1>0, <3>1, <3>2, OnlyGrows
    <3>4. OnWire' = Cat(OnWire, x) /\ (InClosed => OnWire' = OnWire)
      BY <1>1, <3>2, <3>3 DEF OnWire
    <3>5. OnWire \in Seq(Nat)
      BY DEF InPiped
    <3>6. QED
      BY <3>4, <3>5, PipePrefix
  <2>2. \E x \in Seq(Nat) : delivered' = Cat(delivered, x)
    <3>1. CASE delivered' = delivered
      BY <1>0, <3>1, JoinedEmpty
    <3>2. ASSUME NEW room \in 1 .. MaxRoom, ReadBuffered(room)
          PROVE  \E x \in Seq(Nat) : delivered' = Cat(delivered, x)
      <4>1. Deliver(read_buf, room) /\ read_buf \in Seq(Nat)
        BY <1>0, <3>2 DEF ReadBuffered, Reading
      <4>2. QED
        BY <1>0, <4>1, Delivers
    <3>3. ASSUME NEW room \in 1 .. MaxRoom, ParseFrame(room)
          PROVE  \E x \in Seq(Nat) : delivered' = Cat(delivered, x)
      <4> DEFINE p == PayloadOf(Head1, polled - read_pending)
      <4>1. p \in Seq(Nat)
        BY <1>0, <3>3, Parsing
      <4>2. delivered' = delivered \/ Deliver(p, room)
        BY <3>3 DEF ParseFrame
      <4> HIDE DEF p
      <4>3. QED
        BY <1>0, <3>1, <4>1, <4>2, Delivers
    <3>4. QED
      BY <1>3, <3>1, <3>2, <3>3 DEF ReadEnds
  <2>3. Inward!IsPrefix(delivered, delivered')
    BY <1>0, <2>2, PipePrefix
  <2>4. Inward!IsPrefix(delivered', OnWire')
    <3>1. \E y \in Seq(Nat) : OnWire' = Cat(delivered', y)
      BY DEF InPiped
    <3>2. delivered' \in Seq(Nat)
      BY DEF InPiped
    <3>3. QED
      BY <3>1, <3>2, PipePrefix
  <2>5. InEnded => delivered' = delivered /\ InEnded'
    <3>1. SUFFICES ASSUME InEnded PROVE delivered' = delivered /\ read_end' = read_end
      BY DEF InEnded
    <3>2. read_end # "no" /\ op # "read"
      BY <1>0, <3>1 DEF InEnded, Reading
    <3>3. QED
      BY <1>3, <3>2 DEF ReadBuffered, ParseFrame, ReadEnds, NeedsData
  <2>6. InEnded' /\ ~InEnded => InClosed /\ delivered' = OnWire'
    <3>1. SUFFICES ASSUME read_end' = "eof", read_end # "eof"
                   PROVE  InClosed /\ delivered' = OnWire'
      BY DEF InEnded
    <3>2. ReadEnds
      <4>1. \A room \in 1 .. MaxRoom : ReadBuffered(room) => read_end' = read_end
        BY DEF ReadBuffered
      <4>2. \A room \in 1 .. MaxRoom : ParseFrame(room) => read_end' = read_end \/ read_end' = "no"
        BY DEF ParseFrame, Skipped
      <4>3. QED
        BY <1>3, <3>1, <4>1, <4>2
    <3>3. Graceful /\ polled = wire /\ ended # "no" /\ op = "read" /\ delivered' = delivered
          /\ wire' = wire
      BY <3>1, <3>2 DEF ReadEnds, NeedsData, ReadUnchanged
    <3>4. InClosed
      BY <1>0, <3>3 DEF InClosed, Flags, Graceful
    <3>5. delivered = OnWire
      BY <1>0, <3>3 DEF InPiped, Graceful, Reading
    <3>6. OnWire' = OnWire
      BY <1>1, <3>3 DEF OnWire
    <3>7. QED
      BY <3>3, <3>4, <3>5, <3>6
  <2>7. Inward!Transfer
    BY <1>3, <2>1, <2>3, <2>4, <2>5, <2>6 DEF Inward!Transfer, InClosed, InEnded
  <2>8. QED
    BY <2>7 DEF Inward!Next
<1>4. QED
  BY <1>0, <1>2, <1>3, InSteps

\* The response as the pipe sees it.
OutEnded == trailers # "none"

\* Every step is one of the response's pipe, or leaves it alone.
LEMMA OutwardStep ==
  ASSUME PipeInv, OutPiped, OutPiped', [Next]_vars
  PROVE  [Outward!Next]_(Outward!vars)
<1>0. /\ Queued /\ Offered /\ Written /\ CallStage /\ Closed /\ Flags
      /\ write_closed \in BOOLEAN /\ accepted \in Nat /\ out \in Seq(Nat)
  BY DEF PipeInv, StreamInv, Queued, Offered, Flags
<1>1. OutData = Data(out) /\ OutData' = Data(out') /\ Data(out) \in Seq(Nat) /\ Data(out') \in Seq(Nat)
  BY DEF OutPiped, OutData, Data
<1> DEFINE W == Numbered(accepted)
           V == Numbered(accepted')
<1>2. W = [i \in 1 .. accepted |-> i] /\ V = [i \in 1 .. accepted' |-> i] /\ W \in Seq(Nat)
  BY <1>0, FrameData DEF Numbered
<1>3. Outward!IsPrefix(Data(out'), V) /\ (SentAll' => Data(out') = V)
  <2>1. /\ \E y \in Seq(Nat) : V = Cat(Data(out'), y)
        /\ SentAll' => Data(out') = V
    BY DEF OutPiped, Data, Numbered
  <2>2. QED
    BY <1>1, <2>1, PipePrefix
<1> HIDE DEF W, V
<1>4. ASSUME NEW a \in Seq(Nat) PROVE Outward!IsPrefix(a, a)
  <2>1. Cat(a, <<>>) = a /\ <<>> \in Seq(Nat)
    BY JoinedEmpty
  <2>2. QED
    BY <2>1, PipePrefix
<1>5. CASE PollShutdown
  <2>1. UNCHANGED <<accepted, out, trailers>> /\ write_closed'
    BY <1>5, OutUnchanged
  <2>2. OutData' = OutData /\ V = W
    BY <1>1, <2>1 DEF V, W
  <2>3. CASE ~write_closed
    BY <1>2, <2>1, <2>2, <2>3 DEF Outward!Next, Outward!Close
  <2>4. CASE write_closed
    <3>1. write_closed' = write_closed
      BY <1>0, <2>1, <2>4
    <3>2. QED
      BY <1>2, <2>1, <2>2, <3>1 DEF Outward!vars
  <2>5. QED
    BY <2>3, <2>4
<1>6. CASE SendData
  <2>1. UNCHANGED <<accepted, write_closed, trailers>> /\ ~OutEnded
    BY <1>0, <1>6, OutUnchanged DEF SendData, Closed, SentAll, OutEnded
  <2>2. V = W
    BY <2>1 DEF V, W
  <2>3. Outward!IsPrefix(Data(out), Data(out'))
    <3> DEFINE c == current_frame
               k == current_frame_offset
               m == Least(Len(c) - k, capacity)
               x == SubSeq(c, k + 1, k + m)
    <3>1. out' = Cat(out, x)
      BY <1>6 DEF SendData, Cat
    <3>2. x \in Seq(Nat)
      <4>1. c \in Seq(Nat) /\ k \in Nat /\ k < Len(c) /\ Len(c) \in Nat /\ capacity \in Nat
        BY <1>0, <1>6 DEF SendData, Queued, Framed, Flags
      <4>2. m \in Nat /\ k + m \in Nat /\ k <= k + m /\ k + m <= Len(c)
        BY <4>1 DEF Least
      <4> HIDE DEF c, k, m
      <4>3. QED
        BY <4>1, <4>2, Piece
    <3> HIDE DEF x
    <3>3. Data(out') = Cat(Data(out), Data(x))
      BY <1>0, <3>1, <3>2, OnlyConcat DEF Data, Cat
    <3>4. Data(x) \in Seq(Nat)
      BY <3>2, OnlyType DEF Data
    <3>5. QED
      BY <1>1, <3>3, <3>4, PipePrefix
  <2>4. Outward!Transfer
    BY <1>1, <1>2, <1>3, <1>4, <2>1, <2>2, <2>3 DEF Outward!Transfer, OutEnded
  <2>5. QED
    BY <2>4 DEF Outward!Next
<1>7. CASE WritePushed
  <2>1. UNCHANGED <<out, write_closed, trailers>> /\ ~write_closed
    BY <1>0, <1>7, OutUnchanged DEF WritePushed, CallStage
  <2>2. PICK y \in Seq(Nat) : V = Cat(W, y)
    BY <1>0, <1>7, PushAdds DEF V, W
  <2>3. Outward!IsPrefix(W, V)
    BY <1>2, <2>2, PipePrefix
  <2>4. OutData' = OutData
    BY <1>1, <2>1
  <2>5. Outward!Transfer
    BY <1>1, <1>2, <1>3, <1>4, <2>1, <2>3, <2>4 DEF Outward!Transfer
  <2>6. QED
    BY <2>5 DEF Outward!Next
<1>8. CASE SendTrailers
  <2>1. UNCHANGED <<accepted, out, write_closed, current_frame, send_queue>> /\ write_closed
        /\ SentAll /\ ~OutEnded
    BY <1>0, <1>8 DEF SendTrailers, WriteUnchanged, CallStage, Closed, OutEnded
  <2>2. V = W /\ OutData' = OutData
    BY <1>1, <2>1 DEF V, W
  <2>3. SentAll'
    BY <2>1 DEF SentAll
  <2>4. Outward!Transfer
    BY <1>1, <1>2, <1>3, <1>4, <2>1, <2>2, <2>3 DEF Outward!Transfer, OutEnded
  <2>5. QED
    BY <2>4 DEF Outward!Next
<1>9. CASE UNCHANGED <<accepted, out, write_closed, trailers, frames>>
  <2>1. V = W /\ OutData' = OutData
    BY <1>1, <1>9 DEF V, W
  <2>2. QED
    BY <1>2, <1>9, <2>1 DEF Outward!vars
<1>10. QED
  BY <1>5, <1>6, <1>7, <1>8, <1>9, OutSteps

(* For every script, chunking, window, queue and buffer size, both         *)
(* directions of a gRPC stream implement BytePipe: frames are read and     *)
(* written without a byte lost, repeated or out of order, and the end is   *)
(* seen only behind the last byte (transport.rs:124-152, 184-245, 278-382, *)
(* 402-469, codec.rs:28-105).                                              *)
THEOREM GrpcImplementsPipes == Spec => Pipes
<1>1. PipeInv => InPiped /\ OutPiped
  BY InBegins, OutBegins DEF PipeInv, StreamInv
<1>2. Init => Inward!Init /\ Outward!Init
  <2>1. Init => OutData = <<>>
    BY OnlyEmpty DEF Init, OutData
  <2>2. QED
    BY <2>1 DEF Init, Inward!Init, Outward!Init
<1>3. PipeInv /\ InPiped /\ InPiped' /\ [Next]_vars => [Inward!Next]_(Inward!vars)
  BY InwardStep
<1>4. PipeInv /\ OutPiped /\ OutPiped' /\ [Next]_vars => [Outward!Next]_(Outward!vars)
  BY OutwardStep
<1>5. QED
  BY <1>1, <1>2, <1>3, <1>4, PipeInvHolds, PTL DEF Spec, Pipes, Inward!Spec, Outward!Spec
=============================================================================
