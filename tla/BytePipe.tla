------------------------------ MODULE BytePipe ------------------------------
(***************************************************************************)
(* What a transport or a relay promises about one direction of a           *)
(* connection: a pipe of bytes with an end.  The writer appends bytes and  *)
(* may close once; the reader receives a growing prefix of what was        *)
(* written and is told that it is over only when the writer has closed and *)
(* every byte has been received.  A pipe that breaks just stops moving.    *)
(*                                                                         *)
(* Relay, GrpcTransport and WsTransport are each shown to implement two    *)
(* of these, one per direction.                                            *)
(***************************************************************************)
EXTENDS SequencesExt

VARIABLES
  sent,      \* the bytes the writer has written
  got,       \* the bytes the reader has received
  closed,    \* the writer has closed
  ended      \* the reader has been told so

vars == <<sent, got, closed, ended>>

\* The first bytes may have been written before the pipe is looked at (early
\* data, a request's payload).
Init == got = <<>> /\ ~ended /\ ~closed

Close ==
  /\ ~closed /\ closed'
  /\ UNCHANGED <<sent, got, ended>>

\* Bytes are written before the close and received in order; they may pass
\* straight through, and the end may come together with the last of them.
Transfer ==
  /\ IsPrefix(sent, sent') /\ (closed => sent' = sent)
  /\ IsPrefix(got, got') /\ IsPrefix(got', sent')
  /\ ended => got' = got /\ ended'
  /\ ended' /\ ~ended => closed /\ got' = sent'
  /\ UNCHANGED closed

Next == Close \/ Transfer
Spec == Init /\ [][Next]_vars
=============================================================================
