--------------------------- MODULE TrojanProtocol ---------------------------
(***************************************************************************)
(* core/protocol.rs: the Trojan request and the framing of UDP packets in  *)
(* the stream, as operators on sequences of bytes (0 .. 255).  Only the    *)
(* lengths of the password and of the IP addresses are parameters (56, 4   *)
(* and 16 in the code).  Offsets are the code's, so byte n is b[n + 1].    *)
(***************************************************************************)
EXTENDS Integers, Sequences

CONSTANTS PasswordLen, V4Len, V6Len

ASSUME LengthsAssumption == {PasswordLen, V4Len, V6Len} \subseteq Nat \ {0}

CR == 13
LF == 10
ATYP_IPV4   == 1
ATYP_DOMAIN == 3
ATYP_IPV6   == 4
Connect      == 1
UdpAssociate == 3

\* A byte that no UTF-8 text contains stands for every broken encoding.
NotUtf8 == 255

\* DecodeResult
Ok(value, n)  == [res |-> "ok", value |-> value, consumed |-> n]
NeedMoreData  == [res |-> "more"]
Invalid       == [res |-> "invalid"]

From(b, n)    == SubSeq(b, n + 1, Len(b))
Slice(b, m, n) == SubSeq(b, m + 1, n)
U16(b, n)     == 256 * b[n + 1] + b[n + 2]
U16Bytes(v)   == <<(v \div 256) % 256, v % 256>>
CrlfAt(b, n)  == b[n + 1] = CR /\ b[n + 2] = LF

Byte == 0 .. 255
Word == 0 .. 65535

Address(atyp, host, port) == [atyp |-> atyp, host |-> host, port |-> port]

\* The addresses the encoding can express.
Addresses ==
  {a \in [atyp : {ATYP_IPV4, ATYP_DOMAIN, ATYP_IPV6}, host : Seq(Byte), port : Word] :
     /\ a.atyp = ATYP_IPV4 => Len(a.host) = V4Len
     /\ a.atyp = ATYP_IPV6 => Len(a.host) = V6Len
     /\ a.atyp = ATYP_DOMAIN => Len(a.host) \in Byte /\ \A i \in DOMAIN a.host : a.host[i] # NotUtf8}

-----------------------------------------------------------------------------
(* Address::decode and Address::encode                                     *)

DecodeIp(b, len) ==
  IF Len(b) < 1 + len + 2 THEN NeedMoreData
  ELSE Ok(Address(b[1], Slice(b, 1, 1 + len), U16(b, 1 + len)), 1 + len + 2)

DecodeDomain(b) ==
  IF Len(b) < 2 \/ Len(b) < 1 + 1 + b[2] + 2 THEN NeedMoreData
  ELSE LET domain == Slice(b, 2, 2 + b[2]) IN
       IF \E i \in DOMAIN domain : domain[i] = NotUtf8 THEN Invalid
       ELSE Ok(Address(ATYP_DOMAIN, domain, U16(b, 2 + b[2])), 1 + 1 + b[2] + 2)

DecodeAddress(b) ==
  IF b = <<>> THEN NeedMoreData
  ELSE CASE b[1] = ATYP_IPV4   -> DecodeIp(b, V4Len)
         [] b[1] = ATYP_IPV6   -> DecodeIp(b, V6Len)
         [] b[1] = ATYP_DOMAIN -> DecodeDomain(b)
         [] OTHER              -> Invalid

\* Too long a domain is cut to what the length byte can say.
Cut255(s) == IF Len(s) > 255 THEN SubSeq(s, 1, 255) ELSE s

EncodeAddress(a) ==
  <<a.atyp>>
    \o (IF a.atyp = ATYP_DOMAIN THEN <<Len(Cut255(a.host))>> \o Cut255(a.host) ELSE a.host)
    \o U16Bytes(a.port)

-----------------------------------------------------------------------------
(* TrojanRequest                                                           *)

CmdAt  == PasswordLen + 2
AddrAt == CmdAt + 1
MIN_SIZE == AddrAt + (1 + V4Len + 2) + 2

ValidCmd(c) == c \in {Connect, UdpAssociate}

CheckComplete(b) ==
  IF Len(b) < MIN_SIZE THEN NeedMoreData
  ELSE IF ~CrlfAt(b, PasswordLen) \/ ~ValidCmd(b[CmdAt + 1]) THEN Invalid
  ELSE LET addr == DecodeAddress(From(b, AddrAt)) IN
       IF addr.res # "ok" THEN addr
       ELSE LET crlf_pos == AddrAt + addr.consumed IN
            IF Len(b) < crlf_pos + 2 THEN NeedMoreData
            ELSE IF ~CrlfAt(b, crlf_pos) THEN Invalid
            ELSE Ok(crlf_pos + 2, 0)

Request(password, cmd, addr, payload) ==
  [password |-> password, cmd |-> cmd, addr |-> addr, payload |-> payload]

Requests ==
  {r \in [password : Seq(Byte), cmd : {Connect, UdpAssociate}, addr : Addresses,
          payload : Seq(Byte)] : Len(r.password) = PasswordLen}

DecodeRequest(b) ==
  IF Len(b) < MIN_SIZE THEN NeedMoreData
  ELSE IF ~CrlfAt(b, PasswordLen) \/ ~ValidCmd(b[CmdAt + 1]) THEN Invalid
  ELSE LET addr == DecodeAddress(From(b, AddrAt)) IN
       IF addr.res # "ok" THEN addr
       ELSE LET crlf_pos == AddrAt + addr.consumed IN
            IF Len(b) < crlf_pos + 2 THEN NeedMoreData
            ELSE IF ~CrlfAt(b, crlf_pos) THEN Invalid
            ELSE Ok(Request(Slice(b, 0, PasswordLen), b[CmdAt + 1], addr.value,
                            From(b, crlf_pos + 2)), crlf_pos + 2)

-----------------------------------------------------------------------------
(* TrojanUdpPacket                                                         *)

UDP_MIN_SIZE == 1 + V4Len + 2 + 2 + 2

Packet(addr, payload) == [addr |-> addr, payload |-> payload]

Packets == {p \in [addr : Addresses, payload : Seq(Byte)] : Len(p.payload) \in Word}

\* A packet is complete with its header: the payload is what has arrived of it.
DecodeUdpEarly(b) ==
  LET addr == DecodeAddress(b) IN
  IF Len(b) < UDP_MIN_SIZE \/ addr.res # "ok" THEN NeedMoreData
  ELSE Ok(Packet(addr.value, From(b, addr.consumed + 4)), Len(b))

DecodeUdp(b) ==
  IF Len(b) < UDP_MIN_SIZE THEN NeedMoreData
  ELSE LET addr == DecodeAddress(b) IN
       IF addr.res # "ok" THEN addr
       ELSE LET at == addr.consumed IN
            IF Len(b) < at + 4 THEN NeedMoreData
            ELSE IF ~CrlfAt(b, at + 2) THEN Invalid
            ELSE IF Len(b) < at + 4 + U16(b, at) THEN NeedMoreData
            ELSE Ok(Packet(addr.value, Slice(b, at + 4, at + 4 + U16(b, at))),
                    at + 4 + U16(b, at))

EncodeUdp(addr, payload) ==
  EncodeAddress(addr) \o U16Bytes(Len(payload)) \o <<CR, LF>> \o payload
=============================================================================
