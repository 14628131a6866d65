--------------------------- MODULE InboundProofs ----------------------------
(***************************************************************************)
(* What holds of an inbound connection for every client, every cut of its  *)
(* bytes into messages, every buffer and every pace of either side: the    *)
(* decoders read back what was encoded and nothing else, the WebSocket     *)
(* transport is a pipe in both directions, and so a request and the        *)
(* packets behind it are understood as they were meant.                    *)
(*                                                                         *)
(* The decoders come first, as facts about byte sequences. Then the steps  *)
(* of the transport, each described by what it takes from one queue and    *)
(* puts on another. InboundInv combines the two: what has been read is a   *)
(* prefix of the stream, and what the server has made of it is a division  *)
(* of that prefix into the request, the packets and the rest.              *)
(***************************************************************************)
EXTENDS Inbound, SequenceLemmas, TLAPS

-----------------------------------------------------------------------------
(* The encoding, byte by byte.                                             *)

\* The first n bytes of b and s agree.
Agree(b, s, n) == \A i \in 1 .. n : b[i] = s[i]
\* b and e agree as far as both go.
Fits(b, e) == \A i \in 1 .. Len(b) : i \in 1 .. Len(e) => b[i] = e[i]

\* An address that is a record of the three fields.
LEMMA AddressFields ==
  ASSUME NEW a \in Addresses
  PROVE  /\ a = Address(a.atyp, a.host, a.port)
         /\ a.atyp \in {ATYP_IPV4, ATYP_DOMAIN, ATYP_IPV6} /\ a.host \in Seq(Byte)
         /\ a.port \in Word /\ Len(a.host) \in Nat
         /\ a.atyp = ATYP_IPV4 => Len(a.host) = V4Len
         /\ a.atyp = ATYP_IPV6 => Len(a.host) = V6Len
         /\ a.atyp = ATYP_DOMAIN => Len(a.host) \in Byte /\ \A i \in DOMAIN a.host : a.host[i] # NotUtf8
BY DEF Addresses, Address

\* The two bytes of a number.
High(v) == (v \div 256) % 256
Low(v)  == v % 256

\* Membership of a range, whatever its bound.
LEMMA InRange ==
  ASSUME NEW m \in Int
  PROVE  \A k : k \in 0 .. m <=> k \in Int /\ 0 <= k /\ k <= m
OBVIOUS

\* The numbers two bytes can say.  The bound is hidden from the provers, which
\* enumerate a range of numerals.
LEMMA WordIs == \A k : k \in Word <=> k \in Int /\ 0 <= k /\ k <= 65535
<1> DEFINE m == 65535
<1>1. Word = 0 .. m
  BY DEF Word, m
<1>2. m \in Int
  OBVIOUS
<1> HIDE DEF m
<1>3. \A k : k \in Word <=> k \in Int /\ 0 <= k /\ k <= m
  BY <1>1, <1>2, InRange
<1>4. QED
  BY <1>3 DEF m

\* A number in two bytes.
LEMMA PortBytes ==
  ASSUME NEW v \in Word
  PROVE  High(v) \in Byte /\ Low(v) \in Byte /\ 256 * High(v) + Low(v) = v
<1>1. v \in Int /\ 0 <= v /\ v <= 65535
  BY WordIs
<1> DEFINE q == v \div 256
           r == v % 256
<1>2. q \in Int /\ 0 <= q /\ q <= 255 /\ q \in 0 .. 255
  BY <1>1, SMT
<1>3. r \in 0 .. 255 /\ 256 * q + r = v
  BY <1>1, SMT
<1> HIDE DEF q, r
<1>4. q % 256 = q
  BY <1>2, SMT
<1>5. High(v) = q /\ Low(v) = r
  BY <1>4 DEF q, r, High, Low
<1>6. q \in Byte /\ r \in Byte
  BY <1>2, <1>3, Zenon DEF Byte
<1>7. QED
  BY <1>3, <1>5, <1>6, SMT

\* Two bytes as a number.
LEMMA BytesPort ==
  ASSUME NEW x \in Byte, NEW y \in Byte
  PROVE  256 * x + y \in Word /\ High(256 * x + y) = x /\ Low(256 * x + y) = y
<1>1. x \in Int /\ y \in Int /\ 0 <= x /\ x <= 255 /\ 0 <= y /\ y <= 255
  BY SMT DEF Byte
<1>2. (256 * x + y) % 256 = y
  BY <1>1, SMTT(30)
<1>3. (256 * x + y) \div 256 = x
  BY <1>1, SMTT(30)
<1>4. x % 256 = x
  BY <1>1, SMTT(30)
<1> DEFINE n == 256 * x + y
<1>5. n \in Int /\ 0 <= n /\ n <= 65535
  BY <1>1, SMT
<1> HIDE DEF n
<1>6. n \in Word
  BY <1>5, WordIs
<1>7. QED
  BY <1>2, <1>3, <1>4, <1>6, SMT DEF High, Low, n

\* Lengths and elements of a concatenation.
LEMMA JoinedAt ==
  \A s, t \in Seq(Byte) :
    /\ s \o t \in Seq(Byte) /\ Len(s \o t) = Len(s) + Len(t) /\ Len(s) \in Nat /\ Len(t) \in Nat
    /\ \A i \in 1 .. Len(s) : (s \o t)[i] = s[i]
    /\ \A i \in 1 .. Len(t) : (s \o t)[Len(s) + i] = t[i]
OBVIOUS

\* The host part of an address: a domain has its length in front.
HostPart(a) == IF a.atyp = ATYP_DOMAIN THEN <<Len(a.host)>> \o a.host ELSE a.host
HostAt(a) == IF a.atyp = ATYP_DOMAIN THEN 2 ELSE 1

\* What an encoded address looks like.
LEMMA EncodeAddressAt ==
  ASSUME NEW a \in Addresses
  PROVE  /\ EncodeAddress(a) \in Seq(Byte)
         /\ Len(EncodeAddress(a)) = HostAt(a) + Len(a.host) + 2
         /\ EncodeAddress(a)[1] = a.atyp
         /\ a.atyp = ATYP_DOMAIN => EncodeAddress(a)[2] = Len(a.host)
         /\ \A i \in 1 .. Len(a.host) : EncodeAddress(a)[HostAt(a) + i] = a.host[i]
         /\ EncodeAddress(a)[HostAt(a) + Len(a.host) + 1] = High(a.port)
         /\ EncodeAddress(a)[HostAt(a) + Len(a.host) + 2] = Low(a.port)
<1> DEFINE h == HostPart(a)
           u == U16Bytes(a.port)
           n == Len(a.host)
           e == <<a.atyp>> \o h
<1>1. a.atyp \in Byte /\ a.host \in Seq(Byte) /\ n \in Nat /\ (a.atyp = ATYP_DOMAIN => n \in Byte)
  BY AddressFields DEF ATYP_IPV4, ATYP_DOMAIN, ATYP_IPV6, Byte
<1>2. EncodeAddress(a) = e \o u
  <2>1. a.atyp = ATYP_DOMAIN => Cut255(a.host) = a.host
    <3>1. \A m \in Byte : ~(m > 255)
      BY SMT DEF Byte
    <3>2. QED
      BY <1>1, <3>1, Zenon DEF Cut255
  <2>2. CASE a.atyp = ATYP_DOMAIN
    BY <2>1, <2>2, Zenon DEF EncodeAddress, HostPart
  <2>3. CASE a.atyp # ATYP_DOMAIN
    BY <2>3, Zenon DEF EncodeAddress, HostPart
  <2>4. QED
    BY <2>2, <2>3, Zenon
<1>3. /\ h \in Seq(Byte) /\ Len(h) = HostAt(a) - 1 + n
      /\ a.atyp = ATYP_DOMAIN => h[1] = n
      /\ \A i \in 1 .. n : h[HostAt(a) - 1 + i] = a.host[i]
  <2>1. CASE a.atyp = ATYP_DOMAIN
    <3> DEFINE g == a.host
    <3>1. g \in Seq(Byte) /\ n \in Byte /\ n = Len(g)
      BY <1>1, <2>1
    <3>2. h = <<n>> \o g /\ HostAt(a) = 2
      BY <2>1 DEF HostPart, HostAt
    <3> HIDE DEF g, n, h
    <3>3. <<n>> \in Seq(Byte) /\ Len(<<n>>) = 1 /\ <<n>>[1] = n
      BY <3>1
    <3>4. /\ h \in Seq(Byte) /\ Len(h) = 1 + n /\ h[1] = n
          /\ \A i \in 1 .. n : h[1 + i] = g[i]
      BY <3>1, <3>2, <3>3, JoinedAt
    <3>5. 2 - 1 + n = 1 + n /\ \A i \in 1 .. n : 2 - 1 + i = 1 + i
      BY <3>1, <1>1
    <3>6. QED
      BY <3>2, <3>4, <3>5 DEF g
  <2>2. CASE a.atyp # ATYP_DOMAIN
    BY <1>1, <2>2 DEF HostPart, HostAt
  <2>3. QED
    BY <2>1, <2>2
<1>4. /\ u \in Seq(Byte) /\ Len(u) = 2 /\ u[1] = High(a.port) /\ u[2] = Low(a.port)
  BY AddressFields, PortBytes DEF U16Bytes, High, Low
<1>5. HostAt(a) \in 1 .. 2 /\ (a.atyp = ATYP_DOMAIN => HostAt(a) = 2)
  BY DEF HostAt
<1> DEFINE k == HostAt(a)
<1> HIDE DEF h, u, n, k
<1>6. /\ e \in Seq(Byte) /\ Len(e) = k + n /\ e[1] = a.atyp
      /\ \A i \in 1 .. Len(h) : e[1 + i] = h[i]
  <2>1. <<a.atyp>> \in Seq(Byte) /\ Len(<<a.atyp>>) = 1 /\ <<a.atyp>>[1] = a.atyp
    BY <1>1
  <2>2. QED
    BY <1>1, <1>3, <1>5, <2>1, JoinedAt DEF k
<1> HIDE DEF e
<1>7. /\ e \o u \in Seq(Byte) /\ Len(e \o u) = k + n + 2
      /\ \A i \in 1 .. k + n : (e \o u)[i] = e[i]
      /\ (e \o u)[k + n + 1] = u[1] /\ (e \o u)[k + n + 2] = u[2]
  <2>1. k + n \in Nat /\ Len(e) = k + n /\ Len(u) = 2 /\ e \in Seq(Byte) /\ u \in Seq(Byte)
        /\ 1 \in 1 .. 2 /\ 2 \in 1 .. 2
    BY <1>1, <1>4, <1>5, <1>6 DEF k
  <2>2. /\ e \o u \in Seq(Byte) /\ Len(e \o u) = Len(e) + Len(u)
        /\ \A i \in 1 .. Len(e) : (e \o u)[i] = e[i]
        /\ \A i \in 1 .. Len(u) : (e \o u)[Len(e) + i] = u[i]
    BY <2>1, JoinedAt, Zenon
  <2>3. QED
    BY <2>1, <2>2
<1>8. k \in 1 .. 2 /\ n \in Nat
  BY <1>1, <1>5 DEF k
<1>9. (e \o u)[1] = a.atyp
  BY <1>6, <1>7, <1>8
<1>10. ASSUME a.atyp = ATYP_DOMAIN PROVE (e \o u)[2] = n
  <2>1. k = 2 /\ h[1] = n /\ Len(h) = 1 + n
    BY <1>3, <1>5, <1>10 DEF k
  <2>2. e[1 + 1] = h[1] /\ 2 \in 1 .. k + n
    BY <1>6, <1>8, <2>1
  <2>3. (e \o u)[2] = e[2]
    BY <1>7, <2>2, Zenon
  <2>4. QED
    BY <2>1, <2>2, <2>3
<1>11. ASSUME NEW i \in 1 .. n PROVE (e \o u)[k + i] = a.host[i]
  <2>1. k - 1 + i \in 1 .. Len(h) /\ h[k - 1 + i] = a.host[i] /\ 1 + (k - 1 + i) = k + i
        /\ k + i \in 1 .. k + n
    BY <1>3, <1>8 DEF k
  <2>2. QED
    BY <1>6, <1>7, <2>1
<1>12. QED
  BY <1>2, <1>4, <1>7, <1>9, <1>10, <1>11 DEF k, n

\* The ATYP and length bytes decide how long an address is.
AddrLen(b) == IF b[1] = ATYP_DOMAIN THEN 2 + b[2] + 2
              ELSE IF b[1] = ATYP_IPV4 THEN 1 + V4Len + 2 ELSE 1 + V6Len + 2

\* What Address::decode makes of any bytes.
LEMMA DecodeAddressIs ==
  ASSUME NEW b \in Seq(Byte)
  PROVE  /\ b = <<>> => DecodeAddress(b) = NeedMoreData
         /\ b # <<>> /\ b[1] \in {ATYP_IPV4, ATYP_IPV6} =>
              DecodeAddress(b) = DecodeIp(b, IF b[1] = ATYP_IPV4 THEN V4Len ELSE V6Len)
         /\ b # <<>> /\ b[1] = ATYP_DOMAIN => DecodeAddress(b) = DecodeDomain(b)
         /\ b # <<>> /\ b[1] \notin {ATYP_IPV4, ATYP_IPV6, ATYP_DOMAIN} => DecodeAddress(b) = Invalid
<1>1. ATYP_IPV4 # ATYP_IPV6 /\ ATYP_IPV4 # ATYP_DOMAIN /\ ATYP_IPV6 # ATYP_DOMAIN
  BY DEF ATYP_IPV4, ATYP_IPV6, ATYP_DOMAIN
<1>2. CASE b = <<>>
  BY <1>2, Zenon DEF DecodeAddress
<1>3. CASE b # <<>> /\ b[1] = ATYP_IPV4
  BY <1>1, <1>3 DEF DecodeAddress
<1>4. CASE b # <<>> /\ b[1] = ATYP_IPV6
  BY <1>1, <1>4 DEF DecodeAddress
<1>5. CASE b # <<>> /\ b[1] = ATYP_DOMAIN
  BY <1>1, <1>5 DEF DecodeAddress
<1>6. CASE b # <<>> /\ b[1] \notin {ATYP_IPV4, ATYP_IPV6, ATYP_DOMAIN}
  BY <1>6 DEF DecodeAddress
<1>7. QED
  BY <1>2, <1>3, <1>4, <1>5, <1>6, Zenon

\* The three answers differ.
LEMMA Answers ==
  /\ NeedMoreData.res = "more" /\ Invalid.res = "invalid"
  /\ \A v, n : Ok(v, n).res = "ok" /\ Ok(v, n).value = v /\ Ok(v, n).consumed = n
BY DEF NeedMoreData, Invalid, Ok

\* A piece of bytes.
LEMMA SliceAt ==
  ASSUME NEW b \in Seq(Byte), NEW m \in Nat, NEW n \in Nat, m <= n, n <= Len(b)
  PROVE  /\ Slice(b, m, n) \in Seq(Byte) /\ Len(Slice(b, m, n)) = n - m
         /\ \A i \in 1 .. n - m : Slice(b, m, n)[i] = b[m + i]
<1>1. \A i \in 1 .. Len(b) : b[i] \in Byte
  OBVIOUS
<1>2. m + 1 \in Int /\ n \in Int /\ \A i \in m + 1 .. n : b[i] \in Byte
  BY <1>1
<1>3. /\ SubSeq(b, m + 1, n) \in Seq(Byte)
      /\ Len(SubSeq(b, m + 1, n)) = IF m + 1 <= n THEN n - (m + 1) + 1 ELSE 0
      /\ \A i \in 1 .. n - (m + 1) + 1 : SubSeq(b, m + 1, n)[i] = b[(m + 1) + i - 1]
  BY <1>2, SubSeqProperties
<1>4. QED
  BY <1>3 DEF Slice

\* SliceAt for a slice that starts at the first byte.
LEMMA PrefixAt ==
  ASSUME NEW b \in Seq(Byte), NEW n \in Nat, n <= Len(b)
  PROVE  /\ Slice(b, 0, n) \in Seq(Byte) /\ Len(Slice(b, 0, n)) = n
         /\ \A i \in 1 .. n : Slice(b, 0, n)[i] = b[i]
<1>1. 0 \in Nat /\ 0 <= n /\ n - 0 = n /\ \A i \in 1 .. n : 0 + i = i
  OBVIOUS
<1>2. /\ Slice(b, 0, n) \in Seq(Byte) /\ Len(Slice(b, 0, n)) = n - 0
      /\ \A i \in 1 .. n - 0 : Slice(b, 0, n)[i] = b[0 + i]
  BY <1>1, SliceAt, Zenon
<1>3. QED
  BY <1>1, <1>2, Zenon

\* An address whose bytes are the first of b.
LEMMA AddressComplete ==
  ASSUME NEW a \in Addresses, NEW b \in Seq(Byte), NEW e, e = EncodeAddress(a),
         Len(b) >= Len(e), Agree(b, e, Len(e))
  PROVE  DecodeAddress(b) = Ok(a, Len(e))
<1> DEFINE n == Len(a.host)
           k == HostAt(a)
           h == a.host
<1>1. /\ e \in Seq(Byte) /\ Len(e) = k + n + 2 /\ e[1] = a.atyp
      /\ a.atyp = ATYP_DOMAIN => e[2] = n
      /\ \A i \in 1 .. n : e[k + i] = h[i]
      /\ e[k + n + 1] = High(a.port) /\ e[k + n + 2] = Low(a.port)
  BY EncodeAddressAt, Zenon
<1>2. /\ a = Address(a.atyp, h, a.port)
      /\ a.atyp \in {ATYP_IPV4, ATYP_DOMAIN, ATYP_IPV6} /\ h \in Seq(Byte)
      /\ a.port \in Word /\ n \in Nat
      /\ a.atyp = ATYP_IPV4 => n = V4Len
      /\ a.atyp = ATYP_IPV6 => n = V6Len
      /\ a.atyp = ATYP_DOMAIN => n \in Byte /\ \A i \in DOMAIN h : h[i] # NotUtf8
  BY AddressFields, Zenon
<1>3. k \in 1 .. 2 /\ (a.atyp = ATYP_DOMAIN => k = 2) /\ (a.atyp # ATYP_DOMAIN => k = 1)
      /\ n = Len(h)
  BY DEF HostAt
<1> HIDE DEF n, k, h
<1>4. /\ Len(b) \in Nat /\ Len(b) >= k + n + 2 /\ b # <<>> /\ b[1] = a.atyp
      /\ a.atyp = ATYP_DOMAIN => b[2] = n
      /\ \A i \in 1 .. n : b[k + i] = h[i]
      /\ b[k + n + 1] = High(a.port) /\ b[k + n + 2] = Low(a.port)
  <2>1. Len(b) \in Nat /\ Len(b) >= k + n + 2 /\ 1 \in 1 .. k + n + 2 /\ 2 \in 1 .. k + n + 2
        /\ k + n + 1 \in 1 .. k + n + 2 /\ k + n + 2 \in 1 .. k + n + 2
        /\ \A i \in 1 .. n : k + i \in 1 .. k + n + 2
    BY <1>1, <1>2, <1>3
  <2>2. \A i \in 1 .. k + n + 2 : b[i] = e[i]
    BY <1>1, Zenon DEF Agree
  <2>3. b # <<>>
    BY <1>2, <1>3, <2>1
  <2>4. b[1] = a.atyp /\ (a.atyp = ATYP_DOMAIN => b[2] = n)
    BY <1>1, <2>1, <2>2, Zenon
  <2>5. \A i \in 1 .. n : b[k + i] = h[i]
    BY <1>1, <2>1, <2>2, Zenon
  <2>6. b[k + n + 1] = High(a.port) /\ b[k + n + 2] = Low(a.port)
    BY <1>1, <2>1, <2>2, Zenon
  <2>7. QED
    BY <2>1, <2>3, <2>4, <2>5, <2>6, Zenon
<1>5. U16(b, k + n) = a.port
  <2>1. 256 * High(a.port) + Low(a.port) = a.port
    BY <1>2, PortBytes
  <2>2. QED
    BY <1>4, <2>1, Zenon DEF U16
<1>6. Slice(b, k, k + n) = h
  <2>1. k \in Nat /\ k + n \in Nat /\ k <= k + n /\ k + n <= Len(b) /\ (k + n) - k = n
    BY <1>2, <1>3, <1>4, SMTT(30)
  <2> DEFINE s == Slice(b, k, k + n)
  <2>2. s \in Seq(Byte) /\ Len(s) = n /\ \A i \in 1 .. n : s[i] = b[k + i]
    <3> DEFINE m == k + n
    <3>1. m \in Nat /\ k <= m /\ m <= Len(b) /\ m - k = n
      BY <2>1, <1>2, SMT
    <3> HIDE DEF m
    <3>2. /\ Slice(b, k, m) \in Seq(Byte) /\ Len(Slice(b, k, m)) = m - k
          /\ \A i \in 1 .. m - k : Slice(b, k, m)[i] = b[k + i]
      BY <2>1, <3>1, SliceAt
    <3>3. QED
      BY <3>1, <3>2, Zenon DEF m
  <2> HIDE DEF s
  <2>3. s = h
    BY <1>2, <1>3, <1>4, <2>2, SeqEqual
  <2>4. QED
    BY <2>3 DEF s
<1>7. CASE a.atyp \in {ATYP_IPV4, ATYP_IPV6}
  <2> DEFINE l == IF b[1] = ATYP_IPV4 THEN V4Len ELSE V6Len
  <2>1. l = n /\ k = 1 /\ b[1] \in {ATYP_IPV4, ATYP_IPV6}
    BY <1>2, <1>3, <1>4, <1>7 DEF ATYP_IPV4, ATYP_IPV6, ATYP_DOMAIN
  <2>2. DecodeAddress(b) = DecodeIp(b, n)
    BY <1>4, <2>1, DecodeAddressIs
  <2>3. ~(Len(b) < 1 + n + 2)
    BY <1>2, <1>4, <2>1
  <2>4. DecodeIp(b, n) = Ok(Address(b[1], Slice(b, 1, 1 + n), U16(b, 1 + n)), 1 + n + 2)
    BY <2>3, Zenon DEF DecodeIp
  <2>5. QED
    BY <1>1, <1>2, <1>4, <1>5, <1>6, <2>1, <2>2, <2>4, SMT
<1>8. CASE a.atyp = ATYP_DOMAIN
  <2>1. k = 2 /\ b[2] = n /\ DecodeAddress(b) = DecodeDomain(b)
    BY <1>3, <1>4, <1>8, DecodeAddressIs
  <2>2. ~(Len(b) < 2) /\ ~(Len(b) < 1 + 1 + n + 2) /\ 1 + 1 + n + 2 = 2 + n + 2
    BY <1>2, <1>4, <2>1
  <2>3. Slice(b, 2, 2 + b[2]) = h
    BY <1>6, <2>1
  <2>4. ~(\E i \in DOMAIN h : h[i] = NotUtf8)
    BY <1>2, <1>8, Zenon
  <2>5. DecodeDomain(b) = Ok(Address(ATYP_DOMAIN, h, U16(b, 2 + n)), 1 + 1 + n + 2)
    BY <2>1, <2>2, <2>3, <2>4, Zenon DEF DecodeDomain
  <2>6. QED
    BY <1>1, <1>2, <1>5, <1>8, <2>1, <2>2, <2>5, Zenon
<1>9. QED
  BY <1>2, <1>7, <1>8, Zenon

\* The bytes behind the first n.
LEMMA FromAt ==
  ASSUME NEW b \in Seq(Byte), NEW n \in Nat, n <= Len(b)
  PROVE  /\ From(b, n) \in Seq(Byte) /\ Len(From(b, n)) = Len(b) - n
         /\ \A i \in 1 .. Len(b) - n : From(b, n)[i] = b[n + i]
<1>1. Len(b) \in Nat /\ Len(b) <= Len(b)
  OBVIOUS
<1>2. QED
  BY <1>1, Piece, Zenon DEF From

\* What begins with the bytes of e.
LEMMA SplitAt ==
  ASSUME NEW b \in Seq(Byte), NEW e \in Seq(Byte), Len(e) <= Len(b), Agree(b, e, Len(e))
  PROVE  b = Cat(e, From(b, Len(e)))
<1> DEFINE f == From(b, Len(e))
           c == Cat(e, f)
<1>1. Len(e) \in Nat /\ Len(b) \in Nat
  OBVIOUS
<1>2. f \in Seq(Byte) /\ Len(f) = Len(b) - Len(e) /\ \A i \in 1 .. Len(b) - Len(e) : f[i] = b[Len(e) + i]
  BY <1>1, FromAt
<1> HIDE DEF f
<1>3. /\ c \in Seq(Byte) /\ Len(c) = Len(e) + Len(f)
      /\ \A i \in 1 .. Len(e) : c[i] = e[i]
      /\ \A i \in 1 .. Len(f) : c[Len(e) + i] = f[i]
  <2>1. f \in Seq(Byte)
    BY <1>2
  <2>2. c \in Seq(Byte) /\ Len(c) = Len(e) + Len(f)
    BY <2>1, Joined
  <2>3. \A i \in 1 .. Len(e) : c[i] = e[i]
    BY <2>1, Joined
  <2>4. \A i \in 1 .. Len(f) : c[Len(e) + i] = f[i]
    BY <2>1, Joined, SMT
  <2>5. QED
    BY <2>2, <2>3, <2>4, Zenon
<1> HIDE DEF c
<1>4. ASSUME NEW i \in 1 .. Len(b) PROVE b[i] = c[i]
  <2>1. CASE i <= Len(e)
    BY <1>1, <1>3, <2>1 DEF Agree
  <2>2. CASE ~(i <= Len(e))
    <3> DEFINE j == i - Len(e)
    <3>1. j \in 1 .. Len(f) /\ j \in 1 .. Len(b) - Len(e) /\ Len(e) + j = i
      BY <1>1, <1>2, <2>2
    <3> HIDE DEF j
    <3>2. c[Len(e) + j] = f[j] /\ f[j] = b[Len(e) + j]
      BY <1>2, <1>3, <3>1, Zenon
    <3>3. QED
      BY <3>1, <3>2
  <2>3. QED
    BY <2>1, <2>2
<1>5. Len(c) = Len(b)
  BY <1>1, <1>2, <1>3
<1>6. b = c
  BY <1>3, <1>4, <1>5, SeqEqual
<1>7. QED
  BY <1>6 DEF c, f

\* An address of which b holds at least a part, and what may follow it.
LEMMA AddressDecoded ==
  ASSUME NEW a \in Addresses, NEW b \in Seq(Byte), NEW e, e = EncodeAddress(a), Fits(b, e)
  PROVE  /\ Len(b) < Len(e) => DecodeAddress(b) = NeedMoreData
         /\ Len(b) >= Len(e) => DecodeAddress(b) = Ok(a, Len(e))
<1> DEFINE n == Len(a.host)
           k == HostAt(a)
<1>1. /\ e \in Seq(Byte) /\ Len(e) = k + n + 2 /\ e[1] = a.atyp
      /\ a.atyp = ATYP_DOMAIN => e[2] = n
  BY EncodeAddressAt, Zenon
<1>2. /\ a.atyp \in {ATYP_IPV4, ATYP_DOMAIN, ATYP_IPV6} /\ n \in Nat
      /\ a.atyp = ATYP_IPV4 => n = V4Len
      /\ a.atyp = ATYP_IPV6 => n = V6Len
  BY AddressFields, Zenon
<1>3. k \in 1 .. 2 /\ (a.atyp = ATYP_DOMAIN => k = 2) /\ (a.atyp # ATYP_DOMAIN => k = 1)
  BY DEF HostAt
<1> HIDE DEF n, k
<1>4. Len(b) \in Nat /\ Len(e) \in Nat
  BY <1>1
<1>5. CASE Len(b) >= Len(e)
  <2>1. Agree(b, e, Len(e))
    BY <1>4, <1>5 DEF Fits, Agree
  <2>2. QED
    BY <1>4, <1>5, <2>1, AddressComplete
<1>6. CASE Len(b) < Len(e)
  <2>1. CASE b = <<>>
    <3>1. DecodeAddress(b) = NeedMoreData
      BY <2>1, DecodeAddressIs, Zenon
    <3>2. QED
      BY <1>4, <1>6, <3>1
  <2>2. CASE b # <<>>
    <3>1. b[1] = a.atyp
      <4>1. 1 \in 1 .. Len(b) /\ 1 \in 1 .. Len(e)
        BY <1>4, <1>6, <2>2
      <4>2. QED
        BY <1>1, <4>1, Zenon DEF Fits
    <3>2. CASE a.atyp \in {ATYP_IPV4, ATYP_IPV6}
      <4> DEFINE l == IF b[1] = ATYP_IPV4 THEN V4Len ELSE V6Len
      <4>1. l = n /\ k = 1 /\ b[1] \in {ATYP_IPV4, ATYP_IPV6}
        BY <1>2, <1>3, <3>1, <3>2 DEF ATYP_IPV4, ATYP_IPV6, ATYP_DOMAIN
      <4>2. DecodeAddress(b) = DecodeIp(b, n)
        BY <2>2, <4>1, DecodeAddressIs
      <4>3. Len(b) < 1 + n + 2
        BY <1>1, <1>6, <4>1
      <4>4. QED
        BY <1>4, <1>6, <4>2, <4>3 DEF DecodeIp
    <3>3. CASE a.atyp = ATYP_DOMAIN
      <4>1. DecodeAddress(b) = DecodeDomain(b) /\ k = 2
        BY <1>3, <2>2, <3>1, <3>3, DecodeAddressIs
      <4>2. ASSUME ~(Len(b) < 2) PROVE Len(b) < 1 + 1 + b[2] + 2
        <5>1. 2 \in 1 .. Len(b) /\ 2 \in 1 .. Len(e)
          BY <1>4, <1>6, <4>2
        <5>2. b[2] = n
          BY <1>1, <3>3, <5>1, Zenon DEF Fits
        <5>3. QED
          BY <1>1, <1>2, <1>6, <4>1, <5>2
      <4>3. DecodeDomain(b) = NeedMoreData
        BY <4>2, Zenon DEF DecodeDomain
      <4>4. QED
        BY <1>4, <1>6, <4>1, <4>3
    <3>4. QED
      BY <1>2, <3>2, <3>3, Zenon
  <2>3. QED
    BY <2>1, <2>2, Zenon
<1>7. QED
  BY <1>4, <1>5, <1>6

\* The answers of Address::decode, and what it takes for an address: its bytes
\* are the encoding of what it returns.
LEMMA AddressSound ==
  ASSUME NEW b \in Seq(Byte)
  PROVE  LET d == DecodeAddress(b) IN
         /\ d \in {NeedMoreData, Invalid} \/ d.res = "ok"
         /\ d.res = "ok" =>
              /\ d.value \in Addresses /\ d.consumed = Len(EncodeAddress(d.value))
              /\ d.consumed \in Nat /\ d.consumed <= Len(b)
              /\ Agree(b, EncodeAddress(d.value), d.consumed)
<1> DEFINE d == DecodeAddress(b)
<1>0. NeedMoreData.res # "ok" /\ Invalid.res # "ok" /\ Len(b) \in Nat /\ \A i \in 1 .. Len(b) : b[i] \in Byte
  BY Answers
<1>1. ASSUME NEW a, NEW k \in 1 .. 2, NEW n \in Nat, a \in Addresses, k = HostAt(a), n = Len(a.host),
             k + n + 2 <= Len(b), b[1] = a.atyp, a.atyp = ATYP_DOMAIN => b[2] = n,
             a.host = Slice(b, k, k + n), a.port = U16(b, k + n), d = Ok(a, k + n + 2)
      PROVE  /\ d.value \in Addresses /\ d.consumed = Len(EncodeAddress(d.value))
             /\ d.consumed \in Nat /\ d.consumed <= Len(b)
             /\ Agree(b, EncodeAddress(d.value), d.consumed)
  <2> DEFINE e == EncodeAddress(a)
             m == k + n
  <2>1. /\ e \in Seq(Byte) /\ Len(e) = m + 2 /\ e[1] = a.atyp
        /\ a.atyp = ATYP_DOMAIN => e[2] = n
        /\ \A i \in 1 .. n : e[k + i] = a.host[i]
        /\ e[m + 1] = High(a.port) /\ e[m + 2] = Low(a.port)
    BY <1>1, EncodeAddressAt, Zenon
  <2>2. d.value = a /\ d.consumed = m + 2
    <3>1. d = Ok(a, m + 2)
      BY <1>1, Zenon
    <3> HIDE DEF d, m
    <3>2. QED
      BY <3>1 DEF Ok
  <2>3. m \in Nat /\ k <= m /\ m <= Len(b) /\ m - k = n /\ m + 1 \in 1 .. Len(b) /\ m + 2 \in 1 .. Len(b)
        /\ k \in Nat
    BY <1>0, <1>1, SMTT(30)
  <2>4. a.host = Slice(b, k, m) /\ a.port = U16(b, m)
    BY <1>1, Zenon
  <2>5. (k = 1 \/ (k = 2 /\ a.atyp = ATYP_DOMAIN)) /\ m = k + n
    BY <1>1 DEF HostAt
  <2> HIDE DEF m, e
  <2>6. \A i \in 1 .. m - k : a.host[i] = b[k + i]
    BY <2>3, <2>4, SliceAt, SMTT(30)
  <2>7. High(a.port) = b[m + 1] /\ Low(a.port) = b[m + 2]
    <3>1. b[m + 1] \in Byte /\ b[m + 2] \in Byte /\ a.port = 256 * b[m + 1] + b[m + 2]
      BY <1>0, <2>3, <2>4, Zenon DEF U16
    <3>2. QED
      BY <3>1, BytesPort
  <2>8. ASSUME NEW i \in 1 .. m + 2 PROVE b[i] = e[i]
    <3>1. \/ i = 1 \/ (i = 2 /\ k = 2) \/ i = m + 1 \/ i = m + 2 \/ i - k \in 1 .. n
      <4>1. i \in Int /\ 1 <= i /\ i <= m + 2 /\ k \in 1 .. 2 /\ n \in Nat /\ m = k + n
        BY <2>3, <2>5, <1>1
      <4>2. QED
        BY <4>1, SMT
    <3>2. CASE i = 1
      BY <1>1, <2>1, <3>2, Zenon
    <3>3. CASE i = 2 /\ k = 2
      BY <1>1, <2>1, <2>5, <3>3
    <3>4. CASE i = m + 1 \/ i = m + 2
      BY <2>1, <2>7, <3>4, Zenon
    <3>5. CASE i - k \in 1 .. n
      <4> DEFINE j == i - k
      <4>1. j \in 1 .. n /\ j \in 1 .. m - k /\ k + j = i
        BY <2>3, <3>5
      <4> HIDE DEF j
      <4>2. e[k + j] = a.host[j] /\ a.host[j] = b[k + j]
        BY <2>1, <2>6, <4>1, Zenon
      <4>3. QED
        BY <4>1, <4>2
    <3>6. QED
      BY <3>1, <3>2, <3>3, <3>4, <3>5, Zenon
  <2>9. m + 2 \in Nat /\ m + 2 <= Len(b)
    BY <1>0, <2>3
  <2>10. Agree(b, e, m + 2)
    BY <2>8, Zenon DEF Agree
  <2>11. QED
    BY <1>1, <2>1, <2>2, <2>9, <2>10, Zenon DEF e
<1>2. ASSUME NEW x, NEW n \in Nat, NEW k \in 1 .. 2, k + n + 2 <= Len(b),
             x \in {ATYP_IPV4, ATYP_DOMAIN, ATYP_IPV6}, k = IF x = ATYP_DOMAIN THEN 2 ELSE 1,
             x = ATYP_IPV4 => n = V4Len, x = ATYP_IPV6 => n = V6Len,
             x = ATYP_DOMAIN => n \in Byte /\ b[2] = n
                                /\ ~\E i \in DOMAIN Slice(b, k, k + n) : Slice(b, k, k + n)[i] = NotUtf8,
             b[1] = x, d = Ok(Address(x, Slice(b, k, k + n), U16(b, k + n)), k + n + 2)
      PROVE  d.res = "ok" /\ d.value \in Addresses /\ d.consumed = Len(EncodeAddress(d.value))
             /\ d.consumed \in Nat /\ d.consumed <= Len(b)
             /\ Agree(b, EncodeAddress(d.value), d.consumed)
  <2> DEFINE m == k + n
             h == Slice(b, k, m)
             p == U16(b, m)
             a == Address(x, h, p)
  <2>1. m \in Nat /\ k \in Nat /\ k <= m /\ m <= Len(b) /\ m - k = n
        /\ m + 1 \in 1 .. Len(b) /\ m + 2 \in 1 .. Len(b)
    BY <1>0, <1>2
  <2> HIDE DEF m
  <2>2. h \in Seq(Byte) /\ Len(h) = n
    BY <2>1, SliceAt
  <2>3. p \in Word
    <3>1. b[m + 1] \in Byte /\ b[m + 2] \in Byte
      BY <1>0, <2>1, Zenon
    <3>2. QED
      BY <3>1, BytesPort, SMT DEF U16
  <2>4. x = ATYP_DOMAIN => n \in Byte /\ b[2] = n /\ ~\E i \in DOMAIN h : h[i] = NotUtf8
    BY <1>2, Zenon DEF m
  <2>5. d = Ok(a, k + n + 2) /\ a.host = Slice(b, k, k + n) /\ a.port = U16(b, k + n)
    BY <1>2 DEF m, Address
  <2> HIDE DEF h, p
  <2>6. a \in Addresses /\ a.atyp = x /\ a.host = h
    BY <1>2, <2>2, <2>3, <2>4 DEF Address, Addresses
  <2>7. k = HostAt(a) /\ n = Len(a.host) /\ (a.atyp = ATYP_DOMAIN => b[2] = n)
    BY <1>2, <2>2, <2>6, Zenon DEF HostAt
  <2> HIDE DEF a
  <2>8. b[1] = a.atyp
    BY <1>2, <2>6
  <2>9. d.res = "ok"
    BY <2>5 DEF Ok
  <2>10. QED
    BY <1>1, <1>2, <2>5, <2>6, <2>7, <2>8, <2>9, Zenon
<1>3. ASSUME b # <<>>, b[1] \in {ATYP_IPV4, ATYP_IPV6}, d.res = "ok"
      PROVE  d.value \in Addresses /\ d.consumed = Len(EncodeAddress(d.value))
             /\ d.consumed \in Nat /\ d.consumed <= Len(b)
             /\ Agree(b, EncodeAddress(d.value), d.consumed)
  <2> DEFINE n == IF b[1] = ATYP_IPV4 THEN V4Len ELSE V6Len
             x == b[1]
  <2>1. n \in Nat /\ x # ATYP_DOMAIN /\ x \in {ATYP_IPV4, ATYP_DOMAIN, ATYP_IPV6} /\ 1 \in 1 .. 2
        /\ (x = ATYP_IPV4 => n = V4Len) /\ (x = ATYP_IPV6 => n = V6Len)
    BY <1>3, LengthsAssumption DEF ATYP_IPV4, ATYP_IPV6, ATYP_DOMAIN
  <2>2. d = DecodeIp(b, n)
    BY <1>3, DecodeAddressIs, Zenon
  <2> HIDE DEF n, d
  <2>3. ~(Len(b) < 1 + n + 2)
    BY <1>0, <1>3, <2>2, Zenon DEF DecodeIp
  <2>4. d = Ok(Address(x, Slice(b, 1, 1 + n), U16(b, 1 + n)), 1 + n + 2)
    BY <2>2, <2>3, Zenon DEF DecodeIp
  <2>5. 1 + n + 2 <= Len(b)
    BY <1>0, <2>1, <2>3
  <2>6. 1 = IF x = ATYP_DOMAIN THEN 2 ELSE 1
    BY <2>1, Zenon
  <2> HIDE DEF x
  <2>7. QED
    BY <1>2, <2>1, <2>4, <2>5, <2>6, Zenon DEF d, x
<1>4. ASSUME b # <<>>, b[1] = ATYP_DOMAIN, d.res = "ok"
      PROVE  d.value \in Addresses /\ d.consumed = Len(EncodeAddress(d.value))
             /\ d.consumed \in Nat /\ d.consumed <= Len(b)
             /\ Agree(b, EncodeAddress(d.value), d.consumed)
  <2> DEFINE n == b[2]
             s == Slice(b, 2, 2 + n)
  <2>1. d = DecodeDomain(b)
    BY <1>4, DecodeAddressIs, Zenon
  <2>2. ~(Len(b) < 2) /\ ~(Len(b) < 1 + 1 + n + 2) /\ ~(\E i \in DOMAIN s : s[i] = NotUtf8)
    BY <1>0, <1>4, <2>1, Zenon DEF DecodeDomain
  <2>3. n \in Byte
    <3>1. 2 \in 1 .. Len(b)
      BY <1>0, <2>2
    <3>2. QED
      BY <1>0, <3>1, Zenon
  <2>4. n \in Nat
    <3>1. \A v \in Byte : v \in Nat
      BY DEF Byte
    <3>2. QED
      BY <2>3, <3>1, Zenon
  <2>5. d = Ok(Address(ATYP_DOMAIN, s, U16(b, 2 + n)), 1 + 1 + n + 2)
    BY <2>1, <2>2, Zenon DEF DecodeDomain
  <2>6. 2 + n + 2 <= Len(b) /\ 1 + 1 + n + 2 = 2 + n + 2 /\ 2 \in 1 .. 2
    BY <1>0, <2>2, <2>4
  <2>7. ATYP_DOMAIN # ATYP_IPV4 /\ ATYP_DOMAIN # ATYP_IPV6 /\ b[2] = n
        /\ 2 = IF ATYP_DOMAIN = ATYP_DOMAIN THEN 2 ELSE 1
    BY DEF ATYP_IPV4, ATYP_IPV6, ATYP_DOMAIN
  <2>8. d = Ok(Address(ATYP_DOMAIN, Slice(b, 2, 2 + n), U16(b, 2 + n)), 2 + n + 2)
    BY <2>5, <2>6
  <2>9. ~(\E i \in DOMAIN Slice(b, 2, 2 + n) : Slice(b, 2, 2 + n)[i] = NotUtf8)
    BY <2>2, Zenon
  <2> HIDE DEF n, s, d
  <2>10. QED
    BY <1>2, <1>4, <2>3, <2>4, <2>6, <2>7, <2>8, <2>9, Zenon DEF d
<1>5. ASSUME b # <<>>, b[1] \in {ATYP_IPV4, ATYP_IPV6} PROVE d = NeedMoreData \/ d.res = "ok"
  BY <1>5, DecodeAddressIs DEF DecodeIp, Ok
<1>6. ASSUME b # <<>>, b[1] = ATYP_DOMAIN PROVE d \in {NeedMoreData, Invalid} \/ d.res = "ok"
  BY <1>6, DecodeAddressIs DEF DecodeDomain, Ok
<1>7. ASSUME b = <<>> \/ b[1] \notin {ATYP_IPV4, ATYP_IPV6, ATYP_DOMAIN}
      PROVE  d \in {NeedMoreData, Invalid} /\ d.res # "ok"
  BY <1>0, <1>7, DecodeAddressIs, Zenon
<1>8. b = <<>> \/ (b # <<>> /\ b[1] \in {ATYP_IPV4, ATYP_IPV6}) \/ (b # <<>> /\ b[1] = ATYP_DOMAIN)
      \/ b[1] \notin {ATYP_IPV4, ATYP_IPV6, ATYP_DOMAIN}
  BY Zenon
<1> HIDE DEF d
<1>9. d \in {NeedMoreData, Invalid} \/ d.res = "ok"
  BY <1>5, <1>6, <1>7, <1>8, Zenon
<1>10. ASSUME d.res = "ok"
       PROVE  d.value \in Addresses /\ d.consumed = Len(EncodeAddress(d.value))
              /\ d.consumed \in Nat /\ d.consumed <= Len(b)
              /\ Agree(b, EncodeAddress(d.value), d.consumed)
  BY <1>3, <1>4, <1>7, <1>8, <1>10, Zenon
<1>11. QED
  BY <1>9, <1>10, Zenon DEF d

-----------------------------------------------------------------------------
(* Bytes in front of and behind others.                                    *)

\* The bytes of s stand in c behind the first n.
Stands(c, n, s) == \A i \in 1 .. Len(s) : c[n + i] = s[i]

\* Where the parts of a concatenation stand.
LEMMA Placed ==
  \A x, y \in Seq(Byte) :
     /\ Cat(x, y) \in Seq(Byte) /\ Len(Cat(x, y)) = Len(x) + Len(y) /\ Len(x) \in Nat /\ Len(y) \in Nat
     /\ Stands(Cat(x, y), 0, x) /\ Stands(Cat(x, y), Len(x), y)
<1>1. ASSUME NEW x \in Seq(Byte), NEW y \in Seq(Byte)
      PROVE Stands(Cat(x, y), 0, x)
  <2>1. \A i \in 1 .. Len(x) : Cat(x, y)[i] = x[i] /\ 0 + i = i
    BY Joined, SMT
  <2>2. QED
    BY <2>1, SMT DEF Stands
<1>2. ASSUME NEW x \in Seq(Byte), NEW y \in Seq(Byte)
      PROVE Stands(Cat(x, y), Len(x), y)
  BY Joined, SMT DEF Stands
<1>3. ASSUME NEW x \in Seq(Byte), NEW y \in Seq(Byte)
      PROVE /\ Cat(x, y) \in Seq(Byte) /\ Len(Cat(x, y)) = Len(x) + Len(y) /\ Len(x) \in Nat /\ Len(y) \in Nat
  BY Joined
<1>4. QED
  BY <1>1, <1>2, <1>3, Zenon

\* What stands in a part stands in the whole.
LEMMA Nested ==
  ASSUME NEW c, NEW x \in Seq(Byte), NEW y \in Seq(Byte), NEW m \in Nat, NEW k \in Nat, NEW n \in Nat,
         n = m + k, Stands(c, m, x), Stands(x, k, y), k + Len(y) <= Len(x)
  PROVE  Stands(c, n, y)
<1>1. ASSUME NEW i \in 1 .. Len(y)
      PROVE  c[n + i] = y[i]
  <2> DEFINE j == k + i
  <2>1. j \in 1 .. Len(x) /\ n + i = m + j
    OBVIOUS
  <2>2. x[j] = y[i]
    BY DEF Stands
  <2> HIDE DEF j
  <2>3. c[m + j] = x[j]
    BY <1>1, <2>1, Zenon DEF Stands
  <2>4. QED
    BY <2>1, <2>2, <2>3
<1>2. QED
  BY <1>1, Zenon DEF Stands

\* A concatenation of four.
LEMMA FourParts ==
  ASSUME NEW w \in Seq(Byte), NEW m \in Seq(Byte), NEW e \in Seq(Byte), NEW z \in Seq(Byte)
  PROVE  LET h == Cat(w, Cat(m, Cat(e, z))) IN
    /\ h \in Seq(Byte) /\ Len(h) = Len(w) + Len(m) + Len(e) + Len(z)
    /\ Stands(h, 0, w) /\ Stands(h, Len(w), m) /\ Stands(h, Len(w) + Len(m), e)
    /\ Stands(h, Len(w) + Len(m) + Len(e), z)
<1> DEFINE t2 == Cat(e, z)
           t1 == Cat(m, t2)
           h == Cat(w, t1)
<1>1. /\ t2 \in Seq(Byte) /\ Len(t2) = Len(e) + Len(z) /\ Len(e) \in Nat /\ Len(z) \in Nat
      /\ Stands(t2, 0, e) /\ Stands(t2, Len(e), z)
  BY Placed, Zenon
<1> HIDE DEF t2
<1>2. /\ t1 \in Seq(Byte) /\ Len(t1) = Len(m) + Len(t2) /\ Len(m) \in Nat
      /\ Stands(t1, 0, m) /\ Stands(t1, Len(m), t2)
  BY <1>1, Placed, Zenon
<1> HIDE DEF t1
<1>3. /\ h \in Seq(Byte) /\ Len(h) = Len(w) + Len(t1) /\ Len(w) \in Nat
      /\ Stands(h, 0, w) /\ Stands(h, Len(w), t1)
  BY <1>2, Placed, Zenon
<1> HIDE DEF h
<1> DEFINE lw == Len(w)
           lm == Len(m)
           le == Len(e)
           n2 == lw + lm
           n3 == n2 + le
<1>4. lw \in Nat /\ lm \in Nat /\ le \in Nat /\ n2 \in Nat /\ n3 \in Nat /\ 0 \in Nat
      /\ lw = lw + 0 /\ n2 = lw + lm /\ n2 = n2 + 0 /\ n3 = n2 + le
      /\ 0 + Len(m) <= Len(t1) /\ lm + Len(t2) <= Len(t1) /\ 0 + Len(e) <= Len(t2) /\ le + Len(z) <= Len(t2)
  BY <1>1, <1>2, <1>3
<1>5. /\ Stands(h, lw, t1) /\ Stands(t1, 0, m) /\ Stands(t1, lm, t2)
      /\ Stands(t2, 0, e) /\ Stands(t2, le, z)
  BY <1>1, <1>2, <1>3
<1> HIDE DEF lw, lm, le, n2, n3
<1>6. Stands(h, lw, m)
  BY <1>1, <1>2, <1>3, <1>4, <1>5, Nested
<1>7. Stands(h, n2, t2)
  BY <1>1, <1>2, <1>3, <1>4, <1>5, Nested
<1>8. Stands(h, n2, e)
  BY <1>1, <1>2, <1>3, <1>4, <1>5, <1>7, Nested
<1>9. Stands(h, n3, z)
  BY <1>1, <1>2, <1>3, <1>4, <1>5, <1>7, Nested
<1>10. Len(h) = Len(w) + Len(m) + Len(e) + Len(z)
  BY <1>1, <1>2, <1>3, SMT
<1>11. QED
  BY <1>1, <1>2, <1>3, <1>6, <1>8, <1>9, <1>10 DEF h, t1, t2, lw, lm, le, n2, n3

-----------------------------------------------------------------------------
(* Requests.                                                               *)

\* The fields of a request.
LEMMA RequestFields ==
  ASSUME NEW r \in Requests
  PROVE  /\ r.password \in Seq(Byte) /\ Len(r.password) = PasswordLen /\ r.cmd \in {Connect, UdpAssociate}
         /\ r.addr \in Addresses /\ r.payload \in Seq(Byte) /\ r.cmd \in Byte /\ ValidCmd(r.cmd)
         /\ PasswordLen \in Nat \ {0}
BY LengthsAssumption DEF Requests, Connect, UdpAssociate, Byte, ValidCmd

\* CR and LF are bytes.
LEMMA CrlfBytes == CR \in Byte /\ LF \in Byte /\ \A v \in Byte : v \in Nat
BY DEF CR, LF, Byte

\* The three bytes in front of the address and the two behind it.
LEMMA Marks ==
  ASSUME NEW c \in Byte
  PROVE  /\ <<CR, LF, c>> \in Seq(Byte) /\ Len(<<CR, LF, c>>) = 3
         /\ <<CR, LF, c>>[1] = CR /\ <<CR, LF, c>>[2] = LF /\ <<CR, LF, c>>[3] = c
         /\ <<CR, LF>> \in Seq(Byte) /\ Len(<<CR, LF>>) = 2
         /\ <<CR, LF>>[1] = CR /\ <<CR, LF>>[2] = LF
BY CrlfBytes

\* What the header of a request looks like.
LEMMA HeaderAt ==
  ASSUME NEW r \in Requests
  PROVE  LET e == EncodeAddress(r.addr)
             h == Header(r) IN
         /\ h \in Seq(Byte) /\ e \in Seq(Byte) /\ Len(e) \in Nat /\ Len(h) = AddrAt + Len(e) + 2
         /\ Stands(h, 0, r.password) /\ Stands(h, PasswordLen, <<CR, LF, r.cmd>>)
         /\ Stands(h, AddrAt, e) /\ Stands(h, AddrAt + Len(e), <<CR, LF>>)
<1> DEFINE w == r.password
           m == <<CR, LF, r.cmd>>
           e == EncodeAddress(r.addr)
           z == <<CR, LF>>
           h == Header(r)
           c == Cat(w, Cat(m, Cat(e, z)))
<1>1. w \in Seq(Byte) /\ Len(w) = PasswordLen /\ r.cmd \in Byte /\ PasswordLen \in Nat
  BY RequestFields
<1>2. e \in Seq(Byte) /\ Len(e) \in Nat
  BY RequestFields, EncodeAddressAt
<1>3. m \in Seq(Byte) /\ Len(m) = 3 /\ z \in Seq(Byte) /\ Len(z) = 2
  BY <1>1, Marks, Zenon
<1>4. h = Cat(Cat(Cat(w, m), e), z)
  BY Zenon DEF Header, Cat
<1> HIDE DEF w, m, e, z, h
<1>5. h = c
  BY <1>1, <1>2, <1>3, <1>4, Grouped
<1>6. /\ c \in Seq(Byte) /\ Len(c) = Len(w) + Len(m) + Len(e) + Len(z)
      /\ Stands(c, 0, w) /\ Stands(c, Len(w), m) /\ Stands(c, Len(w) + Len(m), e)
      /\ Stands(c, Len(w) + Len(m) + Len(e), z)
  BY <1>1, <1>2, <1>3, FourParts
<1> HIDE DEF c
<1>7. AddrAt = PasswordLen + 3
  BY <1>1 DEF AddrAt, CmdAt
<1>8. /\ Len(w) + Len(m) = AddrAt
      /\ Len(w) + Len(m) + Len(e) = AddrAt + Len(e)
      /\ Len(w) + Len(m) + Len(e) + Len(z) = AddrAt + Len(e) + 2
  BY <1>1, <1>2, <1>3, <1>7
<1>9. QED
  BY <1>1, <1>2, <1>5, <1>6, <1>8, Zenon DEF w, m, e, z, h

\* Two bytes that stand somewhere.
LEMMA CrlfStands ==
  ASSUME NEW c, NEW n, Stands(c, n, <<CR, LF>>)
  PROVE  c[n + 1] = CR /\ c[n + 2] = LF
BY DEF Stands

\* check_complete and decode_zerocopy look at the same bytes in the same order.
LEMMA SameVerdict ==
  ASSUME NEW b \in Seq(Byte)
  PROVE  CheckComplete(b).res = DecodeRequest(b).res
BY DEF CheckComplete, DecodeRequest, Ok, NeedMoreData, Invalid

\* What decode_zerocopy makes of a request of which b holds at least a part.
THEOREM RequestDecoded ==
  ASSUME NEW r \in Requests, NEW b \in Seq(Byte), NEW h, h = Header(r), Fits(b, h)
  PROVE  /\ Len(b) < MIN_SIZE \/ Len(b) < Len(h) => DecodeRequest(b) = NeedMoreData
         /\ Len(b) >= MIN_SIZE /\ Len(b) >= Len(h) =>
              DecodeRequest(b) = Ok(Request(r.password, r.cmd, r.addr, From(b, Len(h))), Len(h))
<1> DEFINE e == EncodeAddress(r.addr)
           n == Len(e)
           k == PasswordLen
           f == From(b, AddrAt)
<1>1. /\ h \in Seq(Byte) /\ e \in Seq(Byte) /\ n \in Nat /\ Len(h) = AddrAt + n + 2
      /\ \A i \in 1 .. k : h[i] = r.password[i]
      /\ h[k + 1] = CR /\ h[k + 2] = LF /\ h[k + 3] = r.cmd
      /\ \A i \in 1 .. n : h[AddrAt + i] = e[i]
      /\ h[AddrAt + n + 1] = CR /\ h[AddrAt + n + 2] = LF
  <2>1. /\ h \in Seq(Byte) /\ e \in Seq(Byte) /\ n \in Nat /\ Len(h) = AddrAt + n + 2
        /\ Stands(h, 0, r.password) /\ Stands(h, k, <<CR, LF, r.cmd>>)
        /\ Stands(h, AddrAt, e) /\ Stands(h, AddrAt + n, <<CR, LF>>)
    BY HeaderAt, Zenon
  <2>2. Len(r.password) = k /\ k \in Nat
    BY RequestFields
  <2> HIDE DEF n, e, k
  <2>3. \A i \in 1 .. k : h[i] = r.password[i]
    BY <2>1, <2>2 DEF Stands
  <2>4. h[k + 1] = CR /\ h[k + 2] = LF /\ h[k + 3] = r.cmd
    BY <2>1 DEF Stands
  <2>5. \A i \in 1 .. n : h[AddrAt + i] = e[i]
    BY <2>1 DEF Stands, n
  <2>6. h[AddrAt + n + 1] = CR /\ h[AddrAt + n + 2] = LF
    BY <2>1, CrlfStands
  <2>7. QED
    BY <2>1, <2>3, <2>4, <2>5, <2>6
<1>2. k \in Nat /\ AddrAt = k + 3 /\ CmdAt = k + 2 /\ AddrAt \in Nat /\ MIN_SIZE \in Nat /\ MIN_SIZE > AddrAt
      /\ Len(b) \in Nat
  BY LengthsAssumption DEF AddrAt, CmdAt, MIN_SIZE
<1>3. CASE Len(b) < MIN_SIZE
  <2>1. DecodeRequest(b) = NeedMoreData
    BY <1>3, Zenon DEF DecodeRequest
  <2>2. QED
    BY <1>2, <1>3, <2>1
<1>4. CASE ~(Len(b) < MIN_SIZE)
  <2> HIDE DEF e, n, k, f
  <2>1. \A i \in 1 .. k + 3 : b[i] = h[i]
    <3>1. \A i \in 1 .. k + 3 : i \in 1 .. Len(b) /\ i \in 1 .. Len(h)
      BY <1>1, <1>2, <1>4
    <3>2. QED
      BY <3>1, Zenon DEF Fits
  <2>2. CrlfAt(b, k) /\ b[CmdAt + 1] = r.cmd
    <3>1. k + 1 \in 1 .. k + 3 /\ k + 2 \in 1 .. k + 3 /\ k + 3 \in 1 .. k + 3 /\ CmdAt + 1 = k + 3
      BY <1>2
    <3>2. b[k + 1] = CR /\ b[k + 2] = LF /\ b[k + 3] = r.cmd
      BY <1>1, <2>1, <3>1, Zenon
    <3>3. QED
      BY <3>1, <3>2 DEF CrlfAt
  <2>3. ValidCmd(r.cmd) /\ r.addr \in Addresses /\ Len(r.password) = k /\ r.password \in Seq(Byte)
    BY RequestFields DEF k
  <2>4. f \in Seq(Byte) /\ Len(f) = Len(b) - AddrAt /\ \A i \in 1 .. Len(b) - AddrAt : f[i] = b[AddrAt + i]
    <3>1. AddrAt <= Len(b)
      BY <1>2, <1>4
    <3>2. QED
      BY <1>2, <3>1, FromAt DEF f
  <2>5. Fits(f, e)
    <3>1. ASSUME NEW i \in 1 .. Len(f), i \in 1 .. n PROVE f[i] = e[i]
      <4>1. AddrAt + i \in 1 .. Len(b) /\ AddrAt + i \in 1 .. Len(h) /\ i \in 1 .. Len(b) - AddrAt
        <5>1. AddrAt \in Nat /\ n \in Nat /\ Len(b) \in Nat /\ Len(f) = Len(b) - AddrAt
              /\ Len(h) = AddrAt + n + 2 /\ i \in 1 .. n /\ i \in 1 .. Len(f)
          BY <1>1, <1>2, <2>4, <3>1, Zenon
        <5>2. QED
          BY <5>1, SMT
      <4>2. b[AddrAt + i] = h[AddrAt + i]
        BY <4>1, Zenon DEF Fits
      <4>3. QED
        BY <1>1, <2>4, <3>1, <4>1, <4>2, Zenon
    <3>2. QED
      BY <3>1, Zenon DEF Fits, n
  <2>6. /\ Len(f) < n => DecodeAddress(f) = NeedMoreData
        /\ Len(f) >= n => DecodeAddress(f) = Ok(r.addr, n)
    BY <2>3, <2>4, <2>5, AddressDecoded DEF e, n
  <2>7. CASE Len(f) < n
    <3>1. DecodeAddress(f) = NeedMoreData /\ NeedMoreData.res # "ok"
      BY <2>6, <2>7, Answers
    <3>2. DecodeRequest(b) = NeedMoreData
      BY <1>4, <2>2, <2>3, <3>1, Zenon DEF DecodeRequest, f, k
    <3>3. Len(b) < Len(h)
      BY <1>1, <1>2, <2>4, <2>7
    <3>4. QED
      BY <1>1, <1>2, <3>2, <3>3
  <2>8. CASE Len(f) >= n
    <3> DEFINE d == DecodeAddress(f)
               p == AddrAt + n
    <3>1. d.res = "ok" /\ d.value = r.addr /\ d.consumed = n
      BY <2>6, <2>8 DEF Ok
    <3>2. p \in Nat /\ Len(h) = p + 2
      BY <1>1, <1>2
    <3> HIDE DEF d, p
    <3>3. CASE Len(b) < p + 2
      <4>1. DecodeRequest(b) = NeedMoreData
        BY <1>4, <2>2, <2>3, <3>1, <3>3, Zenon DEF DecodeRequest, f, k, d, p
      <4>2. QED
        BY <1>2, <3>2, <3>3, <4>1
    <3>4. CASE ~(Len(b) < p + 2)
      <4>1. p + 1 \in 1 .. Len(b) /\ p + 2 \in 1 .. Len(b) /\ p + 1 \in 1 .. Len(h) /\ p + 2 \in 1 .. Len(h)
        BY <1>2, <3>2, <3>4
      <4>2. h[p + 1] = CR /\ h[p + 2] = LF
        BY <1>1, Zenon DEF p
      <4>3. CrlfAt(b, p)
        BY <4>1, <4>2, Zenon DEF Fits, CrlfAt
      <4>4. DecodeRequest(b) = Ok(Request(Slice(b, 0, k), r.cmd, r.addr, From(b, p + 2)), p + 2)
        BY <1>4, <2>2, <2>3, <3>1, <3>4, <4>3, Zenon DEF DecodeRequest, f, k, d, p
      <4>5. Slice(b, 0, k) = r.password
        <5> DEFINE s == Slice(b, 0, k)
        <5>1. 0 \in Nat /\ 0 <= k /\ k <= Len(b) /\ k - 0 = k /\ \A i \in 1 .. k : 0 + i = i /\ i \in 1 .. k + 3
          BY <1>2, <1>4
        <5>2. s \in Seq(Byte) /\ Len(s) = k - 0 /\ \A i \in 1 .. k - 0 : s[i] = b[0 + i]
          BY <1>2, <5>1, SliceAt
        <5> HIDE DEF s
        <5>3. \A i \in 1 .. k : s[i] = r.password[i]
          BY <1>1, <2>1, <5>1, <5>2, ZenonT(40)
        <5>4. s = r.password
          BY <2>3, <5>1, <5>2, <5>3, SeqEqual
        <5>5. QED
          BY <5>4 DEF s
      <4>6. DecodeRequest(b) = Ok(Request(r.password, r.cmd, r.addr, From(b, Len(h))), Len(h))
        BY <3>2, <4>4, <4>5, Zenon
      <4>7. Len(b) >= Len(h) /\ ~(Len(b) < Len(h))
        BY <1>2, <3>2, <3>4
      <4>8. QED
        BY <1>4, <4>6, <4>7, Zenon
    <3>5. QED
      BY <3>3, <3>4, Zenon
  <2>9. QED
    BY <1>1, <2>4, <2>7, <2>8, <1>2
<1>5. QED
  BY <1>3, <1>4, Zenon

\* What decode_zerocopy takes for a request is one: the bytes are its header and
\* its payload.
THEOREM RequestSound ==
  ASSUME NEW b \in Seq(Byte), DecodeRequest(b).res = "ok"
  PROVE  LET r == DecodeRequest(b).value IN
         r \in Requests /\ b = Cat(Header(r), r.payload)
<1> DEFINE k == PasswordLen
           f == From(b, AddrAt)
           d == DecodeAddress(f)
           n == d.consumed
           p == AddrAt + n
           r == DecodeRequest(b).value
           e == EncodeAddress(d.value)
<1>1. k \in Nat /\ AddrAt = k + 3 /\ CmdAt = k + 2 /\ AddrAt \in Nat /\ MIN_SIZE \in Nat /\ MIN_SIZE > AddrAt
      /\ Len(b) \in Nat /\ CmdAt + 1 = k + 3
  BY LengthsAssumption DEF AddrAt, CmdAt, MIN_SIZE
<1>2. NeedMoreData.res # "ok" /\ Invalid.res # "ok"
  BY Answers
<1>3. /\ ~(Len(b) < MIN_SIZE) /\ CrlfAt(b, k) /\ ValidCmd(b[CmdAt + 1]) /\ d.res = "ok"
      /\ ~(Len(b) < p + 2) /\ CrlfAt(b, p)
  BY <1>2, Zenon DEF DecodeRequest
<1>4. DecodeRequest(b) = Ok(Request(Slice(b, 0, k), b[CmdAt + 1], d.value, From(b, p + 2)), p + 2)
  BY <1>3, Zenon DEF DecodeRequest
<1>5. f \in Seq(Byte) /\ Len(f) = Len(b) - AddrAt /\ \A i \in 1 .. Len(b) - AddrAt : f[i] = b[AddrAt + i]
  <2>1. AddrAt <= Len(b)
    BY <1>1, <1>3
  <2>2. QED
    BY <1>1, <2>1, FromAt
<1>6. d.value \in Addresses /\ n = Len(e) /\ n \in Nat /\ n <= Len(f) /\ Agree(f, e, n)
  BY <1>3, <1>5, AddressSound, Zenon
<1> DEFINE w == Slice(b, 0, k)
           c == b[CmdAt + 1]
           q == From(b, p + 2)
<1>7. w \in Seq(Byte) /\ Len(w) = k /\ \A i \in 1 .. k : w[i] = b[i]
  <2>1. k <= Len(b)
    BY <1>1, <1>3
  <2>2. QED
    BY <1>1, <2>1, PrefixAt, Zenon
<1>8. c \in {Connect, UdpAssociate}
  BY <1>3, Zenon DEF ValidCmd
<1>9. p \in Nat /\ p + 2 <= Len(b) /\ p + 2 \in Nat
  BY <1>1, <1>3, <1>6, SMTT(30)
<1>10. q \in Seq(Byte)
  BY <1>9, FromAt
<1>11. r = Request(w, c, d.value, q)
  BY <1>4 DEF Ok
<1> HIDE DEF k, f, d, n, p, r, e, w, c, q
<1>12. r.password = w /\ r.cmd = c /\ r.addr = d.value /\ r.payload = q
  BY <1>11 DEF Request
<1>13. r \in Requests
  BY <1>6, <1>7, <1>8, <1>10, <1>11 DEF Request, Requests, k
<1> DEFINE h == Header(r)
<1>14. /\ h \in Seq(Byte) /\ e \in Seq(Byte) /\ n \in Nat /\ Len(h) = AddrAt + n + 2
       /\ Stands(h, 0, w) /\ Stands(h, k, <<CR, LF, c>>)
       /\ Stands(h, AddrAt, e) /\ Stands(h, AddrAt + n, <<CR, LF>>)
  BY <1>6, <1>12, <1>13, HeaderAt, Zenon DEF e, k
<1> HIDE DEF h
<1>15. ASSUME NEW i \in 1 .. Len(h) PROVE b[i] = h[i]
  <2>1. \/ i \in 1 .. k \/ i = k + 1 \/ i = k + 2 \/ i = k + 3 \/ i - AddrAt \in 1 .. n
        \/ i = p + 1 \/ i = p + 2
    <3>1. i \in Int /\ 1 <= i /\ i <= AddrAt + n + 2 /\ AddrAt = k + 3 /\ k \in Nat /\ n \in Nat /\ p = AddrAt + n
      BY <1>1, <1>6, <1>14 DEF p
    <3>2. QED
      BY <3>1, SMT
  <2>2. CASE i \in 1 .. k
    BY <1>7, <1>14, <2>2 DEF Stands
  <2>3. CASE i = k + 1 \/ i = k + 2
    <3>1. b[k + 1] = CR /\ b[k + 2] = LF
      BY <1>3, Zenon DEF CrlfAt
    <3>2. h[k + 1] = CR /\ h[k + 2] = LF
      BY <1>14 DEF Stands
    <3>3. QED
      BY <2>3, <3>1, <3>2, Zenon
  <2>4. CASE i = k + 3
    <3>1. b[k + 3] = c
      BY <1>1 DEF c
    <3>2. h[k + 3] = c
      BY <1>14 DEF Stands
    <3>3. QED
      BY <2>4, <3>1, <3>2, Zenon
  <2>5. CASE i - AddrAt \in 1 .. n
    <3> DEFINE j == i - AddrAt
    <3>1. j \in 1 .. n /\ i = AddrAt + j /\ j \in 1 .. Len(b) - AddrAt /\ j \in 1 .. Len(e)
      BY <1>1, <1>5, <1>6, <2>5
    <3> HIDE DEF j
    <3>2. f[j] = e[j] /\ f[j] = b[AddrAt + j] /\ h[AddrAt + j] = e[j]
      BY <1>5, <1>6, <1>14, <3>1, Zenon DEF Agree, Stands
    <3>3. QED
      BY <3>1, <3>2
  <2>6. CASE i = p + 1 \/ i = p + 2
    <3>1. b[p + 1] = CR /\ b[p + 2] = LF
      BY <1>3, Zenon DEF CrlfAt
    <3>2. Stands(h, p, <<CR, LF>>)
      BY <1>14, Zenon DEF p
    <3>3. h[p + 1] = CR /\ h[p + 2] = LF
      BY <3>2, CrlfStands, Zenon
    <3>4. QED
      BY <2>6, <3>1, <3>3, Zenon
  <2>7. QED
    BY <2>1, <2>2, <2>3, <2>4, <2>5, <2>6, Zenon
<1>16. Len(h) = p + 2 /\ Len(h) <= Len(b) /\ Agree(b, h, Len(h))
  BY <1>9, <1>14, <1>15 DEF Agree, p
<1>17. b = Cat(h, From(b, Len(h)))
  BY <1>14, <1>16, SplitAt
<1>18. QED
  BY <1>12, <1>13, <1>16, <1>17, Zenon DEF q, h, r

-----------------------------------------------------------------------------
(* UDP packets.                                                            *)

\* The fields of a packet.
LEMMA PacketFields ==
  ASSUME NEW p \in Packets
  PROVE  /\ p = Packet(p.addr, p.payload) /\ p.addr \in Addresses /\ p.payload \in Seq(Byte)
         /\ Len(p.payload) \in Word /\ Len(p.payload) \in Nat
BY DEF Packets, Packet

\* What an encoded packet looks like.
LEMMA FramedAt ==
  ASSUME NEW p \in Packets
  PROVE  LET e == EncodeAddress(p.addr)
             g == Framed(p)
             l == Len(p.payload) IN
         /\ g \in Seq(Byte) /\ e \in Seq(Byte) /\ Len(e) \in Nat /\ Len(g) = Len(e) + 4 + l
         /\ Stands(g, 0, e) /\ g[Len(e) + 1] = High(l) /\ g[Len(e) + 2] = Low(l)
         /\ g[Len(e) + 3] = CR /\ g[Len(e) + 4] = LF /\ Stands(g, Len(e) + 4, p.payload)
<1> DEFINE e == EncodeAddress(p.addr)
           l == Len(p.payload)
           u == U16Bytes(l)
           z == <<CR, LF>>
           q == p.payload
           g == Framed(p)
           c == Cat(e, Cat(u, Cat(z, q)))
<1>1. q \in Seq(Byte) /\ l = Len(q) /\ l \in Nat /\ l \in Word
  BY PacketFields
<1>2. e \in Seq(Byte) /\ Len(e) \in Nat
  BY PacketFields, EncodeAddressAt
<1>3. z \in Seq(Byte) /\ Len(z) = 2
  BY CrlfBytes
<1>4. u \in Seq(Byte) /\ Len(u) = 2 /\ u[1] = High(l) /\ u[2] = Low(l)
  <2>1. u = <<High(l), Low(l)>>
    BY Zenon DEF U16Bytes, High, Low
  <2>2. High(l) \in Byte /\ Low(l) \in Byte
    BY <1>1, PortBytes
  <2> HIDE DEF u
  <2>3. QED
    BY <2>1, <2>2
<1>5. g = Cat(Cat(Cat(e, u), z), q)
  BY Zenon DEF Framed, EncodeUdp, Cat
<1> HIDE DEF e, l, u, z, q, g
<1>6. g = c
  BY <1>1, <1>2, <1>3, <1>4, <1>5, Grouped
<1>7. /\ c \in Seq(Byte) /\ Len(c) = Len(e) + Len(u) + Len(z) + Len(q)
      /\ Stands(c, 0, e) /\ Stands(c, Len(e), u) /\ Stands(c, Len(e) + Len(u), z)
      /\ Stands(c, Len(e) + Len(u) + Len(z), q)
  BY <1>1, <1>2, <1>3, <1>4, FourParts
<1> HIDE DEF c
<1>8. /\ Len(e) + Len(u) + Len(z) = Len(e) + 4 /\ Len(e) + Len(u) = Len(e) + 2
      /\ Len(e) + Len(u) + Len(z) + Len(q) = Len(e) + 4 + l
  BY <1>1, <1>2, <1>3, <1>4
<1>9. c[Len(e) + 1] = High(l) /\ c[Len(e) + 2] = Low(l)
  BY <1>4, <1>7 DEF Stands
<1>10. c[Len(e) + 3] = CR /\ c[Len(e) + 4] = LF
  <2>1. c[(Len(e) + 2) + 1] = CR /\ c[(Len(e) + 2) + 2] = LF
    BY <1>7, <1>8, CrlfStands DEF z
  <2>2. (Len(e) + 2) + 1 = Len(e) + 3 /\ (Len(e) + 2) + 2 = Len(e) + 4
    BY <1>2
  <2>3. QED
    BY <2>1, <2>2
<1>11. Stands(c, Len(e) + 4, q) /\ Len(c) = Len(e) + 4 + l
  BY <1>7, <1>8
<1>12. QED
  BY <1>2, <1>6, <1>7, <1>9, <1>10, <1>11, Zenon DEF e, l, q, g

\* What TrojanUdpPacket::decode makes of a packet of which b holds at least a
\* part.
THEOREM UdpDecoded ==
  ASSUME NEW p \in Packets, NEW b \in Seq(Byte), NEW g, g = Framed(p), Fits(b, g)
  PROVE  /\ Len(b) < UDP_MIN_SIZE \/ Len(b) < Len(g) => DecodeUdp(b) = NeedMoreData
         /\ Len(b) >= UDP_MIN_SIZE /\ Len(b) >= Len(g) => DecodeUdp(b) = Ok(p, Len(g))
<1> DEFINE e == EncodeAddress(p.addr)
           n == Len(e)
           q == p.payload
           l == Len(q)
<1>1. /\ g \in Seq(Byte) /\ e \in Seq(Byte) /\ n \in Nat /\ Len(g) = n + 4 + l
      /\ Stands(g, 0, e) /\ g[n + 1] = High(l) /\ g[n + 2] = Low(l)
      /\ g[n + 3] = CR /\ g[n + 4] = LF /\ Stands(g, n + 4, q)
  BY FramedAt, Zenon
<1>2. p = Packet(p.addr, q) /\ p.addr \in Addresses /\ q \in Seq(Byte) /\ l \in Word /\ l \in Nat
      /\ 256 * High(l) + Low(l) = l
  BY PacketFields, PortBytes, Zenon
<1>3. Len(b) \in Nat /\ UDP_MIN_SIZE \in Nat
  BY LengthsAssumption DEF UDP_MIN_SIZE
<1>4. CASE Len(b) < UDP_MIN_SIZE
  <2>1. DecodeUdp(b) = NeedMoreData
    BY <1>4, Zenon DEF DecodeUdp
  <2>2. QED
    BY <1>3, <1>4, <2>1
<1>5. CASE ~(Len(b) < UDP_MIN_SIZE)
  <2> HIDE DEF n, q, l, e
  <2>1. Fits(b, e)
    <3>1. ASSUME NEW i \in 1 .. Len(b), i \in 1 .. n PROVE b[i] = e[i]
      <4>1. i \in 1 .. Len(g) /\ 0 + i = i
        BY <1>1, <1>2, <3>1
      <4>2. b[i] = g[i]
        BY <4>1, Zenon DEF Fits
      <4>3. g[0 + i] = e[i]
        BY <1>1, <3>1, Zenon DEF Stands, n
      <4>4. QED
        BY <4>1, <4>2, <4>3
    <3>2. QED
      BY <3>1, Zenon DEF Fits, n
  <2>2. /\ Len(b) < n => DecodeAddress(b) = NeedMoreData
        /\ Len(b) >= n => DecodeAddress(b) = Ok(p.addr, n)
    BY <1>2, <2>1, AddressDecoded DEF e, n
  <2>3. CASE Len(b) < n
    <3>1. DecodeAddress(b) = NeedMoreData /\ NeedMoreData.res # "ok"
      BY <2>2, <2>3, Answers
    <3>2. DecodeUdp(b) = NeedMoreData
      BY <1>5, <3>1, Zenon DEF DecodeUdp
    <3>3. Len(b) < Len(g)
      BY <1>1, <1>2, <1>3, <2>3
    <3>4. QED
      BY <1>1, <1>3, <3>2, <3>3
  <2>4. CASE Len(b) >= n
    <3> DEFINE d == DecodeAddress(b)
    <3>1. d.res = "ok" /\ d.value = p.addr /\ d.consumed = n
      BY <2>2, <2>4 DEF Ok
    <3> HIDE DEF d
    <3>2. CASE Len(b) < n + 4
      <4>1. DecodeUdp(b) = NeedMoreData
        BY <1>5, <3>1, <3>2, Zenon DEF DecodeUdp, d
      <4>2. Len(b) < Len(g)
        BY <1>1, <1>2, <1>3, <3>2
      <4>3. QED
        BY <1>1, <1>3, <4>1, <4>2
    <3>3. CASE ~(Len(b) < n + 4)
      <4>1. \A i \in 1 .. 4 : n + i \in 1 .. Len(b) /\ n + i \in 1 .. Len(g)
        BY <1>1, <1>2, <1>3, <3>3
      <4>2. \A i \in 1 .. 4 : b[n + i] = g[n + i]
        BY <4>1, Zenon DEF Fits
      <4>3. b[n + 1] = High(l) /\ b[n + 2] = Low(l) /\ b[n + 3] = CR /\ b[n + 4] = LF
        BY <1>1, <4>2
      <4>4. U16(b, n) = l
        BY <1>2, <4>3, Zenon DEF U16
      <4>5. CrlfAt(b, n + 2)
        <5>1. (n + 2) + 1 = n + 3 /\ (n + 2) + 2 = n + 4
          BY <1>1
        <5>2. QED
          BY <4>3, <5>1 DEF CrlfAt
      <4>6. CASE Len(b) < n + 4 + l
        <5>1. DecodeUdp(b) = NeedMoreData
          BY <1>5, <3>1, <3>3, <4>4, <4>5, <4>6, Zenon DEF DecodeUdp, d
        <5>2. QED
          BY <1>1, <1>3, <4>6, <5>1
      <4>7. CASE ~(Len(b) < n + 4 + l)
        <5> DEFINE m == n + 4
                   t == m + l
                   s == Slice(b, m, t)
        <5>1. DecodeUdp(b) = Ok(Packet(p.addr, s), t)
          BY <1>5, <3>1, <3>3, <4>4, <4>5, <4>7, Zenon DEF DecodeUdp, d
        <5>2. m \in Nat /\ t \in Nat /\ m <= t /\ t <= Len(b) /\ t - m = l /\ Len(g) = t
          BY <1>1, <1>2, <1>3, <4>7
        <5>3. Stands(g, m, q) /\ \A i \in 1 .. l : m + i \in 1 .. Len(b) /\ m + i \in 1 .. Len(g)
          BY <1>1, <1>2, <1>3, <4>7
        <5> HIDE DEF m, t
        <5>4. s \in Seq(Byte) /\ Len(s) = t - m /\ \A i \in 1 .. t - m : s[i] = b[m + i]
          BY <5>2, SliceAt, ZenonT(40)
        <5> HIDE DEF s
        <5>5. ASSUME NEW i \in 1 .. l PROVE s[i] = q[i]
          <6>1. s[i] = b[m + i]
            BY <5>2, <5>4
          <6>2. b[m + i] = g[m + i]
            BY <5>3, Zenon DEF Fits
          <6>3. g[m + i] = q[i]
            BY <5>3, Zenon DEF Stands, l
          <6>4. QED
            BY <6>1, <6>2, <6>3, Zenon
        <5>6. s = q
          <6>1. Len(s) = Len(q) /\ Len(q) = l
            BY <5>2, <5>4 DEF l
          <6>2. QED
            BY <1>2, <5>4, <5>5, <6>1, SeqEqual
        <5>7. DecodeUdp(b) = Ok(p, Len(g))
          BY <1>2, <5>1, <5>2, <5>6
        <5>8. Len(b) >= Len(g) /\ ~(Len(b) < Len(g))
          BY <1>3, <5>2
        <5>9. QED
          BY <1>5, <5>7, <5>8, Zenon
      <4>8. QED
        BY <4>6, <4>7, Zenon
    <3>4. QED
      BY <3>2, <3>3, Zenon
  <2>5. QED
    BY <1>1, <1>3, <2>3, <2>4
<1>6. QED
  BY <1>4, <1>5, Zenon

\* What TrojanUdpPacket::decode takes for a packet is one, and its answers.
THEOREM UdpSound ==
  ASSUME NEW b \in Seq(Byte)
  PROVE  LET d == DecodeUdp(b) IN
         /\ d.res \in {"ok", "more", "invalid"}
         /\ d.res = "ok" => /\ d.value \in Packets /\ d.consumed \in Nat /\ d.consumed <= Len(b)
                            /\ b = Cat(Framed(d.value), From(b, d.consumed))
                            /\ d.consumed = Len(Framed(d.value)) /\ From(b, d.consumed) \in Seq(Byte)
<1> DEFINE a == DecodeAddress(b)
           n == a.consumed
           l == U16(b, n)
           m == n + 4
           t == m + l
           s == Slice(b, m, t)
           v == Packet(a.value, s)
           d == DecodeUdp(b)
<1>1. NeedMoreData.res = "more" /\ Invalid.res = "invalid" /\ Len(b) \in Nat
  BY Answers
<1>2. a \in {NeedMoreData, Invalid} \/ a.res = "ok"
  BY AddressSound, Zenon
<1>3. d \in {NeedMoreData, Invalid} \/ d = Ok(v, t)
  BY <1>2, Zenon DEF DecodeUdp
<1>4. d.res \in {"ok", "more", "invalid"}
  BY <1>1, <1>3 DEF Ok
<1>5. ASSUME d.res = "ok"
      PROVE  /\ d.value \in Packets /\ d.consumed \in Nat /\ d.consumed <= Len(b)
             /\ b = Cat(Framed(d.value), From(b, d.consumed))
             /\ d.consumed = Len(Framed(d.value)) /\ From(b, d.consumed) \in Seq(Byte)
  <2>1. /\ a.res = "ok" /\ ~(Len(b) < n + 4) /\ CrlfAt(b, n + 2) /\ ~(Len(b) < n + 4 + U16(b, n))
    BY <1>1, <1>5, Zenon DEF DecodeUdp
  <2>2. d = Ok(v, t)
    BY <1>1, <1>3, <1>5
  <2> DEFINE e == EncodeAddress(a.value)
  <2>3. a.value \in Addresses /\ n = Len(e) /\ n \in Nat /\ n <= Len(b) /\ Agree(b, e, n)
    BY <2>1, AddressSound, Zenon
  <2>4. e \in Seq(Byte)
    BY <2>3, EncodeAddressAt
  <2> HIDE DEF a, n, e
  <2>5. b[n + 1] \in Byte /\ b[n + 2] \in Byte
    <3>1. n + 1 \in 1 .. Len(b) /\ n + 2 \in 1 .. Len(b)
      BY <1>1, <2>1, <2>3
    <3>2. QED
      BY <3>1
  <2>6. l \in Word /\ High(l) = b[n + 1] /\ Low(l) = b[n + 2]
    BY <2>5, BytesPort, SMT DEF U16
  <2>7. l \in Nat
    <3>1. \A x \in Word : x \in Nat
      BY WordIs
    <3>2. QED
      BY <2>6, <3>1, Zenon
  <2>8. m \in Nat /\ t \in Nat /\ m <= t /\ t <= Len(b) /\ t - m = l /\ t = n + 4 + l
    BY <1>1, <2>1, <2>3, <2>7
  <2> HIDE DEF l, m, t
  <2>9. s \in Seq(Byte) /\ Len(s) = t - m /\ \A i \in 1 .. t - m : s[i] = b[m + i]
    BY <2>8, SliceAt
  <2> HIDE DEF s
  <2>10. Len(s) = l
    BY <2>8, <2>9
  <2>11. v \in Packets /\ v.addr = a.value /\ v.payload = s
    BY <2>3, <2>6, <2>9, <2>10 DEF Packet, Packets
  <2>12. d.value = v /\ d.consumed = t
    BY <2>2 DEF Ok
  <2> HIDE DEF v, d
  <2> DEFINE g == Framed(v)
  <2>13. /\ g \in Seq(Byte) /\ Len(g) = n + 4 + l
         /\ Stands(g, 0, e) /\ g[n + 1] = High(l) /\ g[n + 2] = Low(l)
         /\ g[n + 3] = CR /\ g[n + 4] = LF /\ Stands(g, n + 4, s)
    BY <2>3, <2>10, <2>11, FramedAt, Zenon DEF e
  <2> HIDE DEF g
  <2>14. ASSUME NEW i \in 1 .. Len(g) PROVE b[i] = g[i]
    <3>1. i \in 1 .. n \/ i = n + 1 \/ i = n + 2 \/ i = n + 3 \/ i = n + 4 \/ i - m \in 1 .. l
      <4>1. i \in Int /\ 1 <= i /\ i <= n + 4 + l /\ n \in Nat /\ l \in Nat /\ m = n + 4
        BY <2>3, <2>7, <2>13 DEF m
      <4>2. QED
        BY <4>1, SMT
    <3>2. CASE i \in 1 .. n
      <4>1. b[i] = e[i]
        BY <2>3, <3>2, Zenon DEF Agree
      <4>2. g[0 + i] = e[i] /\ 0 + i = i
        BY <2>3, <2>13, <3>2 DEF Stands
      <4>3. QED
        BY <4>1, <4>2
    <3>3. CASE i = n + 1 \/ i = n + 2
      BY <2>6, <2>13, <3>3, Zenon
    <3>4. CASE i = n + 3 \/ i = n + 4
      <4>1. b[(n + 2) + 1] = CR /\ b[(n + 2) + 2] = LF
        BY <2>1, Zenon DEF CrlfAt
      <4>2. (n + 2) + 1 = n + 3 /\ (n + 2) + 2 = n + 4
        BY <2>3
      <4>3. QED
        BY <2>13, <3>4, <4>1, <4>2
    <3>5. CASE i - m \in 1 .. l
      <4> DEFINE j == i - m
      <4>1. j \in 1 .. t - m /\ j \in 1 .. Len(s) /\ m + j = i
        BY <2>8, <2>10, <3>5
      <4> HIDE DEF j
      <4>2. Stands(g, m, s)
        BY <2>13, Zenon DEF m
      <4>3. s[j] = b[m + j] /\ g[m + j] = s[j]
        BY <2>9, <4>1, <4>2, Zenon DEF Stands
      <4>4. QED
        BY <4>1, <4>3
    <3>6. QED
      BY <3>1, <3>2, <3>3, <3>4, <3>5, Zenon
  <2>15. Len(g) = t /\ Len(g) <= Len(b) /\ Agree(b, g, Len(g))
    BY <2>8, <2>13, <2>14 DEF Agree
  <2>16. b = Cat(g, From(b, Len(g)))
    BY <2>13, <2>15, SplitAt
  <2>17. From(b, t) \in Seq(Byte)
    BY <2>8, FromAt
  <2>18. QED
    BY <2>8, <2>11, <2>12, <2>15, <2>16, <2>17, Zenon DEF g
<1>6. QED
  BY <1>4, <1>5, Zenon

-----------------------------------------------------------------------------
(* Packets one behind the other.                                           *)

\* The encodings of the packets ps.
Frames(ps) == [k \in DOMAIN ps |-> Framed(ps[k])]

\* They are sequences of bytes.
LEMMA FramesType ==
  ASSUME NEW ps \in Seq(Packets)
  PROVE  /\ Frames(ps) \in Seq(Seq(Byte)) /\ Len(Frames(ps)) = Len(ps)
         /\ \A i \in 1 .. Len(ps) : Frames(ps)[i] = Framed(ps[i])
         /\ FramedAll(ps) \in Seq(Byte) /\ FramedAll(ps) = FlattenSeq(Frames(ps))
         /\ FramedAll(<<>>) = <<>>
<1>0. \A p \in Packets : Framed(p) \in Seq(Byte)
  BY FramedAt, Zenon
<1>1. DOMAIN ps = 1 .. Len(ps) /\ Len(ps) \in Nat /\ \A i \in 1 .. Len(ps) : Framed(ps[i]) \in Seq(Byte)
  BY <1>0
<1>2. Frames(ps) \in [1 .. Len(ps) -> Seq(Byte)] /\ \A i \in 1 .. Len(ps) : Frames(ps)[i] = Framed(ps[i])
  BY <1>1 DEF Frames
<1>3. Frames(ps) \in Seq(Seq(Byte)) /\ Len(Frames(ps)) = Len(ps)
  BY <1>1, <1>2
<1>4. FramedAll(ps) = FlattenSeq(Frames(ps))
  BY Zenon DEF FramedAll, Frames
<1>5. FramedAll(ps) \in Seq(Byte)
  BY <1>3, <1>4, FlattenType
<1>6. FramedAll(<<>>) = <<>>
  <2>1. Frames(<<>>) = <<>>
    BY DEF Frames
  <2>2. FlattenSeq(<<>>) = <<>>
    BY DEF FlattenSeq
  <2>3. QED
    BY <2>1, <2>2 DEF FramedAll, Frames
<1>7. QED
  BY <1>2, <1>3, <1>4, <1>5, <1>6

\* One more packet.
LEMMA FramedAppend ==
  ASSUME NEW ps \in Seq(Packets), NEW p \in Packets
  PROVE  FramedAll(Append(ps, p)) = Cat(FramedAll(ps), Framed(p))
<1> DEFINE t == Append(ps, p)
           l == Frames(ps)
           x == Framed(p)
           r == Append(l, x)
           f == Frames(t)
<1>1. t \in Seq(Packets) /\ Len(t) = Len(ps) + 1 /\ Len(ps) \in Nat /\ t[Len(ps) + 1] = p
      /\ (\A i \in 1 .. Len(ps) : t[i] = ps[i])
  OBVIOUS
<1>2. l \in Seq(Seq(Byte)) /\ Len(l) = Len(ps) /\ \A i \in 1 .. Len(ps) : l[i] = Framed(ps[i])
  BY FramesType, Zenon
<1>3. x \in Seq(Byte)
  BY FramedAt, Zenon
<1> HIDE DEF t, l
<1>4. /\ f \in Seq(Seq(Byte)) /\ Len(f) = Len(t) /\ FramedAll(t) = FlattenSeq(f)
      /\ \A i \in 1 .. Len(t) : f[i] = Framed(t[i])
  BY <1>1, FramesType, Zenon
<1> HIDE DEF f, x
<1>5. r \in Seq(Seq(Byte)) /\ Len(r) = Len(ps) + 1 /\ r[Len(ps) + 1] = x
      /\ \A i \in 1 .. Len(ps) : r[i] = l[i]
  BY <1>1, <1>2, <1>3
<1> HIDE DEF r
<1>6. ASSUME NEW i \in 1 .. Len(t)
      PROVE  f[i] = r[i]
  <2>1. CASE i = Len(ps) + 1
    <3>1. f[i] = Framed(t[Len(ps) + 1])
      BY <1>4, <2>1, Zenon
    <3>2. QED
      BY <1>1, <1>5, <2>1, <3>1 DEF x
  <2>2. CASE i # Len(ps) + 1
    <3>1. i \in 1 .. Len(ps)
      BY <1>1, <2>2
    <3>2. QED
      BY <1>1, <1>2, <1>4, <1>5, <3>1, Zenon
  <2>3. QED
    BY <2>1, <2>2
<1>7. f = r
  BY <1>1, <1>4, <1>5, <1>6, SeqEqual
<1>8. FlattenSeq(Append(l, x)) = FlattenSeq(l) \o x
  BY <1>2, <1>3, FlattenAppend
<1>9. FramedAll(ps) = FlattenSeq(l)
  BY FramesType, Zenon DEF l
<1>10. QED
  BY <1>4, <1>7, <1>8, <1>9, Zenon DEF Cat, t, r, x

\* The first n packets.
First(ps, n) == SubSeq(ps, 1, n)

\* One more of them.
LEMMA FirstNext ==
  ASSUME NEW ps \in Seq(Packets)
  PROVE  /\ Len(ps) \in Nat /\ First(ps, 0) = <<>> /\ First(ps, Len(ps)) = ps
         /\ \A n \in 0 .. Len(ps) : First(ps, n) \in Seq(Packets) /\ Len(First(ps, n)) = n
         /\ \A n \in 0 .. Len(ps) - 1 :
              ps[n + 1] \in Packets /\ First(ps, n + 1) = Append(First(ps, n), ps[n + 1])
         /\ \A m, n \in 0 .. Len(ps) : m <= n => First(First(ps, n), m) = First(ps, m)
<1>1. Len(ps) \in Nat /\ First(ps, 0) = <<>>
  BY DEF First
<1>2. First(ps, Len(ps)) = ps
  BY SubSeqFull DEF First
<1>3. ASSUME NEW n \in 0 .. Len(ps)
      PROVE  First(ps, n) \in Seq(Packets) /\ Len(First(ps, n)) = n /\ \A i \in 1 .. n : First(ps, n)[i] = ps[i]
  <2>1. n \in Nat /\ n <= Len(ps) /\ 0 \in Nat /\ 0 <= n /\ 0 + 1 = 1 /\ n - 0 = n /\ \A i \in 1 .. n : 0 + i = i
    BY <1>1
  <2>2. /\ SubSeq(ps, 0 + 1, n) \in Seq(Packets) /\ Len(SubSeq(ps, 0 + 1, n)) = n - 0
        /\ \A i \in 1 .. n - 0 : SubSeq(ps, 0 + 1, n)[i] = ps[0 + i]
    BY <2>1, Piece
  <2>3. QED
    BY <2>1, <2>2 DEF First
<1>4. ASSUME NEW n \in 0 .. Len(ps) - 1
      PROVE  ps[n + 1] \in Packets /\ First(ps, n + 1) = Append(First(ps, n), ps[n + 1])
  <2> DEFINE a == First(ps, n)
             b == First(ps, n + 1)
             x == ps[n + 1]
  <2>1. n \in 0 .. Len(ps) /\ n + 1 \in 0 .. Len(ps) /\ n + 1 \in 1 .. Len(ps) /\ x \in Packets /\ n \in Nat
    BY <1>1
  <2>2. a \in Seq(Packets) /\ Len(a) = n /\ \A i \in 1 .. n : a[i] = ps[i]
    BY <1>3, <2>1, Zenon
  <2>3. b \in Seq(Packets) /\ Len(b) = n + 1 /\ \A i \in 1 .. n + 1 : b[i] = ps[i]
    BY <1>3, <2>1, Zenon
  <2> HIDE DEF a, b
  <2>4. b = Append(a, x)
    <3> DEFINE c == Append(a, x)
    <3>1. c \in Seq(Packets) /\ Len(c) = n + 1 /\ \A i \in 1 .. n + 1 : c[i] = ps[i]
      BY <2>1, <2>2
    <3> HIDE DEF c
    <3>2. b = c
      BY <2>3, <3>1, SeqEqual
    <3>3. QED
      BY <3>2 DEF c
  <2>5. QED
    BY <2>1, <2>4 DEF a, b
<1>5. ASSUME NEW m \in 0 .. Len(ps), NEW n \in 0 .. Len(ps), m <= n
      PROVE  First(First(ps, n), m) = First(ps, m)
  <2> DEFINE a == First(ps, n)
             b == First(a, m)
             c == First(ps, m)
  <2>1. a \in Seq(Packets) /\ Len(a) = n /\ \A i \in 1 .. n : a[i] = ps[i]
    BY <1>3
  <2>2. c \in Seq(Packets) /\ Len(c) = m /\ \A i \in 1 .. m : c[i] = ps[i]
    BY <1>3
  <2> HIDE DEF a, c
  <2>3. b \in Seq(Packets) /\ Len(b) = m /\ \A i \in 1 .. m : b[i] = a[i]
    <3>1. m \in Nat /\ m <= Len(a) /\ 0 \in Nat /\ 0 <= m /\ 0 + 1 = 1 /\ m - 0 = m /\ \A i \in 1 .. m : 0 + i = i
      BY <1>1, <1>5, <2>1
    <3>2. /\ SubSeq(a, 0 + 1, m) \in Seq(Packets) /\ Len(SubSeq(a, 0 + 1, m)) = m - 0
          /\ \A i \in 1 .. m - 0 : SubSeq(a, 0 + 1, m)[i] = a[0 + i]
      BY <2>1, <3>1, Piece
    <3>3. QED
      BY <3>1, <3>2 DEF First
  <2> HIDE DEF b
  <2>4. \A i \in 1 .. m : i \in 1 .. n
    BY <1>5
  <2>5. b = c
    BY <2>1, <2>2, <2>3, <2>4, SeqEqual
  <2>6. QED
    BY <2>5 DEF a, b, c
<1>6. QED
  BY <1>1, <1>2, <1>3, <1>4, <1>5, Zenon

\* All the packets begin with any number of them.
LEMMA AllBegins ==
  ASSUME NEW ps \in Seq(Packets), NEW k \in 0 .. Len(ps)
  PROVE  \E y \in Seq(Byte) : FramedAll(ps) = Cat(FramedAll(First(ps, k)), y)
<1> DEFINE n == Len(ps)
           P(i) == \E y \in Seq(Byte) : FramedAll(ps) = Cat(FramedAll(First(ps, n - i)), y)
           T == {i \in 0 .. n : P(i)}
<1>1. n \in Nat /\ FramedAll(ps) \in Seq(Byte)
  BY FramesType
<1>2. 0 \in T
  <2>1. n - 0 = n /\ 0 \in 0 .. n
    BY <1>1
  <2>2. FramedAll(ps) = Cat(FramedAll(ps), <<>>) /\ <<>> \in Seq(Byte)
    BY <1>1, JoinedEmpty
  <2>3. First(ps, n - 0) = ps
    BY <2>1, FirstNext
  <2>4. P(0)
    BY <2>2, <2>3, Zenon
  <2>5. QED
    BY <2>1, <2>4
<1>3. ASSUME NEW i \in 0 .. n - 1, i \in T
      PROVE  i + 1 \in T
  <2> DEFINE m == n - (i + 1)
             x == Framed(ps[m + 1])
             a == FramedAll(First(ps, m))
  <2>1. i + 1 \in 0 .. n /\ m \in 0 .. n - 1 /\ m + 1 = n - i /\ m \in 0 .. n
    BY <1>1
  <2> HIDE DEF m
  <2>2. ps[m + 1] \in Packets /\ First(ps, m + 1) = Append(First(ps, m), ps[m + 1])
        /\ First(ps, m) \in Seq(Packets)
    BY <2>1, FirstNext
  <2>3. FramedAll(First(ps, m + 1)) = Cat(a, x)
    BY <2>2, FramedAppend
  <2>4. a \in Seq(Byte) /\ x \in Seq(Byte)
    <3>1. a \in Seq(Byte)
      BY <2>2, FramesType
    <3>2. x \in Seq(Byte)
      BY <2>2, FramedAt
    <3>3. QED
      BY <3>1, <3>2
  <2>5. PICK y \in Seq(Byte) : FramedAll(ps) = Cat(FramedAll(First(ps, m + 1)), y)
    BY <1>3, <2>1
  <2> HIDE DEF a, x
  <2>6. FramedAll(ps) = Cat(a, Cat(x, y)) /\ Cat(x, y) \in Seq(Byte)
    BY <2>3, <2>4, <2>5, Grouped
  <2>7. \E z \in Seq(Byte) : FramedAll(ps) = Cat(a, z)
    BY <2>6
  <2>8. P(i + 1)
    BY <2>7, Zenon DEF a, m
  <2>9. QED
    BY <2>1, <2>8
<1>4. \A i \in 0 .. n : i \in T
  <2> HIDE DEF T, n
  <2>1. QED
    BY <1>1, <1>2, <1>3, Climb
<1>5. n - k \in 0 .. n /\ n - (n - k) = k
  BY <1>1
<1>6. P(n - k)
  BY <1>4, <1>5
<1>7. QED
  BY <1>5, <1>6

\* What is equal behind equal bytes.
LEMMA Cancel ==
  ASSUME NEW a \in Seq(Byte), NEW x \in Seq(Byte), NEW y \in Seq(Byte), Cat(a, x) = Cat(a, y)
  PROVE  x = y
<1> DEFINE n == Len(a)
           c == Cat(a, x)
<1>1. n \in Nat /\ Len(x) \in Nat /\ Len(y) \in Nat /\ Len(c) = n + Len(x) /\ Len(c) = n + Len(y)
      /\ Stands(c, n, x) /\ Stands(c, n, y)
  BY Placed, Zenon
<1> HIDE DEF n, c
<1>2. Len(x) = Len(y)
  BY <1>1
<1>3. \A i \in 1 .. Len(x) : x[i] = y[i]
  BY <1>1, <1>2 DEF Stands
<1>4. QED
  BY <1>2, <1>3, SeqEqual

\* Two beginnings of the same bytes.
LEMMA CutFits ==
  ASSUME NEW b \in Seq(Byte), NEW t \in Seq(Byte), NEW g \in Seq(Byte), NEW y \in Seq(Byte),
         Cat(b, t) = Cat(g, y)
  PROVE  Fits(b, g)
<1> DEFINE c == Cat(b, t)
<1>1. Stands(c, 0, b) /\ Stands(c, 0, g)
  BY Placed, Zenon
<1> HIDE DEF c
<1>2. QED
  BY <1>1 DEF Stands, Fits

-----------------------------------------------------------------------------
(* The transport.  Its own invariant and steps, whoever uses it.           *)

\* Messages of the client, and what the socket carries to it: bytes and control frames.
Messages == [kind : {"binary", "text", "ping", "close"}, data : Seq(Byte)]
Cell == Nat \cup {PONG, CLOSE}
Control == {PONG, CLOSE}

WsTypes ==
  /\ stream \in Seq(Byte) /\ sent \in 0 .. Len(stream) /\ idles \in 0 .. MaxIdle
  /\ inflight \in Seq(Messages) /\ peer \in {"open", "closed", "eof"}
  /\ blocked \in BOOLEAN /\ broken \in BOOLEAN
  /\ read_buffer \in Seq(Byte) /\ read_pos \in 0 .. Len(read_buffer)
  /\ read_closed \in BOOLEAN /\ write_closed \in BOOLEAN
  /\ ready \in BOOLEAN /\ out_buffer \in Seq(Cell) /\ close_reply \in BOOLEAN
  /\ got \in Seq(Byte) /\ read_end \in {"none", "eof", "error"}
  /\ written \in Seq(Nat) /\ write_error \in {"none", "closed", "full", "io"}
  /\ wire \in Seq(Cell) /\ shut \in {"no", "ok", "error"}

\* Only binary messages carry bytes, and nothing comes behind a Close.
Delivery ==
  /\ Len(inflight) <= MaxInFlight + 1 /\ (peer = "open" => Len(inflight) <= MaxInFlight)
  /\ \A i \in 1 .. Len(inflight) :
       /\ inflight[i].kind # "binary" => inflight[i].data = <<>>
       /\ inflight[i].kind = "close" => i = Len(inflight) /\ peer = "closed"

\* The bytes of the messages in q.
Loads(q) == [i \in DOMAIN q |-> q[i].data]
Datas(q) == FlattenSeq(Loads(q))

\* What has been sent is what was read, what is buffered and what is in flight.
Unread == SubSeq(read_buffer, read_pos + 1, Len(read_buffer))
Received == Cat(got, Cat(Unread, Datas(inflight))) = SubSeq(stream, 1, sent)

\* The transport knows that reading is over when the reader does.
ReadEnds == read_closed <=> read_end # "none"

\* Everything handed to tungstenite, written to the socket or not.
Handed == Cat(wire, out_buffer)
\* A Close is followed by control frames only.
HasClose(s) == \E i \in 1 .. Len(s) : s[i] = CLOSE
CloseLast(s) == \A i \in 1 .. Len(s) : s[i] = CLOSE => \A j \in i .. Len(s) : s[j] \in Control
\* What was handed over is what was written, in order.
InOrder ==
  /\ DataIn(Handed) = written /\ CloseLast(Handed)
  /\ HasClose(Handed) => read_closed \/ write_closed

\* Every way to a closed transport leaves a Close, or the reason why there is none.
Closing ==
  /\ close_reply => read_closed
  /\ read_end = "eof" => close_reply \/ HasClose(Handed)
  /\ write_closed => broken \/ read_closed \/ HasClose(Handed)
  /\ shut # "no" => write_closed
  /\ shut = "ok" => out_buffer \in Seq(Control) /\ (HasClose(wire) \/ read_end = "error")

\* A ready sink holds no more than a buffer and the Pongs that may join it.
Pings == Len(Only(inflight, {[kind |-> "ping", data |-> <<>>]}))
Buffered ==
  /\ Pings + idles <= MaxIdle
  /\ ready /\ ~read_closed /\ ~write_closed =>
       Len(out_buffer) + (Pings + idles) <= BufferSize + MaxIdle

\* No write fails for want of room, and one refused has a reason.
WritesFine ==
  /\ write_error # "full"
  /\ write_error = "closed" => read_closed \/ write_closed

WsInv == WsTypes /\ Delivery /\ Received /\ ReadEnds /\ InOrder /\ Closing /\ Buffered /\ WritesFine

\* A transport nobody has used.
Fresh == got = <<>> /\ inflight = <<>> /\ read_pos = 0 /\ peer = "open" /\ sent = 0
\* A message that fits behind a full buffer and the Pongs.
Fitting(data) == data \in Seq(Nat) /\ Len(data) + MaxIdle <= MaxFrame + 16

\* The steps a session can take on the transport.
WsStep ==
  \/ Fresh /\ Handshake
  \/ Client
  \/ \E room \in Nat \ {0} : ReadBuffered(room) \/ ReadMessage(room)
  \/ ReadSkip \/ ReadClose \/ ReadError
  \/ PollReady \/ WriteRefused \/ WriteFails \/ PollFlush
  \/ \E data : Fitting(data) /\ StartSend(data)
  \/ ShutdownClose \/ ShutdownFlush \/ ShutdownFails

-----------------------------------------------------------------------------
(* Messages in flight.                                                     *)

\* The bytes of messages are bytes.
LEMMA DatasType ==
  ASSUME NEW q \in Seq(Messages)
  PROVE  /\ Loads(q) \in Seq(Seq(Byte)) /\ Len(Loads(q)) = Len(q)
         /\ \A i \in 1 .. Len(q) : Loads(q)[i] = q[i].data
         /\ Datas(q) \in Seq(Byte) /\ Datas(<<>>) = <<>>
<1>0. \A m \in Messages : m.data \in Seq(Byte)
  BY DEF Messages
<1>1. DOMAIN q = 1 .. Len(q) /\ Len(q) \in Nat /\ \A i \in 1 .. Len(q) : q[i].data \in Seq(Byte)
  BY <1>0
<1>2. Loads(q) \in [1 .. Len(q) -> Seq(Byte)] /\ \A i \in 1 .. Len(q) : Loads(q)[i] = q[i].data
  BY <1>1 DEF Loads
<1>3. Loads(q) \in Seq(Seq(Byte)) /\ Len(Loads(q)) = Len(q)
  BY <1>1, <1>2
<1>4. Datas(q) \in Seq(Byte)
  BY <1>3, FlattenType DEF Datas
<1>5. Datas(<<>>) = <<>>
  <2>1. Loads(<<>>) = <<>>
    BY DEF Loads
  <2>2. FlattenSeq(<<>>) = <<>>
    BY DEF FlattenSeq
  <2>3. QED
    BY <2>1, <2>2 DEF Datas
<1>6. QED
  BY <1>2, <1>3, <1>4, <1>5

\* A message sent adds its bytes at the end.
LEMMA DatasAppend ==
  ASSUME NEW q \in Seq(Messages), NEW m \in Messages
  PROVE  Datas(Append(q, m)) = Cat(Datas(q), m.data)
<1> DEFINE t == Append(q, m)
           l == Loads(q)
           r == Append(l, m.data)
<1>1. t \in Seq(Messages) /\ Len(t) = Len(q) + 1 /\ Len(q) \in Nat /\ t[Len(q) + 1] = m
      /\ (\A i \in 1 .. Len(q) : t[i] = q[i]) /\ m.data \in Seq(Byte)
  BY DEF Messages
<1>2. l \in Seq(Seq(Byte)) /\ Len(l) = Len(q) /\ \A i \in 1 .. Len(q) : l[i] = q[i].data
  BY DatasType
<1> HIDE DEF t, l
<1>3. r \in Seq(Seq(Byte)) /\ Len(r) = Len(q) + 1 /\ r[Len(q) + 1] = m.data
      /\ \A i \in 1 .. Len(q) : r[i] = l[i]
  BY <1>1, <1>2
<1>4. Loads(t) \in Seq(Seq(Byte)) /\ Len(Loads(t)) = Len(q) + 1
      /\ \A i \in 1 .. Len(q) + 1 : Loads(t)[i] = t[i].data
  BY <1>1, DatasType
<1> HIDE DEF r
<1>5. ASSUME NEW i \in 1 .. Len(q) + 1
      PROVE  Loads(t)[i] = r[i]
  <2>1. CASE i = Len(q) + 1
    BY <1>1, <1>3, <1>4, <2>1
  <2>2. CASE i # Len(q) + 1
    <3>1. i \in 1 .. Len(q)
      BY <1>1, <2>2
    <3>2. QED
      BY <1>1, <1>2, <1>3, <1>4, <3>1, Zenon
  <2>3. QED
    BY <2>1, <2>2
<1>6. Loads(t) = r
  BY <1>3, <1>4, <1>5, SeqEqual
<1>7. FlattenSeq(Append(l, m.data)) = FlattenSeq(l) \o m.data
  BY <1>1, <1>2, FlattenAppend
<1>8. QED
  BY <1>6, <1>7, Zenon DEF Datas, Cat, t, l, r

\* A message read takes its bytes from the front.
LEMMA DatasHead ==
  ASSUME NEW q \in Seq(Messages), q # <<>>
  PROVE  /\ Datas(q) = Cat(Head(q).data, Datas(Tail(q)))
         /\ Head(q) \in Messages /\ Head(q).data \in Seq(Byte) /\ Tail(q) \in Seq(Messages)
         /\ Datas(Tail(q)) \in Seq(Byte)
<1> DEFINE t == Tail(q)
           l == Loads(q)
           r == Tail(l)
<1>1. t \in Seq(Messages) /\ Len(t) = Len(q) - 1 /\ Len(q) \in Nat \ {0} /\ Head(q) = q[1]
      /\ (\A i \in 1 .. Len(q) - 1 : t[i] = q[i + 1])
  OBVIOUS
<1>2. l \in Seq(Seq(Byte)) /\ Len(l) = Len(q) /\ \A i \in 1 .. Len(q) : l[i] = q[i].data
  BY DatasType
<1>3. Head(q) \in Messages /\ Head(q).data \in Seq(Byte)
  <2>1. \A m \in Messages : m.data \in Seq(Byte)
    BY DEF Messages
  <2>2. QED
    BY <2>1
<1> HIDE DEF t, l
<1>4. r \in Seq(Seq(Byte)) /\ Len(r) = Len(q) - 1 /\ l # <<>> /\ Head(l) = l[1]
      /\ \A i \in 1 .. Len(q) - 1 : r[i] = l[i + 1]
  BY <1>1, <1>2
<1>5. Loads(t) \in Seq(Seq(Byte)) /\ Len(Loads(t)) = Len(q) - 1 /\ Datas(t) \in Seq(Byte)
      /\ \A i \in 1 .. Len(q) - 1 : Loads(t)[i] = t[i].data
  BY <1>1, DatasType
<1> HIDE DEF r
<1>6. ASSUME NEW i \in 1 .. Len(q) - 1
      PROVE  Loads(t)[i] = r[i]
  <2>1. i + 1 \in 1 .. Len(q)
    BY <1>1
  <2>2. QED
    BY <1>1, <1>2, <1>4, <1>5, <2>1, ZenonT(40)
<1>7. Loads(t) = r
  BY <1>4, <1>5, <1>6, SeqEqual
<1>8. FlattenSeq(l) = Head(l) \o FlattenSeq(Tail(l))
  BY <1>2, <1>4, FlattenHead
<1>9. Head(l) = Head(q).data
  BY <1>1, <1>2, <1>4
<1>10. QED
  BY <1>1, <1>3, <1>5, <1>7, <1>8, <1>9, Zenon DEF Datas, Cat, t, l, r

\* The Ping that Pings counts.
Ping == [kind |-> "ping", data |-> <<>>]

\* A message sent is a Ping or not.
LEMMA PingsAppend ==
  ASSUME NEW q \in Seq(Messages), NEW m \in Messages
  PROVE  /\ Len(Only(Append(q, m), {Ping})) = Len(Only(q, {Ping})) + (IF m = Ping THEN 1 ELSE 0)
         /\ Len(Only(q, {Ping})) \in Nat
<1>1. Only(Append(q, m), {Ping}) = Only(q, {Ping}) \o Kept(m, {Ping})
  BY OnlyAppend
<1>2. Only(q, {Ping}) \in Seq(Messages)
  BY OnlyType
<1>3. Kept(m, {Ping}) \in Seq(Messages) /\ Len(Kept(m, {Ping})) = IF m = Ping THEN 1 ELSE 0
  <2>1. CASE m = Ping
    BY <2>1 DEF Kept
  <2>2. CASE m # Ping
    BY <2>2 DEF Kept
  <2>3. QED
    BY <2>1, <2>2
<1> DEFINE a == Only(q, {Ping})
           b == Kept(m, {Ping})
<1> HIDE DEF a, b
<1>4. Len(a \o b) = Len(a) + Len(b) /\ Len(a) \in Nat
  BY <1>2, <1>3 DEF a, b
<1>5. QED
  BY <1>1, <1>3, <1>4 DEF a, b

\* A message read is a Ping or not.
LEMMA PingsHead ==
  ASSUME NEW q \in Seq(Messages), q # <<>>
  PROVE  /\ Len(Only(q, {Ping})) = (IF Head(q) = Ping THEN 1 ELSE 0) + Len(Only(Tail(q), {Ping}))
         /\ Len(Only(Tail(q), {Ping})) \in Nat
<1> DEFINE h == Head(q)
           t == Tail(q)
<1>1. h \in Messages /\ t \in Seq(Messages) /\ <<h>> \in Seq(Messages)
  OBVIOUS
<1>2. q = <<h>> \o t
  OBVIOUS
<1> HIDE DEF h, t
<1>3. Only(<<h>> \o t, {Ping}) = Only(<<h>>, {Ping}) \o Only(t, {Ping})
  BY <1>1, OnlyConcat
<1>4. Only(<<h>>, {Ping}) = Kept(h, {Ping})
  BY OnlyOne
<1>5. Only(t, {Ping}) \in Seq(Messages)
  BY <1>1, OnlyType
<1>6. Kept(h, {Ping}) \in Seq(Messages) /\ Len(Kept(h, {Ping})) = IF h = Ping THEN 1 ELSE 0
  <2>1. CASE h = Ping
    BY <1>1, <2>1 DEF Kept
  <2>2. CASE h # Ping
    BY <2>2 DEF Kept
  <2>3. QED
    BY <2>1, <2>2
<1> DEFINE a == Kept(h, {Ping})
           b == Only(t, {Ping})
<1> HIDE DEF a, b
<1>7. Len(a \o b) = Len(a) + Len(b) /\ Len(b) \in Nat
  BY <1>5, <1>6 DEF a, b
<1>8. QED
  BY <1>2, <1>3, <1>4, <1>6, <1>7 DEF a, b, h, t

-----------------------------------------------------------------------------
(* Steps that send, read and skip messages.                                *)

ReadSide == Delivery /\ Received /\ ReadEnds

\* The sizes of ws_config_for are sizes.
LEMMA MaxesNat ==
  /\ BufferSize \in Nat \ {0} /\ MaxFrame \in Nat /\ MaxMessage \in Nat /\ MaxIdle \in Nat
  /\ MaxInFlight \in Nat \ {0} /\ MaxWriteBuffer = BufferSize + MaxFrame + 16
BY WsSizesAssumption DEF MaxFrame, MaxMessage, MaxWriteBuffer, GreaterOf

\* What is buffered is bytes.
LEMMA RestType ==
  ASSUME WsTypes
  PROVE  /\ Unread \in Seq(Byte) /\ Datas(inflight) \in Seq(Byte) /\ got \in Seq(Byte)
         /\ Len(Unread) = InBuffer /\ InBuffer \in Nat
<1>1. read_buffer \in Seq(Byte) /\ read_pos \in Nat /\ read_pos <= Len(read_buffer)
      /\ Len(read_buffer) \in Nat
  BY DEF WsTypes
<1>2. Unread \in Seq(Byte) /\ Len(Unread) = Len(read_buffer) - read_pos
  BY <1>1, Halves DEF Unread
<1>3. QED
  BY <1>1, <1>2, DatasType DEF WsTypes, InBuffer

\* A message of the client.
LEMMA SendMessageRead ==
  ASSUME WsTypes, ReadSide, SendMessage
  PROVE  ReadSide' /\ inflight' \in Seq(Messages) /\ sent' \in 0 .. Len(stream)
<1>1. PICK n \in 1 .. LesserOf(Len(stream) - sent, MaxMessage) :
        /\ inflight' = Append(inflight, [kind |-> "binary", data |-> SubSeq(stream, sent + 1, sent + n)])
        /\ sent' = sent + n
  BY DEF SendMessage
<1> DEFINE d == SubSeq(stream, sent + 1, sent + n)
           m == [kind |-> "binary", data |-> d]
<1>2. stream \in Seq(Byte) /\ Len(stream) \in Nat /\ sent \in Nat /\ sent <= Len(stream)
  BY DEF WsTypes
<1>3. n \in Nat /\ n <= Len(stream) - sent
  <2>1. LesserOf(Len(stream) - sent, MaxMessage) <= Len(stream) - sent
        \/ ~(LesserOf(Len(stream) - sent, MaxMessage) <= Len(stream) - sent)
    OBVIOUS
  <2>2. QED
    BY <1>2, <2>1, MaxesNat DEF LesserOf
<1>31. d \in Seq(Byte) /\ Cat(SubSeq(stream, 1, sent), d) = SubSeq(stream, 1, sent + n)
  <2>1. sent + n \in Nat /\ sent <= sent + n /\ sent + n <= Len(stream) /\ 0 <= sent
        /\ 0 \in Nat /\ 0 + 1 = 1
    BY <1>2, <1>3
  <2>2. d \in Seq(Byte)
    BY <1>2, <2>1, Piece
  <2>3. Cat(SubSeq(stream, 0 + 1, sent), d) = SubSeq(stream, 0 + 1, sent + n)
    BY <1>2, <2>1, Pieces, ZenonT(40)
  <2>4. QED
    BY <2>1, <2>2, <2>3
<1> HIDE DEF d
<1>4. m \in Messages /\ m.data = d /\ m.kind = "binary"
  BY <1>31 DEF Messages
<1> HIDE DEF m
<1>5. inflight' = Append(inflight, m) /\ inflight \in Seq(Messages)
  BY <1>1 DEF m, d, WsTypes
<1>6. inflight' \in Seq(Messages) /\ Len(inflight') = Len(inflight) + 1
      /\ inflight'[Len(inflight) + 1] = m /\ Len(inflight) \in Nat
      /\ \A i \in 1 .. Len(inflight) : inflight'[i] = inflight[i]
  BY <1>4, <1>5
<1>7. UNCHANGED <<stream, peer, got, read_buffer, read_pos, read_closed, read_end>>
  BY DEF SendMessage, ClientFrame, read_vars
<1>8. Delivery'
  <2>1. peer = "open" /\ Len(inflight) < MaxInFlight /\ MaxInFlight \in Nat /\ peer' = peer
    BY <1>7, WsSizesAssumption DEF SendMessage
  <2>2. Len(inflight') <= MaxInFlight /\ Len(inflight') <= MaxInFlight + 1
    BY <1>6, <2>1
  <2>3. ASSUME NEW i \in 1 .. Len(inflight')
        PROVE  /\ inflight'[i].kind # "binary" => inflight'[i].data = <<>>
               /\ inflight'[i].kind # "close"
    <3>1. CASE i = Len(inflight) + 1
      BY <1>4, <1>6, <3>1
    <3>2. CASE i # Len(inflight) + 1
      <4>1. i \in 1 .. Len(inflight)
        BY <1>6, <3>2
      <4>2. inflight'[i] = inflight[i]
        BY <1>6, <4>1
      <4>3. QED
        BY <2>1, <4>1, <4>2 DEF ReadSide, Delivery
    <3>3. QED
      BY <3>1, <3>2
  <2>4. QED
    BY <2>2, <2>3 DEF Delivery
<1>9. Received'
  <2> DEFINE g == got
             u == Unread
             q == Datas(inflight)
  <2>1. Datas(inflight') = Cat(q, d)
    BY <1>4, <1>5, DatasAppend
  <2>2. Unread' = u
    BY <1>7 DEF Unread
  <2>3. g \in Seq(Byte) /\ u \in Seq(Byte) /\ q \in Seq(Byte)
    BY RestType
  <2>4. Cat(g, Cat(u, q)) = SubSeq(stream, 1, sent)
    BY DEF ReadSide, Received
  <2> HIDE DEF g, u, q
  <2>5. Cat(g, Cat(u, Cat(q, d))) = Cat(SubSeq(stream, 1, sent), d)
    <3>1. d \in Seq(Byte)
      BY <1>31
    <3>2. Cat(g, Cat(u, Cat(q, d))) = Cat(Cat(g, Cat(u, q)), d)
      BY <2>3, <3>1, AddBehind
    <3>3. QED
      BY <2>4, <3>2
  <2>6. got' = g /\ stream' = stream /\ sent' = sent + n
    BY <1>1, <1>7 DEF g
  <2>7. QED
    BY <1>31, <2>1, <2>2, <2>4, <2>5, <2>6 DEF Received
<1>10. ReadEnds'
  BY <1>7 DEF ReadSide, ReadEnds
<1>11. QED
  BY <1>1, <1>2, <1>3, <1>6, <1>8, <1>9, <1>10 DEF ReadSide

\* A message without bytes.
LEMMA EmptyMessageRead ==
  ASSUME WsTypes, ReadSide, NEW m \in Messages, m.data = <<>>, peer = "open",
         inflight' = Append(inflight, m),
         UNCHANGED <<stream, sent, got, read_buffer, read_pos, read_closed, read_end>>,
         \/ m.kind # "close" /\ peer' = peer /\ Len(inflight) < MaxInFlight
         \/ m.kind = "close" /\ peer' = "closed"
  PROVE  ReadSide' /\ inflight' \in Seq(Messages)
<1>1. inflight' \in Seq(Messages) /\ Len(inflight') = Len(inflight) + 1
      /\ inflight'[Len(inflight) + 1] = m /\ Len(inflight) \in Nat
      /\ \A i \in 1 .. Len(inflight) : inflight'[i] = inflight[i]
  BY DEF WsTypes
<1>2. Delivery'
  <2>1. Len(inflight) <= MaxInFlight /\ MaxInFlight \in Nat
    BY MaxesNat DEF ReadSide, Delivery
  <2>2. Len(inflight') <= MaxInFlight + 1 /\ (peer' = "open" => Len(inflight') <= MaxInFlight)
    BY <1>1, <2>1
  <2>3. ASSUME NEW i \in 1 .. Len(inflight')
        PROVE  /\ inflight'[i].kind # "binary" => inflight'[i].data = <<>>
               /\ inflight'[i].kind = "close" => i = Len(inflight') /\ peer' = "closed"
    <3>1. CASE i = Len(inflight) + 1
      BY <1>1, <3>1
    <3>2. CASE i # Len(inflight) + 1
      <4>1. i \in 1 .. Len(inflight)
        BY <1>1, <3>2
      <4>2. inflight'[i] = inflight[i]
        BY <1>1, <4>1
      <4>3. inflight[i].kind # "close" /\ (inflight[i].kind # "binary" => inflight[i].data = <<>>)
        BY <4>1, Zenon DEF ReadSide, Delivery
      <4>4. QED
        BY <4>2, <4>3, Zenon
    <3>3. QED
      BY <3>1, <3>2
  <2>4. QED
    BY <2>2, <2>3 DEF Delivery
<1>3. Received'
  <2>1. Datas(inflight') = Cat(Datas(inflight), <<>>)
    BY DatasAppend DEF WsTypes
  <2>2. Cat(Datas(inflight), <<>>) = Datas(inflight)
    BY RestType, JoinedEmpty
  <2>3. Datas(inflight') = Datas(inflight) /\ Unread' = Unread
    BY <2>1, <2>2 DEF Unread
  <2>4. QED
    BY <2>3 DEF ReadSide, Received
<1>4. ReadEnds'
  BY DEF ReadSide, ReadEnds
<1>5. QED
  BY <1>1, <1>2, <1>3, <1>4 DEF ReadSide

\* The variables of the reader's side.
read_side == <<stream, sent, inflight, peer, got, read_buffer, read_pos, read_closed, read_end>>

\* A step that changes none of them keeps what is known of it.
LEMMA ReadSideKept ==
  ASSUME WsTypes, ReadSide, UNCHANGED read_side
  PROVE  ReadSide'
<1> USE DEF read_side
<1>1. Delivery'
  BY DEF ReadSide, Delivery
<1>2. Received'
  BY DEF ReadSide, Received, Unread, Datas, Loads
<1>3. ReadEnds'
  BY DEF ReadSide, ReadEnds
<1>4. QED
  BY <1>1, <1>2, <1>3 DEF ReadSide

\* The client.
LEMMA ClientRead ==
  ASSUME WsTypes, ReadSide, Client
  PROVE  ReadSide' /\ inflight' \in Seq(Messages) /\ sent' \in 0 .. Len(stream)
<1> USE DEF ClientFrame, read_vars
<1>0. inflight \in Seq(Messages) /\ sent \in 0 .. Len(stream)
  BY DEF WsTypes
<1>1. CASE SendMessage
  BY <1>1, SendMessageRead
<1>2. ASSUME NEW kind \in {"binary", "text", "ping"}, SendIdle(kind)
      PROVE  ReadSide' /\ inflight' \in Seq(Messages) /\ sent' \in 0 .. Len(stream)
  <2> DEFINE m == [kind |-> kind, data |-> <<>>]
  <2>1. m \in Messages /\ m.data = <<>> /\ m.kind # "close"
    BY DEF Messages
  <2>2. peer = "open" /\ inflight' = Append(inflight, m) /\ peer' = peer /\ sent' = sent
        /\ UNCHANGED <<stream, sent, got, read_buffer, read_pos, read_closed, read_end>>
        /\ Len(inflight) < MaxInFlight
    BY <1>2 DEF SendIdle
  <2> HIDE DEF m
  <2>3. QED
    BY <1>0, <2>1, <2>2, EmptyMessageRead
<1>3. CASE SendClose
  <2> DEFINE m == [kind |-> "close", data |-> <<>>]
  <2>1. m \in Messages /\ m.data = <<>> /\ m.kind = "close"
    BY DEF Messages
  <2>2. peer = "open" /\ inflight' = Append(inflight, m) /\ peer' = "closed" /\ sent' = sent
        /\ UNCHANGED <<stream, sent, got, read_buffer, read_pos, read_closed, read_end>>
    BY <1>3 DEF SendClose
  <2> HIDE DEF m
  <2>3. QED
    BY <1>0, <2>1, <2>2, EmptyMessageRead
<1>4. CASE Vanish
  <2>1. peer = "open" /\ peer' = "eof"
        /\ UNCHANGED <<stream, sent, inflight, got, read_buffer, read_pos, read_closed, read_end>>
    BY <1>4 DEF Vanish
  <2>2. Delivery'
    BY <2>1 DEF ReadSide, Delivery
  <2>3. Received'
    BY <2>1 DEF ReadSide, Received, Unread, Datas, Loads
  <2>4. ReadEnds'
    BY <2>1 DEF ReadSide, ReadEnds
  <2>5. QED
    BY <1>0, <2>1, <2>2, <2>3, <2>4 DEF ReadSide
<1>5. CASE Socket
  <2>1. UNCHANGED read_side
    BY <1>5 DEF Socket, Block, BreakSocket, read_side
  <2>2. QED
    BY <1>0, <2>1, ReadSideKept DEF read_side
<1>6. QED
  BY <1>1, <1>2, <1>3, <1>4, <1>5 DEF Client

\* accept(): the early data.
LEMMA HandshakeRead ==
  ASSUME WsTypes, ReadSide, Fresh, Handshake
  PROVE  ReadSide' /\ read_buffer' \in Seq(Byte) /\ read_pos' \in 0 .. Len(read_buffer')
         /\ sent' \in 0 .. Len(stream)
<1>1. PICK n \in 0 .. LesserOf(MaxEarlyData + 1, Len(stream)) :
        sent' = n /\ read_buffer' = SubSeq(stream, 1, n)
  BY DEF Handshake, EarlyData
<1>2. stream \in Seq(Byte) /\ Len(stream) \in Nat
  BY DEF WsTypes
<1>3. n \in Nat /\ n <= Len(stream)
  BY <1>2, WsSizesAssumption DEF LesserOf
<1>4. UNCHANGED <<stream, inflight, peer, got, read_pos, read_closed, read_end>>
      /\ got = <<>> /\ inflight = <<>> /\ read_pos = 0 /\ peer = "open"
  BY DEF Handshake, Fresh
<1>5. SubSeq(stream, 1, n) \in Seq(Byte) /\ Len(SubSeq(stream, 1, n)) = n
  BY <1>2, <1>3, Halves
<1>6. Received'
  <2> DEFINE b == SubSeq(stream, 1, n)
  <2>1. b \in Seq(Byte) /\ read_buffer' = b /\ read_pos' = 0
    BY <1>1, <1>4, <1>5
  <2>2. Datas(inflight') = <<>>
    BY <1>4, DatasType DEF WsTypes
  <2> HIDE DEF b
  <2>3. Unread' = b
    <3>1. SubSeq(b, 0 + 1, Len(b)) = b
      BY <2>1, SubSeqFull
    <3>2. QED
      BY <2>1, <3>1 DEF Unread
  <2>4. Cat(got', Cat(Unread', Datas(inflight'))) = b
    BY <1>4, <2>1, <2>2, <2>3, JoinedEmpty
  <2>5. QED
    BY <1>1, <1>4, <2>4 DEF Received, b
<1>7. Delivery' /\ ReadEnds'
  BY <1>4 DEF ReadSide, Delivery, ReadEnds
<1>8. QED
  BY <1>1, <1>3, <1>4, <1>5, <1>6, <1>7 DEF ReadSide

\* What a read has delivered.
Delivered(x) == x \in Seq(Byte) /\ x # <<>> /\ got' = Cat(got, x)

\* The smaller of two.
LEMMA LesserIs ==
  ASSUME NEW m \in Nat, NEW n \in Nat
  PROVE  /\ LesserOf(m, n) \in Nat /\ LesserOf(m, n) <= m /\ LesserOf(m, n) <= n
         /\ m # 0 /\ n # 0 => LesserOf(m, n) # 0
BY DEF LesserOf

\* poll_read out of the buffer.
LEMMA ReadBufferedRead ==
  ASSUME WsTypes, ReadSide, NEW room \in Nat \ {0}, ReadBuffered(room)
  PROVE  /\ ReadSide' /\ \E x : Delivered(x) /\ Len(x) <= room
         /\ got' \in Seq(Byte) /\ read_buffer' \in Seq(Byte) /\ read_pos' \in 0 .. Len(read_buffer')
<1> DEFINE n == LesserOf(InBuffer, room)
           x == SubSeq(read_buffer, read_pos + 1, read_pos + n)
<1>1. read_buffer \in Seq(Byte) /\ read_pos \in Nat /\ read_pos <= Len(read_buffer)
      /\ Len(read_buffer) \in Nat /\ InBuffer = Len(read_buffer) - read_pos /\ InBuffer \in Nat
  BY DEF WsTypes, InBuffer
<1>2. InBuffer # 0 /\ got' = Cat(got, x)
      /\ UNCHANGED <<stream, sent, inflight, peer, read_closed, read_end>>
      /\ IF n = InBuffer
         THEN read_buffer' = <<>> /\ read_pos' = 0
         ELSE read_pos' = read_pos + n /\ UNCHANGED read_buffer
  BY <1>1 DEF ReadBuffered, ReadFrame, Cat
<1>3. n \in Nat /\ n <= InBuffer /\ n # 0 /\ n <= room
  BY <1>1, <1>2, LesserIs
<1> HIDE DEF n
<1>4. read_pos + n \in Nat /\ read_pos <= read_pos + n /\ read_pos + n <= Len(read_buffer)
      /\ (read_pos + n) - read_pos = n
  BY <1>1, <1>3
<1>5. x \in Seq(Byte) /\ Len(x) = n
  <2>1. x \in Seq(Byte) /\ Len(x) = (read_pos + n) - read_pos
    BY <1>1, <1>4, Piece
  <2> HIDE DEF x
  <2>2. QED
    BY <1>4, <2>1
<1>6. Unread' \in Seq(Byte) /\ Unread = Cat(x, Unread')
      /\ read_buffer' \in Seq(Byte) /\ read_pos' \in 0 .. Len(read_buffer')
  <2>1. CASE n = InBuffer
    <3>1. read_pos + n = Len(read_buffer)
      BY <1>1, <2>1
    <3>2. Unread = x
      BY <3>1 DEF Unread
    <3>3. read_buffer' = <<>> /\ read_pos' = 0
      BY <1>2, <2>1
    <3>4. Unread' = <<>>
      BY <3>3 DEF Unread
    <3>5. x \in Seq(Byte)
      BY <1>5
    <3> HIDE DEF x
    <3>6. QED
      BY <3>2, <3>3, <3>4, <3>5, JoinedEmpty
  <2>2. CASE n # InBuffer
    <3>1. read_pos' = read_pos + n /\ read_buffer' = read_buffer
      BY <1>2, <2>2
    <3>2. Unread' = SubSeq(read_buffer, (read_pos + n) + 1, Len(read_buffer))
      BY <3>1 DEF Unread
    <3>3. SubSeq(read_buffer, (read_pos + n) + 1, Len(read_buffer)) \in Seq(Byte)
      BY <1>1, <1>4, Halves
    <3>4. Cat(x, SubSeq(read_buffer, (read_pos + n) + 1, Len(read_buffer))) = Unread
      <4> DEFINE k == read_pos + n
                 L == Len(read_buffer)
      <4>1. k \in Nat /\ read_pos <= k /\ k <= L /\ L \in Nat /\ L <= Len(read_buffer)
            /\ read_pos \in Nat /\ read_buffer \in Seq(Byte)
        BY <1>1, <1>4
      <4> HIDE DEF k, L
      <4>2. Cat(SubSeq(read_buffer, read_pos + 1, k), SubSeq(read_buffer, k + 1, L))
              = SubSeq(read_buffer, read_pos + 1, L)
        BY <4>1, Pieces
      <4>3. QED
        BY <4>2 DEF Unread, k, L
    <3>5. QED
      BY <1>1, <1>4, <3>1, <3>2, <3>3, <3>4
  <2>3. QED
    BY <2>1, <2>2
<1> HIDE DEF x
<1>7. got' \in Seq(Byte) /\ Delivered(x) /\ Len(x) <= room
  <2>1. got \in Seq(Byte)
    BY RestType
  <2>2. x # <<>>
    BY <1>3, <1>5
  <2>3. QED
    BY <1>2, <1>3, <1>5, <2>1, <2>2, Grouped DEF Delivered
<1>8. Received'
  <2> DEFINE g == got
             y == Unread'
             d == Datas(inflight)
  <2>1. g \in Seq(Byte) /\ y \in Seq(Byte) /\ d \in Seq(Byte) /\ x \in Seq(Byte)
    BY <1>5, <1>6, RestType
  <2>2. Cat(g, Cat(Cat(x, y), d)) = SubSeq(stream, 1, sent)
    BY <1>6 DEF ReadSide, Received
  <2>3. got' = Cat(g, x) /\ Datas(inflight') = d /\ Unread' = y
    BY <1>2
  <2> HIDE DEF g, y, d
  <2>4. Cat(Cat(g, x), Cat(y, d)) = Cat(g, Cat(Cat(x, y), d))
    BY <2>1, MoveFront
  <2>5. Cat(got', Cat(Unread', Datas(inflight'))) = SubSeq(stream, 1, sent)
    BY <2>2, <2>3, <2>4, Zenon
  <2>6. QED
    BY <1>2, <2>5 DEF Received
<1>9. Delivery' /\ ReadEnds'
  BY <1>2, SMTT(30) DEF ReadSide, Delivery, ReadEnds
<1>10. QED
  BY <1>6, <1>7, <1>8, <1>9 DEF ReadSide

\* A message taken from the front.
LEMMA TakenRead ==
  ASSUME WsTypes, Delivery, inflight # <<>>, inflight' = Tail(inflight), peer' = peer
  PROVE  Delivery' /\ inflight' \in Seq(Messages)
<1>1. inflight' \in Seq(Messages) /\ Len(inflight') = Len(inflight) - 1 /\ Len(inflight) \in Nat
      /\ \A i \in 1 .. Len(inflight) - 1 : inflight'[i] = inflight[i + 1]
  BY DEF WsTypes
<1>2. Len(inflight') <= MaxInFlight + 1 /\ (peer' = "open" => Len(inflight') <= MaxInFlight)
  <2> DEFINE k == Len(inflight)
             l == Len(inflight')
  <2>1. k \in Nat /\ l = k - 1
    BY <1>1
  <2>2. k <= MaxInFlight + 1 /\ (peer = "open" => k <= MaxInFlight)
    BY DEF Delivery
  <2> HIDE DEF k, l
  <2>3. l <= MaxInFlight + 1 /\ (peer' = "open" => l <= MaxInFlight)
    BY <2>1, <2>2, MaxesNat
  <2>4. QED
    BY <2>3 DEF l
<1>3. ASSUME NEW i \in 1 .. Len(inflight')
      PROVE  /\ inflight'[i].kind # "binary" => inflight'[i].data = <<>>
             /\ inflight'[i].kind = "close" => i = Len(inflight') /\ peer' = "closed"
  <2>1. i + 1 \in 1 .. Len(inflight) /\ inflight'[i] = inflight[i + 1]
    BY <1>1
  <2>2. /\ inflight[i + 1].kind # "binary" => inflight[i + 1].data = <<>>
        /\ inflight[i + 1].kind = "close" => i + 1 = Len(inflight) /\ peer = "closed"
    BY <2>1, Zenon DEF Delivery
  <2>3. i + 1 = Len(inflight) => i = Len(inflight')
    <3> DEFINE k == Len(inflight)
               l == Len(inflight')
    <3>1. k \in Nat /\ l = k - 1 /\ i \in Int
      BY <1>1
    <3> HIDE DEF k, l
    <3>2. i + 1 = k => i = l
      BY <3>1
    <3>3. QED
      BY <3>2 DEF k, l
  <2>4. QED
    BY <2>1, <2>2, <2>3, Zenon
<1>4. QED
  BY <1>1, <1>2, <1>3, Zenon DEF Delivery

\* An empty buffer.
LEMMA NothingUnread ==
  ASSUME WsTypes, InBuffer = 0
  PROVE  Unread = <<>>
<1>1. Unread \in Seq(Byte) /\ Len(Unread) = 0
  BY RestType
<1>2. QED
  BY <1>1

\* poll_read of a binary message.
LEMMA ReadMessageRead ==
  ASSUME WsTypes, ReadSide, NEW room \in Nat \ {0}, ReadMessage(room)
  PROVE  /\ ReadSide' /\ inflight' \in Seq(Messages) /\ read_end' = read_end
         /\ \E x : Delivered(x) /\ Len(x) <= room
         /\ got' \in Seq(Byte) /\ read_buffer' \in Seq(Byte) /\ read_pos' \in 0 .. Len(read_buffer')
<1> DEFINE d == Head(inflight).data
           n == LesserOf(Len(d), room)
           x == SubSeq(d, 1, n)
           y == SubSeq(d, n + 1, Len(d))
           r == Datas(Tail(inflight))
<1>1. inflight # <<>> /\ inflight' = Tail(inflight) /\ InBuffer = 0 /\ d # <<>>
      /\ got' = Cat(got, x) /\ read_buffer' = y /\ read_pos' = 0
      /\ read_end' = (IF n = 0 THEN "eof" ELSE read_end)
      /\ UNCHANGED <<stream, sent, peer, read_closed>>
  BY DEF ReadMessage, Message, EmptySkipped, ReadFrame, Cat
<1>2. Datas(inflight) = Cat(d, r) /\ d \in Seq(Byte) /\ r \in Seq(Byte)
  BY <1>1, DatasHead DEF WsTypes
<1> HIDE DEF d, r
<1>3. n \in Nat /\ n <= Len(d) /\ n # 0 /\ n <= room
  BY <1>1, <1>2, LesserIs
<1> HIDE DEF n
<1>4. x \in Seq(Byte) /\ y \in Seq(Byte) /\ Cat(x, y) = d /\ Len(x) = n
  BY <1>2, <1>3, Halves
<1> HIDE DEF x, y
<1>5. got' \in Seq(Byte) /\ Delivered(x) /\ Len(x) <= room
  <2>1. got \in Seq(Byte)
    BY RestType
  <2>2. x # <<>>
    BY <1>3, <1>4
  <2>3. QED
    BY <1>1, <1>3, <1>4, <2>1, <2>2, Grouped DEF Delivered
<1>6. Unread' = y /\ read_buffer' \in Seq(Byte) /\ read_pos' \in 0 .. Len(read_buffer')
  <2>1. SubSeq(y, 0 + 1, Len(y)) = y
    BY <1>4, SubSeqFull
  <2>2. QED
    BY <1>1, <1>4, <2>1 DEF Unread
<1>7. Received'
  <2> DEFINE g == got
  <2>1. g \in Seq(Byte) /\ Unread = <<>>
    BY <1>1, RestType, NothingUnread
  <2>2. Cat(g, Cat(<<>>, Cat(d, r))) = SubSeq(stream, 1, sent)
    BY <1>2, <2>1 DEF ReadSide, Received
  <2>3. Cat(d, r) \in Seq(Byte)
    BY <1>2, Grouped
  <2>4. Cat(<<>>, Cat(d, r)) = Cat(d, r)
    BY <2>3, JoinedEmpty
  <2>5. got' = Cat(g, x) /\ Datas(inflight') = r /\ Unread' = y
    BY <1>1, <1>6 DEF r
  <2> HIDE DEF g
  <2>6. Cat(Cat(g, x), Cat(y, r)) = Cat(g, Cat(Cat(x, y), r))
    BY <1>2, <1>4, <2>1, MoveFront
  <2>7. Cat(got', Cat(Unread', Datas(inflight'))) = SubSeq(stream, 1, sent)
    BY <1>4, <2>2, <2>4, <2>5, <2>6, Zenon
  <2>8. QED
    BY <1>1, <2>7 DEF Received
<1>8. read_end' = read_end
  BY <1>1, <1>3
<1>9. ReadEnds'
  BY <1>1, <1>8 DEF ReadSide, ReadEnds
<1>10. Delivery' /\ inflight' \in Seq(Messages)
  BY <1>1, TakenRead DEF ReadSide
<1>11. QED
  BY <1>5, <1>6, <1>7, <1>8, <1>9, <1>10 DEF ReadSide

\* A message without bytes is taken.
LEMMA EmptyTaken ==
  ASSUME WsTypes, ReadSide, inflight # <<>>, inflight' = Tail(inflight),
         Head(inflight).data = <<>>, UNCHANGED <<stream, sent, peer, read_buffer, read_pos, got>>
  PROVE  Received' /\ Delivery' /\ inflight' \in Seq(Messages)
<1> DEFINE r == Datas(Tail(inflight))
<1>1. Datas(inflight) = Cat(<<>>, r) /\ r \in Seq(Byte)
  BY DatasHead DEF WsTypes
<1>2. Datas(inflight') = Datas(inflight)
  <2>1. Cat(<<>>, r) = r
    BY <1>1, JoinedEmpty
  <2>2. QED
    BY <1>1, <2>1
<1>3. Unread' = Unread
  BY DEF Unread
<1>4. Received'
  BY <1>2, <1>3 DEF ReadSide, Received
<1>5. QED
  BY <1>4, TakenRead DEF ReadSide

\* The first message in flight.
LEMMA FirstMessage ==
  ASSUME WsTypes, ReadSide, inflight # <<>>
  PROVE  /\ Head(inflight).kind # "binary" => Head(inflight).data = <<>>
         /\ Head(inflight).kind = "close" => Tail(inflight) = <<>> /\ peer = "closed"
<1>1. Head(inflight) = inflight[1] /\ 1 \in 1 .. Len(inflight) /\ Len(inflight) \in Nat
      /\ (Len(inflight) = 1 => Tail(inflight) = <<>>)
  <2>1. Head(inflight) = inflight[1] /\ 1 \in 1 .. Len(inflight) /\ Len(inflight) \in Nat
    BY DEF WsTypes
  <2>2. Tail(inflight) \in Seq(Messages) /\ Len(Tail(inflight)) = Len(inflight) - 1
    BY DEF WsTypes
  <2>3. Len(inflight) = 1 => Tail(inflight) = <<>>
    <3> DEFINE t == Tail(inflight)
               k == Len(inflight)
    <3>1. t \in Seq(Messages) /\ Len(t) = k - 1
      BY <2>2
    <3> HIDE DEF t, k
    <3>2. k = 1 => t = <<>>
      BY <3>1
    <3>3. QED
      BY <3>2 DEF t, k
  <2>4. QED
    BY <2>1, <2>3
<1>2. /\ inflight[1].kind # "binary" => inflight[1].data = <<>>
      /\ inflight[1].kind = "close" => 1 = Len(inflight) /\ peer = "closed"
  BY <1>1, Zenon DEF ReadSide, Delivery
<1>3. QED
  BY <1>1, <1>2

\* poll_read skips a message.
LEMMA ReadSkipRead ==
  ASSUME WsTypes, ReadSide, ReadSkip
  PROVE  ReadSide' /\ inflight' \in Seq(Messages)
<1>1. inflight # <<>> /\ inflight' = Tail(inflight) /\ Head(inflight).data = <<>>
  <2>1. CASE Message("binary") /\ EmptySkipped(Head(inflight).data)
    BY <2>1 DEF Message, EmptySkipped
  <2>2. CASE Message("text")
    BY <2>2, FirstMessage DEF Message
  <2>3. CASE Message("ping")
    BY <2>3, FirstMessage DEF Message
  <2>4. QED
    BY <2>1, <2>2, <2>3 DEF ReadSkip
<1>2. UNCHANGED <<stream, sent, peer, read_buffer, read_pos, got, read_closed, read_end>>
  BY DEF ReadSkip, ReadFrame, read_vars
<1>3. ReadEnds'
  BY <1>2 DEF ReadSide, ReadEnds
<1>4. QED
  BY <1>1, <1>2, <1>3, EmptyTaken DEF ReadSide

\* The client's Close is read: everything it has sent was delivered.
LEMMA ReadCloseRead ==
  ASSUME WsTypes, ReadSide, ReadClose
  PROVE  /\ ReadSide' /\ inflight' \in Seq(Messages)
         /\ peer = "closed" /\ got = SubSeq(stream, 1, sent)
<1>1. inflight # <<>> /\ inflight' = Tail(inflight) /\ InBuffer = 0 /\ Head(inflight).kind = "close"
      /\ read_closed' = TRUE /\ read_end' = "eof"
      /\ UNCHANGED <<stream, sent, peer, read_buffer, read_pos, got>>
  BY DEF ReadClose, Message, ReadFrame
<1>2. Head(inflight).data = <<>> /\ Tail(inflight) = <<>> /\ peer = "closed"
  BY <1>1, FirstMessage
<1>3. Received' /\ Delivery' /\ inflight' \in Seq(Messages)
  BY <1>1, <1>2, EmptyTaken
<1>4. ReadEnds'
  BY <1>1 DEF ReadEnds
<1>5. got = SubSeq(stream, 1, sent)
  <2>1. got' = got /\ stream' = stream /\ sent' = sent /\ Datas(inflight') = <<>> /\ got \in Seq(Byte)
    BY <1>1, <1>2, DatasType, RestType DEF WsTypes
  <2>2. Unread' = <<>>
    BY <1>1, NothingUnread DEF Unread
  <2>3. Cat(got, Cat(<<>>, <<>>)) = SubSeq(stream, 1, sent)
    BY <1>3, <2>1, <2>2 DEF Received
  <2>4. Cat(<<>>, <<>>) = <<>> /\ Cat(got, <<>>) = got
    BY <2>1, JoinedEmpty
  <2>5. QED
    BY <2>3, <2>4
<1>6. QED
  BY <1>2, <1>3, <1>4, <1>5 DEF ReadSide

\* The end of the socket.
LEMMA ReadErrorRead ==
  ASSUME WsTypes, ReadSide, ReadError
  PROVE  ReadSide'
<1>1. UNCHANGED <<stream, sent, inflight, peer, got, read_buffer, read_pos>>
      /\ read_closed' = TRUE /\ read_end' = "error"
  BY DEF ReadError, ReadFrame
<1>2. Delivery'
  BY <1>1 DEF ReadSide, Delivery
<1>3. Received'
  BY <1>1 DEF ReadSide, Received, Unread, Datas, Loads
<1>4. QED
  BY <1>1, <1>2, <1>3 DEF ReadSide, ReadEnds

-----------------------------------------------------------------------------
(* Steps that write.                                                       *)

\* Frames are no bytes.
LEMMA Controls ==
  /\ CLOSE \in Control /\ PONG \in Control /\ Control \cap Nat = {} /\ Nat \cap Control = {}
  /\ PONG # CLOSE /\ Control \subseteq Cell /\ Nat \subseteq Cell
BY DEF CLOSE, PONG, Control, Cell

\* A sequence over a smaller set.
LEMMA CellTypes ==
  /\ \A s \in Seq(Nat) : s \in Seq(Cell)
  /\ \A s \in Seq(Control) : s \in Seq(Cell)
  /\ <<PONG>> \in Seq(Control) /\ <<CLOSE>> \in Seq(Control) /\ <<>> \in Seq(Control)
<1>1. CLOSE \in Control /\ PONG \in Control /\ Control \subseteq Cell /\ Nat \subseteq Cell
  BY Controls
<1>2. \A s \in Seq(Nat) : s \in Seq(Cell)
  BY <1>1
<1>3. \A s \in Seq(Control) : s \in Seq(Cell)
  BY <1>1
<1>4. <<PONG>> \in Seq(Control) /\ <<CLOSE>> \in Seq(Control) /\ <<>> \in Seq(Control)
  BY <1>1
<1>5. QED
  BY <1>2, <1>3, <1>4

\* Writing to the socket moves cells from out_buffer to wire.
LEMMA WriteOutMoves ==
  ASSUME WsTypes, NEW b \in Seq(Cell), WriteOut(b)
  PROVE  /\ wire' \in Seq(Cell) /\ out_buffer' \in Seq(Cell)
         /\ Cat(wire', out_buffer') = Cat(wire, b)
         /\ \E x \in Seq(Cell) : wire' = Cat(wire, x)
         /\ Len(out_buffer') <= Len(b)
         /\ b \in Seq(Control) => out_buffer' \in Seq(Control)
<1>1. Len(b) \in Nat /\ wire \in Seq(Cell)
  BY DEF WsTypes
<1>2. PICK k \in IF blocked /\ b # <<>> THEN 0 .. LesserOf(1, Len(b) - 1) ELSE {Len(b)} :
        wire' = Cat(wire, SubSeq(b, 1, k)) /\ out_buffer' = SubSeq(b, k + 1, Len(b))
  BY Zenon DEF WriteOut, Cat
<1>3. k \in Nat /\ k <= Len(b)
  <2>1. CASE blocked /\ b # <<>>
    <3>1. k \in 0 .. LesserOf(1, Len(b) - 1) /\ Len(b) # 0
      BY <2>1
    <3>2. QED
      BY <1>1, <3>1 DEF LesserOf
  <2>2. CASE ~(blocked /\ b # <<>>)
    BY <1>1, <2>2
  <2>3. QED
    BY <2>1, <2>2
<1> DEFINE x == SubSeq(b, 1, k)
           y == SubSeq(b, k + 1, Len(b))
<1>4. x \in Seq(Cell) /\ y \in Seq(Cell) /\ Cat(x, y) = b /\ Len(y) = Len(b) - k
  BY <1>3, Halves
<1>5. b \in Seq(Control) => y \in Seq(Control)
  BY <1>3, Halves
<1> HIDE DEF x, y
<1>6. wire' = Cat(wire, x) /\ out_buffer' = y
  BY <1>2 DEF x, y
<1>7. Cat(Cat(wire, x), y) = Cat(wire, Cat(x, y)) /\ Cat(wire, x) \in Seq(Cell)
  BY <1>1, <1>4, Grouped
<1>8. Len(y) <= Len(b)
  BY <1>1, <1>3, <1>4
<1>9. QED
  BY <1>4, <1>5, <1>6, <1>7, <1>8

\* A Close among two pieces.
LEMMA CloseIn ==
  ASSUME NEW a \in Seq(Cell), NEW b \in Seq(Cell)
  PROVE  HasClose(Cat(a, b)) <=> HasClose(a) \/ HasClose(b)
<1> DEFINE c == Cat(a, b)
<1>1. /\ Len(c) = Len(a) + Len(b) /\ Len(a) \in Nat /\ Len(b) \in Nat
      /\ \A i \in 1 .. Len(a) : c[i] = a[i]
      /\ \A i \in 1 .. Len(b) : c[Len(a) + i] = b[i]
  BY DEF Cat
<1> HIDE DEF c
<1>2. HasClose(a) => HasClose(c)
  <2>1. \A i \in 1 .. Len(a) : i \in 1 .. Len(c)
    BY <1>1
  <2>2. QED
    BY <1>1, <2>1, Zenon DEF HasClose
<1>3. HasClose(b) => HasClose(c)
  <2>1. \A i \in 1 .. Len(b) : Len(a) + i \in 1 .. Len(c)
    BY <1>1
  <2>2. QED
    BY <1>1, <2>1, Zenon DEF HasClose
<1>4. ASSUME NEW i \in 1 .. Len(c), c[i] = CLOSE
      PROVE  HasClose(a) \/ HasClose(b)
  <2>1. CASE i <= Len(a)
    <3>1. i \in 1 .. Len(a)
      BY <1>1, <2>1
    <3>2. QED
      BY <1>1, <1>4, <3>1, Zenon DEF HasClose
  <2>2. CASE ~(i <= Len(a))
    <3>1. i - Len(a) \in 1 .. Len(b) /\ Len(a) + (i - Len(a)) = i
      BY <1>1, <2>2
    <3>2. b[i - Len(a)] = CLOSE
      BY <1>1, <1>4, <3>1
    <3>3. QED
      BY <3>1, <3>2, Zenon DEF HasClose
  <2>3. QED
    BY <2>1, <2>2
<1>5. QED
  BY <1>2, <1>3, <1>4, Zenon DEF HasClose, c

\* What may be added behind: anything, or only frames once there is a Close.
LEMMA CloseStaysLast ==
  ASSUME NEW a \in Seq(Cell), NEW b \in Seq(Cell), CloseLast(a),
         b \in Seq(Control) \/ (~HasClose(a) /\ ~HasClose(b))
  PROVE  CloseLast(Cat(a, b))
<1> DEFINE c == Cat(a, b)
<1>1. /\ Len(c) = Len(a) + Len(b) /\ Len(a) \in Nat /\ Len(b) \in Nat
      /\ \A i \in 1 .. Len(a) : c[i] = a[i]
      /\ \A i \in 1 .. Len(b) : c[Len(a) + i] = b[i]
      /\ HasClose(c) <=> HasClose(a) \/ HasClose(b)
  BY CloseIn DEF Cat
<1> HIDE DEF c
<1>2. CASE b \in Seq(Control)
  <2>1. ASSUME NEW i \in 1 .. Len(c), c[i] = CLOSE, NEW j \in i .. Len(c)
        PROVE  c[j] \in Control
    <3>1. CASE j <= Len(a)
      <4>1. i \in 1 .. Len(a) /\ j \in 1 .. Len(a) /\ j \in i .. Len(a)
        BY <1>1, <3>1
      <4>2. a[i] = CLOSE /\ c[j] = a[j]
        BY <1>1, <2>1, <4>1
      <4>3. QED
        BY <4>1, <4>2, Zenon DEF CloseLast
    <3>2. CASE ~(j <= Len(a))
      <4>1. j - Len(a) \in 1 .. Len(b) /\ Len(a) + (j - Len(a)) = j
        BY <1>1, <3>2
      <4>2. c[j] = b[j - Len(a)]
        BY <1>1, <4>1
      <4>3. b[j - Len(a)] \in Control
        BY <1>2, <4>1
      <4>4. QED
        BY <4>2, <4>3
    <3>3. QED
      BY <3>1, <3>2
  <2>2. QED
    BY <2>1, Zenon DEF CloseLast, c
<1>3. CASE ~HasClose(a) /\ ~HasClose(b)
  BY <1>1, <1>3, Zenon DEF CloseLast, HasClose, c
<1>4. QED
  BY <1>2, <1>3

\* Bytes and frames handed over.
LEMMA HandedGrows ==
  ASSUME WsTypes, InOrder, NEW x, Handed' = Cat(Handed, x),
         \/ x \in Seq(Control) /\ written' = written /\ (HasClose(x) => read_closed' \/ write_closed')
         \/ x \in Seq(Nat) /\ ~HasClose(Handed) /\ written' = Cat(written, x),
         read_closed => read_closed', write_closed => write_closed'
  PROVE  InOrder' /\ (HasClose(Handed') <=> HasClose(Handed) \/ HasClose(x))
<1>1. Handed \in Seq(Cell) /\ written \in Seq(Nat)
  BY Grouped DEF Handed, WsTypes
<1> DEFINE h == Handed
<1>2. DataIn(h) = written /\ CloseLast(h) /\ (HasClose(h) => read_closed \/ write_closed)
  BY DEF InOrder
<1>3. x \in Seq(Cell)
  BY CellTypes
<1>4. HasClose(Cat(h, x)) <=> HasClose(h) \/ HasClose(x)
  BY <1>1, <1>3, CloseIn
<1>5. DataIn(Cat(h, x)) = Cat(written, DataIn(x))
  BY <1>1, <1>2, <1>3, OnlyConcat, ZenonT(40) DEF DataIn, Cat
<1>6. CASE x \in Seq(Control) /\ written' = written /\ (HasClose(x) => read_closed' \/ write_closed')
  <2>1. DataIn(x) = <<>>
    BY <1>6, Controls, OnlyNone DEF DataIn
  <2>2. Cat(written, <<>>) = written
    BY <1>1, JoinedEmpty
  <2>3. CloseLast(Cat(h, x))
    BY <1>1, <1>2, <1>3, <1>6, CloseStaysLast
  <2>4. QED
    BY <1>2, <1>4, <1>5, <1>6, <2>1, <2>2, <2>3, Zenon DEF InOrder
<1>7. CASE x \in Seq(Nat) /\ ~HasClose(Handed) /\ written' = Cat(written, x)
  <2>1. DataIn(x) = x
    BY <1>7, OnlyAll DEF DataIn
  <2>2. ~HasClose(x)
    <3>1. \A i \in 1 .. Len(x) : x[i] \in Nat
      BY <1>7
    <3>2. CLOSE \notin Nat
      BY DEF CLOSE
    <3>3. QED
      BY <3>1, <3>2, Zenon DEF HasClose
  <2>3. CloseLast(Cat(h, x))
    BY <1>1, <1>2, <1>3, <1>7, <2>2, CloseStaysLast
  <2>4. QED
    BY <1>2, <1>4, <1>5, <1>7, <2>1, <2>2, <2>3, Zenon DEF InOrder
<1>8. QED
  BY <1>6, <1>7

\* Nothing handed over.
LEMMA HandedSame ==
  ASSUME WsTypes, InOrder, Handed' = Handed, written' = written,
         read_closed => read_closed', write_closed => write_closed'
  PROVE  InOrder'
BY DEF InOrder

\* How many Pings are in flight.
LEMMA PingsType ==
  ASSUME WsTypes
  PROVE  Pings \in Nat /\ idles \in Nat /\ Len(out_buffer) \in Nat
<1>1. inflight \in Seq(Messages) /\ out_buffer \in Seq(Cell) /\ idles \in Nat
  BY MaxesNat DEF WsTypes
<1>2. Only(inflight, {Ping}) \in Seq(Messages)
  BY <1>1, OnlyType
<1>3. QED
  BY <1>1, <1>2 DEF Pings, Ping

\* A message that is taken was a Ping or not.
LEMMA PingsTaken ==
  ASSUME WsTypes, inflight # <<>>, inflight' = Tail(inflight)
  PROVE  /\ Pings' \in Nat /\ Pings' <= Pings
         /\ Head(inflight).kind = "ping" /\ Head(inflight).data = <<>> => Pings' + 1 = Pings
<1>1. inflight \in Seq(Messages)
  BY DEF WsTypes
<1>2. /\ Pings = (IF Head(inflight) = Ping THEN 1 ELSE 0) + Pings'
      /\ Pings' \in Nat
  BY <1>1, PingsHead, Zenon DEF Pings, Ping
<1>3. Head(inflight).kind = "ping" /\ Head(inflight).data = <<>> => Head(inflight) = Ping
  <2>1. Head(inflight) \in Messages
    BY <1>1
  <2>2. QED
    BY <2>1 DEF Messages, Ping
<1> DEFINE p == Pings
           q == Pings'
<1> HIDE DEF p, q
<1>4. q \in Nat /\ p = (IF Head(inflight) = Ping THEN 1 ELSE 0) + q
  BY <1>2 DEF p, q
<1>5. CASE Head(inflight) = Ping
  <2>1. p = 1 + q
    BY <1>4, <1>5
  <2>2. q <= p /\ q + 1 = p
    BY <1>4, <2>1
  <2>3. QED
    BY <1>4, <2>2, Zenon DEF p, q
<1>6. CASE Head(inflight) # Ping
  <2>1. p = 0 + q
    BY <1>4, <1>6
  <2>2. q <= p
    BY <1>4, <2>1
  <2>3. QED
    BY <1>3, <1>4, <1>6, <2>2, Zenon DEF p, q
<1>7. QED
  BY <1>5, <1>6

\* A message of the client that costs one of its idle messages, or has bytes.
LEMMA PingsSent ==
  ASSUME WsTypes, Client
  PROVE  Pings' \in Nat /\ idles' \in Nat /\ idles' <= idles /\ Pings' + idles' <= Pings + idles
<1> DEFINE p == Pings
           q == Pings'
<1>0. p \in Nat /\ idles \in Nat /\ inflight \in Seq(Messages)
  BY PingsType DEF WsTypes
<1>1. ASSUME NEW m \in Messages, inflight' = Append(inflight, m)
      PROVE  q = p + (IF m = Ping THEN 1 ELSE 0)
  BY <1>0, <1>1, PingsAppend, Zenon DEF Pings, Ping
<1>2. ASSUME inflight' = inflight PROVE q = p
  BY <1>2 DEF Pings
<1> HIDE DEF p, q
<1>3. CASE SendMessage
  <2>1. PICK n : inflight' = Append(inflight, [kind |-> "binary", data |-> SubSeq(stream, sent + 1, sent + n)])
                 /\ sent' = sent + n /\ n \in 1 .. LesserOf(Len(stream) - sent, MaxMessage)
    BY <1>3, Zenon DEF SendMessage
  <2> DEFINE d == SubSeq(stream, sent + 1, sent + n)
             m == [kind |-> "binary", data |-> d]
  <2>2. d \in Seq(Byte)
    <3>1. stream \in Seq(Byte) /\ Len(stream) \in Nat /\ sent \in Nat /\ sent <= Len(stream)
      BY DEF WsTypes
    <3>2. n \in Nat /\ n <= Len(stream) - sent
      BY <2>1, <3>1, MaxesNat DEF LesserOf
    <3>3. sent + n \in Nat /\ sent <= sent + n /\ sent + n <= Len(stream)
      BY <3>1, <3>2
    <3>4. QED
      BY <3>1, <3>3, Piece
  <2> HIDE DEF d
  <2>3. m \in Messages /\ m # Ping
    <3>1. m.kind = "binary" /\ Ping.kind = "ping"
      BY DEF Ping
    <3>2. QED
      BY <2>2, <3>1 DEF Messages
  <2>4. inflight' = Append(inflight, m) /\ idles' = idles
    BY <1>3, <2>1 DEF SendMessage, d
  <2> HIDE DEF m
  <2>5. q = p
    BY <1>0, <1>1, <2>3, <2>4
  <2>6. QED
    BY <1>0, <2>4, <2>5 DEF p, q
<1>4. ASSUME NEW kind \in {"binary", "text", "ping"}, SendIdle(kind)
      PROVE  q \in Nat /\ idles' \in Nat /\ idles' <= idles /\ q + idles' <= p + idles
  <2> DEFINE m == [kind |-> kind, data |-> <<>>]
  <2>1. m \in Messages
    BY DEF Messages
  <2>2. inflight' = Append(inflight, m) /\ idles > 0 /\ idles' = idles - 1
    BY <1>4 DEF SendIdle
  <2> HIDE DEF m
  <2>3. q = p \/ q = p + 1
    BY <1>0, <1>1, <2>1, <2>2
  <2>4. QED
    BY <1>0, <2>2, <2>3
<1>5. CASE SendClose
  <2> DEFINE m == [kind |-> "close", data |-> <<>>]
  <2>1. m \in Messages /\ m # Ping
    <3>1. m.kind = "close" /\ Ping.kind = "ping"
      BY DEF Ping
    <3>2. QED
      BY <3>1 DEF Messages
  <2>2. inflight' = Append(inflight, m) /\ idles' = idles
    BY <1>5 DEF SendClose
  <2> HIDE DEF m
  <2>3. q = p
    BY <1>0, <1>1, <2>1, <2>2
  <2>4. QED
    BY <1>0, <2>2, <2>3 DEF p, q
<1>6. CASE Vanish \/ Socket
  <2>1. inflight' = inflight /\ idles' = idles
    BY <1>6 DEF Vanish, Socket, Block, BreakSocket
  <2>2. QED
    BY <1>0, <1>2, <2>1 DEF p, q
<1>7. QED
  BY <1>3, <1>4, <1>5, <1>6 DEF Client, p, q

\* Sums of naturals, for terms that the provers do not take apart.
LEMMA SumNat == \A p, q \in Nat : p + q \in Nat
OBVIOUS

\* Both summands are no larger.
LEMMA SumLess == \A p, q, i, j \in Nat : q <= p /\ j <= i => q + j <= p + i
OBVIOUS

\* The arithmetic of the buffer.
LEMMA BufferedKept ==
  ASSUME WsTypes, Buffered, Pings' \in Nat, idles' \in Nat, Len(out_buffer') \in Nat,
         Pings' + idles' <= Pings + idles,
         \/ ~(ready' /\ ~read_closed' /\ ~write_closed')
         \/ Len(out_buffer') <= BufferSize
         \/ /\ ready /\ ~read_closed /\ ~write_closed
            /\ Len(out_buffer') + (Pings' + idles') <= Len(out_buffer) + (Pings + idles)
  PROVE  Buffered'
<1> DEFINE a == Pings + idles
           b == Pings' + idles'
           l == Len(out_buffer)
           k == Len(out_buffer')
           r == ready' /\ ~read_closed' /\ ~write_closed'
<1>1. a \in Nat /\ b \in Nat /\ l \in Nat /\ k \in Nat /\ b <= a /\ a <= MaxIdle
  <2>1. Pings \in Nat /\ idles \in Nat /\ Len(out_buffer) \in Nat
    BY PingsType
  <2>2. Pings + idles <= MaxIdle
    BY DEF Buffered
  <2>3. QED
    BY <2>1, <2>2, SumNat, Zenon
<1>2. ready /\ ~read_closed /\ ~write_closed => l + a <= BufferSize + MaxIdle
  BY DEF Buffered
<1>3. \/ ~r \/ k <= BufferSize
      \/ ready /\ ~read_closed /\ ~write_closed /\ k + b <= l + a
  OBVIOUS
<1> HIDE DEF a, b, l, k, r
<1>4. b <= MaxIdle
  BY <1>1, MaxesNat
<1>5. r => k + b <= BufferSize + MaxIdle
  <2>1. CASE k <= BufferSize
    BY <1>1, <2>1, MaxesNat
  <2>2. CASE k + b <= l + a /\ l + a <= BufferSize + MaxIdle
    BY <1>1, <2>2, MaxesNat
  <2>3. QED
    BY <1>2, <1>3, <2>1, <2>2, Zenon
<1>6. QED
  BY <1>4, <1>5 DEF Buffered, a, b, l, k, r

WriteSide == InOrder /\ Closing /\ Buffered /\ WritesFine

\* The sink is left alone.
write_side == <<ready, out_buffer, wire, close_reply, written, write_error, write_closed, shut>>

\* The client, the handshake and reads that leave the sink alone.
LEMMA SinkKept ==
  ASSUME WsTypes, WriteSide, UNCHANGED write_side, UNCHANGED <<read_closed, read_end>>,
         broken => broken', Pings' \in Nat, idles' \in Nat, Pings' + idles' <= Pings + idles
  PROVE  WriteSide'
<1> USE DEF write_side
<1>1. Handed' = Handed
  BY DEF Handed
<1>2. InOrder'
  BY <1>1, HandedSame DEF WriteSide
<1>3. Closing'
  BY <1>1 DEF WriteSide, Closing
<1>4. Buffered'
  <2>1. Len(out_buffer') \in Nat /\ Len(out_buffer') = Len(out_buffer) /\ Pings \in Nat /\ idles \in Nat
    BY PingsType
  <2>2. Len(out_buffer') + (Pings' + idles') <= Len(out_buffer) + (Pings + idles)
    <3>1. Pings + idles \in Nat /\ Pings' + idles' \in Nat
      BY <2>1, SumNat, Zenon
    <3>2. Len(out_buffer') <= Len(out_buffer)
      BY <2>1
    <3>3. QED
      BY <2>1, <3>1, <3>2, SumLess, Zenon
  <2>3. QED
    BY <2>1, <2>2, BufferedKept DEF WriteSide
<1>5. WritesFine'
  BY DEF WriteSide, WritesFine
<1>6. QED
  BY <1>2, <1>3, <1>4, <1>5 DEF WriteSide

\* The client.
LEMMA ClientWrite ==
  ASSUME WsTypes, WriteSide, Client
  PROVE  WriteSide' /\ idles' \in 0 .. MaxIdle
<1>1. UNCHANGED write_side /\ UNCHANGED <<read_closed, read_end>>
  BY DEF Client, Socket, SendMessage, SendIdle, SendClose, Vanish, Block, BreakSocket,
     ClientFrame,
         write_side, read_vars, sink_vars, write_vars
<1>2. broken => broken'
  BY DEF Client, Socket, SendMessage, SendIdle, SendClose, Vanish, Block, BreakSocket
<1>3. Pings' \in Nat /\ idles' \in Nat /\ idles' <= idles /\ Pings' + idles' <= Pings + idles
  BY PingsSent
<1>4. idles' \in 0 .. MaxIdle
  <2>1. idles \in Nat /\ idles <= MaxIdle
    BY MaxesNat DEF WsTypes
  <2>2. QED
    BY <1>3, <2>1, MaxesNat
<1>5. QED
  BY <1>1, <1>2, <1>3, <1>4, SinkKept

\* Pings when neither messages nor idle messages change.
LEMMA PingsKept ==
  ASSUME WsTypes, UNCHANGED <<inflight, idles>>
  PROVE  /\ Pings' = Pings /\ Pings \in Nat /\ Pings' \in Nat /\ idles' \in Nat
         /\ Pings' + idles' <= Pings + idles
<1>1. Pings' = Pings
  BY DEF Pings
<1>2. QED
  BY <1>1, PingsType

\* accept()
LEMMA HandshakeWrite ==
  ASSUME WsTypes, WriteSide, Handshake
  PROVE  WriteSide'
<1>1. UNCHANGED write_side /\ UNCHANGED <<read_closed, read_end, broken, inflight, idles>>
  BY DEF Handshake, write_side, sink_vars, write_vars
<1>2. QED
  BY <1>1, PingsKept, SinkKept

\* poll_read of buffered bytes.
LEMMA ReadBufferedWrite ==
  ASSUME WsTypes, WriteSide, NEW room, ReadBuffered(room)
  PROVE  WriteSide'
<1>1. UNCHANGED write_side /\ UNCHANGED <<read_closed, read_end, broken, inflight, idles>>
  BY DEF ReadBuffered, ReadFrame, write_side, sink_vars, write_vars
<1>2. QED
  BY <1>1, PingsKept, SinkKept

\* poll_read of a message.
LEMMA ReadMessageWrite ==
  ASSUME WsTypes, WriteSide, NEW room, ReadMessage(room), read_end' = read_end
  PROVE  WriteSide'
<1>1. UNCHANGED write_side /\ UNCHANGED <<read_closed, broken, idles>>
      /\ inflight # <<>> /\ inflight' = Tail(inflight)
  BY DEF ReadMessage, Message, ReadFrame, write_side, sink_vars, write_vars
<1>2. Pings' \in Nat /\ Pings' <= Pings /\ Pings \in Nat /\ idles' = idles /\ idles \in Nat
  BY <1>1, PingsTaken, PingsType
<1>3. Pings' + idles' <= Pings + idles /\ idles' \in Nat
  <2>1. idles' <= idles /\ idles' \in Nat
    BY <1>2
  <2>2. QED
    BY <1>2, <2>1, SumLess, Zenon
<1>4. QED
  BY <1>1, <1>2, <1>3, SinkKept

\* A frame behind what is buffered.
LEMMA FrameBehind ==
  ASSUME WsTypes, NEW f \in Control
  PROVE  /\ Append(out_buffer, f) \in Seq(Cell) /\ Cat(wire, Append(out_buffer, f)) = Cat(Handed, <<f>>)
         /\ <<f>> \in Seq(Control) /\ (HasClose(<<f>>) <=> f = CLOSE)
         /\ Len(Append(out_buffer, f)) = Len(out_buffer) + 1
         /\ out_buffer \in Seq(Control) => Append(out_buffer, f) \in Seq(Control)
<1>1. wire \in Seq(Cell) /\ out_buffer \in Seq(Cell) /\ f \in Cell
  BY Controls DEF WsTypes
<1>2. <<f>> \in Seq(Control) /\ <<f>> \in Seq(Cell)
  BY <1>1
<1>3. Append(out_buffer, f) = Cat(out_buffer, <<f>>)
  BY <1>1, AppendIsConcat DEF Cat
<1>4. Cat(wire, Cat(out_buffer, <<f>>)) = Cat(Cat(wire, out_buffer), <<f>>)
  <2> DEFINE x == <<f>>
  <2>1. x \in Seq(Cell)
    BY <1>2
  <2> HIDE DEF x
  <2>2. Cat(wire, Cat(out_buffer, x)) = Cat(Cat(wire, out_buffer), x)
    BY <1>1, <2>1, Grouped
  <2>3. QED
    BY <2>2 DEF x
<1>5. HasClose(<<f>>) <=> f = CLOSE
  <2>1. Len(<<f>>) = 1 /\ <<f>>[1] = f
    OBVIOUS
  <2>2. QED
    BY <2>1 DEF HasClose
<1>6. Append(out_buffer, f) \in Seq(Cell) /\ Len(Append(out_buffer, f)) = Len(out_buffer) + 1
      /\ (out_buffer \in Seq(Control) => Append(out_buffer, f) \in Seq(Control))
  BY <1>1
<1>7. QED
  BY <1>2, <1>3, <1>4, <1>5, <1>6 DEF Handed

\* A Close that the client can read stays readable.
LEMMA WireCloseKept ==
  ASSUME WsTypes, NEW x \in Seq(Cell), wire' = Cat(wire, x), HasClose(wire)
  PROVE  HasClose(wire')
BY CloseIn DEF WsTypes

\* poll_read skips a message; the Pong of a Ping is buffered.
LEMMA ReadSkipWrite ==
  ASSUME WsTypes, ReadSide, WriteSide, ReadSkip
  PROVE  WriteSide' /\ wire' \in Seq(Cell) /\ out_buffer' \in Seq(Cell)
<1>1. UNCHANGED <<close_reply, written, write_error, write_closed, shut, read_closed, read_end, broken, idles>>
      /\ inflight # <<>> /\ inflight' = Tail(inflight)
  BY DEF ReadSkip, Message, ReadFrame, read_vars, write_vars
<1>2. Pings' \in Nat /\ Pings' <= Pings /\ Pings \in Nat /\ idles' = idles /\ idles \in Nat
      /\ idles' \in Nat /\ Len(out_buffer) \in Nat
  BY <1>1, PingsTaken, PingsType
<1>3. Pings' + idles' <= Pings + idles
  <2>1. idles' <= idles
    BY <1>2
  <2>2. QED
    BY <1>2, <2>1, SumLess, Zenon
<1>4. CASE UNCHANGED sink_vars
  <2>1. UNCHANGED write_side
    BY <1>1, <1>4 DEF write_side, sink_vars
  <2>2. wire' \in Seq(Cell) /\ out_buffer' \in Seq(Cell)
    BY <1>4 DEF sink_vars, WsTypes
  <2>3. QED
    BY <1>1, <1>2, <1>3, <2>1, <2>2, SinkKept
<1>5. CASE Message("ping") /\ ~broken /\ WriteOut(Append(out_buffer, PONG)) /\ UNCHANGED ready
  <2> DEFINE b == Append(out_buffer, PONG)
  <2>1. b \in Seq(Cell) /\ Cat(wire, b) = Cat(Handed, <<PONG>>) /\ <<PONG>> \in Seq(Control)
        /\ ~HasClose(<<PONG>>) /\ Len(b) = Len(out_buffer) + 1
        /\ (out_buffer \in Seq(Control) => b \in Seq(Control))
    BY FrameBehind, Controls
  <2>2. /\ wire' \in Seq(Cell) /\ out_buffer' \in Seq(Cell)
        /\ Cat(wire', out_buffer') = Cat(wire, b)
        /\ \E x \in Seq(Cell) : wire' = Cat(wire, x)
        /\ Len(out_buffer') <= Len(b)
        /\ b \in Seq(Control) => out_buffer' \in Seq(Control)
    BY <1>5, <2>1, WriteOutMoves
  <2> HIDE DEF b
  <2>3. Handed' = Cat(Handed, <<PONG>>)
    BY <2>1, <2>2 DEF Handed
  <2>4. InOrder' /\ (HasClose(Handed') <=> HasClose(Handed))
    BY <1>1, <2>1, <2>3, HandedGrows DEF WriteSide
  <2>5. HasClose(wire) => HasClose(wire')
    BY <2>2, WireCloseKept
  <2>6. Closing'
    BY <1>1, <2>1, <2>2, <2>4, <2>5 DEF WriteSide, Closing
  <2>7. Buffered'
    <3>1. Head(inflight).kind = "ping" /\ Head(inflight).data = <<>>
      BY <1>5, FirstMessage DEF Message
    <3>2. Pings' + 1 = Pings
      BY <1>1, <3>1, PingsTaken
    <3>3. Len(out_buffer') \in Nat /\ Len(out_buffer') <= Len(out_buffer) + 1
      BY <2>1, <2>2
    <3>4. Len(out_buffer') + (Pings' + idles') <= Len(out_buffer) + (Pings + idles)
      <4> DEFINE p == Pings
                 q == Pings'
                 i == idles
                 j == idles'
                 l == Len(out_buffer)
                 k == Len(out_buffer')
      <4>1. q \in Nat /\ p = q + 1 /\ j = i /\ i \in Nat /\ l \in Nat /\ k \in Nat /\ k <= l + 1
        BY <1>2, <3>2, <3>3
      <4> HIDE DEF p, q, i, j, l, k
      <4>2. k + (q + j) <= l + (p + i)
        BY <4>1
      <4>3. QED
        BY <4>2, Zenon DEF p, q, i, j, l, k
    <3>5. ready' = ready
      BY <1>5
    <3>6. QED
      BY <1>1, <1>2, <1>3, <3>3, <3>4, <3>5, BufferedKept DEF WriteSide
  <2>8. WritesFine'
    BY <1>1 DEF WriteSide, WritesFine
  <2>9. QED
    BY <2>2, <2>4, <2>6, <2>7, <2>8 DEF WriteSide
<1>6. QED
  BY <1>4, <1>5 DEF ReadSkip

\* The client's Close is read.
LEMMA ReadCloseWrite ==
  ASSUME WsTypes, ReadEnds, WriteSide, ReadClose
  PROVE  WriteSide'
<1>1. UNCHANGED <<ready, out_buffer, wire, written, write_error, write_closed, shut, broken, idles>>
      /\ inflight # <<>> /\ inflight' = Tail(inflight) /\ ~read_closed
      /\ read_closed' = TRUE /\ close_reply' = TRUE /\ read_end' = "eof"
  BY DEF ReadClose, Message, ReadFrame, sink_vars, write_vars
<1>2. Handed' = Handed
  BY <1>1 DEF Handed
<1>3. InOrder'
  BY <1>1, <1>2, HandedSame DEF WriteSide
<1>4. Closing'
  <2>1. shut' = "ok" => out_buffer' \in Seq(Control) /\ HasClose(wire')
    <3>1. read_end # "error"
      BY <1>1 DEF ReadEnds
    <3>2. QED
      BY <1>1, <3>1 DEF WriteSide, Closing
  <2>2. QED
    BY <1>1, <1>2, <2>1 DEF WriteSide, Closing
<1>5. Pings' \in Nat /\ Pings' <= Pings /\ Pings \in Nat /\ idles' = idles /\ idles \in Nat
      /\ Len(out_buffer) \in Nat
  BY <1>1, PingsTaken, PingsType
<1>6. Pings' + idles' <= Pings + idles
  <2>1. idles' <= idles /\ idles' \in Nat
    BY <1>5
  <2>2. QED
    BY <1>5, <2>1, SumLess, Zenon
<1>7. Buffered'
  BY <1>1, <1>5, <1>6, BufferedKept DEF WriteSide
<1>8. WritesFine'
  BY <1>1 DEF WriteSide, WritesFine
<1>9. QED
  BY <1>3, <1>4, <1>7, <1>8 DEF WriteSide

\* The end of the socket.
LEMMA ReadErrorWrite ==
  ASSUME WsTypes, WriteSide, ReadError
  PROVE  WriteSide'
<1>1. UNCHANGED <<ready, out_buffer, wire, written, write_error, write_closed, shut, broken, idles,
                  inflight, close_reply>>
      /\ read_closed' = TRUE /\ read_end' = "error"
  BY DEF ReadError, ReadFrame, sink_vars, write_vars
<1>2. Handed' = Handed
  BY <1>1 DEF Handed
<1>3. InOrder'
  BY <1>1, <1>2, HandedSame DEF WriteSide
<1>4. Closing'
  BY <1>1, <1>2 DEF WriteSide, Closing
<1>5. Buffered'
  BY <1>1, PingsKept, PingsType, BufferedKept DEF WriteSide
<1>6. WritesFine'
  BY <1>1 DEF WriteSide, WritesFine
<1>7. QED
  BY <1>3, <1>4, <1>5, <1>6 DEF WriteSide

\* Frames that do not change what poll_write accepted go out.
LEMMA PushWrite ==
  ASSUME WsTypes, WriteSide, NEW b \in Seq(Cell), WriteOut(b), NEW x,
         x \in Seq(Control), Cat(wire, b) = Cat(Handed, x), HasClose(x) => read_closed,
         UNCHANGED <<inflight, idles, broken, written, write_error, write_closed, read_closed, read_end>>
  PROVE  /\ InOrder' /\ WritesFine' /\ wire' \in Seq(Cell) /\ out_buffer' \in Seq(Cell)
         /\ Len(out_buffer') <= Len(b) /\ Len(out_buffer') \in Nat
         /\ HasClose(wire) => HasClose(wire')
         /\ HasClose(Handed') <=> HasClose(Handed) \/ HasClose(x)
         /\ out_buffer' = <<>> => wire' = Handed'
<1>1. /\ wire' \in Seq(Cell) /\ out_buffer' \in Seq(Cell)
      /\ Cat(wire', out_buffer') = Cat(wire, b)
      /\ \E y \in Seq(Cell) : wire' = Cat(wire, y)
      /\ Len(out_buffer') <= Len(b)
  BY WriteOutMoves
<1>2. Handed' = Cat(Handed, x)
  BY <1>1 DEF Handed
<1>3. InOrder' /\ (HasClose(Handed') <=> HasClose(Handed) \/ HasClose(x))
  BY <1>2, HandedGrows DEF WriteSide
<1>4. HasClose(wire) => HasClose(wire')
  BY <1>1, WireCloseKept
<1>5. out_buffer' = <<>> => wire' = Handed'
  <2>1. Cat(wire', <<>>) = wire'
    BY <1>1, JoinedEmpty
  <2>2. QED
    BY <2>1 DEF Handed
<1>6. Len(out_buffer') \in Nat
  BY <1>1
<1>7. WritesFine'
  BY DEF WriteSide, WritesFine
<1>8. QED
  BY <1>1, <1>3, <1>4, <1>5, <1>6, <1>7

\* Nothing joins what is buffered.
LEMMA NothingBehind ==
  ASSUME WsTypes
  PROVE  /\ Cat(wire, out_buffer) = Cat(Handed, <<>>) /\ <<>> \in Seq(Control) /\ ~HasClose(<<>>)
         /\ out_buffer \in Seq(Cell)
<1>1. Handed \in Seq(Cell)
  BY Grouped DEF Handed, WsTypes
<1>2. Cat(Handed, <<>>) = Handed
  BY <1>1, JoinedEmpty
<1>3. ~HasClose(<<>>)
  BY DEF HasClose
<1>4. QED
  BY <1>2, <1>3, CellTypes DEF Handed, WsTypes

\* poll_ready.
LEMMA PollReadyWrite ==
  ASSUME WsTypes, WriteSide, PollReady
  PROVE  WriteSide' /\ wire' \in Seq(Cell) /\ out_buffer' \in Seq(Cell)
<1>1. UNCHANGED <<inflight, idles, broken, written, write_error, write_closed, read_closed, read_end,
                  close_reply, shut>>
      /\ WriteOut(out_buffer) /\ ~write_closed /\ (ready' => out_buffer' = <<>>)
  BY DEF PollReady, SinkFrame, Wrote, client_vars, read_vars, write_vars
<1>2. /\ InOrder' /\ WritesFine' /\ wire' \in Seq(Cell) /\ out_buffer' \in Seq(Cell)
      /\ Len(out_buffer') \in Nat
      /\ HasClose(Handed') <=> HasClose(Handed)
  BY <1>1, NothingBehind, PushWrite
<1>3. Closing'
  BY <1>1, <1>2 DEF WriteSide, Closing
<1>4. Buffered'
  <2>1. ready' => Len(out_buffer') <= BufferSize
    BY <1>1, MaxesNat
  <2>2. QED
    BY <1>1, <1>2, <2>1, PingsKept, BufferedKept DEF WriteSide
<1>5. QED
  BY <1>2, <1>3, <1>4 DEF WriteSide

\* A flush, with the answer to a Close that was read.
LEMMA ReplyBehind ==
  ASSUME WsTypes, WriteSide
  PROVE  \E x \in Seq(Control) :
           /\ Replied \in Seq(Cell) /\ Cat(wire, Replied) = Cat(Handed, x)
           /\ HasClose(x) <=> close_reply
           /\ ~close_reply => Replied = out_buffer
<1>1. CASE close_reply
  <2>1. Replied = Append(out_buffer, CLOSE)
    BY <1>1 DEF Replied
  <2>2. Append(out_buffer, CLOSE) \in Seq(Cell)
        /\ Cat(wire, Append(out_buffer, CLOSE)) = Cat(Handed, <<CLOSE>>)
        /\ <<CLOSE>> \in Seq(Control) /\ HasClose(<<CLOSE>>)
    BY Controls, FrameBehind
  <2>3. QED
    BY <1>1, <2>1, <2>2
<1>2. CASE ~close_reply
  <2>1. Replied = out_buffer
    BY <1>2 DEF Replied
  <2>2. QED
    BY <1>2, <2>1, NothingBehind
<1>3. QED
  BY <1>1, <1>2

\* poll_flush.
LEMMA PollFlushWrite ==
  ASSUME WsTypes, WriteSide, PollFlush
  PROVE  WriteSide' /\ wire' \in Seq(Cell) /\ out_buffer' \in Seq(Cell)
<1>1. UNCHANGED <<inflight, idles, broken, written, write_error, write_closed, read_closed, read_end, shut>>
      /\ WriteOut(Replied) /\ ~write_closed /\ (ready' => ready \/ out_buffer' = <<>>)
      /\ close_reply' = FALSE
  BY DEF PollFlush, SinkFrame, Wrote, client_vars, read_vars, write_vars
<1>2. close_reply => read_closed
  BY DEF WriteSide, Closing
<1>3. PICK x \in Seq(Control) :
        /\ Replied \in Seq(Cell) /\ Cat(wire, Replied) = Cat(Handed, x)
        /\ HasClose(x) <=> close_reply
        /\ ~close_reply => Replied = out_buffer
  BY ReplyBehind
<1>4. /\ InOrder' /\ WritesFine' /\ wire' \in Seq(Cell) /\ out_buffer' \in Seq(Cell)
      /\ Len(out_buffer') \in Nat /\ Len(out_buffer') <= Len(Replied)
      /\ HasClose(Handed') <=> HasClose(Handed) \/ HasClose(x)
  BY <1>1, <1>2, <1>3, PushWrite
<1>5. Closing'
  BY <1>1, <1>3, <1>4 DEF WriteSide, Closing
<1>6. Buffered'
  <2>1. CASE read_closed
    BY <1>1, <1>4, <2>1, PingsKept, BufferedKept DEF WriteSide
  <2>2. CASE ~read_closed
    <3>1. Len(out_buffer') <= Len(out_buffer)
      BY <1>2, <1>3, <1>4, <2>2
    <3>2. ready' => ready \/ Len(out_buffer') <= BufferSize
      BY <1>1, MaxesNat
    <3>3. Pings' \in Nat /\ Pings \in Nat /\ idles \in Nat /\ idles' \in Nat /\ Len(out_buffer) \in Nat
          /\ Pings' + idles' <= Pings + idles
      BY <1>1, PingsKept, PingsType
    <3>4. Len(out_buffer') + (Pings' + idles') <= Len(out_buffer) + (Pings + idles)
      <4>1. Pings + idles \in Nat /\ Pings' + idles' \in Nat
        BY <3>3, SumNat, Zenon
      <4>2. QED
        BY <1>4, <3>1, <3>3, <4>1, SumLess, Zenon
    <3>5. QED
      BY <1>1, <1>4, <2>2, <3>2, <3>3, <3>4, BufferedKept DEF WriteSide
  <2>3. QED
    BY <2>1, <2>2
<1>7. QED
  BY <1>4, <1>5, <1>6 DEF WriteSide

\* poll_write of a closed or failing stream.
LEMMA RefusedWrite ==
  ASSUME WsTypes, WriteSide, WriteRefused \/ WriteFails
  PROVE  WriteSide' /\ wire' \in Seq(Cell) /\ out_buffer' \in Seq(Cell)
<1>1. UNCHANGED <<inflight, idles, broken, written, write_closed, read_closed, read_end,
                  ready, out_buffer, wire, close_reply, shut>>
      /\ (write_error' = "io" \/ (write_error' = "closed" /\ (write_closed \/ read_closed)))
  BY DEF WriteRefused, WriteFails, SinkFrame, client_vars, read_vars, sink_vars
<1>2. Handed' = Handed
  BY <1>1 DEF Handed
<1>3. InOrder'
  BY <1>1, <1>2, HandedSame DEF WriteSide
<1>4. Closing'
  BY <1>1, <1>2 DEF WriteSide, Closing
<1>5. Buffered'
  BY <1>1 DEF WriteSide, Buffered, Pings
<1>6. WritesFine'
  BY <1>1 DEF WriteSide, WritesFine
<1>7. QED
  BY <1>1, <1>3, <1>4, <1>5, <1>6 DEF WriteSide, WsTypes

\* A fitting message finds room behind a ready sink.
LEMMA RoomBehind ==
  ASSUME WsTypes, Buffered, NEW data, Fitting(data), ready, ~read_closed, ~write_closed
  PROVE  ~(Len(Cat(out_buffer, data)) > MaxWriteBuffer) /\ Len(Cat(out_buffer, data)) \in Nat
<1> DEFINE l == Len(out_buffer)
           n == Len(data)
           p == Pings + idles
<1>1. l \in Nat /\ p \in Nat /\ l + p <= BufferSize + MaxIdle
  BY PingsType, SumNat, Zenon DEF Buffered
<1>2. n \in Nat /\ n + MaxIdle <= MaxFrame + 16 /\ Len(Cat(out_buffer, data)) = l + n
  <2>1. data \in Seq(Cell) /\ out_buffer \in Seq(Cell)
    BY CellTypes DEF Fitting, WsTypes
  <2>2. QED
    BY <2>1 DEF Fitting, Cat
<1> DEFINE m == Len(Cat(out_buffer, data))
<1> HIDE DEF l, n, p, m
<1>3. m = l + n
  BY <1>2 DEF m
<1>4. m \in Nat /\ ~(m > MaxWriteBuffer)
  BY <1>1, <1>2, <1>3, MaxesNat
<1>5. QED
  BY <1>4 DEF m

\* start_send of a message.
LEMMA StartSendWrite ==
  ASSUME WsTypes, WriteSide, NEW data, Fitting(data), StartSend(data)
  PROVE  /\ WriteSide' /\ wire' \in Seq(Cell) /\ out_buffer' \in Seq(Cell)
         /\ written' = Cat(written, data) /\ written' \in Seq(Nat) /\ write_error' = write_error
<1> DEFINE b == Cat(out_buffer, data)
<1>1. ~write_closed /\ ~read_closed /\ ready
      /\ UNCHANGED <<inflight, idles, broken, write_closed, read_closed, read_end, close_reply, shut>>
  BY DEF StartSend, SinkFrame, client_vars, read_vars
<1>2. ~(Len(b) > MaxWriteBuffer) /\ Len(b) \in Nat
  BY <1>1, RoomBehind DEF WriteSide
<1>3. written' = Cat(written, data) /\ UNCHANGED write_error
      /\ IF Len(b) > BufferSize THEN WriteOut(b) /\ ready' = Wrote
         ELSE out_buffer' = b /\ UNCHANGED <<ready, wire>>
  BY <1>2 DEF StartSend, Cat
<1>4. data \in Seq(Nat) /\ data \in Seq(Cell) /\ out_buffer \in Seq(Cell) /\ wire \in Seq(Cell)
      /\ written \in Seq(Nat)
  BY CellTypes DEF Fitting, WsTypes
<1>5. b \in Seq(Cell) /\ Cat(wire, b) = Cat(Handed, data) /\ written' \in Seq(Nat)
  BY <1>3, <1>4, Grouped DEF Handed
<1> HIDE DEF b
<1>6. /\ wire' \in Seq(Cell) /\ out_buffer' \in Seq(Cell) /\ Handed' = Cat(Handed, data)
      /\ HasClose(wire) => HasClose(wire')
      /\ ready' => Len(out_buffer') <= BufferSize
  <2>1. CASE Len(b) > BufferSize
    <3>1. WriteOut(b) /\ (ready' => out_buffer' = <<>>)
      BY <1>3, <2>1 DEF Wrote
    <3>2. /\ wire' \in Seq(Cell) /\ out_buffer' \in Seq(Cell)
          /\ Cat(wire', out_buffer') = Cat(wire, b)
          /\ \E y \in Seq(Cell) : wire' = Cat(wire, y)
      BY <1>5, <3>1, WriteOutMoves
    <3>3. HasClose(wire) => HasClose(wire')
      BY <3>2, WireCloseKept
    <3>4. ready' => Len(out_buffer') <= BufferSize
      BY <3>1, MaxesNat
    <3>5. QED
      BY <1>5, <3>2, <3>3, <3>4 DEF Handed
  <2>2. CASE ~(Len(b) > BufferSize)
    <3>1. out_buffer' = b /\ wire' = wire
      BY <1>3, <2>2
    <3>2. Len(out_buffer') <= BufferSize
      BY <1>2, <2>2, <3>1, MaxesNat
    <3>3. QED
      BY <1>4, <1>5, <3>1, <3>2 DEF Handed
  <2>3. QED
    BY <2>1, <2>2
<1>7. ~HasClose(Handed)
  BY <1>1 DEF WriteSide, InOrder
<1>8. InOrder' /\ (HasClose(Handed) => HasClose(Handed'))
  <2>1. InOrder' /\ (HasClose(Handed') <=> HasClose(Handed) \/ HasClose(data))
    BY <1>1, <1>3, <1>4, <1>6, <1>7, HandedGrows DEF WriteSide
  <2>2. QED
    BY <2>1, Zenon
<1>9. Closing'
  BY <1>1, <1>6, <1>8 DEF WriteSide, Closing
<1>10. Buffered'
  <2>1. Len(out_buffer') \in Nat
    BY <1>6
  <2>2. QED
    BY <1>1, <1>6, <2>1, PingsKept, BufferedKept DEF WriteSide
<1>11. WritesFine'
  BY <1>1, <1>3 DEF WriteSide, WritesFine
<1>12. QED
  BY <1>3, <1>5, <1>6, <1>8, <1>9, <1>10, <1>11 DEF WriteSide

\* poll_shutdown queues a Close.
LEMMA ShutdownCloseWrite ==
  ASSUME WsTypes, WriteSide, ShutdownClose
  PROVE  WriteSide' /\ wire' \in Seq(Cell) /\ out_buffer' \in Seq(Cell)
<1>1. UNCHANGED <<inflight, idles, broken, written, write_error, read_closed, read_end,
                  ready, wire, close_reply, shut>>
      /\ ~write_closed /\ write_closed' = TRUE /\ (ready \/ broken)
      /\ out_buffer' = IF ready /\ ~broken /\ ~read_closed
                       THEN Append(out_buffer, CLOSE) ELSE out_buffer
  BY DEF ShutdownClose, SinkReady, SinkFrame, client_vars, read_vars, write_vars
<1>2. shut = "no"
  BY <1>1 DEF WriteSide, Closing
<1>21. SUFFICES InOrder' /\ out_buffer' \in Seq(Cell) /\ (broken \/ read_closed \/ HasClose(Handed'))
                /\ (HasClose(Handed) => HasClose(Handed'))
  <2>1. ASSUME broken \/ read_closed \/ HasClose(Handed'), HasClose(Handed) => HasClose(Handed')
        PROVE  Closing'
    BY <1>1, <1>2, <2>1 DEF WriteSide, Closing
  <2>2. ASSUME out_buffer' \in Seq(Cell)
        PROVE  Buffered'
    <3>1. Len(out_buffer') \in Nat
      BY <2>2
    <3>2. QED
      BY <1>1, <3>1, PingsKept, BufferedKept DEF WriteSide
  <2>3. WritesFine'
    BY <1>1 DEF WriteSide, WritesFine
  <2>4. wire' \in Seq(Cell)
    BY <1>1 DEF WsTypes
  <2>5. QED
    BY <2>1, <2>2, <2>3, <2>4 DEF WriteSide
<1>3. CASE ready /\ ~broken /\ ~read_closed
  <2>1. out_buffer' = Append(out_buffer, CLOSE)
    BY <1>1, <1>3
  <2>2. Append(out_buffer, CLOSE) \in Seq(Cell)
        /\ Cat(wire, Append(out_buffer, CLOSE)) = Cat(Handed, <<CLOSE>>)
        /\ <<CLOSE>> \in Seq(Control) /\ HasClose(<<CLOSE>>)
    BY Controls, FrameBehind
  <2>3. Handed' = Cat(Handed, <<CLOSE>>)
    BY <1>1, <2>1, <2>2 DEF Handed
  <2>4. InOrder' /\ HasClose(Handed')
    BY <1>1, <2>2, <2>3, HandedGrows DEF WriteSide
  <2>5. QED
    BY <2>1, <2>2, <2>4
<1>4. CASE ~(ready /\ ~broken /\ ~read_closed)
  <2>1. out_buffer' = out_buffer
    BY <1>1, <1>4
  <2>2. Handed' = Handed
    BY <1>1, <2>1 DEF Handed
  <2>3. InOrder'
    BY <1>1, <2>2, HandedSame DEF WriteSide
  <2>4. broken \/ read_closed
    BY <1>1, <1>4
  <2>5. QED
    BY <2>1, <2>2, <2>3, <2>4 DEF WsTypes
<1>5. QED
  BY <1>3, <1>4

\* The last flush.
LEMMA ShutdownFlushWrite ==
  ASSUME WsTypes, ReadEnds, WriteSide, ShutdownFlush
  PROVE  WriteSide' /\ wire' \in Seq(Cell) /\ out_buffer' \in Seq(Cell)
<1>1. UNCHANGED <<inflight, idles, broken, written, write_error, write_closed, read_closed, read_end>>
      /\ WriteOut(Replied) /\ write_closed /\ shut = "no" /\ ~broken
      /\ close_reply' = FALSE /\ shut' = (IF out_buffer' = <<>> THEN "ok" ELSE "no")
  BY DEF ShutdownFlush, Wrote, client_vars, read_vars, write_vars
<1>2. close_reply => read_closed
  BY DEF WriteSide, Closing
<1>3. PICK x \in Seq(Control) :
        /\ Replied \in Seq(Cell) /\ Cat(wire, Replied) = Cat(Handed, x)
        /\ HasClose(x) <=> close_reply
  BY ReplyBehind
<1>4. /\ InOrder' /\ WritesFine' /\ wire' \in Seq(Cell) /\ out_buffer' \in Seq(Cell)
      /\ Len(out_buffer') \in Nat
      /\ HasClose(Handed') <=> HasClose(Handed) \/ HasClose(x)
      /\ out_buffer' = <<>> => wire' = Handed'
  BY <1>1, <1>2, <1>3, PushWrite
<1>5. read_end = "error" \/ HasClose(Handed')
  <2>1. CASE read_closed
    <3>1. read_end = "eof" \/ read_end = "error"
      BY <2>1 DEF ReadEnds, WsTypes
    <3>2. read_end = "eof" => close_reply \/ HasClose(Handed)
      BY DEF WriteSide, Closing
    <3>3. QED
      BY <1>3, <1>4, <3>1, <3>2, Zenon
  <2>2. CASE ~read_closed
    <3>1. HasClose(Handed)
      BY <1>1, <2>2 DEF WriteSide, Closing
    <3>2. QED
      BY <1>4, <3>1, Zenon
  <2>3. QED
    BY <2>1, <2>2
<1>6. Closing'
  <2>1. shut' = "ok" => out_buffer' \in Seq(Control) /\ (HasClose(wire') \/ read_end' = "error")
    BY <1>1, <1>4, <1>5, CellTypes
  <2>2. read_end' = "eof" => HasClose(Handed')
    BY <1>1, <1>5
  <2>3. write_closed' => broken' \/ read_closed' \/ HasClose(Handed')
    BY <1>1, <1>4 DEF WriteSide, Closing
  <2>4. QED
    BY <1>1, <2>1, <2>2, <2>3 DEF Closing
<1>7. Buffered'
  BY <1>1, <1>4, PingsKept, BufferedKept DEF WriteSide
<1>8. QED
  BY <1>4, <1>6, <1>7 DEF WriteSide

\* The last flush fails.
LEMMA ShutdownFailsWrite ==
  ASSUME WsTypes, WriteSide, ShutdownFails
  PROVE  WriteSide'
<1>1. UNCHANGED <<inflight, idles, broken, written, write_error, write_closed, read_closed, read_end,
                  ready, out_buffer, wire, close_reply>>
      /\ write_closed /\ shut' = "error"
  BY DEF ShutdownFails, client_vars, read_vars, sink_vars, write_vars
<1>2. Handed' = Handed
  BY <1>1 DEF Handed
<1>3. InOrder'
  BY <1>1, <1>2, HandedSame DEF WriteSide
<1>4. Closing'
  BY <1>1, <1>2 DEF WriteSide, Closing
<1>5. Buffered'
  BY <1>1 DEF WriteSide, Buffered, Pings
<1>6. WritesFine'
  BY <1>1 DEF WriteSide, WritesFine
<1>7. QED
  BY <1>3, <1>4, <1>5, <1>6 DEF WriteSide

-----------------------------------------------------------------------------
(* The transport keeps its invariant.                                      *)

\* What no step but the ones above changes.
LEMMA StepTypes ==
  ASSUME WsTypes, WsStep,
         inflight' \in Seq(Messages), sent' \in 0 .. Len(stream), idles' \in 0 .. MaxIdle,
         read_buffer' \in Seq(Byte), read_pos' \in 0 .. Len(read_buffer'), got' \in Seq(Byte),
         wire' \in Seq(Cell), out_buffer' \in Seq(Cell), written' \in Seq(Nat)
  PROVE  WsTypes'
<1> USE DEF client_vars, read_vars, sink_vars, write_vars, ClientFrame, ReadFrame, SinkFrame
<1>1. stream' = stream
  BY SMTT(30) DEF WsStep, Handshake, Client, Socket, SendMessage, SendIdle, SendClose, Vanish, Block,
     BreakSocket,
         ReadBuffered, ReadMessage, ReadSkip, ReadClose, ReadError, PollReady, WriteRefused, WriteFails,
         PollFlush, StartSend, ShutdownClose, ShutdownFlush, ShutdownFails
<1>2. peer' \in {"open", "closed", "eof"}
  BY DEF WsTypes, WsStep, Handshake, Client, Socket, SendMessage, SendIdle, SendClose, Vanish,
     Block,
         BreakSocket, ReadBuffered, ReadMessage, ReadSkip, ReadClose, ReadError, PollReady, WriteRefused,
         WriteFails, PollFlush, StartSend, ShutdownClose, ShutdownFlush, ShutdownFails
<1>3. blocked' \in BOOLEAN /\ broken' \in BOOLEAN
  BY DEF WsTypes, WsStep, Handshake, Client, Socket, SendMessage, SendIdle, SendClose, Vanish,
     Block,
         BreakSocket, ReadBuffered, ReadMessage, ReadSkip, ReadClose, ReadError, PollReady, WriteRefused,
         WriteFails, PollFlush, StartSend, ShutdownClose, ShutdownFlush, ShutdownFails
<1>4. read_closed' \in BOOLEAN /\ write_closed' \in BOOLEAN
  BY DEF WsTypes, WsStep, Handshake, Client, Socket, SendMessage, SendIdle, SendClose, Vanish,
     Block,
         BreakSocket, ReadBuffered, ReadMessage, ReadSkip, ReadClose, ReadError, PollReady, WriteRefused,
         WriteFails, PollFlush, StartSend, ShutdownClose, ShutdownFlush, ShutdownFails
<1>5. close_reply' \in BOOLEAN
  BY DEF WsTypes, WsStep, Handshake, Client, Socket, SendMessage, SendIdle, SendClose, Vanish,
     Block,
         BreakSocket, ReadBuffered, ReadMessage, ReadSkip, ReadClose, ReadError, PollReady, WriteRefused,
         WriteFails, PollFlush, StartSend, ShutdownClose, ShutdownFlush, ShutdownFails
<1>6. ready' \in BOOLEAN
  BY DEF WsTypes, WsStep, Handshake, Client, Socket, SendMessage, SendIdle, SendClose, Vanish,
     Block,
         BreakSocket, ReadBuffered, ReadMessage, ReadSkip, ReadClose, ReadError, PollReady, WriteRefused,
         WriteFails, PollFlush, StartSend, ShutdownClose, ShutdownFlush, ShutdownFails, Wrote
<1>7. read_end' \in {"none", "eof", "error"}
  BY DEF WsTypes, WsStep, Handshake, Client, Socket, SendMessage, SendIdle, SendClose, Vanish,
     Block,
         BreakSocket, ReadBuffered, ReadMessage, ReadSkip, ReadClose, ReadError, PollReady, WriteRefused,
         WriteFails, PollFlush, StartSend, ShutdownClose, ShutdownFlush, ShutdownFails
<1>8. write_error' \in {"none", "closed", "full", "io"}
  BY DEF WsTypes, WsStep, Handshake, Client, Socket, SendMessage, SendIdle, SendClose, Vanish,
     Block,
         BreakSocket, ReadBuffered, ReadMessage, ReadSkip, ReadClose, ReadError, PollReady, WriteRefused,
         WriteFails, PollFlush, StartSend, ShutdownClose, ShutdownFlush, ShutdownFails
<1>9. shut' \in {"no", "ok", "error"}
  BY DEF WsTypes, WsStep, Handshake, Client, Socket, SendMessage, SendIdle, SendClose, Vanish,
     Block,
         BreakSocket, ReadBuffered, ReadMessage, ReadSkip, ReadClose, ReadError, PollReady, WriteRefused,
         WriteFails, PollFlush, StartSend, ShutdownClose, ShutdownFlush, ShutdownFails, Wrote
<1>10. QED
  BY <1>1, <1>2, <1>3, <1>4, <1>5, <1>6, <1>7, <1>8, <1>9 DEF WsTypes

\* Every step keeps the invariant of the transport.
LEMMA WsStepInv ==
  ASSUME WsInv, WsStep
  PROVE  WsInv'
<1> USE DEF client_vars, read_vars, sink_vars, write_vars, ClientFrame, ReadFrame, SinkFrame
<1>0. WsTypes /\ ReadSide /\ WriteSide /\ ReadEnds
  BY DEF WsInv, ReadSide, WriteSide
<1>01. /\ inflight \in Seq(Messages) /\ sent \in 0 .. Len(stream) /\ idles \in 0 .. MaxIdle
       /\ read_buffer \in Seq(Byte) /\ read_pos \in 0 .. Len(read_buffer) /\ got \in Seq(Byte)
       /\ wire \in Seq(Cell) /\ out_buffer \in Seq(Cell) /\ written \in Seq(Nat)
  BY <1>0 DEF WsTypes
<1>1. CASE Fresh /\ Handshake
  <2>1. UNCHANGED <<inflight, idles, got, wire, out_buffer, written>>
    BY <1>1 DEF Handshake
  <2>2. QED
    BY <1>0, <1>01, <1>1, <2>1, HandshakeRead, HandshakeWrite, StepTypes DEF WsInv, ReadSide,
       WriteSide
<1>2. CASE Client
  <2>1. UNCHANGED <<read_buffer, read_pos, got, wire, out_buffer, written>>
    BY <1>2 DEF Client, Socket, SendMessage, SendIdle, SendClose, Vanish, Block, BreakSocket
  <2>2. QED
    BY <1>0, <1>01, <1>2, <2>1, ClientRead, ClientWrite, StepTypes DEF WsInv, ReadSide, WriteSide
<1>3. ASSUME NEW room \in Nat \ {0}, ReadBuffered(room)
      PROVE  WsInv'
  <2>1. UNCHANGED <<inflight, sent, idles, wire, out_buffer, written>>
    BY <1>3 DEF ReadBuffered
  <2>2. QED
    BY <1>0, <1>01, <1>3, <2>1, ReadBufferedRead, ReadBufferedWrite, StepTypes
       DEF WsInv, ReadSide, WriteSide
<1>4. ASSUME NEW room \in Nat \ {0}, ReadMessage(room)
      PROVE  WsInv'
  <2>1. UNCHANGED <<sent, idles, wire, out_buffer, written>>
    BY <1>4 DEF ReadMessage
  <2>2. QED
    BY <1>0, <1>01, <1>4, <2>1, ReadMessageRead, ReadMessageWrite, StepTypes
       DEF WsInv, ReadSide, WriteSide
<1>5. CASE ReadSkip
  <2>1. UNCHANGED <<sent, idles, read_buffer, read_pos, got, written>>
    BY <1>5 DEF ReadSkip
  <2>2. QED
    BY <1>0, <1>01, <1>5, <2>1, ReadSkipRead, ReadSkipWrite, StepTypes DEF WsInv, ReadSide,
       WriteSide
<1>6. CASE ReadClose
  <2>1. UNCHANGED <<sent, idles, read_buffer, read_pos, got, written, wire, out_buffer>>
    BY <1>6 DEF ReadClose
  <2>2. QED
    BY <1>0, <1>01, <1>6, <2>1, ReadCloseRead, ReadCloseWrite, StepTypes DEF WsInv, ReadSide,
       WriteSide
<1>7. CASE ReadError
  <2>1. UNCHANGED <<inflight, sent, idles, read_buffer, read_pos, got, written, wire, out_buffer>>
    BY <1>7 DEF ReadError
  <2>2. QED
    BY <1>0, <1>01, <1>7, <2>1, ReadErrorRead, ReadErrorWrite, StepTypes DEF WsInv, ReadSide,
       WriteSide
<1>8. ASSUME UNCHANGED read_side, UNCHANGED idles, WriteSide', wire' \in Seq(Cell),
             out_buffer' \in Seq(Cell), written' \in Seq(Nat)
      PROVE  WsInv'
  <2>1. ReadSide'
    BY <1>0, <1>8, ReadSideKept
  <2>2. WsTypes'
    BY <1>0, <1>01, <1>8, StepTypes DEF read_side
  <2>3. QED
    BY <1>8, <2>1, <2>2 DEF WsInv, ReadSide, WriteSide
<1>9. CASE PollReady
  <2>1. UNCHANGED read_side /\ UNCHANGED idles /\ UNCHANGED written
    BY <1>9 DEF PollReady, read_side
  <2>2. QED
    BY <1>0, <1>01, <1>8, <1>9, <2>1, PollReadyWrite
<1>10. CASE WriteRefused \/ WriteFails
  <2>1. UNCHANGED read_side /\ UNCHANGED idles /\ UNCHANGED written
    BY <1>10 DEF WriteRefused, WriteFails, read_side
  <2>2. QED
    BY <1>0, <1>01, <1>8, <1>10, <2>1, RefusedWrite
<1>11. CASE PollFlush
  <2>1. UNCHANGED read_side /\ UNCHANGED idles /\ UNCHANGED written
    BY <1>11 DEF PollFlush, read_side
  <2>2. QED
    BY <1>0, <1>01, <1>8, <1>11, <2>1, PollFlushWrite
<1>12. ASSUME NEW data, Fitting(data), StartSend(data)
       PROVE  WsInv'
  <2>1. UNCHANGED read_side /\ UNCHANGED idles
    BY <1>12 DEF StartSend, read_side
  <2>2. QED
    BY <1>0, <1>01, <1>8, <1>12, <2>1, StartSendWrite
<1>13. CASE ShutdownClose
  <2>1. UNCHANGED read_side /\ UNCHANGED idles /\ UNCHANGED written
    BY <1>13 DEF ShutdownClose, read_side
  <2>2. QED
    BY <1>0, <1>01, <1>8, <1>13, <2>1, ShutdownCloseWrite
<1>14. CASE ShutdownFlush
  <2>1. UNCHANGED read_side /\ UNCHANGED idles /\ UNCHANGED written
    BY <1>14 DEF ShutdownFlush, read_side
  <2>2. QED
    BY <1>0, <1>01, <1>8, <1>14, <2>1, ShutdownFlushWrite
<1>15. CASE ShutdownFails
  <2>1. UNCHANGED read_side /\ UNCHANGED idles /\ UNCHANGED written /\ UNCHANGED <<wire, out_buffer>>
    BY <1>15 DEF ShutdownFails, read_side
  <2>2. QED
    BY <1>0, <1>01, <1>8, <1>15, <2>1, ShutdownFailsWrite
<1>16. QED
  BY <1>1, <1>2, <1>3, <1>4, <1>5, <1>6, <1>7, <1>9, <1>10, <1>11, <1>12, <1>13, <1>14, <1>15
     DEF WsStep

-----------------------------------------------------------------------------
(* The two directions, as a pipe sees them.                                *)

Sent == SubSeq(stream, 1, sent)
InClosed == peer = "closed"
InEnded == read_end = "eof"
OutClosed == write_closed \/ read_closed
OutEnded == HasClose(wire)

InCloses == ~InClosed /\ InClosed' /\ UNCHANGED <<Sent, got, InEnded>>
InMoves ==
  /\ \E x \in Seq(Byte) : Sent' = Cat(Sent, x)
  /\ InClosed => Sent' = Sent
  /\ \E x \in Seq(Byte) : got' = Cat(got, x)
  /\ InEnded => got' = got /\ InEnded'
  /\ InEnded' /\ ~InEnded => InClosed /\ got' = Sent'
  /\ InClosed' = InClosed

\* The bytes that were sent.
LEMMA SentType ==
  ASSUME WsTypes
  PROVE  Sent \in Seq(Byte) /\ got \in Seq(Byte)
<1>1. stream \in Seq(Byte) /\ sent \in Nat /\ sent <= Len(stream) /\ got \in Seq(Byte)
  BY DEF WsTypes
<1>2. QED
  BY <1>1, Halves DEF Sent

\* Nothing is added.
LEMMA AddNothing == \A a \in Seq(Byte) : \E x \in Seq(Byte) : a = Cat(a, x)
<1>1. \A a \in Seq(Byte) : Cat(a, <<>>) = a /\ <<>> \in Seq(Byte)
  BY JoinedEmpty
<1>2. QED
  BY <1>1, Zenon

\* The client's bytes: what a step of the transport does to the pipe.
LEMMA InwardSteps ==
  ASSUME WsInv, WsStep
  PROVE  InCloses \/ InMoves
<1> USE DEF client_vars, read_vars, sink_vars, write_vars, ClientFrame, ReadFrame, SinkFrame
<1>0. WsTypes /\ ReadSide /\ WriteSide /\ ReadEnds
  BY DEF WsInv, ReadSide, WriteSide
<1>01. Sent \in Seq(Byte) /\ got \in Seq(Byte)
  BY <1>0, SentType
<1>02. ASSUME UNCHANGED <<stream, sent, peer, read_end>>, got' = got \/ (~read_closed /\ \E x : Delivered(x))
       PROVE  InMoves
  <2>1. Sent' = Sent /\ InClosed' = InClosed /\ InEnded' = InEnded
    BY <1>02 DEF Sent, InClosed, InEnded
  <2>2. \E x \in Seq(Byte) : Sent' = Cat(Sent, x)
    BY <1>01, <2>1, AddNothing
  <2>3. \E x \in Seq(Byte) : got' = Cat(got, x)
    BY <1>01, <1>02, AddNothing DEF Delivered
  <2>4. InEnded => got' = got
    BY <1>0, <1>02 DEF ReadEnds, InEnded
  <2>5. QED
    BY <2>1, <2>2, <2>3, <2>4, Zenon DEF InMoves
<1>1. CASE Fresh /\ Handshake
  <2>1. sent = 0 /\ UNCHANGED <<stream, peer, got, read_end>> /\ peer = "open"
    BY <1>1 DEF Fresh, Handshake
  <2>2. sent' \in 0 .. Len(stream)
    BY <1>0, <1>1, HandshakeRead
  <2>3. Sent = <<>> /\ Sent' \in Seq(Byte)
    <3>1. SubSeq(stream, 1, 0) = <<>>
      BY <1>0 DEF WsTypes
    <3>2. stream \in Seq(Byte) /\ sent' \in Nat /\ sent' <= Len(stream)
      BY <1>0, <2>2 DEF WsTypes
    <3>3. SubSeq(stream, 1, sent') \in Seq(Byte)
      BY <3>2, Halves
    <3>4. QED
      BY <2>1, <3>1, <3>3 DEF Sent
  <2>4. Cat(<<>>, Sent') = Sent'
    BY <2>3, JoinedEmpty
  <2>5. \E x \in Seq(Byte) : got' = Cat(got, x)
    BY <1>01, <2>1, AddNothing
  <2>6. InClosed = FALSE /\ InClosed' = FALSE /\ InEnded' = InEnded /\ got' = got
    BY <2>1 DEF InClosed, InEnded
  <2>7. QED
    BY <2>3, <2>4, <2>5, <2>6 DEF InMoves
<1>2. CASE SendMessage
  <2>1. PICK n \in 1 .. LesserOf(Len(stream) - sent, MaxMessage) : sent' = sent + n
    BY <1>2 DEF SendMessage
  <2>2. UNCHANGED <<stream, peer, got, read_end>> /\ peer = "open"
    BY <1>2 DEF SendMessage
  <2>3. stream \in Seq(Byte) /\ Len(stream) \in Nat /\ sent \in Nat /\ sent <= Len(stream)
    BY <1>0 DEF WsTypes
  <2>4. n \in Nat /\ n <= Len(stream) - sent
    BY <2>3, MaxesNat DEF LesserOf
  <2>5. sent + n \in Nat /\ sent <= sent + n /\ sent + n <= Len(stream) /\ 0 \in Nat /\ 0 <= sent
        /\ 0 + 1 = 1
    BY <2>3, <2>4
  <2> DEFINE d == SubSeq(stream, sent + 1, sent + n)
  <2>6. d \in Seq(Byte)
    BY <2>3, <2>5, Piece
  <2>7. Cat(SubSeq(stream, 0 + 1, sent), d) = SubSeq(stream, 0 + 1, sent + n)
    BY <2>3, <2>5, Pieces, ZenonT(40)
  <2> HIDE DEF d
  <2>8. Sent' = Cat(Sent, d)
    BY <2>1, <2>2, <2>5, <2>7 DEF Sent
  <2>9. \E x \in Seq(Byte) : got' = Cat(got, x)
    BY <1>01, <2>2, AddNothing
  <2>10. InClosed = FALSE /\ InClosed' = FALSE /\ InEnded' = InEnded /\ got' = got
    BY <2>2 DEF InClosed, InEnded
  <2>11. QED
    BY <2>6, <2>8, <2>9, <2>10 DEF InMoves
<1>3. CASE SendClose
  BY <1>3 DEF SendClose, InCloses, InClosed, InEnded, Sent
<1>4. CASE Vanish
  <2>1. UNCHANGED <<stream, sent, got, read_end>> /\ peer = "open" /\ peer' = "eof"
    BY <1>4 DEF Vanish
  <2>2. Sent' = Sent /\ InClosed' = InClosed /\ InEnded' = InEnded
    BY <2>1 DEF Sent, InClosed, InEnded
  <2>3. (\E x \in Seq(Byte) : Sent' = Cat(Sent, x)) /\ \E x \in Seq(Byte) : got' = Cat(got, x)
    BY <1>01, <2>1, <2>2, AddNothing
  <2>4. QED
    BY <2>1, <2>2, <2>3, Zenon DEF InMoves
<1>5. CASE Socket \/ \E kind \in {"binary", "text", "ping"} : SendIdle(kind)
  BY <1>02, <1>5 DEF Socket, Block, BreakSocket, SendIdle
<1>6. ASSUME NEW room \in Nat \ {0}, ReadBuffered(room)
      PROVE  InMoves
  BY <1>0, <1>02, <1>6, ReadBufferedRead DEF ReadBuffered
<1>7. ASSUME NEW room \in Nat \ {0}, ReadMessage(room)
      PROVE  InMoves
  BY <1>0, <1>02, <1>7, ReadMessageRead DEF ReadMessage, Message
<1>8. CASE ReadSkip
  BY <1>02, <1>8 DEF ReadSkip
<1>9. CASE ReadClose
  <2>1. UNCHANGED <<stream, sent, got, peer>> /\ read_end' = "eof"
    BY <1>9 DEF ReadClose
  <2>2. peer = "closed" /\ got = Sent
    BY <1>0, <1>9, ReadCloseRead DEF Sent
  <2>3. Sent' = Sent /\ InClosed' = InClosed /\ InClosed /\ InEnded'
    BY <2>1, <2>2 DEF Sent, InClosed, InEnded
  <2>4. (\E x \in Seq(Byte) : Sent' = Cat(Sent, x)) /\ \E x \in Seq(Byte) : got' = Cat(got, x)
    BY <1>01, <2>1, <2>3, AddNothing
  <2>5. QED
    BY <2>1, <2>2, <2>3, <2>4, Zenon DEF InMoves
<1>10. CASE ReadError
  <2>1. UNCHANGED <<stream, sent, got, peer>> /\ read_end' = "error" /\ ~read_closed
    BY <1>10 DEF ReadError
  <2>2. Sent' = Sent /\ InClosed' = InClosed /\ ~InEnded' /\ ~InEnded
    BY <1>0, <2>1 DEF Sent, InClosed, InEnded, ReadEnds
  <2>3. (\E x \in Seq(Byte) : Sent' = Cat(Sent, x)) /\ \E x \in Seq(Byte) : got' = Cat(got, x)
    BY <1>01, <2>1, <2>2, AddNothing
  <2>4. QED
    BY <2>1, <2>2, <2>3, Zenon DEF InMoves
<1>11. ASSUME PollReady \/ WriteRefused \/ WriteFails \/ PollFlush \/ (\E data : StartSend(data))
              \/ ShutdownClose \/ ShutdownFlush \/ ShutdownFails
       PROVE  InMoves
  <2>1. UNCHANGED <<stream, sent, got, peer, read_end>>
    BY <1>11 DEF PollReady, WriteRefused, WriteFails, PollFlush, StartSend, ShutdownClose,
                 ShutdownFlush, ShutdownFails
  <2>2. QED
    BY <1>02, <2>1
<1>12. QED
  BY <1>1, <1>2, <1>3, <1>4, <1>5, <1>6, <1>7, <1>8, <1>9, <1>10, <1>11 DEF WsStep, Client

OutCloses == ~OutClosed /\ OutClosed' /\ UNCHANGED <<written, wire>>
OutMoves ==
  /\ \E x \in Seq(Nat) : written' = Cat(written, x)
  /\ OutClosed => written' = written
  /\ \E x \in Seq(Cell) : wire' = Cat(wire, x)
  /\ OutClosed' = OutClosed

\* The server's bytes.
LEMMA OutwardSteps ==
  ASSUME WsInv, WsStep
  PROVE  OutCloses \/ OutMoves
<1> USE DEF client_vars, read_vars, sink_vars, write_vars, ClientFrame, ReadFrame, SinkFrame
<1>0. WsTypes /\ ReadSide /\ WriteSide /\ ReadEnds
  BY DEF WsInv, ReadSide, WriteSide
<1>01. wire \in Seq(Cell) /\ out_buffer \in Seq(Cell) /\ written \in Seq(Nat)
  BY <1>0 DEF WsTypes
<1>02. ASSUME written' = written PROVE \E x \in Seq(Nat) : written' = Cat(written, x)
  BY <1>01, <1>02, JoinedEmpty
<1>03. ASSUME wire' = wire PROVE \E x \in Seq(Cell) : wire' = Cat(wire, x)
  BY <1>01, <1>03, JoinedEmpty
<1>1. ASSUME UNCHANGED <<wire, written, read_closed, write_closed>> PROVE OutMoves
  BY <1>1, <1>02, <1>03 DEF OutMoves, OutClosed
<1>2. ASSUME NEW b \in Seq(Cell), WriteOut(b), UNCHANGED <<written, read_closed, write_closed>>
      PROVE  OutMoves
  <2>1. \E x \in Seq(Cell) : wire' = Cat(wire, x)
    BY <1>0, <1>2, WriteOutMoves
  <2>2. QED
    BY <1>2, <1>02, <2>1 DEF OutMoves, OutClosed
<1>3. CASE Handshake \/ Client
  BY <1>1, <1>3 DEF Handshake, Client, Socket, SendMessage, SendIdle, SendClose, Vanish, Block,
     BreakSocket
<1>4. ASSUME NEW room \in Nat \ {0}, ReadBuffered(room) \/ ReadMessage(room)
      PROVE  OutMoves
  BY <1>1, <1>4 DEF ReadBuffered, ReadMessage
<1>5. CASE ReadSkip
  <2>1. UNCHANGED <<written, read_closed, write_closed>>
    BY <1>5 DEF ReadSkip
  <2>2. CASE UNCHANGED sink_vars
    BY <1>1, <2>1, <2>2
  <2>3. CASE WriteOut(Append(out_buffer, PONG))
    BY <1>0, <1>2, <2>1, <2>3, FrameBehind, Controls
  <2>4. QED
    BY <1>5, <2>2, <2>3 DEF ReadSkip
<1>6. CASE ReadClose \/ ReadError \/ ShutdownClose
  <2>1. UNCHANGED <<wire, written>> /\ OutClosed'
    BY <1>6 DEF ReadClose, ReadError, ShutdownClose, OutClosed
  <2>2. CASE OutClosed
    <3>1. OutClosed' = OutClosed
      BY <1>6, <2>1, <2>2 DEF ReadClose, ReadError, ShutdownClose, OutClosed
    <3>2. QED
      BY <1>02, <1>03, <2>1, <3>1 DEF OutMoves
  <2>3. QED
    BY <2>1, <2>2 DEF OutCloses
<1>7. CASE PollReady
  BY <1>01, <1>2, <1>7 DEF PollReady
<1>8. CASE WriteRefused \/ WriteFails \/ ShutdownFails
  BY <1>1, <1>8 DEF WriteRefused, WriteFails, ShutdownFails
<1>9. CASE PollFlush \/ ShutdownFlush
  <2>1. WriteOut(Replied) /\ UNCHANGED <<written, read_closed, write_closed>>
    BY <1>9 DEF PollFlush, ShutdownFlush
  <2>2. Replied \in Seq(Cell)
    BY <1>0, ReplyBehind
  <2>3. QED
    BY <1>2, <2>1, <2>2
<1>10. ASSUME NEW data, Fitting(data), StartSend(data)
       PROVE  OutMoves
  <2>1. ~OutClosed /\ UNCHANGED <<read_closed, write_closed>>
    BY <1>10 DEF StartSend, OutClosed
  <2>2. written' = Cat(written, data) /\ data \in Seq(Nat)
    BY <1>0, <1>10, StartSendWrite DEF Fitting
  <2>3. \E x \in Seq(Cell) : wire' = Cat(wire, x)
    <3> DEFINE b == Cat(out_buffer, data)
    <3>1. b \in Seq(Cell)
      BY <1>01, <2>2, CellTypes, Grouped
    <3>2. wire' = wire \/ WriteOut(b)
      BY <1>10 DEF StartSend, Cat
    <3> HIDE DEF b
    <3>3. QED
      BY <1>0, <1>03, <3>1, <3>2, WriteOutMoves
  <2>4. OutClosed' = OutClosed
    BY <2>1 DEF OutClosed
  <2>5. QED
    BY <2>1, <2>2, <2>3, <2>4 DEF OutMoves
<1>11. QED
  BY <1>3, <1>4, <1>5, <1>6, <1>7, <1>8, <1>9, <1>10 DEF WsStep

\* Bytes on the wire come first among the bytes handed over, and all of them are there
\* when a Close is.
LEMMA OnWireFirst ==
  ASSUME WsTypes, InOrder
  PROVE  /\ DataIn(wire) \in Seq(Nat) /\ DataIn(out_buffer) \in Seq(Nat)
         /\ written = Cat(DataIn(wire), DataIn(out_buffer))
         /\ HasClose(wire) => DataIn(wire) = written /\ OutClosed
<1>1. wire \in Seq(Cell) /\ out_buffer \in Seq(Cell)
  BY DEF WsTypes
<1>2. DataIn(wire) \in Seq(Nat) /\ DataIn(out_buffer) \in Seq(Nat)
  BY <1>1, OnlyType DEF DataIn
<1>3. written = Cat(DataIn(wire), DataIn(out_buffer))
  BY <1>1, OnlyConcat, SMTT(30) DEF DataIn, InOrder, Handed, Cat
<1>4. ASSUME HasClose(wire)
      PROVE  DataIn(out_buffer) = <<>> /\ OutClosed
  <2> DEFINE h == Handed
  <2>1. /\ Len(h) = Len(wire) + Len(out_buffer) /\ Len(wire) \in Nat /\ Len(out_buffer) \in Nat
        /\ \A i \in 1 .. Len(wire) : h[i] = wire[i]
        /\ \A i \in 1 .. Len(out_buffer) : h[Len(wire) + i] = out_buffer[i]
    BY <1>1 DEF Handed, Cat
  <2>2. CloseLast(h) /\ (HasClose(h) => read_closed \/ write_closed)
    BY DEF InOrder
  <2> HIDE DEF h
  <2>3. PICK i \in 1 .. Len(wire) : wire[i] = CLOSE
    BY <1>4 DEF HasClose
  <2>4. i \in 1 .. Len(h) /\ h[i] = CLOSE
    BY <2>1, <2>3
  <2>5. \A j \in 1 .. Len(out_buffer) : out_buffer[j] \in Control
    <3>1. ASSUME NEW j \in 1 .. Len(out_buffer)
          PROVE  out_buffer[j] \in Control
      <4>1. Len(wire) + j \in i .. Len(h) /\ h[Len(wire) + j] = out_buffer[j]
        BY <2>1
      <4>2. QED
        BY <2>2, <2>4, <4>1, Zenon DEF CloseLast
    <3>2. QED
      BY <3>1
  <2>6. out_buffer \in Seq(Control)
    BY <1>1, <2>5
  <2>7. DataIn(out_buffer) = <<>>
    BY <2>6, Controls, OnlyNone DEF DataIn
  <2>8. HasClose(h)
    BY <2>4, Zenon DEF HasClose
  <2>9. QED
    BY <2>2, <2>7, <2>8 DEF OutClosed
<1>5. Cat(DataIn(wire), <<>>) = DataIn(wire)
  BY <1>2, JoinedEmpty
<1>6. QED
  BY <1>2, <1>3, <1>4, <1>5

-----------------------------------------------------------------------------
(* The reader and the session.                                             *)

\* s begins with a.
Starts(s, a) == \E y \in Seq(Byte) : s = Cat(a, y)
Begun(a) == Starts(stream, a)

Kinds ==
  /\ intent \in Intents /\ stream = Encoding(intent)
  /\ stage \in Stages /\ cap \in Nat /\ buf \in Seq(Byte) /\ decoding \in BOOLEAN
  /\ packets \in Seq(Packets) /\ writes \in 0 .. intent.writes
  /\ outcome \in {"none", "ok", "invalid", "too_large", "cut", "timeout", "out_of_sync"}

\* Until there is a request, all that was read is in the buffer and is not one.
Reading ==
  /\ stage = "handshake" => Fresh
  /\ stage \in {"handshake", "request"} =>
       /\ buf = got /\ outcome = "none" /\ packets = <<>> /\ written = <<>> /\ writes = 0
       /\ buf = <<>> \/ Verdict(buf).res = "more"

\* An intact header that fits the buffer.
Fair == HeaderIntact /\ HeaderLen <= BufferSize /\ MIN_SIZE <= BufferSize
Capacity == Fair => cap \in {BufferSize, 2 * BufferSize}

Bare(r) == [r EXCEPT !.payload = <<>>]
Decoded ==
  /\ outcome \in {"ok", "out_of_sync"} =>
       /\ request \in Requests /\ Begun(Cat(Header(request), request.payload))
       /\ HeaderIntact => Bare(request) = Bare(intent.request)
  /\ outcome \in {"invalid", "too_large"} => ~Fair
  /\ stage \in {"tcp", "udp"} => outcome = "ok"

\* What the packet loop has taken and what it has left.
Split ==
  /\ packets # <<>> =>
       outcome \in {"ok", "out_of_sync"} /\ Begun(Cat(Header(request), FramedAll(packets)))
  /\ stage = "udp" =>
       /\ got = Cat(Cat(Header(request), FramedAll(packets)), buf)
       /\ request.cmd = UdpAssociate
       /\ ~decoding => buf = <<>> \/ DecodeUdp(buf).res = "more"
  /\ intent.damages = {} =>
       /\ outcome # "out_of_sync" /\ Len(packets) <= Len(intent.packets)
       /\ packets = First(intent.packets, Len(packets))

\* What a UDP session writes begins with the first reply.
Answered ==
  stage = "udp" =>
    /\ writes = 0 => written = <<>>
    /\ writes # 0 => Replies # <<>> /\ Starts(written, Framed(Replies[1]))

InboundInv == WsInv /\ Kinds /\ Reading /\ Capacity /\ Decoded /\ Split /\ Answered

-----------------------------------------------------------------------------
(* The stream.                                                             *)

\* What a client may intend.
LEMMA IntentFields ==
  ASSUME NEW i \in Intents
  PROVE  /\ i.request \in Requests /\ i.data \in Seq(Byte) /\ i.packets \in Seq(Packets)
         /\ i.damages \in SUBSET (Nat \X Byte) /\ i.writes \in Nat
         /\ i.request.cmd = UdpAssociate => i.data = <<>>
BY IntentsAssumption, Zenon

\* The stream is bytes, begins with an intact header, and without damages is
\* the header, the data and the packets.
LEMMA StreamIs ==
  ASSUME NEW i \in Intents, NEW s, s = Encoding(i), NEW h, h = Header(i.request)
  PROVE  /\ s \in Seq(Byte) /\ h \in Seq(Byte) /\ Len(h) \in Nat /\ Len(h) # 0 /\ Len(s) \in Nat /\ Len(h) <= Len(s)
         /\ (\A d \in i.damages : d[1] > Len(h)) => \E y \in Seq(Byte) : s = Cat(h, y)
         /\ i.damages = {} => s = Cat(h, Cat(i.data, FramedAll(i.packets)))
<1> DEFINE c == Cat(h, Cat(i.data, FramedAll(i.packets)))
           Damage(n) == IF \E d \in i.damages : d[1] = n
                        THEN (CHOOSE d \in i.damages : d[1] = n)[2] ELSE c[n]
<1>1. h \in Seq(Byte) /\ Len(h) \in Nat /\ Len(h) # 0
  <2>1. h \in Seq(Byte) /\ Len(h) = AddrAt + Len(EncodeAddress(i.request.addr)) + 2
        /\ Len(EncodeAddress(i.request.addr)) \in Nat
    BY IntentFields, HeaderAt, Zenon
  <2>2. AddrAt \in Nat
    BY LengthsAssumption DEF AddrAt, CmdAt
  <2>3. QED
    BY <2>1, <2>2
<1>2. i.data \in Seq(Byte) /\ FramedAll(i.packets) \in Seq(Byte)
  BY IntentFields, FramesType
<1>3. c \in Seq(Byte) /\ Len(c) = Len(h) + Len(Cat(i.data, FramedAll(i.packets))) /\ Stands(c, 0, h)
      /\ Len(Cat(i.data, FramedAll(i.packets))) \in Nat
  <2> DEFINE r == Cat(i.data, FramedAll(i.packets))
  <2>1. r \in Seq(Byte)
    BY <1>2, Grouped
  <2> HIDE DEF r
  <2>2. Cat(h, r) \in Seq(Byte) /\ Len(Cat(h, r)) = Len(h) + Len(r) /\ Stands(Cat(h, r), 0, h)
    BY <1>1, <2>1, Placed, Zenon
  <2>3. Len(r) \in Nat
    BY <2>1
  <2>4. QED
    BY <2>2, <2>3 DEF r
<1>4. s = [n \in DOMAIN c |-> Damage(n)]
  <2>1. Header(i.request) \o i.data \o FramedAll(i.packets) = c
    <3> DEFINE a == i.data
               b == FramedAll(i.packets)
    <3>1. a \in Seq(Byte) /\ b \in Seq(Byte)
      BY <1>2
    <3> HIDE DEF a, b
    <3>2. Cat(Cat(h, a), b) = Cat(h, Cat(a, b))
      BY <1>1, <3>1, Grouped
    <3>3. QED
      BY <3>2, Zenon DEF a, b, Cat
  <2>2. QED
    BY <2>1, Zenon DEF Encoding
<1> HIDE DEF c
<1>5. DOMAIN c = 1 .. Len(c) /\ Len(c) \in Nat /\ \A n \in 1 .. Len(c) : c[n] \in Byte
  BY <1>3
<1>6. ASSUME NEW n \in 1 .. Len(c) PROVE Damage(n) \in Byte
  <2>1. CASE \E d \in i.damages : d[1] = n
    <3> DEFINE d == CHOOSE d \in i.damages : d[1] = n
    <3>1. d \in i.damages
      BY <2>1, Zenon
    <3>2. d[2] \in Byte
      BY <3>1, IntentFields
    <3>3. QED
      BY <2>1, <3>2, Zenon
  <2>2. CASE ~\E d \in i.damages : d[1] = n
    BY <1>5, <2>2, Zenon
  <2>3. QED
    BY <2>1, <2>2, Zenon
<1>7. ASSUME NEW n \in 1 .. Len(c), ~\E d \in i.damages : d[1] = n PROVE Damage(n) = c[n]
  BY <1>7, Zenon
<1> HIDE DEF Damage
<1>8. s \in Seq(Byte) /\ Len(s) = Len(c) /\ \A n \in 1 .. Len(c) : s[n] = Damage(n)
  <2>1. s \in [1 .. Len(c) -> Byte] /\ \A n \in 1 .. Len(c) : s[n] = Damage(n)
    BY <1>4, <1>5, <1>6
  <2>2. QED
    BY <1>5, <2>1
<1>9. ASSUME \A d \in i.damages : d[1] > Len(h)
      PROVE  \E y \in Seq(Byte) : s = Cat(h, y)
  <2>1. ASSUME NEW n \in 1 .. Len(h) PROVE s[n] = h[n]
    <3>1. n \in 1 .. Len(c) /\ 0 + n = n /\ n \in Nat
      BY <1>1, <1>3
    <3>2. ~\E d \in i.damages : d[1] = n
      <4>1. ASSUME NEW d \in i.damages PROVE d[1] # n
        <5>1. d[1] > Len(h) /\ d[1] \in Nat
          BY <1>9, IntentFields
        <5>2. QED
          BY <1>1, <3>1, <5>1
      <4>2. QED
        BY <4>1, Zenon
    <3>3. s[n] = c[n]
      BY <1>7, <1>8, <3>1, <3>2, Zenon
    <3>4. c[0 + n] = h[n]
      BY <1>3, Zenon DEF Stands
    <3>5. QED
      BY <3>1, <3>3, <3>4
  <2>2. Len(h) <= Len(s) /\ Agree(s, h, Len(h))
    BY <1>1, <1>3, <1>8, <2>1 DEF Agree
  <2>3. s = Cat(h, From(s, Len(h)))
    BY <1>1, <1>8, <2>2, SplitAt
  <2>4. From(s, Len(h)) \in Seq(Byte)
    BY <1>1, <1>8, <2>2, FromAt
  <2>5. QED
    BY <2>3, <2>4, Zenon
<1>10. ASSUME i.damages = {} PROVE s = c
  <2>1. \A n \in 1 .. Len(c) : s[n] = c[n]
    BY <1>7, <1>8, <1>10, Zenon
  <2>2. QED
    BY <1>3, <1>8, <2>1, SeqEqual
<1>11. Len(s) \in Nat /\ Len(h) <= Len(s)
  BY <1>1, <1>3, <1>8
<1>12. QED
  BY <1>1, <1>8, <1>9, <1>10, <1>11, Zenon DEF c

\* What a beginning of a beginning is.
LEMMA BeginsStream ==
  ASSUME NEW s \in Seq(Byte), NEW n \in 0 .. Len(s), NEW g \in Seq(Byte), NEW r \in Seq(Byte),
         Cat(g, r) = SubSeq(s, 1, n)
  PROVE  Starts(s, g)
<1> DEFINE a == SubSeq(s, 1, n)
           b == SubSeq(s, n + 1, Len(s))
<1>1. n \in Nat /\ n <= Len(s)
  OBVIOUS
<1>2. a \in Seq(Byte) /\ b \in Seq(Byte) /\ Cat(a, b) = s
  BY <1>1, Halves
<1> HIDE DEF a, b
<1>3. Cat(g, r) = a
  BY DEF a
<1>4. s = Cat(g, Cat(r, b)) /\ Cat(r, b) \in Seq(Byte)
  BY <1>2, <1>3, Grouped
<1>5. QED
  BY <1>4, Zenon DEF Starts

\* What was read is a beginning of the stream.
LEMMA ReadBegins ==
  ASSUME NEW s \in Seq(Byte), NEW n \in 0 .. Len(s), NEW g \in Seq(Byte),
         NEW u \in Seq(Byte), NEW d \in Seq(Byte), NEW p, p = SubSeq(s, 1, n), Cat(g, Cat(u, d)) = p
  PROVE  Starts(s, g)
<1>1. Cat(u, d) \in Seq(Byte)
  BY Grouped
<1>2. Cat(g, Cat(u, d)) = SubSeq(s, 1, n)
  OBVIOUS
<1>3. QED
  BY <1>1, <1>2, BeginsStream

\* So it is in every state.
LEMMA GotBegins == ASSUME WsTypes, Received PROVE Begun(got)
<1> DEFINE u == SubSeq(read_buffer, read_pos + 1, Len(read_buffer))
           d == Datas(inflight)
           p == SubSeq(stream, 1, sent)
<1>1. stream \in Seq(Byte) /\ sent \in 0 .. Len(stream) /\ got \in Seq(Byte)
  BY DEF WsTypes
<1>2. u \in Seq(Byte) /\ d \in Seq(Byte)
  <2>1. read_buffer \in Seq(Byte) /\ read_pos \in 0 .. Len(read_buffer)
        /\ inflight \in Seq(Messages)
    BY DEF WsTypes
  <2>2. read_pos \in Nat /\ read_pos <= Len(read_buffer)
    BY <2>1
  <2>3. u \in Seq(Byte)
    BY <2>1, <2>2, Halves
  <2>4. d \in Seq(Byte)
    BY <2>1, DatasType, Zenon
  <2>5. QED
    BY <2>3, <2>4
<1>3. Cat(got, Cat(u, d)) = p
  BY DEF Received, Unread
<1>4. p = SubSeq(stream, 1, sent)
  OBVIOUS
<1> HIDE DEF u, d, p
<1>5. Starts(stream, got)
  BY <1>1, <1>2, <1>3, <1>4, ReadBegins
<1>6. QED
  BY <1>1, <1>5, Zenon DEF Begun

\* And in the next one.
LEMMA GotBeginsNext == ASSUME WsTypes', Received', stream' = stream PROVE Begun(got') /\ got' \in Seq(Byte)
<1> DEFINE u == SubSeq(read_buffer', read_pos' + 1, Len(read_buffer'))
           d == Datas(inflight')
           p == SubSeq(stream, 1, sent')
<1>1. stream \in Seq(Byte) /\ sent' \in 0 .. Len(stream) /\ got' \in Seq(Byte)
  BY DEF WsTypes
<1>2. u \in Seq(Byte) /\ d \in Seq(Byte)
  <2>1. read_buffer' \in Seq(Byte) /\ read_pos' \in 0 .. Len(read_buffer')
        /\ inflight' \in Seq(Messages)
    BY DEF WsTypes
  <2>2. read_pos' \in Nat /\ read_pos' <= Len(read_buffer')
    BY <2>1
  <2>3. u \in Seq(Byte)
    BY <2>1, <2>2, Halves
  <2>4. d \in Seq(Byte)
    BY <2>1, DatasType, Zenon
  <2>5. QED
    BY <2>3, <2>4
<1>3. Cat(got', Cat(u, d)) = p
  BY DEF Received, Unread, Datas, Loads
<1>4. p = SubSeq(stream, 1, sent')
  OBVIOUS
<1> HIDE DEF u, d, p
<1>5. Starts(stream, got')
  BY <1>1, <1>2, <1>3, <1>4, ReadBegins
<1>6. QED
  BY <1>1, <1>5, Zenon DEF Begun

-----------------------------------------------------------------------------
(* What a read hands to the request reader and to the UDP session.         *)

\* The bytes added behind g.
LEMMA AddedBytes ==
  ASSUME NEW g \in Seq(Byte), NEW x \in Seq(Byte), NEW b, b = Cat(g, x)
  PROVE  SubSeq(b, Len(g) + 1, Len(b)) = x
<1>1. b \in Seq(Byte) /\ Len(b) = Len(g) + Len(x)
  BY Joined
<1>2. Len(g) \in Nat /\ Len(x) \in Nat
  OBVIOUS
<1>3. Len(SubSeq(b, Len(g) + 1, Len(b))) = Len(x) /\ SubSeq(b, Len(g) + 1, Len(b)) \in Seq(Byte)
  <2>1. Len(g) <= Len(b)
    BY <1>1, <1>2
  <2>2. Len(b) - Len(g) = Len(x)
    BY <1>1, <1>2
  <2>3. QED
    BY <1>1, <1>2, <2>1, <2>2, Halves
<1>4. \A i \in 1 .. Len(x) : SubSeq(b, Len(g) + 1, Len(b))[i] = b[Len(g) + i]
  BY <1>1, <1>2
<1>5. \A i \in 1 .. Len(x) : b[Len(g) + i] = x[i]
  <2>1. Stands(b, Len(g), x)
    BY Placed
  <2>2. QED
    BY <2>1 DEF Stands
<1>6. QED
  BY <1>3, <1>4, <1>5, SeqEqual

\* A read delivers some bytes, no more than there is room for.
LEMMA ReadTakes ==
  ASSUME WsInv, NEW room \in Nat \ {0}, ReadBytes(room)
  PROVE  /\ NewBytes \in Seq(Byte) /\ NewBytes # <<>> /\ Len(NewBytes) <= room
         /\ got' = Cat(got, NewBytes) /\ UNCHANGED <<stream, written, wire>>
<1>1. WsTypes /\ ReadSide /\ got \in Seq(Byte)
  BY DEF WsInv, ReadSide, WsTypes
<1>2. PICK x : Delivered(x) /\ Len(x) <= room
  BY <1>1, ReadBufferedRead, ReadMessageRead DEF ReadBytes
<1>3. NewBytes = x
  BY <1>1, <1>2, AddedBytes DEF Delivered, NewBytes
<1>4. UNCHANGED <<stream, written, wire>>
  BY DEF ReadBytes, ReadBuffered, ReadMessage, ReadFrame, write_vars, sink_vars
<1>5. QED
  BY <1>2, <1>3, <1>4 DEF Delivered

\* What the decoder answers.
LEMMA DecodeAnswers ==
  ASSUME NEW b \in Seq(Byte)
  PROVE  DecodeRequest(b).res \in {"ok", "more", "invalid"}
<1> DEFINE a == DecodeAddress(From(b, AddrAt))
<1>1. AddrAt \in Nat /\ MIN_SIZE \in Nat /\ AddrAt <= MIN_SIZE
  BY LengthsAssumption DEF AddrAt, CmdAt, MIN_SIZE
<1>2. CASE Len(b) < MIN_SIZE
  BY <1>2, Answers DEF DecodeRequest
<1>3. CASE ~(Len(b) < MIN_SIZE)
  <2>1. AddrAt <= Len(b)
    BY <1>1, <1>3
  <2>2. From(b, AddrAt) \in Seq(Byte)
    BY <1>1, <2>1, FromAt
  <2>3. a \in {NeedMoreData, Invalid} \/ a.res = "ok"
    BY <2>2, AddressSound
  <2> HIDE DEF a
  <2>4. \/ DecodeRequest(b) \in {NeedMoreData, Invalid} \/ (DecodeRequest(b) = a /\ a.res # "ok")
        \/ \E v, n : DecodeRequest(b) = Ok(v, n)
    BY <1>3 DEF DecodeRequest, a
  <2>5. CASE DecodeRequest(b) \in {NeedMoreData, Invalid}
    BY <2>5, Answers
  <2>6. CASE DecodeRequest(b) = a /\ a.res # "ok"
    BY <2>3, <2>6, Answers
  <2>7. CASE \E v, n : DecodeRequest(b) = Ok(v, n)
    BY <2>7, Answers
  <2>8. QED
    BY <2>4, <2>5, <2>6, <2>7
<1>4. QED
  BY <1>2, <1>3

\* The reader's verdict is the decoder's, unless there are too many bytes.
LEMMA VerdictIs ==
  ASSUME NEW b \in Seq(Byte)
  PROVE  /\ TooLarge(b) => Verdict(b).res = "too_large"
         /\ ~TooLarge(b) => Verdict(b).res = DecodeRequest(b).res
         /\ Verdict(b).res = "ok" => ~TooLarge(b) /\ Verdict(b) = DecodeRequest(b)
         /\ Verdict(b).res \in {"ok", "more", "invalid", "too_large"}
<1> DEFINE c == CheckComplete(b)
           d == DecodeRequest(b)
<1>1. c.res = d.res
  BY SameVerdict
<1>2. d.res \in {"ok", "more", "invalid"}
  BY DecodeAnswers
<1>3. TooLarge(b) => Verdict(b) = [res |-> "too_large"]
  BY DEF Verdict
<1>4. ~TooLarge(b) => Verdict(b) = IF c.res # "ok" THEN c
                                   ELSE IF d.res = "more" THEN [res |-> "unreachable"] ELSE d
  BY DEF Verdict
<1>5. TooLarge(b) => Verdict(b).res = "too_large"
  BY <1>3
<1> HIDE DEF c, d
<1>6. ASSUME ~TooLarge(b), d.res = "ok" PROVE Verdict(b) = d
  <2>1. c.res = "ok" /\ d.res # "more"
    BY <1>1, <1>6
  <2>2. QED
    BY <1>4, <1>6, <2>1, Zenon
<1>7. ASSUME ~TooLarge(b), d.res # "ok" PROVE Verdict(b) = c
  BY <1>1, <1>4, <1>7
<1>8. QED
  BY <1>1, <1>2, <1>5, <1>6, <1>7 DEF d

-----------------------------------------------------------------------------
(* Whatever the handler does, the transport takes one of its own steps.    *)

\* reserve() leaves room for a buffer.
LEMMA RoomReserved ==
  ASSUME NEW c \in Nat, NEW l \in Nat
  PROVE  /\ Reserved(c, l) \in Nat /\ Reserved(c, l) - l \in Nat \ {0}
         /\ c \in {BufferSize, 2 * BufferSize} /\ l < BufferSize =>
              Reserved(c, l) \in {BufferSize, 2 * BufferSize}
BY MaxesNat DEF Reserved, GreaterOf

\* A message of the session fits behind a full buffer.
LEMMA OutgoingFits ==
  ASSUME WsTypes, NEW data \in Outgoing
  PROVE  Fitting(data)
<1>0. BufferSize \in Nat /\ 1 <= BufferSize /\ MaxIdle \in Nat /\ MaxFrame \in Nat
      /\ BufferSize + MaxIdle <= MaxFrame + 16
  BY MaxesNat, RepliesAssumption
<1>1. CASE stage = "tcp"
  <2>1. PICK n \in {1, BufferSize} : data = [k \in 1 .. n |-> Len(written) + k]
    BY <1>1 DEF Outgoing
  <2>2. n \in Nat /\ n <= BufferSize /\ Len(written) \in Nat
    BY <1>0, <2>1 DEF WsTypes
  <2>3. data \in [1 .. n -> Nat]
    BY <2>1, <2>2
  <2>4. data \in Seq(Nat) /\ Len(data) = n
    BY <2>2, <2>3
  <2>5. Len(data) + MaxIdle <= MaxFrame + 16
    BY <1>0, <2>2, <2>4
  <2>6. QED
    BY <2>4, <2>5 DEF Fitting
<1>2. CASE stage # "tcp"
  <2>1. PICK k \in DOMAIN Replies : data = Framed(Replies[k])
    BY <1>2 DEF Outgoing
  <2>2. Replies[k] \in Packets
    BY RepliesAssumption
  <2>3. data \in Seq(Byte)
    BY <2>1, <2>2, FramedAt
  <2>4. data \in Seq(Nat)
    BY <2>3, CrlfBytes
  <2>5. Len(data) + MaxIdle <= MaxFrame + 16
    BY <2>1, RepliesAssumption
  <2>6. QED
    BY <2>4, <2>5 DEF Fitting
<1>3. QED
  BY <1>1, <1>2

\* The stream has bytes.
LEMMA StreamNotEmpty ==
  ASSUME Kinds
  PROVE  Len(stream) \in Nat \ {0}
<1>1. intent \in Intents /\ stream = Encoding(intent)
  BY DEF Kinds
<1>2. Len(stream) \in Nat /\ Len(Header(intent.request)) \in Nat /\ Len(Header(intent.request)) # 0
      /\ Len(Header(intent.request)) <= Len(stream)
  BY <1>1, StreamIs
<1>3. QED
  BY <1>2

\* Every step of the handler is one of the transport, or none.
LEMMA StepIsWs ==
  ASSUME InboundInv, Next
  PROVE  WsStep \/ UNCHANGED ws_vars
<1>0. WsTypes /\ Kinds /\ Reading
  BY DEF InboundInv, WsInv
<1>1. CASE Accepted
  BY <1>0, <1>1 DEF Accepted, Reading, WsStep
<1>2. CASE Refused \/ RequestTimeout \/ UdpNext \/ SessionEnds \/ Closed
  BY <1>2 DEF Refused, RequestTimeout, UdpNext, SessionEnds, Closed
<1>3. CASE ReadRequest
  <2>1. cap \in Nat /\ Len(buf) \in Nat
    BY <1>0 DEF Kinds
  <2>2. Reserved(cap, Len(buf)) - Len(buf) \in Nat \ {0}
    BY <2>1, RoomReserved
  <2>3. QED
    BY <1>3, <2>2, Zenon DEF ReadRequest, ReadBytes, WsStep
<1>4. CASE RelayRead
  BY <1>4, MaxesNat, Zenon DEF RelayRead, ReadBytes, WsStep
<1>5. CASE UdpRead
  BY <1>0, <1>5, StreamNotEmpty, Zenon DEF UdpRead, ReadBytes, WsStep
<1>6. CASE RequestCut \/ SessionSkips \/ SessionReadEnds
  BY <1>6, Zenon DEF RequestCut, SessionSkips, SessionReadEnds, WsStep
<1>7. CASE SessionWrites
  BY <1>0, <1>7, OutgoingFits, Zenon DEF SessionWrites, WsStep
<1>8. CASE SessionFlushes \/ CloseClient
  BY <1>8, Zenon DEF SessionFlushes, CloseClient, WsStep
<1>9. CASE ClientActs
  BY <1>9, Zenon DEF ClientActs, Client, WsStep
<1>10. QED
  BY <1>1, <1>2, <1>3, <1>4, <1>5, <1>6, <1>7, <1>8, <1>9, Zenon DEF Next

\* The transport keeps its invariant, and the stream is the client's.
LEMMA TransportKept ==
  ASSUME InboundInv, [Next]_vars
  PROVE  WsInv' /\ stream' = stream /\ intent' = intent
<1>1. WsInv
  BY DEF InboundInv
<1>2. WsStep \/ UNCHANGED ws_vars
  BY StepIsWs DEF vars
<1>3. intent' = intent
  BY DEF vars, Next, Accepted, Refused, ReadRequest, RequestCut, RequestTimeout, RelayRead,
     UdpRead,
         UdpNext, SessionSkips, SessionReadEnds, SessionWrites, SessionFlushes, SessionEnds,
         CloseClient, Closed, ClientActs
<1>4. CASE WsStep
  <2>1. stream' = stream
    BY <1>4 DEF WsStep, Handshake, Client, Socket, SendMessage, SendIdle, SendClose, Vanish,
       Block,
         BreakSocket, ReadBuffered, ReadMessage, ReadSkip, ReadClose, ReadError, PollReady, WriteRefused,
         WriteFails, PollFlush, StartSend, ShutdownClose, ShutdownFlush, ShutdownFails,
         client_vars, ClientFrame, ReadFrame, SinkFrame
  <2>2. QED
    BY <1>1, <1>3, <1>4, <2>1, WsStepInv, SMTT(30)
<1>5. CASE UNCHANGED ws_vars
  <2>1. WsInv'
    <3> USE <1>1, <1>5 DEF WsInv, ws_vars, client_vars, read_vars, sink_vars, write_vars
    <3>1. WsTypes'
      BY DEF WsTypes
    <3>2. Delivery'
      BY DEF Delivery
    <3>3. Received'
      BY DEF Received, Unread, Datas, Loads
    <3>4. ReadEnds' /\ WritesFine'
      BY DEF ReadEnds, WritesFine
    <3>5. InOrder'
      BY DEF InOrder, Handed, HasClose, CloseLast, DataIn
    <3>6. Closing'
      BY DEF Closing, Handed, HasClose
    <3>7. Buffered'
      BY DEF Buffered, Pings
    <3>8. QED
      BY <3>1, <3>2, <3>3, <3>4, <3>5, <3>6, <3>7
  <2>2. stream' = stream
    BY <1>5 DEF ws_vars, client_vars
  <2>3. QED
    BY <1>3, <2>1, <2>2
<1>6. QED
  BY <1>2, <1>4, <1>5

-----------------------------------------------------------------------------
(* The reader and the session keep the invariant.                          *)

\* A step that reads nothing for the reader or the UDP session.
LEMMA QuietStep ==
  ASSUME InboundInv, UNCHANGED <<stream, intent, buf, cap, request, decoding, packets>>,
         stage' \in Stages \ {"handshake"}, writes' \in 0 .. intent.writes,
         stage' = "request" => stage \in {"handshake", "request"} /\ UNCHANGED <<got, written, writes>>,
         stage' \in {"tcp", "udp"} => stage' = stage, stage' = "udp" => got' = got,
         \/ outcome' = outcome
         \/ outcome' \in {"cut", "timeout"} /\ stage' = "closing" /\ stage = "request"
  PROVE  Kinds' /\ Reading' /\ Capacity' /\ Decoded' /\ Split'
<1> USE DEF InboundInv
<1>1. Kinds'
  BY DEF Kinds
<1>2. Reading'
  BY DEF Reading
<1>3. Capacity'
  BY DEF Capacity, Fair, HeaderIntact, HeaderLen
<1>4. Decoded'
  BY DEF Decoded, Begun, HeaderIntact, HeaderLen, Fair
<1>5. Split'
  BY DEF Split, Begun, Reading
<1>6. QED
  BY <1>1, <1>2, <1>3, <1>4, <1>5

Session == Kinds /\ Reading /\ Capacity /\ Decoded /\ Split /\ Answered

\* The actions that leave the reader and the replies alone.
LEMMA QuietActions ==
  ASSUME InboundInv, Next, stream' = stream, intent' = intent,
         \/ Accepted \/ Refused \/ RequestCut \/ RequestTimeout \/ RelayRead \/ SessionSkips
         \/ SessionReadEnds \/ SessionFlushes \/ SessionEnds \/ CloseClient \/ Closed \/ ClientActs
  PROVE  Session'
<1> USE DEF reader_vars, ws_vars, client_vars, read_vars, sink_vars, write_vars,
            ClientFrame, ReadFrame, SinkFrame
<1>0. Kinds /\ Answered
  BY DEF InboundInv
<1>1. UNCHANGED <<buf, cap, request, decoding, packets, writes>>
  BY DEF Accepted, Refused, RequestCut, RequestTimeout, RelayRead, SessionSkips, SessionReadEnds,
         SessionFlushes, SessionEnds, CloseClient, Closed, ClientActs
<1>2. /\ stage' \in Stages \ {"handshake"}
      /\ stage' = "request" => stage \in {"handshake", "request"}
      /\ stage' \in {"tcp", "udp"} => stage' = stage
  BY <1>0 DEF Accepted, Refused, RequestCut, RequestTimeout, RelayRead, SessionSkips,
     SessionReadEnds,
         SessionFlushes, SessionEnds, CloseClient, Closed, ClientActs, Kinds, Stages
<1>20. outcome' = outcome \/ (outcome' \in {"cut", "timeout"} /\ stage' = "closing" /\ stage = "request")
  BY DEF Accepted, Refused, RequestCut, RequestTimeout, RelayRead, SessionSkips, SessionReadEnds,
         SessionFlushes, SessionEnds, CloseClient, Closed, ClientActs
<1>3. ASSUME stage' \in {"request", "udp"} PROVE got' = got /\ written' = written
  <2>1. ~RelayRead
    BY <1>3 DEF RelayRead
  <2>2. CASE Accepted
    BY <2>2 DEF Accepted, Handshake
  <2>3. CASE Refused \/ RequestTimeout \/ SessionEnds \/ Closed
    BY <2>3 DEF Refused, RequestTimeout, SessionEnds, Closed
  <2>4. CASE RequestCut \/ SessionSkips \/ SessionReadEnds
    BY <2>4 DEF RequestCut, SessionSkips, SessionReadEnds, ReadClose, ReadError, ReadSkip
  <2>5. CASE SessionFlushes \/ CloseClient
    BY <2>5 DEF SessionFlushes, CloseClient, PollReady, PollFlush, ShutdownClose, ShutdownFlush,
                ShutdownFails
  <2>6. CASE ClientActs
    BY <2>6 DEF ClientActs, Client, Socket, SendMessage, SendIdle, SendClose, Vanish, Block,
       BreakSocket
  <2>7. QED
    BY <2>1, <2>2, <2>3, <2>4, <2>5, <2>6
<1>4. writes' \in 0 .. intent.writes
  BY <1>0, <1>1 DEF Kinds
<1>5. Kinds' /\ Reading' /\ Capacity' /\ Decoded' /\ Split'
  BY <1>1, <1>2, <1>20, <1>3, <1>4, QuietStep
<1>6. Answered'
  BY <1>0, <1>1, <1>2, <1>3 DEF Answered
<1>7. QED
  BY <1>5, <1>6 DEF Session

\* A message of the session.
LEMMA WritesStep ==
  ASSUME InboundInv, stream' = stream, intent' = intent, SessionWrites
  PROVE  Session'
<1> USE DEF reader_vars, read_vars, SinkFrame
<1>0. Kinds /\ Answered /\ WsTypes /\ WriteSide
  BY DEF InboundInv, WsInv, WriteSide
<1>1. UNCHANGED <<buf, cap, request, decoding, packets, outcome, got>> /\ writes' = writes + 1
      /\ writes < intent.writes /\ stage \in {"tcp", "udp"} /\ stage' \in {stage, "closing"}
  BY DEF SessionWrites, StartSend, WriteRefused, WriteFails
<1>2. writes' \in 0 .. intent.writes /\ writes \in Nat
  <2>1. writes \in 0 .. intent.writes /\ intent.writes \in Nat
    BY <1>0, IntentFields DEF Kinds
  <2>2. QED
    BY <1>1, <2>1
<1>3. Kinds' /\ Reading' /\ Capacity' /\ Decoded' /\ Split'
  <2>1. stage' \in Stages \ {"handshake"} /\ stage' # "request"
    BY <1>1 DEF Stages
  <2>2. QED
    BY <1>1, <1>2, <2>1, QuietStep
<1>4. Answered'
  <2>1. SUFFICES ASSUME stage' = "udp"
                 PROVE  Replies # <<>> /\ Starts(written', Framed(Replies[1]))
    <3>1. writes' # 0
      BY <1>1, <1>2
    <3>2. QED
      BY <3>1 DEF Answered
  <2>2. stage = "udp" /\ write_error' = "none"
    BY <1>1, <2>1 DEF SessionWrites
  <2>3. PICK data \in Outgoing : StartSend(data)
    BY <2>2 DEF SessionWrites, WriteRefused, WriteFails
  <2>4. Fitting(data)
    BY <1>0, OutgoingFits
  <2>5. written' = Cat(written, data) /\ data \in Seq(Nat)
    BY <1>0, <2>3, <2>4, StartSendWrite DEF Fitting
  <2>6. data = Framed(Replies[writes + 1]) /\ writes + 1 \in DOMAIN Replies
    BY <2>2, <2>3 DEF Outgoing
  <2>60. data \in Seq(Byte)
    <3>1. Replies[writes + 1] \in Packets
      BY <2>6, RepliesAssumption
    <3>2. QED
      BY <2>6, <3>1, FramedAt
  <2>7. CASE writes = 0
    <3>1. written = <<>> /\ data = Framed(Replies[1]) /\ 1 \in DOMAIN Replies
      BY <1>0, <2>2, <2>6, <2>7 DEF Answered
    <3>2. written' = data
      BY <2>5, <3>1, JoinedEmpty
    <3>3. data = Cat(data, <<>>) /\ <<>> \in Seq(Byte)
      BY <2>60, JoinedEmpty
    <3>4. Replies # <<>>
      BY <3>1
    <3>5. Starts(written', data)
      BY <3>2, <3>3, Zenon DEF Starts
    <3>6. QED
      BY <3>1, <3>4, <3>5
  <2>8. CASE writes # 0
    <3> DEFINE f == Framed(Replies[1])
    <3>1. Replies # <<>> /\ Starts(written, f)
      BY <1>0, <2>2, <2>8, Zenon DEF Answered
    <3>2. PICK y \in Seq(Byte) : written = Cat(f, y)
      BY <3>1, Zenon DEF Starts
    <3>3. f \in Seq(Byte)
      <4>1. Replies[1] \in Packets
        BY <3>1, RepliesAssumption
      <4>2. QED
        BY <4>1, FramedAt
    <3> HIDE DEF f
    <3>4. written' = Cat(f, Cat(y, data)) /\ Cat(y, data) \in Seq(Byte)
      BY <2>5, <2>60, <3>2, <3>3, Grouped
    <3>5. Starts(written', f)
      BY <3>4, Zenon DEF Starts
    <3>6. QED
      BY <3>1, <3>5 DEF f
  <2>9. QED
    BY <2>7, <2>8
<1>5. QED
  BY <1>3, <1>4 DEF Session

-----------------------------------------------------------------------------
(* The request reader.                                                     *)

\* What was read of a stream whose header is intact fits the header.
LEMMA HeaderRead ==
  ASSUME NEW i \in Intents, NEW s, s = Encoding(i), NEW b \in Seq(Byte), Starts(s, b),
         NEW h, h = Header(i.request), \A d \in i.damages : d[1] > Len(h)
  PROVE  Fits(b, h)
<1>1. h \in Seq(Byte) /\ \E y \in Seq(Byte) : s = Cat(h, y)
  BY StreamIs
<1>2. PICK y \in Seq(Byte) : s = Cat(h, y)
  BY <1>1
<1>3. PICK t \in Seq(Byte) : s = Cat(b, t)
  BY DEF Starts
<1>4. QED
  BY <1>1, <1>2, <1>3, CutFits

\* So the decoder asks for more or finds the request that was meant.
LEMMA HeaderDecoded ==
  ASSUME NEW r \in Requests, NEW b \in Seq(Byte), NEW h, h = Header(r), Fits(b, h)
  PROVE  /\ DecodeRequest(b).res # "invalid"
         /\ DecodeRequest(b).res = "more" => Len(b) < MIN_SIZE \/ Len(b) < Len(h)
         /\ DecodeRequest(b).res = "ok" => Bare(DecodeRequest(b).value) = Bare(r)
<1> DEFINE d == DecodeRequest(b)
           v == Request(r.password, r.cmd, r.addr, From(b, Len(h)))
<1>1. h \in Seq(Byte) /\ Len(h) \in Nat /\ Len(b) \in Nat /\ MIN_SIZE \in Nat
  <2>1. h \in Seq(Byte)
    BY HeaderAt, Zenon
  <2>2. QED
    BY <2>1, LengthsAssumption, SMTT(30) DEF MIN_SIZE, AddrAt, CmdAt
<1>2. CASE Len(b) < MIN_SIZE \/ Len(b) < Len(h)
  <2>1. d = NeedMoreData
    BY <1>2, RequestDecoded
  <2>2. QED
    BY <1>2, <2>1, Answers
<1>3. CASE ~(Len(b) < MIN_SIZE \/ Len(b) < Len(h))
  <2>1. Len(b) >= MIN_SIZE /\ Len(b) >= Len(h)
    BY <1>1, <1>3
  <2>2. d = Ok(v, Len(h))
    BY <2>1, RequestDecoded
  <2> HIDE DEF d
  <2>3. d.res = "ok" /\ d.value = v
    BY <2>2, Answers
  <2>4. Bare(v) = Bare(r)
    BY DEF Bare, Request, Requests
  <2>5. QED
    BY <2>3, <2>4 DEF d
<1>4. QED
  BY <1>2, <1>3

\* A reader that waits for an intact header that fits has room for it.
LEMMA ReaderRoom ==
  ASSUME InboundInv, stage = "request", Fair
  PROVE  Len(buf) < BufferSize
<1>1. Kinds /\ Reading /\ WsTypes /\ Received
  BY DEF InboundInv, WsInv
<1>2. buf = got /\ got \in Seq(Byte) /\ (buf = <<>> \/ Verdict(buf).res = "more")
  BY <1>1 DEF Reading, WsTypes
<1>3. CASE buf = <<>>
  BY <1>3, MaxesNat
<1>4. CASE Verdict(buf).res = "more"
  <2> DEFINE h == Header(intent.request)
  <2>1. intent \in Intents /\ stream = Encoding(intent) /\ intent.request \in Requests
    BY <1>1, IntentFields DEF Kinds
  <2>2. Starts(stream, buf)
    BY <1>1, <1>2, GotBegins DEF Begun
  <2>3. (\A d \in intent.damages : d[1] > Len(h)) /\ Len(h) <= BufferSize /\ MIN_SIZE <= BufferSize
    BY DEF Fair, HeaderIntact, HeaderLen
  <2>4. h = Header(intent.request)
    OBVIOUS
  <2> HIDE DEF h
  <2>5. Fits(buf, h)
    BY <1>2, <2>1, <2>2, <2>3, <2>4, HeaderRead
  <2>6. DecodeRequest(buf).res = "more"
    BY <1>2, <1>4, VerdictIs
  <2>7. Len(buf) < MIN_SIZE \/ Len(buf) < Len(h)
    BY <1>2, <2>1, <2>4, <2>5, <2>6, HeaderDecoded
  <2>8. Len(buf) \in Nat /\ Len(h) \in Nat /\ MIN_SIZE \in Nat /\ BufferSize \in Nat
    <3>1. h \in Seq(Byte)
      BY <2>1, <2>4, HeaderAt, Zenon
    <3>2. QED
      BY <1>2, <3>1, MaxesNat, LengthsAssumption, SMTT(30) DEF MIN_SIZE, AddrAt, CmdAt
  <2>9. QED
    BY <2>3, <2>7, <2>8
<1>5. QED
  BY <1>2, <1>3, <1>4

\* What read_buf returned and what it means, in one step of the reader.
LEMMA RequestRead ==
  ASSUME InboundInv, WsInv', stream' = stream, ReadRequest
  PROVE  LET b == got'
             v == Verdict(b) IN
         /\ buf \o NewBytes = b /\ b \in Seq(Byte) /\ Begun(b) /\ b # <<>>
         /\ Fair => v.res \notin {"invalid", "too_large"}
         /\ v.res = "ok" => /\ v.value \in Requests /\ b = Cat(Header(v.value), v.value.payload)
                            /\ HeaderIntact => Bare(v.value) = Bare(intent.request)
         /\ UNCHANGED written
<1> DEFINE b == got'
           v == Verdict(b)
           h == Header(intent.request)
           room == Reserved(cap, Len(buf)) - Len(buf)
<1>1. Kinds /\ Reading /\ WsTypes /\ WsInv /\ stage = "request" /\ ReadBytes(room)
  BY DEF InboundInv, WsInv, ReadRequest
<1>2. buf = got /\ got \in Seq(Byte) /\ cap \in Nat /\ Len(buf) \in Nat
  BY <1>1 DEF Reading, WsTypes, Kinds
<1>3. room \in Nat \ {0} /\ Reserved(cap, Len(buf)) \in Nat
  BY <1>2, RoomReserved
<1>4. /\ NewBytes \in Seq(Byte) /\ NewBytes # <<>> /\ Len(NewBytes) <= room
      /\ b = Cat(got, NewBytes) /\ UNCHANGED written
  <2> HIDE DEF room
  <2>1. QED
    BY <1>1, <1>3, ReadTakes
<1>5. Begun(b) /\ b \in Seq(Byte)
  BY GotBeginsNext DEF WsInv
<1>6. buf \o NewBytes = b
  BY <1>2, <1>4 DEF Cat
<1>7. Len(b) = Len(buf) + Len(NewBytes) /\ Len(NewBytes) \in Nat /\ Len(NewBytes) # 0
  <2>1. Len(b) = Len(got) + Len(NewBytes)
    BY <1>2, <1>4, Joined
  <2>2. QED
    BY <1>2, <1>4, <2>1
<1>8. b # <<>>
  BY <1>2, <1>7
<1>9. Len(b) <= Reserved(cap, Len(buf))
  BY <1>2, <1>3, <1>4, <1>7
<1>10. intent \in Intents /\ stream = Encoding(intent) /\ intent.request \in Requests
  BY <1>1, IntentFields DEF Kinds
<1>11. HeaderIntact => Fits(b, h)
  <2>1. h = Header(intent.request) /\ Starts(stream, b) /\ b \in Seq(Byte)
    BY <1>5 DEF Begun
  <2>2. HeaderIntact => \A d \in intent.damages : d[1] > Len(h)
    BY DEF HeaderIntact, HeaderLen
  <2> HIDE DEF h, b
  <2>3. QED
    BY <1>10, <2>1, <2>2, HeaderRead
<1>12. Fair => ~TooLarge(b)
  <2>1. Fair => Reserved(cap, Len(buf)) \in {BufferSize, 2 * BufferSize}
    BY <1>1, <1>2, ReaderRoom, RoomReserved DEF InboundInv, Capacity
  <2>2. BufferSize \in Nat
    BY MaxesNat
  <2> HIDE DEF b
  <2>3. Len(b) \in Nat
    BY <1>5
  <2>4. QED
    BY <1>9, <2>1, <2>2, <2>3 DEF TooLarge
<1> HIDE DEF h, b
<1>13. HeaderIntact => DecodeRequest(b).res # "invalid"
  BY <1>5, <1>10, <1>11, HeaderDecoded DEF h
<1>14. HeaderIntact /\ DecodeRequest(b).res = "ok" => Bare(DecodeRequest(b).value) = Bare(intent.request)
  BY <1>5, <1>10, <1>11, HeaderDecoded DEF h
<1>15. Fair => v.res \notin {"invalid", "too_large"}
  <2>1. Fair => v.res = DecodeRequest(b).res
    BY <1>5, <1>12, VerdictIs
  <2>2. DecodeRequest(b).res # "too_large"
    BY <1>5, DecodeAnswers
  <2>3. Fair => HeaderIntact
    BY DEF Fair
  <2>4. QED
    BY <1>13, <2>1, <2>2, <2>3
<1>16. v.res = "ok" => v = DecodeRequest(b) /\ DecodeRequest(b).res = "ok"
  BY <1>5, VerdictIs
<1>17. DecodeRequest(b).res = "ok" =>
         /\ DecodeRequest(b).value \in Requests
         /\ b = Cat(Header(DecodeRequest(b).value), DecodeRequest(b).value.payload)
  BY <1>5, RequestSound, Zenon
<1> HIDE DEF v
<1>18. v.res = "ok" => /\ v.value \in Requests /\ b = Cat(Header(v.value), v.value.payload)
                       /\ HeaderIntact => Bare(v.value) = Bare(intent.request)
  BY <1>14, <1>16, <1>17
<1>19. QED
  BY <1>4, <1>5, <1>6, <1>8, <1>15, <1>18 DEF v, b

\* A read of the reader that does not complete a request.
LEMMA RequestMore ==
  ASSUME InboundInv, WsInv', stream' = stream, intent' = intent, ReadRequest,
         Verdict(got').res = "more"
  PROVE  Session'
<1>1. Kinds /\ Reading /\ Capacity /\ Decoded /\ Split /\ stage = "request"
  BY DEF InboundInv, ReadRequest
<1>2. buf \o NewBytes = got' /\ got' \in Seq(Byte) /\ written' = written
  BY RequestRead
<1>3. /\ buf' = got' /\ cap' = Reserved(cap, Len(buf)) /\ writes' = writes
      /\ UNCHANGED <<stage, request, outcome, decoding, packets>>
  BY <1>2 DEF ReadRequest
<1>4. cap \in Nat /\ Len(buf) \in Nat
  BY <1>1 DEF Kinds
<1>5. Kinds'
  <2>1. cap' \in Nat
    BY <1>3, <1>4, RoomReserved
  <2>2. QED
    BY <1>1, <1>2, <1>3, <2>1 DEF Kinds
<1>6. Reading'
  BY <1>1, <1>2, <1>3 DEF Reading
<1>7. Capacity'
  <2>1. Fair' = Fair
    BY DEF Fair, HeaderIntact, HeaderLen
  <2>2. Fair => Len(buf) < BufferSize
    BY <1>1, ReaderRoom
  <2>3. QED
    BY <1>1, <1>3, <1>4, <2>1, <2>2, RoomReserved DEF Capacity
<1>8. Decoded'
  BY <1>1, <1>3 DEF Decoded, Reading
<1>9. Split'
  BY <1>1, <1>3 DEF Split, Reading
<1>10. Answered'
  BY <1>1, <1>3 DEF Answered
<1>11. QED
  BY <1>5, <1>6, <1>7, <1>8, <1>9, <1>10 DEF Session

\* A read that completes a request or shows that there is none.
LEMMA RequestAnswered ==
  ASSUME InboundInv, WsInv', stream' = stream, intent' = intent, ReadRequest,
         Verdict(got').res # "more"
  PROVE  Session'
<1> DEFINE v == Verdict(got')
<1>1. Kinds /\ Reading /\ Capacity /\ Decoded /\ Split /\ stage = "request"
  BY DEF InboundInv, ReadRequest
<1>2. /\ buf \o NewBytes = got' /\ got' \in Seq(Byte) /\ Begun(got') /\ written' = written
      /\ Fair => v.res \notin {"invalid", "too_large"}
      /\ v.res = "ok" => /\ v.value \in Requests /\ got' = Cat(Header(v.value), v.value.payload)
                         /\ HeaderIntact => Bare(v.value) = Bare(intent.request)
  BY RequestRead
<1>3. v.res \in {"ok", "invalid", "too_large"}
  BY <1>2, VerdictIs
<1>4. /\ outcome' = v.res
      /\ request' = IF v.res = "ok" THEN v.value ELSE request
      /\ stage' = IF v.res # "ok" THEN "closing"
                  ELSE IF v.value.cmd = UdpAssociate THEN "udp" ELSE "tcp"
      /\ buf' = IF v.res = "ok" THEN v.value.payload ELSE <<>>
      /\ decoding' = (v.res = "ok" /\ v.value.cmd = UdpAssociate /\ v.value.payload # <<>>)
      /\ UNCHANGED <<cap, packets, writes>>
  BY <1>2 DEF ReadRequest
<1> HIDE DEF v
<1>5. v.res = "ok" => v.value.payload \in Seq(Byte) /\ Header(v.value) \in Seq(Byte)
  BY <1>2, RequestFields, HeaderAt
<1>6. packets = <<>> /\ writes = 0 /\ written = <<>>
  BY <1>1 DEF Reading
<1>7. Kinds'
  BY <1>1, <1>3, <1>4, <1>5 DEF Kinds, Stages
<1>8. Reading'
  BY <1>4 DEF Reading
<1>9. Capacity'
  BY <1>1, <1>4 DEF Capacity, Fair, HeaderIntact, HeaderLen
<1>10. HeaderIntact' = HeaderIntact /\ Fair' = Fair
  BY DEF HeaderIntact, HeaderLen, Fair
<1>11. Decoded'
  <2>1. CASE v.res = "ok"
    <3>1. request' = v.value /\ request' \in Requests /\ outcome' = "ok"
          /\ got' = Cat(Header(request'), request'.payload)
      BY <1>2, <1>4, <2>1
    <3>2. Starts(stream', Cat(Header(request'), request'.payload))
      BY <1>2, <3>1 DEF Begun
    <3>3. HeaderIntact' => Bare(request') = Bare(intent'.request)
      BY <1>2, <1>10, <2>1, <3>1
    <3>4. QED
      BY <3>1, <3>2, <3>3 DEF Decoded, Begun
  <2>2. CASE v.res # "ok"
    BY <1>2, <1>3, <1>4, <1>10, <2>2 DEF Decoded
  <2>3. QED
    BY <2>1, <2>2
<1>12. Split'
  <2>1. packets' = <<>> /\ outcome' # "out_of_sync"
    BY <1>3, <1>4, <1>6
  <2>2. stage' = "udp" => /\ got' = Cat(Cat(Header(request'), FramedAll(packets')), buf')
                          /\ request'.cmd = UdpAssociate
                          /\ ~decoding' => buf' = <<>>
    <3>1. SUFFICES ASSUME stage' = "udp"
                   PROVE  /\ got' = Cat(Cat(Header(request'), FramedAll(packets')), buf')
                          /\ request'.cmd = UdpAssociate
                          /\ ~decoding' => buf' = <<>>
      OBVIOUS
    <3>2. v.res = "ok" /\ v.value.cmd = UdpAssociate
      BY <1>4, <3>1
    <3>3. request' = v.value /\ buf' = v.value.payload /\ decoding' = (v.value.payload # <<>>)
      BY <1>4, <3>2
    <3>4. FramedAll(packets') = <<>>
      <4>1. packets \in Seq(Packets)
        BY <1>1 DEF Kinds
      <4>2. FramedAll(<<>>) = <<>>
        BY <4>1, FramesType
      <4>3. QED
        BY <2>1, <4>2
    <3>5. Cat(Header(request'), FramedAll(packets')) = Header(request')
      BY <1>5, <3>2, <3>3, <3>4, JoinedEmpty
    <3>6. QED
      BY <1>2, <3>2, <3>3, <3>5
  <2>3. intent'.damages = {} => Len(packets') <= Len(intent'.packets)
                                /\ packets' = First(intent'.packets, Len(packets'))
    BY <1>1, <1>4 DEF Split
  <2>4. QED
    BY <2>1, <2>2, <2>3 DEF Split
<1>13. Answered'
  BY <1>2, <1>4, <1>6 DEF Answered
<1>14. QED
  BY <1>7, <1>8, <1>9, <1>11, <1>12, <1>13 DEF Session

\* A read of the UDP session.
LEMMA UdpReadStep ==
  ASSUME InboundInv, stream' = stream, intent' = intent, UdpRead
  PROVE  Session'
<1>1. WsInv /\ Kinds /\ Capacity /\ Decoded /\ Split /\ Answered /\ stage = "udp" /\ ReadBytes(Len(stream))
      /\ Reading
  BY DEF InboundInv, UdpRead
<1>2. Len(stream) \in Nat \ {0}
  BY <1>1, StreamNotEmpty
<1>3. NewBytes \in Seq(Byte) /\ got' = Cat(got, NewBytes) /\ written' = written
  BY <1>1, <1>2, ReadTakes
<1>4. /\ buf' = Cat(buf, NewBytes) /\ decoding' = TRUE
      /\ UNCHANGED <<stage, cap, request, outcome, packets, writes>>
  BY DEF UdpRead, Cat
<1>5. buf \in Seq(Byte) /\ buf' \in Seq(Byte)
  BY <1>1, <1>3, <1>4, Joined DEF Kinds
<1>6. Kinds'
  BY <1>1, <1>4, <1>5 DEF Kinds
<1>7. Reading'
  BY <1>1, <1>4 DEF Reading
<1>8. Capacity'
  BY <1>1, <1>4 DEF Capacity, Fair, HeaderIntact, HeaderLen
<1>9. Decoded'
  BY <1>1, <1>4 DEF Decoded, Fair, HeaderIntact, HeaderLen, Begun
<1>10. Split'
  <2> DEFINE a == Cat(Header(request), FramedAll(packets))
  <2>1. a \in Seq(Byte)
    <3>1. request \in Requests /\ packets \in Seq(Packets)
      BY <1>1 DEF Decoded, Kinds
    <3>2. Header(request) \in Seq(Byte) /\ FramedAll(packets) \in Seq(Byte)
      BY <3>1, HeaderAt, FramesType
    <3>3. QED
      BY <3>2, Joined
  <2>2. got = Cat(a, buf)
    BY <1>1 DEF Split
  <2> HIDE DEF a
  <2>3. got' = Cat(a, buf')
    BY <1>3, <1>4, <1>5, <2>1, <2>2, Grouped
  <2>4. got' = Cat(Cat(Header(request'), FramedAll(packets')), buf')
    BY <1>4, <2>3 DEF a
  <2>5. QED
    BY <1>1, <1>4, <2>4 DEF Split, Begun
<1>11. Answered'
  BY <1>1, <1>3, <1>4 DEF Answered
<1>12. QED
  BY <1>6, <1>7, <1>8, <1>9, <1>10, <1>11 DEF Session

-----------------------------------------------------------------------------
(* The packet loop of the UDP session.                                     *)

\* Only the payload of a request is not in its header.
LEMMA SameHeader ==
  ASSUME NEW r \in Requests, NEW q \in Requests, Bare(r) = Bare(q)
  PROVE  Header(r) = Header(q) /\ r.cmd = q.cmd
<1>1. r.password = q.password /\ r.cmd = q.cmd /\ r.addr = q.addr
  <2>1. /\ Bare(r).password = r.password /\ Bare(r).cmd = r.cmd /\ Bare(r).addr = r.addr
        /\ Bare(q).password = q.password /\ Bare(q).cmd = q.cmd /\ Bare(q).addr = q.addr
    BY DEF Bare, Requests
  <2>2. QED
    BY <2>1, Zenon
<1>2. QED
  BY <1>1 DEF Header

\* What the packets of ps behind the first k fit.
LEMMA RestFits ==
  ASSUME NEW ps \in Seq(Packets), NEW k \in 0 .. Len(ps), NEW f, f = FramedAll(First(ps, k)),
         NEW b \in Seq(Byte), NEW t \in Seq(Byte), FramedAll(ps) = Cat(f, Cat(b, t))
  PROVE  /\ k < Len(ps) => Fits(b, Framed(ps[k + 1]))
         /\ k = Len(ps) => b = <<>>
<1>0. First(ps, k) \in Seq(Packets) /\ Len(ps) \in Nat
  BY FirstNext
<1>1. f \in Seq(Byte) /\ Cat(b, t) \in Seq(Byte)
  <2>1. Cat(b, t) \in Seq(Byte)
    BY Grouped
  <2>2. QED
    BY <1>0, <2>1, FramesType
<1>2. ASSUME k < Len(ps) PROVE Fits(b, Framed(ps[k + 1]))
  <2> DEFINE g == Framed(ps[k + 1])
  <2>1. k \in 0 .. Len(ps) - 1 /\ k + 1 \in 0 .. Len(ps)
    BY <1>0, <1>2
  <2>2. ps[k + 1] \in Packets /\ First(ps, k + 1) = Append(First(ps, k), ps[k + 1])
    BY <2>1, FirstNext
  <2>3. g \in Seq(Byte)
    BY <2>2, FramedAt
  <2>4. FramedAll(First(ps, k + 1)) = Cat(f, g)
    BY <1>0, <2>2, FramedAppend
  <2>5. PICK y \in Seq(Byte) : FramedAll(ps) = Cat(FramedAll(First(ps, k + 1)), y)
    BY <2>1, AllBegins
  <2> HIDE DEF g
  <2>6. FramedAll(ps) = Cat(f, Cat(g, y)) /\ Cat(g, y) \in Seq(Byte)
    BY <1>1, <2>3, <2>4, <2>5, Grouped
  <2>7. Cat(b, t) = Cat(g, y)
    BY <1>1, <2>6, Cancel
  <2>8. Fits(b, g)
    BY <2>3, <2>7, CutFits
  <2>9. QED
    BY <2>8 DEF g
<1>3. ASSUME k = Len(ps) PROVE b = <<>>
  <2>1. f = FramedAll(ps)
    BY <1>3, FirstNext
  <2>2. Len(Cat(f, Cat(b, t))) = Len(f) + Len(Cat(b, t)) /\ Len(Cat(b, t)) = Len(b) + Len(t)
    <3>1. Len(Cat(f, Cat(b, t))) = Len(f) + Len(Cat(b, t))
      BY <1>1, Joined
    <3>2. Len(Cat(b, t)) = Len(b) + Len(t)
      BY Joined
    <3>3. QED
      BY <3>1, <3>2
  <2>3. Len(f) = Len(f) + Len(Cat(b, t)) /\ Len(f) \in Nat /\ Len(b) \in Nat /\ Len(t) \in Nat
    <3>1. f = Cat(f, Cat(b, t))
      BY <2>1, Zenon
    <3>2. Len(f) = Len(Cat(f, Cat(b, t)))
      BY <3>1, Zenon
    <3>3. Len(f) \in Nat /\ Len(b) \in Nat /\ Len(t) \in Nat
      BY <1>1
    <3>4. QED
      BY <2>2, <3>2, <3>3, Zenon
  <2>4. Len(b) = 0
    BY <2>2, <2>3
  <2>5. QED
    BY <2>4
<1>4. QED
  BY <1>2, <1>3

\* Without damages, what the session has not decoded is the next packet's
\* beginning, and nothing behind the last.
LEMMA NextFits ==
  ASSUME InboundInv, stage = "udp", intent.damages = {}
  PROVE  LET ps == intent.packets
             k == Len(packets) IN
         /\ k \in 0 .. Len(ps) /\ packets = First(ps, k) /\ ps \in Seq(Packets)
         /\ k < Len(ps) => Fits(buf, Framed(ps[k + 1]))
         /\ k = Len(ps) => buf = <<>>
         /\ Header(request) = Header(intent.request)
<1> DEFINE ps == intent.packets
           k == Len(packets)
           h == Header(request)
           f == FramedAll(packets)
<1>1. Kinds /\ Decoded /\ Split /\ WsTypes /\ Received
  BY DEF InboundInv, WsInv
<1>2. /\ intent \in Intents /\ stream = Encoding(intent) /\ ps \in Seq(Packets) /\ intent.request \in Requests
      /\ packets \in Seq(Packets) /\ buf \in Seq(Byte) /\ stream \in Seq(Byte)
      /\ intent.request.cmd = UdpAssociate => intent.data = <<>>
  BY <1>1, IntentFields DEF Kinds, WsTypes
<1>3. k \in 0 .. Len(ps) /\ packets = First(ps, k)
  BY <1>1, <1>2 DEF Split
<1>4. request \in Requests /\ request.cmd = UdpAssociate /\ Bare(request) = Bare(intent.request)
  BY <1>1 DEF Decoded, Split, HeaderIntact
<1>5. Header(request) = Header(intent.request) /\ intent.data = <<>>
  BY <1>2, <1>4, SameHeader
<1>6. h \in Seq(Byte) /\ f \in Seq(Byte) /\ FramedAll(ps) \in Seq(Byte)
  BY <1>2, <1>4, HeaderAt, FramesType
<1>7. stream = Cat(h, FramedAll(ps))
  <2>1. stream = Cat(Header(intent.request), Cat(intent.data, FramedAll(ps)))
    BY <1>2, StreamIs
  <2>2. Cat(<<>>, FramedAll(ps)) = FramedAll(ps)
    BY <1>6, JoinedEmpty
  <2>3. QED
    BY <1>5, <2>1, <2>2
<1>8. PICK t \in Seq(Byte) : stream = Cat(got, t)
  <2>1. Starts(stream, got)
    BY <1>1, GotBegins DEF Begun
  <2>2. QED
    BY <2>1 DEF Starts
<1>9. got = Cat(Cat(h, f), buf)
  BY <1>1 DEF Split
<1>10. f = FramedAll(First(ps, k))
  BY <1>3
<1> HIDE DEF h, f, k, ps
<1>11. Cat(f, Cat(buf, t)) \in Seq(Byte) /\ stream = Cat(h, Cat(f, Cat(buf, t)))
  BY <1>2, <1>6, <1>8, <1>9, Grouped, SMTT(30)
<1>12. FramedAll(ps) = Cat(f, Cat(buf, t))
  BY <1>6, <1>7, <1>11, Cancel
<1>13. /\ k < Len(ps) => Fits(buf, Framed(ps[k + 1]))
       /\ k = Len(ps) => buf = <<>>
  BY <1>2, <1>3, <1>10, <1>12, RestFits
<1>14. QED
  BY <1>2, <1>3, <1>5, <1>13 DEF k, ps

\* What the packet loop may find then.
LEMMA NextDecoded ==
  ASSUME InboundInv, stage = "udp", intent.damages = {}
  PROVE  LET d == DecodeUdp(buf)
             k == Len(packets) IN
         \/ d.res = "more"
         \/ d.res = "ok" /\ k < Len(intent.packets) /\ d.value = intent.packets[k + 1]
<1> DEFINE ps == intent.packets
           k == Len(packets)
           d == DecodeUdp(buf)
<1>1. /\ k \in 0 .. Len(ps) /\ ps \in Seq(Packets)
      /\ k < Len(ps) => Fits(buf, Framed(ps[k + 1]))
      /\ k = Len(ps) => buf = <<>>
  BY NextFits
<1>2. buf \in Seq(Byte)
  BY DEF InboundInv, Kinds
<1>3. CASE k = Len(ps)
  <2>1. Len(buf) = 0 /\ UDP_MIN_SIZE \in Nat \ {0}
    BY <1>1, <1>3, LengthsAssumption DEF UDP_MIN_SIZE
  <2>2. d = NeedMoreData
    BY <2>1 DEF DecodeUdp
  <2>3. QED
    BY <2>2, Answers
<1>4. CASE k < Len(ps)
  <2>1. ps[k + 1] \in Packets /\ Fits(buf, Framed(ps[k + 1])) /\ Framed(ps[k + 1]) \in Seq(Byte)
    <3>1. k \in 0 .. Len(ps) - 1
      BY <1>1, <1>4
    <3>2. ps[k + 1] \in Packets
      BY <1>1, <3>1, FirstNext
    <3>3. QED
      BY <1>1, <1>4, <3>2, FramedAt
  <2> DEFINE p == ps[k + 1]
             g == Framed(p)
  <2>2. p \in Packets /\ Fits(buf, g) /\ g = Framed(p) /\ g \in Seq(Byte)
    BY <2>1
  <2> HIDE DEF p, g
  <2>3. Len(buf) \in Nat /\ Len(g) \in Nat /\ UDP_MIN_SIZE \in Nat
    BY <1>2, <2>2, LengthsAssumption DEF UDP_MIN_SIZE
  <2>4. CASE Len(buf) < UDP_MIN_SIZE \/ Len(buf) < Len(g)
    <3>1. d = NeedMoreData
      BY <1>2, <2>2, <2>4, UdpDecoded
    <3>2. QED
      BY <3>1, Answers
  <2>5. CASE ~(Len(buf) < UDP_MIN_SIZE \/ Len(buf) < Len(g))
    <3>1. Len(buf) >= UDP_MIN_SIZE /\ Len(buf) >= Len(g)
      BY <2>3, <2>5
    <3>2. d = Ok(p, Len(g))
      BY <1>2, <2>2, <3>1, UdpDecoded
    <3> HIDE DEF d
    <3>3. d.res = "ok" /\ d.value = p
      BY <3>2, Answers
    <3>4. QED
      BY <1>4, <3>3 DEF p, d
  <2>6. QED
    BY <2>4, <2>5
<1>5. k = Len(ps) \/ k < Len(ps)
  BY <1>1
<1>6. QED
  BY <1>3, <1>4, <1>5

\* A packet is cut out of what was read.
LEMMA UdpPacket ==
  ASSUME InboundInv, stream' = stream, intent' = intent, UdpNext, DecodeUdp(buf).res = "ok"
  PROVE  Session'
<1> DEFINE d == DecodeUdp(buf)
           p == d.value
           rest == From(buf, d.consumed)
           h == Header(request)
           f == FramedAll(packets)
           g == Framed(p)
<1>1. WsTypes /\ Received /\ Kinds /\ Capacity /\ Decoded /\ Split /\ Answered /\ Reading /\ stage = "udp"
  BY DEF InboundInv, WsInv, UdpNext
<1>2. packets \in Seq(Packets) /\ buf \in Seq(Byte) /\ request \in Requests
  BY <1>1 DEF Kinds, Decoded
<1>3. p \in Packets /\ buf = Cat(g, rest) /\ rest \in Seq(Byte)
  BY <1>2, UdpSound
<1>4. /\ packets' = Append(packets, p) /\ buf' = rest /\ decoding' = (rest # <<>>)
      /\ UNCHANGED <<stage, outcome, cap, request, writes, got, written>>
  BY DEF UdpNext, ws_vars, read_vars, write_vars
<1>5. h \in Seq(Byte) /\ f \in Seq(Byte) /\ g \in Seq(Byte)
  BY <1>2, <1>3, HeaderAt, FramesType, FramedAt
<1>6. FramedAll(packets') = Cat(f, g) /\ packets' \in Seq(Packets)
  BY <1>2, <1>3, <1>4, FramedAppend
<1>7. got = Cat(Cat(h, f), buf)
  BY <1>1 DEF Split
<1> HIDE DEF h, f, g, rest, p, d
<1>8. Cat(h, Cat(f, g)) \in Seq(Byte) /\ got = Cat(Cat(h, Cat(f, g)), rest)
  BY <1>3, <1>5, <1>7, Grouped
<1>9. Kinds'
  BY <1>1, <1>3, <1>4, <1>6 DEF Kinds
<1>10. Reading'
  BY <1>1, <1>4 DEF Reading
<1>11. Capacity'
  BY <1>1, <1>4 DEF Capacity, Fair, HeaderIntact, HeaderLen
<1>12. Decoded'
  BY <1>1, <1>4 DEF Decoded, Fair, HeaderIntact, HeaderLen, Begun
<1>13. Starts(stream, Cat(h, Cat(f, g)))
  <2> DEFINE a == Cat(h, Cat(f, g))
  <2>1. a \in Seq(Byte) /\ got = Cat(a, rest)
    BY <1>8
  <2>2. PICK t \in Seq(Byte) : stream = Cat(got, t)
    <3>1. Starts(stream, got)
      BY <1>1, GotBegins DEF Begun
    <3>2. QED
      BY <3>1 DEF Starts
  <2> HIDE DEF a
  <2>3. stream = Cat(a, Cat(rest, t)) /\ Cat(rest, t) \in Seq(Byte)
    BY <1>3, <2>1, <2>2, Grouped
  <2>4. Starts(stream, a)
    BY <2>3, Zenon DEF Starts
  <2>5. QED
    BY <2>4 DEF a
<1>14. Split'
  <2>1. Cat(Header(request'), FramedAll(packets')) = Cat(h, Cat(f, g))
    BY <1>4, <1>6 DEF h
  <2>2. Starts(stream', Cat(Header(request'), FramedAll(packets')))
    BY <1>13, <2>1
  <2>3. got' = Cat(Cat(Header(request'), FramedAll(packets')), buf')
    BY <1>4, <1>8, <2>1
  <2>4. request'.cmd = UdpAssociate /\ (~decoding' => buf' = <<>>)
    BY <1>1, <1>4 DEF Split
  <2>5. ASSUME intent'.damages = {}
        PROVE  /\ outcome' # "out_of_sync" /\ Len(packets') <= Len(intent'.packets)
               /\ packets' = First(intent'.packets, Len(packets'))
    <3> DEFINE ps == intent.packets
               k == Len(packets)
    <3>0. intent.damages = {}
      BY <2>5
    <3>1. k \in 0 .. Len(ps) /\ packets = First(ps, k) /\ ps \in Seq(Packets)
      BY <1>1, <3>0, NextFits
    <3>2. k < Len(ps) /\ p = ps[k + 1]
      BY <1>1, <3>0, NextDecoded DEF p, d
    <3>3. k \in 0 .. Len(ps) - 1 /\ Len(ps) \in Nat /\ k \in Nat
      BY <3>1, <3>2
    <3>4. First(ps, k + 1) = Append(First(ps, k), ps[k + 1])
      BY <3>1, <3>3, FirstNext
    <3>5. packets' = First(ps, k + 1)
      BY <1>4, <3>1, <3>2, <3>4
    <3>6. Len(packets') = k + 1
      BY <1>2, <1>4
    <3>7. outcome' # "out_of_sync"
      BY <1>1, <1>4 DEF Decoded
    <3>8. QED
      BY <3>3, <3>5, <3>6, <3>7, <3>2
  <2>6. outcome' \in {"ok", "out_of_sync"}
    BY <1>1, <1>4 DEF Decoded
  <2>7. QED
    BY <2>2, <2>3, <2>4, <2>5, <2>6 DEF Split, Begun
<1>15. Answered'
  BY <1>1, <1>4 DEF Answered
<1>16. QED
  BY <1>9, <1>10, <1>11, <1>12, <1>14, <1>15 DEF Session

\* Nothing is cut out: more is needed, or the session is given up.
LEMMA UdpNoPacket ==
  ASSUME InboundInv, stream' = stream, intent' = intent, UdpNext, DecodeUdp(buf).res # "ok"
  PROVE  Session'
<1>1. Kinds /\ Capacity /\ Decoded /\ Split /\ Answered /\ Reading /\ stage = "udp"
  BY DEF InboundInv, UdpNext
<1>2. /\ decoding' = FALSE /\ UNCHANGED <<buf, packets, cap, request, writes, got, written>>
      /\ \/ DecodeUdp(buf).res = "more" /\ UNCHANGED <<stage, outcome>>
         \/ DecodeUdp(buf).res = "invalid" /\ outcome' = "out_of_sync" /\ stage' = "closing"
  BY DEF UdpNext, ws_vars, read_vars, write_vars
<1>3. intent.damages = {} => DecodeUdp(buf).res # "invalid"
  BY <1>1, NextDecoded
<1>4. outcome = "ok"
  BY <1>1 DEF Decoded
<1>5. Kinds'
  BY <1>1, <1>2 DEF Kinds, Stages
<1>6. Reading'
  BY <1>1, <1>2 DEF Reading
<1>7. Capacity'
  BY <1>1, <1>2 DEF Capacity, Fair, HeaderIntact, HeaderLen
<1>8. Decoded'
  BY <1>1, <1>2, <1>4 DEF Decoded, Fair, HeaderIntact, HeaderLen, Begun
<1>9. Split'
  BY <1>1, <1>2, <1>3, <1>4 DEF Split, Begun
<1>10. Answered'
  BY <1>1, <1>2 DEF Answered
<1>11. QED
  BY <1>5, <1>6, <1>7, <1>8, <1>9, <1>10 DEF Session

-----------------------------------------------------------------------------
(* The invariant of the whole.                                             *)

\* It holds before the handshake.
LEMMA InitInv == Init => InboundInv
<1> SUFFICES ASSUME Init PROVE InboundInv
  OBVIOUS
<1> USE DEF Init, WsInit
<1>1. intent \in Intents /\ stream = Encoding(intent) /\ stream \in Seq(Byte) /\ Len(stream) \in Nat
  <2>1. intent \in Intents /\ stream = Encoding(intent)
    OBVIOUS
  <2>2. QED
    BY <2>1, StreamIs
<1>2. intent.writes \in Nat /\ intent.packets \in Seq(Packets)
  BY <1>1, IntentFields
<1>3. /\ BufferSize \in Nat \ {0} /\ MaxIdle \in Nat /\ MaxInFlight \in Nat
  BY MaxesNat
<1>4. WsTypes
  <2>1. /\ <<>> \in Seq(Byte) /\ <<>> \in Seq(Messages) /\ <<>> \in Seq(Cell) /\ <<>> \in Seq(Nat)
        /\ 0 \in 0 .. Len(<<>>)
    OBVIOUS
  <2>2. sent \in 0 .. Len(stream) /\ idles \in 0 .. MaxIdle
    BY <1>1, <1>3
  <2>3. QED
    BY <1>1, <2>1, <2>2, Zenon DEF WsTypes
<1>5. Delivery /\ ReadEnds /\ WritesFine
  BY <1>3 DEF Delivery, ReadEnds, WritesFine
<1>6. Received
  <2>1. Datas(inflight) = <<>>
    <3>1. <<>> \in Seq(Messages)
      OBVIOUS
    <3>2. QED
      BY <3>1, DatasType
  <2>2. Unread = <<>> /\ SubSeq(stream, 1, sent) = <<>>
    BY <1>1 DEF Unread
  <2>3. Cat(<<>>, Cat(<<>>, <<>>)) = <<>>
    BY DEF Cat
  <2>4. QED
    BY <2>1, <2>2, <2>3 DEF Received
<1>7. Handed = <<>>
  BY DEF Handed, Cat
<1>8. InOrder /\ Closing
  <2>1. DataIn(<<>>) = <<>>
    BY OnlyEmpty DEF DataIn
  <2>2. QED
    BY <1>7, <2>1 DEF InOrder, Closing, HasClose, CloseLast
<1>9. Buffered
  <2>1. Pings = 0
    BY OnlyEmpty DEF Pings
  <2>2. QED
    BY <1>3, <2>1 DEF Buffered
<1>10. Kinds
  <2>1. <<>> \in Seq(Byte) /\ <<>> \in Seq(Packets) /\ BufferSize \in Nat /\ 0 \in 0 .. intent.writes
    BY <1>2, <1>3
  <2>2. QED
    BY <1>1, <2>1, Zenon DEF Kinds, Stages
<1>11. Reading
  BY DEF Reading, Fresh
<1>12. Capacity /\ Decoded /\ Answered
  BY DEF Capacity, Decoded, Answered
<1>13. Split
  <2>1. Len(packets) = 0 /\ First(intent.packets, 0) = <<>> /\ Len(intent.packets) \in Nat
    BY <1>2, FirstNext
  <2>2. QED
    BY <2>1 DEF Split
<1>14. QED
  BY <1>4, <1>5, <1>6, <1>8, <1>9, <1>10, <1>11, <1>12, <1>13 DEF InboundInv, WsInv

\* Every step keeps it.
LEMMA NextInv == InboundInv /\ [Next]_vars => InboundInv'
<1> SUFFICES ASSUME InboundInv, [Next]_vars PROVE InboundInv'
  OBVIOUS
<1>1. WsInv' /\ stream' = stream /\ intent' = intent
  BY TransportKept
<1>2. CASE UNCHANGED vars
  <2> USE <1>2 DEF InboundInv, vars, reader_vars, ws_vars, client_vars, read_vars, sink_vars, write_vars
  <2>1. Kinds' /\ Capacity' /\ Answered'
    BY DEF Kinds, Capacity, Fair, HeaderIntact, HeaderLen, Answered
  <2>2. Reading'
    BY DEF Reading, Fresh
  <2>3. Decoded' /\ Split'
    BY DEF Decoded, Fair, HeaderIntact, HeaderLen, Split, Begun
  <2>4. QED
    BY <1>1, <2>1, <2>2, <2>3
<1>3. CASE Next
  <2>1. Session'
    <3>1. CASE ReadRequest
      BY <1>1, <3>1, RequestMore, RequestAnswered
    <3>2. CASE UdpRead
      BY <1>1, <3>2, UdpReadStep
    <3>3. CASE UdpNext
      BY <1>1, <3>3, UdpPacket, UdpNoPacket
    <3>4. CASE SessionWrites
      BY <1>1, <3>4, WritesStep
    <3>5. CASE \/ Accepted \/ Refused \/ RequestCut \/ RequestTimeout \/ RelayRead \/ SessionSkips
               \/ SessionReadEnds \/ SessionFlushes \/ SessionEnds \/ CloseClient \/ Closed \/ ClientActs
      BY <1>1, <1>3, <3>5, QuietActions
    <3>6. QED
      BY <1>3, <3>1, <3>2, <3>3, <3>4, <3>5 DEF Next
  <2>2. QED
    BY <1>1, <2>1 DEF InboundInv, Session
<1>4. QED
  BY <1>2, <1>3

-----------------------------------------------------------------------------
(* What the invariant says of the reader, the session and the transport.   *)

\* The invariant holds in every state.
THEOREM InboundInvariant == Spec => []InboundInv
BY InitInv, NextInv, PTL DEF Spec

\* The length of the client's header.
LEMMA HeaderLenIs ==
  ASSUME Kinds
  PROVE  HeaderLen \in Nat \ {0} /\ MIN_SIZE \in Nat /\ UDP_MIN_SIZE \in Nat \ {0}
<1>1. intent \in Intents /\ stream = Encoding(intent)
  BY DEF Kinds
<1>2. Len(Header(intent.request)) \in Nat /\ Len(Header(intent.request)) # 0
  BY <1>1, StreamIs
<1>3. QED
  BY <1>2, LengthsAssumption, SMTT(30) DEF HeaderLen, MIN_SIZE, AddrAt, CmdAt, UDP_MIN_SIZE

\* A reader that has caught up has read all that was sent.
LEMMA CaughtUpRead ==
  ASSUME WsTypes, Received, CaughtUp
  PROVE  Len(got) = sent /\ sent \in Nat
<1>1. Unread = <<>>
  BY NothingUnread DEF CaughtUp
<1>2. Datas(inflight) = <<>>
  <2>1. inflight \in Seq(Messages) /\ inflight = <<>>
    BY DEF WsTypes, CaughtUp
  <2>2. QED
    BY <2>1, DatasType
<1>3. got \in Seq(Byte) /\ stream \in Seq(Byte) /\ sent \in Nat /\ sent <= Len(stream)
  BY DEF WsTypes
<1>4. Cat(got, Cat(<<>>, <<>>)) = got
  <2>1. Cat(<<>>, <<>>) = <<>>
    BY DEF Cat
  <2>2. QED
    BY <1>3, <2>1, JoinedEmpty
<1>5. got = SubSeq(stream, 1, sent)
  BY <1>1, <1>2, <1>4 DEF Received
<1>6. Len(SubSeq(stream, 1, sent)) = sent
  BY <1>3, Halves
<1>7. QED
  BY <1>3, <1>5, <1>6, Zenon

\* The invariant contains the type invariant.
LEMMA InvTypes == InboundInv => TypeOK
<1> SUFFICES ASSUME InboundInv PROVE TypeOK
  OBVIOUS
<1>1. WsTypes /\ Delivery /\ Kinds
  BY DEF InboundInv, WsInv
<1>2. WsTypeOK
  BY <1>1 DEF WsTypes, Delivery, WsTypeOK
<1>3. buf \in Seq(0 .. 255)
  BY <1>1 DEF Kinds, Byte
<1>4. QED
  BY <1>1, <1>2, <1>3, Zenon DEF TypeOK, Kinds

\* A reader waits for more only if the header is incomplete or too short.
LEMMA ReaderWaits ==
  ASSUME InboundInv, stage = "request", CaughtUp, HeaderIntact
  PROVE  sent < HeaderLen \/ sent < MIN_SIZE
<1>1. WsTypes /\ Received /\ Kinds /\ Reading
  BY DEF InboundInv, WsInv
<1>2. buf = got /\ got \in Seq(Byte) /\ (buf = <<>> \/ Verdict(buf).res = "more")
  BY <1>1 DEF Reading, WsTypes
<1>3. Len(buf) = sent
  BY <1>1, <1>2, CaughtUpRead
<1>4. CASE buf = <<>>
  BY <1>1, <1>3, <1>4, HeaderLenIs
<1>5. CASE Verdict(buf).res = "more"
  <2>1. DecodeRequest(buf).res = "more"
    BY <1>2, <1>5, VerdictIs
  <2>2. intent \in Intents /\ stream = Encoding(intent) /\ intent.request \in Requests
    BY <1>1, IntentFields DEF Kinds
  <2>3. Starts(stream, buf)
    BY <1>1, <1>2, GotBegins DEF Begun
  <2> DEFINE h == Header(intent.request)
  <2>4. h = Header(intent.request) /\ HeaderLen = Len(h) /\ \A d \in intent.damages : d[1] > Len(h)
    BY DEF HeaderLen, HeaderIntact
  <2> HIDE DEF h
  <2>5. Fits(buf, h)
    BY <1>2, <2>2, <2>3, <2>4, HeaderRead
  <2>6. Len(buf) < MIN_SIZE \/ Len(buf) < Len(h)
    BY <1>2, <2>1, <2>2, <2>4, <2>5, HeaderDecoded
  <2>7. QED
    BY <1>3, <2>4, <2>6
<1>6. QED
  BY <1>2, <1>4, <1>5

\* The invariant contains RequestFaithful.
LEMMA InvRequest == InboundInv => RequestFaithful
<1> SUFFICES ASSUME InboundInv PROVE RequestFaithful
  OBVIOUS
<1>1. WsTypes /\ Kinds /\ Decoded
  BY DEF InboundInv, WsInv
<1>2. TypeOK
  BY InvTypes
<1>3. ASSUME outcome \in {"ok", "out_of_sync"}
      PROVE  /\ request \in Requests
             /\ IsPrefix(Header(request) \o request.payload, stream)
             /\ HeaderIntact =>
                  [request EXCEPT !.payload = <<>>] = [intent.request EXCEPT !.payload = <<>>]
  <2>1. /\ request \in Requests /\ Begun(Cat(Header(request), request.payload))
        /\ HeaderIntact => Bare(request) = Bare(intent.request)
    BY <1>1, <1>3 DEF Decoded
  <2> DEFINE a == Cat(Header(request), request.payload)
  <2>2. a \in Seq(Byte)
    <3>1. Header(request) \in Seq(Byte) /\ request.payload \in Seq(Byte)
      BY <2>1, HeaderAt, RequestFields
    <3>2. QED
      BY <3>1, Joined
  <2>3. Starts(stream, a)
    BY <2>1 DEF Begun
  <2> HIDE DEF a
  <2>4. PICK y \in Seq(Byte) : stream = Cat(a, y)
    BY <2>3 DEF Starts
  <2>5. IsPrefix(a, stream)
    BY <2>2, <2>4, Begins
  <2>6. IsPrefix(Header(request) \o request.payload, stream)
    BY <2>5, Zenon DEF a, Cat
  <2>7. HeaderIntact => [request EXCEPT !.payload = <<>>] = [intent.request EXCEPT !.payload = <<>>]
    BY <2>1, Zenon DEF Bare
  <2>8. QED
    BY <2>1, <2>6, <2>7
<1>4. ASSUME outcome \in {"invalid", "too_large"}, HeaderIntact
      PROVE  BufferSize < GreaterOf(HeaderLen, MIN_SIZE)
  <2>1. ~(HeaderLen <= BufferSize /\ MIN_SIZE <= BufferSize)
    BY <1>1, <1>4 DEF Decoded, Fair
  <2>2. HeaderLen \in Nat /\ MIN_SIZE \in Nat /\ BufferSize \in Nat
    BY <1>1, HeaderLenIs, MaxesNat
  <2>3. QED
    BY <2>1, <2>2 DEF GreaterOf
<1>5. QED
  BY <1>2, <1>3, <1>4, ReaderWaits, Zenon DEF RequestFaithful

(* However the client's bytes are cut into messages, the reader of         *)
(* handler.rs finds the request the client meant and its payload, or       *)
(* nothing: RequestFaithful of the run, for all streams and sizes.         *)
THEOREM RequestFaithfulHolds == Spec => []RequestFaithful
BY InboundInvariant, InvRequest, PTL

-----------------------------------------------------------------------------
(* The packets of the UDP session.                                         *)

\* The bytes of the first packets grow with their number.
LEMMA EndsGrow ==
  ASSUME NEW ps \in Seq(Packets)
  PROVE  /\ \A j \in 0 .. Len(ps) : Len(FramedAll(First(ps, j))) \in Nat
         /\ \A i, j \in 0 .. Len(ps) : i <= j => Len(FramedAll(First(ps, i))) <= Len(FramedAll(First(ps, j)))
<1>1. ASSUME NEW j \in 0 .. Len(ps)
      PROVE  First(ps, j) \in Seq(Packets) /\ FramedAll(First(ps, j)) \in Seq(Byte)
             /\ Len(FramedAll(First(ps, j))) \in Nat
  <2>1. First(ps, j) \in Seq(Packets)
    BY FirstNext
  <2>2. FramedAll(First(ps, j)) \in Seq(Byte)
    BY <2>1, FramesType
  <2>3. QED
    BY <2>1, <2>2
<1>2. ASSUME NEW i \in 0 .. Len(ps), NEW j \in 0 .. Len(ps), i <= j
      PROVE  Len(FramedAll(First(ps, i))) <= Len(FramedAll(First(ps, j)))
  <2> DEFINE q == First(ps, j)
  <2>1. q \in Seq(Packets) /\ Len(q) = j /\ First(q, i) = First(ps, i) /\ FramedAll(q) = FramedAll(First(ps, j))
    BY <1>1, <1>2, FirstNext
  <2> HIDE DEF q
  <2>2. i \in 0 .. Len(q)
    BY <1>2, <2>1
  <2>3. PICK y \in Seq(Byte) : FramedAll(q) = Cat(FramedAll(First(q, i)), y)
    BY <2>1, <2>2, AllBegins
  <2> DEFINE a == FramedAll(First(ps, i))
  <2>4. FramedAll(q) = Cat(a, y) /\ a \in Seq(Byte)
    BY <1>1, <2>1, <2>3
  <2> HIDE DEF a
  <2>5. Len(Cat(a, y)) = Len(a) + Len(y) /\ Len(a) \in Nat /\ Len(y) \in Nat
    BY <2>4, Joined
  <2>6. Len(FramedAll(q)) = Len(a) + Len(y)
    BY <2>4, <2>5
  <2>7. Len(a) <= Len(FramedAll(q))
    BY <2>5, <2>6
  <2>8. QED
    BY <2>1, <2>7 DEF a
<1>3. QED
  BY <1>1, <1>2

\* So there is only one number of packets within the first n bytes.
LEMMA WithinIs ==
  ASSUME Kinds, NEW n \in Nat, NEW k \in 0 .. Len(intent.packets),
         Len(FramedAll(First(intent.packets, k))) <= n,
         k < Len(intent.packets) => Len(FramedAll(First(intent.packets, k + 1))) > n
  PROVE  k = PacketsWithin(n)
<1> DEFINE ps == intent.packets
           N == Len(ps)
           End(j) == Len(FramedAll(First(ps, j)))
           P(j) == End(j) <= n /\ (j < N => End(j + 1) > n)
<1>1. ps \in Seq(Packets) /\ N \in Nat
  BY IntentFields DEF Kinds
<1>2. /\ \A j \in 0 .. N : End(j) \in Nat
      /\ \A i, j \in 0 .. N : i <= j => End(i) <= End(j)
  BY <1>1, EndsGrow
<1>3. PacketsWithin(n) = CHOOSE j \in 0 .. N : P(j)
  BY DEF PacketsWithin, First
<1>4. P(k)
  OBVIOUS
<1> HIDE DEF End, ps, N
<1>5. ASSUME NEW j \in 0 .. N, P(j) PROVE j = k
  <2>0. k \in 0 .. N
    BY DEF N, ps
  <2>1. ASSUME j < k PROVE FALSE
    <3>1. j < N /\ j + 1 \in 0 .. N /\ j + 1 <= k
      BY <1>1, <2>0, <2>1
    <3>2. End(j + 1) > n /\ End(j + 1) <= End(k) /\ End(k) <= n
      BY <1>2, <1>4, <1>5, <2>0, <3>1
    <3>3. QED
      BY <1>2, <2>0, <3>1, <3>2
  <2>2. ASSUME k < j PROVE FALSE
    <3>1. k < N /\ k + 1 \in 0 .. N /\ k + 1 <= j
      BY <1>1, <2>0, <2>2
    <3>2. End(k + 1) > n /\ End(k + 1) <= End(j) /\ End(j) <= n
      BY <1>2, <1>4, <1>5, <2>0, <3>1
    <3>3. QED
      BY <1>2, <3>1, <3>2
  <2>3. QED
    BY <1>1, <2>0, <2>1, <2>2
<1> HIDE DEF P
<1>6. k \in 0 .. N
  BY DEF N, ps
<1>7. QED
  BY <1>3, <1>4, <1>5, <1>6, Zenon

\* The session waits only for a packet that is incomplete or too short.
LEMMA SessionWaits ==
  ASSUME InboundInv, stage = "udp", ~decoding, CaughtUp, intent.damages = {}, ~(Len(buf) < UDP_MIN_SIZE)
  PROVE  Len(packets) = PacketsWithin(sent - HeaderLen)
<1> DEFINE ps == intent.packets
           k == Len(packets)
           h == Header(request)
           f == FramedAll(packets)
<1>1. WsTypes /\ Received /\ Kinds /\ Decoded /\ Split
  BY DEF InboundInv, WsInv
<1>2. buf \in Seq(Byte) /\ request \in Requests /\ packets \in Seq(Packets) /\ UDP_MIN_SIZE \in Nat \ {0}
  BY <1>1, HeaderLenIs DEF Kinds, Decoded
<1>3. buf # <<>> /\ DecodeUdp(buf).res = "more"
  BY <1>1, <1>2 DEF Split
<1>4. /\ k \in 0 .. Len(ps) /\ packets = First(ps, k) /\ ps \in Seq(Packets)
      /\ k < Len(ps) => Fits(buf, Framed(ps[k + 1]))
      /\ k = Len(ps) => buf = <<>>
      /\ h = Header(intent.request)
  BY NextFits
<1>5. k < Len(ps) /\ k \in 0 .. Len(ps) - 1 /\ Len(ps) \in Nat
  BY <1>3, <1>4
<1> DEFINE p == ps[k + 1]
           g == Framed(p)
<1>6. p \in Packets /\ First(ps, k + 1) = Append(First(ps, k), p)
  BY <1>4, <1>5, FirstNext
<1>7. Fits(buf, g) /\ g = Framed(p)
  BY <1>4, <1>5
<1>8. g \in Seq(Byte) /\ f \in Seq(Byte) /\ h \in Seq(Byte)
  BY <1>2, <1>6, HeaderAt, FramesType, FramedAt
<1>9. FramedAll(First(ps, k + 1)) = Cat(f, g)
  BY <1>2, <1>4, <1>6, FramedAppend
<1>10. got = Cat(Cat(h, f), buf)
  BY <1>1 DEF Split
<1>11. HeaderLen = Len(h)
  BY <1>4 DEF HeaderLen
<1>12. Len(got) = sent
  BY <1>1, CaughtUpRead
<1>13. f = FramedAll(First(ps, k))
  BY <1>4
<1> HIDE DEF g, f, h, p
<1>14. Len(buf) < Len(g)
  <2>1. ~(Len(buf) >= UDP_MIN_SIZE /\ Len(buf) >= Len(g))
    <3>1. SUFFICES ASSUME Len(buf) >= UDP_MIN_SIZE, Len(buf) >= Len(g) PROVE FALSE
      OBVIOUS
    <3>2. DecodeUdp(buf) = Ok(p, Len(g))
      BY <1>2, <1>6, <1>7, <3>1, UdpDecoded
    <3>3. QED
      BY <1>3, <3>2, Answers
  <2>2. QED
    BY <1>2, <1>8, <2>1
<1>15. Len(Cat(f, g)) = Len(f) + Len(g) /\ Len(f) \in Nat /\ Len(g) \in Nat /\ Len(h) \in Nat
       /\ Len(buf) \in Nat
  <2>1. Len(Cat(f, g)) = Len(f) + Len(g)
    BY <1>8, Joined
  <2>2. QED
    BY <1>2, <1>8, <2>1
<1>16. sent = Len(h) + Len(f) + Len(buf)
  <2> DEFINE a == Cat(h, f)
  <2>1. Len(a) = Len(h) + Len(f) /\ a \in Seq(Byte)
    BY <1>8, Joined
  <2>2. got = Cat(a, buf)
    BY <1>10
  <2> HIDE DEF a
  <2>3. Len(Cat(a, buf)) = Len(a) + Len(buf)
    BY <1>2, <2>1, Joined, ZenonT(40)
  <2>4. QED
    BY <1>12, <2>1, <2>2, <2>3
<1>17. sent - HeaderLen = Len(f) + Len(buf)
  BY <1>11, <1>15, <1>16
<1> DEFINE n == sent - HeaderLen
<1>18. n \in Nat /\ Len(f) <= n /\ Len(Cat(f, g)) > n
  BY <1>14, <1>15, <1>17
<1> HIDE DEF n
<1>19. Len(FramedAll(First(intent.packets, k))) <= n /\ Len(FramedAll(First(intent.packets, k + 1))) > n
  BY <1>9, <1>13, <1>18
<1> HIDE DEF k
<1>20. k = PacketsWithin(n)
  BY <1>1, <1>4, <1>18, <1>19, WithinIs
<1>21. QED
  BY <1>20 DEF k, n

\* A sequence whose elements are in T.
LEMMA Narrowed ==
  ASSUME NEW S, NEW T, NEW w \in Seq(S), \A i \in 1 .. Len(w) : w[i] \in T
  PROVE  w \in Seq(T)
<1>1. Len(w) \in Nat /\ w \in [1 .. Len(w) -> T]
  OBVIOUS
<1>2. QED
  BY <1>1

\* The bytes of a beginning are bytes.
LEMMA BeginningBytes ==
  ASSUME NEW w \in Seq(Nat), NEW o \in Seq(Nat), NEW s \in Seq(Byte), s = Cat(w, o)
  PROVE  w \in Seq(Byte) /\ o \in Seq(Byte)
<1>1. Len(s) = Len(w) + Len(o) /\ Len(w) \in Nat /\ Len(o) \in Nat
      /\ (\A i \in 1 .. Len(w) : s[i] = w[i]) /\ (\A i \in 1 .. Len(o) : s[Len(w) + i] = o[i])
  BY DEF Cat
<1>2. \A i \in 1 .. Len(w) : w[i] \in Byte
  BY <1>1
<1>3. \A i \in 1 .. Len(o) : o[i] \in Byte
  BY <1>1
<1>4. w \in Seq(Byte)
  BY <1>2, Narrowed, Zenon
<1>5. o \in Seq(Byte)
  BY <1>3, Narrowed, Zenon
<1>6. QED
  BY <1>4, <1>5

\* What the client can decode of the replies is the first of them.
LEMMA ReplyIntact ==
  ASSUME InboundInv, stage = "udp", DecodeUdp(DataIn(wire)).res = "ok"
  PROVE  DecodeUdp(DataIn(wire)).value = Replies[1]
<1> DEFINE w == DataIn(wire)
           o == DataIn(out_buffer)
           f == Framed(Replies[1])
<1>1. WsTypes /\ InOrder /\ Kinds /\ Answered
  BY DEF InboundInv, WsInv
<1>2. w \in Seq(Nat) /\ o \in Seq(Nat) /\ written = Cat(w, o)
  BY <1>1, OnWireFirst
<1>3. w # <<>>
  <2>1. UDP_MIN_SIZE \in Nat \ {0}
    BY <1>1, HeaderLenIs
  <2>2. DecodeUdp(<<>>) = NeedMoreData
    BY <2>1 DEF DecodeUdp
  <2>3. QED
    BY <2>2, Answers
<1> HIDE DEF w, o
<1>4. written # <<>>
  <2>1. Len(Cat(w, o)) = Len(w) + Len(o) /\ Len(w) \in Nat /\ Len(o) \in Nat
    BY <1>2, Joined
  <2>2. Len(w) # 0
    BY <1>2, <1>3
  <2>3. QED
    BY <1>2, <2>1, <2>2
<1>5. Replies # <<>> /\ Starts(written, f)
  BY <1>1, <1>4 DEF Answered
<1>6. Replies[1] \in Packets /\ f = Framed(Replies[1])
  BY <1>5, RepliesAssumption
<1>7. f \in Seq(Byte)
  BY <1>6, FramedAt
<1> HIDE DEF f
<1>8. PICK y \in Seq(Byte) : written = Cat(f, y)
  BY <1>5 DEF Starts
<1>9. written \in Seq(Byte)
  BY <1>7, <1>8, Grouped
<1>10. w \in Seq(Byte) /\ o \in Seq(Byte)
  BY <1>2, <1>9, BeginningBytes
<1>11. Fits(w, f)
  BY <1>2, <1>7, <1>8, <1>10, CutFits
<1>12. CASE Len(w) < UDP_MIN_SIZE \/ Len(w) < Len(f)
  <2>1. DecodeUdp(w) = NeedMoreData
    BY <1>6, <1>10, <1>11, <1>12, UdpDecoded
  <2>2. QED
    BY <2>1, Answers DEF w
<1>13. CASE ~(Len(w) < UDP_MIN_SIZE \/ Len(w) < Len(f))
  <2>1. Len(w) >= UDP_MIN_SIZE /\ Len(w) >= Len(f)
    <3>1. Len(w) \in Nat /\ Len(f) \in Nat /\ UDP_MIN_SIZE \in Nat
      BY <1>1, <1>7, <1>10, HeaderLenIs
    <3>2. QED
      BY <1>13, <3>1
  <2>2. DecodeUdp(w) = Ok(Replies[1], Len(f))
    BY <1>6, <1>10, <1>11, <2>1, UdpDecoded
  <2>3. QED
    BY <2>2, Answers DEF w
<1>14. QED
  BY <1>12, <1>13

\* The invariant contains PacketsIntact.
LEMMA InvPackets == InboundInv => PacketsIntact
<1> SUFFICES ASSUME InboundInv PROVE PacketsIntact
  OBVIOUS
<1>1. Kinds /\ Split /\ Decoded
  BY DEF InboundInv
<1>2. packets \in Seq(Packets) /\ intent.packets \in Seq(Packets)
  BY <1>1, IntentFields DEF Kinds
<1>3. ASSUME packets # <<>>
      PROVE  IsPrefix(Header(request) \o FramedAll(packets), stream)
  <2> DEFINE a == Cat(Header(request), FramedAll(packets))
  <2>1. Starts(stream, a)
    BY <1>1, <1>3 DEF Split, Begun
  <2>2. PICK y \in Seq(Byte) : stream = Cat(a, y)
    BY <2>1, Zenon DEF Starts
  <2>3. a \in Seq(Byte)
    <3>1. request \in Requests
      BY <1>1, <1>3 DEF Split, Decoded
    <3>2. Header(request) \in Seq(Byte) /\ FramedAll(packets) \in Seq(Byte)
      BY <1>2, <3>1, HeaderAt, FramesType
    <3>3. QED
      BY <3>2, Joined
  <2> HIDE DEF a
  <2>4. IsPrefix(a, stream)
    BY <2>2, <2>3, Begins
  <2>5. QED
    BY <2>4, Zenon DEF a, Cat
<1>4. ASSUME intent.damages = {} PROVE IsPrefix(packets, intent.packets)
  <2> DEFINE ps == intent.packets
             n == Len(packets)
  <2>1. n \in Nat /\ n <= Len(ps) /\ packets = SubSeq(ps, 1, n) /\ ps \in Seq(Packets)
    BY <1>1, <1>2, <1>4 DEF Split, First
  <2>2. ps = Cat(packets, SubSeq(ps, n + 1, Len(ps))) /\ SubSeq(ps, n + 1, Len(ps)) \in Seq(Packets)
    BY <2>1, Halves
  <2> DEFINE y == SubSeq(ps, n + 1, Len(ps))
  <2>3. ps = Cat(packets, y) /\ y \in Seq(Packets)
    BY <2>2
  <2> HIDE DEF y, ps
  <2>4. IsPrefix(packets, ps)
    BY <1>2, <2>3, Begins
  <2>5. QED
    BY <2>4 DEF ps
<1>5. outcome = "out_of_sync" => intent.damages # {}
  BY <1>1 DEF Split
<1>6. stage = "udp" /\ ~decoding /\ CaughtUp /\ intent.damages = {} =>
        Len(packets) = PacketsWithin(sent - HeaderLen) \/ Len(buf) < UDP_MIN_SIZE
  BY SessionWaits, Zenon
<1>7. stage = "udp" /\ DecodeUdp(DataIn(wire)).res = "ok" => DecodeUdp(DataIn(wire)).value = Replies[1]
  BY ReplyIntact, Zenon
<1>8. QED
  BY <1>3, <1>4, <1>5, <1>6, <1>7, Zenon DEF PacketsIntact

(* The packets of a UDP session are those of its client, in order, however *)
(* its messages are cut, and a reply the client can decode is the one that *)
(* was sent: PacketsIntact of the run, for all streams, packets and sizes. *)
THEOREM PacketsIntactHolds == Spec => []PacketsIntact
BY InboundInvariant, InvPackets, PTL

-----------------------------------------------------------------------------
(* The transport's promises.                                               *)

\* The invariant contains ShutdownSendsClose.
LEMMA InvShutdown == InboundInv => ShutdownSendsClose
<1> SUFFICES ASSUME InboundInv, shut = "ok"
             PROVE  (CLOSE \in Range(wire) \/ read_end = "error") /\ DataIn(wire) = written
  BY DEF ShutdownSendsClose
<1>1. WsTypes /\ InOrder /\ Closing
  BY DEF InboundInv, WsInv
<1>2. out_buffer \in Seq(Control) /\ (HasClose(wire) \/ read_end = "error") /\ wire \in Seq(Cell)
  BY <1>1 DEF Closing, WsTypes
<1>3. HasClose(wire) => CLOSE \in Range(wire)
  BY <1>2 DEF HasClose, Range
<1>4. DataIn(out_buffer) = <<>>
  BY <1>2, Controls, OnlyNone DEF DataIn
<1>5. DataIn(wire) \in Seq(Nat) /\ written = Cat(DataIn(wire), DataIn(out_buffer))
  BY <1>1, OnWireFirst
<1>6. Cat(DataIn(wire), <<>>) = DataIn(wire)
  BY <1>5, JoinedEmpty
<1>7. QED
  BY <1>2, <1>3, <1>4, <1>5, <1>6

(* A shutdown that succeeds has sent everything written and a Close.       *)
THEOREM ShutdownSendsCloseHolds == Spec => []ShutdownSendsClose
BY InboundInvariant, InvShutdown, PTL

\* The invariant contains WritesSurviveBackpressure.
LEMMA InvWrites == InboundInv => WritesSurviveBackpressure
BY DEF InboundInv, WsInv, WritesFine, WritesSurviveBackpressure

(* A client that does not read, and whose Pings are at most MaxIdle, never *)
(* makes a write fail.                                                     *)
THEOREM WritesSurviveBackpressureHolds == Spec => []WritesSurviveBackpressure
BY InboundInvariant, InvWrites, PTL

-----------------------------------------------------------------------------
(* Each direction of the transport implements a BytePipe.                  *)

\* What a concatenation begins with, as the pipes say it.
LEMMA PipePrefix ==
  ASSUME NEW S, NEW a \in Seq(S), NEW x \in Seq(S), NEW b, b = Cat(a, x)
  PROVE  Inward!IsPrefix(a, b) /\ Outward!IsPrefix(a, b)
<1>1. IsPrefix(a, b)
  BY Begins
<1>2. QED
  BY <1>1 DEF IsPrefix, Inward!IsPrefix, Outward!IsPrefix

\* A Close frame among what the client can read.
LEMMA CloseInRange ==
  ASSUME NEW s \in Seq(Cell)
  PROVE  CLOSE \in Range(s) <=> HasClose(s)
BY DEF Range, HasClose

\* What the pipes show in every state.
Piped ==
  /\ Sent \in Seq(Byte) /\ got \in Seq(Byte) /\ \E x \in Seq(Byte) : Sent = Cat(got, x)
  /\ wire \in Seq(Cell) /\ written \in Seq(Nat) /\ DataIn(wire) \in Seq(Nat)
  /\ \E x \in Seq(Nat) : written = Cat(DataIn(wire), x)
  /\ OutEnded => DataIn(wire) = written /\ OutClosed

\* The invariant says so.
LEMMA InvPiped == InboundInv => Piped
<1> SUFFICES ASSUME InboundInv PROVE Piped
  OBVIOUS
<1>1. WsTypes /\ Received /\ InOrder
  BY DEF InboundInv, WsInv
<1>2. Sent \in Seq(Byte) /\ got \in Seq(Byte)
  BY <1>1, SentType
<1>3. \E x \in Seq(Byte) : Sent = Cat(got, x)
  <2>1. Unread \in Seq(Byte) /\ Datas(inflight) \in Seq(Byte)
    BY <1>1, RestType
  <2>2. Cat(Unread, Datas(inflight)) \in Seq(Byte)
    BY <2>1, Grouped
  <2>3. Sent = Cat(got, Cat(Unread, Datas(inflight)))
    BY <1>1 DEF Received, Sent
  <2>4. QED
    BY <2>2, <2>3, Zenon
<1>4. /\ DataIn(wire) \in Seq(Nat) /\ DataIn(out_buffer) \in Seq(Nat)
      /\ written = Cat(DataIn(wire), DataIn(out_buffer))
      /\ HasClose(wire) => DataIn(wire) = written /\ OutClosed
  BY <1>1, OnWireFirst
<1>5. wire \in Seq(Cell) /\ written \in Seq(Nat)
  BY <1>1 DEF WsTypes
<1>6. QED
  BY <1>2, <1>3, <1>4, <1>5, Zenon DEF Piped, OutEnded

\* The client's bytes as a pipe.
LEMMA InwardStep ==
  ASSUME InboundInv, Piped, Piped', [Next]_vars
  PROVE  [Inward!Next]_(Inward!vars)
<1>1. CASE UNCHANGED ws_vars
  BY <1>1 DEF ws_vars, client_vars, read_vars, Inward!vars
<1>2. CASE InCloses
  BY <1>2 DEF InCloses, InClosed, InEnded, Sent, Inward!Next, Inward!Close
<1>3. CASE InMoves
  <2>1. Inward!IsPrefix(Sent, Sent')
    <3>1. PICK x \in Seq(Byte) : Sent' = Cat(Sent, x)
      BY <1>3 DEF InMoves
    <3>2. Sent \in Seq(Byte)
      BY DEF Piped
    <3>3. QED
      BY <3>1, <3>2, PipePrefix
  <2>2. Inward!IsPrefix(got, got')
    <3>1. PICK x \in Seq(Byte) : got' = Cat(got, x)
      BY <1>3 DEF InMoves
    <3>2. got \in Seq(Byte)
      BY DEF Piped
    <3>3. QED
      BY <3>1, <3>2, PipePrefix
  <2>3. Inward!IsPrefix(got', Sent')
    <3>1. got' \in Seq(Byte) /\ \E x \in Seq(Byte) : Sent' = Cat(got', x)
      BY DEF Piped, Cat
    <3>2. PICK x \in Seq(Byte) : Sent' = Cat(got', x)
      BY <3>1
    <3>3. QED
      BY <3>1, <3>2, PipePrefix
  <2>4. /\ InClosed => Sent' = Sent
        /\ InEnded => got' = got /\ InEnded'
        /\ InEnded' /\ ~InEnded => InClosed /\ got' = Sent'
        /\ InClosed' = InClosed
    BY <1>3 DEF InMoves
  <2>5. Inward!Transfer
    BY <2>1, <2>2, <2>3, <2>4 DEF Inward!Transfer, Sent, InClosed, InEnded
  <2>6. QED
    BY <2>5 DEF Inward!Next
<1>4. QED
  <2>1. WsStep => InCloses \/ InMoves
    BY InwardSteps DEF InboundInv
  <2>2. WsStep \/ UNCHANGED ws_vars
    BY StepIsWs DEF vars
  <2>3. QED
    BY <1>1, <1>2, <1>3, <2>1, <2>2

\* The server's bytes as a pipe.
LEMMA OutwardStep ==
  ASSUME InboundInv, Piped, Piped', [Next]_vars
  PROVE  [Outward!Next]_(Outward!vars)
<1>0. /\ wire \in Seq(Cell) /\ wire' \in Seq(Cell) /\ written \in Seq(Nat)
      /\ DataIn(wire) \in Seq(Nat) /\ DataIn(wire') \in Seq(Nat)
  BY DEF Piped, DataIn, Only
<1>01. (OutEnded <=> CLOSE \in Range(wire)) /\ (OutEnded' <=> CLOSE \in Range(wire'))
  <2>1. (HasClose(wire) <=> CLOSE \in Range(wire)) /\ (HasClose(wire') <=> CLOSE \in Range(wire'))
    BY <1>0, CloseInRange
  <2>2. QED
    BY <2>1 DEF OutEnded, HasClose
<1>1. CASE UNCHANGED ws_vars
  BY <1>1 DEF ws_vars, read_vars, sink_vars, write_vars, Outward!vars
<1>2. CASE OutCloses
  BY <1>2 DEF OutCloses, OutClosed, Outward!Next, Outward!Close
<1>3. CASE OutMoves
  <2>0. PICK x \in Seq(Cell) : wire' = Cat(wire, x)
    BY <1>3 DEF OutMoves
  <2>1. Outward!IsPrefix(written, written')
    <3>1. PICK y \in Seq(Nat) : written' = Cat(written, y)
      BY <1>3 DEF OutMoves
    <3>2. QED
      BY <1>0, <3>1, PipePrefix
  <2>2. Outward!IsPrefix(DataIn(wire), DataIn(wire'))
    <3>1. DataIn(wire') = Cat(DataIn(wire), DataIn(x))
      BY <1>0, <2>0, OnlyConcat DEF DataIn, Cat
    <3>2. DataIn(x) \in Seq(Nat)
      BY OnlyType DEF DataIn
    <3>3. QED
      BY <1>0, <3>1, <3>2, PipePrefix
  <2>3. /\ \E y \in Seq(Nat) : written' = Cat(DataIn(wire'), y)
        /\ OutEnded' => DataIn(wire') = written' /\ OutClosed'
    BY DEF Piped, DataIn, Only, Cat
  <2>4. Outward!IsPrefix(DataIn(wire'), written')
    <3>1. PICK y \in Seq(Nat) : written' = Cat(DataIn(wire'), y)
      BY <2>3
    <3>2. QED
      BY <1>0, <3>1, PipePrefix
  <2>5. (OutClosed => written' = written) /\ OutClosed' = OutClosed
    BY <1>3 DEF OutMoves
  <2>6. OutEnded => OutEnded' /\ DataIn(wire') = DataIn(wire)
    <3>1. SUFFICES ASSUME OutEnded PROVE OutEnded' /\ DataIn(wire') = DataIn(wire)
      OBVIOUS
    <3>2. HasClose(wire')
      BY <1>0, <2>0, <3>1, CloseIn DEF OutEnded
    <3>3. OutEnded'
      BY <3>2 DEF OutEnded, HasClose
    <3>4. DataIn(wire) = written /\ OutClosed
      BY <3>1 DEF Piped
    <3>5. QED
      BY <2>3, <2>5, <3>3, <3>4
  <2>7. OutEnded' /\ ~OutEnded => OutClosed /\ DataIn(wire') = written'
    BY <2>3, <2>5
  <2>8. Outward!Transfer
    BY <1>01, <2>1, <2>2, <2>4, <2>5, <2>6, <2>7 DEF Outward!Transfer, OutClosed
  <2>9. QED
    BY <2>8 DEF Outward!Next
<1>4. QED
  <2>1. WsStep => OutCloses \/ OutMoves
    BY OutwardSteps DEF InboundInv
  <2>2. WsStep \/ UNCHANGED ws_vars
    BY StepIsWs DEF vars
  <2>3. QED
    BY <1>1, <1>2, <1>3, <2>1, <2>2

(* The WebSocket transport implements two BytePipes, one per direction,    *)
(* for every stream, cut and size: WsPipes of the run (ws.rs:146-307).     *)
THEOREM WsImplementsPipes == Spec => WsPipes
<1>1. ASSUME Init PROVE Inward!Init /\ Outward!Init
  <2>1. DataIn(wire) = <<>> /\ CLOSE \notin Range(wire)
    BY <1>1, OnlyEmpty DEF Init, WsInit, DataIn, Range
  <2>2. QED
    BY <1>1, <2>1 DEF Init, WsInit, Inward!Init, Outward!Init
<1>2. QED
  BY <1>1, InboundInvariant, InvPiped, InwardStep, OutwardStep, PTL
     DEF Spec, WsPipes, Inward!Spec, Outward!Spec
=============================================================================
