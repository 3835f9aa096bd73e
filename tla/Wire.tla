-------------------------------- MODULE Wire ---------------------------------
(* What cloudflared and the edge write into datagrams and headers, and how the
   other end reads it: datagrams v2, which end in their type, and v3, which begin
   with it; the headers of a request folded into one; the ICMP packets inside a
   datagram, which lose a hop.  A datagram is a sequence of cells; a field has
   as many cells as it takes to see one read in the place of another.        *)
EXTENDS Integers, Sequences, FiniteSets

CONSTANTS
    Ids,         \* session and request ids
    Hints,       \* whole seconds of the time a session may be idle
    Words,       \* what names and values of headers are in base64
    MaxHeaders,  \* bound: headers of a request
    MaxLen,      \* bound: cells of a payload
    Mtu,         \* maxDatagramPayloadSize, and maxDatagramPayloadLen of v3
    FrameSize,   \* MaxDatagramFrameSize
    IdLen,       \* sessionIDLen, datagramRequestIdLen
    TraceLen     \* IdentityLength

\* base64 has neither ":" nor ";"
Colon == 2
Semicolon == 3

ASSUME WireAssumption ==
    /\ Ids \subseteq Nat /\ Hints \subseteq Nat /\ Words \subseteq Seq(Nat \ {Colon, Semicolon})
    /\ MaxHeaders \in Nat /\ MaxLen \in Nat /\ Mtu \in Nat /\ FrameSize \in Nat
    /\ IdLen \in Nat \ {0} /\ TraceLen \in Nat
    /\ Mtu + IdLen <= FrameSize /\ Mtu >= 4

VARIABLES
    message,     \* what is sent
    datagram,    \* what is written, or <<>> when it is refused
    got          \* what was read, or Unread

wireVars == <<message, datagram, got>>

Unread == [kind |-> "nothing"]
Payload(n) == [k \in 1..n |-> 100 + k]
Id(i) == [k \in 1..IdLen |-> i]
Trace == [k \in 1..TraceLen |-> 50]
Lens == 0..MaxLen

TargetAddresses == {[v6 |-> FALSE, cells |-> <<70>>], [v6 |-> TRUE, cells |-> <<80, 81>>]}
ResponseTypes == {0, 1, 2, 3, 255}

V2Messages ==
    [kind : {"session"}, id : Ids, n : Lens]
      \cup [kind : {"ip", "ipWithTrace", "span"}, n : Lens]
V3Messages ==
    [kind : {"registration"}, id : Ids, dest : TargetAddresses, port : {60}, traced : BOOLEAN,
     idle : [seconds : Hints, fraction : BOOLEAN], n : Lens]
      \cup [kind : {"payload"}, id : Ids, n : Lens]
      \cup [kind : {"icmp"}, n : Lens]
      \cup [kind : {"response"}, id : Ids, type : ResponseTypes, n : Lens]

\* A header has a name and values; a name may come more than once.
Headers == [name : Words, value : Words]
HeaderLists == UNION {[1..n -> Headers] : n \in 0..MaxHeaders}
HeaderMessages == [kind : {"headers"}, list : HeaderLists]

\* an IP packet that carries an ICMP message, as the edge puts it in a datagram
Hops == [kind : {"hop"}, v6 : BOOLEAN, ttl : 0..2, n : Lens]

WireMessages == V2Messages \cup V3Messages \cup HeaderMessages \cup Hops

-----------------------------------------------------------------------------
(* Datagrams v2.                                                             *)
SuffixMetadata(b, metadata) == IF Len(b) + Len(metadata) > FrameSize THEN <<>> ELSE b \o metadata
SuffixType(b, type) == IF Len(b) + 1 > FrameSize THEN <<>> ELSE Append(b, type)

SendToSession(m) ==
    IF m.n > Mtu THEN <<>> ELSE SuffixType(SuffixMetadata(Payload(m.n), Id(m.id)), 0)

\* a packet that is refused with its metadata is not sent with its type alone
SendPacket(m) ==
    LET metadata == IF m.kind = "ip" THEN <<>> ELSE Trace
        type == CASE m.kind = "ip" -> 1 [] m.kind = "ipWithTrace" -> 2 [] OTHER -> 3
    IN  IF m.n + Len(metadata) > FrameSize THEN <<>>
        ELSE SuffixType(SuffixMetadata(Payload(m.n), metadata), type)

ExtractSessionID(b) ==
    IF Len(b) < IdLen THEN Unread
    ELSE [kind |-> "session", id |-> b[Len(b)], n |-> Len(b) - IdLen]
ExtractTracingIdentity(kind, b) ==
    IF Len(b) < TraceLen THEN Unread ELSE [kind |-> kind, n |-> Len(b) - TraceLen]

DemuxV2(d) ==
    LET type == d[Len(d)]
        b == SubSeq(d, 1, Len(d) - 1)
    IN  CASE type = 0 -> ExtractSessionID(b)
          [] type = 1 -> [kind |-> "ip", n |-> Len(b)]
          [] type = 2 -> ExtractTracingIdentity("ipWithTrace", b)
          [] type = 3 -> ExtractTracingIdentity("span", b)
          [] OTHER -> Unread

-----------------------------------------------------------------------------
(* Datagrams v3.                                                             *)
V4Header == 4 + IdLen + 1
V6Header == V4Header + 1
Bit(b) == IF b THEN 1 ELSE 0

\* a uint16 of whole seconds
IdleHint(idle) == idle.seconds % 65536

MarshalRegistration(m) ==
    LET header == IF m.dest.v6 THEN V6Header ELSE V4Header
        flags == Bit(m.dest.v6) + 2 * Bit(m.traced) + 4 * Bit(m.n > 0)
    IN  IF m.n > Mtu + header THEN <<>>
        ELSE <<0, flags, m.port, IdleHint(m.idle)>> \o Id(m.id) \o m.dest.cells \o Payload(m.n)

\* a payload behind the header of the other family begins too late
UnmarshalRegistrationV6(d) ==
    [kind |-> "registration", id |-> d[5], port |-> d[3], idle |-> [seconds |-> d[4], fraction |-> FALSE],
     traced |-> (d[2] \div 2) % 2 = 1,
     dest |-> [v6 |-> d[2] % 2 = 1, cells |-> SubSeq(d, 5 + IdLen, IF d[2] % 2 = 1 THEN V6Header ELSE V4Header)],
     n |-> IF d[2] \div 4 = 1 /\ Len(d) >= V6Header THEN Len(d) - V6Header ELSE 0]

UnmarshalRegistration(d) ==
    LET flags == d[2]
        v6 == flags % 2 = 1
        header == IF v6 THEN V6Header ELSE V4Header
    IN  [kind |-> "registration", id |-> d[5], port |-> d[3], idle |-> [seconds |-> d[4], fraction |-> FALSE],
         traced |-> (flags \div 2) % 2 = 1,
         dest |-> [v6 |-> v6, cells |-> SubSeq(d, 5 + IdLen, header)],
         n |-> IF flags \div 4 = 1 /\ Len(d) >= header THEN Len(d) - header ELSE 0]

\* the session writes no more than the transport takes
MarshalPayload(m) == IF m.n > Mtu THEN <<>> ELSE <<1>> \o Id(m.id) \o Payload(m.n)
UnmarshalPayload(d) ==
    IF Len(d) < 1 + IdLen \/ Len(d) > Mtu + 1 + IdLen THEN Unread
    ELSE [kind |-> "payload", id |-> d[2], n |-> Len(d) - 1 - IdLen]

ResponseHeader == 3 + IdLen
MarshalResponse(m) ==
    IF m.n > Mtu - ResponseHeader THEN <<>>
    ELSE <<3, m.type>> \o Id(m.id) \o <<m.n>> \o Payload(m.n)
UnmarshalResponse(d) ==
    LET n == d[ResponseHeader]
    IN  IF Len(d) < ResponseHeader \/ n > Mtu - ResponseHeader \/ Len(d) - ResponseHeader < n
        THEN Unread
        ELSE [kind |-> "response", id |-> d[3], type |-> d[2],
              n |-> IF n > 0 THEN Len(d) - ResponseHeader ELSE 0]

MarshalICMP(m) == IF m.n > Mtu \/ m.n = 0 THEN <<>> ELSE <<2>> \o Payload(m.n)
UnmarshalICMP(d) ==
    IF Len(d) - 1 > Mtu \/ Len(d) = 1 THEN Unread ELSE [kind |-> "icmp", n |-> Len(d) - 1]

DemuxV3(d) ==
    CASE d[1] = 0 -> UnmarshalRegistration(d)
      [] d[1] = 1 -> UnmarshalPayload(d)
      [] d[1] = 2 -> UnmarshalICMP(d)
      [] d[1] = 3 -> UnmarshalResponse(d)
      [] OTHER -> Unread

-----------------------------------------------------------------------------
(* Headers: pairs of two words, which have neither ":" nor ";".              *)
Pair(h) == h.name \o <<Colon>> \o h.value

\* the loop over the headers, which writes ";" unless the builder is empty
SerializeHeaders[list \in HeaderLists] ==
    IF list = <<>> THEN <<>>
    ELSE LET s == SerializeHeaders[SubSeq(list, 1, Len(list) - 1)]
         IN  (IF s = <<>> THEN <<>> ELSE s \o <<Semicolon>>) \o Pair(list[Len(list)])

\* the numbers of a finite set, the least one first
InOrder(numbers) ==
    CHOOSE s \in [1..Cardinality(numbers) -> numbers] :
        \A i, j \in 1..Cardinality(numbers) : i < j => s[i] < s[j]

\* strings.Split: the positions of the separator, and what is between them
Split(s, c) ==
    LET cuts == InOrder({k \in 1..Len(s) : s[k] = c} \cup {0, Len(s) + 1})
    IN  [k \in 1..Len(cuts) - 1 |-> SubSeq(s, cuts[k] + 1, cuts[k + 1] - 1)]

\* empty pairs are skipped
DeserializeHeaders(s) ==
    LET pairs == Split(s, Semicolon)
        full == InOrder({k \in 1..Len(pairs) : pairs[k] # <<>>})
        words == [k \in 1..Len(full) |-> Split(pairs[full[k]], Colon)]
    IN  IF \E k \in 1..Len(words) : Len(words[k]) # 2 THEN Unread
        ELSE [kind |-> "headers",
              list |-> [k \in 1..Len(words) |-> [name |-> words[k][1], value |-> words[k][2]]]]

-----------------------------------------------------------------------------
(* One hop.  The error is sent to where the packet came from; behind its own two
   headers it has as much of the packet as fits the least MTU of the family.  *)
MinMtu(v6) == IF v6 THEN Mtu ELSE Mtu - 2
OwnHeaders(v6) == IF v6 THEN 3 ELSE 2
OriginalDatagram(v6, n) ==
    LET bound == MinMtu(v6) - OwnHeaders(v6) IN IF n > bound THEN bound ELSE n
TTLExceeded(p) ==
    [kind |-> "exceeded", v6 |-> p.v6, ttl |-> 255, quoted |-> OriginalDatagram(p.v6, p.n),
     n |-> OwnHeaders(p.v6) + OriginalDatagram(p.v6, p.n)]
Hop(p) == IF p.ttl <= 1 THEN TTLExceeded(p) ELSE [p EXCEPT !.ttl = @ - 1]

-----------------------------------------------------------------------------
WireInit == message \in WireMessages /\ datagram = <<>> /\ got = Unread

SendV2 ==
    /\ message \in V2Messages
    /\ datagram' = IF message.kind = "session" THEN SendToSession(message) ELSE SendPacket(message)

SendV3 ==
    /\ message \in V3Messages
    /\ datagram' = CASE message.kind = "registration" -> MarshalRegistration(message)
                 [] message.kind = "payload" -> MarshalPayload(message)
                 [] message.kind = "response" -> MarshalResponse(message)
                 [] OTHER -> MarshalICMP(message)

SendHeaders == message \in HeaderMessages /\ datagram' = SerializeHeaders[message.list]

Send == datagram = <<>> /\ got = Unread /\ (SendV2 \/ SendV3 \/ SendHeaders) /\ UNCHANGED <<message, got>>

Receive ==
    /\ datagram # <<>> /\ got = Unread /\ UNCHANGED <<message, datagram>>
    /\ got' = CASE message \in V2Messages -> DemuxV2(datagram)
                [] message \in V3Messages -> DemuxV3(datagram)
                [] OTHER -> DeserializeHeaders(datagram)

Route == message \in Hops /\ got = Unread /\ got' = Hop(message) /\ UNCHANGED <<message, datagram>>

WireNext == Send \/ Receive \/ Route
WireSpec == WireInit /\ [][WireNext]_wireVars

WireTypeOK == message \in WireMessages /\ datagram \in Seq(Nat)

\* A hint loses its fraction, and what a uint16 does not hold.
ReadAs(m, g) ==
    \/ m.kind # "registration" /\ g = m
    \/ /\ m.kind = "registration" /\ g = [m EXCEPT !.idle = g.idle] /\ ~g.idle.fraction
       /\ m.idle.seconds < 65536 => g.idle.seconds = m.idle.seconds

(* What one end agrees to write the other end reads as it was, whatever its size,
   its id and its family, but for the hint of a registration, and no datagram of v2
   is larger than a frame takes; a packet that goes on has hops left, and the error
   for one that does not fits the least MTU and quotes the whole packet unless that
   fills it (SendToSession, SendPacket, MarshalBinary, UnmarshalBinary,
   SerializeHeaders, writeICMPPacket, NewICMPTTLExceedPacket).                *)
ReadAsWritten ==
    /\ got # Unread /\ message \notin Hops => ReadAs(message, got)
    /\ message \in V2Messages => Len(datagram) <= FrameSize
    /\ got # Unread /\ message \in Hops =>
          /\ got.kind = "hop" => got.ttl > 0 /\ got.n = message.n
          /\ got.kind = "exceeded" =>
                /\ got.n <= MinMtu(message.v6)
                /\ got.quoted = message.n \/ got.n = MinMtu(message.v6)
=============================================================================
