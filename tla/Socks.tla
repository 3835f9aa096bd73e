------------------------------- MODULE Socks -------------------------------
(***************************************************************************)
(* socks/: one connection of the SOCKS5 proxy that runs at the end of a    *)
(* tunnel, over a websocket (ingress/origin_connection.go).  The client    *)
(* may send the next message before it has the answer to the last, and a   *)
(* buffered reader takes what has come.  The destination is judged by the  *)
(* IP rules (ipaccess/access.go) and then dialled; a name may come to mean *)
(* another address in between.                                             *)
(***************************************************************************)
EXTENDS Naturals, Sequences

CONSTANTS
    IPs, TargetPorts,
    Policies,  \* sequences of rules to consider; Nothing for no policy
    Data,      \* what the client sends once it is connected, a sequence
    Answers,   \* bound: messages of the target
    Nothing

\* Data is a sequence, and a target is not the sign that there is none.
ASSUME SocksAssumption ==
    /\ Data \in Seq({Data[i] : i \in DOMAIN Data})
    /\ Nothing \notin [ip : IPs \cup {Nothing}, port : TargetPorts]

VARIABLES
    mode,      \* "net", which dials, or "conn", which is given a connection
    policy,    \* StandardRequestHandler.accessPolicy
    hello,     \* what the client says
    eager,     \* whether it says it before it is answered
    sent,      \* messages the client has sent
    inbox,     \* what has come and was not read
    buffered,  \* bufConn
    phase,     \* where the server is
    dest,      \* Request.DestAddr
    dns,       \* the address the name means at this moment, Nothing if unknown
    dialled,   \* the address and port the target has, Nothing before
    replies,   \* what the client was answered
    up, down,  \* what the target and the client got once they were connected
    copies     \* io.Copy that run: "up", "down"

socksVars == <<mode, policy, hello, eager, sent, inbox, buffered, phase, dest, dns, dialled, replies,
               up, down, copies>>
client == <<mode, policy, hello, eager>>

\* NewPolicy refuses a rule without addresses and a port that is none.
Rule == [ips : (SUBSET IPs) \ {{}}, ports : SUBSET TargetPorts, allow : BOOLEAN]
IsPolicy(rules) == \A i \in DOMAIN rules : rules[i] \in Rule

\* The address of a request is of a type: an IP, a name, or one that is unknown.
Hellos ==
    [version : {4, 5}, noAuth : BOOLEAN, command : {"connect", "bind", "other"},
     type : {"ip", "name", "unknown"}, ip : IPs, port : TargetPorts]

\* What is refused is tried with the first address only.
PlainHello(h) == h.version = 5 /\ h.noAuth /\ h.command = "connect" /\ h.type # "unknown"
FirstHello == CHOOSE h \in Hellos : PlainHello(h)

SocksInit ==
    /\ mode \in {"net", "conn"}
    \* newSocksProxyOverWSService has a policy, StreamHandler has none
    /\ policy \in Policies /\ (mode = "conn") = (policy = Nothing)
    /\ policy # Nothing => IsPolicy(policy)
    /\ hello \in Hellos
    /\ PlainHello(hello) \/ (hello.ip = FirstHello.ip /\ hello.port = FirstHello.port)
    /\ eager \in BOOLEAN
    /\ sent = 0 /\ inbox = <<>> /\ buffered = <<>>
    /\ phase = "version" /\ dest = Nothing
    /\ dns \in IPs
    /\ dialled = Nothing /\ replies = <<>> /\ up = <<>> /\ down = <<>> /\ copies = {}

-----------------------------------------------------------------------------
\* The client and the world

Script == <<"version", "methods", "request">> \o Data

\* How much a client that waits has been allowed to send.
MaySend == IF eager THEN Len(Script)
           ELSE IF phase \in {"version", "auth"} THEN 2
           ELSE IF "success" \in {replies[i] : i \in DOMAIN replies} THEN Len(Script) ELSE 3

ClientSends ==
    /\ phase # "ended" /\ sent < MaySend
    /\ sent' = sent + 1
    /\ inbox' = Append(inbox, Script[sent'])
    /\ UNCHANGED <<client, buffered, phase, dest, dns, dialled, replies, up, down, copies>>

\* The name means another address, or none.
NameChanges ==
    /\ hello.type = "name" /\ phase \in {"connect", "dial"}
    /\ dns' \in (IPs \cup {Nothing}) \ {dns}
    /\ UNCHANGED <<client, sent, inbox, buffered, phase, dest, dialled, replies, up, down, copies>>

-----------------------------------------------------------------------------
\* The handshake (StandardConnectionHandler.Serve)

Ended == phase' = "ended" /\ copies' = {}

\* bufio.Reader.Read: an empty buffer takes some of what has come.
Fill ==
    /\ phase \in {"version", "auth", "request"} \/ "up" \in copies
    /\ buffered = <<>>
    /\ \E n \in 1..Len(inbox) :
          buffered' = SubSeq(inbox, 1, n) /\ inbox' = SubSeq(inbox, n + 1, Len(inbox))
    /\ UNCHANGED <<client, sent, phase, dest, dns, dialled, replies, up, down, copies>>

Reads(message) == buffered # <<>> /\ Head(buffered) = message /\ buffered' = Tail(buffered)

ReadVersion ==
    /\ phase = "version" /\ Reads("version")
    /\ IF hello.version = 5 THEN phase' = "auth" /\ UNCHANGED copies ELSE Ended
    /\ UNCHANGED <<client, sent, inbox, dest, dns, dialled, replies, up, down>>

\* StandardAuthHandler: the only authenticator is the one that asks nothing.
Authenticate ==
    /\ phase = "auth" /\ Reads("methods")
    /\ replies' = Append(replies, IF hello.noAuth THEN "noAuth" ELSE "noAcceptable")
    /\ IF hello.noAuth THEN phase' = "request" /\ UNCHANGED copies ELSE Ended
    /\ UNCHANGED <<client, sent, inbox, dest, dns, dialled, up, down>>

\* StandardRequestHandler.Handle: bind and associate are answered like a command
\* that is unknown.
Supported(command) == command = "connect"

\* NewRequest and readAddrSpec; a command other than connect is answered that it is
\* not supported.
ReadRequest ==
    /\ phase = "request" /\ Reads("request")
    /\ CASE hello.type = "unknown" -> Ended /\ UNCHANGED <<dest, replies>>
         [] hello.type # "unknown" /\ ~Supported(hello.command) ->
               Ended /\ replies' = Append(replies, "commandNotSupported") /\ UNCHANGED dest
         [] OTHER ->
               /\ dest' = [ip |-> IF hello.type = "ip" THEN hello.ip ELSE Nothing, port |-> hello.port]
               /\ phase' = "connect" /\ UNCHANGED <<replies, copies>>
    /\ UNCHANGED <<client, sent, inbox, dns, dialled, up, down>>

\* The client goes away, or a read or a write fails.
HandshakeFails ==
    /\ phase \in {"version", "auth", "request"} /\ Ended
    /\ UNCHANGED <<client, sent, inbox, buffered, dest, dns, dialled, replies, up, down>>

-----------------------------------------------------------------------------
\* The connection (StandardRequestHandler.handleConnect)

\* Policy.Allowed: the first rule that speaks of the address and port, else the
\* default, which is to deny.
Allowed(ip, port) ==
    LET match == {i \in DOMAIN policy :
                    ip \in policy[i].ips /\ (policy[i].ports = {} \/ port \in policy[i].ports)}
    IN  match # {} /\ policy[CHOOSE i \in match : \A j \in match : i <= j].allow

RefuseRequest(reply) == replies' = Append(replies, reply) /\ Ended

\* A name is resolved to be judged, and its address is kept.
JudgeRequest ==
    /\ phase = "connect"
    /\ IF policy = Nothing THEN phase' = "dial" /\ UNCHANGED <<dest, replies, copies>>
       ELSE LET ip == IF dest.ip # Nothing THEN dest.ip ELSE dns
            IN  IF ip # Nothing /\ Allowed(ip, dest.port)
                THEN phase' = "dial" /\ dest' = [dest EXCEPT !.ip = ip] /\ UNCHANGED <<replies, copies>>
                ELSE RefuseRequest("ruleFailure") /\ UNCHANGED dest
    /\ UNCHANGED <<client, sent, inbox, buffered, dns, dialled, up, down>>

\* AddrSpec.Address: the IP if there is one.
Address == IF dest.ip # Nothing THEN dest.ip ELSE dns

\* NetDialer and ConnDialer, which has its connection and ignores the address.
Dial ==
    /\ phase = "dial"
    /\ \/ /\ mode = "conn" \/ Address # Nothing
          /\ dialled' = [ip |-> IF mode = "conn" THEN Nothing ELSE Address, port |-> dest.port]
          /\ phase' = "reply" /\ UNCHANGED <<replies, copies>>
       \/ /\ \E r \in {"hostUnreachable", "connectionRefused", "networkUnreachable"} : RefuseRequest(r)
          /\ UNCHANGED dialled
    /\ UNCHANGED <<client, sent, inbox, buffered, dest, dns, up, down>>

SendSuccess ==
    /\ phase = "reply"
    /\ \/ /\ replies' = Append(replies, "success")
          /\ phase' = "proxy" /\ copies' = {"up", "down"}
       \/ Ended /\ UNCHANGED replies
    /\ UNCHANGED <<client, sent, inbox, buffered, dest, dns, dialled, up, down>>

\* mutant: the copy reads past the buffer.
CopyUpUnbuffered ==
    /\ "up" \in copies /\ inbox # <<>>
    /\ up' = Append(up, Head(inbox)) /\ inbox' = Tail(inbox)
    /\ UNCHANGED <<client, sent, buffered, phase, dest, dns, dialled, replies, down, copies>>

\* The copy to the target reads the buffer of the handshake first.
CopyUp ==
    /\ "up" \in copies /\ buffered # <<>>
    /\ up' = Append(up, Head(buffered)) /\ buffered' = Tail(buffered)
    /\ UNCHANGED <<client, sent, inbox, phase, dest, dns, dialled, replies, down, copies>>

CopyDown ==
    /\ "down" \in copies /\ Len(down) < Answers
    /\ down' = Append(down, Len(down) + 1)
    /\ UNCHANGED <<client, sent, inbox, buffered, phase, dest, dns, dialled, replies, up, copies>>

\* One direction ends; without an error the other goes on.
CopyEnds(way) ==
    /\ way \in copies
    /\ way = "up" => (buffered = <<>> /\ inbox = <<>> /\ sent = Len(Script))
    /\ copies' = copies \ {way}
    /\ phase' = IF copies' = {} THEN "ended" ELSE phase
    /\ UNCHANGED <<client, sent, inbox, buffered, dest, dns, dialled, replies, up, down>>

CopyFails ==
    /\ phase = "proxy" /\ Ended
    /\ UNCHANGED <<client, sent, inbox, buffered, dest, dns, dialled, replies, up, down>>

SocksNext ==
    \/ ClientSends \/ NameChanges \/ Fill
    \/ ReadVersion \/ Authenticate \/ ReadRequest \/ HandshakeFails
    \/ JudgeRequest \/ Dial \/ SendSuccess
    \/ CopyUp \/ CopyDown \/ CopyFails \/ \E w \in {"up", "down"} : CopyEnds(w)

SocksSpec == SocksInit /\ [][SocksNext]_socksVars

-----------------------------------------------------------------------------
\* Properties

\* What is dialled is an address that the rules allow on that port, though the
\* name of the request may mean another address by then (handleConnect).
DialsWhatWasAllowed ==
    dialled # Nothing /\ policy # Nothing => Allowed(dialled.ip, dialled.port)

\* The target gets what the client sends after its request, all of it up to a point
\* and in order, though some came with the handshake (NewRequest keeps bufConn).
NothingIsSkipped == up = SubSeq(Data, 1, Len(up))

\* A client that is told of success has a target, and of a failure has none; it is
\* told one of them at most once (sendReply).
RepliesAreTrue ==
    /\ \A i \in DOMAIN replies : i > 1 => i = Len(replies) /\ i = 2
    /\ Len(replies) = 2 => (replies[2] = "success") = (dialled # Nothing)
    /\ up # <<>> \/ down # <<>> => Len(replies) = 2

\* The proxy connects whom it should, and tells the truth of it.
ProxyHolds == DialsWhatWasAllowed /\ NothingIsSkipped /\ RepliesAreTrue
=============================================================================
