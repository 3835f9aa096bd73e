------------------------------ MODULE IcmpLinux ------------------------------
(***************************************************************************)
(* packet/funnel.go with ingress/icmp_posix.go and icmp_linux.go: echo     *)
(* requests that arrive over the connections to the edge and leave through *)
(* one unprivileged socket per flow.  The router of each connection        *)
(* handles one packet at a time; all of them share the tracker, whose lock *)
(* makes its operations atomic, and every flow has a goroutine that reads  *)
(* its socket and unregisters the flow when the read fails.  A connection  *)
(* that was lost comes back with its index and a muxer of its own.         *)
(***************************************************************************)
EXTENDS Naturals, Sequences, FiniteSets

CONSTANTS
    Conns,     \* connections to the edge: ICMPResponder.ConnectionIndex
    Muxers,    \* the datagram muxers, one per connection that is made of an index
    Keys,      \* flow3Tuple: source, destination and echo id
    Ports,     \* local ports, which are the echo ids of the sockets
    MaxFlows,  \* bound: flows opened in all
    None

VARIABLES
    muxer,    \* the muxer of each index, None before its first connection
    flows,    \* every icmpEchoFlow that was made, with its goroutine
    funnels,  \* FunnelTracker.funnels: an index of flows, or 0
    sending,  \* the flow on which each router is about to send, or 0
    latest    \* history: the responder of the last request of each key

icmpVars == <<muxer, flows, funnels, sending, latest>>

Responders == [index : Conns, muxer : Muxers \cup {None}]

Flow == [key : Keys, responder : Responders, port : Ports, closed : BOOLEAN, idle : BOOLEAN,
         asked : BOOLEAN, listener : {"reading", "returning", "unregistering", "done"}]

IcmpTypeOK ==
    /\ flows \in Seq(Flow) /\ Len(flows) <= MaxFlows
    /\ funnels \in [Keys -> 0..MaxFlows]
    /\ sending \in [Conns -> 0..MaxFlows]
    /\ muxer \in [Conns -> Muxers \cup {None}]
    /\ latest \in [Keys -> Responders \cup {None}]

IcmpInit ==
    /\ flows = <<>>
    /\ funnels = [k \in Keys |-> 0]
    /\ sending = [c \in Conns |-> 0]
    /\ latest = [k \in Keys |-> None]
    /\ muxer = [c \in Conns |-> None]

\* newPacketResponder: what came over a connection is answered over its muxer.
Responder(c) == [index |-> c, muxer |-> muxer[c]]

\* The connection of an index is made, or made again: a muxer no flow has, and the
\* router of the old one has ended.
Connects(c) ==
    /\ sending[c] = 0
    /\ \E new \in Muxers \ {muxer[c]} :
          /\ \A f \in DOMAIN flows : flows[f].responder # [index |-> c, muxer |-> new]
          /\ muxer' = [muxer EXCEPT ![c] = new]
    /\ UNCHANGED <<flows, funnels, sending, latest>>

\* icmpEchoFlow.Close: the flag, and the socket.
Closed(fs, f) == IF f = 0 THEN fs ELSE [fs EXCEPT ![f].closed = TRUE]

FreePorts(fs) == Ports \ {fs[f].port : f \in {g \in DOMAIN fs : ~fs[g].closed}}

\* newICMPEchoFlow, with a socket on a port the kernel chooses.
NewFlow(k, c, port) ==
    [key |-> k, responder |-> Responder(c), port |-> port, closed |-> FALSE, idle |-> FALSE,
     asked |-> FALSE, listener |-> "reading"]

\* mutant: a flow is kept whatever connection the request came over.
ShouldReplaceNever(f, c) == FALSE

\* createShouldReplaceFunnelFunc compares the indices, not the muxers.
ShouldReplace(f, c) == flows[f].responder.index # c

\* icmpProxy.Request: GetOrRegister under the lock, and the goroutine of a new flow.
\* Without a socket the key stays unregistered, even if it was registered.
EchoRequest(c, k) ==
    LET f == funnels[k]
        kept == f # 0 /\ ~ShouldReplace(f, c)
        fs == Closed(flows, f)
    IN  /\ muxer[c] # None /\ sending[c] = 0 /\ UNCHANGED muxer
        /\ \/ /\ kept
              /\ sending' = [sending EXCEPT ![c] = f]
              /\ latest' = [latest EXCEPT ![k] = Responder(c)]
              /\ UNCHANGED <<flows, funnels>>
           \/ /\ ~kept
              /\ Len(flows) < MaxFlows
              /\ \E port \in FreePorts(fs) : flows' = Append(fs, NewFlow(k, c, port))
              /\ funnels' = [funnels EXCEPT ![k] = Len(fs) + 1]
              /\ sending' = [sending EXCEPT ![c] = Len(fs) + 1]
              /\ latest' = [latest EXCEPT ![k] = Responder(c)]
           \/ /\ ~kept
              /\ flows' = fs
              /\ funnels' = [funnels EXCEPT ![k] = 0]
              /\ UNCHANGED <<sending, latest>>

\* sendToDst, after the lock was released: the flow may be closed by now.
SendToDst(c) ==
    LET f == sending[c] IN
    /\ f # 0
    /\ flows' = [flows EXCEPT ![f].idle = FALSE, ![f].asked = @ \/ ~flows[f].closed]
    /\ sending' = [sending EXCEPT ![c] = 0]
    /\ UNCHANGED <<muxer, funnels, latest>>

\* handleResponse reads a reply; what is no echo reply is dropped.
ReadReply(f) ==
    /\ flows[f].listener = "reading" /\ flows[f].asked /\ ~flows[f].closed
    /\ flows' = [flows EXCEPT ![f].listener = "returning", ![f].asked = FALSE]
    /\ UNCHANGED <<muxer, funnels, sending, latest>>

\* returnToSrc, over the muxer of the flow's responder; errors are logged.
ReturnToSrc(f) ==
    /\ flows[f].listener = "returning"
    /\ flows' = [flows EXCEPT ![f].listener = "reading", ![f].idle = FALSE]
    /\ UNCHANGED <<muxer, funnels, sending, latest>>

\* ReadFrom fails: the socket is closed, or broken.
ReadFails(f) ==
    /\ flows[f].listener = "reading"
    /\ flows' = [flows EXCEPT ![f].listener = "unregistering"]
    /\ UNCHANGED <<muxer, funnels, sending, latest>>

\* icmpEchoFlow.Equal, on flows that have the same key: the kernel may have given
\* the port of a closed socket to another one.
Equal(f, g) == flows[f].port = flows[g].port

\* FunnelTracker.Unregister
Unregister(f) ==
    LET k == flows[f].key
        own == funnels[k] # 0 /\ Equal(funnels[k], f)
    IN  /\ flows[f].listener = "unregistering"
        /\ flows' = [(IF own THEN Closed(flows, funnels[k]) ELSE flows) EXCEPT ![f].listener = "done"]
        /\ funnels' = IF own THEN [funnels EXCEPT ![k] = 0] ELSE funnels
        /\ UNCHANGED <<muxer, sending, latest>>

\* Time passes: nothing went through a flow for idleTimeout.
BecomesIdle(f) ==
    /\ ~flows[f].closed /\ ~flows[f].idle
    /\ flows' = [flows EXCEPT ![f].idle = TRUE]
    /\ UNCHANGED <<muxer, funnels, sending, latest>>

\* FunnelTracker.cleanup, at every tick of ScheduleCleanup
Cleanup ==
    LET expired == {k \in Keys : funnels[k] # 0 /\ flows[funnels[k]].idle}
    IN  /\ expired # {}
        /\ flows' = [f \in DOMAIN flows |->
              [flows[f] EXCEPT !.closed = @ \/ \E k \in expired : funnels[k] = f]]
        /\ funnels' = [k \in Keys |-> IF k \in expired THEN 0 ELSE funnels[k]]
        /\ UNCHANGED <<muxer, sending, latest>>

IcmpNext ==
    \/ \E c \in Conns : Connects(c) \/ (\E k \in Keys : EchoRequest(c, k)) \/ SendToDst(c)
    \/ \E f \in DOMAIN flows :
          ReadReply(f) \/ ReturnToSrc(f) \/ ReadFails(f) \/ Unregister(f) \/ BecomesIdle(f)
    \/ Cleanup

IcmpSpec == IcmpInit /\ [][IcmpNext]_icmpVars

-----------------------------------------------------------------------------

\* The last request of a key came over this responder, or over a later connection of
\* its index, whose muxer has taken the place of the responder's.
Reaches(r, asked) == r.index = asked.index /\ (r = asked \/ r.muxer # muxer[r.index])

\* "Otherwise, return packets will be send to the first observed incoming connection,
\* rather than the most recently observed connection": a socket is open exactly
\* while its flow is registered, so none leaks and no key has two, and it answers
\* over the connection that last sent a request of its key.  Only a connection that
\* was made again under its index is not told from the one before: its flow goes on
\* to answer over the muxer that has gone.  A listener that has ended has left no
\* socket open, whichever flow was registered in between.
OpenFlowIsTheNewest ==
    \A f \in DOMAIN flows :
        /\ flows[f].closed <=> funnels[flows[f].key] # f
        /\ ~flows[f].closed => Reaches(flows[f].responder, latest[flows[f].key])
        /\ flows[f].listener = "done" => flows[f].closed
=============================================================================
