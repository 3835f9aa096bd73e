----------------------------- MODULE EdgeTunnel -----------------------------
(***************************************************************************)
(* supervisor/tunnel.go: EdgeTunnelServer.Serve, which the supervisor      *)
(* calls again and again for each connection to the edge.  A call serves   *)
(* one connection until it ends, decides whether its address and protocol  *)
(* are to blame, waits the backoff of the connection and may change its    *)
(* protocol.  The decision reads a tracker that all connections share and  *)
(* that events reach through a channel which drops them when it is full.   *)
(***************************************************************************)
EXTENDS Naturals, Sequences, FiniteSets

CONSTANTS
    Conns,               \* connection indexes
    MaxRetries,          \* of the backoff handler, which retries forever
    MaxEdgeAddrRetries,  \* TunnelConfig.MaxEdgeAddrRetries
    EventBuffer,         \* observerChannelBufferSize
    Surroundings         \* values of selector, network and spare to consider

Protocols == {"http2", "quic"}

NoInfo == "none"  \* no entry

ASSUME EdgeTunnelAssumption ==
    /\ MaxRetries \in Nat /\ MaxEdgeAddrRetries \in Nat /\ EventBuffer \in Nat
    /\ Surroundings \subseteq [selector : {"static", "default", "remote"},
                              network : SUBSET Protocols, spare : BOOLEAN]

VARIABLES
    phase,       \* where each connection is in Serve
    protocol,    \* protocolFallback.protocol
    inFallback,  \* protocolFallback.inFallback
    retries,     \* BackoffHandler.retries
    resetDue,    \* whether BackoffHandler.resetDeadline is set, and then it has passed
    addrRetries, \* IpAddrFallback.retriesByConnIndex
    verdict,     \* what the last attempt says about the protocol
    events,      \* Observer.tunnelEventChan
    lost,        \* history: the Connected event of what is up found the channel full
    connInfo,    \* ConnTracker.connectionInfo: the protocol of each entry
    selector,    \* the kind of ProtocolSelector
    current,     \* what its Current() answers
    network,     \* the protocols that can connect
    spare,       \* whether the pool always has another address
    graceful     \* gracefulShutdownC is closed

edgeVars == <<phase, protocol, inFallback, retries, resetDue, addrRetries, verdict, events,
              lost, connInfo, selector, current, network, spare, graceful>>

EdgeTypeOK ==
    /\ phase \in [Conns -> {"serving", "up", "backoff", "ended"}]
    /\ protocol \in [Conns -> Protocols] /\ inFallback \in [Conns -> BOOLEAN]
    /\ retries \in [Conns -> 0..MaxRetries] /\ resetDue \in [Conns -> BOOLEAN]
    /\ addrRetries \in [Conns -> 0..MaxEdgeAddrRetries]
    /\ verdict \in [Conns -> {"none", "fallback", "quic broken"}]
    /\ Len(events) <= EventBuffer /\ lost \in [Conns -> BOOLEAN]
    /\ connInfo \in [Conns -> Protocols \cup {NoInfo}]
    /\ current \in Protocols /\ graceful \in BOOLEAN

\* NewProtocolSelector: a static choice of the user, QUIC with a fallback when a
\* token is given, or the protocol that the percentages of the DNS record choose.
EdgeInit ==
    /\ \E s \in Surroundings : selector = s.selector /\ network = s.network /\ spare = s.spare
    /\ current \in IF selector = "default" THEN {"quic"} ELSE Protocols
    /\ phase = [c \in Conns |-> "serving"]
    /\ protocol = [c \in Conns |-> current]
    /\ inFallback = [c \in Conns |-> FALSE]
    /\ retries = [c \in Conns |-> 0]
    /\ resetDue = [c \in Conns |-> FALSE]
    /\ addrRetries = [c \in Conns |-> 0]
    /\ verdict = [c \in Conns |-> "none"]
    /\ events = <<>>
    /\ lost = [c \in Conns |-> FALSE]
    /\ connInfo = [c \in Conns |-> NoInfo]
    /\ graceful = FALSE

-----------------------------------------------------------------------------
\* The observer and the tracker

Up(c) == [conn |-> c, up |-> TRUE, protocol |-> protocol[c]]
\* Disconnected, Reconnecting, RegisteringTunnel and Unregistering.
Down(c) == [conn |-> c, up |-> FALSE, protocol |-> "http2"]

\* Observer.sendEvent never blocks: an event that finds the channel full is lost.
SendEvent(sent) ==
    LET all == events \o sent
    IN  events' = SubSeq(all, 1, IF Len(all) < EventBuffer THEN Len(all) ELSE EventBuffer)

\* mutant: the tracker does not take the protocol from the event.
OnTunnelEventForgets(event) == connInfo' = [connInfo EXCEPT ![event.conn] = "http2"]

\* ConnTracker.OnTunnelEvent.  The zero value of ConnectionInfo has protocol 0: HTTP2.
OnTunnelEvent(event) ==
    connInfo' = [connInfo EXCEPT ![event.conn] =
        IF event.up THEN event.protocol ELSE IF @ = NoInfo THEN "http2" ELSE @]

\* Observer.dispatchEvents
DispatchEvent ==
    /\ events # <<>>
    /\ OnTunnelEvent(Head(events))
    /\ events' = Tail(events)
    /\ UNCHANGED <<phase, protocol, inFallback, retries, resetDue, addrRetries, verdict, lost,
                   selector, current, network, spare, graceful>>

\* ConnTracker.HasConnectedWith
HasConnectedWith(p) == \E c \in Conns : connInfo[c] = p

-----------------------------------------------------------------------------
\* The protocol selector

\* ProtocolSelector.Fallback: none for a static choice, nor for HTTP2.
HasFallback == selector # "static" /\ current = "quic"

\* remoteProtocolSelector.Current, after its TTL: the percentages have changed.
SelectorRefreshes ==
    /\ selector = "remote"
    /\ current' \in Protocols \ {current}
    /\ UNCHANGED <<phase, protocol, inFallback, retries, resetDue, addrRetries, verdict, events,
                   lost, connInfo, selector, network, spare, graceful>>

-----------------------------------------------------------------------------
\* One call of Serve

\* The connection is registered: sendConnectedEvent, and connectedFuse.Connected,
\* which resets the backoff of the connection.
Connected(c) ==
    /\ phase[c] = "serving" /\ protocol[c] \in network
    /\ phase' = [phase EXCEPT ![c] = "up"]
    /\ SendEvent(<<Up(c)>>)
    /\ lost' = [lost EXCEPT ![c] = Len(events) = EventBuffer]
    /\ inFallback' = [inFallback EXCEPT ![c] = FALSE]
    /\ retries' = [retries EXCEPT ![c] = 0]
    /\ resetDue' = [resetDue EXCEPT ![c] = TRUE]
    /\ UNCHANGED <<protocol, addrRetries, verdict, connInfo, selector, current, network,
                   spare, graceful>>

\* What serveTunnel returns when an attempt to connect fails, and when a
\* connection is lost.  The errors of the streams of a QUIC connection hide what
\* the edge answered, so only HTTP/2 knows a duplicate connection and a permanent
\* refusal.  An error of the dial may say that QUIC itself is broken.
AttemptErrors(p) ==
    IF p = "quic" THEN {"quic dial", "quic dial, broken", "stream"}
                  ELSE {"dial", "duplicate", "permanent", "stream"}

\* Whether serveTunnel calls the error recoverable.
Recoverable(err) == err \in {"dial", "stream"}
DialFailed(err) == err \in {"quic dial", "quic dial, broken", "dial"}

\* IpAddrFallback.ShouldGetNewAddress
RotatesAddress(err) == DialFailed(err) \/ err = "duplicate"
ReachedMaxAddrRetries(c) == addrRetries[c] >= MaxEdgeAddrRetries

AddrRetriesAfter(c, err) ==
    IF ~DialFailed(err) THEN addrRetries[c]
    ELSE IF ReachedMaxAddrRetries(c) THEN 0 ELSE addrRetries[c] + 1

\* shouldFallbackProtocol of Serve: a connectivity error decides instead of serveTunnel.
ShouldFallBack(c, err) == IF DialFailed(err) THEN ReachedMaxAddrRetries(c) ELSE Recoverable(err)

\* BackoffHandler.BackoffTimer: a deadline that has passed resets the count.
RetriesAfter(c) ==
    LET counted == IF resetDue[c] THEN 0 ELSE retries[c]
    IN  IF counted >= MaxRetries THEN counted ELSE counted + 1

\* serveTunnel returns, with its deferred SendDisconnect; Serve asks whether the
\* address is to blame and rotates it.  A connectivity error decides about the
\* protocol instead of serveTunnel.  Then SendReconnect, and the select that
\* starts the timer.
AttemptFails(c, err) ==
    /\ phase' = [phase EXCEPT ![c] = "backoff"]
    /\ addrRetries' = [addrRetries EXCEPT ![c] = AddrRetriesAfter(c, err)]
    /\ verdict' = [verdict EXCEPT ![c] =
          IF ~ShouldFallBack(c, err) THEN "none"
          ELSE IF err = "quic dial, broken" THEN "quic broken" ELSE "fallback"]
    /\ retries' = [retries EXCEPT ![c] = RetriesAfter(c)]
    /\ resetDue' = [resetDue EXCEPT ![c] = FALSE]
    /\ lost' = [lost EXCEPT ![c] = FALSE]
    /\ UNCHANGED <<protocol, inFallback, connInfo, selector, current, network, spare, graceful>>

ConnectFails(c) ==
    /\ phase[c] = "serving"
    /\ SendEvent(<<Down(c), Down(c)>>)
    /\ \E err \in AttemptErrors(protocol[c]) : AttemptFails(c, err)

\* The connection is lost, or ends because of the shutdown: the control stream sends
\* Unregistering first.
ConnectionLost(c) ==
    /\ phase[c] = "up"
    /\ SendEvent(<<Down(c), Down(c), Down(c)>>)
    /\ AttemptFails(c, "stream")

\* GetDifferentAddr finds no other address: Serve returns at once, and the
\* supervisor calls it again after a backoff of its own.
NoOtherAddress(c) ==
    /\ phase[c] = "serving" /\ ~spare
    /\ \E err \in AttemptErrors(protocol[c]) :
          /\ RotatesAddress(err)
          /\ addrRetries' = [addrRetries EXCEPT ![c] = AddrRetriesAfter(c, err)]
    /\ SendEvent(<<Down(c)>>)
    /\ UNCHANGED <<phase, protocol, inFallback, retries, resetDue, verdict, lost, connInfo,
                   selector, current, network, spare, graceful>>

ReachedMaxRetries(c) == retries[c] = MaxRetries

\* protocolFallback.fallback
FallBack(c) ==
    /\ protocol' = [protocol EXCEPT ![c] = "http2"]
    /\ inFallback' = [inFallback EXCEPT ![c] = TRUE]
    /\ retries' = [retries EXCEPT ![c] = 0]
    /\ resetDue' = [resetDue EXCEPT ![c] = TRUE]

\* mutant: a fallback is not thought of when the selector has one.
SelectNextProtocolNever(c) ==
    /\ protocol' = [protocol EXCEPT ![c] = IF inFallback[c] THEN @ ELSE current]
    /\ UNCHANGED <<inFallback, retries, resetDue>>

\* selectNextProtocol
SelectNextProtocol(c) ==
    IF ReachedMaxRetries(c) \/ (HasFallback /\ verdict[c] = "quic broken")
    THEN IF HasFallback /\ protocol[c] # "http2"
         THEN FallBack(c)
         ELSE UNCHANGED <<protocol, inFallback, retries, resetDue>>
    ELSE /\ protocol' = [protocol EXCEPT ![c] = IF inFallback[c] THEN @ ELSE current]
         /\ UNCHANGED <<inFallback, retries, resetDue>>

\* The timer fires.  A protocol that works for another connection is kept.
BackoffEnds(c) ==
    /\ phase[c] = "backoff"
    /\ phase' = [phase EXCEPT ![c] = "serving"]
    /\ verdict' = [verdict EXCEPT ![c] = "none"]
    /\ IF verdict[c] # "none" /\ ~HasConnectedWith(current)
       THEN SelectNextProtocol(c)
       ELSE UNCHANGED <<protocol, inFallback, retries, resetDue>>
    /\ UNCHANGED <<addrRetries, events, lost, connInfo, selector, current, network, spare,
                   graceful>>

\* gracefulShutdownC is closed while Serve waits: it returns nil, and the
\* supervisor does not call it again.
ShutdownEndsBackoff(c) ==
    /\ phase[c] = "backoff" /\ graceful
    /\ phase' = [phase EXCEPT ![c] = "ended"]
    /\ verdict' = [verdict EXCEPT ![c] = "none"]
    /\ UNCHANGED <<protocol, inFallback, retries, resetDue, addrRetries, events, lost, connInfo,
                   selector, current, network, spare, graceful>>

GracefulShutdown ==
    /\ ~graceful
    /\ graceful' = TRUE
    /\ UNCHANGED <<phase, protocol, inFallback, retries, resetDue, addrRetries, verdict, events,
                   lost, connInfo, selector, current, network, spare>>

Continue(c) ==
    \/ Connected(c) \/ ConnectFails(c) \/ NoOtherAddress(c)
    \/ BackoffEnds(c) \/ ShutdownEndsBackoff(c)

EdgeNext ==
    \/ DispatchEvent \/ SelectorRefreshes \/ GracefulShutdown
    \/ \E c \in Conns : Continue(c) \/ ConnectionLost(c)

\* Goroutines keep running, and a protocol the network lets through connects in
\* the end when it is tried again and again.
EdgeSpec ==
    /\ EdgeInit /\ [][EdgeNext]_edgeVars
    /\ WF_edgeVars(DispatchEvent)
    /\ \A c \in Conns : WF_edgeVars(Continue(c)) /\ SF_edgeVars(Connected(c))

-----------------------------------------------------------------------------

\* A connection that is up and whose Connected event has reached the tracker.
KnownUp(c) ==
    /\ phase[c] = "up" /\ ~lost[c]
    /\ \A i \in 1..Len(events) : events[i].conn = c => ~events[i].up

\* QUIC is not given up while another connection is known to use it, whatever events
\* of earlier connections were lost or are still on their way: its entry has
\* the protocol that it really uses.
QuicKeptWhileItWorks ==
    [][\A c, other \in Conns :
         (protocol[c] = "quic" /\ inFallback'[c] /\ current = "quic"
            /\ KnownUp(other) /\ protocol[other] = "quic") => protocol'[c] = "quic"]_edgeVars

\* Where QUIC is blocked and the selector has a fallback, every connection comes
\* up with HTTP/2 again and again, as long as the pool has addresses to rotate:
\* the two counters that have to be at their limit together get there.  (It is
\* stated of one connection, as all of them are alike.)
BlockedQuicFallsBack ==
    LET c == CHOOSE d \in Conns : TRUE
    IN  (selector = "default" /\ network = {"http2"} /\ spare /\ phase[c] # "up")
            ~> (phase[c] \in {"up", "ended"})
=============================================================================
