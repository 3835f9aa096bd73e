--------------------------- MODULE EdgeConnection ---------------------------
(***************************************************************************)
(* connection/control.go, http2.go, quic_connection.go and the two serve   *)
(* functions of supervisor/tunnel.go: one established connection to the    *)
(* edge, from its registration to the error that serveConnection returns.  *)
(*                                                                         *)
(* Over QUIC Serve opens the control stream; then three goroutines of an   *)
(* error group serve it, accept streams and handle datagrams: the first    *)
(* that returns cancels the others.  Over HTTP/2 the control stream is one *)
(* of the requests the edge makes, and the connection is closed when the   *)
(* last of them has ended.  Beside either, listenReconnect waits for a     *)
(* signal to reconnect.                                                    *)
(***************************************************************************)
EXTENDS Naturals, FiniteSets

CONSTANTS
    MaxRequests, \* bound: proxied requests at once
    NoError

ASSUME ConnAssumption ==
    NoError \notin {"duplicate", "refused", "canceled", "control", "listener", "datagram",
                   "open", "reconnect", "closed", "nil"}

VARIABLES
    transport,  \* "quic" or "http2"
    control,    \* where the control stream handler is
    stopped,    \* controlStream.stoppedGracefully
    controlErr, \* HTTP2Connection.controlStreamErr
    accepting,  \* QUIC: acceptStream runs
    datagrams,  \* QUIC: the datagram handler runs
    groupErr,   \* QUIC: the first error of the inner error group
    listening,  \* listenReconnect runs
    serving,    \* Serve of the connection runs
    outerErr,   \* the first error of the outer error group
    requests,   \* proxied requests that run
    lost,       \* the edge or the network has ended the connection
    closed,     \* cloudflared has closed it
    canceled,   \* the context of the tunnel is done
    graceful,   \* gracefulShutdownC is closed
    result      \* what errGroup.Wait returned

connVars == <<transport, control, stopped, controlErr, accepting, datagrams, groupErr, listening,
              serving, outerErr, requests, lost, closed, canceled, graceful, result>>

RegisterErrors == {"duplicate", "refused"}

ConnTypeOK ==
    /\ transport \in {"quic", "http2"}
    /\ control \in {"absent", "registering", "waiting", "unregistering", "abandoning", "grace", "done"}
    /\ controlErr \in RegisterErrors \cup {"canceled", NoError}
    /\ groupErr \in {"control", "listener", "datagram", NoError}
    /\ requests \in 0..MaxRequests
    /\ {stopped, accepting, datagrams, listening, serving, lost, closed, canceled, graceful} \subseteq BOOLEAN

\* Serve of the connection and listenReconnect have been started.
ConnInit ==
    /\ transport \in {"quic", "http2"}
    /\ control = "absent"
    /\ accepting = FALSE /\ datagrams = FALSE
    /\ listening = TRUE /\ serving = TRUE
    /\ stopped = FALSE /\ lost = FALSE /\ closed = FALSE /\ canceled = FALSE /\ graceful = FALSE
    /\ controlErr = NoError /\ groupErr = NoError /\ outerErr = NoError /\ result = NoError
    /\ requests = 0

First(err, new) == IF err = NoError THEN new ELSE err

\* The context of the outer group, and the one the goroutines of a connection see.
OuterDone == canceled \/ outerErr # NoError
ContextDone == OuterDone \/ IF transport = "quic" THEN groupErr # NoError ELSE lost \/ closed

Gone == lost \/ closed

environment == <<transport, lost, canceled, graceful>>

-----------------------------------------------------------------------------
\* The control stream

\* The edge opens the control stream of an HTTP/2 connection: TypeControlStream.
EdgeOpensControl ==
    /\ transport = "http2" /\ control = "absent" /\ ~Gone
    /\ control' = "registering"
    /\ UNCHANGED <<stopped, controlErr, accepting, datagrams, groupErr, listening, serving, outerErr,
                   requests, closed, result, environment>>

\* quicConnection.Serve opens it, the first stream, and starts the three goroutines.
OpenControl ==
    /\ transport = "quic" /\ serving /\ control = "absent" /\ ~Gone
    /\ control' = "registering" /\ accepting' = TRUE /\ datagrams' = TRUE
    /\ UNCHANGED <<stopped, controlErr, groupErr, listening, serving, outerErr, requests, closed,
                   result, environment>>

\* OpenStream fails: Serve returns before it has deferred Close, nothing else closes.
OpenFails ==
    /\ transport = "quic" /\ serving /\ control = "absent"
    /\ serving' = FALSE
    /\ outerErr' = First(outerErr, "open")
    /\ UNCHANGED <<control, stopped, controlErr, accepting, datagrams, groupErr, listening, requests,
                   closed, result, environment>>

\* RegisterConnection succeeds: the connected event, the fuse, and for connection
\* 0 the local configuration, whose errors are only logged.
Register ==
    /\ control = "registering" /\ ~Gone
    /\ control' = "waiting"
    /\ UNCHANGED <<stopped, controlErr, accepting, datagrams, groupErr, listening, serving, outerErr,
                   requests, closed, result, environment>>

\* The handler returns: QUIC replaces the error by ControlStreamError, which ends
\* the group; HTTP/2 keeps it for Serve.
ControlReturns(err) ==
    /\ control' = "done"
    /\ IF transport = "quic"
       THEN groupErr' = First(groupErr, "control") /\ UNCHANGED controlErr
       ELSE controlErr' = (IF err = NoError THEN controlErr ELSE err) /\ UNCHANGED groupErr
    /\ UNCHANGED <<accepting, datagrams, listening, serving, outerErr, requests, closed, result,
                   environment>>

\* The edge refuses the connection, or the call ends with it or by its timeout.
RegisterFails ==
    /\ control = "registering"
    /\ \E err \in RegisterErrors : ControlReturns(err)
    /\ UNCHANGED stopped

\* mutant: only the shutdown is waited for.
WaitForShutdownOnly ==
    /\ control = "waiting"
    /\ graceful /\ control' = "unregistering" /\ stopped' = TRUE
    /\ UNCHANGED <<controlErr, accepting, datagrams, groupErr, listening, serving, outerErr, requests,
                   closed, result, environment>>

\* waitForUnregister: the select between the context and the graceful shutdown.
WaitForUnregister ==
    /\ control = "waiting"
    /\ \/ graceful /\ control' = "unregistering" /\ stopped' = TRUE
       \/ ContextDone /\ control' = "abandoning" /\ UNCHANGED stopped
    /\ UNCHANGED <<controlErr, accepting, datagrams, groupErr, listening, serving, outerErr, requests,
                   closed, result, environment>>

\* GracefulShutdown is called in both cases.  A handler that has unregistered
\* returns nil; over QUIC the grace period still has to pass.
Unregister ==
    \/ /\ control = "unregistering" /\ ~Gone
       /\ IF transport = "quic"
          THEN /\ control' = "grace"
               /\ UNCHANGED <<controlErr, accepting, datagrams, groupErr, listening, serving, outerErr,
                              requests, closed, result, environment>>
          ELSE ControlReturns(NoError)
       /\ UNCHANGED stopped
    \/ /\ control \in {"unregistering", "abandoning"}
       /\ ControlReturns("canceled")
       /\ UNCHANGED stopped

\* The ticker of the grace period, or the context.
ControlGraceEnds == control = "grace" /\ ControlReturns(NoError) /\ UNCHANGED stopped

-----------------------------------------------------------------------------
\* The other goroutines

\* acceptStream fails, or returns nil because the context is canceled: the group
\* gets a StreamListenerError either way.
AcceptReturns ==
    /\ accepting /\ (Gone \/ ContextDone)
    /\ accepting' = FALSE /\ groupErr' = First(groupErr, "listener")
    /\ UNCHANGED <<control, stopped, controlErr, datagrams, listening, serving, outerErr, requests,
                   closed, result, environment>>

\* The datagram handler ends with the connection, the context or an error of its own.
DatagramsReturn ==
    /\ datagrams
    /\ datagrams' = FALSE /\ groupErr' = First(groupErr, "datagram")
    /\ UNCHANGED <<control, stopped, controlErr, accepting, listening, serving, outerErr, requests,
                   closed, result, environment>>

\* quicConnection.Serve: errGroup.Wait, and the deferred Close.
QuicServeReturns ==
    /\ transport = "quic" /\ serving
    /\ control = "done" /\ ~accepting /\ ~datagrams
    /\ serving' = FALSE /\ closed' = TRUE
    /\ outerErr' = First(outerErr, groupErr)
    /\ UNCHANGED <<control, stopped, controlErr, accepting, datagrams, groupErr, listening, requests,
                   result, environment>>

\* HTTP2Connection.Serve: what is returned when ServeConn has ended.
ServeError ==
    CASE stopped -> NoError
      [] ~stopped /\ controlErr # NoError -> controlErr
      [] OTHER -> "closed"

Http2ServeReturns ==
    /\ transport = "http2" /\ serving /\ Gone
    /\ serving' = FALSE
    /\ outerErr' = First(outerErr, ServeError)
    /\ UNCHANGED <<control, stopped, controlErr, accepting, datagrams, groupErr, listening, requests,
                   closed, result, environment>>

\* HTTP2Connection.close: the context is done and no request is active any more,
\* the control stream among them.
Http2Close ==
    /\ transport = "http2" /\ OuterDone /\ ~closed
    /\ requests = 0 /\ control \in {"absent", "done"}
    /\ closed' = TRUE
    /\ UNCHANGED <<control, stopped, controlErr, accepting, datagrams, groupErr, listening, serving,
                   outerErr, requests, result, environment>>

\* listenReconnect: a signal, the shutdown, or the context of the group.
ListenReturns ==
    /\ listening
    /\ listening' = FALSE
    /\ \/ outerErr' = First(outerErr, "reconnect")
       \/ (graceful \/ OuterDone) /\ UNCHANGED outerErr
    /\ UNCHANGED <<control, stopped, controlErr, accepting, datagrams, groupErr, serving, requests,
                   closed, result, environment>>

\* errGroup.Wait of serveQUIC and serveHTTP2.
ServeConnectionReturns ==
    /\ result = NoError /\ ~serving /\ ~listening
    /\ result' = IF outerErr = NoError THEN "nil" ELSE outerErr
    /\ UNCHANGED <<control, stopped, controlErr, accepting, datagrams, groupErr, listening, serving,
                   outerErr, requests, closed, environment>>

-----------------------------------------------------------------------------
\* The requests, the edge and the process

RequestStarts ==
    /\ transport = "quic" => accepting
    /\ ~Gone /\ ~OuterDone /\ requests < MaxRequests
    /\ requests' = requests + 1
    /\ UNCHANGED <<control, stopped, controlErr, accepting, datagrams, groupErr, listening, serving,
                   outerErr, closed, result, environment>>

RequestEnds ==
    /\ requests > 0
    /\ requests' = requests - 1
    /\ UNCHANGED <<control, stopped, controlErr, accepting, datagrams, groupErr, listening, serving,
                   outerErr, closed, result, environment>>

local == <<transport, control, stopped, controlErr, accepting, datagrams, groupErr, listening, serving,
           outerErr, requests, closed, result>>

ConnectionIsLost == ~Gone /\ lost' = TRUE /\ UNCHANGED <<local, canceled, graceful>>
Cancel == ~canceled /\ canceled' = TRUE /\ UNCHANGED <<local, lost, graceful>>
GracefulShutdown == ~graceful /\ graceful' = TRUE /\ UNCHANGED <<local, lost, canceled>>

ConnProgress ==
    \/ OpenControl \/ OpenFails \/ RegisterFails \/ WaitForUnregister \/ Unregister \/ ControlGraceEnds
    \/ AcceptReturns \/ (DatagramsReturn /\ (Gone \/ ContextDone))
    \/ QuicServeReturns \/ Http2ServeReturns \/ Http2Close
    \/ (ListenReturns /\ (graceful \/ OuterDone)) \/ ServeConnectionReturns \/ RequestEnds

ConnNext ==
    \/ EdgeOpensControl \/ OpenControl \/ OpenFails
    \/ Register \/ RegisterFails \/ WaitForUnregister \/ Unregister \/ ControlGraceEnds
    \/ AcceptReturns \/ DatagramsReturn \/ QuicServeReturns
    \/ Http2ServeReturns \/ Http2Close \/ ListenReturns \/ ServeConnectionReturns
    \/ RequestStarts \/ RequestEnds \/ ConnectionIsLost \/ Cancel \/ GracefulShutdown

\* Goroutines that can go on do, calls of the edge have a timeout, and requests
\* end: their contexts are derived from the one that is canceled.
ConnSpec == ConnInit /\ [][ConnNext]_connVars /\ WF_connVars(ConnProgress)

-----------------------------------------------------------------------------

\* "Returning a nil error means cloudflared will exit for good and will not attempt
\* to reconnect": serveConnection returns nil only when the tunnel was asked to
\* stop.  When it returns over QUIC all that ran has ended and the connection is closed,
\* unless the control stream could not be opened: then nothing ran, and nothing closes it.
NilMeansShutdown ==
    /\ result = "nil" => graceful /\ transport = "http2"
    /\ (result # NoError /\ transport = "quic") =>
          /\ ~accepting /\ ~datagrams
          /\ control = "absent" \/ (control = "done" /\ closed)

\* When the context of the tunnel is canceled, serveConnection returns, whatever
\* its goroutines are waiting for: over HTTP/2 the socket is closed only after
\* all requests have ended, and the control stream is one of them.
CancelEndsServe == canceled ~> result # NoError

\* A connection that ends says so to the supervisor: nil for a shutdown only, and
\* something in any case once it is canceled (serveConnection).
ServeEndsRightly == []NilMeansShutdown /\ CancelEndsServe
=============================================================================
