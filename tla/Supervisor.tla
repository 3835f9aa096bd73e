----------------------------- MODULE Supervisor -----------------------------
(***************************************************************************)
(* cloudflared supervisor/supervisor.go: the goroutine of Supervisor.Run   *)
(* and the tunnel goroutines it starts, one for each HA connection.        *)
(*                                                                         *)
(* What a tunnel goroutine does inside EdgeTunnelServer.Serve is reduced   *)
(* to what Run can see of it: it may connect, which closes its connected   *)
(* signal a little later (the goroutine that awaits the fuse does that),   *)
(* and it returns, with nil only once the graceful shutdown was requested. *)
(* tunnelErrors is unbuffered: a goroutine that has returned stays blocked *)
(* until Run receives its error.                                           *)
(***************************************************************************)
EXTENDS Integers, Sequences, FiniteSets

CONSTANTS
    Requested,      \* config.HAConnections
    Available,      \* edgeIPs.AvailableAddrs()
    IsStaticEdge    \* len(config.EdgeAddrs) > 0

ASSUME SupervisorAssumption ==
    /\ Requested \in Nat \ {0} /\ Available \in Nat \ {0}
    /\ IsStaticEdge \in BOOLEAN

HAConnections == IF Requested > Available THEN Available ELSE Requested
Indexes == 0..(HAConnections - 1)
First == 0

VARIABLES
    pc,                 \* where Run is: "initialize", "starting", "loop",
                        \* "drain" or "returned"
    started,            \* the tunnel that initialize starts next
    tunnelsActive,      \* Run's counter
    tunnelsWaiting,     \* Run's slice of indexes to restart
    backoffTimer,       \* whether the timer is armed
    tunnelsConnecting,  \* the indexes in the map of connected signals
    nextConnectedIndex, \* the signal Run selects on; None if it is nil
    shuttingDown,       \* Run's flag
    tunnel,             \* each goroutine: "none", "serving", "connected" or
                        \* "sending", when it has returned from Serve
    error,              \* what a "sending" goroutine sends
    sig,                \* each connected signal: "open", "due" once the fuse
                        \* is set, "closed" once Notify has run
    looping,            \* whether tunnel 0 still runs in startFirstTunnel
    ctxDone,            \* the context is cancelled
    shutdown,           \* gracefulShutdownC is closed
    early               \* history: it was closed before the first connection

runVars == <<pc, started, tunnelsActive, tunnelsWaiting, backoffTimer>>
signalVars == <<tunnelsConnecting, nextConnectedIndex, shuttingDown>>
tunnelVars == <<tunnel, error, sig, looping>>
envVars == <<ctxDone, shutdown, early>>
vars == <<runVars, signalVars, tunnelVars, envVars>>

None == -1

Errors == {"nil", "reconnect", "noAddressesLeft", "transient", "fatal", "cancelled"}

TypeOK ==
    /\ pc \in {"initialize", "starting", "loop", "drain", "returned"}
    /\ started \in 1..HAConnections
    /\ tunnelsActive \in 0..HAConnections
    /\ tunnelsWaiting \in Seq(Indexes)
    /\ backoffTimer \in BOOLEAN
    /\ tunnelsConnecting \subseteq Indexes
    /\ nextConnectedIndex \in Indexes \cup {None}
    /\ shuttingDown \in BOOLEAN
    /\ tunnel \in [Indexes -> {"none", "serving", "connected", "sending"}]
    /\ error \in [Indexes -> Errors]
    /\ sig \in [Indexes -> {"open", "due", "closed"}]
    /\ looping \in BOOLEAN
    /\ ctxDone \in BOOLEAN /\ shutdown \in BOOLEAN /\ early \in BOOLEAN

\* initialize has started the first tunnel and waits for what becomes of it.
Init ==
    /\ pc = "initialize"
    /\ started = 1
    /\ tunnelsActive = 0
    /\ tunnelsWaiting = <<>>
    /\ backoffTimer = FALSE
    /\ tunnelsConnecting = {}
    /\ nextConnectedIndex = None
    /\ shuttingDown = FALSE
    /\ tunnel = [i \in Indexes |-> IF i = First THEN "serving" ELSE "none"]
    /\ error = [i \in Indexes |-> "nil"]
    /\ sig = [i \in Indexes |-> "open"]
    /\ looping = TRUE
    /\ ctxDone = FALSE
    /\ shutdown = FALSE
    /\ early = FALSE

-----------------------------------------------------------------------------
\* Tunnel goroutines

Live(i) == tunnel[i] # "none"

\* go s.startTunnel(...) for the indexes of a set
Start(indexes) ==
    tunnel' = [i \in Indexes |-> IF i \in indexes THEN "serving" ELSE tunnel[i]]

\* mutant: the map holds the newest signals only.
NewSignalsReplace(indexes, last) ==
    /\ sig' = [i \in Indexes |-> IF i \in indexes THEN "open" ELSE sig[i]]
    /\ tunnelsConnecting' = indexes
    /\ nextConnectedIndex' = last

\* newConnectedTunnelSignal(index) for the indexes of a set, the last of which
\* is the one that Run selects on.
NewSignals(indexes, last) ==
    /\ sig' = [i \in Indexes |-> IF i \in indexes THEN "open" ELSE sig[i]]
    /\ tunnelsConnecting' = tunnelsConnecting \cup indexes
    /\ nextConnectedIndex' = last

\* connectedFuse.Fuse(true)
Connect(i) ==
    /\ tunnel[i] = "serving"
    /\ tunnel' = [tunnel EXCEPT ![i] = "connected"]
    /\ sig' = [sig EXCEPT ![i] = IF @ = "open" THEN "due" ELSE @]
    /\ UNCHANGED <<runVars, signalVars, error, looping, envVars>>

\* connectedSignal.Notify().  If the tunnel was restarted with a new signal in
\* the meantime, the old one is closed, which nobody waits for any more.
Notify(i) ==
    /\ sig[i] = "due"
    /\ sig' = [sig EXCEPT ![i] = "closed"]
    /\ UNCHANGED <<runVars, signalVars, tunnel, error, looping, envVars>>

Serving(i) == tunnel[i] \in {"serving", "connected"}

\* The goroutine has returned and blocks on s.tunnelErrors <- tunnelError{i, e}.
Send(i, e) ==
    /\ tunnel' = [tunnel EXCEPT ![i] = "sending"]
    /\ error' = [error EXCEPT ![i] = e]
    /\ looping' = (looping /\ i # First)
    /\ UNCHANGED <<runVars, signalVars, sig, envVars>>

\* The errors for which startFirstTunnel calls Serve again instead of returning;
\* Unauthorized is one of the transient ones.
FirstTunnelRetries(e) == e = "transient" \/ (e = "noAddressesLeft" /\ IsStaticEdge)

\* Serve fails while the context is alive: only startFirstTunnel tries again.
Retry ==
    /\ looping /\ Serving(First) /\ ~ctxDone
    /\ \E e \in Errors : FirstTunnelRetries(e)
    /\ tunnel' = [tunnel EXCEPT ![First] = "serving"]
    /\ UNCHANGED <<runVars, signalVars, error, sig, looping, envVars>>

Fail(i) ==
    /\ Serving(i)
    /\ \E e \in {"reconnect", "noAddressesLeft", "transient", "fatal"} :
          /\ i = First /\ looping => ~FirstTunnelRetries(e)
          /\ Send(i, e)

\* Serve sees the closed gracefulShutdownC.
Stop(i) == Serving(i) /\ shutdown /\ Send(i, "nil")

\* Serve sees the cancelled context.
Cancel(i) == Serving(i) /\ ctxDone /\ Send(i, "cancelled")

-----------------------------------------------------------------------------
\* initialize

Return ==
    /\ pc' = "returned"
    /\ UNCHANGED <<started, tunnelsActive, tunnelsWaiting, backoffTimer>>

Receive(i) ==
    /\ tunnel[i] = "sending"
    /\ tunnel' = [tunnel EXCEPT ![i] = "none"]

\* case <-ctx.Done(): <-s.tunnelErrors; return ctx.Err()
InitializeCancelled ==
    /\ pc = "initialize" /\ ctxDone
    /\ Receive(First)
    /\ Return
    /\ UNCHANGED <<signalVars, error, sig, looping, envVars>>

\* Run's loop is entered with every HA connection counted as active.
EnterLoop(n) ==
    /\ pc' = "loop"
    /\ tunnelsActive' = n
    /\ UNCHANGED <<tunnelsWaiting, backoffTimer>>

\* case tunnelError := <-s.tunnelErrors: return tunnelError.err, and Run takes
\* a nil for success.
InitializeEnded ==
    /\ pc = "initialize"
    /\ Receive(First)
    /\ IF error[First] = "nil" THEN EnterLoop(HAConnections) /\ UNCHANGED started ELSE Return
    /\ UNCHANGED <<signalVars, error, sig, looping, envVars>>

\* case <-s.gracefulShutdownC: return errEarlyShutdown
InitializeShutdown ==
    /\ pc = "initialize" /\ shutdown
    /\ Return
    /\ UNCHANGED <<signalVars, tunnelVars, envVars>>

\* case <-connectedSignal.Wait()
InitializeConnected ==
    /\ pc = "initialize" /\ sig[First] = "closed"
    /\ pc' = "starting"
    /\ UNCHANGED <<started, tunnelsActive, tunnelsWaiting, backoffTimer>>
    /\ UNCHANGED <<signalVars, tunnelVars, envVars>>

\* for i := 1; i < s.config.HAConnections; i++ { go s.startTunnel(...); sleep }
StartNext ==
    /\ pc = "starting" /\ started < HAConnections
    /\ Start({started})
    /\ NewSignals({started}, started)
    /\ started' = started + 1
    /\ UNCHANGED <<pc, tunnelsActive, tunnelsWaiting, backoffTimer>>
    /\ UNCHANGED <<shuttingDown, error, looping, envVars>>

Initialized ==
    /\ pc = "starting" /\ started = HAConnections
    /\ EnterLoop(HAConnections)
    /\ UNCHANGED <<started, signalVars, tunnelVars, envVars>>

-----------------------------------------------------------------------------
\* The select loop of Run

\* waitForNextTunnel(index): any other signal of the map is the next one.
WaitForNextTunnel(index) ==
    /\ tunnelsConnecting' = tunnelsConnecting \ {index}
    /\ IF tunnelsConnecting' = {} THEN nextConnectedIndex' = None
       ELSE nextConnectedIndex' \in tunnelsConnecting'

\* case <-ctx.Done()
ContextDone ==
    /\ pc = "loop" /\ ctxDone
    /\ pc' = "drain"
    /\ UNCHANGED <<started, tunnelsActive, tunnelsWaiting, backoffTimer>>
    /\ UNCHANGED <<signalVars, tunnelVars, envVars>>

\* for tunnelsActive > 0 { <-s.tunnelErrors; tunnelsActive-- }
Drain(i) ==
    /\ pc = "drain" /\ tunnelsActive > 0
    /\ Receive(i)
    /\ tunnelsActive' = tunnelsActive - 1
    /\ UNCHANGED <<pc, started, tunnelsWaiting, backoffTimer>>
    /\ UNCHANGED <<signalVars, error, sig, looping, envVars>>

Drained ==
    /\ pc = "drain" /\ tunnelsActive = 0
    /\ Return
    /\ UNCHANGED <<signalVars, tunnelVars, envVars>>

Restartable(i) == error[i] # "nil" /\ ~shuttingDown

\* mutant: the restarted tunnel is not counted.
ReconnectNowUncounted(i) ==
    /\ pc = "loop" /\ tunnel[i] = "sending"
    /\ Restartable(i) /\ error[i] = "reconnect"
    /\ Start({i}) /\ NewSignals({i}, i)
    /\ tunnelsActive' = tunnelsActive - 1
    /\ UNCHANGED <<pc, started, tunnelsWaiting, backoffTimer>>
    /\ UNCHANGED <<shuttingDown, error, looping, envVars>>

\* case tunnelError := <-s.tunnelErrors, of a ReconnectSignal: the tunnel is
\* started again at once, so the counter goes down and up.
ReconnectNow(i) ==
    /\ pc = "loop" /\ tunnel[i] = "sending"
    /\ Restartable(i) /\ error[i] = "reconnect"
    /\ Start({i}) /\ NewSignals({i}, i)
    /\ UNCHANGED <<runVars, shuttingDown, error, looping, envVars>>

\* mutant: the backoff timer is not armed.
ReconnectLaterUnarmed(i) ==
    /\ pc = "loop" /\ Receive(i)
    /\ Restartable(i) /\ error[i] # "reconnect" /\ ~ctxDone
    /\ tunnelsActive' = tunnelsActive - 1
    /\ tunnelsWaiting' = Append(tunnelsWaiting, i)
    /\ WaitForNextTunnel(i)
    /\ UNCHANGED <<pc, started, backoffTimer, shuttingDown, error, sig, looping, envVars>>

\* Of another error: the tunnel waits for the backoff timer.
ReconnectLater(i) ==
    /\ pc = "loop" /\ Receive(i)
    /\ Restartable(i) /\ error[i] # "reconnect" /\ ~ctxDone
    /\ tunnelsActive' = tunnelsActive - 1
    /\ tunnelsWaiting' = Append(tunnelsWaiting, i)
    /\ WaitForNextTunnel(i)
    /\ backoffTimer' = TRUE
    /\ UNCHANGED <<pc, started, shuttingDown, error, sig, looping, envVars>>

\* GetMaxBackoffDuration allows no retry once the context is cancelled.
GiveUp(i) ==
    /\ pc = "loop" /\ Receive(i)
    /\ Restartable(i) /\ error[i] # "reconnect" /\ ctxDone
    /\ tunnelsActive' = tunnelsActive - 1
    /\ UNCHANGED <<pc, started, tunnelsWaiting, backoffTimer>>
    /\ UNCHANGED <<signalVars, error, sig, looping, envVars>>

\* The tunnel ended gracefully, or during the shutdown: Run returns with the last.
Ended(i) ==
    /\ pc = "loop" /\ Receive(i)
    /\ ~Restartable(i)
    /\ tunnelsActive' = tunnelsActive - 1
    /\ pc' = IF tunnelsActive' = 0 THEN "returned" ELSE "loop"
    /\ UNCHANGED <<started, tunnelsWaiting, backoffTimer>>
    /\ UNCHANGED <<signalVars, error, sig, looping, envVars>>

Waiting == {tunnelsWaiting[k] : k \in DOMAIN tunnelsWaiting}

\* case <-backoffTimer: every waiting tunnel is started.
BackoffExpired ==
    /\ pc = "loop" /\ backoffTimer
    /\ backoffTimer' = FALSE
    /\ Start(Waiting)
    /\ NewSignals(Waiting, tunnelsWaiting[Len(tunnelsWaiting)])
    /\ tunnelsActive' = tunnelsActive + Len(tunnelsWaiting)
    /\ tunnelsWaiting' = <<>>
    /\ UNCHANGED <<pc, started, shuttingDown, error, looping, envVars>>

\* case <-s.nextConnectedSignal
TunnelConnected ==
    /\ pc = "loop"
    /\ nextConnectedIndex # None /\ sig[nextConnectedIndex] = "closed"
    /\ WaitForNextTunnel(nextConnectedIndex)
    /\ UNCHANGED <<runVars, shuttingDown, tunnelVars, envVars>>

\* backoff.SetGracePeriod(): no tunnel is outstanding.
SetsGracePeriod ==
    TunnelConnected /\ tunnelsConnecting' = {} /\ tunnelsWaiting = <<>>

\* case <-s.gracefulShutdownC
ShuttingDown ==
    /\ pc = "loop" /\ shutdown
    /\ shuttingDown' = TRUE
    /\ UNCHANGED <<runVars, tunnelsConnecting, nextConnectedIndex, tunnelVars, envVars>>

-----------------------------------------------------------------------------

\* The process is asked to stop, at once or after the grace period.
CancelContext ==
    /\ ~ctxDone /\ ctxDone' = TRUE
    /\ UNCHANGED <<runVars, signalVars, tunnelVars, shutdown, early>>

RequestShutdown ==
    /\ ~shutdown /\ shutdown' = TRUE
    /\ early' = (early \/ pc = "initialize")
    /\ UNCHANGED <<runVars, signalVars, tunnelVars, ctxDone>>

Initialize ==
    InitializeCancelled \/ InitializeEnded \/ InitializeShutdown \/ InitializeConnected
        \/ StartNext \/ Initialized

Loop ==
    \/ ContextDone \/ Drained
    \/ BackoffExpired \/ TunnelConnected \/ ShuttingDown
    \/ \E i \in Indexes :
          Drain(i) \/ ReconnectNow(i) \/ ReconnectLater(i) \/ GiveUp(i) \/ Ended(i)

Tunnel(i) == Connect(i) \/ Notify(i) \/ Fail(i) \/ Stop(i) \/ Cancel(i)

\* Run has returned; goroutines it left behind may go on until the process ends.
Returned == pc = "returned" /\ UNCHANGED vars

\* The drain waits for goroutines that initialize never started.
Blocked == pc = "drain" /\ early /\ UNCHANGED vars

Next ==
    \/ Initialize \/ Loop
    \/ Retry \/ \E i \in Indexes : Tunnel(i)
    \/ CancelContext \/ RequestShutdown
    \/ Returned \/ Blocked

\* A select chooses at random among the cases that are ready, so none of them is
\* passed over for ever; Serve itself selects on the context and the shutdown.
Fairness ==
    /\ WF_vars(Initialize) /\ WF_vars(Loop)
    /\ WF_vars(ContextDone) /\ WF_vars(ShuttingDown) /\ WF_vars(BackoffExpired)
    /\ \A i \in Indexes :
          WF_vars(Notify(i)) /\ WF_vars(Stop(i)) /\ WF_vars(Cancel(i))

Spec == Init /\ [][Next]_vars /\ Fairness

-----------------------------------------------------------------------------

\* Run's counter is the number of tunnel goroutines there are to wait for: if it
\* were larger, the drain would block for ever, if it were smaller, Run would
\* return with connections still open.  A shutdown before the first connection is
\* excepted: initialize returns nil then, and Run counts tunnels it never started.
ActiveCountsGoroutines ==
    (pc \in {"loop", "drain"} /\ ~early) => tunnelsActive = Cardinality({i \in Indexes : Live(i)})

\* An index waits for its restart once, while nothing runs under it, and with the
\* timer armed that will restart it: no HA connection gets two goroutines and
\* none is forgotten.
WaitingIsDown ==
    /\ \A j, k \in DOMAIN tunnelsWaiting : tunnelsWaiting[j] = tunnelsWaiting[k] => j = k
    /\ \A i \in Waiting : ~Live(i)
    /\ pc = "loop" => (backoffTimer <=> tunnelsWaiting # <<>>)

SignalIsOfAConnectingTunnel ==
    IF tunnelsConnecting = {} THEN nextConnectedIndex = None
    ELSE nextConnectedIndex \in tunnelsConnecting

\* The backoff is reset only when every tunnel that Run has started connected
\* after its last start.  Tunnel 0 is excepted while startFirstTunnel restarts it.
GraceWhenAllConnected ==
    [][SetsGracePeriod =>
         \A i \in Indexes : Live(i) /\ ~(i = First /\ looping) => sig[i] = "closed"]_vars

\* Run selects on a signal exactly as long as some tunnel is still expected to
\* connect, and it is the signal of such a tunnel; the backoff is reset when the
\* last of them has connected.
SignalsAreFollowed == []SignalIsOfAConnectingTunnel /\ GraceWhenAllConnected

\* Once the loop was entered, Run returns only after it has received the error of
\* every goroutine it had started.
ReturnsWhenAllEnded ==
    [][(pc \in {"loop", "drain"} /\ pc' = "returned") => \A i \in Indexes : ~Live(i)']_vars

\* Cancelling the context makes Run return, unless the shutdown came before the
\* first connection: then the drain may wait for tunnels that do not exist.
CancelReturns == ctxDone ~> (pc = "returned" \/ early)
\* The tunnels that wait for their restart are started again, unless Run returns:
\* the timer, which starts all of them, is armed whenever one waits.
WaitingRestarts == Waiting # {} ~> (Waiting = {} \/ pc \in {"drain", "returned"})

\* Run ends when it is canceled, and until then restarts what waits; and it ends
\* behind its goroutines (Run).
RunGoesOn == ReturnsWhenAllEnded /\ CancelReturns /\ WaitingRestarts
=============================================================================
