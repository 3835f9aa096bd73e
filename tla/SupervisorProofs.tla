-------------------------- MODULE SupervisorProofs --------------------------
(***************************************************************************)
(* The bookkeeping of Supervisor.Run, for every number of HA connections:  *)
(* its counter is the number of tunnel goroutines, and its slice of        *)
(* waiting tunnels has no tunnel that runs and none twice.  After a        *)
(* shutdown before the first connection the counter may be wrong, hence    *)
(* the history variable `early`.  And it follows the signals of the        *)
(* tunnels that connect, and returns behind the last of them.  Below, each *)
(* of these tunnels: what the tracker knows of it, and its protocol.       *)
(***************************************************************************)
EXTENDS Supervisor, EdgeTunnel, FiniteSetTheorems, TLAPS

LiveTunnels == {i \in Indexes : Live(i)}

Types ==
    /\ started \in 1..HAConnections
    /\ tunnelsActive \in Int
    /\ tunnelsWaiting \in Seq(Indexes)
    /\ tunnel \in [Indexes -> {"none", "serving", "connected", "sending"}]
    /\ error \in [Indexes -> Errors]

\* Until the loop is entered exactly the tunnels below `started` run: Run does not
\* receive what they send, and the first of them cannot have stopped gracefully.
BeforeLoop ==
    /\ pc \in {"initialize", "starting"} =>
          /\ \A i \in Indexes : Live(i) <=> i < started
          /\ tunnelsWaiting = <<>> /\ ~backoffTimer
    /\ pc = "initialize" =>
          /\ started = 1 /\ (shutdown => early)
          /\ (tunnel[First] = "sending" /\ ~early) => error[First] # "nil"

\* Even after an early shutdown the counter is not too small.
NoneUncounted ==
    pc \in {"loop", "drain"} => Cardinality(LiveTunnels) <= tunnelsActive

Bookkeeping ==
    Types /\ BeforeLoop /\ ActiveCountsGoroutines /\ NoneUncounted /\ WaitingIsDown

LEMMA IndexesAreFinite ==
    /\ HAConnections \in Nat \ {0} /\ IsFiniteSet(Indexes)
    /\ Cardinality(Indexes) = HAConnections
    /\ First \in Indexes
<1>1. HAConnections \in Nat \ {0}
    BY SupervisorAssumption DEF HAConnections
<1> QED BY <1>1, FS_Interval DEF Indexes, First

\* The sets of indexes one tunnel larger or smaller.
LEMMA OneMore ==
    ASSUME NEW S \in SUBSET Indexes, NEW i \in Indexes, i \notin S
    PROVE  Cardinality(S \cup {i}) = Cardinality(S) + 1
BY IndexesAreFinite, FS_Subset, FS_AddElement

LEMMA OneLess ==
    ASSUME NEW S \in SUBSET Indexes, NEW i \in S
    PROVE  Cardinality(S \ {i}) = Cardinality(S) - 1
BY IndexesAreFinite, FS_Subset, FS_RemoveElement

\* A slice without repetitions is as long as the set of its elements is large.
LEMMA WaitingLength ==
    ASSUME Types, WaitingIsDown
    PROVE  Cardinality(Waiting) = Len(tunnelsWaiting) /\ Waiting \subseteq Indexes
<1> DEFINE n == Len(tunnelsWaiting)
<1>1. n \in Nat /\ tunnelsWaiting \in [1..n -> Indexes] /\ DOMAIN tunnelsWaiting = 1..n
    BY DEF Types
<1>2. Waiting = {tunnelsWaiting[k] : k \in 1..n}
    BY <1>1 DEF Waiting
<1>3. tunnelsWaiting \in Bijection(1..n, Waiting)
    BY <1>1, <1>2 DEF WaitingIsDown, Bijection, Injection, Surjection, IsInjective
<1>4. Cardinality(Waiting) = n
    BY <1>1, <1>3, FS_CountingElements DEF ExistsBijection
<1> QED BY <1>1, <1>2, <1>4

LEMMA InitBookkeeping == Init => Bookkeeping
<1> SUFFICES ASSUME Init PROVE Bookkeeping
    OBVIOUS
<1> USE IndexesAreFinite
<1>1. Types /\ WaitingIsDown /\ ActiveCountsGoroutines /\ NoneUncounted
    BY DEF Init, Types, Errors, WaitingIsDown, Waiting, ActiveCountsGoroutines, NoneUncounted,
           Indexes
<1>2. BeforeLoop
    BY DEF Init, BeforeLoop, Live, Indexes, First
<1> QED BY <1>1, <1>2 DEF Bookkeeping

-----------------------------------------------------------------------------
\* What the steps of the tunnel goroutines and the environment have in common:
\* Run's variables stay, and no goroutine appears or is received from.
TunnelStep ==
    /\ UNCHANGED runVars
    /\ Types'
    /\ \A i \in Indexes : Live(i)' <=> Live(i)
    /\ early => early'
    /\ pc = "initialize" => BeforeLoop'

LEMMA TunnelStepKeeps ==
    ASSUME Bookkeeping, TunnelStep
    PROVE  Bookkeeping'
<1>1. /\ pc' = pc /\ started' = started /\ tunnelsActive' = tunnelsActive
      /\ tunnelsWaiting' = tunnelsWaiting /\ backoffTimer' = backoffTimer
    BY DEF TunnelStep, runVars
<1>2. LiveTunnels' = LiveTunnels /\ Waiting' = Waiting
    BY <1>1 DEF TunnelStep, LiveTunnels, Waiting
<1>3. BeforeLoop'
    BY <1>1 DEF Bookkeeping, BeforeLoop, TunnelStep
<1>4. ActiveCountsGoroutines' /\ NoneUncounted'
    BY <1>1, <1>2
    DEF Bookkeeping, ActiveCountsGoroutines, NoneUncounted, LiveTunnels, TunnelStep
<1>5. WaitingIsDown'
  <2>1. Waiting \subseteq Indexes
    BY WaitingLength DEF Bookkeeping
  <2> QED BY <1>1, <1>2, <2>1 DEF Bookkeeping, WaitingIsDown, TunnelStep
<1> QED BY <1>3, <1>4, <1>5 DEF Bookkeeping, TunnelStep

\* Send sets what will be received, and does not receive it.
LEMMA SendIsTunnelStep ==
    ASSUME Bookkeeping, NEW i \in Indexes, NEW e \in Errors, Serving(i), Send(i, e),
           (pc = "initialize" /\ ~early) => e # "nil"
    PROVE  TunnelStep
<1>1. UNCHANGED runVars /\ shutdown' = shutdown /\ early' = early
    BY DEF Send, envVars
<1>2. Types'
    BY <1>1 DEF Bookkeeping, Types, Send, runVars
<1>3. \A j \in Indexes : Live(j)' <=> Live(j)
    BY DEF Bookkeeping, Types, Send, Serving, Live
<1>4. ASSUME pc = "initialize" PROVE BeforeLoop'
  <2>1. pc' = pc /\ started' = started /\ tunnelsWaiting' = tunnelsWaiting
        /\ backoffTimer' = backoffTimer
    BY <1>1 DEF runVars
  <2>2. (tunnel'[First] = "sending" /\ ~early') => error'[First] # "nil"
    BY <1>1, <1>4, IndexesAreFinite DEF Bookkeeping, BeforeLoop, Types, Send
  <2> QED BY <1>1, <1>3, <1>4, <2>1, <2>2 DEF Bookkeeping, BeforeLoop
<1> QED BY <1>1, <1>2, <1>3, <1>4 DEF TunnelStep

\* The goroutines' own steps and those of the environment.
LEMMA TunnelSteps ==
    ASSUME Bookkeeping,
           \/ Retry \/ \E i \in Indexes : Tunnel(i)
           \/ CancelContext \/ RequestShutdown \/ TunnelConnected \/ ShuttingDown
           \/ UNCHANGED vars
    PROVE  Bookkeeping'
<1> USE IndexesAreFinite
<1>1. ASSUME NEW i \in Indexes, Connect(i) PROVE TunnelStep
  <2>1. UNCHANGED runVars /\ error' = error /\ shutdown' = shutdown /\ early' = early
        /\ tunnel[i] = "serving" /\ tunnel' = [tunnel EXCEPT ![i] = "connected"]
    BY <1>1 DEF Connect, envVars
  <2> QED BY <2>1 DEF TunnelStep, runVars, Bookkeeping, BeforeLoop, Types, Live
<1>2. CASE Retry
  <2>1. UNCHANGED runVars /\ error' = error /\ shutdown' = shutdown /\ early' = early
        /\ Serving(First) /\ tunnel' = [tunnel EXCEPT ![First] = "serving"]
    BY <1>2 DEF Retry, envVars
  <2> QED BY <2>1, TunnelStepKeeps
          DEF TunnelStep, runVars, Bookkeeping, BeforeLoop, Types, Live, Serving
<1>3. ASSUME NEW i \in Indexes, Fail(i) PROVE TunnelStep
    BY <1>3, SendIsTunnelStep DEF Fail, Errors
<1>4. ASSUME NEW i \in Indexes, Stop(i) PROVE TunnelStep
    BY <1>4, SendIsTunnelStep DEF Stop, Errors, Bookkeeping, BeforeLoop
<1>5. ASSUME NEW i \in Indexes, Cancel(i) PROVE TunnelStep
    BY <1>5, SendIsTunnelStep DEF Cancel, Errors
<1>6. ASSUME UNCHANGED <<runVars, tunnel, error>>, early => early',
             pc = "initialize" => (shutdown' => early')
      PROVE  Bookkeeping'
  <2>1. TunnelStep
    BY <1>6 DEF TunnelStep, runVars, Bookkeeping, BeforeLoop, Types, Live
  <2> QED BY <2>1, TunnelStepKeeps
<1>7. ASSUME NEW i \in Indexes, Notify(i) PROVE Bookkeeping'
    BY <1>6, <1>7 DEF Notify, envVars, Bookkeeping, BeforeLoop
<1>8. CASE CancelContext
    BY <1>6, <1>8 DEF CancelContext, tunnelVars, Bookkeeping, BeforeLoop
<1>9. CASE RequestShutdown
    BY <1>6, <1>9 DEF RequestShutdown, tunnelVars
<1>10. CASE TunnelConnected
    BY <1>6, <1>10 DEF TunnelConnected, tunnelVars, envVars, Bookkeeping, BeforeLoop
<1>11. CASE ShuttingDown
    BY <1>6, <1>11 DEF ShuttingDown, tunnelVars, envVars, Bookkeeping, BeforeLoop
<1>12. CASE UNCHANGED vars
    BY <1>6, <1>12 DEF vars, tunnelVars, envVars, Bookkeeping, BeforeLoop
<1> QED
    BY <1>1, <1>2, <1>3, <1>4, <1>5, <1>7, <1>8, <1>9, <1>10, <1>11, <1>12, TunnelStepKeeps
    DEF Tunnel

-----------------------------------------------------------------------------
\* The steps of initialize: no tunnel waits, and those below `started` run.
LEMMA InitializeSteps ==
    ASSUME Bookkeeping, Initialize
    PROVE  Bookkeeping'
<1> USE IndexesAreFinite
<1>0. /\ pc \in {"initialize", "starting"} /\ tunnelsWaiting = <<>> /\ ~backoffTimer
      /\ tunnelsWaiting' = <<>> /\ backoffTimer' = FALSE
      /\ \A i \in Indexes : Live(i) <=> i < started
    BY DEF Bookkeeping, BeforeLoop, Initialize, InitializeCancelled, InitializeEnded,
           InitializeShutdown, InitializeConnected, StartNext, Initialized, Return, EnterLoop
<1>1. WaitingIsDown'
    BY <1>0 DEF WaitingIsDown, Waiting
<1>2. ASSUME InitializeCancelled \/ InitializeEnded
      PROVE  Bookkeeping'
  <2>1. pc' = "returned" \/ (pc' = "loop" /\ early' /\ tunnelsActive' = HAConnections)
    BY <1>2, <1>0
    DEF InitializeCancelled, InitializeEnded, Return, EnterLoop, Receive, envVars,
        Bookkeeping, BeforeLoop
  <2>2. Types'
    BY <1>2, <2>1 DEF InitializeCancelled, InitializeEnded, Return, EnterLoop, Receive,
                      Bookkeeping, Types
  <2>3. NoneUncounted'
    BY <2>1, FS_Subset DEF NoneUncounted, LiveTunnels
  <2> QED BY <1>1, <2>1, <2>2, <2>3 DEF Bookkeeping, BeforeLoop, ActiveCountsGoroutines
<1>3. ASSUME InitializeShutdown
      PROVE  Bookkeeping'
  <2>1. pc' = "returned" /\ Types'
    BY <1>3 DEF InitializeShutdown, Return, tunnelVars, Bookkeeping, Types
  <2> QED BY <1>1, <2>1 DEF Bookkeeping, BeforeLoop, ActiveCountsGoroutines, NoneUncounted
<1>4. ASSUME InitializeConnected
      PROVE  Bookkeeping'
  <2>1. pc' = "starting" /\ tunnel' = tunnel /\ started' = started /\ Types'
    BY <1>4 DEF InitializeConnected, tunnelVars, Bookkeeping, Types
  <2> QED BY <1>0, <1>1, <2>1
          DEF Bookkeeping, BeforeLoop, ActiveCountsGoroutines, NoneUncounted, Live
<1>5. ASSUME StartNext
      PROVE  Bookkeeping'
  <2>1. /\ pc' = "starting" /\ started < HAConnections /\ started' = started + 1
        /\ tunnel' = [i \in Indexes |-> IF i = started THEN "serving" ELSE tunnel[i]]
        /\ UNCHANGED <<tunnelsActive, tunnelsWaiting, error>>
    BY <1>5 DEF StartNext, Start
  <2>2. Types'
    BY <2>1 DEF Bookkeeping, Types
  <2>3. \A i \in Indexes : Live(i)' <=> i < started'
    BY <1>0, <2>1 DEF Live, Bookkeeping, Types, Indexes
  <2> QED BY <1>0, <1>1, <2>1, <2>2, <2>3
          DEF Bookkeeping, BeforeLoop, ActiveCountsGoroutines, NoneUncounted
<1>6. ASSUME Initialized
      PROVE  Bookkeeping'
  <2>1. /\ pc' = "loop" /\ started = HAConnections /\ tunnelsActive' = HAConnections
        /\ UNCHANGED <<started, tunnel, error, tunnelsWaiting>>
    BY <1>6 DEF Initialized, EnterLoop, tunnelVars
  <2>2. LiveTunnels' = Indexes
    BY <1>0, <2>1 DEF LiveTunnels, Live, Indexes
  <2>3. Types'
    BY <2>1 DEF Bookkeeping, Types
  <2>4. ActiveCountsGoroutines' /\ NoneUncounted'
    BY <2>1, <2>2 DEF ActiveCountsGoroutines, NoneUncounted, LiveTunnels
  <2> QED BY <1>1, <2>1, <2>3, <2>4 DEF Bookkeeping, BeforeLoop
<1> QED BY <1>2, <1>3, <1>4, <1>5, <1>6 DEF Initialize

\* Receiving the error of a goroutine takes it out of the live ones.
LEMMA Received ==
    ASSUME Bookkeeping, pc \in {"loop", "drain"}, NEW i \in Indexes, Receive(i), early' = early,
           tunnelsActive' = tunnelsActive - 1, error' = error, started' = started,
           pc' \in {"loop", "drain", "returned"},
           \/ UNCHANGED <<tunnelsWaiting, backoffTimer>> /\ (pc' = "loop" => pc = "loop")
           \/ tunnelsWaiting' = Append(tunnelsWaiting, i) /\ backoffTimer'
    PROVE  Bookkeeping'
<1> USE IndexesAreFinite
<1>1. /\ LiveTunnels \in SUBSET Indexes /\ i \in LiveTunnels
      /\ LiveTunnels' = LiveTunnels \ {i} /\ (~early => tunnelsActive = Cardinality(LiveTunnels))
      /\ Cardinality(LiveTunnels) <= tunnelsActive
    BY DEF Bookkeeping, Types, ActiveCountsGoroutines, NoneUncounted, LiveTunnels, Live, Receive
<1>2. ActiveCountsGoroutines' /\ NoneUncounted'
  <2>1. Cardinality(LiveTunnels') = Cardinality(LiveTunnels) - 1 /\ Cardinality(LiveTunnels) \in Nat
    BY <1>1, OneLess, FS_Subset, FS_CardinalityType
  <2>2. tunnelsActive \in Int
    BY DEF Bookkeeping, Types
  <2>3. NoneUncounted'
    BY <1>1, <2>1, <2>2 DEF NoneUncounted
  <2> QED BY <1>1, <2>1, <2>3 DEF ActiveCountsGoroutines, LiveTunnels
<1>3. Types'
    BY DEF Bookkeeping, Types, Receive
<1>4. BeforeLoop'
    BY DEF BeforeLoop
<1>5. Waiting \subseteq Indexes /\ i \notin Waiting /\ \A j \in Waiting : ~Live(j)'
  <2>1. Waiting \subseteq Indexes
    BY WaitingLength DEF Bookkeeping
  <2> QED BY <1>1, <2>1 DEF Bookkeeping, WaitingIsDown, LiveTunnels
<1>6. CASE UNCHANGED <<tunnelsWaiting, backoffTimer>> /\ (pc' = "loop" => pc = "loop")
  <2>1. Waiting' = Waiting
    BY <1>6 DEF Waiting
  <2> QED BY <1>2, <1>3, <1>4, <1>5, <1>6, <2>1 DEF Bookkeeping, WaitingIsDown
<1>7. CASE tunnelsWaiting' = Append(tunnelsWaiting, i) /\ backoffTimer'
  <2>1. Waiting' = Waiting \cup {i} /\ tunnelsWaiting' # <<>>
    BY <1>7 DEF Waiting, Bookkeeping, Types
  <2>2. \A j, k \in DOMAIN tunnelsWaiting' :
            tunnelsWaiting'[j] = tunnelsWaiting'[k] => j = k
    BY <1>5, <1>7 DEF Bookkeeping, Types, WaitingIsDown, Waiting
  <2>3. \A j \in Waiting' : ~Live(j)'
    BY <1>1, <1>5, <2>1 DEF LiveTunnels
  <2> QED BY <1>2, <1>3, <1>4, <1>7, <2>1, <2>2, <2>3 DEF Bookkeeping, WaitingIsDown
<1> QED BY <1>6, <1>7

\* The restart of the tunnels that wait: they were down, each once in the slice.
LEMMA BackoffExpiredKeeps ==
    ASSUME Bookkeeping, BackoffExpired
    PROVE  Bookkeeping'
<1> USE IndexesAreFinite
<1>1. /\ pc = "loop" /\ pc' = "loop" /\ backoffTimer' = FALSE /\ tunnelsWaiting' = <<>>
      /\ tunnelsActive' = tunnelsActive + Len(tunnelsWaiting)
      /\ tunnel' = [i \in Indexes |-> IF i \in Waiting THEN "serving" ELSE tunnel[i]]
      /\ started' = started /\ error' = error /\ early' = early
    BY DEF BackoffExpired, Start, envVars
<1>2. Waiting \subseteq Indexes /\ Cardinality(Waiting) = Len(tunnelsWaiting)
    BY WaitingLength DEF Bookkeeping
<1>3. /\ LiveTunnels \subseteq Indexes /\ LiveTunnels \cap Waiting = {}
      /\ LiveTunnels' = LiveTunnels \cup Waiting
    BY <1>1, <1>2 DEF LiveTunnels, Live, Bookkeeping, WaitingIsDown, Types
<1>4. IsFiniteSet(LiveTunnels) /\ IsFiniteSet(Waiting)
    BY <1>2, <1>3, FS_Subset
<1>5. Cardinality(LiveTunnels \cup Waiting) = Cardinality(LiveTunnels) + Cardinality(Waiting)
  <2>1. Cardinality(LiveTunnels \cap Waiting) = 0
    BY <1>3, FS_EmptySet, Zenon
  <2>2. Cardinality(LiveTunnels) \in Nat /\ Cardinality(Waiting) \in Nat
    BY <1>4, FS_CardinalityType
  <2>3. /\ Cardinality(LiveTunnels \cup Waiting)
              = Cardinality(LiveTunnels) + Cardinality(Waiting) - Cardinality(LiveTunnels \cap Waiting)
    BY <1>4, FS_Union
  <2> QED BY <2>1, <2>2, <2>3
<1>6. ActiveCountsGoroutines' /\ NoneUncounted'
  <2>1. ~early => tunnelsActive = Cardinality(LiveTunnels)
    BY <1>1 DEF Bookkeeping, ActiveCountsGoroutines, LiveTunnels
  <2>2. ~early' => tunnelsActive' = Cardinality(LiveTunnels')
    BY <1>1, <1>2, <1>3, <1>5, <2>1
  <2>3. Cardinality(LiveTunnels') <= tunnelsActive'
    <3>1. Cardinality(LiveTunnels) <= tunnelsActive
      BY <1>1 DEF Bookkeeping, NoneUncounted
    <3>2. tunnelsActive \in Int /\ Cardinality(LiveTunnels) \in Nat /\ Len(tunnelsWaiting) \in Nat
      BY <1>4, FS_CardinalityType DEF Bookkeeping, Types
    <3> QED BY <1>1, <1>2, <1>3, <1>5, <3>1, <3>2
  <2> QED BY <2>2, <2>3 DEF ActiveCountsGoroutines, NoneUncounted, LiveTunnels
<1>7. Types'
    BY <1>1, <1>2 DEF Bookkeeping, Types
<1>8. WaitingIsDown'
    BY <1>1 DEF WaitingIsDown, Waiting
<1> QED BY <1>1, <1>6, <1>7, <1>8 DEF Bookkeeping, BeforeLoop

\* A tunnel restarted at once goes from one goroutine to another.
LEMMA ReconnectNowKeeps ==
    ASSUME Bookkeeping, NEW i \in Indexes, ReconnectNow(i)
    PROVE  Bookkeeping'
<1>1. /\ pc = "loop" /\ UNCHANGED runVars /\ error' = error /\ early' = early /\ tunnel[i] = "sending"
      /\ tunnel' = [j \in Indexes |-> IF j \in {i} THEN "serving" ELSE tunnel[j]]
    BY DEF ReconnectNow, Start, envVars
<1>2. Types' /\ \A j \in Indexes : Live(j)' <=> Live(j)
    BY <1>1 DEF Bookkeeping, Types, Live, runVars
<1> QED BY <1>1, <1>2, TunnelStepKeeps DEF TunnelStep

\* The select loop and the drain.
LEMMA LoopSteps ==
    ASSUME Bookkeeping, Loop
    PROVE  Bookkeeping'
<1>1. ASSUME ContextDone \/ Drained PROVE Bookkeeping'
  <2>1. /\ pc' \in {"drain", "returned"} /\ pc \in {"loop", "drain"}
        /\ UNCHANGED <<started, tunnelsActive, tunnelsWaiting, tunnel, error, early>>
    BY <1>1 DEF ContextDone, Drained, Return, tunnelVars, envVars
  <2>2. Types' /\ Waiting' = Waiting /\ LiveTunnels' = LiveTunnels
    BY <2>1 DEF Bookkeeping, Types, Waiting, LiveTunnels, Live
  <2>3. WaitingIsDown'
    BY <2>1, <2>2 DEF Bookkeeping, WaitingIsDown, Live
  <2>4. BeforeLoop'
    BY <2>1 DEF BeforeLoop
  <2>5. ActiveCountsGoroutines' /\ NoneUncounted'
    BY <2>1, <2>2 DEF Bookkeeping, ActiveCountsGoroutines, NoneUncounted, LiveTunnels
  <2> QED BY <2>2, <2>3, <2>4, <2>5 DEF Bookkeeping
<1>2. ASSUME NEW i \in Indexes, Drain(i) PROVE Bookkeeping'
    BY <1>2, Received DEF Drain, envVars
<1>3. ASSUME NEW i \in Indexes, ReconnectLater(i) PROVE Bookkeeping'
    BY <1>3, Received DEF ReconnectLater, envVars
<1>4. ASSUME NEW i \in Indexes, GiveUp(i) PROVE Bookkeeping'
    BY <1>4, Received DEF GiveUp, envVars
<1>5. ASSUME NEW i \in Indexes, Ended(i) PROVE Bookkeeping'
    BY <1>5, Received DEF Ended, envVars
<1> QED
    BY <1>1, <1>2, <1>3, <1>4, <1>5, BackoffExpiredKeeps, ReconnectNowKeeps, TunnelSteps
    DEF Loop

LEMMA NextBookkeeping ==
    ASSUME Bookkeeping, [Next]_vars
    PROVE  Bookkeeping'
BY InitializeSteps, LoopSteps, TunnelSteps DEF Next, Returned, Blocked

-----------------------------------------------------------------------------
\* The signals that tell Run of connected tunnels.  From the first connection on, a
\* tunnel that runs is one whose signal is still in the map, or was closed.
Expected ==
    pc \in {"starting", "loop"} =>
        \A i \in Indexes : Live(i) => i \in tunnelsConnecting \/ sig[i] = "closed"

Signals ==
    /\ sig \in [Indexes -> {"open", "due", "closed"}]
    /\ SignalIsOfAConnectingTunnel
    /\ Expected

LEMMA InitSignals == Init => Signals
BY DEF Init, Signals, SignalIsOfAConnectingTunnel, Expected

\* New signals are open, and Run selects on one of them.
LEMMA NewSignalsKeep ==
    ASSUME Signals, NEW S \in SUBSET Indexes, NEW last \in S, NewSignals(S, last),
           \A i \in Indexes \ S : Live(i)' => Live(i),
           pc' \in {"starting", "loop"} => pc \in {"starting", "loop"}
    PROVE  Signals'
<1>1. /\ sig' = [i \in Indexes |-> IF i \in S THEN "open" ELSE sig[i]]
      /\ tunnelsConnecting' = tunnelsConnecting \cup S /\ nextConnectedIndex' = last
    BY DEF NewSignals
<1>2. SignalIsOfAConnectingTunnel'
    BY <1>1 DEF SignalIsOfAConnectingTunnel
<1>3. Expected'
    BY <1>1 DEF Signals, Expected
<1>4. (sig \in [Indexes -> {"open", "due", "closed"}])'
    BY <1>1 DEF Signals
<1> QED BY <1>2, <1>3, <1>4 DEF Signals

\* Taking a tunnel out of the map when it does not run, or has connected.
LEMMA WaitForNextTunnelKeeps ==
    ASSUME Signals, NEW index, WaitForNextTunnel(index), sig' = sig,
           \A i \in Indexes : Live(i)' => Live(i),
           index \in Indexes => (~Live(index)' \/ sig[index] = "closed"),
           pc = "loop"
    PROVE  Signals'
<1>1. tunnelsConnecting' = tunnelsConnecting \ {index}
    BY DEF WaitForNextTunnel
<1>2. SignalIsOfAConnectingTunnel'
    BY DEF WaitForNextTunnel, SignalIsOfAConnectingTunnel
<1>3. Expected'
    BY <1>1 DEF Signals, Expected
<1> QED BY <1>2, <1>3 DEF Signals

\* Every other step leaves the map as it is, closes signals and starts no tunnel.
LEMMA OtherStepsKeepSignals ==
    ASSUME Signals, UNCHANGED <<tunnelsConnecting, nextConnectedIndex>>,
           sig' \in [Indexes -> {"open", "due", "closed"}],
           \A i \in Indexes : sig[i] = "closed" => sig'[i] = "closed",
           \A i \in Indexes : Live(i)' => Live(i),
           \/ pc' \in {"starting", "loop"} => pc \in {"starting", "loop"}
           \/ \A i \in Indexes : Live(i)' => sig[i] = "closed"
    PROVE  Signals'
<1>1. SignalIsOfAConnectingTunnel'
    BY DEF Signals, SignalIsOfAConnectingTunnel
<1>2. Expected'
    BY DEF Signals, Expected
<1> QED BY <1>1, <1>2 DEF Signals

LEMMA InitializeKeepsSignals ==
    ASSUME Bookkeeping, Signals, Initialize
    PROVE  Signals'
<1> USE IndexesAreFinite
<1>0. (pc \in {"initialize", "starting"}) /\ \A i \in Indexes : Live(i) <=> i < started
    BY DEF Bookkeeping, BeforeLoop, Initialize, InitializeCancelled, InitializeEnded,
           InitializeShutdown, InitializeConnected, StartNext, Initialized
<1>1. CASE InitializeCancelled \/ InitializeEnded
  <2>1. /\ UNCHANGED <<tunnelsConnecting, nextConnectedIndex, sig>> /\ Receive(First)
        /\ pc = "initialize"
    BY <1>1 DEF InitializeCancelled, InitializeEnded, signalVars
  <2>2. \A i \in Indexes : Live(i) => i = First
    BY <1>0, <2>1 DEF Bookkeeping, BeforeLoop, Indexes, First
  <2>3. \A i \in Indexes : ~Live(i)'
    BY <2>1, <2>2 DEF Receive, Live, Bookkeeping, Types
  <2> QED BY <2>1, <2>3, OtherStepsKeepSignals DEF Signals
<1>2. CASE InitializeShutdown
  <2>1. /\ UNCHANGED <<tunnelsConnecting, nextConnectedIndex, sig, tunnel>> /\ pc' = "returned"
    BY <1>2 DEF InitializeShutdown, signalVars, tunnelVars, Return
  <2> QED BY <2>1, OtherStepsKeepSignals DEF Signals, Live
<1>3. CASE InitializeConnected
  <2>1. /\ UNCHANGED <<tunnelsConnecting, nextConnectedIndex, sig, tunnel>>
        /\ pc = "initialize" /\ sig[First] = "closed"
    BY <1>3 DEF InitializeConnected, signalVars, tunnelVars
  <2>2. \A i \in Indexes : Live(i) => i = First
    BY <1>0, <2>1 DEF Bookkeeping, BeforeLoop, Indexes, First
  <2> QED BY <2>1, <2>2, OtherStepsKeepSignals DEF Signals, Live
<1>4. CASE StartNext
  <2>1. /\ pc = "starting" /\ started \in Indexes
        /\ tunnel' = [i \in Indexes |-> IF i \in {started} THEN "serving" ELSE tunnel[i]]
        /\ NewSignals({started}, started)
    BY <1>4 DEF StartNext, Start, Bookkeeping, Types, Indexes
  <2>2. \A i \in Indexes \ {started} : Live(i)' => Live(i)
    BY <2>1 DEF Live
  <2> QED BY <2>1, <2>2, NewSignalsKeep
<1>5. CASE Initialized
  <2>1. /\ UNCHANGED <<tunnelsConnecting, nextConnectedIndex, sig, tunnel>> /\ pc = "starting"
    BY <1>5 DEF Initialized, signalVars, tunnelVars
  <2> QED BY <2>1, OtherStepsKeepSignals DEF Signals, Live
<1> QED BY <1>1, <1>2, <1>3, <1>4, <1>5 DEF Initialize

LEMMA LoopKeepsSignals ==
    ASSUME Bookkeeping, Signals, Loop
    PROVE  Signals'
<1>0. ASSUME NEW i \in Indexes, Receive(i)
      PROVE  ~Live(i)' /\ \A j \in Indexes : Live(j)' => Live(j)
    BY <1>0 DEF Receive, Live, Bookkeeping, Types
<1>1. CASE ContextDone \/ Drained
  <2>1. /\ UNCHANGED <<tunnelsConnecting, nextConnectedIndex, sig, tunnel>>
        /\ pc' \in {"drain", "returned"}
    BY <1>1 DEF ContextDone, Drained, Return, signalVars, tunnelVars
  <2> QED BY <2>1, OtherStepsKeepSignals DEF Signals, Live
<1>2. CASE ShuttingDown
  <2>1. UNCHANGED <<tunnelsConnecting, nextConnectedIndex, sig, tunnel, pc>>
    BY <1>2 DEF ShuttingDown, runVars, tunnelVars
  <2> QED BY <2>1, OtherStepsKeepSignals DEF Signals, Live
<1>3. CASE BackoffExpired
  <2>1. /\ pc = "loop" /\ pc' = "loop" /\ backoffTimer
        /\ tunnel' = [i \in Indexes |-> IF i \in Waiting THEN "serving" ELSE tunnel[i]]
        /\ NewSignals(Waiting, tunnelsWaiting[Len(tunnelsWaiting)])
    BY <1>3 DEF BackoffExpired, Start
  <2>2. tunnelsWaiting # <<>> /\ tunnelsWaiting \in Seq(Indexes)
    BY <2>1 DEF Bookkeeping, WaitingIsDown, Types
  <2>3. Waiting \subseteq Indexes /\ tunnelsWaiting[Len(tunnelsWaiting)] \in Waiting
    BY <2>2, WaitingLength DEF Waiting, Bookkeeping
  <2>4. \A i \in Indexes \ Waiting : Live(i)' => Live(i)
    BY <2>1 DEF Live
  <2> QED BY <2>1, <2>3, <2>4, NewSignalsKeep
<1>4. CASE TunnelConnected
  <2>1. /\ pc = "loop" /\ sig[nextConnectedIndex] = "closed" /\ sig' = sig /\ tunnel' = tunnel
        /\ WaitForNextTunnel(nextConnectedIndex)
    BY <1>4 DEF TunnelConnected, tunnelVars
  <2> QED BY <2>1, WaitForNextTunnelKeeps DEF Live
<1>5. ASSUME NEW i \in Indexes, Drain(i) \/ GiveUp(i) \/ Ended(i) PROVE Signals'
  <2>1. /\ UNCHANGED <<tunnelsConnecting, nextConnectedIndex, sig>> /\ Receive(i)
        /\ pc' \in {"starting", "loop"} => pc \in {"starting", "loop"}
    BY <1>5 DEF Drain, GiveUp, Ended, signalVars
  <2> QED BY <1>0, <2>1, OtherStepsKeepSignals DEF Signals
<1>6. ASSUME NEW i \in Indexes, ReconnectNow(i) PROVE Signals'
  <2>1. /\ pc = "loop" /\ NewSignals({i}, i)
        /\ tunnel' = [j \in Indexes |-> IF j \in {i} THEN "serving" ELSE tunnel[j]]
    BY <1>6 DEF ReconnectNow, Start
  <2>2. \A j \in Indexes \ {i} : Live(j)' => Live(j)
    BY <2>1 DEF Live
  <2> QED BY <2>1, <2>2, NewSignalsKeep
<1>7. ASSUME NEW i \in Indexes, ReconnectLater(i) PROVE Signals'
  <2>1. pc = "loop" /\ Receive(i) /\ WaitForNextTunnel(i) /\ sig' = sig
    BY <1>7 DEF ReconnectLater
  <2> QED BY <1>0, <2>1, WaitForNextTunnelKeeps
<1> QED BY <1>1, <1>2, <1>3, <1>4, <1>5, <1>6, <1>7 DEF Loop

LEMMA TunnelsKeepSignals ==
    ASSUME Bookkeeping, Signals,
           \/ Retry \/ \E i \in Indexes : Tunnel(i)
           \/ CancelContext \/ RequestShutdown \/ UNCHANGED vars
    PROVE  Signals'
<1> USE IndexesAreFinite
<1>1. ASSUME NEW i \in Indexes, Connect(i) PROVE Signals'
  <2>1. /\ UNCHANGED <<tunnelsConnecting, nextConnectedIndex, pc>> /\ tunnel[i] = "serving"
        /\ tunnel' = [tunnel EXCEPT ![i] = "connected"]
        /\ sig' = [sig EXCEPT ![i] = IF @ = "open" THEN "due" ELSE @]
    BY <1>1 DEF Connect, runVars, signalVars
  <2>2. \A j \in Indexes : Live(j)' => Live(j)
    BY <2>1 DEF Live, Bookkeeping, Types
  <2>3. /\ sig' \in [Indexes -> {"open", "due", "closed"}]
        /\ \A j \in Indexes : sig[j] = "closed" => sig'[j] = "closed"
    BY <2>1 DEF Signals
  <2> QED BY <2>1, <2>2, <2>3, OtherStepsKeepSignals
<1>2. ASSUME NEW i \in Indexes, Notify(i) PROVE Signals'
  <2>1. /\ UNCHANGED <<tunnelsConnecting, nextConnectedIndex, pc, tunnel>>
        /\ sig' = [sig EXCEPT ![i] = "closed"]
    BY <1>2 DEF Notify, runVars, signalVars
  <2>2. /\ sig' \in [Indexes -> {"open", "due", "closed"}]
        /\ \A j \in Indexes : sig[j] = "closed" => sig'[j] = "closed"
    BY <2>1 DEF Signals
  <2> QED BY <2>1, <2>2, OtherStepsKeepSignals DEF Live
<1>3. ASSUME NEW i \in Indexes, NEW e \in Errors, Serving(i), Send(i, e) PROVE Signals'
  <2>1. /\ UNCHANGED <<tunnelsConnecting, nextConnectedIndex, pc, sig>>
        /\ tunnel' = [tunnel EXCEPT ![i] = "sending"]
    BY <1>3 DEF Send, runVars, signalVars
  <2>2. \A j \in Indexes : Live(j)' => Live(j)
    BY <1>3, <2>1 DEF Live, Serving, Bookkeeping, Types
  <2> QED BY <2>1, <2>2, OtherStepsKeepSignals DEF Signals
<1>4. ASSUME NEW i \in Indexes, Fail(i) \/ Stop(i) \/ Cancel(i) PROVE Signals'
    BY <1>3, <1>4 DEF Fail, Stop, Cancel, Errors
<1>5. CASE Retry
  <2>1. /\ UNCHANGED <<tunnelsConnecting, nextConnectedIndex, pc, sig>> /\ Serving(First)
        /\ tunnel' = [tunnel EXCEPT ![First] = "serving"]
    BY <1>5 DEF Retry, runVars, signalVars
  <2>2. \A j \in Indexes : Live(j)' => Live(j)
    BY <2>1 DEF Live, Serving, Bookkeeping, Types
  <2> QED BY <2>1, <2>2, OtherStepsKeepSignals DEF Signals
<1>6. CASE CancelContext \/ RequestShutdown \/ UNCHANGED vars
  <2>1. UNCHANGED <<tunnelsConnecting, nextConnectedIndex, pc, sig, tunnel>>
    BY <1>6 DEF CancelContext, RequestShutdown, vars, runVars, signalVars, tunnelVars
  <2> QED BY <2>1, OtherStepsKeepSignals DEF Signals, Live
<1> QED BY <1>1, <1>2, <1>4, <1>5, <1>6 DEF Tunnel

LEMMA NextSignals ==
    ASSUME Bookkeeping, Signals, [Next]_vars
    PROVE  Signals'
BY InitializeKeepsSignals, LoopKeepsSignals, TunnelsKeepSignals DEF Next, Returned, Blocked

\* When the signal Run selects on was the last of the map, every tunnel that runs
\* has closed its own.
LEMMA GraceIsDeserved ==
    ASSUME Bookkeeping, Signals, SetsGracePeriod, NEW i \in Indexes, Live(i)
    PROVE  sig[i] = "closed"
<1>1. /\ pc = "loop" /\ sig[nextConnectedIndex] = "closed"
      /\ tunnelsConnecting \ {nextConnectedIndex} = {}
    BY DEF SetsGracePeriod, TunnelConnected, WaitForNextTunnel
<1> QED BY <1>1 DEF Signals, Expected

\* Run leaves the loop and the drain with the counter at zero.
LEMMA ReturnsAtZero ==
    ASSUME Bookkeeping, Bookkeeping', Next, pc \in {"loop", "drain"}, pc' = "returned",
           NEW i \in Indexes
    PROVE  ~Live(i)'
<1> USE IndexesAreFinite
<1>0. LiveTunnels \subseteq Indexes /\ Cardinality(LiveTunnels) <= tunnelsActive
    BY DEF LiveTunnels, Bookkeeping, NoneUncounted
<1>1. CASE Drained
  <2>1. tunnelsActive = 0 /\ tunnel' = tunnel
    BY <1>1 DEF Drained, tunnelVars
  <2>2. Cardinality(LiveTunnels) = 0 /\ IsFiniteSet(LiveTunnels)
    BY <1>0, <2>1, FS_Subset, FS_CardinalityType
  <2>3. LiveTunnels = {}
    BY <2>2, FS_EmptySet
  <2> QED BY <2>1, <2>3 DEF LiveTunnels, Live
<1>2. ASSUME NEW j \in Indexes, Ended(j) PROVE ~Live(i)'
  <2>1. /\ tunnelsActive - 1 = 0 /\ tunnel[j] = "sending" /\ tunnel' = [tunnel EXCEPT ![j] = "none"]
    BY <1>2 DEF Ended, Receive
  <2>2. j \in LiveTunnels
    BY <2>1 DEF LiveTunnels, Live
  <2>3. Cardinality(LiveTunnels \ {j}) = 0 /\ IsFiniteSet(LiveTunnels \ {j})
    <3>1. Cardinality(LiveTunnels \ {j}) = Cardinality(LiveTunnels) - 1
          /\ IsFiniteSet(LiveTunnels \ {j})
      BY <1>0, <2>2, OneLess, FS_Subset
    <3>2. Cardinality(LiveTunnels \ {j}) \in Nat /\ Cardinality(LiveTunnels) \in Nat
          /\ tunnelsActive \in Int
      BY <1>0, <3>1, FS_Subset, FS_CardinalityType DEF Bookkeeping, Types
    <3> QED BY <1>0, <2>1, <3>1, <3>2
  <2>4. LiveTunnels \ {j} = {}
    BY <2>3, FS_EmptySet
  <2> QED BY <2>1, <2>4 DEF LiveTunnels, Live, Bookkeeping, Types
<1>3. CASE Initialize
    BY <1>3 DEF Initialize, InitializeCancelled, InitializeEnded, InitializeShutdown,
        InitializeConnected, StartNext, Initialized
<1>4. CASE ContextDone \/ BackoffExpired
    BY <1>4 DEF ContextDone, BackoffExpired
<1>5. CASE UNCHANGED pc
    BY <1>5
<1>6. ASSUME TunnelConnected \/ ShuttingDown \/ Retry \/ CancelContext \/ RequestShutdown
             \/ Returned \/ Blocked
      PROVE  UNCHANGED pc
    BY <1>6 DEF TunnelConnected, ShuttingDown, Retry, CancelContext, RequestShutdown, Returned,
        Blocked, runVars, vars
<1>7. ASSUME NEW j \in Indexes, Drain(j) \/ ReconnectNow(j) \/ ReconnectLater(j) \/ GiveUp(j)
      PROVE  UNCHANGED pc
    BY <1>7 DEF Drain, ReconnectNow, ReconnectLater, GiveUp, runVars
<1>8. ASSUME NEW j \in Indexes, Tunnel(j)
      PROVE  UNCHANGED pc
    BY <1>8 DEF Tunnel, Connect, Notify, Fail, Stop, Cancel, Send, runVars
<1> QED BY <1>1, <1>2, <1>3, <1>4, <1>5, <1>6, <1>7, <1>8 DEF Next, Loop

-----------------------------------------------------------------------------
\* supervisor.go 127-190: whatever the order of failures, reconnections and the
\* shutdown, Run's tunnelsActive is the number of goroutines it still has to
\* receive from, so its drain neither blocks for ever nor ends too early.
THEOREM CounterIsExact == Spec => []ActiveCountsGoroutines
<1>1. Bookkeeping => ActiveCountsGoroutines
    BY DEF Bookkeeping
<1> QED BY <1>1, InitBookkeeping, NextBookkeeping, PTL DEF Spec

\* supervisor.go 142-166: a tunnel that waits for the backoff timer has no goroutine
\* and waits once, and the timer is armed exactly while some tunnel waits.
THEOREM WaitingTunnelsAreDown == Spec => []WaitingIsDown
<1>1. Bookkeeping => WaitingIsDown
    BY DEF Bookkeeping
<1> QED BY <1>1, InitBookkeeping, NextBookkeeping, PTL DEF Spec

\* supervisor.go 167-181 and newConnectedTunnelSignal: Run selects on the signal of a
\* tunnel it still expects as long as there is one, and the backoff gets its grace
\* period only when all tunnels that run have connected.
THEOREM SignalsOfRunAreFollowed == Spec => SignalsAreFollowed
<1>1. Bookkeeping /\ Signals /\ [Next]_vars => (Bookkeeping /\ Signals)'
    BY NextBookkeeping, NextSignals
<1>2. Signals => SignalIsOfAConnectingTunnel
    BY DEF Signals
<1>3. Bookkeeping /\ Signals /\ [Next]_vars =>
        [SetsGracePeriod =>
           \A i \in Indexes : Live(i) /\ ~(i = First /\ looping) => sig[i] = "closed"]_vars
    BY GraceIsDeserved
<1> QED
    BY <1>1, <1>2, <1>3, InitBookkeeping, InitSignals, PTL
    DEF Spec, SignalsAreFollowed, GraceWhenAllConnected

\* supervisor.go 118-136 and 183-190: Run never returns past a goroutine that it has
\* started, not even when an early shutdown has upset its counter.
THEOREM RunOutlivesItsTunnels == Spec => ReturnsWhenAllEnded
<1>1. Bookkeeping /\ Bookkeeping' /\ [Next]_vars =>
        [(pc \in {"loop", "drain"} /\ pc' = "returned") => \A i \in Indexes : ~Live(i)']_vars
    BY ReturnsAtZero
<1> QED
    BY <1>1, InitBookkeeping, NextBookkeeping, PTL DEF Spec, ReturnsWhenAllEnded

-----------------------------------------------------------------------------
\* The protocol of a tunnel.

Event == [conn : Conns, up : BOOLEAN, protocol : Protocols]

NoUpAfter(c, i) == \A j \in i + 1 .. Len(events) : events[j].conn = c => ~events[j].up

\* The Connected event of a connection that is up was lost, or is the last one of it on its
\* way, or was the last that the tracker has heard of.
IsHeardOf(c) ==
    \/ NoUpAfter(c, 0) /\ connInfo[c] = protocol[c]
    \/ \E i \in 1..Len(events) : events[i] = Up(c) /\ NoUpAfter(c, i)

TrackerInv ==
    /\ protocol \in [Conns -> Protocols] /\ current \in Protocols
    /\ events \in Seq(Event) /\ Len(events) <= EventBuffer
    /\ DOMAIN phase = Conns /\ DOMAIN lost = Conns /\ DOMAIN connInfo = Conns
    /\ \A c \in Conns : phase[c] = "up" /\ ~lost[c] => IsHeardOf(c)

\* What sendEvent leaves of the channel: all that was in it, and some of what was sent behind.
LEMMA EventsAfter ==
    ASSUME events \in Seq(Event), Len(events) <= EventBuffer, NEW sent \in Seq(Event),
           SendEvent(sent)
    PROVE  /\ events' \in Seq(Event) /\ Len(events) <= Len(events') /\ Len(events') <= EventBuffer
           /\ \A i \in 1..Len(events) : events'[i] = events[i]
           /\ \A i \in Len(events) + 1 .. Len(events') : \E k \in 1..Len(sent) : events'[i] = sent[k]
           /\ Len(sent) = 1 /\ Len(events) # EventBuffer => Len(events') = Len(events) + 1
<1> DEFINE all == events \o sent
           n == IF Len(all) < EventBuffer THEN Len(all) ELSE EventBuffer
<1>1. /\ all \in Seq(Event) /\ Len(all) = Len(events) + Len(sent)
      /\ \A i \in 1..Len(events) : all[i] = events[i]
      /\ \A i \in Len(events) + 1 .. Len(all) : all[i] = sent[i - Len(events)]
  OBVIOUS
<1>2. events' = SubSeq(all, 1, n)
  BY DEF SendEvent
<1> HIDE DEF all
<1>3. n \in 0..Len(all) /\ Len(events) <= n /\ n <= EventBuffer
      /\ (Len(sent) = 1 /\ Len(events) # EventBuffer => n = Len(events) + 1)
  BY <1>1, EdgeTunnelAssumption
<1> HIDE DEF n
<1>4. events' \in Seq(Event) /\ Len(events') = n /\ \A i \in 1..n : events'[i] = all[i]
  BY <1>1, <1>2, <1>3
<1>5. ASSUME NEW i \in Len(events) + 1 .. Len(events')
      PROVE  \E k \in 1..Len(sent) : events'[i] = sent[k]
  <2>1. i - Len(events) \in 1..Len(sent) /\ events'[i] = sent[i - Len(events)]
    BY <1>1, <1>3, <1>4
  <2> QED BY <2>1
<1> QED BY <1>1, <1>3, <1>4, <1>5

LEMMA TrackerInit == EdgeInit => TrackerInv
<1> SUFFICES ASSUME EdgeInit PROVE TrackerInv
  OBVIOUS
<1>1. current \in Protocols
  BY DEF EdgeInit, Protocols
<1> QED BY <1>1, EdgeTunnelAssumption DEF EdgeInit, TrackerInv

\* A connection that stays as it is stays heard of when events of another are sent.
LEMMA OthersAreHeardOf ==
    ASSUME TrackerInv, NEW c \in Conns, NEW d \in Conns \ {c}, NEW sent \in Seq(Event),
           \A k \in 1..Len(sent) : sent[k].conn = c,
           SendEvent(sent), UNCHANGED <<protocol, connInfo>>, IsHeardOf(d)
    PROVE  IsHeardOf(d)'
<1>1. /\ Len(events) <= Len(events') /\ events' \in Seq(Event)
      /\ \A i \in 1..Len(events) : events'[i] = events[i]
      /\ \A i \in Len(events) + 1 .. Len(events') : \E k \in 1..Len(sent) : events'[i] = sent[k]
  BY EventsAfter DEF TrackerInv
<1>2. \A i \in Len(events) + 1 .. Len(events') : events'[i].conn = c
  BY <1>1
<1>3. ASSUME NEW i \in 0..Len(events), NoUpAfter(d, i) PROVE NoUpAfter(d, i)'
  BY <1>1, <1>2, <1>3 DEF NoUpAfter, TrackerInv
<1>4. CASE NoUpAfter(d, 0) /\ connInfo[d] = protocol[d]
  <2>1. 0 \in 0..Len(events)
    BY DEF TrackerInv
  <2> QED BY <1>3, <1>4, <2>1 DEF IsHeardOf
<1>5. ASSUME NEW i \in 1..Len(events), events[i] = Up(d), NoUpAfter(d, i)
      PROVE  IsHeardOf(d)'
  <2>1. i \in 0..Len(events) /\ i \in 1..Len(events')
    BY <1>1 DEF TrackerInv
  <2>2. events'[i] = Up(d)'
    BY <1>1, <1>5 DEF Up
  <2> QED BY <1>3, <1>5, <2>1, <2>2 DEF IsHeardOf
<1> QED BY <1>4, <1>5 DEF IsHeardOf

LEMMA EventsAreTyped ==
    ASSUME TrackerInv, NEW c \in Conns
    PROVE  Up(c) \in Event /\ Down(c) \in Event /\ Up(c).conn = c /\ Down(c).conn = c /\ Up(c).up
BY DEF TrackerInv, Event, Up, Down, Protocols

\* A connection that is not up afterwards.
LEMMA TrackerWithout ==
    ASSUME TrackerInv, NEW c \in Conns, NEW sent \in Seq(Event),
           \A k \in 1..Len(sent) : sent[k].conn = c,
           SendEvent(sent), UNCHANGED <<protocol, connInfo, current>>,
           DOMAIN phase' = Conns, DOMAIN lost' = Conns, phase'[c] # "up",
           \A d \in Conns \ {c} : phase'[d] = phase[d] /\ lost'[d] = lost[d]
    PROVE  TrackerInv'
<1>1. events' \in Seq(Event) /\ Len(events') <= EventBuffer
  BY EventsAfter DEF TrackerInv
<1>2. ASSUME NEW d \in Conns, phase'[d] = "up", ~lost'[d] PROVE IsHeardOf(d)'
  <2>1. d # c /\ phase[d] = "up" /\ ~lost[d]
    BY <1>2
  <2>2. IsHeardOf(d)
    BY <2>1 DEF TrackerInv
  <2> QED BY <2>1, <2>2, OthersAreHeardOf
<1> QED BY <1>1, <1>2 DEF TrackerInv

LEMMA TrackerStep == TrackerInv /\ [EdgeNext]_edgeVars => TrackerInv'
<1> SUFFICES ASSUME TrackerInv, [EdgeNext]_edgeVars PROVE TrackerInv'
  OBVIOUS
\* A connection that is up afterwards was up before, and the rest is as it was.
<1>1. ASSUME UNCHANGED <<events, lost, connInfo>>, DOMAIN phase' = Conns,
             protocol' \in [Conns -> Protocols], current' \in Protocols,
             \A c \in Conns : phase'[c] = "up" => phase[c] = "up" /\ protocol'[c] = protocol[c]
      PROVE  TrackerInv'
  <2>1. ASSUME NEW c \in Conns, phase'[c] = "up", ~lost'[c] PROVE IsHeardOf(c)'
    <3>1. IsHeardOf(c) /\ protocol'[c] = protocol[c]
      BY <1>1, <2>1 DEF TrackerInv
    <3>2. Up(c)' = Up(c) /\ \A i : NoUpAfter(c, i)' <=> NoUpAfter(c, i)
      BY <1>1, <3>1 DEF Up, NoUpAfter
    <3> QED BY <1>1, <3>1, <3>2 DEF IsHeardOf
  <2> QED BY <1>1, <2>1 DEF TrackerInv
<1>2. CASE DispatchEvent
  <2> DEFINE e == Head(events)
  <2>1. /\ events # <<>> /\ OnTunnelEvent(e) /\ events' = Tail(events)
        /\ UNCHANGED <<phase, protocol, lost, current>>
    BY <1>2 DEF DispatchEvent
  <2>2. /\ e = events[1] /\ e \in Event /\ events' \in Seq(Event)
        /\ Len(events') = Len(events) - 1 /\ Len(events) \in Nat \ {0}
        /\ \A i \in 1..Len(events') : events'[i] = events[i + 1]
    BY <2>1 DEF TrackerInv
  <2>3. ASSUME NEW c \in Conns, NEW i \in 1..Len(events), NoUpAfter(c, i)
        PROVE  NoUpAfter(c, i - 1)'
    <3> SUFFICES ASSUME NEW j \in (i - 1) + 1 .. Len(events'), events'[j].conn = c
                 PROVE  ~events'[j].up
      BY DEF NoUpAfter
    <3>1. j \in 1..Len(events') /\ j + 1 \in i + 1 .. Len(events)
      BY <2>2
    <3> QED BY <2>2, <2>3, <3>1 DEF NoUpAfter
  <2>4. DOMAIN connInfo' = Conns
    BY <2>1 DEF OnTunnelEvent, TrackerInv
  <2>5. ASSUME NEW c \in Conns, phase'[c] = "up", ~lost'[c] PROVE IsHeardOf(c)'
    <3>1. IsHeardOf(c) /\ protocol[c] \in Protocols /\ Up(c)' = Up(c)
      BY <2>1, <2>5 DEF TrackerInv, Up
    <3>2. 1 \in 1..Len(events)
      BY <2>2
    <3>3. CASE NoUpAfter(c, 0) /\ connInfo[c] = protocol[c]
      <4>1. NoUpAfter(c, 1) /\ (e.conn = c => ~e.up)
        BY <2>2, <3>2, <3>3 DEF NoUpAfter
      <4>2. connInfo'[c] = connInfo[c]
        <5>1. connInfo[c] # NoInfo
          BY <3>1, <3>3 DEF Protocols, NoInfo
        <5> QED BY <2>1, <4>1, <5>1 DEF OnTunnelEvent, TrackerInv
      <4>3. NoUpAfter(c, 1 - 1)'
        BY <2>3, <3>2, <4>1
      <4> QED BY <2>1, <3>3, <4>2, <4>3 DEF IsHeardOf
    <3>4. CASE \E i \in 1..Len(events) : events[i] = Up(c) /\ NoUpAfter(c, i)
      <4>1. PICK i \in 1..Len(events) : events[i] = Up(c) /\ NoUpAfter(c, i)
        BY <3>4
      <4>2. NoUpAfter(c, i - 1)'
        BY <2>3, <4>1
      <4>3. CASE i = 1
        <5>1. e.conn = c /\ e.up /\ e.protocol = protocol[c]
          BY <2>2, <4>1, <4>3 DEF Up
        <5>2. connInfo'[c] = protocol[c]
          BY <2>1, <5>1 DEF OnTunnelEvent, TrackerInv
        <5>3. NoUpAfter(c, 0)'
          BY <4>2, <4>3
        <5> QED BY <2>1, <5>2, <5>3 DEF IsHeardOf
      <4>4. CASE i # 1
        <5>1. i - 1 \in 1..Len(events') /\ events'[i - 1] = Up(c)'
          BY <2>2, <3>1, <4>1, <4>4
        <5> QED BY <4>2, <5>1 DEF IsHeardOf
      <4> QED BY <4>3, <4>4
    <3> QED BY <3>1, <3>3, <3>4 DEF IsHeardOf
  <2>6. Len(events') <= EventBuffer
    BY <2>2, EdgeTunnelAssumption DEF TrackerInv
  <2> QED BY <2>1, <2>2, <2>4, <2>5, <2>6 DEF TrackerInv
<1>3. ASSUME NEW c \in Conns, Connected(c) PROVE TrackerInv'
  <2> DEFINE sent == <<Up(c)>>
  <2>1. /\ sent \in Seq(Event) /\ Len(sent) = 1 /\ sent[1] = Up(c) /\ Up(c)' = Up(c)
        /\ \A k \in 1..Len(sent) : sent[k].conn = c
    BY <1>3, EventsAreTyped DEF Connected, Up
  <2>2. SendEvent(sent) /\ UNCHANGED <<protocol, connInfo, current>>
    BY <1>3 DEF Connected
  <2> HIDE DEF sent
  <2>3. /\ events' \in Seq(Event) /\ Len(events') <= EventBuffer
        /\ \A i \in Len(events) + 1 .. Len(events') : \E k \in 1..Len(sent) : events'[i] = sent[k]
        /\ Len(events) # EventBuffer => Len(events') = Len(events) + 1
    BY <2>1, <2>2, EventsAfter DEF TrackerInv
  <2>4. ASSUME NEW d \in Conns \ {c}, phase'[d] = "up", ~lost'[d] PROVE IsHeardOf(d)'
    <3>1. IsHeardOf(d)
      BY <1>3, <2>4 DEF Connected, TrackerInv
    <3> QED BY <2>1, <2>2, <3>1, OthersAreHeardOf
  <2>5. ASSUME ~lost'[c] PROVE IsHeardOf(c)'
    <3>1. Len(events) # EventBuffer
      BY <1>3, <2>5 DEF Connected, TrackerInv
    <3>2. PICK n \in Nat : n = Len(events') /\ n = Len(events) + 1 /\ n \in 1..n
      BY <2>3, <3>1 DEF TrackerInv
    <3>3. events'[n] = Up(c)'
      BY <2>1, <2>3, <3>2
    <3>4. NoUpAfter(c, n)'
      BY <3>2 DEF NoUpAfter
    <3> QED BY <3>2, <3>3, <3>4 DEF IsHeardOf
  <2>6. DOMAIN phase' = Conns /\ DOMAIN lost' = Conns
    BY <1>3 DEF Connected, TrackerInv
  <2> QED BY <2>2, <2>3, <2>4, <2>5, <2>6 DEF TrackerInv
<1>4. ASSUME NEW c \in Conns, ConnectFails(c) \/ ConnectionLost(c) PROVE TrackerInv'
  <2> DEFINE two == <<Down(c), Down(c)>>
             three == <<Down(c), Down(c), Down(c)>>
  <2>1. PICK sent \in {two, three} : SendEvent(sent) /\ \E err : AttemptFails(c, err)
    <3>1. CASE ConnectFails(c)
      BY <3>1 DEF ConnectFails
    <3>2. CASE ConnectionLost(c)
      BY <3>2 DEF ConnectionLost
    <3> QED BY <1>4, <3>1, <3>2
  <2>2. sent \in Seq(Event) /\ \A k \in 1..Len(sent) : sent[k].conn = c
    <3>1. Down(c) \in Event /\ Down(c).conn = c
      BY EventsAreTyped
    <3>2. two \in Seq(Event) /\ \A k \in 1..Len(two) : two[k].conn = c
      BY <3>1
    <3>3. three \in Seq(Event) /\ \A k \in 1..Len(three) : three[k].conn = c
      BY <3>1
    <3> QED BY <3>2, <3>3
  <2>3. /\ UNCHANGED <<protocol, connInfo, current>> /\ DOMAIN phase' = Conns
        /\ DOMAIN lost' = Conns /\ phase'[c] # "up"
        /\ \A d \in Conns \ {c} : phase'[d] = phase[d] /\ lost'[d] = lost[d]
    BY <2>1 DEF AttemptFails, TrackerInv
  <2> QED BY <2>1, <2>2, <2>3, TrackerWithout
<1>5. ASSUME NEW c \in Conns, NoOtherAddress(c) PROVE TrackerInv'
  <2>1. <<Down(c)>> \in Seq(Event) /\ \A k \in 1..Len(<<Down(c)>>) : <<Down(c)>>[k].conn = c
    BY EventsAreTyped
  <2>2. /\ SendEvent(<<Down(c)>>) /\ UNCHANGED <<protocol, connInfo, current, phase, lost>>
        /\ phase[c] # "up"
    BY <1>5 DEF NoOtherAddress
  <2> QED BY <2>1, <2>2, TrackerWithout DEF TrackerInv
<1>6. ASSUME NEW c \in Conns, BackoffEnds(c) PROVE TrackerInv'
  <2>1. /\ UNCHANGED <<events, lost, connInfo, current>>
        /\ phase[c] = "backoff" /\ phase' = [phase EXCEPT ![c] = "serving"]
    BY <1>6 DEF BackoffEnds
  <2>2. \/ UNCHANGED protocol
        \/ \E p \in Protocols : protocol' = [protocol EXCEPT ![c] = p]
    BY <1>6 DEF BackoffEnds, SelectNextProtocol, FallBack, TrackerInv, Protocols
  <2>3. /\ protocol' \in [Conns -> Protocols]
        /\ \A d \in Conns \ {c} : protocol'[d] = protocol[d]
    BY <2>2 DEF TrackerInv
  <2> QED BY <1>1, <2>1, <2>3 DEF TrackerInv
<1>7. CASE SelectorRefreshes \/ GracefulShutdown \/ \E c \in Conns : ShutdownEndsBackoff(c)
  BY <1>1, <1>7 DEF SelectorRefreshes, GracefulShutdown, ShutdownEndsBackoff, TrackerInv
<1>8. CASE UNCHANGED edgeVars
  BY <1>1, <1>8 DEF edgeVars, TrackerInv
<1> QED BY <1>2, <1>3, <1>4, <1>5, <1>6, <1>7, <1>8 DEF EdgeNext, Continue

\* Nobody changes its protocol while the tracker has a connection with the current one.
LEMMA ProtocolKept ==
    ASSUME [EdgeNext]_edgeVars, HasConnectedWith(current)
    PROVE  protocol' = protocol
<1>1. ASSUME NEW c \in Conns, BackoffEnds(c) PROVE protocol' = protocol
  BY <1>1 DEF BackoffEnds
<1>2. ASSUME NEW c \in Conns,
             Connected(c) \/ ConnectFails(c) \/ NoOtherAddress(c) \/ ShutdownEndsBackoff(c)
               \/ ConnectionLost(c)
      PROVE  protocol' = protocol
  BY <1>2 DEF Connected, ConnectFails, NoOtherAddress, ShutdownEndsBackoff, ConnectionLost,
              AttemptFails
<1> QED BY <1>1, <1>2 DEF EdgeNext, Continue, DispatchEvent, SelectorRefreshes, GracefulShutdown,
                          edgeVars

\* "If a single connection has connected with the current protocol, we know [...] we don't
\* have to fallback": no connection leaves QUIC while another is up with it whose Connected event has
\* reached the tracker, whatever other events were lost (Serve, HasConnectedWith).
THEOREM QuicIsKept == EdgeSpec => QuicKeptWhileItWorks
<1>1. ASSUME TrackerInv, [EdgeNext]_edgeVars
      PROVE  [\A c, other \in Conns :
                (protocol[c] = "quic" /\ inFallback'[c] /\ current = "quic"
                   /\ KnownUp(other) /\ protocol[other] = "quic") => protocol'[c] = "quic"]_edgeVars
  <2> SUFFICES ASSUME NEW c \in Conns, NEW other \in Conns, protocol[c] = "quic",
                      current = "quic", KnownUp(other), protocol[other] = "quic"
               PROVE  protocol'[c] = "quic"
    OBVIOUS
  <2>1. IsHeardOf(other)
    BY <1>1 DEF KnownUp, TrackerInv
  <2>2. \A i \in 1..Len(events) : events[i] # Up(other)
    BY DEF KnownUp, Up
  <2>3. connInfo[other] = "quic"
    BY <2>1, <2>2 DEF IsHeardOf
  <2> QED BY <1>1, <2>3, ProtocolKept DEF HasConnectedWith
<1> QED BY <1>1, TrackerInit, TrackerStep, PTL DEF EdgeSpec, QuicKeptWhileItWorks

LEMMA CountersStay ==
    ASSUME EdgeTypeOK, NEW c \in Conns
    PROVE  /\ RetriesAfter(c) \in 0..MaxRetries
           /\ \A err : AddrRetriesAfter(c, err) \in 0..MaxEdgeAddrRetries
<1>1. retries[c] \in 0..MaxRetries /\ addrRetries[c] \in 0..MaxEdgeAddrRetries
  BY DEF EdgeTypeOK
<1>2. RetriesAfter(c) \in 0..MaxRetries
  BY <1>1, EdgeTunnelAssumption DEF RetriesAfter
<1>3. ASSUME NEW err PROVE AddrRetriesAfter(c, err) \in 0..MaxEdgeAddrRetries
  BY <1>1, EdgeTunnelAssumption DEF AddrRetriesAfter, ReachedMaxAddrRetries
<1> QED BY <1>2, <1>3

LEMMA EdgeTypesStep == EdgeTypeOK /\ TrackerInv /\ TrackerInv' /\ [EdgeNext]_edgeVars => EdgeTypeOK'
<1> SUFFICES ASSUME EdgeTypeOK, TrackerInv, TrackerInv', [EdgeNext]_edgeVars PROVE EdgeTypeOK'
  OBVIOUS
<1>0. /\ protocol' \in [Conns -> Protocols] /\ current' \in Protocols
      /\ Len(events') <= EventBuffer
  BY DEF TrackerInv
<1>Z. 0 \in 0..MaxRetries
  BY EdgeTunnelAssumption
<1>1. CASE DispatchEvent
  <2>1. Head(events) \in Event
    BY <1>1 DEF DispatchEvent, TrackerInv
  <2>2. connInfo' \in [Conns -> Protocols \cup {NoInfo}]
    BY <1>1, <2>1 DEF DispatchEvent, OnTunnelEvent, EdgeTypeOK, Event, Protocols
  <2> QED BY <1>0, <1>1, <2>2 DEF DispatchEvent, EdgeTypeOK
<1>2. ASSUME NEW c \in Conns, Connected(c) PROVE EdgeTypeOK'
  <2>1. PICK full \in BOOLEAN : lost' = [lost EXCEPT ![c] = full]
    BY <1>2 DEF Connected
  <2>2. /\ lost' \in [Conns -> BOOLEAN] /\ inFallback' \in [Conns -> BOOLEAN]
        /\ resetDue' \in [Conns -> BOOLEAN]
    BY <1>2, <2>1 DEF Connected, EdgeTypeOK
  <2>3. /\ phase' \in [Conns -> {"serving", "up", "backoff", "ended"}]
        /\ retries' \in [Conns -> 0..MaxRetries]
    BY <1>Z, <1>2 DEF Connected, EdgeTypeOK
  <2> QED BY <1>0, <1>2, <2>2, <2>3 DEF Connected, EdgeTypeOK
<1>3. ASSUME NEW c \in Conns, NEW err, AttemptFails(c, err) PROVE EdgeTypeOK'
  <2>1. RetriesAfter(c) \in 0..MaxRetries /\ AddrRetriesAfter(c, err) \in 0..MaxEdgeAddrRetries
    BY CountersStay
  <2> QED BY <1>0, <1>3, <2>1 DEF AttemptFails, EdgeTypeOK
<1>4. ASSUME NEW c \in Conns, NoOtherAddress(c) PROVE EdgeTypeOK'
  <2>1. \A err : AddrRetriesAfter(c, err) \in 0..MaxEdgeAddrRetries
    BY CountersStay
  <2>2. PICK n \in 0..MaxEdgeAddrRetries : addrRetries' = [addrRetries EXCEPT ![c] = n]
    BY <1>4, <2>1 DEF NoOtherAddress
  <2> QED BY <1>0, <1>4, <2>2 DEF NoOtherAddress, EdgeTypeOK
<1>5. ASSUME NEW c \in Conns, BackoffEnds(c) PROVE EdgeTypeOK'
  <2>1. \/ UNCHANGED <<inFallback, retries, resetDue>>
        \/ FallBack(c)
    BY <1>5 DEF BackoffEnds, SelectNextProtocol
  <2>2. /\ inFallback' \in [Conns -> BOOLEAN] /\ resetDue' \in [Conns -> BOOLEAN]
        /\ retries' \in [Conns -> 0..MaxRetries]
    <3>1. CASE UNCHANGED <<inFallback, retries, resetDue>>
      BY <3>1 DEF EdgeTypeOK
    <3>2. CASE FallBack(c)
      BY <1>Z, <3>2 DEF FallBack, EdgeTypeOK
    <3> QED BY <2>1, <3>1, <3>2
  <2> QED BY <1>0, <1>5, <2>2 DEF BackoffEnds, EdgeTypeOK
<1>6. ASSUME NEW c \in Conns, ShutdownEndsBackoff(c) PROVE EdgeTypeOK'
  BY <1>0, <1>6 DEF ShutdownEndsBackoff, EdgeTypeOK
<1>7. CASE SelectorRefreshes \/ GracefulShutdown \/ UNCHANGED edgeVars
  BY <1>0, <1>7 DEF SelectorRefreshes, GracefulShutdown, edgeVars, EdgeTypeOK
<1>8. ASSUME NEW c \in Conns, ConnectFails(c) \/ ConnectionLost(c)
      PROVE  \E err : AttemptFails(c, err)
  BY <1>8 DEF ConnectFails, ConnectionLost
<1> QED BY <1>1, <1>2, <1>3, <1>4, <1>5, <1>6, <1>7, <1>8 DEF EdgeNext, Continue

\* The counters of the two backoffs stay in their bounds, so that each of them reaches its
\* limit, which is tested with equality, before it could pass it (ReachedMaxRetries,
\* BackoffTimer, ShouldGetNewAddress).
THEOREM CountersStayInBounds == EdgeSpec => []EdgeTypeOK
<1>1. EdgeInit => EdgeTypeOK
  <2> SUFFICES ASSUME EdgeInit PROVE EdgeTypeOK
    OBVIOUS
  <2>1. 0 \in 0..MaxRetries /\ 0 \in 0..MaxEdgeAddrRetries /\ Len(<<>>) <= EventBuffer
    BY EdgeTunnelAssumption
  <2>2. current \in Protocols
    BY DEF EdgeInit, Protocols
  <2> QED BY <2>1, <2>2 DEF EdgeInit, EdgeTypeOK
<1> QED BY <1>1, TrackerInit, TrackerStep, EdgeTypesStep, PTL DEF EdgeSpec
=============================================================================
