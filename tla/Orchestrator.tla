---------------------------- MODULE Orchestrator ----------------------------
(***************************************************************************)
(* orchestration/orchestrator.go: configurations with versions, which the  *)
(* edge may send over every connection.  An update holds the lock, but     *)
(* requests load the proxy and the limit without it, so the assignments of *)
(* updateIngress are steps of their own.  Each proxy is named for the      *)
(* update that made it; Boot is the one of the local configuration.        *)
(***************************************************************************)
EXTENDS Integers, FiniteSets

CONSTANTS
    Updates,    \* calls of UpdateConfig
    MaxVersion, \* bound: the newest version the edge sends
    Boot,
    NoConfig

ASSUME OrchAssumption ==
    Boot \notin Updates /\ NoConfig \notin Updates \cup {Boot} /\ MaxVersion \in Nat

Configs == Updates \cup {Boot}

VARIABLES
    step,       \* where each update is
    version,    \* the version each configuration has; -1 for the local one
    currentVersion,
    proxy,      \* which configuration made the proxy that requests load
    config,     \* ... Ingress and WarpRouting of the Config
    limit,      \* ... the limit of the flow limiter and the default dialer
    toClose,    \* whose channel proxyShutdownC is
    originsRun, \* configurations whose origins run
    partial,    \* history: those of which only some were started
    shutdown,   \* shutdownC is closed
    waiter      \* whether waitToCloseLastProxy has ended

orchVars == <<step, version, currentVersion, proxy, config, limit, toClose, originsRun, partial,
              shutdown, waiter>>

Held == \E u \in Updates : step[u] \notin {"idle", "done"}

ConfigTypeOK ==
    /\ step \in [Updates -> {"idle", "parse", "start", "limit", "proxy", "config", "close", "done"}]
    /\ version \in [Configs -> -1..MaxVersion]
    /\ currentVersion \in -1..MaxVersion
    /\ {proxy, config, limit} \subseteq Configs /\ toClose \in Configs \cup {NoConfig}
    /\ originsRun \subseteq Configs /\ partial \subseteq Updates
    /\ {shutdown, waiter} \subseteq BOOLEAN

\* NewOrchestrator: the first updateIngress has succeeded, else the process ends.
ConfigInit ==
    /\ step = [u \in Updates |-> "idle"]
    /\ version = [c \in Configs |-> -1] /\ currentVersion = -1
    /\ proxy = Boot /\ config = Boot /\ limit = Boot /\ toClose = Boot
    /\ originsRun = {Boot} /\ partial = {}
    /\ shutdown = FALSE /\ waiter = FALSE

GotoStep(u, from, to) == step[u] = from /\ step' = [step EXCEPT ![u] = to]

\* A call that applies nothing; it answers the current version.
Refuse ==
    UNCHANGED <<currentVersion, proxy, config, limit, toClose, shutdown, waiter>>

\* The test of the version.
IsNewer(v) == currentVersion < v

\* UpdateConfig takes the lock, which fails no call.
UpdateConfig(u, v) ==
    /\ ~Held
    /\ GotoStep(u, "idle", IF IsNewer(v) THEN "parse" ELSE "done")
    /\ version' = [version EXCEPT ![u] = v]
    /\ UNCHANGED <<currentVersion, proxy, config, limit, toClose, originsRun, partial,
                   shutdown, waiter>>

\* The JSON is bad, cloudflared is shut down, or the local flag is no number.
ParseFails(u) == GotoStep(u, "parse", "done") /\ Refuse /\ UNCHANGED <<version, originsRun,
                                                                       partial>>

\* updateIngress sees shutdownC open and merges the local overrides.
Parse(u) ==
    /\ ~shutdown
    /\ GotoStep(u, "parse", "start")
    /\ UNCHANGED <<version, currentVersion, proxy, config, limit, toClose, originsRun, partial,
                   shutdown, waiter>>

\* StartOrigins fails at a later rule: what it has started goes on, and the channel
\* that would stop it is closed by nobody.
StartFails(u) ==
    /\ GotoStep(u, "start", "done")
    /\ \E some \in SUBSET {u} : partial' = partial \cup some /\ originsRun' = originsRun \cup some
    /\ Refuse
    /\ UNCHANGED version

StartOrigins(u) ==
    /\ GotoStep(u, "start", "limit")
    /\ originsRun' = originsRun \cup {u}
    /\ UNCHANGED <<version, currentVersion, proxy, config, limit, toClose, partial,
                   shutdown, waiter>>

\* SetLimit and UpdateDefaultDialer
SetLimit(u) ==
    /\ GotoStep(u, "limit", "proxy")
    /\ limit' = u
    /\ UNCHANGED <<version, currentVersion, proxy, config, toClose, originsRun, partial,
                   shutdown, waiter>>

\* proxy.Store
StoreProxy(u) ==
    /\ GotoStep(u, "proxy", "config")
    /\ proxy' = u
    /\ UNCHANGED <<version, currentVersion, config, limit, toClose, originsRun, partial,
                   shutdown, waiter>>

StoreConfig(u) ==
    /\ GotoStep(u, "config", "close")
    /\ config' = u
    /\ UNCHANGED <<version, currentVersion, proxy, limit, toClose, originsRun, partial,
                   shutdown, waiter>>

\* mutant: the channel of the last proxy is replaced and never closed.
CloseLastForgets(u) ==
    /\ GotoStep(u, "close", "done")
    /\ toClose' = u
    /\ currentVersion' = version[u]
    /\ UNCHANGED <<version, proxy, config, limit, originsRun, partial, shutdown, waiter>>

\* The channel of the last proxy is closed, which stops its origins; UpdateConfig
\* sets the version and answers.
CloseLast(u) ==
    /\ GotoStep(u, "close", "done")
    /\ originsRun' = originsRun \ {toClose}
    /\ toClose' = u
    /\ currentVersion' = version[u]
    /\ UNCHANGED <<version, proxy, config, limit, partial, shutdown, waiter>>

Shutdown ==
    /\ ~shutdown
    /\ shutdown' = TRUE
    /\ UNCHANGED <<step, version, currentVersion, proxy, config, limit, toClose, originsRun,
                   partial, waiter>>

WaitToCloseLastProxy ==
    /\ shutdown /\ ~waiter /\ ~Held
    /\ waiter' = TRUE
    /\ originsRun' = originsRun \ {toClose}
    /\ toClose' = NoConfig
    /\ UNCHANGED <<step, version, currentVersion, proxy, config, limit, partial, shutdown>>

Apply(u) ==
    ParseFails(u) \/ Parse(u) \/ StartFails(u) \/ StartOrigins(u) \/ SetLimit(u)
        \/ StoreProxy(u) \/ StoreConfig(u) \/ CloseLast(u)

ConfigNext ==
    \/ \E u \in Updates : (\E v \in 0..MaxVersion : UpdateConfig(u, v)) \/ Apply(u)
    \/ Shutdown \/ WaitToCloseLastProxy

\* The holder of the lock goes on; the goroutine gets the lock in the end, since
\* sync.RWMutex does not let it starve.
ConfigSpec ==
    /\ ConfigInit /\ [][ConfigNext]_orchVars
    /\ \A u \in Updates : WF_orchVars(Apply(u))
    /\ SF_orchVars(WaitToCloseLastProxy)

-----------------------------------------------------------------------------

\* A request that loads the proxy, with no lock, gets one whose origins run, until
\* the shutdown; whoever holds the lock finds the version, the configuration, the
\* proxy and the limit of one update.
LoadedProxyRuns ==
    /\ ~shutdown => proxy \in originsRun
    /\ ~Held => /\ proxy = config /\ config = limit
                /\ version[config] = currentVersion

\* After the shutdown no origin goes on running, even one of an update that was
\* under way, but for those of an update that failed after it had started some.
ShutdownStopsOrigins == shutdown ~> originsRun \subseteq partial

\* The origins of the proxy in force run, and no others after the shutdown
\* (updateIngress, waitToCloseLastProxy).
OriginsFollowTheProxy == []LoadedProxyRuns /\ ShutdownStopsOrigins
=============================================================================
