----------------------------- MODULE ServiceMode -----------------------------
(* cloudflared started without arguments (handleServiceMode): the watcher of
   the configuration file (watcher/file.go), its manager (config/manager.go),
   the loop of AppService (cmd/cloudflared/app_service.go), the map of running
   services (overwatch/app_manager.go) and the forwarders, each of which
   listens on an address (app_forward_service.go, access/carrier.go,
   carrier.Serve).                                                           *)
EXTENDS Naturals

CONSTANTS Addrs,        \* listener addresses, the names of the services
          Hashes,       \* what else a forwarder's configuration says
          MaxWrites,    \* bound: rewrites of the file
          MaxServices,  \* bound: services ever created for an address
          Absent

Configs == [Addrs -> Hashes \cup {Absent}]
Empty   == [a \in Addrs |-> Absent]
ServiceIds == Addrs \X (1..MaxServices)     \* the address, and which service of it

\* A forwarder has a configuration, and no service is one that is absent.
ASSUME ServiceAssumption == Hashes # {} /\ Absent \notin ServiceIds

VARIABLES
    disk,      \* the file: whole contents, or Empty while it is rewritten
    torn,      \* is a rewrite half done
    writes, events,
    watcher,   \* "select", or "notify" while it hands a configuration over
    update,    \* that configuration
    loop,      \* actionLoop: "select" or "stopped"
    services,  \* AppManager.services: address -> service or Absent
    srv,       \* service -> its hash, its state and is it told to stop
    created

servicesVars == <<disk, torn, writes, events, watcher, update, loop, services, srv, created>>

ServiceTypeOK ==
    /\ disk \in Configs /\ update \in Configs /\ torn \in BOOLEAN
    /\ writes \in 0..MaxWrites /\ events \in 0..2 * MaxWrites
    /\ watcher \in {"select", "notify"} /\ loop \in {"select", "stopped"}
    /\ services \in [Addrs -> ServiceIds \cup {Absent}] /\ created \in [Addrs -> 0..MaxServices]
    /\ srv \in [ServiceIds -> [hash : Hashes, told : BOOLEAN,
                               state : {"none", "starting", "listening", "ended"}]]

\* FileManager.Start hands the configuration over before the watcher starts
ServiceInit ==
    /\ disk \in Configs /\ update = disk /\ torn = FALSE
    /\ writes = 0 /\ events = 0 /\ watcher = "notify" /\ loop = "select"
    /\ services = Empty /\ created = [a \in Addrs |-> 0]
    /\ srv = [i \in ServiceIds |-> [hash |-> CHOOSE h \in Hashes : TRUE, told |-> FALSE,
                                    state |-> "none"]]

\* an editor truncates the file and writes it: two events
Truncate ==
    /\ writes < MaxWrites /\ ~torn
    /\ disk' = Empty /\ torn' = TRUE
    /\ writes' = writes + 1 /\ events' = events + 1
    /\ UNCHANGED <<watcher, update, loop, services, srv, created>>

Write ==
    /\ torn /\ torn' = FALSE
    /\ disk' \in Configs /\ events' = events + 1
    /\ UNCHANGED <<writes, watcher, update, loop, services, srv, created>>

\* WatcherItemDidChange: an empty file is an empty configuration; one that
\* cannot be parsed is skipped
WatcherItemDidChange ==
    /\ watcher = "select" /\ events > 0
    /\ events' = events - 1
    /\ \/ watcher' = "notify" /\ update' = disk
       \/ torn /\ UNCHANGED <<watcher, update>>
    /\ UNCHANGED <<disk, torn, writes, loop, services, srv, created>>

-----------------------------------------------------------------------------
(* handleConfigUpdate: Add for every forwarder of the configuration, then
   Remove for every service that is not in it.                               *)

Unchanged(a, h) == services[a] # Absent /\ srv[services[a]].hash = h
Added(c) == {a \in Addrs : c[a] # Absent /\ ~Unchanged(a, c[a])}

\* the services that are told to stop; the mutant forgets those it replaces
ToldRemoved(c) == {services[a] : a \in {b \in Addrs : c[b] = Absent}} \ {Absent}
ToldToStop(c) == {services[a] : a \in {b \in Addrs : c[b] = Absent \/ b \in Added(c)}} \ {Absent}

HandleConfigUpdate ==
    /\ watcher = "notify" /\ loop = "select" /\ watcher' = "select"
    /\ \A a \in Added(update) : created[a] < MaxServices
    /\ created' = [a \in Addrs |-> created[a] + (IF a \in Added(update) THEN 1 ELSE 0)]
    /\ services' = [a \in Addrs |-> IF a \in Added(update) THEN <<a, created'[a]>>
                                    ELSE IF update[a] = Absent THEN Absent ELSE services[a]]
    /\ srv' = [i \in ServiceIds |->
                 IF i[1] \in Added(update) /\ i[2] = created'[i[1]]
                   THEN [hash |-> update[i[1]], told |-> FALSE, state |-> "starting"]
                   ELSE [srv[i] EXCEPT !.told = @ \/ i \in ToldToStop(update)]]
    /\ UNCHANGED <<disk, torn, writes, events, update, loop>>

\* shutdownC: every service of the map is told to stop; the watcher goes on
Shutdown ==
    /\ loop = "select" /\ loop' = "stopped"
    /\ srv' = [i \in ServiceIds |-> [srv[i] EXCEPT !.told = @ \/ \E a \in Addrs : services[a] = i]]
    /\ UNCHANGED <<disk, torn, writes, events, watcher, update, services, created>>

-----------------------------------------------------------------------------
(* ForwarderService.Run, in a goroutine of its own.                          *)
SrvTo(i, st) ==
    /\ srv' = [srv EXCEPT ![i].state = st]
    /\ UNCHANGED <<disk, torn, writes, events, watcher, update, loop, services, created>>

Listening(a) == \E j \in ServiceIds : j[1] = a /\ srv[j].state = "listening"

\* net.Listen fails while another service has the address
Listen(i) ==
    /\ srv[i].state = "starting"
    /\ SrvTo(i, IF Listening(i[1]) THEN "ended" ELSE "listening")

Stop(i) == srv[i].state = "listening" /\ srv[i].told /\ SrvTo(i, "ended")

\* Accept fails: Run ends, and the callback only logs it
AcceptFails(i) == srv[i].state = "listening" /\ SrvTo(i, "ended")

ServiceNext ==
    \/ Truncate \/ Write \/ WatcherItemDidChange \/ HandleConfigUpdate \/ Shutdown
    \/ \E i \in ServiceIds : Listen(i) \/ Stop(i) \/ AcceptFails(i)

ServiceSpec == ServiceInit /\ [][ServiceNext]_servicesVars

-----------------------------------------------------------------------------
Runs(i) == srv[i].state \in {"starting", "listening"}

(* No forwarder is left behind: one that runs and was not told to stop is the
   one the manager has for its address, and none is left after the shutdown;
   so an address is free again once those told have gone (AppManager.Add and
   Remove, actionLoop).                                                      *)
NoForwarderLeaks ==
    \A i \in ServiceIds : Runs(i) /\ ~srv[i].told =>
        services[i[1]] = i /\ loop = "select"
=============================================================================
