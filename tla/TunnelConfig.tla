---------------------------- MODULE TunnelConfig ----------------------------
(***************************************************************************)
(* How a tunnel gets its configuration, and what its connections make of   *)
(* it.  config/configuration.go reads the settings file, whose settings    *)
(* count where the command line is silent; tunnel/configuration.go judges  *)
(* them, refuses the contradictory ones and overrides the family of edge   *)
(* addresses by the address to bind; features/selector.go combines them    *)
(* with a DNS record that is read again and again, while connections take  *)
(* a snapshot of the result each time they dial (client/config.go,         *)
(* supervisor/tunnel.go: serveConnection).                                 *)
(***************************************************************************)
EXTENDS Naturals, Sequences

CONSTANTS
    HAConns,
    Threshold,     \* switchThreshold of the account
    Percentages,   \* values of the DNS record
    MaxRefreshes,  \* bound on the lookups of refreshLoop
    NotGiven

VARIABLES
    input,            \* the command line, the settings file and the machine
    settingsPhase,    \* "start", "flags", "running", "refused"
    flag,             \* the settings in force
    remote,           \* featureSelector.remoteFeatures: the percentage of datagrams v3
    settingsLookups,  \* number of lookups so far
    config,           \* supervisor.TunnelConfig
    conn              \* what each connection is doing

settingsVars == <<input, settingsPhase, flag, remote, settingsLookups, config, conn>>

FlagDefaults == [version |-> "auto", pq |-> FALSE, features |-> {}]
Setting == DOMAIN FlagDefaults
KindOf == [version |-> "string", pq |-> "bool", features |-> "list"]
Unset == [s \in Setting |-> NotGiven]

\* Names of features: of the datagram versions, of a version that is deprecated,
\* of the post-quantum mode, and those that every connection has.
DefaultFeatures == {"remote_config", "v2"}
Deprecated == {"v3_1"}

Interface == [hasSource : BOOLEAN, hasIPv6 : BOOLEAN]

\* An input of every kind that is accepted.  The others differ from it in what
\* one step of the preparation reads.
PlainInput ==
    [cli |-> Unset, file |-> "none", settings |-> Unset, bind |-> NotGiven, region |-> FALSE,
     endpoint |-> FALSE, static |-> FALSE, wrong |-> NotGiven, icmp4 |-> NotGiven, icmp6 |-> NotGiven,
     local |-> TRUE, interfaces |-> <<>>]

\* A value of a settings file has a kind of its own, which may be the wrong one.
Value(kind, value) == [kind |-> kind, value |-> value]

FeatureInputs ==
    {[PlainInput EXCEPT !.cli = [Unset EXCEPT !.features = f, !.pq = q]] :
        f \in SUBSET {"v2", "v3", "v3_1"}, q \in {NotGiven, TRUE}}
FileInputs ==
    {[PlainInput EXCEPT !.file = "good", !.cli = c, !.settings = s] :
        c \in {Unset, [Unset EXCEPT !.version = "6", !.features = {"v2"}]},
        s \in [version : {NotGiven, Value("string", "4"), Value("int", 4)},
               pq : {NotGiven, Value("bool", TRUE), Value("string", "true")},
               features : {NotGiven, Value("list", {"v3"}), Value("string", "v3")}]}
    \cup {[PlainInput EXCEPT !.file = f] : f \in {"missing", "empty", "bad"}}
AddressInputs ==
    {[PlainInput EXCEPT !.cli = [Unset EXCEPT !.version = v], !.bind = b, !.static = s] :
        v \in {"4", "6", "auto", "5"}, b \in {NotGiven, "4", "6", "word", "taken"}, s \in BOOLEAN}
    \cup {[PlainInput EXCEPT !.region = r, !.endpoint = e] : r, e \in BOOLEAN}
    \cup {[PlainInput EXCEPT !.wrong = w] :
             w \in {"tags", "ingress", "protocol", "grace", "resolvers"}}
IcmpInputs ==
    {[PlainInput EXCEPT !.icmp4 = f, !.icmp6 = s, !.local = l, !.interfaces = i] :
        f \in {NotGiven, "4", "6", "word"}, s \in {NotGiven, "4", "6", "word"}, l \in BOOLEAN,
        i \in {<<>>} \cup {<<a>> : a \in Interface} \cup {<<a, b>> : a, b \in Interface}}

Idle == [at |-> "idle", protocol |-> NotGiven, family |-> NotGiven, strict |-> FALSE,
         snapshot |-> NotGiven, handler |-> NotGiven, announced |-> {}]

SettingsInit ==
    /\ input \in FeatureInputs \cup FileInputs \cup AddressInputs \cup IcmpInputs
    /\ settingsPhase = "start" /\ flag = FlagDefaults
    /\ remote = 0 /\ settingsLookups = 0
    /\ config = NotGiven
    /\ conn = [c \in HAConns |-> Idle]

-----------------------------------------------------------------------------
\* The settings file (config.ReadConfigFile, cliutil.setFlagsFromConfigFile)

RefuseStart ==
    settingsPhase' = "refused" /\ UNCHANGED <<input, flag, remote, settingsLookups, config, conn>>

\* The getters of configFileSettings: an error for a value of another kind.
OfWrongKind(s) ==
    /\ input.cli[s] = NotGiven /\ input.settings[s] # NotGiven
    /\ input.settings[s].kind # KindOf[s]

\* A file that cannot be opened is fatal if it was named, no file is not.
FileRefused ==
    \/ input.file \in {"missing", "bad"}
    \/ \E s \in Setting : OfWrongKind(s)

\* altsrc.ApplyInputSource: the file speaks where the command line is silent.
Effective(s) ==
    IF input.cli[s] # NotGiven THEN input.cli[s]
    ELSE IF input.settings[s] # NotGiven THEN input.settings[s].value
    ELSE FlagDefaults[s]

ReadConfigFile ==
    /\ settingsPhase = "start"
    /\ IF FileRefused THEN RefuseStart
       ELSE /\ flag' = [s \in Setting |-> Effective(s)]
            /\ settingsPhase' = "flags"
            /\ UNCHANGED <<input, remote, settingsLookups, config, conn>>

-----------------------------------------------------------------------------
\* The features (features.featureSelector)

\* The post-quantum mode adds its feature to the ones the user names.
CliFeatures ==
    (flag.features \cup IF flag.pq THEN {"postquantum"} ELSE {}) \ Deprecated

AccountEnabled(percentage) == percentage > Threshold

\* The user comes first, and version 3 before version 2.
DatagramVersion ==
    IF "v3" \in CliFeatures THEN "v3"
    ELSE IF AccountEnabled(remote) /\ "v2" \notin CliFeatures THEN "v3" ELSE "v2"

\* Snapshot, under the lock that refresh takes to write.
Snapshot ==
    [strict |-> flag.pq, version |-> DatagramVersion,
     features |-> DefaultFeatures \cup CliFeatures \cup {DatagramVersion}]

\* refreshLoop.  A lookup that fails leaves the features as they are.
Refresh ==
    /\ settingsPhase = "running"
    /\ settingsLookups < MaxRefreshes /\ settingsLookups' = settingsLookups + 1
    /\ remote' \in Percentages
    /\ UNCHANGED <<input, settingsPhase, flag, config, conn>>

-----------------------------------------------------------------------------
\* The preparation (prepareTunnelConfig)

BindRefused == input.bind \in {"word", "taken"}

\* adjustIPVersionByBindAddress: the address to bind wins, with a warning.
AdjustIPVersion(version) == IF input.bind \in {"4", "6"} THEN input.bind ELSE version

\* Region and endpoint are two names of the same choice.
Contradiction == input.region /\ input.endpoint

PrepareRefused ==
    \/ input.wrong # NotGiven
    \/ flag.version \notin {"4", "6", "auto"}
    \/ BindRefused \/ Contradiction

\* determineICMPv4Src: given, else the one a dialled socket gets, else unspecified.
Source4 == IF input.icmp4 # NotGiven THEN "given" ELSE IF input.local THEN "local" ELSE "unspecified"

IcmpRefused == input.icmp4 \in {"6", "word"} \/ input.icmp6 \in {"4", "word"}

\* No interface holds the unspecified address; one that was given may be held.
HoldsSource(i) == input.interfaces[i].hasSource /\ Source4 # "unspecified"
WithIPv6 == {i \in DOMAIN input.interfaces : input.interfaces[i].hasIPv6}
FirstOf(set) == CHOOSE i \in set : \A j \in set : i <= j

\* determineICMPv6Src: given, else of the interface of the IPv4 source, else of
\* any, else unspecified, which is 0 here.
Source6 ==
    CASE input.icmp6 # NotGiven -> "given"
      [] OTHER -> LET near == {i \in WithIPv6 : HoldsSource(i)}
                  IN  CASE near # {} -> FirstOf(near)
                        [] near = {} /\ WithIPv6 # {} -> FirstOf(WithIPv6)
                        [] OTHER -> 0

\* NewICMPRouter: without one family if its socket cannot be opened, without
\* both it is an error, and the tunnel runs without ICMP.
Routers ==
    IF IcmpRefused THEN {NotGiven}
    ELSE {NotGiven} \cup {[v4 |-> family # "6", v6 |-> family # "4", source4 |-> Source4,
                       source6 |-> Source6] : family \in {"4", "6", "both"}}

\* The selector looks the record up first; what is left is judged in order.
Prepare ==
    /\ settingsPhase = "flags"
    /\ IF PrepareRefused THEN RefuseStart
       ELSE /\ remote' \in {0} \cup Percentages
            /\ \E r \in Routers :
                  config' = [version |-> AdjustIPVersion(flag.version), bind |-> input.bind,
                             static |-> input.static, icmp |-> r]
            /\ settingsPhase' = "running"
            /\ UNCHANGED <<input, flag, settingsLookups, conn>>

-----------------------------------------------------------------------------
\* The connections (EdgeTunnelServer.serveConnection)

\* NewSupervisor: static addresses are not chosen by their family.
EdgeFamilies ==
    IF config.static \/ config.version = "auto" THEN {"4", "6"} ELSE {config.version}

\* The curves of the handshake come from a snapshot.
BeginDial(c, protocol) ==
    /\ settingsPhase = "running" /\ conn[c].at = "idle"
    /\ \E f \in EdgeFamilies :
          conn' = [conn EXCEPT ![c] =
              [Idle EXCEPT !.at = "dialing", !.protocol = protocol, !.family = f,
                           !.strict = Snapshot.strict, !.snapshot = Snapshot]]
    /\ UNCHANGED <<input, settingsPhase, flag, remote, settingsLookups, config>>

\* mutant: the datagrams are those of the features at this moment.
HandlerNow(c) == DatagramVersion

\* serveQUIC: the datagrams are those of the snapshot the connection began with.
HandlerOf(c) == conn[c].snapshot.version

\* HTTP2 takes another snapshot once it has its socket, QUIC keeps the first.
Dialed(c) ==
    /\ conn[c].at = "dialing"
    /\ conn' = [conn EXCEPT
           ![c].at = "dialed",
           ![c].snapshot = IF conn[c].protocol = "http2" THEN Snapshot ELSE @,
           ![c].handler = IF conn[c].protocol = "quic" THEN HandlerOf(c) ELSE NotGiven]
    /\ UNCHANGED <<input, settingsPhase, flag, remote, settingsLookups, config>>

\* ConnectionOptions: the features of the snapshot are announced to the edge.
Register(c) ==
    /\ conn[c].at = "dialed"
    /\ conn' = [conn EXCEPT ![c].at = "registered", ![c].announced = conn[c].snapshot.features]
    /\ UNCHANGED <<input, settingsPhase, flag, remote, settingsLookups, config>>

\* A dial fails, or a connection ends: the next attempt begins anew.
Ends(c) ==
    /\ conn[c].at # "idle"
    /\ conn' = [conn EXCEPT ![c] = Idle]
    /\ UNCHANGED <<input, settingsPhase, flag, remote, settingsLookups, config>>

SettingsNext ==
    \/ ReadConfigFile \/ Prepare \/ Refresh
    \/ \E c \in HAConns, p \in {"quic", "http2"} : BeginDial(c, p)
    \/ \E c \in HAConns : Dialed(c) \/ Register(c) \/ Ends(c)

SettingsSpec == SettingsInit /\ [][SettingsNext]_settingsVars

-----------------------------------------------------------------------------
\* Properties

\* A connection over QUIC speaks datagrams v3 exactly if it announced them, though
\* the record changes while it dials: the edge, which reads the announcement, and
\* the connection (serveQUIC) agree on a format that is not compatible.
SpeaksWhatItAnnounced ==
    \A c \in HAConns : conn[c].at = "registered" /\ conn[c].protocol = "quic" =>
        /\ (conn[c].handler = "v3") = ("v3" \in conn[c].announced)
        /\ \A v \in {"v2", "v3"} \cap flag.features : "v3" \in flag.features \/ conn[c].handler = v

\* Who asks for post-quantum curves never gets others, whatever the file, the
\* record and the protocol, and the edge is told.
StrictStaysStrict ==
    \A c \in HAConns :
        /\ (conn[c].at # "idle" /\ Effective("pq")) => conn[c].strict
        /\ (conn[c].at = "registered" /\ conn[c].strict) => "postquantum" \in conn[c].announced

\* A connection that binds an address dials an edge address of its family, unless
\* the edge addresses are given (adjustIPVersionByBindAddress).
DialsItsFamily ==
    \A c \in HAConns : conn[c].at # "idle" /\ config.bind # NotGiven /\ ~config.static =>
        conn[c].family = config.bind

\* The ICMP proxy sends IPv6 from the interface of its IPv4 source if it can, and
\* from an interface at all if there is one (determineICMPv6Src).
SourceIsNear ==
    settingsPhase = "running" /\ config.icmp # NotGiven /\ input.icmp6 = NotGiven =>
                LET s == config.icmp.source6
                IN  /\ (s = 0) = (WithIPv6 = {})
                    /\ (\E i \in WithIPv6 : HoldsSource(i)) => s # 0 /\ HoldsSource(s)

\* What the operator asked for is what the connections do.
ConfigurationHolds ==
    SpeaksWhatItAnnounced /\ StrictStaysStrict /\ DialsItsFamily /\ SourceIsNear
=============================================================================
