------------------------------ MODULE MCSteps -------------------------------
(* Parts that share no variable, side by side: a behaviour runs the part that is
   named by the variable part, the others stay as they are.  These are the
   parts of the way of the data whose properties are of safety.              *)
EXTENDS IcmpLinux, IcmpDarwin, RequestPath, IngressRules, ServiceMode, Calls,
        TunnelConfig, Socks, OriginDialer, Wire

CONSTANTS c1, c2, k1, k2, l1, l2, g1, g2, h1, h2, h3, v0, v1, ip1, ip2,
          ns1, ns2

VARIABLE part

\* No policy, one that refuses all, allows an address, and refuses a port of it.
MCPolicies ==
    {Nothing, <<>>, <<[ips |-> {ip1}, ports |-> {}, allow |-> TRUE]>>,
     <<[ips |-> {ip1}, ports |-> {1}, allow |-> FALSE],
       [ips |-> {ip1, ip2}, ports |-> {}, allow |-> TRUE]>>}
MCPaths == {"p1"}
MCData == <<"d1", "d2">>
MCServers == <<ns1, ns2>>

MCIds == {10, 11}
MCWords == {<<>>, <<1>>, <<1, 1>>}

MCInit ==
    /\ part \in {"icmp", "echo", "proxy", "rules", "services",
                  "calls", "wire", "settings", "socks", "dialer"}
    \* what the parts that do not run start with is fixed
    /\ part # "services" => disk = Empty
    /\ part # "calls" => op = "connect" /\ server = "cloudflared"
    /\ part # "wire" => message = [kind |-> "ip", n |-> 0]
    /\ part # "settings" => input = PlainInput
    /\ part # "socks" =>
          mode = "conn" /\ policy = Nothing /\ hello = FirstHello /\ eager = FALSE /\ dns = ip1
    /\ part # "dialer" => static = FALSE /\ alive = {}
    /\ IcmpInit
    /\ EchoInit
    /\ PathInit
    /\ RulesInit
    /\ ServiceInit
    /\ CallsInit
    /\ WireInit
    /\ SettingsInit
    /\ SocksInit
    /\ DialerInit

IcmpStep ==
    /\ part = "icmp" /\ IcmpNext
    /\ UNCHANGED <<part, echoVars, proxyVars, rulesVars, servicesVars,
                   callsVars, wireVars, settingsVars, socksVars, dialerVars>>
EchoStep ==
    /\ part = "echo" /\ EchoNext
    /\ UNCHANGED <<part, icmpVars, proxyVars, rulesVars, servicesVars,
                   callsVars, wireVars, settingsVars, socksVars, dialerVars>>
ProxyStep ==
    /\ part = "proxy" /\ PathNext
    /\ UNCHANGED <<part, icmpVars, echoVars, rulesVars, servicesVars,
                   callsVars, wireVars, settingsVars, socksVars, dialerVars>>
RulesStep ==
    /\ part = "rules" /\ RulesNext
    /\ UNCHANGED <<part, icmpVars, echoVars, proxyVars, servicesVars,
                   callsVars, wireVars, settingsVars, socksVars, dialerVars>>
ServicesStep ==
    /\ part = "services" /\ ServiceNext
    /\ UNCHANGED <<part, icmpVars, echoVars, proxyVars, rulesVars, callsVars,
                   wireVars, settingsVars, socksVars, dialerVars>>
CallsStep ==
    /\ part = "calls" /\ CallsNext
    /\ UNCHANGED <<part, icmpVars, echoVars, proxyVars, rulesVars,
                   servicesVars, wireVars, settingsVars, socksVars, dialerVars>>
WireStep ==
    /\ part = "wire" /\ WireNext
    /\ UNCHANGED <<part, icmpVars, echoVars, proxyVars, rulesVars,
                   servicesVars, callsVars, settingsVars, socksVars,
                   dialerVars>>
SettingsStep ==
    /\ part = "settings" /\ SettingsNext
    /\ UNCHANGED <<part, icmpVars, echoVars, proxyVars, rulesVars,
                   servicesVars, callsVars, wireVars, socksVars, dialerVars>>
SocksStep ==
    /\ part = "socks" /\ SocksNext
    /\ UNCHANGED <<part, icmpVars, echoVars, proxyVars, rulesVars,
                   servicesVars, callsVars, wireVars, settingsVars, dialerVars>>
DialerStep ==
    /\ part = "dialer" /\ DialerNext
    /\ UNCHANGED <<part, icmpVars, echoVars, proxyVars, rulesVars,
                   servicesVars, callsVars, wireVars, settingsVars, socksVars>>

MCNext == IcmpStep \/ EchoStep \/ ProxyStep \/ RulesStep \/ ServicesStep
          \/ CallsStep \/ WireStep \/ SettingsStep \/ SocksStep \/ DialerStep

allVars == <<part, icmpVars, echoVars, proxyVars, rulesVars, servicesVars,
             callsVars, wireVars, settingsVars, socksVars, dialerVars>>

MCSpec == MCInit /\ [][MCNext]_allVars
=============================================================================
