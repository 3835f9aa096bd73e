----------------------------- MODULE NetworkAdmin -----------------------------
(* The commands that manage private networks (cmd/cloudflared/tunnel/
   teamnet_subcommands.go, vnets_subcommands.go and their parts of
   subcommand_context) on top of the REST client (cfapi): a command finds the
   id of a virtual network by its name, and of a route by its network, and acts
   on the id in a later call.  Meanwhile other commands change the account.  *)
EXTENDS Naturals, FiniteSets

CONSTANTS NetworkAdmins, VnetNames,
          Networks,                 \* sets of addresses
          MaxVnets, MaxRoutes,      \* bounds: ids ever given out
          NotGiven

VIds == 1..MaxVnets
RIds == 1..MaxRoutes
ASSUME NetworkAssumption ==
    /\ NotGiven \notin VIds /\ 1 \in VIds
    /\ VnetNames # {} /\ Networks # {}

VARIABLES
    vnet,      \* at the API: id -> [state, name]
    default,   \* the virtual network of routes that name none
    route,     \* at the API: id -> [state, net, vnet]
    networkCmd,       \* process -> its command, how far it is and what it has found
    last       \* history: the command whose effect or answer the last step was

networkVars == <<vnet, default, route, networkCmd, last>>

States == {"unused", "live", "deleted"}
NoCommand == [op |-> "idle"]

NetworkTypeOK ==
    /\ vnet \in [VIds -> [state : States, name : VnetNames]] /\ default \in VIds
    /\ route \in [RIds -> [state : States, net : Networks, vnet : VIds]]
    /\ DOMAIN networkCmd = NetworkAdmins

NetworkInit ==
    /\ LET some == CHOOSE n \in VnetNames : TRUE IN
       vnet = [v \in VIds |-> [state |-> IF v = 1 THEN "live" ELSE "unused", name |-> some]]
    /\ default = 1
    /\ route = [r \in RIds |-> [state |-> "unused", net |-> CHOOSE n \in Networks : TRUE,
                                vnet |-> 1]]
    /\ networkCmd = [p \in NetworkAdmins |-> NoCommand] /\ last = NotGiven

LiveOf(f) == {x \in DOMAIN f : f[x].state = "live"}
Called(vs, n) == {v \in LiveOf(vs) : vs[v].name = n}
IsFirst(f, x) == f[x].state = "unused" /\ \A y \in DOMAIN f : y < x => f[y].state # "unused"

\* named of a command: the virtual networks that have had the name it was
\* given, at some time since it began
Observing(cmds, vs) == [p \in NetworkAdmins |->
    IF cmds[p] = NoCommand \/ cmds[p].name = NotGiven THEN cmds[p]
    ELSE [cmds[p] EXCEPT !.named = @ \cup Called(vs, cmds[p].name)]]

Step(p, c) == networkCmd' = Observing([networkCmd EXCEPT ![p] = c], vnet) /\ last' = NotGiven
NetworkAt(p, at) == networkCmd[p] # NoCommand /\ networkCmd[p].at = at

-----------------------------------------------------------------------------
(* The arguments: a virtual network by name, by id, or none where --vnet is
   optional; for the rest, a network.                                        *)
StartCommand(p) ==
    /\ networkCmd[p] = NoCommand
    /\ \E op \in {"add", "delete", "show", "deleteVnet", "updateVnet"},
          net \in Networks \cup {NotGiven}, name \in VnetNames \cup {NotGiven},
          id \in {v \in VIds : vnet[v].state # "unused"} \cup {NotGiven} :
          /\ name = NotGiven \/ id = NotGiven
          /\ IF op \in {"deleteVnet", "updateVnet"}
               THEN net = NotGiven /\ (name # NotGiven \/ id # NotGiven)
               ELSE net # NotGiven
          /\ op = "show" => name = NotGiven /\ id = NotGiven
          /\ Step(p, [op |-> op, net |-> net, name |-> name, vnet |-> id, route |-> NotGiven,
                      named |-> {},
                      at |-> IF name # NotGiven THEN "lookup"
                             ELSE IF op = "delete" THEN "list" ELSE "call"])
    /\ UNCHANGED <<vnet, default, route>>

\* getVnetId asks for the networks of that name that are not deleted, and there
\* has to be one
GetVnetId(p) ==
    /\ NetworkAt(p, "lookup")
    /\ LET found == Called(vnet, networkCmd[p].name) IN
       IF Cardinality(found) = 1
         THEN Step(p, [networkCmd[p] EXCEPT !.vnet = CHOOSE v \in found : TRUE,
                                            !.at = IF networkCmd[p].op = "delete"
                                                      THEN "list" ELSE "call"])
         ELSE Step(p, NoCommand)
    /\ UNCHANGED <<vnet, default, route>>

\* getRouteId: NetworkIsSubsetOf and NetworkIsSupersetOf of the same network,
\* and the virtual network if one was given; the mutant forgets that one
MatchAnyVnet(r, net, v) == route[r].net \subseteq net /\ net \subseteq route[r].net
Match(r, net, v) ==
    /\ route[r].net \subseteq net /\ net \subseteq route[r].net
    /\ v = NotGiven \/ route[r].vnet = v

GetRouteId(p) ==
    /\ NetworkAt(p, "list")
    /\ LET found == {r \in LiveOf(route) : Match(r, networkCmd[p].net, networkCmd[p].vnet)} IN
       IF Cardinality(found) = 1
         THEN Step(p, [networkCmd[p] EXCEPT !.route = CHOOSE r \in found : TRUE, !.at = "call"])
         ELSE Step(p, NoCommand)
    /\ UNCHANGED <<vnet, default, route>>

\* a call fails, without an effect
CallFails(p) ==
    /\ networkCmd[p] # NoCommand /\ Step(p, NoCommand)
    /\ UNCHANGED <<vnet, default, route>>

-----------------------------------------------------------------------------
(* The last call, at the API.                                                *)
Calls(p, op) == NetworkAt(p, "call") /\ networkCmd[p].op = op
Effect(p, on) ==
    /\ last' = [cmd |-> networkCmd[p], on |-> on, default |-> default]
    /\ networkCmd' = Observing([networkCmd EXCEPT ![p] = NoCommand], vnet')

\* without --vnet the API takes its default
AddRoute(p) ==
    /\ Calls(p, "add")
    /\ LET v == IF networkCmd[p].vnet = NotGiven THEN default ELSE networkCmd[p].vnet IN
       /\ v \in LiveOf(vnet)
       /\ \A r \in LiveOf(route) : route[r].vnet = v => route[r].net # networkCmd[p].net
       /\ UNCHANGED <<vnet, default>>
       /\ \E r \in RIds : IsFirst(route, r) /\ Effect(p, r)
             /\ route' = [route EXCEPT ![r] =
                             [state |-> "live", net |-> networkCmd[p].net, vnet |-> v]]

DeleteRoute(p) ==
    /\ Calls(p, "delete") /\ networkCmd[p].route \in LiveOf(route)
    /\ route' = [route EXCEPT ![networkCmd[p].route].state = "deleted"]
    /\ UNCHANGED <<vnet, default>>
    /\ Effect(p, networkCmd[p].route)

\* showRoutesCommand with --filter-network-is-subset-of: NewIpRouteFilterFromCLI
\* sets the filter for supersets
SubsetFilter(net) == {r \in LiveOf(route) : net \subseteq route[r].net}

ListRoutes(p) ==
    /\ Calls(p, "show")
    /\ UNCHANGED <<vnet, default, route>>
    /\ Effect(p, SubsetFilter(networkCmd[p].net))

\* one that is used is deleted by force only, and its routes with it
DeleteVirtualNetwork(p) ==
    /\ Calls(p, "deleteVnet") /\ networkCmd[p].vnet \in LiveOf(vnet) \ {default}
    /\ LET used == {r \in LiveOf(route) : route[r].vnet = networkCmd[p].vnet} IN
       \E force \in BOOLEAN :
          /\ used = {} \/ force
          /\ route' = [r \in RIds |-> IF r \in used THEN [route[r] EXCEPT !.state = "deleted"]
                                                    ELSE route[r]]
    /\ vnet' = [vnet EXCEPT ![networkCmd[p].vnet].state = "deleted"]
    /\ Effect(p, networkCmd[p].vnet)
    /\ UNCHANGED default

\* a new name that no other has, and perhaps the default
UpdateVirtualNetwork(p) ==
    /\ Calls(p, "updateVnet") /\ networkCmd[p].vnet \in LiveOf(vnet)
    /\ \E n \in VnetNames : Called(vnet, n) \subseteq {networkCmd[p].vnet}
          /\ vnet' = [vnet EXCEPT ![networkCmd[p].vnet].name = n]
    /\ default' \in {default, networkCmd[p].vnet}
    /\ Effect(p, networkCmd[p].vnet)
    /\ UNCHANGED route

CreateVirtualNetwork(p) ==
    /\ networkCmd[p] = NoCommand
    /\ \E n \in VnetNames, v \in VIds :
          /\ IsFirst(vnet, v) /\ Called(vnet, n) = {}
          /\ vnet' = [vnet EXCEPT ![v] = [state |-> "live", name |-> n]]
          /\ default' \in {default, v}
    /\ networkCmd' = Observing(networkCmd, vnet') /\ last' = NotGiven
    /\ UNCHANGED route

NetworkNext == \E p \in NetworkAdmins :
    \/ StartCommand(p) \/ GetVnetId(p) \/ GetRouteId(p) \/ CallFails(p)
    \/ AddRoute(p) \/ DeleteRoute(p) \/ ListRoutes(p)
    \/ DeleteVirtualNetwork(p) \/ UpdateVirtualNetwork(p) \/ CreateVirtualNetwork(p)

NetworkSpec == NetworkInit /\ [][NetworkNext]_networkVars

-----------------------------------------------------------------------------
OnRoute == last # NotGiven /\ last.cmd.op \in {"add", "delete"}
OnVnet  == last # NotGiven /\ last.cmd.op \in {"deleteVnet", "updateVnet"}

(* Although the account changes between the calls of a command, the route that
   is added or deleted is of the network that was asked for, and it, or the
   network that is deleted or updated, is of a virtual network that had the
   given name, or id, while the command ran; a route that is added without one
   lies in what is the default at that moment (getVnetId, getRouteId).       *)
EffectsAreAsAsked ==
    LET c == last.cmd
        v == IF OnRoute THEN route[last.on].vnet ELSE last.on
    IN  OnRoute \/ OnVnet =>
            /\ c.name # NotGiven => v \in c.named
            /\ c.name = NotGiven /\ c.vnet # NotGiven => v = c.vnet
            /\ OnRoute => route[last.on].net = c.net
            /\ c.op = "add" /\ c.vnet = NotGiven => v = last.default

(* What the flag says of itself (ip_route_filter.go:27): only routes whose
   network is a subset of the given one are shown.                           *)
ShownAreSubsets ==
    last # NotGiven /\ last.cmd.op = "show" =>
        \A r \in last.on : route[r].net \subseteq last.cmd.net
=============================================================================
