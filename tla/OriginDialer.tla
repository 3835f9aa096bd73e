---------------------------- MODULE OriginDialer ----------------------------
(***************************************************************************)
(* ingress/origin_dialer.go and ingress/origins/dns.go: how a destination  *)
(* is dialled.  One virtual address stands for the DNS resolver of the     *)
(* machine, which a loop finds out by watching whom a lookup dials; every  *)
(* other address goes to a dialer that updates of the configuration        *)
(* replace while others dial.                                              *)
(***************************************************************************)
EXTENDS Naturals, Sequences, FiniteSets, TLAPS

CONSTANTS
    Dials,       \* dials of the proxy
    NameServers, \* name servers of the machine, a sequence
    Statics,     \* resolvers the command line may give
    MaxUpdates,  \* bound on the updates of the configuration
    MaxLookups,  \* bound on the refreshes
    Default,     \* defaultResolverAddr
    Nobody

Queries == {"A", "AAAA"}

VARIABLES
    static,    \* DNSResolverService.static
    addresses, \* DNSResolverService.addresses
    alive,     \* the name servers that answer
    query,     \* the queries of the lookup that runs: the server each is at
    peeked,    \* resolver.address
    lookups,   \* number of lookups so far
    heard,     \* history: whom the lookups that succeeded dialled
    dialer,    \* OriginDialerService.defaultDialer, by the update that set it
    dial       \* what each dial is doing

dialerVars == <<static, addresses, alive, query, peeked, lookups, heard, dialer, dial>>
resolving == <<static, addresses, alive, query, peeked, lookups, heard>>

ServerSet == {NameServers[i] : i \in DOMAIN NameServers}
NoDial == [at |-> "none", reserved |-> FALSE, since |-> 0, to |-> Nobody]
NoQuery == [at |-> 0, dialled |-> FALSE, answered |-> FALSE]
Running == \E q \in Queries : query[q].at # 0

\* NewDNSResolverService and NewStaticDNSResolverService.
DialerInit ==
    /\ static \in BOOLEAN
    /\ addresses = IF static THEN Statics ELSE {Default}
    /\ alive \in SUBSET ServerSet
    /\ query = [q \in Queries |-> NoQuery] /\ peeked = Nobody
    /\ lookups = 0 /\ heard = {}
    /\ dialer = 0 /\ dial = [d \in Dials |-> NoDial]

-----------------------------------------------------------------------------
\* The resolver of the machine (DNSResolverService.update)

\* StartRefreshLoop does nothing for static resolvers.  A lookup asks for both
\* families at once.
StartLookup ==
    /\ ~static /\ lookups < MaxLookups /\ ~Running
    /\ lookups' = lookups + 1
    /\ query' = [q \in Queries |-> [NoQuery EXCEPT !.at = 1]]
    /\ UNCHANGED <<static, addresses, alive, peeked, heard, dialer, dial>>

\* peekDial remembers the server that was dialled last.
PeekDial(q) ==
    /\ query[q].at \in DOMAIN NameServers /\ ~query[q].dialled
    /\ peeked' = NameServers[query[q].at]
    /\ query' = [query EXCEPT ![q].dialled = TRUE]
    /\ UNCHANGED <<static, addresses, alive, lookups, heard, dialer, dial>>

\* The lookup of the library: a server that does not answer is followed by the next.
QueryEnds(q) ==
    /\ query[q].dialled /\ ~query[q].answered
    /\ query' = [query EXCEPT ![q] =
           IF NameServers[query[q].at] \in alive THEN [@ EXCEPT !.answered = TRUE]
           ELSE [NoQuery EXCEPT !.at = query[q].at + 1]]
    /\ UNCHANGED <<static, addresses, alive, peeked, lookups, heard, dialer, dial>>

Finished(q) == query[q].answered \/ query[q].at = Len(NameServers) + 1

\* mutant: the address counts although no server answered.
SucceedsAnyway == TRUE

\* The lookup succeeds if one of its queries does.
Succeeds == \E q \in Queries : query[q].answered

\* update: a lookup that fails, or is too late, changes nothing.
Update ==
    /\ Running
    /\ \/ /\ \A q \in Queries : Finished(q)
          /\ addresses' = IF Succeeds THEN {peeked} ELSE addresses
          /\ heard' = IF \E q \in Queries : query[q].answered THEN heard \cup {peeked} ELSE heard
       \/ UNCHANGED <<addresses, heard>>
    /\ query' = [q \in Queries |-> NoQuery]
    /\ UNCHANGED <<static, alive, peeked, lookups, dialer, dial>>

\* Name servers come and go.
ServersChange ==
    /\ \E s \in ServerSet : alive' = IF s \in alive THEN alive \ {s} ELSE alive \cup {s}
    /\ UNCHANGED <<static, addresses, query, peeked, lookups, heard, dialer, dial>>

-----------------------------------------------------------------------------
\* The dials (OriginDialerService)

\* UpdateDefaultDialer, under the lock.
UpdateDefaultDialer ==
    /\ dialer < MaxUpdates /\ dialer' = dialer + 1
    /\ UNCHANGED <<resolving, dial>>

\* A destination arrives, for the virtual address or another.
Request(d) ==
    /\ dial[d].at = "none"
    /\ \E r \in BOOLEAN :
          dial' = [dial EXCEPT ![d] = [NoDial EXCEPT !.at = "look", !.reserved = r, !.since = dialer]]
    /\ UNCHANGED <<resolving, dialer>>

\* getAddress: one of its addresses.
Addresses == IF addresses = {} THEN {Default} ELSE addresses

\* The service that is reserved for the address, whose dialer ignores it and takes
\* one of its own, or the dialer of the moment, under the lock.
Choose(d) ==
    /\ dial[d].at = "look"
    /\ IF dial[d].reserved
       THEN \E a \in Addresses :
               dial' = [dial EXCEPT ![d].at = "dialled", ![d].to = a]
       ELSE dial' = [dial EXCEPT ![d].at = "dialled", ![d].to = dialer]
    /\ UNCHANGED <<resolving, dialer>>

\* It connects or fails, and its answer goes back.
Done(d) ==
    /\ dial[d].at = "dialled"
    /\ dial' = [dial EXCEPT ![d] = NoDial]
    /\ UNCHANGED <<resolving, dialer>>

DialerNext ==
    \/ StartLookup \/ Update \/ ServersChange \/ UpdateDefaultDialer
    \/ \E q \in Queries : PeekDial(q) \/ QueryEnds(q)
    \/ \E d \in Dials : Request(d) \/ Choose(d) \/ Done(d)

DialerSpec == DialerInit /\ [][DialerNext]_dialerVars

-----------------------------------------------------------------------------
\* Properties

\* A dial of the virtual address goes to a resolver that was given, else to one a
\* successful lookup dialled, else to the default; any other dial uses a dialer that
\* is not older than the dial (DNSResolverService.update, OriginDialerService).
DialsReachTheirService ==
    /\ \A d \in Dials : dial[d].at = "dialled" =>
        /\ dial[d].reserved => dial[d].to \in (IF static THEN Statics ELSE heard \cup {Default})
        /\ ~dial[d].reserved => dial[d].to >= dial[d].since
    /\ heard # {} => addresses \subseteq heard

-----------------------------------------------------------------------------
\* Where a dial may lead, for every number of dials, name servers, lookups and updates:
\* what is remembered of the lookups while dials go on sends none to a resolver that
\* nobody chose.

\* The resolvers a dial of the virtual address may be sent to.
Chosen == IF static THEN Statics ELSE heard \cup {Default}

\* The refresh loop does not run for resolvers of the command line; otherwise the
\* addresses are the default one until a lookup has succeeded, then its server.
ResolverInv ==
    /\ static => addresses = Statics /\ heard = {} /\ query = [q \in Queries |-> NoQuery]
    /\ ~static => \/ heard = {} /\ addresses = {Default}
                  \/ addresses # {} /\ addresses \subseteq heard

\* A dial remembers no later update than the last, and what it chose was a choice.
DialInv ==
    /\ dialer \in Nat
    /\ dial \in [Dials -> [at : {"none", "look", "dialled"}, reserved : BOOLEAN, since : Nat,
                           to : Nat \cup {Nobody} \cup Statics \cup ServerSet \cup {Default} \cup heard]]
    /\ \A d \in Dials :
        /\ dial[d].since <= dialer
        /\ dial[d].at = "dialled" /\ dial[d].reserved => dial[d].to \in Chosen
        /\ dial[d].at = "dialled" /\ ~dial[d].reserved =>
              dial[d].to \in Nat /\ dial[d].to >= dial[d].since

OriginInv == ResolverInv /\ DialInv

LEMMA InitOrigin == DialerInit => OriginInv
<1> SUFFICES ASSUME DialerInit PROVE OriginInv
    OBVIOUS
<1>1. ResolverInv
    BY DEF DialerInit, ResolverInv
<1>2. DialInv
    BY DEF DialerInit, DialInv, NoDial
<1> QED BY <1>1, <1>2 DEF OriginInv

\* A lookup runs only where the loop was started, so none does for static resolvers.
LEMMA ResolverSteps ==
    ASSUME Statics # {}, NameServers \in Seq(ServerSet), ResolverInv, [DialerNext]_dialerVars
    PROVE  /\ ResolverInv'
           /\ static' = static /\ heard \subseteq heard'
<1>1. CASE StartLookup
    BY <1>1 DEF StartLookup, ResolverInv
<1>2. ASSUME NEW q \in Queries, PeekDial(q)
      PROVE  ResolverInv' /\ static' = static /\ heard \subseteq heard'
  <2>1. ~static
      BY <1>2 DEF PeekDial, ResolverInv, NoQuery
  <2> QED BY <1>2, <2>1 DEF PeekDial, ResolverInv
<1>3. ASSUME NEW q \in Queries, QueryEnds(q)
      PROVE  ResolverInv' /\ static' = static /\ heard \subseteq heard'
  <2>1. ~static
      BY <1>3 DEF QueryEnds, ResolverInv, NoQuery
  <2> QED BY <1>3, <2>1 DEF QueryEnds, ResolverInv
<1>4. CASE Update
  <2>1. ~static
      BY <1>4 DEF Update, Running, ResolverInv, NoQuery
  <2>2. CASE addresses' = {peeked} /\ heard' = heard \cup {peeked}
      BY <1>4, <2>1, <2>2 DEF Update, ResolverInv
  <2>3. CASE UNCHANGED <<addresses, heard>>
      BY <1>4, <2>1, <2>3 DEF Update, ResolverInv
  <2> QED BY <1>4, <2>2, <2>3 DEF Update, Succeeds
<1>5. CASE ServersChange \/ UpdateDefaultDialer \/ UNCHANGED dialerVars
    BY <1>5 DEF ServersChange, UpdateDefaultDialer, resolving, dialerVars, ResolverInv
<1>6. ASSUME NEW d \in Dials, Request(d) \/ Choose(d) \/ Done(d)
      PROVE  ResolverInv' /\ static' = static /\ heard \subseteq heard'
  <2>1. UNCHANGED resolving
      BY <1>6, Zenon DEF Request, Choose, Done
  <2> QED BY <2>1 DEF resolving, ResolverInv
<1> QED BY <1>1, <1>2, <1>3, <1>4, <1>5, <1>6 DEF DialerNext

\* A dial made before a lookup succeeds keeps a resolver that was chosen then.
LEMMA DialSteps ==
    ASSUME Statics # {}, ResolverInv, DialInv, [DialerNext]_dialerVars,
           static' = static, heard \subseteq heard'
    PROVE  DialInv'
<1>1. Chosen \subseteq Chosen'
    BY DEF Chosen
<1>2. CASE UNCHANGED <<dial, dialer>>
    BY <1>1, <1>2 DEF DialInv
<1>3. CASE UpdateDefaultDialer
    BY <1>1, <1>3 DEF UpdateDefaultDialer, DialInv
<1>4. ASSUME NEW d \in Dials, Request(d) PROVE DialInv'
  <2>1. PICK r \in BOOLEAN :
           dial' = [dial EXCEPT ![d] = [NoDial EXCEPT !.at = "look", !.reserved = r, !.since = dialer]]
      BY <1>4, Zenon DEF Request
  <2> DEFINE new == [NoDial EXCEPT !.at = "look", !.reserved = r, !.since = dialer]
             Asked == [at : {"none", "look"}, reserved : BOOLEAN, since : Nat, to : {Nobody}]
  <2>2. NoDial \in Asked
      BY DEF NoDial
  <2>3. new \in Asked /\ new.at = "look" /\ new.since = dialer
      BY <2>2 DEF DialInv
  <2> HIDE DEF new
  <2>4. UNCHANGED <<dialer, heard>>
      BY <1>4 DEF Request, resolving
  <2>5. dial' = [dial EXCEPT ![d] = new]
      BY <2>1 DEF new
  <2> QED BY <1>1, <2>3, <2>4, <2>5 DEF DialInv
<1>5. ASSUME NEW d \in Dials, Choose(d) PROVE DialInv'
  <2>1. UNCHANGED <<dialer, heard, static>>
      BY <1>5 DEF Choose, resolving
  <2>2. CASE dial[d].reserved
    <3>1. PICK a \in Addresses : dial' = [dial EXCEPT ![d].at = "dialled", ![d].to = a]
        BY <1>5, <2>2 DEF Choose
    <3>2. a \in Chosen
        BY DEF Addresses, Chosen, ResolverInv
    <3>3. a \in Statics \cup {Default} \cup heard
        BY <3>2 DEF Chosen
    <3> QED BY <1>1, <2>1, <2>2, <3>1, <3>2, <3>3 DEF DialInv
  <2>3. CASE ~dial[d].reserved
    <3>1. dial' = [dial EXCEPT ![d].at = "dialled", ![d].to = dialer]
        BY <1>5, <2>3 DEF Choose
    <3> QED BY <1>1, <2>1, <2>3, <3>1 DEF DialInv
  <2> QED BY <2>2, <2>3
<1>6. ASSUME NEW d \in Dials, Done(d) PROVE DialInv'
    BY <1>1, <1>6 DEF Done, resolving, DialInv, NoDial
<1> QED BY <1>2, <1>3, <1>4, <1>5, <1>6
     DEF DialerNext, StartLookup, PeekDial, QueryEnds, Update, ServersChange, dialerVars

\* DialsReachTheirService, whatever the lookups find and however the dialer is replaced
\* meanwhile, as long as the command line gave a resolver where it says it did
\* (NewStaticDNSResolverService is called with one address at least).
THEOREM DialsGoWhereTheyMay ==
    ASSUME Statics # {}, NameServers \in Seq(ServerSet)
    PROVE  DialerSpec => []DialsReachTheirService
<1>1. OriginInv /\ [DialerNext]_dialerVars => OriginInv'
    BY ResolverSteps, DialSteps DEF OriginInv
<1>2. OriginInv => DialsReachTheirService
    BY DEF OriginInv, ResolverInv, DialInv, Chosen, DialsReachTheirService
<1> QED BY InitOrigin, <1>1, <1>2, PTL DEF DialerSpec
=============================================================================
