----------------------------- MODULE EdgeAddrs -----------------------------
(***************************************************************************)
(* The pool of edge addresses: edgediscovery/edgediscovery.go and its      *)
(* package allregions, with the calls that EdgeTunnelServer.Serve of       *)
(* supervisor/tunnel.go makes.                                             *)
(*                                                                         *)
(* The addresses lie in two regions.  In each region the family of the     *)
(* first resolved address is the primary set and the other one the         *)
(* secondary set, unless the user has asked for one family; one of the two *)
(* is the active set, from which addresses are given out.  A connection    *)
(* keeps its address when Serve returns, unless Serve rotates it.  Every   *)
(* call holds the lock of Edge, so it is one step.                         *)
(***************************************************************************)
EXTENDS Integers, FiniteSets

CONSTANTS
    Conns,       \* the indexes of the HA connections
    Addrs,       \* the addresses of the edge
    Region1,     \* those of the first region; the others are of the second
    IPv6,        \* the IPv6 ones
    V6First,     \* the regions whose first resolved address is an IPv6 one
    Resolutions, \* what the lookup of the edge may find: sets of addresses
    Overrides,   \* the values of config.EdgeIPVersion: "auto", "4" or "6"
    None         \* no connection, or no address

ASSUME EdgeAddrsAssumption ==
    /\ IsFiniteSet(Conns) /\ IsFiniteSet(Addrs)
    /\ None \notin Conns \cup Addrs
    /\ Region1 \subseteq Addrs /\ IPv6 \subseteq Addrs /\ V6First \subseteq {1, 2}
    /\ Resolutions \subseteq SUBSET Addrs
    /\ Overrides \subseteq {"auto", "4", "6"}

Regions == {1, 2}

VARIABLES
    resolved,        \* what the lookup has found
    override,        \* config.EdgeIPVersion of this process
    usedBy,          \* the connection recorded for each address, or None
    primaryIsActive, \* for each region
    expired,         \* for each region, whether primaryTimeout has passed
    addr             \* the address that each connection serves with, or None

lookedUp == <<resolved, override>>
addrsVars == <<lookedUp, usedBy, primaryIsActive, expired, addr>>

In(r) == IF r = 1 THEN resolved \cap Region1 ELSE resolved \ Region1
Other(r) == 3 - r

\* NewRegion
PrimaryIsV6(r) == IF override = "auto" THEN r \in V6First ELSE override = "6"
Primary(r) == {a \in In(r) : a \in IPv6 <=> PrimaryIsV6(r)}
Secondary(r) == IF override = "auto" THEN In(r) \ Primary(r) ELSE {}

Unused(S, used) == {a \in S : used[a] = None}
Active(r, primary) == IF primary[r] THEN Primary(r) ELSE Secondary(r)
Available(r, used, primary) == Unused(Active(r, primary), used)

AddrsTypeOK ==
    /\ resolved \in Resolutions /\ override \in Overrides
    /\ usedBy \in [Addrs -> Conns \cup {None}]
    /\ primaryIsActive \in [Regions -> BOOLEAN]
    /\ expired \in [Regions -> BOOLEAN]
    /\ addr \in [Conns -> Addrs \cup {None}]

\* initialize lowers the number of connections to the number of addresses.
EnoughToStart ==
    Cardinality(Conns) <= Cardinality(Primary(1)) + Cardinality(Primary(2))

AddrsInit ==
    /\ resolved \in Resolutions /\ override \in Overrides /\ EnoughToStart
    /\ usedBy = [a \in Addrs |-> None]
    /\ primaryIsActive = [r \in Regions |-> TRUE]
    /\ expired = [r \in Regions |-> TRUE]
    /\ addr = [c \in Conns |-> None]

-----------------------------------------------------------------------------
\* The addresses that AddrUsedBy(c) may return
AddrUsedBy(c) == {a \in Addrs : usedBy[a] = c}

\* The regions that GetUnusedAddr tries first: the one that has more available
\* addresses, or either of them at random.
MoreAvailable(used, primary) ==
    {r \in Regions : Cardinality(Available(r, used, primary))
                        >= Cardinality(Available(Other(r), used, primary))}

\* The addresses that GetUnusedAddr(excluding, c) may return; none if it returns nil.
Choices(used, primary, excluding) ==
    LET free(r) == Available(r, used, primary) \ excluding
    IN  UNION {IF free(r) # {} THEN free(r) ELSE free(Other(r)) :
                  r \in MoreAvailable(used, primary)}

\* Use(a, c)
Recorded(used, a, c) == [used EXCEPT ![a] = c]

\* GetAddr at the start of Serve: an address this connection has already used.
GetUsedAddr(c) ==
    /\ addr[c] = None
    /\ \E a \in AddrUsedBy(c) : addr' = [addr EXCEPT ![c] = a]
    /\ UNCHANGED <<lookedUp, usedBy, primaryIsActive, expired>>

\* GetAddr otherwise: an unused one.
GetUnusedAddr(c) ==
    /\ addr[c] = None /\ AddrUsedBy(c) = {}
    /\ \E a \in Choices(usedBy, primaryIsActive, {}) :
          /\ usedBy' = Recorded(usedBy, a, c)
          /\ addr' = [addr EXCEPT ![c] = a]
    /\ UNCHANGED <<lookedUp, primaryIsActive, expired>>

\* GetAddr returns errNoAddressesLeft: Serve fails, and is called again later.
NoAddress(c) ==
    /\ addr[c] = None /\ AddrUsedBy(c) = {}
    /\ Choices(usedBy, primaryIsActive, {}) = {}
    /\ UNCHANGED addrsVars

\* Serve returns with an error that does not call for another address.
KeepAddr(c) ==
    /\ addr[c] # None
    /\ addr' = [addr EXCEPT ![c] = None]
    /\ UNCHANGED <<lookedUp, usedBy, primaryIsActive, expired>>

\* Giving back an address with a connectivity error moves its region from the
\* primary set to the secondary one, or back.
Leaves(r, a) == primaryIsActive[r] /\ a \in IPv6 /\ Secondary(r) # {}
Returns(r, a) == ~primaryIsActive[r] /\ (a \notin IPv6 \/ expired[r])

\* mutant: the address stays recorded for the connection.
GivenBackLate(a) == usedBy

\* GiveBack(a, true): what it leaves in usedBy,
GivenBack(a) == [usedBy EXCEPT ![a] = None]

\* mutant: the region never leaves its primary set.
PrimaryAfterNeverLeaves(a) ==
    [r \in Regions |-> IF a \in In(r) THEN primaryIsActive[r] \/ expired[r]
                       ELSE primaryIsActive[r]]

\* in primaryIsActive,
PrimaryAfter(a) ==
    [r \in Regions |-> IF a \in In(r) THEN ~Leaves(r, a) /\ (primaryIsActive[r] \/ Returns(r, a))
                       ELSE primaryIsActive[r]]

\* and in primaryTimeout, which the next move to the secondary set starts anew.
ExpiredAfter(a) ==
    [r \in Regions |-> IF a \in In(r) THEN ~Leaves(r, a) /\ (expired[r] \/ Returns(r, a))
                       ELSE expired[r]]

\* Serve returns with an error for which ShouldGetNewAddress asks for another
\* address.  GetDifferentAddr gives back the recorded one, which is the one that
\* Serve used (see OneAddressEach), and records another, with which the next call
\* of Serve begins.
Rotate(c) ==
    /\ addr[c] # None
    /\ \E old \in AddrUsedBy(c) :
          /\ primaryIsActive' = PrimaryAfter(old)
          /\ expired' = ExpiredAfter(old)
          /\ \E a \in Choices(GivenBack(old), primaryIsActive', {old}) :
                usedBy' = Recorded(GivenBack(old), a, c)
    /\ addr' = [addr EXCEPT ![c] = None]
    /\ UNCHANGED lookedUp

\* GetDifferentAddr returns errNoAddressesLeft: the old address is free, but the
\* connection has none.
NoOtherAddress(c) ==
    /\ addr[c] # None
    /\ \E old \in AddrUsedBy(c) :
          /\ primaryIsActive' = PrimaryAfter(old)
          /\ expired' = ExpiredAfter(old)
          /\ Choices(GivenBack(old), primaryIsActive', {old}) = {}
          /\ usedBy' = GivenBack(old)
    /\ addr' = [addr EXCEPT ![c] = None]
    /\ UNCHANGED lookedUp

\* Ten minutes after the region left its primary set.
TimeoutPasses(r) ==
    /\ ~expired[r]
    /\ expired' = [expired EXCEPT ![r] = TRUE]
    /\ UNCHANGED <<lookedUp, usedBy, primaryIsActive, addr>>

GetAddr(c) == GetUsedAddr(c) \/ GetUnusedAddr(c) \/ NoAddress(c)
GetDifferentAddr(c) == Rotate(c) \/ NoOtherAddress(c)

AddrsNext ==
    \/ \E c \in Conns : GetAddr(c) \/ KeepAddr(c) \/ GetDifferentAddr(c)
    \/ \E r \in Regions : TimeoutPasses(r)

\* A connection is always retried, and an IPv6 address that stays unreachable makes
\* Serve return with an error that rotates it.
ServeAgain(c) == addr[c] = None /\ GetAddr(c)
V6Fails(c) == addr[c] \in IPv6 /\ GetDifferentAddr(c)
V4Fails(c) == addr[c] # None /\ addr[c] \notin IPv6 /\ GetDifferentAddr(c)

AddrsFairness == \A c \in Conns : WF_addrsVars(ServeAgain(c)) /\ WF_addrsVars(V6Fails(c))

AddrsSpec == AddrsInit /\ [][AddrsNext]_addrsVars /\ AddrsFairness

-----------------------------------------------------------------------------

\* No two connections share an address, and none holds two of the pool: Serve uses
\* exactly the address that is recorded for its connection.
OneAddressEach ==
    /\ \A a, b \in Addrs : (usedBy[a] = usedBy[b] /\ usedBy[a] # None) => a = b
    /\ \A c \in Conns : addr[c] # None => usedBy[addr[c]] = c

\* Whichever sets are active, they have an address for every connection.
EnoughAddresses ==
    \A primary \in [Regions -> BOOLEAN] :
        (\A r \in Regions : primary[r] \/ Secondary(r) # {})
            => Cardinality(Conns)
                  <= Cardinality(Active(1, primary)) + Cardinality(Active(2, primary))

\* With enough addresses of each family GetAddr never fails, however the regions
\* move between their sets while connections still hold addresses of the other.
GetAddrSucceeds ==
    EnoughAddresses =>
        \A c \in Conns : AddrUsedBy(c) = {} => Choices(usedBy, primaryIsActive, {}) # {}

\* If from some time on IPv6 always fails, IPv4 never does, and no ten minutes pass
\* while a connection is left with an IPv6 address, every connection ends up
\* without one.  (If they do pass, region after region may return to IPv6 and give
\* its addresses out again, for ever.)
V6IsBroken ==
    <>[][/\ \A c \in Conns : ~V4Fails(c) /\ ~(KeepAddr(c) /\ addr[c] \in IPv6)
         /\ (\E r \in Regions : TimeoutPasses(r)) => \A a \in IPv6 : usedBy[a] = None]_addrsVars

V6IsAbandoned ==
    (override = "auto" /\ V6IsBroken) => <>[](\A a \in IPv6 : usedBy[a] = None)

UsedIn(r) == Cardinality({a \in In(r) : usedBy[a] # None})

UsedEvenly ==
    (\A r \in Regions : Secondary(r) = {} /\ Cardinality(Primary(r)) = Cardinality(Primary(1)))
        => UsedIn(1) - UsedIn(2) \in -1..1

\* "make sure we always use addresses evenly across both regions": where the
\* regions have as many addresses, of one family, their use differs by one at
\* most; and a family that fails is left for good.
RegionsAndFamilies == []UsedEvenly /\ V6IsAbandoned
=============================================================================
