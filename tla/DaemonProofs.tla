---------------------------- MODULE DaemonProofs ---------------------------
(***************************************************************************)
(* The parts of the daemon that MCDaemon runs side by side, each for every *)
(* value of its constants: the pool of edge addresses, a connection to the *)
(* edge, the sessions of datagrams v2, the loops of datagrams v3, the      *)
(* versions of the configuration, the streams of the log, and the program  *)
(* on the disk while the updater replaces it.                              *)
(***************************************************************************)
EXTENDS EdgeAddrs, EdgeConnection, DatagramsV2, DatagramsV3, Orchestrator, Management,
        TunnelProcess, FiniteSetTheorems, TLAPS

\* A region is on its secondary set only if it has one.
ActiveSetExists == \A r \in Regions : primaryIsActive[r] \/ Secondary(r) # {}

PoolInv == AddrsTypeOK /\ OneAddressEach /\ ActiveSetExists

\* What GetUnusedAddr returns is unused, resolved and not the excluded address.
LEMMA ChoicesAreUnused ==
    ASSUME NEW used, NEW primary, NEW excluding, NEW a \in Choices(used, primary, excluding),
           AddrsTypeOK
    PROVE  a \in Addrs /\ used[a] = None /\ a \notin excluding
<1>1. PICK r \in Regions : a \in Available(r, used, primary) \ excluding
    BY DEF Choices, Other, Regions, MoreAvailable
<1>2. a \in Active(r, primary) /\ used[a] = None
    BY <1>1 DEF Available, Unused
<1>3. a \in resolved
    BY <1>2 DEF Active, Primary, Secondary, In
<1> QED BY <1>1, <1>2, <1>3, EdgeAddrsAssumption DEF AddrsTypeOK

LEMMA InitPool == AddrsInit => PoolInv
BY EdgeAddrsAssumption DEF AddrsInit, PoolInv, AddrsTypeOK, OneAddressEach, ActiveSetExists

\* A region leaves its primary set only for a secondary set that is not empty.
LEMMA GiveBackKeepsSets ==
    ASSUME PoolInv, NEW a \in Addrs, UNCHANGED lookedUp,
           primaryIsActive' = PrimaryAfter(a), expired' = ExpiredAfter(a)
    PROVE  /\ primaryIsActive' \in [Regions -> BOOLEAN] /\ expired' \in [Regions -> BOOLEAN]
           /\ ActiveSetExists'
<1>1. \A r \in Regions : Secondary(r)' = Secondary(r)
    BY DEF lookedUp, Secondary, Primary, In, PrimaryIsV6
<1>2. \A r \in Regions : Leaves(r, a) \in BOOLEAN /\ Returns(r, a) \in BOOLEAN
                            /\ primaryIsActive[r] \in BOOLEAN /\ expired[r] \in BOOLEAN
    BY DEF Leaves, Returns, PoolInv, AddrsTypeOK
<1>3. primaryIsActive' \in [Regions -> BOOLEAN] /\ expired' \in [Regions -> BOOLEAN]
    BY <1>2 DEF PrimaryAfter, ExpiredAfter
<1>4. \A r \in Regions : primaryIsActive'[r] \/ Secondary(r) # {}
    BY DEF PrimaryAfter, Leaves, PoolInv, ActiveSetExists
<1> QED BY <1>1, <1>3, <1>4 DEF ActiveSetExists

\* Steps that leave the regions alone.
LEMMA RegionsStay ==
    ASSUME PoolInv, UNCHANGED <<lookedUp, primaryIsActive>>
    PROVE  ActiveSetExists'
BY DEF lookedUp, PoolInv, ActiveSetExists, Secondary, Primary, In, PrimaryIsV6

LEMMA NextPool == PoolInv /\ [AddrsNext]_addrsVars => PoolInv'
<1> SUFFICES ASSUME PoolInv, [AddrsNext]_addrsVars PROVE PoolInv'
    OBVIOUS
<1> USE EdgeAddrsAssumption
<1>1. ASSUME NEW c \in Conns, GetUsedAddr(c) PROVE PoolInv'
  <2>1. PICK a \in Addrs : usedBy[a] = c /\ addr' = [addr EXCEPT ![c] = a]
    BY <1>1 DEF GetUsedAddr, AddrUsedBy
  <2>2. UNCHANGED <<lookedUp, usedBy, primaryIsActive, expired>>
    BY <1>1 DEF GetUsedAddr
  <2> QED BY <2>1, <2>2, RegionsStay DEF PoolInv, AddrsTypeOK, OneAddressEach, lookedUp
<1>2. ASSUME NEW c \in Conns, GetUnusedAddr(c) PROVE PoolInv'
  <2>1. PICK a \in Choices(usedBy, primaryIsActive, {}) :
            usedBy' = [usedBy EXCEPT ![a] = c] /\ addr' = [addr EXCEPT ![c] = a]
    BY <1>2 DEF GetUnusedAddr, Recorded
  <2>2. UNCHANGED <<lookedUp, primaryIsActive, expired>> /\ \A b \in Addrs : usedBy[b] # c
    BY <1>2 DEF GetUnusedAddr, AddrUsedBy
  <2>3. a \in Addrs /\ usedBy[a] = None
    BY <2>1, ChoicesAreUnused DEF PoolInv
  <2> QED BY <2>1, <2>2, <2>3, RegionsStay DEF PoolInv, AddrsTypeOK, OneAddressEach, lookedUp
<1>3. ASSUME NEW c \in Conns, KeepAddr(c) PROVE PoolInv'
  <2>1. /\ UNCHANGED <<lookedUp, usedBy, primaryIsActive, expired>>
        /\ addr' = [addr EXCEPT ![c] = None]
    BY <1>3 DEF KeepAddr
  <2> QED BY <2>1, RegionsStay DEF PoolInv, AddrsTypeOK, OneAddressEach, lookedUp
<1>4. ASSUME NEW c \in Conns, Rotate(c) PROVE PoolInv'
  <2>0. PICK old \in Addrs :
            /\ usedBy[old] = c
            /\ primaryIsActive' = PrimaryAfter(old) /\ expired' = ExpiredAfter(old)
            /\ \E a \in Choices(GivenBack(old), primaryIsActive', {old}) :
                  usedBy' = [GivenBack(old) EXCEPT ![a] = c]
    BY <1>4 DEF Rotate, AddrUsedBy, Recorded
  <2>1. PICK a \in Choices(GivenBack(old), primaryIsActive', {old}) :
            usedBy' = [GivenBack(old) EXCEPT ![a] = c]
    BY <2>0
  <2>2. UNCHANGED lookedUp /\ addr' = [addr EXCEPT ![c] = None]
    BY <1>4 DEF Rotate
  <2>3. a \in Addrs /\ GivenBack(old)[a] = None /\ a # old
    BY <2>0, <2>1, ChoicesAreUnused DEF PoolInv
  <2>4. usedBy' = [usedBy EXCEPT ![old] = None, ![a] = c] /\ usedBy[a] = None
    BY <2>0, <2>1, <2>3 DEF GivenBack, PoolInv, AddrsTypeOK
  <2>5. AddrsTypeOK' /\ ActiveSetExists'
    BY <2>0, <2>1, <2>2, <2>3, <2>4, GiveBackKeepsSets DEF PoolInv, AddrsTypeOK, lookedUp
  <2>6. OneAddressEach'
    BY <2>0, <2>1, <2>2, <2>3, <2>4 DEF PoolInv, AddrsTypeOK, OneAddressEach
  <2> QED BY <2>5, <2>6 DEF PoolInv
<1>5. ASSUME NEW c \in Conns, NoOtherAddress(c) PROVE PoolInv'
  <2>1. PICK old \in Addrs :
            /\ usedBy[old] = c
            /\ primaryIsActive' = PrimaryAfter(old) /\ expired' = ExpiredAfter(old)
            /\ usedBy' = [usedBy EXCEPT ![old] = None]
    BY <1>5 DEF NoOtherAddress, AddrUsedBy, GivenBack
  <2>2. UNCHANGED lookedUp /\ addr' = [addr EXCEPT ![c] = None]
    BY <1>5 DEF NoOtherAddress
  <2>3. AddrsTypeOK' /\ ActiveSetExists'
    BY <2>1, <2>2, GiveBackKeepsSets DEF PoolInv, AddrsTypeOK, lookedUp
  <2>4. OneAddressEach'
    BY <2>1, <2>2 DEF PoolInv, AddrsTypeOK, OneAddressEach
  <2> QED BY <2>3, <2>4 DEF PoolInv
<1>6. ASSUME NEW r \in Regions, TimeoutPasses(r) PROVE PoolInv'
  <2>1. /\ UNCHANGED <<lookedUp, usedBy, primaryIsActive, addr>>
        /\ expired' = [expired EXCEPT ![r] = TRUE]
    BY <1>6 DEF TimeoutPasses
  <2> QED BY <2>1, RegionsStay DEF PoolInv, AddrsTypeOK, OneAddressEach, lookedUp
<1>7. CASE UNCHANGED addrsVars
    BY <1>7, RegionsStay DEF addrsVars, lookedUp, PoolInv, AddrsTypeOK, OneAddressEach
<1>8. ASSUME NEW c \in Conns, NoAddress(c) PROVE PoolInv'
    BY <1>7, <1>8 DEF NoAddress
<1> QED
    BY <1>1, <1>2, <1>3, <1>4, <1>5, <1>6, <1>7, <1>8 DEF AddrsNext, GetAddr, GetDifferentAddr

\* edgediscovery.go 78-131: no two connections dial the same address, and no
\* connection holds two, whatever addresses were rotated before.
THEOREM AddressesAreNotShared == AddrsSpec => []OneAddressEach
<1>1. PoolInv => OneAddressEach
    BY DEF PoolInv
<1> QED BY <1>1, InitPool, NextPool, PTL DEF AddrsSpec

\* Where GetUnusedAddr returns nil, every address of the two active sets is used.
LEMMA NilWhenAllUsed ==
    ASSUME PoolInv, Choices(usedBy, primaryIsActive, {}) = {}
    PROVE  \A r \in Regions : \A a \in Active(r, primaryIsActive) : usedBy[a] \in Conns
<1> DEFINE available(r) == Available(r, usedBy, primaryIsActive)
<1>1. \A r \in Regions : Active(r, primaryIsActive) \subseteq resolved
    BY DEF Active, Primary, Secondary, In
<1>2. \A r \in Regions : IsFiniteSet(available(r))
  <2>1. \A r \in Regions : available(r) \subseteq Addrs
    BY <1>1, EdgeAddrsAssumption DEF Available, Unused, PoolInv, AddrsTypeOK
  <2> QED BY <2>1, EdgeAddrsAssumption, FS_Subset
<1>3. \A r \in Regions : Cardinality(available(r)) \in Nat
    BY <1>2, FS_CardinalityType
<1>4. PICK first \in Regions :
          Cardinality(available(first)) >= Cardinality(available(Other(first)))
  <2>1. Cardinality(available(1)) \in Nat /\ Cardinality(available(2)) \in Nat
    BY <1>3 DEF Regions
  <2>2. CASE Cardinality(available(1)) >= Cardinality(available(2))
    BY <2>2 DEF Regions, Other
  <2>3. CASE Cardinality(available(2)) >= Cardinality(available(1))
    BY <2>3 DEF Regions, Other
  <2> QED BY <2>1, <2>2, <2>3
<1>5. first \in MoreAvailable(usedBy, primaryIsActive)
    BY <1>4 DEF MoreAvailable
<1>6. available(first) = {} /\ available(Other(first)) = {}
    BY <1>5 DEF Choices
<1>7. \A r \in Regions : available(r) = {}
    BY <1>6 DEF Regions, Other
<1> QED
    BY <1>1, <1>7, EdgeAddrsAssumption DEF Available, Unused, PoolInv, AddrsTypeOK

\* Then the active sets are no larger than the set of the connections that hold one
\* of their addresses.
LEMMA UsedActiveSets ==
    ASSUME PoolInv, NEW c \in Conns, AddrUsedBy(c) = {},
           \A r \in Regions : \A a \in Active(r, primaryIsActive) : usedBy[a] \in Conns
    PROVE  Cardinality(Active(1, primaryIsActive)) + Cardinality(Active(2, primaryIsActive))
              < Cardinality(Conns)
<1> DEFINE A == Active(1, primaryIsActive)
           B == Active(2, primaryIsActive)
           holder == [a \in A \cup B |-> usedBy[a]]
<1>1. A \subseteq Addrs /\ B \subseteq Addrs /\ A \cap B = {}
    BY EdgeAddrsAssumption DEF Active, Primary, Secondary, In, PoolInv, AddrsTypeOK
<1>2. IsFiniteSet(A) /\ IsFiniteSet(B) /\ IsFiniteSet(A \cup B)
    BY <1>1, EdgeAddrsAssumption, FS_Subset, FS_Union
<1>3. Cardinality(A \cup B) = Cardinality(A) + Cardinality(B)
  <2>1. Cardinality(A \cap B) = 0
    BY <1>1, FS_EmptySet, Zenon
  <2>2. Cardinality(A \cup B) = Cardinality(A) + Cardinality(B) - Cardinality(A \cap B)
    BY <1>2, FS_Union
  <2>3. Cardinality(A) \in Nat /\ Cardinality(B) \in Nat
    BY <1>2, FS_CardinalityType
  <2> QED BY <2>1, <2>2, <2>3
<1>4. holder \in Injection(A \cup B, Conns \ {c})
  <2>1. \A a \in A \cup B : usedBy[a] \in Conns \ {c}
    BY <1>1 DEF AddrUsedBy, Regions
  <2>2. \A a, b \in A \cup B : usedBy[a] = usedBy[b] => a = b
    BY <1>1, <2>1, EdgeAddrsAssumption DEF PoolInv, OneAddressEach
  <2> QED BY <2>1, <2>2 DEF Injection, IsInjective
<1>5. IsFiniteSet(Conns \ {c}) /\ Cardinality(Conns \ {c}) = Cardinality(Conns) - 1
    BY EdgeAddrsAssumption, FS_RemoveElement
<1>6. Cardinality(A \cup B) <= Cardinality(Conns \ {c})
    BY <1>4, <1>5, FS_Injection DEF ExistsInjection
<1>7. Cardinality(A \cup B) \in Nat /\ Cardinality(Conns) \in Nat
    BY <1>2, EdgeAddrsAssumption, FS_CardinalityType
<1> QED BY <1>3, <1>5, <1>6, <1>7

\* regions.go 100-117: whatever sets the failures have made the active ones, an
\* address is left for a connection that holds none, if the sets are large enough.
THEOREM AddressForEveryConnection == AddrsSpec => []GetAddrSucceeds
<1>1. PoolInv => GetAddrSucceeds
  <2> SUFFICES ASSUME PoolInv, EnoughAddresses, NEW c \in Conns, AddrUsedBy(c) = {},
                      Choices(usedBy, primaryIsActive, {}) = {}
               PROVE  FALSE
    BY DEF GetAddrSucceeds
  <2>1. Cardinality(Conns) <= Cardinality(Active(1, primaryIsActive))
                                 + Cardinality(Active(2, primaryIsActive))
    BY DEF EnoughAddresses, PoolInv, AddrsTypeOK, ActiveSetExists
  <2>2. Cardinality(Active(1, primaryIsActive)) + Cardinality(Active(2, primaryIsActive))
           < Cardinality(Conns)
    BY NilWhenAllUsed, UsedActiveSets
  <2>3. /\ Cardinality(Conns) \in Nat
        /\ \A r \in Regions : Cardinality(Active(r, primaryIsActive)) \in Nat
    <3>1. \A r \in Regions : Active(r, primaryIsActive) \subseteq Addrs
      BY EdgeAddrsAssumption DEF Active, Primary, Secondary, In, PoolInv, AddrsTypeOK
    <3> QED BY <3>1, EdgeAddrsAssumption, FS_Subset, FS_CardinalityType
  <2> QED BY <2>1, <2>2, <2>3 DEF Regions
<1> QED BY <1>1, InitPool, NextPool, PTL DEF AddrsSpec

\* Regions of one family and of one size
Even == \A r \in Regions : Secondary(r) = {} /\ Cardinality(Primary(r)) = Cardinality(Primary(1))

Taken(used, r) == {a \in Primary(r) : used[a] # None}
Count(used, r) == Cardinality(Taken(used, r))
Free(used, r) == {a \in Primary(r) : used[a] = None}

Apart(used) == Count(used, 1) - Count(used, 2) \in -1..1

\* In such regions only addresses of the primary sets are used, evenly.
EvenInv ==
    Even => /\ \A a \in Addrs : usedBy[a] # None => a \in Primary(1) \cup Primary(2)
            /\ Apart(usedBy)

\* The two regions have no address in common, and of each as many are free as are not taken.
LEMMA Counts ==
    ASSUME PoolInv, NEW used, NEW r \in Regions
    PROVE  /\ Primary(r) \subseteq Addrs /\ Primary(r) \cap Primary(Other(r)) = {}
           /\ IsFiniteSet(Taken(used, r)) /\ IsFiniteSet(Free(used, r))
           /\ Count(used, r) \in Nat /\ Cardinality(Primary(r)) \in Nat
           /\ Count(used, r) <= Cardinality(Primary(r))
           /\ Cardinality(Free(used, r)) = Cardinality(Primary(r)) - Count(used, r)
<1>1. Primary(r) \subseteq Addrs /\ Primary(r) \cap Primary(Other(r)) = {}
  <2>1. Other(r) \in Regions /\ Other(r) # r
    BY DEF Regions, Other
  <2> QED BY <2>1, EdgeAddrsAssumption DEF Primary, In, PoolInv, AddrsTypeOK, Regions
<1>2. IsFiniteSet(Primary(r))
  BY <1>1, EdgeAddrsAssumption, FS_Subset
<1>3. Taken(used, r) \subseteq Primary(r) /\ Free(used, r) = Primary(r) \ Taken(used, r)
  BY DEF Taken, Free
<1>4. /\ IsFiniteSet(Taken(used, r)) /\ Count(used, r) <= Cardinality(Primary(r))
      /\ IsFiniteSet(Free(used, r))
  BY <1>2, <1>3, FS_Subset DEF Count
<1>5. Count(used, r) \in Nat /\ Cardinality(Primary(r)) \in Nat
  BY <1>2, <1>4, FS_CardinalityType DEF Count
<1>6. Cardinality(Free(used, r)) = Cardinality(Primary(r)) - Count(used, r)
  <2>1. Cardinality(Primary(r) \ Taken(used, r))
           = Cardinality(Primary(r)) - Cardinality(Primary(r) \cap Taken(used, r))
    BY <1>2, <1>4, FS_Difference
  <2>2. Primary(r) \cap Taken(used, r) = Taken(used, r)
    BY <1>3
  <2> QED BY <1>3, <2>1, <2>2 DEF Count
<1> QED BY <1>1, <1>4, <1>5, <1>6

\* What recording and giving back an address do to the counts
LEMMA CountsAfterUse ==
    ASSUME PoolInv, NEW used, DOMAIN used = Addrs, NEW r \in Regions, NEW a \in Primary(r),
           used[a] = None, NEW c \in Conns
    PROVE  /\ Count([used EXCEPT ![a] = c], r) = Count(used, r) + 1
           /\ Count([used EXCEPT ![a] = c], Other(r)) = Count(used, Other(r))
<1> DEFINE after == [used EXCEPT ![a] = c]
<1>1. a \in Addrs /\ a \notin Primary(Other(r)) /\ IsFiniteSet(Taken(used, r)) /\ c # None
  BY Counts, EdgeAddrsAssumption
<1>2. \A b \in Addrs : after[b] = IF b = a THEN c ELSE used[b]
  BY <1>1
<1>3. Other(r) \in Regions
  BY DEF Regions, Other
<1>4. Primary(r) \subseteq Addrs /\ Primary(Other(r)) \subseteq Addrs
  BY <1>3, Counts
<1> HIDE DEF after
<1>5. Taken(after, r) = Taken(used, r) \cup {a} /\ a \notin Taken(used, r)
  BY <1>1, <1>2, <1>4 DEF Taken
<1>6. Taken(after, Other(r)) = Taken(used, Other(r))
  BY <1>1, <1>2, <1>4 DEF Taken
<1>7. Cardinality(Taken(used, r) \cup {a}) = Cardinality(Taken(used, r)) + 1
  BY <1>1, <1>5, FS_AddElement
<1> QED BY <1>5, <1>6, <1>7 DEF Count, after

LEMMA CountsAfterGiveBack ==
    ASSUME PoolInv, NEW used, DOMAIN used = Addrs, NEW r \in Regions, NEW a \in Primary(r),
           used[a] # None
    PROVE  /\ Count([used EXCEPT ![a] = None], r) = Count(used, r) - 1
           /\ Count([used EXCEPT ![a] = None], Other(r)) = Count(used, Other(r))
<1> DEFINE after == [used EXCEPT ![a] = None]
<1>1. a \in Addrs /\ a \notin Primary(Other(r)) /\ IsFiniteSet(Taken(used, r))
  BY Counts, EdgeAddrsAssumption
<1>2. \A b \in Addrs : after[b] = IF b = a THEN None ELSE used[b]
  BY <1>1
<1>3. Other(r) \in Regions
  BY DEF Regions, Other
<1>4. Primary(r) \subseteq Addrs /\ Primary(Other(r)) \subseteq Addrs
  BY <1>3, Counts
<1> HIDE DEF after
<1>5. Taken(after, r) = Taken(used, r) \ {a} /\ a \in Taken(used, r)
  BY <1>1, <1>2, <1>4 DEF Taken
<1>6. Taken(after, Other(r)) = Taken(used, Other(r))
  BY <1>1, <1>2, <1>4 DEF Taken
<1>7. Cardinality(Taken(used, r) \ {a}) = Cardinality(Taken(used, r)) - 1
  BY <1>1, <1>5, FS_RemoveElement
<1> QED BY <1>5, <1>6, <1>7 DEF Count, after

\* GetUnusedAddr takes an address of the region with more free ones, or of the other when
\* that one has none but the excluded.
LEMMA ChoiceOfRegion ==
    ASSUME PoolInv, NEW used, NEW primary, \A r \in Regions : primary[r], NEW excluding,
           NEW a \in Choices(used, primary, excluding)
    PROVE  \E r \in Regions :
              /\ a \in Free(used, r) \ excluding
              /\ \/ Cardinality(Free(used, r)) >= Cardinality(Free(used, Other(r)))
                 \/ /\ Cardinality(Free(used, Other(r))) >= Cardinality(Free(used, r))
                    /\ Free(used, Other(r)) \ excluding = {}
<1>1. \A r \in Regions : Available(r, used, primary) = Free(used, r)
  BY DEF Available, Unused, Active, Free
<1>2. \A r \in Regions : Other(r) \in Regions /\ Other(Other(r)) = r
  BY DEF Regions, Other
<1>3. PICK r \in MoreAvailable(used, primary) :
         a \in IF Available(r, used, primary) \ excluding # {} THEN Available(r, used, primary) \ excluding
               ELSE Available(Other(r), used, primary) \ excluding
  BY DEF Choices
<1>4. r \in Regions /\ Cardinality(Free(used, r)) >= Cardinality(Free(used, Other(r)))
  BY <1>1, <1>2, <1>3 DEF MoreAvailable
<1>5. CASE a \in Free(used, r) \ excluding
  BY <1>4, <1>5
<1>6. CASE a \in Free(used, Other(r)) \ excluding /\ Free(used, r) \ excluding = {}
  BY <1>2, <1>4, <1>6
<1> QED BY <1>1, <1>2, <1>3, <1>4, <1>5, <1>6

\* and returns nil only if neither has one.
LEMMA NoChoice ==
    ASSUME PoolInv, NEW used, NEW primary, \A r \in Regions : primary[r], NEW excluding,
           Choices(used, primary, excluding) = {}
    PROVE  \A r \in Regions : Free(used, r) \subseteq excluding
<1>1. \A r \in Regions : Available(r, used, primary) = Free(used, r)
  BY DEF Available, Unused, Active, Free
<1>2. \A r \in Regions : Cardinality(Free(used, r)) \in Nat
  BY Counts, FS_CardinalityType
<1>3. PICK first \in Regions : first \in MoreAvailable(used, primary)
  <2>1. Other(1) = 2 /\ Other(2) = 1 /\ Regions = {1, 2}
    BY DEF Regions, Other
  <2>2. Cardinality(Free(used, 1)) \in Nat /\ Cardinality(Free(used, 2)) \in Nat
    BY <1>2, <2>1
  <2>3. CASE Cardinality(Free(used, 1)) >= Cardinality(Free(used, 2))
    BY <1>1, <2>1, <2>3 DEF MoreAvailable
  <2>4. CASE Cardinality(Free(used, 2)) >= Cardinality(Free(used, 1))
    BY <1>1, <2>1, <2>4 DEF MoreAvailable
  <2> QED BY <2>2, <2>3, <2>4
<1>4. /\ Available(first, used, primary) \ excluding = {}
      /\ Available(Other(first), used, primary) \ excluding = {}
  BY <1>3 DEF Choices
<1>5. \A r \in Regions : r = first \/ r = Other(first)
  BY DEF Regions, Other
<1> QED BY <1>1, <1>4, <1>5

\* The pool is the same for the whole run, so what is to be shown is about usedBy' alone.
LEMMA EvenAfter ==
    ASSUME UNCHANGED lookedUp,
           Even => /\ \A a \in Addrs : usedBy'[a] # None => a \in Primary(1) \cup Primary(2)
                   /\ Apart(usedBy')
    PROVE  EvenInv'
<1>1. \A r \in {1, 2} : Primary(r)' = Primary(r) /\ Secondary(r)' = Secondary(r)
  BY DEF lookedUp, Secondary, Primary, In, PrimaryIsV6
<1>2. Even' => Even
  BY <1>1 DEF Even, Regions
<1>3. \A r \in {1, 2} : Count(usedBy, r)' = Count(usedBy', r)
  BY <1>1 DEF Count, Taken
<1>4. Apart(usedBy)' <=> Apart(usedBy')
  BY <1>3 DEF Apart
<1> QED BY <1>1, <1>2, <1>4 DEF EvenInv

\* The other of two regions, for an address of one of them
LEMMA ApartOf ==
    ASSUME PoolInv, NEW used, NEW r \in Regions,
           Count(used, r) - Count(used, Other(r)) \in -1..1
    PROVE  Apart(used)
<1>1. Count(used, 1) \in Nat /\ Count(used, 2) \in Nat
  BY Counts DEF Regions
<1>2. (r = 1 /\ Other(r) = 2) \/ (r = 2 /\ Other(r) = 1)
  BY DEF Regions, Other
<1> QED BY <1>1, <1>2 DEF Apart

LEMMA ApartBoth ==
    ASSUME PoolInv, NEW used, Apart(used), NEW r \in Regions
    PROVE  Count(used, r) - Count(used, Other(r)) \in -1..1
<1>1. Count(used, 1) \in Nat /\ Count(used, 2) \in Nat
  BY Counts DEF Regions
<1>2. (r = 1 /\ Other(r) = 2) \/ (r = 2 /\ Other(r) = 1)
  BY DEF Regions, Other
<1> QED BY <1>1, <1>2 DEF Apart

\* A connection without an address is given one.
LEMMA UseKeepsEven ==
    ASSUME PoolInv, EvenInv, Even, NEW c \in Conns,
           NEW a \in Choices(usedBy, primaryIsActive, {})
    PROVE  /\ a \in Primary(1) \cup Primary(2)
           /\ Apart([usedBy EXCEPT ![a] = c])
<1>1. \A r \in Regions : primaryIsActive[r]
  BY DEF Even, PoolInv, ActiveSetExists
<1>2. PICK r \in Regions :
         /\ a \in Free(usedBy, r) \ {}
         /\ \/ Cardinality(Free(usedBy, r)) >= Cardinality(Free(usedBy, Other(r)))
            \/ /\ Cardinality(Free(usedBy, Other(r))) >= Cardinality(Free(usedBy, r))
               /\ Free(usedBy, Other(r)) \ {} = {}
  BY <1>1, ChoiceOfRegion
<1>3. Other(r) \in Regions /\ a \in Primary(r) /\ usedBy[a] = None
  BY <1>2 DEF Free, Regions, Other
<1> DEFINE n == Cardinality(Primary(1))
           mine == Count(usedBy, r)
           others == Count(usedBy, Other(r))
<1>4. Cardinality(Primary(r)) = n /\ Cardinality(Primary(Other(r))) = n
  BY <1>3 DEF Even
<1>5. /\ mine \in Nat /\ others \in Nat /\ n \in Nat
      /\ Cardinality(Free(usedBy, r)) = n - mine
      /\ Cardinality(Free(usedBy, Other(r))) = n - others
      /\ mine <= n /\ IsFiniteSet(Free(usedBy, r))
  BY <1>3, <1>4, Counts
<1>6. Cardinality(Free(usedBy, r)) # 0
  BY <1>2, <1>5, FS_EmptySet
<1>7. mine - others \in -1..1
  BY ApartBoth DEF EvenInv
<1>8. Free(usedBy, Other(r)) = {} => Cardinality(Free(usedBy, Other(r))) = 0
  BY FS_EmptySet
<1>9. /\ Count([usedBy EXCEPT ![a] = c], r) = mine + 1
      /\ Count([usedBy EXCEPT ![a] = c], Other(r)) = others
  BY <1>3, CountsAfterUse DEF PoolInv, AddrsTypeOK
<1> HIDE DEF n, mine, others
<1>10. (mine + 1) - others \in -1..1
  <2>1. Free(usedBy, Other(r)) \ {} = Free(usedBy, Other(r))
    OBVIOUS
  <2>2. n - mine >= n - others
    <3>1. CASE Cardinality(Free(usedBy, r)) >= Cardinality(Free(usedBy, Other(r)))
      BY <1>5, <3>1
    <3>2. CASE /\ Cardinality(Free(usedBy, Other(r))) >= Cardinality(Free(usedBy, r))
               /\ Free(usedBy, Other(r)) = {}
      BY <1>5, <1>6, <1>8, <3>2
    <3> QED BY <1>2, <2>1, <3>1, <3>2
  <2> QED BY <1>5, <1>7, <2>2
<1>11. Count([usedBy EXCEPT ![a] = c], r) - Count([usedBy EXCEPT ![a] = c], Other(r)) \in -1..1
  BY <1>9, <1>10
<1> QED BY <1>3, <1>11, ApartOf DEF Regions

\* An address is given back, and another is taken if there is one.
LEMMA RotationKeepsEven ==
    ASSUME PoolInv, EvenInv, Even, NEW c \in Conns, NEW primary, \A r \in Regions : primary[r],
           NEW old \in Addrs, usedBy[old] # None
    PROVE  /\ Choices(GivenBack(old), primary, {old}) = {} => Apart(GivenBack(old))
           /\ \A a \in Choices(GivenBack(old), primary, {old}) :
                 /\ a \in Primary(1) \cup Primary(2)
                 /\ Apart([GivenBack(old) EXCEPT ![a] = c])
<1> DEFINE back == GivenBack(old)
           n == Cardinality(Primary(1))
<1>1. PICK q \in Regions : old \in Primary(q)
  BY DEF EvenInv, Regions
<1> DEFINE mine == Count(usedBy, q)
           others == Count(usedBy, Other(q))
<1>2. Other(q) \in Regions /\ Other(Other(q)) = q /\ \A r \in Regions : r = q \/ r = Other(q)
  BY DEF Regions, Other
<1>3. Cardinality(Primary(q)) = n /\ Cardinality(Primary(Other(q))) = n
  BY <1>2 DEF Even
<1>4. mine \in Nat /\ others \in Nat /\ n \in Nat /\ mine <= n /\ others <= n
  BY <1>2, <1>3, Counts
<1>5. mine - others \in -1..1
  BY ApartBoth DEF EvenInv
<1>6. Count(back, q) = mine - 1 /\ Count(back, Other(q)) = others /\ DOMAIN back = Addrs
  BY <1>1, CountsAfterGiveBack DEF GivenBack, PoolInv, AddrsTypeOK
<1>7. /\ Cardinality(Free(back, q)) = n - (mine - 1) /\ IsFiniteSet(Free(back, q))
      /\ Cardinality(Free(back, Other(q))) = n - others /\ IsFiniteSet(Free(back, Other(q)))
  BY <1>2, <1>3, <1>6, Counts
<1>8. old \in Free(back, q) /\ old \notin Free(back, Other(q))
  <2>1. back[old] = None
    BY DEF GivenBack, PoolInv, AddrsTypeOK
  <2>2. Primary(q) \cap Primary(Other(q)) = {}
    BY Counts
  <2> QED BY <1>1, <2>1, <2>2 DEF Free
\* the region of the address that is given back has no other free one
<1>9. Free(back, q) \subseteq {old} => n - (mine - 1) = 1
  <2>1. Free(back, q) \subseteq {old} => Free(back, q) = {old}
    BY <1>8
  <2> QED BY <1>7, <2>1, FS_Singleton
<1>10. Free(back, Other(q)) \subseteq {old} => n - others = 0
  <2>1. Free(back, Other(q)) \subseteq {old} => Free(back, Other(q)) = {}
    BY <1>8
  <2> QED BY <1>7, <2>1, FS_EmptySet
<1> HIDE DEF back, n, mine, others
<1>11. ASSUME Choices(back, primary, {old}) = {} PROVE Apart(back)
  <2>1. Free(back, q) \subseteq {old} /\ Free(back, Other(q)) \subseteq {old}
    BY <1>2, <1>11, NoChoice
  <2>2. (mine - 1) - others \in -1..1
    BY <1>4, <1>9, <1>10, <2>1
  <2> QED BY <1>6, <2>2, ApartOf
<1>12. ASSUME NEW a \in Choices(back, primary, {old})
       PROVE  a \in Primary(1) \cup Primary(2) /\ Apart([back EXCEPT ![a] = c])
  <2> DEFINE after == [back EXCEPT ![a] = c]
  <2>1. PICK r \in Regions :
           /\ a \in Free(back, r) \ {old}
           /\ \/ Cardinality(Free(back, r)) >= Cardinality(Free(back, Other(r)))
              \/ /\ Cardinality(Free(back, Other(r))) >= Cardinality(Free(back, r))
                 /\ Free(back, Other(r)) \ {old} = {}
    BY <1>12, ChoiceOfRegion
  <2>2. a \in Primary(r) /\ back[a] = None
    BY <2>1 DEF Free
  <2>3. /\ Count(after, r) = Count(back, r) + 1
        /\ Count(after, Other(r)) = Count(back, Other(r))
    BY <1>6, <2>2, CountsAfterUse
  <2> HIDE DEF after
  <2>4. Free(back, Other(r)) \ {old} = {} => Free(back, Other(r)) \subseteq {old}
    OBVIOUS
  <2>5. CASE r = q
    <3>1. n - (mine - 1) >= n - others
      <4>1. Cardinality(Free(back, r)) # 0
        BY <1>7, <2>1, <2>5, FS_EmptySet
      <4> QED BY <1>4, <1>7, <1>10, <2>1, <2>4, <2>5, <4>1
    <3>2. (mine - 1) + 1 - others \in -1..1
      BY <1>4, <1>5
    <3>3. Count(after, r) - Count(after, Other(r)) \in -1..1
      <4>1. Count(after, r) = (mine - 1) + 1
        BY <1>6, <2>3, <2>5
      <4>2. Count(after, Other(r)) = others
        BY <1>6, <2>3, <2>5
      <4> QED BY <1>4, <1>5, <4>1, <4>2
    <3>4. Apart(after)
      BY <3>3, ApartOf
    <3> QED BY <2>2, <3>4 DEF Regions, after
  <2>6. CASE r = Other(q)
    <3>1. Cardinality(Free(back, r)) # 0
      BY <1>2, <1>7, <2>1, <2>6, FS_EmptySet
    <3>2. n - others # 0
      BY <1>7, <2>6, <3>1
    <3>3. n - others >= n - (mine - 1) \/ n - (mine - 1) = 1
      BY <1>2, <1>7, <1>9, <2>1, <2>4, <2>6
    <3>4. others + 1 - (mine - 1) \in -1..1
      BY <1>4, <1>5, <3>2, <3>3
    <3>5. Count(after, r) - Count(after, Other(r)) \in -1..1
      <4>1. Count(after, r) = others + 1
        BY <1>6, <2>3, <2>6
      <4>2. Other(r) = q
        BY <1>2, <2>6
      <4>3. Count(after, Other(r)) = mine - 1
        BY <1>6, <2>3, <4>2
      <4> QED BY <1>4, <3>4, <4>1, <4>3
    <3>6. Apart(after)
      BY <3>5, ApartOf
    <3> QED BY <2>2, <3>6 DEF Regions, after
  <2> QED BY <1>2, <2>5, <2>6
<1> QED BY <1>11, <1>12 DEF back

LEMMA EvenStep == PoolInv /\ PoolInv' /\ EvenInv /\ [AddrsNext]_addrsVars => EvenInv'
<1> SUFFICES ASSUME PoolInv, PoolInv', EvenInv, [AddrsNext]_addrsVars PROVE EvenInv'
  OBVIOUS
<1>1. CASE UNCHANGED <<lookedUp, usedBy>>
  BY <1>1, EvenAfter DEF EvenInv
<1>2. ASSUME NEW c \in Conns, GetUnusedAddr(c)
      PROVE  EvenInv'
  <2>1. PICK a \in Choices(usedBy, primaryIsActive, {}) : usedBy' = [usedBy EXCEPT ![a] = c]
    BY <1>2 DEF GetUnusedAddr, Recorded
  <2>2. UNCHANGED lookedUp
    BY <1>2 DEF GetUnusedAddr
  <2>3. Even => a \in Primary(1) \cup Primary(2) /\ Apart(usedBy')
    BY <2>1, UseKeepsEven
  <2>4. ASSUME Even, NEW b \in Addrs, usedBy'[b] # None PROVE b \in Primary(1) \cup Primary(2)
    BY <2>1, <2>3, <2>4 DEF EvenInv, PoolInv, AddrsTypeOK
  <2> QED BY <2>2, <2>3, <2>4, EvenAfter
<1>3. ASSUME NEW c \in Conns, GetDifferentAddr(c)
      PROVE  EvenInv'
  <2>1. UNCHANGED lookedUp
    BY <1>3 DEF GetDifferentAddr, Rotate, NoOtherAddress
  <2>2. Even => \A r \in Regions : primaryIsActive'[r]
    <3>1. \A r \in Regions : Secondary(r)' = Secondary(r)
      BY <2>1 DEF lookedUp, Secondary, Primary, In, PrimaryIsV6
    <3> QED BY <3>1 DEF Even, PoolInv, ActiveSetExists
  <2>3. PICK old \in AddrUsedBy(c) :
           \/ \E a \in Choices(GivenBack(old), primaryIsActive', {old}) :
                 usedBy' = [GivenBack(old) EXCEPT ![a] = c]
           \/ Choices(GivenBack(old), primaryIsActive', {old}) = {} /\ usedBy' = GivenBack(old)
    BY <1>3 DEF GetDifferentAddr, Rotate, NoOtherAddress, Recorded
  <2>4. old \in Addrs /\ usedBy[old] # None
    BY EdgeAddrsAssumption DEF AddrUsedBy
  <2>5. CASE Choices(GivenBack(old), primaryIsActive', {old}) = {} /\ usedBy' = GivenBack(old)
    <3>1. Even => Apart(usedBy')
      BY <2>2, <2>4, <2>5, RotationKeepsEven
    <3>2. ASSUME Even, NEW b \in Addrs, usedBy'[b] # None PROVE b \in Primary(1) \cup Primary(2)
      BY <2>5, <3>2 DEF EvenInv, GivenBack, PoolInv, AddrsTypeOK
    <3> QED BY <2>1, <3>1, <3>2, EvenAfter
  <2>6. ASSUME NEW a \in Choices(GivenBack(old), primaryIsActive', {old}),
               usedBy' = [GivenBack(old) EXCEPT ![a] = c]
        PROVE  EvenInv'
    <3>1. Even => a \in Primary(1) \cup Primary(2) /\ Apart(usedBy')
      BY <2>2, <2>4, <2>6, RotationKeepsEven
    <3>2. ASSUME Even, NEW b \in Addrs, usedBy'[b] # None PROVE b \in Primary(1) \cup Primary(2)
      <4>1. b = a \/ usedBy[b] # None
        BY <2>6, <3>2 DEF GivenBack, PoolInv, AddrsTypeOK
      <4> QED BY <3>1, <3>2, <4>1 DEF EvenInv
    <3> QED BY <2>1, <3>1, <3>2, EvenAfter
  <2> QED BY <2>3, <2>5, <2>6
<1>4. ASSUME NEW c \in Conns, GetUsedAddr(c) \/ NoAddress(c) \/ KeepAddr(c)
      PROVE  UNCHANGED <<lookedUp, usedBy>>
  BY <1>4 DEF GetUsedAddr, NoAddress, KeepAddr, addrsVars
<1>5. ASSUME NEW r \in Regions, TimeoutPasses(r)
      PROVE  UNCHANGED <<lookedUp, usedBy>>
  BY <1>5 DEF TimeoutPasses
<1>6. CASE UNCHANGED addrsVars
  BY <1>1, <1>6 DEF addrsVars
<1> QED BY <1>1, <1>2, <1>3, <1>4, <1>5, <1>6 DEF AddrsNext, GetAddr

\* "make sure we always use addresses evenly across both regions": in regions of one family
\* and as many addresses the numbers of used ones differ by one at most, whatever is given back
\* and taken in whatever order (GetUnusedAddr, GetDifferentAddr).
THEOREM RegionsAreUsedEvenly == AddrsSpec => []UsedEvenly
<1>1. AddrsInit => EvenInv
  <2> SUFFICES ASSUME AddrsInit PROVE EvenInv
    OBVIOUS
  <2>1. \A a \in Addrs : usedBy[a] = None
    BY DEF AddrsInit
  <2>2. \A r \in Regions : Taken(usedBy, r) = {}
    BY <2>1, InitPool, Counts DEF Taken
  <2>3. Count(usedBy, 1) = 0 /\ Count(usedBy, 2) = 0
    BY <2>2, FS_EmptySet DEF Count, Regions
  <2> QED BY <2>1, <2>3 DEF EvenInv, Apart
<1>2. ASSUME PoolInv, EvenInv PROVE UsedEvenly
  <2> SUFFICES ASSUME Even PROVE UsedIn(1) - UsedIn(2) \in -1..1
    BY DEF UsedEvenly, Even
  <2>1. \A r \in Regions : In(r) \subseteq Addrs /\ Primary(r) \subseteq In(r)
    BY <1>2, EdgeAddrsAssumption DEF In, Primary, PoolInv, AddrsTypeOK
  <2>2. In(1) \cap In(2) = {}
    BY DEF In
  <2>3. \A r \in Regions : {a \in In(r) : usedBy[a] # None} = Taken(usedBy, r)
    BY <1>2, <2>1, <2>2 DEF EvenInv, Taken, Regions
  <2>4. UsedIn(1) = Count(usedBy, 1) /\ UsedIn(2) = Count(usedBy, 2)
    BY <2>3 DEF UsedIn, Count, Regions
  <2> QED BY <1>2, <2>4 DEF EvenInv, Apart
<1> QED BY <1>1, <1>2, InitPool, NextPool, EvenStep, PTL DEF AddrsSpec

-----------------------------------------------------------------------------
\* One connection to the edge.

\* What has ended, and what was recorded when it did: an error, unless the tunnel is to stop.
EndsInv ==
    /\ transport \in {"quic", "http2"}
    /\ controlErr # "nil" /\ groupErr # "nil" /\ outerErr # "nil"
    /\ stopped => graceful
    /\ transport = "quic" => /\ control = "done" => groupErr # NoError
                             /\ control = "absent" => ~accepting /\ ~datagrams
    /\ transport = "quic" /\ ~serving
         => /\ outerErr # NoError /\ ~accepting /\ ~datagrams
            /\ control # "absent" => control = "done" /\ closed
    /\ transport = "http2" /\ ~serving /\ outerErr = NoError => stopped
    /\ result # NoError => ~serving
    /\ result = "nil" => graceful /\ transport = "http2"

LEMMA EndsStep == EndsInv /\ [ConnNext]_connVars => EndsInv'
<1> SUFFICES ASSUME EndsInv, [ConnNext]_connVars PROVE EndsInv'
  OBVIOUS
<1> USE ConnAssumption DEF EndsInv, First, environment
<1> DEFINE kept == <<transport, serving, closed, outerErr, groupErr, controlErr, graceful, result,
                     accepting, datagrams>>
<1>0. ASSUME UNCHANGED kept, UNCHANGED stopped,
             \/ UNCHANGED control
             \/ transport = "http2" /\ control # "done" /\ control' # "done"
             \/ control \notin {"absent", "done"} /\ control' \notin {"absent", "done"}
      PROVE  EndsInv'
  BY <1>0
<1>1. CASE EdgeOpensControl \/ OpenControl \/ OpenFails \/ Register
  <2>1. CASE EdgeOpensControl
    BY <1>0, <2>1 DEF EdgeOpensControl
  <2>2. CASE OpenControl
    BY <2>2 DEF OpenControl
  <2>3. CASE OpenFails
    BY <2>3 DEF OpenFails
  <2>4. CASE Register
    BY <1>0, <2>4 DEF Register
  <2> QED BY <1>1, <2>1, <2>2, <2>3, <2>4
<1>2. ASSUME NEW err \in RegisterErrors \cup {"canceled", NoError}, ControlReturns(err),
             UNCHANGED stopped, control \notin {"absent", "done"}
      PROVE  EndsInv'
  BY <1>2 DEF ControlReturns, RegisterErrors
<1>3. CASE RegisterFails
  BY <1>2, <1>3 DEF RegisterFails
<1>4. CASE WaitForUnregister
  <2>1. control = "waiting" /\ control' \notin {"absent", "done"} /\ UNCHANGED kept
    BY <1>4 DEF WaitForUnregister
  <2>2. CASE graceful /\ stopped' = TRUE
    BY <2>1, <2>2
  <2>3. CASE UNCHANGED stopped
    BY <2>1, <2>3
  <2> QED BY <1>4, <2>2, <2>3 DEF WaitForUnregister
<1>5. CASE Unregister
  <2>1. CASE ControlReturns(NoError) \/ ControlReturns("canceled")
    BY <1>2, <1>5, <2>1 DEF Unregister
  <2>2. CASE /\ control = "unregistering" /\ control' = "grace"
             /\ UNCHANGED kept /\ UNCHANGED stopped
    BY <1>0, <2>2
  <2> QED BY <1>5, <2>1, <2>2 DEF Unregister
<1>6. CASE ControlGraceEnds
  BY <1>2, <1>6 DEF ControlGraceEnds
<1>7. CASE AcceptReturns \/ DatagramsReturn
  <2>1. /\ groupErr' \in {groupErr, "listener", "datagram"} /\ (groupErr # NoError => groupErr' # NoError)
        /\ (accepting' => accepting) /\ (datagrams' => datagrams)
    BY <1>7 DEF AcceptReturns, DatagramsReturn
  <2>2. UNCHANGED <<transport, control, serving, closed, outerErr, controlErr, stopped, graceful, result>>
    BY <1>7 DEF AcceptReturns, DatagramsReturn
  <2> QED BY <2>1, <2>2
<1>8. CASE QuicServeReturns
  BY <1>8 DEF QuicServeReturns
<1>9. CASE Http2ServeReturns
  <2>1. ServeError # "nil" /\ (ServeError = NoError => stopped)
    BY DEF ServeError
  <2> QED BY <1>9, <2>1 DEF Http2ServeReturns
<1>10. CASE Http2Close
  BY <1>10 DEF Http2Close
<1>11. CASE ListenReturns
  BY <1>11 DEF ListenReturns
<1>12. CASE ServeConnectionReturns
  BY <1>12 DEF ServeConnectionReturns
<1>13. CASE RequestStarts \/ RequestEnds
  <2>1. UNCHANGED kept /\ UNCHANGED stopped /\ UNCHANGED control
    BY <1>13 DEF RequestStarts, RequestEnds
  <2> QED BY <1>0, <2>1
<1>14. CASE ConnectionIsLost \/ Cancel \/ GracefulShutdown
  <2>1. CASE GracefulShutdown
    BY <2>1 DEF GracefulShutdown, local
  <2>2. CASE ConnectionIsLost
    BY <1>0, <2>2 DEF ConnectionIsLost, local
  <2>3. CASE Cancel
    BY <1>0, <2>3 DEF Cancel, local
  <2> QED BY <1>14, <2>1, <2>2, <2>3
<1>15. CASE UNCHANGED connVars
  BY <1>15 DEF connVars
<1> QED BY <1>1, <1>3, <1>4, <1>5, <1>6, <1>7, <1>8, <1>9, <1>10, <1>11, <1>12, <1>13, <1>14,
           <1>15 DEF ConnNext

\* "Returning a nil error means cloudflared will exit for good and will not attempt to
\* reconnect": serveConnection returns nil only over HTTP/2 and after the tunnel was asked to
\* stop, and over QUIC it returns only when all that ran has ended and the connection is
\* closed, or when the control stream could not be opened, and then nothing closes it
\* (serveQUIC, serveHTTP2, quicConnection.Serve).
THEOREM NilIsForShutdownOnly == ConnSpec => []NilMeansShutdown
<1>1. ConnInit => EndsInv
  BY ConnAssumption DEF ConnInit, EndsInv
<1>2. EndsInv => NilMeansShutdown
  BY DEF EndsInv, NilMeansShutdown
<1> QED BY <1>1, <1>2, EndsStep, PTL DEF ConnSpec

-----------------------------------------------------------------------------
\* The sessions of version 2.

Holds == {"dialing", "offering", "serving", "closing"}
Mapped(r) == \E id \in Ids : sessions[id] = r

\* A session in the map is the one its id was last registered for, was not closed yet, and
\* has room in its channel for the end of its reader and for the manager.
CallInv(r) ==
    /\ closeChan[r] \in Seq(Reasons) /\ Len(closeChan[r]) <= 2
    /\ pc[r] \in {"idle", "dialing", "offering"}
         => sessionsReader[r] = "none" /\ closeChan[r] = <<>> /\ ~Mapped(r)
    /\ pc[r] # "idle" => sid[r] \in Ids
    /\ \A id \in Ids : sessions[id] = r =>
          /\ sid[r] = id
          /\ running
          /\ pc[r] = "ended" => connDone
          /\ \A i \in 1..Len(closeChan[r]) : closeChan[r][i] = "read"
    /\ Mapped(r) \/ sessionsReader[r] = "reading" => Len(closeChan[r]) <= 1
    /\ Mapped(r) /\ sessionsReader[r] = "reading" => closeChan[r] = <<>>
    /\ pc[r] = "serving" /\ (\E i \in 1..Len(closeChan[r]) : closeChan[r][i] = "local")
         => \E other \in Calls \ {r} : sid[other] = sid[r] /\ pc[other] # "idle"

MapInv ==
    /\ pc \in [Calls -> {"idle", "ended"} \cup Holds]
    /\ DOMAIN sid = Calls /\ DOMAIN sessionsReader = Calls /\ DOMAIN closeChan = Calls
    /\ sessions \in [Ids -> Calls \cup {NoSession}]
    /\ \A r \in Calls : CallInv(r)
    /\ SlotsCount

LEMMA SlotsGoAlong ==
  ASSUME SlotsCount, DOMAIN pc = Calls, NEW r \in Calls, NEW from, NEW to, GotoCall(r, from, to),
         IF from \in Holds THEN IF to \in Holds THEN slots' = slots ELSE Release
                           ELSE slots' = IF to \in Holds THEN slots + 1 ELSE slots
  PROVE  SlotsCount'
<1> DEFINE H == {c \in Calls : pc[c] \in Holds}
<1>1. IsFiniteSet(H) /\ H \subseteq Calls
  BY V2Assumption, FS_Subset
<1>2. Cardinality(H) \in Nat /\ slots = Cardinality(H)
  BY <1>1, FS_CardinalityType DEF SlotsCount, Holds
<1>3. H' = IF to \in Holds THEN H \cup {r} ELSE H \ {r}
  BY DEF GotoCall
<1>4. r \in H <=> from \in Holds
  BY DEF GotoCall
<1>5. slots' = Cardinality(H')
  <2>1. CASE from \in Holds /\ to \in Holds
    <3>1. H' = H
      BY <1>3, <1>4, <2>1
    <3> QED BY <1>2, <2>1, <3>1
  <2>2. CASE from \in Holds /\ to \notin Holds
    <3>1. Cardinality(H \ {r}) = Cardinality(H) - 1
      BY <1>1, <1>4, <2>2, FS_RemoveElement
    <3>2. Cardinality(H \ {r}) \in Nat
      BY <1>1, FS_RemoveElement, FS_CardinalityType
    <3> QED BY <1>2, <1>3, <2>2, <3>1, <3>2 DEF Release
  <2>3. CASE from \notin Holds /\ to \in Holds
    <3>1. Cardinality(H \cup {r}) = Cardinality(H) + 1
      BY <1>1, <1>4, <2>3, FS_AddElement
    <3> QED BY <1>2, <1>3, <2>3, <3>1
  <2>4. CASE from \notin Holds /\ to \notin Holds
    <3>1. H' = H
      BY <1>3, <1>4, <2>4
    <3> QED BY <1>2, <2>4, <3>1
  <2> QED BY <2>1, <2>2, <2>3, <2>4
<1> QED BY <1>5 DEF SlotsCount, Holds

\* unregisterSession, by whomever it is called: the calls keep what is said of them, but for
\* the one that unregistered itself.
LEMMA Unregistered ==
  ASSUME MapInv, NEW id \in Ids, NEW reason \in {"remote", "local"}, running,
         UnregisterSession(id, reason),
         UNCHANGED <<sid, sessionsReader, running, connDone>>,
         NEW by \in Calls,
         reason = "remote" => UNCHANGED pc,
         reason = "local" => sid[by] = id /\ pc[by] = "closing" /\ pc' = [pc EXCEPT ![by] = "ended"]
  PROVE  \A r \in Calls : CallInv(r)'
<1> USE V2Assumption
<1>1. /\ pc \in [Calls -> {"idle", "ended"} \cup Holds]
      /\ DOMAIN closeChan = Calls /\ sessions \in [Ids -> Calls \cup {NoSession}]
      /\ \A r \in Calls : CallInv(r)
  BY DEF MapInv
<1> SUFFICES ASSUME NEW r \in Calls PROVE CallInv(r)'
  OBVIOUS
<1>2. CASE sessions[id] = r
  <2>1. /\ sessions' = [sessions EXCEPT ![id] = NoSession]
        /\ closeChan'[r] = Append(closeChan[r], reason)
    BY <1>1, <1>2 DEF UnregisterSession
  <2>2. /\ CallInv(r) /\ sid[r] = id /\ Mapped(r) /\ Len(closeChan[r]) <= 1
        /\ \A i \in 1..Len(closeChan[r]) : closeChan[r][i] = "read"
        /\ closeChan[r] \in Seq(Reasons)
    BY <1>1, <1>2 DEF CallInv, Mapped
  <2>3. ~Mapped(r)'
    BY <1>1, <1>2, <2>1, <2>2 DEF CallInv, Mapped
  <2>4. /\ closeChan'[r] \in Seq(Reasons) /\ Len(closeChan'[r]) = Len(closeChan[r]) + 1
        /\ \A i \in 1..Len(closeChan'[r]) : closeChan'[r][i] \in {"read", reason}
    BY <2>1, <2>2 DEF Reasons
  <2>5. sessionsReader[r] = "reading" => Len(closeChan'[r]) <= 1
    BY <2>2, <2>4 DEF CallInv
  <2>6. pc[r] \notin {"idle", "dialing", "offering"} /\ pc'[r] \notin {"idle", "dialing", "offering"}
    BY <1>1, <2>2 DEF CallInv
  <2>7. pc'[r] = "serving" /\ (\E i \in 1..Len(closeChan'[r]) : closeChan'[r][i] = "local")
          => \E other \in Calls \ {r} : sid[other] = sid[r] /\ pc'[other] # "idle"
    BY <1>1, <2>2, <2>4
  <2>8. \A i \in Ids : sessions'[i] # r
    BY <2>3 DEF Mapped
  <2>9. Len(closeChan'[r]) <= 2 /\ sid'[r] \in Ids /\ sid' = sid /\ sessionsReader' = sessionsReader
    BY <2>2, <2>4
  <2> QED BY <2>3, <2>4, <2>5, <2>6, <2>7, <2>8, <2>9 DEF CallInv
<1>3. CASE sessions[id] # r
  <2>1. closeChan'[r] = closeChan[r]
    BY <1>1, <1>3 DEF UnregisterSession
  <2>2. \A i \in Ids : sessions'[i] = r <=> sessions[i] = r
    BY <1>1, <1>3 DEF UnregisterSession
  <2>3. Mapped(r)' <=> Mapped(r)
    BY <2>2 DEF Mapped
  <2>4. pc'[r] = pc[r] \/ (pc[r] = "closing" /\ pc'[r] = "ended" /\ sid[r] = id)
    BY <1>1
  <2>5. \A other \in Calls : pc[other] # "idle" => pc'[other] # "idle"
    BY <1>1
  <2>6. \A i \in Ids : sessions[i] = r => sid[r] = i
    BY <1>1 DEF CallInv
  <2> QED BY <1>1, <1>3, <2>1, <2>2, <2>3, <2>4, <2>5, <2>6 DEF CallInv
<1> QED BY <1>2, <1>3

\* What is said of a call stays true while others go on.
LEMMA CallKept ==
  ASSUME NEW r \in Calls, CallInv(r),
         pc'[r] = pc[r], sid'[r] = sid[r], sessionsReader'[r] = sessionsReader[r],
         closeChan'[r] = closeChan[r], connDone => connDone',
         \A id \in Ids : sessions'[id] = r => sessions[id] = r /\ running',
         \A other \in Calls : pc[other] # "idle" => pc'[other] # "idle" /\ sid'[other] = sid[other]
  PROVE  CallInv(r)'
<1>1. Mapped(r)' => Mapped(r)
  BY DEF Mapped
<1>2. ASSUME pc'[r] = "serving", \E i \in 1..Len(closeChan'[r]) : closeChan'[r][i] = "local"
      PROVE  \E other \in Calls \ {r} : sid'[other] = sid'[r] /\ pc'[other] # "idle"
  BY <1>2 DEF CallInv
<1> QED BY <1>1, <1>2 DEF CallInv

LEMMA MapStep == MapInv /\ [SessionsNext]_v2Vars => MapInv'
<1> SUFFICES ASSUME MapInv, [SessionsNext]_v2Vars PROVE MapInv'
  OBVIOUS
<1> USE V2Assumption
<1>0. /\ pc \in [Calls -> {"idle", "ended"} \cup Holds]
      /\ DOMAIN sid = Calls /\ DOMAIN sessionsReader = Calls /\ DOMAIN closeChan = Calls
      /\ sessions \in [Ids -> Calls \cup {NoSession}]
      /\ \A r \in Calls : CallInv(r)
      /\ SlotsCount
  BY DEF MapInv
<1> DEFINE Types == /\ pc \in [Calls -> {"idle", "ended"} \cup Holds]
                    /\ DOMAIN sid = Calls /\ DOMAIN sessionsReader = Calls
                    /\ DOMAIN closeChan = Calls
                    /\ sessions \in [Ids -> Calls \cup {NoSession}]
<1>K. ASSUME UNCHANGED <<pc, slots>> PROVE SlotsCount'
  BY <1>0, <1>K DEF SlotsCount
<1>1. ASSUME NEW r \in Calls, NEW id \in Ids, Acquire(r, id)
      PROVE  MapInv'
  <2>1. PICK to \in {"ended", "dialing"} :
           GotoCall(r, "idle", to) /\ slots' = IF to = "ended" THEN slots ELSE slots + 1
    BY <1>1 DEF Acquire
  <2>2. /\ pc[r] = "idle" /\ pc' = [pc EXCEPT ![r] = to] /\ sid' = [sid EXCEPT ![r] = id]
        /\ UNCHANGED <<sessionsReader, closeChan, sessions, running, connDone>>
    BY <1>1, <2>1 DEF Acquire, GotoCall
  <2>3. Types'
    BY <1>0, <2>2 DEF Holds
  <2>4. SlotsCount'
    BY <1>0, <2>1, SlotsGoAlong DEF Holds
  <2>5. ASSUME NEW c \in Calls, c # r PROVE CallInv(c)'
    <3>1. ASSUME NEW other \in Calls, pc[other] # "idle"
          PROVE  pc'[other] # "idle" /\ sid'[other] = sid[other]
      BY <1>0, <2>2, <3>1
    <3>2. \A i \in Ids : sessions[i] = c => running
      BY <1>0 DEF CallInv
    <3> QED BY <1>0, <2>2, <2>5, <3>1, <3>2, CallKept
  <2>6. CallInv(r)'
    <3>1. /\ closeChan'[r] = <<>> /\ sessionsReader'[r] = "none" /\ ~Mapped(r)'
          /\ pc'[r] = to /\ sid'[r] = id
      BY <1>0, <2>2 DEF CallInv, Mapped
    <3>2. Len(closeChan'[r]) = 0 /\ closeChan'[r] \in Seq(Reasons)
      BY <3>1
    <3> QED BY <3>1, <3>2 DEF CallInv, Mapped
  <2> QED BY <2>3, <2>4, <2>5, <2>6 DEF MapInv
\* a call that goes on by itself
<1>2. ASSUME NEW r \in Calls, NEW from \in {"dialing", "offering", "serving", "closing"},
             NEW to \in {"ended"} \cup Holds, GotoCall(r, from, to),
             IF to = "ended" THEN Release ELSE UNCHANGED slots,
             UNCHANGED <<sid, sessionsReader, sessions, running, connDone>>,
             DOMAIN closeChan' = Calls, \A c \in Calls \ {r} : closeChan'[c] = closeChan[c],
             CallInv(r)'
      PROVE  MapInv'
  <2>1. pc[r] = from /\ pc' = [pc EXCEPT ![r] = to]
    BY <1>2 DEF GotoCall
  <2>2. Types'
    BY <1>0, <1>2, <2>1 DEF Holds
  <2>3. SlotsCount'
    BY <1>0, <1>2, SlotsGoAlong DEF Holds
  <2>4. ASSUME NEW c \in Calls, c # r PROVE CallInv(c)'
    <3>1. ASSUME NEW other \in Calls, pc[other] # "idle"
          PROVE  pc'[other] # "idle" /\ sid'[other] = sid[other]
      BY <1>0, <1>2, <2>1, <3>1 DEF Holds
    <3>2. \A i \in Ids : sessions[i] = c => running
      BY <1>0 DEF CallInv
    <3> QED BY <1>0, <1>2, <2>1, <2>4, <3>1, <3>2, CallKept
  <2> QED BY <1>2, <2>2, <2>3, <2>4 DEF MapInv
<1>3. ASSUME NEW r \in Calls, Dial(r)
      PROVE  MapInv'
  <2>1. /\ GotoCall(r, "dialing", "offering") /\ UNCHANGED slots
        /\ UNCHANGED <<sid, sessionsReader, closeChan, sessions, running, connDone>>
    BY <1>3 DEF Dial
  <2>2. CallInv(r)'
    BY <1>0, <2>1 DEF CallInv, Mapped, GotoCall
  <2> QED BY <1>0, <1>2, <2>1, <2>2 DEF Holds
<1>4. ASSUME NEW r \in Calls, RegisterSessionFails(r)
      PROVE  MapInv'
  <2>1. PICK from \in {"dialing", "offering"} : GotoCall(r, from, "ended")
    BY <1>4 DEF RegisterSessionFails
  <2>2. Release /\ UNCHANGED <<sid, sessionsReader, closeChan, sessions, running, connDone>>
    BY <1>4 DEF RegisterSessionFails
  <2>3. pc[r] = from /\ pc'[r] = "ended"
    BY <1>0, <2>1 DEF GotoCall
  <2>4. CallInv(r)'
    BY <1>0, <2>2, <2>3 DEF CallInv, Mapped
  <2> QED BY <1>0, <1>2, <2>1, <2>2, <2>4
<1>5. ASSUME NEW r \in Calls, RegisterSession(r)
      PROVE  MapInv'
  <2>1. /\ pc[r] = "offering" /\ pc' = [pc EXCEPT ![r] = "serving"]
        /\ sessions' = [sessions EXCEPT ![sid[r]] = r]
        /\ sessionsReader' = [sessionsReader EXCEPT ![r] = "reading"]
        /\ running /\ UNCHANGED <<sid, closeChan, slots, running, connDone>>
    BY <1>5 DEF RegisterSession, GotoCall
  <2>2. sid[r] \in Ids /\ closeChan[r] = <<>> /\ \A id \in Ids : sessions[id] # r
    BY <1>0, <2>1 DEF CallInv, Mapped
  <2>3. Types'
    BY <1>0, <2>1, <2>2 DEF Holds
  <2>4. SlotsCount'
    BY <1>0, <1>5, <2>1, SlotsGoAlong DEF Holds, RegisterSession
  <2>5. ASSUME NEW c \in Calls, c # r PROVE CallInv(c)'
    <3>1. ASSUME NEW other \in Calls, pc[other] # "idle"
          PROVE  pc'[other] # "idle" /\ sid'[other] = sid[other]
      BY <1>0, <2>1, <3>1
    <3>2. \A i \in Ids : sessions'[i] = c => sessions[i] = c /\ running'
      BY <1>0, <2>1, <2>2, <2>5
    <3> QED BY <1>0, <2>1, <2>5, <3>1, <3>2, CallKept
  <2>6. CallInv(r)'
    <3>1. /\ closeChan'[r] = <<>> /\ Len(closeChan'[r]) = 0 /\ closeChan'[r] \in Seq(Reasons)
          /\ pc'[r] = "serving" /\ sid'[r] \in Ids /\ running'
          /\ \A id \in Ids : sessions'[id] = r => sid'[r] = id
      BY <1>0, <2>1, <2>2
    <3> QED BY <3>1 DEF CallInv
  <2> QED BY <2>3, <2>4, <2>5, <2>6 DEF MapInv
<1>6. ASSUME NEW r \in Calls, SessionEnds(r) \/ SessionIdle(r)
      PROVE  MapInv'
  <2>1. UNCHANGED <<sid, sessionsReader, sessions, running, connDone>>
    BY <1>6 DEF SessionEnds, SessionIdle
  <2>2. CallInv(r) /\ closeChan[r] \in Seq(Reasons)
    BY <1>0 DEF CallInv
  <2>3. CASE closeChan[r] # <<>> /\ ServeEnds(r, Head(closeChan[r]))
               /\ closeChan' = [closeChan EXCEPT ![r] = Tail(@)]
    <3> DEFINE q == closeChan[r]
    <3>1. PICK to \in {"ended", "closing"} :
             /\ GotoCall(r, "serving", to) /\ IF to = "ended" THEN Release ELSE UNCHANGED slots
             /\ to = "ended" => Head(q) = "remote"
      BY <2>3 DEF ServeEnds
    <3>2. /\ closeChan'[r] = Tail(q) /\ DOMAIN closeChan' = Calls
          /\ \A c \in Calls \ {r} : closeChan'[c] = closeChan[c]
      BY <1>0, <2>3
    <3>3. /\ Tail(q) \in Seq(Reasons) /\ Len(q) \in Nat \ {0} /\ Len(Tail(q)) = Len(q) - 1
          /\ Head(q) = q[1] /\ 1 \in 1..Len(q)
          /\ \A i \in 1..Len(Tail(q)) : i + 1 \in 1..Len(q) /\ Tail(q)[i] = q[i + 1]
      BY <2>2, <2>3
    <3>4. pc[r] = "serving" /\ pc'[r] = to
      BY <1>0, <3>1 DEF GotoCall
    <3>5. to = "ended" => ~Mapped(r)
      BY <2>2, <3>1, <3>3 DEF CallInv, Mapped
    <3>6. Mapped(r)' <=> Mapped(r)
      BY <2>1 DEF Mapped
    <3>7. \A id \in Ids : sessions[id] = r => sid[r] = id /\ running /\ Mapped(r)
             /\ \A i \in 1..Len(Tail(q)) : Tail(q)[i] = "read"
      BY <2>2, <3>3 DEF CallInv, Mapped
    <3>8. (Mapped(r) \/ sessionsReader[r] = "reading") => Len(Tail(q)) = 0
      <4>1. (Mapped(r) \/ sessionsReader[r] = "reading") => Len(q) <= 1
        BY <2>2 DEF CallInv
      <4> HIDE DEF q
      <4> QED BY <3>3, <4>1
    <3>9. ~(Mapped(r) /\ sessionsReader[r] = "reading")
      BY <2>2, <2>3 DEF CallInv
    <3>10. Len(Tail(q)) <= 2
      BY <2>2, <3>3 DEF CallInv
    <3> HIDE DEF q
    <3>11. CallInv(r)'
      BY <2>1, <2>2, <3>2, <3>3, <3>4, <3>5, <3>6, <3>7, <3>8, <3>9, <3>10 DEF CallInv
    <3> QED BY <1>2, <2>1, <3>1, <3>2, <3>11 DEF Holds
  <2>4. CASE (ServeEnds(r, "context") \/ ServeEnds(r, "idle")) /\ UNCHANGED closeChan
    <3>1. GotoCall(r, "serving", "closing") /\ UNCHANGED slots
      BY <2>4 DEF ServeEnds
    <3>2. pc[r] = "serving" /\ pc'[r] = "closing"
      BY <1>0, <3>1 DEF GotoCall
    <3>3. CallInv(r)'
      BY <2>1, <2>2, <2>4, <3>2 DEF CallInv, Mapped
    <3> QED BY <1>0, <1>2, <2>1, <2>4, <3>1, <3>3 DEF Holds
  <2> QED BY <1>6, <2>3, <2>4 DEF SessionEnds, SessionIdle
<1>7. ASSUME NEW r \in Calls, ReadFails(r)
      PROVE  MapInv'
  <2>1. /\ sessionsReader[r] = "reading"
        /\ sessionsReader' = [sessionsReader EXCEPT ![r] = "done"]
        /\ closeChan' = [closeChan EXCEPT ![r] = Append(@, "read")]
        /\ UNCHANGED <<pc, sid, slots, sessions, running, connDone>>
    BY <1>7 DEF ReadFails
  <2>2. Types'
    BY <1>0, <2>1
  <2>3. SlotsCount'
    BY <1>K, <2>1
  <2>4. ASSUME NEW c \in Calls, c # r PROVE CallInv(c)'
    <3>1. \A i \in Ids : sessions[i] = c => running
      BY <1>0 DEF CallInv
    <3>2. /\ closeChan'[c] = closeChan[c] /\ sessionsReader'[c] = sessionsReader[c]
          /\ UNCHANGED <<pc, sid, sessions, running, connDone>>
      BY <1>0, <2>1, <2>4
    <3> QED BY <1>0, <3>1, <3>2, CallKept
  <2>5. CallInv(r)'
    <3> DEFINE q == closeChan[r]
    <3>1. CallInv(r) /\ q \in Seq(Reasons) /\ Len(q) <= 1
      BY <1>0, <2>1 DEF CallInv
    <3>2. closeChan'[r] = Append(q, "read") /\ sessionsReader'[r] = "done"
      BY <1>0, <2>1
    <3>3. /\ Append(q, "read") \in Seq(Reasons) /\ Len(Append(q, "read")) = Len(q) + 1
          /\ Len(q) \in Nat
          /\ \A i \in 1..Len(q) : Append(q, "read")[i] = q[i]
          /\ \A i \in 1..Len(q) + 1 : i \in 1..Len(q) \/ Append(q, "read")[i] = "read"
      BY <3>1 DEF Reasons
    <3>4. Mapped(r)' <=> Mapped(r)
      BY <2>1 DEF Mapped
    <3>5. Mapped(r) => Len(q) = 0
      BY <2>1, <3>1 DEF CallInv
    <3>6. \A i \in 1..Len(q) + 1 : Append(q, "read")[i] = "local" => i \in 1..Len(q) /\ q[i] = "local"
      BY <3>3
    <3>7. pc[r] \notin {"idle", "dialing", "offering"}
      BY <2>1, <3>1 DEF CallInv
    <3>8. \A id \in Ids : sessions[id] = r => sid[r] = id /\ running /\ (pc[r] = "ended" => connDone)
             /\ \A i \in 1..Len(q) + 1 : Append(q, "read")[i] = "read"
      BY <3>1, <3>3 DEF CallInv
    <3>9. pc[r] = "serving" /\ (\E i \in 1..Len(q) + 1 : Append(q, "read")[i] = "local")
            => \E other \in Calls \ {r} : sid[other] = sid[r] /\ pc[other] # "idle"
      BY <3>1, <3>6 DEF CallInv
    <3> HIDE DEF q
    <3>10. sid[r] \in Ids
      BY <3>1, <3>7 DEF CallInv
    <3> QED BY <2>1, <3>1, <3>2, <3>3, <3>4, <3>5, <3>7, <3>8, <3>9, <3>10 DEF CallInv
  <2> QED BY <2>2, <2>3, <2>4, <2>5 DEF MapInv
<1>8. ASSUME NEW r \in Calls, CloseSession(r)
      PROVE  MapInv'
  <2>1. /\ pc[r] = "closing" /\ pc' = [pc EXCEPT ![r] = "ended"] /\ Release
        /\ GotoCall(r, "closing", "ended")
        /\ UNCHANGED <<sid, sessionsReader, running, connDone>>
    BY <1>8 DEF CloseSession, GotoCall
  <2>2. CallInv(r) /\ sid[r] \in Ids
    BY <1>0, <2>1 DEF CallInv
  <2>3. CASE running /\ UnregisterSession(sid[r], "local")
    <3>1. \A c \in Calls : CallInv(c)'
      BY <2>1, <2>2, <2>3, Unregistered
    <3>2. Types'
      BY <1>0, <2>1, <2>2, <2>3 DEF UnregisterSession, Holds
    <3>3. SlotsCount'
      BY <1>0, <2>1, SlotsGoAlong DEF Holds
    <3> QED BY <3>1, <3>2, <3>3 DEF MapInv
  <2>4. CASE (connDone \/ ~running) /\ UNCHANGED <<sessions, closeChan>>
    <3>1. pc'[r] = "ended"
      BY <1>0, <2>1
    <3>2. CallInv(r)'
      BY <2>1, <2>2, <2>4, <3>1 DEF CallInv, Mapped
    <3> QED BY <1>0, <1>2, <2>1, <2>4, <3>2
  <2> QED BY <1>8, <2>3, <2>4 DEF CloseSession
<1>9. ASSUME NEW id \in Ids, EdgeUnregisters(id)
      PROVE  MapInv'
  <2>1. /\ running /\ UnregisterSession(id, "remote")
        /\ UNCHANGED <<pc, sid, sessionsReader, slots, running, connDone>>
    BY <1>9 DEF EdgeUnregisters
  <2>2. ASSUME NEW r \in Calls PROVE CallInv(r)'
    <3>1. \A c \in Calls : CallInv(c)'
      BY <2>1, Unregistered
    <3> QED BY <3>1
  <2>3. Types'
    BY <1>0, <2>1 DEF UnregisterSession
  <2> QED BY <1>K, <2>1, <2>2, <2>3 DEF MapInv
<1>10. CASE ShutdownSessions
  <2>1. /\ sessions' = [id \in Ids |-> NoSession]
        /\ closeChan' = [r \in Calls |-> IF Mapped(r) THEN Append(closeChan[r], "remote")
                                                      ELSE closeChan[r]]
        /\ UNCHANGED <<pc, sid, sessionsReader, slots, connDone>>
    BY <1>10 DEF ShutdownSessions, Mapped
  <2>2. Types'
    BY <1>0, <2>1
  <2>3. \A r \in Calls : ~Mapped(r)' /\ \A id \in Ids : sessions'[id] # r
    BY <2>1 DEF Mapped
  <2>4. ASSUME NEW r \in Calls PROVE CallInv(r)'
    <3>1. CASE ~Mapped(r)
      <4>1. closeChan'[r] = closeChan[r]
        BY <2>1, <3>1
      <4> QED BY <1>0, <2>1, <2>3, <4>1, CallKept
    <3>2. CASE Mapped(r)
      <4> DEFINE q == closeChan[r]
      <4>1. CallInv(r) /\ q \in Seq(Reasons) /\ Len(q) <= 1 /\ \A i \in 1..Len(q) : q[i] = "read"
        BY <1>0, <3>2 DEF CallInv, Mapped
      <4>2. closeChan'[r] = Append(q, "remote")
        BY <2>1, <3>2
      <4>3. /\ Append(q, "remote") \in Seq(Reasons) /\ Len(Append(q, "remote")) = Len(q) + 1
            /\ Len(q) \in Nat
            /\ \A i \in 1..Len(q) + 1 : Append(q, "remote")[i] \in {"read", "remote"}
        BY <4>1 DEF Reasons
      <4>4. sessionsReader[r] = "reading" => Len(q) = 0
        BY <3>2, <4>1 DEF CallInv
      <4>5. pc[r] \notin {"idle", "dialing", "offering"} /\ sid[r] \in Ids
        BY <3>2, <4>1 DEF CallInv
      <4> HIDE DEF q
      <4> QED BY <2>1, <2>3, <4>1, <4>2, <4>3, <4>4, <4>5 DEF CallInv
    <3> QED BY <3>1, <3>2
  <2> QED BY <1>K, <2>1, <2>2, <2>4 DEF MapInv
<1>11. CASE ConnectionEnds \/ GroupEnds \/ UNCHANGED v2Vars
  <2>1. /\ UNCHANGED <<pc, sid, sessionsReader, closeChan, slots, sessions, running>>
        /\ connDone => connDone'
    BY <1>11 DEF ConnectionEnds, GroupEnds, v2Vars
  <2>2. ASSUME NEW r \in Calls PROVE CallInv(r)'
    <3>1. \A i \in Ids : sessions[i] = r => running
      BY <1>0 DEF CallInv
    <3> QED BY <1>0, <2>1, <3>1, CallKept
  <2>3. Types'
    BY <1>0, <2>1
  <2> QED BY <1>K, <2>1, <2>2, <2>3 DEF MapInv
<1> QED BY <1>1, <1>3, <1>4, <1>5, <1>6, <1>7, <1>8, <1>9, <1>10, <1>11 DEF SessionsNext, Continue

\* While the connection is up the map holds no session that has ended, however calls of the
\* edge, ends of sessions and the end of the connection interleave; a session is closed by
\* this side only when its id was registered twice; the loop of the manager never waits
\* for a session, whose channel has room for two; and the slots of the limiter are those of the
\* calls that run (sessionManager, registerUDPSession, closeUDPSession).
THEOREM MapFollowsTheSessions == SessionsSpec => []MapIsOfRunningSessions
<1> USE V2Assumption
<1>1. ASSUME SessionsInit PROVE MapInv
  <2>1. {r \in Calls : pc[r] \in Holds} = {}
    BY <1>1 DEF SessionsInit, Holds
  <2>2. SlotsCount
    BY <1>1, <2>1, FS_EmptySet DEF SlotsCount, Holds, SessionsInit
  <2>3. ASSUME NEW r \in Calls PROVE CallInv(r)
    <3>1. closeChan[r] = <<>> /\ closeChan[r] \in Seq(Reasons) /\ Len(closeChan[r]) = 0
      BY <1>1 DEF SessionsInit
    <3> QED BY <1>1, <3>1 DEF SessionsInit, CallInv, Mapped
  <2> QED BY <1>1, <2>2, <2>3 DEF SessionsInit, MapInv
<1>2. ASSUME MapInv PROVE MapIsOfRunningSessions
  <2>1. /\ \A r \in Calls : CallInv(r)
        /\ sessions \in [Ids -> Calls \cup {NoSession}] /\ SlotsCount
    BY <1>2 DEF MapInv
  <2>2. ASSUME NEW id \in Ids, running, ~connDone, sessions[id] # NoSession
        PROVE  pc[sessions[id]] # "ended"
    BY <2>1, <2>2 DEF CallInv
  <2>3. ASSUME NEW r \in Calls, pc[r] = "serving",
               \E i \in DOMAIN closeChan[r] : closeChan[r][i] = "local"
        PROVE  \E other \in Calls \ {r} : sid[other] = sid[r]
    <3>1. DOMAIN closeChan[r] = 1..Len(closeChan[r])
      BY <2>1 DEF CallInv
    <3> QED BY <2>1, <2>3, <3>1 DEF CallInv
  <2>4. \A r \in Calls : Len(closeChan[r]) <= 2
    BY <2>1 DEF CallInv
  <2> QED BY <2>1, <2>2, <2>3, <2>4 DEF MapIsOfRunningSessions
<1> QED BY <1>1, <1>2, MapStep, PTL DEF SessionsSpec

-----------------------------------------------------------------------------
\* The way of datagrams to the origin.

Numbered == [n : Nat, kind : Kinds]
Nums(q) == {q[i].n : i \in 1..Len(q)}
Rises(q) == \A i, j \in 1..Len(q) : i < j => q[i].n < q[j].n
Before(A, B) == \A a \in A, b \in B : a < b
\* the same of what has been written to the origin
Written == {toOrigin[i] : i \in 1..Len(toOrigin)}
Rising == \A i, j \in 1..Len(toOrigin) : i < j => toOrigin[i] < toOrigin[j]

\* Datagrams stay in the order they came in, from the poller to the origin.
OrderInv ==
    /\ received \in Nat /\ toOrigin \in Seq(Nat)
    /\ {writeChan, demuxChan, held} \subseteq Seq(Numbered) /\ Len(held) <= 1
    /\ Rising /\ Rises(writeChan) /\ Rises(demuxChan)
    /\ Before(Written, Nums(writeChan) \cup Nums(demuxChan) \cup Nums(held))
    /\ Before(Nums(writeChan), Nums(demuxChan) \cup Nums(held))
    /\ Before(Nums(demuxChan), Nums(held))
    /\ \A m \in Written \cup Nums(writeChan) \cup Nums(demuxChan) \cup Nums(held) : m <= received

orderVars == <<received, toOrigin, writeChan, demuxChan, held>>

LEMMA OrderKept == OrderInv /\ UNCHANGED orderVars => OrderInv'
  BY DEF OrderInv, orderVars, Rising, Written, Rises, Nums, Before

LEMMA NumsType == ASSUME NEW q \in Seq(Numbered) PROVE Nums(q) \subseteq Nat
<1>1. \A i \in 1..Len(q) : q[i] \in Numbered
  OBVIOUS
<1>2. \A i \in 1..Len(q) : q[i].n \in Nat
  BY <1>1 DEF Numbered
<1> QED BY <1>2 DEF Nums

\* What receiving from a channel leaves of it.
LEMMA TailNums ==
  ASSUME NEW q \in Seq(Numbered), q # <<>>, Rises(q)
  PROVE  /\ Tail(q) \in Seq(Numbered) /\ Rises(Tail(q)) /\ Nums(Tail(q)) \subseteq Nums(q)
         /\ Head(q) \in Numbered /\ Head(q).n \in Nums(q) /\ Before({Head(q).n}, Nums(Tail(q)))
<1> DEFINE t == Tail(q)
<1>1. /\ t \in Seq(Numbered) /\ Len(t) = Len(q) - 1 /\ Head(q) = q[1] /\ 1 \in 1..Len(q)
      /\ Head(q) \in Numbered
  OBVIOUS
<1>2. ASSUME NEW i \in 1..Len(t) PROVE i + 1 \in 1..Len(q) /\ t[i] = q[i + 1] /\ i \in Int
  BY <1>1
<1> HIDE DEF t
<1>3. Rises(t)
  <2> SUFFICES ASSUME NEW i \in 1..Len(t), NEW j \in 1..Len(t), i < j
               PROVE  t[i].n < t[j].n
    BY DEF Rises
  <2>1. i + 1 < j + 1
    BY <1>2
  <2> QED BY <1>2, <2>1 DEF Rises
<1>4. Nums(t) \subseteq Nums(q)
  BY <1>2 DEF Nums
<1>5. Head(q).n \in Nums(q)
  BY <1>1 DEF Nums
<1>6. ASSUME NEW i \in 1..Len(t) PROVE Head(q).n < t[i].n
  <2>1. i + 1 \in 1..Len(q) /\ 1 < i + 1
    BY <1>2
  <2> QED BY <1>1, <1>2, <2>1 DEF Rises
<1>7. Before({Head(q).n}, Nums(t))
  BY <1>6 DEF Before, Nums
<1> QED BY <1>1, <1>3, <1>4, <1>5, <1>7 DEF t

\* What sending to a channel makes of it.
LEMMA AppendNums ==
  ASSUME NEW q \in Seq(Numbered), NEW d \in Numbered, Rises(q), Before(Nums(q), {d.n})
  PROVE  /\ Append(q, d) \in Seq(Numbered) /\ Rises(Append(q, d))
         /\ Nums(Append(q, d)) = Nums(q) \cup {d.n}
<1> DEFINE a == Append(q, d)
<1>1. a \in Seq(Numbered) /\ Len(a) = Len(q) + 1 /\ Len(q) \in Nat
  OBVIOUS
<1>2. a[Len(q) + 1] = d /\ \A i \in 1..Len(q) : a[i] = q[i]
  OBVIOUS
<1> HIDE DEF a
<1>3. 1..Len(a) = 1..Len(q) \cup {Len(q) + 1}
  BY <1>1
<1>4. Rises(a)
  <2> SUFFICES ASSUME NEW i \in 1..Len(a), NEW j \in 1..Len(a), i < j
               PROVE  a[i].n < a[j].n
    BY DEF Rises
  <2>1. i \in 1..Len(q) /\ a[i] = q[i]
    BY <1>1, <1>2
  <2>2. CASE j \in 1..Len(q)
    BY <1>2, <2>1, <2>2 DEF Rises
  <2>3. CASE j = Len(q) + 1
    <3>1. q[i].n \in Nums(q)
      BY <2>1 DEF Nums
    <3> QED BY <1>2, <2>1, <2>3, <3>1 DEF Before
  <2> QED BY <1>3, <2>2, <2>3
<1>5. Nums(a) = Nums(q) \cup {d.n}
  BY <1>2, <1>3 DEF Nums
<1> QED BY <1>1, <1>4, <1>5 DEF a

LEMMA OrderStep == OrderInv /\ [LoopsNext]_loopsVars => OrderInv'
<1> SUFFICES ASSUME OrderInv, [LoopsNext]_loopsVars PROVE OrderInv'
  OBVIOUS
<1>0. /\ received \in Nat /\ toOrigin \in Seq(Nat)
      /\ writeChan \in Seq(Numbered) /\ demuxChan \in Seq(Numbered) /\ held \in Seq(Numbered)
      /\ Rises(writeChan) /\ Rises(demuxChan)
      /\ Nums(writeChan) \subseteq Nat /\ Nums(demuxChan) \subseteq Nat /\ Nums(held) \subseteq Nat
      /\ Written \subseteq Nat
  BY NumsType DEF OrderInv, Written
<1>1. CASE UNCHANGED orderVars
  BY <1>1, OrderKept
<1>2. CASE Receive
  <2>1. PICK k \in Kinds : held' = <<[n |-> received + 1, kind |-> k]>>
    BY <1>2 DEF Receive
  <2>2. received' = received + 1 /\ UNCHANGED <<toOrigin, writeChan, demuxChan>>
    BY <1>2 DEF Receive, loops
  <2>3. held' \in Seq(Numbered) /\ Len(held') = 1 /\ Nums(held') = {received + 1}
    BY <1>0, <2>1 DEF Numbered, Nums
  <2>4. UNCHANGED <<Written, Rising>>
    BY <2>2 DEF Written, Rising
  <2>5. \A m \in Written \cup Nums(writeChan) \cup Nums(demuxChan) : m \in Nat /\ m < received + 1
    BY <1>0 DEF OrderInv
  <2> QED BY <1>0, <2>2, <2>3, <2>4, <2>5 DEF OrderInv, Before
<1>3. CASE SendOn
  <2>1. /\ demuxChan' = demuxChan \o held /\ held' = <<>>
        /\ UNCHANGED <<received, toOrigin, writeChan>>
    BY <1>3 DEF SendOn, loops
  <2>2. held' \in Seq(Numbered) /\ Len(held') = 0 /\ Nums(held') = {}
    BY <2>1 DEF Nums
  <2>3. /\ demuxChan' \in Seq(Numbered) /\ Rises(demuxChan')
        /\ Nums(demuxChan') = Nums(demuxChan) \cup Nums(held)
    <3>1. CASE Len(held) = 0
      <4>1. held = <<>>
        BY <1>0, <3>1
      <4>2. demuxChan' = demuxChan /\ Nums(held) = {}
        BY <1>0, <2>1, <4>1 DEF Nums
      <4> QED BY <1>0, <4>2
    <3>2. CASE Len(held) = 1
      <4>1. held[1] \in Numbered /\ Nums(held) = {held[1].n}
        BY <1>0, <3>2 DEF Nums
      <4>2. demuxChan' = Append(demuxChan, held[1])
        <5>1. held = <<held[1]>> /\ demuxChan \o <<held[1]>> = Append(demuxChan, held[1])
          BY <1>0, <3>2, <4>1
        <5> QED BY <2>1, <5>1
      <4>3. Before(Nums(demuxChan), {held[1].n})
        BY <4>1 DEF OrderInv
      <4> QED BY <1>0, <4>1, <4>2, <4>3, AppendNums
    <3>3. Len(held) \in {0, 1}
      <4>1. Len(held) <= 1
        BY DEF OrderInv
      <4>2. \A q \in Seq(Numbered) : Len(q) \in Nat
        OBVIOUS
      <4>3. Len(held) \in Nat
        BY <1>0, <4>2
      <4> QED BY <4>1, <4>3
    <3> QED BY <3>1, <3>2, <3>3
  <2>4. UNCHANGED <<Written, Rising>>
    BY <2>1 DEF Written, Rising
  <2> QED BY <1>0, <2>1, <2>2, <2>3, <2>4 DEF OrderInv, Before
<1>4. CASE Demux
  <2> DEFINE d == Head(demuxChan)
  <2>1. /\ demuxChan # <<>> /\ demuxChan' = Tail(demuxChan)
        /\ writeChan' \in {writeChan, Append(writeChan, d)}
        /\ UNCHANGED <<received, toOrigin, held>>
    BY <1>4 DEF Demux, Put
  <2>2. /\ demuxChan' \in Seq(Numbered) /\ Rises(demuxChan') /\ Nums(demuxChan') \subseteq Nums(demuxChan)
        /\ d \in Numbered /\ d.n \in Nums(demuxChan) /\ Before({d.n}, Nums(demuxChan'))
    BY <1>0, <2>1, TailNums
  <2>3. Before(Nums(writeChan), {d.n})
    BY <2>2 DEF OrderInv, Before
  <2>4. /\ writeChan' \in Seq(Numbered) /\ Rises(writeChan')
        /\ Nums(writeChan') \subseteq Nums(writeChan) \cup {d.n}
    BY <1>0, <2>1, <2>2, <2>3, AppendNums
  <2>5. UNCHANGED <<Written, Rising>>
    BY <2>1 DEF Written, Rising
  <2> HIDE DEF d
  <2> QED BY <1>0, <2>1, <2>2, <2>4, <2>5 DEF OrderInv, Before
<1>5. CASE WriteLoop
  <2> DEFINE d == Head(writeChan)
  <2>1. /\ writeChan # <<>> /\ writeChan' = Tail(writeChan)
        /\ toOrigin' \in {toOrigin, Append(toOrigin, d.n)}
        /\ UNCHANGED <<received, demuxChan, held>>
    BY <1>5 DEF WriteLoop, muxer
  <2>2. /\ writeChan' \in Seq(Numbered) /\ Rises(writeChan') /\ Nums(writeChan') \subseteq Nums(writeChan)
        /\ d \in Numbered /\ d.n \in Nums(writeChan) /\ Before({d.n}, Nums(writeChan'))
    BY <1>0, <2>1, TailNums
  <2>3. d.n \in Nat
    BY <1>0, <2>2
  <2>4. toOrigin' \in Seq(Nat) /\ Rising' /\ Written' \subseteq Written \cup {d.n}
    <3>1. CASE toOrigin' = toOrigin
      BY <1>0, <3>1 DEF OrderInv, Rising, Written
    <3>2. CASE toOrigin' = Append(toOrigin, d.n)
      <4> HIDE DEF d
      <4>1. toOrigin' \in Seq(Nat) /\ Len(toOrigin') = Len(toOrigin) + 1 /\ Len(toOrigin) \in Nat
        BY <1>0, <2>3, <3>2
      <4>2. toOrigin'[Len(toOrigin) + 1] = d.n /\ \A i \in 1..Len(toOrigin) : toOrigin'[i] = toOrigin[i]
        BY <1>0, <2>3, <3>2
      <4>3. 1..Len(toOrigin') = 1..Len(toOrigin) \cup {Len(toOrigin) + 1}
        BY <4>1
      <4>4. Written' \subseteq Written \cup {d.n}
        BY <4>2, <4>3 DEF Written
      <4>5. ASSUME NEW i \in 1..Len(toOrigin'), NEW j \in 1..Len(toOrigin'), i < j
            PROVE  toOrigin'[i] < toOrigin'[j]
        <5>1. i \in 1..Len(toOrigin) /\ toOrigin'[i] = toOrigin[i]
          BY <4>1, <4>2, <4>5
        <5>2. CASE j \in 1..Len(toOrigin)
          BY <4>2, <4>5, <5>1, <5>2 DEF OrderInv, Rising
        <5>3. CASE j = Len(toOrigin) + 1
          <6>1. toOrigin[i] \in Written
            BY <5>1 DEF Written
          <6> QED BY <2>2, <4>2, <5>1, <5>3, <6>1 DEF OrderInv, Before
        <5> QED BY <4>3, <5>2, <5>3
      <4> QED BY <4>1, <4>4, <4>5 DEF Rising
    <3> QED BY <2>1, <3>1, <3>2
  <2> HIDE DEF d
  <2> QED BY <1>0, <2>1, <2>2, <2>3, <2>4 DEF OrderInv, Before
<1>6. CASE \/ StopProgram \/ ConnIsLost \/ ReceiveFails \/ ServeReturns \/ WriteICMP \/ IcmpEnds
           \/ ReadLoop \/ WriterEnds \/ StopsWaiting \/ ResetTimer \/ Close
  BY <1>1, <1>6 DEF StopProgram, ConnIsLost, ReceiveFails, ServeReturns, WriteICMP, IcmpEnds,
                    ReadLoop, WriterEnds, StopsWaiting, ResetTimer, Close, muxer, loops, orderVars
<1>7. CASE UNCHANGED loopsVars
  BY <1>1, <1>7 DEF loopsVars, orderVars
<1> QED BY <1>2, <1>3, <1>4, <1>5, <1>6, <1>7 DEF LoopsNext

\* Payloads reach the origin in the order in which the connection received them and none
\* twice, although three bounded channels between four goroutines may drop some (pollDatagrams,
\* Serve of the datagram connection, Write and writeLoop of the session).
THEOREM PayloadsKeepTheirOrder == LoopsSpec => []InOrder
<1>1. LoopsInit => OrderInv
  BY DEF LoopsInit, OrderInv, Rising, Written, Rises, Nums, Before
<1>2. ASSUME OrderInv PROVE InOrder
  <2> SUFFICES ASSUME NEW i \in 1..Len(toOrigin), NEW j \in 1..i-1
               PROVE  toOrigin[j] < toOrigin[i]
    BY DEF InOrder
  <2>1. j \in 1..Len(toOrigin) /\ j < i
    BY <1>2 DEF OrderInv
  <2> QED BY <1>2, <2>1 DEF OrderInv, Rising
<1> QED BY <1>1, <1>2, OrderStep, PTL DEF LoopsSpec

-----------------------------------------------------------------------------
\* The versions of the configuration.

Applying(u) == step[u] \notin {"idle", "done"}

\* What the update that holds the lock has replaced so far: the limit, the proxy, the
\* configuration, in this order.
Replaced(u) ==
    /\ step[u] \in {"parse", "start", "limit"} => limit = config /\ proxy = config
    /\ step[u] = "proxy" => limit = u /\ proxy = config
    /\ step[u] = "config" => limit = u /\ proxy = u
    /\ step[u] = "close" => limit = u /\ proxy = u /\ config = u
    /\ step[u] # "close" => version[config] = currentVersion /\ config # u

\* One update holds the lock; the channel it will close is that of an older one, and one
\* that has not begun is nowhere in force.
OrchInv ==
    /\ step \in [Updates -> {"idle", "parse", "start", "limit", "proxy", "config", "close", "done"}]
    /\ DOMAIN version = Configs /\ {proxy, config, limit} \subseteq Configs
    /\ \A u, v \in Updates : Applying(u) /\ Applying(v) => u = v
    /\ \A u \in Updates :
          /\ step[u] = "idle" => u \notin {proxy, config, limit, toClose}
          /\ step[u] \in {"limit", "proxy", "config", "close"} => u \in originsRun
          /\ Applying(u) => toClose # u /\ Replaced(u)
    /\ LoadedProxyRuns

LEMMA OrchStep == OrchInv /\ [ConfigNext]_orchVars => OrchInv'
<1> SUFFICES ASSUME OrchInv, [ConfigNext]_orchVars PROVE OrchInv'
  OBVIOUS
<1> USE OrchAssumption DEF Configs, Applying
<1>0. /\ step \in [Updates -> {"idle", "parse", "start", "limit", "proxy", "config", "close", "done"}]
      /\ DOMAIN version = Configs /\ {proxy, config, limit} \subseteq Configs
      /\ (\E u \in Updates : Applying(u)) <=> Held
  BY DEF OrchInv, Held
<1>1. CASE UNCHANGED orchVars
  BY <1>1 DEF orchVars, OrchInv, Replaced, LoadedProxyRuns, Held
<1>2. ASSUME NEW u \in Updates, NEW v \in 0..MaxVersion, UpdateConfig(u, v)
      PROVE  OrchInv'
  <2>1. PICK to \in {"parse", "done"} : step[u] = "idle" /\ step' = [step EXCEPT ![u] = to]
    BY <1>2 DEF UpdateConfig, GotoStep
  <2>2. /\ ~Held /\ version' = [version EXCEPT ![u] = v]
        /\ UNCHANGED <<currentVersion, proxy, config, limit, toClose, originsRun, shutdown>>
    BY <1>2 DEF UpdateConfig
  <2>3. \A w \in Updates : step[w] \in {"idle", "done"}
    BY <1>0, <2>2 DEF Held
  <2>4. /\ proxy = config /\ config = limit /\ version[config] = currentVersion /\ config # u
        /\ toClose # u /\ (~shutdown => proxy \in originsRun)
    BY <2>1, <2>2 DEF OrchInv, LoadedProxyRuns
  <2>5. version'[config] = currentVersion /\ DOMAIN version' = Configs
    BY <1>0, <2>2, <2>4
  <2>6. \A w \in Updates : step'[w] = IF w = u THEN to ELSE step[w]
    BY <1>0, <2>1
  <2>7. /\ step' \in [Updates -> {"idle", "parse", "start", "limit", "proxy", "config", "close", "done"}]
        /\ \A w, x \in Updates : Applying(w)' /\ Applying(x)' => w = x
    BY <1>0, <2>1, <2>3, <2>6
  <2>8. ASSUME NEW w \in Updates
        PROVE  /\ step'[w] = "idle" => w \notin {proxy', config', limit', toClose'}
               /\ step'[w] \in {"limit", "proxy", "config", "close"} => w \in originsRun'
               /\ Applying(w)' => toClose' # w /\ Replaced(w)'
    BY <2>2, <2>3, <2>4, <2>5, <2>6 DEF OrchInv, Replaced
  <2>9. LoadedProxyRuns'
    BY <2>2, <2>4, <2>5 DEF LoadedProxyRuns
  <2> QED BY <1>0, <2>2, <2>5, <2>7, <2>8, <2>9 DEF OrchInv
\* the steps of the update that holds the lock
<1>3. ASSUME NEW u \in Updates, Apply(u)
      PROVE  OrchInv'
  <2> DEFINE Rest == {"idle", "done"}
  <2>1. PICK to \in {"start", "limit", "proxy", "config", "close", "done"} :
           Applying(u) /\ step' = [step EXCEPT ![u] = to]
    BY <1>3 DEF Apply, ParseFails, Parse, StartFails, StartOrigins, SetLimit, StoreProxy,
                StoreConfig, CloseLast, GotoStep
  <2>2. Replaced(u) /\ toClose # u /\ \A w \in Updates \ {u} : step[w] \in Rest
    BY <2>1 DEF OrchInv
  <2>3. \A w \in Updates : step'[w] = IF w = u THEN to ELSE step[w]
    BY <1>0, <2>1
  <2>4. /\ step' \in [Updates -> {"idle", "parse", "start", "limit", "proxy", "config", "close", "done"}]
        /\ \A w, x \in Updates : Applying(w)' /\ Applying(x)' => w = x
    BY <1>0, <2>1, <2>2, <2>3
  <2>5. UNCHANGED <<version, shutdown>>
    BY <1>3 DEF Apply, ParseFails, Parse, StartFails, StartOrigins, SetLimit, StoreProxy,
                StoreConfig, CloseLast, Refuse
  <2>6. Held' <=> to # "done"
    BY <2>2, <2>3 DEF Held
  <2>7. SUFFICES /\ {proxy', config', limit'} \subseteq {proxy, config, limit, u}
                 /\ toClose' \in {toClose, u}
                 /\ to \in {"limit", "proxy", "config", "close"} => u \in originsRun'
                 /\ to # "done" => toClose' # u /\ Replaced(u)'
                 /\ ~shutdown => proxy' \in originsRun'
                 /\ to = "done" => proxy' = config' /\ config' = limit' /\ version[config'] = currentVersion'
    <3>1. ASSUME NEW w \in Updates
          PROVE  /\ step'[w] = "idle" => w \notin {proxy', config', limit', toClose'}
                 /\ step'[w] \in {"limit", "proxy", "config", "close"} => w \in originsRun'
                 /\ Applying(w)' => toClose' # w /\ Replaced(w)'
      <4>1. CASE w = u
        BY <2>1, <2>3, <2>7, <4>1
      <4>2. CASE w # u
        BY <2>2, <2>3, <2>7, <4>2 DEF OrchInv
      <4> QED BY <4>1, <4>2
    <3>2. LoadedProxyRuns'
      BY <2>5, <2>6, <2>7 DEF LoadedProxyRuns
    <3> QED BY <1>0, <2>4, <2>5, <2>7, <3>1, <3>2 DEF OrchInv
  <2> USE <2>1, <2>2, <2>3, <2>5 DEF Replaced, GotoStep
  <2>8. ~shutdown => proxy \in originsRun
    BY DEF OrchInv, LoadedProxyRuns
  <2>9. CASE ParseFails(u) \/ Parse(u)
    BY <1>0, <2>8, <2>9 DEF ParseFails, Parse, Refuse
  <2>10. CASE StartFails(u)
    BY <1>0, <2>8, <2>10 DEF StartFails, Refuse
  <2>11. CASE StartOrigins(u)
    BY <1>0, <2>8, <2>11 DEF StartOrigins
  <2>12. step[u] \in {"limit", "proxy", "config", "close"} => u \in originsRun
    BY DEF OrchInv
  <2>13. CASE SetLimit(u)
    BY <1>0, <2>8, <2>12, <2>13 DEF SetLimit
  <2>14. CASE StoreProxy(u)
    BY <1>0, <2>8, <2>12, <2>14 DEF StoreProxy
  <2>15. CASE StoreConfig(u)
    BY <1>0, <2>8, <2>12, <2>15 DEF StoreConfig
  <2>16. CASE CloseLast(u)
    BY <1>0, <2>8, <2>12, <2>16 DEF CloseLast
  <2> QED BY <1>3, <2>9, <2>10, <2>11, <2>13, <2>14, <2>15, <2>16 DEF Apply
<1>4. CASE Shutdown
  BY <1>4 DEF Shutdown, OrchInv, Replaced, LoadedProxyRuns, Held
<1>5. CASE WaitToCloseLastProxy
  BY <1>5 DEF WaitToCloseLastProxy, OrchInv, Replaced, LoadedProxyRuns, Held
<1> QED BY <1>1, <1>2, <1>3, <1>4, <1>5 DEF ConfigNext

\* A request that loads the proxy without a lock gets one whose origins run, until the
\* shutdown, at every step of every update, one that fails included; and whoever gets the lock
\* finds the proxy, the configuration, the limit and the version of one update
\* (UpdateConfig, updateIngress, waitToCloseLastProxy).
THEOREM LoadedProxyIsServed == ConfigSpec => []LoadedProxyRuns
<1>1. ConfigInit => OrchInv
  BY OrchAssumption DEF ConfigInit, OrchInv, LoadedProxyRuns, Applying, Configs, Held
<1>2. OrchInv => LoadedProxyRuns
  BY DEF OrchInv
<1> QED BY <1>1, <1>2, OrchStep, PTL DEF ConfigSpec

-----------------------------------------------------------------------------
\* The streams of the log.

\* Those who stream or are allowed to are of one actor, unless a second was allowed before
\* the first listened; a session that was never listed twice is listed while it is served.
StreamsTypes ==
    /\ handler \in [Sessions -> {"none", "loop", "allowed", "ended"}]
    /\ DOMAIN actorOf = Sessions
    /\ logsActive \in [Sessions -> BOOLEAN]
    /\ listeners \in [Sessions -> Nat] /\ streamers \in [Sessions -> Nat]

ListedInv(s) ==
    /\ logsActive[s] => streamers[s] > 0
    /\ handler[s] = "none" => listeners[s] = 0
    /\ s \notin again => listeners[s] <= IF handler[s] \in {"none", "ended"} THEN 0 ELSE 1

OneActor(s, l) ==
    /\ handler[s] = "allowed" /\ handler[l] = "allowed" => s = l
    /\ l \in ActiveSessions /\ (handler[s] = "allowed" \/ s \in ActiveSessions)
         => actorOf[s] = actorOf[l]

StreamsInv ==
    /\ StreamsTypes
    /\ \A s \in Sessions : ListedInv(s)
    /\ ~raced => \A s, l \in Sessions : OneActor(s, l)

\* Nobody becomes active or allowed: those who are stay of one actor.
LEMMA FewerStream ==
  ASSUME StreamsInv, StreamsTypes', raced' = raced, UNCHANGED actorOf,
         \A s \in Sessions : /\ handler'[s] = "allowed" => handler[s] = "allowed"
                             /\ logsActive'[s] => logsActive[s]
                             /\ listeners'[s] <= listeners[s]
  PROVE  ~raced' => \A s, l \in Sessions : OneActor(s, l)'
<1>1. \A l \in Sessions : l \in ActiveSessions' => l \in ActiveSessions
  <2> SUFFICES ASSUME NEW l \in Sessions, l \in ActiveSessions' PROVE l \in ActiveSessions
    OBVIOUS
  <2>1. listeners'[l] > 0 /\ logsActive'[l] /\ listeners'[l] \in Nat /\ listeners[l] \in Nat
    BY DEF ActiveSessions, StreamsInv, StreamsTypes
  <2>2. listeners[l] > 0 /\ logsActive[l]
    BY <2>1
  <2> QED BY <2>2 DEF ActiveSessions
<1> QED BY <1>1 DEF StreamsInv, OneActor

LEMMA RemovesOne ==
  ASSUME NEW s \in Sessions, listeners \in [Sessions -> Nat]
  PROVE  /\ Remove(s) \in [Sessions -> Nat]
         /\ \A l \in Sessions : Remove(s)[l] <= listeners[l]
         /\ \A l \in Sessions : l # s => Remove(s)[l] = listeners[l]
         /\ listeners[s] <= 1 => Remove(s)[s] = 0
  BY DEF Remove

LEMMA StreamsStep == StreamsInv /\ [LogsNext]_mgmtVars => StreamsInv'
<1> SUFFICES ASSUME StreamsInv, [LogsNext]_mgmtVars PROVE StreamsInv'
  OBVIOUS
<1> USE DEF StreamsTypes
<1>1. CASE UNCHANGED mgmtVars
  BY <1>1 DEF mgmtVars, StreamsInv, ListedInv, OneActor, ActiveSessions
<1>2. ASSUME NEW s \in Sessions, NEW actor \in Actors, Connect(s, actor)
      PROVE  StreamsInv'
  <2>1. /\ handler[s] = "none" /\ handler' = [handler EXCEPT ![s] = "loop"]
        /\ actorOf' = [actorOf EXCEPT ![s] = actor]
        /\ UNCHANGED <<logsActive, streamers, listeners, again, raced>>
    BY <1>2 DEF Connect
  <2>2. StreamsTypes' /\ \A l \in Sessions : ListedInv(l)'
    BY <2>1 DEF StreamsInv, ListedInv
  <2>3. ActiveSessions' = ActiveSessions /\ s \notin ActiveSessions
    BY <2>1 DEF ActiveSessions, StreamsInv, ListedInv
  <2>4. ~raced' => \A x, l \in Sessions : OneActor(x, l)'
    BY <2>1, <2>3 DEF StreamsInv, OneActor, ActiveSessions
  <2> QED BY <2>2, <2>4 DEF StreamsInv
<1>3. ASSUME NEW s \in Sessions, HandlerReturns(s), handler[s] = "loop",
             UNCHANGED <<actorOf, logsActive, streamers, again, raced>>
      PROVE  StreamsInv'
  <2>1. handler' = [handler EXCEPT ![s] = "ended"] /\ listeners' = Remove(s)
    BY <1>3 DEF HandlerReturns
  <2>2. StreamsTypes'
    BY <1>3, <2>1, RemovesOne DEF StreamsInv
  <2>3. \A l \in Sessions : ListedInv(l)'
    BY <1>3, <2>1, RemovesOne DEF StreamsInv, ListedInv
  <2>4. \A l \in Sessions : /\ handler'[l] = "allowed" => handler[l] = "allowed"
                            /\ listeners'[l] <= listeners[l]
    BY <2>1, RemovesOne DEF StreamsInv
  <2> QED BY <1>3, <2>2, <2>3, <2>4, FewerStream DEF StreamsInv
<1>4. ASSUME NEW s \in Sessions, StartAllowed(s)
      PROVE  StreamsInv'
  <2>1. PICK old \in SUBSET ActiveSessions :
           /\ CanStartStream(s, old)
           /\ logsActive' = [l \in Sessions |-> logsActive[l] /\ l \notin old]
           /\ listeners' = [l \in Sessions |-> IF l \in old THEN Remove(l)[l] ELSE listeners[l]]
    BY <1>4 DEF StartAllowed
  <2>2. /\ handler' = [handler EXCEPT ![s] = "allowed"]
        /\ UNCHANGED <<actorOf, streamers, again>>
        /\ handler[s] = "loop"
        /\ ~raced' => ~raced /\ \A other \in Sessions : handler[other] # "allowed"
    BY <1>4 DEF StartAllowed, Takes
  <2>3. /\ listeners' \in [Sessions -> Nat]
        /\ \A l \in Sessions : listeners'[l] <= listeners[l]
    BY <2>1, RemovesOne DEF StreamsInv
  <2>4. logsActive' \in [Sessions -> BOOLEAN] /\ \A l \in Sessions : logsActive'[l] => logsActive[l]
    BY <2>1
  <2>5. StreamsTypes'
    BY <2>2, <2>3, <2>4 DEF StreamsInv
  <2>6. ASSUME NEW l \in Sessions PROVE ListedInv(l)'
    <3>1. listeners'[l] <= listeners[l] /\ listeners'[l] \in Nat /\ listeners[l] \in Nat
      BY <2>3 DEF StreamsInv
    <3>2. handler'[l] = handler[l] \/ (handler[l] = "loop" /\ handler'[l] = "allowed")
      BY <2>2 DEF StreamsInv
    <3>3. ListedInv(l)
      BY DEF StreamsInv
    <3> QED BY <2>2, <2>4, <3>1, <3>2, <3>3 DEF ListedInv
  <2>7. \A l \in Sessions : l \in ActiveSessions' => l \in ActiveSessions
    <3> SUFFICES ASSUME NEW l \in Sessions, l \in ActiveSessions' PROVE l \in ActiveSessions
      OBVIOUS
    <3>1. listeners'[l] > 0 /\ logsActive'[l] /\ listeners'[l] \in Nat /\ listeners[l] \in Nat
      BY <2>3 DEF ActiveSessions, StreamsInv
    <3> QED BY <2>3, <2>4, <3>1 DEF ActiveSessions
  <2>8. ASSUME ~raced', NEW l \in ActiveSessions
        PROVE  actorOf[s] = actorOf[l]
    <3>1. PICK a \in ActiveSession(actorOf[s]) : TRUE
      BY <2>1, <2>8 DEF CanStartStream
    <3>2. a \in ActiveSessions /\ actorOf[a] = actorOf[s] /\ a \in Sessions /\ l \in Sessions
      BY <3>1 DEF ActiveSession, ActiveSessions
    <3> QED BY <2>2, <2>8, <3>2 DEF StreamsInv, OneActor
  <2>9. ASSUME ~raced', NEW x \in Sessions, NEW y \in Sessions PROVE OneActor(x, y)'
    <3>1. \A z \in Sessions : handler'[z] = "allowed" <=> z = s
      BY <2>2, <2>9 DEF StreamsInv
    <3>2. y \in ActiveSessions' => actorOf[s] = actorOf[y]
      BY <2>7, <2>8, <2>9
    <3>3. x \in ActiveSessions' => actorOf[s] = actorOf[x]
      BY <2>7, <2>8, <2>9
    <3> QED BY <2>2, <3>1, <3>2, <3>3 DEF OneActor
  <2> QED BY <2>5, <2>6, <2>9 DEF StreamsInv
<1>5. ASSUME NEW s \in Sessions, Listen(s)
      PROVE  StreamsInv'
  <2>1. /\ handler[s] = "allowed" /\ handler' = [handler EXCEPT ![s] = "loop"]
        /\ logsActive' = [logsActive EXCEPT ![s] = TRUE]
        /\ listeners' = [listeners EXCEPT ![s] = @ + 1]
        /\ streamers' = [streamers EXCEPT ![s] = @ + 1]
        /\ again' = IF listeners[s] > 0 THEN again \cup {s} ELSE again
        /\ UNCHANGED <<actorOf, raced>>
    BY <1>5 DEF Listen
  <2>2. StreamsTypes'
    BY <2>1 DEF StreamsInv
  <2>3. \A l \in Sessions : ListedInv(l)'
    BY <2>1 DEF StreamsInv, ListedInv
  <2>4. \A z \in Sessions \ {s} : z \in ActiveSessions' => z \in ActiveSessions
    BY <2>1 DEF ActiveSessions, StreamsInv
  <2>5. ASSUME ~raced', NEW x \in Sessions, NEW y \in Sessions PROVE OneActor(x, y)'
    <3>1. \A z \in Sessions : handler'[z] # "allowed"
      BY <2>1, <2>5 DEF StreamsInv, OneActor
    <3>2. \A z \in Sessions : z \in ActiveSessions' => actorOf[s] = actorOf[z]
      BY <2>1, <2>4, <2>5 DEF StreamsInv, OneActor
    <3> QED BY <2>1, <3>1, <3>2 DEF OneActor
  <2> QED BY <2>2, <2>3, <2>5 DEF StreamsInv
<1>6. ASSUME NEW s \in Sessions, UNCHANGED <<actorOf, handler, again, raced>>,
             listeners' \in {listeners, Remove(s)},
             \/ UNCHANGED <<logsActive, streamers>>
             \/ /\ logsActive' = [logsActive EXCEPT ![s] = FALSE]
                /\ \/ UNCHANGED streamers
                   \/ streamers[s] > 0 /\ streamers' = [streamers EXCEPT ![s] = @ - 1]
      PROVE  StreamsInv'
  <2>1. /\ listeners' \in [Sessions -> Nat]
        /\ \A l \in Sessions : listeners'[l] <= listeners[l]
    BY <1>6, RemovesOne DEF StreamsInv
  <2>2. streamers' \in [Sessions -> Nat] /\ logsActive' \in [Sessions -> BOOLEAN]
    <3>1. streamers' \in [Sessions -> Nat]
      BY <1>6 DEF StreamsInv
    <3>2. logsActive' \in {logsActive, [logsActive EXCEPT ![s] = FALSE]}
      BY <1>6
    <3> QED BY <3>1, <3>2 DEF StreamsInv
  <2>3. \A l \in Sessions : logsActive'[l] => logsActive[l] /\ streamers'[l] = streamers[l]
    <3>1. CASE UNCHANGED <<logsActive, streamers>>
      BY <3>1
    <3>2. CASE logsActive' = [logsActive EXCEPT ![s] = FALSE]
      <4>1. \A l \in Sessions \ {s} : streamers'[l] = streamers[l]
        BY <1>6 DEF StreamsInv
      <4> QED BY <3>2, <4>1 DEF StreamsInv
    <3> QED BY <1>6, <3>1, <3>2
  <2>4. StreamsTypes'
    BY <1>6, <2>1, <2>2 DEF StreamsInv
  <2>5. ASSUME NEW l \in Sessions PROVE ListedInv(l)'
    <3>1. listeners'[l] <= listeners[l] /\ listeners'[l] \in Nat /\ listeners[l] \in Nat
      BY <2>1 DEF StreamsInv
    <3>2. ListedInv(l)
      BY DEF StreamsInv
    <3> QED BY <1>6, <2>3, <3>1, <3>2 DEF ListedInv
  <2> QED BY <1>6, <2>1, <2>3, <2>4, <2>5, FewerStream DEF StreamsInv
<1>7. ASSUME NEW s \in Sessions,
             \/ ReaderEnds(s) \/ StopStreaming(s) \/ StreamerEnds(s) \/ WriteFails(s)
             \/ RequestCanceled(s) \/ \E type \in {"start", "stop"} : ReadEvent(s, type)
      PROVE  StreamsInv'
  BY <1>6, <1>7 DEF ReaderEnds, StopStreaming, StreamerEnds, WriteFails, RequestCanceled, ReadEvent
<1>8. ASSUME NEW s \in Sessions, HandlerEnds(s) \/ StartRefused(s)
      PROVE  StreamsInv'
  BY <1>3, <1>8 DEF HandlerEnds, StartRefused, Takes
<1> QED BY <1>1, <1>2, <1>4, <1>5, <1>7, <1>8 DEF LogsNext

\* "Limits to one actor for streaming logs": it holds unless a second request is allowed
\* between canStartStream and Listen of the first.  Only connections that are being served
\* are listed, unless one was listed a second time, and one that stays listed is not active
\* once its goroutines have ended, however requests and ends interleave (Logger, logs).
THEOREM LogsGoToOneActor == LogsSpec => []OneActorStreams
<1>1. LogsInit => StreamsInv
  BY DEF LogsInit, StreamsInv, StreamsTypes, ListedInv, OneActor, ActiveSessions
<1>2. ASSUME StreamsInv PROVE OneActorStreams
  <2>1. ASSUME ~raced PROVE Cardinality({actorOf[s] : s \in ActiveSessions}) <= 1
    <3>1. \A s, l \in ActiveSessions : actorOf[s] = actorOf[l]
      BY <1>2, <2>1 DEF StreamsInv, OneActor, ActiveSessions
    <3>2. CASE ActiveSessions = {}
      <4>1. {actorOf[s] : s \in ActiveSessions} = {}
        BY <3>2
      <4> QED BY <4>1, FS_EmptySet
    <3>3. ASSUME NEW a \in ActiveSessions
          PROVE  Cardinality({actorOf[s] : s \in ActiveSessions}) <= 1
      <4>1. {actorOf[s] : s \in ActiveSessions} = {actorOf[a]}
        BY <3>1
      <4>2. Cardinality({actorOf[a]}) = 1
        BY FS_Singleton
      <4> QED BY <4>1, <4>2
    <3> QED BY <3>2, <3>3
  <2> QED BY <1>2, <2>1 DEF StreamsInv, ListedInv, OneActorStreams
<1> QED BY <1>1, <1>2, StreamsStep, PTL DEF LogsSpec

-----------------------------------------------------------------------------
\* The program of the daemon.

\* Where Apply is tells what is on the disk.
DiskInv ==
    /\ DOMAIN file = {"target", "new", "old"}
    /\ file["target"] \in {"whole", "none"}
    /\ apply \in {"moveOut", "moveIn"} => file["new"] = "whole"
    /\ apply = "moveIn" => file["target"] = "none"
    /\ apply = "clean" => file["target"] = "whole"
    /\ file["target"] = "none" => file["old"] = "whole" /\ (apply = "moveIn" \/ stuck)

LEMMA DiskStep == DiskInv /\ [ProcessNext]_processVars => DiskInv'
<1> SUFFICES ASSUME DiskInv, [ProcessNext]_processVars PROVE DiskInv'
  OBVIOUS
<1>1. CASE UNCHANGED DiskVars
  BY <1>1 DEF DiskVars, DiskInv
<1>2. CASE Tick
  BY <1>2 DEF Tick, Step, DiskInv
<1>3. CASE Download
  BY <1>3 DEF Download, Step, File, DiskInv
<1>4. CASE Verify
  BY <1>4 DEF Verify, Step, File, DiskInv
<1>5. CASE MoveOut
  BY <1>5 DEF MoveOut, Step, DiskInv
<1>6. CASE MoveIn
  BY <1>6 DEF MoveIn, Step, DiskInv
<1>7. CASE Clean
  BY <1>7 DEF Clean, File, DiskInv
<1>8. CASE Restart
  BY <1>8 DEF Restart, DiskInv
<1>9. CASE Main \/ WaitForSignal \/ Crash \/ UNCHANGED processVars
           \/ \E s \in Services : Ends(s)
  BY <1>1, <1>9 DEF Main, StartServer, Wait, GraceEnds, Discard, Return, WaitForSignal, Crash,
                    Ends, DiskVars, processVars
<1> QED BY <1>2, <1>3, <1>4, <1>5, <1>6, <1>7, <1>8, <1>9 DEF ProcessNext, Update

\* Whatever fails or crashes between two steps of an update, a whole program is left, under
\* its name unless Apply is between its two renames or its rollback failed, and what is
\* under its name was verified (WorkersVersion.Apply).
THEOREM ProgramIsNeverLost == ProcessSpec => []ProgramSurvives
<1>1. ProcessInit => DiskInv
  BY DEF ProcessInit, DiskInv
<1>2. DiskInv => ProgramSurvives
  BY DEF DiskInv, ProgramSurvives
<1> QED BY <1>1, <1>2, DiskStep, PTL DEF ProcessSpec
=============================================================================
