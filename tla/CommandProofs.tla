---------------------------- MODULE CommandProofs ----------------------------
(***************************************************************************)
(* The commands of cloudflared and the requests of the workspace server,   *)
(* for any number of processes, requests, chats, networks and lines: what  *)
(* TLC checks of them side by side in MCCommands, proved for each.  The    *)
(* invariant of each part says what a process has found out and is yet to  *)
(* act upon, and that the others cannot have made it false meanwhile.      *)
(***************************************************************************)
EXTENDS Token, TunnelAdmin, NetworkAdmin, ServiceInstall, Prechecks, Diagnostic, LogTail, ApiServer,
        FiniteSetTheorems, SequenceTheorems, FunctionTheorems,
        WellFoundedInduction, TLAPS

-----------------------------------------------------------------------------
\* Logins: who created the lock file that is there holds the lock, or is about to.

Locks == [by : Logins, written : BOOLEAN, old : BOOLEAN]

LoginTypes ==
    /\ lock \in [Paths -> Locks \cup {NoLock}]
    /\ loginPc \in [Logins -> InGetToken \cup {"get", "verify", "done", "failed"}]
    /\ want \in [Logins -> Paths] /\ held \in [Logins -> SUBSET Paths]
    /\ reclaimed \in SUBSET Paths

\* Between O_EXCL and the return of getToken.
Owns(p, x) ==
    /\ loginPc[p] \in InGetToken
    /\ x \in held[p] \/ (loginPc[p] = "write" /\ want[p] = x)

LockInv ==
    /\ LoginTypes
    /\ \A x \in Paths \ reclaimed : \A p \in Logins :
          Owns(p, x) => lock[x] # NoLock /\ lock[x].by = p

\* A step on no lock file, by a login that gets hold of none.
LEMMA NoLockTaken ==
    ASSUME LockInv, LoginTypes', UNCHANGED <<lock, reclaimed>>,
           \A p \in Logins : \A x \in Paths : Owns(p, x)' => Owns(p, x)
    PROVE  LockInv'
BY DEF LockInv

LEMMA LoginStepHolds ==
    ASSUME LockInv, NEW p \in Logins,
           \/ Get(p) \/ IsLockFileStale(p) \/ LockTimeout(p) \/ AppLocked(p) \/ OrgLocked(p)
           \/ ExchangeOrgToken(p) \/ RunTransfer(p) \/ Save(p) \/ VerifyTokenAtEdge(p) \/ Die(p)
    PROVE  LockInv'
<1>0. App[p] \in Paths /\ Org \in Paths
    BY DEF Paths
<1> USE DEF GoTo, LoginAt, InGetToken
<1>1. CASE Get(p)
  <2>1. LoginTypes'
    BY <1>0, <1>1 DEF Get, LockInv, LoginTypes
  <2>2. \A q \in Logins : \A x \in Paths : Owns(q, x)' => Owns(q, x)
    BY <1>0, <1>1 DEF Get, LockInv, LoginTypes, Owns
  <2> QED BY <1>1, <2>1, <2>2, NoLockTaken DEF Get
<1>2. CASE IsLockFileStale(p)
  <2>1. LoginTypes'
    BY <1>0, <1>2 DEF IsLockFileStale, LockInv, LoginTypes
  <2>2. \A q \in Logins : \A x \in Paths : Owns(q, x)' => Owns(q, x)
    BY <1>0, <1>2 DEF IsLockFileStale, LockInv, LoginTypes, Owns
  <2> QED BY <1>2, <2>1, <2>2, NoLockTaken DEF IsLockFileStale
<1>3. CASE LockTimeout(p)
  <2>1. LoginTypes'
    BY <1>0, <1>3 DEF LockTimeout, LockInv, LoginTypes
  <2>2. \A q \in Logins : \A x \in Paths : Owns(q, x)' => Owns(q, x)
    BY <1>0, <1>3 DEF LockTimeout, LockInv, LoginTypes, Owns
  <2> QED BY <1>3, <2>1, <2>2, NoLockTaken DEF LockTimeout
<1>4. CASE AppLocked(p)
  <2>1. LoginTypes'
    BY <1>0, <1>4 DEF AppLocked, LockInv, LoginTypes
  <2>2. \A q \in Logins : \A x \in Paths : Owns(q, x)' => Owns(q, x)
    BY <1>0, <1>4 DEF AppLocked, LockInv, LoginTypes, Owns
  <2> QED BY <1>4, <2>1, <2>2, NoLockTaken DEF AppLocked
<1>5. CASE OrgLocked(p)
  <2>1. LoginTypes'
    BY <1>0, <1>5 DEF OrgLocked, LockInv, LoginTypes
  <2>2. \A q \in Logins : \A x \in Paths : Owns(q, x)' => Owns(q, x)
    BY <1>0, <1>5 DEF OrgLocked, LockInv, LoginTypes, Owns
  <2> QED BY <1>5, <2>1, <2>2, NoLockTaken DEF OrgLocked
<1>6. CASE ExchangeOrgToken(p)
  <2>1. LoginTypes'
    BY <1>0, <1>6 DEF ExchangeOrgToken, LockInv, LoginTypes
  <2>2. \A q \in Logins : \A x \in Paths : Owns(q, x)' => Owns(q, x)
    BY <1>0, <1>6 DEF ExchangeOrgToken, LockInv, LoginTypes, Owns
  <2> QED BY <1>6, <2>1, <2>2, NoLockTaken DEF ExchangeOrgToken
<1>7. CASE RunTransfer(p)
  <2>1. LoginTypes'
    BY <1>0, <1>7 DEF RunTransfer, LockInv, LoginTypes
  <2>2. \A q \in Logins : \A x \in Paths : Owns(q, x)' => Owns(q, x)
    BY <1>0, <1>7 DEF RunTransfer, LockInv, LoginTypes, Owns
  <2> QED BY <1>7, <2>1, <2>2, NoLockTaken DEF RunTransfer
<1>8. CASE Save(p)
  <2>1. LoginTypes'
    BY <1>0, <1>8 DEF Save, LockInv, LoginTypes
  <2>2. \A q \in Logins : \A x \in Paths : Owns(q, x)' => Owns(q, x)
    BY <1>0, <1>8 DEF Save, LockInv, LoginTypes, Owns
  <2> QED BY <1>8, <2>1, <2>2, NoLockTaken DEF Save
<1>9. CASE VerifyTokenAtEdge(p)
  <2>1. LoginTypes'
    BY <1>0, <1>9 DEF VerifyTokenAtEdge, LockInv, LoginTypes
  <2>2. \A q \in Logins : \A x \in Paths : Owns(q, x)' => Owns(q, x)
    BY <1>0, <1>9 DEF VerifyTokenAtEdge, LockInv, LoginTypes, Owns
  <2> QED BY <1>9, <2>1, <2>2, NoLockTaken DEF VerifyTokenAtEdge
<1>10. CASE Die(p)
    BY <1>10, NoLockTaken DEF Die, LockInv, LoginTypes, Owns
<1> QED BY <1>1, <1>2, <1>3, <1>4, <1>5, <1>6, <1>7, <1>8, <1>9, <1>10

\* The holder of a lock file stays when it is written or ages.
LEMMA HolderStays ==
    ASSUME NEW x \in Paths, lock \in [Paths -> Locks \cup {NoLock}], lock[x] # NoLock,
           \/ lock' = [lock EXCEPT ![x].written = TRUE]
           \/ lock' = [lock EXCEPT ![x].old = TRUE]
    PROVE  /\ lock' \in [Paths -> Locks \cup {NoLock}]
           /\ \A y \in Paths : lock[y] # NoLock => lock'[y] # NoLock /\ lock'[y].by = lock[y].by
<1>1. lock[x] \in Locks
    OBVIOUS
<1>2. PICK l \in Locks : lock' = [lock EXCEPT ![x] = l] /\ l.by = lock[x].by
  <2>1. CASE lock' = [lock EXCEPT ![x].written = TRUE]
    <3> DEFINE l == [lock[x] EXCEPT !.written = TRUE]
    <3>1. l \in Locks /\ l.by = lock[x].by
      BY <1>1 DEF Locks
    <3>2. lock' = [lock EXCEPT ![x] = l]
      BY <2>1
    <3> QED BY <3>1, <3>2
  <2>2. CASE lock' = [lock EXCEPT ![x].old = TRUE]
    <3> DEFINE l == [lock[x] EXCEPT !.old = TRUE]
    <3>1. l \in Locks /\ l.by = lock[x].by
      BY <1>1 DEF Locks
    <3>2. lock' = [lock EXCEPT ![x] = l]
      BY <2>2
    <3> QED BY <3>1, <3>2
  <2> QED BY <2>1, <2>2
<1>3. l # NoLock
    BY LoginAssumption DEF Locks
<1> QED BY <1>2, <1>3

\* The steps on lock files.
LEMMA LockStepHolds ==
    ASSUME LockInv, NEW p \in Logins,
           TryCreate(p) \/ WriteLock(p) \/ WriteLockFails(p) \/ Reclaim(p)
    PROVE  LockInv'
<1> DEFINE x == want[p]
<1>0. LoginTypes /\ x \in Paths
    BY DEF LockInv, LoginTypes
<1>1. CASE TryCreate(p)
  <2>1. CASE lock[x] = NoLock
    <3>1. /\ lock' = [lock EXCEPT ![x] = [by |-> p, written |-> FALSE, old |-> FALSE]]
          /\ loginPc' = [loginPc EXCEPT ![p] = "write"] /\ loginPc[p] = "create"
          /\ UNCHANGED <<want, held, reclaimed>>
      BY <1>1, <2>1 DEF TryCreate, GoTo, LoginAt
    <3>2. [by |-> p, written |-> FALSE, old |-> FALSE] \in Locks
      BY DEF Locks
    <3>3. LoginTypes' /\ lock'[x] # NoLock /\ lock'[x].by = p
      BY <1>0, <3>1, <3>2, LoginAssumption DEF LoginTypes, InGetToken, Locks
    <3>4. ASSUME NEW y \in Paths \ reclaimed', NEW q \in Logins, Owns(q, y)'
          PROVE  lock'[y] # NoLock /\ lock'[y].by = q
      <4>1. CASE Owns(q, y)
        <5>1. lock[y] # NoLock /\ lock[y].by = q
          BY <3>1, <3>4, <4>1 DEF LockInv
        <5> QED BY <1>0, <2>1, <3>1, <5>1 DEF LoginTypes
      <4>2. CASE ~Owns(q, y)
        <5>1. q = p /\ y = x
          BY <1>0, <3>1, <3>4, <4>2 DEF Owns, LoginTypes, InGetToken
        <5> QED BY <3>3, <5>1
      <4> QED BY <4>1, <4>2
    <3> QED BY <3>3, <3>4 DEF LockInv
  <2>2. CASE lock[x] # NoLock
    <3>1. /\ loginPc' = [loginPc EXCEPT ![p] = "check"] /\ loginPc[p] = "create"
          /\ UNCHANGED <<lock, want, held, reclaimed>>
      BY <1>1, <2>2 DEF TryCreate, GoTo, LoginAt
    <3>2. LoginTypes' /\ \A q \in Logins : \A y \in Paths : Owns(q, y)' => Owns(q, y)
      BY <1>0, <3>1 DEF LoginTypes, Owns, InGetToken
    <3> QED BY <3>1, <3>2, NoLockTaken
  <2> QED BY <2>1, <2>2
<1>2. CASE WriteLock(p)
  <2>1. /\ \/ lock' = [lock EXCEPT ![x].written = TRUE] /\ lock[x] # NoLock
           \/ lock' = lock
        /\ held' = [held EXCEPT ![p] = held[p] \cup {x}] /\ UNCHANGED <<want, reclaimed>>
        /\ loginPc' = [loginPc EXCEPT ![p] = "locked"] /\ loginPc[p] = "write"
    BY <1>2 DEF WriteLock, LockWritten, GoTo, LoginAt
  <2>2. /\ lock' \in [Paths -> Locks \cup {NoLock}]
        /\ \A y \in Paths : lock[y] # NoLock => lock'[y] # NoLock /\ lock'[y].by = lock[y].by
    BY <1>0, <2>1, HolderStays DEF LoginTypes
  <2>3. LoginTypes'
    BY <1>0, <2>1, <2>2 DEF LoginTypes, InGetToken
  <2>4. \A q \in Logins : \A y \in Paths : Owns(q, y)' => Owns(q, y)
    BY <1>0, <2>1 DEF LoginTypes, Owns, InGetToken
  <2>5. ASSUME NEW y \in Paths \ reclaimed', NEW q \in Logins, Owns(q, y)'
        PROVE  lock'[y] # NoLock /\ lock'[y].by = q
    <3>1. lock[y] # NoLock /\ lock[y].by = q
      BY <2>1, <2>4, <2>5 DEF LockInv
    <3> QED BY <2>2, <3>1
  <2> QED BY <2>3, <2>5 DEF LockInv
<1>3. CASE Reclaim(p)
  <2>1. /\ lock' = [lock EXCEPT ![x] = NoLock] /\ UNCHANGED <<want, held>>
        /\ reclaimed' = IF lock[x] = NoLock THEN reclaimed ELSE reclaimed \cup {x}
        /\ loginPc' = [loginPc EXCEPT ![p] = "create"] /\ loginPc[p] = "remove"
    BY <1>3 DEF Reclaim, GoTo, LoginAt
  <2>2. LoginTypes'
    BY <1>0, <2>1 DEF LoginTypes, InGetToken
  <2>3. \A q \in Logins : \A y \in Paths : Owns(q, y)' => Owns(q, y)
    BY <1>0, <2>1 DEF LoginTypes, Owns, InGetToken
  <2>4. ASSUME NEW y \in Paths \ reclaimed', NEW q \in Logins, Owns(q, y)'
        PROVE  lock'[y] # NoLock /\ lock'[y].by = q
    <3>1. lock[y] # NoLock /\ lock[y].by = q
      BY <2>1, <2>3, <2>4 DEF LockInv
    <3>2. y # x
      BY <2>1, <2>4, <3>1
    <3> QED BY <1>0, <2>1, <3>1, <3>2 DEF LoginTypes
  <2> QED BY <2>2, <2>4 DEF LockInv
<1>4. CASE WriteLockFails(p)
  <2>1. /\ UNCHANGED <<want, held, reclaimed>>
        /\ loginPc' = [loginPc EXCEPT ![p] = "failed"] /\ loginPc[p] = "write"
        /\ lock' \in {[lock EXCEPT ![x] = NoLock], lock, LockWritten(p)}
    BY <1>4 DEF WriteLockFails, GoTo, LoginAt
  <2>2. \A q \in Logins : \A y \in Paths : Owns(q, y)' => Owns(q, y) /\ q # p
    BY <1>0, <2>1 DEF LoginTypes, Owns, InGetToken
  <2>3. Owns(p, x)
    BY <2>1 DEF Owns, InGetToken
  <2>4. /\ lock' \in [Paths -> Locks \cup {NoLock}]
        /\ \A y \in Paths \ {x} : lock'[y] = lock[y]
    <3>1. CASE lock' = LockWritten(p)
      <4>1. CASE lock' = [lock EXCEPT ![x].written = TRUE] /\ lock[x] # NoLock
        BY <1>0, <4>1, HolderStays DEF LoginTypes
      <4>2. CASE lock' = lock
        BY <1>0, <4>2 DEF LoginTypes
      <4> QED BY <3>1, <4>1, <4>2 DEF LockWritten
    <3>2. CASE lock' = lock \/ lock' = [lock EXCEPT ![x] = NoLock]
      BY <1>0, <3>2 DEF LoginTypes
    <3> QED BY <2>1, <3>1, <3>2
  <2>5. LoginTypes'
    BY <1>0, <2>1, <2>4 DEF LoginTypes, InGetToken
  <2>6. ASSUME NEW y \in Paths \ reclaimed', NEW q \in Logins, Owns(q, y)'
        PROVE  lock'[y] # NoLock /\ lock'[y].by = q
    <3>1. lock[y] # NoLock /\ lock[y].by = q /\ q # p
      BY <2>1, <2>2, <2>6 DEF LockInv
    <3>2. y # x
      BY <2>1, <2>3, <2>6, <3>1 DEF LockInv
    <3> QED BY <2>4, <3>1, <3>2
  <2> QED BY <2>5, <2>6 DEF LockInv
<1> QED BY <1>1, <1>2, <1>3, <1>4

LEMMA LockAgesHolds ==
    ASSUME LockInv, NEW x \in Paths, LockAges(x)
    PROVE  LockInv'
<1>1. /\ lock[x] # NoLock /\ lock' = [lock EXCEPT ![x].old = TRUE]
      /\ UNCHANGED <<loginPc, want, held, reclaimed>>
    BY DEF LockAges
<1>2. /\ lock' \in [Paths -> Locks \cup {NoLock}]
      /\ \A y \in Paths : lock[y] # NoLock => lock'[y] # NoLock /\ lock'[y].by = lock[y].by
    BY <1>1, HolderStays DEF LockInv, LoginTypes
<1>3. \A y \in Paths : \A q \in Logins : Owns(q, y)' <=> Owns(q, y)
    BY <1>1 DEF Owns
<1> QED BY <1>1, <1>2, <1>3 DEF LockInv, LoginTypes

\* token.go, acquireLockFile and tryCreateLockFile: among any number of processes,
\* those that hold a lock whose file was never reclaimed are one at most, and its
\* file is theirs.
THEOREM LocksHaveOneHolder ==
    ASSUME App \in [Logins -> Paths]
    PROVE  LoginSpec => []OneHolderUnlessReclaimed
<1>1. LoginInit => LockInv
    BY DEF LoginInit, LockInv, LoginTypes, Owns, InGetToken
<1>2. LockInv /\ [LoginNext]_loginVars => LockInv'
  <2>1. SUFFICES ASSUME LockInv, [LoginNext]_loginVars PROVE LockInv'
    OBVIOUS
  <2>2. CASE UNCHANGED loginVars
    BY <2>1, <2>2 DEF loginVars, LockInv, LoginTypes, Owns
  <2>3. ASSUME NEW x \in Paths, TokenEnds(x) PROVE LockInv'
    BY <2>1, <2>3 DEF TokenEnds, LockInv, LoginTypes, Owns
  <2> QED BY <2>1, <2>2, <2>3, LoginStepHolds, LockStepHolds, LockAgesHolds DEF LoginNext
<1>3. LockInv => OneHolderUnlessReclaimed
  <2>1. SUFFICES ASSUME LockInv, NEW x \in Paths \ reclaimed
                 PROVE  /\ Cardinality({p \in Logins : Holds(p, x)}) <= 1
                        /\ \A p \in Logins : Holds(p, x) => lock[x] # NoLock /\ lock[x].by = p
    BY DEF OneHolderUnlessReclaimed
  <2>2. \A p \in Logins : Holds(p, x) => lock[x] # NoLock /\ lock[x].by = p
    BY <2>1 DEF Holds, LockInv, Owns
  <2>3. {p \in Logins : Holds(p, x)} \subseteq {lock[x].by}
    BY <2>2
  <2>4. IsFiniteSet({lock[x].by}) /\ Cardinality({lock[x].by}) = 1
    BY FS_Singleton
  <2>5. Cardinality({p \in Logins : Holds(p, x)}) <= 1
    BY <2>3, <2>4, FS_Subset
  <2> QED BY <2>2, <2>5
<1> QED BY <1>1, <1>2, <1>3, PTL DEF LoginSpec

-----------------------------------------------------------------------------
(* TunnelAdmin.  A listing is of tunnels by rank, from the oldest.           *)

PlaceOf(L, i) == Cardinality({j \in L : j <= i})

LEMMA LiveIsFinite ==
    ASSUME NEW L, L \subseteq Ids
    PROVE  IsFiniteSet(L) /\ Cardinality(L) \in Nat
<1>1. IsFiniteSet(Ids)
    BY AdminAssumption, FS_Interval DEF Ids
<1> QED BY <1>1, FS_Subset, FS_CardinalityType

LEMMA RankIsAPlace ==
    ASSUME NEW L, L \subseteq Ids, NEW i \in L
    PROVE  PlaceOf(L, i) \in 1..Cardinality(L)
<1> DEFINE B == {j \in L : j <= i}
<1>1. IsFiniteSet(L) /\ Cardinality(L) \in Nat /\ B \subseteq L
    BY LiveIsFinite
<1>2. IsFiniteSet(B) /\ Cardinality(B) <= Cardinality(L) /\ Cardinality(B) \in Nat
    BY <1>1, FS_Subset, FS_CardinalityType
<1>3. i \in B
    BY AdminAssumption DEF Ids
<1>4. Cardinality(B) # 0
    BY <1>2, <1>3, FS_EmptySet
<1> HIDE DEF B
<1>5. Cardinality(B) \in 1..Cardinality(L)
    BY <1>1, <1>2, <1>4
<1> QED BY <1>5 DEF PlaceOf, B

LEMMA RankGrows ==
    ASSUME NEW L, L \subseteq Ids, NEW i \in L, NEW j \in L, i < j
    PROVE  PlaceOf(L, i) < PlaceOf(L, j)
<1> DEFINE A == {k \in L : k <= i}
           B == {k \in L : k <= j}
<1>0. \A k \in L : k \in Nat
    BY AdminAssumption DEF Ids
<1>8. ASSUME NEW k \in L, k <= i PROVE k <= j
    <2>1. i \in Nat /\ j \in Nat /\ k \in Nat
        BY <1>0
    <2> QED BY <1>8, <2>1
<1>9. j <= j /\ ~(j <= i)
    BY <1>0
<1>1. A \subseteq B /\ B \subseteq L /\ j \in B /\ j \notin A
    BY <1>8, <1>9
<1>2. IsFiniteSet(B) /\ IsFiniteSet(A)
    BY <1>1, LiveIsFinite, FS_Subset
<1> HIDE DEF A, B
<1>3. Cardinality(A) <= Cardinality(B) /\ Cardinality(A) # Cardinality(B)
    BY <1>1, <1>2, FS_Subset
<1>4. Cardinality(A) \in Nat /\ Cardinality(B) \in Nat
    BY <1>2, FS_CardinalityType
<1>5. Cardinality(A) < Cardinality(B)
    BY <1>3, <1>4
<1> QED BY <1>5 DEF PlaceOf, A, B

LEMMA RankIsUnique ==
    ASSUME NEW L, L \subseteq Ids, NEW i \in L, NEW j \in L, PlaceOf(L, i) = PlaceOf(L, j)
    PROVE  i = j
<1>1. i \in Nat /\ j \in Nat
    BY AdminAssumption DEF Ids
<1>2. PlaceOf(L, i) \in Nat
    BY RankIsAPlace, LiveIsFinite
<1>3. ~(i < j) /\ ~(j < i)
    BY <1>2, RankGrows
<1> QED BY <1>1, <1>3

LEMMA PlacesAreTaken ==
    ASSUME NEW L, L \subseteq Ids, NEW k \in 1..Cardinality(L)
    PROVE  \E i \in L : PlaceOf(L, i) = k
<1> DEFINE f == [i \in L |-> PlaceOf(L, i)]
           n == Cardinality(L)
<1>1. n \in Nat /\ IsFiniteSet(1..n) /\ Cardinality(1..n) = n
    <2>1. n \in Nat
        BY LiveIsFinite
    <2>2. Cardinality(1..n) = IF 1 > n THEN 0 ELSE n - 1 + 1
        BY <2>1, FS_Interval
    <2> QED BY <2>1, <2>2, FS_Interval
<1>2. f \in Injection(L, 1..n)
    BY RankIsAPlace, RankIsUnique DEF Injection, IsInjective
<1> HIDE DEF f
<1>3. f \in Surjection(L, 1..n)
    BY <1>1, <1>2, FS_Injection
<1> QED BY <1>3 DEF Surjection, f

\* a tunnel that is created comes last
LEMMA NewestIsLast ==
    ASSUME NEW L, L \subseteq Ids, NEW n \in Ids, \A j \in L : j < n
    PROVE  /\ Cardinality(L \cup {n}) = Cardinality(L) + 1
           /\ PlaceOf(L \cup {n}, n) = Cardinality(L) + 1
           /\ \A i \in L : PlaceOf(L \cup {n}, i) = PlaceOf(L, i)
<1>1. n \in Nat /\ \A j \in L : j \in Nat
    BY AdminAssumption DEF Ids
<1>2. n \notin L
    BY <1>1
<1>3. Cardinality(L \cup {n}) = Cardinality(L) + 1
    BY <1>2, LiveIsFinite, FS_AddElement
<1>4. {j \in L \cup {n} : j <= n} = L \cup {n}
    <2>1. n <= n
        BY <1>1
    <2>2. \A j \in L : j <= n
        BY <1>1
    <2> QED BY <2>1, <2>2
<1>5. ASSUME NEW i \in L
      PROVE  {j \in L \cup {n} : j <= i} = {j \in L : j <= i}
    BY <1>1, <1>5
<1> QED BY <1>3, <1>4, <1>5 DEF PlaceOf

-----------------------------------------------------------------------------
\* what has been listed so far is the oldest tunnels
Gets(L, got) ==
    \A i \in L : PlaceOf(L, i) <= Len(got) => \E k \in DOMAIN got : got[k] = i

LEMMA LiveAreIds == Live \subseteq Ids
  BY DEF Live

LEMMA ListedByRank ==
    /\ Listed \in Seq(Ids) /\ Len(Listed) = Cardinality(Live)
    /\ \A i \in Live : Listed[PlaceOf(Live, i)] = i
<1> DEFINE n == Cardinality(Live)
<1>1. n \in Nat
    BY LiveAreIds, LiveIsFinite
<1>2. Listed = [k \in 1..n |-> CHOOSE i \in Live : PlaceOf(Live, i) = k]
    BY DEF Listed, PlaceOf
<1>3. ASSUME NEW k \in 1..n
      PROVE  Listed[k] \in Live /\ PlaceOf(Live, Listed[k]) = k
    <2>1. \E i \in Live : PlaceOf(Live, i) = k
        BY LiveAreIds, PlacesAreTaken
    <2>2. Listed[k] = CHOOSE i \in Live : PlaceOf(Live, i) = k
        BY <1>2
    <2> QED BY <2>1, <2>2
<1>4. DOMAIN Listed = 1..n
    BY <1>2
<1>5. Listed \in [1..n -> Ids]
    BY <1>2, <1>3, <1>4, LiveAreIds
<1> HIDE DEF n
<1>6. Listed \in Seq(Ids) /\ Len(Listed) = n
    BY <1>1, <1>4, <1>5
<1>7. ASSUME NEW i \in Live PROVE Listed[PlaceOf(Live, i)] = i
    <2>1. PlaceOf(Live, i) \in 1..n
        BY LiveAreIds, RankIsAPlace DEF n
    <2> QED BY <1>3, <2>1, LiveAreIds, RankIsUnique
<1> QED BY <1>6, <1>7 DEF n

LEMMA Piece ==
    ASSUME NEW S, NEW s \in Seq(S), NEW a \in Nat, NEW b \in Nat, a <= b, b <= Len(s)
    PROVE  /\ SubSeq(s, a + 1, b) \in Seq(S) /\ Len(SubSeq(s, a + 1, b)) = b - a
           /\ \A j \in 1..(b - a) : SubSeq(s, a + 1, b)[j] = s[a + j]
  OBVIOUS

LEMMA Appended ==
    ASSUME NEW S, NEW s \in Seq(S), NEW t \in Seq(S)
    PROVE  /\ s \o t \in Seq(S) /\ Len(s \o t) = Len(s) + Len(t)
           /\ \A j \in 1..Len(s) : (s \o t)[j] = s[j]
           /\ \A j \in 1..Len(t) : (s \o t)[Len(s) + j] = t[j]
  OBVIOUS

LEMMA NextPage ==
    ASSUME NEW k \in Nat \ {0}
    PROVE  (k - 1) * PerPage \in Nat /\ k * PerPage = (k - 1) * PerPage + PerPage
<1>1. PerPage \in Nat
    BY AdminAssumption
<1>2. PICK j \in Nat : k = j + 1
    <2>1. k - 1 \in Nat /\ k = (k - 1) + 1
        OBVIOUS
    <2> QED BY <2>1
<1> QED BY <1>1

LEMMA PageAdds ==
    ASSUME NEW k \in Nat \ {0}, NEW got \in Seq(Ids),
           Len(got) = (k - 1) * PerPage, Len(got) <= Cardinality(Live), Gets(Live, got)
    PROVE  LET all == got \o PageOf(k)
           IN  /\ all \in Seq(Ids) /\ Gets(Live, all)
               /\ IF LastPage(Len(PageOf(k)), Len(all))
                    THEN Len(all) = Cardinality(Live)
                    ELSE Len(all) = k * PerPage /\ Len(all) <= Cardinality(Live)
<1> DEFINE all == got \o PageOf(k)
           N == Cardinality(Live)
           a == Len(got)
           b == IF k * PerPage < N THEN k * PerPage ELSE N
<1>1. /\ Listed \in Seq(Ids) /\ Len(Listed) = N /\ N \in Nat
      /\ \A i \in Live : Listed[PlaceOf(Live, i)] = i
    BY ListedByRank, LiveAreIds, LiveIsFinite
<1>2. a \in Nat /\ PerPage \in Nat \ {0} /\ k * PerPage = a + PerPage
    BY NextPage, AdminAssumption
<1>3. b \in Nat /\ a <= b /\ b <= N
    BY <1>1, <1>2
<1>4. PageOf(k) = SubSeq(Listed, a + 1, b)
    BY <1>1 DEF PageOf
<1> HIDE DEF N, b
<1>5. /\ PageOf(k) \in Seq(Ids) /\ Len(PageOf(k)) = b - a
      /\ \A j \in 1..(b - a) : PageOf(k)[j] = Listed[a + j]
    BY <1>1, <1>2, <1>3, <1>4, Piece
<1>6. /\ all \in Seq(Ids) /\ Len(all) = a + (b - a)
      /\ \A j \in 1..a : all[j] = got[j]
      /\ \A j \in 1..(b - a) : all[a + j] = PageOf(k)[j]
    <2>1. PICK g \in Seq(Ids) : g = PageOf(k)
        BY <1>5
    <2>2. got \o g \in Seq(Ids) /\ Len(got \o g) = Len(got) + Len(g)
        BY Appended
    <2>3. \A j \in 1..Len(got) : (got \o g)[j] = got[j]
        BY Appended
    <2>4. \A j \in 1..Len(g) : (got \o g)[Len(got) + j] = g[j]
        BY Appended
    <2>5. Len(g) = b - a /\ all = got \o g
        BY <1>5, <2>1
    <2> HIDE DEF all
    <2> QED BY <2>1, <2>2, <2>3, <2>4, <2>5
<1>7. Len(all) = b /\ DOMAIN all = 1..b
    BY <1>2, <1>3, <1>6
<1>8. ASSUME NEW i \in Live, PlaceOf(Live, i) <= b
      PROVE  \E j \in DOMAIN all : all[j] = i
    <2>1. PlaceOf(Live, i) \in 1..N
        BY LiveAreIds, RankIsAPlace DEF N
    <2>2. CASE PlaceOf(Live, i) <= a
        <3>1. PICK j \in DOMAIN got : got[j] = i
            BY <2>2 DEF Gets
        <3>2. j \in 1..a /\ j \in 1..b
            BY <1>2, <1>3
        <3> QED BY <1>6, <1>7, <3>1, <3>2
    <2>3. CASE ~(PlaceOf(Live, i) <= a)
        <3> DEFINE r == PlaceOf(Live, i)
        <3>1. PICK j \in Int : j = r - a
            BY <1>2, <2>1, <1>1
        <3>2. j \in 1..(b - a) /\ r = a + j /\ r \in 1..b
            BY <1>1, <1>2, <1>3, <1>8, <2>1, <2>3, <3>1
        <3>3. all[r] = Listed[r]
            BY <1>5, <1>6, <3>2
        <3> QED BY <1>1, <1>7, <3>2, <3>3
    <2> QED BY <2>2, <2>3
<1>9. Gets(Live, all)
    BY <1>7, <1>8 DEF Gets
<1>10. LastPage(Len(PageOf(k)), Len(all)) => Len(all) = N
    BY <1>1, <1>2, <1>3, <1>5, <1>7 DEF LastPage, b
<1>11. ~LastPage(Len(PageOf(k)), Len(all)) => Len(all) = k * PerPage /\ Len(all) <= N
    BY <1>1, <1>2, <1>3, <1>5, <1>7 DEF LastPage, b
<1> QED BY <1>6, <1>9, <1>10, <1>11 DEF N

-----------------------------------------------------------------------------
(* Two commands do not delete one tunnel.  A listing that met no deletion has
   the oldest tunnels.                                                       *)

LiveIn(t) == {i \in Ids : t[i].state = "live"}

PlainOK(c, t) ==
    /\ c \in [op : {"create", "token", "delete", "run"},
              at : {"stat", "write", "rollback", "delete", "file", ""},
              id : Ids, path : CredPaths]
    /\ c.path \in {c.id, Chosen}
    /\ c.op = "create" => t[c.id].state # "none"
    /\ c.at \in {"delete", "file"} => c.op = "delete"
    /\ c.op = "delete" => c.at \in {"delete", "file"}
    /\ c.op = "run" => c.at = ""
    /\ c.at = "file" => t[c.id].state = "deleted"

ListOK(c, L) ==
    /\ c = [op |-> "list", at |-> c.at, page |-> c.page, got |-> c.got,
            since |-> c.since, shrunk |-> c.shrunk]
    /\ c.at \in {"page", "shown"} /\ c.shrunk \in BOOLEAN
    /\ ~c.shrunk /\ c.at = "page" =>
         /\ c.got \in Seq(Ids) /\ c.page \in Nat \ {0}
         /\ Len(c.got) = (c.page - 1) * PerPage /\ Len(c.got) <= Cardinality(L)
         /\ c.since \subseteq L /\ Gets(L, c.got)
    /\ ~c.shrunk /\ c.at = "shown" =>
         \A i \in c.since : \E k \in DOMAIN c.got : c.got[k] = i

CmdOK(c, t) == c = Idle \/ PlainOK(c, t) \/ ListOK(c, LiveIn(t))

TunnelTypes(t) ==
    t \in [Ids -> [state : {"none", "live", "deleted"}, name : TunnelNames, conns : Nat]]
FileTypes(f) ==
    /\ f \in [CredPaths -> [id : Ids, whole : BOOLEAN] \cup {Missing}]
    /\ \A x \in Ids : f[x] # Missing => f[x].id = x
\* identifiers are given out in order
InTurn(t) == \A i, j \in Ids : t[i].state = "none" /\ i < j => t[j].state = "none"
MadeOK(t, m) ==
    /\ m \in [Ids -> CredPaths \cup {Missing}]
    /\ \A i \in Ids : /\ m[i] \in {i, Chosen, Missing}
                      /\ t[i].state = "none" => m[i] = Missing
Removing(c) == c.op = "delete" /\ c.at = "file"

AdminInv ==
    /\ TunnelTypes(tunnel) /\ InTurn(tunnel)
    /\ FileTypes(adminFile)
    /\ MadeOK(tunnel, made)
    /\ adminCmd = [p \in TunnelAdmins |-> adminCmd[p]]
    /\ \A p \in TunnelAdmins : CmdOK(adminCmd[p], tunnel)
    /\ \A p, q \in TunnelAdmins :
         p # q /\ Removing(adminCmd[p]) /\ Removing(adminCmd[q]) => adminCmd[p].id # adminCmd[q].id

LEMMA IdleIsNone ==
    ASSUME NEW c, NEW t, CmdOK(c, t)
    PROVE  /\ c.op \in {"create", "token", "delete", "run"} => PlainOK(c, t)
           /\ c.op = "list" => ListOK(c, LiveIn(t))
           /\ c.at \in {"stat", "write"} => PlainOK(c, t) /\ c.op \in {"create", "token"}
<1>1. CASE c = Idle
    BY <1>1 DEF Idle
<1>2. CASE PlainOK(c, t)
    <2>1. c.op \in {"create", "token", "delete", "run"}
        BY <1>2 DEF PlainOK
    <2>2. c.at \in {"stat", "write"} => c.op \in {"create", "token"}
        BY <1>2, <2>1 DEF PlainOK
    <2> QED BY <1>2, <2>1, <2>2
<1>3. CASE ListOK(c, LiveIn(t))
    <2>1. c.op = "list" /\ c.at \in {"page", "shown"}
        BY <1>3 DEF ListOK
    <2> QED BY <1>3, <2>1
<1> QED BY <1>1, <1>2, <1>3 DEF CmdOK

LEMMA PlainMoves ==
    ASSUME NEW c, NEW t, PlainOK(c, t), NEW v
    PROVE  [c EXCEPT !.at = v] = [op |-> c.op, at |-> v, id |-> c.id, path |-> c.path]
<1>1. PICK A, B, C, D : c \in [op : A, at : B, id : C, path : D]
    BY DEF PlainOK
<1> QED BY <1>1

\* the command of one process changes and nothing else
LEMMA CommandMoves ==
    ASSUME AdminInv, NEW p \in TunnelAdmins, NEW c, Becomes(p, c),
           UNCHANGED <<tunnel, adminFile, made>>,
           CmdOK(c, tunnel), ~Removing(c)
    PROVE  AdminInv'
<1>1. /\ tunnel' = tunnel /\ adminFile' = adminFile /\ made' = made
      /\ adminCmd' = [q \in TunnelAdmins |-> IF q = p THEN c ELSE adminCmd[q]]
    BY DEF AdminInv, Becomes
<1>2. \A q \in TunnelAdmins : adminCmd'[q] = IF q = p THEN c ELSE adminCmd[q]
    BY <1>1
<1>3. adminCmd' = [q \in TunnelAdmins |-> adminCmd'[q]]
    BY <1>1
<1>4. \A q \in TunnelAdmins : CmdOK(adminCmd'[q], tunnel)
    BY <1>2 DEF AdminInv
<1>5. \A q, r \in TunnelAdmins :
        q # r /\ Removing(adminCmd'[q]) /\ Removing(adminCmd'[r]) => adminCmd'[q].id # adminCmd'[r].id
    BY <1>2 DEF AdminInv
<1> QED BY <1>1, <1>3, <1>4, <1>5 DEF AdminInv

LEMMA GivenUpHolds ==
    ASSUME AdminInv, NEW p \in TunnelAdmins, adminCmd[p].at \in {"stat", "write"},
           WriteGivenUp(p), UNCHANGED <<tunnel, adminFile, made>>
    PROVE  AdminInv'
<1> DEFINE c == adminCmd[p]
           d == [adminCmd[p] EXCEPT !.at = "rollback"]
<1>1. PlainOK(c, tunnel)
    BY IdleIsNone DEF AdminInv
<1>2. CASE c.op = "create"
    <2>1. d = [op |-> "create", at |-> "rollback", id |-> c.id, path |-> c.path]
        BY <1>1, <1>2, PlainMoves
    <2>2. PlainOK(d, tunnel) /\ ~Removing(d)
        BY <1>1, <1>2, <2>1 DEF PlainOK, Removing
    <2>3. Becomes(p, d)
        BY <1>2 DEF WriteGivenUp, Moves
    <2> QED BY <2>2, <2>3, CommandMoves DEF CmdOK
<1>3. CASE c.op # "create"
    <2>1. Becomes(p, Idle)
        BY <1>3 DEF WriteGivenUp
    <2> QED BY <2>1, CommandMoves DEF CmdOK, Removing, Idle
<1> QED BY <1>2, <1>3

LEMMA StatHolds ==
    ASSUME AdminInv, NEW p \in TunnelAdmins, StatFile(p)
    PROVE  AdminInv'
<1> DEFINE c == adminCmd[p]
           d == [adminCmd[p] EXCEPT !.at = "write"]
<1>1. CASE adminFile[c.path] = Missing
    <2>1. PlainOK(c, tunnel) /\ c.op \in {"create", "token"}
        BY IdleIsNone DEF AdminInv, StatFile
    <2>2. d = [op |-> c.op, at |-> "write", id |-> c.id, path |-> c.path]
        BY <2>1, PlainMoves
    <2>3. PlainOK(d, tunnel) /\ ~Removing(d)
        BY <2>1, <2>2 DEF PlainOK, Removing
    <2>4. Becomes(p, d)
        BY <1>1 DEF StatFile, Moves
    <2> QED BY <2>3, <2>4, CommandMoves DEF CmdOK, StatFile
<1>2. CASE adminFile[c.path] # Missing
    BY <1>2, GivenUpHolds DEF StatFile
<1> QED BY <1>1, <1>2

-----------------------------------------------------------------------------
\* what a change of the account means for the commands that go on

LEMMA SameStates ==
    ASSUME NEW t, NEW u, NEW c, CmdOK(c, t),
           \A i \in Ids : u[i].state = t[i].state
    PROVE  CmdOK(c, u)
<1>1. LiveIn(u) = LiveIn(t)
    BY DEF LiveIn
<1>2. PlainOK(c, t) => PlainOK(c, u)
    BY DEF PlainOK
<1> QED BY <1>1, <1>2 DEF CmdOK

LEMMA TunnelComes ==
    ASSUME NEW t, NEW u, NEW c, CmdOK(c, t), InTurn(t),
           NEW n \in Ids, t[n].state = "none", u[n].state = "live",
           \A j \in Ids \ {n} : u[j].state = t[j].state
    PROVE  CmdOK(c, u)
<1> DEFINE L == LiveIn(t)
           K == LiveIn(u)
<1>1. K = L \cup {n} /\ L \subseteq Ids /\ n \notin L
    BY DEF LiveIn
<1>2. \A j \in L : j < n
    <2>1. SUFFICES ASSUME NEW j \in L PROVE j < n
        OBVIOUS
    <2>2. j \in Nat /\ n \in Nat /\ j # n
        BY <1>1, AdminAssumption DEF Ids
    <2>3. ~(n < j)
        BY <1>1 DEF InTurn, LiveIn
    <2> QED BY <2>2, <2>3
<1>3. CASE c = Idle
    BY <1>3 DEF CmdOK
<1>4. CASE PlainOK(c, t)
    <2>1. u[c.id].state = "none" => t[c.id].state = "none"
        BY <1>4 DEF PlainOK
    <2>2. u[c.id].state = "deleted" <=> t[c.id].state = "deleted"
        BY <1>4 DEF PlainOK
    <2>3. PlainOK(c, u)
        BY <1>4, <2>1, <2>2 DEF PlainOK
    <2> QED BY <2>3 DEF CmdOK
<1>5. CASE ListOK(c, L)
    <2>1. CASE ~c.shrunk /\ c.at = "page"
        <3>1. /\ c.got \in Seq(Ids) /\ Len(c.got) <= Cardinality(L)
              /\ c.since \subseteq L /\ Gets(L, c.got)
            BY <1>5, <2>1 DEF ListOK
        <3> HIDE DEF K, L
        <3>2. Cardinality(L) \in Nat /\ Len(c.got) \in Nat
            BY <1>1, <3>1, LiveIsFinite
        <3>3. /\ Cardinality(K) = Cardinality(L) + 1
              /\ PlaceOf(K, n) = Cardinality(L) + 1
            BY <1>1, <1>2, NewestIsLast
        <3>4. \A i \in L : PlaceOf(K, i) = PlaceOf(L, i)
            BY <1>1, <1>2, NewestIsLast
        <3>5. Gets(K, c.got)
            <4>1. ~(PlaceOf(K, n) <= Len(c.got))
                BY <3>1, <3>2, <3>3
            <4>2. \A i \in L : PlaceOf(K, i) <= Len(c.got) => \E k \in DOMAIN c.got : c.got[k] = i
                BY <3>1, <3>4 DEF Gets
            <4> QED BY <1>1, <4>1, <4>2 DEF Gets
        <3>6. Len(c.got) <= Cardinality(K) /\ c.since \subseteq K
            BY <1>1, <3>1, <3>2, <3>3
        <3>7. ListOK(c, K)
            BY <1>5, <2>1, <3>1, <3>5, <3>6 DEF ListOK
        <3> QED BY <3>7 DEF CmdOK, K
    <2>2. CASE ~(~c.shrunk /\ c.at = "page")
        <3>1. ListOK(c, K)
            BY <1>5, <2>2 DEF ListOK
        <3> QED BY <3>1 DEF CmdOK
    <2> QED BY <2>1, <2>2
<1> QED BY <1>3, <1>4, <1>5 DEF CmdOK

\* the form of a command once it has learnt of a deletion
Learns(c, i) == IF Listing(c) THEN [c EXCEPT !.since = @ \ {i}, !.shrunk = TRUE] ELSE c

LEMMA TunnelGoes ==
    ASSUME NEW t, NEW u, NEW c, CmdOK(c, t),
           NEW n \in Ids, u[n].state = "deleted",
           \A j \in Ids \ {n} : u[j].state = t[j].state
    PROVE  /\ CmdOK(Learns(c, n), u)
           /\ Removing(Learns(c, n)) => Removing(c) /\ Learns(c, n) = c
<1>1. CASE c = Idle
    <2>1. ~Listing(c)
        BY <1>1 DEF Listing, Idle
    <2> QED BY <1>1, <2>1 DEF Learns, CmdOK
<1>2. CASE PlainOK(c, t)
    <2>1. ~Listing(c)
        BY <1>2 DEF Listing, PlainOK
    <2>2. u[c.id].state = t[c.id].state \/ u[c.id].state = "deleted"
        BY <1>2 DEF PlainOK
    <2>3. PlainOK(c, u)
        BY <1>2, <2>2 DEF PlainOK
    <2> QED BY <2>1, <2>3 DEF Learns, CmdOK
<1>3. CASE ListOK(c, LiveIn(t))
    <2> DEFINE d == Learns(c, n)
    <2>1. CASE Listing(c)
        <3>0. PICK page, got, since, shrunk :
                c = [op |-> "list", at |-> "page", page |-> page, got |-> got,
                     since |-> since, shrunk |-> shrunk]
            BY <1>3, <2>1 DEF ListOK, Listing
        <3>1. d = [op |-> "list", at |-> "page", page |-> page, got |-> got,
                   since |-> since \ {n}, shrunk |-> TRUE]
            BY <2>1, <3>0 DEF Learns
        <3>2. ListOK(d, LiveIn(u)) /\ ~Removing(d)
            BY <3>1 DEF ListOK, Removing
        <3> QED BY <3>2 DEF CmdOK
    <2>2. CASE ~Listing(c)
        <3>1. c.at = "shown" /\ d = c
            BY <1>3, <2>2 DEF ListOK, Listing, Learns
        <3>2. ListOK(c, LiveIn(u))
            BY <1>3, <3>1 DEF ListOK
        <3> QED BY <3>1, <3>2 DEF CmdOK
    <2> QED BY <2>1, <2>2
<1> QED BY <1>1, <1>2, <1>3 DEF CmdOK

-----------------------------------------------------------------------------
\* the tunnel that create is given is the first of those that were never used
LEMMA FirstUnused ==
    ASSUME NEW t, NEW k \in Ids, t[k].state = "none"
    PROVE  \E i \in Ids : t[i].state = "none" /\ \A j \in Ids : t[j].state = "none" => i <= j
<1> DEFINE T == {i \in Ids : t[i].state = "none"}
           R == OpToRel(<, Nat)
<1>1. T \subseteq Nat /\ k \in T
    BY AdminAssumption DEF Ids
<1>2. IsWellFoundedOn(R, Nat)
    BY NatLessThanWellFounded
<1> HIDE DEF R
<1>3. PICK i \in T : \A j \in T : ~(<<j, i>> \in R)
    BY <1>1, <1>2, WFMin
<1>4. ASSUME NEW j \in T PROVE i <= j
    <2>1. i \in Nat /\ j \in Nat
        BY <1>1
    <2>2. j < i => <<j, i>> \in R
        BY <2>1 DEF R, OpToRel
    <2> QED BY <1>3, <2>1, <2>2
<1> QED BY <1>3, <1>4

LEMMA CreateTunnelHolds ==
    ASSUME AdminInv, NEW p \in TunnelAdmins, CreateTunnel(p)
    PROVE  AdminInv'
<1>1. PICK n \in TunnelNames, x \in {"own", Chosen}, answered \in BOOLEAN :
        LET i == CHOOSE k \in Ids : tunnel[k].state = "none"
                     /\ \A j \in Ids : tunnel[j].state = "none" => k <= j
        IN  /\ \E k \in Ids : tunnel[k].state = "none"
            /\ tunnel' = [tunnel EXCEPT ![i] = [state |-> "live", name |-> n, conns |-> 0]]
            /\ Becomes(p, IF answered
                            THEN [op |-> "create", at |-> "stat", id |-> i,
                                  path |-> IF x = "own" THEN i ELSE x]
                            ELSE Idle)
    BY DEF CreateTunnel
<1> DEFINE Unused(k) == /\ tunnel[k].state = "none"
                        /\ \A j \in Ids : tunnel[j].state = "none" => k <= j
<1>2. PICK i \in Ids : i = CHOOSE k \in Ids : Unused(k)
    <2>1. \E k \in Ids : Unused(k)
        BY <1>1, FirstUnused
    <2> QED BY <2>1
<1>3. Unused(i)
    <2>1. \E k \in Ids : Unused(k)
        BY <1>1, FirstUnused
    <2> QED BY <1>2, <2>1
<1> DEFINE c == IF answered THEN [op |-> "create", at |-> "stat", id |-> i,
                                  path |-> IF x = "own" THEN i ELSE x]
                            ELSE Idle
<1>4. tunnel' = [tunnel EXCEPT ![i] = [state |-> "live", name |-> n, conns |-> 0]] /\ Becomes(p, c)
    BY <1>1, <1>2
<1>5. adminFile' = adminFile /\ made' = made
    BY DEF CreateTunnel
<1>6. TunnelTypes(tunnel) /\ InTurn(tunnel) /\ i \in Nat
    BY AdminAssumption DEF AdminInv, Ids
<1>7. /\ tunnel'[i].state = "live" /\ TunnelTypes(tunnel')
      /\ \A j \in Ids \ {i} : tunnel'[j] = tunnel[j]
    BY <1>4, <1>6 DEF TunnelTypes
<1>8. InTurn(tunnel')
    <2>1. ASSUME NEW j \in Ids, NEW k \in Ids, tunnel'[j].state = "none", j < k
          PROVE  tunnel'[k].state = "none"
        <3>1. j # i /\ tunnel[j].state = "none"
            BY <1>7, <2>1
        <3>2. i <= j /\ j \in Nat /\ k \in Nat
            BY <1>3, <3>1, AdminAssumption DEF Ids
        <3>3. k # i
            BY <1>6, <2>1, <3>2
        <3> QED BY <1>6, <1>7, <2>1, <3>1, <3>3 DEF InTurn
    <2> QED BY <2>1 DEF InTurn
<1>9. made[i] = Missing /\ MadeOK(tunnel', made)
    BY <1>3, <1>7 DEF AdminInv, MadeOK
<1>11. CmdOK(c, tunnel') /\ ~Removing(c)
    <2>1. CASE answered
        <3>1. PICK y \in CredPaths : y \in {i, Chosen} /\ y = IF x = "own" THEN i ELSE x
            BY DEF CredPaths
        <3>2. c = [op |-> "create", at |-> "stat", id |-> i, path |-> y]
            BY <2>1, <3>1
        <3> HIDE DEF c
        <3>3. PlainOK(c, tunnel')
            BY <1>7, <3>1, <3>2 DEF PlainOK
        <3> QED BY <3>2, <3>3 DEF CmdOK, Removing
    <2>2. CASE ~answered
        BY <2>2 DEF CmdOK, Removing, Idle
    <2> QED BY <2>1, <2>2
<1> HIDE DEF c
<1>12. adminCmd' = [q \in TunnelAdmins |-> IF q = p THEN c ELSE adminCmd[q]]
    BY <1>4 DEF AdminInv, Becomes
<1>13. ASSUME NEW q \in TunnelAdmins PROVE CmdOK(adminCmd'[q], tunnel')
    <2>1. CmdOK(adminCmd[q], tunnel)
        BY DEF AdminInv
    <2>2. CmdOK(adminCmd[q], tunnel')
        BY <1>3, <1>6, <1>7, <2>1, TunnelComes
    <2> QED BY <1>11, <1>12, <2>2
<1>14. \A q, r \in TunnelAdmins :
         q # r /\ Removing(adminCmd'[q]) /\ Removing(adminCmd'[r]) => adminCmd'[q].id # adminCmd'[r].id
    BY <1>11, <1>12 DEF AdminInv
<1>15. adminCmd' = [q \in TunnelAdmins |-> adminCmd'[q]]
    BY <1>12
<1> QED BY <1>5, <1>7, <1>8, <1>9, <1>13, <1>14, <1>15 DEF AdminInv

-----------------------------------------------------------------------------
AccountInv == /\ TunnelTypes(tunnel) /\ InTurn(tunnel) /\ FileTypes(adminFile)
              /\ MadeOK(tunnel, made)

LEMMA CommandFollows ==
    ASSUME AdminInv, AccountInv', NEW p \in TunnelAdmins, NEW c, Becomes(p, c),
           CmdOK(c, tunnel'), ~Removing(c),
           \A q \in TunnelAdmins \ {p} : CmdOK(adminCmd[q], tunnel')
    PROVE  AdminInv'
<1>1. adminCmd' = [q \in TunnelAdmins |-> IF q = p THEN c ELSE adminCmd[q]]
    BY DEF AdminInv, Becomes
<1>2. \A q \in TunnelAdmins : adminCmd'[q] = IF q = p THEN c ELSE adminCmd[q]
    BY <1>1
<1>3. adminCmd' = [q \in TunnelAdmins |-> adminCmd'[q]]
    BY <1>1
<1>4. \A q \in TunnelAdmins : CmdOK(adminCmd'[q], tunnel')
    BY <1>2
<1>5. \A q, r \in TunnelAdmins :
        q # r /\ Removing(adminCmd'[q]) /\ Removing(adminCmd'[r]) => adminCmd'[q].id # adminCmd'[r].id
    BY <1>2 DEF AdminInv
<1> QED BY <1>3, <1>4, <1>5 DEF AdminInv, AccountInv

LEMMA NoneCommand ==
    ASSUME NEW t
    PROVE  CmdOK(Idle, t) /\ ~Removing(Idle)
  BY DEF CmdOK, Removing, Idle

\* a file is written, in whole or in part
LEMMA FileIsWritten ==
    ASSUME AdminInv, NEW p \in TunnelAdmins, adminCmd[p].at = "write",
           NEW w \in BOOLEAN, Written(p, w)
    PROVE  /\ FileTypes(adminFile')
           /\ adminFile'[adminCmd[p].path] = [id |-> adminCmd[p].id, whole |-> w]
           /\ \A y \in CredPaths \ {adminCmd[p].path} : adminFile'[y] = adminFile[y]
<1> DEFINE c == adminCmd[p]
           r == [id |-> c.id, whole |-> w]
<1>1. PlainOK(c, tunnel)
    BY IdleIsNone DEF AdminInv
<1>2. c.path \in CredPaths /\ c.id \in Ids /\ c.path \in {c.id, Chosen}
    BY <1>1 DEF PlainOK
<1>3. adminFile' = [adminFile EXCEPT ![c.path] = r]
    BY DEF Written
<1>4. FileTypes(adminFile)
    BY DEF AdminInv
<1>5. adminFile'[c.path] = r /\ \A y \in CredPaths \ {c.path} : adminFile'[y] = adminFile[y]
    BY <1>2, <1>3, <1>4 DEF FileTypes
<1>6. adminFile' \in [CredPaths -> [id : Ids, whole : BOOLEAN] \cup {Missing}]
    BY <1>2, <1>3, <1>4 DEF FileTypes
<1>7. \A x \in Ids : adminFile'[x] # Missing => adminFile'[x].id = x
    BY <1>2, <1>4, <1>5, AdminAssumption DEF FileTypes, CredPaths
<1> QED BY <1>5, <1>6, <1>7 DEF FileTypes

LEMMA WriteCredentialsHolds ==
    ASSUME AdminInv, NEW p \in TunnelAdmins, WriteCredentials(p)
    PROVE  AdminInv'
<1> DEFINE c == adminCmd[p]
<1>1. c.at = "write" /\ tunnel' = tunnel
    BY DEF WriteCredentials
<1>2. PlainOK(c, tunnel)
    BY <1>1, IdleIsNone DEF AdminInv
<1>3. /\ c.path \in CredPaths /\ c.id \in Ids /\ c.path \in {c.id, Chosen}
      /\ c.op = "create" => tunnel[c.id].state # "none"
    BY <1>2 DEF PlainOK
<1>4. TunnelTypes(tunnel) /\ InTurn(tunnel) /\ MadeOK(tunnel, made)
    BY DEF AdminInv
<1>5. CASE Written(p, TRUE) /\ Reports(p) /\ Becomes(p, Idle)
    <2>1. FileTypes(adminFile') /\ \A q \in TunnelAdmins : CmdOK(adminCmd[q], tunnel)
        BY <1>1, <1>5, FileIsWritten DEF AdminInv
    <2>2. MadeOK(tunnel, made')
        <3>1. CASE c.op = "create"
            <4>1. made' = [made EXCEPT ![c.id] = c.path]
                BY <1>5, <3>1 DEF Reports
            <4>2. made'[c.id] = c.path /\ \A i \in Ids \ {c.id} : made'[i] = made[i]
                BY <1>3, <1>4, <4>1 DEF MadeOK
            <4>3. made' \in [Ids -> CredPaths \cup {Missing}]
                BY <1>3, <1>4, <4>1 DEF MadeOK
            <4> QED BY <1>3, <1>4, <3>1, <4>2, <4>3 DEF MadeOK
        <3>2. CASE c.op # "create"
            <4>1. made' = made
                BY <1>5, <3>2 DEF Reports
            <4> QED BY <1>4, <2>1, <4>1
        <3> QED BY <3>1, <3>2
    <2>3. AccountInv'
        BY <1>1, <1>4, <2>1, <2>2 DEF AccountInv
    <2> QED BY <1>1, <1>5, <2>1, <2>3, NoneCommand, CommandFollows
<1>6. CASE Written(p, FALSE) /\ WriteGivenUp(p) /\ UNCHANGED made
    <2>1. FileTypes(adminFile') /\ \A q \in TunnelAdmins : CmdOK(adminCmd[q], tunnel)
        BY <1>1, <1>6, FileIsWritten DEF AdminInv
    <2>2. AccountInv'
        BY <1>1, <1>4, <1>6, <2>1 DEF AccountInv
    <2>3. CASE c.op = "create"
        <3> DEFINE d == [adminCmd[p] EXCEPT !.at = "rollback"]
        <3>1. d = [op |-> "create", at |-> "rollback", id |-> c.id, path |-> c.path]
            BY <1>2, <2>3, PlainMoves
        <3>2. PlainOK(d, tunnel) /\ ~Removing(d)
            BY <1>2, <2>3, <3>1 DEF PlainOK, Removing
        <3>3. Becomes(p, d)
            BY <1>6, <2>3 DEF WriteGivenUp, Moves
        <3> HIDE DEF d
        <3>4. CmdOK(d, tunnel')
            BY <1>1, <3>2 DEF CmdOK
        <3> QED BY <1>1, <2>1, <2>2, <3>2, <3>3, <3>4, CommandFollows
    <2>4. CASE c.op # "create"
        <3>1. Becomes(p, Idle)
            BY <1>6, <2>4 DEF WriteGivenUp
        <3> QED BY <1>1, <2>1, <2>2, <3>1, NoneCommand, CommandFollows
    <2> QED BY <2>3, <2>4
<1>7. CASE WriteGivenUp(p) /\ UNCHANGED <<adminFile, made>>
    BY <1>1, <1>7, GivenUpHolds
<1> QED BY <1>5, <1>6, <1>7 DEF WriteCredentials

-----------------------------------------------------------------------------
LEMMA DeletionHolds ==
    ASSUME AdminInv, NEW p \in TunnelAdmins, NEW i \in Ids, Deleted(i), NEW d,
           tunnel[i].state # "none", UNCHANGED <<adminFile, made>>,
           adminCmd' = [Observed(adminCmd, i) EXCEPT ![p] = d],
           CmdOK(d, tunnel'), Removing(d) => d.id = i /\ tunnel[i].state # "deleted"
    PROVE  AdminInv'
<1>1. adminFile' = adminFile /\ made' = made
    OBVIOUS
<1>2. TunnelTypes(tunnel) /\ InTurn(tunnel) /\ MadeOK(tunnel, made)
    BY DEF AdminInv
<1>3. tunnel' = [tunnel EXCEPT ![i].state = "deleted", ![i].conns = 0]
    BY DEF Deleted
<1>4. /\ tunnel'[i].state = "deleted" /\ TunnelTypes(tunnel')
      /\ \A j \in Ids \ {i} : tunnel'[j].state = tunnel[j].state
    BY <1>2, <1>3 DEF TunnelTypes
<1>5. \A j \in Ids : tunnel'[j].state = "none" <=> tunnel[j].state = "none"
    BY <1>4
<1>6. InTurn(tunnel') /\ MadeOK(tunnel', made)
    BY <1>2, <1>5 DEF InTurn, MadeOK
<1>8. adminCmd' = [q \in TunnelAdmins |-> IF q = p THEN d ELSE Learns(adminCmd[q], i)]
    BY DEF Observed, Learns
<1>9. \A q \in TunnelAdmins : adminCmd'[q] = IF q = p THEN d ELSE Learns(adminCmd[q], i)
    BY <1>8
<1>10. ASSUME NEW q \in TunnelAdmins
       PROVE  /\ CmdOK(Learns(adminCmd[q], i), tunnel')
              /\ Removing(Learns(adminCmd[q], i)) =>
                   Removing(adminCmd[q]) /\ Learns(adminCmd[q], i) = adminCmd[q]
    <2>1. PICK c : c = adminCmd[q]
        OBVIOUS
    <2>2. CmdOK(c, tunnel)
        BY <2>1 DEF AdminInv
    <2>3. CmdOK(Learns(c, i), tunnel')
        BY <1>4, <2>2, TunnelGoes
    <2>4. Removing(Learns(c, i)) => Removing(c) /\ Learns(c, i) = c
        BY <1>4, <2>2, TunnelGoes
    <2> QED BY <2>1, <2>3, <2>4
<1>11. \A q \in TunnelAdmins : CmdOK(adminCmd'[q], tunnel')
    BY <1>9, <1>10
<1>12. \A q \in TunnelAdmins : Removing(adminCmd[q]) => tunnel[adminCmd[q].id].state = "deleted"
    <2>1. SUFFICES ASSUME NEW q \in TunnelAdmins, Removing(adminCmd[q])
                   PROVE  tunnel[adminCmd[q].id].state = "deleted"
        OBVIOUS
    <2>2. PlainOK(adminCmd[q], tunnel)
        BY <2>1, IdleIsNone DEF AdminInv, Removing
    <2> QED BY <2>1, <2>2 DEF PlainOK, Removing
<1>13. ASSUME NEW q \in TunnelAdmins, NEW r \in TunnelAdmins, q # r,
              Removing(adminCmd'[q]), Removing(adminCmd'[r])
       PROVE  adminCmd'[q].id # adminCmd'[r].id
    <2>1. \A s \in TunnelAdmins \ {p} : Removing(adminCmd'[s]) =>
            adminCmd'[s] = adminCmd[s] /\ Removing(adminCmd[s])
        BY <1>9, <1>10
    <2>2. CASE q = p
        <3>1. adminCmd'[q].id = i /\ tunnel[i].state # "deleted"
            BY <1>9, <1>13, <2>2
        <3>2. tunnel[adminCmd'[r].id].state = "deleted"
            BY <1>12, <1>13, <2>1, <2>2
        <3> QED BY <3>1, <3>2
    <2>3. CASE r = p
        <3>1. adminCmd'[r].id = i /\ tunnel[i].state # "deleted"
            BY <1>9, <1>13, <2>3
        <3>2. tunnel[adminCmd'[q].id].state = "deleted"
            BY <1>12, <1>13, <2>1, <2>3
        <3> QED BY <3>1, <3>2
    <2>4. CASE q # p /\ r # p
        BY <1>13, <2>1, <2>4 DEF AdminInv
    <2> QED BY <2>2, <2>3, <2>4
<1>14. adminCmd' = [q \in TunnelAdmins |-> adminCmd'[q]]
    BY <1>8
<1>15. FileTypes(adminFile)
    BY DEF AdminInv
<1> QED BY <1>1, <1>4, <1>6, <1>11, <1>13, <1>14, <1>15 DEF AdminInv

LEMMA RollbackHolds ==
    ASSUME AdminInv, NEW p \in TunnelAdmins, Rollback(p)
    PROVE  AdminInv'
<1> DEFINE i == adminCmd[p].id
<1>1. PlainOK(adminCmd[p], tunnel) /\ adminCmd[p].op = "create"
    BY IdleIsNone DEF AdminInv, Rollback, AdminAt
<1>2. i \in Ids /\ tunnel[i].state # "none"
    BY <1>1 DEF PlainOK
<1>3. CASE Deleted(i) /\ adminCmd' = [Observed(adminCmd, i) EXCEPT ![p] = Idle]
    BY <1>2, <1>3, NoneCommand, DeletionHolds DEF Rollback
<1>4. CASE Becomes(p, Idle) /\ UNCHANGED tunnel
    BY <1>4, NoneCommand, CommandMoves DEF Rollback
<1> QED BY <1>3, <1>4 DEF Rollback

LEMMA DeleteTunnelHolds ==
    ASSUME AdminInv, NEW p \in TunnelAdmins, DeleteTunnel(p)
    PROVE  AdminInv'
<1> DEFINE c == adminCmd[p]
           i == c.id
           d == [c EXCEPT !.at = "file"]
<1>1. PlainOK(c, tunnel) /\ c.op = "delete" /\ c.at = "delete"
    BY IdleIsNone DEF AdminInv, DeleteTunnel, AdminAt
<1>2. i \in Ids /\ ~Listing(c)
    BY <1>1 DEF PlainOK, Listing
<1>3. CASE Becomes(p, Idle) /\ UNCHANGED tunnel
    BY <1>3, NoneCommand, CommandMoves DEF DeleteTunnel
<1>4. ASSUME NEW answered \in BOOLEAN, tunnel[i].state = "live", Deleted(i),
             adminCmd' = [Observed(adminCmd, i) EXCEPT
                            ![p] = IF answered THEN [@ EXCEPT !.at = "file"] ELSE Idle]
      PROVE  AdminInv'
    <2>1. Observed(adminCmd, i)[p] = c
        BY <1>2 DEF Observed
    <2>2. adminCmd' = [Observed(adminCmd, i) EXCEPT ![p] = IF answered THEN d ELSE Idle]
        BY <1>4, <2>1 DEF Observed
    <2>3. CASE answered
        <3>1. d = [op |-> "delete", at |-> "file", id |-> c.id, path |-> c.path]
            BY <1>1, PlainMoves
        <3>2. tunnel'[i].state = "deleted"
            BY <1>2, <1>4 DEF Deleted, AdminInv, TunnelTypes
        <3>3. PlainOK(d, tunnel') /\ d.id = i
            BY <1>1, <1>4, <3>1, <3>2 DEF PlainOK
        <3>4. adminCmd' = [Observed(adminCmd, i) EXCEPT ![p] = d]
            BY <2>2, <2>3
        <3> HIDE DEF d
        <3>5. CmdOK(d, tunnel')
            BY <3>3 DEF CmdOK
        <3> QED BY <1>2, <1>4, <3>3, <3>4, <3>5, DeletionHolds DEF DeleteTunnel
    <2>4. CASE ~answered
        <3>1. adminCmd' = [Observed(adminCmd, i) EXCEPT ![p] = Idle]
            BY <2>2, <2>4
        <3> QED BY <1>2, <1>4, <3>1, NoneCommand, DeletionHolds DEF DeleteTunnel
    <2> QED BY <2>3, <2>4
<1> QED BY <1>3, <1>4 DEF DeleteTunnel

LEMMA DeleteCommandHolds ==
    ASSUME AdminInv, NEW p \in TunnelAdmins, DeleteCommand(p)
    PROVE  AdminInv'
<1>1. PICK ref \in Live \cup TunnelNames : \E i \in FindIDs(ref) : \E x \in {i, Chosen} :
           Becomes(p, [op |-> "delete", at |-> "delete", id |-> i, path |-> x])
    BY DEF DeleteCommand
<1>2. PICK i \in FindIDs(ref) : \E x \in {i, Chosen} :
           Becomes(p, [op |-> "delete", at |-> "delete", id |-> i, path |-> x])
    BY <1>1
<1>3. PICK x \in {i, Chosen} :
           Becomes(p, [op |-> "delete", at |-> "delete", id |-> i, path |-> x])
    BY <1>2
<1>4. i \in Ids /\ x \in CredPaths
    BY DEF FindIDs, Live, CredPaths
<1>5. PICK c : c = [op |-> "delete", at |-> "delete", id |-> i, path |-> x]
    OBVIOUS
<1>6. PlainOK(c, tunnel) /\ ~Removing(c) /\ Becomes(p, c)
    BY <1>3, <1>4, <1>5 DEF PlainOK, Removing
<1> QED BY <1>6, CommandMoves DEF CmdOK, DeleteCommand

LEMMA TokenCommandHolds ==
    ASSUME AdminInv, NEW p \in TunnelAdmins, TokenCommand(p)
    PROVE  AdminInv'
<1>1. PICK i \in Live : Becomes(p, [op |-> "token", at |-> "stat", id |-> i, path |-> Chosen])
    BY DEF TokenCommand
<1>2. PICK c : c = [op |-> "token", at |-> "stat", id |-> i, path |-> Chosen]
    OBVIOUS
<1>3. PlainOK(c, tunnel) /\ ~Removing(c) /\ Becomes(p, c)
    BY <1>1, <1>2 DEF PlainOK, Removing, Live, CredPaths
<1> QED BY <1>3, CommandMoves DEF CmdOK, TokenCommand

-----------------------------------------------------------------------------
LEMMA RemoveFileHolds ==
    ASSUME AdminInv, NEW p \in TunnelAdmins, RemoveFile(p)
    PROVE  AdminInv'
<1> DEFINE c == adminCmd[p]
<1>1. PlainOK(c, tunnel)
    BY IdleIsNone DEF AdminInv, RemoveFile, AdminAt
<1>2. /\ adminFile' = [adminFile EXCEPT ![c.path] = Missing]
      /\ tunnel' = tunnel /\ made' = made /\ Becomes(p, Idle)
    BY DEF RemoveFile
<1>3. TunnelTypes(tunnel) /\ InTurn(tunnel) /\ FileTypes(adminFile) /\ MadeOK(tunnel, made)
    BY DEF AdminInv
<1>4. FileTypes(adminFile')
    <2>1. /\ adminFile' \in [CredPaths -> [id : Ids, whole : BOOLEAN] \cup {Missing}]
          /\ \A y \in CredPaths : adminFile'[y] = IF y = c.path THEN Missing ELSE adminFile[y]
        BY <1>1, <1>2, <1>3 DEF FileTypes, PlainOK
    <2> QED BY <1>3, <2>1 DEF FileTypes, CredPaths
<1>5. AccountInv'
    BY <1>2, <1>3, <1>4 DEF AccountInv
<1>6. \A q \in TunnelAdmins : CmdOK(adminCmd[q], tunnel')
    BY <1>2 DEF AdminInv
<1> QED BY <1>2, <1>5, <1>6, NoneCommand, CommandFollows

\* connections come and go: nothing here looks at their number
LEMMA CountsOnly ==
    ASSUME AdminInv, TunnelTypes(tunnel'), UNCHANGED <<adminFile, made>>,
           \A i \in Ids : tunnel'[i].state = tunnel[i].state
    PROVE  /\ AccountInv'
           /\ \A q \in TunnelAdmins : CmdOK(adminCmd[q], tunnel')
<1>1. adminFile' = adminFile /\ made' = made
    OBVIOUS
<1>2. InTurn(tunnel) /\ FileTypes(adminFile) /\ MadeOK(tunnel, made)
    BY DEF AdminInv
<1>3. InTurn(tunnel') /\ MadeOK(tunnel', made)
    BY <1>2 DEF InTurn, MadeOK
<1>4. ASSUME NEW q \in TunnelAdmins PROVE CmdOK(adminCmd[q], tunnel')
    <2>1. CmdOK(adminCmd[q], tunnel)
        BY DEF AdminInv
    <2> QED BY <2>1, SameStates
<1> QED BY <1>1, <1>2, <1>3, <1>4 DEF AccountInv

LEMMA RunHolds ==
    ASSUME AdminInv, NEW p \in TunnelAdmins, RunCommand(p)
    PROVE  AdminInv'
<1>1. PICK ref \in Ids \cup TunnelNames, flag \in {Chosen, Missing} :
        \E i \in FindID(ref, flag) :
           LET x == IF flag = Missing THEN i ELSE flag
           IN  /\ i \in Live
               /\ tunnel' = [tunnel EXCEPT ![i].conns = @ + 1]
               /\ Becomes(p, [op |-> "run", at |-> "", id |-> i, path |-> x])
    BY DEF RunCommand
<1>2. PICK i \in Live :
        /\ tunnel' = [tunnel EXCEPT ![i].conns = @ + 1]
        /\ Becomes(p, [op |-> "run", at |-> "", id |-> i,
                       path |-> IF flag = Missing THEN i ELSE flag])
    BY <1>1
<1>3. i \in Ids
    BY DEF Live
<1>4. TunnelTypes(tunnel') /\ \A j \in Ids : tunnel'[j].state = tunnel[j].state
    <2>1. tunnel[i].conns + 1 \in Nat
        BY <1>3 DEF AdminInv, TunnelTypes
    <2> QED BY <1>2, <1>3, <2>1 DEF AdminInv, TunnelTypes
<1>5. PICK x \in CredPaths : x = (IF flag = Missing THEN i ELSE flag) /\ x \in {i, Chosen}
    BY <1>3 DEF CredPaths
<1>6. PICK c : c = [op |-> "run", at |-> "", id |-> i, path |-> x]
    OBVIOUS
<1>7. PlainOK(c, tunnel') /\ ~Removing(c) /\ Becomes(p, c)
    BY <1>2, <1>3, <1>5, <1>6 DEF PlainOK, Removing
<1>8. AccountInv'
    BY <1>4, CountsOnly DEF RunCommand
<1>9. \A q \in TunnelAdmins : CmdOK(adminCmd[q], tunnel')
    BY <1>4, CountsOnly DEF RunCommand
<1>10. CmdOK(c, tunnel')
    BY <1>7 DEF CmdOK
<1> QED BY <1>7, <1>8, <1>9, <1>10, CommandFollows

LEMMA EndHolds ==
    ASSUME AdminInv, NEW p \in TunnelAdmins, Ends(p)
    PROVE  AdminInv'
<1>1. TunnelTypes(tunnel') /\ \A j \in Ids : tunnel'[j].state = tunnel[j].state
    <2>1. CASE adminCmd[p].op = "run" /\ tunnel[adminCmd[p].id].conns > 0
        <3>1. PICK i \in Ids : i = adminCmd[p].id
            BY <2>1, IdleIsNone DEF AdminInv, PlainOK
        <3>2. tunnel' = [tunnel EXCEPT ![i].conns = @ - 1] /\ tunnel[i].conns > 0
            BY <2>1, <3>1 DEF Ends
        <3>3. tunnel[i].conns - 1 \in Nat
            BY <3>2 DEF AdminInv, TunnelTypes
        <3> QED BY <3>2, <3>3 DEF AdminInv, TunnelTypes
    <2>2. CASE ~(adminCmd[p].op = "run" /\ tunnel[adminCmd[p].id].conns > 0)
        BY <2>2 DEF Ends, AdminInv
    <2> QED BY <2>1, <2>2
<1>2. AccountInv'
    BY <1>1, CountsOnly DEF Ends
<1>3. \A q \in TunnelAdmins : CmdOK(adminCmd[q], tunnel')
    BY <1>1, CountsOnly DEF Ends
<1>4. Becomes(p, Idle)
    BY DEF Ends
<1> QED BY <1>2, <1>3, <1>4, NoneCommand, CommandFollows

LEMMA CleanupHolds ==
    ASSUME AdminInv, NEW p \in TunnelAdmins, CleanupCommand(p)
    PROVE  AdminInv'
<1>1. PICK ref \in Ids \cup TunnelNames :
        \E i \in FindIDs(ref) : tunnel' = [tunnel EXCEPT ![i].conns = 0]
    BY DEF CleanupCommand
<1>2. PICK i \in FindIDs(ref) : tunnel' = [tunnel EXCEPT ![i].conns = 0]
    BY <1>1
<1>3. i \in Ids
    BY DEF FindIDs, Live
<1>4. TunnelTypes(tunnel') /\ \A j \in Ids : tunnel'[j].state = tunnel[j].state
    BY <1>2, <1>3 DEF AdminInv, TunnelTypes
<1>5. AccountInv'
    BY <1>4, CountsOnly DEF CleanupCommand
<1>6. \A q \in TunnelAdmins : CmdOK(adminCmd[q], tunnel')
    BY <1>4, CountsOnly DEF CleanupCommand
<1>7. adminCmd' = adminCmd
    BY DEF CleanupCommand
<1> QED BY <1>5, <1>6, <1>7 DEF AdminInv, AccountInv

-----------------------------------------------------------------------------
LEMMA ListHolds ==
    ASSUME AdminInv, NEW p \in TunnelAdmins, ListCommand(p)
    PROVE  AdminInv'
<1>1. PICK c : c = [op |-> "list", at |-> "page", page |-> 1, got |-> <<>>,
                    since |-> Live, shrunk |-> FALSE]
    OBVIOUS
<1>2. Live = LiveIn(tunnel) /\ Live \subseteq Ids
    BY DEF Live, LiveIn
<1>3. Cardinality(Live) \in Nat
    BY <1>2, LiveIsFinite
<1>4. Gets(Live, <<>>)
    <2>1. \A i \in Live : ~(PlaceOf(Live, i) <= 0)
        BY <1>2, <1>3, RankIsAPlace
    <2> QED BY <2>1 DEF Gets
<1>5. Len(<<>>) = (1 - 1) * PerPage /\ <<>> \in Seq(Ids) /\ Len(<<>>) = 0
    BY AdminAssumption
<1>6. ListOK(c, Live) /\ ~Removing(c)
    BY <1>1, <1>3, <1>4, <1>5 DEF ListOK, Removing
<1>7. Becomes(p, c)
    BY <1>1 DEF ListCommand
<1> QED BY <1>2, <1>6, <1>7, CommandMoves DEF CmdOK, ListCommand

LEMMA FetchHolds ==
    ASSUME AdminInv, NEW p \in TunnelAdmins, FetchPage(p)
    PROVE  AdminInv'
<1>1. PICK c : c = adminCmd[p]
    OBVIOUS
<1>2. c.op = "list" /\ c.at = "page" /\ ListOK(c, LiveIn(tunnel))
    BY <1>1, IdleIsNone DEF AdminInv, FetchPage, AdminAt
<1>3. Live = LiveIn(tunnel) /\ Live \subseteq Ids
    BY DEF Live, LiveIn
<1>4. PICK page, got, since, shrunk :
        c = [op |-> "list", at |-> "page", page |-> page, got |-> got,
             since |-> since, shrunk |-> shrunk]
    BY <1>2 DEF ListOK
<1>5. PICK all : all = got \o PageOf(page)
    OBVIOUS
<1>6. PICK at : at = IF LastPage(Len(PageOf(page)), Len(all)) THEN "shown" ELSE "page"
    OBVIOUS
<1>7. PICK d : d = [c EXCEPT !.got = all, !.page = @ + 1, !.at = at]
    OBVIOUS
<1>8. d = [op |-> "list", at |-> at, page |-> page + 1, got |-> all,
           since |-> since, shrunk |-> shrunk]
    BY <1>4, <1>7
<1>9. Becomes(p, d)
    BY <1>1, <1>4, <1>5, <1>6, <1>7 DEF FetchPage
<1>10. at \in {"page", "shown"} /\ shrunk \in BOOLEAN
    BY <1>2, <1>4, <1>6 DEF ListOK
<1>11. /\ d.at = at /\ d.page = page + 1 /\ d.got = all /\ d.since = since /\ d.shrunk = shrunk
       /\ d = [op |-> "list", at |-> d.at, page |-> d.page, got |-> d.got,
               since |-> d.since, shrunk |-> d.shrunk]
       /\ ~Removing(d)
    BY <1>8 DEF Removing
<1>12. CASE shrunk
    <2>1. ListOK(d, Live) /\ ~Removing(d)
        BY <1>10, <1>12, <1>11 DEF ListOK
    <2> QED BY <1>3, <1>9, <2>1, CommandMoves DEF CmdOK, FetchPage
<1>13. CASE ~shrunk
    <2>1. /\ got \in Seq(Ids) /\ page \in Nat \ {0} /\ Len(got) = (page - 1) * PerPage
          /\ Len(got) <= Cardinality(Live) /\ since \subseteq Live /\ Gets(Live, got)
        BY <1>2, <1>3, <1>4, <1>13 DEF ListOK
    <2>2. /\ all \in Seq(Ids) /\ Gets(Live, all)
          /\ IF LastPage(Len(PageOf(page)), Len(all))
               THEN Len(all) = Cardinality(Live)
               ELSE Len(all) = page * PerPage /\ Len(all) <= Cardinality(Live)
        BY <1>5, <2>1, PageAdds
    <2>3. page + 1 \in Nat \ {0} /\ (page + 1) - 1 = page
        BY <2>1
    <2>4. CASE at = "page"
        <3>1. Len(all) = page * PerPage /\ Len(all) <= Cardinality(Live)
            BY <1>6, <2>2, <2>4
        <3>2. Len(all) = ((page + 1) - 1) * PerPage
            BY <2>3, <3>1
        <3>3. ListOK(d, Live) /\ ~Removing(d)
            BY <1>10, <1>13, <1>11, <2>1, <2>2, <2>3, <2>4, <3>1, <3>2 DEF ListOK
        <3> QED BY <1>3, <1>9, <3>3, CommandMoves DEF CmdOK, FetchPage
    <2>5. CASE at = "shown"
        <3>1. Len(all) = Cardinality(Live)
            BY <1>6, <2>2, <2>5
        <3>2. ASSUME NEW i \in since PROVE \E k \in DOMAIN all : all[k] = i
            <4>1. i \in Live /\ PlaceOf(Live, i) <= Len(all)
                <5>1. i \in Live /\ Cardinality(Live) \in Nat
                    BY <1>3, <2>1, LiveIsFinite
                <5>2. PlaceOf(Live, i) \in 1..Cardinality(Live)
                    BY <1>3, <5>1, RankIsAPlace
                <5> QED BY <3>1, <5>1, <5>2
            <4> QED BY <2>2, <4>1 DEF Gets
        <3>3. ListOK(d, Live) /\ ~Removing(d)
            BY <1>10, <1>13, <1>11, <2>5, <3>2 DEF ListOK
        <3> QED BY <1>3, <1>9, <3>3, CommandMoves DEF CmdOK, FetchPage
    <2> QED BY <1>10, <2>4, <2>5
<1> QED BY <1>10, <1>12, <1>13

LEMMA AdminStarts == AdminInit => AdminInv
<1> SUFFICES ASSUME AdminInit PROVE AdminInv
    OBVIOUS
<1>1. \A i \in Ids : tunnel[i].state = "none" /\ made[i] = Missing
    BY DEF AdminInit
<1>2. TunnelTypes(tunnel)
    <2>1. (CHOOSE n \in TunnelNames : TRUE) \in TunnelNames
        BY AdminAssumption
    <2> QED BY <2>1 DEF AdminInit, TunnelTypes
<1>3. FileTypes(adminFile)
    BY DEF AdminInit, FileTypes, CredPaths
<1>4. InTurn(tunnel) /\ MadeOK(tunnel, made)
    BY <1>1 DEF AdminInit, InTurn, MadeOK
<1>5. adminCmd = [p \in TunnelAdmins |-> adminCmd[p]] /\ \A p \in TunnelAdmins : adminCmd[p] = Idle
    BY DEF AdminInit
<1> QED BY <1>2, <1>3, <1>4, <1>5, NoneCommand DEF AdminInv

LEMMA AdminSteps == AdminInv /\ [AdminNext]_adminVars => AdminInv'
<1> SUFFICES ASSUME AdminInv, [AdminNext]_adminVars PROVE AdminInv'
    OBVIOUS
<1>1. CASE UNCHANGED adminVars
    <2>1. tunnel' = tunnel /\ adminFile' = adminFile /\ adminCmd' = adminCmd /\ made' = made
        BY <1>1 DEF adminVars
    <2> QED BY <2>1 DEF AdminInv
<1>2. CASE AdminNext
    <2>1. PICK p \in TunnelAdmins :
            \/ CreateTunnel(p) \/ StatFile(p) \/ WriteCredentials(p) \/ Rollback(p)
            \/ DeleteCommand(p) \/ DeleteTunnel(p) \/ RemoveFile(p) \/ TokenCommand(p)
            \/ RunCommand(p) \/ CleanupCommand(p)
            \/ ListCommand(p) \/ FetchPage(p) \/ Ends(p)
        BY <1>2 DEF AdminNext
    <2> QED BY <2>1, CreateTunnelHolds, StatHolds, WriteCredentialsHolds, RollbackHolds, DeleteCommandHolds,
               DeleteTunnelHolds, RemoveFileHolds, TokenCommandHolds, RunHolds, CleanupHolds,
               ListHolds, FetchHolds, EndHolds
<1> QED BY <1>1, <1>2

-----------------------------------------------------------------------------
(* The secrets.  A path nobody crossed has at most one writer, who found it
   missing as it still is; a delete of the file of the flag has found there
   what is of its tunnel, until another deletes the tunnel.                   *)
WritesAlone(x) ==
    \A p \in TunnelAdmins : Writing(p, x) =>
        adminFile[x] = Missing /\ \A q \in TunnelAdmins \ {p} : ~Writing(q, x)
StillDeletes(c, t) == c.op = "delete" /\ (c.at = "file" \/ t[c.id].state # "deleted")
DeletesItsOwn ==
    Chosen \notin crossed => \A p \in TunnelAdmins :
        StillDeletes(adminCmd[p], tunnel) /\ adminCmd[p].path = Chosen => HasSecret(Chosen, adminCmd[p].id)
SecretInv ==
    /\ \A x \in CredPaths \ crossed : WritesAlone(x)
    /\ DeletesItsOwn
    /\ CreatedStaysUsable

\* a step that leaves the files alone and begins neither a write nor a deletion
LEMMA NoFileTouched ==
    ASSUME SecretInv, UNCHANGED <<adminFile, made, crossed>>,
           \A q \in TunnelAdmins :
             /\ adminCmd'[q].at = "write" => adminCmd'[q] = adminCmd[q]
             /\ adminCmd'[q].op = "delete" =>
                  /\ adminCmd[q].op = "delete" /\ adminCmd[q].id = adminCmd'[q].id
                  /\ adminCmd[q].path = adminCmd'[q].path
                  /\ StillDeletes(adminCmd'[q], tunnel') => StillDeletes(adminCmd[q], tunnel),
           \A i \in Live' : i \in Live \/ made[i] = Missing
    PROVE  SecretInv'
<1>1. adminFile' = adminFile /\ made' = made /\ crossed' = crossed
    OBVIOUS
<1>2. ASSUME NEW x \in CredPaths \ crossed PROVE WritesAlone(x)'
    <2>1. \A q \in TunnelAdmins : Writing(q, x)' => Writing(q, x)
        BY DEF Writing
    <2> QED BY <1>1, <2>1 DEF SecretInv, WritesAlone
<1>3. DeletesItsOwn'
    <2>1. SUFFICES ASSUME Chosen \notin crossed, NEW q \in TunnelAdmins,
                          StillDeletes(adminCmd'[q], tunnel'), adminCmd'[q].path = Chosen
                   PROVE  HasSecret(Chosen, adminCmd'[q].id)
        BY <1>1 DEF DeletesItsOwn, HasSecret
    <2>2. /\ StillDeletes(adminCmd[q], tunnel) /\ adminCmd[q].path = Chosen
          /\ adminCmd[q].id = adminCmd'[q].id
        BY <2>1 DEF StillDeletes
    <2> QED BY <2>1, <2>2 DEF SecretInv, DeletesItsOwn
<1>4. CreatedStaysUsable'
    BY <1>1 DEF SecretInv, CreatedStaysUsable
<1> QED BY <1>1, <1>2, <1>3, <1>4 DEF SecretInv

\* the command of one process changes, to one that neither writes nor deletes
LEMMA NoNewHands ==
    ASSUME AdminInv, SecretInv, UNCHANGED <<adminFile, made, crossed>>,
           NEW p \in TunnelAdmins, NEW c, Becomes(p, c),
           c.at # "write", c.op # "delete",
           \A i \in Ids : /\ tunnel'[i].state # "deleted" => tunnel[i].state # "deleted"
                          /\ tunnel'[i].state = "live" => tunnel[i].state = "live" \/ made[i] = Missing
    PROVE  SecretInv'
<1>1. \A q \in TunnelAdmins : adminCmd'[q] = IF q = p THEN c ELSE adminCmd[q]
    BY DEF AdminInv, Becomes
<1>2. \A i \in Live' : i \in Live \/ made[i] = Missing
    BY DEF Live
<1>3. ASSUME NEW q \in TunnelAdmins
      PROVE  /\ adminCmd'[q].at = "write" => adminCmd'[q] = adminCmd[q]
             /\ adminCmd'[q].op = "delete" =>
                  /\ adminCmd[q].op = "delete" /\ adminCmd[q].id = adminCmd'[q].id
                  /\ adminCmd[q].path = adminCmd'[q].path
                  /\ StillDeletes(adminCmd'[q], tunnel') => StillDeletes(adminCmd[q], tunnel)
    <2>1. CASE q = p
        BY <1>1, <2>1
    <2>2. CASE q # p
        <3>1. adminCmd'[q] = adminCmd[q]
            BY <1>1, <2>2
        <3>2. adminCmd[q].op = "delete" => adminCmd[q].id \in Ids
            BY IdleIsNone DEF AdminInv, PlainOK
        <3>3. adminCmd[q].op = "delete" /\ StillDeletes(adminCmd'[q], tunnel') => StillDeletes(adminCmd[q], tunnel)
            BY <3>1, <3>2 DEF StillDeletes
        <3> QED BY <3>1, <3>3
    <2> QED BY <2>1, <2>2
<1> QED BY <1>2, <1>3, NoFileTouched

LEMMA GivenUpIsQuiet ==
    ASSUME AdminInv, SecretInv, NEW p \in TunnelAdmins, adminCmd[p].at \in {"stat", "write"},
           WriteGivenUp(p), UNCHANGED <<tunnel, adminFile, made, crossed>>
    PROVE  SecretInv'
<1>1. PlainOK(adminCmd[p], tunnel) /\ adminCmd[p].op \in {"create", "token"}
    BY IdleIsNone DEF AdminInv
<1>2. CASE adminCmd[p].op = "create"
    <2>1. PICK d : d = [adminCmd[p] EXCEPT !.at = "rollback"]
        OBVIOUS
    <2>2. d.at = "rollback" /\ d.op = "create"
        BY <1>1, <1>2, <2>1, PlainMoves
    <2>3. Becomes(p, d)
        BY <1>2, <2>1 DEF WriteGivenUp, Moves
    <2> QED BY <2>2, <2>3, NoNewHands
<1>3. CASE adminCmd[p].op # "create"
    <2>1. Becomes(p, Idle)
        BY <1>3 DEF WriteGivenUp
    <2>2. Idle.at # "write" /\ Idle.op # "delete"
        BY DEF Idle
    <2> QED BY <2>1, <2>2, NoNewHands
<1> QED BY <1>2, <1>3

\* a second process that finds a path missing crosses it
LEMMA StatIsSafe ==
    ASSUME AdminInv, SecretInv, NEW p \in TunnelAdmins, StatFile(p)
    PROVE  SecretInv'
<1> DEFINE c == adminCmd[p]
<1>1. PlainOK(c, tunnel) /\ c.op \in {"create", "token"}
    BY IdleIsNone DEF AdminInv, StatFile
<1>2. CASE adminFile[c.path] # Missing
    BY <1>2, GivenUpIsQuiet DEF StatFile
<1>3. CASE adminFile[c.path] = Missing
    <2>1. Moves(p, "write") /\ crossed' = crossed \cup FoundByTwo(p, c.path)
        BY <1>3 DEF StatFile
    <2>2. tunnel' = tunnel /\ adminFile' = adminFile /\ made' = made
        BY DEF StatFile
    <2>3. PICK d : d = [op |-> c.op, at |-> "write", id |-> c.id, path |-> c.path]
        OBVIOUS
    <2>4. Becomes(p, d)
        BY <1>1, <2>1, <2>3, PlainMoves DEF Moves
    <2>5. \A q \in TunnelAdmins : adminCmd'[q] = IF q = p THEN d ELSE adminCmd[q]
        BY <2>4 DEF AdminInv, Becomes
    <2>6. ASSUME NEW x \in CredPaths, x \notin crossed' PROVE WritesAlone(x)'
        <3>1. x \notin crossed /\ WritesAlone(x)
            BY <2>1, <2>6 DEF SecretInv
        <3>2. x = c.path => \A q \in TunnelAdmins \ {p} : ~Writing(q, x)
            BY <2>1, <2>6 DEF FoundByTwo
        <3>3. \A q \in TunnelAdmins : Writing(q, x)' => (IF q = p THEN x = c.path ELSE Writing(q, x))
            BY <2>3, <2>5 DEF Writing
        <3> QED BY <1>3, <2>2, <3>1, <3>2, <3>3 DEF WritesAlone
    <2>7. DeletesItsOwn'
        <3>1. SUFFICES ASSUME Chosen \notin crossed, NEW q \in TunnelAdmins,
                              StillDeletes(adminCmd'[q], tunnel'), adminCmd'[q].path = Chosen
                       PROVE  HasSecret(Chosen, adminCmd'[q].id)
            BY <2>1, <2>2 DEF DeletesItsOwn, HasSecret
        <3>2. adminCmd'[q] = adminCmd[q]
            BY <1>1, <2>3, <2>5, <3>1 DEF StillDeletes
        <3>3. StillDeletes(adminCmd[q], tunnel)
            BY <2>2, <3>1, <3>2 DEF StillDeletes
        <3> QED BY <3>1, <3>2, <3>3 DEF SecretInv, DeletesItsOwn
    <2>8. CreatedStaysUsable'
        BY <2>1, <2>2 DEF SecretInv, CreatedStaysUsable, Live
    <2> QED BY <2>6, <2>7, <2>8 DEF SecretInv
<1> QED BY <1>2, <1>3

\* who writes a path that is not crossed writes where nothing is
LEMMA WriteIsSafe ==
    ASSUME AdminInv, SecretInv, NEW p \in TunnelAdmins, WriteCredentials(p)
    PROVE  SecretInv'
<1> DEFINE c == adminCmd[p]
<1>1. PlainOK(c, tunnel) /\ c.op \in {"create", "token"} /\ c.at = "write"
    BY IdleIsNone DEF AdminInv, WriteCredentials
<1>2. c.path \in CredPaths /\ c.id \in Ids
    BY <1>1 DEF PlainOK
<1>3. tunnel' = tunnel /\ crossed' = crossed /\ made \in [Ids -> CredPaths \cup {Missing}]
    BY DEF WriteCredentials, AdminInv, MadeOK
<1>4. c.path \notin crossed => adminFile[c.path] = Missing
    BY <1>1, <1>2 DEF SecretInv, WritesAlone, Writing
<1>5. ASSUME NEW w \in BOOLEAN, Written(p, w), NEW d, Becomes(p, d),
             d.at # "write", d.op # "delete",
             \/ made' = made
             \/ w /\ made' = [made EXCEPT ![c.id] = c.path]
      PROVE  SecretInv'
    <2>1. /\ adminFile'[c.path] = [id |-> c.id, whole |-> w]
          /\ \A y \in CredPaths \ {c.path} : adminFile'[y] = adminFile[y]
        BY <1>1, <1>5, FileIsWritten
    <2>2. \A q \in TunnelAdmins : adminCmd'[q] = IF q = p THEN d ELSE adminCmd[q]
        BY <1>5 DEF AdminInv, Becomes
    <2>3. ASSUME NEW x \in CredPaths \ crossed PROVE WritesAlone(x)'
        <3>1. \A q \in TunnelAdmins : Writing(q, x)' => q # p /\ Writing(q, x)
            BY <1>5, <2>2 DEF Writing
        <3>2. x = c.path => Writing(p, x)
            BY <1>1 DEF Writing
        <3>3. WritesAlone(x)
            BY DEF SecretInv
        <3>4. ASSUME NEW q \in TunnelAdmins, Writing(q, x)'
              PROVE  adminFile'[x] = Missing /\ \A r \in TunnelAdmins \ {q} : ~Writing(r, x)'
            <4>1. q # p /\ Writing(q, x)
                BY <3>1, <3>4
            <4>2. x # c.path /\ adminFile[x] = Missing
                BY <3>2, <3>3, <4>1 DEF WritesAlone
            <4> QED BY <2>1, <3>1, <3>3, <4>1, <4>2 DEF WritesAlone
        <3> QED BY <3>4 DEF WritesAlone
    <2>4. DeletesItsOwn'
        <3>1. SUFFICES ASSUME Chosen \notin crossed, NEW q \in TunnelAdmins,
                              StillDeletes(adminCmd'[q], tunnel'), adminCmd'[q].path = Chosen
                       PROVE  adminFile'[Chosen] # Missing /\ adminFile'[Chosen].id = adminCmd'[q].id
            BY <1>3 DEF DeletesItsOwn, HasSecret
        <3>2. adminCmd'[q] = adminCmd[q]
            BY <1>5, <2>2, <3>1 DEF StillDeletes
        <3>3. StillDeletes(adminCmd[q], tunnel)
            BY <1>3, <3>1, <3>2 DEF StillDeletes
        <3>4. HasSecret(Chosen, adminCmd[q].id)
            BY <3>1, <3>2, <3>3 DEF SecretInv, DeletesItsOwn
        <3>5. adminFile'[Chosen] = adminFile[Chosen]
            BY <1>4, <2>1, <3>1, <3>4 DEF HasSecret, CredPaths
        <3> QED BY <3>2, <3>4, <3>5 DEF HasSecret
    <2>5. CreatedStaysUsable'
        <3>1. SUFFICES ASSUME NEW i \in Live, made'[i] \notin {Missing} \cup crossed
                       PROVE  adminFile'[made'[i]] = [id |-> i, whole |-> TRUE]
            BY <1>3 DEF CreatedStaysUsable, Live
        <3>2. i \in Ids
            BY DEF Live
        <3>3. CASE made'[i] = made[i]
            <4>1. adminFile[made[i]] = [id |-> i, whole |-> TRUE] /\ made[i] \in CredPaths
                BY <1>3, <3>1, <3>2, <3>3 DEF SecretInv, CreatedStaysUsable
            <4>2. made[i] # c.path
                BY <1>4, <3>1, <3>2, <3>3, <4>1, AdminAssumption
            <4> QED BY <2>1, <3>3, <4>1, <4>2
        <3>4. CASE made'[i] # made[i]
            <4>1. w /\ made' = [made EXCEPT ![c.id] = c.path]
                BY <1>5, <3>4
            <4>2. i = c.id /\ made'[i] = c.path
                BY <1>2, <1>3, <3>2, <3>4, <4>1
            <4>3. w = TRUE
                BY <4>1
            <4> QED BY <2>1, <4>2, <4>3
        <3> QED BY <3>3, <3>4
    <2> QED BY <1>3, <2>3, <2>4, <2>5 DEF SecretInv
<1>6. Idle.at # "write" /\ Idle.op # "delete"
    BY DEF Idle
<1>7. CASE Written(p, TRUE) /\ Reports(p) /\ Becomes(p, Idle)
    <2>1. made' = made \/ made' = [made EXCEPT ![c.id] = c.path]
        BY <1>7 DEF Reports
    <2> QED BY <1>5, <1>6, <1>7, <2>1
<1>8. CASE Written(p, FALSE) /\ WriteGivenUp(p) /\ UNCHANGED made
    <2>1. PICK d : Becomes(p, d) /\ d.at # "write" /\ d.op # "delete"
        <3>1. [c EXCEPT !.at = "rollback"].at # "write" /\ [c EXCEPT !.at = "rollback"].op # "delete"
            BY <1>1, PlainMoves
        <3> QED BY <1>6, <1>8, <3>1 DEF WriteGivenUp, Moves
    <2> QED BY <1>5, <1>8, <2>1
<1>9. CASE WriteGivenUp(p) /\ UNCHANGED <<adminFile, made>>
    BY <1>1, <1>3, <1>9, GivenUpIsQuiet
<1> QED BY <1>7, <1>8, <1>9 DEF WriteCredentials

LEMMA DeleteCommandIsSafe ==
    ASSUME AdminInv, SecretInv, NEW p \in TunnelAdmins, DeleteCommand(p)
    PROVE  SecretInv'
<1>1. PICK ref \in Live \cup TunnelNames : \E i \in FindIDs(ref) : \E x \in {i, Chosen} :
         /\ Becomes(p, [op |-> "delete", at |-> "delete", id |-> i, path |-> x])
         /\ crossed' = IF x = i \/ HasSecret(x, i) THEN crossed ELSE crossed \cup {x}
    BY DEF DeleteCommand
<1>2. PICK i \in FindIDs(ref) : \E x \in {i, Chosen} :
         /\ Becomes(p, [op |-> "delete", at |-> "delete", id |-> i, path |-> x])
         /\ crossed' = IF x = i \/ HasSecret(x, i) THEN crossed ELSE crossed \cup {x}
    BY <1>1
<1>3. PICK x \in {i, Chosen} :
         /\ Becomes(p, [op |-> "delete", at |-> "delete", id |-> i, path |-> x])
         /\ crossed' = IF x = i \/ HasSecret(x, i) THEN crossed ELSE crossed \cup {x}
    BY <1>2
<1>4. i \in Ids /\ crossed \subseteq crossed' /\ tunnel' = tunnel
      /\ adminFile' = adminFile /\ made' = made
    BY <1>3 DEF FindIDs, Live, DeleteCommand
<1>5. PICK d : d = [op |-> "delete", at |-> "delete", id |-> i, path |-> x]
    OBVIOUS
<1>6. \A q \in TunnelAdmins : adminCmd'[q] = IF q = p THEN d ELSE adminCmd[q]
    BY <1>3, <1>5 DEF AdminInv, Becomes
<1>7. ASSUME NEW y \in CredPaths, y \notin crossed' PROVE WritesAlone(y)'
    <2>1. \A q \in TunnelAdmins : Writing(q, y)' => Writing(q, y)
        BY <1>5, <1>6 DEF Writing
    <2> QED BY <1>4, <1>7, <2>1 DEF SecretInv, WritesAlone
<1>8. DeletesItsOwn'
    <2>1. SUFFICES ASSUME Chosen \notin crossed', NEW q \in TunnelAdmins,
                          StillDeletes(adminCmd'[q], tunnel'), adminCmd'[q].path = Chosen
                   PROVE  HasSecret(Chosen, adminCmd'[q].id)
        BY <1>4 DEF DeletesItsOwn, HasSecret
    <2>2. CASE q = p
        <3>1. adminCmd'[q].id = i /\ x = Chosen /\ x # i
            BY <1>4, <1>5, <1>6, <2>1, <2>2, AdminAssumption
        <3> QED BY <1>3, <2>1, <3>1
    <2>3. CASE q # p
        <3>1. adminCmd'[q] = adminCmd[q]
            BY <1>6, <2>3
        <3>2. StillDeletes(adminCmd[q], tunnel)
            BY <1>4, <2>1, <3>1 DEF StillDeletes
        <3> QED BY <1>4, <2>1, <3>1, <3>2 DEF SecretInv, DeletesItsOwn
    <2> QED BY <2>2, <2>3
<1>9. CreatedStaysUsable'
    BY <1>4 DEF SecretInv, CreatedStaysUsable, Live
<1> QED BY <1>7, <1>8, <1>9 DEF SecretInv

LEMMA RemoveFileIsSafe ==
    ASSUME AdminInv, SecretInv, NEW p \in TunnelAdmins, RemoveFile(p)
    PROVE  SecretInv'
<1> DEFINE c == adminCmd[p]
<1>1. PlainOK(c, tunnel) /\ Removing(c) /\ c.at = "file" /\ c.op = "delete"
    BY IdleIsNone DEF AdminInv, RemoveFile, AdminAt, Removing
<1>2. /\ c.id \in Ids /\ c.path \in CredPaths /\ c.path \in {c.id, Chosen}
      /\ tunnel[c.id].state = "deleted"
    BY <1>1 DEF PlainOK, Removing
<1>3. /\ adminFile' = [adminFile EXCEPT ![c.path] = Missing] /\ Becomes(p, Idle)
      /\ tunnel' = tunnel /\ made' = made /\ crossed' = crossed
    BY DEF RemoveFile
<1>4. \A y \in CredPaths : adminFile'[y] = IF y = c.path THEN Missing ELSE adminFile[y]
    BY <1>2, <1>3 DEF AdminInv, FileTypes
<1>5. \A q \in TunnelAdmins : adminCmd'[q] = IF q = p THEN Idle ELSE adminCmd[q]
    BY <1>3 DEF AdminInv, Becomes
<1>10. Idle.at # "write" /\ Idle.op # "delete"
    BY DEF Idle
<1>6. Chosen \notin crossed /\ c.path = Chosen => HasSecret(Chosen, c.id)
    BY <1>1 DEF SecretInv, DeletesItsOwn, StillDeletes
<1>7. ASSUME NEW x \in CredPaths \ crossed PROVE WritesAlone(x)'
    <2>1. \A q \in TunnelAdmins : Writing(q, x)' => Writing(q, x)
        BY <1>5, <1>10 DEF Writing
    <2> QED BY <1>4, <2>1 DEF SecretInv, WritesAlone
<1>8. DeletesItsOwn'
    <2>1. SUFFICES ASSUME Chosen \notin crossed, NEW q \in TunnelAdmins,
                          StillDeletes(adminCmd'[q], tunnel'), adminCmd'[q].path = Chosen
                   PROVE  adminFile'[Chosen] # Missing /\ adminFile'[Chosen].id = adminCmd'[q].id
        BY <1>3 DEF DeletesItsOwn, HasSecret
    <2>2. q # p /\ adminCmd'[q] = adminCmd[q]
        BY <1>5, <1>10, <2>1 DEF StillDeletes
    <2>3. StillDeletes(adminCmd[q], tunnel)
        BY <1>3, <2>1, <2>2 DEF StillDeletes
    <2>4. HasSecret(Chosen, adminCmd[q].id)
        BY <2>1, <2>2, <2>3 DEF SecretInv, DeletesItsOwn
    <2>5. CASE c.path = Chosen
        <3>1. adminCmd[q].id = c.id
            BY <1>6, <2>1, <2>4, <2>5 DEF HasSecret
        <3>2. Removing(adminCmd[q])
            BY <1>2, <2>3, <3>1 DEF Removing, StillDeletes
        <3> QED BY <1>1, <2>2, <3>1, <3>2 DEF AdminInv
    <2>6. CASE c.path # Chosen
        BY <1>4, <2>2, <2>4, <2>6 DEF HasSecret, CredPaths
    <2> QED BY <2>5, <2>6
<1>9. CreatedStaysUsable'
    <2>1. SUFFICES ASSUME NEW i \in Live, made[i] \notin {Missing} \cup crossed
                   PROVE  adminFile'[made[i]] = [id |-> i, whole |-> TRUE]
        BY <1>3 DEF CreatedStaysUsable, Live
    <2>2. i \in Ids /\ i # c.id /\ made[i] \in {i, Chosen} /\ made[i] \in CredPaths
        BY <1>2, <2>1 DEF Live, AdminInv, MadeOK, CredPaths
    <2>3. adminFile[made[i]] = [id |-> i, whole |-> TRUE]
        BY <2>1 DEF SecretInv, CreatedStaysUsable
    <2>4. adminFile[made[i]].id = i
        BY <2>3
    <2>5. made[i] # c.path
        BY <1>2, <1>6, <2>1, <2>2, <2>4, AdminAssumption DEF HasSecret
    <2> QED BY <1>4, <2>2, <2>3, <2>5
<1> QED BY <1>3, <1>7, <1>8, <1>9 DEF SecretInv

\* a deletion at the API, by delete or by the create that takes its tunnel back
LEMMA DeletionIsSafe ==
    ASSUME AdminInv, SecretInv, UNCHANGED <<adminFile, made, crossed>>,
           NEW p \in TunnelAdmins, PlainOK(adminCmd[p], tunnel),
           NEW i \in Ids, Deleted(i), NEW d,
           adminCmd' = [Observed(adminCmd, i) EXCEPT ![p] = d], d.at # "write",
           d.op = "delete" => /\ adminCmd[p].op = "delete" /\ d.id = adminCmd[p].id
                              /\ d.path = adminCmd[p].path /\ StillDeletes(adminCmd[p], tunnel)
    PROVE  SecretInv'
<1>1. \A j \in Ids : /\ tunnel'[j].state # "deleted" => tunnel'[j].state = tunnel[j].state
                     /\ j # i => tunnel'[j].state = tunnel[j].state
    BY DEF Deleted, AdminInv, TunnelTypes
<1>2. \A q \in TunnelAdmins : adminCmd'[q] = IF q = p THEN d ELSE Learns(adminCmd[q], i)
    BY DEF Observed, Learns
<1>3. \A j \in Live' : j \in Live \/ made[j] = Missing
    BY <1>1 DEF Live
<1>4. ASSUME NEW q \in TunnelAdmins
      PROVE  /\ adminCmd'[q].at = "write" => adminCmd'[q] = adminCmd[q]
             /\ adminCmd'[q].op = "delete" =>
                  /\ adminCmd[q].op = "delete" /\ adminCmd[q].id = adminCmd'[q].id
                  /\ adminCmd[q].path = adminCmd'[q].path
                  /\ StillDeletes(adminCmd'[q], tunnel') => StillDeletes(adminCmd[q], tunnel)
    <2>1. CASE q = p
        BY <1>2, <2>1
    <2>2. CASE q # p
        <3>0. PICK c : c = adminCmd[q]
            OBVIOUS
        <3>1. adminCmd'[q] = Learns(c, i)
            BY <1>2, <2>2, <3>0
        <3>2. CASE Listing(c)
            <4>1. PICK page, got, since, shrunk :
                    c = [op |-> "list", at |-> "page", page |-> page, got |-> got,
                         since |-> since, shrunk |-> shrunk]
                BY <3>0, <3>2, IdleIsNone DEF AdminInv, ListOK, Listing
            <4>2. Learns(c, i) = [op |-> "list", at |-> "page", page |-> page, got |-> got,
                                  since |-> since \ {i}, shrunk |-> TRUE]
                BY <3>2, <4>1 DEF Learns
            <4> QED BY <3>1, <4>2
        <3>3. CASE ~Listing(c)
            <4>1. adminCmd'[q] = c
                BY <3>1, <3>3 DEF Learns
            <4>2. c.op = "delete" => c.id \in Ids
                <5>1. CmdOK(c, tunnel)
                    BY <3>0 DEF AdminInv
                <5>2. c.op = "delete" => PlainOK(c, tunnel)
                    BY <5>1, IdleIsNone
                <5> QED BY <5>2 DEF PlainOK
            <4>3. c.op = "delete" /\ StillDeletes(adminCmd'[q], tunnel') => StillDeletes(c, tunnel)
                BY <1>1, <4>1, <4>2 DEF StillDeletes
            <4> QED BY <3>0, <4>1, <4>3
        <3> QED BY <3>2, <3>3
    <2> QED BY <2>1, <2>2
<1> QED BY <1>3, <1>4, NoFileTouched

LEMMA RollbackIsSafe ==
    ASSUME AdminInv, SecretInv, NEW p \in TunnelAdmins, Rollback(p)
    PROVE  SecretInv'
<1> DEFINE i == adminCmd[p].id
<1>1. PlainOK(adminCmd[p], tunnel) /\ i \in Ids
    BY IdleIsNone DEF AdminInv, Rollback, AdminAt, PlainOK
<1>2. Idle.at # "write" /\ Idle.op # "delete"
    BY DEF Idle
<1>3. CASE Deleted(i) /\ adminCmd' = [Observed(adminCmd, i) EXCEPT ![p] = Idle]
    BY <1>1, <1>2, <1>3, DeletionIsSafe DEF Rollback
<1>4. CASE Becomes(p, Idle) /\ UNCHANGED tunnel
    BY <1>2, <1>4, NoNewHands DEF Rollback
<1> QED BY <1>3, <1>4 DEF Rollback

LEMMA DeleteTunnelIsSafe ==
    ASSUME AdminInv, SecretInv, NEW p \in TunnelAdmins, DeleteTunnel(p)
    PROVE  SecretInv'
<1> DEFINE c == adminCmd[p]
           i == c.id
           d == [c EXCEPT !.at = "file"]
<1>1. PlainOK(c, tunnel) /\ c.op = "delete" /\ c.at = "delete"
    BY IdleIsNone DEF AdminInv, DeleteTunnel, AdminAt
<1>2. i \in Ids /\ ~Listing(c)
    BY <1>1 DEF PlainOK, Listing
<1>3. Idle.at # "write" /\ Idle.op # "delete"
    BY DEF Idle
<1>4. CASE Becomes(p, Idle) /\ UNCHANGED tunnel
    BY <1>3, <1>4, NoNewHands DEF DeleteTunnel
<1>5. ASSUME NEW answered \in BOOLEAN, tunnel[i].state = "live", Deleted(i),
             adminCmd' = [Observed(adminCmd, i) EXCEPT
                            ![p] = IF answered THEN [@ EXCEPT !.at = "file"] ELSE Idle]
      PROVE  SecretInv'
    <2>1. Observed(adminCmd, i)[p] = c
        BY <1>2 DEF Observed
    <2>2. adminCmd' = [Observed(adminCmd, i) EXCEPT ![p] = IF answered THEN d ELSE Idle]
        BY <1>5, <2>1 DEF Observed
    <2>3. CASE answered
        <3>1. d.at = "file" /\ d.op = "delete" /\ d.id = c.id /\ d.path = c.path
            BY <1>1, PlainMoves
        <3>2. adminCmd' = [Observed(adminCmd, i) EXCEPT ![p] = d]
            BY <2>2, <2>3
        <3>3. StillDeletes(c, tunnel)
            BY <1>1, <1>5 DEF StillDeletes
        <3> HIDE DEF d
        <3> QED BY <1>1, <1>2, <1>5, <3>1, <3>2, <3>3, DeletionIsSafe DEF DeleteTunnel
    <2>4. CASE ~answered
        <3>1. adminCmd' = [Observed(adminCmd, i) EXCEPT ![p] = Idle]
            BY <2>2, <2>4
        <3> QED BY <1>1, <1>2, <1>3, <1>5, <3>1, DeletionIsSafe DEF DeleteTunnel
    <2> QED BY <2>3, <2>4
<1> QED BY <1>4, <1>5 DEF DeleteTunnel

LEMMA CreateIsSafe ==
    ASSUME AdminInv, SecretInv, NEW p \in TunnelAdmins, CreateTunnel(p)
    PROVE  SecretInv'
<1>1. PICK n \in TunnelNames, x \in {"own", Chosen}, answered \in BOOLEAN :
        LET i == CHOOSE k \in Ids : tunnel[k].state = "none"
                     /\ \A j \in Ids : tunnel[j].state = "none" => k <= j
        IN  /\ \E k \in Ids : tunnel[k].state = "none"
            /\ tunnel' = [tunnel EXCEPT ![i] = [state |-> "live", name |-> n, conns |-> 0]]
            /\ Becomes(p, IF answered
                            THEN [op |-> "create", at |-> "stat", id |-> i,
                                  path |-> IF x = "own" THEN i ELSE x]
                            ELSE Idle)
    BY DEF CreateTunnel
<1> DEFINE Unused(k) == /\ tunnel[k].state = "none"
                        /\ \A j \in Ids : tunnel[j].state = "none" => k <= j
<1>2. PICK i \in Ids : i = (CHOOSE k \in Ids : Unused(k)) /\ Unused(i)
    <2>1. \E k \in Ids : Unused(k)
        BY <1>1, FirstUnused
    <2> QED BY <2>1
<1>3. PICK c : /\ c = IF answered THEN [op |-> "create", at |-> "stat", id |-> i,
                                        path |-> IF x = "own" THEN i ELSE x]
                                  ELSE Idle
               /\ tunnel' = [tunnel EXCEPT ![i] = [state |-> "live", name |-> n, conns |-> 0]]
               /\ Becomes(p, c)
    BY <1>1, <1>2
<1>4. c.at # "write" /\ c.op # "delete"
    BY <1>3 DEF Idle
<1>5. \A j \in Ids : tunnel'[j].state = IF j = i THEN "live" ELSE tunnel[j].state
    BY <1>3 DEF AdminInv, TunnelTypes
<1>6. made[i] = Missing
    BY <1>2 DEF AdminInv, MadeOK
<1>7. \A j \in Ids : /\ tunnel'[j].state # "deleted" => tunnel[j].state # "deleted"
                     /\ tunnel'[j].state = "live" => tunnel[j].state = "live" \/ made[j] = Missing
    BY <1>2, <1>5, <1>6
<1> QED BY <1>3, <1>4, <1>7, NoNewHands DEF CreateTunnel

\* run, cleanup, list, token and the end of a command
LEMMA OthersAreSafe ==
    ASSUME AdminInv, SecretInv, NEW p \in TunnelAdmins,
           \/ TokenCommand(p) \/ RunCommand(p) \/ CleanupCommand(p)
           \/ ListCommand(p) \/ FetchPage(p) \/ Ends(p)
    PROVE  SecretInv'
<1> DEFINE Same == /\ \A i \in Ids : tunnel'[i].state = tunnel[i].state
                   /\ UNCHANGED <<adminFile, made, crossed>>
<1>1. Same => \A i \in Ids :
        /\ tunnel'[i].state # "deleted" => tunnel[i].state # "deleted"
        /\ tunnel'[i].state = "live" => tunnel[i].state = "live" \/ made[i] = Missing
    OBVIOUS
<1>2. CASE TokenCommand(p)
    <2>1. PICK i \in Live : Becomes(p, [op |-> "token", at |-> "stat", id |-> i, path |-> Chosen])
        BY <1>2 DEF TokenCommand
    <2>2. Same
        BY <1>2 DEF TokenCommand
    <2>3. PICK c : c = [op |-> "token", at |-> "stat", id |-> i, path |-> Chosen]
        OBVIOUS
    <2> QED BY <1>1, <2>1, <2>2, <2>3, NoNewHands
<1>3. CASE RunCommand(p)
    <2>1. PICK ref \in Ids \cup TunnelNames, flag \in {Chosen, Missing} :
            \E i \in FindID(ref, flag) :
               LET x == IF flag = Missing THEN i ELSE flag
               IN  /\ i \in Live
                   /\ tunnel' = [tunnel EXCEPT ![i].conns = @ + 1]
                   /\ Becomes(p, [op |-> "run", at |-> "", id |-> i, path |-> x])
        BY <1>3 DEF RunCommand
    <2>2. PICK i \in Ids : \E x :
            /\ tunnel' = [tunnel EXCEPT ![i].conns = @ + 1]
            /\ Becomes(p, [op |-> "run", at |-> "", id |-> i, path |-> x])
        BY <2>1 DEF Live
    <2>5. PICK x : Becomes(p, [op |-> "run", at |-> "", id |-> i, path |-> x])
        BY <2>2
    <2>3. Same
        <3>1. UNCHANGED <<adminFile, made, crossed>>
            BY <1>3 DEF RunCommand
        <3>2. tunnel \in [Ids -> [state : {"none", "live", "deleted"}, name : TunnelNames, conns : Nat]]
            BY DEF AdminInv, TunnelTypes
        <3>3. \A j \in Ids : tunnel'[j].state = tunnel[j].state
            BY <2>2, <3>2
        <3> QED BY <3>1, <3>3
    <2>4. PICK c : c = [op |-> "run", at |-> "", id |-> i, path |-> x]
        OBVIOUS
    <2> QED BY <1>1, <2>3, <2>4, <2>5, NoNewHands
<1>4. CASE CleanupCommand(p)
    <2>1. PICK ref \in Ids \cup TunnelNames : \E i \in FindIDs(ref) :
            tunnel' = [tunnel EXCEPT ![i].conns = 0]
        BY <1>4 DEF CleanupCommand
    <2>2. PICK i \in Ids : tunnel' = [tunnel EXCEPT ![i].conns = 0]
        BY <2>1 DEF FindIDs, Live
    <2>3. Same
        BY <1>4, <2>2 DEF CleanupCommand, AdminInv, TunnelTypes
    <2>4. adminCmd' = adminCmd
        BY <1>4 DEF CleanupCommand
    <2>5. \A j \in Live' : j \in Live
        BY <2>3 DEF Live
    <2>6. ASSUME NEW q \in TunnelAdmins, adminCmd[q].op = "delete", StillDeletes(adminCmd[q], tunnel')
          PROVE  StillDeletes(adminCmd[q], tunnel)
        <3>1. adminCmd[q].id \in Ids
            <4>1. PlainOK(adminCmd[q], tunnel)
                BY <2>6, IdleIsNone DEF AdminInv
            <4> QED BY <4>1 DEF PlainOK
        <3> QED BY <2>3, <2>6, <3>1 DEF StillDeletes
    <2> QED BY <2>3, <2>4, <2>5, <2>6, NoFileTouched
<1>5. CASE ListCommand(p)
    <2>1. PICK c : /\ Becomes(p, c)
                   /\ c = [op |-> "list", at |-> "page", page |-> 1, got |-> <<>>,
                           since |-> Live, shrunk |-> FALSE]
        BY <1>5 DEF ListCommand
    <2>2. Same
        BY <1>5 DEF ListCommand
    <2> QED BY <1>1, <2>1, <2>2, NoNewHands
<1>6. CASE FetchPage(p)
    <2>1. PICK page, got, since, shrunk :
            adminCmd[p] = [op |-> "list", at |-> "page", page |-> page, got |-> got,
                           since |-> since, shrunk |-> shrunk]
        BY <1>6, IdleIsNone DEF AdminInv, FetchPage, AdminAt, ListOK
    <2>2. PICK all, at : /\ at \in {"page", "shown"}
                         /\ Becomes(p, [adminCmd[p] EXCEPT !.got = all, !.page = @ + 1, !.at = at])
        <3> DEFINE all == adminCmd[p].got \o PageOf(adminCmd[p].page)
                   at == IF LastPage(Len(PageOf(adminCmd[p].page)), Len(all)) THEN "shown" ELSE "page"
        <3>1. at \in {"page", "shown"}
            OBVIOUS
        <3> QED BY <1>6, <3>1 DEF FetchPage
    <2>3. PICK c : c = [op |-> "list", at |-> at, page |-> page + 1, got |-> all,
                        since |-> since, shrunk |-> shrunk]
        OBVIOUS
    <2>4. Becomes(p, c) /\ c.at # "write" /\ c.op # "delete"
        <3>0. PICK e : e = adminCmd[p]
            OBVIOUS
        <3>1. PICK d : d = [e EXCEPT !.got = all, !.page = @ + 1, !.at = at]
            OBVIOUS
        <3>2. e = [op |-> "list", at |-> "page", page |-> page, got |-> got,
                   since |-> since, shrunk |-> shrunk]
            BY <2>1, <3>0
        <3>3. d = [op |-> "list", at |-> at, page |-> page + 1, got |-> all,
                   since |-> since, shrunk |-> shrunk]
            BY <3>1, <3>2
        <3>4. Becomes(p, d)
            BY <2>2, <3>0, <3>1
        <3> QED BY <2>2, <2>3, <3>3, <3>4
    <2>5. Same
        BY <1>6 DEF FetchPage
    <2> QED BY <1>1, <2>4, <2>5, NoNewHands
<1>7. CASE Ends(p)
    <2>1. Same
        <3>1. CASE adminCmd[p].op = "run" /\ tunnel[adminCmd[p].id].conns > 0
            <4>1. PICK i \in Ids : i = adminCmd[p].id
                BY <3>1, IdleIsNone DEF AdminInv, PlainOK
            <4>2. tunnel' = [tunnel EXCEPT ![i].conns = @ - 1]
                BY <1>7, <3>1, <4>1 DEF Ends
            <4> QED BY <1>7, <4>2 DEF Ends, AdminInv, TunnelTypes
        <3>2. CASE ~(adminCmd[p].op = "run" /\ tunnel[adminCmd[p].id].conns > 0)
            BY <1>7, <3>2 DEF Ends
        <3> QED BY <3>1, <3>2
    <2>2. Becomes(p, Idle) /\ Idle.at # "write" /\ Idle.op # "delete"
        BY <1>7 DEF Ends, Idle
    <2> QED BY <1>1, <2>1, <2>2, NoNewHands
<1> QED BY <1>2, <1>3, <1>4, <1>5, <1>6, <1>7

LEMMA SecretStarts == AdminInit => SecretInv
<1> SUFFICES ASSUME AdminInit PROVE SecretInv
    OBVIOUS
<1>1. \A p \in TunnelAdmins : adminCmd[p].at # "write" /\ adminCmd[p].op # "delete"
    BY DEF AdminInit, Idle
<1>2. Live = {}
    BY DEF AdminInit, Live
<1> QED BY <1>1, <1>2 DEF SecretInv, WritesAlone, Writing, DeletesItsOwn, StillDeletes, CreatedStaysUsable

LEMMA SecretSteps == AdminInv /\ SecretInv /\ [AdminNext]_adminVars => SecretInv'
<1> SUFFICES ASSUME AdminInv, SecretInv, [AdminNext]_adminVars PROVE SecretInv'
    OBVIOUS
<1>1. CASE UNCHANGED adminVars
    <2>1. /\ tunnel' = tunnel /\ adminFile' = adminFile /\ adminCmd' = adminCmd /\ made' = made
          /\ crossed' = crossed
        BY <1>1 DEF adminVars
    <2>2. \A i \in Live' : i \in Live
        BY <2>1 DEF Live
    <2> QED BY <2>1, <2>2, NoFileTouched
<1>2. CASE AdminNext
    <2>1. PICK p \in TunnelAdmins :
            \/ CreateTunnel(p) \/ StatFile(p) \/ WriteCredentials(p) \/ Rollback(p)
            \/ DeleteCommand(p) \/ DeleteTunnel(p) \/ RemoveFile(p) \/ TokenCommand(p)
            \/ RunCommand(p) \/ CleanupCommand(p)
            \/ ListCommand(p) \/ FetchPage(p) \/ Ends(p)
        BY <1>2 DEF AdminNext
    <2> QED BY <2>1, CreateIsSafe, StatIsSafe, WriteIsSafe, RollbackIsSafe, DeleteCommandIsSafe,
               DeleteTunnelIsSafe, RemoveFileIsSafe, OthersAreSafe
<1> QED BY <1>1, <1>2

(* A tunnel that a create reported keeps its secret for as long as it is not
   deleted, for any number of processes that create, delete and run tunnels
   with the same paths and fail anywhere, at a path that no delete of another
   tunnel was given and no two commands found missing at once; and a listing
   that met no deletion shows every tunnel that was there when it began,
   whatever was created between its pages (create, delete,
   writeTunnelCredentials, fetchExhaustively).                               *)
THEOREM CredentialsLast == AdminSpec => []TunnelsAreUsable
<1>1. AdminInv /\ SecretInv => TunnelsAreUsable
    <2> SUFFICES ASSUME AdminInv, SecretInv PROVE TunnelsAreUsable
        OBVIOUS
    <2>1. CreatedStaysUsable
        BY DEF SecretInv
    <2>2. ASSUME NEW p \in TunnelAdmins, AdminAt(p, "list", "shown"), ~adminCmd[p].shrunk,
                 NEW i \in adminCmd[p].since
          PROVE  \E k \in DOMAIN adminCmd[p].got : adminCmd[p].got[k] = i
        <3>1. ListOK(adminCmd[p], LiveIn(tunnel))
            BY <2>2, IdleIsNone DEF AdminInv, AdminAt
        <3> QED BY <2>2, <3>1 DEF ListOK, AdminAt
    <2>3. ListedIsComplete
        BY <2>2 DEF ListedIsComplete
    <2> QED BY <2>1, <2>3 DEF TunnelsAreUsable
<1> QED BY <1>1, AdminStarts, AdminSteps, SecretStarts, SecretSteps, PTL DEF AdminSpec

-----------------------------------------------------------------------------
\* NetworkAdmin: what a command has looked up stays what it was asked for.

CommandRecords ==
    [op : {"add", "delete", "show", "deleteVnet", "updateVnet"}, net : Networks \cup {NotGiven},
     name : VnetNames \cup {NotGiven}, vnet : VIds \cup {NotGiven}, route : RIds \cup {NotGiven},
     named : SUBSET VIds, at : {"lookup", "list", "call"}]

Account ==
    /\ vnet \in [VIds -> [state : States, name : VnetNames]] /\ default \in VIds
    /\ route \in [RIds -> [state : States, net : Networks, vnet : VIds]]

FoundRight(c, rs) ==
    /\ c.op \in {"add", "delete", "show"} => c.net \in Networks
    /\ c.name # NotGiven /\ c.at # "lookup" => c.vnet \in c.named
    /\ c.at = "call" /\ c.op = "delete" =>
          /\ c.route \in RIds /\ rs[c.route].state # "unused"
          /\ rs[c.route].net = c.net /\ (c.vnet = NotGiven \/ rs[c.route].vnet = c.vnet)

NamesKnown(c, vs) == c.name # NotGiven => Called(vs, c.name) \subseteq c.named

NetworkInv ==
    /\ Account /\ networkCmd \in [NetworkAdmins -> CommandRecords \cup {NoCommand}]
    /\ \A p \in NetworkAdmins : networkCmd[p] # NoCommand => FoundRight(networkCmd[p], route)
    /\ \A p \in NetworkAdmins : networkCmd[p] # NoCommand => NamesKnown(networkCmd[p], vnet)
    /\ EffectsAreAsAsked

\* What is observed of the names changes nothing else of a command.
LEMMA ObservingKeeps ==
    ASSUME NEW cmds \in [NetworkAdmins -> CommandRecords \cup {NoCommand}],
           NEW vs \in [VIds -> [state : States, name : VnetNames]],
           NEW rs, NEW o, o = Observing(cmds, vs)
    PROVE  /\ o \in [NetworkAdmins -> CommandRecords \cup {NoCommand}]
           /\ \A p \in NetworkAdmins :
                 /\ cmds[p] = NoCommand => o[p] = NoCommand
                 /\ cmds[p] # NoCommand /\ FoundRight(cmds[p], rs) => FoundRight(o[p], rs)
                 /\ cmds[p] # NoCommand => NamesKnown(o[p], vs)
<1>1. ASSUME NEW p \in NetworkAdmins
      PROVE  /\ o[p] \in CommandRecords \cup {NoCommand}
             /\ cmds[p] = NoCommand => o[p] = NoCommand
             /\ cmds[p] # NoCommand /\ FoundRight(cmds[p], rs) => FoundRight(o[p], rs)
             /\ cmds[p] # NoCommand => NamesKnown(o[p], vs)
  <2>1. o[p] = IF cmds[p] = NoCommand \/ cmds[p].name = NotGiven THEN cmds[p]
               ELSE [cmds[p] EXCEPT !.named = @ \cup Called(vs, cmds[p].name)]
    BY DEF Observing
  <2>2. CASE cmds[p] = NoCommand \/ cmds[p].name = NotGiven
    BY <2>1, <2>2 DEF NamesKnown
  <2>3. CASE ~(cmds[p] = NoCommand \/ cmds[p].name = NotGiven)
    <3>1. PICK V : V = Called(vs, cmds[p].name)
      OBVIOUS
    <3>2. V \subseteq VIds
      BY <3>1 DEF Called, LiveOf
    <3>3. cmds[p] \in CommandRecords /\ o[p] = [cmds[p] EXCEPT !.named = @ \cup V]
      BY <2>1, <2>3, <3>1
    <3>4. o[p] \in CommandRecords
      BY <3>2, <3>3 DEF CommandRecords
    <3>5. FoundRight(cmds[p], rs) => FoundRight(o[p], rs)
      BY <3>3 DEF CommandRecords, FoundRight
    <3>6. o[p].named = cmds[p].named \cup V /\ o[p].name = cmds[p].name
      BY <3>3 DEF CommandRecords
    <3>7. NamesKnown(o[p], vs)
      BY <3>1, <3>6 DEF NamesKnown
    <3> QED BY <2>3, <3>4, <3>5, <3>7
  <2> QED BY <2>2, <2>3
<1>2. o \in [NetworkAdmins -> CommandRecords \cup {NoCommand}]
  <2>1. DOMAIN o = NetworkAdmins /\ o = [p \in NetworkAdmins |-> o[p]]
    BY DEF Observing
  <2> QED BY <1>1, <2>1
<1> QED BY <1>1, <1>2

\* A step after which the routes that are known are what they were.
RoutesAreKept == \A r \in RIds : route[r].state # "unused" =>
    /\ route'[r].state # "unused" /\ route'[r].net = route[r].net /\ route'[r].vnet = route[r].vnet

LEMMA OthersStayRight ==
    ASSUME NetworkInv, Account', RoutesAreKept, EffectsAreAsAsked',
           NEW p \in NetworkAdmins, NEW c \in CommandRecords \cup {NoCommand},
           c # NoCommand => FoundRight(c, route'),
           networkCmd' = Observing([networkCmd EXCEPT ![p] = c], vnet')
    PROVE  NetworkInv'
<1>1. networkCmd \in [NetworkAdmins -> CommandRecords \cup {NoCommand}]
    BY DEF NetworkInv
<1>2. PICK cmds : cmds = [networkCmd EXCEPT ![p] = c]
    OBVIOUS
<1>3. /\ cmds \in [NetworkAdmins -> CommandRecords \cup {NoCommand}] /\ cmds[p] = c
      /\ \A q \in NetworkAdmins : q # p => cmds[q] = networkCmd[q]
    BY <1>1, <1>2
<1>4. ASSUME NEW q \in NetworkAdmins, cmds[q] # NoCommand
      PROVE  FoundRight(cmds[q], route')
  <2>1. CASE q = p
    BY <1>3, <1>4, <2>1
  <2>2. CASE q # p
    <3>1. FoundRight(cmds[q], route)
      BY <1>3, <1>4, <2>2 DEF NetworkInv
    <3> QED BY <3>1 DEF FoundRight, RoutesAreKept
  <2> QED BY <2>1, <2>2
<1>5. PICK o : o = networkCmd'
    OBVIOUS
<1>6. PICK vs, rs : vs = vnet' /\ rs = route'
    OBVIOUS
<1>7. vs \in [VIds -> [state : States, name : VnetNames]] /\ o = Observing(cmds, vs)
    BY <1>2, <1>5, <1>6 DEF Account
<1>8. o \in [NetworkAdmins -> CommandRecords \cup {NoCommand}]
    BY <1>3, <1>7, ObservingKeeps
<1>9. \A q \in NetworkAdmins : cmds[q] = NoCommand => o[q] = NoCommand
    BY <1>3, <1>7, ObservingKeeps
<1>10. \A q \in NetworkAdmins : cmds[q] # NoCommand /\ FoundRight(cmds[q], rs) => FoundRight(o[q], rs)
    BY <1>3, <1>7, ObservingKeeps
<1>11. \A q \in NetworkAdmins : cmds[q] # NoCommand => NamesKnown(o[q], vs)
    BY <1>3, <1>7, ObservingKeeps
<1>12. \A q \in NetworkAdmins : o[q] # NoCommand => FoundRight(o[q], rs) /\ NamesKnown(o[q], vs)
    BY <1>4, <1>6, <1>9, <1>10, <1>11
<1> QED BY <1>5, <1>6, <1>8, <1>12 DEF NetworkInv

LEMMA IsACommand ==
    ASSUME NetworkInv, NEW p \in NetworkAdmins, networkCmd[p] # NoCommand
    PROVE  /\ networkCmd[p] \in CommandRecords /\ FoundRight(networkCmd[p], route)
           /\ NamesKnown(networkCmd[p], vnet)
BY DEF NetworkInv

\* The steps that look something up.
LEMMA LookupHolds ==
    ASSUME NetworkInv, NEW p \in NetworkAdmins,
           StartCommand(p) \/ GetVnetId(p) \/ GetRouteId(p) \/ CallFails(p)
    PROVE  NetworkInv'
<1>1. UNCHANGED <<vnet, default, route>> /\ last' = NotGiven
    BY DEF StartCommand, GetVnetId, GetRouteId, CallFails, Step
<1>2. Account /\ Account' /\ RoutesAreKept /\ EffectsAreAsAsked'
    BY <1>1 DEF NetworkInv, Account, RoutesAreKept, EffectsAreAsAsked, OnRoute, OnVnet
<1>3. ASSUME NEW c \in CommandRecords \cup {NoCommand}, c # NoCommand => FoundRight(c, route), Step(p, c)
      PROVE  NetworkInv'
    BY <1>1, <1>2, <1>3, OthersStayRight DEF Step
<1>4. ASSUME Step(p, NoCommand)
      PROVE  NetworkInv'
    BY <1>3, <1>4
<1>5. CASE StartCommand(p)
  <2>2. PICK op \in {"add", "delete", "show", "deleteVnet", "updateVnet"},
             net \in Networks \cup {NotGiven}, name \in VnetNames \cup {NotGiven},
             id \in {v \in VIds : vnet[v].state # "unused"} \cup {NotGiven} :
           /\ name = NotGiven \/ id = NotGiven
           /\ IF op \in {"deleteVnet", "updateVnet"}
                THEN net = NotGiven /\ (name # NotGiven \/ id # NotGiven)
                ELSE net # NotGiven
           /\ op = "show" => name = NotGiven /\ id = NotGiven
           /\ Step(p, [op |-> op, net |-> net, name |-> name, vnet |-> id, route |-> NotGiven,
                       named |-> {},
                       at |-> IF name # NotGiven THEN "lookup"
                              ELSE IF op = "delete" THEN "list" ELSE "call"])
    BY <1>5 DEF StartCommand
  <2>3. PICK c : c = [op |-> op, net |-> net, name |-> name, vnet |-> id, route |-> NotGiven,
                      named |-> {},
                      at |-> IF name # NotGiven THEN "lookup"
                             ELSE IF op = "delete" THEN "list" ELSE "call"]
    OBVIOUS
  <2>4. c \in CommandRecords
    BY <2>3 DEF CommandRecords
  <2>5. FoundRight(c, route)
    BY <2>2, <2>3 DEF FoundRight
  <2> QED BY <1>3, <2>2, <2>3, <2>4, <2>5
<1>6. CASE GetVnetId(p)
  <2>1. PICK found : found = Called(vnet, networkCmd[p].name)
    OBVIOUS
  <2>2. \/ Step(p, NoCommand)
        \/ /\ Cardinality(found) = 1
           /\ Step(p, [networkCmd[p] EXCEPT !.vnet = CHOOSE v \in found : TRUE,
                                            !.at = IF networkCmd[p].op = "delete"
                                                      THEN "list" ELSE "call"])
    BY <1>6, <2>1 DEF GetVnetId
  <2>3. CASE Cardinality(found) = 1
    <3>1. PICK v \in found : v = CHOOSE w \in found : TRUE
      <4>1. found # {}
        BY <2>3, FS_EmptySet
      <4> QED BY <4>1
    <3>2. found \subseteq VIds
      BY <2>1, <1>2 DEF Called, LiveOf, Account
    <3>3. PICK d \in CommandRecords : /\ d = networkCmd[p] /\ d.at = "lookup"
                                      /\ NamesKnown(d, vnet) /\ FoundRight(d, route)
      BY <1>6, IsACommand DEF GetVnetId, NetworkAt
    <3>4. PICK at \in {"list", "call"} : at = IF d.op = "delete" THEN "list" ELSE "call"
      OBVIOUS
    <3>5. PICK c : c = [d EXCEPT !.vnet = v, !.at = at]
      OBVIOUS
    <3>6. /\ c \in CommandRecords /\ c.vnet = v /\ c.named = d.named /\ c.name = d.name
          /\ c.at = at /\ c.op = d.op /\ c.net = d.net
      BY <3>1, <3>2, <3>5 DEF CommandRecords
    <3>7. c.name # NotGiven => v \in c.named
      BY <2>1, <3>1, <3>3, <3>6 DEF NamesKnown
    <3>8. FoundRight(c, route)
      BY <3>3, <3>4, <3>6, <3>7 DEF FoundRight
    <3>9. Step(p, NoCommand) \/ Step(p, c)
      BY <2>2, <3>1, <3>3, <3>4, <3>5
    <3> QED BY <1>3, <1>4, <3>6, <3>8, <3>9
  <2> QED BY <1>4, <2>2, <2>3
<1>7. CASE GetRouteId(p)
  <2>1. PICK found : found = {r \in LiveOf(route) : Match(r, networkCmd[p].net, networkCmd[p].vnet)}
    OBVIOUS
  <2>2. \/ Step(p, NoCommand)
        \/ /\ Cardinality(found) = 1
           /\ Step(p, [networkCmd[p] EXCEPT !.route = CHOOSE r \in found : TRUE, !.at = "call"])
    BY <1>7, <2>1 DEF GetRouteId
  <2>3. CASE Cardinality(found) = 1
    <3>1. PICK r \in found : r = CHOOSE w \in found : TRUE
      <4>1. found # {}
        BY <2>3, FS_EmptySet
      <4> QED BY <4>1
    <3>2. PICK d \in CommandRecords : /\ d = networkCmd[p] /\ d.at = "list" /\ FoundRight(d, route)
      BY <1>7, IsACommand DEF GetRouteId, NetworkAt
    <3>3. /\ r \in RIds /\ route[r].state # "unused" /\ route[r].net = d.net
          /\ d.vnet = NotGiven \/ route[r].vnet = d.vnet
      BY <1>2, <2>1, <3>2 DEF LiveOf, Match, Account
    <3>4. PICK c : c = [d EXCEPT !.route = r, !.at = "call"]
      OBVIOUS
    <3>5. /\ c \in CommandRecords /\ c.vnet = d.vnet /\ c.named = d.named /\ c.name = d.name
          /\ c.at = "call" /\ c.op = d.op /\ c.net = d.net /\ c.route = r
      BY <3>3, <3>4 DEF CommandRecords
    <3>6. FoundRight(c, route)
      BY <3>2, <3>3, <3>5 DEF FoundRight
    <3>7. Step(p, NoCommand) \/ Step(p, c)
      BY <2>2, <3>1, <3>2, <3>4
    <3> QED BY <1>3, <1>4, <3>5, <3>6, <3>7
  <2> QED BY <1>4, <2>2, <2>3
<1>8. CASE CallFails(p)
    BY <1>4, <1>8 DEF CallFails
<1> QED BY <1>5, <1>6, <1>7, <1>8

\* The last call of a command, and the creation of a network.
LEMMA EffectHolds ==
    ASSUME NetworkInv, Account', RoutesAreKept, EffectsAreAsAsked', NEW p \in NetworkAdmins,
           NEW on, Effect(p, on)
    PROVE  NetworkInv'
BY OthersStayRight DEF Effect

LEMMA RouteCallsHold ==
    ASSUME NetworkInv, NEW p \in NetworkAdmins, AddRoute(p) \/ DeleteRoute(p) \/ ListRoutes(p)
    PROVE  NetworkInv'
<1>1. PICK c \in CommandRecords : c = networkCmd[p] /\ FoundRight(c, route) /\ c.at = "call"
    BY IsACommand DEF AddRoute, DeleteRoute, ListRoutes, Calls, NetworkAt
<1>2. Account
    BY DEF NetworkInv
<1>3. CASE AddRoute(p)
  <2>1. PICK v : v = IF c.vnet = NotGiven THEN default ELSE c.vnet
    OBVIOUS
  <2>2. PICK r \in RIds :
            /\ IsFirst(route, r) /\ Effect(p, r)
            /\ route' = [route EXCEPT ![r] = [state |-> "live", net |-> c.net, vnet |-> v]]
    BY <1>1, <1>3, <2>1 DEF AddRoute
  <2>3. /\ v \in VIds /\ UNCHANGED <<vnet, default>> /\ c.op = "add"
        /\ last' = [cmd |-> c, on |-> r, default |-> default]
    BY <1>1, <1>2, <1>3, <2>1, <2>2 DEF AddRoute, LiveOf, Account, Calls, Effect
  <2>4. c.net \in Networks /\ (c.name # NotGiven => c.vnet \in c.named /\ c.vnet \in VIds)
    BY <1>1, <2>3 DEF FoundRight, CommandRecords
  <2>5. /\ route' \in [RIds -> [state : States, net : Networks, vnet : VIds]]
        /\ route'[r] = [state |-> "live", net |-> c.net, vnet |-> v]
        /\ \A s \in RIds : s # r => route'[s] = route[s]
    <3>1. [state |-> "live", net |-> c.net, vnet |-> v] \in [state : States, net : Networks, vnet : VIds]
      BY <2>3, <2>4 DEF States
    <3> QED BY <1>2, <2>2, <3>1 DEF Account
  <2>6. Account'
    BY <1>2, <2>3, <2>5 DEF Account
  <2>7. RoutesAreKept
    BY <2>2, <2>5 DEF RoutesAreKept, IsFirst
  <2>8. /\ c.name # NotGiven => v \in c.named
        /\ c.name = NotGiven /\ c.vnet # NotGiven => v = c.vnet
        /\ c.vnet = NotGiven => v = default
    BY <2>1, <2>4, NetworkAssumption
  <2>9. PICK l : l = last'
    OBVIOUS
  <2>10. l.cmd = c /\ l.on = r /\ l.default = default /\ last' = l
    BY <2>3, <2>9
  <2>11. EffectsAreAsAsked'
    BY <2>3, <2>5, <2>8, <2>10 DEF EffectsAreAsAsked, OnRoute, OnVnet
  <2> QED BY <2>2, <2>6, <2>7, <2>11, EffectHolds
<1>4. CASE DeleteRoute(p)
  <2>1. /\ c.op = "delete" /\ UNCHANGED <<vnet, default>>
        /\ route' = [route EXCEPT ![c.route].state = "deleted"] /\ Effect(p, c.route)
        /\ last' = [cmd |-> c, on |-> c.route, default |-> default]
    BY <1>1, <1>4 DEF DeleteRoute, Calls, Effect
  <2>2. /\ c.route \in RIds /\ route[c.route].net = c.net
        /\ c.vnet = NotGiven \/ route[c.route].vnet = c.vnet
        /\ c.name # NotGiven => c.vnet \in c.named /\ c.vnet \in VIds
    BY <1>1, <2>1 DEF FoundRight, CommandRecords
  <2>3. /\ route' \in [RIds -> [state : States, net : Networks, vnet : VIds]]
        /\ \A s \in RIds : /\ route'[s].state = route[s].state \/ route'[s].state = "deleted"
                           /\ route'[s].net = route[s].net /\ route'[s].vnet = route[s].vnet
    <3>1. route \in [RIds -> [state : States, net : Networks, vnet : VIds]] /\ "deleted" \in States
      BY <1>2 DEF Account, States
    <3> QED BY <2>1, <2>2, <3>1
  <2>4. Account'
    BY <1>2, <2>1, <2>3 DEF Account
  <2>5. RoutesAreKept
    BY <2>3 DEF RoutesAreKept
  <2>6. PICK l : l = last'
    OBVIOUS
  <2>7. l.cmd = c /\ l.on = c.route /\ last' = l
    BY <2>1, <2>6
  <2>8. EffectsAreAsAsked'
    BY <2>1, <2>2, <2>3, <2>7, NetworkAssumption DEF EffectsAreAsAsked, OnRoute, OnVnet
  <2> QED BY <2>1, <2>4, <2>5, <2>8, EffectHolds
<1>5. CASE ListRoutes(p)
  <2>1. /\ c.op = "show" /\ UNCHANGED <<vnet, default, route>> /\ Effect(p, SubsetFilter(c.net))
        /\ last' = [cmd |-> c, on |-> SubsetFilter(c.net), default |-> default]
    BY <1>1, <1>5 DEF ListRoutes, Calls, Effect
  <2>2. Account' /\ RoutesAreKept
    BY <1>2, <2>1 DEF Account, RoutesAreKept
  <2>3. PICK l : l = last'
    OBVIOUS
  <2>4. l.cmd = c /\ last' = l
    BY <2>1, <2>3
  <2>5. EffectsAreAsAsked'
    BY <2>1, <2>4 DEF EffectsAreAsAsked, OnRoute, OnVnet
  <2> QED BY <2>1, <2>2, <2>5, EffectHolds
<1> QED BY <1>3, <1>4, <1>5

LEMMA VnetCallsHold ==
    ASSUME NetworkInv, NEW p \in NetworkAdmins, DeleteVirtualNetwork(p) \/ UpdateVirtualNetwork(p)
    PROVE  NetworkInv'
<1>1. PICK c \in CommandRecords : c = networkCmd[p] /\ FoundRight(c, route) /\ c.at = "call"
    BY IsACommand DEF DeleteVirtualNetwork, UpdateVirtualNetwork, Calls, NetworkAt
<1>2. /\ vnet \in [VIds -> [state : States, name : VnetNames]] /\ default \in VIds
      /\ route \in [RIds -> [state : States, net : Networks, vnet : VIds]]
    BY DEF NetworkInv, Account
<1>3. /\ c.vnet \in VIds /\ c.op \in {"deleteVnet", "updateVnet"} /\ Effect(p, c.vnet)
      /\ last' = [cmd |-> c, on |-> c.vnet, default |-> default]
    BY <1>1, <1>2 DEF DeleteVirtualNetwork, UpdateVirtualNetwork, Calls, Effect, LiveOf
<1>4. c.name # NotGiven => c.vnet \in c.named
    BY <1>1 DEF FoundRight
<1>5. PICK l : l = last'
    OBVIOUS
<1>6. l.cmd = c /\ l.on = c.vnet /\ last' = l
    BY <1>3, <1>5
<1>7. EffectsAreAsAsked'
    BY <1>3, <1>4, <1>6 DEF EffectsAreAsAsked, OnRoute, OnVnet
<1>8. CASE DeleteVirtualNetwork(p)
  <2>1. /\ vnet' = [vnet EXCEPT ![c.vnet].state = "deleted"] /\ default' = default
        /\ \E used : route' = [r \in RIds |-> IF r \in used THEN [route[r] EXCEPT !.state = "deleted"]
                                                            ELSE route[r]]
    BY <1>1, <1>8 DEF DeleteVirtualNetwork
  <2>2. PICK used : route' = [r \in RIds |-> IF r \in used THEN [route[r] EXCEPT !.state = "deleted"]
                                                           ELSE route[r]]
    BY <2>1
  <2>3. ASSUME NEW r \in RIds
        PROVE  /\ route'[r] \in [state : States, net : Networks, vnet : VIds]
               /\ route'[r].state = route[r].state \/ route'[r].state = "deleted"
               /\ route'[r].net = route[r].net /\ route'[r].vnet = route[r].vnet
    <3>1. route[r] \in [state : States, net : Networks, vnet : VIds] /\ "deleted" \in States
      BY <1>2 DEF States
    <3>2. route'[r] = IF r \in used THEN [route[r] EXCEPT !.state = "deleted"] ELSE route[r]
      BY <2>2
    <3> QED BY <3>1, <3>2
  <2>4. route' \in [RIds -> [state : States, net : Networks, vnet : VIds]] /\ RoutesAreKept
    BY <2>2, <2>3 DEF RoutesAreKept
  <2>5. vnet' \in [VIds -> [state : States, name : VnetNames]]
    BY <1>2, <1>3, <2>1 DEF States
  <2>6. Account'
    BY <1>2, <2>1, <2>4, <2>5 DEF Account
  <2> QED BY <1>3, <1>7, <2>4, <2>6, EffectHolds
<1>9. CASE UpdateVirtualNetwork(p)
  <2>1. PICK n \in VnetNames : vnet' = [vnet EXCEPT ![c.vnet].name = n]
    BY <1>1, <1>9 DEF UpdateVirtualNetwork
  <2>2. default' \in VIds /\ route' = route
    BY <1>1, <1>2, <1>3, <1>9 DEF UpdateVirtualNetwork
  <2>3. vnet' \in [VIds -> [state : States, name : VnetNames]]
    BY <1>2, <1>3, <2>1
  <2>4. Account' /\ RoutesAreKept
    BY <1>2, <2>2, <2>3 DEF Account, RoutesAreKept
  <2> QED BY <1>3, <1>7, <2>4, EffectHolds
<1> QED BY <1>8, <1>9 DEF DeleteVirtualNetwork, UpdateVirtualNetwork

LEMMA CreationHolds ==
    ASSUME NetworkInv, NEW p \in NetworkAdmins, CreateVirtualNetwork(p)
    PROVE  NetworkInv'
<1>1. PICK n \in VnetNames, v \in VIds :
          /\ vnet' = [vnet EXCEPT ![v] = [state |-> "live", name |-> n]] /\ default' \in {default, v}
    BY DEF CreateVirtualNetwork
<1>2. /\ networkCmd' = Observing(networkCmd, vnet') /\ last' = NotGiven /\ route' = route
      /\ networkCmd[p] = NoCommand
    BY DEF CreateVirtualNetwork
<1>3. Account /\ networkCmd \in [NetworkAdmins -> CommandRecords \cup {NoCommand}]
    BY DEF NetworkInv
<1>4. [state |-> "live", name |-> n] \in [state : States, name : VnetNames]
    BY DEF States
<1>5. Account' /\ RoutesAreKept
    BY <1>1, <1>2, <1>3, <1>4 DEF Account, RoutesAreKept
<1>6. EffectsAreAsAsked'
    BY <1>2 DEF EffectsAreAsAsked, OnRoute, OnVnet
<1>7. networkCmd = [networkCmd EXCEPT ![p] = NoCommand]
    BY <1>2, <1>3
<1>8. networkCmd' = Observing([networkCmd EXCEPT ![p] = NoCommand], vnet')
    BY <1>2, <1>7
<1> QED BY <1>5, <1>6, <1>8, OthersStayRight

\* Although the account changes between the calls of a command, its effect is on
\* the route and the virtual network that were asked for (getVnetId, getRouteId).
THEOREM CommandsDoAsAsked == NetworkSpec => []EffectsAreAsAsked
<1>1. NetworkInit => NetworkInv
  <2> SUFFICES ASSUME NetworkInit PROVE NetworkInv
    OBVIOUS
  <2>1. PICK some \in VnetNames, net \in Networks :
            /\ vnet = [v \in VIds |-> [state |-> IF v = 1 THEN "live" ELSE "unused", name |-> some]]
            /\ route = [r \in RIds |-> [state |-> "unused", net |-> net, vnet |-> 1]]
    BY NetworkAssumption DEF NetworkInit
  <2>2. vnet \in [VIds -> [state : States, name : VnetNames]]
    BY <2>1 DEF States
  <2>3. route \in [RIds -> [state : States, net : Networks, vnet : VIds]]
    BY <2>1, NetworkAssumption DEF States
  <2>4. /\ default \in VIds /\ networkCmd = [p \in NetworkAdmins |-> NoCommand] /\ last = NotGiven
    BY NetworkAssumption DEF NetworkInit
  <2> QED BY <2>2, <2>3, <2>4 DEF NetworkInv, Account, EffectsAreAsAsked, OnRoute, OnVnet
<1>2. NetworkInv /\ [NetworkNext]_networkVars => NetworkInv'
  <2> SUFFICES ASSUME NetworkInv, [NetworkNext]_networkVars PROVE NetworkInv'
    OBVIOUS
  <2>1. CASE NetworkNext
    BY <2>1, LookupHolds, RouteCallsHold, VnetCallsHold, CreationHolds DEF NetworkNext
  <2>2. CASE UNCHANGED networkVars
    BY <2>2 DEF networkVars, NetworkInv, Account, EffectsAreAsAsked, OnRoute, OnVnet
  <2> QED BY <2>1, <2>2
<1>3. NetworkInv => EffectsAreAsAsked
    BY DEF NetworkInv
<1> QED BY <1>1, <1>2, <1>3, PTL DEF NetworkSpec

-----------------------------------------------------------------------------
\* ServiceInstall: what is left of a command says what is done of it.

InstallWords == {"copy", "service", "update", "timer", "enable", "startTimer", "reload", "events",
                 "start"}
UninstallWords == {"query", "disable", "stop", "stopTimer", "remove", "reload", "events"}

Ahead == {todo[i] : i \in DOMAIN todo}

\* No step twice, the start last, the removal after the stops, and only the copy of
\* the configuration before the service.
InOrder(s) == \A i, j \in DOMAIN s : i < j =>
    /\ s[i] # s[j] /\ s[i] # "start"
    /\ s[i] = "remove" => s[j] \notin {"stop", "stopTimer"}
    /\ s[j] = "service" => s[i] = "copy"

MachineInv ==
    /\ system \in Systems /\ unit \in [Units -> Args \cup {Broken, Nothing}]
    /\ marked \in BOOLEAN /\ timer \in BOOLEAN /\ enabled \subseteq {"service"}
    /\ running # Nothing => running \in Args /\ (revived \/ unit["service"] = running)
    /\ {updating, revived, loggedIn} \subseteq BOOLEAN
    /\ revived => system = "systemd" /\ running # Nothing
    /\ updating => system = "systemd"
    /\ ~loggedIn => system = "launchAgent" /\ running = Nothing
    /\ marked => system = "windows" /\ running # Nothing
    /\ timer => unit["timer"] # Nothing
    /\ system # "systemd" => unit["update"] = Nothing /\ unit["timer"] = Nothing

InstallClaims(S) ==
    /\ installCmd.args \in Args /\ S \subseteq InstallWords /\ (S # {} => "start" \in S)
    /\ S \cap {"update", "timer", "startTimer"} # {} => system = "systemd"
    /\ "service" \notin S => /\ unit["service"] = installCmd.args /\ ~marked
                             /\ "start" \in S =>
                                \/ running = Nothing
                                \/ system = "systemd" /\ (running = installCmd.args \/ revived)
    /\ "enable" \notin S /\ system = "systemd" => "service" \in enabled
    /\ "start" \notin S => \/ running = installCmd.args \/ revived
                           \/ ~loggedIn /\ running = Nothing
                           \/ system = "sysv" /\ running = Nothing /\ enabled = {}

UninstallClaims(S) ==
    /\ installCmd \in [op : {"uninstall"}, skipped : SUBSET Units]
    /\ S \subseteq UninstallWords /\ ("query" \in S => S = {"query"})
    /\ "query" \notin S =>
          /\ \A u \in Units \ installCmd.skipped :
                u \in installLeft \/ unit[u] = Nothing \/ (marked /\ u = "service")
          /\ "remove" \notin S => installLeft = {}
          /\ "stop" \notin S /\ "service" \in installLeft /\ system # "windows" =>
                running = Nothing \/ revived
          /\ "stopTimer" \notin S /\ "timer" \in installLeft => ~timer

UnderWay == todo # <<>> \/ installDone # Nothing
Claims(S) ==
    /\ installCmd.op \in {"install", "uninstall"} /\ installLeft \subseteq Units
    /\ installCmd.op = "install" => InstallClaims(S)
    /\ installCmd.op = "uninstall" => UninstallClaims(S)

InstallInv ==
    /\ MachineInv
    /\ todo \in Seq(InstallWords \cup UninstallWords) /\ InOrder(todo)
    /\ installDone # Nothing => todo = <<>> /\ installDone = installCmd
    /\ todo # <<>> => loggedIn
    /\ UnderWay => Claims(Ahead)

\* A command is at its first step, and goes on or breaks off.
LEMMA FirstStep ==
    ASSUME InstallInv, todo # <<>>
    PROVE  /\ Claims(Ahead) /\ Head(todo) \in Ahead /\ installDone = Nothing
           /\ Head(todo) = "remove" => Ahead \cap {"stop", "stopTimer"} = {}
           /\ "service" \in Ahead => Head(todo) \in {"copy", "service"}
           /\ Head(todo) = "start" => Ahead = {"start"}
<1>1. /\ Head(todo) = todo[1] /\ 1 \in DOMAIN todo /\ \A i \in DOMAIN todo : i = 1 \/ 1 < i
    BY DEF InstallInv
<1>2. \A x \in Ahead : \E i \in DOMAIN todo : x = todo[i]
    BY DEF Ahead
<1>3. todo[1] \in Ahead
    BY <1>1 DEF Ahead
<1> QED BY <1>1, <1>2, <1>3 DEF InstallInv, InOrder, UnderWay

\* The tail of a command is in order, and ahead is all but what was the first step.
LEMMA GoesOn ==
    ASSUME InstallInv, todo # <<>>, Advance, MachineInv', installCmd' = installCmd,
           NEW S, S = Ahead \ {Head(todo)}, Claims(S)', loggedIn' = loggedIn
    PROVE  InstallInv'
<1> DEFINE W == InstallWords \cup UninstallWords
<1>1. /\ todo \in Seq(W) /\ InOrder(todo)
    BY DEF InstallInv
<1> HIDE DEF W
<1>2. /\ Tail(todo) \in Seq(W) /\ Len(Tail(todo)) = Len(todo) - 1 /\ DOMAIN Tail(todo) = 1..Len(todo) - 1
      /\ \A i \in DOMAIN Tail(todo) : i + 1 \in DOMAIN todo /\ Tail(todo)[i] = todo[i + 1]
      /\ DOMAIN todo = 1..Len(todo) /\ Len(todo) \in Nat \ {0} /\ Head(todo) = todo[1]
    BY <1>1
<1>3. InOrder(Tail(todo))
    BY <1>1, <1>2 DEF InOrder
<1>4. {Tail(todo)[i] : i \in DOMAIN Tail(todo)} = S
  <2>1. ASSUME NEW i \in DOMAIN todo, i # 1
        PROVE  i - 1 \in DOMAIN Tail(todo) /\ Tail(todo)[i - 1] = todo[i] /\ todo[i] # todo[1]
    <3>1. i - 1 \in DOMAIN Tail(todo) /\ i - 1 + 1 = i
      BY <1>2, <2>1
    <3>2. Tail(todo)[i - 1] = todo[i]
      BY <1>2, <3>1
    <3> QED BY <1>1, <1>2, <2>1, <3>1, <3>2 DEF InOrder
  <2>2. ASSUME NEW i \in DOMAIN Tail(todo)
        PROVE  i + 1 \in DOMAIN todo /\ i + 1 # 1 /\ Tail(todo)[i] = todo[i + 1]
    BY <1>2
  <2>3. ASSUME NEW x, x \in S
        PROVE  x \in {Tail(todo)[i] : i \in DOMAIN Tail(todo)}
    <3>1. PICK i \in DOMAIN todo : x = todo[i] /\ x # todo[1]
      BY <1>2, <2>3 DEF Ahead
    <3> QED BY <2>1, <3>1
  <2>4. ASSUME NEW i \in DOMAIN Tail(todo)
        PROVE  Tail(todo)[i] \in S
    <3>1. i + 1 \in DOMAIN todo /\ Tail(todo)[i] = todo[i + 1] /\ todo[i + 1] # todo[1]
      BY <2>1, <2>2
    <3> QED BY <1>2, <3>1 DEF Ahead
  <2> QED BY <2>3, <2>4
<1>5. /\ todo' = Tail(todo) /\ installDone' = IF Len(todo) = 1 THEN installCmd ELSE Nothing
    BY DEF Advance
<1>6. Ahead' = S
    BY <1>4, <1>5 DEF Ahead
<1>7. installDone' # Nothing => todo' = <<>> /\ installDone' = installCmd'
    BY <1>2, <1>5
<1> QED BY <1>2, <1>3, <1>5, <1>6, <1>7 DEF InstallInv, W

LEMMA BreaksOff ==
    ASSUME InstallInv, MachineInv', todo' = <<>>, installDone' = Nothing
    PROVE  InstallInv'
<1>1. <<>> \in Seq(InstallWords \cup UninstallWords) /\ InOrder(<<>>)
    BY DEF InOrder
<1> QED BY <1>1 DEF InstallInv, UnderWay

\* The sequences of steps a command may begin with, or goes on with.
InstallLists == {<<"service", "update", "timer", "enable", "startTimer", "reload", "start">>,
                 <<"service", "enable", "reload", "start">>,
                 <<"service", "enable", "start">>,
                 <<"service", "start">>,
                 <<"service", "events", "start">>}
UninstallLists == {<<"query">>,
                   <<"stop", "remove", "disable">>,
                   <<"stop", "remove">>,
                   <<"stop", "remove", "events">>,
                   <<"reload">>,
                   <<"remove", "reload">>,
                   <<"stopTimer", "remove", "reload">>,
                   <<"disable", "stop", "remove", "reload">>,
                   <<"disable", "stop", "stopTimer", "remove", "reload">>}

LEMMA StepLists ==
    ASSUME NEW s \in InstallLists \cup UninstallLists
    PROVE  s \in Seq(InstallWords \cup UninstallWords) /\ InOrder(s) /\ s # <<>>
<1>1. CASE s = <<"service", "update", "timer", "enable", "startTimer", "reload", "start">>
    BY <1>1 DEF InstallWords, UninstallWords, InOrder
<1>2. CASE s = <<"service", "enable", "reload", "start">>
    BY <1>2 DEF InstallWords, UninstallWords, InOrder
<1>3. CASE s = <<"service", "enable", "start">>
    BY <1>3 DEF InstallWords, UninstallWords, InOrder
<1>4. CASE s = <<"service", "start">>
    BY <1>4 DEF InstallWords, UninstallWords, InOrder
<1>5. CASE s = <<"service", "events", "start">>
    BY <1>5 DEF InstallWords, UninstallWords, InOrder
<1>6. CASE s = <<"query">>
    BY <1>6 DEF InstallWords, UninstallWords, InOrder
<1>7. CASE s = <<"stop", "remove", "disable">>
    BY <1>7 DEF InstallWords, UninstallWords, InOrder
<1>8. CASE s = <<"stop", "remove">>
    BY <1>8 DEF InstallWords, UninstallWords, InOrder
<1>9. CASE s = <<"stop", "remove", "events">>
    BY <1>9 DEF InstallWords, UninstallWords, InOrder
<1>10. CASE s = <<"reload">>
    BY <1>10 DEF InstallWords, UninstallWords, InOrder
<1>11. CASE s = <<"remove", "reload">>
    BY <1>11 DEF InstallWords, UninstallWords, InOrder
<1>12. CASE s = <<"stopTimer", "remove", "reload">>
    BY <1>12 DEF InstallWords, UninstallWords, InOrder
<1>13. CASE s = <<"disable", "stop", "remove", "reload">>
    BY <1>13 DEF InstallWords, UninstallWords, InOrder
<1>14. CASE s = <<"disable", "stop", "stopTimer", "remove", "reload">>
    BY <1>14 DEF InstallWords, UninstallWords, InOrder
<1> QED BY <1>1, <1>2, <1>3, <1>4, <1>5, <1>6, <1>7, <1>8, <1>9, <1>10, <1>11, <1>12, <1>13, <1>14 DEF InstallLists, UninstallLists

\* ... and after the copy of the configuration.
LEMMA CopyFirst ==
    ASSUME NEW s \in Seq(InstallWords), InOrder(s), \A i \in DOMAIN s : s[i] # "copy"
    PROVE  /\ <<"copy">> \o s \in Seq(InstallWords) /\ InOrder(<<"copy">> \o s)
           /\ \A x : (\E i \in DOMAIN (<<"copy">> \o s) : x = (<<"copy">> \o s)[i])
                   <=> x = "copy" \/ \E i \in DOMAIN s : x = s[i]
<1> DEFINE t == <<"copy">> \o s
<1>1. /\ t \in Seq(InstallWords) /\ DOMAIN t = 1..Len(s) + 1 /\ DOMAIN s = 1..Len(s) /\ Len(s) \in Nat
      /\ t[1] = "copy" /\ \A i \in DOMAIN t : i # 1 => i - 1 \in DOMAIN s /\ t[i] = s[i - 1]
      /\ \A i \in DOMAIN s : i + 1 \in DOMAIN t /\ t[i + 1] = s[i]
    BY DEF InstallWords
<1> HIDE DEF t
<1>2. InOrder(t)
    BY <1>1 DEF InOrder
<1>3. ASSUME NEW x
      PROVE  (\E i \in DOMAIN t : x = t[i]) <=> x = "copy" \/ \E i \in DOMAIN s : x = s[i]
    BY <1>1
<1> QED BY <1>1, <1>2, <1>3 DEF t

On(x, s) == \E i \in DOMAIN s : x = s[i]

LEMMA InstallListsCopyNothing ==
    ASSUME NEW b \in InstallLists
    PROVE  b \in Seq(InstallWords) /\ \A i \in DOMAIN b : b[i] # "copy"
<1>1. CASE b = <<"service", "update", "timer", "enable", "startTimer", "reload", "start">>
    BY <1>1 DEF InstallWords
<1>2. CASE b = <<"service", "enable", "reload", "start">>
    BY <1>2 DEF InstallWords
<1>3. CASE b = <<"service", "enable", "start">>
    BY <1>3 DEF InstallWords
<1>4. CASE b = <<"service", "start">>
    BY <1>4 DEF InstallWords
<1>5. CASE b = <<"service", "events", "start">>
    BY <1>5 DEF InstallWords
<1> QED BY <1>1, <1>2, <1>3, <1>4, <1>5 DEF InstallLists

LEMMA InstallBegins ==
    ASSUME NEW args, NEW autoUpdate \in BOOLEAN, system \in Systems,
           NEW s, s = InstallSteps(args, autoUpdate)
    PROVE  /\ s \in Seq(InstallWords) /\ InOrder(s) /\ s # <<>>
           /\ On("service", s) /\ On("start", s)
           /\ system = "systemd" => On("enable", s)
           /\ system # "systemd" => \A x \in {"update", "timer", "startTimer"} : ~On(x, s)
<1> DEFINE Good(b) == /\ b \in InstallLists
                      /\ On("service", b) /\ On("start", b)
                      /\ system = "systemd" => On("enable", b)
                      /\ system # "systemd" => \A x \in {"update", "timer", "startTimer"} : ~On(x, b)
<1>1. PICK b : Good(b) /\ (s = b \/ s = <<"copy">> \o b)
  <2>1. CASE system = "systemd" /\ autoUpdate
    <3> DEFINE b == <<"service", "update", "timer", "enable", "startTimer", "reload", "start">>
    <3>1. b[1] = "service" /\ b[4] = "enable" /\ b[7] = "start" /\ {1, 4, 7} \subseteq DOMAIN b
      OBVIOUS
    <3>2. Good(b)
      BY <2>1, <3>1 DEF InstallLists, On
    <3>3. <<>> \o b = b
      OBVIOUS
    <3> HIDE DEF b
    <3>4. s = IF args = Config THEN <<"copy">> \o b ELSE <<>> \o b
      BY <2>1 DEF InstallSteps, b
    <3> QED BY <3>2, <3>3, <3>4
  <2>2. CASE system = "systemd" /\ ~autoUpdate
    <3> DEFINE b == <<"service", "enable", "reload", "start">>
    <3>1. b[1] = "service" /\ b[2] = "enable" /\ b[4] = "start" /\ {1, 2, 4} \subseteq DOMAIN b
      OBVIOUS
    <3>2. Good(b)
      BY <2>2, <3>1 DEF InstallLists, On
    <3>3. <<>> \o b = b
      OBVIOUS
    <3> HIDE DEF b
    <3>4. s = IF args = Config THEN <<"copy">> \o b ELSE <<>> \o b
      BY <2>2 DEF InstallSteps, b
    <3> QED BY <3>2, <3>3, <3>4
  <2>3. CASE system = "sysv"
    <3> DEFINE b == <<"service", "enable", "start">>
    <3>1. b[1] = "service" /\ b[3] = "start" /\ DOMAIN b = {1, 2, 3} /\ b[2] = "enable"
      OBVIOUS
    <3>2. Good(b)
      BY <2>3, <3>1 DEF InstallLists, On
    <3>3. <<>> \o b = b
      OBVIOUS
    <3> HIDE DEF b
    <3>4. s = IF args = Config THEN <<"copy">> \o b ELSE <<>> \o b
      BY <2>3 DEF InstallSteps, b
    <3> QED BY <3>2, <3>3, <3>4
  <2>4. CASE system \in {"launchDaemon", "launchAgent"}
    <3> DEFINE b == <<"service", "start">>
    <3>1. b[1] = "service" /\ b[2] = "start" /\ DOMAIN b = {1, 2}
      OBVIOUS
    <3>2. Good(b)
      BY <2>4, <3>1 DEF InstallLists, On
    <3>3. s = b
      BY <2>4 DEF InstallSteps
    <3> QED BY <3>2, <3>3
  <2>5. CASE system = "windows"
    <3> DEFINE b == <<"service", "events", "start">>
    <3>1. b[1] = "service" /\ b[3] = "start" /\ DOMAIN b = {1, 2, 3} /\ b[2] = "events"
      OBVIOUS
    <3>2. Good(b)
      BY <2>5, <3>1 DEF InstallLists, On
    <3>3. s = b
      BY <2>5 DEF InstallSteps
    <3> QED BY <3>2, <3>3
  <2> QED BY <2>1, <2>2, <2>3, <2>4, <2>5 DEF Systems
<1>2. b \in Seq(InstallWords) /\ \A i \in DOMAIN b : b[i] # "copy"
    BY <1>1, InstallListsCopyNothing
<1>3. InOrder(b) /\ b # <<>>
    BY <1>1, StepLists
<1>4. CASE s = b
    BY <1>1, <1>2, <1>3, <1>4
<1>5. CASE s = <<"copy">> \o b
  <2>1. /\ s \in Seq(InstallWords) /\ InOrder(s) /\ \A x : On(x, s) <=> x = "copy" \/ On(x, b)
    <3>1. /\ <<"copy">> \o b \in Seq(InstallWords) /\ InOrder(<<"copy">> \o b)
          /\ \A x : On(x, <<"copy">> \o b) <=> x = "copy" \/ On(x, b)
      BY <1>2, <1>3, CopyFirst DEF On
    <3> QED BY <1>5, <3>1
  <2>2. s # <<>>
    BY <1>1, <2>1 DEF On
  <2> QED BY <1>1, <2>1, <2>2
<1> QED BY <1>1, <1>4, <1>5

LEMMA BeginHolds ==
    ASSUME InstallInv, Install \/ Uninstall
    PROVE  InstallInv'
<1>1. MachineInv' /\ system' = system /\ unit' = unit /\ enabled' = enabled /\ installDone' = Nothing
      /\ loggedIn' = loggedIn /\ loggedIn
  <2>1. UNCHANGED machine /\ installDone' = Nothing /\ loggedIn
    BY DEF Install, Uninstall, Begins
  <2> QED BY <2>1 DEF machine, beside, InstallInv, MachineInv
<1>2. system \in Systems
    BY DEF InstallInv, MachineInv
<1>3. CASE Install
  <2>1. PICK args \in Args, autoUpdate \in BOOLEAN :
            Begins([op |-> "install", args |-> args, autoUpdate |-> autoUpdate],
                   InstallSteps(args, autoUpdate), {})
    BY <1>3 DEF Install
  <2>2. PICK s : s = InstallSteps(args, autoUpdate)
    OBVIOUS
  <2>3. /\ s \in Seq(InstallWords) /\ InOrder(s) /\ s # <<>>
        /\ On("service", s) /\ On("start", s)
        /\ system = "systemd" => On("enable", s)
        /\ system # "systemd" => \A x \in {"update", "timer", "startTimer"} : ~On(x, s)
    BY <1>2, <2>2, InstallBegins
  <2>4. /\ todo' = s /\ installCmd' = [op |-> "install", args |-> args, autoUpdate |-> autoUpdate]
        /\ installLeft' = {}
    BY <2>1, <2>2 DEF Begins
  <2>5. \A x : x \in Ahead' <=> On(x, s)
    BY <2>4 DEF Ahead, On
  <2>6. Ahead' \subseteq InstallWords
    BY <2>3, <2>4 DEF Ahead
  <2>7. PICK S : S = Ahead'
    OBVIOUS
  <2>8. InstallClaims(S)'
    BY <1>1, <2>3, <2>4, <2>5, <2>6, <2>7 DEF InstallClaims
  <2>9. Claims(Ahead)'
    BY <2>4, <2>7, <2>8 DEF Claims
  <2>10. s \in Seq(InstallWords \cup UninstallWords)
    BY <2>3
  <2> QED BY <1>1, <2>3, <2>4, <2>9, <2>10 DEF InstallInv
<1>4. CASE Uninstall
  <2>1. PICK s : s = UninstallSteps
    OBVIOUS
  <2>2. /\ todo' = s /\ installCmd' = [op |-> "uninstall", skipped |-> {}]
        /\ installLeft' = {"service"}
    BY <1>4, <2>1 DEF Uninstall, Begins
  <2>3. /\ s \in UninstallLists
        /\ system = "systemd" => s = <<"query">>
        /\ system # "systemd" => s \in {<<"stop", "remove", "disable">>, <<"stop", "remove">>,
                                        <<"stop", "remove", "events">>}
    BY <1>2, <2>1 DEF UninstallSteps, UninstallLists, Systems
  <2>4. /\ s \in Seq(InstallWords \cup UninstallWords) /\ InOrder(s) /\ s # <<>>
    BY <2>3, StepLists
  <2>5. /\ system = "systemd" => Ahead' = {"query"}
        /\ system # "systemd" => "stop" \in Ahead' /\ "remove" \in Ahead' /\ "query" \notin Ahead'
        /\ Ahead' \subseteq UninstallWords
    <3>1. CASE s = <<"query">>
      BY <2>2, <2>3, <3>1 DEF Ahead, UninstallWords
    <3>2. CASE s = <<"stop", "remove", "disable">>
      <4>1. DOMAIN s = {1, 2, 3} /\ s[1] = "stop" /\ s[2] = "remove" /\ s[3] = "disable"
        BY <3>2
      <4> QED BY <2>2, <2>3, <3>2, <4>1 DEF Ahead, UninstallWords
    <3>3. CASE s = <<"stop", "remove">>
      <4>1. DOMAIN s = {1, 2} /\ s[1] = "stop" /\ s[2] = "remove"
        BY <3>3
      <4> QED BY <2>2, <2>3, <3>3, <4>1 DEF Ahead, UninstallWords
    <3>4. CASE s = <<"stop", "remove", "events">>
      <4>1. DOMAIN s = {1, 2, 3} /\ s[1] = "stop" /\ s[2] = "remove" /\ s[3] = "events"
        BY <3>4
      <4> QED BY <2>2, <2>3, <3>4, <4>1 DEF Ahead, UninstallWords
    <3> QED BY <2>3, <3>1, <3>2, <3>3, <3>4
  <2>6. PICK S : S = Ahead'
    OBVIOUS
  <2>7. UninstallClaims(S)'
    BY <1>1, <2>2, <2>5, <2>6 DEF UninstallClaims, MachineInv, Units
  <2>8. Claims(Ahead)'
    BY <2>2, <2>6, <2>7 DEF Claims, Units
  <2> QED BY <1>1, <2>2, <2>4, <2>8 DEF InstallInv
<1> QED BY <1>3, <1>4

\* A step that leaves the machine as it is, and that nothing is claimed of.
LEMMA NothingDone ==
    ASSUME InstallInv, todo # <<>>, Advance,
           UNCHANGED <<system, unit, marked, enabled, running, timer, installCmd, installLeft>>,
           UNCHANGED <<updating, revived, loggedIn>>,
           Head(todo) \notin {"service", "start", "remove", "stopTimer", "query"},
           Head(todo) = "enable" => system # "systemd",
           Head(todo) = "stop" => system = "windows"
    PROVE  InstallInv'
<1>1. PICK S : S = Ahead \ {Head(todo)}
    OBVIOUS
<1>2. MachineInv'
    BY DEF InstallInv, MachineInv
<1>3. Claims(Ahead) /\ Head(todo) \in Ahead
    BY FirstStep
<1>4. InstallClaims(Ahead) => InstallClaims(S)'
    BY <1>1 DEF InstallClaims
<1>5. UninstallClaims(Ahead) => UninstallClaims(S)'
    BY <1>1, <1>3 DEF UninstallClaims
<1>6. Claims(S)'
    BY <1>3, <1>4, <1>5 DEF Claims
<1> QED BY <1>1, <1>2, <1>6, GoesOn

LEMMA FailHolds ==
    ASSUME InstallInv, StepFails \/ CopyConfig \/ Other
    PROVE  InstallInv'
<1>1. CASE CopyConfig \/ Other
    BY <1>1, NothingDone DEF CopyConfig, Other, InstallAt, machine, beside
<1>2. CASE StepFails
  <2>1. /\ todo # <<>> /\ UNCHANGED <<system, unit, marked, enabled, running, timer, installCmd,
                                      installLeft>>
        /\ UNCHANGED <<updating, revived, loggedIn>>
        /\ \/ system = "sysv" /\ Head(todo) \in {"enable", "disable"} /\ Advance
           \/ system = "windows" /\ Head(todo) = "stop" /\ Advance
           \/ Abort
    BY <1>2 DEF StepFails, machine, beside, InstallAt
  <2>2. MachineInv'
    BY <2>1 DEF InstallInv, MachineInv
  <2>3. CASE Abort
    BY <2>2, <2>3, BreaksOff DEF Abort
  <2> QED BY <2>1, <2>3, NothingDone
<1> QED BY <1>1, <1>2

LEMMA GenerateHolds ==
    ASSUME InstallInv, NEW u \in Units, Generate(u)
    PROVE  InstallInv'
<1>1. /\ todo # <<>> /\ Head(todo) = u /\ unit[u] = Nothing
      /\ \/ unit' = [unit EXCEPT ![u] = installCmd.args] /\ Advance
         \/ unit' = [unit EXCEPT ![u] = Broken] /\ Abort
      /\ UNCHANGED <<system, marked, enabled, running, timer, installCmd, installLeft>>
      /\ UNCHANGED <<updating, revived, loggedIn>>
    BY DEF Generate, InstallAt, Absent, beside
<1>2. /\ Claims(Ahead) /\ u \in Ahead
      /\ "service" \in Ahead => u \in {"copy", "service"}
    BY <1>1, FirstStep
<1>3. InstallClaims(Ahead) /\ installCmd.op = "install"
  <2>1. ~UninstallClaims(Ahead)
    BY <1>2 DEF UninstallClaims, UninstallWords, Units
  <2> QED BY <1>2, <2>1 DEF Claims
<1>4. u # "service" => system = "systemd"
    BY <1>2, <1>3 DEF InstallClaims, Units
<1>5. ASSUME NEW what \in Args \cup {Broken}, unit' = [unit EXCEPT ![u] = what]
      PROVE  /\ MachineInv' /\ unit'[u] = what /\ (u = "service" => ~marked /\ (running = Nothing \/ (revived /\ system = "systemd")))
             /\ \A w \in Units : w # u => unit'[w] = unit[w]
  <2>1. unit \in [Units -> Args \cup {Broken, Nothing}] /\ {"service", "update", "timer"} \subseteq Units
    BY DEF InstallInv, MachineInv, Units
  <2>2. u = "service" => ~marked /\ (running = Nothing \/ (revived /\ system = "systemd"))
    BY <1>1, InstallAssumption DEF InstallInv, MachineInv
  <2>3. u = "timer" => ~timer
    BY <1>1 DEF InstallInv, MachineInv
  <2>4. /\ unit' \in [Units -> Args \cup {Broken, Nothing}] /\ unit'[u] = what
        /\ \A w \in Units : w # u => unit'[w] = unit[w]
    BY <1>5, <2>1
  <2>5. what # Nothing
    BY InstallAssumption
  <2> QED BY <1>1, <1>4, <2>1, <2>2, <2>3, <2>4, <2>5 DEF InstallInv, MachineInv
<1>6. CASE unit' = [unit EXCEPT ![u] = Broken] /\ Abort
    BY <1>5, <1>6, BreaksOff DEF Abort
<1>7. CASE unit' = [unit EXCEPT ![u] = installCmd.args] /\ Advance
  <2>1. PICK S : S = Ahead \ {Head(todo)}
    OBVIOUS
  <2>2. installCmd.args \in Args
    BY <1>3 DEF InstallClaims
  <2>3. /\ MachineInv' /\ unit'[u] = installCmd.args /\ (u = "service" => ~marked /\ (running = Nothing \/ (revived /\ system = "systemd")))
        /\ u # "service" => unit'["service"] = unit["service"]
    BY <1>5, <1>7, <2>2 DEF Units
  <2>4. InstallClaims(S)'
    <3>1. CASE u = "service"
      BY <1>1, <1>2, <1>3, <2>1, <2>3, <3>1 DEF InstallClaims
    <3>2. CASE u # "service"
      <4>1. "service" \notin Ahead /\ u # "start" /\ u # "enable"
        BY <1>2, <3>2 DEF Units
      <4> QED BY <1>1, <1>3, <2>1, <2>3, <3>2, <4>1 DEF InstallClaims
    <3> QED BY <3>1, <3>2
  <2>5. Claims(S)'
    BY <1>1, <1>2, <1>3, <2>4 DEF Claims
  <2> QED BY <1>1, <1>7, <2>1, <2>3, <2>5, GoesOn
<1> QED BY <1>1, <1>6, <1>7

LEMMA EnableHolds ==
    ASSUME InstallInv, Enable \/ StartTimer \/ StartService \/ InstallEventsFails
    PROVE  InstallInv'
<1> DEFINE h == Head(todo)
<1>1. /\ todo # <<>> /\ h \in {"enable", "startTimer", "start", "events"}
      /\ h = "events" => installCmd.op = "install"
      /\ UNCHANGED <<system, marked, installCmd, installLeft, updating, revived, loggedIn>>
    BY DEF Enable, StartTimer, StartService, InstallEventsFails, InstallAt, beside
<1>2. /\ Claims(Ahead) /\ h \in Ahead /\ ("service" \in Ahead => h \in {"copy", "service"})
      /\ h = "start" => Ahead = {"start"}
    BY <1>1, FirstStep
<1>3. InstallClaims(Ahead) /\ installCmd.op = "install"
  <2>1. h # "events" => ~UninstallClaims(Ahead)
    BY <1>1, <1>2 DEF UninstallClaims, UninstallWords
  <2> QED BY <1>1, <1>2, <2>1 DEF Claims
<1>4. /\ unit["service"] = installCmd.args /\ ~marked /\ installCmd.args \in Args
      /\ \/ running = Nothing
         \/ system = "systemd" /\ (running = installCmd.args \/ revived)
      /\ installCmd.args # Nothing
    BY <1>1, <1>2, <1>3, InstallAssumption DEF InstallClaims
<1>5. PICK S : S = Ahead \ {Head(todo)}
    OBVIOUS
<1>6. CASE Enable
  <2>1. enabled' = enabled \cup {"service"} /\ UNCHANGED <<unit, running, timer>> /\ h = "enable" /\ Advance
    BY <1>6 DEF Enable, InstallAt
  <2>2. MachineInv'
    BY <1>1, <2>1 DEF InstallInv, MachineInv
  <2>3. InstallClaims(S)'
    BY <1>1, <1>2, <1>3, <1>4, <1>5, <2>1 DEF InstallClaims
  <2> QED BY <1>1, <1>2, <1>3, <1>5, <2>1, <2>2, <2>3, GoesOn DEF Claims
<1>7. CASE StartTimer
  <2>1. /\ timer' = TRUE /\ UNCHANGED <<unit, enabled, running>> /\ h = "startTimer" /\ Advance
        /\ unit["timer"] # Nothing
    BY <1>7 DEF StartTimer, InstallAt, Usable
  <2>2. MachineInv'
    BY <1>1, <2>1 DEF InstallInv, MachineInv
  <2>3. InstallClaims(S)'
    BY <1>1, <1>2, <1>3, <1>4, <1>5, <2>1 DEF InstallClaims
  <2> QED BY <1>1, <1>2, <1>3, <1>5, <2>1, <2>2, <2>3, GoesOn DEF Claims
<1>8. CASE StartService
  <2>1. /\ running' = (IF running = Nothing THEN unit["service"] ELSE running)
        /\ UNCHANGED <<unit, enabled, timer>> /\ h = "start"
        /\ Advance \/ Abort
    BY <1>4, <1>8 DEF StartService, InstallAt
  <2>2. MachineInv'
    <3>1. loggedIn
      BY <1>1 DEF InstallInv
    <3> QED BY <1>1, <1>4, <2>1, <3>1 DEF InstallInv, MachineInv
  <2>3. CASE Abort
    BY <2>2, <2>3, BreaksOff DEF Abort
  <2>4. CASE Advance
    <3>1. InstallClaims(S)'
      BY <1>1, <1>2, <1>3, <1>4, <1>5, <2>1 DEF InstallClaims
    <3> QED BY <1>1, <1>2, <1>3, <1>5, <2>1, <2>2, <2>4, <3>1, GoesOn DEF Claims
  <2> QED BY <2>1, <2>3, <2>4
<1>9. CASE InstallEventsFails
  <2>1. unit' = [unit EXCEPT !["service"] = Nothing] /\ UNCHANGED <<enabled, running, timer>> /\ Abort
      /\ system = "windows"
    BY <1>9 DEF InstallEventsFails
  <2>2. MachineInv'
    BY <1>1, <1>4, <2>1 DEF InstallInv, MachineInv, Units
  <2> QED BY <2>1, <2>2, BreaksOff DEF Abort
<1> QED BY <1>6, <1>7, <1>8, <1>9

\* What a query leaves to be done.
LEMMA Joined ==
    /\ <<>> \o <<>> \o <<>> \o <<"reload">>
        = <<"reload">>
    /\ <<>> \o <<>> \o <<"remove">> \o <<"reload">>
        = <<"remove", "reload">>
    /\ <<>> \o <<"stopTimer">> \o <<"remove">> \o <<"reload">>
        = <<"stopTimer", "remove", "reload">>
    /\ <<"disable", "stop">> \o <<>> \o <<"remove">> \o <<"reload">>
        = <<"disable", "stop", "remove", "reload">>
    /\ <<"disable", "stop">> \o <<"stopTimer">> \o <<"remove">> \o <<"reload">>
        = <<"disable", "stop", "stopTimer", "remove", "reload">>
<1> DEFINE W == UninstallWords
<1>1. <<>> \o <<>> \o <<>> \o <<"reload">>
        = <<"reload">>
  <2> DEFINE s == <<>> \o <<>> \o <<>> \o <<"reload">>
             t == <<"reload">>
  <2>1. s \in Seq(W) /\ t \in Seq(W) /\ Len(s) = Len(t)
    BY DEF UninstallWords
  <2>2. \A i \in 1..Len(s) : s[i] = t[i]
    OBVIOUS
  <2> HIDE DEF W, s, t
  <2>3. s = t
    BY <2>1, <2>2, SeqEqual
  <2> QED BY <2>3 DEF s, t
<1>2. <<>> \o <<>> \o <<"remove">> \o <<"reload">>
        = <<"remove", "reload">>
  <2> DEFINE s == <<>> \o <<>> \o <<"remove">> \o <<"reload">>
             t == <<"remove", "reload">>
  <2>1. s \in Seq(W) /\ t \in Seq(W) /\ Len(s) = Len(t)
    BY DEF UninstallWords
  <2>2. \A i \in 1..Len(s) : s[i] = t[i]
    OBVIOUS
  <2> HIDE DEF W, s, t
  <2>3. s = t
    BY <2>1, <2>2, SeqEqual
  <2> QED BY <2>3 DEF s, t
<1>3. <<>> \o <<"stopTimer">> \o <<"remove">> \o <<"reload">>
        = <<"stopTimer", "remove", "reload">>
  <2> DEFINE s == <<>> \o <<"stopTimer">> \o <<"remove">> \o <<"reload">>
             t == <<"stopTimer", "remove", "reload">>
  <2>1. s \in Seq(W) /\ t \in Seq(W) /\ Len(s) = Len(t)
    BY DEF UninstallWords
  <2>2. \A i \in 1..Len(s) : s[i] = t[i]
    OBVIOUS
  <2> HIDE DEF W, s, t
  <2>3. s = t
    BY <2>1, <2>2, SeqEqual
  <2> QED BY <2>3 DEF s, t
<1>4. <<"disable", "stop">> \o <<>> \o <<"remove">> \o <<"reload">>
        = <<"disable", "stop", "remove", "reload">>
  <2> DEFINE s == <<"disable", "stop">> \o <<>> \o <<"remove">> \o <<"reload">>
             t == <<"disable", "stop", "remove", "reload">>
  <2>1. s \in Seq(W) /\ t \in Seq(W) /\ Len(s) = Len(t)
    BY DEF UninstallWords
  <2>2. \A i \in 1..Len(s) : s[i] = t[i]
    OBVIOUS
  <2> HIDE DEF W, s, t
  <2>3. s = t
    BY <2>1, <2>2, SeqEqual
  <2> QED BY <2>3 DEF s, t
<1>5. <<"disable", "stop">> \o <<"stopTimer">> \o <<"remove">> \o <<"reload">>
        = <<"disable", "stop", "stopTimer", "remove", "reload">>
  <2> DEFINE s == <<"disable", "stop">> \o <<"stopTimer">> \o <<"remove">> \o <<"reload">>
             t == <<"disable", "stop", "stopTimer", "remove", "reload">>
  <2>1. s \in Seq(W) /\ t \in Seq(W) /\ Len(s) = Len(t)
    BY DEF UninstallWords
  <2>2. \A i \in 1..Len(s) : s[i] = t[i]
    OBVIOUS
  <2> HIDE DEF W, s, t
  <2>3. s = t
    BY <2>1, <2>2, SeqEqual
  <2> QED BY <2>3 DEF s, t
<1> QED BY <1>1, <1>2, <1>3, <1>4, <1>5, Zenon

LEMMA QueryHolds ==
    ASSUME InstallInv, Query
    PROVE  InstallInv'
<1>1. PICK found \in SUBSET Units :
          /\ installLeft' = found /\ installCmd' = [installCmd EXCEPT !.skipped = Units \ found]
          /\ todo' = (IF "service" \in found THEN <<"disable", "stop">> ELSE <<>>)
                  \o (IF "timer" \in found THEN <<"stopTimer">> ELSE <<>>)
                  \o (IF found # {} THEN <<"remove">> ELSE <<>>) \o <<"reload">>
    BY DEF Query
<1>2. todo # <<>> /\ Head(todo) = "query" /\ UNCHANGED <<machine, installDone>>
    BY DEF Query, InstallAt
<1>3. Claims(Ahead) /\ "query" \in Ahead /\ installDone = Nothing
    BY <1>2, FirstStep
<1>4. installCmd.op = "uninstall"
    BY <1>3 DEF Claims, InstallClaims, InstallWords
<1>5. MachineInv'
    BY <1>2 DEF InstallInv, MachineInv, machine, beside
<1>6. /\ todo' \in UninstallLists
      /\ Ahead' \subseteq UninstallWords /\ "query" \notin Ahead'
      /\ found # {} => "remove" \in Ahead'
      /\ "service" \in found => "stop" \in Ahead'
      /\ "timer" \in found => "stopTimer" \in Ahead'
  <2>1. CASE found = {}
    <3>1. todo' = <<"reload">>
      BY <1>1, <2>1, Joined
    <3> QED BY <2>1, <3>1 DEF UninstallLists, Ahead, UninstallWords
  <2>2. CASE "service" \notin found /\ "timer" \notin found /\ found # {}
    <3>1. todo' = <<"remove", "reload">>
      BY <1>1, <2>2, Joined
    <3>2. DOMAIN todo' = {1, 2} /\ todo'[1] = "remove" /\ todo'[2] = "reload"
      BY <3>1
    <3> QED BY <2>2, <3>1, <3>2 DEF UninstallLists, Ahead, UninstallWords
  <2>3. CASE "service" \notin found /\ "timer" \in found
    <3>1. todo' = <<"stopTimer", "remove", "reload">>
      BY <1>1, <2>3, Joined
    <3>2. DOMAIN todo' = {1, 2, 3} /\ todo'[1] = "stopTimer" /\ todo'[2] = "remove" /\ todo'[3] = "reload"
      BY <3>1
    <3> QED BY <2>3, <3>1, <3>2 DEF UninstallLists, Ahead, UninstallWords
  <2>4. CASE "service" \in found /\ "timer" \notin found
    <3>1. todo' = <<"disable", "stop", "remove", "reload">>
      BY <1>1, <2>4, Joined
    <3>2. /\ DOMAIN todo' = {1, 2, 3, 4} /\ todo'[1] = "disable" /\ todo'[2] = "stop"
          /\ todo'[3] = "remove" /\ todo'[4] = "reload"
      BY <3>1
    <3> QED BY <2>4, <3>1, <3>2 DEF UninstallLists, Ahead, UninstallWords
  <2>5. CASE "service" \in found /\ "timer" \in found
    <3>1. todo' = <<"disable", "stop", "stopTimer", "remove", "reload">>
      BY <1>1, <2>5, Joined
    <3>2. /\ DOMAIN todo' = {1, 2, 3, 4, 5} /\ todo'[1] = "disable" /\ todo'[2] = "stop"
          /\ todo'[3] = "stopTimer" /\ todo'[4] = "remove" /\ todo'[5] = "reload"
      BY <3>1
    <3> QED BY <2>5, <3>1, <3>2 DEF UninstallLists, Ahead, UninstallWords
  <2> QED BY <2>1, <2>2, <2>3, <2>4, <2>5
<1>7. PICK S : S = Ahead'
    OBVIOUS
<1>8. UninstallClaims(S)'
    BY <1>1, <1>3, <1>4, <1>6, <1>7 DEF UninstallClaims, Claims
<1>9. installCmd'.op = "uninstall" /\ installLeft' \subseteq Units
    BY <1>1, <1>4, <1>8 DEF UninstallClaims
<1>10. Claims(Ahead)'
    BY <1>7, <1>8, <1>9 DEF Claims
<1>11. todo' \in Seq(InstallWords \cup UninstallWords) /\ InOrder(todo')
    BY <1>6, StepLists
<1>12. installDone' = Nothing
    BY <1>2, <1>3
<1>13. loggedIn'
    BY <1>2 DEF InstallInv, machine, beside
<1> QED BY <1>5, <1>10, <1>11, <1>12, <1>13 DEF InstallInv

LEMMA StopHolds ==
    ASSUME InstallInv, Disable \/ Stop \/ StopTimer
    PROVE  InstallInv'
<1>1. /\ todo # <<>> /\ Head(todo) \in {"disable", "stop", "stopTimer"} /\ Advance
      /\ UNCHANGED <<system, unit, marked, installCmd, installLeft>>
      /\ running' \in {running, Nothing} /\ enabled' \subseteq enabled
      /\ timer' = timer \/ timer' = FALSE
      /\ running' # running => ~marked
      /\ UNCHANGED <<updating, loggedIn>>
      /\ \/ revived' = revived /\ running' = running
         \/ revived' = FALSE /\ running' = Nothing
      /\ Head(todo) = "stop" /\ system # "windows" => running' = Nothing
      /\ Head(todo) = "stopTimer" => timer' = FALSE
  <2>1. CASE Disable
    BY <2>1 DEF Disable, InstallAt, beside
  <2>2. CASE Stop
    BY <2>2 DEF Stop, InstallAt
  <2>3. CASE StopTimer
    BY <2>3 DEF StopTimer, InstallAt, beside
  <2> QED BY <2>1, <2>2, <2>3
<1>2. Claims(Ahead) /\ Head(todo) \in Ahead
    BY <1>1, FirstStep
<1>3. UninstallClaims(Ahead) /\ installCmd.op = "uninstall"
  <2>1. ~InstallClaims(Ahead)
    BY <1>1, <1>2 DEF InstallClaims, InstallWords
  <2> QED BY <1>2, <2>1 DEF Claims
<1>4. MachineInv'
  <2>1. MachineInv /\ timer' \in BOOLEAN /\ (timer' => timer)
    <3>1. MachineInv /\ timer \in BOOLEAN
      BY DEF InstallInv, MachineInv
    <3>2. timer' = timer \/ timer' = FALSE
      BY <1>1
    <3>3. CASE timer' = timer
      BY <3>1, <3>3
    <3>4. CASE timer' = FALSE
      BY <3>1, <3>4
    <3> QED BY <3>2, <3>3, <3>4
  <2>2. marked => running' = running
    BY <1>1
  <2>3. CASE revived' = revived /\ running' = running
    BY <1>1, <2>1, <2>2, <2>3 DEF MachineInv
  <2>4. CASE revived' = FALSE /\ running' = Nothing
    BY <1>1, <2>1, <2>2, <2>4 DEF MachineInv
  <2> QED BY <1>1, <2>3, <2>4
<1>5. PICK S : S = Ahead \ {Head(todo)}
    OBVIOUS
<1>6. UninstallClaims(S)'
    BY <1>1, <1>2, <1>3, <1>5 DEF UninstallClaims
<1>7. Claims(S)'
    BY <1>1, <1>2, <1>3, <1>6 DEF Claims
<1> QED BY <1>1, <1>4, <1>5, <1>7, GoesOn

LEMMA RemoveHolds ==
    ASSUME InstallInv, RemoveUnit
    PROVE  InstallInv'
<1>1. PICK u \in installLeft :
          /\ unit[u] # Nothing /\ installLeft' = installLeft \ {u}
          /\ IF system = "windows" /\ running # Nothing
               THEN marked' = TRUE /\ UNCHANGED unit
               ELSE unit' = [unit EXCEPT ![u] = Nothing] /\ UNCHANGED marked
          /\ IF installLeft = {u} THEN Advance ELSE UNCHANGED <<todo, installDone>>
    BY DEF RemoveUnit
<1>2. /\ todo # <<>> /\ Head(todo) = "remove"
      /\ UNCHANGED <<system, enabled, running, timer, installCmd, updating, revived, loggedIn>>
    BY DEF RemoveUnit, InstallAt, beside
<1>3. /\ Claims(Ahead) /\ "remove" \in Ahead /\ installDone = Nothing
      /\ "stop" \notin Ahead /\ "stopTimer" \notin Ahead
    BY <1>2, FirstStep
<1>4. /\ UninstallClaims(Ahead) /\ installCmd.op = "uninstall" /\ installLeft \subseteq Units
  <2>1. ~InstallClaims(Ahead)
    BY <1>3 DEF InstallClaims, InstallWords
  <2> QED BY <1>3, <2>1 DEF Claims
<1>5. /\ "query" \notin Ahead
      /\ u = "service" /\ system # "windows" => running = Nothing \/ revived
      /\ u = "timer" => ~timer
    BY <1>3, <1>4 DEF UninstallClaims
<1>6. system = "windows" => u = "service"
    BY <1>1, <1>4 DEF InstallInv, MachineInv, Units
<1>7. MachineInv' /\ \A w \in Units : IF w = u THEN unit'[w] = Nothing \/ (marked' /\ u = "service")
                                             ELSE unit'[w] = unit[w]
  <2>1. /\ MachineInv /\ unit \in [Units -> Args \cup {Broken, Nothing}] /\ u \in Units
    BY <1>4 DEF InstallInv, MachineInv
  <2>2. CASE system = "windows" /\ running # Nothing
    BY <1>1, <1>2, <1>6, <2>1, <2>2 DEF MachineInv
  <2>3. CASE ~(system = "windows" /\ running # Nothing)
    <3>1. /\ unit' = [unit EXCEPT ![u] = Nothing] /\ marked' = marked /\ ~marked
          /\ u = "service" => running = Nothing \/ revived
      BY <1>1, <1>5, <2>1, <2>3 DEF MachineInv
    <3>2. unit' \in [Units -> Args \cup {Broken, Nothing}] /\ \A w \in Units : unit'[w] = IF w = u THEN Nothing ELSE unit[w]
      BY <2>1, <3>1
    <3>3. {"service", "update", "timer"} \subseteq Units
      BY DEF Units
    <3> QED BY <1>2, <1>5, <2>1, <3>1, <3>2, <3>3 DEF MachineInv
  <2> QED BY <2>2, <2>3
<1>8. marked => marked'
    BY <1>1
<1>9. CASE installLeft = {u}
  <2>1. PICK S : S = Ahead \ {Head(todo)}
    OBVIOUS
  <2>2. UninstallClaims(S)'
    BY <1>1, <1>2, <1>4, <1>5, <1>7, <1>8, <1>9, <2>1 DEF UninstallClaims
  <2>3. Claims(S)'
    BY <1>1, <1>2, <1>4, <2>2 DEF Claims
  <2> QED BY <1>1, <1>2, <1>7, <1>9, <2>1, <2>3, GoesOn
<1>10. CASE installLeft # {u}
  <2>1. PICK S : S = Ahead
    OBVIOUS
  <2>2. UninstallClaims(S)'
    BY <1>1, <1>2, <1>3, <1>4, <1>5, <1>7, <1>8, <1>10, <2>1 DEF UninstallClaims
  <2>3. Claims(S)' /\ UNCHANGED <<todo, installDone>>
    BY <1>1, <1>2, <1>4, <1>10, <2>2 DEF Claims
  <2>4. Ahead' = Ahead
    BY <2>3 DEF Ahead
  <2> QED BY <1>2, <1>3, <1>7, <2>1, <2>3, <2>4 DEF InstallInv
<1> QED BY <1>9, <1>10

LEMMA ServiceEndsHolds ==
    ASSUME InstallInv, ServiceEnds
    PROVE  InstallInv'
<1>1. /\ marked /\ marked' = FALSE /\ running' = Nothing
      /\ unit' = [unit EXCEPT !["service"] = Nothing]
      /\ UNCHANGED <<system, enabled, timer, installCmd, todo, installLeft, installDone>>
      /\ UNCHANGED <<updating, revived, loggedIn>>
    BY DEF ServiceEnds, beside
<1>2. MachineInv /\ unit \in [Units -> Args \cup {Broken, Nothing}] /\ {"service", "update", "timer"} \subseteq Units
    BY DEF InstallInv, MachineInv, Units
<1>3. /\ unit' \in [Units -> Args \cup {Broken, Nothing}]
      /\ \A w \in Units : unit'[w] = IF w = "service" THEN Nothing ELSE unit[w]
    BY <1>1, <1>2
<1>4. MachineInv'
    BY <1>1, <1>2, <1>3 DEF MachineInv
<1>5. PICK S : S = Ahead
    OBVIOUS
<1>6. InstallClaims(S) => InstallClaims(S)'
    BY <1>1 DEF InstallClaims
<1>7. UninstallClaims(S) => UninstallClaims(S)'
    BY <1>1, <1>2, <1>3 DEF UninstallClaims
<1>8. Claims(S) => Claims(S)'
    BY <1>1, <1>6, <1>7 DEF Claims
<1>9. Ahead' = Ahead /\ UnderWay' = UnderWay
    BY <1>1 DEF Ahead, UnderWay
<1> QED BY <1>1, <1>4, <1>5, <1>8, <1>9 DEF InstallInv

\* The update unit restarts the service as its unit says, or what is uninstalled.
LEMMA UpdateHolds ==
    ASSUME InstallInv, UpdateBegins \/ UpdateEnds
    PROVE  InstallInv'
<1>1. /\ UNCHANGED <<system, unit, marked, enabled, timer, loggedIn, installCmd>>
      /\ UNCHANGED <<todo, installLeft, installDone>>
      /\ updating' \in BOOLEAN /\ system = "systemd"
      /\ \/ UNCHANGED <<running, revived>>
         \/ /\ unit["service"] \in Args /\ running' = unit["service"]
            /\ revived' = (revived \/ (Uninstalling /\ running = Nothing))
  <2>1. MachineInv /\ timer \in BOOLEAN /\ unit \in [Units -> Args \cup {Broken, Nothing}]
    BY DEF InstallInv, MachineInv
  <2>2. CASE UpdateBegins
    <3>1. Usable("update")
      BY <2>2 DEF UpdateBegins
    <3> QED BY <2>1, <2>2, <3>1 DEF UpdateBegins, MachineInv, Usable
  <2>3. CASE UpdateEnds
    <3>1. updating /\ system = "systemd"
      BY <2>1, <2>3 DEF UpdateEnds, MachineInv
    <3>2. Usable("service") => unit["service"] \in Args
      BY <2>1 DEF Usable, Units
    <3> QED BY <2>3, <3>1, <3>2 DEF UpdateEnds
  <2> QED BY <2>2, <2>3
<1>2. CASE UNCHANGED <<running, revived>>
  <2>1. MachineInv'
    BY <1>1, <1>2 DEF InstallInv, MachineInv
  <2>2. PICK S : S = Ahead
    OBVIOUS
  <2>3. (Claims(S) => Claims(S)') /\ Ahead' = Ahead /\ UnderWay' = UnderWay
    BY <1>1, <1>2 DEF Claims, InstallClaims, UninstallClaims, Ahead, UnderWay
  <2> QED BY <1>1, <2>1, <2>2, <2>3 DEF InstallInv
<1>3. CASE /\ unit["service"] \in Args /\ running' = unit["service"]
           /\ revived' = (revived \/ (Uninstalling /\ running = Nothing))
  <2>1. /\ revived' \in BOOLEAN /\ (revived => revived')
        /\ Uninstalling /\ running = Nothing => revived'
        /\ unit["service"] # Nothing
    <3>1. revived \in BOOLEAN
      BY DEF InstallInv, MachineInv
    <3>2. unit["service"] # Nothing
      BY <1>3, InstallAssumption
    <3> QED BY <1>3, <3>1, <3>2
  <2>2. MachineInv'
    BY <1>1, <1>3, <2>1 DEF InstallInv, MachineInv
  <2>3. PICK S : S = Ahead
    OBVIOUS
  <2>4. InstallClaims(S) => InstallClaims(S)'
    <3> SUFFICES ASSUME InstallClaims(S) PROVE InstallClaims(S)'
      OBVIOUS
    <3>1. S # {} => "start" \in S
      BY DEF InstallClaims
    <3>2. "start" \notin S => S = {}
      BY <3>1
    <3>3. "service" \notin S => running' = installCmd.args
      BY <1>3 DEF InstallClaims
    <3>4. "start" \notin S => running' = installCmd.args
      BY <3>2, <3>3
    <3> QED BY <1>1, <3>3, <3>4 DEF InstallClaims
  <2>5. UninstallClaims(S) /\ UnderWay => UninstallClaims(S)'
    <3> SUFFICES ASSUME UninstallClaims(S), UnderWay PROVE UninstallClaims(S)'
      OBVIOUS
    <3>1. "stop" \notin S /\ "query" \notin S /\ "service" \in installLeft => revived'
      <4>1. SUFFICES ASSUME "stop" \notin S, "query" \notin S, "service" \in installLeft PROVE revived'
        OBVIOUS
      <4>2. running = Nothing \/ revived
        BY <1>1, <4>1 DEF UninstallClaims
      <4>3. todo # <<>>
        <5>1. "remove" \in S
          BY <4>1 DEF UninstallClaims
        <5> QED BY <2>3, <5>1 DEF Ahead
      <4>4. Uninstalling
        BY <4>3 DEF Uninstalling, UninstallClaims
      <4> QED BY <2>1, <4>2, <4>4
    <3> QED BY <1>1, <3>1 DEF UninstallClaims
  <2>6. Ahead' = Ahead /\ UnderWay' = UnderWay
    BY <1>1 DEF Ahead, UnderWay
  <2>7. UnderWay => Claims(S)'
    BY <1>1, <2>3, <2>4, <2>5 DEF InstallInv, Claims
  <2> QED BY <1>1, <2>2, <2>3, <2>6, <2>7 DEF InstallInv
<1> QED BY <1>1, <1>2, <1>3

\* The user of a launch agent logs out, and in again.
LEMMA AgentSessionHolds ==
    ASSUME InstallInv, Logout \/ Login
    PROVE  InstallInv'
<1>1. /\ UNCHANGED <<system, unit, marked, enabled, timer, updating, revived, installCmd>>
      /\ UNCHANGED installLeft /\ system = "launchAgent" /\ ~revived /\ loggedIn' \in BOOLEAN
      /\ todo' = <<>> /\ installDone' = (IF todo = <<>> THEN installDone ELSE Nothing)
      /\ \/ ~loggedIn' /\ running' = Nothing
         \/ loggedIn' /\ running' = (IF Usable("service") THEN unit["service"] ELSE Nothing)
  <2>1. InstallInv /\ MachineInv
    BY DEF InstallInv
  <2>2. CASE Logout
    BY <2>1, <2>2 DEF Logout, MachineInv
  <2>3. CASE Login
    BY <2>1, <2>3 DEF Login, InstallInv, MachineInv
  <2> QED BY <2>2, <2>3
<1>2. Usable("service") => unit["service"] \in Args /\ unit["service"] # Nothing
    BY DEF InstallInv, MachineInv, Usable, Units
<1>3. MachineInv'
    BY <1>1, <1>2 DEF InstallInv, MachineInv
<1>4. CASE installDone' = Nothing
    BY <1>1, <1>3, <1>4, BreaksOff
<1>5. CASE installDone' # Nothing
  <2>1. todo = <<>> /\ installDone' = installDone /\ installDone # Nothing /\ installDone = installCmd
    BY <1>1, <1>5 DEF InstallInv
  <2>2. Ahead = {} /\ Ahead' = {}
    BY <1>1, <2>1 DEF Ahead
  <2>3. Claims({})
    BY <2>1, <2>2 DEF InstallInv, UnderWay
  <2>4. PICK S : S = {}
    OBVIOUS
  <2>5. ASSUME InstallClaims(S)
        PROVE  InstallClaims(S)'
    <3>1. unit["service"] = installCmd.args /\ installCmd.args \in Args
      BY <2>4, <2>5 DEF InstallClaims
    <3>2. Usable("service")
      BY <3>1, InstallAssumption DEF Usable
    <3> QED BY <1>1, <2>4, <2>5, <3>1, <3>2 DEF InstallClaims
  <2>6. UninstallClaims(S) => UninstallClaims(S)'
    BY <1>1, <2>4 DEF UninstallClaims
  <2>7. Claims(S)'
    BY <1>1, <2>3, <2>4, <2>5, <2>6 DEF Claims
  <2>8. todo' \in Seq(InstallWords \cup UninstallWords) /\ InOrder(todo')
    BY <1>1 DEF InOrder
  <2> QED BY <1>1, <1>3, <2>1, <2>2, <2>4, <2>7, <2>8 DEF InstallInv
<1> QED BY <1>4, <1>5

\* An installation that has been reported survives the reboot, and so does the
\* absence of what was uninstalled.
LEMMA RebootHolds ==
    ASSUME InstallInv, Reboot
    PROVE  InstallInv'
<1>1. /\ unit' = (IF marked THEN [unit EXCEPT !["service"] = Nothing] ELSE unit)
      /\ running' = (IF StartsAtBoot("service") /\ ~marked THEN unit["service"] ELSE Nothing)
      /\ timer' = (system = "systemd" /\ StartsAtBoot("timer"))
      /\ marked' = FALSE
      /\ todo' = <<>> /\ installDone' = (IF todo = <<>> THEN installDone ELSE Nothing)
      /\ UNCHANGED <<system, enabled, installCmd, installLeft>>
      /\ updating' = FALSE /\ revived' = FALSE /\ loggedIn' = (system # "launchAgent")
    BY DEF Reboot
<1>2. MachineInv /\ unit \in [Units -> Args \cup {Broken, Nothing}] /\ {"service", "update", "timer"} \subseteq Units
    BY DEF InstallInv, MachineInv, Units
<1>3. /\ unit' \in [Units -> Args \cup {Broken, Nothing}]
      /\ \A w \in Units : unit'[w] = unit[w] \/ (unit'[w] = Nothing /\ w = "service")
      /\ ~marked => unit' = unit
      /\ marked => system = "windows" /\ unit'["service"] = Nothing
    BY <1>1, <1>2 DEF MachineInv
<1>4. MachineInv'
  <2>1. timer' => system = "systemd" /\ unit["timer"] # Nothing
    BY <1>1 DEF StartsAtBoot, Usable
  <2>2. running' # Nothing => /\ ~marked /\ unit["service"] = running' /\ running' \in Args
                              /\ system # "launchAgent"
    BY <1>1, <1>2 DEF StartsAtBoot, Usable
  <2>3. timer' \in BOOLEAN
    BY <1>1
  <2> QED BY <1>1, <1>2, <1>3, <2>1, <2>2, <2>3 DEF MachineInv
<1>5. CASE installDone' = Nothing
    BY <1>1, <1>4, <1>5, BreaksOff
<1>6. CASE installDone' # Nothing
  <2>1. todo = <<>> /\ installDone' = installDone /\ installDone # Nothing /\ installDone = installCmd
    BY <1>1, <1>6 DEF InstallInv
  <2>2. Ahead = {} /\ Ahead' = {}
    BY <1>1, <2>1 DEF Ahead
  <2>3. Claims({})
    BY <2>1, <2>2 DEF InstallInv, UnderWay
  <2>4. PICK S : S = {}
    OBVIOUS
  <2>5. ASSUME InstallClaims(S)
        PROVE  InstallClaims(S)'
    <3>1. /\ unit["service"] = installCmd.args /\ ~marked /\ installCmd.args \in Args
          /\ system = "systemd" => "service" \in enabled
      BY <2>4, <2>5 DEF InstallClaims
    <3>2. running' = IF system # "launchAgent" /\ (system \in {"systemd", "sysv"} => "service" \in enabled)
                       THEN installCmd.args ELSE Nothing
      BY <1>1, <3>1, InstallAssumption DEF StartsAtBoot, Usable
    <3>3. enabled = {} \/ "service" \in enabled
      BY <1>2 DEF MachineInv
    <3> QED BY <1>1, <1>3, <2>4, <2>5, <3>1, <3>2, <3>3 DEF InstallClaims
  <2>6. UninstallClaims(S) => UninstallClaims(S)'
    BY <1>1, <1>3, <2>4 DEF UninstallClaims
  <2>7. Claims(S)'
    BY <1>1, <2>3, <2>4, <2>5, <2>6 DEF Claims
  <2>8. todo' \in Seq(InstallWords \cup UninstallWords) /\ InOrder(todo')
    BY <1>1 DEF InOrder
  <2> QED BY <1>1, <1>4, <2>1, <2>2, <2>4, <2>7, <2>8 DEF InstallInv
<1> QED BY <1>5, <1>6

\* A command that has reported success has done what it says, whatever broke off
\* before it and although the machine is rebooted after it, except for a service that
\* the update unit restarts behind an uninstall, the links of SysV, and an agent whose
\* user is not logged in (linux_service.go, macos_service.go, windows_service.go).
THEOREM InstallsAreReported == InstallSpec => []ReportIsTrue
<1>1. InstallInit => InstallInv
  <2> SUFFICES ASSUME InstallInit PROVE InstallInv
    OBVIOUS
  <2>1. MachineInv
    <3>1. unit \in [Units -> Args \cup {Broken, Nothing}] /\ \A u \in Units : unit[u] = Nothing
      BY DEF InstallInit
    <3> QED BY <3>1 DEF InstallInit, MachineInv, Units
  <2>2. /\ todo \in Seq(InstallWords \cup UninstallWords) /\ InOrder(todo) /\ ~UnderWay
        /\ installDone = Nothing /\ todo = <<>>
    BY DEF InstallInit, InOrder, UnderWay
  <2> QED BY <2>1, <2>2 DEF InstallInv
<1>2. InstallInv /\ [InstallNext]_installVars => InstallInv'
  <2> SUFFICES ASSUME InstallInv, [InstallNext]_installVars PROVE InstallInv'
    OBVIOUS
  <2>1. CASE InstallNext
    BY <2>1, BeginHolds, FailHolds, GenerateHolds, EnableHolds, QueryHolds, StopHolds, RemoveHolds,
       ServiceEndsHolds, UpdateHolds, AgentSessionHolds, RebootHolds DEF InstallNext
  <2>2. CASE UNCHANGED installVars
    <3>1. /\ UNCHANGED <<system, unit, marked, enabled, running, timer, installCmd, todo>>
          /\ UNCHANGED <<installLeft, installDone, updating, revived, loggedIn>>
      BY <2>2 DEF installVars, beside
    <3>2. PICK S : S = Ahead
      OBVIOUS
    <3>3. MachineInv' /\ (Claims(S) => Claims(S)') /\ Ahead' = Ahead /\ UnderWay' = UnderWay
      BY <3>1 DEF InstallInv, MachineInv, Claims, InstallClaims, UninstallClaims, Ahead, UnderWay
    <3> QED BY <3>1, <3>2, <3>3 DEF InstallInv
  <2> QED BY <2>1, <2>2
<1>3. InstallInv => ReportIsTrue
  <2> SUFFICES ASSUME InstallInv, installDone # Nothing PROVE ReportIsTrue
    BY DEF ReportIsTrue, Reported
  <2>1. todo = <<>> /\ installDone = installCmd /\ Ahead = {} /\ MachineInv
    BY DEF InstallInv, Ahead
  <2>2. Claims({})
    BY <2>1 DEF InstallInv, UnderWay
  <2>3. Reported("install") => InstallClaims({})
    BY <2>1, <2>2 DEF Claims, Reported
  <2>4. Reported("uninstall") => UninstallClaims({})
    BY <2>1, <2>2 DEF Claims, Reported
  <2>5. ASSUME InstallClaims({})
        PROVE  /\ unit["service"] = installDone.args
               /\ \/ running = installDone.args \/ revived
                  \/ system = "sysv" /\ running = Nothing /\ enabled = {}
                  \/ ~loggedIn /\ running = Nothing
    BY <2>1, <2>5 DEF InstallClaims
  <2>6. ASSUME UninstallClaims({})
        PROVE  /\ \A u \in Units \ installDone.skipped : unit[u] = Nothing \/ marked
               /\ "service" \notin installDone.skipped => running = Nothing \/ marked \/ revived
               /\ "timer" \notin installDone.skipped => ~timer
    <3>1. \A u \in Units \ installDone.skipped : unit[u] = Nothing \/ (marked /\ u = "service")
      BY <2>1, <2>6 DEF UninstallClaims
    <3>2. running # Nothing /\ ~revived => unit["service"] # Nothing
      BY <2>1, InstallAssumption DEF MachineInv
    <3>3. timer => unit["timer"] # Nothing
      BY <2>1 DEF MachineInv
    <3> QED BY <3>1, <3>2, <3>3 DEF Units
  <2> QED BY <2>3, <2>4, <2>5, <2>6 DEF ReportIsTrue
<1> QED BY <1>1, <1>2, <1>3, PTL DEF InstallSpec

-----------------------------------------------------------------------------
\* Prechecks: a row tells what became of its target, and a row that is skipped, that
\* no transport tries the target.

RowIsTrue(p, t) ==
    /\ rows[p][t] = "pass" <=> t \in reached[p]
    /\ prechecksLeft[p][t] = 0 /\ t \in DOMAIN dns => rows[p][t] # NoResult
    /\ t \notin DOMAIN dns => prechecksLeft[p][t] = 0 /\ t \notin reached[p]
    /\ rows[p][t] = "skip" => \A q \in Protocols : prechecksLeft[q][t] = 0 /\ t \notin reached[q]

RowTypes ==
    /\ main \in {"dns", "probe", "reported"} /\ DOMAIN dns \in SUBSET Targets
    /\ rows \in [Protocols -> [Targets -> Statuses \cup {NoResult}]]
    /\ prechecksLeft \in [Protocols -> [Targets -> Nat]]
    /\ reached \in [Protocols -> SUBSET Targets]

RowsInv ==
    /\ RowTypes
    /\ main = "dns" => \A p \in Protocols : reached[p] = {}
    /\ main # "dns" => \A p \in Protocols, t \in Targets : RowIsTrue(p, t)
    /\ ReportIsHonest

LEMMA SomeFamily ==
    ASSUME NEW S \in SUBSET Families
    PROVE  Cardinality(S) \in Nat /\ (Cardinality(S) = 0 <=> S = {})
<1>1. IsFiniteSet(Families)
  <2>1. IsFiniteSet({"v4"}) /\ Families = {"v4"} \cup {"v6"}
    BY FS_Singleton DEF Families
  <2> QED BY <2>1, FS_AddElement
<1>2. IsFiniteSet(S)
    BY <1>1, FS_Subset
<1> QED BY <1>2, FS_CardinalityType, FS_EmptySet

LEMMA ProbesStart ==
    ASSUME RowsInv, main = "dns", NEW D \in SUBSET Targets, NEW found \in [D -> SUBSET Families],
           dns' = DnsRows(found), StartProbes(found), reached' = reached
    PROVE  RowsInv'
<1> DEFINE some == \E t \in DOMAIN found : found[t] # {}
<1>0. DOMAIN found = D /\ DOMAIN dns' = D
    BY DEF DnsRows
<1>1. PICK version \in Versions, bad \in SUBSET Protocols :
          /\ main' = "probe"
          /\ rows' = [p \in Protocols |-> [t \in Targets |->
                        IF t \notin DOMAIN found THEN NoResult
                        ELSE IF ~some \/ (p \notin bad /\ found[t] \cap version = {}) THEN "skip"
                        ELSE IF p \in bad THEN "fail" ELSE NoResult]]
          /\ prechecksLeft' = [p \in Protocols |-> IF p \in bad THEN [t \in Targets |-> 0]
                                                               ELSE ToTry(found, version)]
    BY DEF StartProbes
<1>2. some <=> \E t \in D : found[t] # {}
    BY <1>0
<1> HIDE DEF some
<1>3. ASSUME NEW t \in D
      PROVE  /\ Cardinality(found[t] \cap version) \in Nat
             /\ Cardinality(found[t] \cap version) = 0 <=> found[t] \cap version = {}
    BY <1>0, SomeFamily
<1>4. \A p \in Protocols, t \in Targets :
          /\ rows'[p][t] = IF t \notin D THEN NoResult
                           ELSE IF ~some \/ (p \notin bad /\ found[t] \cap version = {}) THEN "skip"
                           ELSE IF p \in bad THEN "fail" ELSE NoResult
          /\ prechecksLeft'[p][t] = IF p \in bad \/ t \notin D THEN 0
                                    ELSE Cardinality(found[t] \cap version)
    BY <1>0, <1>1 DEF ToTry
<1>5. RowTypes'
  <2>1. rows' \in [Protocols -> [Targets -> Statuses \cup {NoResult}]]
    BY <1>1 DEF Statuses
  <2>2. prechecksLeft' \in [Protocols -> [Targets -> Nat]]
    BY <1>0, <1>1, <1>3 DEF ToTry
  <2> QED BY <1>0, <1>1, <2>1, <2>2 DEF RowTypes, RowsInv
<1>6. \A p \in Protocols : reached'[p] = {}
    BY DEF RowsInv
<1>7. ASSUME NEW p \in Protocols, NEW t \in Targets
      PROVE  RowIsTrue(p, t)'
  <2>1. rows'[p][t] # "pass"
    BY <1>4, PrechecksAssumption
  <2>2. prechecksLeft'[p][t] = 0 /\ t \in D => rows'[p][t] # NoResult
    BY <1>3, <1>4, PrechecksAssumption
  <2>3. t \notin D => prechecksLeft'[p][t] = 0
    BY <1>4
  <2>4. rows'[p][t] = "skip" => \A q \in Protocols : prechecksLeft'[q][t] = 0
    BY <1>2, <1>3, <1>4, PrechecksAssumption
  <2> QED BY <1>0, <1>6, <2>1, <2>2, <2>3, <2>4 DEF RowIsTrue
<1> QED BY <1>1, <1>5, <1>7 DEF RowsInv, ReportIsHonest

\* A result of a target: of its last address, unless an address before it passed.
LEMMA NextAddressHolds ==
    ASSUME RowsInv, NEW p \in Protocols, NEW t \in Targets, IsNext(p, t), UNCHANGED <<main, dns>>,
           NEW result \in {"pass", "fail"}, NextAddress(p, t, result),
           \/ result = "pass" /\ reached' = [reached EXCEPT ![p] = @ \cup {t}]
           \/ result = "fail" /\ reached' = reached
    PROVE  RowsInv'
<1>1. RowTypes /\ main = "probe" /\ prechecksLeft[p][t] > 0 /\ t \in DOMAIN dns
      /\ \A q \in Protocols, u \in Targets : RowIsTrue(q, u)
    BY DEF RowsInv, IsNext, RowIsTrue, RowTypes
<1>2. /\ rows' = [rows EXCEPT ![p] = [rows[p] EXCEPT ![t] = Best(rows[p][t], result)]]
      /\ prechecksLeft' = [prechecksLeft EXCEPT
                             ![p] = [prechecksLeft[p] EXCEPT ![t] = prechecksLeft[p][t] - 1]]
    BY DEF NextAddress
<1>3. Best(rows[p][t], result) \in {"pass", "fail"}
    BY DEF Best
<1>4. RowTypes'
  <2>1. rows' \in [Protocols -> [Targets -> Statuses \cup {NoResult}]]
    BY <1>1, <1>2, <1>3 DEF RowTypes, Statuses
  <2>2. prechecksLeft[p][t] - 1 \in Nat
    BY <1>1 DEF RowTypes
  <2>3. prechecksLeft' \in [Protocols -> [Targets -> Nat]]
    BY <1>1, <1>2, <2>2 DEF RowTypes
  <2>4. reached' \in [Protocols -> SUBSET Targets]
    BY <1>1 DEF RowTypes
  <2> QED BY <1>1, <2>1, <2>3, <2>4 DEF RowTypes
<1>5. /\ rows'[p][t] = Best(rows[p][t], result) /\ rows'[p][t] # NoResult /\ rows'[p][t] # "skip"
      /\ rows'[p][t] = "pass" <=> t \in reached'[p]
    BY <1>1, <1>2, <1>3, PrechecksAssumption DEF RowTypes, RowIsTrue, Best
<1>6. \A q \in Protocols, u \in Targets : q # p \/ u # t =>
          /\ rows'[q][u] = rows[q][u] /\ prechecksLeft'[q][u] = prechecksLeft[q][u]
          /\ u \in reached'[q] <=> u \in reached[q]
    BY <1>1, <1>2 DEF RowTypes
<1>7. ASSUME NEW q \in Protocols, NEW u \in Targets
      PROVE  RowIsTrue(q, u)'
  <2>1. CASE q = p /\ u = t
    BY <1>1, <1>5, <2>1 DEF RowIsTrue
  <2>2. CASE u # t
    BY <1>1, <1>6, <2>2 DEF RowIsTrue
  <2>3. CASE u = t /\ q # p
    <3>1. rows[q][t] # "skip"
      BY <1>1 DEF RowIsTrue
    <3> QED BY <1>1, <1>6, <2>3, <3>1 DEF RowIsTrue
  <2> QED BY <2>1, <2>2, <2>3
<1> QED BY <1>1, <1>4, <1>7 DEF RowsInv, ReportIsHonest

LEMMA CollectHolds ==
    ASSUME RowsInv, Collect
    PROVE  RowsInv'
<1>1. /\ main = "probe" /\ main' = "reported" /\ UNCHANGED <<dns, prechecksLeft, rows, reached>>
      /\ \A p \in Protocols, t \in Targets : prechecksLeft[p][t] = 0
    BY DEF Collect, NoneLeft
<1>2. PICK override \in Protocols \cup {NoResult} :
          report' = [override |-> override, suggested |-> SuggestProtocol(override),
                     hard |-> HasHardFail, warn |-> HasWarn]
    BY DEF Collect
<1>3. PICK s : s = SuggestProtocol(override)
    OBVIOUS
<1>4. RowTypes /\ \A p \in Protocols, t \in Targets : RowIsTrue(p, t)
    BY <1>1 DEF RowsInv
<1>5. ASSUME NEW p \in Protocols
      PROVE  /\ "pass" \in Rows(p) <=> reached[p] # {}
             /\ Rows(p) \subseteq Statuses
             /\ "skip" \in Rows(p) => \E t \in DOMAIN dns : \A q \in Protocols : t \notin reached[q]
  <2>1. \A t \in Targets : t \in reached[p] <=> rows[p][t] = "pass"
    BY <1>4 DEF RowIsTrue
  <2>2. \A t \in reached[p] : t \in DOMAIN dns /\ t \in Targets
    BY <1>4 DEF RowIsTrue, RowTypes
  <2>3. \A t \in DOMAIN dns : t \in Targets /\ rows[p][t] \in Statuses
    BY <1>1, <1>4 DEF RowIsTrue, RowTypes
  <2>4. \A t \in DOMAIN dns : rows[p][t] = "skip" => \A q \in Protocols : t \notin reached[q]
    BY <1>4, <2>3 DEF RowIsTrue
  <2> QED BY <2>1, <2>2, <2>3, <2>4 DEF Rows
<1>6. Protocols = {"quic", "http2"}
    BY DEF Protocols
<1>7. s # NoResult => /\ s \in Protocols /\ "fail" \notin Rows(s)
                      /\ reached[s] = {} => s = override
    BY <1>3, <1>5, <1>6 DEF SuggestProtocol, WorstStatus
<1>8. s = NoResult => /\ override # NoResult => "fail" \in Rows(override)
                      /\ \A p \in Protocols : "pass" \in Rows(p) => "fail" \in Rows(p)
    BY <1>3, <1>6, PrechecksAssumption DEF SuggestProtocol, WorstStatus
<1>9. HasHardFail /\ ~(\E t \in DOMAIN dns : dns[t] = "fail") => s = NoResult
    BY <1>6, <1>7 DEF HasHardFail
<1>10. ASSUME ~HasHardFail, s = NoResult, NEW p \in Protocols
      PROVE  reached[p] = {}
  <2>1. SUFFICES ASSUME NEW t \in reached[p] PROVE FALSE
    OBVIOUS
  <2>2. PICK q \in Protocols : "fail" \notin Rows(q)
    BY <1>10 DEF HasHardFail
  <2>3. t \in DOMAIN dns /\ t \in Targets
    BY <1>4, <2>1 DEF RowIsTrue, RowTypes
  <2>4. rows[q][t] \in Rows(q) /\ rows[q][t] # "skip" /\ rows[q][t] \in Statuses
    BY <1>4, <1>5, <2>1, <2>3 DEF Rows, RowIsTrue
  <2>5. "pass" \in Rows(q)
    BY <2>2, <2>4 DEF Statuses
  <2> QED BY <1>8, <1>10, <2>2, <2>5
<1>11. ReportIsHonest'
  <2>1. /\ report'.suggested = s /\ report'.override = override /\ report'.hard = HasHardFail
    BY <1>2, <1>3
  <2>2. \A p \in Protocols : Rows(p)' = Rows(p)
    BY <1>1 DEF Rows
  <2>3. \A p \in Protocols, t \in Targets : rows'[p][t] = "pass" <=> t \in reached'[p]
    BY <1>1, <1>4 DEF RowIsTrue
  <2>4. s # NoResult => "fail" \notin Rows(s)' /\ (reached'[s] = {} => s = override)
    BY <1>1, <1>7, <2>2
  <2> QED BY <1>1, <1>9, <1>10, <2>1, <2>3, <2>4 DEF ReportIsHonest
<1> QED BY <1>1, <1>4, <1>11 DEF RowsInv, RowTypes, RowIsTrue

\* prechecks, probeTarget and suggestProtocol: the report says what happened, for
\* any number of retries.
THEOREM PrechecksAreReported == PrechecksSpec => []ReportIsHonest
<1>1. PrechecksInit => RowsInv
    BY DEF PrechecksInit, RowsInv, RowTypes, NoneLeft, Statuses, ReportIsHonest
<1>2. RowsInv /\ [PrechecksNext]_prechecksVars => RowsInv'
  <2>1. SUFFICES ASSUME RowsInv, [PrechecksNext]_prechecksVars PROVE RowsInv'
    OBVIOUS
  <2>2. ASSUME UNCHANGED <<main, dns, prechecksLeft, rows, report, reached>>
        PROVE  RowsInv'
    BY <2>1, <2>2 DEF RowsInv, RowTypes, RowIsTrue, ReportIsHonest, Rows
  <2>3. CASE ResolveEdge
    <3>1. PICK found \in [1..1 -> SUBSET Families] \cup [1..2 -> SUBSET Families] :
              /\ dns' = DnsRows(found)
              /\ StartProbes(found) \/ UNCHANGED <<main, rows, prechecksLeft>>
      BY <2>3 DEF ResolveEdge
    <3>2. main = "dns" /\ UNCHANGED <<report, reached>>
      BY <2>3 DEF ResolveEdge
    <3>3. PICK D \in SUBSET Targets : found \in [D -> SUBSET Families]
      BY DEF Targets
    <3>4. CASE StartProbes(found)
      BY <2>1, <3>1, <3>2, <3>3, <3>4, ProbesStart
    <3>5. CASE UNCHANGED <<main, rows, prechecksLeft>>
      <4>1. DOMAIN dns' = D
        BY <3>1, <3>3 DEF DnsRows
      <4> QED BY <2>1, <3>2, <3>5, <4>1 DEF RowsInv, RowTypes, ReportIsHonest
    <3> QED BY <3>1, <3>4, <3>5
  <2>4. CASE StopResolving
    <3>1. PICK found \in [DOMAIN dns -> SUBSET Families] : dns' = DnsRows(found) /\ StartProbes(found)
      BY <2>4 DEF StopResolving
    <3>2. main = "dns" /\ reached' = reached /\ DOMAIN dns \in SUBSET Targets
      BY <2>1, <2>4 DEF StopResolving, RowsInv, RowTypes
    <3> QED BY <2>1, <3>1, <3>2, ProbesStart
  <2>5. CASE ResolveStaticEdge
    <3>0. PICK n \in 1..2 : \E found \in [1..n -> {{}, {"v4"}, {"v6"}}] :
              dns' = DnsRows(found) /\ StartProbes(found)
      BY <2>5 DEF ResolveStaticEdge
    <3>1. PICK found \in [1..n -> {{}, {"v4"}, {"v6"}}] : dns' = DnsRows(found) /\ StartProbes(found)
      BY <3>0
    <3>2. main = "dns" /\ reached' = reached
      BY <2>5 DEF ResolveStaticEdge
    <3>3. 1..n \in SUBSET Targets /\ found \in [1..n -> SUBSET Families]
      BY DEF Targets, Families
    <3> QED BY <2>1, <3>1, <3>2, <3>3, ProbesStart
  <2>6. CASE ProbeManagementAPI \/ Deadline
    BY <2>2, <2>6 DEF ProbeManagementAPI, Deadline
  <2>7. ASSUME NEW p \in Protocols, NEW t \in Targets, ProbePasses(p, t)
        PROVE  RowsInv'
    BY <2>1, <2>7, NextAddressHolds DEF ProbePasses
  <2>8. ASSUME NEW p \in Protocols, NEW t \in Targets, ProbeFails(p, t)
        PROVE  RowsInv'
    <3>1. CASE AgainAfter(p)
      BY <2>2, <2>8, <3>1 DEF ProbeFails
    <3>2. CASE ~AgainAfter(p)
      BY <2>1, <2>8, <3>2, NextAddressHolds DEF ProbeFails
    <3> QED BY <3>1, <3>2
  <2>9. CASE UNCHANGED prechecksVars
    BY <2>2, <2>9 DEF prechecksVars
  <2> QED BY <2>1, <2>3, <2>4, <2>5, <2>6, <2>7, <2>8, <2>9, CollectHolds DEF PrechecksNext
<1>3. RowsInv => ReportIsHonest
    BY DEF RowsInv
<1> QED BY <1>1, <1>2, <1>3, PTL DEF PrechecksSpec

-----------------------------------------------------------------------------
\* Diagnostic: of a command that runs alone, each file that has a path in the results
\* holds what it has written; whoever overlaps knows it.

Phases == {"find", "zip", "clean", "returned"} \cup Names

DiagTypes ==
    /\ diagPc \in [Reporters -> Phases]
    /\ creating \in [Reporters -> BOOLEAN] /\ linked \in [Reporters -> BOOLEAN]
    /\ written \in [Reporters -> BOOLEAN] /\ failed \in [Reporters -> BOOLEAN]
    /\ overlapped \in [Reporters -> BOOLEAN] /\ broke \in [Reporters -> BOOLEAN]
    /\ DOMAIN results = Reporters /\ DOMAIN archive = Reporters /\ DOMAIN files = Names

\* what x, a file or its copy in the archive, holds if p is alone and how its job ended
Own(p, ok, x) == x \subseteq {p} /\ (ok => x = {p})

Alone(p) ==
    /\ Busy(p) => \A q \in Reporters \ {p} : ~Busy(q)
    /\ creating[p] => linked[p] /\ files[diagPc[p]] = {}
    /\ diagPc[p] \in Names \cup {"zip"} => \A j \in WithPath(p) : Own(p, results[p][j].ok, files[j])
    /\ \A j \in DOMAIN archive[p] : Own(p, results[p][j].ok, archive[p][j])
    /\ diagPc[p] \in {"clean", "returned"} /\ DOMAIN results[p] # {} => written[p] \/ broke[p]

Ended(p) ==
    /\ written[p] => /\ \A j \in DOMAIN results[p] \ Failed(p) : j \in DOMAIN archive[p]
                     /\ failed[p] = (Failed(p) # {})
    /\ ~written[p] => failed[p] /\ archive[p] = NoResults

ReporterInv(p) ==
    /\ creating[p] => diagPc[p] \in Names
    /\ diagPc[p] = "find" => DOMAIN results[p] = {}
    /\ DOMAIN results[p] \subseteq Names
    /\ \A j \in DOMAIN results[p] : /\ results[p][j].ok => results[p][j].path
                                    /\ diagPc[p] \in Names => Index(j) < Index(diagPc[p])
    /\ DOMAIN archive[p] \subseteq WithPath(p)
    /\ diagPc[p] \notin {"zip", "clean", "returned"} => archive[p] = NoResults
    /\ diagPc[p] \notin {"clean", "returned"} => ~written[p]
    /\ diagPc[p] \in {"clean", "returned"} => Ended(p)
    /\ ~overlapped[p] => Alone(p)

HasFile(p, n) == n \in WithPath(p) \/ (creating[p] /\ n = diagPc[p])
Remains(n) == n \in {"logs", "report"} /\ \E p \in Reporters : n \in Failed(p)

\* a file that is there is a busy command's, or remains of a collection that broke off
FilesAreOfSomeone ==
    (\A p \in Reporters : ~overlapped[p]) =>
        \A n \in Names : files[n] # NotThere =>
            Remains(n) \/ \E p \in Reporters : Busy(p) /\ HasFile(p, n)

DiagInv == DiagTypes /\ (\A p \in Reporters : ReporterInv(p)) /\ FilesAreOfSomeone

LEMMA JobsInOrder ==
    /\ Names = {"endpoint", "logs", "raw", "trace", "report"}
    /\ \A j \in Names : Index(j) \in 1..5
    /\ \A i \in 1..5 : Jobs[i] \in Names /\ Index(Jobs[i]) = i
<1>1. Len(Jobs) = 5
    BY DEF Jobs
<1>2. /\ Jobs[1] = "endpoint" /\ Jobs[2] = "logs" /\ Jobs[3] = "raw" /\ Jobs[4] = "trace"
      /\ Jobs[5] = "report"
    BY DEF Jobs
<1>3. Names = {"endpoint", "logs", "raw", "trace", "report"}
    BY <1>1, <1>2 DEF Names
<1>4. ASSUME NEW j \in Names
      PROVE  Index(j) \in 1..5 /\ Jobs[Index(j)] = j
  <2>1. \E i \in 1..5 : Jobs[i] = j
    BY <1>1 DEF Names
  <2> QED BY <1>1, <2>1 DEF Index
<1>5. ASSUME NEW i \in 1..5
      PROVE  Jobs[i] \in Names /\ Index(Jobs[i]) = i
  <2>1. Jobs[i] \in Names
    BY <1>1 DEF Names
  <2>2. PICK k \in 1..5 : k = Index(Jobs[i]) /\ Jobs[k] = Jobs[i]
    BY <1>4, <2>1
  <2> QED BY <1>2, <2>1, <2>2
<1> QED BY <1>3, <1>4, <1>5

LEMMA NextJob ==
    ASSUME NEW p, NEW i \in 1..6, NEW d, d = JobAfter(p, i)
    PROVE  d = "zip" \/ (d \in Names /\ Index(d) >= i)
<1>1. PICK rest : rest = From(p, i)
    OBVIOUS
<1>2. rest \subseteq i..5
    BY <1>1 DEF From, Jobs
<1>3. CASE rest = {}
    BY <1>1, <1>3 DEF JobAfter
<1>4. CASE rest # {}
  <2>1. \E k \in rest : \A l \in rest : k <= l
    <3>1. rest \subseteq {1, 2, 3, 4, 5}
      BY <1>2
    <3>2. ASSUME NEW k \in rest, \A l \in 1..5 : l < k => l \notin rest
          PROVE  \E m \in rest : \A l \in rest : m <= l
      BY <3>1, <3>2
    <3>3. CASE 1 \in rest
      BY <3>2, <3>3
    <3>4. CASE 1 \notin rest /\ 2 \in rest
      BY <3>2, <3>4
    <3>5. CASE 1 \notin rest /\ 2 \notin rest /\ 3 \in rest
      BY <3>2, <3>5
    <3>6. CASE 1 \notin rest /\ 2 \notin rest /\ 3 \notin rest /\ 4 \in rest
      BY <3>2, <3>6
    <3>7. CASE rest \subseteq {5}
      <4>1. PICK k : k \in rest
        BY <1>4
      <4> QED BY <3>7, <4>1
    <3> QED BY <3>1, <3>3, <3>4, <3>5, <3>6, <3>7
  <2>2. PICK k \in rest : k = CHOOSE m \in rest : \A l \in rest : m <= l
    BY <2>1
  <2>3. d = Jobs[k] /\ k \in 1..5 /\ k >= i
    BY <1>1, <1>2, <1>4, <2>2 DEF JobAfter
  <2> QED BY <2>3, JobsInOrder
<1> QED BY <1>3, <1>4

LEMMA FollowingJob ==
    ASSUME NEW p \in Reporters, diagPc[p] \in Names, NEW d, d = Following(p)
    PROVE  d = "zip" \/ (d \in Names /\ Index(d) > Index(diagPc[p]))
<1>1. PICK i \in 2..6 : i = Index(diagPc[p]) + 1 /\ Index(diagPc[p]) \in 1..5
    BY JobsInOrder
<1>2. d = JobAfter(p, i) /\ i \in 1..6
    BY <1>1 DEF Following
<1>3. d = "zip" \/ (d \in Names /\ Index(d) >= i /\ Index(d) \in 1..5)
    BY <1>2, NextJob, JobsInOrder
<1> QED BY <1>1, <1>3

\* A step of p that changes nothing that is q's own: what is claimed of q holds on.
OthersSame(p) == \A q \in Reporters \ {p} :
    /\ diagPc'[q] = diagPc[q] /\ creating'[q] = creating[q] /\ results'[q] = results[q]
    /\ archive'[q] = archive[q] /\ written'[q] = written[q] /\ failed'[q] = failed[q]
    /\ overlapped'[q] = overlapped[q] /\ broke'[q] = broke[q]

LEMMA OthersHold ==
    ASSUME DiagInv, NEW p \in Reporters, Busy(p), OthersSame(p), DiagTypes'
    PROVE  \A q \in Reporters \ {p} : ReporterInv(q)'
<1> SUFFICES ASSUME NEW q \in Reporters \ {p} PROVE ReporterInv(q)'
    OBVIOUS
<1>1. ReporterInv(q) /\ DiagTypes
    BY DEF DiagInv
<1>2. /\ diagPc'[q] = diagPc[q] /\ creating'[q] = creating[q] /\ results'[q] = results[q]
      /\ archive'[q] = archive[q] /\ written'[q] = written[q] /\ failed'[q] = failed[q]
      /\ overlapped'[q] = overlapped[q] /\ broke'[q] = broke[q]
    BY DEF OthersSame
<1>3. WithPath(q)' = WithPath(q) /\ Failed(q)' = Failed(q)
    BY <1>2 DEF WithPath, Failed
<1>4. Ended(q) => Ended(q)'
    BY <1>2, <1>3 DEF Ended
<1>5. ASSUME ~overlapped[q]
      PROVE  Alone(q)'
  <2>1. Alone(q)
    BY <1>1, <1>5 DEF ReporterInv
  <2>2. ~Busy(q) /\ ~Busy(q)'
    BY <1>2, <2>1 DEF Alone, Busy
  <2>3. /\ diagPc[q] \notin Names \cup {"zip"} /\ ~creating[q]
    BY <1>1, <2>2, JobsInOrder DEF Busy, ReporterInv
  <2> QED BY <1>2, <2>1, <2>2, <2>3 DEF Alone
<1>6. /\ creating[q] => diagPc[q] \in Names
      /\ diagPc[q] = "find" => DOMAIN results[q] = {}
      /\ DOMAIN results[q] \subseteq Names
      /\ \A j \in DOMAIN results[q] : /\ results[q][j].ok => results[q][j].path
                                      /\ diagPc[q] \in Names => Index(j) < Index(diagPc[q])
      /\ DOMAIN archive[q] \subseteq WithPath(q)
      /\ diagPc[q] \notin {"zip", "clean", "returned"} => archive[q] = NoResults
      /\ diagPc[q] \notin {"clean", "returned"} => ~written[q]
      /\ diagPc[q] \in {"clean", "returned"} => Ended(q)
    BY <1>1 DEF ReporterInv
<1> QED BY <1>2, <1>3, <1>4, <1>5, <1>6 DEF ReporterInv

\* The job that is done is none of those before it.
LEMMA CurrentJobIsNew ==
    ASSUME DiagInv, NEW p \in Reporters, diagPc[p] \in Names
    PROVE  /\ diagPc[p] \notin DOMAIN results[p] /\ Busy(p) /\ archive[p] = NoResults /\ ~written[p]
           /\ DOMAIN archive[p] = {}
<1>1. ReporterInv(p)
    BY DEF DiagInv
<1>2. Index(diagPc[p]) \in 1..5
    BY JobsInOrder
<1>3. diagPc[p] \notin {"find", "zip", "clean", "returned"}
    BY JobsInOrder
<1>4. DOMAIN NoResults = {}
    BY DEF NoResults
<1> QED BY <1>1, <1>2, <1>3, <1>4 DEF ReporterInv, Busy

\* What Done leaves of the results, and where the command is then.
LEMMA DoneKeeps ==
    ASSUME DiagInv, NEW p \in Reporters, diagPc[p] \in Names, NEW ok \in BOOLEAN, NEW path \in BOOLEAN,
           Done(p, ok, path)
    PROVE  /\ DOMAIN results' = Reporters /\ creating' \in [Reporters -> BOOLEAN] /\ ~creating'[p]
           /\ diagPc' \in [Reporters -> Phases] /\ diagPc'[p] \in Names \cup {"zip"} /\ Busy(p)'
           /\ diagPc'[p] \in Names => Index(diagPc'[p]) > Index(diagPc[p])
           /\ \A q \in Reporters \ {p} : /\ results'[q] = results[q] /\ creating'[q] = creating[q]
                                         /\ diagPc'[q] = diagPc[q]
           /\ DOMAIN results'[p] = DOMAIN results[p] \cup {diagPc[p]}
           /\ \A j \in DOMAIN results[p] : results'[p][j] = results[p][j]
           /\ results'[p][diagPc[p]].ok = ok /\ results'[p][diagPc[p]].path = path
<1>1. DiagTypes /\ diagPc[p] \notin DOMAIN results[p]
    BY CurrentJobIsNew DEF DiagInv
<1>2. PICK d : d = Following(p)
    OBVIOUS
<1>3. d = "zip" \/ (d \in Names /\ Index(d) > Index(diagPc[p]))
    BY <1>2, FollowingJob
<1>4. diagPc' = [diagPc EXCEPT ![p] = d] /\ creating' = [creating EXCEPT ![p] = FALSE]
    BY <1>2 DEF Done
<1>5. /\ diagPc' \in [Reporters -> Phases] /\ diagPc'[p] = d
      /\ creating' \in [Reporters -> BOOLEAN] /\ ~creating'[p]
      /\ \A q \in Reporters \ {p} : diagPc'[q] = diagPc[q] /\ creating'[q] = creating[q]
    BY <1>1, <1>3, <1>4 DEF DiagTypes, Phases
<1>6. d \notin {"find", "returned"} /\ "zip" \notin Names
    BY <1>3, JobsInOrder
<1>7. results' = [results EXCEPT ![p] = [j \in DOMAIN results[p] \cup {diagPc[p]} |->
          IF j = diagPc[p] THEN [ok |-> ok, path |-> path] ELSE results[p][j]]]
    BY DEF Done
<1>8. PICK R : R = [j \in DOMAIN results[p] \cup {diagPc[p]} |->
          IF j = diagPc[p] THEN [ok |-> ok, path |-> path] ELSE results[p][j]]
    OBVIOUS
<1>9. /\ DOMAIN R = DOMAIN results[p] \cup {diagPc[p]}
      /\ \A j \in DOMAIN results[p] : R[j] = results[p][j]
      /\ R[diagPc[p]].ok = ok /\ R[diagPc[p]].path = path
    BY <1>1, <1>8
<1>10. DOMAIN results' = Reporters /\ results'[p] = R /\ \A q \in Reporters \ {p} : results'[q] = results[q]
    BY <1>1, <1>7, <1>8 DEF DiagTypes
<1> QED BY <1>3, <1>5, <1>6, <1>9, <1>10 DEF Busy

\* Trace changes nothing the invariant is about.
LEMMA QuietHolds ==
    ASSUME DiagInv, UNCHANGED <<diagPc, creating, linked, results, files, archive, written, failed,
                                overlapped, broke>>
    PROVE  DiagInv'
<1>1. ASSUME NEW p \in Reporters
      PROVE  ReporterInv(p)'
  <2>1. ReporterInv(p)
    BY DEF DiagInv
  <2> QED BY <2>1 DEF ReporterInv, Alone, Ended, WithPath, Failed, Busy
<1>2. DiagTypes' /\ FilesAreOfSomeone'
    BY DEF DiagInv, DiagTypes, FilesAreOfSomeone, Remains, HasFile, Failed, WithPath, Busy
<1> QED BY <1>1, <1>2 DEF DiagInv

LEMMA FindHolds ==
    ASSUME DiagInv, NEW p \in Reporters, Find(p)
    PROVE  DiagInv'
<1>1. PICK d : /\ d \in Names \cup {"zip", "returned"}
               /\ diagPc' = [diagPc EXCEPT ![p] = d] /\ failed' = [failed EXCEPT ![p] = (d = "returned")]
               /\ d = "returned" => overlapped' = overlapped
               /\ d # "returned" => overlapped' = [q \in Reporters |-> overlapped[q] \/
                     \E r \in Reporters \ {q} : {q, r} \subseteq {b \in Reporters : Busy(b)} \cup {p}]
  <2>1. PICK instances \in 0..2 :
            /\ diagPc' = [diagPc EXCEPT ![p] = IF instances = 1 THEN JobAfter(p, 1) ELSE "returned"]
            /\ failed' = [failed EXCEPT ![p] = instances # 1]
            /\ overlapped' = IF instances = 1
                 THEN [q \in Reporters |-> overlapped[q] \/ \E r \in Reporters \ {q} :
                                       {q, r} \subseteq {b \in Reporters : Busy(b)} \cup {p}]
                 ELSE overlapped
    BY DEF Find
  <2>2. PICK d : d = JobAfter(p, 1)
    OBVIOUS
  <2>3. d \in Names \cup {"zip"} /\ d # "returned"
    BY <2>2, NextJob, JobsInOrder
  <2>4. CASE instances = 1
    BY <2>1, <2>2, <2>3, <2>4
  <2>5. CASE instances # 1
    BY <2>1, <2>5
  <2> QED BY <2>4, <2>5
<1>2. /\ UNCHANGED <<creating, linked, results, files, archive, written, broke>> /\ diagPc[p] = "find"
      /\ DiagTypes
    BY DEF Find, DiagInv, zipVars
<1>3. /\ diagPc' \in [Reporters -> Phases] /\ failed' \in [Reporters -> BOOLEAN]
      /\ overlapped' \in [Reporters -> BOOLEAN]
      /\ diagPc'[p] = d /\ failed'[p] = (d = "returned")
      /\ \A q \in Reporters \ {p} : diagPc'[q] = diagPc[q] /\ failed'[q] = failed[q]
      /\ \A q \in Reporters : overlapped[q] => overlapped'[q]
  <2>1. /\ diagPc' \in [Reporters -> Phases] /\ diagPc'[p] = d
        /\ \A q \in Reporters \ {p} : diagPc'[q] = diagPc[q]
    BY <1>1, <1>2 DEF DiagTypes, Phases
  <2>2. /\ failed' \in [Reporters -> BOOLEAN] /\ failed'[p] = (d = "returned")
        /\ \A q \in Reporters \ {p} : failed'[q] = failed[q]
    BY <1>1, <1>2 DEF DiagTypes
  <2>3. overlapped' \in [Reporters -> BOOLEAN] /\ \A q \in Reporters : overlapped[q] => overlapped'[q]
    BY <1>1, <1>2 DEF DiagTypes
  <2> QED BY <2>1, <2>2, <2>3
<1>4. DiagTypes'
    BY <1>2, <1>3 DEF DiagTypes
<1>5. ~Busy(p) /\ \A q \in Reporters \ {p} : Busy(q)' = Busy(q)
    BY <1>2, <1>3 DEF Busy
<1>6. \A q \in Reporters : WithPath(q)' = WithPath(q) /\ Failed(q)' = Failed(q)
    BY <1>2 DEF WithPath, Failed
\* whoever is busy with p knows it, and p knows it
<1>7. ASSUME NEW q \in Reporters, NEW r \in Reporters \ {q}, Busy(q)', Busy(r)'
      PROVE  overlapped'[q]
  <2>1. CASE p \in {q, r}
    <3>1. d # "returned"
      BY <1>3, <1>7, <2>1 DEF Busy
    <3>2. {q, r} \subseteq {b \in Reporters : Busy(b)} \cup {p}
      BY <1>5, <1>7
    <3>3. overlapped' = [t \in Reporters |-> overlapped[t] \/
               \E s \in Reporters \ {t} : {t, s} \subseteq {b \in Reporters : Busy(b)} \cup {p}]
      BY <1>1, <3>1
    <3>4. overlapped'[q] = (overlapped[q] \/
               \E s \in Reporters \ {q} : {q, s} \subseteq {b \in Reporters : Busy(b)} \cup {p})
      BY <3>3
    <3> QED BY <3>2, <3>4
  <2>2. CASE p \notin {q, r}
    <3>1. Busy(q) /\ Busy(r) /\ ReporterInv(q)
      BY <1>5, <1>7, <2>2 DEF DiagInv
    <3>2. overlapped[q]
      BY <3>1 DEF ReporterInv, Alone
    <3> QED BY <1>3, <3>2
  <2> QED BY <2>1, <2>2
<1>8. ASSUME NEW q \in Reporters \ {p}
      PROVE  ReporterInv(q)'
  <2>1. ReporterInv(q) /\ diagPc'[q] = diagPc[q] /\ failed'[q] = failed[q]
    BY <1>3 DEF DiagInv
  <2>2. Ended(q) => Ended(q)'
    BY <1>2, <1>6, <2>1 DEF Ended
  <2>3. ~overlapped'[q] => Alone(q)'
    <3>1. ~overlapped'[q] => Alone(q)
      BY <1>3, <2>1 DEF ReporterInv
    <3>2. ~overlapped'[q] /\ Busy(q)' => \A r \in Reporters \ {q} : ~Busy(r)'
      BY <1>7
    <3> QED BY <1>2, <1>6, <2>1, <3>1, <3>2 DEF Alone
  <2> QED BY <1>2, <1>6, <2>1, <2>2, <2>3 DEF ReporterInv
<1>9. ReporterInv(p)'
  <2>1. /\ ~creating[p] /\ DOMAIN results[p] = {} /\ archive[p] = NoResults /\ ~written[p]
        /\ DOMAIN archive[p] = {} /\ WithPath(p) = {} /\ Failed(p) = {}
    <3>1. /\ ~creating[p] /\ DOMAIN results[p] = {} /\ archive[p] = NoResults /\ ~written[p]
      BY <1>2, JobsInOrder DEF DiagInv, ReporterInv
    <3>2. DOMAIN NoResults = {}
      BY DEF NoResults
    <3> QED BY <3>1, <3>2 DEF WithPath, Failed
  <2>2. d \in {"clean", "returned"} => d = "returned"
    BY <1>1, JobsInOrder
  <2>3. diagPc'[p] \in {"clean", "returned"} => Ended(p)'
    BY <1>2, <1>3, <2>1, <2>2 DEF Ended
  <2>4. ~overlapped'[p] => Alone(p)'
    <3>1. ~overlapped'[p] /\ Busy(p)' => \A r \in Reporters \ {p} : ~Busy(r)'
      BY <1>7
    <3> QED BY <1>2, <1>6, <2>1, <3>1 DEF Alone
  <2> QED BY <1>1, <1>2, <1>3, <1>6, <2>1, <2>3, <2>4, JobsInOrder DEF ReporterInv
<1>10. FilesAreOfSomeone'
  <2> SUFFICES ASSUME \A q \in Reporters : ~overlapped'[q], NEW n \in Names, files[n] # NotThere
               PROVE  Remains(n)' \/ \E q \in Reporters : Busy(q)' /\ HasFile(q, n)'
    BY <1>2 DEF FilesAreOfSomeone
  <2>1. Remains(n) \/ \E q \in Reporters : Busy(q) /\ HasFile(q, n)
    BY <1>3 DEF DiagInv, FilesAreOfSomeone
  <2>2. Remains(n) => Remains(n)'
    BY <1>6 DEF Remains
  <2>3. ASSUME NEW q \in Reporters, Busy(q), HasFile(q, n)
        PROVE  Busy(q)' /\ HasFile(q, n)'
    <3>1. q # p
      BY <1>5, <2>3
    <3> QED BY <1>2, <1>3, <1>5, <1>6, <2>3, <3>1 DEF HasFile
  <2> QED BY <2>1, <2>2, <2>3
<1> QED BY <1>4, <1>8, <1>9, <1>10 DEF DiagInv

LEMMA CreateFileHolds ==
    ASSUME DiagInv, NEW p \in Reporters, CreateFile(p)
    PROVE  DiagInv'
<1>1. /\ diagPc[p] \in Names /\ ~creating[p] /\ DiagTypes
      /\ files' = [files EXCEPT ![diagPc[p]] = {}]
      /\ creating' = [creating EXCEPT ![p] = TRUE] /\ linked' = [linked EXCEPT ![p] = TRUE]
      /\ UNCHANGED <<diagPc, results, archive, written, failed, overlapped, broke>>
    BY DEF CreateFile, zipVars, Ready, IsJob, DiagInv
<1>2. /\ diagPc[p] \notin DOMAIN results[p] /\ Busy(p) /\ ReporterInv(p)
    BY <1>1, CurrentJobIsNew DEF DiagInv
<1>3. /\ creating' \in [Reporters -> BOOLEAN] /\ creating'[p] /\ linked'[p]
      /\ linked' \in [Reporters -> BOOLEAN]
      /\ \A q \in Reporters \ {p} : creating'[q] = creating[q]
      /\ DOMAIN files' = Names /\ files'[diagPc[p]] = {}
      /\ \A n \in Names : n # diagPc[p] => files'[n] = files[n]
    BY <1>1 DEF DiagTypes
<1>4. DiagTypes' /\ OthersSame(p)
    BY <1>1, <1>3 DEF DiagTypes, OthersSame
<1>5. \A q \in Reporters : WithPath(q)' = WithPath(q) /\ Failed(q)' = Failed(q) /\ Busy(q)' = Busy(q)
    BY <1>1 DEF WithPath, Failed, Busy
<1>6. \A q \in Reporters \ {p} : ReporterInv(q)'
    BY <1>2, <1>4, OthersHold
<1>7. ReporterInv(p)'
  <2>1. Ended(p) => Ended(p)'
    BY <1>1, <1>5 DEF Ended
  <2>2. WithPath(p) \subseteq Names \ {diagPc[p]}
    BY <1>2 DEF WithPath, ReporterInv
  <2>3. ~overlapped[p] => Alone(p)'
    BY <1>1, <1>2, <1>3, <1>5, <2>2 DEF Alone, ReporterInv
  <2> QED BY <1>1, <1>2, <1>5, <2>1, <2>3 DEF ReporterInv
<1>8. FilesAreOfSomeone'
  <2> SUFFICES ASSUME \A q \in Reporters : ~overlapped'[q], NEW n \in Names, files'[n] # NotThere
               PROVE  Remains(n)' \/ \E q \in Reporters : Busy(q)' /\ HasFile(q, n)'
    BY DEF FilesAreOfSomeone
  <2>1. CASE n = diagPc[p]
    BY <1>1, <1>2, <1>3, <1>5, <2>1 DEF HasFile
  <2>2. CASE n # diagPc[p]
    <3>1. Remains(n) \/ \E q \in Reporters : Busy(q) /\ HasFile(q, n)
      BY <1>1, <1>3, <2>2 DEF DiagInv, FilesAreOfSomeone
    <3>2. Remains(n) => Remains(n)'
      BY <1>5 DEF Remains
    <3>3. ASSUME NEW q \in Reporters, Busy(q), HasFile(q, n)
          PROVE  Busy(q)' /\ HasFile(q, n)'
      BY <1>1, <1>3, <1>5, <3>3 DEF HasFile
    <3> QED BY <3>1, <3>2, <3>3
  <2> QED BY <2>1, <2>2
<1> QED BY <1>4, <1>6, <1>7, <1>8 DEF DiagInv

\* A job ends: its file, if it has a path, is p's own, and whole if the job ended well.
LEMMA DoneHolds ==
    ASSUME DiagInv, NEW p \in Reporters, diagPc[p] \in Names, NEW ok \in BOOLEAN, NEW path \in BOOLEAN,
           Done(p, ok, path), ok => path,
           UNCHANGED <<bypass, linked, traced, archive, written, failed, overlapped, broke>>,
           DOMAIN files' = Names, \A n \in Names : n # diagPc[p] => files'[n] = files[n],
           path => (~overlapped[p] => Own(p, ok, files'[diagPc[p]])),
           ~path => \/ diagPc[p] \in {"logs", "report"}
                    \/ files' = files /\ ~creating[p]
    PROVE  DiagInv'
<1>1. /\ diagPc[p] \notin DOMAIN results[p] /\ Busy(p) /\ ReporterInv(p) /\ DiagTypes
      /\ archive[p] = NoResults /\ DOMAIN archive[p] = {} /\ ~written[p]
    BY CurrentJobIsNew DEF DiagInv
<1>2. /\ DOMAIN results' = Reporters /\ creating' \in [Reporters -> BOOLEAN] /\ ~creating'[p]
      /\ diagPc' \in [Reporters -> Phases] /\ diagPc'[p] \in Names \cup {"zip"} /\ Busy(p)'
      /\ diagPc'[p] \in Names => Index(diagPc'[p]) > Index(diagPc[p])
      /\ \A q \in Reporters \ {p} : /\ results'[q] = results[q] /\ creating'[q] = creating[q]
                                    /\ diagPc'[q] = diagPc[q]
      /\ DOMAIN results'[p] = DOMAIN results[p] \cup {diagPc[p]}
      /\ \A j \in DOMAIN results[p] : results'[p][j] = results[p][j]
      /\ results'[p][diagPc[p]].ok = ok /\ results'[p][diagPc[p]].path = path
    BY DoneKeeps
<1>3. DiagTypes' /\ OthersSame(p)
    BY <1>1, <1>2 DEF DiagTypes, OthersSame
<1>4. \A q \in Reporters \ {p} : ReporterInv(q)'
    BY <1>1, <1>3, OthersHold
<1>5. /\ \A q \in Reporters \ {p} : /\ WithPath(q)' = WithPath(q) /\ Failed(q)' = Failed(q)
                                    /\ Busy(q)' = Busy(q)
      /\ WithPath(p)' = WithPath(p) \cup (IF path THEN {diagPc[p]} ELSE {})
      /\ Failed(p)' = Failed(p) \cup (IF ok THEN {} ELSE {diagPc[p]})
      /\ WithPath(p) \subseteq Names \ {diagPc[p]}
  <2>1. \A q \in Reporters \ {p} : /\ WithPath(q)' = WithPath(q) /\ Failed(q)' = Failed(q)
                                   /\ Busy(q)' = Busy(q)
    BY <1>2 DEF WithPath, Failed, Busy
  <2>2. WithPath(p)' = WithPath(p) \cup (IF path THEN {diagPc[p]} ELSE {})
    BY <1>1, <1>2 DEF WithPath
  <2>3. Failed(p)' = Failed(p) \cup (IF ok THEN {} ELSE {diagPc[p]})
    BY <1>1, <1>2 DEF Failed
  <2>4. WithPath(p) \subseteq Names \ {diagPc[p]}
    BY <1>1 DEF WithPath, ReporterInv
  <2> QED BY <2>1, <2>2, <2>3, <2>4
<1>6. ReporterInv(p)'
  <2>1. diagPc'[p] \notin {"find", "clean", "returned"}
    BY <1>2, JobsInOrder
  <2>2. ASSUME ~overlapped[p]
        PROVE  Alone(p)'
    <3>1. Alone(p)
      BY <1>1, <2>2 DEF ReporterInv
    <3>2. \A q \in Reporters \ {p} : ~Busy(q)'
      BY <1>1, <1>5, <3>1 DEF Alone
    <3>3. ASSUME NEW j \in WithPath(p)'
          PROVE  Own(p, results'[p][j].ok, files'[j])
      <4>1. CASE j = diagPc[p]
        BY <1>2, <1>5, <2>2, <3>3, <4>1
      <4>2. CASE j # diagPc[p]
        <5>1. j \in WithPath(p) /\ files'[j] = files[j] /\ results'[p][j] = results[p][j]
          BY <1>2, <1>5, <3>3, <4>2 DEF WithPath
        <5> QED BY <3>1, <5>1 DEF Alone
      <4> QED BY <4>1, <4>2
    <3> QED BY <1>1, <1>2, <2>1, <3>2, <3>3 DEF Alone
  <2>3. ASSUME NEW j \in DOMAIN results'[p]
        PROVE  /\ results'[p][j].ok => results'[p][j].path
               /\ diagPc'[p] \in Names => Index(j) < Index(diagPc'[p])
    <3>1. CASE j = diagPc[p]
      BY <1>2, <3>1, JobsInOrder
    <3>2. CASE j # diagPc[p]
      <4>1. /\ j \in DOMAIN results[p] /\ results'[p][j] = results[p][j] /\ j \in Names
            /\ Index(j) < Index(diagPc[p]) /\ (results[p][j].ok => results[p][j].path)
        BY <1>1, <1>2, <2>3, <3>2 DEF ReporterInv
      <4>2. Index(j) \in 1..5 /\ Index(diagPc[p]) \in 1..5
            /\ (diagPc'[p] \in Names => Index(diagPc'[p]) \in 1..5)
        BY <4>1, JobsInOrder
      <4> QED BY <1>2, <4>1, <4>2
    <3> QED BY <3>1, <3>2
  <2>4. DOMAIN results'[p] \subseteq Names
    BY <1>1, <1>2 DEF ReporterInv
  <2> QED BY <1>1, <1>2, <2>1, <2>2, <2>3, <2>4 DEF ReporterInv
<1>7. FilesAreOfSomeone'
  <2> SUFFICES ASSUME \A q \in Reporters : ~overlapped[q], NEW n \in Names, files'[n] # NotThere
               PROVE  Remains(n)' \/ \E q \in Reporters : Busy(q)' /\ HasFile(q, n)'
    BY DEF FilesAreOfSomeone
  <2>1. Remains(n) => Remains(n)'
    BY <1>5 DEF Remains
  <2>2. CASE n # diagPc[p] \/ (files' = files /\ ~creating[p])
    <3>1. Remains(n) \/ \E q \in Reporters : Busy(q) /\ HasFile(q, n)
      BY <2>2 DEF DiagInv, FilesAreOfSomeone
    <3>2. ASSUME NEW q \in Reporters, Busy(q), HasFile(q, n)
          PROVE  Busy(q)' /\ HasFile(q, n)'
      <4>1. CASE q = p
        BY <1>2, <1>5, <2>2, <3>2, <4>1 DEF HasFile
      <4>2. CASE q # p
        BY <1>2, <1>5, <3>2, <4>2 DEF HasFile
      <4> QED BY <4>1, <4>2
    <3> QED BY <2>1, <3>1, <3>2
  <2>3. CASE n = diagPc[p] /\ path
    BY <1>2, <1>5, <2>3 DEF HasFile
  <2>4. CASE n = diagPc[p] /\ ~path /\ diagPc[p] \in {"logs", "report"}
    BY <1>5, <2>4 DEF Remains
  <2> QED BY <2>2, <2>3, <2>4
<1> QED BY <1>3, <1>4, <1>6, <1>7 DEF DiagInv

LEMMA JobEndHolds ==
    ASSUME DiagInv, NEW p \in Reporters, CreateFails(p) \/ WriteFile(p) \/ WriteFails(p)
    PROVE  DiagInv'
<1>1. /\ diagPc[p] \in Names /\ DiagTypes /\ ReporterInv(p)
      /\ UNCHANGED <<bypass, linked, traced, archive, written, failed, overlapped, broke>>
    BY DEF zipVars, CreateFails, Ready, IsJob, WriteFile, WriteFails, DiagInv, ReporterInv
<1>2. /\ DOMAIN Put(p) = Names /\ \A n \in Names : n # diagPc[p] => Put(p)[n] = files[n]
      /\ creating[p] /\ ~overlapped[p] => files[diagPc[p]] = {} /\ Put(p)[diagPc[p]] = {p}
  <2>1. DOMAIN Put(p) = Names /\ \A n \in Names : n # diagPc[p] => Put(p)[n] = files[n]
    BY <1>1 DEF Put, DiagTypes
  <2>2. creating[p] /\ ~overlapped[p] => linked[p] /\ files[diagPc[p]] = {}
    BY <1>1 DEF ReporterInv, Alone
  <2>3. linked[p] /\ files[diagPc[p]] = {} => Put(p)[diagPc[p]] = {p}
    BY <1>1 DEF Put, DiagTypes
  <2> QED BY <2>1, <2>2, <2>3
<1>3. CASE CreateFails(p)
  <2>1. Done(p, FALSE, FALSE) /\ files' = files /\ ~creating[p]
    BY <1>3 DEF CreateFails, Ready
  <2> QED BY <1>1, <2>1, DoneHolds DEF DiagTypes
<1>4. CASE WriteFile(p)
  <2>1. PICK ok \in BOOLEAN : ok = (diagPc[p] \in {"raw", "trace"} => traced[p] = "ok")
    OBVIOUS
  <2>2. Done(p, ok, TRUE) /\ files' = Put(p) /\ creating[p]
    BY <1>4, <2>1 DEF WriteFile
  <2>3. ~overlapped[p] => Own(p, ok, files'[diagPc[p]])
    BY <1>2, <2>2 DEF Own
  <2> QED BY <1>1, <1>2, <2>2, <2>3, DoneHolds
<1>5. CASE WriteFails(p)
  <2>1. PICK path \in BOOLEAN : path = (diagPc[p] \notin {"logs", "report"})
    OBVIOUS
  <2>2. Done(p, FALSE, path) /\ files' \in {files, Put(p)} /\ creating[p]
    BY <1>5, <2>1 DEF WriteFails
  <2>3. ~overlapped[p] => Own(p, FALSE, files'[diagPc[p]])
    BY <1>2, <2>2 DEF Own
  <2>4. DOMAIN files' = Names /\ \A n \in Names : n # diagPc[p] => files'[n] = files[n]
    BY <1>1, <1>2, <2>2 DEF DiagTypes
  <2> QED BY <1>1, <2>1, <2>2, <2>3, <2>4, DoneHolds
<1> QED BY <1>3, <1>4, <1>5

LEMMA ZipHolds ==
    ASSUME DiagInv, NEW p \in Reporters, ZipFile(p) \/ ZipStops(p) \/ ZipEnds(p)
    PROVE  DiagInv'
<1>1. /\ diagPc[p] = "zip" /\ DiagTypes /\ ReporterInv(p) /\ Busy(p)
      /\ UNCHANGED <<creating, linked, results, files, overlapped>>
    BY DEF ZipFile, ZipStops, ZipEnds, DiagInv, Busy
<1>2. "zip" \notin Names /\ "clean" \notin Names /\ ~creating[p] /\ ~written[p]
    BY <1>1, JobsInOrder DEF ReporterInv
<1>3. /\ diagPc' = [diagPc EXCEPT ![p] = "clean"] \/ diagPc' = diagPc
      /\ failed' = failed \/ failed' = [failed EXCEPT ![p] = TRUE]
            \/ failed' = [failed EXCEPT ![p] = (Failed(p) # {})]
      /\ written' = written \/ written' = [written EXCEPT ![p] = TRUE]
      /\ broke' = broke \/ broke' = [broke EXCEPT ![p] = TRUE]
      /\ DOMAIN archive' = Reporters /\ \A q \in Reporters \ {p} : archive'[q] = archive[q]
  <2>1. CASE ZipFile(p)
    BY <1>1, <2>1 DEF ZipFile, DiagTypes, zipVars
  <2>2. CASE ZipStops(p)
    BY <1>1, <2>2 DEF ZipStops, DiagTypes
  <2>3. CASE ZipEnds(p)
    <3>1. (\E j \in DOMAIN results[p] : ~results[p][j].ok) = (Failed(p) # {})
      BY DEF Failed
    <3> QED BY <1>1, <2>3, <3>1 DEF ZipEnds, DiagTypes
  <2> QED BY <2>1, <2>2, <2>3
<1>4. DiagTypes' /\ OthersSame(p)
  <2>1. diagPc' \in [Reporters -> Phases] /\ \A q \in Reporters \ {p} : diagPc'[q] = diagPc[q]
    BY <1>1, <1>3 DEF DiagTypes, Phases
  <2>2. failed' \in [Reporters -> BOOLEAN] /\ \A q \in Reporters \ {p} : failed'[q] = failed[q]
    BY <1>1, <1>3 DEF DiagTypes
  <2>3. written' \in [Reporters -> BOOLEAN] /\ \A q \in Reporters \ {p} : written'[q] = written[q]
    BY <1>1, <1>3 DEF DiagTypes
  <2>4. broke' \in [Reporters -> BOOLEAN] /\ \A q \in Reporters \ {p} : broke'[q] = broke[q]
    BY <1>1, <1>3 DEF DiagTypes
  <2> QED BY <1>1, <1>3, <2>1, <2>2, <2>3, <2>4 DEF DiagTypes, OthersSame
<1>5. /\ \A q \in Reporters : WithPath(q)' = WithPath(q) /\ Failed(q)' = Failed(q)
      /\ \A q \in Reporters : Busy(q)' = Busy(q)
  <2>1. \A q \in Reporters : WithPath(q)' = WithPath(q) /\ Failed(q)' = Failed(q)
    BY <1>1 DEF WithPath, Failed
  <2>2. Busy(p)' = Busy(p)
    BY <1>1, <1>3 DEF DiagTypes, Busy
  <2>3. \A q \in Reporters \ {p} : Busy(q)' = Busy(q)
    BY <1>4 DEF OthersSame, Busy
  <2>4. \A q \in Reporters : Busy(q)' = Busy(q)
    BY <2>2, <2>3
  <2> QED BY <2>1, <2>4
<1>6. \A q \in Reporters \ {p} : ReporterInv(q)'
    BY <1>1, <1>4, OthersHold
<1>7. ReporterInv(p)'
  <2>1. CASE ZipFile(p)
    <3>1. PICK j \in WithPath(p) \ DOMAIN archive[p] :
              archive' = [archive EXCEPT ![p] =
                 [n \in DOMAIN archive[p] \cup {j} |-> IF n = j THEN files[j] ELSE archive[p][n]]]
      BY <2>1 DEF ZipFile
    <3>2. /\ DOMAIN archive'[p] = DOMAIN archive[p] \cup {j} /\ archive'[p][j] = files[j]
          /\ \A n \in DOMAIN archive[p] : archive'[p][n] = archive[p][n]
      BY <1>1, <3>1 DEF DiagTypes
    <3>3. UNCHANGED <<diagPc, written, failed, broke>>
      BY <2>1 DEF ZipFile, zipVars
    <3>4. ~overlapped[p] => Alone(p)'
      <4>1. ~overlapped[p] => Alone(p) /\ \A q \in Reporters \ {p} : ~Busy(q)'
        BY <1>1, <1>5 DEF ReporterInv, Alone
      <4>2. ASSUME ~overlapped[p], NEW n \in DOMAIN archive'[p]
            PROVE  Own(p, results[p][n].ok, archive'[p][n])
        BY <1>1, <3>1, <3>2, <4>1, <4>2 DEF Alone
      <4> QED BY <1>1, <1>5, <3>3, <4>1, <4>2 DEF Alone
    <3> QED BY <1>1, <1>2, <1>5, <3>1, <3>2, <3>3, <3>4 DEF ReporterInv
  <2>2. CASE ZipStops(p)
    <3>1. broke'[p] \/ \E j \in WithPath(p) : files[j] = NotThere
      BY <2>2 DEF ZipStops, DiagTypes, DiagInv
    <3>2. diagPc'[p] = "clean" /\ archive'[p] = NoResults /\ failed'[p] = TRUE /\ ~written'[p]
      BY <1>1, <1>2, <2>2 DEF ZipStops, DiagTypes
    <3>3. overlapped[p] \/ broke'[p]
      <4>1. \A j : files[j] = NotThere => ~(files[j] \subseteq {p})
        BY ReportersAssumption DEF NotThere
      <4>2. ~overlapped[p] => \A j \in WithPath(p) : Own(p, results[p][j].ok, files[j])
        BY <1>1 DEF ReporterInv, Alone
      <4> QED BY <3>1, <4>1, <4>2 DEF Own
    <3>4. Ended(p)'
      BY <3>2 DEF Ended
    <3>5. DOMAIN archive'[p] = {}
      BY <3>2 DEF NoResults
    <3>6. ~overlapped[p] => Alone(p)'
      <4>1. ~overlapped[p] => Alone(p) /\ \A q \in Reporters \ {p} : ~Busy(q)'
        BY <1>1, <1>5 DEF ReporterInv, Alone
      <4> QED BY <1>1, <1>2, <1>5, <3>2, <3>3, <3>5, <4>1, JobsInOrder DEF Alone
    <3> QED BY <1>1, <1>2, <1>5, <3>2, <3>4, <3>5, <3>6 DEF ReporterInv
  <2>3. CASE ZipEnds(p)
    <3>1. /\ diagPc'[p] = "clean" /\ written'[p] /\ failed'[p] = (Failed(p) # {})
          /\ archive' = archive /\ WithPath(p) \subseteq DOMAIN archive[p]
      <4>1. (\E j \in DOMAIN results[p] : ~results[p][j].ok) = (Failed(p) # {})
        BY DEF Failed
      <4> QED BY <1>1, <2>3, <4>1 DEF ZipEnds, DiagTypes
    <3>2. \A j \in DOMAIN results[p] \ Failed(p) : j \in WithPath(p)
      BY <1>1 DEF ReporterInv, Failed, WithPath
    <3>3. Ended(p)'
      BY <1>1, <1>5, <3>1, <3>2 DEF Ended
    <3>4. ~overlapped[p] => Alone(p)'
      <4>1. ~overlapped[p] => Alone(p) /\ \A q \in Reporters \ {p} : ~Busy(q)'
        BY <1>1, <1>5 DEF ReporterInv, Alone
      <4> QED BY <1>1, <1>2, <1>5, <3>1, <4>1 DEF Alone
    <3> QED BY <1>1, <1>2, <1>5, <3>1, <3>3, <3>4 DEF ReporterInv
  <2> QED BY <2>1, <2>2, <2>3
<1>8. FilesAreOfSomeone'
  <2> SUFFICES ASSUME \A q \in Reporters : ~overlapped[q], NEW n \in Names, files[n] # NotThere
               PROVE  Remains(n)' \/ \E q \in Reporters : Busy(q)' /\ HasFile(q, n)'
    BY <1>1 DEF FilesAreOfSomeone
  <2>1. Remains(n) \/ \E q \in Reporters : Busy(q) /\ HasFile(q, n)
    BY DEF DiagInv, FilesAreOfSomeone
  <2>2. Remains(n) => Remains(n)'
    BY <1>5 DEF Remains
  <2>3. ASSUME NEW q \in Reporters, HasFile(q, n)
        PROVE  HasFile(q, n)'
    BY <1>1, <1>2, <1>4, <1>5, <2>3 DEF HasFile, OthersSame
  <2> QED BY <1>5, <2>1, <2>2, <2>3
<1> QED BY <1>4, <1>6, <1>7, <1>8 DEF DiagInv

\* What is removed may be another command's only if both know that they overlap.
LEMMA CleanHolds ==
    ASSUME DiagInv, NEW p \in Reporters, Clean(p)
    PROVE  DiagInv'
<1>1. /\ diagPc[p] = "clean" /\ DiagTypes /\ ReporterInv(p) /\ Busy(p)
      /\ files' = [n \in Names |-> IF n \in WithPath(p) THEN NotThere ELSE files[n]]
      /\ diagPc' = [diagPc EXCEPT ![p] = "returned"]
      /\ linked' = [q \in Reporters |-> linked[q] /\ diagPc[q] \notin WithPath(p)]
      /\ UNCHANGED <<creating, results, archive, written, failed, overlapped, broke>>
    BY DEF Clean, Removed, DiagInv, Busy, zipVars
<1>2. "clean" \notin Names /\ "returned" \notin Names /\ ~creating[p]
    BY <1>1, JobsInOrder DEF ReporterInv
<1>3. /\ diagPc' \in [Reporters -> Phases] /\ diagPc'[p] = "returned"
      /\ \A q \in Reporters \ {p} : diagPc'[q] = diagPc[q]
    BY <1>1 DEF DiagTypes, Phases
<1>4. linked' \in [Reporters -> BOOLEAN] /\ DOMAIN files' = Names
    BY <1>1 DEF DiagTypes
<1>5. DiagTypes' /\ OthersSame(p)
    BY <1>1, <1>3, <1>4 DEF DiagTypes, OthersSame
<1>6. /\ \A q \in Reporters : WithPath(q)' = WithPath(q) /\ Failed(q)' = Failed(q)
      /\ ~Busy(p)' /\ \A q \in Reporters \ {p} : Busy(q)' = Busy(q)
    BY <1>1, <1>3 DEF WithPath, Failed, Busy
<1>7. \A q \in Reporters \ {p} : ReporterInv(q)'
    BY <1>1, <1>5, OthersHold
<1>8. ReporterInv(p)'
  <2>1. Ended(p) /\ (Ended(p) => Ended(p)')
    BY <1>1, <1>6 DEF Ended, ReporterInv
  <2>2. ~overlapped[p] => Alone(p)'
    BY <1>1, <1>2, <1>3, <1>6 DEF Alone, ReporterInv
  <2> QED BY <1>1, <1>2, <1>3, <1>6, <2>1, <2>2 DEF ReporterInv
<1>9. FilesAreOfSomeone'
  <2> SUFFICES ASSUME \A q \in Reporters : ~overlapped[q], NEW n \in Names, files'[n] # NotThere
               PROVE  Remains(n)' \/ \E q \in Reporters : Busy(q)' /\ HasFile(q, n)'
    BY <1>1 DEF FilesAreOfSomeone
  <2>1. n \notin WithPath(p) /\ files[n] # NotThere
    BY <1>1
  <2>2. Remains(n) \/ \E q \in Reporters : Busy(q) /\ HasFile(q, n)
    BY <2>1 DEF DiagInv, FilesAreOfSomeone
  <2>3. Remains(n) => Remains(n)'
    BY <1>6 DEF Remains
  <2>4. ASSUME NEW q \in Reporters, Busy(q), HasFile(q, n)
        PROVE  Busy(q)' /\ HasFile(q, n)'
    <3>1. q # p
      BY <1>2, <2>1, <2>4 DEF HasFile
    <3> QED BY <1>1, <1>3, <1>6, <2>4, <3>1 DEF HasFile
  <2> QED BY <2>2, <2>3, <2>4
<1> QED BY <1>5, <1>7, <1>8, <1>9 DEF DiagInv

\* The archive of a second in which only p has created one: p has it open while it is
\* written, and it is p's own after that.
OnlyOne(p, s) == \A q \in Reporters : stamp[q] = s <=> q = p

OwnZip(p) ==
    /\ diagPc[p] \notin {"zip", "clean", "returned"} => stamp[p] = 0
    /\ written[p] => diagPc[p] \in {"clean", "returned"}
    /\ \A s \in Seconds : OnlyOne(p, s) =>
          /\ diagPc[p] = "zip" => zips[s] = {}
          /\ written[p] => zips[s] \in {{}, {p}}

ZipInv == /\ diagPc \in [Reporters -> Phases] /\ written \in [Reporters -> BOOLEAN]
          /\ stamp \in [Reporters -> Seconds \cup {0}] /\ DOMAIN zips = Seconds
          /\ \A p \in Reporters : OwnZip(p)

\* A step that leaves the archives as they are, and goes from none to none of the
\* phases after the jobs, or on from cleaning.
LEMMA ZipsStay ==
    ASSUME ZipInv, UNCHANGED <<stamp, zips, written>>, diagPc' \in [Reporters -> Phases],
           \A p \in Reporters : diagPc[p] \in {"zip", "clean", "returned"} =>
               diagPc'[p] = diagPc[p] \/ (diagPc[p] = "clean" /\ diagPc'[p] = "returned"),
           \A p \in Reporters : diagPc'[p] = "zip" /\ diagPc[p] # "zip" => stamp[p] = 0
    PROVE  ZipInv'
<1> SUFFICES ASSUME NEW p \in Reporters PROVE OwnZip(p)'
    BY DEF ZipInv
<1>1. OwnZip(p) /\ \A s \in Seconds : OnlyOne(p, s)' = OnlyOne(p, s)
    BY DEF ZipInv, OnlyOne
<1>2. ASSUME NEW s \in Seconds, OnlyOne(p, s)
      PROVE  stamp[p] = s /\ s # 0
    BY <1>2, ReportersAssumption DEF OnlyOne
<1> QED BY <1>1, <1>2 DEF OwnZip

LEMMA ZipsHold ==
    ASSUME DiagInv, ZipInv, [DiagNext]_diagVars, DiagInv'
    PROVE  ZipInv'
<1>1. DiagTypes' /\ "zip" \notin Names /\ "clean" \notin Names /\ "returned" \notin Names
    BY JobsInOrder DEF DiagInv
<1>2. CASE UNCHANGED diagVars
    BY <1>2, ZipsStay DEF diagVars, zipVars, ZipInv
<1> SUFFICES ASSUME DiagNext PROVE ZipInv'
    BY <1>2
<1>3. PICK p \in Reporters :
          \/ Find(p) \/ Trace(p) \/ CreateFile(p) \/ CreateFails(p) \/ WriteFile(p)
          \/ WriteFails(p) \/ CreateZip(p) \/ ZipFile(p) \/ ZipStops(p) \/ ZipEnds(p) \/ Clean(p)
    BY DEF DiagNext
<1>4. CASE Find(p)
  <2>1. /\ UNCHANGED <<stamp, zips, written>> /\ diagPc[p] = "find"
        /\ \E d : diagPc' = [diagPc EXCEPT ![p] = d]
    BY <1>4 DEF Find, zipVars
  <2>2. diagPc' \in [Reporters -> Phases] /\ \A q \in Reporters \ {p} : diagPc'[q] = diagPc[q]
    BY <1>1, <2>1 DEF DiagTypes, ZipInv
  <2>3. stamp[p] = 0
    BY <2>1 DEF ZipInv, OwnZip
  <2> QED BY <2>1, <2>2, <2>3, ZipsStay
<1>5. CASE Trace(p) \/ CreateFile(p) \/ ZipFile(p)
  <2>1. UNCHANGED <<stamp, zips, written, diagPc>>
    BY <1>5 DEF Trace, CreateFile, ZipFile, zipVars
  <2> QED BY <2>1, ZipsStay DEF ZipInv
<1>6. CASE CreateFails(p) \/ WriteFile(p) \/ WriteFails(p)
  <2>1. /\ UNCHANGED <<stamp, zips, written>> /\ diagPc[p] \in Names
        /\ \E d : diagPc' = [diagPc EXCEPT ![p] = d]
    <3>1. CASE CreateFails(p)
      BY <3>1 DEF CreateFails, Ready, IsJob, Done, zipVars
    <3>2. CASE WriteFile(p)
      BY <3>2 DEF WriteFile, Done, zipVars, DiagInv, ReporterInv
    <3>3. CASE WriteFails(p)
      BY <3>3 DEF WriteFails, Done, zipVars, DiagInv, ReporterInv
    <3> QED BY <1>6, <3>1, <3>2, <3>3
  <2>2. diagPc' \in [Reporters -> Phases] /\ \A q \in Reporters \ {p} : diagPc'[q] = diagPc[q]
    BY <1>1, <2>1 DEF DiagTypes, ZipInv
  <2>3. stamp[p] = 0
    BY <1>1, <2>1 DEF ZipInv, OwnZip
  <2> QED BY <1>1, <2>1, <2>2, <2>3, ZipsStay
<1>7. CASE Clean(p)
  <2>1. /\ UNCHANGED <<stamp, zips, written>> /\ diagPc[p] = "clean"
        /\ diagPc' = [diagPc EXCEPT ![p] = "returned"]
    BY <1>7 DEF Clean, zipVars
  <2> QED BY <1>1, <2>1, ZipsStay DEF DiagTypes, ZipInv
<1>8. CASE CreateZip(p)
  <2>1. PICK s \in Seconds : stamp' = [stamp EXCEPT ![p] = s] /\ zips' = [zips EXCEPT ![s] = {}]
    BY <1>8 DEF CreateZip
  <2>2. diagPc[p] = "zip" /\ diagPc' = diagPc /\ written' = written
    BY <1>8 DEF CreateZip
  <2>3. /\ stamp' \in [Reporters -> Seconds \cup {0}] /\ stamp'[p] = s
        /\ \A q \in Reporters \ {p} : stamp'[q] = stamp[q]
        /\ DOMAIN zips' = Seconds /\ zips'[s] = {} /\ \A r \in Seconds \ {s} : zips'[r] = zips[r]
    BY <2>1 DEF ZipInv
  <2>4. ~written[p]
    BY <2>2 DEF ZipInv, OwnZip
  <2>5. ASSUME NEW q \in Reporters \ {p}
        PROVE  OwnZip(q)'
    <3>1. ASSUME NEW r \in Seconds, OnlyOne(q, r)'
          PROVE  r # s /\ (stamp[p] = r \/ OnlyOne(q, r))
      BY <2>3, <3>1 DEF OnlyOne
    <3>2. stamp[p] = 0
      BY <1>8 DEF CreateZip
    <3>3. ASSUME NEW r \in Seconds, OnlyOne(q, r)'
          PROVE  zips'[r] = zips[r] /\ OnlyOne(q, r)
      BY <2>3, <3>1, <3>2, <3>3, ReportersAssumption
    <3>4. OwnZip(q)
      BY DEF ZipInv
    <3> QED BY <2>2, <2>3, <3>3, <3>4 DEF OwnZip
  <2>6. OwnZip(p)'
    <3>1. ASSUME NEW r \in Seconds, OnlyOne(p, r)'
          PROVE  r = s
      BY <2>3, <3>1 DEF OnlyOne
    <3> QED BY <2>2, <2>3, <2>4, <3>1 DEF OwnZip
  <2> QED BY <2>2, <2>3, <2>5, <2>6 DEF ZipInv
<1>9. CASE ZipStops(p) \/ ZipEnds(p)
  <2>1. /\ diagPc[p] = "zip" /\ diagPc' = [diagPc EXCEPT ![p] = "clean"] /\ stamp' = stamp
        /\ written' = written \/ (written' = [written EXCEPT ![p] = TRUE] /\ ZipEnds(p))
        /\ \/ zips' = zips
           \/ zips' = [s \in Seconds |-> IF stamp[p] = s THEN NotThere ELSE zips[s]] /\ written' = written
           \/ zips' = [s \in Seconds |-> IF stamp[p] = s /\ zipLinked[p]
                                           THEN zips[s] \cup {p} ELSE zips[s]]
    BY <1>9 DEF ZipStops, ZipEnds
  <2>2. /\ DOMAIN zips' = Seconds /\ \A s \in Seconds : stamp[p] # s => zips'[s] = zips[s]
        /\ \A s \in Seconds : written' = written \/ zips'[s] \in {zips[s], zips[s] \cup {p}}
    BY <1>9, <2>1 DEF ZipInv, ZipStops, ZipEnds
  <2>3. /\ diagPc'[p] = "clean" /\ \A q \in Reporters \ {p} : diagPc'[q] = diagPc[q]
        /\ \A q \in Reporters \ {p} : written'[q] = written[q]
        /\ \A q \in Reporters, s \in Seconds : OnlyOne(q, s)' = OnlyOne(q, s)
    BY <2>1 DEF ZipInv, OnlyOne
  <2>4. ~written[p]
    BY <2>1 DEF ZipInv, OwnZip
  <2>5. ASSUME NEW q \in Reporters \ {p}
        PROVE  OwnZip(q)'
    <3>1. \A s \in Seconds : OnlyOne(q, s) => stamp[p] # s
      BY DEF OnlyOne
    <3>2. OwnZip(q)
      BY DEF ZipInv
    <3> QED BY <2>1, <2>2, <2>3, <3>1, <3>2 DEF OwnZip
  <2>6. OwnZip(p)'
    <3>1. \A s \in Seconds : OnlyOne(p, s) => zips[s] = {}
      BY <2>1 DEF ZipInv, OwnZip
    <3>2. \A s \in Seconds : OnlyOne(p, s) /\ written'[p] => zips'[s] \in {{}, {p}}
      BY <2>2, <2>4, <3>1
    <3> QED BY <2>3, <3>2 DEF OwnZip
  <2> QED BY <1>1, <2>1, <2>2, <2>5, <2>6 DEF ZipInv, DiagTypes
<1> QED BY <1>3, <1>4, <1>5, <1>6, <1>7, <1>8, <1>9

\* A command leaves in its archive what its own jobs have collected and says whether
\* one failed, or returns an error; of two that overlap neither lacks a job that ended
\* well, and one that has the second of its archive for itself finds there what it
\* wrote, if the last write was not lost (RunDiagnostic, CreateDiagnosticZipFile).
THEOREM ArchivesAreHonest == DiagSpec => []ArchiveIsHonest
<1>1. DiagInit => DiagInv
  <2> SUFFICES ASSUME DiagInit PROVE DiagInv
    OBVIOUS
  <2>1. /\ diagPc = [p \in Reporters |-> "find"] /\ creating = [p \in Reporters |-> FALSE]
        /\ linked = [p \in Reporters |-> FALSE] /\ results = [p \in Reporters |-> NoResults]
        /\ files = [n \in Names |-> NotThere] /\ archive = [p \in Reporters |-> NoResults]
        /\ written = [p \in Reporters |-> FALSE] /\ failed = [p \in Reporters |-> FALSE]
        /\ overlapped = [p \in Reporters |-> FALSE] /\ broke = [p \in Reporters |-> FALSE]
    BY DEF DiagInit
  <2>2. DiagTypes
    BY <2>1 DEF DiagTypes, Phases
  <2>3. DOMAIN NoResults = {} /\ "find" \notin Names
    BY JobsInOrder DEF NoResults
  <2>4. ASSUME NEW p \in Reporters
        PROVE  ReporterInv(p)
    <3>1. /\ diagPc[p] = "find" /\ ~creating[p] /\ results[p] = NoResults /\ archive[p] = NoResults
          /\ ~written[p] /\ ~Busy(p)
      BY <2>1 DEF Busy
    <3>2. Alone(p)
      BY <2>3, <3>1 DEF Alone
    <3> QED BY <2>3, <3>1, <3>2 DEF ReporterInv
  <2>5. FilesAreOfSomeone
    BY <2>1 DEF FilesAreOfSomeone
  <2> QED BY <2>2, <2>4, <2>5 DEF DiagInv
<1>2. DiagInv /\ [DiagNext]_diagVars => DiagInv'
  <2> SUFFICES ASSUME DiagInv, [DiagNext]_diagVars PROVE DiagInv'
    OBVIOUS
  <2>1. CASE UNCHANGED diagVars
    BY <2>1, QuietHolds DEF diagVars, zipVars
  <2>2. ASSUME NEW p \in Reporters,
               \/ Find(p) \/ Trace(p) \/ CreateFile(p) \/ CreateFails(p) \/ WriteFile(p)
               \/ WriteFails(p) \/ CreateZip(p) \/ ZipFile(p) \/ ZipStops(p) \/ ZipEnds(p)
               \/ Clean(p)
        PROVE  DiagInv'
    <3>1. CASE Trace(p) \/ CreateZip(p)
      BY <3>1, QuietHolds DEF Trace, CreateZip, zipVars
    <3> QED BY <2>2, <3>1, FindHolds, CreateFileHolds, JobEndHolds, ZipHolds, CleanHolds
  <2> QED BY <2>1, <2>2 DEF DiagNext
<1>3. DiagInit => ZipInv
  <2> SUFFICES ASSUME DiagInit PROVE ZipInv
    OBVIOUS
  <2>1. /\ diagPc = [p \in Reporters |-> "find"] /\ stamp = [p \in Reporters |-> 0]
        /\ zips = [s \in Seconds |-> NotThere] /\ written = [p \in Reporters |-> FALSE]
    BY DEF DiagInit
  <2>2. ASSUME NEW p \in Reporters
        PROVE  OwnZip(p)
    BY <2>1, <2>2 DEF OwnZip
  <2> QED BY <2>1, <2>2 DEF ZipInv, Phases
<1>4. DiagInv /\ ZipInv => ArchiveIsHonest
  <2> SUFFICES ASSUME DiagInv, ZipInv PROVE ArchiveIsHonest
    OBVIOUS
  <2>1. ASSUME NEW p \in Reporters, diagPc[p] = "returned"
        PROVE  /\ written[p] => /\ \A j \in DOMAIN results[p] \ Failed(p) : j \in DOMAIN archive[p]
                                /\ failed[p] = (Failed(p) # {})
                                /\ \A s \in Seconds : OnlyOne(p, s) => zips[s] \in {{}, {p}}
               /\ ~written[p] => failed[p] /\ archive[p] = NoResults
               /\ ~overlapped[p] /\ DOMAIN results[p] # {} =>
                     /\ written[p] \/ broke[p]
                     /\ \A j \in DOMAIN archive[p] :
                           IF j \in Failed(p) THEN archive[p][j] \subseteq {p}
                                              ELSE archive[p][j] = {p}
    <3>1. ReporterInv(p) /\ Ended(p)
      BY <2>1 DEF DiagInv, ReporterInv
    <3>2. ASSUME ~overlapped[p], NEW j \in DOMAIN archive[p]
          PROVE  IF j \in Failed(p) THEN archive[p][j] \subseteq {p} ELSE archive[p][j] = {p}
      <4>1. Own(p, results[p][j].ok, archive[p][j]) /\ j \in DOMAIN results[p]
        BY <3>1, <3>2 DEF ReporterInv, Alone, WithPath
      <4> QED BY <4>1 DEF Own, Failed
    <3>3. written[p] => \A s \in Seconds : OnlyOne(p, s) => zips[s] \in {{}, {p}}
      BY DEF ZipInv, OwnZip
    <3> QED BY <2>1, <3>1, <3>2, <3>3 DEF Ended, ReporterInv, Alone
  <2>2. ASSUME \A p \in Reporters : diagPc[p] = "returned" /\ ~overlapped[p],
               NEW n \in Names, files[n] # NotThere
        PROVE  n \in {"logs", "report"} /\ \E p \in Reporters : n \in Failed(p)
    BY <2>2 DEF DiagInv, FilesAreOfSomeone, Remains, Busy
  <2> QED BY <2>1, <2>2 DEF ArchiveIsHonest, OnlyOne
<1> QED BY <1>1, <1>2, <1>3, <1>4, ZipsHold, PTL DEF DiagSpec

-----------------------------------------------------------------------------
\* LogTail: the lines in the window, received, on the wire and printed are of the log,
\* none is there twice, and they are in this order unless two streams took from the
\* window.

Events == [n : Nat, level : DOMAIN Rank, event : {l.event : l \in Lines} \cup {"cloudflared"}]
Within(s) == {s[i] : i \in DOMAIN s}

\* y comes behind x
Apart(x, y) == x.n # y.n /\ (paired \/ x.n < y.n)
Rising(s) == \A i, j \in DOMAIN s : i < j => Apart(s[i], s[j])
Before(X, Y) == \A x \in X, y \in Y : Apart(x, y)

OnHand == UNION {received[i] : i \in DOMAIN received}
Sent == Within(printed) \cup Within(wire)
Passed == Sent \cup OnHand \cup Within(window)

Holding ==
    /\ received \in Seq(SUBSET Events) /\ streams \subseteq DOMAIN received
    /\ paired \in BOOLEAN /\ (~paired => \A i, j \in streams : i = j)
    /\ \A i \in DOMAIN received : received[i] # {} => i \in streams
    /\ \A i \in DOMAIN received : \A x, y \in received[i] : x = y
    /\ \A i, j \in DOMAIN received : i # j =>
          \A x \in received[i], y \in received[j] : x.n # y.n

Pipe ==
    /\ logged \in Seq(Events)
    /\ window \in Seq(Events) /\ wire \in Seq(Events) /\ printed \in Seq(Events)
    /\ Rising(window) /\ Rising(wire) /\ Rising(printed) /\ Holding
    /\ Before(Within(printed), Within(wire)) /\ Before(Sent, OnHand)
    /\ Before(Sent \cup OnHand, Within(window))
    /\ \A e \in Passed : e.n \in DOMAIN logged /\ logged[e.n] = e

TailFilters == IF ParsedFilters = Unset THEN NoFilters ELSE ParsedFilters

Asking ==
    /\ option \in Options
    /\ ~paired
    /\ starts = 0 => toward = <<>> /\ ~active /\ Passed = {} /\ streams = {}
    /\ starts # 0 => asked = [level |-> option.level, events |-> option.events,
                              sampling |-> option.sampling]
    /\ toward # <<>> => /\ toward = <<[type |-> "start", filters |-> ParsedFilters]>>
                        /\ ~active /\ Passed = {} /\ streams = {}
    /\ active => filters = TailFilters
    /\ \A e \in Passed : WasAsked(e)

TailInv == Pipe /\ active \in BOOLEAN /\ (client = "tail" => Asking)

LEMMA AppendWithin ==
    ASSUME NEW S, NEW s \in Seq(S), NEW e \in S, Rising(s), Before(Within(s), {e})
    PROVE  /\ Append(s, e) \in Seq(S) /\ Rising(Append(s, e))
           /\ Within(Append(s, e)) = Within(s) \cup {e}
<1>1. /\ Append(s, e) \in Seq(S) /\ DOMAIN Append(s, e) = DOMAIN s \cup {Len(s) + 1}
      /\ Append(s, e)[Len(s) + 1] = e /\ DOMAIN s = 1..Len(s) /\ Len(s) \in Nat
      /\ \A i \in DOMAIN s : Append(s, e)[i] = s[i]
    OBVIOUS
<1>2. \A i \in DOMAIN s : s[i] \in Within(s)
    BY DEF Within
<1>3. PICK t : t = Append(s, e)
    OBVIOUS
<1>4. Rising(t)
  <2> SUFFICES ASSUME NEW i \in DOMAIN t, NEW j \in DOMAIN t, i < j PROVE Apart(t[i], t[j])
    BY DEF Rising
  <2>1. i \in DOMAIN s /\ t[i] = s[i]
    BY <1>1, <1>3
  <2>2. CASE j \in DOMAIN s
    BY <1>1, <1>3, <2>1, <2>2 DEF Rising
  <2>3. CASE j = Len(s) + 1
    BY <1>1, <1>2, <1>3, <2>1, <2>3 DEF Before
  <2> QED BY <1>1, <1>3, <2>2, <2>3
<1>5. Within(t) = Within(s) \cup {e}
    BY <1>1, <1>3 DEF Within
<1> QED BY <1>1, <1>3, <1>4, <1>5

LEMMA TailWithin ==
    ASSUME NEW S, NEW s \in Seq(S), s # <<>>, Rising(s)
    PROVE  /\ Tail(s) \in Seq(S) /\ Rising(Tail(s)) /\ Head(s) \in S
           /\ Within(s) = Within(Tail(s)) \cup {Head(s)}
           /\ Before({Head(s)}, Within(Tail(s)))
<1>1. /\ Tail(s) \in Seq(S) /\ Head(s) = s[1] /\ DOMAIN Tail(s) = 1..Len(s) - 1
      /\ \A i \in 1..Len(s) - 1 : Tail(s)[i] = s[i + 1]
      /\ DOMAIN s = 1..Len(s) /\ Len(s) \in Nat \ {0}
    OBVIOUS
<1>2. PICK t : t = Tail(s)
    OBVIOUS
<1>3. /\ \A i \in DOMAIN t : i + 1 \in DOMAIN s /\ t[i] = s[i + 1]
      /\ \A i \in DOMAIN s : i # 1 => i - 1 \in DOMAIN t /\ t[i - 1] = s[i]
      /\ 1 \in DOMAIN s
    BY <1>1, <1>2
<1>4. Rising(t)
  <2> SUFFICES ASSUME NEW i \in DOMAIN t, NEW j \in DOMAIN t, i < j PROVE Apart(t[i], t[j])
    BY DEF Rising
  <2>1. /\ i + 1 \in DOMAIN s /\ t[i] = s[i + 1]
        /\ j + 1 \in DOMAIN s /\ t[j] = s[j + 1]
    BY <1>3
  <2>2. i + 1 < j + 1
    BY <1>1, <1>2
  <2> QED BY <2>1, <2>2 DEF Rising
<1>5. Within(s) = Within(t) \cup {s[1]}
    BY <1>3 DEF Within
<1>6. Before({s[1]}, Within(t))
  <2> SUFFICES ASSUME NEW i \in DOMAIN t PROVE Apart(s[1], t[i])
    BY DEF Within, Before
  <2>1. i + 1 \in DOMAIN s /\ t[i] = s[i + 1] /\ 1 < i + 1 /\ 1 \in DOMAIN s
    BY <1>1, <1>2, <1>3
  <2> QED BY <2>1 DEF Rising
<1>7. Head(s) \in S
    BY <1>1
<1> QED BY <1>1, <1>2, <1>4, <1>5, <1>6, <1>7

\* Leaving a sequence and joining one keep what is before what.
LEMMA HeadLeaves ==
    ASSUME NEW s \in Seq(Events), s # <<>>, Rising(s), NEW X, Before(X, Within(s)),
           NEW h, h = Head(s), NEW u, u = Tail(s)
    PROVE  /\ u \in Seq(Events) /\ Rising(u) /\ h \in Events /\ Within(s) = Within(u) \cup {h}
           /\ Before({h}, Within(u)) /\ Before(X, {h}) /\ Before(X \cup {h}, Within(u))
<1>1. /\ u \in Seq(Events) /\ Rising(u) /\ h \in Events /\ Within(s) = Within(u) \cup {h}
      /\ Before({h}, Within(u))
    BY TailWithin
<1>2. Before(X, {h}) /\ Before(X, Within(u))
    BY <1>1 DEF Before
<1> QED BY <1>1, <1>2 DEF Before

\* What is passed on is what was asked for, as long as nothing else is asked.
LEMMA AskingStays ==
    ASSUME Asking, UNCHANGED <<option, asked, starts, toward, filters>>,
           active' \in BOOLEAN, active' => active, Passed' \subseteq Passed,
           paired' = paired, streams' \subseteq streams
    PROVE  Asking'
<1>1. PICK P : P = Passed'
    OBVIOUS
<1>2. \A e \in P : WasAsked(e)'
    BY <1>1 DEF Asking, WasAsked
<1>3. TailFilters' = TailFilters /\ ParsedFilters' = ParsedFilters
    BY DEF TailFilters, ParsedFilters
<1> QED BY <1>1, <1>2, <1>3 DEF Asking

\* What is in order stays so if nothing moves, also when streams begin or end that
\* have nothing at hand.
LEMMA PipeStays ==
    ASSUME Pipe, UNCHANGED <<window, wire, printed, logged>>, OnHand' = OnHand, Holding',
           paired => paired'
    PROVE  Pipe' /\ Passed' = Passed
<1>1. \A x, y : Apart(x, y) => (x.n # y.n /\ (paired' \/ x.n < y.n))
    BY DEF Apart
<1>2. Rising(window)' /\ Rising(wire)' /\ Rising(printed)'
    BY <1>1 DEF Pipe, Rising, Apart
<1>3. Within(window)' = Within(window) /\ Sent' = Sent /\ Within(printed)' = Within(printed)
      /\ Within(wire)' = Within(wire)
    BY DEF Within, Sent
<1>4. /\ Before(Within(printed), Within(wire))' /\ Before(Sent, OnHand)'
      /\ Before(Sent \cup OnHand, Within(window))'
    BY <1>1, <1>3 DEF Pipe, Before, Apart
<1>5. Passed' = Passed
    BY <1>3 DEF Passed
<1> QED BY <1>2, <1>4, <1>5 DEF Pipe

LEMMA HandsStay ==
    ASSUME UNCHANGED <<received, paired>>, Holding, streams' = streams
    PROVE  Holding' /\ OnHand' = OnHand
BY DEF Holding, OnHand

\* The client, and the events it sends.
LEMMA ClientHolds ==
    ASSUME TailInv,
           \/ ParseFilters \/ BuildURL \/ Dial \/ StartStreaming \/ ReaderEnds \/ Signal
           \/ \E t \in {"start", "stop", "other"} : PageSends(t)
    PROVE  TailInv'
<1>1. /\ UNCHANGED <<client, option, filters, active, window, wire, printed, logged>>
      /\ UNCHANGED <<streams, received, paired>>
      /\ active \in BOOLEAN /\ (active' => active)
  <2>1. CASE ParseFilters \/ BuildURL \/ Dial \/ ReaderEnds
    BY <2>1 DEF ParseFilters, BuildURL, Dial, ReaderEnds, Exit, server, streaming, TailInv
  <2>2. CASE StartStreaming \/ Signal
    BY <2>2 DEF StartStreaming, Signal, server, streaming, TailInv
  <2>3. CASE \E t \in {"start", "stop", "other"} : PageSends(t)
    BY <2>3 DEF PageSends, server, streaming, TailInv
  <2> QED BY <2>1, <2>2, <2>3
<1>2. Pipe' /\ Passed' = Passed
    BY <1>1, HandsStay, PipeStays DEF TailInv, Pipe
<1>3. CASE UNCHANGED <<asked, starts, toward>>
    BY <1>1, <1>2, <1>3, AskingStays DEF TailInv
<1>4. CASE StartStreaming
  <2>1. /\ client = "tail" /\ starts = 0 /\ starts' = 1
        /\ toward' = Append(toward, [type |-> "start", filters |-> ParsedFilters])
        /\ asked' = [level |-> option.level, events |-> option.events, sampling |-> option.sampling]
    BY <1>4 DEF StartStreaming
  <2>2. Asking /\ toward = <<>> /\ ~active /\ Passed = {} /\ streams = {}
    BY <2>1 DEF TailInv, Asking
  <2>3. toward' = <<[type |-> "start", filters |-> ParsedFilters]>> /\ toward' # <<>>
    BY <2>1, <2>2
  <2>4. ParsedFilters' = ParsedFilters
    BY <1>1 DEF ParsedFilters
  <2>5. Asking'
    BY <1>1, <1>2, <2>1, <2>2, <2>3, <2>4 DEF Asking
  <2> QED BY <1>1, <1>2, <2>5 DEF TailInv
<1>5. CASE \E t \in {"start", "stop", "other"} : PageSends(t)
  <2>1. client = "page"
    BY <1>5 DEF PageSends
  <2> QED BY <1>1, <1>2, <2>1 DEF TailInv
<1>6. CASE ParseFilters \/ BuildURL \/ Dial \/ ReaderEnds \/ Signal
    BY <1>3, <1>6 DEF ParseFilters, BuildURL, Dial, ReaderEnds, Signal, Exit
<1> QED BY <1>4, <1>5, <1>6

\* The events the session takes: a tail has sent but one.
LEMMA SessionHolds ==
    ASSUME TailInv, TakeStart \/ TakeStop \/ TakeOther
    PROVE  TailInv'
<1>1. /\ UNCHANGED <<client, option, asked, starts, window, wire, printed, logged>>
      /\ toward # <<>> /\ toward' = Tail(toward) /\ active' \in BOOLEAN
    BY DEF TakeStart, TakeStop, TakeOther, TailInv
<1>2. Pipe' /\ Passed' = Passed /\ (~TakeStart => UNCHANGED <<streams, paired>>)
  <2>1. CASE TakeStop \/ TakeOther
    <3>1. UNCHANGED <<streams, received, paired>> /\ ~TakeStart
      BY <2>1 DEF TakeStart, TakeStop, TakeOther
    <3> QED BY <1>1, <3>1, HandsStay, PipeStays DEF TailInv, Pipe
  <2>2. CASE TakeStart
    <3>1. /\ received' = Append(received, {}) /\ streams' = streams \cup {Len(received) + 1}
          /\ paired' = (paired \/ streams # {})
      BY <2>2 DEF TakeStart
    <3>2. PICK r : r = Append(received, {})
      OBVIOUS
    <3>3. Holding /\ received \in Seq(SUBSET Events)
      BY DEF TailInv, Pipe, Holding
    <3>4. /\ r \in Seq(SUBSET Events) /\ DOMAIN r = DOMAIN received \cup {Len(received) + 1}
          /\ r[Len(received) + 1] = {} /\ Len(received) + 1 \notin DOMAIN received
          /\ \A i \in DOMAIN received : r[i] = received[i]
      BY <3>2, <3>3
    <3>5. PICK k : k = Len(received) + 1
      OBVIOUS
    <3>6. Holding'
      <4>1. paired' \in BOOLEAN /\ (~paired' => streams = {} /\ ~paired)
        BY <3>1, <3>3 DEF Holding
      <4>2. streams' = streams \cup {k} /\ received' = r
        BY <3>1, <3>2, <3>5
      <4>3. streams' \subseteq DOMAIN r /\ (~paired' => \A i, j \in streams' : i = j)
        BY <3>3, <3>4, <3>5, <4>1, <4>2 DEF Holding
      <4>4. \A i \in DOMAIN r : (r[i] # {} => i \in streams') /\ \A x, y \in r[i] : x = y
        BY <3>3, <3>4, <3>5, <4>2 DEF Holding
      <4>5. \A i, j \in DOMAIN r : i # j => \A x \in r[i], y \in r[j] : x.n # y.n
        BY <3>3, <3>4, <3>5 DEF Holding
      <4> QED BY <3>4, <4>1, <4>2, <4>3, <4>4, <4>5 DEF Holding
    <3>7. OnHand' = OnHand
      BY <3>1, <3>2, <3>4 DEF OnHand
    <3> QED BY <1>1, <3>1, <3>6, <3>7, <2>2, PipeStays DEF TailInv
  <2> QED BY <2>1, <2>2
<1>3. ASSUME client = "tail"
      PROVE  Asking'
  <2>1. /\ toward = <<[type |-> "start", filters |-> ParsedFilters]>> /\ ~active /\ Passed = {}
        /\ Asking /\ streams = {} /\ ~paired
    BY <1>1, <1>3 DEF TailInv, Asking
  <2>2. /\ Head(toward) = [type |-> "start", filters |-> ParsedFilters] /\ Tail(toward) = <<>>
    BY <2>1
  <2>3. TakeStart
    BY <2>2 DEF TakeStop, TakeOther
  <2>4. filters' = TailFilters
    BY <2>2, <2>3 DEF TakeStart, TailFilters
  <2>5. TailFilters' = TailFilters
    BY <1>1 DEF TailFilters, ParsedFilters
  <2>6. starts # 0 /\ ~paired'
    BY <2>1, <2>3 DEF Asking, TakeStart
  <2> QED BY <1>1, <1>2, <2>1, <2>2, <2>4, <2>5, <2>6 DEF Asking
<1> QED BY <1>1, <1>2, <1>3 DEF TailInv

\* A line that passes the filters of the tail is one that was asked for.
LEMMA PassingIsAsked ==
    ASSUME Asking, active, NEW e \in Events, Passes(filters, e)
    PROVE  WasAsked(e)
<1>1. /\ filters = TailFilters /\ option \in Options
      /\ asked = [level |-> option.level, events |-> option.events, sampling |-> option.sampling]
    BY DEF Asking
<1>2. CASE option.level = Unset /\ option.events = {}
    BY <1>1, <1>2 DEF WasAsked
<1>3. CASE ~(option.level = Unset /\ option.events = {})
  <2>1. filters = asked
    BY <1>1, <1>3, TailAssumption DEF TailFilters, ParsedFilters
  <2>2. e.level \in DOMAIN Rank
    BY DEF Events
  <2> QED BY <2>1, <2>2 DEF Passes, WasAsked
<1> QED BY <1>2, <1>3

LEMMA WriteHolds ==
    ASSUME TailInv, NEW l \in Lines, Write(l)
    PROVE  TailInv'
<1>1. PICK e : e = Parse(l)
    OBVIOUS
<1>2. e \in Events /\ e.n = Len(logged) + 1
  <2>1. "error" \in DOMAIN Rank /\ "debug" \in DOMAIN Rank
    BY DEF Rank
  <2>2. Len(logged) + 1 \in Nat
    BY DEF TailInv, Pipe
  <2> QED BY <1>1, <2>1, <2>2 DEF Parse, Events
<1>3. /\ logged' = Append(logged, e)
      /\ window' = window \/ (window' = Append(window, e) /\ active /\ Passes(filters, e))
      /\ UNCHANGED <<client, option, asked, starts, toward, filters, active, wire, printed>>
      /\ UNCHANGED <<streams, received, paired>>
    BY <1>1 DEF Write, streaming
<1>4. /\ logged' \in Seq(Events) /\ Len(logged) \in Nat
      /\ \A i \in DOMAIN logged : i \in DOMAIN logged' /\ logged'[i] = logged[i] /\ i < e.n
      /\ e.n \in DOMAIN logged' /\ logged'[e.n] = e
    BY <1>2, <1>3 DEF TailInv, Pipe
<1>5. \A x \in Passed : x.n < e.n /\ x.n \in DOMAIN logged' /\ logged'[x.n] = x
    BY <1>4 DEF TailInv, Pipe
<1>8. /\ Holding' /\ OnHand' = OnHand /\ Sent' = Sent /\ Within(wire)' = Within(wire)
      /\ Within(printed)' = Within(printed)
    BY <1>3, HandsStay DEF TailInv, Pipe, Sent, Within
<1>9. /\ Rising(wire)' /\ Rising(printed)' /\ Before(Within(printed), Within(wire))'
      /\ Before(Sent, OnHand)'
    BY <1>3, <1>8 DEF TailInv, Pipe, Rising, Before, Apart
<1>6. CASE window' = window
  <2>1. Passed' = Passed
    BY <1>3, <1>6, <1>8 DEF Passed, Within
  <2>2. Rising(window)' /\ Before(Sent \cup OnHand, Within(window))'
    BY <1>3, <1>6, <1>8 DEF TailInv, Pipe, Rising, Before, Apart, Within
  <2>3. Pipe'
    BY <1>3, <1>4, <1>5, <1>6, <1>8, <1>9, <2>1, <2>2 DEF TailInv, Pipe
  <2> QED BY <1>3, <2>1, <2>3, AskingStays DEF TailInv
<1>7. CASE window' = Append(window, e) /\ active /\ Passes(filters, e)
  <2>1. PICK w : w = Append(window, e)
    OBVIOUS
  <2>6. Before(Passed, {e})
    BY <1>5, <1>2 DEF Before, Apart
  <2>7. /\ w \in Seq(Events) /\ Rising(w) /\ Within(w) = Within(window) \cup {e}
    BY <1>2, <2>1, <2>6, AppendWithin DEF TailInv, Pipe, Passed, Before
  <2>8. /\ window' = w /\ Rising(window)' /\ Within(window)' = Within(window) \cup {e}
    BY <1>3, <1>7, <2>1, <2>7 DEF Rising, Apart, Within
  <2>2. Passed' = Passed \cup {e}
    BY <1>3, <1>8, <2>8 DEF Passed
  <2>3. Before(Sent \cup OnHand, Within(window))'
    BY <1>3, <1>8, <2>6, <2>8 DEF TailInv, Pipe, Before, Apart, Passed
  <2>4. Pipe'
    BY <1>3, <1>4, <1>5, <1>8, <1>9, <2>7, <2>8, <2>2, <2>3 DEF TailInv, Pipe
  <2>5. ASSUME client = "tail"
        PROVE  Asking'
    <3>1. Asking /\ WasAsked(e)
      BY <1>2, <1>7, <2>5, PassingIsAsked DEF TailInv
    <3>2. \A x \in Passed \cup {e} : WasAsked(x)'
      BY <1>3, <3>1 DEF Asking, WasAsked
    <3>3. TailFilters' = TailFilters /\ ParsedFilters' = ParsedFilters
      BY <1>3 DEF TailFilters, ParsedFilters
    <3> QED BY <1>3, <1>7, <2>2, <3>1, <3>2, <3>3 DEF Asking
  <2> QED BY <1>3, <2>4, <2>5 DEF TailInv
<1> QED BY <1>3, <1>6, <1>7

\* A stream takes the first line of the window.
LEMMA ReceiveHolds ==
    ASSUME TailInv, NEW id \in streams, Receive(id)
    PROVE  TailInv'
<1>1. /\ received[id] = {} /\ window # <<>> /\ received' = [received EXCEPT ![id] = {Head(window)}]
      /\ window' = Tail(window)
      /\ UNCHANGED <<client, option, asked, starts, toward, filters, active, logged, printed, wire>>
      /\ UNCHANGED <<streams, paired>>
    BY DEF Receive
<1>2. PICK h, u : h = Head(window) /\ u = Tail(window)
    OBVIOUS
<1>3. /\ u \in Seq(Events) /\ Rising(u) /\ h \in Events /\ Within(window) = Within(u) \cup {h}
      /\ Before({h}, Within(u)) /\ Before(Sent \cup OnHand, {h})
      /\ Before(Sent \cup OnHand \cup {h}, Within(u))
  <2>1. PICK X : X = Sent \cup OnHand
    OBVIOUS
  <2>2. window \in Seq(Events) /\ Rising(window) /\ Before(X, Within(window))
    BY <2>1 DEF TailInv, Pipe
  <2> QED BY <1>1, <1>2, <2>1, <2>2, HeadLeaves
<1>4. /\ id \in DOMAIN received /\ received \in Seq(SUBSET Events)
    BY DEF TailInv, Pipe, Holding
<1>5. PICK r : r = [received EXCEPT ![id] = {h}]
    OBVIOUS
<1>6. /\ r \in Seq(SUBSET Events) /\ DOMAIN r = DOMAIN received /\ r[id] = {h}
      /\ \A j \in DOMAIN received : j # id => r[j] = received[j]
    BY <1>3, <1>4, <1>5
<1>7. received' = r /\ window' = u
    BY <1>1, <1>2, <1>5
<1>8. UNION {r[j] : j \in DOMAIN r} = OnHand \cup {h}
    BY <1>1, <1>4, <1>6 DEF OnHand
<1>9. OnHand' = OnHand \cup {h} /\ Sent' = Sent /\ Within(window)' = Within(u)
    BY <1>1, <1>7, <1>8 DEF OnHand, Sent, Within
<1>10. Holding'
  <2>1. Holding
    BY DEF TailInv, Pipe
  <2>2. \A j \in DOMAIN received : \A x \in received[j] : x.n # h.n
    BY <1>3 DEF Before, Apart, OnHand
  <2>3. \A j \in DOMAIN r : (r[j] # {} => j \in streams) /\ \A x, y \in r[j] : x = y
    BY <1>6, <2>1 DEF Holding
  <2>4. \A j, k \in DOMAIN r : j # k => \A x \in r[j], y \in r[k] : x.n # y.n
    <3> SUFFICES ASSUME NEW j \in DOMAIN r, NEW k \in DOMAIN r, j # k,
                        NEW x \in r[j], NEW y \in r[k]
                 PROVE  x.n # y.n
      OBVIOUS
    <3>1. CASE j = id
      BY <1>6, <2>2, <3>1
    <3>2. CASE k = id
      BY <1>6, <2>2, <3>2
    <3>3. CASE j # id /\ k # id
      BY <1>6, <2>1, <3>3 DEF Holding
    <3> QED BY <3>1, <3>2, <3>3
  <2>5. streams' \subseteq DOMAIN r /\ paired' \in BOOLEAN /\ (~paired' => \A j, k \in streams' : j = k)
    BY <1>1, <1>6, <2>1 DEF Holding
  <2>6. received' = r /\ streams' = streams
    BY <1>1, <1>7
  <2> QED BY <1>6, <2>3, <2>4, <2>5, <2>6 DEF Holding
<1>11. Passed' \subseteq Passed
    BY <1>3, <1>9 DEF Passed
<1>12. Pipe'
  <2>1. Rising(window)' /\ Rising(wire)' /\ Rising(printed)'
    BY <1>1, <1>3, <1>7 DEF TailInv, Pipe, Rising, Apart
  <2>2. Before(Within(printed), Within(wire))' /\ Before(Sent, OnHand)'
    BY <1>1, <1>3, <1>9 DEF TailInv, Pipe, Before, Apart, Within
  <2>3. Before(Sent \cup OnHand, Within(window))'
    BY <1>1, <1>3, <1>9 DEF TailInv, Pipe, Before, Apart
  <2> QED BY <1>1, <1>3, <1>7, <1>10, <1>11, <2>1, <2>2, <2>3 DEF TailInv, Pipe
<1>13. active \in BOOLEAN
    BY DEF TailInv
<1> QED BY <1>1, <1>11, <1>12, <1>13, AskingStays DEF TailInv

\* A stream sends the line it has, or loses it.
LEMMA SendHolds ==
    ASSUME TailInv, NEW id \in streams, Stream(id)
    PROVE  TailInv'
<1>1. PICK e \in received[id] :
          /\ wire' = wire \/ wire' = Append(wire, e)
          /\ streams' \in {streams, streams \ {id}} /\ active' \in BOOLEAN /\ (active' => active)
  <2>1. active \in BOOLEAN
    BY DEF TailInv
  <2>2. PICK e \in received[id] :
          \/ /\ wire' = Append(wire, e) /\ active' = active
             /\ streams' = IF active THEN streams ELSE streams \ {id}
          \/ active' = FALSE /\ wire' = wire /\ streams' = streams \ {id}
    BY DEF Stream
  <2>3. /\ wire' = wire \/ wire' = Append(wire, e)
        /\ streams' \in {streams, streams \ {id}} /\ active' \in BOOLEAN /\ (active' => active)
    <3>1. CASE /\ wire' = Append(wire, e) /\ active' = active
               /\ streams' = IF active THEN streams ELSE streams \ {id}
      <4>1. active' \in BOOLEAN /\ (active' => active)
        BY <2>1, <3>1, Zenon
      <4>2. streams' \in {streams, streams \ {id}}
        BY <3>1
      <4> QED BY <3>1, <4>1, <4>2
    <3>2. CASE active' = FALSE /\ wire' = wire /\ streams' = streams \ {id}
      BY <3>2
    <3> QED BY <2>2, <3>1, <3>2
  <2> QED BY <2>3
<1>2. /\ received' = [received EXCEPT ![id] = {}]
      /\ UNCHANGED <<client, option, asked, starts, toward, filters, paired, window, logged, printed>>
    BY DEF Stream
<1>3. /\ id \in DOMAIN received /\ received \in Seq(SUBSET Events) /\ e \in Events
      /\ received[id] = {e} /\ e \in OnHand
    BY <1>1 DEF TailInv, Pipe, Holding, OnHand
<1>4. PICK r : r = [received EXCEPT ![id] = {}]
    OBVIOUS
<1>5. /\ r \in Seq(SUBSET Events) /\ DOMAIN r = DOMAIN received /\ r[id] = {}
      /\ \A j \in DOMAIN received : j # id => r[j] = received[j]
    BY <1>3, <1>4
<1>6. PICK H : H = UNION {r[j] : j \in DOMAIN r}
    OBVIOUS
<1>7. OnHand' = H /\ H \subseteq OnHand /\ received' = r
    BY <1>2, <1>4, <1>5, <1>6 DEF OnHand
<1>8. \A y \in H : Apart(e, y)
  <2> SUFFICES ASSUME NEW j \in DOMAIN r, NEW y \in r[j] PROVE Apart(e, y)
    BY <1>6
  <2>1. j # id /\ y \in received[j] /\ id \in streams /\ j \in streams
    BY <1>5 DEF TailInv, Pipe, Holding
  <2> QED BY <1>3, <1>5, <2>1 DEF TailInv, Pipe, Holding, Apart
<1>9. Holding'
  <2>1. Holding
    BY DEF TailInv, Pipe
  <2>2. \A j \in DOMAIN r : (r[j] # {} => j \in streams') /\ \A x, y \in r[j] : x = y
    BY <1>1, <1>5, <2>1 DEF Holding
  <2>3. \A j, k \in DOMAIN r : j # k => \A x \in r[j], y \in r[k] : x.n # y.n
    BY <1>5, <2>1 DEF Holding
  <2>4. /\ streams' \subseteq DOMAIN r /\ paired' \in BOOLEAN
        /\ ~paired' => \A j, k \in streams' : j = k
    BY <1>1, <1>2, <1>5, <2>1 DEF Holding
  <2> QED BY <1>5, <1>7, <2>2, <2>3, <2>4 DEF Holding
<1>10. PICK w : w \in {wire, Append(wire, e)} /\ wire' = w
    BY <1>1
<1>11. w \in Seq(Events) /\ Rising(w) /\ Within(w) \in {Within(wire), Within(wire) \cup {e}}
  <2>1. Before(Within(wire), {e})
    BY <1>3 DEF TailInv, Pipe, Before, Sent
  <2>2. wire \in Seq(Events) /\ Rising(wire)
    BY DEF TailInv, Pipe
  <2>3. CASE w = wire
    BY <2>2, <2>3
  <2>4. CASE w = Append(wire, e)
    BY <1>3, <2>1, <2>2, <2>4, AppendWithin
  <2> QED BY <1>10, <2>3, <2>4
<1>12. /\ Sent' \in {Sent, Sent \cup {e}} /\ Within(wire)' = Within(w) /\ Within(window)' = Within(window)
       /\ Within(printed)' = Within(printed)
    BY <1>2, <1>10, <1>11 DEF Sent, Within
<1>13. Passed' \subseteq Passed
    BY <1>3, <1>7, <1>12 DEF Passed
<1>14. Pipe'
  <2>1. Rising(window)' /\ Rising(wire)' /\ Rising(printed)'
    BY <1>2, <1>10, <1>11 DEF TailInv, Pipe, Rising, Apart
  <2>2. Before(Within(printed), Within(wire))'
    BY <1>2, <1>3, <1>11, <1>12 DEF TailInv, Pipe, Before, Apart, Sent
  <2>3. Before(Sent, OnHand)'
    BY <1>2, <1>7, <1>8, <1>12 DEF TailInv, Pipe, Before, Apart
  <2>4. Before(Sent \cup OnHand, Within(window))'
    BY <1>2, <1>3, <1>7, <1>12 DEF TailInv, Pipe, Before, Apart
  <2> QED BY <1>2, <1>9, <1>10, <1>11, <1>13, <2>1, <2>2, <2>3, <2>4 DEF TailInv, Pipe
<1>15. streams' \subseteq streams
    BY <1>1
<1> QED BY <1>1, <1>2, <1>13, <1>14, <1>15, AskingStays DEF TailInv

LEMMA StreamHolds ==
    ASSUME TailInv, NEW id \in streams, Receive(id) \/ Stream(id) \/ StreamLogsEnds(id)
    PROVE  TailInv'
<1>1. CASE StreamLogsEnds(id)
  <2>1. /\ received[id] = {} /\ active' = FALSE /\ streams' = streams \ {id}
        /\ UNCHANGED <<client, option, asked, starts, toward, filters, received, paired>>
        /\ UNCHANGED <<window, wire, logged, printed>>
    BY <1>1 DEF StreamLogsEnds
  <2>2. Holding' /\ OnHand' = OnHand
    BY <2>1 DEF TailInv, Pipe, Holding, OnHand
  <2>3. Pipe' /\ Passed' = Passed
    BY <2>1, <2>2, PipeStays DEF TailInv
  <2> QED BY <2>1, <2>3, AskingStays DEF TailInv
<1> QED BY <1>1, ReceiveHolds, SendHolds

\* The client takes the first line of the wire.
LEMMA ReadHolds ==
    ASSUME TailInv, ReadLogs
    PROVE  TailInv'
<1>1. /\ wire # <<>> /\ wire' = Tail(wire)
      /\ printed' = printed \/ printed' = Append(printed, Head(wire))
      /\ UNCHANGED <<client, option, asked, starts, toward, filters, logged, window, active>>
      /\ UNCHANGED <<streams, received, paired>>
    BY DEF ReadLogs, streaming
<1>2. PICK h, u : h = Head(wire) /\ u = Tail(wire)
    OBVIOUS
<1>3. /\ u \in Seq(Events) /\ Rising(u) /\ h \in Events /\ Within(wire) = Within(u) \cup {h}
      /\ Before({h}, Within(u)) /\ Before(Within(printed), {h}) /\ Before(Within(printed) \cup {h}, Within(u))
  <2>1. PICK X : X = Within(printed)
    OBVIOUS
  <2>2. wire \in Seq(Events) /\ Rising(wire) /\ Before(X, Within(wire))
    BY <2>1 DEF TailInv, Pipe
  <2> QED BY <1>1, <1>2, <2>1, <2>2, HeadLeaves
<1>4. PICK q : q \in {printed, Append(printed, h)} /\ printed' = q
    BY <1>1, <1>2
<1>5. q \in Seq(Events) /\ Rising(q) /\ Within(q) \in {Within(printed), Within(printed) \cup {h}}
  <2>1. printed \in Seq(Events) /\ Rising(printed)
    BY DEF TailInv, Pipe
  <2>2. CASE q = printed
    BY <2>1, <2>2
  <2>3. CASE q = Append(printed, h)
    BY <1>3, <2>1, <2>3, AppendWithin
  <2> QED BY <1>4, <2>2, <2>3
<1>6. /\ Within(wire)' = Within(u) /\ Within(printed)' = Within(q) /\ Within(window)' = Within(window)
      /\ wire' = u
    BY <1>1, <1>2, <1>4 DEF Within
<1>7. Sent' \subseteq Sent /\ Holding' /\ OnHand' = OnHand
  <2>1. Holding' /\ OnHand' = OnHand
    BY <1>1, HandsStay DEF TailInv, Pipe
  <2> QED BY <1>3, <1>5, <1>6, <2>1 DEF Sent
<1>8. Passed' \subseteq Passed
    BY <1>6, <1>7 DEF Passed
<1>9. Pipe'
  <2>1. Rising(window)' /\ Rising(wire)' /\ Rising(printed)'
    BY <1>1, <1>3, <1>4, <1>5, <1>6 DEF TailInv, Pipe, Rising, Apart
  <2>2. Before(Within(printed), Within(wire))'
    BY <1>1, <1>3, <1>5, <1>6 DEF Before, Apart
  <2>3. Before(Sent, OnHand)' /\ Before(Sent \cup OnHand, Within(window))'
    BY <1>1, <1>6, <1>7 DEF TailInv, Pipe, Before, Apart
  <2> QED BY <1>1, <1>3, <1>4, <1>5, <1>6, <1>7, <1>8, <2>1, <2>2, <2>3 DEF TailInv, Pipe
<1>10. active \in BOOLEAN
    BY DEF TailInv
<1> QED BY <1>1, <1>8, <1>9, <1>10, AskingStays DEF TailInv

\* The client prints lines of the log, each once, and in order unless it is a page whose
\* session had two streams at once; a tail only those its operator asked for
\* (session.Insert, streamLogs, tail.Run).
THEOREM TailPrintsWhatWasAsked == TailSpec => []PrintsWhatWasAsked
<1>1. TailInit => TailInv
  <2> SUFFICES ASSUME TailInit PROVE TailInv
    OBVIOUS
  <2>1. /\ window = <<>> /\ wire = <<>> /\ printed = <<>> /\ logged = <<>> /\ active = FALSE
        /\ toward = <<>> /\ starts = 0 /\ option \in Options
        /\ streams = {} /\ received = <<>> /\ paired = FALSE
    BY DEF TailInit
  <2>2. Within(<<>>) = {} /\ Rising(<<>>) /\ <<>> \in Seq(Events) /\ <<>> \in Seq(SUBSET Events)
    BY DEF Within, Rising
  <2>3. OnHand = {} /\ Sent = {} /\ Passed = {} /\ Holding
    <3>1. DOMAIN received = {}
      BY <2>1
    <3>2. OnHand = {} /\ Sent = {} /\ Passed = {}
      BY <2>1, <2>2, <3>1 DEF Passed, Sent, OnHand
    <3>3. Holding
      BY <2>1, <2>2, <3>1 DEF Holding
    <3> QED BY <3>2, <3>3
  <2>4. Pipe
    BY <2>1, <2>2, <2>3 DEF Pipe, Before
  <2>5. Asking
    BY <2>1, <2>3 DEF Asking
  <2> QED BY <2>1, <2>4, <2>5 DEF TailInv
<1>2. TailInv /\ [TailNext]_tailVars => TailInv'
  <2> SUFFICES ASSUME TailInv, [TailNext]_tailVars PROVE TailInv'
    OBVIOUS
  <2>1. CASE TailNext
    BY <2>1, ClientHolds, SessionHolds, WriteHolds, StreamHolds, ReadHolds DEF TailNext
  <2>2. CASE UNCHANGED tailVars
    <3>1. /\ UNCHANGED <<client, option, asked, starts, toward, filters, active, window, wire>>
          /\ UNCHANGED <<logged, printed, streams, received, paired>>
      BY <2>2 DEF tailVars, streaming
    <3>2. Holding' /\ OnHand' = OnHand
      BY <3>1, HandsStay DEF TailInv, Pipe
    <3> QED BY <3>1, <3>2, PipeStays, AskingStays DEF TailInv
  <2> QED BY <2>1, <2>2
<1>3. TailInv => PrintsWhatWasAsked
  <2> SUFFICES ASSUME TailInv PROVE PrintsWhatWasAsked
    OBVIOUS
  <2>1. \A i \in DOMAIN printed : printed[i] \in Passed
    BY DEF Passed, Sent, Within
  <2> QED BY <2>1 DEF TailInv, Pipe, Asking, Rising, Apart, PrintsWhatWasAsked
<1> QED BY <1>1, <1>2, <1>3, PTL DEF TailSpec

-----------------------------------------------------------------------------
\* ApiServer: what a deletion leaves.

\* Where a request is on a chat, and where it is not, or not yet.
ChatSteps == {"insert question", "select title", "set title", "stream", "insert reply", "rename",
              "generate", "update title", "select pinned", "update pinned", "delete messages",
              "delete session"}
OtherSteps == {"unsent", "create", "select settings", "write settings", "delete settings",
               "done", "failed"}

ApiTypes ==
    /\ session \in [Chats -> Row \cup {Null}] /\ messages \in [Chats -> Seq(Message)]
    /\ apiPc \in [Requests -> ChatSteps \cup OtherSteps]
    /\ chatId \in [Requests -> Chats \cup {Null}] /\ read \in [Requests -> BOOLEAN]
    /\ settings \in BOOLEAN /\ serial \in BOOLEAN /\ raced \in SUBSET Requests
    /\ \A r \in Requests : apiPc[r] \in ChatSteps => chatId[r] \in Chats

\* The messages of a chat that is gone, or about to go, and the requests on it are raced.
Gone(c) == session[c] = Null \/ Deleting(c)
RacedOnly(c) ==
    /\ \A i \in DOMAIN messages[c] : messages[c][i].req \in raced
    /\ \A r \in Requests :
          chatId[r] = c /\ Active(r) /\ apiPc[r] # "delete session" => r \in raced
DeletionInv == ApiTypes /\ \A c \in Chats : Gone(c) => RacedOnly(c)

LEMMA FirstSteps ==
    ASSUME NEW k \in Kinds, NEW c \in Chats \cup {Null},
           k \notin {"new", "chat", "import", "save", "reset"} => c # Null,
           k \in {"new", "import", "save", "reset"} => c = Null
    PROVE  /\ First(k, c) \in ChatSteps \cup OtherSteps
           /\ First(k, c) \in ChatSteps => c \in Chats
           /\ First(k, c) \notin {"delete session", "unsent", "select title", "set title",
                               "stream", "insert reply"}
<1>1. CASE c = Null
  <2>1. k \in {"new", "chat", "import"} \/ k = "save" \/ k = "reset"
    BY <1>1
  <2>2. CASE k \in {"new", "chat", "import"}
    BY <1>1, <2>2 DEF First, ChatSteps, OtherSteps
  <2>3. CASE k = "save"
    BY <1>1, <2>3 DEF First, ChatSteps, OtherSteps
  <2>4. CASE k = "reset"
    BY <1>1, <2>4 DEF First, ChatSteps, OtherSteps
  <2> QED BY <2>1, <2>2, <2>3, <2>4
<1>2. CASE c # Null
    BY <1>2 DEF First, Kinds, ChatSteps, OtherSteps
<1> QED BY <1>1, <1>2

LEMMA Appending ==
    ASSUME NEW S, NEW s \in Seq(S), NEW e \in S
    PROVE  /\ Append(s, e) \in Seq(S)
           /\ DOMAIN Append(s, e) = DOMAIN s \cup {Len(s) + 1} /\ Append(s, e)[Len(s) + 1] = e
           /\ \A i \in DOMAIN s : Append(s, e)[i] = s[i]
OBVIOUS

LEMMA MessageAdded ==
    ASSUME NEW c \in Chats, NEW m \in Message, messages[c] \in Seq(Message),
           messages'[c] = Append(messages[c], m)
    PROVE  /\ \A i \in DOMAIN messages'[c] :
                 (i \in DOMAIN messages[c] /\ messages'[c][i] = messages[c][i]) \/ messages'[c][i] = m
OBVIOUS

\* Update neither adds nor removes a row.
LEMMA UpdateKeepsRows ==
    ASSUME ApiTypes, NEW c \in Chats, NEW row, session[c] # Null => row \in Row, Update(c, row)
    PROVE  /\ session' \in [Chats -> Row \cup {Null}]
           /\ \A d \in Chats : session'[d] = Null <=> session[d] = Null
BY NullAssumption DEF Update, ApiTypes

LEMMA TitlesAreRows ==
    ASSUME ApiTypes, NEW c \in Chats, NEW title \in Titles, SetTitle(c, title)
    PROVE  /\ session' \in [Chats -> Row \cup {Null}]
           /\ \A d \in Chats : session'[d] = Null <=> session[d] = Null
<1>1. session[c] # Null => [session[c] EXCEPT !.title = title] \in Row
    BY DEF ApiTypes, Row
<1> QED BY <1>1, UpdateKeepsRows DEF SetTitle

LEMMA PinsAreRows ==
    ASSUME ApiTypes, NEW r \in Requests, UpdatePinned(r)
    PROVE  /\ session' \in [Chats -> Row \cup {Null}]
           /\ \A d \in Chats : session'[d] = Null <=> session[d] = Null
<1> DEFINE c == chatId[r]
<1>1. c \in Chats /\ (session[c] # Null => [session[c] EXCEPT !.pinned = ~read[r]] \in Row)
    BY DEF ApiTypes, Row, UpdatePinned, Goto, ChatSteps
<1> HIDE DEF c
<1> QED BY <1>1, UpdateKeepsRows DEF UpdatePinned, c

\* A request on its way that leaves the other chats alone, and in its own keeps
\* the row and adds at most a message.
LEMMA OwnChatOnly ==
    ASSUME DeletionInv, NEW r \in Requests, NEW to \in (ChatSteps \cup OtherSteps) \ {"delete session"},
           Active(r), apiPc[r] # "delete session", apiPc' = [apiPc EXCEPT ![r] = to],
           chatId' = chatId, raced' = raced, serial' = serial, read' \in [Requests -> BOOLEAN],
           settings' \in BOOLEAN,
           to \in ChatSteps => chatId[r] \in Chats,
           session' \in [Chats -> Row \cup {Null}],
           \A c \in Chats : session'[c] = Null <=> session[c] = Null,
           \/ messages' = messages
           \/ /\ chatId[r] \in Chats
              /\ \E m \in Message : /\ m.req = r
                                    /\ messages' = [messages EXCEPT ![chatId[r]] = Append(@, m)]
    PROVE  DeletionInv'
<1>1. ApiTypes'
  <2>1. messages' \in [Chats -> Seq(Message)]
    <3>1. ASSUME NEW m \in Message, chatId[r] \in Chats,
                 messages' = [messages EXCEPT ![chatId[r]] = Append(@, m)]
          PROVE  messages' \in [Chats -> Seq(Message)]
      <4>1. messages \in [Chats -> Seq(Message)] /\ messages[chatId[r]] \in Seq(Message)
        BY <3>1 DEF DeletionInv, ApiTypes
      <4>2. Append(messages[chatId[r]], m) \in Seq(Message)
        BY <4>1, Appending
      <4> QED BY <3>1, <4>1, <4>2
    <3> QED BY <3>1 DEF DeletionInv, ApiTypes
  <2> QED BY <2>1 DEF DeletionInv, ApiTypes
<1>2. ASSUME NEW c \in Chats, Gone(c)'
      PROVE  RacedOnly(c)'
  <2>1. Gone(c)
    BY <1>2 DEF Gone, Deleting, DeletionInv, ApiTypes
  <2>2. RacedOnly(c)
    BY <2>1 DEF DeletionInv
  <2>3. \A q \in Requests : chatId'[q] = c /\ Active(q)' /\ apiPc'[q] # "delete session" => q \in raced
    BY <2>2 DEF RacedOnly, Active, DeletionInv, ApiTypes
  <2>4. \A i \in DOMAIN messages'[c] : messages'[c][i].req \in raced
    <3>1. CASE messages'[c] = messages[c]
      BY <2>2, <3>1 DEF RacedOnly
    <3>2. CASE messages'[c] # messages[c]
      <4>1. PICK m \in Message : /\ m.req = r /\ chatId[r] = c
                                 /\ messages'[c] = Append(messages[c], m)
        BY <3>2 DEF DeletionInv, ApiTypes
      <4>2. r \in raced
        BY <2>2, <4>1 DEF RacedOnly
      <4>3. messages[c] \in Seq(Message)
        BY DEF DeletionInv, ApiTypes
      <4>4. \A i \in DOMAIN messages'[c] :
               (i \in DOMAIN messages[c] /\ messages'[c][i] = messages[c][i]) \/ messages'[c][i] = m
        BY <4>1, <4>3, MessageAdded
      <4> QED BY <2>2, <4>1, <4>2, <4>4 DEF RacedOnly
    <3> QED BY <3>1, <3>2
  <2> QED BY <2>3, <2>4 DEF RacedOnly
<1> QED BY <1>1, <1>2 DEF DeletionInv

LEMMA ArriveHolds ==
    ASSUME DeletionInv, NEW r \in Requests, NEW k \in Kinds, NEW c \in Chats \cup {Null},
           Arrive(r, k, c)
    PROVE  DeletionInv'
<1>1. /\ First(k, c) \in ChatSteps \cup OtherSteps
      /\ First(k, c) \in ChatSteps => c \in Chats
      /\ First(k, c) \notin {"delete session", "unsent"}
    BY FirstSteps DEF Arrive
<1>2. /\ apiPc[r] = "unsent" /\ apiPc' = [apiPc EXCEPT ![r] = First(k, c)]
      /\ chatId' = [chatId EXCEPT ![r] = c] /\ UNCHANGED <<session, messages, settings, read, serial>>
      /\ raced' = IF c # Null /\ Gone(c) THEN raced \cup {r} ELSE raced
    BY DEF Arrive, Gone
<1>3. ApiTypes'
    BY <1>1, <1>2 DEF DeletionInv, ApiTypes
<1>4. ASSUME NEW d \in Chats, Gone(d)'
      PROVE  RacedOnly(d)'
  <2>1. Gone(d)
    BY <1>1, <1>2, <1>4 DEF Gone, Deleting, DeletionInv, ApiTypes
  <2>2. RacedOnly(d)
    BY <2>1 DEF DeletionInv
  <2>3. d = c => r \in raced'
    BY <1>2, <2>1, NullAssumption
  <2>4. ASSUME NEW q \in Requests, chatId'[q] = d, Active(q)', apiPc'[q] # "delete session"
        PROVE  q \in raced'
    <3>1. CASE q = r
      BY <1>2, <2>3, <2>4, <3>1 DEF DeletionInv, ApiTypes
    <3>2. CASE q # r
      BY <1>2, <2>2, <2>4, <3>2 DEF RacedOnly, Active, DeletionInv, ApiTypes
    <3> QED BY <3>1, <3>2
  <2> QED BY <1>2, <2>2, <2>4 DEF RacedOnly
<1> QED BY <1>3, <1>4 DEF DeletionInv

LEMMA CreateHolds ==
    ASSUME DeletionInv, NEW r \in Requests, NEW c \in Chats, CreateChat(r, c)
    PROVE  DeletionInv'
<1>1. PICK row \in Row : session' = [session EXCEPT ![c] = row]
  <2>1. PICK title \in Titles : session' = [session EXCEPT ![c] = [title |-> title, pinned |-> FALSE]]
    BY DEF CreateChat, Titles, Given
  <2>2. [title |-> title, pinned |-> FALSE] \in Row
    BY DEF Row
  <2> QED BY <2>1, <2>2
<1>2. PICK to \in {"done", "insert question"} : apiPc' = [apiPc EXCEPT ![r] = to]
    BY DEF CreateChat, Goto
<1>3. /\ c \notin Used /\ apiPc[r] = "create" /\ chatId' = [chatId EXCEPT ![r] = c]
      /\ UNCHANGED <<messages, settings, read, serial, raced>>
    BY DEF CreateChat, Goto
<1>4. ApiTypes'
    BY <1>1, <1>2, <1>3 DEF DeletionInv, ApiTypes, ChatSteps, OtherSteps
<1>5. ASSUME NEW d \in Chats, Gone(d)'
      PROVE  RacedOnly(d)'
  <2>1. d # c
    BY <1>1, <1>2, <1>3, <1>5, NullAssumption DEF Gone, Deleting, Used, DeletionInv, ApiTypes
  <2>2. Gone(d)
    BY <1>1, <1>2, <1>3, <1>5, <2>1 DEF Gone, Deleting, DeletionInv, ApiTypes
  <2>3. RacedOnly(d)
    BY <2>2 DEF DeletionInv
  <2> QED BY <1>2, <1>3, <2>1, <2>3 DEF RacedOnly, Active, DeletionInv, ApiTypes
<1> QED BY <1>4, <1>5 DEF DeletionInv

LEMMA DeleteHolds ==
    ASSUME DeletionInv, NEW r \in Requests, NEW c \in Chats, c = chatId[r],
           DeleteMessages(r) \/ DeleteSession(r)
    PROVE  DeletionInv'
<1>1. CASE DeleteMessages(r)
  <2>1. /\ apiPc[r] = "delete messages" /\ apiPc' = [apiPc EXCEPT ![r] = "delete session"]
        /\ messages' = [messages EXCEPT ![c] = <<>>] /\ raced' = raced \cup OnSameChat(r)
        /\ UNCHANGED <<session, settings, chatId, read, serial>>
    BY <1>1 DEF DeleteMessages, Goto
  <2>2. raced' \in SUBSET Requests /\ messages' \in [Chats -> Seq(Message)]
    <3>1. OnSameChat(r) \subseteq Requests
      BY DEF OnSameChat
    <3>2. <<>> \in Seq(Message)
      OBVIOUS
    <3> QED BY <2>1, <3>1, <3>2 DEF DeletionInv, ApiTypes
  <2>3. ApiTypes'
    BY <2>1, <2>2 DEF DeletionInv, ApiTypes, ChatSteps
  <2>4. ASSUME NEW d \in Chats, Gone(d)', d # c
        PROVE  RacedOnly(d)'
    <3>1. Gone(d)
      BY <2>1, <2>4 DEF Gone, Deleting, DeletionInv, ApiTypes
    <3> QED BY <2>1, <2>4, <3>1 DEF RacedOnly, Active, DeletionInv, ApiTypes
  <2>5. RacedOnly(c)'
    <3>1. messages'[c] = <<>> /\ DOMAIN messages'[c] = {}
      <4>1. messages'[c] = <<>>
        BY <2>1 DEF DeletionInv, ApiTypes
      <4> QED BY <4>1
    <3>2. \A q \in Requests :
             chatId'[q] = c /\ Active(q)' /\ apiPc'[q] # "delete session" => q \in raced'
      BY <2>1 DEF Active, OnSameChat, DeletionInv, ApiTypes
    <3> QED BY <2>1, <3>1, <3>2 DEF RacedOnly
  <2> QED BY <2>3, <2>4, <2>5 DEF DeletionInv
<1>2. CASE DeleteSession(r)
  <2>1. /\ apiPc[r] = "delete session" /\ apiPc' = [apiPc EXCEPT ![r] = "done"]
        /\ session' = [session EXCEPT ![c] = Null]
        /\ UNCHANGED <<messages, settings, chatId, read, serial, raced>>
    BY <1>2 DEF DeleteSession, Goto
  <2>3. ApiTypes'
    BY <2>1 DEF DeletionInv, ApiTypes, ChatSteps, OtherSteps
  <2>4. ASSUME NEW d \in Chats, Gone(d)'
        PROVE  RacedOnly(d)'
    <3>1. Gone(d)
      BY <2>1, <2>4 DEF Gone, Deleting, DeletionInv, ApiTypes
    <3> QED BY <2>1, <3>1 DEF RacedOnly, Active, DeletionInv, ApiTypes
  <2> QED BY <2>3, <2>4 DEF DeletionInv
<1> QED BY <1>1, <1>2

LEMMA DeletionStart == ApiInit => DeletionInv
<1>1. SUFFICES ASSUME ApiInit PROVE DeletionInv
  OBVIOUS
<1>2. messages \in [Chats -> Seq(Message)] /\ \A c \in Chats : DOMAIN messages[c] = {}
  BY <1>1 DEF ApiInit
<1>3. "unsent" \in OtherSteps /\ "unsent" \notin ChatSteps
  BY DEF OtherSteps, ChatSteps
<1>4. ApiTypes
  BY <1>1, <1>2, <1>3 DEF ApiInit, ApiTypes
<1> QED BY <1>1, <1>2, <1>4 DEF ApiInit, DeletionInv, RacedOnly, Active

LEMMA DeletionStep == DeletionInv /\ [ApiNext]_apiVars => DeletionInv'
<1>1. SUFFICES ASSUME DeletionInv, [ApiNext]_apiVars PROVE DeletionInv'
  OBVIOUS
<1>2. CASE UNCHANGED apiVars
  BY <1>1, <1>2 DEF apiVars, DeletionInv, ApiTypes, Gone, Deleting, RacedOnly, Active
<1>3. ASSUME NEW r \in Requests,
             \/ InsertQuestion(r) \/ SelectTitle(r) \/ StreamEnds(r) \/ StreamFails(r)
             \/ InsertReply(r) \/ GenerateTitle(r) \/ SelectPinned(r)
      PROVE  DeletionInv'
  <2>1. /\ apiPc[r] \in ChatSteps \ {"delete session"} /\ Active(r) /\ chatId[r] \in Chats
        /\ UNCHANGED <<session, settings, chatId, serial, raced>>
        /\ \E to \in (ChatSteps \cup OtherSteps) \ {"delete session"} :
              apiPc' = [apiPc EXCEPT ![r] = to]
    BY <1>1, <1>3 DEF InsertQuestion, SelectTitle, StreamEnds, StreamFails, InsertReply,
       GenerateTitle, SelectPinned, Goto, Active, ChatSteps, OtherSteps, DeletionInv, ApiTypes
  <2>2. read' \in [Requests -> BOOLEAN]
    BY <1>1, <1>3 DEF InsertQuestion, SelectTitle, StreamEnds, StreamFails, InsertReply,
       GenerateTitle, SelectPinned, DeletionInv, ApiTypes
  <2>3. \/ messages' = messages
        \/ \E m \in Message : /\ m.req = r
                              /\ messages' = [messages EXCEPT ![chatId[r]] = Append(@, m)]
    BY <1>3 DEF InsertQuestion, SelectTitle, StreamEnds, StreamFails, InsertReply,
       GenerateTitle, SelectPinned, Insert, Message
  <2> QED BY <1>1, <2>1, <2>2, <2>3, OwnChatOnly DEF DeletionInv, ApiTypes
<1>4. ASSUME NEW r \in Requests,
             WriteTitle(r) \/ RenameChat(r) \/ UpdateTitle(r) \/ UpdatePinned(r)
      PROVE  DeletionInv'
  <2>1. /\ apiPc[r] \in ChatSteps \ {"delete session"} /\ Active(r) /\ chatId[r] \in Chats
        /\ UNCHANGED <<chatId, settings, serial, raced, read, messages>>
        /\ \E to \in (ChatSteps \cup OtherSteps) \ {"delete session"} :
              apiPc' = [apiPc EXCEPT ![r] = to]
    BY <1>1, <1>4 DEF WriteTitle, RenameChat, UpdateTitle, UpdatePinned, Goto, Active,
       ChatSteps, OtherSteps, DeletionInv, ApiTypes
  <2>2. \/ UNCHANGED session \/ UpdatePinned(r)
        \/ \E title \in Titles : SetTitle(chatId[r], title)
    BY <1>4 DEF WriteTitle, RenameChat, UpdateTitle, Titles, Given
  <2>3. /\ session' \in [Chats -> Row \cup {Null}]
        /\ \A d \in Chats : session'[d] = Null <=> session[d] = Null
    BY <1>1, <2>1, <2>2, TitlesAreRows, PinsAreRows DEF DeletionInv, ApiTypes
  <2> QED BY <1>1, <2>1, <2>3, OwnChatOnly DEF DeletionInv, ApiTypes
<1>5. ASSUME NEW r \in Requests, SelectSettings(r) \/ WriteSettings(r) \/ DeleteSettings(r)
      PROVE  DeletionInv'
  <2>1. /\ apiPc[r] \in OtherSteps /\ Active(r)
        /\ UNCHANGED <<session, messages, chatId, serial, raced>>
        /\ \E to \in OtherSteps : apiPc' = [apiPc EXCEPT ![r] = to]
    BY <1>1, <1>5 DEF SelectSettings, WriteSettings, DeleteSettings, Goto, Active, OtherSteps
  <2>2. read' \in [Requests -> BOOLEAN] /\ settings' \in BOOLEAN
    <3>1. settings \in BOOLEAN
      BY <1>1 DEF DeletionInv, ApiTypes
    <3> QED BY <1>1, <1>5, <3>1 DEF SelectSettings, WriteSettings, DeleteSettings, DeletionInv, ApiTypes
  <2>3. OtherSteps \cap ChatSteps = {} /\ "delete session" \in ChatSteps
    BY DEF OtherSteps, ChatSteps
  <2> QED BY <1>1, <2>1, <2>2, <2>3, OwnChatOnly DEF DeletionInv, ApiTypes
<1>6. ASSUME NEW r \in Requests, DeleteMessages(r) \/ DeleteSession(r)
      PROVE  DeletionInv'
  <2>1. chatId[r] \in Chats
    BY <1>1, <1>6 DEF DeleteMessages, DeleteSession, Goto, DeletionInv, ApiTypes, ChatSteps
  <2> QED BY <1>1, <1>6, <2>1, DeleteHolds
<1>7. ASSUME NEW r \in Requests, NEW k \in Kinds, NEW c \in Chats \cup {Null}, Arrive(r, k, c)
      PROVE  DeletionInv'
  BY <1>1, <1>7, ArriveHolds
<1>8. ASSUME NEW r \in Requests, NEW c \in Chats, CreateChat(r, c)
      PROVE  DeletionInv'
  BY <1>1, <1>8, CreateHolds
<1> QED BY <1>1, <1>2, <1>3, <1>4, <1>5, <1>6, <1>7, <1>8 DEF ApiNext

\* api-server, deleteChat: a chat that is deleted leaves no message behind but
\* those of requests that met the deletion, for every number of chats and requests.
THEOREM DeletionsLeaveNothing == ApiSpec => []OrphansWereRaced
<1>1. DeletionInv => OrphansWereRaced
    BY DEF DeletionInv, OrphansWereRaced, Gone, RacedOnly
<1> QED BY <1>1, DeletionStart, DeletionStep, PTL DEF ApiSpec

-----------------------------------------------------------------------------
\* ApiServer: what is stored of a chat.

Waiting == {"select title", "set title", "stream", "insert reply"}

\* With one request at a time on a chat: its question is the last message until its
\* reply, and the title it has read is the one it replaces.
AloneOn(c) == \A q, r \in Requests : Active(q) /\ Active(r) /\ chatId[q] = c /\ chatId[r] = c => q = r
QuestionIsLast(r) ==
    LET h == messages[chatId[r]]
    IN  /\ h # <<>> /\ h[Len(h)] = [role |-> "user", req |-> r]
NewChatIsMeant(r) ==
    session[chatId[r]] # Null => session[chatId[r]].title = "New Chat"
SerialDay ==
    /\ \A c \in Chats : AloneOn(c)
    /\ \A r \in Requests : apiPc[r] \in Waiting => QuestionIsLast(r)
    /\ \A r \in Requests : apiPc[r] = "set title" /\ read[r] => NewChatIsMeant(r)

\* What a step has to show.
KeptLog ==
    IF serial THEN messages' = messages \/ Promise!Next
    ELSE \A c \in Chats : messages'[c] = <<>> \/ IsPrefix(messages[c], messages'[c])
KeptTitle ==
    \A c \in Chats :
        serial /\ session[c] # Null /\ session'[c] # Null /\ session'[c].title # session[c].title
           => session[c].title = "New Chat" \/ AskingForATitle(c)
Kept == (serial => SerialDay') /\ KeptLog /\ KeptTitle

LEMMA GrownByOne ==
    ASSUME NEW S, NEW s \in Seq(S), NEW e \in S
    PROVE  /\ Append(s, e) # <<>> /\ Append(s, e)[Len(Append(s, e))] = e
           /\ IsPrefix(s, Append(s, e))
BY DEF IsPrefix

LEMMA PrefixOfItself ==
    ASSUME NEW S, NEW s \in Seq(S)
    PROVE  IsPrefix(s, s)
BY DEF IsPrefix

\* A step that is no insert and no deletion, on a chat of its own.
LEMMA NothingInserted ==
    ASSUME ApiTypes, ApiTypes', serial => SerialDay, UNCHANGED <<messages, serial>>,
           serial => SerialDay', KeptTitle
    PROVE  Kept
<1>1. \A c \in Chats : IsPrefix(messages[c], messages'[c])
    BY PrefixOfItself DEF ApiTypes
<1> QED BY <1>1 DEF Kept, KeptLog

LEMMA OnlyItsChat ==
    ASSUME ApiTypes, ApiTypes', SerialDay, NEW r \in Requests, Active(r),
           NEW to, apiPc' = [apiPc EXCEPT ![r] = to], chatId' = chatId,
           \A q \in Requests \ {r} : read'[q] = read[q],
           \A c \in Chats : c # chatId[r] => messages'[c] = messages[c] /\ session'[c] = session[c],
           to \in Waiting => QuestionIsLast(r)',
           to = "set title" /\ read'[r] => NewChatIsMeant(r)'
    PROVE  SerialDay'
<1>1. ASSUME NEW c \in Chats
      PROVE  AloneOn(c)'
  <2>1. \A q \in Requests : Active(q)' => Active(q)
    BY DEF Active, ApiTypes
  <2>2. AloneOn(c)
    BY DEF SerialDay
  <2> QED BY <2>1, <2>2 DEF AloneOn
<1>2. apiPc'[r] = to /\ \A q \in Requests \ {r} : apiPc'[q] = apiPc[q]
    BY DEF ApiTypes
<1>3. ASSUME NEW q \in Requests \ {r}, apiPc[q] \in Waiting
      PROVE  chatId[q] \in Chats /\ chatId[q] # chatId[r]
  <2>1. Active(q) /\ chatId[q] \in Chats
    BY <1>3 DEF Active, Waiting, ApiTypes, ChatSteps
  <2> QED BY <1>3, <2>1 DEF SerialDay, AloneOn
<1>4. ASSUME NEW q \in Requests, apiPc'[q] \in Waiting
      PROVE  QuestionIsLast(q)'
  <2>1. CASE q # r
    <3>1. QuestionIsLast(q) /\ messages'[chatId[q]] = messages[chatId[q]] /\ chatId'[q] = chatId[q]
      BY <1>2, <1>3, <1>4, <2>1 DEF SerialDay
    <3> QED BY <3>1 DEF QuestionIsLast
  <2> QED BY <1>2, <1>4, <2>1
<1>5. ASSUME NEW q \in Requests, apiPc'[q] = "set title", read'[q]
      PROVE  NewChatIsMeant(q)'
  <2>1. CASE q # r
    <3>1. apiPc[q] = "set title" /\ apiPc[q] \in Waiting
      BY <1>2, <1>5, <2>1 DEF Waiting
    <3>2. NewChatIsMeant(q) /\ session'[chatId[q]] = session[chatId[q]] /\ chatId'[q] = chatId[q]
      BY <1>3, <1>5, <2>1, <3>1 DEF SerialDay
    <3> QED BY <3>2 DEF NewChatIsMeant
  <2> QED BY <1>2, <1>5, <2>1
<1> QED BY <1>1, <1>4, <1>5 DEF SerialDay

\* Update and SetTitle concern one chat.
LEMMA UpdateIsOfOneChat ==
    ASSUME ApiTypes, NEW c \in Chats, NEW row, Update(c, row)
    PROVE  /\ \A d \in Chats : d # c => session'[d] = session[d]
           /\ session'[c] = session[c] \/ session'[c] = row
           /\ session[c] = Null => session'[c] = Null
BY DEF Update, ApiTypes

\* A row of a chat keeps its title.
LEMMA TitlesStand ==
    ASSUME ApiTypes, \A c \in Chats : session[c] # Null /\ session'[c] # Null =>
               session'[c].title = session[c].title
    PROVE  KeptTitle
BY DEF KeptTitle

LEMMA ReadsKept ==
    ASSUME ApiTypes, ApiTypes', serial => SerialDay, NEW r \in Requests,
           \/ SelectTitle(r) \/ StreamEnds(r) \/ StreamFails(r) \/ GenerateTitle(r)
           \/ SelectPinned(r) \/ SelectSettings(r) \/ WriteSettings(r) \/ DeleteSettings(r)
    PROVE  Kept
<1>1. /\ Active(r) /\ UNCHANGED <<session, messages, chatId, serial>>
      /\ \A q \in Requests \ {r} : read'[q] = read[q]
  <2>1. read' = read \/ \E b : read' = [read EXCEPT ![r] = b]
    BY DEF SelectTitle, StreamEnds, StreamFails, GenerateTitle, SelectPinned, SelectSettings,
       WriteSettings, DeleteSettings
  <2>2. /\ UNCHANGED <<session, messages, chatId, serial>>
        /\ apiPc[r] \notin {"unsent", "done", "failed"}
    BY DEF SelectTitle, StreamEnds, StreamFails, GenerateTitle, SelectPinned, SelectSettings,
       WriteSettings, DeleteSettings, Goto
  <2> QED BY <2>1, <2>2 DEF Active, ApiTypes
<1>2. \E to : /\ apiPc' = [apiPc EXCEPT ![r] = to]
              /\ to \in Waiting => apiPc[r] \in Waiting
              /\ to = "set title" => SelectTitle(r)
  <2>1. CASE SelectTitle(r)
    BY <2>1 DEF SelectTitle, Goto, Waiting
  <2>2. CASE StreamEnds(r) \/ StreamFails(r)
    BY <2>2 DEF StreamEnds, StreamFails, Goto, Waiting
  <2>3. CASE GenerateTitle(r) \/ SelectSettings(r) \/ DeleteSettings(r)
    BY <2>3 DEF GenerateTitle, SelectSettings, DeleteSettings, Goto, Waiting
  <2>4. CASE SelectPinned(r) \/ WriteSettings(r)
    <3>1. \E to \in {"done", "failed", "update pinned"} : apiPc' = [apiPc EXCEPT ![r] = to]
      BY <2>4 DEF SelectPinned, WriteSettings, Goto
    <3> QED BY <3>1 DEF Waiting
  <2> QED BY <2>1, <2>2, <2>3, <2>4
<1>3. SelectTitle(r) /\ read'[r] => NewChatIsMeant(r)'
    BY <1>1 DEF SelectTitle, NewChatIsMeant, ApiTypes
<1>4. ASSUME serial PROVE SerialDay'
  <2>1. apiPc[r] \in Waiting => QuestionIsLast(r)'
    BY <1>1, <1>4 DEF SerialDay, QuestionIsLast
  <2>2. PICK to : /\ apiPc' = [apiPc EXCEPT ![r] = to]
                  /\ to \in Waiting => apiPc[r] \in Waiting
                  /\ to = "set title" => SelectTitle(r)
    BY <1>2
  <2> QED BY <1>1, <1>3, <1>4, <2>1, <2>2, OnlyItsChat
<1>5. KeptTitle
    BY <1>1, TitlesStand
<1> QED BY <1>1, <1>4, <1>5, NothingInserted

LEMMA TitlesKept ==
    ASSUME ApiTypes, ApiTypes', serial => SerialDay, NEW r \in Requests,
           WriteTitle(r) \/ RenameChat(r) \/ UpdateTitle(r) \/ UpdatePinned(r)
    PROVE  Kept
<1> DEFINE c == chatId[r]
<1>1. /\ Active(r) /\ UNCHANGED <<messages, chatId, serial, read>> /\ c \in Chats
    BY DEF WriteTitle, RenameChat, UpdateTitle, UpdatePinned, Goto, Active, ApiTypes, ChatSteps
<1>2. PICK to \in {"stream", "done"} : /\ apiPc' = [apiPc EXCEPT ![r] = to]
                                       /\ to = "stream" => apiPc[r] = "set title"
    BY DEF WriteTitle, RenameChat, UpdateTitle, UpdatePinned, Goto
<1>3. \A d \in Chats : d # c => session'[d] = session[d]
  <2>1. session' = session \/ \E row : Update(c, row)
    BY DEF WriteTitle, RenameChat, UpdateTitle, UpdatePinned, SetTitle
  <2> QED BY <1>1, <2>1, UpdateIsOfOneChat
<1>4. ASSUME serial PROVE SerialDay'
  <2>1. to \in Waiting => QuestionIsLast(r)'
    BY <1>1, <1>2, <1>4 DEF SerialDay, QuestionIsLast, Waiting
  <2> QED BY <1>1, <1>2, <1>3, <1>4, <2>1, OnlyItsChat
<1>5. serial /\ session[c] # Null /\ session'[c] # Null
        => session'[c].title = session[c].title \/ session[c].title = "New Chat" \/ AskingForATitle(c)
  <2>1. CASE WriteTitle(r)
    BY <1>1, <2>1 DEF WriteTitle, Goto, SerialDay, NewChatIsMeant
  <2>2. CASE RenameChat(r) \/ UpdateTitle(r)
    <3>1. apiPc[r] \in {"rename", "update title"}
      BY <2>2 DEF RenameChat, UpdateTitle, Goto
    <3> QED BY <3>1 DEF AskingForATitle
  <2>3. CASE UpdatePinned(r)
    <3>1. session[c] # Null => session'[c] = [session[c] EXCEPT !.pinned = ~read[r]] /\ session[c] \in Row
      BY <1>1, <2>3 DEF UpdatePinned, Update, ApiTypes
    <3> QED BY <3>1 DEF Row
  <2> QED BY <2>1, <2>2, <2>3
<1>6. KeptTitle
    BY <1>1, <1>3, <1>5 DEF KeptTitle
<1> QED BY <1>1, <1>4, <1>6, NothingInserted

LEMMA ArriveKept ==
    ASSUME ApiTypes, ApiTypes', serial => SerialDay, NEW r \in Requests,
           NEW k \in Kinds, NEW c \in Chats \cup {Null}, Arrive(r, k, c)
    PROVE  Kept
<1>1. /\ apiPc[r] = "unsent" /\ apiPc' = [apiPc EXCEPT ![r] = First(k, c)]
      /\ chatId' = [chatId EXCEPT ![r] = c] /\ UNCHANGED <<session, messages, read, serial>>
      /\ serial /\ c # Null => \A q \in Requests : Active(q) => chatId[q] # c
    BY DEF Arrive
<1>2. First(k, c) \notin Waiting
  <2>1. /\ k \notin {"new", "chat", "import", "save", "reset"} => c # Null
        /\ k \in {"new", "import", "save", "reset"} => c = Null
    BY DEF Arrive
  <2> QED BY <2>1, FirstSteps DEF Waiting
<1>3. ASSUME serial PROVE SerialDay'
  <2>1. ASSUME NEW d \in Chats
        PROVE  AloneOn(d)'
    <3>1. AloneOn(d)
      BY <1>3 DEF SerialDay
    <3>2. \A q \in Requests \ {r} : (Active(q)' <=> Active(q)) /\ chatId'[q] = chatId[q]
      BY <1>1 DEF Active, ApiTypes
    <3>3. chatId'[r] = d => d = c /\ c # Null
      BY <1>1, NullAssumption DEF ApiTypes
    <3> QED BY <1>1, <1>3, <3>1, <3>2, <3>3 DEF AloneOn
  <2>2. ASSUME NEW q \in Requests, apiPc'[q] \in Waiting
        PROVE  q # r /\ apiPc'[q] = apiPc[q] /\ chatId'[q] = chatId[q] /\ QuestionIsLast(q)'
    <3>1. q # r /\ apiPc'[q] = apiPc[q] /\ chatId'[q] = chatId[q]
      BY <1>1, <1>2, <2>2 DEF ApiTypes
    <3> QED BY <1>1, <1>3, <2>2, <3>1 DEF SerialDay, QuestionIsLast
  <2>3. ASSUME NEW q \in Requests, apiPc'[q] = "set title", read'[q]
        PROVE  NewChatIsMeant(q)'
    <3>1. q # r /\ apiPc'[q] = apiPc[q] /\ chatId'[q] = chatId[q]
      BY <2>2, <2>3 DEF Waiting
    <3> QED BY <1>1, <1>3, <2>3, <3>1 DEF SerialDay, NewChatIsMeant
  <2> QED BY <2>1, <2>2, <2>3 DEF SerialDay
<1>4. KeptTitle
    BY <1>1, TitlesStand
<1> QED BY <1>1, <1>3, <1>4, NothingInserted

LEMMA CreateKept ==
    ASSUME ApiTypes, ApiTypes', serial => SerialDay, NEW r \in Requests, NEW c \in Chats,
           CreateChat(r, c)
    PROVE  Kept
<1>1. PICK to \in {"done", "insert question"} : apiPc' = [apiPc EXCEPT ![r] = to]
    BY DEF CreateChat, Goto
<1>2. /\ c \notin Used /\ chatId' = [chatId EXCEPT ![r] = c]
      /\ UNCHANGED <<messages, read, serial>>
      /\ \A d \in Chats : d # c => session'[d] = session[d]
    BY DEF CreateChat, Goto, ApiTypes
<1>3. session[c] = Null /\ \A q \in Requests : chatId[q] # c
    BY <1>2 DEF Used
<1>4. to \notin Waiting
    BY DEF Waiting
<1>5. ASSUME serial PROVE SerialDay'
  <2>1. ASSUME NEW d \in Chats
        PROVE  AloneOn(d)'
    <3>1. AloneOn(d)
      BY <1>5 DEF SerialDay
    <3>2. \A q \in Requests \ {r} : (Active(q)' <=> Active(q)) /\ chatId'[q] = chatId[q]
      BY <1>1, <1>2 DEF Active, ApiTypes
    <3>3. chatId'[r] = c
      BY <1>2 DEF ApiTypes
    <3> QED BY <1>3, <3>1, <3>2, <3>3 DEF AloneOn
  <2>2. ASSUME NEW q \in Requests, apiPc'[q] \in Waiting
        PROVE  /\ q # r /\ apiPc'[q] = apiPc[q] /\ chatId'[q] = chatId[q] /\ chatId[q] \in Chats \ {c}
               /\ QuestionIsLast(q)'
    <3>1. q # r /\ apiPc'[q] = apiPc[q] /\ chatId'[q] = chatId[q]
      BY <1>1, <1>2, <1>4, <2>2 DEF ApiTypes
    <3>2. chatId[q] \in Chats \ {c}
      BY <1>3, <2>2, <3>1 DEF ApiTypes, Waiting, ChatSteps
    <3> QED BY <1>2, <1>5, <2>2, <3>1, <3>2 DEF SerialDay, QuestionIsLast
  <2>3. ASSUME NEW q \in Requests, apiPc'[q] = "set title", read'[q]
        PROVE  NewChatIsMeant(q)'
    <3>1. q # r /\ apiPc'[q] = apiPc[q] /\ chatId'[q] = chatId[q] /\ chatId[q] \in Chats \ {c}
      BY <2>2, <2>3 DEF Waiting
    <3> QED BY <1>2, <1>5, <2>3, <3>1 DEF SerialDay, NewChatIsMeant
  <2> QED BY <2>1, <2>2, <2>3 DEF SerialDay
<1>6. KeptTitle
    BY <1>2, <1>3 DEF KeptTitle
<1> QED BY <1>2, <1>5, <1>6, NothingInserted

LEMMA InsertKept ==
    ASSUME ApiTypes, ApiTypes', serial => SerialDay, NEW r \in Requests,
           InsertQuestion(r) \/ InsertReply(r)
    PROVE  Kept
<1> DEFINE c == chatId[r]
           h == messages[c]
<1>1. /\ c \in Chats /\ h \in Seq(Message) /\ Active(r)
      /\ UNCHANGED <<session, chatId, read, serial>>
    BY DEF InsertQuestion, InsertReply, Goto, ApiTypes, Active, ChatSteps
<1>2. PICK m \in Message : /\ messages' = [messages EXCEPT ![c] = Append(h, m)]
                           /\ InsertQuestion(r) => m = [role |-> "user", req |-> r]
                           /\ InsertReply(r) => m = [role |-> "assistant", req |-> r]
  <2>1. CASE InsertQuestion(r)
    <3>1. ~InsertReply(r)
      BY <2>1 DEF InsertQuestion, InsertReply, Goto
    <3>2. [role |-> "user", req |-> r] \in Message
      BY DEF Message
    <3> QED BY <2>1, <3>1, <3>2 DEF InsertQuestion, Insert
  <2>2. CASE InsertReply(r)
    <3>1. ~InsertQuestion(r)
      BY <2>2 DEF InsertQuestion, InsertReply, Goto
    <3>2. [role |-> "assistant", req |-> r] \in Message
      BY DEF Message
    <3> QED BY <2>2, <3>1, <3>2 DEF InsertReply, Insert
  <2> QED BY <2>1, <2>2
<1> HIDE DEF h
<1>3. /\ messages \in [Chats -> Seq(Message)] /\ \A d \in Chats : d # c => messages'[d] = messages[d]
      /\ messages'[c] = Append(h, m)
    BY <1>1, <1>2 DEF ApiTypes
<1>4. /\ messages'[c] # <<>> /\ messages'[c][Len(messages'[c])] = m
      /\ IsPrefix(h, messages'[c])
  <2>1. /\ Append(h, m) # <<>> /\ Append(h, m)[Len(Append(h, m))] = m
        /\ IsPrefix(h, Append(h, m))
    BY <1>1, GrownByOne
  <2> QED BY <1>3, <2>1
<1>5. PICK to : /\ apiPc' = [apiPc EXCEPT ![r] = to] /\ to # "set title"
                /\ to \in Waiting => InsertQuestion(r)
  <2>1. CASE InsertQuestion(r)
    <3>1. \E to \in {"select title", "insert reply"} : apiPc' = [apiPc EXCEPT ![r] = to]
      BY <2>1 DEF InsertQuestion, Goto
    <3> QED BY <2>1, <3>1
  <2>2. CASE InsertReply(r)
    <3>1. apiPc' = [apiPc EXCEPT ![r] = "done"]
      BY <2>2 DEF InsertReply, Goto
    <3>2. "done" # "set title" /\ "done" \notin Waiting
      BY DEF Waiting
    <3> QED BY <3>1, <3>2
  <2> QED BY <2>1, <2>2
<1>6. ASSUME serial PROVE SerialDay'
  <2>1. InsertQuestion(r) => QuestionIsLast(r)'
    BY <1>1, <1>2, <1>4 DEF QuestionIsLast
  <2> QED BY <1>1, <1>3, <1>5, <1>6, <2>1, OnlyItsChat
<1>7. ASSUME ~serial PROVE KeptLog
  <2>1. \A d \in Chats : d # c => IsPrefix(messages[d], messages'[d])
    BY <1>3, PrefixOfItself
  <2> QED BY <1>4, <1>7, <2>1 DEF KeptLog, h
<1>8. ASSUME serial PROVE KeptLog
  <2>1. CASE InsertQuestion(r)
    <3>1. Promise!Ask(c, r)
      BY <1>2, <2>1 DEF Promise!Ask, Promise!User, h
    <3> QED BY <1>1, <1>8, <3>1 DEF KeptLog, Promise!Next
  <2>2. CASE InsertReply(r)
    <3>1. apiPc[r] \in Waiting
      BY <2>2 DEF InsertReply, Goto, Waiting
    <3>2. QuestionIsLast(r)
      BY <1>8, <3>1 DEF SerialDay
    <3>3. Promise!Reply(c, r)
      BY <1>2, <2>2, <3>2 DEF Promise!Reply, Promise!User, Promise!Assistant, QuestionIsLast, h
    <3> QED BY <1>1, <1>8, <3>3 DEF KeptLog, Promise!Next
  <2> QED BY <2>1, <2>2
<1>9. KeptTitle
    BY <1>1, TitlesStand
<1> QED BY <1>6, <1>7, <1>8, <1>9 DEF Kept

LEMMA DeleteKept ==
    ASSUME ApiTypes, ApiTypes', serial => SerialDay, NEW r \in Requests,
           DeleteMessages(r) \/ DeleteSession(r)
    PROVE  Kept
<1> DEFINE c == chatId[r]
<1>1. /\ c \in Chats /\ Active(r) /\ UNCHANGED <<chatId, read, serial>>
    BY DEF DeleteMessages, DeleteSession, Goto, ApiTypes, Active, ChatSteps
<1>2. PICK to \in {"delete session", "done"} : apiPc' = [apiPc EXCEPT ![r] = to]
    BY DEF DeleteMessages, DeleteSession, Goto
<1>3. /\ session' = session \/ session' = [session EXCEPT ![c] = Null]
      /\ messages' = messages \/ messages' = [messages EXCEPT ![c] = <<>>]
    BY DEF DeleteMessages, DeleteSession
<1>4. \A d \in Chats : d # c => session'[d] = session[d] /\ messages'[d] = messages[d]
    BY <1>3 DEF ApiTypes
<1>5. ASSUME serial PROVE SerialDay'
  <2>1. to \notin Waiting
    BY DEF Waiting
  <2> QED BY <1>1, <1>2, <1>4, <1>5, <2>1, OnlyItsChat
<1>6. KeptTitle
    BY <1>1, <1>3, TitlesStand DEF ApiTypes
<1>7. KeptLog
  <2>1. \A d \in Chats : IsPrefix(messages[d], messages[d])
    BY PrefixOfItself DEF ApiTypes
  <2>2. messages' = messages \/ Promise!Delete(c)
    BY <1>3 DEF Promise!Delete
  <2>3. \A d \in Chats : messages'[d] = <<>> \/ messages'[d] = messages[d]
    BY <1>1, <1>3, <1>4 DEF ApiTypes
  <2> QED BY <1>1, <2>1, <2>2, <2>3 DEF KeptLog, Promise!Next
<1> QED BY <1>5, <1>6, <1>7 DEF Kept

\* api-server: what is stored of a chat stands, for every number of chats and
\* requests: its messages are the log that ChatLog promises while the client waits
\* for each answer, and only grow or go together when it does not; a title other than
\* "New Chat" is replaced only by a request for a title (appendMessage, renameChat,
\* updateTitle).
THEOREM StoredHistoriesStand == ApiSpec => HistoriesStand
<1>1. ApiInit => (serial => SerialDay) /\ Promise!Init
    BY DEF ApiInit, Promise!Init, SerialDay, AloneOn, Active, Waiting
<1>2. ApiTypes /\ ApiTypes' /\ (serial => SerialDay) /\ [ApiNext]_apiVars
        => (serial => SerialDay)' /\ KeptLog /\ KeptTitle
  <2>1. SUFFICES ASSUME ApiTypes, ApiTypes', serial => SerialDay, [ApiNext]_apiVars
                 PROVE  Kept /\ serial' = serial
    BY DEF Kept
  <2>2. CASE UNCHANGED apiVars
    <3>1. serial => SerialDay'
      <4>1. UNCHANGED <<session, messages, apiPc, chatId, read, serial>>
        BY <2>2 DEF apiVars
      <4>2. \A c \in Chats : AloneOn(c) => AloneOn(c)'
        BY <4>1 DEF AloneOn, Active
      <4>3. \A r \in Requests : /\ QuestionIsLast(r) => QuestionIsLast(r)'
                                /\ NewChatIsMeant(r) => NewChatIsMeant(r)'
        BY <4>1 DEF QuestionIsLast, NewChatIsMeant
      <4> QED BY <2>1, <4>1, <4>2, <4>3 DEF SerialDay
    <3>2. KeptTitle /\ UNCHANGED <<messages, serial>>
      BY <2>1, <2>2, TitlesStand DEF apiVars
    <3> QED BY <2>1, <3>1, <3>2, NothingInserted
  <2>3. CASE ApiNext
    <3>1. Kept
      BY <2>1, <2>3, ArriveKept, CreateKept, InsertKept, ReadsKept, TitlesKept, DeleteKept DEF ApiNext
    <3>2. serial' = serial
      BY <2>3 DEF ApiNext, Arrive, CreateChat, InsertQuestion, SelectTitle, WriteTitle, StreamEnds,
         StreamFails, InsertReply, RenameChat, GenerateTitle, UpdateTitle, SelectPinned,
         UpdatePinned, DeleteMessages, DeleteSession, SelectSettings, WriteSettings, DeleteSettings
    <3> QED BY <3>1, <3>2
  <2> QED BY <2>1, <2>2, <2>3
<1>3. DeletionInv => ApiTypes
    BY DEF DeletionInv
<1>4. KeptLog => [IF serial THEN Promise!Next
                  ELSE \A c \in Chats : messages'[c] = <<>> \/ IsPrefix(messages[c], messages'[c])]_messages
    BY DEF KeptLog
<1> QED BY <1>1, <1>2, <1>3, <1>4, DeletionStart, DeletionStep, PTL
        DEF ApiSpec, HistoriesStand, KeepsChatLog, OnlyNewChatIsTitled, KeptTitle

=============================================================================
