------------------------------- MODULE Token -------------------------------
(* Access tokens of the command line client: processes that log in share, in
   one directory, a token file per application, a token file of the
   organisation and a lock file beside each (token/token.go,
   token/transfer.go), and drive them from "access login" and "access curl"
   (cmd/cloudflared/access/cmd.go).  A lock file is never removed by its
   owner: it is reclaimed when it looks stale.                             *)
EXTENDS Naturals, FiniteSets

CONSTANTS Logins,      \* processes; each logs in to one application
          App,        \* App[p]: the token path of the application of p
          Org,        \* the token path of the organisation
          NoLock

ASSUME LoginAssumption ==
    NoLock \notin [by : Logins, written : BOOLEAN, old : BOOLEAN]

Paths == {App[p] : p \in Logins} \cup {Org}

VARIABLES
    tokenFile,       \* path -> "absent", "valid", "revoked" (by the edge), "expired"
    lock,       \* path -> NoLock or the lock file: who created it, is it written, is it old
    loginPc,         \* where each process is
    want,       \* the path whose lock the process waits for
    held,       \* the locks it acquired in this call of getToken
    orgPath,    \* is the token of the organisation to be stored
    loginTries,      \* calls of getToken that verifyTokenAtEdge has left
    alive,
    reclaimed   \* paths whose lock file was ever removed as stale

loginVars == <<tokenFile, lock, loginPc, want, held, orgPath, loginTries, alive, reclaimed>>

InGetToken == {"create", "write", "check", "remove", "locked", "exchange",
               "transfer", "saveOrg", "saveApp"}

LoginTypeOK ==
    /\ tokenFile \in [Paths -> {"absent", "valid", "revoked", "expired"}]
    /\ lock \in [Paths -> [by : Logins, written : BOOLEAN, old : BOOLEAN] \cup {NoLock}]
    /\ loginPc \in [Logins -> InGetToken \cup {"get", "verify", "done", "failed"}]
    /\ want \in [Logins -> Paths] /\ held \in [Logins -> SUBSET Paths]
    /\ orgPath \in [Logins -> BOOLEAN] /\ loginTries \in [Logins -> 0..1]
    /\ alive \in [Logins -> BOOLEAN] /\ reclaimed \subseteq Paths

LoginInit ==
    /\ tokenFile = [x \in Paths |-> "absent"] /\ lock = [x \in Paths |-> NoLock]
    /\ loginPc = [p \in Logins |-> "get"] /\ want = App
    /\ held = [p \in Logins |-> {}] /\ orgPath = [p \in Logins |-> FALSE]
    /\ loginTries = [p \in Logins |-> 1] /\ alive = [p \in Logins |-> TRUE]
    /\ reclaimed = {}

LoginAt(p, where) == alive[p] /\ loginPc[p] = where
GoTo(p, where) == loginPc' = [loginPc EXCEPT ![p] = where]
OnDisk(path) == tokenFile[path] \in {"valid", "revoked"}
\* Get...TokenIfExists: an expired token is removed by whoever reads it
Forget(path) == tokenFile' = [tokenFile EXCEPT ![path] = IF @ = "expired" THEN "absent" ELSE @]

-----------------------------------------------------------------------------
(* Locks.                                                                    *)

\* getToken: a token on disk is used as it is, otherwise the lock is needed
Get(p) ==
    /\ LoginAt(p, "get")
    /\ Forget(App[p])
    /\ GoTo(p, IF OnDisk(App[p]) THEN "verify" ELSE "create")
    /\ want' = [want EXCEPT ![p] = App[p]]
    /\ held' = [held EXCEPT ![p] = {}]
    /\ orgPath' = [orgPath EXCEPT ![p] = FALSE]
    /\ UNCHANGED <<lock, loginTries, alive, reclaimed>>

\* the mutant opens without O_EXCL
TryCreateAnyway(p) ==
    /\ LoginAt(p, "create")
    /\ lock' = [lock EXCEPT ![want[p]] = [by |-> p, written |-> FALSE, old |-> FALSE]]
    /\ GoTo(p, "write")
    /\ UNCHANGED <<tokenFile, want, held, orgPath, loginTries, alive, reclaimed>>

\* O_CREATE|O_EXCL: the file is created empty, and written by WriteLock
TryCreate(p) ==
    /\ LoginAt(p, "create")
    /\ IF lock[want[p]] = NoLock
         THEN /\ lock' = [lock EXCEPT ![want[p]] =
                             [by |-> p, written |-> FALSE, old |-> FALSE]]
              /\ GoTo(p, "write")
         ELSE GoTo(p, "check") /\ UNCHANGED lock
    /\ UNCHANGED <<tokenFile, want, held, orgPath, loginTries, alive, reclaimed>>

\* the content goes to the file that was opened, which may be unlinked by now
LockWritten(p) ==
    IF lock[want[p]] # NoLock /\ lock[want[p]].by = p
      THEN [lock EXCEPT ![want[p]].written = TRUE] ELSE lock

WriteLock(p) ==
    /\ LoginAt(p, "write")
    /\ lock' = LockWritten(p)
    /\ held' = [held EXCEPT ![p] = @ \cup {want[p]}]
    /\ GoTo(p, "locked")
    /\ UNCHANGED <<tokenFile, want, orgPath, loginTries, alive, reclaimed>>

\* an error behind the create removes whatever is at the path, if it can; one of
\* the close leaves the file
WriteLockFails(p) ==
    /\ LoginAt(p, "write")
    /\ lock' \in {[lock EXCEPT ![want[p]] = NoLock], lock, LockWritten(p)}
    /\ GoTo(p, "failed")
    /\ UNCHANGED <<tokenFile, want, held, orgPath, loginTries, alive, reclaimed>>

\* an empty file, a dead owner or an old file is stale
IsStale(l) == ~l.written \/ ~alive[l.by] \/ l.old

IsLockFileStale(p) ==
    /\ LoginAt(p, "check")
    /\ LET stale == IF lock[want[p]] = NoLock THEN FALSE ELSE IsStale(lock[want[p]])
       IN  GoTo(p, IF stale THEN "remove" ELSE "create")
    /\ UNCHANGED <<tokenFile, lock, want, held, orgPath, loginTries, alive, reclaimed>>

\* removes whatever is at the path by now
Reclaim(p) ==
    /\ LoginAt(p, "remove")
    /\ lock' = [lock EXCEPT ![want[p]] = NoLock]
    /\ reclaimed' = IF lock[want[p]] = NoLock THEN reclaimed ELSE reclaimed \cup {want[p]}
    /\ GoTo(p, "create")
    /\ UNCHANGED <<tokenFile, want, held, orgPath, loginTries, alive>>

\* ten minutes of waiting, or a file that cannot be created
LockTimeout(p) ==
    /\ LoginAt(p, "create")
    /\ GoTo(p, "failed")
    /\ UNCHANGED <<tokenFile, lock, want, held, orgPath, loginTries, alive, reclaimed>>

-----------------------------------------------------------------------------
(* getToken behind its locks.                                                *)

\* another process may have fetched the token meanwhile
AppLocked(p) ==
    /\ LoginAt(p, "locked") /\ want[p] = App[p]
    /\ IF OnDisk(App[p])
         THEN GoTo(p, "verify") /\ UNCHANGED <<tokenFile, want>>
         ELSE \* an expired token of the organisation is no error: it is
              \* removed, and "" is exchanged for an application token
              /\ tokenFile' = [x \in Paths |-> IF x \in {App[p], Org} /\ tokenFile[x] = "expired"
                                               THEN "absent" ELSE tokenFile[x]]
              /\ IF tokenFile[Org] = "absent"
                   THEN GoTo(p, "create") /\ want' = [want EXCEPT ![p] = Org]
                   ELSE GoTo(p, "exchange") /\ UNCHANGED want
    /\ orgPath' = [orgPath EXCEPT ![p] = ~OnDisk(App[p]) /\ tokenFile[Org] = "absent"]
    /\ UNCHANGED <<lock, held, loginTries, alive, reclaimed>>

OrgLocked(p) ==
    /\ LoginAt(p, "locked") /\ want[p] = Org
    /\ Forget(Org)
    /\ GoTo(p, IF tokenFile[Org] = "absent" THEN "transfer" ELSE "exchange")
    /\ UNCHANGED <<lock, want, held, orgPath, loginTries, alive, reclaimed>>

\* exchangeOrgToken: the edge gives a token for one of the organisation that
\* it still accepts; every other answer leads to the transfer service
ExchangeOrgToken(p) ==
    /\ LoginAt(p, "exchange")
    /\ \/ /\ tokenFile[Org] = "valid"
          /\ tokenFile' = [tokenFile EXCEPT ![App[p]] = "valid"]
          /\ GoTo(p, "verify")
       \/ GoTo(p, "transfer") /\ UNCHANGED tokenFile
    /\ UNCHANGED <<lock, want, held, orgPath, loginTries, alive, reclaimed>>

\* RunTransfer polls until the user has logged in, at most ten times
RunTransfer(p) ==
    /\ LoginAt(p, "transfer")
    /\ \E where \in {IF orgPath[p] THEN "saveOrg" ELSE "saveApp", "failed"} : GoTo(p, where)
    /\ UNCHANGED <<tokenFile, lock, want, held, orgPath, loginTries, alive, reclaimed>>

Save(p) ==
    /\ \E kind \in {"saveOrg", "saveApp"} :
          /\ LoginAt(p, kind)
          /\ tokenFile' = [tokenFile EXCEPT ![IF kind = "saveOrg" THEN Org ELSE App[p]] = "valid"]
          /\ GoTo(p, IF kind = "saveOrg" THEN "saveApp" ELSE "verify")
    /\ UNCHANGED <<lock, want, held, orgPath, loginTries, alive, reclaimed>>

-----------------------------------------------------------------------------
(* The commands.  The edge answers as it likes: a token in hand may be older
   than the one on disk.                                                     *)

\* verifyTokenAtEdge: a token that the edge refuses is removed and fetched
\* once more, in this process, whose own lock file is still there
VerifyTokenAtEdge(p) ==
    /\ LoginAt(p, "verify")
    /\ \E refused \in BOOLEAN :
          LET again == refused /\ loginTries[p] = 1
          IN  /\ GoTo(p, IF again THEN "get"
                         ELSE IF ~refused /\ OnDisk(App[p]) THEN "done" ELSE "failed")
              /\ tokenFile' = IF again THEN [tokenFile EXCEPT ![App[p]] = "absent"] ELSE tokenFile
              /\ loginTries' = [loginTries EXCEPT ![p] = IF again THEN 0 ELSE @]
    /\ UNCHANGED <<lock, want, held, orgPath, alive, reclaimed>>

-----------------------------------------------------------------------------
(* The environment.                                                          *)

\* a process ends, by itself or not; its lock files stay
Die(p) ==
    /\ alive[p]
    /\ alive' = [alive EXCEPT ![p] = FALSE]
    /\ UNCHANGED <<tokenFile, lock, loginPc, want, held, orgPath, loginTries, reclaimed>>

\* more than ten minutes have gone by since the file was written
LockAges(x) ==
    /\ lock[x] # NoLock /\ lock[x].written /\ ~lock[x].old
    /\ lock' = [lock EXCEPT ![x].old = TRUE]
    /\ UNCHANGED <<tokenFile, loginPc, want, held, orgPath, loginTries, alive, reclaimed>>

TokenEnds(x) ==
    /\ tokenFile[x] = "valid"
    /\ \E how \in {"expired", "revoked"} : tokenFile' = [tokenFile EXCEPT ![x] = how]
    /\ UNCHANGED <<lock, loginPc, want, held, orgPath, loginTries, alive, reclaimed>>

LoginNext ==
    \/ \E p \in Logins :
          \/ Get(p) \/ TryCreate(p) \/ WriteLock(p) \/ WriteLockFails(p) \/ IsLockFileStale(p)
          \/ Reclaim(p) \/ LockTimeout(p) \/ AppLocked(p) \/ OrgLocked(p)
          \/ ExchangeOrgToken(p) \/ RunTransfer(p) \/ Save(p)
          \/ VerifyTokenAtEdge(p) \/ Die(p)
    \/ \E x \in Paths : LockAges(x) \/ TokenEnds(x)

LoginSpec == LoginInit /\ [][LoginNext]_loginVars

-----------------------------------------------------------------------------
(* Between acquireLockFile and the end of getToken.                          *)
Holds(p, x) == alive[p] /\ loginPc[p] \in InGetToken /\ x \in held[p]
IsOld(x) == lock[x] # NoLock /\ lock[x].old

(* Two processes hold a lock together only when a lock file of it was taken
   for stale and removed: the create itself lets one process in
   (tryCreateLockFile).                                                      *)
OneHolderUnlessReclaimed ==
    \A x \in Paths \ reclaimed :
        /\ Cardinality({p \in Logins : Holds(p, x)}) <= 1
        /\ \A p \in Logins : Holds(p, x) => lock[x] # NoLock /\ lock[x].by = p

(* acquireLockFile says that the atomic create is the tiebreaker when several
   processes race to reclaim a stale lock: then no two hold it, unless the
   owner has been there for ten minutes.  A waiter that has judged the file
   stale removes whatever is at the path by then, and a file just created is
   still empty, which counts as stale.                                       *)
LockIsExclusive ==
    \A x \in Paths : ~IsOld(x) => Cardinality({p \in Logins : Holds(p, x)}) <= 1
=============================================================================
