----------------------------- MODULE TunnelAdmin -----------------------------
(* The commands that manage named tunnels (cmd/cloudflared/tunnel/
   subcommands.go and subcommand_context.go) on top of the REST client
   (cfapi): several processes share the account at the API and the directory
   of credentials files.  A call of the API may take effect and yet fail at
   the caller; a file may be written in part; a process may be killed.       *)
EXTENDS Naturals, Sequences, FiniteSets

CONSTANTS TunnelAdmins, MaxTunnels, TunnelNames, PerPage,
          Chosen,      \* the path given with --credentials-file
          Missing

Ids == 1..MaxTunnels
CredPaths == Ids \cup {Chosen}       \* <id>.json in the directory of the certificate

(* Identifiers are UUIDs, and the path of the flag is none of the files that
   are named after one.                                                      *)
ASSUME AdminAssumption ==
    /\ MaxTunnels \in Nat /\ PerPage \in Nat \ {0} /\ TunnelNames # {}
    /\ Chosen \notin Ids /\ Missing \notin CredPaths
    /\ \A i \in Ids, w \in BOOLEAN : Missing # [id |-> i, whole |-> w]

VARIABLES
    tunnel,    \* at the API: id -> state, name and number of connections
    adminFile,      \* path -> Missing or whose credentials it has, and are they whole
    adminCmd,       \* process -> the command it runs and how far it is
    made,      \* id -> where a create that succeeded said the credentials are
    crossed    \* paths a user had two commands write, or deleted with another tunnel

adminVars == <<tunnel, adminFile, adminCmd, made, crossed>>

Idle == [op |-> "idle", at |-> "", id |-> 0, path |-> Chosen]

AdminTypeOK ==
    /\ tunnel \in [Ids -> [state : {"none", "live", "deleted"}, name : TunnelNames,
                       conns : 0..Cardinality(TunnelAdmins)]]
    /\ adminFile \in [CredPaths -> [id : Ids, whole : BOOLEAN] \cup {Missing}]
    /\ made \in [Ids -> CredPaths \cup {Missing}]
    /\ DOMAIN adminCmd = TunnelAdmins /\ crossed \subseteq CredPaths

AdminInit ==
    /\ tunnel = [i \in Ids |->
         [state |-> "none", name |-> CHOOSE n \in TunnelNames : TRUE, conns |-> 0]]
    /\ adminFile = [x \in CredPaths |-> Missing]
    /\ adminCmd = [p \in TunnelAdmins |-> Idle]
    /\ made = [i \in Ids |-> Missing]
    /\ crossed = {}

Live == {i \in Ids : tunnel[i].state = "live"}
Becomes(p, c) == adminCmd' = [adminCmd EXCEPT ![p] = c]
AdminAt(p, op, at) == adminCmd[p].op = op /\ adminCmd[p].at = at
Moves(p, at) == Becomes(p, [adminCmd[p] EXCEPT !.at = at])

-----------------------------------------------------------------------------
(* The REST client.  CreateTunnel refuses a name in use; DeleteTunnel without
   cascade refuses a tunnel with connections, and one already deleted.       *)

\* every listing in progress learns what the property compares it with
Listing(c) == c.op = "list" /\ c.at = "page"
Observed(cmds, gone) ==
    [q \in TunnelAdmins |-> IF Listing(cmds[q])
                              THEN [cmds[q] EXCEPT !.since = @ \ {gone}, !.shrunk = TRUE]
                              ELSE cmds[q]]
Deleted(i) == tunnel' = [tunnel EXCEPT ![i].state = "deleted", ![i].conns = 0]

\* createCommand and create up to the API, with or without the answer of it
CreateTunnel(p) ==
    /\ adminCmd[p] = Idle
    /\ \E n \in TunnelNames, x \in {"own", Chosen}, answered \in BOOLEAN :
         LET i == CHOOSE k \in Ids : tunnel[k].state = "none"
                     /\ \A j \in Ids : tunnel[j].state = "none" => k <= j
         IN  /\ \E k \in Ids : tunnel[k].state = "none"
             /\ \A k \in Live : tunnel[k].name # n
             /\ tunnel' = [tunnel EXCEPT ![i] = [state |-> "live", name |-> n, conns |-> 0]]
             /\ Becomes(p, IF answered
                             THEN [op |-> "create", at |-> "stat", id |-> i,
                                   path |-> IF x = "own" THEN i ELSE x]
                             ELSE Idle)
    /\ UNCHANGED <<adminFile, made, crossed>>

\* writeTunnelCredentials failed: create takes the tunnel back, token does not
WriteGivenUp(p) ==
    IF adminCmd[p].op = "create" THEN Moves(p, "rollback") ELSE Becomes(p, Idle)

Writing(q, x) == adminCmd[q].at = "write" /\ adminCmd[q].path = x
FoundByTwo(p, x) == {y \in {x} : \E q \in TunnelAdmins \ {p} : Writing(q, x)}

\* the mutant does not look whether the file exists
StatFileUnseen(p) ==
    /\ adminCmd[p].at = "stat"
    /\ Moves(p, "write")
    /\ crossed' = crossed \cup FoundByTwo(p, adminCmd[p].path)
    /\ UNCHANGED <<tunnel, adminFile, made>>

StatFile(p) ==
    /\ adminCmd[p].at = "stat"
    /\ \/ /\ adminFile[adminCmd[p].path] = Missing /\ Moves(p, "write")
          /\ crossed' = crossed \cup FoundByTwo(p, adminCmd[p].path)
       \/ adminFile[adminCmd[p].path] # Missing /\ WriteGivenUp(p) /\ UNCHANGED crossed
    /\ UNCHANGED <<tunnel, adminFile, made>>

Written(p, whole) ==
    adminFile' = [adminFile EXCEPT ![adminCmd[p].path] = [id |-> adminCmd[p].id, whole |-> whole]]
Reports(p) ==
    made' = IF adminCmd[p].op = "create" THEN [made EXCEPT ![adminCmd[p].id] = adminCmd[p].path] ELSE made

\* os.WriteFile with mode 0400: what came after the Stat is written over by
\* root; for others it cannot be opened, as in a directory they may not change
WriteCredentials(p) ==
    /\ adminCmd[p].at = "write"
    /\ \/ Written(p, TRUE) /\ Reports(p) /\ Becomes(p, Idle)
       \/ Written(p, FALSE) /\ WriteGivenUp(p) /\ UNCHANGED made
       \/ WriteGivenUp(p) /\ UNCHANGED <<adminFile, made>>
    /\ UNCHANGED <<tunnel, crossed>>

\* the tunnel is deleted with cascade, or the user is told to do it
Rollback(p) ==
    /\ AdminAt(p, "create", "rollback")
    /\ LET i == adminCmd[p].id
       IN  \/ Deleted(i) /\ adminCmd' = [Observed(adminCmd, i) EXCEPT ![p] = Idle]
           \/ Becomes(p, Idle) /\ UNCHANGED tunnel
    /\ UNCHANGED <<adminFile, made, crossed>>

-----------------------------------------------------------------------------
(* delete: names must denote one active tunnel, identifiers are taken as they
   are.  The file of --credentials-file is removed whatever is in it.        *)
FindIDs(ref) == IF ref \in Ids THEN {ref} ELSE {i \in Live : tunnel[i].name = ref}

HasSecret(x, i) == adminFile[x] # Missing /\ adminFile[x].id = i

DeleteCommand(p) ==
    /\ adminCmd[p] = Idle
    /\ \E ref \in Live \cup TunnelNames : \E i \in FindIDs(ref) :
          \E x \in {i, Chosen} :
             /\ Becomes(p, [op |-> "delete", at |-> "delete", id |-> i, path |-> x])
             /\ crossed' = IF x = i \/ HasSecret(x, i) THEN crossed ELSE crossed \cup {x}
    /\ UNCHANGED <<tunnel, adminFile, made>>

DeleteTunnel(p) ==
    /\ AdminAt(p, "delete", "delete")
    /\ LET i == adminCmd[p].id
           refused == tunnel[i].state # "live"
       IN  \E force, answered \in BOOLEAN :
             IF refused \/ (~force /\ tunnel[i].conns > 0)
               THEN Becomes(p, Idle) /\ UNCHANGED tunnel
               ELSE /\ Deleted(i)
                    /\ adminCmd' = [Observed(adminCmd, i) EXCEPT
                                      ![p] = IF answered THEN [@ EXCEPT !.at = "file"] ELSE Idle]
    /\ UNCHANGED <<adminFile, made, crossed>>

\* credFinder.Path: the path of the flag, else the file of the tunnel's id
RemoveFile(p) ==
    /\ AdminAt(p, "delete", "file")
    /\ adminFile' = [adminFile EXCEPT ![adminCmd[p].path] = Missing]
    /\ Becomes(p, Idle)
    /\ UNCHANGED <<tunnel, made, crossed>>

\* token --cred-file: what the API answers goes to the chosen file
TokenCommand(p) ==
    /\ adminCmd[p] = Idle
    /\ \E i \in Live : Becomes(p, [op |-> "token", at |-> "stat", id |-> i, path |-> Chosen])
    /\ UNCHANGED <<tunnel, adminFile, made, crossed>>

-----------------------------------------------------------------------------
(* run and cleanup.                                                          *)

\* findID: an identifier, else the id in the file of the flag, else a name
FindID(ref, flag) ==
    IF ref \in Ids THEN {ref}
    ELSE IF flag # Missing /\ adminFile[flag] # Missing /\ adminFile[flag].whole
      THEN {adminFile[flag].id}
    ELSE FindIDs(ref)

\* the credentials found are used under the id found, whichever id they are
\* of; the edge accepts them only for their own tunnel
RunCommand(p) ==
    /\ adminCmd[p] = Idle
    /\ \E ref \in Ids \cup TunnelNames, flag \in {Chosen, Missing} :
          \E i \in FindID(ref, flag) :
             LET x == IF flag = Missing THEN i ELSE flag
             IN  /\ adminFile[x] # Missing /\ adminFile[x].whole
                 /\ adminFile[x].id = i /\ i \in Live
                 /\ tunnel' = [tunnel EXCEPT ![i].conns = @ + 1]
                 /\ Becomes(p, [op |-> "run", at |-> "", id |-> i, path |-> x])
    /\ UNCHANGED <<adminFile, made, crossed>>

\* cleanup removes the records of connections, not the connections
CleanupCommand(p) ==
    /\ adminCmd[p] = Idle
    /\ \E ref \in Ids \cup TunnelNames : \E i \in FindIDs(ref) :
          /\ tunnel[i].conns > 0
          /\ tunnel' = [tunnel EXCEPT ![i].conns = 0]
    /\ UNCHANGED <<adminFile, adminCmd, made, crossed>>

-----------------------------------------------------------------------------
(* list: the pages are fetched one by one from an account that changes.      *)
Listed == LET below(i) == Cardinality({j \in Live : j <= i})
          IN  [k \in 1..Cardinality(Live) |-> CHOOSE i \in Live : below(i) = k]

ListCommand(p) ==
    /\ adminCmd[p] = Idle
    /\ Becomes(p, [op |-> "list", at |-> "page", page |-> 1, got |-> <<>>,
                   since |-> Live, shrunk |-> FALSE])
    /\ UNCHANGED <<tunnel, adminFile, made, crossed>>

PageOf(k) == SubSeq(Listed, (k - 1) * PerPage + 1,
                    IF k * PerPage < Len(Listed) THEN k * PerPage ELSE Len(Listed))

\* fetchExhaustively: a page that is not full, or as many results as there are
LastPage(count, got) == count < PerPage \/ got >= Len(Listed)

FetchPage(p) ==
    /\ AdminAt(p, "list", "page")
    /\ LET c == adminCmd[p]
           all == c.got \o PageOf(c.page)
       IN  Becomes(p, [c EXCEPT !.got = all, !.page = @ + 1,
                         !.at = IF LastPage(Len(PageOf(c.page)), Len(all)) THEN "shown" ELSE "page"])
    /\ UNCHANGED <<tunnel, adminFile, made, crossed>>

\* a command ends, an error of the API ends it, or its process is killed
Ends(p) ==
    /\ adminCmd[p] # Idle
    /\ tunnel' = IF adminCmd[p].op = "run" /\ tunnel[adminCmd[p].id].conns > 0
                   THEN [tunnel EXCEPT ![adminCmd[p].id].conns = @ - 1] ELSE tunnel
    /\ Becomes(p, Idle)
    /\ UNCHANGED <<adminFile, made, crossed>>

AdminNext == \E p \in TunnelAdmins :
    \/ CreateTunnel(p) \/ StatFile(p) \/ WriteCredentials(p) \/ Rollback(p)
    \/ DeleteCommand(p) \/ DeleteTunnel(p) \/ RemoveFile(p) \/ TokenCommand(p)
    \/ RunCommand(p) \/ CleanupCommand(p)
    \/ ListCommand(p) \/ FetchPage(p) \/ Ends(p)

AdminSpec == AdminInit /\ [][AdminNext]_adminVars

-----------------------------------------------------------------------------
CreatedStaysUsable ==
    \A i \in Live : made[i] \notin {Missing} \cup crossed =>
        adminFile[made[i]] = [id |-> i, whole |-> TRUE]

ListedIsComplete ==
    \A p \in TunnelAdmins : AdminAt(p, "list", "shown") /\ ~adminCmd[p].shrunk =>
        \A i \in adminCmd[p].since : \E k \in DOMAIN adminCmd[p].got : adminCmd[p].got[k] = i

(* A tunnel that a create reported keeps its secret: while it is not deleted,
   the file that was named to the user has its whole credentials, wherever
   other commands on the same paths stop or fail.  That is so for a path that
   no delete of another tunnel was given and that no two commands found missing
   at once: the check is not one step with the write, and the file of the flag
   is removed unread (create, writeTunnelCredentials, delete).  A listing shows
   every tunnel that was there from its first page to its last, unless one was
   deleted while it ran (fetchExhaustively).                                 *)
TunnelsAreUsable == CreatedStaysUsable /\ ListedIsComplete
=============================================================================
